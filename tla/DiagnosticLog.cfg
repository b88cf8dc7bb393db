CONSTANTS
  Statuses = {healthy, gpu_error, reference_error}
  Erroneous = {gpu_error, reference_error}
  Nothing = Nothing
  Interval = 2
  MaxPublished = 3
  MaxSessions = 2
SPECIFICATION LogFairSpec
INVARIANTS
  EventIsValid
  LastErrorIsReported
PROPERTIES
  CloseReturns
CHECK_DEADLOCK FALSE
