CONSTANTS
  FrameSamples = 1
  Lead = 2
  Lookahead = 0
  QueueCapacity = 2
  Blocks = {2}
  HasLoopback = TRUE
  TimelyStart = TRUE
  MaxSequence = 4
  MaxSession = 2
  MaxToggles = 1
  AecAtFirst = {FALSE}
  NoiseAtFirst = {TRUE}
  Silence = Silence
SPECIFICATION WorkerFairSpec
INVARIANTS
  OnlyOwnCompleteAudio
  NoLostWakeup
  ConstantLatency
PROPERTIES
  RenderedInOrder
  ArrivedResultIsUsed
  StopReturns
