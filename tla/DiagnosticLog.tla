---------------------------- MODULE DiagnosticLog ----------------------------
(***************************************************************************)
(* AsyncDiagnosticLog (src/src/infrastructure/windows/diagnostic_log.cpp): *)
(* the audio thread publishes a snapshot if it gets the mutex at once, a   *)
(* single pending snapshot is kept, and a writer thread appends lines to   *)
(* the log file.  open() and close() are called by the thread that starts  *)
(* and stops the processor; publish() may run at any time between the      *)
(* construction and the destruction of the object.                         *)
(*                                                                         *)
(* A snapshot is its status (runtime and noise state and the two error     *)
(* codes) and its time; the counters it carries are left out.  A publish   *)
(* that is refused changes nothing and is no action.                       *)
(***************************************************************************)
EXTENDS Integers, Sequences

CONSTANTS
  Statuses,
  Erroneous,        \* the statuses with an error code
  Nothing,          \* no status
  Interval,         \* kStatisticsIntervalHns
  MaxPublished,     \* bound: accepted snapshots
  MaxSessions       \* bound: calls of open()

ASSUME LogAssumption ==
  /\ Erroneous \subseteq Statuses
  /\ Nothing \notin Statuses
  /\ Interval \in Nat
  /\ MaxPublished \in Nat
  /\ MaxSessions \in Nat

VARIABLES
  host,             \* where open() or close() is
  event,            \* wake_event: "null", "valid" or, just before that, "closed"
  wake,             \* the event is set
  stop, has_pending, pending,
  publisher,        \* the audio thread is in publish()'s critical section
  writer,           \* where the writer thread is
  snapshot, stopping,           \* the writer's locals
  previous, last_statistics,
  log,              \* the lines of this session
  session, published,           \* number of sessions and accepted snapshots
  accepted          \* history: the snapshot accepted last in this session

hostVars == <<host, event, stop, session>>
publisherVars == <<publisher, published, accepted>>
writerVars == <<writer, snapshot, stopping, previous, last_statistics, log>>
logVars == <<hostVars, wake, has_pending, pending, publisherVars, writerVars>>

Snapshot == [status : Statuses \cup {Nothing}, time : Nat, session : Nat]
NoSnapshot == [status |-> Nothing, time |-> 0, session |-> 0]
Line == [kind : {"started", "setup", "error", "statistics", "stopped"},
         about : Snapshot]

\* mutex is held across steps only by publish().
MutexFree == publisher = "idle"

LogInit ==
  /\ host = "closed"
  /\ event = "null"
  /\ wake = FALSE
  /\ stop = FALSE
  /\ has_pending = FALSE
  /\ pending = NoSnapshot
  /\ publisher = "idle"
  /\ writer = "none"
  /\ snapshot = NoSnapshot
  /\ stopping = FALSE
  /\ previous = NoSnapshot
  /\ last_statistics = 0
  /\ log = <<>>
  /\ session = 0 /\ published = 0
  /\ accepted = NoSnapshot

-----------------------------------------------------------------------------
(* open() and close().                                                     *)

\* open() first closes the log, which only sets stop here.
BeginOpen ==
  /\ host = "closed"
  /\ session < MaxSessions
  /\ MutexFree
  /\ stop' = TRUE
  /\ host' = "creating"
  /\ UNCHANGED <<event, session, wake, has_pending, pending, publisherVars,
                 writerVars>>

CreateEvent ==
  /\ host = "creating"
  /\ event' = "valid"
  /\ wake' = FALSE
  /\ host' = "resetting"
  /\ UNCHANGED <<stop, session, has_pending, pending, publisherVars,
                 writerVars>>

\* The state is reset under the mutex, and the writer is created.
FinishOpen ==
  /\ host = "resetting"
  /\ MutexFree
  /\ stop' = FALSE
  /\ has_pending' = FALSE
  /\ session' = session + 1
  /\ writer' = "opening"
  /\ log' = <<>>
  /\ previous' = NoSnapshot
  /\ last_statistics' = 0
  /\ accepted' = NoSnapshot
  /\ host' = "open"
  /\ UNCHANGED <<event, wake, pending, publisher, published, snapshot,
                 stopping>>

BeginClose ==
  /\ host = "open"
  /\ MutexFree
  /\ stop' = TRUE
  /\ host' = "signalling"
  /\ UNCHANGED <<event, session, wake, has_pending, pending, publisherVars,
                 writerVars>>

\* Mutation of SignalWriter: the writer is not woken.
SignalWriter_Forgets ==
  /\ host = "signalling"
  /\ host' = "joining"
  /\ UNCHANGED <<event, stop, session, wake, has_pending, pending,
                 publisherVars, writerVars>>

SignalWriter ==
  /\ host = "signalling"
  /\ wake' = TRUE
  /\ host' = "joining"
  /\ UNCHANGED <<event, stop, session, has_pending, pending, publisherVars,
                 writerVars>>

\* The join, and CloseHandle, without the mutex.
CloseEvent ==
  /\ host = "joining"
  /\ writer = "ended"
  /\ writer' = "none"
  /\ event' = "closed"
  /\ host' = "clearing"
  /\ UNCHANGED <<stop, session, wake, has_pending, pending, publisherVars,
                 snapshot, stopping, previous, last_statistics, log>>

ClearEvent ==
  /\ host = "clearing"
  /\ event' = "null"
  /\ host' = "closed"
  /\ UNCHANGED <<stop, session, wake, has_pending, pending, publisherVars,
                 writerVars>>

-----------------------------------------------------------------------------
(* publish().                                                              *)

\* Mutation of Accepts: stop is not looked at.
Accepts_Always == event # "null"

\* What publish() checks once it has the mutex.
Accepts == ~stop /\ event # "null"

PublishSnapshot(status) ==
  /\ publisher = "idle"
  /\ published < MaxPublished
  /\ Accepts
  /\ pending' = [status |-> status, time |-> published + 1,
                 session |-> session]
  /\ has_pending' = TRUE
  /\ published' = published + 1
  /\ accepted' = pending'
  /\ publisher' = "signalling"
  /\ UNCHANGED <<hostVars, wake, writerVars>>

\* SetEvent and the release of the mutex.
FinishPublish ==
  /\ publisher = "signalling"
  /\ wake' = TRUE
  /\ publisher' = "idle"
  /\ UNCHANGED <<hostVars, has_pending, pending, published, accepted,
                 writerVars>>

-----------------------------------------------------------------------------
(* The writer thread.                                                      *)

About(kind, what) == [kind |-> kind, about |-> what]

\* The file is opened, after a rotation that may fail unnoticed; if it cannot
\* be opened the thread ends.
OpenFile(opened) ==
  /\ writer = "opening"
  /\ IF opened
     THEN /\ log' = <<About("started", NoSnapshot)>>
          /\ writer' = "wait"
     ELSE /\ writer' = "ended"
          /\ UNCHANGED log
  /\ UNCHANGED <<hostVars, wake, has_pending, pending, publisherVars, snapshot,
                 stopping, previous, last_statistics>>

WakeUp ==
  /\ writer = "wait"
  /\ wake
  /\ wake' = FALSE
  /\ writer' = "take"
  /\ UNCHANGED <<hostVars, has_pending, pending, publisherVars, snapshot,
                 stopping, previous, last_statistics, log>>

\* A second has passed.
TimeOut ==
  /\ writer = "wait"
  /\ writer' = "take"
  /\ UNCHANGED <<hostVars, wake, has_pending, pending, publisherVars, snapshot,
                 stopping, previous, last_statistics, log>>

\* The critical section: stop and the pending snapshot are read together.
TakeSnapshot ==
  /\ writer = "take"
  /\ MutexFree
  /\ stopping' = stop
  /\ snapshot' = IF has_pending THEN pending ELSE NoSnapshot
  /\ has_pending' = FALSE
  /\ writer' = "write"
  /\ UNCHANGED <<hostVars, wake, pending, publisherVars, previous,
                 last_statistics, log>>

\* Mutation of ErrorChanged: an error is reported once per session.
ErrorChanged_OnlyFirst(now, before) ==
  now.status \in Erroneous /\ before.status \notin Erroneous

\* An error is reported when the status differs from the snapshot before.
ErrorChanged(now, before) ==
  now.status \in Erroneous /\ now.status # before.status

\* The time of the statistics line written last.
Statistics(now) ==
  IF last_statistics = 0 \/ now.time - last_statistics >= Interval
  THEN now.time ELSE last_statistics

\* The lines a snapshot gives rise to.
Lines(now) ==
  (IF last_statistics = 0 THEN <<About("setup", now)>> ELSE <<>>)
  \o (IF ErrorChanged(now, previous) THEN <<About("error", now)>> ELSE <<>>)
  \o (IF Statistics(now) # last_statistics
      THEN <<About("statistics", now)>> ELSE <<>>)

WriteLines ==
  /\ writer = "write"
  /\ LET lines == IF snapshot = NoSnapshot THEN <<>> ELSE Lines(snapshot)
         last  == IF stopping THEN <<About("stopped", NoSnapshot)>> ELSE <<>>
     IN  log' = log \o lines \o last
  /\ IF snapshot = NoSnapshot
     THEN UNCHANGED <<previous, last_statistics>>
     ELSE /\ previous' = snapshot
          /\ last_statistics' = Statistics(snapshot)
  /\ writer' = IF stopping THEN "ended" ELSE "wait"
  /\ UNCHANGED <<hostVars, wake, has_pending, pending, publisherVars, snapshot,
                 stopping>>

-----------------------------------------------------------------------------
Close == BeginClose \/ SignalWriter \/ CloseEvent \/ ClearEvent
Open == BeginOpen \/ CreateEvent \/ FinishOpen

WriterStep ==
  \/ \E opened \in BOOLEAN : OpenFile(opened)
  \/ WakeUp
  \/ TakeSnapshot
  \/ WriteLines

LogNext ==
  \/ Open \/ Close
  \/ \E status \in Statuses : PublishSnapshot(status)
  \/ FinishPublish
  \/ WriterStep
  \/ TimeOut

LogSpec == LogInit /\ [][LogNext]_logVars

\* All threads run; a second need not pass, and nobody need close the log.
LogFairSpec ==
  /\ LogSpec
  /\ WF_logVars(WriterStep)
  /\ WF_logVars(FinishPublish)
  /\ WF_logVars(SignalWriter \/ CloseEvent \/ ClearEvent)

-----------------------------------------------------------------------------
(* Properties.                                                             *)

\* Every variable has its type.
LogTypeOK ==
  /\ host \in {"closed", "creating", "resetting", "open", "signalling",
               "joining", "clearing"}
  /\ event \in {"null", "valid", "closed"}
  /\ wake \in BOOLEAN /\ stop \in BOOLEAN /\ has_pending \in BOOLEAN
  /\ pending \in Snapshot /\ snapshot \in Snapshot
  /\ previous \in Snapshot /\ accepted \in Snapshot
  /\ publisher \in {"idle", "signalling"}
  /\ writer \in {"none", "opening", "wait", "take", "write", "ended"}
  /\ stopping \in BOOLEAN
  /\ last_statistics \in Nat
  /\ log \in Seq(Line)
  /\ session \in Nat /\ published \in Nat

\* publish() signals an event that exists, although close() destroys the event
\* without the mutex.
EventIsValid == publisher = "signalling" => event = "valid"

ReportedErrors == {k \in 1..Len(log) : log[k].kind = "error"}

\* A session's log tells of its own snapshots only, although a writer that
\* could not open its file leaves one pending; and when the session has been
\* stopped, an error in the snapshot accepted last is the one reported last.
LastErrorIsReported ==
  /\ \A k \in 1..Len(log) :
       log[k].about = NoSnapshot \/ log[k].about.session = session
  /\ /\ log # <<>> /\ log[Len(log)].kind = "stopped"
     /\ accepted.status \in Erroneous
     => \E k \in ReportedErrors :
          /\ \A l \in ReportedErrors : l <= k
          /\ log[k].about.status = accepted.status

\* close() returns.
CloseReturns == host = "signalling" ~> host = "closed"

=============================================================================
