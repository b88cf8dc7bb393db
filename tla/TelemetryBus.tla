----------------------------- MODULE TelemetryBus -----------------------------
(***************************************************************************)
(* TelemetryBusWriter and TelemetryBusReader                               *)
(* (src/src/infrastructure/windows/telemetry_bus.cpp): plug-in instances   *)
(* in the audio engine publish a snapshot in a named shared mapping, and   *)
(* the editor's process reads it under a sequence lock.  The mapping lives *)
(* while anyone has it open, so it can outlive the audio engine.           *)
(*                                                                         *)
(* A snapshot is copied field by field; two fields, of which the first     *)
(* holds the timestamp, are enough to see one torn.  Snapshots are         *)
(* numbered in the order in which their publication begins, and 0 is the   *)
(* content of a fresh mapping.  The local and the global mapping name are  *)
(* one here.                                                               *)
(***************************************************************************)
EXTENDS Integers

CONSTANTS
  Writers,          \* the plug-in instances in the audio engine
  MaxSnapshots,     \* bound: snapshots
  MaxRestarts       \* bound: stops of an instance and ends of the engine

ASSUME BusAssumption ==
  /\ MaxSnapshots \in Nat
  /\ MaxRestarts \in Nat

Attempts == 4

VARIABLES
  exists,           \* the mapping exists
  valid,            \* its magic and version are written
  sequence, first, second,    \* its content
  instance,         \* where the writer of each instance is
  writing,          \* the snapshot it publishes
  latest,           \* number of the snapshot published last
  outdated,         \* snapshots up to this number are older than 2 s
  restarts,         \* terminations and stops so far
  disturbed,        \* history: its lock is, or may be, off its beat
  reader,           \* where the editor's poll is
  attempt, before, copied,    \* read_latest's locals
  shown             \* what the last poll returned; 0 is AUDIO ENGINE OFFLINE

mappingVars == <<exists, valid, sequence, first, second>>
instanceVars == <<instance, writing, latest, restarts, disturbed>>
readerVars  == <<reader, attempt, before, copied, shown>>
busVars == <<mappingVars, instanceVars, outdated, readerVars>>

Writing == {"begun", "half", "done"}
HasHandle(w) == instance[w] \in {"created", "open"} \cup Writing
Publishing == \E w \in Writers : instance[w] \in Writing
ReaderHasHandle == reader # "closed"

BusInit ==
  /\ exists = FALSE /\ valid = FALSE
  /\ sequence = 0 /\ first = 0 /\ second = 0
  /\ instance = [w \in Writers |-> "closed"]
  /\ writing = [w \in Writers |-> 0]
  /\ latest = 0
  /\ outdated = 0
  /\ restarts = 0
  /\ disturbed = FALSE
  /\ reader = "closed"
  /\ attempt = 0 /\ before = 0
  /\ copied = <<0, 0>>
  /\ shown = 0

-----------------------------------------------------------------------------
(* TelemetryBusWriter.                                                     *)

\* open(), when nobody has the mapping: it is created, zeroed.
Create(w) ==
  /\ instance[w] = "closed"
  /\ ~exists
  /\ exists' = TRUE
  /\ valid' = FALSE
  /\ sequence' = 0 /\ first' = 0 /\ second' = 0
  /\ instance' = [instance EXCEPT ![w] = "created"]
  /\ disturbed' = FALSE
  /\ UNCHANGED <<writing, latest, restarts, outdated, readerVars>>

\* ... and its header is written, after the content is cleared once more.
Initialize(w) ==
  /\ instance[w] = "created"
  /\ valid' = TRUE
  /\ sequence' = 0 /\ first' = 0 /\ second' = 0
  /\ instance' = [instance EXCEPT ![w] = "open"]
  /\ UNCHANGED <<exists, writing, latest, restarts, outdated, disturbed, readerVars>>

\* open(), when somebody has the mapping: it is used as it is, if its header is
\* there.  Otherwise this instance goes without telemetry until it is restarted.
Attach(w) ==
  /\ instance[w] = "closed"
  /\ exists
  /\ instance' = [instance EXCEPT ![w] = IF valid THEN "open" ELSE "failed"]
  /\ UNCHANGED <<mappingVars, writing, latest, restarts, outdated,
                 disturbed, readerVars>>

\* publish(): increment, copy, increment.
BeginPublish(w) ==
  /\ instance[w] = "open"
  /\ latest < MaxSnapshots
  /\ latest' = latest + 1
  /\ writing' = [writing EXCEPT ![w] = latest + 1]
  /\ sequence' = sequence + 1
  /\ instance' = [instance EXCEPT ![w] = "begun"]
  /\ disturbed' = (disturbed \/ Publishing)
  /\ UNCHANGED <<exists, valid, first, second, restarts, outdated, readerVars>>

\* Mutation of WriteFirst: the copy begins before the lock is taken, as if the
\* first barrier were missing.
WriteFirst_Early(w) ==
  /\ instance[w] = "open"
  /\ latest < MaxSnapshots
  /\ latest' = latest + 1
  /\ first' = latest + 1
  /\ writing' = [writing EXCEPT ![w] = latest + 1]
  /\ instance' = [instance EXCEPT ![w] = "half"]
  /\ disturbed' = (disturbed \/ Publishing)
  /\ UNCHANGED <<exists, valid, sequence, second, restarts, outdated,
                 readerVars>>

WriteFirst(w) ==
  /\ instance[w] = "begun"
  /\ first' = writing[w]
  /\ instance' = [instance EXCEPT ![w] = "half"]
  /\ UNCHANGED <<exists, valid, sequence, second, writing, latest, restarts,
                 outdated, disturbed, readerVars>>

WriteSecond(w) ==
  /\ instance[w] = "half"
  /\ second' = writing[w]
  /\ instance' = [instance EXCEPT ![w] = "done"]
  /\ UNCHANGED <<exists, valid, sequence, first, writing, latest, restarts,
                 outdated, disturbed, readerVars>>

\* Mutation of EndPublish: only the first increment.
EndPublish_Locked(w) ==
  /\ instance[w] = "done"
  /\ instance' = [instance EXCEPT ![w] = "open"]
  /\ UNCHANGED <<mappingVars, writing, latest, restarts, outdated,
                 disturbed, readerVars>>

EndPublish(w) ==
  /\ instance[w] = "done"
  /\ sequence' = sequence + 1
  /\ instance' = [instance EXCEPT ![w] = "open"]
  /\ UNCHANGED <<exists, valid, first, second, writing, latest, restarts,
                 outdated, disturbed, readerVars>>

\* stop() of the instance; the mapping goes with its last handle.
CloseWriter(w) ==
  /\ instance[w] \in {"open", "failed"}
  /\ restarts < MaxRestarts
  /\ restarts' = restarts + 1
  /\ instance' = [instance EXCEPT ![w] = "closed"]
  /\ exists' = (exists /\ (ReaderHasHandle \/ \E v \in Writers \ {w} : HasHandle(v)))
  /\ UNCHANGED <<valid, sequence, first, second, writing, latest, outdated,
                 disturbed, readerVars>>

\* The engine is terminated, even during a publication (it is recreated
\* whenever Equalizer APO applies a configuration).
EngineDies ==
  /\ restarts < MaxRestarts
  /\ restarts' = restarts + 1
  /\ instance' = [w \in Writers |-> "closed"]
  /\ writing' = [w \in Writers |-> 0]
  /\ exists' = (exists /\ ReaderHasHandle)
  /\ disturbed' = (disturbed \/ Publishing)
  /\ UNCHANGED <<valid, sequence, first, second, latest, outdated, readerVars>>

\* Two seconds without a publication: what is published is outdated.
TimePasses ==
  /\ outdated # latest
  /\ ~Publishing
  /\ outdated' = latest
  /\ UNCHANGED <<mappingVars, instanceVars, readerVars>>

-----------------------------------------------------------------------------
(* TelemetryBusReader::read_latest, polled by the editor's timer.          *)

WriterHasHandle == \E w \in Writers : HasHandle(w)

\* open(): the mapping must exist and carry the header.
Poll ==
  /\ \/ /\ reader = "closed"
        /\ IF exists /\ valid
           THEN /\ reader' = "before"
                /\ UNCHANGED shown
           ELSE /\ reader' = "closed"
                /\ shown' = 0
     \/ /\ reader = "idle"
        /\ reader' = "before"
        /\ UNCHANGED shown
  /\ attempt' = 1
  /\ before' = 0
  /\ copied' = <<0, 0>>
  /\ UNCHANGED <<mappingVars, instanceVars, outdated>>

\* An attempt fails; after the fourth the mapping is closed, so that the next
\* poll finds the one of a new engine.
FailAttempt ==
  IF attempt < Attempts
  THEN /\ attempt' = attempt + 1
       /\ reader' = "before"
       /\ UNCHANGED <<shown, exists>>
  ELSE /\ attempt' = 0
       /\ reader' = "closed"
       /\ shown' = 0
       /\ exists' = WriterHasHandle

ReadBefore ==
  /\ reader = "before"
  /\ before' = sequence
  /\ IF sequence % 2 = 1
     THEN FailAttempt
     ELSE /\ reader' = "first"
          /\ UNCHANGED <<attempt, shown, exists>>
  /\ UNCHANGED <<valid, sequence, first, second, instanceVars, outdated, copied>>

CopyFirst ==
  /\ reader = "first"
  /\ copied' = [copied EXCEPT ![1] = first]
  /\ reader' = "second"
  /\ UNCHANGED <<mappingVars, instanceVars, outdated, attempt, before, shown>>

CopySecond ==
  /\ reader = "second"
  /\ copied' = [copied EXCEPT ![2] = second]
  /\ reader' = "after"
  /\ UNCHANGED <<mappingVars, instanceVars, outdated, attempt, before, shown>>

\* The copy is consistent, and its timestamp set and at most 2 s old.
Accepted ==
  /\ before = sequence
  /\ copied[1] # 0
  /\ copied[1] > outdated

ReadAfter ==
  /\ reader = "after"
  /\ IF Accepted
     THEN /\ shown' = copied[1]
          /\ attempt' = 0
          /\ reader' = "idle"
          /\ UNCHANGED exists
     ELSE FailAttempt
  /\ UNCHANGED <<valid, sequence, first, second, instanceVars, outdated, before,
                 copied>>

-----------------------------------------------------------------------------
Write ==
  \E w \in Writers :
     \/ Create(w) \/ Initialize(w) \/ Attach(w)
     \/ BeginPublish(w) \/ WriteFirst(w) \/ WriteSecond(w) \/ EndPublish(w)

Read == Poll \/ ReadBefore \/ CopyFirst \/ CopySecond \/ ReadAfter

Stop == EngineDies \/ \E w \in Writers : CloseWriter(w)

BusNext == Write \/ Read \/ Stop \/ TimePasses

BusSpec == BusInit /\ [][BusNext]_busVars

\* The writers run, and the editor's timer ticks.  Nothing makes the engine die
\* or time pass.
BusFairSpec == BusSpec /\ WF_busVars(Write) /\ WF_busVars(Read)

-----------------------------------------------------------------------------
(* Properties.                                                             *)

\* Every variable has its type.
BusTypeOK ==
  /\ exists \in BOOLEAN /\ valid \in BOOLEAN
  /\ sequence \in Nat /\ first \in Nat /\ second \in Nat
  /\ instance \in [Writers -> {"closed", "failed", "created", "open"} \cup Writing]
  /\ writing \in [Writers -> Nat]
  /\ disturbed \in BOOLEAN
  /\ latest \in Nat /\ outdated \in Nat /\ restarts \in Nat
  /\ reader \in {"closed", "idle", "before", "first", "second", "after"}
  /\ attempt \in 0..Attempts /\ before \in Nat
  /\ copied \in Nat \X Nat
  /\ shown \in Nat

\* The editor never shows a mixture of two snapshots, as long as no two
\* instances have published into the mapping at the same time and no
\* publication into it was cut off: either leaves the lock odd or even at the
\* wrong times for as long as somebody keeps the mapping open.
SnapshotIsWhole ==
  reader = "idle" /\ ~disturbed => copied[1] = copied[2]

\* The editor reconnects to a new audio-engine instance instead of displaying a
\* frozen snapshot: one published in the current mapping is shown sooner or
\* later, unless it becomes outdated first, an instance stops, or the mapping's
\* lock is disturbed.
EditorReconnects ==
  \A r \in 0..MaxRestarts, n \in 1..MaxSnapshots :
    /\ restarts = r /\ latest = n /\ first = n
    /\ \E w \in Writers : instance[w] = "open"
    ~> shown >= n \/ outdated >= n \/ restarts > r \/ disturbed

=============================================================================
