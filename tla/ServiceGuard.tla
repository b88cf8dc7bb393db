---------------------------- MODULE ServiceGuard ---------------------------
(***************************************************************************)
(* The guard that stops Windows Audio while Setup replaces files:           *)
(* AudioServiceGuard in src/setup/setup_main.cpp.  Its constructor stops    *)
(* the active services that depend on Windows Audio, deepest first, and     *)
(* then Windows Audio; the destructor, and the catch block of the           *)
(* constructor, start again what was stopped, in the opposite order.        *)
(*                                                                          *)
(* The service control manager (SCM) is external: it refuses to stop a      *)
(* service with active dependents, starts the dependencies of a service     *)
(* with it, and takes any time to finish a stop or a start.  The guard      *)
(* polls for a tenth of a second a hundred times and then gives up, however *)
(* far the service has come; other programs may start services meanwhile.   *)
(***************************************************************************)
EXTENDS Naturals, Sequences, FiniteSets, SequencesExt

CONSTANTS
    Audio,          \* the service "Audiosrv"
    Dependents,     \* the services that depend on it, directly or not
    DependsOn,      \* service -> the services it depends on directly
    MaxTimeouts,    \* bound: waits given up on a service that is on its way
    MaxCallFailures,      \* bound: failing SCM calls of the constructor
    MaxForeignStarts      \* bound: services other programs start

Services == Dependents \union {Audio}

\* The services s needs, and those that need it, directly or not.
Needs(s) ==
    {d \in Services :
        \A closed \in SUBSET Services :
            DependsOn[s] \subseteq closed
              /\ (\A e \in closed : DependsOn[e] \subseteq closed)
            => d \in closed}
NeededBy(s) == {d \in Services : s \in Needs(d)}

ASSUME DependenceAssumption ==
    /\ Audio \notin Dependents
    /\ DependsOn \in [Services -> SUBSET Services]
    /\ DependsOn[Audio] = {}
    /\ \A s \in Dependents : Audio \in Needs(s) /\ s \notin Needs(s)

VARIABLES
    state,          \* service -> dwCurrentState, as the SCM has it
    pc,             \* where the guard is
    frames,         \* the calls of stop_active_dependents that are open
    wasRunning,     \* was_running_
    stopPending,    \* Windows Audio was being stopped when the guard looked
    stopped,        \* stopped_dependents_
    restarts,       \* the services restore_services has still to restart
    timeouts, callFailures, foreignStarts,
    initial,        \* the state of the services when the guard began
    startedOutside  \* services other programs started

guard == <<pc, frames, wasRunning, stopPending, stopped, restarts>>
guardBounds == <<timeouts, callFailures, foreignStarts>>
guardHistory == <<initial, startedOutside>>
guardVars == <<state, guard, guardBounds, guardHistory>>

-----------------------------------------------------------------------------
(* The service control manager.                                             *)

Active(s) == state[s] # "stopped"
ActiveDependents(s) == {d \in NeededBy(s) : Active(d)}   \* EnumDependentServices

FinishStop(s) ==
    /\ state[s] = "stopping"
    /\ state' = [state EXCEPT ![s] = "stopped"]
    /\ UNCHANGED <<guard, guardBounds, guardHistory>>

FinishStart(s) ==
    /\ state[s] = "starting" /\ \A d \in DependsOn[s] : state[d] = "running"
    /\ state' = [state EXCEPT ![s] = "running"]
    /\ UNCHANGED <<guard, guardBounds, guardHistory>>

\* A start can begin when s is stopped and nothing it needs is being stopped.
CanStart(s) == state[s] = "stopped" /\ \A d \in Needs(s) : state[d] # "stopping"
Started(s) ==
    [d \in Services |-> IF d \in Needs(s) \union {s} /\ state[d] = "stopped"
                        THEN "starting" ELSE state[d]]

\* Another program starts a service.
StartOutside(s) ==
    /\ pc # "done" /\ foreignStarts < MaxForeignStarts /\ CanStart(s)
    /\ state' = Started(s) /\ foreignStarts' = foreignStarts + 1
    /\ startedOutside' =
         startedOutside \union {d \in Services : state'[d] # state[d]}
    /\ UNCHANGED <<guard, timeouts, callFailures, initial>>

-----------------------------------------------------------------------------
(* The constructor.                                                         *)

Top == Last(frames)
FrameOf(s) == [service |-> s, names |-> ActiveDependents(s)]

\* restore_services and, around it, the end of the guard.
Restore ==
    /\ pc' = "restoring" /\ frames' = <<>>
    /\ restarts' = (IF wasRunning THEN <<Audio>> ELSE <<>>) \o Reverse(stopped)
    /\ UNCHANGED <<state, wasRunning, stopPending, stopped, guardHistory>>

\* An exception in the constructor: the catch block restores.
ThrowAndRestore == Restore /\ UNCHANGED guardBounds

\* The service is looked at.  A stopped one is left alone.
Open ==
    /\ pc = "open"
    /\ wasRunning' = Active(Audio) /\ stopPending' = (state[Audio] = "stopping")
    /\ IF Active(Audio) THEN pc' = "stopping" /\ frames' = <<FrameOf(Audio)>>
       ELSE pc' = "holding" /\ UNCHANGED frames
    /\ UNCHANGED <<state, stopped, restarts, guardBounds, guardHistory>>

\* The next dependent of the list taken when the frame was opened.
OpenDependent ==
    /\ pc = "stopping" /\ Top.names # {}
    /\ \E d \in Top.names :
         frames' = Append(Front(frames) \o <<[Top EXCEPT !.names = @ \ {d}]>>,
                          FrameOf(d))
    /\ UNCHANGED <<state, pc, wasRunning, stopPending, stopped, restarts,
                   guardBounds, guardHistory>>

\* ControlService(SERVICE_CONTROL_STOP): a stopped service counts as stopped,
\* a service that is starting, stopping or needed refuses.
StopControl(s) ==
    \/ state[s] = "stopped" /\ UNCHANGED state
    \/ /\ state[s] = "running" /\ ActiveDependents(s) = {}
       /\ state' = [state EXCEPT ![s] = "stopping"]
Refuses(s) ==
    \/ state[s] \in {"starting", "stopping"}
    \/ state[s] = "running" /\ ActiveDependents(s) # {}

\* Its own dependents are stopped, and the dependent has stopped as well.
LeaveStopped ==
    /\ pc = "stopping" /\ Top.names = {}
    /\ Top.service # Audio /\ state[Top.service] = "stopped"
    /\ frames' = Front(frames)
    /\ UNCHANGED <<state, pc, wasRunning, stopPending, stopped, restarts,
                   guardBounds, guardHistory>>

\* Otherwise it is recorded and asked to stop, unless it is stopping already.
\* Of Windows Audio the look that Open took decides.
IsAsked(s) == IF s = Audio THEN ~stopPending ELSE state[s] # "stopping"
StopService ==
    LET s == Top.service IN
    /\ pc = "stopping" /\ Top.names = {}
    /\ \/ s = Audio /\ UNCHANGED stopped
       \/ s # Audio /\ state[s] # "stopped" /\ stopped' = Append(stopped, s)
    /\ \/ ~IsAsked(s) /\ UNCHANGED state
       \/ IsAsked(s) /\ StopControl(s)
    /\ pc' = "waiting"
    /\ UNCHANGED <<frames, wasRunning, stopPending, restarts, guardBounds,
                   guardHistory>>

\* The request is refused.  The dependent is on the list by then.
StopRefused ==
    LET s == Top.service
        recorded == IF s = Audio THEN stopped ELSE Append(stopped, s)
    IN  /\ pc = "stopping" /\ Top.names = {} /\ Refuses(s)
        /\ IsAsked(s)
        /\ stopped' = recorded
        /\ pc' = "restoring" /\ frames' = <<>>
        /\ restarts' = <<Audio>> \o Reverse(recorded)
        /\ UNCHANGED <<state, wasRunning, stopPending, guardBounds,
                       guardHistory>>

\* Mutant: the result of wait_for is not looked at.
SeeStopped_Unchecked ==
    /\ pc = "waiting"
    /\ IF Len(frames) = 1 THEN pc' = "holding" /\ frames' = <<>>
       ELSE pc' = "stopping" /\ frames' = Front(frames)
    /\ UNCHANGED <<state, wasRunning, stopPending, stopped, restarts,
                   guardBounds, guardHistory>>

\* wait_for(SERVICE_STOPPED) sees the service stopped: the frame is closed.
SeeStopped ==
    /\ pc = "waiting" /\ state[Top.service] = "stopped"
    /\ IF Len(frames) = 1 THEN pc' = "holding" /\ frames' = <<>>
       ELSE pc' = "stopping" /\ frames' = Front(frames)
    /\ UNCHANGED <<state, wasRunning, stopPending, stopped, restarts,
                   guardBounds, guardHistory>>

\* A wait is given up: for a service that is on its way one of the bounded
\* timeouts, for any other the only end the wait has.
GivesUp(s, way) ==
    \/ state[s] # way /\ UNCHANGED timeouts
    \/ state[s] = way /\ timeouts < MaxTimeouts /\ timeouts' = timeouts + 1

\* Mutant: the polls of wait_for are not counted.
StopTimesOut_Polls ==
    pc = "waiting" /\ state[Top.service] # "stopped" /\ UNCHANGED guardVars

StopTimesOut ==
    /\ pc = "waiting" /\ state[Top.service] # "stopped"
    /\ GivesUp(Top.service, "stopping")
    /\ Restore
    /\ UNCHANGED <<callFailures, foreignStarts>>

\* A call to the SCM fails: opening or querying a service, or enumerating.
CallFails ==
    /\ pc \in {"open", "stopping"} /\ callFailures < MaxCallFailures
    /\ callFailures' = callFailures + 1
    /\ Restore
    /\ UNCHANGED <<timeouts, foreignStarts>>

-----------------------------------------------------------------------------
(* The destructor.                                                          *)

\* The files are replaced, or that failed; the guard goes out of scope.
Release == pc = "holding" /\ ThrowAndRestore

Following == restarts' = Tail(restarts) /\ pc' = "restoring"

\* Mutant: the start does not wait for the stop that is under way.
Restart_AtOnce ==
    LET s == Head(restarts) IN
    /\ pc = "restoring" /\ restarts # <<>>
    /\ \/ state[s] = "running" /\ Following /\ UNCHANGED state
       \/ state[s] = "stopping" /\ pc' = "starting" /\ UNCHANGED <<state,
                                                                   restarts>>
       \/ /\ CanStart(s)
          /\ state' = Started(s) /\ pc' = "starting" /\ UNCHANGED restarts
       \/ /\ state[s] = "starting" /\ pc' = "starting"
          /\ UNCHANGED <<state, restarts>>
       \/ /\ state[s] = "stopped" /\ ~CanStart(s)
          /\ Following /\ UNCHANGED state
    /\ UNCHANGED <<frames, wasRunning, stopPending, stopped, guardBounds,
                   guardHistory>>

\* restart_service, up to its first wait.
Restart ==
    LET s == Head(restarts) IN
    /\ pc = "restoring" /\ restarts # <<>>
    /\ \/ state[s] = "running" /\ Following /\ UNCHANGED state
       \/ state[s] = "stopping" /\ pc' = "settling" /\ UNCHANGED <<state,
                                                                   restarts>>
       \/ /\ CanStart(s)
          /\ state' = Started(s) /\ pc' = "starting" /\ UNCHANGED restarts
       \/ /\ state[s] = "starting" /\ pc' = "starting"     \* already running
          /\ UNCHANGED <<state, restarts>>
       \/ /\ state[s] = "stopped" /\ ~CanStart(s)           \* a dependency fails
          /\ Following /\ UNCHANGED state
    /\ UNCHANGED <<frames, wasRunning, stopPending, stopped, guardBounds,
                   guardHistory>>

\* The stop that was under way is waited for, and then the service started; one
\* that is still stopping counts as running already for the SCM.
Settle ==
    LET s == Head(restarts) IN
    /\ pc = "settling"
    /\ \/ state[s] = "stopped" /\ UNCHANGED timeouts
       \/ state[s] # "stopped" /\ GivesUp(s, "stopping")
    /\ IF state[s] = "stopped" /\ ~CanStart(s) THEN Following /\ UNCHANGED state
       ELSE /\ pc' = "starting" /\ UNCHANGED restarts
            /\ IF CanStart(s) THEN state' = Started(s) ELSE UNCHANGED state
    /\ UNCHANGED <<frames, wasRunning, stopPending, stopped, callFailures,
                   foreignStarts, guardHistory>>

\* wait_for(SERVICE_RUNNING): seen or given up, the next service follows.
SeeRunning ==
    LET s == Head(restarts) IN
    /\ pc = "starting"
    /\ \/ state[s] = "running" /\ UNCHANGED timeouts
       \/ state[s] # "running" /\ GivesUp(s, "starting")
    /\ Following
    /\ UNCHANGED <<state, frames, wasRunning, stopPending, stopped,
                   callFailures,
                   foreignStarts, guardHistory>>

\* stopped_dependents_.clear and close_handles.
EndGuard ==
    /\ pc = "restoring" /\ restarts = <<>>
    /\ pc' = "done" /\ stopped' = <<>>
    /\ UNCHANGED <<state, frames, wasRunning, stopPending, restarts,
                   guardBounds, guardHistory>>

-----------------------------------------------------------------------------
\* States the SCM can be in: what is up has what it needs, and what is being
\* stopped is needed by nothing that is up.
Consistent(st) ==
    \A s \in Services : \A d \in Needs(s) :
        /\ st[s] = "running" => st[d] = "running"
        /\ st[s] = "starting" => st[d] \in {"running", "starting"}
        /\ st[s] = "stopping" => st[d] = "running"

GuardInit ==
    /\ state \in [Services -> {"stopped", "starting", "running", "stopping"}]
    /\ Consistent(state)
    /\ pc = "open" /\ frames = <<>> /\ wasRunning = FALSE /\ stopPending = FALSE
    /\ stopped = <<>> /\ restarts = <<>>
    /\ timeouts = 0 /\ callFailures = 0 /\ foreignStarts = 0
    /\ initial = state
    /\ startedOutside = {}

Constructor ==
    \/ Open \/ OpenDependent \/ LeaveStopped \/ StopService \/ StopRefused
    \/ SeeStopped \/ StopTimesOut \/ CallFails
Destructor == Release \/ Restart \/ Settle \/ SeeRunning \/ EndGuard
Scm == \E s \in Services : FinishStop(s) \/ FinishStart(s)
Outside == \E s \in Services : StartOutside(s)
Done == pc = "done" /\ UNCHANGED guardVars

GuardNext == Constructor \/ Destructor \/ Scm \/ Outside \/ Done

\* The guard is a thread that is never kept waiting by anything but the SCM,
\* and the SCM finishes every stop and start in the end.
Fairness ==
    /\ WF_guardVars(Constructor) /\ WF_guardVars(Destructor)
    /\ \A s \in Services :
         WF_guardVars(FinishStop(s)) /\ WF_guardVars(FinishStart(s))

GuardSpec == GuardInit /\ [][GuardNext]_guardVars
GuardFairSpec == GuardSpec /\ Fairness

-----------------------------------------------------------------------------
(* Properties.                                                              *)

\* The type invariant.
GuardTypeOK ==
    /\ state \in [Services -> {"stopped", "starting", "running", "stopping"}]
    /\ pc \in {"open", "stopping", "waiting", "holding", "restoring", "settling",
               "starting", "done"}
    /\ frames \in Seq([service : Services, names : SUBSET Services])
    /\ wasRunning \in BOOLEAN /\ stopPending \in BOOLEAN
    /\ stopped \in Seq(Dependents) /\ restarts \in Seq(Services)

\* The constructor returns only when nothing that uses the audio engine is up:
\* the plug-in's file is replaced under no running service.
StoppedWhenHeld ==
    [][pc # "holding" /\ pc' = "holding" =>
          \A s \in Services : state'[s] = "stopped"]_guardVars

\* The guard ends, whatever the services do.
GuardEnds == <>(pc = "done")

\* "restores them after the plug-in is replaced": what was up when the guard
\* began is up again in the end, and stays up; what was not up is not, unless
\* another program started it.
ServicesComeBack ==
    \A s \in Services :
        <>[](/\ initial[s] \in {"starting", "running"} => state[s] = "running"
             /\ initial[s] = "stopped" /\ s \notin startedOutside
                  => state[s] = "stopped")
=============================================================================
