----------------------------- MODULE PluginStatus ---------------------------
(***************************************************************************)
(* What the plug-in says about itself: the runtime and noise states, the    *)
(* reasons of the two effects and the overload hold of PluginProcessor      *)
(* (src/plugin/plugin_processor.cpp), and the text the panel makes of them  *)
(* (runtime_status_values, vst2_plugin.cpp).                                *)
(*                                                                          *)
(* Three threads write the status without a lock: the control thread        *)
(* (start, stop, the two switches), the audio thread (process) and the GPU  *)
(* worker.  A load and the store that depends on it are separate steps.     *)
(*                                                                          *)
(* Which frame gets which result is FramePipeline's subject: here a frame   *)
(* that needs processing may miss its result at any time, and never gets a  *)
(* complete one from an effect that was not ready when it was cut.          *)
(***************************************************************************)
EXTENDS Naturals, Sequences

CONSTANTS
    HoldFrames,     \* frames an overload is shown for (50 in the code)
    Lead,           \* frames of output kept ahead of the host (8 in the code)
    MaxPending,     \* bound: frames in flight
    MaxStarts,      \* bound: calls of start()
    MaxClicks,      \* bound: uses of the switches
    Packages        \* what PackagedRuntime::prepare may find

ASSUME StatusAssumption ==
    /\ HoldFrames \in Nat \ {0}
    /\ Lead \in Nat /\ MaxPending \in Nat
    /\ Lead < MaxPending
    /\ MaxStarts \in Nat
    /\ MaxClicks \in Nat
    /\ Packages \subseteq {"whole", "no_noise_model", "unusable"}

VARIABLES
    host,           \* the control thread: where it is in start() and stop()
    enabled,        \* aec_enabled_ and noise_enabled_
    setter,         \* the effect whose switch is being set, or "none"
    clicks, starts, \* their bounds
    package,        \* what prepare() found in this session
    ready,          \* aec_ready and noise_ready
    reason,         \* aec_error_reason_ and noise_error_reason_
    runtime,        \* runtime_state_
    noise_state,    \* noise_runtime_state_
    hold,           \* overload_hold_samples, in frames
    worker,         \* where the GPU worker is
    busy,           \* it has a job
    blame,          \* the effect whose reason it is about to store, or "none"
    audio,          \* where process() is
    seen,           \* what process() has loaded and not yet stored
    capture_failed, \* loopback->failed()
    pending,        \* frames in flight
    sinceMiss       \* history: frames cut since the last one was missed

session == <<host, clicks, starts, package>>
status == <<reason, runtime, noise_state>>
callback == <<audio, seen, capture_failed, pending, hold, sinceMiss>>
statusVars == <<session, enabled, setter, ready, status, worker, busy, blame, callback>>

Effects == {"aec", "noise"}
Both(v) == [e \in Effects |-> v]
None == "none"
AnyEnabled == \E e \in Effects : enabled[e]
NothingSeen == [enabled |-> Both(FALSE), ready |-> Both(FALSE), covered |-> FALSE]
AtMost(n, m) == IF n < m THEN n ELSE m

Reasons == {None, "package", "runtime_or_gpu", "model_missing", "reference_capture"}
RuntimeStates == {"idle", "bypassed", "waiting", "active", "error", "overloaded"}
NoiseStates == {"disabled", "active", "error", "overloaded"}

StatusTypeOK ==
    /\ host \in {"stopped", "starting", "running", "stopping", "failing"}
    /\ enabled \in [Effects -> BOOLEAN]
    /\ setter \in Effects \union {None}
    /\ clicks \in 0 .. MaxClicks /\ starts \in 0 .. MaxStarts
    /\ package \in Packages \union {None}
    /\ ready \in [Effects -> BOOLEAN]
    /\ reason \in [Effects -> Reasons]
    /\ runtime \in RuntimeStates /\ noise_state \in NoiseStates
    /\ hold \in 0 .. HoldFrames
    /\ worker \in {"off", "init_aec", "init_noise", "loop"}
    /\ busy \in BOOLEAN
    /\ blame \in Effects \union {None}
    /\ audio \in {"idle", "reason", "frames", "store", "render"}
    /\ seen \in [enabled : [Effects -> BOOLEAN], ready : [Effects -> BOOLEAN],
                 covered : BOOLEAN]
    /\ capture_failed \in BOOLEAN
    /\ pending \in Seq([needs : BOOLEAN, able : BOOLEAN])
    /\ sinceMiss \in 0 .. HoldFrames

StatusInit ==
    /\ host = "stopped"
    /\ enabled \in [Effects -> BOOLEAN]
    /\ setter = None
    /\ clicks = 0 /\ starts = 0
    /\ package = None
    /\ ready = Both(FALSE)
    /\ reason = Both(None)
    /\ runtime = "idle" /\ noise_state = "disabled"
    /\ hold = 0
    /\ worker = "off" /\ busy = FALSE /\ blame = None
    /\ audio = "idle" /\ seen = NothingSeen
    /\ capture_failed = FALSE
    /\ pending = <<>>
    /\ sinceMiss = HoldFrames

-----------------------------------------------------------------------------
(* The text of the panel.                                                   *)

ModelOrRuntime(e) ==
    IF reason[e] = "model_missing" THEN "model missing" ELSE "runtime error"

\* runtime_status_values, as the control thread sees it outside a call.
PanelText ==
    IF \E e \in Effects : reason[e] = "package" THEN "package error"
    ELSE IF ~AnyEnabled THEN "all bypassed"
    ELSE IF ~enabled["aec"] THEN
        IF noise_state = "active" THEN "noise active"
        ELSE IF noise_state = "overloaded" THEN "deadline missed"
        ELSE ModelOrRuntime("noise")
    ELSE IF runtime \in {"waiting", "active"} /\ enabled["noise"] THEN
        IF noise_state = "overloaded" THEN "deadline missed"
        ELSE IF noise_state = "error" THEN ModelOrRuntime("noise") ELSE runtime
    ELSE IF runtime = "error" THEN
        IF reason["aec"] = "reference_capture" THEN "capture error"
        ELSE ModelOrRuntime("aec")
    ELSE IF runtime = "overloaded" THEN "deadline missed" ELSE runtime

Troubles == {"package error", "deadline missed", "model missing", "runtime error",
             "capture error"}
PanelOk == PanelText \notin Troubles

-----------------------------------------------------------------------------
(* The states that follow from the flags.                                   *)

RuntimeOf(on, isReady) ==
    IF ~on THEN "bypassed" ELSE IF isReady THEN "waiting" ELSE "error"

NoiseOf(on, held, isReady) ==
    IF ~on THEN "disabled"
    ELSE IF held THEN "overloaded" ELSE IF isReady THEN "active" ELSE "error"

\* Mutation of FrameRuntime: an effect that is not ready seems to wait.
FrameRuntime_NotReadyWaits(s, h) ==
    IF h # 0 THEN "overloaded"
    ELSE IF ~s.enabled["aec"] THEN "bypassed"
    ELSE IF capture_failed THEN "error"
    ELSE IF s.ready["aec"] /\ s.covered THEN "active" ELSE "waiting"

\* The runtime state the frame loop stores from what it has loaded.
FrameRuntime(s, h) ==
    IF h # 0 THEN "overloaded"
    ELSE IF ~s.enabled["aec"] THEN "bypassed"
    ELSE IF capture_failed \/ ~s.ready["aec"] THEN "error"
    ELSE IF s.covered THEN "active" ELSE "waiting"

\* Mutation of Aged: the last frame of the hold is never counted.
Aged_Sticks(h) == IF h > 1 THEN h - 1 ELSE h

Aged(h) == IF h > 1 THEN h - 1 ELSE 0

-----------------------------------------------------------------------------
(* The control thread.                                                      *)

\* start() up to the creation of the worker: the reasons of a session without
\* runtime or model are stored before the effects are initialised.
Start(p) ==
    /\ host = "stopped" /\ setter = None
    /\ starts < MaxStarts
    /\ starts' = starts + 1
    /\ package' = p
    /\ runtime' = "idle"
    /\ \/ /\ host' = "starting"
          /\ worker' = "init_aec"
          /\ reason' = [e \in Effects |->
                 IF p = "unusable" THEN "runtime_or_gpu"
                 ELSE IF p = "no_noise_model" /\ e = "noise"
                      THEN "model_missing" ELSE None]
       \/ \* something before the worker throws
          /\ host' = "failing"
          /\ UNCHANGED <<worker, reason>>
    /\ UNCHANGED <<enabled, setter, clicks, ready, noise_state, busy, blame,
                   callback>>

\* The rest of start(): the first states, unless the loopback cannot start.
StartReturns ==
    /\ host = "starting" /\ worker = "loop"
    /\ noise_state' = NoiseOf(enabled["noise"], FALSE, ready["noise"])
    /\ runtime' = RuntimeOf(enabled["aec"], ready["aec"])
    /\ host' \in {"running", "failing"}
    /\ UNCHANGED <<enabled, setter, clicks, starts, package, ready, reason,
                   worker, busy, blame, callback>>

\* stop() up to the join.  The host calls it when no callback runs.
Stop ==
    /\ host = "running" /\ audio = "idle" /\ setter = None
    /\ host' = "stopping"
    /\ UNCHANGED <<enabled, setter, clicks, starts, package, ready, status,
                   worker, busy, blame, callback>>

\* The resets of stop(); start() that has failed then stores its own reason.
ResetStatus ==
    /\ host' = "stopped"
    /\ package' = None
    /\ ready' = Both(FALSE)
    /\ reason' = Both(IF host = "failing" THEN "package" ELSE None)
    /\ runtime' = IF host = "failing" THEN "error" ELSE "idle"
    /\ noise_state' = "disabled"
    /\ hold' = 0
    /\ pending' = <<>>
    /\ capture_failed' = FALSE
    /\ sinceMiss' = HoldFrames
    /\ UNCHANGED <<enabled, setter, clicks, starts, worker, busy, blame, audio,
                   seen>>

\* Mutation of FinishStop: the worker is not waited for.
FinishStop_Early == host \in {"stopping", "failing"} /\ ResetStatus

FinishStop ==
    /\ host \in {"stopping", "failing"}
    /\ worker = "off"
    /\ ResetStatus

\* set_aec_enabled and set_noise_enabled: the switch, then the state.
Click(e) ==
    /\ host \in {"stopped", "running"} /\ setter = None
    /\ clicks < MaxClicks
    /\ clicks' = clicks + 1
    /\ enabled' = [enabled EXCEPT ![e] = ~@]
    /\ setter' = e
    /\ UNCHANGED <<host, starts, package, ready, status, worker, busy, blame,
                   callback>>

SetterReturns ==
    /\ setter # None
    /\ setter' = None
    /\ IF setter = "aec"
       THEN /\ runtime' = RuntimeOf(enabled["aec"], ready["aec"])
            /\ UNCHANGED noise_state
       ELSE /\ noise_state' = NoiseOf(enabled["noise"], hold # 0, ready["noise"])
            /\ UNCHANGED runtime
    /\ UNCHANGED <<session, enabled, ready, reason, worker, busy, blame, callback>>

-----------------------------------------------------------------------------
(* The GPU worker.                                                          *)

\* initialize() has thrown: a reason that start() has given stays.
BlamedAtStart(e) ==
    [reason EXCEPT ![e] = IF @ = None THEN "runtime_or_gpu" ELSE @]

\* The packaged runtime has a model for the effect.
HasModel(e) ==
    \/ package = "whole"
    \/ package = "no_noise_model" /\ e = "aec"

\* initialize() and the warm-up of one effect.  It may succeed, throw, fail in
\* the warm-up, or come up with a frame size the pipeline does not take, which
\* leaves no reason.
Initialise(e) ==
    \/ /\ HasModel(e)
       /\ ready' = [ready EXCEPT ![e] = TRUE]
       /\ reason' = [reason EXCEPT ![e] = None]
    \/ /\ UNCHANGED ready
       /\ reason' = BlamedAtStart(e)
    \/ /\ HasModel(e)
       /\ UNCHANGED ready
       /\ \/ reason' = [reason EXCEPT ![e] = "runtime_or_gpu"]
          \/ UNCHANGED reason

WorkerInit ==
    /\ \/ worker = "init_aec" /\ worker' = "init_noise" /\ Initialise("aec")
       \/ worker = "init_noise" /\ worker' = "loop" /\ Initialise("noise")
    /\ UNCHANGED <<session, enabled, setter, runtime, noise_state, busy, blame,
                   callback>>

\* A job fails in set_intensity or process(): the flag first, then the reason.
JobFails(e) ==
    /\ worker = "loop" /\ busy /\ blame = None
    /\ ready[e]
    /\ ready' = [ready EXCEPT ![e] = FALSE]
    /\ blame' = e
    /\ UNCHANGED <<session, enabled, setter, status, worker, busy, callback>>

StoreBlame ==
    /\ blame # None
    /\ reason' = [reason EXCEPT ![blame] = "runtime_or_gpu"]
    /\ blame' = None
    /\ UNCHANGED <<session, enabled, setter, ready, runtime, noise_state, worker,
                   busy, callback>>

JobEnds ==
    /\ busy /\ blame = None
    /\ busy' = FALSE
    /\ UNCHANGED <<session, enabled, setter, ready, status, worker, blame, callback>>

WorkerExits ==
    /\ worker = "loop" /\ ~busy
    /\ host \in {"stopping", "failing"}
    /\ worker' = "off"
    /\ UNCHANGED <<session, enabled, setter, ready, status, busy, blame, callback>>

-----------------------------------------------------------------------------
(* The audio thread.                                                        *)

\* Both effects are off.  The hold stays as it is.
Bypass ==
    /\ host = "running" /\ audio = "idle" /\ ~AnyEnabled
    /\ pending' = <<>>
    /\ runtime' = "bypassed"
    /\ UNCHANGED <<session, enabled, setter, ready, reason, noise_state, worker,
                   busy, blame, audio, seen, capture_failed, hold, sinceMiss>>

\* process() looks whether the loopback has failed, and at aec_ready.
BeginCallback ==
    /\ host = "running" /\ audio = "idle" /\ AnyEnabled
    /\ audio' = "reason"
    /\ capture_failed' \in {capture_failed, TRUE}
    /\ seen' = [NothingSeen EXCEPT !.ready = ready]
    /\ UNCHANGED <<session, enabled, setter, ready, status, worker, busy, blame,
                   pending, hold, sinceMiss>>

\* It stores the reason that goes with them.
StoreReason ==
    /\ audio = "reason"
    /\ audio' = "frames"
    /\ reason' = IF capture_failed
                 THEN [reason EXCEPT !["aec"] = "reference_capture"]
                 ELSE IF seen.ready["aec"] THEN [reason EXCEPT !["aec"] = None]
                 ELSE reason
    /\ seen' = NothingSeen
    /\ UNCHANGED <<session, enabled, setter, ready, runtime, noise_state, worker,
                   busy, blame, capture_failed, pending, hold, sinceMiss>>

\* A frame is cut; the hold ages by it and the flags are loaded.
CutFrame(covered) ==
    /\ audio = "frames" /\ Len(pending) < MaxPending
    /\ audio' = "store"
    /\ hold' = Aged(hold)
    /\ sinceMiss' = AtMost(sinceMiss + 1, HoldFrames)
    /\ seen' = [enabled |-> enabled, ready |-> ready, covered |-> covered]
    /\ UNCHANGED <<session, enabled, setter, ready, status, worker, busy, blame,
                   capture_failed, pending>>

\* Which effects the job of the frame runs; aec_ready is not among the
\* conditions.
Wanted(s) ==
    {e \in Effects : s.enabled[e] /\ (e = "aec" => ~capture_failed /\ s.covered)}

\* The two states are stored and the job is queued.
StoreStates ==
    /\ audio = "store"
    /\ audio' = "frames"
    /\ runtime' = FrameRuntime(seen, hold)
    /\ noise_state' = NoiseOf(seen.enabled["noise"], hold # 0, seen.ready["noise"])
    /\ pending' = Append(pending,
           [needs |-> Wanted(seen) # {},
            able |-> \A e \in Wanted(seen) : seen.ready[e]])
    /\ busy' = (busy \/ Wanted(seen) # {})
    /\ seen' = NothingSeen
    /\ UNCHANGED <<session, enabled, setter, ready, reason, worker, blame,
                   capture_failed, hold, sinceMiss>>

\* No whole frame is left, or the frame loop waits for the reference.
EndFrames ==
    /\ audio = "frames"
    /\ audio' = "render"
    /\ UNCHANGED <<session, enabled, setter, ready, status, worker, busy, blame,
                   seen, capture_failed, pending, hold, sinceMiss>>

\* Mutation of Miss: only the noise state tells of it.
Miss_NoiseOnly ==
    /\ hold' = HoldFrames
    /\ sinceMiss' = 0
    /\ noise_state' = IF enabled["noise"] THEN "overloaded" ELSE noise_state
    /\ UNCHANGED runtime

\* The frame has no complete result: the overload is shown and held.
Miss ==
    /\ hold' = HoldFrames
    /\ sinceMiss' = 0
    /\ runtime' = "overloaded"
    /\ noise_state' = IF enabled["noise"] THEN "overloaded" ELSE noise_state

\* render_pending_frame.
Render(complete) ==
    /\ audio = "render" /\ pending # <<>>
    /\ Head(pending).needs /\ complete => Head(pending).able
    /\ pending' = Tail(pending)
    /\ IF Head(pending).needs /\ ~complete
       THEN Miss
       ELSE UNCHANGED <<hold, sinceMiss, runtime, noise_state>>
    /\ UNCHANGED <<session, enabled, setter, ready, reason, worker, busy, blame,
                   audio, seen, capture_failed>>

\* Frames are rendered while the host needs output.  The output is copied;
\* without enough of it the hold starts again.
EndCallback(underrun) ==
    /\ audio = "render"
    /\ Len(pending) <= Lead
    /\ underrun => pending = <<>>
    /\ audio' = "idle"
    /\ hold' = IF underrun THEN HoldFrames ELSE hold
    /\ UNCHANGED <<session, enabled, setter, ready, status, worker, busy, blame,
                   seen, capture_failed, pending, sinceMiss>>

-----------------------------------------------------------------------------
Callback ==
    \/ Bypass
    \/ BeginCallback
    \/ StoreReason
    \/ \E covered \in BOOLEAN : CutFrame(covered)
    \/ StoreStates
    \/ EndFrames
    \/ \E complete \in BOOLEAN : Render(complete)
    \/ \E underrun \in BOOLEAN : EndCallback(underrun)

StatusNext ==
    \/ \E p \in Packages : Start(p)
    \/ StartReturns
    \/ Stop
    \/ FinishStop
    \/ \E e \in Effects : Click(e)
    \/ SetterReturns
    \/ WorkerInit
    \/ \E e \in Effects : JobFails(e)
    \/ StoreBlame
    \/ JobEnds
    \/ WorkerExits
    \/ Callback

\* The audio engine keeps calling process() while the session runs, and the
\* frame loop waits for the reference for at most two frames: frames are cut
\* again and again.  Threads go on with what they have begun.
Fairness ==
    /\ WF_statusVars(Callback)
    /\ SF_statusVars(\E covered \in BOOLEAN : CutFrame(covered))
    /\ WF_statusVars(SetterReturns)
    /\ WF_statusVars(WorkerInit)
    /\ WF_statusVars(StoreBlame)
    /\ WF_statusVars(JobEnds)
    /\ WF_statusVars(WorkerExits)
    /\ WF_statusVars(StartReturns)
    /\ WF_statusVars(FinishStop)

StatusSpec == StatusInit /\ [][StatusNext]_statusVars /\ Fairness

-----------------------------------------------------------------------------
(* Properties.                                                              *)

Running == host = "running"

\* The audio thread does not cover up a miss of its own.  The step that records
\* it, and for HoldFrames frames the step that ends the stores of a frame, leave
\* the panel not at ease, whatever the worker stored meanwhile, if the switches
\* are as they were loaded.  (The store of a switch may cover a miss up until
\* the next frame: this is about the audio thread's steps alone.)
MissIsShown ==
    [][/\ audio # "idle" /\ AnyEnabled /\ setter = None
       /\ sinceMiss' < HoldFrames
       /\ \/ audio = "store" /\ audio' = "frames" /\ seen.enabled = enabled
          \/ sinceMiss' = 0 /\ sinceMiss # 0
       => ~PanelOk']_statusVars

\* An effect that is switched on and cannot run shows on the panel in the end,
\* and goes on showing, although the reason of the echo canceller may be lost
\* between the worker and the audio thread.
FailureIsShown ==
    \A e \in Effects :
        <>[](Running /\ enabled[e] /\ ~ready[e]) => <>[]~PanelOk

\* Once frames are neither missed nor run out of, an overload stops being
\* shown: the hold cannot keep itself alive.
OverloadEnds ==
    /\ <>[](Running /\ AnyEnabled)
    /\ ~[]<><<hold' = HoldFrames>>_<<hold, pending>>
    => <>[](PanelText # "deadline missed")

\* Between two sessions nothing of the old one is left or still to come: no
\* reason but that of a failed start, no effect ready, no hold.
StoppedIsClean ==
    host = "stopped" =>
        /\ reason \in {Both(None), Both("package")}
        /\ ready = Both(FALSE)
        /\ hold = 0

\* README.md:140-142: enabling noise removal in a release without its model
\* "produces the explicit NOISE MODEL MISSING status".  Each frame then misses
\* its result and starts the hold again, so that the panel tells of a missed
\* GPU deadline, and of that alone, from the first rendered frame on.
MissingModelIsNamed ==
    <>[](/\ Running /\ package = "no_noise_model"
         /\ enabled["noise"] /\ ~enabled["aec"])
    => []<>(PanelText = "model missing")
=============================================================================
