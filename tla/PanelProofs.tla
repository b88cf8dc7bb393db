------------------------------ MODULE PanelProofs ------------------------------
(***************************************************************************)
(* Proofs about what the user sees and sets: PluginStatus, for every length *)
(* of the hold and every interleaving of the three threads that write the   *)
(* status, and EffectSettings, for every set of endpoints, every chunk and  *)
(* every kind of host.                                                      *)
(***************************************************************************)
EXTENDS PluginStatus, EffectSettings, TLAPS

-----------------------------------------------------------------------------
(* PluginStatus.  Three threads store into the status without a lock, and   *)
(* stop() resets it; no store of the old session comes after that reset,    *)
(* because the host ends its callbacks first and stop() waits for the       *)
(* worker.                                                                  *)

\* The threads run within a session only, and the worker stores a reason only
\* while it has a job.
ThreadsInv ==
  /\ audio # "idle" => host = "running"
  /\ host = "running" => worker = "loop"
  /\ host = "stopped" => worker = "off"
  /\ busy => worker = "loop"
  /\ blame # None => busy

StatusInv == ThreadsInv /\ StoppedIsClean

LEMMA InitStatus == StatusInit => StatusInv
BY DEF StatusInit, StatusInv, ThreadsInv, StoppedIsClean, Both, None

\* start(), stop() and the switches.
LEMMA StatusHostStep ==
  ASSUME StatusInv,
         \/ \E p \in Packages : Start(p)
         \/ StartReturns \/ Stop \/ FinishStop
         \/ \E e \in Effects : Click(e)
         \/ SetterReturns
  PROVE  StatusInv'
<1> USE DEF StatusInv, ThreadsInv, StoppedIsClean, session, status, callback
<1>1. ASSUME NEW p \in Packages, Start(p) PROVE StatusInv'
  BY <1>1 DEF Start
<1>2. CASE StartReturns
  BY <1>2 DEF StartReturns
<1>3. CASE Stop
  BY <1>3 DEF Stop
<1>4. CASE FinishStop
  BY <1>4 DEF FinishStop, ResetStatus, Both, None
<1>5. ASSUME NEW e \in Effects, Click(e) PROVE StatusInv'
  BY <1>5 DEF Click
<1>6. CASE SetterReturns
  BY <1>6 DEF SetterReturns
<1> QED
  BY <1>1, <1>2, <1>3, <1>4, <1>5, <1>6

\* The worker has something to store only in a session, and leaves without a
\* job.
LEMMA StatusWorkerStep ==
  ASSUME StatusInv,
         \/ WorkerInit \/ \E e \in Effects : JobFails(e)
         \/ StoreBlame \/ JobEnds \/ WorkerExits
  PROVE  StatusInv'
<1> USE DEF StatusInv, ThreadsInv, StoppedIsClean, session, status, callback
<1>1. CASE WorkerInit
  BY <1>1 DEF WorkerInit
<1>2. ASSUME NEW e \in Effects, JobFails(e) PROVE StatusInv'
  BY <1>2 DEF JobFails
<1>3. CASE StoreBlame
  BY <1>3 DEF StoreBlame
<1>4. CASE JobEnds
  BY <1>4 DEF JobEnds
<1>5. CASE WorkerExits
  BY <1>5 DEF WorkerExits
<1> QED
  BY <1>1, <1>2, <1>3, <1>4, <1>5

\* A callback runs in a session only.
LEMMA StatusCallbackStep == ASSUME StatusInv, Callback PROVE StatusInv'
<1> USE DEF StatusInv, ThreadsInv, StoppedIsClean, session, status, callback
<1>1. host = "running" /\ host' = host /\ worker' = worker /\ blame' = blame
  BY DEF Callback, Bypass, BeginCallback, StoreReason, CutFrame, StoreStates,
         EndFrames, Render, EndCallback
<1>2. blame # None => busy'
  BY DEF Callback, Bypass, BeginCallback, StoreReason, CutFrame, StoreStates,
         EndFrames, Render, EndCallback
<1> QED
  BY <1>1, <1>2

LEMMA StatusStep == StatusInv /\ [StatusNext]_statusVars => StatusInv'
<1>1. StatusInv /\ UNCHANGED statusVars => StatusInv'
  BY DEF statusVars, session, status, callback, StatusInv, ThreadsInv, StoppedIsClean, Both,
         None
<1> QED
  BY <1>1, StatusHostStep, StatusWorkerStep, StatusCallbackStep DEF StatusNext

-----------------------------------------------------------------------------
(* The types of the status, and the hold: as long as fewer than HoldFrames  *)
(* frames have been cut since one was missed, as many as are left are held. *)

HoldInv == sinceMiss < HoldFrames => HoldFrames - sinceMiss <= hold

LEMMA InitTypes == StatusInit => StatusTypeOK /\ HoldInv
<1> SUFFICES ASSUME StatusInit PROVE StatusTypeOK /\ HoldInv
  OBVIOUS
<1>1. HoldFrames \in Nat /\ HoldFrames > 0 /\ MaxClicks \in Nat /\ MaxStarts \in Nat
  BY StatusAssumption
<1>2. /\ seen \in [enabled : [Effects -> BOOLEAN], ready : [Effects -> BOOLEAN],
                   covered : BOOLEAN]
      /\ pending \in Seq([needs : BOOLEAN, able : BOOLEAN])
  BY DEF StatusInit, NothingSeen, Both
<1>3. /\ ready \in [Effects -> BOOLEAN] /\ reason \in [Effects -> Reasons]
      /\ enabled \in [Effects -> BOOLEAN]
  BY DEF StatusInit, Both, Reasons, None
<1>4. /\ runtime \in RuntimeStates /\ noise_state \in NoiseStates
      /\ hold \in 0..HoldFrames /\ sinceMiss \in 0..HoldFrames
      /\ clicks \in 0..MaxClicks /\ starts \in 0..MaxStarts
  BY <1>1 DEF StatusInit, RuntimeStates, NoiseStates
<1>5. StatusTypeOK
  BY <1>2, <1>3, <1>4 DEF StatusInit, StatusTypeOK
<1>6. HoldInv
  BY <1>1 DEF StatusInit, HoldInv
<1> QED
  BY <1>5, <1>6

\* start(), stop() and the switches.
LEMMA HostTypes ==
  ASSUME StatusTypeOK, HoldInv,
         \/ \E p \in Packages : Start(p)
         \/ StartReturns \/ Stop \/ FinishStop
         \/ \E e \in Effects : Click(e)
         \/ SetterReturns
  PROVE  StatusTypeOK' /\ HoldInv'
<1> USE StatusAssumption DEF StatusTypeOK, HoldInv, session, status, callback
<1>1. ASSUME NEW p \in Packages, Start(p) PROVE StatusTypeOK' /\ HoldInv'
  <2>1. starts' \in 0..MaxStarts
    BY <1>1 DEF Start
  <2>2. reason' \in [Effects -> Reasons]
    BY <1>1 DEF Start, Reasons, None
  <2>3. runtime' \in RuntimeStates
    BY <1>1 DEF Start, RuntimeStates
  <2> QED
    BY <1>1, <2>1, <2>2, <2>3 DEF Start
<1>2. CASE StartReturns
  <2>1. noise_state' \in NoiseStates /\ runtime' \in RuntimeStates
    BY <1>2 DEF StartReturns, NoiseOf, RuntimeOf, RuntimeStates, NoiseStates
  <2>2. /\ host' \in {"running", "failing"}
        /\ UNCHANGED <<enabled, setter, clicks, starts, package, ready, reason, worker,
                       busy, blame, audio, seen, capture_failed, pending, hold, sinceMiss>>
    BY <1>2 DEF StartReturns
  <2> QED
    BY <2>1, <2>2
<1>3. CASE Stop
  BY <1>3 DEF Stop
<1>4. CASE FinishStop
  <2>1. /\ ready' \in [Effects -> BOOLEAN] /\ reason' \in [Effects -> Reasons]
        /\ pending' \in Seq([needs : BOOLEAN, able : BOOLEAN])
    BY <1>4 DEF FinishStop, ResetStatus, Both, Reasons, None
  <2>2. hold' \in 0..HoldFrames /\ sinceMiss' \in 0..HoldFrames /\ HoldInv'
    BY <1>4 DEF FinishStop, ResetStatus
  <2>3. runtime' \in RuntimeStates /\ noise_state' \in NoiseStates
    BY <1>4 DEF FinishStop, ResetStatus, RuntimeStates, NoiseStates
  <2> QED
    BY <1>4, <2>1, <2>2, <2>3 DEF FinishStop, ResetStatus
<1>5. ASSUME NEW e \in Effects, Click(e) PROVE StatusTypeOK' /\ HoldInv'
  <2>1. clicks' \in 0..MaxClicks
    BY <1>5 DEF Click
  <2>2. enabled' \in [Effects -> BOOLEAN]
    BY <1>5 DEF Click
  <2> QED
    BY <1>5, <2>1, <2>2 DEF Click
<1>6. CASE SetterReturns
  <2>1. noise_state' \in NoiseStates /\ runtime' \in RuntimeStates
    BY <1>6 DEF SetterReturns, NoiseOf, RuntimeOf, RuntimeStates, NoiseStates
  <2> QED
    BY <1>6, <2>1 DEF SetterReturns
<1> QED
  BY <1>1, <1>2, <1>3, <1>4, <1>5, <1>6

\* The worker.
LEMMA WorkerTypes ==
  ASSUME StatusTypeOK, HoldInv,
         \/ WorkerInit \/ \E e \in Effects : JobFails(e)
         \/ StoreBlame \/ JobEnds \/ WorkerExits
  PROVE  StatusTypeOK' /\ HoldInv'
<1> USE DEF StatusTypeOK, HoldInv, session, status, callback
<1>1. CASE WorkerInit
  <2>1. PICK e \in Effects : Initialise(e)
    BY <1>1 DEF WorkerInit, Effects
  <2>2. "runtime_or_gpu" \in Reasons /\ None \in Reasons
    BY DEF Reasons
  <2>3. ready' \in [Effects -> BOOLEAN] /\ reason' \in [Effects -> Reasons]
    BY <2>1, <2>2 DEF Initialise, BlamedAtStart
  <2> QED
    BY <1>1, <2>3 DEF WorkerInit
<1>2. ASSUME NEW e \in Effects, JobFails(e) PROVE StatusTypeOK' /\ HoldInv'
  BY <1>2 DEF JobFails
<1>3. CASE StoreBlame
  <2>1. reason' \in [Effects -> Reasons]
    BY <1>3 DEF StoreBlame, Reasons, None
  <2> QED
    BY <1>3, <2>1 DEF StoreBlame
<1>4. CASE JobEnds
  <2>1. /\ busy' \in BOOLEAN
        /\ UNCHANGED <<session, enabled, setter, ready, status, worker, blame, callback>>
    BY <1>4 DEF JobEnds
  <2> QED
    BY <2>1
<1>5. CASE WorkerExits
  BY <1>5 DEF WorkerExits
<1> QED
  BY <1>1, <1>2, <1>3, <1>4, <1>5

\* The frames of the audio thread: one that is cut ages the hold, one that is
\* missed starts it.
LEMMA CallbackTypes ==
  ASSUME StatusTypeOK, HoldInv, Callback
  PROVE  StatusTypeOK' /\ HoldInv'
<1> USE StatusAssumption DEF StatusTypeOK, HoldInv, session, status
<1>1. CASE Bypass
  BY <1>1 DEF Bypass, RuntimeStates
<1>2. CASE BeginCallback
  <2>1. seen' \in [enabled : [Effects -> BOOLEAN], ready : [Effects -> BOOLEAN],
                   covered : BOOLEAN]
    BY <1>2 DEF BeginCallback, NothingSeen, Both
  <2> QED
    BY <1>2, <2>1 DEF BeginCallback
<1>3. NothingSeen \in [enabled : [Effects -> BOOLEAN], ready : [Effects -> BOOLEAN],
                       covered : BOOLEAN]
  BY DEF NothingSeen, Both
<1>4. CASE StoreReason
  <2>1. reason' \in [Effects -> Reasons]
    BY <1>4 DEF StoreReason, Reasons, None
  <2> QED
    BY <1>3, <1>4, <2>1 DEF StoreReason
<1>5. ASSUME NEW covered \in BOOLEAN, CutFrame(covered) PROVE StatusTypeOK' /\ HoldInv'
  <2>1. /\ hold' \in 0..HoldFrames /\ sinceMiss' \in 0..HoldFrames /\ HoldInv'
    BY <1>5 DEF CutFrame, Aged, AtMost
  <2>2. seen' \in [enabled : [Effects -> BOOLEAN], ready : [Effects -> BOOLEAN],
                   covered : BOOLEAN]
    BY <1>5 DEF CutFrame
  <2> QED
    BY <1>5, <2>1, <2>2 DEF CutFrame
<1>6. CASE StoreStates
  <2>1. runtime' \in RuntimeStates /\ noise_state' \in NoiseStates
    BY <1>6 DEF StoreStates, FrameRuntime, NoiseOf, RuntimeStates, NoiseStates
  <2>2. pending' \in Seq([needs : BOOLEAN, able : BOOLEAN]) /\ busy' \in BOOLEAN
    BY <1>6 DEF StoreStates
  <2> QED
    BY <1>3, <1>6, <2>1, <2>2 DEF StoreStates
<1>7. CASE EndFrames
  BY <1>7 DEF EndFrames
<1>8. ASSUME NEW complete \in BOOLEAN, Render(complete) PROVE StatusTypeOK' /\ HoldInv'
  <2>1. pending' \in Seq([needs : BOOLEAN, able : BOOLEAN])
    BY <1>8 DEF Render
  <2>2. \/ /\ hold' = HoldFrames /\ sinceMiss' = 0 /\ runtime' = "overloaded"
           /\ noise_state' \in {"overloaded", noise_state}
        \/ UNCHANGED <<hold, sinceMiss, runtime, noise_state>>
    BY <1>8 DEF Render, Miss
  <2>3. hold' \in 0..HoldFrames /\ sinceMiss' \in 0..HoldFrames /\ HoldInv'
    BY <2>2
  <2>4. runtime' \in RuntimeStates /\ noise_state' \in NoiseStates
    BY <2>2 DEF RuntimeStates, NoiseStates
  <2>5. UNCHANGED <<host, starts, clicks, package, enabled, setter, ready, reason,
                    worker, busy, blame, audio, seen, capture_failed>>
    BY <1>8 DEF Render
  <2>6. /\ busy' \in BOOLEAN /\ capture_failed' \in BOOLEAN
        /\ seen' \in [enabled : [Effects -> BOOLEAN], ready : [Effects -> BOOLEAN],
                     covered : BOOLEAN]
        /\ enabled' \in [Effects -> BOOLEAN] /\ ready' \in [Effects -> BOOLEAN]
    BY <2>5
  <2> QED
    BY <2>1, <2>3, <2>4, <2>5, <2>6
<1>9. ASSUME NEW underrun \in BOOLEAN, EndCallback(underrun)
      PROVE  StatusTypeOK' /\ HoldInv'
  <2>1. hold' \in 0..HoldFrames /\ HoldInv'
    BY <1>9 DEF EndCallback
  <2> QED
    BY <1>9, <2>1 DEF EndCallback
<1> QED
  BY <1>1, <1>2, <1>4, <1>5, <1>6, <1>7, <1>8, <1>9 DEF Callback

LEMMA StepTypes ==
  ASSUME StatusTypeOK, HoldInv, [StatusNext]_statusVars
  PROVE  StatusTypeOK' /\ HoldInv'
<1>1. CASE UNCHANGED statusVars
  BY <1>1 DEF statusVars, session, status, callback, StatusTypeOK, HoldInv
<1> QED
  BY <1>1, HostTypes, WorkerTypes, CallbackTypes DEF StatusNext

\* The status keeps its types, whichever thread stores last.
THEOREM StatusTypeCorrect == StatusSpec => []StatusTypeOK
<1> QED
  BY InitTypes, StepTypes, PTL DEF StatusSpec

\* Nothing of a session is left or still to come once stop() has returned,
\* for every length of the hold, lead and number of starts and clicks.
THEOREM CleanStop == StatusSpec => []StoppedIsClean
<1>1. StatusSpec => []StatusInv
  BY InitStatus, StatusStep, PTL DEF StatusSpec
<1>2. StatusInv => StoppedIsClean
  BY DEF StatusInv
<1> QED
  BY <1>1, <1>2, PTL

\* For HoldFrames frames after a missed one, the audio thread ends the stores of
\* no frame with a panel at ease, however the stores of the worker fall between
\* its own, and for every length of the hold.
THEOREM ShownMiss == StatusSpec => MissIsShown
<1>1. ASSUME StatusTypeOK, HoldInv, [StatusNext]_statusVars
      PROVE  [/\ audio # "idle" /\ AnyEnabled /\ setter = None
              /\ sinceMiss' < HoldFrames
              /\ \/ audio = "store" /\ audio' = "frames" /\ seen.enabled = enabled
                 \/ sinceMiss' = 0 /\ sinceMiss # 0
              => ~PanelOk']_statusVars
  <2> SUFFICES ASSUME StatusNext, AnyEnabled, sinceMiss' < HoldFrames,
                      \/ audio = "store" /\ audio' = "frames" /\ seen.enabled = enabled
                      \/ sinceMiss' = 0 /\ sinceMiss # 0
               PROVE  ~PanelOk'
    BY <1>1
  <2>1. HoldFrames \in Nat /\ HoldFrames > 0
    BY StatusAssumption
  <2>2. ASSUME AnyEnabled', runtime' = "overloaded",
               enabled["noise"]' => noise_state' = "overloaded"
        PROVE  ~PanelOk'
    BY <2>2 DEF PanelOk, PanelText, Troubles, AnyEnabled, Effects
  <2>3. CASE StoreStates /\ seen.enabled = enabled
    <3>1. hold # 0
      BY <1>1, <2>1, <2>3 DEF StoreStates, HoldInv, StatusTypeOK
    <3>2. /\ enabled' = enabled /\ runtime' = "overloaded"
          /\ enabled["noise"] => noise_state' = "overloaded"
      BY <2>3, <3>1 DEF StoreStates, FrameRuntime, NoiseOf
    <3> QED
      BY <2>2, <3>2 DEF AnyEnabled
  <2>4. ASSUME NEW complete \in BOOLEAN, Render(complete), sinceMiss' # sinceMiss
        PROVE  ~PanelOk'
    <3>1. /\ enabled' = enabled /\ runtime' = "overloaded"
          /\ enabled["noise"] => noise_state' = "overloaded"
      BY <2>4 DEF Render, Miss
    <3> QED
      BY <2>2, <3>1 DEF AnyEnabled
  <2>5. audio = "store" /\ audio' = "frames" => StoreStates
    BY DEF StatusNext, Start, StartReturns, Stop, FinishStop, ResetStatus, Click,
       SetterReturns, WorkerInit, JobFails, StoreBlame, JobEnds, WorkerExits,
       Callback, Bypass, BeginCallback, StoreReason, CutFrame, EndFrames, Render,
       EndCallback, callback, session, status
  <2>6. sinceMiss' = 0 /\ sinceMiss # 0
          => \E complete \in BOOLEAN : Render(complete)
    <3>1. sinceMiss \in Nat
      BY <1>1 DEF StatusTypeOK
    <3>2. ASSUME NEW covered \in BOOLEAN, CutFrame(covered) PROVE sinceMiss' # 0
      BY <2>1, <3>1, <3>2 DEF CutFrame, AtMost
    <3>3. CASE FinishStop
      BY <2>1, <3>3 DEF FinishStop, ResetStatus
    <3>4. sinceMiss' = sinceMiss \/ FinishStop
            \/ (\E covered \in BOOLEAN : CutFrame(covered))
            \/ \E complete \in BOOLEAN : Render(complete)
      BY DEF StatusNext, Start, StartReturns, Stop, Click, SetterReturns, WorkerInit,
         JobFails, StoreBlame, JobEnds, WorkerExits, Callback, Bypass, BeginCallback,
         StoreReason, StoreStates, EndFrames, EndCallback, callback
    <3> QED
      BY <3>2, <3>3, <3>4
  <2> QED
    BY <2>3, <2>4, <2>5, <2>6
<1> QED
  BY <1>1, InitTypes, StepTypes, PTL DEF StatusSpec, MissIsShown

-----------------------------------------------------------------------------
(* EffectSettings: records of settings.                                     *)

Names == ParameterNames \union {"endpoint"}

\* What a record of settings is, seen as a function of the names.
LEMMA ChunkFields ==
  ASSUME NEW r \in Unclamped
  PROVE  /\ DOMAIN r = Names /\ r.endpoint \in EndpointIds
         /\ r = [x \in Names |-> r[x]]
         /\ \A p \in ParameterNames : r[p] \in RawLevels
  BY DEF Unclamped, Names, ParameterNames, Switches, Strengths

LEMMA SettingsFields ==
  ASSUME NEW r \in Settings
  PROVE  /\ r \in Unclamped
         /\ \A p \in Switches : r[p] \in {0, Full}
         /\ \A p \in Strengths : r[p] \in Levels
  BY DEF Settings, Unclamped, Switches, Strengths, Full, Levels, RawLevels

LEMMA IsChunk ==
  ASSUME NEW f, f = [x \in Names |-> f[x]],
         \A p \in ParameterNames : f[p] \in RawLevels,
         f["endpoint"] \in EndpointIds
  PROVE  /\ f \in Unclamped
         /\ /\ \A p \in Switches : f[p] \in {0, Full}
            /\ \A p \in Strengths : f[p] \in Levels
            => f \in Settings
<1>1. /\ "aec" \in ParameterNames /\ "aecStrength" \in ParameterNames
      /\ "noise" \in ParameterNames /\ "noiseStrength" \in ParameterNames
      /\ Names = {"aec", "aecStrength", "noise", "noiseStrength", "endpoint"}
  BY DEF Names, ParameterNames, Switches, Strengths
<1>2. /\ f = [x \in Names |-> f[x]]
      /\ f["aec"] \in RawLevels /\ f["aecStrength"] \in RawLevels
      /\ f["noise"] \in RawLevels /\ f["noiseStrength"] \in RawLevels
      /\ f["endpoint"] \in EndpointIds
  BY <1>1
<1>3. f \in Unclamped
  BY <1>1, <1>2 DEF Unclamped
<1>4. ASSUME \A p \in Switches : f[p] \in {0, Full},
             \A p \in Strengths : f[p] \in Levels
      PROVE  f \in Settings
  <2>1. /\ f["aec"] \in {0, Full} /\ f["aecStrength"] \in Levels
        /\ f["noise"] \in {0, Full} /\ f["noiseStrength"] \in Levels
    BY <1>4 DEF Switches, Strengths
  <2> QED
    BY <1>1, <1>2, <2>1 DEF Settings
<1> QED
  BY <1>3, <1>4

LEMMA SameFields ==
  ASSUME NEW f \in Unclamped, NEW g \in Unclamped, f.endpoint = g.endpoint,
         \A p \in ParameterNames : f[p] = g[p]
  PROVE  f = g
<1>1. f = [x \in Names |-> f[x]] /\ g = [x \in Names |-> g[x]]
  BY ChunkFields
<1>2. \A x \in Names : f[x] = g[x]
  BY DEF Names
<1> QED
  BY <1>1, <1>2

\* A parameter as the processor takes it.
LEMMA NormalLevels ==
  ASSUME NEW p \in ParameterNames, NEW v \in RawLevels
  PROVE  /\ Normal(p, v) \in RawLevels
         /\ p \in Switches => Normal(p, v) \in {0, Full}
         /\ p \in Strengths => Normal(p, v) \in Levels
  BY DEF Normal, Switch, Clamp, Half, Full, Levels, RawLevels, ParameterNames,
         Switches, Strengths

LEMMA NormalisedChunk ==
  ASSUME NEW r \in Unclamped
  PROVE  /\ Normalised(r) \in Settings /\ Normalised(r).endpoint = r.endpoint
         /\ EditorSettings(r) \in Unclamped /\ EditorSettings(r).endpoint = r.endpoint
         /\ \A p \in Switches : EditorSettings(r)[p] \in {0, Full}
<1>1. DOMAIN r = Names /\ r.endpoint \in EndpointIds
  BY ChunkFields
<1>2. \A p \in ParameterNames : r[p] \in RawLevels /\ p # "endpoint" /\ p \in Names
  BY ChunkFields DEF Names, ParameterNames, Switches, Strengths
<1>3. "endpoint" \in Names /\ "endpoint" \notin Switches
  BY DEF Names, Switches
<1>4. Switches \subseteq ParameterNames /\ Strengths \subseteq ParameterNames
  BY DEF ParameterNames
<1> DEFINE n == Normalised(r)
           e == EditorSettings(r)
<1>5. /\ n = [x \in Names |-> IF x = "endpoint" THEN r[x] ELSE Normal(x, r[x])]
      /\ e = [x \in Names |-> IF x \in Switches THEN Switch(r[x]) ELSE r[x]]
  BY <1>1 DEF Normalised, EditorSettings
<1> HIDE DEF n, e
<1>6. /\ n = [x \in Names |-> n[x]] /\ n["endpoint"] = r["endpoint"]
      /\ \A p \in ParameterNames : n[p] = Normal(p, r[p])
  BY <1>2, <1>3, <1>5
<1>7. n \in Settings
  <2>1. /\ \A p \in ParameterNames : n[p] \in RawLevels
        /\ \A p \in Switches : n[p] \in {0, Full}
        /\ \A p \in Strengths : n[p] \in Levels
    BY <1>2, <1>4, <1>6, NormalLevels
  <2> QED
    BY <1>1, <1>6, <2>1, IsChunk
<1>8. /\ e = [x \in Names |-> e[x]] /\ e["endpoint"] = r["endpoint"]
      /\ \A p \in ParameterNames : e[p] \in RawLevels
      /\ \A p \in Switches : e[p] \in {0, Full}
  <2>1. \A p \in Switches : Switch(r[p]) \in {0, Full}
    BY DEF Switch
  <2>2. \A p \in Switches : Switch(r[p]) \in RawLevels
    BY <2>1 DEF Full, RawLevels
  <2> QED
    BY <1>2, <1>3, <1>4, <1>5, <2>1, <2>2
<1>9. e \in Unclamped
  BY <1>1, <1>8, IsChunk
<1> QED
  BY <1>6, <1>7, <1>8, <1>9 DEF n, e

\* The parameters of one record put into another.
LEMMA ParametersOf ==
  ASSUME NEW b \in Unclamped, NEW a \in Unclamped, NEW w, w = WithParameters(b, a)
  PROVE  /\ w \in Unclamped /\ w.endpoint = b.endpoint
         /\ \A p \in ParameterNames : w[p] = a[p]
         /\ a \in Settings => w \in Settings
<1>1. /\ DOMAIN b = Names /\ b.endpoint \in EndpointIds
      /\ \A p \in ParameterNames : a[p] \in RawLevels
  BY ChunkFields
<1>2. \A p \in ParameterNames : p # "endpoint" /\ p \in Names
  BY DEF Names, ParameterNames, Switches, Strengths
<1>3. w = [x \in Names |-> IF x = "endpoint" THEN b[x] ELSE a[x]]
  BY <1>1 DEF WithParameters
<1>4. "endpoint" \in Names /\ Switches \subseteq ParameterNames
      /\ Strengths \subseteq ParameterNames
  BY DEF Names, ParameterNames
<1>5. /\ w = [x \in Names |-> w[x]] /\ w["endpoint"] = b["endpoint"]
      /\ \A p \in ParameterNames : w[p] = a[p]
  BY <1>2, <1>3, <1>4
<1>6. w \in Unclamped
  BY <1>1, <1>5, IsChunk
<1>7. ASSUME a \in Settings PROVE w \in Settings
  <2>1. /\ \A p \in Switches : w[p] \in {0, Full}
        /\ \A p \in Strengths : w[p] \in Levels
    BY <1>4, <1>5, <1>7, SettingsFields
  <2> QED
    BY <1>1, <1>5, <2>1, IsChunk
<1> QED
  BY <1>5, <1>6, <1>7

\* One parameter set, or the endpoint.
LEMMA OneParameter ==
  ASSUME NEW r \in Unclamped, NEW p \in ParameterNames, NEW v \in RawLevels,
         NEW s, s = [x \in Names |-> IF x = p THEN v ELSE r[x]]
  PROVE  /\ s \in Unclamped /\ s.endpoint = r.endpoint /\ s[p] = v
         /\ \A q \in ParameterNames : q # p => s[q] = r[q]
         /\ /\ r \in Settings /\ (p \in Switches => v \in {0, Full})
            /\ p \in Strengths => v \in Levels
            => s \in Settings
<1>1. /\ DOMAIN r = Names /\ r.endpoint \in EndpointIds
      /\ \A q \in ParameterNames : r[q] \in RawLevels
  BY ChunkFields
<1>2. \A q \in ParameterNames : q # "endpoint" /\ q \in Names
  BY DEF Names, ParameterNames, Switches, Strengths
<1>4. "endpoint" \in Names /\ Switches \subseteq ParameterNames
      /\ Strengths \subseteq ParameterNames
  BY DEF Names, ParameterNames
<1>5. /\ s = [x \in Names |-> s[x]] /\ s["endpoint"] = r["endpoint"] /\ s[p] = v
      /\ \A q \in ParameterNames : q # p => s[q] = r[q]
  BY <1>2, <1>4
<1>6. s \in Unclamped
  BY <1>1, <1>5, IsChunk
<1>7. ASSUME r \in Settings, p \in Switches => v \in {0, Full},
             p \in Strengths => v \in Levels
      PROVE  s \in Settings
  <2>1. /\ \A q \in Switches : s[q] \in {0, Full}
        /\ \A q \in Strengths : s[q] \in Levels
    BY <1>4, <1>5, <1>7, SettingsFields
  <2> QED
    BY <1>1, <1>5, <1>6, <2>1, IsChunk, ChunkFields
<1> QED
  BY <1>5, <1>6, <1>7

LEMMA OneEndpoint ==
  ASSUME NEW r \in Unclamped, NEW e \in EndpointIds,
         NEW s, s = [x \in Names |-> IF x = "endpoint" THEN e ELSE r[x]]
  PROVE  /\ s \in Unclamped /\ s.endpoint = e
         /\ \A q \in ParameterNames : s[q] = r[q]
         /\ r \in Settings => s \in Settings
<1>1. DOMAIN r = Names /\ \A q \in ParameterNames : r[q] \in RawLevels
  BY ChunkFields
<1>2. \A q \in ParameterNames : q # "endpoint" /\ q \in Names
  BY DEF Names, ParameterNames, Switches, Strengths
<1>4. "endpoint" \in Names /\ Switches \subseteq ParameterNames
      /\ Strengths \subseteq ParameterNames
  BY DEF Names, ParameterNames
<1>5. /\ s = [x \in Names |-> s[x]] /\ s["endpoint"] = e
      /\ \A q \in ParameterNames : s[q] = r[q]
  BY <1>2, <1>4
<1>6. s \in Unclamped
  BY <1>1, <1>5, IsChunk
<1>7. ASSUME r \in Settings PROVE s \in Settings
  <2>1. /\ \A q \in Switches : s[q] \in {0, Full}
        /\ \A q \in Strengths : s[q] \in Levels
    BY <1>4, <1>5, <1>7, SettingsFields
  <2> QED
    BY <1>1, <1>5, <2>1, IsChunk
<1> QED
  BY <1>5, <1>6, <1>7

-----------------------------------------------------------------------------
(* EffectSettings: the invariant.                                           *)

Calls ==
    [at : {"parameter", "automate", "revision"}, index : 1..5,
     changed : SUBSET ParameterNames, parameters : Settings,
     endpointChanged : BOOLEAN, before : Unclamped, wanted : EndpointIds]

OwnEndpoint == IF InEngine THEN inst.endpoint ELSE NoEndpoint

\* The processor by itself: a running worker's capture is the endpoint's.
ProcessorInv ==
    /\ proc \in Settings /\ path \in BOOLEAN
    /\ gpuWorker \in {"off", "ready", "loop"} /\ capture \in EndpointIds
    /\ effect \in [Strengths -> Levels] /\ applied \in [Strengths -> Levels]
    /\ failures \in 0..MaxFailures
    /\ gpuWorker # "off" => capture = proc.endpoint

\* The editor lives outside the audio engine, and handlers run in an editor.
EditorInv ==
    /\ open \in BOOLEAN /\ editor \in Unclamped
    /\ \A p \in Switches : editor[p] \in {0, Full}
    /\ dragging \in Strengths \union {NotDragging}
    /\ open => ~InEngine
    /\ ~open => dragging = NotDragging
    /\ ~Idle => open /\ call \in Calls

InstanceInv ==
    /\ inst \in Unclamped /\ saved \subseteq Unclamped
    /\ revision \in {0, Full} /\ started \in BOOLEAN
    /\ hosting \in Hostings
    /\ proc.endpoint = OwnEndpoint

\* A parameter that the handler has changed is on its way to the processor;
\* the others are there.
InSync(p) == ~CutChunks => proc[p] = inst[p]
Handled(p) == ~Idle /\ call.at # "revision" /\ p \in call.changed
Told == \A p \in ParameterNames : Handled(p) \/ InSync(p)

\* What the handler has done so far: what it changed, the host was told of; the
\* endpoint it was called for is in the editor until it is in the instance.
HandlerInv ==
    ~Idle =>
        /\ call.at = "automate" =>
             call.index \in 1..4 /\ Parameters[call.index] \in call.changed
        /\ call.at # "revision" =>
             \A p \in call.changed : inst[p] = call.parameters[p]
        /\ call.at = "parameter" => inst = call.before \/ saved = {inst}
        /\ call.wanted # NoEndpoint /\ ~HostEchoes =>
             /\ editor.endpoint = call.wanted
             /\ call.at = "revision" \/ ~call.endpointChanged =>
                  inst.endpoint = call.wanted

SettingsInv == ProcessorInv /\ EditorInv /\ InstanceInv /\ Told /\ HandlerInv

LEMMA DefaultSettings ==
  Defaults \in Settings /\ Defaults \in Unclamped /\ Defaults.endpoint = NoEndpoint
<1>1. NoEndpoint \in EndpointIds
  BY DEF EndpointIds
<1>2. Full \in {0, Full} /\ Full \in Levels /\ 0 \in {0, Full}
  BY DEF Full, Levels
<1>3. Defaults \in Settings /\ Defaults.endpoint = NoEndpoint
  BY <1>1, <1>2 DEF Defaults, Settings
<1> QED
  BY <1>3, SettingsFields

LEMMA CallsAreCalls ==
  /\ NoCall \notin Calls
  /\ \A c \in Calls : c # NoCall
BY DEF NoCall, Calls

LEMMA InitSettings == SettingsInit => SettingsInv
<1> SUFFICES ASSUME SettingsInit PROVE SettingsInv
  OBVIOUS
<1> USE DefaultSettings, SettingsAssumption DEF SettingsInit, Idle
<1>1. ProcessorInv
  <2>1. NoStrengths \in [Strengths -> Levels] /\ NoEndpoint \in EndpointIds
    BY DEF NoStrengths, Levels, Full, EndpointIds
  <2>2. 0 \in 0..MaxFailures
    OBVIOUS
  <2> QED
    BY <2>1, <2>2 DEF ProcessorInv
<1>2. EditorInv
  BY SettingsFields DEF EditorInv
<1>3. InstanceInv
  BY DEF InstanceInv, OwnEndpoint
<1>4. Told /\ HandlerInv
  BY DEF Told, InSync, HandlerInv
<1> QED
  BY <1>1, <1>2, <1>3, <1>4 DEF SettingsInv

-----------------------------------------------------------------------------
(* EffectSettings: the steps.                                               *)

\* stop(), start(), and start() that throws, with the settings n.
LEMMA ProcessorStep ==
  ASSUME ProcessorInv, NEW n \in Settings,
         \/ ProcessorStop(n) /\ path' \in BOOLEAN /\ failures' = failures
         \/ ProcessorStart(n) /\ failures' = failures
         \/ ProcessorStartFails(n)
  PROVE  ProcessorInv' /\ proc' = n
<1>1. n.endpoint \in EndpointIds /\ \A s \in Strengths : n[s] \in Levels
  BY SettingsFields, ChunkFields
<1>2. NoStrengths \in [Strengths -> Levels] /\ NoEndpoint \in EndpointIds
  BY DEF NoStrengths, Levels, Full, EndpointIds
<1>3. CASE ProcessorStop(n) /\ path' \in BOOLEAN /\ failures' \in 0..MaxFailures
  BY <1>2, <1>3 DEF ProcessorStop, ProcessorInv
<1>4. CASE ProcessorStart(n) /\ failures' = failures
  BY <1>1, <1>2, <1>4 DEF ProcessorStart, ProcessorInv
<1>5. ASSUME ProcessorStartFails(n) PROVE failures' \in 0..MaxFailures
  BY <1>5, SettingsAssumption DEF ProcessorStartFails, ProcessorInv
<1> QED
  BY <1>3, <1>4, <1>5 DEF ProcessorStartFails, ProcessorInv

\* A restart with the settings n, where set_sample_rate and
\* set_reference_endpoint stop and start again.
LEMMA RestartStep ==
  ASSUME ProcessorInv, NEW n \in Settings,
         Unstarted(n) \/ Restarted(n) \/ RestartThrows(n)
  PROVE  ProcessorInv' /\ proc' = n
  BY ProcessorStep DEF Unstarted, Restarted, RestartThrows, ProcessorInv

\* Settings that do not change the endpoint, while the worker goes on.
LEMMA StoredSettings ==
  ASSUME ProcessorInv, proc' \in Settings, proc'.endpoint = proc.endpoint,
         UNCHANGED <<path, gpuWorker, capture, effect, applied, failures>>
  PROVE  ProcessorInv'
  BY DEF ProcessorInv

\* A call of the host between handlers leaves the instance and the processor
\* in agreement.
LEMMA HostCall ==
  ASSUME SettingsInv, Idle, call' = call, hosting' = hosting, ProcessorInv',
         inst' \in Unclamped, saved' \subseteq Unclamped,
         revision' \in {0, Full}, started' \in BOOLEAN,
         open' \in BOOLEAN, editor' \in Unclamped,
         \A p \in Switches : editor'[p] \in {0, Full},
         dragging' \in Strengths \union {NotDragging},
         open' => ~InEngine, ~open' => dragging' = NotDragging,
         proc'.endpoint = IF InEngine THEN inst'.endpoint ELSE NoEndpoint,
         ~CutChunks => \A p \in ParameterNames : proc'[p] = inst'[p]
  PROVE  SettingsInv'
<1>1. Idle'
  BY DEF Idle
<1>2. EditorInv'
  BY <1>1 DEF EditorInv, InEngine
<1>3. InstanceInv'
  BY DEF InstanceInv, OwnEndpoint, InEngine, SettingsInv
<1>4. Told' /\ HandlerInv'
  BY <1>1 DEF Told, InSync, HandlerInv, CutChunks
<1> QED
  BY <1>2, <1>3, <1>4 DEF SettingsInv

\* Between handlers.
LEMMA AtRest ==
  ASSUME SettingsInv, Idle
  PROVE  /\ proc.endpoint = OwnEndpoint
         /\ ~CutChunks => \A p \in ParameterNames : proc[p] = inst[p]
  BY DEF SettingsInv, InstanceInv, Told, InSync, Handled

\* The host creates, starts and stops the instance.
LEMMA LifeStep ==
  ASSUME SettingsInv, Recreate \/ Resume \/ ResumeFails \/ Suspend \/ SetSampleRate
  PROVE  SettingsInv'
<1> USE DEF window
<1>1. /\ ProcessorInv /\ proc \in Settings /\ failures \in 0..MaxFailures
      /\ path \in BOOLEAN
  BY DEF SettingsInv, ProcessorInv
<1>2. CASE Recreate
  <2>1. ProcessorInv' /\ proc' = Defaults
    BY <1>1, <1>2, ProcessorStep, DefaultSettings DEF Recreate
  <2>2. \A p \in ParameterNames : proc'[p] = inst'[p]
    BY <1>2, <2>1 DEF Recreate
  <2>3. /\ Defaults.endpoint = NoEndpoint /\ Defaults \in Unclamped /\ 0 \in {0, Full}
        /\ \A p \in Switches : Defaults[p] \in {0, Full}
    BY DefaultSettings, SettingsFields
  <2> QED
    BY <1>2, <2>1, <2>2, <2>3, HostCall
       DEF Recreate, SettingsInv, InstanceInv, EditorInv, Idle
<1>3. CASE Resume \/ ResumeFails \/ Suspend \/ SetSampleRate
  <2>1. ProcessorInv' /\ proc' = proc
    <3>1. CASE Resume
      BY <1>1, <3>1, ProcessorStep DEF Resume
    <3>2. CASE ResumeFails
      BY <1>1, <3>2, ProcessorStep DEF ResumeFails
    <3>3. CASE Suspend
      BY <1>1, <3>3, ProcessorStep DEF Suspend
    <3>4. CASE SetSampleRate
      BY <1>1, <3>4, RestartStep DEF SetSampleRate
    <3> QED
      BY <1>3, <3>1, <3>2, <3>3, <3>4
  <2>2. /\ Idle /\ UNCHANGED <<inst, revision, window, call, saved, hosting>>
        /\ started' \in BOOLEAN
    BY <1>3 DEF Resume, ResumeFails, Suspend, SetSampleRate, SettingsInv, InstanceInv
  <2> QED
    BY <2>1, <2>2, AtRest, HostCall DEF SettingsInv, InstanceInv, EditorInv, OwnEndpoint
<1> QED
  BY <1>2, <1>3

\* The editor shows what it is told, clamped.
LEMMA Shown ==
  ASSUME SettingsInv, NEW s \in Unclamped, ShowInEditor(s)
  PROVE  editor' \in Unclamped /\ \A p \in Switches : editor'[p] \in {0, Full}
  BY NormalisedChunk, SettingsFields DEF ShowInEditor, SettingsInv, EditorInv

\* The host sets a parameter, or the revision.
LEMMA ParameterStep ==
  ASSUME SettingsInv,
         \/ \E p \in Touched, v \in RawLevels : SetParameter(p, v)
         \/ \E v \in RawLevels : SetRevision(v)
  PROVE  SettingsInv'
<1> USE DEF window, processor
<1>1. ASSUME NEW p \in Touched, NEW v \in RawLevels, SetParameter(p, v)
      PROVE  SettingsInv'
  <2> DEFINE n == Normal(p, v)
  <2>1. /\ p \in ParameterNames /\ n \in RawLevels
        /\ p \in Switches => n \in {0, Full}
        /\ p \in Strengths => n \in Levels
    BY NormalLevels, SettingsAssumption
  <2>2. /\ inst \in Unclamped /\ proc \in Settings /\ proc \in Unclamped
        /\ proc.endpoint = OwnEndpoint
        /\ ~CutChunks => \A q \in ParameterNames : proc[q] = inst[q]
    BY <1>1, AtRest, SettingsFields
       DEF SetParameter, SettingsInv, InstanceInv, ProcessorInv
  <2>3. /\ inst' = [x \in Names |-> IF x = p THEN n ELSE inst[x]]
        /\ proc' = [x \in Names |-> IF x = p THEN n ELSE proc[x]]
    BY <1>1, <2>2, ChunkFields DEF SetParameter
  <2> HIDE DEF n
  <2>4. /\ inst' \in Unclamped /\ inst'.endpoint = inst.endpoint /\ inst'[p] = n
        /\ \A q \in ParameterNames : q # p => inst'[q] = inst[q]
    BY <2>1, <2>2, <2>3, OneParameter
  <2>5. /\ proc' \in Settings /\ proc'.endpoint = proc.endpoint /\ proc'[p] = n
        /\ \A q \in ParameterNames : q # p => proc'[q] = proc[q]
    BY <2>1, <2>2, <2>3, OneParameter
  <2>6. ~CutChunks => \A q \in ParameterNames : proc'[q] = inst'[q]
    BY <2>2, <2>4, <2>5
  <2>7. ProcessorInv'
    BY <1>1, <2>5, StoredSettings DEF SetParameter, SettingsInv
  <2>8. editor' \in Unclamped /\ \A q \in Switches : editor'[q] \in {0, Full}
    BY <1>1, <2>4, Shown DEF SetParameter
  <2> QED
    BY <1>1, <2>2, <2>4, <2>5, <2>6, <2>7, <2>8, HostCall
       DEF SetParameter, SettingsInv, InstanceInv, EditorInv, OwnEndpoint
<1>2. ASSUME NEW v \in RawLevels, SetRevision(v) PROVE SettingsInv'
  <2>1. editor' \in Unclamped /\ \A p \in Switches : editor'[p] \in {0, Full}
    BY <1>2, Shown DEF SetRevision, SettingsInv, InstanceInv
  <2>2. revision' \in {0, Full}
    BY <1>2 DEF SetRevision, Switch
  <2>3. ProcessorInv'
    BY <1>2 DEF SetRevision, SettingsInv, ProcessorInv
  <2> QED
    BY <1>2, <2>1, <2>2, <2>3, AtRest, HostCall
       DEF SetRevision, SettingsInv, InstanceInv, EditorInv, OwnEndpoint
<1> QED
  BY <1>1, <1>2

\* The host stores the chunk, or opens and closes the editor.
LEMMA WindowStep ==
  ASSUME SettingsInv, SaveChunk \/ OpenEditor \/ CloseEditor
  PROVE  SettingsInv'
<1> USE DEF window, processor
<1>1. /\ Idle
      /\ UNCHANGED <<inst, revision, started, processor, call, failures, hosting>>
  BY DEF SaveChunk, OpenEditor, CloseEditor
<1>2. ProcessorInv'
  BY <1>1 DEF SettingsInv, ProcessorInv
<1>3. saved' \subseteq Unclamped
  BY DEF SaveChunk, OpenEditor, CloseEditor, SettingsInv, InstanceInv
<1>4. /\ open' \in BOOLEAN
      /\ open' => ~InEngine
      /\ dragging' \in Strengths \union {NotDragging}
      /\ ~open' => dragging' = NotDragging
  <2>1. \/ UNCHANGED <<open, dragging>>
        \/ open' = TRUE /\ ~InEngine /\ dragging' = NotDragging
        \/ open' = FALSE /\ dragging' = NotDragging
    BY DEF SaveChunk, OpenEditor, CloseEditor
  <2>2. /\ open \in BOOLEAN
        /\ dragging \in Strengths \union {NotDragging}
        /\ open => ~InEngine
        /\ ~open => dragging = NotDragging
    BY DEF SettingsInv, EditorInv
  <2>3. CASE UNCHANGED <<open, dragging>>
    <3>1. open' = open /\ dragging' = dragging
      BY <2>3
    <3> QED
      BY <2>2, <3>1, Zenon
  <2> QED
    BY <2>1, <2>2, <2>3
<1>5. editor' \in Unclamped /\ \A p \in Switches : editor'[p] \in {0, Full}
  <2>1. inst \in Unclamped
    BY DEF SettingsInv, InstanceInv
  <2>2. Defaults \in Unclamped /\ \A p \in Switches : Defaults[p] \in {0, Full}
    BY DefaultSettings, SettingsFields
  <2> QED
    BY <2>1, <2>2, NormalisedChunk
       DEF SaveChunk, OpenEditor, CloseEditor, SettingsInv, EditorInv
<1>6. /\ inst' \in Unclamped /\ revision' \in {0, Full} /\ started' \in BOOLEAN
      /\ proc'.endpoint = IF InEngine THEN inst'.endpoint ELSE NoEndpoint
      /\ ~CutChunks => \A p \in ParameterNames : proc'[p] = inst'[p]
  BY <1>1, AtRest DEF SettingsInv, InstanceInv, OwnEndpoint
<1> QED
  BY <1>1, <1>2, <1>3, <1>4, <1>5, <1>6, HostCall

\* The host loads a chunk: its settings, or in the Configuration Editor its
\* parameters, are the processor's when it returns.
LEMMA LoadStep ==
  ASSUME SettingsInv, NEW c \in Presets \union saved, LoadChunk(c)
  PROVE  SettingsInv'
<1> DEFINE n == Normalised(c)
           w == WithParameters(proc, n)
<1>1. c \in Unclamped
  BY SettingsAssumption DEF SettingsInv, InstanceInv
<1>2. n \in Settings /\ n \in Unclamped
  BY <1>1, NormalisedChunk, SettingsFields
<1>3. /\ ProcessorInv /\ proc \in Settings /\ proc \in Unclamped
      /\ proc.endpoint = OwnEndpoint
  BY SettingsFields DEF SettingsInv, InstanceInv, ProcessorInv
<1>4. /\ Idle /\ inst' = n
      /\ UNCHANGED <<revision, started, open, dragging, call, saved, hosting>>
  BY DEF LoadChunk
<1>5. editor' \in Unclamped /\ \A p \in Switches : editor'[p] \in {0, Full}
  <2>1. ShowInEditor(n) \/ UNCHANGED editor
    BY DEF LoadChunk
  <2> HIDE DEF n
  <2> QED
    BY <1>2, <2>1, Shown DEF SettingsInv, EditorInv
<1>6. /\ ProcessorInv'
      /\ proc'.endpoint = IF InEngine THEN n.endpoint ELSE NoEndpoint
      /\ \A p \in ParameterNames : proc'[p] = n[p]
  <2>1. CASE ~InEngine
    <3>1. /\ proc' = w
          /\ UNCHANGED <<path, gpuWorker, capture, effect, applied, failures>>
      BY <2>1 DEF LoadChunk
    <3> HIDE DEF n
    <3>2. /\ w \in Settings /\ w.endpoint = proc.endpoint
          /\ \A p \in ParameterNames : w[p] = n[p]
      BY <1>2, <1>3, ParametersOf
    <3> HIDE DEF w
    <3>3. ProcessorInv'
      BY <1>3, <3>1, <3>2, StoredSettings
    <3> QED
      BY <1>3, <2>1, <3>1, <3>2, <3>3 DEF OwnEndpoint
  <2>2. CASE InEngine
    <3>1. SameEndpoint(n) \/ Unstarted(n) \/ Restarted(n) \/ RestartThrows(n)
      BY <2>2 DEF LoadChunk
    <3> HIDE DEF n
    <3>2. ASSUME SameEndpoint(n) PROVE ProcessorInv' /\ proc' = n
      BY <1>2, <1>3, <3>2, StoredSettings DEF SameEndpoint
    <3>3. ProcessorInv' /\ proc' = n
      BY <1>2, <1>3, <3>1, <3>2, RestartStep
    <3> QED
      BY <2>2, <3>3
  <2> QED
    BY <2>1, <2>2
<1> HIDE DEF n
<1>7. /\ inst' \in Unclamped /\ saved' \subseteq Unclamped
      /\ revision' \in {0, Full} /\ started' \in BOOLEAN
      /\ open' \in BOOLEAN /\ dragging' \in Strengths \union {NotDragging}
      /\ open' => ~InEngine
      /\ ~open' => dragging' = NotDragging
  BY <1>2, <1>4 DEF SettingsInv, InstanceInv, EditorInv
<1>8. /\ proc'.endpoint = IF InEngine THEN inst'.endpoint ELSE NoEndpoint
      /\ \A p \in ParameterNames : proc'[p] = inst'[p]
  BY <1>4, <1>6
<1> QED
  BY <1>4, <1>5, <1>6, <1>7, <1>8, HostCall

\* The host loads a chunk that is cut short.
LEMMA CutStep ==
  ASSUME SettingsInv, NEW c \in Presets, LoadCutChunk(c)
  PROVE  SettingsInv'
<1> USE DEF window, processor
<1>1. /\ Idle /\ CutChunks /\ inst' = WithParameters(inst, c)
      /\ UNCHANGED <<revision, started, processor, window, call, saved, failures,
                     hosting>>
  BY DEF LoadCutChunk
<1>2. inst \in Unclamped /\ c \in Unclamped
  BY SettingsAssumption DEF SettingsInv, InstanceInv
<1>3. inst' \in Unclamped /\ inst'.endpoint = inst.endpoint
  BY <1>1, <1>2, ParametersOf
<1>4. ProcessorInv'
  BY <1>1 DEF SettingsInv, ProcessorInv
<1> QED
  BY <1>1, <1>3, <1>4, AtRest, HostCall
     DEF SettingsInv, InstanceInv, EditorInv, OwnEndpoint

\* The user starts a handler: what settings the editor then holds.
LEMMA Notified ==
  ASSUME SettingsInv, UserActs, NEW n \in Unclamped, NEW e \in EndpointIds,
         \A p \in Switches : n[p] \in {0, Full},
         e # NoEndpoint => n.endpoint = e,
         NotifySettings(n, e), dragging' = dragging
  PROVE  SettingsInv'
<1> USE DEF processor
<1>1. /\ Idle /\ open /\ editor' = n
      /\ UNCHANGED <<inst, revision, started, processor, open, saved, failures,
                     hosting, dragging>>
      /\ call' = [at |-> "parameter", index |-> 1, changed |-> {},
                  parameters |-> Normalised(n),
                  endpointChanged |-> inst.endpoint # n.endpoint,
                  before |-> inst, wanted |-> e]
  BY DEF UserActs, NotifySettings
<1>2. Normalised(n) \in Settings /\ inst \in Unclamped
  BY NormalisedChunk DEF SettingsInv, InstanceInv
<1>3. call' \in Calls
  BY <1>1, <1>2 DEF Calls
<1>4. ProcessorInv' /\ InstanceInv'
  BY <1>1 DEF SettingsInv, ProcessorInv, InstanceInv, OwnEndpoint, InEngine
<1>5. EditorInv'
  BY <1>1, <1>3 DEF SettingsInv, EditorInv, InEngine
<1>6. Told'
  BY <1>1, AtRest DEF Told, InSync, CutChunks
<1>7. HandlerInv'
  BY <1>1 DEF HandlerInv
<1> QED
  BY <1>4, <1>5, <1>6, <1>7 DEF SettingsInv

\* The user clicks, drags and lets go.
LEMMA UserStep ==
  ASSUME SettingsInv, UserNext
  PROVE  SettingsInv'
<1> USE DEF processor
<1>1. /\ editor \in Unclamped /\ \A p \in Switches : editor[p] \in {0, Full}
      /\ NoEndpoint \in EndpointIds
  BY DEF SettingsInv, EditorInv, EndpointIds
<1>2. ASSUME NEW p \in ParameterNames, NEW v \in RawLevels,
             p \in Switches => v \in {0, Full}
      PROVE  /\ [editor EXCEPT ![p] = v] \in Unclamped
             /\ \A q \in Switches : [editor EXCEPT ![p] = v][q] \in {0, Full}
  <2> DEFINE n == [editor EXCEPT ![p] = v]
  <2>1. n = [x \in Names |-> IF x = p THEN v ELSE editor[x]]
    BY <1>1, ChunkFields
  <2> HIDE DEF n
  <2>2. /\ n \in Unclamped /\ n[p] = v
        /\ \A q \in ParameterNames : q # p => n[q] = editor[q]
    BY <1>1, <1>2, <2>1, OneParameter
  <2>3. \A q \in Switches : n[q] \in {0, Full}
    BY <1>1, <1>2, <2>2 DEF ParameterNames
  <2> QED
    BY <2>2, <2>3 DEF n
<1>3. ASSUME NEW p \in Switches, ClickSwitch(p) PROVE SettingsInv'
  <2> DEFINE n == [editor EXCEPT ![p] = Full - editor[p]]
  <2>1. Full - editor[p] \in {0, Full} /\ Full - editor[p] \in RawLevels
    BY <1>1 DEF Full, RawLevels
  <2>2. n \in Unclamped /\ \A q \in Switches : n[q] \in {0, Full}
    BY <1>2, <2>1 DEF ParameterNames
  <2>3. UserActs /\ NotifySettings(n, NoEndpoint) /\ dragging' = dragging
    BY <1>3 DEF ClickSwitch
  <2> HIDE DEF n
  <2> QED
    BY <1>1, <2>2, <2>3, Notified
<1>4. ASSUME NEW v \in Levels, Release(v) PROVE SettingsInv'
  <2> DEFINE n == [editor EXCEPT ![dragging] = v]
  <2>1. /\ dragging \in ParameterNames /\ dragging \notin Switches
        /\ v \in RawLevels
    BY <1>4 DEF Release, SettingsInv, EditorInv, ParameterNames, Switches, Strengths,
       Levels, RawLevels, Full
  <2>2. n \in Unclamped /\ \A q \in Switches : n[q] \in {0, Full}
    BY <1>2, <2>1
  <2>3. UserActs /\ NotifySettings(n, NoEndpoint) /\ dragging' = dragging
    BY <1>4 DEF Release
  <2> HIDE DEF n
  <2> QED
    BY <1>1, <2>2, <2>3, Notified
<1>5. ASSUME NEW e \in Endpoints, ApplyReference(e) PROVE SettingsInv'
  <2> DEFINE n == [editor EXCEPT !.endpoint = e]
  <2>1. n = [x \in Names |-> IF x = "endpoint" THEN e ELSE editor[x]]
    BY <1>1, ChunkFields
  <2>2. UserActs /\ NotifySettings(n, e) /\ dragging' = dragging
    BY <1>5 DEF ApplyReference
  <2>3. e \in EndpointIds
    BY DEF EndpointIds
  <2> HIDE DEF n
  <2>4. /\ n \in Unclamped /\ n.endpoint = e
        /\ \A q \in ParameterNames : n[q] = editor[q]
    BY <1>1, <2>1, <2>3, OneEndpoint
  <2>5. \A q \in Switches : n[q] \in {0, Full}
    BY <1>1, <2>4 DEF ParameterNames
  <2> QED
    BY <2>2, <2>3, <2>4, <2>5, Notified
<1>6. ASSUME NEW s \in Strengths, NEW v \in Levels, Drag(s, v) PROVE SettingsInv'
  <2>1. /\ s \in ParameterNames /\ s \notin Switches /\ v \in RawLevels
    BY DEF ParameterNames, Switches, Strengths, Levels, RawLevels, Full
  <2>2. /\ UserActs /\ dragging' = s /\ editor' = [editor EXCEPT ![s] = v]
        /\ UNCHANGED <<inst, revision, started, processor, open, call, saved,
                       failures, hosting>>
    BY <1>6 DEF Drag
  <2>3. editor' \in Unclamped /\ \A q \in Switches : editor'[q] \in {0, Full}
    BY <1>2, <2>1, <2>2
  <2>4. ProcessorInv'
    BY <2>2 DEF SettingsInv, ProcessorInv
  <2> QED
    BY <2>2, <2>3, <2>4, AtRest, HostCall
       DEF UserActs, SettingsInv, InstanceInv, EditorInv, OwnEndpoint
<1>7. CASE LoseCapture
  <2>1. /\ UserActs /\ dragging' = NotDragging
        /\ UNCHANGED <<inst, revision, started, processor, open, editor, call, saved,
                       failures, hosting>>
    BY <1>7 DEF LoseCapture
  <2>2. ProcessorInv'
    BY <2>1 DEF SettingsInv, ProcessorInv
  <2> QED
    BY <2>1, <2>2, AtRest, HostCall
       DEF UserActs, SettingsInv, InstanceInv, EditorInv, OwnEndpoint
<1> QED
  BY <1>3, <1>4, <1>5, <1>6, <1>7 DEF UserNext

-----------------------------------------------------------------------------
(* EffectSettings: the steps of the handler.                                *)

LEMMA InHandler ==
  ASSUME SettingsInv, ~Idle
  PROVE  /\ call \in Calls /\ open /\ ~InEngine
         /\ call.at \in {"parameter", "automate", "revision"}
         /\ call.index \in 1..5
         /\ call.changed \subseteq ParameterNames
         /\ call.parameters \in Settings
         /\ call.index <= 4 => Parameters[call.index] \in ParameterNames
         /\ proc.endpoint = NoEndpoint
<1>1. call \in Calls /\ open /\ ~InEngine
  BY DEF SettingsInv, EditorInv
<1>2. /\ call.at \in {"parameter", "automate", "revision"}
      /\ call.index \in 1..5
      /\ call.changed \subseteq ParameterNames
      /\ call.parameters \in Settings
  BY <1>1 DEF Calls
<1>3. \A i \in 1..4 : Parameters[i] \in ParameterNames
  <2>1. \A i \in 1..4 : i = 1 \/ i = 2 \/ i = 3 \/ i = 4
    OBVIOUS
  <2> QED
    BY <2>1 DEF Parameters, ParameterNames, Switches, Strengths
<1>4. proc.endpoint = NoEndpoint
  BY <1>1 DEF SettingsInv, InstanceInv, OwnEndpoint
<1> QED
  BY <1>1, <1>2, <1>3, <1>4

\* What the handler hands to the processor when it has looked at every parameter.
LEMMA HandedOver ==
  ASSUME SettingsInv, ~Idle, call.at = "parameter", proc' = ChangedInProcessor,
         UNCHANGED <<path, gpuWorker, capture, effect, applied, failures>>
  PROVE  /\ ProcessorInv' /\ proc'.endpoint = proc.endpoint
         /\ ~CutChunks => \A p \in ParameterNames : proc'[p] = inst[p]
<1>1. /\ call.changed \subseteq ParameterNames /\ call.parameters \in Settings
      /\ \A p \in call.changed : inst[p] = call.parameters[p]
  BY InHandler DEF SettingsInv, HandlerInv
<1>2. /\ ProcessorInv /\ proc \in Settings /\ proc \in Unclamped
      /\ DOMAIN proc = Names /\ proc.endpoint \in EndpointIds
  BY SettingsFields, ChunkFields DEF SettingsInv, ProcessorInv
<1>3. proc' = [x \in Names |-> IF x \in call.changed THEN inst[x] ELSE proc[x]]
  BY <1>2 DEF ChangedInProcessor
<1>4. /\ "endpoint" \in Names /\ "endpoint" \notin ParameterNames
      /\ ParameterNames \subseteq Names
      /\ Switches \subseteq ParameterNames /\ Strengths \subseteq ParameterNames
  BY DEF Names, ParameterNames, Switches, Strengths
<1>5. /\ proc' = [x \in Names |-> proc'[x]] /\ proc'["endpoint"] = proc["endpoint"]
      /\ \A p \in ParameterNames :
           proc'[p] = IF p \in call.changed THEN inst[p] ELSE proc[p]
  BY <1>1, <1>3, <1>4
<1>6. proc' \in Settings
  <2>1. /\ \A p \in ParameterNames : proc'[p] \in RawLevels
        /\ \A p \in Switches : proc'[p] \in {0, Full}
        /\ \A p \in Strengths : proc'[p] \in Levels
    <3>1. \A p \in ParameterNames :
            proc'[p] = call.parameters[p] \/ proc'[p] = proc[p]
      BY <1>1, <1>5
    <3>2. ASSUME NEW r \in Settings
          PROVE  /\ \A p \in ParameterNames : r[p] \in RawLevels
                 /\ \A p \in Switches : r[p] \in {0, Full}
                 /\ \A p \in Strengths : r[p] \in Levels
      BY <3>2, SettingsFields, ChunkFields
    <3> QED
      BY <1>1, <1>2, <1>4, <3>1, <3>2
  <2> QED
    BY <1>2, <1>5, <2>1, IsChunk
<1>7. ProcessorInv'
  BY <1>2, <1>5, <1>6, StoredSettings
<1>8. ASSUME ~CutChunks, NEW p \in ParameterNames PROVE proc'[p] = inst[p]
  BY <1>5, <1>8 DEF SettingsInv, Told, Handled, InSync
<1> QED
  BY <1>5, <1>7, <1>8

\* The handler looks at a parameter and changes it in the instance.
LEMMA LookStep ==
  ASSUME SettingsInv, SkipParameter \/ ChangeParameter
  PROVE  SettingsInv'
<1> USE DEF window, processor
<1> DEFINE p == Parameters[call.index]
<1>1. /\ ~Idle /\ call.at = "parameter" /\ call.index <= 4
      /\ UNCHANGED <<revision, started, processor, window, saved, failures, hosting>>
  BY DEF SkipParameter, ChangeParameter, Looking
<1>2. /\ p \in ParameterNames /\ call.index \in 1..4
      /\ call.parameters \in Settings /\ call.changed \subseteq ParameterNames
      /\ inst \in Unclamped
  BY <1>1, InHandler DEF SettingsInv, InstanceInv
<1>3. ProcessorInv'
  BY <1>1 DEF SettingsInv, ProcessorInv
<1>4. CASE SkipParameter
  <2>1. call' = [call EXCEPT !.index = call.index + 1] /\ inst' = inst
    BY <1>4 DEF SkipParameter
  <2>2. /\ call' \in Calls /\ ~Idle' /\ call'.at = "parameter"
        /\ call'.changed = call.changed /\ call'.parameters = call.parameters
        /\ call'.endpointChanged = call.endpointChanged
        /\ call'.before = call.before /\ call'.wanted = call.wanted
    <3>1. call.index + 1 \in 1..5 /\ call \in Calls
      BY <1>1, <1>2, InHandler
    <3>2. call' \in Calls
      BY <2>1, <3>1 DEF Calls
    <3> QED
      BY <1>1, <2>1, <3>1, <3>2, CallsAreCalls DEF Calls, Idle
  <2>3. EditorInv'
    BY <1>1, <2>2 DEF SettingsInv, EditorInv, InEngine
  <2>4. InstanceInv'
    BY <1>1, <2>1 DEF SettingsInv, InstanceInv, OwnEndpoint, InEngine
  <2>5. Told'
    BY <1>1, <2>1, <2>2 DEF SettingsInv, Told, Handled, InSync, CutChunks
  <2>6. HandlerInv'
    BY <1>1, <2>1, <2>2 DEF SettingsInv, HandlerInv, HostEchoes
  <2> QED
    BY <1>3, <2>3, <2>4, <2>5, <2>6 DEF SettingsInv
<1>5. CASE ChangeParameter
  <2>1. /\ inst' = [inst EXCEPT ![p] = call.parameters[p]]
        /\ call' = [call EXCEPT !.at = "automate", !.changed = call.changed \union {p}]
    BY <1>5 DEF ChangeParameter
  <2> HIDE DEF p
  <2>2. /\ call' \in Calls /\ ~Idle' /\ call'.at = "automate"
        /\ call'.index = call.index
        /\ call'.changed = call.changed \union {p}
        /\ call'.parameters = call.parameters
        /\ call'.endpointChanged = call.endpointChanged
        /\ call'.before = call.before /\ call'.wanted = call.wanted
    <3>1. call.changed \union {p} \in SUBSET ParameterNames /\ call \in Calls
      BY <1>1, <1>2, InHandler
    <3>2. call' \in Calls
      BY <2>1, <3>1 DEF Calls
    <3> QED
      BY <2>1, <3>1, <3>2, CallsAreCalls DEF Calls, Idle
  <2>3. /\ inst' \in Unclamped /\ inst'.endpoint = inst.endpoint
        /\ inst'[p] = call.parameters[p]
        /\ \A q \in ParameterNames : q # p => inst'[q] = inst[q]
    <3>1. inst' = [x \in Names |-> IF x = p THEN call.parameters[p] ELSE inst[x]]
      BY <1>2, <2>1, ChunkFields
    <3>2. call.parameters[p] \in RawLevels
      BY <1>2, SettingsFields, ChunkFields
    <3> QED
      BY <1>2, <3>1, <3>2, OneParameter
  <2>4. EditorInv'
    BY <1>1, <2>2 DEF SettingsInv, EditorInv, InEngine
  <2>5. InstanceInv'
    BY <1>1, <2>3 DEF SettingsInv, InstanceInv, OwnEndpoint, InEngine
  <2>6. Told'
    BY <1>1, <2>2, <2>3 DEF SettingsInv, Told, Handled, InSync, CutChunks
  <2>7. HandlerInv'
    <3>1. call'.index \in 1..4 /\ Parameters[call'.index] \in call'.changed
      BY <1>2, <2>2 DEF p
    <3>2. \A q \in call'.changed : inst'[q] = call'.parameters[q]
      BY <1>1, <1>2, <2>2, <2>3 DEF SettingsInv, HandlerInv
    <3> QED
      BY <1>1, <2>2, <2>3, <3>1, <3>2 DEF SettingsInv, HandlerInv, HostEchoes
  <2> QED
    BY <1>3, <2>4, <2>5, <2>6, <2>7 DEF SettingsInv
<1> QED
  BY <1>4, <1>5

\* The host is called back for a parameter.
LEMMA HearStep ==
  ASSUME SettingsInv, HostHearsParameter
  PROVE  SettingsInv'
<1> DEFINE p == Parameters[call.index]
<1>1. /\ ~Idle /\ call.at = "automate" /\ saved' = {inst}
      /\ call' = [call EXCEPT !.at = "parameter", !.index = call.index + 1]
      /\ UNCHANGED <<inst, revision, started, path, gpuWorker, capture, effect,
                     applied, open, dragging, failures, hosting>>
  BY DEF HostHearsParameter
<1>2. /\ HostEchoes => /\ proc' = [proc EXCEPT ![p] = inst[p]]
                       /\ ShowInEditor(inst)
      /\ ~HostEchoes => UNCHANGED <<proc, editor>>
  BY DEF HostHearsParameter
<1>3. /\ call.index \in 1..4 /\ p \in call.changed /\ p \in ParameterNames
      /\ call.changed \subseteq ParameterNames /\ call.parameters \in Settings
      /\ inst[p] = call.parameters[p]
      /\ inst \in Unclamped /\ proc \in Settings /\ proc \in Unclamped
  BY <1>1, InHandler, SettingsFields DEF SettingsInv, HandlerInv, InstanceInv, ProcessorInv
<1> HIDE DEF p
<1>4. /\ call' \in Calls /\ ~Idle' /\ call'.at = "parameter"
      /\ call'.changed = call.changed /\ call'.parameters = call.parameters
      /\ call'.endpointChanged = call.endpointChanged
      /\ call'.before = call.before /\ call'.wanted = call.wanted
  <2>1. call.index + 1 \in 1..5 /\ call \in Calls
    BY <1>1, <1>3, InHandler
  <2>2. call' \in Calls
    BY <1>1, <2>1 DEF Calls
  <2> QED
    BY <1>1, <2>1, <2>2, CallsAreCalls DEF Calls, Idle
<1>5. /\ proc' \in Settings /\ proc'.endpoint = proc.endpoint
      /\ \A q \in ParameterNames : q # p => proc'[q] = proc[q]
  <2>1. CASE HostEchoes
    <3>1. proc' = [x \in Names |-> IF x = p THEN inst[p] ELSE proc[x]]
      BY <1>2, <1>3, <2>1, ChunkFields
    <3>2. /\ inst[p] \in RawLevels
          /\ p \in Switches => inst[p] \in {0, Full}
          /\ p \in Strengths => inst[p] \in Levels
      BY <1>3, SettingsFields, ChunkFields
    <3> QED
      BY <1>3, <3>1, <3>2, OneParameter
  <2>2. CASE ~HostEchoes
    BY <1>2, <1>3, <2>2
  <2> QED
    BY <2>1, <2>2
<1>6. editor' \in Unclamped /\ \A q \in Switches : editor'[q] \in {0, Full}
  BY <1>2, <1>3, Shown DEF SettingsInv, EditorInv
<1>7. ProcessorInv'
  BY <1>1, <1>5, StoredSettings DEF SettingsInv
<1>8. EditorInv'
  BY <1>1, <1>4, <1>6 DEF SettingsInv, EditorInv, InEngine
<1>9. InstanceInv'
  BY <1>1, <1>3, <1>5 DEF SettingsInv, InstanceInv, OwnEndpoint, InEngine
<1>10. Told'
  BY <1>1, <1>3, <1>4, <1>5 DEF SettingsInv, Told, Handled, InSync, CutChunks
<1>11. HandlerInv'
  BY <1>1, <1>2, <1>4 DEF SettingsInv, HandlerInv, HostEchoes
<1> QED
  BY <1>7, <1>8, <1>9, <1>10, <1>11 DEF SettingsInv

\* The handler hands the parameters to the processor, with or without a new
\* endpoint, and the host is called back for the revision.
LEMMA EndStep ==
  ASSUME SettingsInv, FinishParameters \/ ChangeEndpoint \/ HostHearsRevision
  PROVE  SettingsInv'
<1> USE DEF processor
<1>1. ~Idle
  BY DEF FinishParameters, ChangeEndpoint, HostHearsRevision
<1>2. /\ call \in Calls /\ open /\ ~InEngine /\ inst \in Unclamped
      /\ editor \in Unclamped /\ proc.endpoint = NoEndpoint
  BY <1>1, InHandler DEF SettingsInv, InstanceInv, EditorInv
<1>3. CASE FinishParameters
  <2>1. /\ call.at = "parameter" /\ proc' = ChangedInProcessor
        /\ call' = NoCall /\ dragging' = NotDragging
        /\ UNCHANGED <<inst, revision, started, path, gpuWorker, capture, effect,
                       applied, open, editor, saved, failures, hosting>>
    BY <1>3 DEF FinishParameters, Return
  <2>2. /\ ProcessorInv' /\ proc'.endpoint = NoEndpoint
        /\ ~CutChunks => \A p \in ParameterNames : proc'[p] = inst[p]
    BY <1>1, <1>2, <2>1, HandedOver
  <2>3. EditorInv' /\ InstanceInv'
    BY <1>2, <2>1, <2>2
       DEF SettingsInv, EditorInv, InstanceInv, OwnEndpoint, InEngine, Idle
  <2>4. Told' /\ HandlerInv'
    BY <2>1, <2>2 DEF Told, InSync, CutChunks, HandlerInv, Idle
  <2> QED
    BY <2>2, <2>3, <2>4 DEF SettingsInv
<1>4. CASE ChangeEndpoint
  <2>1. /\ call.at = "parameter" /\ proc' = ChangedInProcessor
        /\ call.endpointChanged
        /\ inst' = [inst EXCEPT !.endpoint = editor.endpoint]
        /\ revision' = Full - revision
        /\ call' = [call EXCEPT !.at = "revision"]
        /\ UNCHANGED <<started, path, gpuWorker, capture, effect, applied, window,
                       saved, failures, hosting>>
    BY <1>4 DEF ChangeEndpoint
  <2>2. /\ ProcessorInv' /\ proc'.endpoint = NoEndpoint
        /\ ~CutChunks => \A p \in ParameterNames : proc'[p] = inst[p]
    BY <1>1, <1>2, <2>1, HandedOver
  <2>3. /\ inst' \in Unclamped /\ inst'.endpoint = editor.endpoint
        /\ \A p \in ParameterNames : inst'[p] = inst[p]
    <3>1. inst' = [x \in Names |-> IF x = "endpoint" THEN editor.endpoint ELSE inst[x]]
      BY <1>2, <2>1, ChunkFields
    <3>2. editor.endpoint \in EndpointIds
      BY <1>2, ChunkFields
    <3> QED
      BY <1>2, <3>1, <3>2, OneEndpoint
  <2>4. /\ call' \in Calls /\ ~Idle' /\ call'.at = "revision"
        /\ call'.wanted = call.wanted
    <3>1. call' \in Calls
      BY <1>2, <2>1 DEF Calls
    <3> QED
      BY <1>2, <2>1, <3>1, CallsAreCalls DEF Calls, Idle
  <2>5. EditorInv'
    <3>1. UNCHANGED <<open, editor, dragging, hosting>>
      BY <2>1 DEF window
    <3>2. open' = TRUE /\ ~InEngine' /\ open' \in BOOLEAN
      BY <1>2, <3>1 DEF InEngine, SettingsInv, EditorInv
    <3> QED
      BY <2>4, <3>1, <3>2 DEF SettingsInv, EditorInv
  <2>6. revision' \in {0, Full}
    BY <2>1 DEF SettingsInv, InstanceInv, Full
  <2>7. InstanceInv'
    BY <1>2, <2>1, <2>2, <2>3, <2>6 DEF SettingsInv, InstanceInv, OwnEndpoint, InEngine
  <2>8. Told'
    BY <2>1, <2>2, <2>3 DEF Told, InSync, CutChunks
  <2>9. HandlerInv'
    BY <1>1, <2>1, <2>3, <2>4 DEF SettingsInv, HandlerInv, HostEchoes, window
  <2> QED
    BY <2>2, <2>5, <2>7, <2>8, <2>9 DEF SettingsInv
<1>5. CASE HostHearsRevision
  <2>1. /\ call.at = "revision" /\ saved' = {inst}
        /\ call' = NoCall /\ dragging' = NotDragging
        /\ ShowInEditor(inst) \/ UNCHANGED editor
        /\ UNCHANGED <<inst, revision, started, processor, open, failures, hosting>>
    BY <1>5 DEF HostHearsRevision, Return
  <2>2. ProcessorInv'
    BY <2>1 DEF SettingsInv, ProcessorInv
  <2>3. editor' \in Unclamped /\ \A p \in Switches : editor'[p] \in {0, Full}
    BY <1>2, <2>1, Shown DEF SettingsInv, EditorInv
  <2>4. EditorInv' /\ InstanceInv'
    BY <1>2, <2>1, <2>3
       DEF SettingsInv, EditorInv, InstanceInv, OwnEndpoint, InEngine, Idle
  <2>5. Told' /\ HandlerInv'
    BY <2>1 DEF SettingsInv, Told, Handled, InSync, CutChunks, HandlerInv, Idle
  <2> QED
    BY <2>2, <2>4, <2>5 DEF SettingsInv
<1> QED
  BY <1>3, <1>4, <1>5

\* The worker takes the strengths over.
LEMMA StrengthStep ==
  ASSUME SettingsInv, WorkerNext
  PROVE  SettingsInv'
<1> USE DEF window
<1>1. /\ gpuWorker # "off" /\ gpuWorker' = "loop"
      /\ UNCHANGED <<inst, revision, started, proc, path, capture, window, call, saved,
                     failures, hosting>>
  BY DEF WorkerNext, EnterLoop, TakeFrame
<1>2. applied' \in [Strengths -> Levels] /\ effect' \in [Strengths -> Levels]
  <2>1. \A s \in Strengths : proc[s] \in Levels
    BY SettingsFields DEF SettingsInv, ProcessorInv
  <2>2. effect \in [Strengths -> Levels] /\ applied \in [Strengths -> Levels]
    BY DEF SettingsInv, ProcessorInv
  <2>3. CASE EnterLoop
    BY <2>1, <2>2, <2>3 DEF EnterLoop
  <2>4. CASE TakeFrame
    <3>1. /\ effect' = [s \in Strengths |->
                          IF proc[s] # applied[s] THEN proc[s] ELSE effect[s]]
          /\ applied' = [s \in Strengths |-> proc[s]]
      BY <2>4 DEF TakeFrame
    <3>2. \A s \in Strengths : effect[s] \in Levels
      BY <2>2
    <3> QED
      BY <2>1, <3>1, <3>2
  <2> QED
    BY <2>3, <2>4 DEF WorkerNext
<1>3. ProcessorInv'
  BY <1>1, <1>2 DEF SettingsInv, ProcessorInv
<1>4. EditorInv' /\ InstanceInv'
  BY <1>1 DEF SettingsInv, EditorInv, InstanceInv, OwnEndpoint, InEngine, Idle
<1>5. Told' /\ HandlerInv'
  BY <1>1 DEF SettingsInv, Told, Handled, InSync, CutChunks, HandlerInv, HostEchoes, Idle
<1> QED
  BY <1>3, <1>4, <1>5 DEF SettingsInv

LEMMA SettingsStep == SettingsInv /\ [SettingsNext]_settingsVars => SettingsInv'
<1> SUFFICES ASSUME SettingsInv, [SettingsNext]_settingsVars PROVE SettingsInv'
  OBVIOUS
<1>1. CASE HostNext
  <2>1. Touched \subseteq ParameterNames
    BY SettingsAssumption
  <2> QED
    BY <1>1, <2>1, LifeStep, ParameterStep, WindowStep, LoadStep, CutStep DEF HostNext
<1>2. CASE UserNext
  BY <1>2, UserStep
<1>3. CASE HandlerNext
  BY <1>3, LookStep, HearStep, EndStep DEF HandlerNext
<1>4. CASE WorkerNext
  BY <1>4, StrengthStep
<1>5. CASE UNCHANGED settingsVars
  <2>1. UNCHANGED <<inst, revision, started, proc, path, gpuWorker, capture, effect,
                    applied, open, editor, dragging, call, saved, failures, hosting>>
    BY <1>5 DEF settingsVars, processor, window
  <2>2. ProcessorInv' /\ EditorInv' /\ InstanceInv'
    BY <2>1 DEF SettingsInv, ProcessorInv, EditorInv, InstanceInv, OwnEndpoint, InEngine,
       Idle
  <2>3. Told' /\ HandlerInv'
    BY <2>1 DEF SettingsInv, Told, Handled, InSync, CutChunks, HandlerInv, HostEchoes,
       Idle
  <2> QED
    BY <2>2, <2>3 DEF SettingsInv
<1> QED
  BY <1>1, <1>2, <1>3, <1>4, <1>5 DEF SettingsNext

LEMMA AlwaysSettings == SettingsSpec => []SettingsInv
  BY InitSettings, SettingsStep, PTL DEF SettingsSpec

-----------------------------------------------------------------------------
(* EffectSettings: the theorems.                                            *)

\* Every place that keeps the settings holds settings, whatever the host loads,
\* sets and echoes and for every number of failures.
THEOREM SettingsTypeCorrect == SettingsSpec => []SettingsTypeOK
<1>1. SettingsInv => SettingsTypeOK
  BY DEF SettingsInv, ProcessorInv, EditorInv, InstanceInv, SettingsTypeOK, Idle
<1> QED
  BY <1>1, AlwaysSettings, PTL

\* Outside a handler the processor works with the settings of the instance,
\* whichever of the host, a chunk and the editor changed them last.
THEOREM ProcessorFollows == SettingsSpec => []ProcessorInSync
<1>1. SettingsInv => ProcessorInSync
  <2> SUFFICES ASSUME SettingsInv, Idle, ~CutChunks
               PROVE  proc = [inst EXCEPT !.endpoint = OwnEndpoint]
    BY DEF ProcessorInSync, OwnEndpoint
  <2> DEFINE e == OwnEndpoint
             s == [inst EXCEPT !.endpoint = e]
  <2>1. /\ inst \in Unclamped /\ proc \in Unclamped /\ proc.endpoint = e
        /\ \A p \in ParameterNames : proc[p] = inst[p]
    BY AtRest, SettingsFields DEF SettingsInv, InstanceInv, ProcessorInv
  <2>2. e \in EndpointIds
    BY <2>1, ChunkFields
  <2> HIDE DEF e
  <2>3. s = [x \in Names |-> IF x = "endpoint" THEN e ELSE inst[x]]
    BY <2>1, ChunkFields
  <2> HIDE DEF s
  <2>4. s \in Unclamped /\ s.endpoint = e /\ \A p \in ParameterNames : s[p] = inst[p]
    BY <2>1, <2>2, <2>3, OneEndpoint
  <2>5. proc = s
    BY <2>1, <2>4, SameFields
  <2> QED
    BY <2>5 DEF s, e
<1> QED
  BY <1>1, AlwaysSettings, PTL

\* A running worker captures the endpoint that the instance selects, for every
\* set of endpoints, chunks and hosts.
THEOREM CaptureOfSelection == SettingsSpec => []CaptureFollowsSelection
<1>1. SettingsInv => CaptureFollowsSelection
  BY DEF SettingsInv, ProcessorInv, InstanceInv, OwnEndpoint, CaptureFollowsSelection
<1> QED
  BY <1>1, AlwaysSettings, PTL

\* What a change made in the editor leaves in the instance is in the chunk the
\* host stored last, however the host answers the callbacks; and this includes
\* the chosen endpoint, if the host does not set parameters back in them.
THEOREM SavedCommit == SettingsSpec => CommitIsSaved
<1>1. ASSUME SettingsInv, [SettingsNext]_settingsVars
      PROVE  [~Idle /\ call' = NoCall =>
                /\ inst' = call.before \/ saved' = {inst'}
                /\ call.wanted # NoEndpoint /\ ~HostEchoes =>
                     inst'.endpoint = call.wanted]_settingsVars
  <2> SUFFICES ASSUME SettingsNext, ~Idle, call' = NoCall
               PROVE  /\ inst' = call.before \/ saved' = {inst'}
                      /\ call.wanted # NoEndpoint /\ ~HostEchoes =>
                           inst'.endpoint = call.wanted
    BY <1>1
  <2>1. FinishParameters \/ HostHearsRevision
    <3>1. call \in Calls
      BY <1>1, InHandler
    <3>2. ~HostNext /\ ~UserNext
      BY DEF HostNext, UserNext, Recreate, Resume, ResumeFails, Suspend, SetSampleRate,
         SaveChunk, OpenEditor, CloseEditor, SetParameter, SetRevision, LoadChunk,
         LoadCutChunk, UserActs, ClickSwitch, Drag, Release, LoseCapture,
         ApplyReference
    <3>3. ~WorkerNext
      BY DEF WorkerNext, EnterLoop, TakeFrame, Idle
    <3>4. ~SkipParameter /\ ~ChangeParameter /\ ~HostHearsParameter /\ ~ChangeEndpoint
      <4>1. ASSUME SkipParameter \/ ChangeParameter \/ HostHearsParameter
                     \/ ChangeEndpoint
            PROVE  call'.at # "idle"
        BY <3>1, <4>1 DEF SkipParameter, ChangeParameter, HostHearsParameter,
           ChangeEndpoint, Looking, Calls
      <4> QED
        BY <4>1 DEF NoCall
    <3> QED
      BY <3>2, <3>3, <3>4 DEF SettingsNext, HandlerNext
  <2>2. CASE FinishParameters
    <3>1. /\ call.at = "parameter" /\ ~call.endpointChanged
          /\ inst' = inst /\ saved' = saved
      BY <2>2 DEF FinishParameters
    <3> QED
      BY <1>1, <3>1 DEF SettingsInv, HandlerInv
  <2>3. CASE HostHearsRevision
    <3>1. call.at = "revision" /\ inst' = inst /\ saved' = {inst}
      BY <2>3 DEF HostHearsRevision
    <3> QED
      BY <1>1, <3>1 DEF SettingsInv, HandlerInv
  <2> QED
    BY <2>1, <2>2, <2>3
<1> QED
  BY <1>1, AlwaysSettings, PTL DEF SettingsSpec, CommitIsSaved

================================================================================
