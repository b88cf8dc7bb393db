--------------------------- MODULE EffectSettings --------------------------
(***************************************************************************)
(* The settings of one plug-in instance and the four places that keep them: *)
(* the fields of EffectInstance (src/plugin/vst2_plugin.cpp), the atomics   *)
(* of PluginProcessor with the effects its worker drives                    *)
(* (plugin_processor.cpp), the embedded editor (plugin_editor.cpp) and the  *)
(* chunk the host stores.                                                   *)
(*                                                                          *)
(* All calls of the host and all window messages come on one thread.  A     *)
(* change made in the editor is not atomic though: apply_editor_settings    *)
(* calls the host back once per changed parameter, and the host may store   *)
(* the chunk or set the parameter again before it returns.  The worker runs *)
(* on a thread of its own.                                                  *)
(*                                                                          *)
(* Levels stand for the floats: 0 is 0.0, Half is 0.5, Full is 1.0, and     *)
(* Full + 1 is a value out of range.  The audio path is FramePipeline.      *)
(***************************************************************************)
EXTENDS Naturals

CONSTANTS
    Endpoints,      \* playback endpoints
    NoEndpoint,     \* the empty endpoint id
    Hostings,       \* the kinds of process the instance may live in: records
                    \* of the four definitions below that read "hosting"
    Touched,        \* bound: the parameters that are ever changed
    Presets,        \* chunks the host may load besides the one it stored
    MaxFailures     \* bound: calls of PluginProcessor::start that throw

EndpointIds == Endpoints \union {NoEndpoint}

Half == 1
Full == 2
Levels == 0 .. Full
RawLevels == 0 .. Full + 1

Switches == {"aec", "noise"}
Strengths == {"aecStrength", "noiseStrength"}
SwitchOf == [s \in Strengths |-> IF s = "aecStrength" THEN "aec" ELSE "noise"]

\* The order in which apply_editor_settings looks at the parameters.
Parameters == <<"aec", "aecStrength", "noise", "noiseStrength">>
ParameterNames == Switches \union Strengths

\* What a chunk may hold: numbers as they stand there.
Unclamped == [aec : RawLevels, aecStrength : RawLevels, noise : RawLevels,
              noiseStrength : RawLevels, endpoint : EndpointIds]

ASSUME SettingsAssumption ==
    /\ NoEndpoint \notin Endpoints
    /\ Hostings \subseteq [engine : BOOLEAN, echoes : BOOLEAN, cuts : BOOLEAN,
                          timely : BOOLEAN]
    /\ Touched \subseteq ParameterNames
    /\ Presets \subseteq Unclamped
    /\ MaxFailures \in Nat

VARIABLES
    inst,           \* EffectInstance: four parameters and playback_endpoint_id
    revision,       \* state_revision
    started,        \* EffectInstance::started
    proc,           \* PluginProcessor: the atomics and reference_endpoint_id_
    path,           \* whether plugin_path_ is set
    gpuWorker,      \* "off", "ready" (initialised) or "loop"
    capture,        \* the endpoint the loopback capture was opened on
    effect,         \* strength -> the intensity the effect was given
    applied,        \* strength -> applied_..._strength of the worker
    open,           \* whether there is an editor
    editor,         \* its settings_
    dragging,       \* dragging_slider_
    call,           \* the call of apply_editor_settings in progress
    saved,          \* the chunk the host keeps, or no element
    failures,
    hosting         \* where the instance lives; it never moves

processor == <<proc, path, gpuWorker, capture, effect, applied>>
window == <<open, editor, dragging>>
settingsVars == <<inst, revision, started, processor, window, call, saved, failures,
          hosting>>

\* The process is the Windows audio engine.
InEngine == hosting.engine
\* The host sets a parameter it is told about.
HostEchoes == hosting.echoes
\* A chunk may end within its endpoint id.
CutChunks == hosting.cuts
\* The worker has read the strengths when start() returns.
TimelyStart == hosting.timely

-----------------------------------------------------------------------------
NotDragging == "none"
NoCall == [at |-> "idle"]

Settings == [aec : {0, Full}, aecStrength : Levels,
             noise : {0, Full}, noiseStrength : Levels, endpoint : EndpointIds]

Switch(v) == IF v < Half THEN 0 ELSE Full
Clamp(v) == IF v > Full THEN Full ELSE v
Normal(p, v) == IF p \in Switches THEN Switch(v) ELSE Clamp(v)
Normalised(s) == [x \in DOMAIN s |-> IF x = "endpoint" THEN s[x] ELSE Normal(x, s[x])]

\* editor_settings: the editor's switches are on or off.
EditorSettings(s) == [x \in DOMAIN s |-> IF x \in Switches THEN Switch(s[x]) ELSE s[x]]

\* b with the four parameters of a.
WithParameters(b, a) == [x \in DOMAIN b |-> IF x = "endpoint" THEN b[x] ELSE a[x]]

Defaults == [aec |-> Full, aecStrength |-> Full, noise |-> 0,
             noiseStrength |-> Full, endpoint |-> NoEndpoint]
NoStrengths == [s \in Strengths |-> 0]

Idle == call = NoCall

-----------------------------------------------------------------------------
(* PluginProcessor.                                                         *)

\* stop() joins the worker and closes the capture; the settings stay.
ProcessorStop(newProc) ==
    /\ proc' = newProc
    /\ gpuWorker' = "off"
    /\ capture' = NoEndpoint
    /\ effect' = NoStrengths
    /\ applied' = NoStrengths

\* The effects are built with the strengths of the moment; the worker reads
\* them once more after it has told start() that it is initialised.
ProcessorStart(newProc) ==
    /\ proc' = newProc
    /\ path' = TRUE
    /\ capture' = newProc.endpoint
    /\ effect' = [s \in Strengths |-> newProc[s]]
    /\ IF TimelyStart
       THEN gpuWorker' = "loop" /\ applied' = effect'
       ELSE gpuWorker' = "ready" /\ applied' = NoStrengths

\* start() throws: it has stopped everything but keeps the path.
ProcessorStartFails(newProc) ==
    /\ failures < MaxFailures
    /\ failures' = failures + 1
    /\ path' = TRUE
    /\ ProcessorStop(newProc)

\* Stop and start again, as set_sample_rate and set_reference_endpoint do.
\* The disjuncts are: no path yet, success, an exception.
Unstarted(newProc) ==
    ~path /\ ProcessorStop(newProc) /\ UNCHANGED <<path, failures>>
Restarted(newProc) ==
    path /\ ProcessorStart(newProc) /\ UNCHANGED failures
RestartThrows(newProc) ==
    path /\ ProcessorStartFails(newProc)

\* Mutant: the endpoint is stored and the running capture left alone.
SameEndpoint_Stored(newProc) ==
    /\ proc' = newProc
    /\ UNCHANGED <<path, gpuWorker, capture, effect, applied, failures>>

\* set_reference_endpoint has nothing to do.
SameEndpoint(newProc) ==
    /\ newProc.endpoint = proc.endpoint
    /\ proc' = newProc
    /\ UNCHANGED <<path, gpuWorker, capture, effect, applied, failures>>

\* The worker enters its loop.
EnterLoop ==
    /\ gpuWorker = "ready"
    /\ gpuWorker' = "loop"
    /\ applied' = [s \in Strengths |-> proc[s]]
    /\ UNCHANGED <<inst, revision, started, proc, path, capture, effect,
                   window, call, saved, failures, hosting>>

\* The worker takes a frame and gives the effects a strength that changed.
TakeFrame ==
    /\ gpuWorker = "loop"
    /\ effect' = [s \in Strengths |->
                    IF proc[s] # applied[s] THEN proc[s] ELSE effect[s]]
    /\ applied' = [s \in Strengths |-> proc[s]]
    /\ UNCHANGED <<inst, revision, started, proc, path, gpuWorker, capture,
                   window, call, saved, failures, hosting>>

-----------------------------------------------------------------------------
(* Calls of the host, outside a callback.                                   *)

\* DESTROY, and VSTPluginMain for a new instance.
Recreate ==
    /\ Idle
    /\ inst' = Defaults /\ revision' = 0 /\ started' = FALSE
    /\ ProcessorStop(Defaults) /\ path' = FALSE
    /\ open' = FALSE /\ editor' = Defaults /\ dragging' = NotDragging
    /\ call' = NoCall
    /\ UNCHANGED <<saved, failures, hosting>>

\* RESUME and PROCESS_BEGIN.
Resume ==
    /\ Idle /\ ~started
    /\ started' = TRUE
    /\ ProcessorStart(proc)
    /\ UNCHANGED <<inst, revision, window, call, saved, failures, hosting>>
ResumeFails ==
    /\ Idle /\ ~started
    /\ ProcessorStartFails(proc)
    /\ UNCHANGED <<inst, revision, started, window, call, saved, hosting>>

\* SUSPEND and PROCESS_END.
Suspend ==
    /\ Idle
    /\ started' = FALSE
    /\ ProcessorStop(proc)
    /\ UNCHANGED <<inst, revision, path, window, call, saved, failures,
                   hosting>>

\* SET_SAMPLE_RATE with a rate other than the present one.
SetSampleRate ==
    /\ Idle
    /\ Unstarted(proc) \/ Restarted(proc) \/ RestartThrows(proc)
    /\ UNCHANGED <<inst, revision, started, window, call, saved, hosting>>

\* set_settings of the editor, which clamps the strengths.
ShowInEditor(settings) ==
    editor' = IF open THEN Normalised(settings) ELSE editor

\* set_parameter: what it does to the instance, the processor and the editor.
SetParameter(p, raw) ==
    /\ Idle
    /\ inst' = [inst EXCEPT ![p] = Normal(p, raw)]
    /\ proc' = [proc EXCEPT ![p] = Normal(p, raw)]
    /\ ShowInEditor(inst')
    /\ UNCHANGED <<revision, started, path, gpuWorker, capture, effect, applied,
                   open, dragging, call, saved, failures, hosting>>

\* set_parameter for parameter 0, the revision.
SetRevision(raw) ==
    /\ Idle
    /\ revision' = Switch(raw)
    /\ ShowInEditor(inst)
    /\ UNCHANGED <<inst, started, processor, open, dragging, call, saved, failures,
                   hosting>>

\* GET_CHUNK_DATA: the host stores the settings.
SaveChunk ==
    /\ Idle
    /\ saved' = {inst}
    /\ UNCHANGED <<inst, revision, started, processor, window, call, failures,
                   hosting>>

\* SET_CHUNK_DATA with a chunk that load_chunk accepts.  An exception of
\* set_reference_endpoint leaves before the editor is told.
LoadChunk(chunk) ==
    LET settings == Normalised(chunk)
        inProcess == WithParameters(proc, settings)
    IN  /\ Idle
        /\ inst' = settings
        /\ IF ~InEngine
           THEN /\ proc' = inProcess
                /\ UNCHANGED <<path, gpuWorker, capture, effect, applied, failures>>
                /\ ShowInEditor(settings)
           ELSE \/ SameEndpoint(settings) /\ ShowInEditor(settings)
                \/ /\ settings.endpoint # proc.endpoint
                   /\ \/ Unstarted(settings) /\ ShowInEditor(settings)
                      \/ Restarted(settings) /\ ShowInEditor(settings)
                      \/ RestartThrows(settings) /\ UNCHANGED editor
        /\ UNCHANGED <<revision, started, open, dragging, call, saved, hosting>>

\* A chunk whose endpoint id is cut short is refused, but its parameters have
\* been read into the instance by then, as they stand in the chunk.
LoadCutChunk(chunk) ==
    /\ Idle /\ CutChunks
    /\ inst' = WithParameters(inst, chunk)
    /\ UNCHANGED <<revision, started, processor, window, call, saved, failures,
                   hosting>>

OpenEditor ==
    /\ Idle /\ ~InEngine /\ ~open
    /\ open' = TRUE
    /\ editor' = EditorSettings(inst)
    /\ dragging' = NotDragging
    /\ UNCHANGED <<inst, revision, started, processor, call, saved, failures,
                   hosting>>

CloseEditor ==
    /\ Idle /\ open
    /\ open' = FALSE
    /\ editor' = Defaults
    /\ dragging' = NotDragging
    /\ UNCHANGED <<inst, revision, started, processor, call, saved, failures,
                   hosting>>

-----------------------------------------------------------------------------
(* The editor.  notify_settings passes settings_ by reference, so that      *)
(* apply_editor_settings sees in "editor" what set_settings stores there    *)
(* while the host is called back; the parameters are copied first.          *)

\* before and wanted belong to the properties.
NotifySettings(settings, wanted) ==
    /\ editor' = settings
    /\ call' = [at |-> "parameter", index |-> 1, changed |-> {},
                parameters |-> Normalised(settings),
                endpointChanged |-> inst.endpoint # settings.endpoint,
                before |-> inst, wanted |-> wanted]
    /\ UNCHANGED <<inst, revision, started, processor, open, saved, failures,
                   hosting>>

UserActs == Idle /\ open

ClickSwitch(p) ==
    /\ UserActs /\ dragging = NotDragging
    /\ NotifySettings([editor EXCEPT ![p] = Full - editor[p]], NoEndpoint)
    /\ UNCHANGED dragging

\* WM_LBUTTONDOWN on a slider, and WM_MOUSEMOVE: the value is not committed.
Drag(s, level) ==
    /\ UserActs
    /\ dragging \in {NotDragging, s}
    /\ dragging = NotDragging => editor[SwitchOf[s]] # 0
    /\ dragging' = s
    /\ editor' = [editor EXCEPT ![s] = level]
    /\ UNCHANGED <<inst, revision, started, processor, open, call, saved,
                   failures, hosting>>

\* WM_LBUTTONUP commits; the slider is let go when the handler returns.
Release(level) ==
    /\ UserActs
    /\ dragging # NotDragging
    /\ NotifySettings([editor EXCEPT ![dragging] = level], NoEndpoint)
    /\ UNCHANGED dragging

\* WM_CAPTURECHANGED: the drag ends with its value uncommitted.
LoseCapture ==
    /\ UserActs
    /\ dragging # NotDragging
    /\ dragging' = NotDragging
    /\ UNCHANGED <<inst, revision, started, processor, open, editor, call, saved,
                   failures, hosting>>

\* The button "Apply reference".
ApplyReference(e) ==
    /\ UserActs /\ dragging = NotDragging
    /\ NotifySettings([editor EXCEPT !.endpoint = e], e)
    /\ UNCHANGED dragging

-----------------------------------------------------------------------------
(* apply_editor_settings.                                                   *)

Looking == ~Idle /\ call.at = "parameter" /\ call.index <= 4

SkipParameter ==
    /\ Looking
    /\ LET p == Parameters[call.index]
       IN  inst[p] = call.parameters[p]
    /\ call' = [call EXCEPT !.index = @ + 1]
    /\ UNCHANGED <<inst, revision, started, processor, window, saved, failures,
                   hosting>>

ChangeParameter ==
    /\ Looking
    /\ LET p == Parameters[call.index]
       IN  /\ inst[p] # call.parameters[p]
           /\ inst' = [inst EXCEPT ![p] = call.parameters[p]]
           /\ call' = [call EXCEPT !.at = "automate", !.changed = @ \union {p}]
    /\ UNCHANGED <<revision, started, processor, window, saved, failures,
                   hosting>>

\* VST_HOST_OPCODE_AUTOMATE for a parameter: the host stores the chunk, and
\* one that echoes sets the parameter to the value it was told.
HostHearsParameter ==
    /\ ~Idle /\ call.at = "automate"
    /\ LET p == Parameters[call.index]
       IN  IF HostEchoes
           THEN /\ proc' = [proc EXCEPT ![p] = inst[p]]
                /\ ShowInEditor(inst)
           ELSE UNCHANGED <<proc, editor>>
    /\ saved' = {inst}
    /\ call' = [call EXCEPT !.at = "parameter", !.index = @ + 1]
    /\ UNCHANGED <<inst, revision, started, path, gpuWorker, capture, effect,
                   applied, open, dragging, failures, hosting>>

ChangedInProcessor ==
    [x \in DOMAIN proc |-> IF x \in call.changed THEN inst[x] ELSE proc[x]]

\* The handler returns to the window procedure.
Return ==
    /\ call' = NoCall
    /\ dragging' = NotDragging

\* Mutant: the processor is not told of the parameters.
FinishParameters_Untold ==
    /\ ~Idle /\ call.at = "parameter" /\ call.index > 4
    /\ ~call.endpointChanged
    /\ Return
    /\ UNCHANGED <<inst, revision, started, processor, open, editor, saved,
                   failures, hosting>>

FinishParameters ==
    /\ ~Idle /\ call.at = "parameter" /\ call.index > 4
    /\ ~call.endpointChanged
    /\ proc' = ChangedInProcessor
    /\ Return
    /\ UNCHANGED <<inst, revision, started, path, gpuWorker, capture, effect,
                   applied, open, editor, saved, failures, hosting>>

\* The editor lives in the process of the Configuration Editor, where the
\* processor keeps no endpoint.
ChangeEndpoint ==
    /\ ~Idle /\ call.at = "parameter" /\ call.index > 4
    /\ call.endpointChanged
    /\ proc' = ChangedInProcessor
    /\ inst' = [inst EXCEPT !.endpoint = editor.endpoint]
    /\ revision' = Full - revision
    /\ call' = [call EXCEPT !.at = "revision"]
    /\ UNCHANGED <<started, path, gpuWorker, capture, effect, applied, window,
                   saved, failures, hosting>>

\* Mutant: a new endpoint is not announced to the host.
HostHearsRevision_Silent ==
    /\ ~Idle /\ call.at = "revision"
    /\ Return
    /\ UNCHANGED <<inst, revision, started, processor, open, editor, saved,
                   failures, hosting>>

\* AUTOMATE for the revision parameter.
HostHearsRevision ==
    /\ ~Idle /\ call.at = "revision"
    /\ IF HostEchoes THEN ShowInEditor(inst) ELSE UNCHANGED editor
    /\ saved' = {inst}
    /\ Return
    /\ UNCHANGED <<inst, revision, started, processor, open, failures, hosting>>

-----------------------------------------------------------------------------
SettingsInit ==
    /\ inst = Defaults /\ revision = 0 /\ started = FALSE
    /\ proc = Defaults /\ path = FALSE /\ gpuWorker = "off"
    /\ capture = NoEndpoint /\ effect = NoStrengths /\ applied = NoStrengths
    /\ open = FALSE /\ editor = Defaults /\ dragging = NotDragging /\ call = NoCall
    /\ saved = {} /\ failures = 0
    /\ hosting \in Hostings

HostNext ==
    \/ Recreate \/ Resume \/ ResumeFails \/ Suspend \/ SetSampleRate
    \/ SaveChunk \/ OpenEditor \/ CloseEditor
    \/ \E p \in Touched, v \in RawLevels : SetParameter(p, v)
    \/ \E v \in RawLevels : SetRevision(v)
    \/ \E c \in Presets \union saved : LoadChunk(c)
    \/ \E c \in Presets : LoadCutChunk(c)

UserNext ==
    \/ \E p \in Switches \intersect Touched : ClickSwitch(p)
    \/ \E s \in Strengths \intersect Touched, v \in Levels : Drag(s, v)
    \/ \E v \in Levels : Release(v)
    \/ LoseCapture
    \/ \E e \in Endpoints : ApplyReference(e)

HandlerNext ==
    \/ SkipParameter \/ ChangeParameter \/ HostHearsParameter
    \/ FinishParameters \/ ChangeEndpoint \/ HostHearsRevision

WorkerNext == EnterLoop \/ TakeFrame

SettingsNext == HostNext \/ UserNext \/ HandlerNext \/ WorkerNext

SettingsSpec == SettingsInit /\ [][SettingsNext]_settingsVars

-----------------------------------------------------------------------------
(* Properties.                                                              *)

\* Every variable has its type; a slider is dragged in an open editor only,
\* and no call is in progress without one.
SettingsTypeOK ==
    /\ inst \in Unclamped /\ proc \in Settings
    /\ revision \in {0, Full} /\ started \in BOOLEAN /\ path \in BOOLEAN
    /\ gpuWorker \in {"off", "ready", "loop"} /\ capture \in EndpointIds
    /\ effect \in [Strengths -> Levels] /\ applied \in [Strengths -> Levels]
    /\ open \in BOOLEAN /\ editor \in Unclamped
    /\ dragging \in Strengths \union {NotDragging}
    /\ saved \subseteq Unclamped
    /\ failures \in 0 .. MaxFailures /\ hosting \in Hostings
    /\ ~open => dragging = NotDragging /\ call = NoCall

\* Outside a call the processor works with the instance's own parameters and,
\* in the audio engine, with its endpoint: whichever of the host, a chunk and
\* the editor changed them last.  (No chunk ends within its endpoint id.)
ProcessorInSync ==
    Idle /\ ~CutChunks => proc = [inst EXCEPT !.endpoint =
                      IF InEngine THEN inst.endpoint ELSE NoEndpoint]

\* The playback capture of a running worker is the one of the selected
\* endpoint, and the Configuration Editor's instance captures nothing.
CaptureFollowsSelection ==
    Idle /\ gpuWorker # "off" =>
        capture = IF InEngine THEN inst.endpoint ELSE NoEndpoint

\* When a change made in the editor is complete, the chunk that the host
\* stored at its last callback holds all of it, the playback endpoint included
\* that "Apply reference" was to leave in the instance (if the host did not
\* set parameters back meanwhile).
CommitIsSaved ==
    [][~Idle /\ call' = NoCall =>
         /\ inst' = call.before \/ saved' = {inst'}
         /\ call.wanted # NoEndpoint /\ ~HostEchoes =>
              inst'.endpoint = call.wanted]_settingsVars

\* While the worker sees no strength to change, the effects work at the
\* strengths that are set: none that the host or the user set is lost.  (Holds
\* only of a worker that has read them when start returns; see the README.)
NoStrengthIsLost ==
    gpuWorker = "loop" /\ (\A s \in Strengths : applied[s] = proc[s]) =>
        \A s \in Strengths : effect[s] = proc[s]
=============================================================================
