# EchoNull: models, checks and proofs

EchoNull is a Windows VST2 plug-in that Equalizer APO loads into the audio
engine (`audiodg.exe`). It removes the echo of a playback endpoint, and
optionally background noise, from a microphone with NVIDIA NvAFX on the GPU. A
setup program installs it: it edits Equalizer APO's configuration file, registers
Equalizer APO at one more effect slot of the microphone, and stops and restarts
Windows Audio while it does.

This directory models the program in TLA+, checks the models with TLC on small
instances, and proves what matters most with TLAPS for every instance. Paths of
the code are relative to the repository's `src/`.

    tlc -workers 2 -config SpscQueue.cfg SpscQueue     # one run
    tlapm HandoverProofs.tla                           # one proof module

`PROJECT.json` lists the runs, the mutants that show that each checked property
can fail, the source lines each definition stands for, the hazards and the
theorems.

Contents: 1 the system; 2 what is hard in it, and what makes each part correct;
3 the modules; 4 the runs; 5 fairness; 6 the proofs; 7 disagreements between the
code and its documents; 8 abstractions and assumptions; 9 what is not modelled,
and the plan.

## 1. The system

| Component | State | Operations | Interacts with | Module |
|---|---|---|---|---|
| `SpscFrameQueue` (`plugin/plugin_processor.cpp`) | slots, two atomic indices | `configure`, `try_push_*`, `try_front`, `pop` | one producer thread, one consumer thread | `SpscQueue` |
| `PluginProcessor` and its GPU worker (same file) | sample FIFOs, pending frames, sequence numbers, activation flag; effects' readiness and the job in work | `start`, `stop`, `process`, setters; initialise, take, run, answer, exit | two `SpscFrameQueue`s, an auto-reset event, `minimum_useful_sequence` | `FramePipeline` |
| `ProtectedOutput` (`application/protected_output.hpp`) | last sample, unavailable flag | `render` | `process` | `FramePipeline` |
| Plug-in status (same file; the panel's text in `plugin/vst2_plugin.cpp`) | runtime and noise state, error reasons, overload hold | stores by `start`, `stop`, the switches, `process`, the worker | panel, telemetry | `PluginStatus` |
| Loopback capture (`infrastructure/windows/wasapi_loopback.cpp`) | stop flag, state of the thread, packet in work | `start`, `stop`, the thread's loop | the playback device, `StreamingResampler`, the reference timeline | `LoopbackCapture` |
| `StreamingResampler` (`application/streaming_resampler.cpp`) | buffered input frames, position and phase | `push_into`, `reset` | loopback capture, `process` | `StreamingResampler` |
| Reference timeline (`application/timestamped_audio_buffer.cpp`) | chunks in time order; the hand-over deque under a mutex | `push`, `read`, `discard_before` | loopback thread, audio thread | `ReferenceTimeline` |
| Telemetry bus (`infrastructure/windows/telemetry_bus.cpp`) | a shared mapping with a sequence lock | `open`, `publish`, `read_latest` | audio engine process, editor process | `TelemetryBus` |
| Diagnostic log (`infrastructure/windows/diagnostic_log.cpp`) | one pending snapshot, a stop flag, a writer thread | `open`, `publish`, `close` | audio thread, writer thread | `DiagnosticLog` |
| VST2 adapter (`plugin/vst2_plugin.cpp`) and editor (`plugin/plugin_editor.cpp`) | settings in four places, started flag, drag in progress | dispatcher opcodes, `set_parameter`, chunks; clicks, drags, Apply | the host (also by callbacks), `PluginProcessor` | `EffectSettings` |
| Capture endpoint hook (`infrastructure/windows/capture_endpoint_hook.cpp`) | registry values of every microphone, ownership keys | install, update, restore | Equalizer APO's Device Selector, the registry | `CaptureHook` |
| Equalizer APO configuration (`infrastructure/equalizer_apo_config.cpp`) | rows of `config.txt` | inspect, install, migrate, remove | Equalizer APO, the user's edits | `ApoConfig` |
| `AudioServiceGuard` (`setup/setup_main.cpp`) | handles of stopped services | constructor, destructor | the service control manager | `ServiceGuard` |
| Packaged runtime cache (`infrastructure/nvidia/packaged_runtime.cpp`) | extracted files, a mutex per process | `prepare` | all instances of all processes | `GpuSession` |
| NvAFX effects (`infrastructure/nvidia/nvafx_*.cpp`, `cuda_audio_context.cpp`) | imported functions of the process, handles, context | `load`, `initialize`, `reset` | GPU worker, host's thread | `GpuSession` |
| GPU priority (`infrastructure/windows/gpu_priority.cpp`) | workers, the class replaced, the class of the process | raise, restore | GPU workers of a process, other programs | `GpuSession` |
| Setup program (`setup/setup_main.cpp`) | none of its own beyond the guard's | install, remove | all that concerns the machine | parts: `ServiceGuard`, `CaptureHook`, `ApoConfig` |
| Delay estimator (`application/delay_estimator.cpp`) | correlation in progress, smoothed delay | `add` | no caller | not modelled |
| Devices, formats, text encoding | none | conversions, enumeration | everything | not modelled |

Four threads meet in the plug-in: the host's audio thread (`process`), the host's
control thread (`start`, `stop`, setters, editor), the GPU worker, and the
loopback thread; the diagnostic log adds a writer. The audio thread never waits
for any of them. Two processes meet in the telemetry bus: the audio engine, which
ends and is recreated whenever a configuration is applied, and the
Configuration Editor, which draws the meter. The runtime cache is shared by whatever
processes the plug-in runs in, and the priority class and the NvAFX functions by the
instances of one.

## 2. What is hard, and what makes each part correct

The complete list, at its lines, is `hazards` in `PROJECT.json`.

- **Frame queues.** A slot must never be read while it is written, nor published
  half written; full and empty must not be confused. Correct: the ring is a bounded
  FIFO (`ImplementsFifo`), and its slots are exclusive (`SlotsAreExclusive`) and whole.
- **Frame pipeline.** The GPU answers in time, late or never. Correct: every frame is
  rendered once and in order (`RenderedInOrder`), with its own complete audio, its own
  unprocessed samples when it needs no effect, or silence, and with nothing of another
  frame, activation or session (`OnlyOwnCompleteAudio`); the delay is constant, so the
  host's block is always filled (`ConstantLatency`); a result that arrived is used
  (`ArrivedResultIsUsed`); the worker does not sleep on a queued job (`NoLostWakeup`);
  `stop` returns (`StopReturns`).
- **Plug-in status.** Three threads store states and reasons from values they loaded
  earlier. Correct: the audio thread covers up no miss of its own while the hold lasts (`MissIsShown`),
  an effect that cannot run shows in the end (`FailureIsShown`), an overload ends
  (`OverloadEnds`), nothing of a session outlives it (`StoppedIsClean`).
- **Loopback capture and resampler.** Packets of any length, late timestamps,
  discontinuities, a device that falls silent or fails. Correct: the kernel reads
  buffered frames only (`TapsAreBuffered`), output does not depend on how the input was
  cut (`OutputIsExact`), every block carries the capture time of its first sample
  (`TimestampsAreTrue`), and `stop` returns without being signalled (`StopReturns`).
- **Reference timeline.** Packets overlap, leave gaps, go back in time and find the
  mutex taken. Correct: `read` finds exactly the covered samples (`ReadIsExact`), and
  reference that a frame not yet cut can use is not dropped (`ReferenceIsKept`).
- **GPU session.** Instances in one or two processes extract into one directory, import
  one library function by function, raise one priority class, and are killed anywhere. Correct: what is about
  to be loaded is whole or gone (`PreparedIsWhole`), effects are created through imported
  functions (`EffectsHaveApi`) and destroyed before their context (`HandlesDieFirst`), the
  class is given back, or left as others set it (`PriorityIsRestored`).
- **Telemetry bus.** The reader copies while the writer writes, writers come and go,
  the engine is terminated. Correct: no torn snapshot is shown (`SnapshotIsWhole`), and the
  editor finds the new engine (`EditorReconnects`).
- **Diagnostic log.** `publish` may run at any moment of `open` and `close`. Correct:
  it never signals a destroyed event (`EventIsValid`), the last error of a session
  reaches the file of that session (`LastErrorIsReported`), `close` returns
  (`CloseReturns`).
- **Settings.** A change made in the editor is handed out parameter by parameter with
  a host callback in between; a chunk may arrive while the engine runs. Correct:
  instance, processor, worker and capture agree whenever no call is in progress
  (`ProcessorInSync`, `CaptureFollowsSelection`), and what was applied is what the
  host has stored (`CommitIsSaved`).
- **Capture hook.** A dozen registry writes, each of which may fail or be the last;
  other programs change the same values between two runs of Setup. Correct: no
  effect is registered twice (`EachEffectOnce`), installation is all or nothing
  (`InstallIsAllOrNothing`), removal restores the original (`RemovalRestores`) and does
  not touch what is no longer ours (`ForeignEffectIsKept`); each with the exceptions of section 7.
- **Configuration file.** Any mix of user rows, conditions, stages and old blocks.
  Correct: the plug-in runs on capture only (`EffectOnlyInCapture`), filters of the user
  keep their stages (`FiltersAreKept`), an update of an installed file changes nothing
  (`UpdateKeepsRows`).
- **Service guard.** Services stop slowly, fail to stop, are started by others.
  Correct: all is down while files are replaced (`StoppedWhenHeld`), exactly what was
  stopped is started again (`ServicesComeBack`), and the guard always ends (`GuardEnds`).

## 3. The modules

Each row of `map` in `PROJECT.json` gives the lines of a definition; below is how
the state and the actions correspond.

**`BoundedFifo`** is the abstract queue: a sequence of at most `Capacity` frames with
`Push`, `Pop`, `Clear`. **`SpscQueue`** is the ring of the code with every shared access as a
step: the producer checks for room, writes the sequence number, the samples, and
publishes the index; the consumer checks, reads the two, and pops. A read of a slot
that is being written yields `Torn`. `Fifo == INSTANCE BoundedFifo WITH ...` maps
the occupied positions to the abstract sequence. `FramePipeline` relies on it when
it represents the queues by sequences.

**`FramePipeline`** has `pc` for the host's threads (outside, in the frame loop,
submitting, rendering, starting, stopping), `wpc` for the worker, the two queues,
the pending ring, the two sample FIFOs and what the resamplers retain as lengths,
`minimum_useful_sequence`, the wake event and the stop flag. The actions follow
`process` (append, wait for the reference, cut, submit, signal, remember, render,
emit), the worker (wait, take or skip, run each effect, answer, pop) and
`start`/`stop`. The audio in a buffer is the frame it came from with the effects really applied.

**`ReferenceTimeline`** has the loopback's packet loop (`Loopback`: a packet with or
without a device timestamp, a discontinuity, the cap of 256 blocks) and the audio
thread (hand-over if the mutex is free, push with insertion by time and trimming by
capacity, `read` as the single pass over chunks the code makes, `discard_before`).

**`StreamingResampler`** is a value and its operators: the buffered input frames as an
interval, the next position as an exact fraction. **`LoopbackCapture`** owns one and adds the
thread: each action is one call of the loop (`GetBuffer`, `Push`, one `Interpolate` per output
frame, `EndPush` with the discard, `Deliver`), `Fail` may take the place of any call on the
device, and `Start`, `Stop` and `Joined` are the owner's. Its blocks are what `ReferenceTimeline`
takes from the loopback.

**`PluginStatus`** has the flags the three threads load and the states, reasons and the hold
they store; `seen` holds what `process` has loaded and not yet stored, `setter` and `blame`
the same for the switches and the worker. `PanelText` is the decision of
`runtime_status_values`. Which result a frame gets is left to `FramePipeline`: a frame that
needs an effect may miss its result at any time.

**`GpuSession`** has an instance as a program counter from `start` through `prepare` (lock,
check, open, write, close, rename, load), the priority class, the context, the two
`initialize` with one step per model, and the end in the code's order: worker's resets, context,
priority, join. The extraction mutex, the library, the imported functions and the priority
class belong to processes, the files to everyone. `Kill`, `LoseFile` and `SetClass` are what others
do. The code imports nine functions one by one and takes the first for all: `api` is `"none"`,
`"part"` or `"all"`, `Loaded` looks for the first as `nvafx_api.cpp:64` does, and `Unprepared`, the
exception, may come at any point of the import (`Reached`): before a library, with libraries but no
function, or, if the bundle's library lacks an export (`complete`), with a part of the functions.
**`MCGpuSession`** adds the symmetry.

**`TelemetryBus`** has the mapping (header, sequence, two halves of a snapshot), one
program counter per writing instance and one for the reader's attempt; a write or a
copy takes several steps. `CloseWriter` (an instance stops), `EngineDies` and `TimePasses`, after
which what was published counts as outdated, are actions. A history variable,
`disturbed`, remembers whether two publications have overlapped in the mapping or one was cut
off.

**`DiagnosticLog`** has the mutex-protected state, the event, the writer's and the
publisher's program counters and the file as a sequence of entries. Every critical
section is a step. `publish` gives up if it does not get the mutex, and signals the event while it
holds it; `close` signals outside.

**`EffectSettings`** has the instance's fields, the processor's atomics with the
worker's two copies of the strengths, the editor's settings and the stored chunk.
Host calls are one step each. `apply_editor_settings` is one step per parameter and one per
host callback; the editor's settings are read again for the endpoint, as the
code does through its reference. The variable `hosting` says where the instance lives and
never changes: in the Configuration Editor, with a host that sets parameters back or one that
does not, or in the audio engine. **`MCEffectSettings`** gives the model endpoints, chunks and
four such hostings.

**`CaptureHook`** has, per endpoint, the values Setup reads and writes (local, stream and
endpoint effect, processing modes, the effect Equalizer APO chains and the originals it
recorded), the values saved under the ownership key, and its mark. A run of Setup is a list of writes with the list of what the catch
block would put back; `Write`, `WriteFails` and `Killed` take one step
of it. `DeviceSelector` and `DeviceChange` happen between runs. The history variable `halfway`
holds the microphones whose catch block was itself cut short. **`MCCaptureHook`** adds the symmetry
of the microphones.

**`ApoConfig`** represents a row by its kind and an identity. The functions of the
code are operators on sequences of rows: the two scans, the search for the old block,
the migration and the removal. A loop over the lines is `Scan`, a recursive function that
takes one step (`ScopeStep`, `LoopStep`, `RemoveStep` and so on) for each row, so that the body of
a loop is a definition of its own. The external part is `Runs`, which says in which stage and
scope Equalizer APO executes a row.

**`ServiceGuard`** has the state of every service as the service control manager has it and the
guard's open calls as a stack of frames, since `stop_active_dependents` is
recursive. **`MCServiceGuard`** gives it a dependency graph
of two levels.

Some proof modules extend two components; the initial states, next-state relations and types of
these carry the component's name (`HookInit`, `GuardNext`, `BusSpec`, `LogTypeOK` and so on).

## 4. The runs

Twelve runs, all of which pass. Every property has a mutant, an operator next to the definition
it replaces, that makes TLC refute it.

| Run | Bounds | What it shows |
|---|---|---|
| `spsc_queue` | 4 slots, 2 frames (the code has 5 and any frame) | every interleaving of the accesses of both threads: exclusive, a FIFO. Four slots wrap, fill and empty; the proof covers the rest |
| `pipeline` | 2 sessions of 4 frames, blocks of 2, lead of 2, room for 2 jobs, a loopback, 1 click | both threads step by step with every effect failure, lateness and coverage of the reference: own and complete audio only, also after `stop` left jobs in the queues; frames in order at a constant delay; an arrived result is used; without the 20 ms timeout no wake-up is lost and `stop` returns. Four frames with room for two let results come late and queues overflow |
| `status` | hold of 2 frames, lead of 1, 2 frames in flight, 2 sessions, 1 click, 3 kinds of runtime | every interleaving of the loads and stores of three threads: misses and failures reach the panel, an overload ends, a stop leaves nothing. A second session meets what the first may have left |
| `loopback` | ratios 1:1, 2:1, 3:1, 9:1, 1:2, 3:2 and 9:2, kernel of 4 frames a side, packets of 1 and 6, gaps of 0 and 3, 20 frames, 2 starts | packets shorter and longer than the kernel, discontinuities in each, a rate so high that the next kernel lies behind all that was received |
| `reference` | 2 units per sample, frames of 2 samples, 10 units of time, hand-over limit 2 | packets that overlap, leave gaps, come late: exactness, retention. A unit of half a sample puts starts between samples; the proof covers other sizes |
| `sessions` | 2 instances in 1 or 2 processes, 2 models per effect, 3 starts, 1 fault | every interleaving of two extractions and two imports, with a kill, a lost file, a failed close or a changed class anywhere, and an NvAFX library with or without all exports. Three starts let one instance come back to what the other left; the proofs cover any number of all of them |
| `telemetry` | 2 instances, 2 snapshots, 2 stops or ends of the engine | no torn snapshot in four attempts unless the lock was disturbed; the editor finds the new instance |
| `log` | 2 sessions, 3 snapshots, 3 statuses | every moment of `publish` relative to `open` and `close`: the event exists when it is set, the last error is written to its own session's file, and all ends without the one-second timeout |
| `settings` | 2 endpoints, 2 chunks, one switch and its strength, levels 0, ½, 1 and one out of range, 1 failing start | everything the host and the user can do, the chunk stored in every callback, in four hostings |
| `hook` | 2 microphones with seven kinds of registration each, 3 runs of Setup, 2 faults, 1 outside change | no effect twice but in the case of section 7, all or nothing for each endpoint, removal restores, foreign effects kept. Three runs install, disturb and remove; the second fault can hit the catch block of the first. The proofs cover any number of all of them |
| `config` | 5 rows, an old block counting as one, nesting of 2 | every file of that size and every order of install, edit, update and remove; the proofs cover every length and nesting |
| `services` | Windows Audio and 3 dependents in 2 levels, 1 wait given up, 1 failing call, 1 foreign start | everything is down while files are replaced; the guard ends and what was stopped comes back |

`FramePipeline`'s bounds count frames, sessions and clicks; the bounds on clicks, starts,
faults, restarts, runs of Setup, waits given up and foreign starts are constants named
`Max...`, with a comment at each declaration. Where a bound stops the system (`TelemetryBus`,
`DiagnosticLog`, `CaptureHook`, `LoopbackCapture`, `GpuSession`, `PluginStatus`), or a thread
may rightly wait for ever, the configuration switches the deadlock check off; everywhere else
it is on.

Frames of more than one sample with a resampler that retains one (`FrameSamples = 2, Lead = 4,
Lookahead = 1, Blocks = {3, 7}`) are a matter of lengths alone, and the proof of
`ConstantLatency` covers them.

## 5. Fairness

- `WorkerFairSpec`: the audio thread continues a callback it is in (a real-time thread is
  scheduled), the worker runs, and `start` and `stop` take their next step once it is
  enabled. The worker's 20 ms timeout need not occur, which is stronger than what the
  operating system provides: progress comes from the event.
- `PluginStatus`: every thread goes on with what it has begun, and the audio engine keeps
  calling `process` while a session runs; since the frame loop waits for the reference for at
  most two frames, frames are cut again and again (strong fairness of `CutFrame`).
- `LoopbackCapture`: the thread and the join go on. That the device signals, or has another
  packet, is not assumed: the wait's 100 ms are what `StopReturns` rests on.
- `TelemetryBus`: the instances publish (the audio thread keeps being called) and the
  editor polls (a window timer of 50 ms).
- `DiagnosticLog`: the writer, a `publish` in progress and a `close` in progress
  continue; the one-second timeout need not occur.
- `ServiceGuard`: the guard's thread runs and the service control manager completes
  stops and starts in some finite time, of which nothing is known: the guard may see its
  waits end first, as often as `MaxTimeouts` allows.

## 6. The proofs

Eight modules of theorems, checked without any assumption beyond the named `ASSUME`s on
constants and, where a theorem states one, a hypothesis on a constant (`TimelyStart`, `OrdinaryUse`).

**`HandoverProofs`** extends three components. *SpscQueue* (from: at least two slots; blanks and torn frames are not
frames). The inductive invariant `IInv` says what each thread relies on at each of
its steps: a producer in a push has room and owns the slot at `write`, a
consumer in a pop has a frame and owns the slot at `read`, and every occupied slot
holds one frame in both halves. It is needed because the properties speak of the
slots alone and say nothing of the indices the threads have checked. `TypeCorrectness`, `Exclusion`
and `Wholeness` follow; `Refinement` shows `Spec => ImplementsFifo`: publishing appends
to the abstract queue, popping takes its head, every other step stutters.
*TelemetryBus* (from: natural bounds): `WholeSnapshot` from `MappingInv` (the mapping lives while anyone has
it open, and carries its header before anyone but its creator has), `LockInv` (undisturbed, the
sequence is odd exactly during a publication, and the halves differ only then) and `CopyInv` (while
the sequence has not changed, what was copied is what is there).
*DiagnosticLog* (from: errors are statuses, natural bounds): `SignalledEvent`, because `close` has held the mutex once between the
last publication it allows and the destruction of the event; and `ReportedError`, from `PathInv`
(the snapshot accepted last is pending, in the writer's hands, or written), `ToldInv` (the error
told last is that of the snapshot written last) and that `stop` and the pending snapshot are read
in one critical section.

**`FramePipelineProofs`** (from: natural bounds, positive frame, capacity and blocks,
and `LeadAssumption`, the lead covers three frames less a sample plus what both
resamplers retain: with 480-sample frames and the code's lead this is the comment
at `kOutputLeadFrames` made exact). `IInv` is the conjunction of types, `ThreadInv` (which
variables the threads own at which step), `SelectionInv` (queue and
pending ring hold increasing sequence numbers), `LatencyInv` (the samples in all the stages
add up to the lead) and `NoLostWakeup`. `ConstantLatency` alone is not inductive: it speaks of
rest points only, while `LatencyInv` says at each step of a callback what is already
moved and what is not. `OwnAudio` needs in addition `TimelyStart` and its own
invariant `AudioInv`: a job, a result and a pending frame with the same number and
session hold the same frame. Without `TimelyStart` it does not hold (section 8). The order is two more
invariants: `PendingOrder` (the pending frames are the next ones without a gap, which is
`RenderedInOrder`), and `QueueOrder` (results, the job in work and the jobs behind it have
increasing numbers of this session), from which `ResultsUsed` follows: when `DropStale` has
removed what is older, a result that has arrived is the first.

**`ReferenceTimelineProofs`** (from: positive period and frame, natural bounds). `IInv`
is types, order, and `ReadInv`, which says for a `read` in progress that the samples
already passed have been counted exactly and that no chunk left behind covers
a later one; it needs the order of the chunks, and the exactness of the single pass needs it.
`Keeping` proves the action property `ReferenceIsKept` from the same invariant.

**`LoopbackCaptureProofs`** (from: positive rates and packets, a kernel of at least four frames a
side). `IInv` relates several ways of counting the same frames. `Consistent` says that the buffer
ends at the last frame received and begins no later than the next kernel, and that the position is
the number of frames emitted since the reset times the step. `Drained` says that between two
pushes nothing more can be emitted. `PacketIsNewest` says that the frames received since the last
reset are the device's frames since `origin`, the packet in work at their end. `BufferedTaps` reads
off the first, `ExactOutput` the first two, and `TrueTimestamps` needs the last.

**`GpuSessionProofs`** (from: natural bounds, and a temporary name is not the cache's). `IInv` is
types and four parts. `EffectsAreOrderly`: a handle is set exactly where an effect lives, and only
between its creation and its reset, which precede the end of the context. `EffectsAreLicensed`: models
are tried and effects live only where the first function is imported, and no process has a part of the
functions if the library has them all. `ClassIsBalanced`: a class that is
raised is High and its original is what others want; without a worker it is not raised.
`PreparedIsWhole` is inductive as it stands, since only `Rename` writes the cache, and marks the
preparations it spoils. The theorems hold for any number of instances, processes and models,
with kills anywhere.

**`PanelProofs`** extends two components. *PluginStatus* (from: a hold of at least one frame, a
ring longer than the lead): `CleanStop` from the invariant that callbacks and jobs occur
within a session only; it needs that the host ends its callbacks and that `stop` joins before it
resets. `ShownMiss` is about steps of the audio thread: the step that records a miss, or that ends the stores of a
frame while misses are recent, leaves a panel that is not well. (A switch's store can cover a miss until
the next frame has stored its states.) What makes it true is `HoldInv`:
while fewer than `HoldFrames` frames have been cut since a miss, as many as are left are still held.
*EffectSettings* (from: the empty endpoint id is no endpoint's, chunks are chunks, the kinds of
host are what they are): `SettingsInv` holds inside the handler too, where the properties say
nothing. `Told` says that each parameter is either the same in instance and processor or
among those the handler has changed and has still to hand over; `HandlerInv` that these have the
values of the editor, that the host stored the chunk at the last change, and that a new endpoint
is in the editor until it is in the instance; `ProcessorInv` ties the capture to the endpoint of the processor,
and `InstanceInv` that endpoint to the instance's. `ProcessorFollows` and
`CaptureOfSelection` read off the invariant; `SavedCommit` is about the two steps that end a handler.
The lemmas on records (`NormalisedChunk`, `ParametersOf`, `OneParameter`, `OneEndpoint`) say
what clamping and copying single fields do; every step uses them.

**`SetupProofs`** extends two components. *CaptureHook* (from: the Device Selector leaves
registrations of `AllRegistrations`, that is none with Equalizer APO in the endpoint effect, and `"none"` names no microphone). The writes to come are a
countdown of a plan, and `Writing` says for each number of writes left what the registration and
the saved values have become, in terms of the registration the run found (`Converted`, `Keeps`,
`RolledBack`, `Restored`). Neither property is inductive without it: in the middle of the
list effects are doubled and nothing is all or nothing. When a run goes on to the next microphone
only the summary stays: `Rest` (each registration is sound as `EachEffectOnce` says, and what is saved for a hook in place
can be taken back), `Outcomes`, `Loop` (what is left is as the run found it, what removal has
visited is no longer marked) and `Promise` (without a fault the original registration is there or
saved). Saving before writing is what carries `EffectsOnce` over a kill, `AllOrNothing`
over a failing write, and `RemovalRestoresAll` over any number of updates. `ForeignEffectsKept` is about single
writes: the three plans write the endpoint effect only where `before` had none or Equalizer APO's.
*ServiceGuard* (from: `DependenceAssumption`, every service but Windows Audio depends on it, directly or not, and
none on itself): `FilesAreFree`, that everything is down when the constructor returns, although it
then looks at Windows Audio alone and services may have been started since they were listed.
The reason is an invariant of the service control manager, `Consistent`: what is running has
what it needs running. For every graph of services, without a bound on depth.
Two theorems are the safety behind `ServicesComeBack`: what was up is up again when the guard ends,
after at most one wait given up (`ComesBack`), and the guard brings up nothing that was stopped when it
began (`StaysDown`). For the first, `RecoveryInv` says that a service which was up
and is down is on the guard's list, the one it keeps while it stops services or what is left of it
while it restores (`Listed`, `DownIsListed`). Taking a service off the list keeps this only if
the service could be started, so the invariant also says where every stop that is still under way
comes from (`Stragglers`): from before the guard, and then nothing on the list needs that service,
or from a wait given up, and then the service is the next to be restarted, where the guard waits again
(`IsNext`). With two waits given up neither need hold, hence `timeouts <= 1`. `StaysDown` needs no
such condition: the services that may be up (`Known`) are closed under what they need.

**`ApoConfigProofs`** (from: `OrdinaryUse`, that is `StageInCondition = FALSE` and `Markers = FALSE`:
the user keeps `Stage` rows outside conditions and leaves the old markers to Setup, as in the run;
section 7 shows what happens otherwise). All three properties, for files of every length, nesting
and number of filters and plug-in rows, and any number of writes. `FileInv` is inductive: the file
is laid out well (`Layout`: conditions nest, old blocks are whole, no `Stage` row inside a condition
stays in force behind it), and after an installation it is one that `has_capture_scoped_echonull`
accepts. It is needed because the user goes on editing what Setup wrote, and Setup reads that
again. Why what is laid out well and accepted is safe is `WellLaidOut`: row by row the code's
tracking of stages and conditions is never more permissive than Equalizer APO's (`Sound`). What a
write does is a comparison of two files, `Alike`: the same conditions are open and the same filters have
run, while the stage in force may differ. The loop invariant of the installation (`Looped`) says
where it differs: only while `restore` holds the stage to put back; and that the `reusable` `Stage` row has
nothing but comments after it, so rewriting it moves no filter. For the migration (`UnwrapIs`) the stage may differ
only while the next row that counts is a `Stage` row (`Pending`), which is the code's reason not to
write one. `CollapseIs` and `RemoveIs` follow the other two loops. The second half of
`UpdateKeepsRows`, that installing again changes nothing, is that the result is accepted and has no marker.

The induction over the rows is the module's own: the library's induction theorems take an operator
as a parameter, which the provers cannot instantiate, so `UpTo` and `SeqInduction` are stated for *sets* of
indices and of sequences and proved from the well-foundedness of the naturals. The lemmas
named `...Fold` show that each recursive function of the model exists and takes one step per row.

Only model-checked: every liveness property (`StopReturns` twice, `FailureIsShown`,
`OverloadEnds`, `EditorReconnects`, `CloseReturns`, `GuardEnds`, `ServicesComeBack`), since the
prover does not reason about fairness; of `ServicesComeBack`, what is left to TLC is that the guard
ends and the starts that are under way finish. All other properties of the runs are theorems.

## 7. Where code and documents disagree

These cases are in the models and kept out of the runs, all of which pass, by a constant, by a
condition of a property, or by leaving the property out; changing that as described makes TLC
show the behaviour:

- `TelemetryBus`, `EditorReconnects` without its disjunct `disturbed`: the audio engine ends in
  the middle of a publication while the editor holds the mapping. The sequence stays odd, the new
  engine inherits it (`telemetry_bus.cpp:109`), and the editor rejects every snapshot from then
  on, although the reader's comment (`telemetry_bus.cpp:157-159`) says it reconnects. And
  `SnapshotIsWhole` without `~disturbed`: with the lock inverted, or with two instances at once,
  a torn snapshot is accepted.
- `CaptureHook`, `RerunRestoresHook` with one microphone and `FreeRegistrations`: after the Device Selector replaced
  the hook, rerunning Setup, which `README.md:237-238` recommends, throws
  (`capture_endpoint_hook.cpp:106`). With two microphones the foreign endpoint effect of one is
  enough to keep the run from the other.
- `PluginStatus`, `MissingModelIsNamed` with `Packages = {"no_noise_model"}` and
  `MaxStarts = 1`: `README.md:140-142` promises the status NOISE MODEL MISSING; each frame
  then misses its result and starts the overload hold again (`plugin_processor.cpp:962`), and
  the panel tells of a missed deadline instead.
- `ApoConfig` with `StageInCondition = TRUE` (`EffectOnlyInCapture`): a `Stage` row inside a
  condition counts for the scan although Equalizer APO may skip it
  (`equalizer_apo_config.cpp:85`).
- `ApoConfig` with `Markers = TRUE` (`FiltersAreKept`): rows written after the old begin marker
  are deleted on removal (`equalizer_apo_config.cpp:246`), while `README.md:118` says
  that user-written filters are preserved.
- `CaptureHook`, `RemovalRestores` without its condition that the removal reports success: one
  microphone that was changed keeps the removal from reaching the others
  (`capture_endpoint_hook.cpp:180`).
- `CaptureHook`, `RemovalRestores` without its condition on faults: Setup ends before it marks the
  hook active, and the recorded registration is never used again (line 141).
- `ServiceGuard` with `MaxTimeouts = 2` (`ServicesComeBack`): a service slower than two waits of
  ten seconds is left stopped (`setup_main.cpp:273`), while `README.md:120-122` says that Setup
  restores them.
- `EffectSettings`, `NoStrengthIsLost` as an invariant of its run, one of whose hostings has a late worker
  (`timely = FALSE`): a strength set right
  after `start` returned is taken for the one the effects were built with
  (`plugin_processor.cpp:562-567`).
- `EffectSettings`, `ProcessorInSync` without `~CutChunks`, that is with chunks cut within the endpoint
  id: a
  refused chunk has already changed the instance's parameters (`vst2_plugin.cpp:103`).
- `CaptureHook`, `EachEffectOnce` without its condition `ChainsAtLocal(o) /\ ...`: where Equalizer APO is
  the legacy local effect and chains the driver's, Setup killed between
  `capture_endpoint_hook.cpp:127` and `:133` leaves the driver's effect in the stream effect and
  Equalizer APO, which still chains it, in the local one. The comment at lines 125-126 says that Equalizer APO is
  instantiated once and the original effect stays in its stage. The effect chained there was the local one (line 118
  takes `PreMixChild` for the original stream effect without looking at the stage it was chained from),
  so on such a microphone the conversion itself moves it to the stream effect.
- `CaptureHook`, `InstallIsAllOrNothing` without `Recursive`: line 119 refuses a microphone that
  records Equalizer APO as its own original in the stream effect, lines 128-132 do not look at the local
  one. There Equalizer APO is registered at the endpoint effect and stays in the local one, and the
  next update throws that the registration was changed outside EchoNull (line 106).
- `GpuSession`, `EffectsHaveApi` without `complete`: with an export missing from NVAudioEffects.dll the first load
  throws (`nvafx_api.cpp:87-95`), but the first function is imported, so that the next one, of the
  same instance or another one, returns at line 64, and effects are created with null pointers among
  the functions.
- `GpuSession`, `PreparedIsWhole` without `~spoiled`: the result of closing the temporary file is
  not looked at before it is renamed into the cache (`packaged_runtime.cpp:219`), so a full disk
  leaves a cut file there until the next start finds its size wrong.

## 8. Abstractions and assumptions

- **Memory model.** Index loads and stores are acquire and release in the code; accesses are
  interleaved steps. `aec_enabled` and `noise_enabled` are read atomically.
- **Host contract.** `start`, `stop` and the setters come on one thread and never during
  `process`, as VST2 hosts do. In `FramePipeline` clicks may come at any time.
- **`TimelyStart`** (`FramePipeline`, `EffectSettings`). The worker signals that it is
  initialised before `start` configures the queues and before the worker reads the
  strengths. If the worker waits its first 20 ms while `start` is held up, it may take a job of
  the former session from a queue under configuration: with `TimelyStart = FALSE` TLC finds a frame with
  foreign audio. Checks and proof of `OnlyOwnCompleteAudio` assume that `start` is in
  time; for the strengths the consequence is in section 7.
- **Frame pipeline.** Coverage of the reference is any value, the same for the two
  reads of a turn (`delay_ms` is 0). The exception path of `process` is not modelled, neither here
  nor in `PluginStatus`. Levels and counters are left out: no decision reads them.
- **Status.** Which frame gets its result is `FramePipeline`'s matter: in `PluginStatus` a frame that
  needs an effect may miss its result at any time. The texts the panel makes of telemetry are
  left out.
- **Loopback and resampler.** The positions are exact fractions; the code's doubles are so
  for the common rates up to rounding. The clock counts frames of the device, so a
  timestamp is the number of the frame it belongs to. Sample formats and the values of the kernel are left out.
- **GPU session.** One file stands for all that is extracted, and one step for each model that
  an effect tries. That another program sets the class to exactly High is left out: the code
  does not tell it from its own. A function pointer that a failed import left null is
  followed as if the call failed or succeeded; what a call through it does is left out. All
  functions behind the first stand for one (`"part"`), and whether the library has them (`complete`) does not change.
  Which models an architecture has, and in which
  order, is the number `Models`.
- **Reference timeline.** Rounding between hundred-nanosecond units and samples is left
  out: time has `Period` units per sample. A packet with a timestamp error is stamped with
  its arrival (`Lates`).
- **Telemetry.** Local and global mapping names are one; a mapping lives while a
  process has it open. With two instances publishing at once a snapshot may mix them: the
  sequence lock is made for one writer at a time. `disturbed` holds from then on, and from a
  publication cut off by the engine's end, and the two properties exclude it (section 7).
- **Diagnostic log.** The choice of directory and the rotation by size are left out.
- **Settings.** Floats are the levels 0, ½, 1 and one out of range. Messages and host calls come on
  one thread, and the host does not close the editor from within a callback. The editor is never open in the
  audio engine, which has no window. Whether a host sets a parameter
  it is told about is part of `hosting`; what `CommitIsSaved` says of Apply is stated for a host
  that does not.
- **Capture hook.** No one else writes the registry while Setup runs. Each value is saved,
  changed and put back by a step of its own. `AllRegistrations` are the combinations of all values a
  registration has in the model, with one restriction: Equalizer APO is not in the endpoint effect before Setup
  puts it there, since nothing but Setup registers it there (assumed; lines 108-110 leave such a registration alone).
  Two different effects of a driver, in the local and the stream effect, are one value, `vendor`.
  The proofs are about any subset of them. The run takes seven, `SomeRegistrations`, one or more for every branch of the code and
  for each way Equalizer APO may be registered; besides the run, all 7020 of them were checked with one
  microphone, 3 runs of Setup and 2 faults. `EachEffectOnce` and `InstallIsAllOrNothing` leave out a microphone whose catch block was
  itself cut short, by a kill or by a failure of its own (`halfway`), until the Device Selector
  registers it anew: nothing is left there to undo the rest.
- **Configuration.** Case, blanks, line ends and `ElseIf` are left out; the file is written
  atomically. Conditions over the stage are `capture`, `not capture` or something else. The passing run keeps `Stage`
  rows outside conditions and the old markers within an exact old block; section 7 says why.
- **Services.** A query and the control call after it are one step. The enumeration lists active dependents at any
  depth, in any order. Calls fail in the constructor only: in the destructor the code has nothing
  left to do about a failure.

## 9. What is not modelled, and the plan

Not modelled: the delay estimator (no caller in the plug-in); the estimation itself,
sample arithmetic, drawing, dialogs, device enumeration and text conversion (numeric or pure
I/O); the queries of `equalizer_apo.cpp`; the index of the runtime bundle; the content of NvAFX.
`wait_until`, `clear`, `earliest_hns` and `latest_hns` of the timeline have no caller in the plug-in.

The order in which the modules were planned is the order of the damage a
fault does: audio path first (`SpscQueue`, `FramePipeline`, `ReferenceTimeline`), then what
crosses processes and threads beside it (`TelemetryBus`, `DiagnosticLog`,
`EffectSettings`), then what changes the user's machine (`CaptureHook`,
`ApoConfig`, `ServiceGuard`), then what the audio path rests on and reports
(`PluginStatus`, `StreamingResampler` and `LoopbackCapture`, `GpuSession`). These are
written. What would come next:

1. The sequence of Setup, which composes `ServiceGuard`, `CaptureHook` and `ApoConfig`: files
   replaced under loaded services, a failure between two of its parts, and reboots. A removal put
   off to the next reboot also removes what was installed again before it
   (`setup_main.cpp:562`), although one Setup is to repair, update and remove (`README.md:119-120`).
2. The exception path of `process` and the texts made from telemetry.
3. Abstract specifications: the telemetry bus as an atomic register with loss, the
   diagnostic log as a queue of length one, the pipeline as a constant delay line.
4. Proofs: that the models implement the abstract specifications of point 3, and more of the
   safety behind the liveness properties, as `ComesBack` is for `ServicesComeBack`.
