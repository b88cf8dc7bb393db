---------------------------- MODULE FramePipeline ----------------------------
(***************************************************************************)
(* The asynchronous GPU pipeline of PluginProcessor                        *)
(* (src/src/plugin/plugin_processor.cpp).                                  *)
(*                                                                         *)
(* The host's audio thread calls process(): it appends the microphone      *)
(* block to near_queue, cuts frames from it, submits a frame that needs an *)
(* effect to work_queue, remembers every frame in pending_frames, and      *)
(* renders pending frames into output_queue only when the block it must    *)
(* return needs them.  The GPU worker takes jobs from work_queue, runs the *)
(* effects, and answers through result_queue.  minimum_useful_sequence     *)
(* tells the worker which jobs nobody waits for any more.  start() and     *)
(* stop() create and join the worker, and leave both queues as they are    *)
(* until the next start() configures them.                                 *)
(*                                                                         *)
(* Audio is abstracted to what the properties tell apart.  The near-end    *)
(* samples of a frame are named by its session and sequence number, and a  *)
(* buffer by the frame it was computed from with the effects really        *)
(* applied to it.  The FIFOs near_queue and output_queue and the samples a *)
(* resampler retains are lengths, in any unit that divides a frame.  The   *)
(* two queues between the threads are sequences, which module SpscQueue    *)
(* justifies.  Status fields, counters and levels, which no decision below *)
(* reads, are left out.                                                    *)
(***************************************************************************)
EXTENDS Integers, Sequences, FiniteSets

CONSTANTS
  FrameSamples,     \* length of one GPU frame (480 samples in the code)
  Lead,             \* kOutputLeadFrames: frames of silence queued at activation
  Lookahead,        \* samples a resampler retains; 0 when it passes through
  QueueCapacity,    \* kAsyncQueueCapacity
  Blocks,           \* lengths of the blocks the host may ask for
  HasLoopback,      \* a reference endpoint was selected before start()
  TimelyStart,      \* start() configures the queues before the worker's first
                    \* 20 ms wait times out
  MaxSequence,      \* bound: frames cut in one session
  MaxSession,       \* bound: calls of start()
  MaxToggles,       \* bound: clicks on the editor's two switches
  AecAtFirst, NoiseAtFirst,  \* how the switches may be set to begin with
  Silence           \* what ProtectedOutput renders for a missed frame

ASSUME PipelineAssumption ==
  /\ FrameSamples \in Nat \ {0}
  /\ Lead \in Nat
  /\ Lookahead \in Nat
  /\ QueueCapacity \in Nat \ {0}
  /\ Blocks \subseteq Nat \ {0}
  /\ HasLoopback \in BOOLEAN
  /\ TimelyStart \in BOOLEAN
  /\ MaxSequence \in Nat
  /\ MaxSession \in Nat
  /\ MaxToggles \in Nat
  /\ AecAtFirst \subseteq BOOLEAN /\ NoiseAtFirst \subseteq BOOLEAN

\* The lead covers a frame under assembly, the two frames process() may wait
\* for the reference, and what the two resamplers retain.
ASSUME LeadAssumption ==
  Lead * FrameSamples >= 3 * FrameSamples - 1 + 2 * Lookahead

VARIABLES
  pc,               \* where the host's thread is
  block,            \* sample_count of the callback in progress
  current,          \* the frame being submitted by the frame loop
  aec_enabled, noise_enabled,                       \* set by the editor
  toggles,          \* bounds them: number of clicks so far
  reference_failed, \* loopback->failed() as read at the top of process()
  pipeline_active,
  next_sequence,
  near_queue, output_queue,                         \* lengths
  held_in, held_out,                                \* lengths
  pending_frames,
  minimum_useful_sequence,
  work_queue, result_queue,
  wake,             \* gpu_wake_event (auto-reset)
  stop_flag,        \* gpu_worker_stop
  wpc,              \* where the GPU worker is
  job,              \* the job the worker took
  result,           \* what the worker computed from it
  aec_ready, noise_ready,
  session,          \* history: number of calls of start()
  matching,         \* render_pending_frame found the frame's own result
  rendered          \* history: the last rendered frame and its audio

userVars   == <<aec_enabled, noise_enabled, toggles>>
fifoVars   == <<near_queue, output_queue, held_in, held_out>>
hostVars   == <<block, current, reference_failed, pipeline_active,
                next_sequence, pending_frames, matching, rendered>>
sharedVars == <<minimum_useful_sequence, work_queue, result_queue, wake,
                stop_flag>>
workerVars == <<wpc, job, result, aec_ready, noise_ready>>
vars == <<pc, userVars, fifoVars, hostVars, sharedVars, workerVars, session>>

(***************************************************************************)
(* A frame names its audio and the effects its job asks for; the audio in  *)
(* a buffer is the same record with the effects really applied.            *)
(***************************************************************************)
Frame == [session : Nat, seq : Nat, aec : BOOLEAN, noise : BOOLEAN]
NoFrame == [session |-> 0, seq |-> 0, aec |-> FALSE, noise |-> FALSE]
Result == [audio : Frame, complete : BOOLEAN]
NoResult == [audio |-> NoFrame, complete |-> FALSE]

RequiresProcessing(f) == f.aec \/ f.noise
Unprocessed(f) == [f EXCEPT !.aec = FALSE, !.noise = FALSE]

PendingCapacity == QueueCapacity + 1
Least(a, b) == IF a <= b THEN a ELSE b
Excess(a, b) == IF a > b THEN a - b ELSE 0

\* A resampler that retains up to Lookahead samples (at equal rates it passes
\* everything through): what it emits, and what it holds afterwards.
Emitted(held, n) == Excess(held + n, Lookahead)
Retained(held, n) == Least(held + n, Lookahead)

\* Mutation of DropStale: the frame's own result goes too.
DropStale_OwnToo(results, s) ==
  IF results # <<>> /\ Head(results).audio.seq <= s THEN Tail(results)
  ELSE results

\* The first result that is not older than sequence number s, and what follows.
DropStale(results, s) ==
  LET Useful == {i \in 1..Len(results) : results[i].audio.seq >= s}
      first  == CHOOSE i \in Useful : \A j \in Useful : i <= j
  IN  IF Useful = {} THEN <<>> ELSE SubSeq(results, first, Len(results))

CallbackStates ==
  {"frames", "signal", "append", "roomCommit", "drain", "commit"}
HostStates == CallbackStates \cup {"stopped", "starting", "idle", "stopping"}
WorkerStates == {"none", "init", "wait", "take", "run", "push", "overrun",
                 "pop", "exited"}

Init ==
  /\ pc = "stopped"
  /\ block = 0
  /\ current = NoFrame
  /\ aec_enabled \in AecAtFirst
  /\ noise_enabled \in NoiseAtFirst
  /\ toggles = 0
  /\ reference_failed = FALSE
  /\ pipeline_active = FALSE
  /\ next_sequence = 1
  /\ near_queue = 0 /\ output_queue = 0
  /\ held_in = 0 /\ held_out = 0
  /\ pending_frames = <<>>
  /\ minimum_useful_sequence = 1
  /\ work_queue = <<>> /\ result_queue = <<>>
  /\ wake = FALSE
  /\ stop_flag = FALSE
  /\ wpc = "none"
  /\ job = NoFrame
  /\ result = NoResult
  /\ aec_ready = FALSE /\ noise_ready = FALSE
  /\ session = 0
  /\ matching = FALSE
  /\ rendered = [frame |-> NoFrame, audio |-> NoFrame]

-----------------------------------------------------------------------------
(* The editor: set_aec_enabled and set_noise_enabled, at any moment.       *)

Click ==
  /\ toggles < MaxToggles
  /\ toggles' = toggles + 1

SetAecEnabled ==
  /\ Click
  /\ aec_enabled' = ~aec_enabled
  /\ UNCHANGED <<pc, noise_enabled, fifoVars, hostVars, sharedVars,
                 workerVars, session>>

SetNoiseEnabled ==
  /\ Click
  /\ noise_enabled' = ~noise_enabled
  /\ UNCHANGED <<pc, aec_enabled, fifoVars, hostVars, sharedVars,
                 workerVars, session>>

-----------------------------------------------------------------------------
(* start() and stop(), called by the host while no callback runs.          *)

\* start() up to the creation of the worker.  work_queue and result_queue
\* still hold what the previous session left in them.
Start ==
  /\ pc = "stopped"
  /\ session < MaxSession
  /\ session' = session + 1
  /\ pc' = "starting"
  /\ wpc' = "init"
  /\ stop_flag' = FALSE
  /\ wake' = FALSE
  /\ reference_failed' = FALSE
  /\ UNCHANGED <<block, current, pipeline_active, next_sequence,
                 pending_frames, matching, rendered, userVars, fifoVars,
                 minimum_useful_sequence, work_queue, result_queue, job,
                 result, aec_ready, noise_ready>>

\* Mutation of ConfigureQueues: jobs of the previous session stay queued.
ConfigureQueues_KeepsJobs ==
  /\ pc = "starting"
  /\ wpc # "init"
  /\ pc' = "idle"
  /\ result_queue' = <<>>
  /\ pending_frames' = <<>>
  /\ UNCHANGED <<block, current, reference_failed, pipeline_active,
                 next_sequence, matching, rendered, userVars, fifoVars,
                 minimum_useful_sequence, work_queue, wake, stop_flag,
                 workerVars, session>>

\* The rest of start(), once gpu_initialized_event is set: configure() empties
\* the queues, then the loopback capture may fail to start and take everything
\* down again.
ConfigureQueues ==
  /\ pc = "starting"
  /\ wpc # "init"
  /\ work_queue' = <<>>
  /\ result_queue' = <<>>
  /\ pending_frames' = <<>>
  /\ \/ /\ pc' = "idle"
        /\ UNCHANGED <<stop_flag, wake>>
     \/ /\ HasLoopback
        /\ pc' = "stopping"
        /\ stop_flag' = TRUE
        /\ wake' = TRUE
  /\ UNCHANGED <<block, current, reference_failed, pipeline_active,
                 next_sequence, matching, rendered, userVars, fifoVars,
                 minimum_useful_sequence, workerVars, session>>

\* Mutation of Stop: the worker is not woken.
Stop_Silently ==
  /\ pc = "idle"
  /\ pc' = "stopping"
  /\ stop_flag' = TRUE
  /\ UNCHANGED <<userVars, fifoVars, hostVars, minimum_useful_sequence,
                 work_queue, result_queue, wake, workerVars, session>>

\* stop() up to the join.
Stop ==
  /\ pc = "idle"
  /\ pc' = "stopping"
  /\ stop_flag' = TRUE
  /\ wake' = TRUE
  /\ UNCHANGED <<userVars, fifoVars, hostVars, minimum_useful_sequence,
                 work_queue, result_queue, workerVars, session>>

\* stop() after the join: everything is reset but the two queues.
FinishStop ==
  /\ pc = "stopping"
  /\ wpc = "exited"
  /\ pc' = "stopped"
  /\ wpc' = "none"
  /\ near_queue' = 0 /\ output_queue' = 0
  /\ held_in' = 0 /\ held_out' = 0
  /\ pending_frames' = <<>>
  /\ next_sequence' = 1
  /\ minimum_useful_sequence' = 1
  /\ pipeline_active' = FALSE
  /\ aec_ready' = FALSE /\ noise_ready' = FALSE
  /\ UNCHANGED <<block, current, reference_failed, matching, rendered,
                 userVars, work_queue, result_queue, wake, stop_flag, job,
                 result, session>>

-----------------------------------------------------------------------------
(* process(), on the host's audio thread.  A callback without a running    *)
(* session copies its input and changes none of this state.                *)

\* Bounds the frames of a session: with so many samples to cut, no frame's
\* number exceeds MaxSequence.
WithinBound(samples) ==
  (next_sequence - 1) * FrameSamples + samples < (MaxSequence + 1) * FrameSamples

\* Both effects are off: the input is copied, an active pipeline is abandoned.
BypassBlock ==
  /\ pc = "idle"
  /\ ~aec_enabled /\ ~noise_enabled
  /\ result_queue' = <<>>
  /\ IF pipeline_active
     THEN /\ pipeline_active' = FALSE
          /\ minimum_useful_sequence' = next_sequence
          /\ pending_frames' = <<>>
          /\ near_queue' = 0 /\ output_queue' = 0
          /\ held_in' = 0 /\ held_out' = 0
     ELSE UNCHANGED <<pipeline_active, minimum_useful_sequence,
                      pending_frames, fifoVars>>
  /\ UNCHANGED <<pc, block, current, reference_failed, next_sequence,
                 matching, rendered, userVars, work_queue, wake, stop_flag,
                 workerVars, session>>

\* The block is resampled into near_queue, after the first callback with an
\* effect on has started a fresh pipeline with Lead frames of silence.  The
\* loopback's failure is read once and stays until the next start().
BeginBlock(n, failed) ==
  /\ pc = "idle"
  /\ aec_enabled \/ noise_enabled
  /\ WithinBound(IF pipeline_active THEN near_queue + held_in + n ELSE n)
  /\ pc' = "frames"
  /\ block' = n
  /\ failed => HasLoopback
  /\ reference_failed => failed
  /\ reference_failed' = failed
  /\ IF pipeline_active
     THEN /\ near_queue' = near_queue + Emitted(held_in, n)
          /\ held_in' = Retained(held_in, n)
          /\ UNCHANGED <<pipeline_active, output_queue, held_out,
                         pending_frames, minimum_useful_sequence,
                         result_queue>>
     ELSE /\ pipeline_active' = TRUE
          /\ near_queue' = Emitted(0, n)
          /\ held_in' = Retained(0, n)
          /\ held_out' = 0
          /\ output_queue' = Lead * FrameSamples
          /\ pending_frames' = <<>>
          /\ minimum_useful_sequence' = next_sequence
          /\ result_queue' = <<>>
  /\ UNCHANGED <<current, next_sequence, matching, rendered, userVars,
                 work_queue, wake, stop_flag, workerVars, session>>

\* Mutation of WaitsForReference: without the limit of two frames.
WaitsForReference_Unbounded(covered) ==
  aec_enabled /\ HasLoopback /\ ~reference_failed /\ ~covered

\* The frame loop waits for a late reference, for at most two frames.
WaitsForReference(covered) ==
  /\ aec_enabled
  /\ HasLoopback
  /\ ~reference_failed
  /\ near_queue < 3 * FrameSamples
  /\ ~covered

\* One turn of the frame loop up to try_push_work.  covered says whether the
\* reference timeline holds at least 98 % of the frame, never so without a
\* loopback.  The worker's readiness does not matter here.
CutFrame(covered) ==
  LET process_aec == aec_enabled /\ ~reference_failed /\ covered
      frame == [session |-> session, seq |-> next_sequence,
                aec |-> process_aec, noise |-> noise_enabled]
      enqueued == /\ RequiresProcessing(frame)
                  /\ Len(work_queue) < QueueCapacity
  IN  /\ pc = "frames"
      /\ covered => HasLoopback
      /\ near_queue >= FrameSamples
      /\ ~WaitsForReference(covered)
      /\ near_queue' = near_queue - FrameSamples
      /\ next_sequence' = next_sequence + 1
      /\ current' = frame
      /\ work_queue' = IF enqueued THEN Append(work_queue, frame)
                       ELSE work_queue
      /\ pc' = IF enqueued THEN "signal" ELSE "append"
      /\ UNCHANGED <<block, reference_failed, pipeline_active,
                     pending_frames, matching, rendered, userVars,
                     output_queue, held_in, held_out,
                     minimum_useful_sequence, result_queue, wake, stop_flag,
                     workerVars, session>>

\* Mutation of SignalWorker: the event is set for one of the effects only.
SignalWorker_EchoOnly ==
  /\ pc = "signal"
  /\ wake' = (wake \/ current.aec)
  /\ pc' = "append"
  /\ UNCHANGED <<userVars, fifoVars, hostVars, minimum_useful_sequence,
                 work_queue, result_queue, stop_flag, workerVars, session>>

\* SetEvent(gpu_wake_event) after a successful push.
SignalWorker ==
  /\ pc = "signal"
  /\ wake' = TRUE
  /\ pc' = "append"
  /\ UNCHANGED <<userVars, fifoVars, hostVars, minimum_useful_sequence,
                 work_queue, result_queue, stop_flag, workerVars, session>>

\* Mutation of AppendPending: a full ring loses its oldest frame.
AppendPending_Overwrites ==
  /\ pc = "append"
  /\ pending_frames' =
       Append(IF Len(pending_frames) < PendingCapacity THEN pending_frames
              ELSE Tail(pending_frames), current)
  /\ current' = NoFrame
  /\ pc' = "frames"
  /\ UNCHANGED <<block, reference_failed, pipeline_active, next_sequence,
                 matching, rendered, userVars, fifoVars, sharedVars,
                 workerVars, session>>

\* pending_frames.push; a full ring first renders its oldest frame.
AppendPending ==
  /\ pc = "append"
  /\ Len(pending_frames) < PendingCapacity
  /\ pending_frames' = Append(pending_frames, current)
  /\ current' = NoFrame
  /\ pc' = "frames"
  /\ UNCHANGED <<block, reference_failed, pipeline_active, next_sequence,
                 matching, rendered, userVars, fifoVars, sharedVars,
                 workerVars, session>>

\* The frame loop ends: no whole frame is left, or the next one waits.
EndFrames(covered) ==
  /\ pc = "frames"
  /\ covered => HasLoopback
  /\ near_queue < FrameSamples \/ WaitsForReference(covered)
  /\ pc' = "drain"
  /\ UNCHANGED <<userVars, fifoVars, hostVars, sharedVars, workerVars,
                 session>>

NeedsOutput == output_queue < block /\ pending_frames # <<>>

\* Frames are rendered to make room in a full ring, and for the host's block.
MustRender ==
  \/ pc = "append" /\ Len(pending_frames) = PendingCapacity
  \/ pc = "drain" /\ NeedsOutput

\* render_pending_frame up to the decision: results older than the frame are
\* dropped, and the next one is its own or there is none.
SelectResult ==
  /\ MustRender
  /\ LET wanted == Head(pending_frames).seq
         useful == DropStale(result_queue, wanted)
     IN  /\ result_queue' = useful
         /\ matching' = (useful # <<>> /\ Head(useful).audio.seq = wanted)
  /\ pc' = IF pc = "append" THEN "roomCommit" ELSE "commit"
  /\ UNCHANGED <<block, current, reference_failed, pipeline_active,
                 next_sequence, pending_frames, rendered, userVars, fifoVars,
                 minimum_useful_sequence, work_queue, wake, stop_flag,
                 workerVars, session>>

\* ProtectedOutput::render: the whole chain, the frame itself if no effect was
\* asked for, or silence.
ProtectedAudio(frame, complete, audio) ==
  IF ~RequiresProcessing(frame) THEN Unprocessed(frame)
  ELSE IF complete THEN audio
  ELSE Silence

\* The rest of render_pending_frame: the slot of the result is read here, and
\* given back only afterwards.
RenderFrame ==
  /\ pc \in {"roomCommit", "commit"}
  /\ LET frame == Head(pending_frames)
         complete == matching /\ Head(result_queue).complete
         audio == IF matching THEN Head(result_queue).audio ELSE NoFrame
     IN  /\ rendered' = [frame |-> frame,
                         audio |-> ProtectedAudio(frame, complete, audio)]
         /\ minimum_useful_sequence' = frame.seq + 1
  /\ output_queue' = output_queue + Emitted(held_out, FrameSamples)
  /\ held_out' = Retained(held_out, FrameSamples)
  /\ result_queue' = IF matching THEN Tail(result_queue) ELSE result_queue
  /\ pending_frames' = Tail(pending_frames)
  /\ matching' = FALSE
  /\ pc' = IF pc = "roomCommit" THEN "append" ELSE "drain"
  /\ UNCHANGED <<block, current, reference_failed, pipeline_active,
                 next_sequence, near_queue, held_in, userVars, work_queue,
                 wake, stop_flag, workerVars, session>>

\* The block is copied out of output_queue; a shortage is filled up with a
\* decaying last sample.
ReturnBlock ==
  /\ pc = "drain"
  /\ ~NeedsOutput
  /\ output_queue' = Excess(output_queue, block)
  /\ block' = 0
  /\ pc' = "idle"
  /\ UNCHANGED <<current, reference_failed, pipeline_active, next_sequence,
                 pending_frames, matching, rendered, near_queue, held_in,
                 held_out, userVars, sharedVars, workerVars, session>>

-----------------------------------------------------------------------------
(* The GPU worker.                                                         *)

\* Model loading and warm-up; every failure is remembered, none is fatal.
InitializeWorker(aec, noise) ==
  /\ wpc = "init"
  /\ aec_ready' = aec
  /\ noise_ready' = noise
  /\ wpc' = "wait"
  /\ UNCHANGED <<pc, userVars, fifoVars, hostVars, sharedVars, job, result,
                 session>>

AfterWait == IF stop_flag THEN "exited" ELSE "take"

\* WaitForSingleObject(gpu_wake_event, 20) returns because the event is set...
WakeUp ==
  /\ wpc = "wait"
  /\ wake
  /\ wake' = FALSE
  /\ wpc' = AfterWait
  /\ UNCHANGED <<pc, userVars, fifoVars, hostVars, minimum_useful_sequence,
                 work_queue, result_queue, stop_flag, job, result, aec_ready,
                 noise_ready, session>>

\* ... or because 20 ms have passed.
TimeOut ==
  /\ wpc = "wait"
  /\ TimelyStart => pc # "starting"
  /\ wpc' = AfterWait
  /\ UNCHANGED <<pc, userVars, fifoVars, hostVars, sharedVars, job, result,
                 aec_ready, noise_ready, session>>

\* work_queue is drained: back to the outer loop, which looks at the stop flag.
FindNoJob ==
  /\ wpc = "take"
  /\ work_queue = <<>>
  /\ wpc' = IF stop_flag THEN "exited" ELSE "wait"
  /\ UNCHANGED <<pc, userVars, fifoVars, hostVars, sharedVars, job, result,
                 aec_ready, noise_ready, session>>

\* The frame with sequence number s is rendered or abandoned.
Useless(s) == s < minimum_useful_sequence

SkipJob ==
  /\ wpc = "take"
  /\ work_queue # <<>>
  /\ Useless(Head(work_queue).seq)
  /\ work_queue' = Tail(work_queue)
  /\ UNCHANGED <<pc, userVars, fifoVars, hostVars, minimum_useful_sequence,
                 result_queue, wake, stop_flag, workerVars, session>>

\* The job is read in its slot, which stays in work_queue until PopJob.
TakeJob ==
  /\ wpc = "take"
  /\ work_queue # <<>>
  /\ ~Useless(Head(work_queue).seq)
  /\ job' = Head(work_queue)
  /\ wpc' = "run"
  /\ UNCHANGED <<pc, userVars, fifoVars, hostVars, sharedVars, result,
                 aec_ready, noise_ready, session>>

\* The job's whole chain ran.
IsComplete(wanted, with_aec, with_noise) ==
  (wanted.aec => with_aec) /\ (wanted.noise => with_noise)

\* Echo cancellation, then noise removal of its outcome.  aec and noise say
\* whether NvAFX succeeds; a failure (of a run, or of a changed intensity)
\* makes the effect unready for the rest of the session.  The result is dropped
\* if the frame was rendered in the meantime.
RunJob(aec, noise) ==
  LET with_aec == job.aec /\ aec_ready /\ aec
      with_noise == job.noise /\ noise_ready /\ noise
  IN  /\ wpc = "run"
      /\ aec_ready' = (aec_ready /\ aec)
      /\ noise_ready' = (noise_ready /\ noise)
      /\ result' = [audio |-> [job EXCEPT !.aec = with_aec,
                                          !.noise = with_noise],
                    complete |-> IsComplete(job, with_aec, with_noise)]
      /\ wpc' = IF Useless(job.seq) THEN "pop" ELSE "push"
      /\ UNCHANGED <<pc, userVars, fifoVars, hostVars, sharedVars, job,
                     session>>

\* try_push_result; a full queue loses the result.
PushResult ==
  /\ wpc = "push"
  /\ IF Len(result_queue) < QueueCapacity
     THEN /\ result_queue' = Append(result_queue, result)
          /\ wpc' = "pop"
     ELSE /\ wpc' = "overrun"
          /\ UNCHANGED result_queue
  /\ UNCHANGED <<pc, userVars, fifoVars, hostVars, minimum_useful_sequence,
                 work_queue, wake, stop_flag, job, result, aec_ready,
                 noise_ready, session>>

\* SpscFrameQueue::pop does nothing on an empty queue.
PopJob ==
  /\ wpc \in {"pop", "overrun"}
  /\ work_queue' = IF work_queue = <<>> THEN <<>> ELSE Tail(work_queue)
  /\ job' = NoFrame
  /\ result' = NoResult
  /\ wpc' = "take"
  /\ UNCHANGED <<pc, userVars, fifoVars, hostVars, minimum_useful_sequence,
                 result_queue, wake, stop_flag, aec_ready, noise_ready,
                 session>>

-----------------------------------------------------------------------------
\* The bounds are used up and the processor is stopped: the host has unloaded it.
Unloaded ==
  /\ pc = "stopped"
  /\ session = MaxSession
  /\ UNCHANGED vars

Editor == SetAecEnabled \/ SetNoiseEnabled

Lifecycle == Start \/ ConfigureQueues \/ Stop \/ FinishStop

\* What process() does between its entry and its return.
ContinueBlock ==
  \/ \E covered \in BOOLEAN : CutFrame(covered) \/ EndFrames(covered)
  \/ SignalWorker
  \/ AppendPending
  \/ SelectResult
  \/ RenderFrame
  \/ ReturnBlock

Callback ==
  \/ BypassBlock
  \/ \E n \in Blocks, failed \in BOOLEAN : BeginBlock(n, failed)
  \/ ContinueBlock

\* What the worker does without a timeout.
WorkerStep ==
  \/ \E aec, noise \in BOOLEAN :
        InitializeWorker(aec, noise) \/ RunJob(aec, noise)
  \/ WakeUp
  \/ FindNoJob
  \/ SkipJob
  \/ TakeJob
  \/ PushResult
  \/ PopJob

Next == Editor \/ Lifecycle \/ Callback \/ WorkerStep \/ TimeOut \/ Unloaded

Spec == Init /\ [][Next]_vars

\* Both threads run, and start() and stop() take their next step once they can.
\* The 20 ms timeout is not relied upon: it need not occur.
WorkerFairSpec ==
  /\ Spec
  /\ WF_vars(ContinueBlock)
  /\ WF_vars(WorkerStep)
  /\ WF_vars(ConfigureQueues)
  /\ WF_vars(FinishStop)

-----------------------------------------------------------------------------
(* Properties.                                                             *)

\* Every variable has its type, and no ring exceeds its slots.
TypeOK ==
  /\ pc \in HostStates
  /\ block \in Nat
  /\ current \in Frame
  /\ aec_enabled \in BOOLEAN /\ noise_enabled \in BOOLEAN
  /\ toggles \in Nat
  /\ reference_failed \in BOOLEAN
  /\ pipeline_active \in BOOLEAN
  /\ next_sequence \in Nat \ {0}
  /\ near_queue \in Nat /\ output_queue \in Nat
  /\ held_in \in 0..Lookahead /\ held_out \in 0..Lookahead
  /\ pending_frames \in Seq(Frame) /\ Len(pending_frames) <= PendingCapacity
  /\ minimum_useful_sequence \in Nat \ {0}
  /\ work_queue \in Seq(Frame) /\ Len(work_queue) <= QueueCapacity
  /\ result_queue \in Seq(Result) /\ Len(result_queue) <= QueueCapacity
  /\ wake \in BOOLEAN /\ stop_flag \in BOOLEAN
  /\ wpc \in WorkerStates
  /\ job \in Frame /\ result \in Result
  /\ aec_ready \in BOOLEAN /\ noise_ready \in BOOLEAN
  /\ session \in Nat
  /\ matching \in BOOLEAN
  /\ rendered \in [frame : Frame, audio : Frame \cup {Silence}]

\* What the microphone emits for a frame is the frame's own audio, of this
\* session, with exactly the effects it was submitted for, or silence if an
\* effect was asked for: never raw, partial, late or foreign audio.
OnlyOwnCompleteAudio ==
  \/ rendered.audio = rendered.frame
  \/ rendered.audio = Silence /\ RequiresProcessing(rendered.frame)

\* What is buffered between the microphone and the host when no callback runs.
Buffered ==
  held_in + near_queue + FrameSamples * Len(pending_frames)
    + held_out + output_queue

\* An active pipeline delays the microphone by exactly the Lead frames queued
\* at activation, whatever the block lengths, waits for the reference, misses
\* and queue overruns: process() never runs short of output and never drifts.
ConstantLatency ==
  pc = "idle" /\ pipeline_active => Buffered = Lead * FrameSamples

\* No wakeup is lost: in a running session a waiting worker with work to do has
\* its event set, or the audio thread is about to set it.
NoLostWakeup ==
  /\ wpc = "wait" /\ work_queue # <<>>
  /\ pc \notin {"stopped", "starting", "stopping"}
  => wake \/ pc = "signal"

ResultQueued(s) == \E i \in 1..Len(result_queue) : result_queue[i].audio.seq = s

\* A frame whose complete result has arrived is never rendered as missed.
ArrivedResultIsUsed ==
  [][/\ pc \in {"append", "drain"}
     /\ pc' \in {"roomCommit", "commit"}
     /\ ResultQueued(Head(pending_frames).seq)
     => matching']_vars

\* Frames are rendered in the order they were cut, none twice and none left out
\* since the activation: the next one is always the first the worker may still
\* be asked for, whatever the ring of pending frames had to give up.
RenderedInOrder ==
  [][rendered' # rendered =>
       rendered'.frame.seq = minimum_useful_sequence]_vars

\* stop() returns: the worker sees the flag once it has drained its queue.
StopReturns == pc = "stopping" ~> pc = "stopped"

=============================================================================
