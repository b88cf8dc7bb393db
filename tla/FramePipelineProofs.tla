------------------------- MODULE FramePipelineProofs -------------------------
(***************************************************************************)
(* FramePipeline for every frame length, lead, resampler lookahead, queue  *)
(* capacity and set of block lengths: type correctness, the constant       *)
(* latency of an active pipeline, the absence of lost wakeups, the order   *)
(* of the rendered frames, and (when start() configures the queues in      *)
(* time) that only a frame's own complete audio, or silence, is ever       *)
(* rendered, and that a result that has arrived is used.                   *)
(***************************************************************************)
EXTENDS FramePipeline, SequenceTheorems, WellFoundedInduction, TLAPS

Submitting == {"signal", "append", "roomCommit"}
Rendering == {"roomCommit", "commit"}

\* Where the two threads can be at the same time.
ThreadInv ==
  /\ wpc = "init" => pc = "starting"
  /\ wpc = "none" <=> pc = "stopped"
  /\ stop_flag => pc \in {"stopped", "stopping"}
  /\ wpc = "exited" => pc = "stopping"
  /\ pc = "starting" => ~wake
  /\ pc \in CallbackStates => pipeline_active
  /\ pc \in {"stopped", "starting"} => ~pipeline_active

\* What render_pending_frame may rely on between its two halves.
SelectionInv ==
  /\ pc \in Rendering => pending_frames # <<>>
  /\ matching =>
       /\ pc \in Rendering
       /\ result_queue # <<>>
       /\ Head(result_queue).audio.seq = Head(pending_frames).seq

\* What is in the pipeline while a callback runs: the block that came in is not
\* yet balanced by the one that goes out, and a frame under submission is in no
\* queue.
LatencyInv ==
  /\ pc = "idle" /\ pipeline_active => Buffered = Lead * FrameSamples
  /\ pc \in CallbackStates \ Submitting =>
       Buffered = Lead * FrameSamples + block
  /\ pc \in Submitting =>
       Buffered + FrameSamples = Lead * FrameSamples + block
  /\ pc \in {"drain", "commit"} => near_queue < 3 * FrameSamples

\* The frames that will still be rendered.
WaitingFrames ==
  {pending_frames[i] : i \in 1..Len(pending_frames)}
    \cup (IF pc \in Submitting THEN {current} ELSE {})

\* The frames of this session, and their complete audio: no waiting frame with
\* the same number is another one.
OwnFrames ==
  {a \in Frame : /\ a.seq < next_sequence
                 /\ \A f \in WaitingFrames : f.seq = a.seq => f = a}

OwnResults ==
  {r \in Result : /\ r.audio.seq < next_sequence
                  /\ r.complete => r.audio \in OwnFrames}

\* Everything on its way to or from the worker belongs to this session.
AudioInv ==
  /\ OnlyOwnCompleteAudio
  /\ pc = "starting" => wpc \in {"init", "wait"}
  /\ pc \notin {"stopped", "starting"} =>
       /\ \A f \in WaitingFrames : f.seq < next_sequence
       /\ work_queue \in Seq(OwnFrames)
       /\ result_queue \in Seq(OwnResults)
       /\ wpc \in {"run", "push", "pop", "overrun"} => job \in OwnFrames
       /\ wpc = "push" => result \in OwnResults

-----------------------------------------------------------------------------
(* Facts about the operators of the model.                                 *)

\* Every non-empty set of natural numbers has a least element.
LEMMA LeastElement ==
  ASSUME NEW T, T \subseteq Nat, T # {}
  PROVE  \E x \in T : \A y \in T : x <= y
<1>1. PICK x \in T : \A y \in T : <<y, x>> \notin OpToRel(<, Nat)
  BY NatLessThanWellFounded, WFMin
<1>2. \A y \in T : ~(y < x)
  BY <1>1 DEF OpToRel
<1>3. \A y \in T : y \in Nat
  OBVIOUS
<1>4. \A y \in T : x <= y
  BY <1>2, <1>3
<1>. QED
  BY <1>4

\* DropStale only takes results away.
LEMMA DropStaleSuffix ==
  ASSUME NEW S, NEW q \in Seq(S), NEW s \in Nat
  PROVE  /\ DropStale(q, s) \in Seq(S)
         /\ Len(DropStale(q, s)) <= Len(q)
<1> DEFINE U == {i \in 1..Len(q) : q[i].audio.seq >= s}
           first == CHOOSE i \in U : \A j \in U : i <= j
<1>1. CASE U = {}
  BY <1>1, EmptySeq DEF DropStale
<1>2. CASE U # {}
  <2>1. U \subseteq Nat
    OBVIOUS
  <2>2. \E i \in U : \A j \in U : i <= j
    BY <1>2, <2>1, LeastElement
  <2>3. first \in U
    BY <2>2
  <2>4. first \in 1..Len(q)
    BY <2>3
  <2>5. DropStale(q, s) = SubSeq(q, first, Len(q))
    BY <1>2 DEF DropStale
  <2> HIDE DEF first, U
  <2>6. \A i \in first..Len(q) : q[i] \in S
    BY <2>4, ElementOfSeq
  <2>7. /\ SubSeq(q, first, Len(q)) \in Seq(S)
        /\ Len(SubSeq(q, first, Len(q))) = Len(q) - first + 1
    BY <2>4, <2>6, SubSeqProperties
  <2>. QED
    BY <2>4, <2>5, <2>7
<1>. QED
  BY <1>1, <1>2

\* A resampler loses no sample: what it emits and what it retains afterwards
\* make up what it had and what it was given.
LEMMA ResamplerKeepsSamples ==
  ASSUME NEW held \in 0..Lookahead, NEW n \in Nat
  PROVE  /\ Emitted(held, n) \in Nat
         /\ Retained(held, n) \in 0..Lookahead
         /\ Emitted(held, n) + Retained(held, n) = held + n
BY PipelineAssumption DEF Emitted, Retained, Excess, Least

LEMMA ExcessIsNat ==
  ASSUME NEW a \in Nat, NEW b \in Nat
  PROVE  Excess(a, b) \in Nat
BY DEF Excess

LEMMA FrameFields ==
  /\ NoFrame \in Frame
  /\ NoResult \in Result
  /\ \A f \in Frame : /\ Unprocessed(f) \in Frame
                      /\ \A a, b \in BOOLEAN :
                           [f EXCEPT !.aec = a, !.noise = b] \in Frame
BY DEF NoFrame, NoResult, Frame, Result, Unprocessed

LEMMA EmptyQueues ==
  /\ <<>> \in Seq(Frame) /\ <<>> \in Seq(Result)
  /\ Len(<<>>) = 0 /\ Len(<<>>) <= PendingCapacity /\ Len(<<>>) <= QueueCapacity
BY PipelineAssumption, EmptySeq DEF PendingCapacity

-----------------------------------------------------------------------------
(* Type correctness.                                                       *)

LEMMA TypeInit == Init => TypeOK
<1> SUFFICES ASSUME Init PROVE TypeOK
  OBVIOUS
<1>1. rendered \in [frame : Frame, audio : Frame \cup {Silence}]
  BY FrameFields DEF Init
<1>2. /\ pc \in HostStates /\ wpc \in WorkerStates
      /\ current \in Frame /\ job \in Frame /\ result \in Result
  BY FrameFields DEF Init, HostStates, WorkerStates
<1>3. /\ aec_enabled \in BOOLEAN /\ noise_enabled \in BOOLEAN
      /\ reference_failed \in BOOLEAN /\ pipeline_active \in BOOLEAN
      /\ wake \in BOOLEAN /\ stop_flag \in BOOLEAN
      /\ aec_ready \in BOOLEAN /\ noise_ready \in BOOLEAN
      /\ matching \in BOOLEAN
  BY PipelineAssumption DEF Init
<1>4. held_in \in 0..Lookahead /\ held_out \in 0..Lookahead
  BY PipelineAssumption DEF Init
<1>. QED
  BY <1>1, <1>2, <1>3, <1>4, EmptyQueues DEF Init, TypeOK

LEMMA TypeStep == TypeOK /\ SelectionInv /\ [Next]_vars => TypeOK'
<1> SUFFICES ASSUME TypeOK, SelectionInv, [Next]_vars PROVE TypeOK'
  OBVIOUS
<1> USE PipelineAssumption DEF TypeOK, userVars, fifoVars, hostVars,
                               sharedVars, workerVars
<1>1. ASSUME SetAecEnabled PROVE TypeOK'
  BY <1>1 DEF SetAecEnabled, Click
<1>2. ASSUME SetNoiseEnabled PROVE TypeOK'
  BY <1>2 DEF SetNoiseEnabled, Click
<1>3. ASSUME Start PROVE TypeOK'
  <2>1. stop_flag' \in BOOLEAN /\ wake' \in BOOLEAN
        /\ reference_failed' \in BOOLEAN
    BY <1>3 DEF Start
  <2>. QED
    BY <1>3, <2>1 DEF Start, HostStates, WorkerStates
<1>4. ASSUME ConfigureQueues PROVE TypeOK'
  <2>1. stop_flag' \in BOOLEAN /\ wake' \in BOOLEAN
    BY <1>4 DEF ConfigureQueues
  <2>. QED
    BY <1>4, <2>1, EmptyQueues DEF ConfigureQueues, HostStates
<1>5. ASSUME Stop PROVE TypeOK'
  BY <1>5 DEF Stop, HostStates
<1>6. ASSUME FinishStop PROVE TypeOK'
  <2>1. /\ pipeline_active' \in BOOLEAN
        /\ aec_ready' \in BOOLEAN /\ noise_ready' \in BOOLEAN
    BY <1>6 DEF FinishStop
  <2>. QED
    BY <1>6, <2>1, EmptyQueues DEF FinishStop, HostStates, WorkerStates
<1>7. ASSUME BypassBlock PROVE TypeOK'
  <2>1. pipeline_active' \in BOOLEAN
    BY <1>7 DEF BypassBlock
  <2>2. /\ pending_frames' \in Seq(Frame)
        /\ Len(pending_frames') <= PendingCapacity
        /\ result_queue' \in Seq(Result)
        /\ Len(result_queue') <= QueueCapacity
    BY <1>7, EmptyQueues DEF BypassBlock
  <2>3. /\ near_queue' \in Nat /\ output_queue' \in Nat
        /\ held_in' \in 0..Lookahead /\ held_out' \in 0..Lookahead
        /\ minimum_useful_sequence' \in Nat \ {0}
    BY <1>7 DEF BypassBlock
  <2>. QED
    BY <1>7, <2>1, <2>2, <2>3 DEF BypassBlock
<1>8. ASSUME NEW n \in Blocks, NEW failed \in BOOLEAN, BeginBlock(n, failed)
      PROVE  TypeOK'
  <2>1. n \in Nat /\ 0 \in 0..Lookahead
    OBVIOUS
  <2>2. near_queue' \in Nat /\ held_in' \in 0..Lookahead
    <3>1. CASE pipeline_active
      <4>1. /\ Emitted(held_in, n) \in Nat
            /\ Retained(held_in, n) \in 0..Lookahead
        BY <2>1, ResamplerKeepsSamples
      <4>. QED
        BY <1>8, <3>1, <4>1 DEF BeginBlock
    <3>2. CASE ~pipeline_active
      BY <1>8, <2>1, <3>2, ResamplerKeepsSamples DEF BeginBlock
    <3>. QED
      BY <3>1, <3>2
  <2>3. output_queue' \in Nat /\ held_out' \in 0..Lookahead
    BY <1>8, <2>1 DEF BeginBlock
  <2>4. /\ pending_frames' \in Seq(Frame)
        /\ Len(pending_frames') <= PendingCapacity
        /\ result_queue' \in Seq(Result)
        /\ Len(result_queue') <= QueueCapacity
        /\ minimum_useful_sequence' \in Nat \ {0}
    BY <1>8, EmptyQueues DEF BeginBlock
  <2>5. pipeline_active' \in BOOLEAN /\ reference_failed' \in BOOLEAN
    BY <1>8 DEF BeginBlock
  <2>. QED
    BY <1>8, <2>1, <2>2, <2>3, <2>4, <2>5
       DEF BeginBlock, HostStates, CallbackStates
<1>9. ASSUME NEW covered \in BOOLEAN, CutFrame(covered) PROVE TypeOK'
  <2>1. current' \in Frame
    BY <1>9 DEF CutFrame, Frame
  <2>2. /\ work_queue' \in Seq(Frame)
        /\ Len(work_queue') <= QueueCapacity
    BY <1>9, <2>1, AppendProperties, LenProperties DEF CutFrame
  <2>. QED
    BY <1>9, <2>1, <2>2 DEF CutFrame, HostStates, CallbackStates
<1>10. ASSUME NEW covered \in BOOLEAN, EndFrames(covered) PROVE TypeOK'
  BY <1>10 DEF EndFrames, HostStates, CallbackStates
<1>11. ASSUME SignalWorker PROVE TypeOK'
  BY <1>11 DEF SignalWorker, HostStates, CallbackStates
<1>12. ASSUME AppendPending PROVE TypeOK'
  <2>1. /\ pending_frames' \in Seq(Frame)
        /\ Len(pending_frames') <= PendingCapacity
    BY <1>12, AppendProperties, LenProperties
       DEF AppendPending, PendingCapacity
  <2>. QED
    BY <1>12, <2>1, FrameFields
       DEF AppendPending, HostStates, CallbackStates
<1>13. ASSUME SelectResult PROVE TypeOK'
  <2>1. pending_frames # <<>>
    BY <1>13, EmptySeq DEF SelectResult, MustRender, NeedsOutput, PendingCapacity
  <2>2. Head(pending_frames).seq \in Nat
    <3>1. Head(pending_frames) \in Frame
      BY <2>1, HeadTailProperties
    <3>. QED
      BY <3>1 DEF Frame
  <2>3. /\ result_queue' \in Seq(Result)
        /\ Len(result_queue') <= QueueCapacity
    BY <1>13, <2>2, DropStaleSuffix, LenProperties DEF SelectResult
  <2>. QED
    BY <1>13, <2>3 DEF SelectResult, HostStates, CallbackStates
<1>14. ASSUME RenderFrame PROVE TypeOK'
  <2>1. pending_frames # <<>> /\ (matching => result_queue # <<>>)
    BY <1>14 DEF RenderFrame, SelectionInv, Rendering
  <2>2. /\ Head(pending_frames) \in Frame
        /\ Tail(pending_frames) \in Seq(Frame)
        /\ Len(Tail(pending_frames)) = Len(pending_frames) - 1
    BY <2>1, HeadTailProperties
  <2>3. matching => /\ Head(result_queue) \in Result
                    /\ Tail(result_queue) \in Seq(Result)
                    /\ Len(Tail(result_queue)) = Len(result_queue) - 1
    BY <2>1, HeadTailProperties
  <2>4. /\ pending_frames' \in Seq(Frame)
        /\ Len(pending_frames') <= PendingCapacity
        /\ result_queue' \in Seq(Result)
        /\ Len(result_queue') <= QueueCapacity
    BY <1>14, <2>2, <2>3, LenProperties DEF RenderFrame, PendingCapacity
  <2>5. output_queue' \in Nat /\ held_out' \in 0..Lookahead
    <3>1. FrameSamples \in Nat
      OBVIOUS
    <3>2. /\ Emitted(held_out, FrameSamples) \in Nat
          /\ Retained(held_out, FrameSamples) \in 0..Lookahead
      BY <3>1, ResamplerKeepsSamples
    <3>. QED
      BY <1>14, <3>2 DEF RenderFrame
  <2>6. rendered' \in [frame : Frame, audio : Frame \cup {Silence}]
    BY <1>14, <2>2, <2>3, FrameFields DEF RenderFrame, ProtectedAudio, Result
  <2>7. minimum_useful_sequence' \in Nat \ {0}
    <3>1. Head(pending_frames).seq \in Nat
      BY <2>2 DEF Frame
    <3>2. minimum_useful_sequence' = Head(pending_frames).seq + 1
      BY <1>14 DEF RenderFrame
    <3>. QED
      BY <3>1, <3>2
  <2>. QED
    BY <1>14, <2>4, <2>5, <2>6, <2>7
       DEF RenderFrame, HostStates, CallbackStates
<1>15. ASSUME ReturnBlock PROVE TypeOK'
  BY <1>15, ExcessIsNat DEF ReturnBlock, HostStates
<1>16. ASSUME NEW aec \in BOOLEAN, NEW noise \in BOOLEAN,
              InitializeWorker(aec, noise)
       PROVE  TypeOK'
  BY <1>16 DEF InitializeWorker, WorkerStates
<1>17. ASSUME NEW aec \in BOOLEAN, NEW noise \in BOOLEAN, RunJob(aec, noise)
       PROVE  TypeOK'
  <2>1. result' \in Result
    BY <1>17 DEF RunJob, IsComplete, Result, Frame
  <2>2. aec_ready' \in BOOLEAN /\ noise_ready' \in BOOLEAN
    BY <1>17 DEF RunJob
  <2>. QED
    BY <1>17, <2>1, <2>2 DEF RunJob, WorkerStates
<1>18. ASSUME WakeUp PROVE TypeOK'
  BY <1>18 DEF WakeUp, AfterWait, WorkerStates
<1>19. ASSUME TimeOut PROVE TypeOK'
  BY <1>19 DEF TimeOut, AfterWait, WorkerStates
<1>20. ASSUME FindNoJob PROVE TypeOK'
  BY <1>20 DEF FindNoJob, WorkerStates
<1>21. ASSUME SkipJob PROVE TypeOK'
  <2>1. work_queue' \in Seq(Frame) /\ Len(work_queue') <= QueueCapacity
    BY <1>21, HeadTailProperties, LenProperties DEF SkipJob
  <2>. QED
    BY <1>21, <2>1 DEF SkipJob
<1>22. ASSUME TakeJob PROVE TypeOK'
  <2>1. job' \in Frame
    BY <1>22, HeadTailProperties DEF TakeJob
  <2>. QED
    BY <1>22, <2>1 DEF TakeJob, WorkerStates
<1>23. ASSUME PushResult PROVE TypeOK'
  <2>1. result_queue' \in Seq(Result) /\ Len(result_queue') <= QueueCapacity
    <3>1. /\ Append(result_queue, result) \in Seq(Result)
          /\ Len(Append(result_queue, result)) = Len(result_queue) + 1
      BY AppendProperties
    <3>2. Len(result_queue) \in Nat
      BY LenProperties
    <3>3. CASE Len(result_queue) < QueueCapacity
      <4>1. result_queue' = Append(result_queue, result)
        BY <1>23, <3>3 DEF PushResult
      <4>2. Len(result_queue) + 1 <= QueueCapacity
        BY <3>2, <3>3
      <4>. QED
        BY <3>1, <4>1, <4>2
    <3>4. CASE ~(Len(result_queue) < QueueCapacity)
      BY <1>23, <3>4 DEF PushResult
    <3>. QED
      BY <3>3, <3>4
  <2>. QED
    BY <1>23, <2>1 DEF PushResult, WorkerStates
<1>24. ASSUME PopJob PROVE TypeOK'
  <2>1. work_queue' \in Seq(Frame) /\ Len(work_queue') <= QueueCapacity
    BY <1>24, HeadTailProperties, LenProperties, EmptySeq DEF PopJob
  <2>. QED
    BY <1>24, <2>1, FrameFields DEF PopJob, WorkerStates
<1>25. CASE UNCHANGED vars
  BY <1>25 DEF vars
<1>. QED
  BY <1>1, <1>2, <1>3, <1>4, <1>5, <1>6, <1>7, <1>8, <1>9, <1>10, <1>11,
     <1>12, <1>13, <1>14, <1>15, <1>16, <1>17, <1>18, <1>19, <1>20, <1>21,
     <1>22, <1>23, <1>24, <1>25
     DEF Next, Editor, Lifecycle, Callback, ContinueBlock, WorkerStep, Unloaded

-----------------------------------------------------------------------------
(* Where the threads can be, and the wakeup between them.                  *)

LEMMA ThreadInit == Init => ThreadInv
BY DEF Init, ThreadInv, CallbackStates

LEMMA ThreadStep == ThreadInv /\ [Next]_vars => ThreadInv'
<1> SUFFICES ASSUME ThreadInv, [Next]_vars PROVE ThreadInv'
  OBVIOUS
<1> USE DEF ThreadInv, CallbackStates, userVars, fifoVars, hostVars,
            sharedVars, workerVars
<1>1. ASSUME SetAecEnabled PROVE ThreadInv'
  BY <1>1 DEF SetAecEnabled
<1>2. ASSUME SetNoiseEnabled PROVE ThreadInv'
  BY <1>2 DEF SetNoiseEnabled
<1>3. ASSUME Start PROVE ThreadInv'
  BY <1>3 DEF Start
<1>4. ASSUME ConfigureQueues PROVE ThreadInv'
  BY <1>4 DEF ConfigureQueues
<1>5. ASSUME Stop PROVE ThreadInv'
  BY <1>5 DEF Stop
<1>6. ASSUME FinishStop PROVE ThreadInv'
  BY <1>6 DEF FinishStop
<1>7. ASSUME BypassBlock PROVE ThreadInv'
  BY <1>7 DEF BypassBlock
<1>8. ASSUME NEW n \in Blocks, NEW failed \in BOOLEAN, BeginBlock(n, failed)
      PROVE  ThreadInv'
  BY <1>8 DEF BeginBlock
<1>9. ASSUME NEW covered \in BOOLEAN, CutFrame(covered)
      PROVE  ThreadInv'
  BY <1>9 DEF CutFrame
<1>10. ASSUME NEW covered \in BOOLEAN, EndFrames(covered)
      PROVE  ThreadInv'
  BY <1>10 DEF EndFrames
<1>11. ASSUME SignalWorker PROVE ThreadInv'
  BY <1>11 DEF SignalWorker
<1>12. ASSUME AppendPending PROVE ThreadInv'
  BY <1>12 DEF AppendPending
<1>13. ASSUME SelectResult PROVE ThreadInv'
  BY <1>13 DEF SelectResult, MustRender
<1>14. ASSUME RenderFrame PROVE ThreadInv'
  BY <1>14 DEF RenderFrame
<1>15. ASSUME ReturnBlock PROVE ThreadInv'
  BY <1>15 DEF ReturnBlock
<1>16. ASSUME NEW aec \in BOOLEAN, NEW noise \in BOOLEAN, InitializeWorker(aec, noise)
      PROVE  ThreadInv'
  BY <1>16 DEF InitializeWorker
<1>17. ASSUME NEW aec \in BOOLEAN, NEW noise \in BOOLEAN, RunJob(aec, noise)
      PROVE  ThreadInv'
  BY <1>17 DEF RunJob
<1>18. ASSUME WakeUp PROVE ThreadInv'
  BY <1>18 DEF WakeUp, AfterWait
<1>19. ASSUME TimeOut PROVE ThreadInv'
  BY <1>19 DEF TimeOut, AfterWait
<1>20. ASSUME FindNoJob PROVE ThreadInv'
  BY <1>20 DEF FindNoJob
<1>21. ASSUME SkipJob PROVE ThreadInv'
  BY <1>21 DEF SkipJob
<1>22. ASSUME TakeJob PROVE ThreadInv'
  BY <1>22 DEF TakeJob
<1>23. ASSUME PushResult PROVE ThreadInv'
  BY <1>23 DEF PushResult
<1>24. ASSUME PopJob PROVE ThreadInv'
  BY <1>24 DEF PopJob
<1>25. CASE UNCHANGED vars
  BY <1>25 DEF vars
<1>. QED
  BY <1>1, <1>2, <1>3, <1>4, <1>5, <1>6, <1>7, <1>8, <1>9, <1>10, <1>11,
     <1>12, <1>13, <1>14, <1>15, <1>16, <1>17, <1>18, <1>19, <1>20, <1>21,
     <1>22, <1>23, <1>24, <1>25
     DEF Next, Editor, Lifecycle, Callback, ContinueBlock, WorkerStep, Unloaded


LEMMA WakeupInit == Init => NoLostWakeup
BY DEF Init, NoLostWakeup

\* The worker waits only after it has found work_queue empty, and a frame that
\* is appended while it waits sets the event.
LEMMA WakeupStep ==
  NoLostWakeup /\ ThreadInv /\ [Next]_vars => NoLostWakeup'
<1> SUFFICES ASSUME NoLostWakeup, ThreadInv, [Next]_vars
             PROVE  NoLostWakeup'
  OBVIOUS
<1> USE DEF NoLostWakeup, userVars, fifoVars, hostVars, sharedVars, workerVars
<1>1. ASSUME SetAecEnabled PROVE NoLostWakeup'
  BY <1>1 DEF SetAecEnabled
<1>2. ASSUME SetNoiseEnabled PROVE NoLostWakeup'
  BY <1>2 DEF SetNoiseEnabled
<1>3. ASSUME Start PROVE NoLostWakeup'
  BY <1>3 DEF Start
<1>4. ASSUME ConfigureQueues PROVE NoLostWakeup'
  BY <1>4 DEF ConfigureQueues
<1>5. ASSUME Stop PROVE NoLostWakeup'
  BY <1>5 DEF Stop
<1>6. ASSUME FinishStop PROVE NoLostWakeup'
  BY <1>6 DEF FinishStop
<1>7. ASSUME BypassBlock PROVE NoLostWakeup'
  BY <1>7 DEF BypassBlock
<1>8. ASSUME NEW n \in Blocks, NEW failed \in BOOLEAN, BeginBlock(n, failed)
      PROVE  NoLostWakeup'
  BY <1>8 DEF BeginBlock
<1>9. ASSUME NEW covered \in BOOLEAN, CutFrame(covered)
      PROVE  NoLostWakeup'
  BY <1>9 DEF CutFrame
<1>10. ASSUME NEW covered \in BOOLEAN, EndFrames(covered)
      PROVE  NoLostWakeup'
  BY <1>10 DEF EndFrames
<1>11. ASSUME SignalWorker PROVE NoLostWakeup'
  BY <1>11 DEF SignalWorker
<1>12. ASSUME AppendPending PROVE NoLostWakeup'
  BY <1>12 DEF AppendPending
<1>13. ASSUME SelectResult PROVE NoLostWakeup'
  BY <1>13 DEF SelectResult, MustRender
<1>14. ASSUME RenderFrame PROVE NoLostWakeup'
  BY <1>14 DEF RenderFrame
<1>15. ASSUME ReturnBlock PROVE NoLostWakeup'
  BY <1>15 DEF ReturnBlock
<1>16. ASSUME NEW aec \in BOOLEAN, NEW noise \in BOOLEAN, InitializeWorker(aec, noise)
      PROVE  NoLostWakeup'
  BY <1>16 DEF InitializeWorker, ThreadInv
<1>17. ASSUME NEW aec \in BOOLEAN, NEW noise \in BOOLEAN, RunJob(aec, noise)
      PROVE  NoLostWakeup'
  BY <1>17 DEF RunJob
<1>18. ASSUME WakeUp PROVE NoLostWakeup'
  BY <1>18 DEF WakeUp, AfterWait
<1>19. ASSUME TimeOut PROVE NoLostWakeup'
  BY <1>19 DEF TimeOut, AfterWait
<1>20. ASSUME FindNoJob PROVE NoLostWakeup'
  BY <1>20 DEF FindNoJob
<1>21. ASSUME SkipJob PROVE NoLostWakeup'
  BY <1>21 DEF SkipJob
<1>22. ASSUME TakeJob PROVE NoLostWakeup'
  BY <1>22 DEF TakeJob
<1>23. ASSUME PushResult PROVE NoLostWakeup'
  BY <1>23 DEF PushResult
<1>24. ASSUME PopJob PROVE NoLostWakeup'
  BY <1>24 DEF PopJob
<1>25. CASE UNCHANGED vars
  BY <1>25 DEF vars
<1>. QED
  BY <1>1, <1>2, <1>3, <1>4, <1>5, <1>6, <1>7, <1>8, <1>9, <1>10, <1>11,
     <1>12, <1>13, <1>14, <1>15, <1>16, <1>17, <1>18, <1>19, <1>20, <1>21,
     <1>22, <1>23, <1>24, <1>25
     DEF Next, Editor, Lifecycle, Callback, ContinueBlock, WorkerStep, Unloaded

LEMMA SelectionInit == Init => SelectionInv
BY DEF Init, SelectionInv, Rendering

\* The result found for a frame stays at the head of result_queue until the
\* frame is rendered: the worker only appends.
LEMMA SelectionStep ==
  SelectionInv /\ TypeOK /\ ThreadInv /\ [Next]_vars => SelectionInv'
<1> SUFFICES ASSUME SelectionInv, TypeOK, ThreadInv, [Next]_vars
             PROVE  SelectionInv'
  OBVIOUS
<1> USE DEF SelectionInv, Rendering, userVars, fifoVars, hostVars, sharedVars,
            workerVars
<1>1. ASSUME SetAecEnabled PROVE SelectionInv'
  BY <1>1 DEF SetAecEnabled
<1>2. ASSUME SetNoiseEnabled PROVE SelectionInv'
  BY <1>2 DEF SetNoiseEnabled
<1>3. ASSUME Start PROVE SelectionInv'
  BY <1>3 DEF Start
<1>4. ASSUME ConfigureQueues PROVE SelectionInv'
  BY <1>4 DEF ConfigureQueues
<1>5. ASSUME Stop PROVE SelectionInv'
  BY <1>5 DEF Stop
<1>6. ASSUME FinishStop PROVE SelectionInv'
  BY <1>6 DEF FinishStop
<1>7. ASSUME BypassBlock PROVE SelectionInv'
  BY <1>7 DEF BypassBlock
<1>8. ASSUME NEW n \in Blocks, NEW failed \in BOOLEAN, BeginBlock(n, failed)
      PROVE  SelectionInv'
  BY <1>8 DEF BeginBlock
<1>9. ASSUME NEW covered \in BOOLEAN, CutFrame(covered)
      PROVE  SelectionInv'
  BY <1>9 DEF CutFrame
<1>10. ASSUME NEW covered \in BOOLEAN, EndFrames(covered)
      PROVE  SelectionInv'
  BY <1>10 DEF EndFrames
<1>11. ASSUME SignalWorker PROVE SelectionInv'
  BY <1>11 DEF SignalWorker
<1>12. ASSUME AppendPending PROVE SelectionInv'
  BY <1>12 DEF AppendPending
<1>13. ASSUME SelectResult PROVE SelectionInv'
  <2>1. pending_frames # <<>>
    BY <1>13, EmptyQueues, PipelineAssumption
       DEF SelectResult, MustRender, NeedsOutput, PendingCapacity
  <2>. QED
    BY <1>13, <2>1 DEF SelectResult
<1>14. ASSUME RenderFrame PROVE SelectionInv'
  BY <1>14 DEF RenderFrame
<1>15. ASSUME ReturnBlock PROVE SelectionInv'
  BY <1>15 DEF ReturnBlock
<1>16. ASSUME NEW aec \in BOOLEAN, NEW noise \in BOOLEAN, InitializeWorker(aec, noise)
      PROVE  SelectionInv'
  BY <1>16 DEF InitializeWorker
<1>17. ASSUME NEW aec \in BOOLEAN, NEW noise \in BOOLEAN, RunJob(aec, noise)
      PROVE  SelectionInv'
  BY <1>17 DEF RunJob
<1>18. ASSUME WakeUp PROVE SelectionInv'
  BY <1>18 DEF WakeUp
<1>19. ASSUME TimeOut PROVE SelectionInv'
  BY <1>19 DEF TimeOut
<1>20. ASSUME FindNoJob PROVE SelectionInv'
  BY <1>20 DEF FindNoJob
<1>21. ASSUME SkipJob PROVE SelectionInv'
  BY <1>21 DEF SkipJob
<1>22. ASSUME TakeJob PROVE SelectionInv'
  BY <1>22 DEF TakeJob
<1>23. ASSUME PushResult PROVE SelectionInv'
  <2>1. result_queue # <<>> =>
          /\ Append(result_queue, result) # <<>>
          /\ Head(Append(result_queue, result)) = Head(result_queue)
    BY HeadTailAppend, AppendProperties DEF TypeOK
  <2>. QED
    BY <1>23, <2>1 DEF PushResult
<1>24. ASSUME PopJob PROVE SelectionInv'
  BY <1>24 DEF PopJob
<1>25. CASE UNCHANGED vars
  BY <1>25 DEF vars
<1>. QED
  BY <1>1, <1>2, <1>3, <1>4, <1>5, <1>6, <1>7, <1>8, <1>9, <1>10, <1>11,
     <1>12, <1>13, <1>14, <1>15, <1>16, <1>17, <1>18, <1>19, <1>20, <1>21,
     <1>22, <1>23, <1>24, <1>25
     DEF Next, Editor, Lifecycle, Callback, ContinueBlock, WorkerStep, Unloaded

-----------------------------------------------------------------------------
(* The latency of an active pipeline.                                      *)

LEMMA FrameProduct ==
  /\ \A n \in Nat : /\ FrameSamples * n \in Nat
                    /\ FrameSamples * (n + 1) = FrameSamples * n + FrameSamples
  /\ FrameSamples * 0 = 0
  /\ Lead * FrameSamples \in Nat
BY PipelineAssumption

\* The samples of the pending frames.
Waiting == FrameSamples * Len(pending_frames)

LEMMA WaitingType == TypeOK => Waiting \in Nat
BY FrameProduct, LenProperties DEF TypeOK, Waiting

LEMMA LatencyInit == Init => LatencyInv
BY DEF Init, LatencyInv, CallbackStates, Submitting

\* process() takes in as many samples as it gives out, and never runs short of
\* them.
LEMMA LatencyStep ==
  LatencyInv /\ TypeOK /\ ThreadInv /\ SelectionInv /\ [Next]_vars
    => LatencyInv'
<1> SUFFICES ASSUME LatencyInv, TypeOK, ThreadInv, SelectionInv, [Next]_vars
             PROVE  LatencyInv'
  OBVIOUS
<1>0. /\ Waiting \in Nat
      /\ near_queue \in Nat /\ output_queue \in Nat
      /\ held_in \in 0..Lookahead /\ held_out \in 0..Lookahead
      /\ block \in Nat
      /\ FrameSamples \in Nat \ {0} /\ Lookahead \in Nat
      /\ Lead * FrameSamples \in Nat
      /\ Buffered = held_in + near_queue + Waiting + held_out + output_queue
  BY WaitingType, FrameProduct, PipelineAssumption
     DEF TypeOK, Buffered, Waiting
<1> USE DEF LatencyInv, Submitting, CallbackStates, userVars, fifoVars,
            hostVars, sharedVars, workerVars
<1>1. ASSUME SetAecEnabled PROVE LatencyInv'
  BY <1>1 DEF SetAecEnabled, Buffered
<1>2. ASSUME SetNoiseEnabled PROVE LatencyInv'
  BY <1>2 DEF SetNoiseEnabled, Buffered
<1>3. ASSUME Start PROVE LatencyInv'
  BY <1>3 DEF Start, Buffered
<1>4. ASSUME ConfigureQueues PROVE LatencyInv'
  BY <1>4 DEF ConfigureQueues, ThreadInv
<1>5. ASSUME Stop PROVE LatencyInv'
  BY <1>5 DEF Stop, Buffered
<1>6. ASSUME FinishStop PROVE LatencyInv'
  BY <1>6 DEF FinishStop
<1>7. ASSUME BypassBlock PROVE LatencyInv'
  BY <1>7 DEF BypassBlock, Buffered
<1>8. ASSUME NEW n \in Blocks, NEW failed \in BOOLEAN, BeginBlock(n, failed)
      PROVE  LatencyInv'
  <2>1. /\ n \in Nat /\ 0 \in 0..Lookahead
        /\ pc = "idle" /\ pc' = "frames" /\ block' = n
    BY <1>0, <1>8, PipelineAssumption DEF BeginBlock
  <2>2. CASE pipeline_active
    <3>1. held_in' + near_queue' = held_in + near_queue + n
      <4>1. /\ Emitted(held_in, n) \in Nat
            /\ Retained(held_in, n) \in 0..Lookahead
            /\ Emitted(held_in, n) + Retained(held_in, n) = held_in + n
        BY <1>0, <2>1, ResamplerKeepsSamples
      <4>2. /\ near_queue' = near_queue + Emitted(held_in, n)
            /\ held_in' = Retained(held_in, n)
        BY <1>8, <2>2 DEF BeginBlock
      <4>. QED
        BY <1>0, <2>1, <4>1, <4>2
    <3>2. /\ Waiting' = Waiting /\ held_out' = held_out
          /\ output_queue' = output_queue
      BY <1>8, <2>2 DEF BeginBlock, Waiting
    <3>3. Buffered' = (held_in' + near_queue') + Waiting + held_out + output_queue
      BY <3>2 DEF Buffered, Waiting
    <3>4. Buffered' = Lead * FrameSamples + n
      BY <1>0, <2>1, <2>2, <3>1, <3>3
    <3>. QED
      BY <2>1, <3>4
  <2>3. CASE ~pipeline_active
    <3>1. held_in' + near_queue' = n
      <4>1. /\ Emitted(0, n) \in Nat
            /\ Retained(0, n) \in 0..Lookahead
            /\ Emitted(0, n) + Retained(0, n) = 0 + n
        BY <1>0, <2>1, ResamplerKeepsSamples
      <4>2. near_queue' = Emitted(0, n) /\ held_in' = Retained(0, n)
        BY <1>8, <2>3 DEF BeginBlock
      <4>. QED
        BY <1>0, <2>1, <4>1, <4>2
    <3>2. /\ Len(pending_frames') = 0 /\ held_out' = 0
          /\ output_queue' = Lead * FrameSamples
      BY <1>8, <2>3, EmptyQueues DEF BeginBlock
    <3>3. Buffered' = (held_in' + near_queue') + 0 + 0 + Lead * FrameSamples
      BY <3>2, FrameProduct DEF Buffered
    <3>4. Buffered' = Lead * FrameSamples + n
      BY <1>0, <2>1, <3>1, <3>3
    <3>. QED
      BY <2>1, <3>4
  <2>. QED
    BY <2>2, <2>3
<1>9. ASSUME NEW covered \in BOOLEAN, CutFrame(covered)
      PROVE  LatencyInv'
  <2>1. /\ pc = "frames" /\ pc' \in {"signal", "append"} /\ block' = block
        /\ near_queue >= FrameSamples
        /\ near_queue' = near_queue - FrameSamples
        /\ held_in' = held_in /\ held_out' = held_out
        /\ output_queue' = output_queue /\ pending_frames' = pending_frames
    BY <1>9 DEF CutFrame
  <2>2. Buffered' = held_in + (near_queue - FrameSamples) + Waiting + held_out + output_queue
    BY <2>1 DEF Buffered, Waiting
  <2>3. Buffered' + FrameSamples = Buffered
    BY <1>0, <2>2
  <2>. QED
    BY <2>1, <2>3
<1>10. ASSUME NEW covered \in BOOLEAN, EndFrames(covered)
      PROVE  LatencyInv'
  <2>1. near_queue < 3 * FrameSamples
    BY <1>0, <1>10 DEF EndFrames, WaitsForReference
  <2>. QED
    BY <1>10, <2>1 DEF EndFrames, Buffered
<1>11. ASSUME SignalWorker PROVE LatencyInv'
  BY <1>11 DEF SignalWorker, Buffered
<1>12. ASSUME AppendPending PROVE LatencyInv'
  <2>1. /\ pc = "append" /\ pc' = "frames" /\ block' = block
        /\ near_queue' = near_queue
        /\ held_in' = held_in /\ held_out' = held_out
        /\ output_queue' = output_queue
        /\ pending_frames' = Append(pending_frames, current)
    BY <1>12 DEF AppendPending
  <2>2. Len(pending_frames') = Len(pending_frames) + 1
    BY <2>1, AppendProperties DEF TypeOK
  <2>3. Waiting' = Waiting + FrameSamples
    BY <2>2, FrameProduct, LenProperties DEF TypeOK, Waiting
  <2>4. Buffered' = held_in + near_queue + (Waiting + FrameSamples) + held_out + output_queue
    BY <2>1, <2>3 DEF Buffered, Waiting
  <2>5. Buffered' = Buffered + FrameSamples
    BY <1>0, <2>4
  <2>. QED
    BY <2>1, <2>5
<1>13. ASSUME SelectResult PROVE LatencyInv'
  <2>1. Buffered' = Buffered
    BY <1>13 DEF SelectResult, Buffered
  <2>. QED
    BY <1>13, <2>1 DEF SelectResult, MustRender
<1>14. ASSUME RenderFrame PROVE LatencyInv'
  <2>1. /\ \/ pc = "roomCommit" /\ pc' = "append"
           \/ pc = "commit" /\ pc' = "drain"
        /\ block' = block /\ near_queue' = near_queue /\ held_in' = held_in
        /\ output_queue' = output_queue + Emitted(held_out, FrameSamples)
        /\ held_out' = Retained(held_out, FrameSamples)
        /\ pending_frames' = Tail(pending_frames)
    BY <1>14 DEF RenderFrame
  <2>2. Len(pending_frames) = Len(pending_frames') + 1
    BY <2>1, HeadTailProperties, LenProperties
       DEF TypeOK, SelectionInv, Rendering
  <2>3. Waiting' = Waiting - FrameSamples
    <3>1. Len(pending_frames') \in Nat
      BY <2>1, HeadTailProperties, LenProperties
         DEF TypeOK, SelectionInv, Rendering
    <3> DEFINE W == FrameSamples * Len(pending_frames')
    <3>2. W \in Nat /\ Waiting = W + FrameSamples
      BY <2>2, <3>1, FrameProduct DEF Waiting
    <3>3. Waiting' = W
      BY DEF Waiting
    <3> HIDE DEF W
    <3>. QED
      BY <1>0, <3>2, <3>3
  <2>4. /\ held_out' \in Nat /\ output_queue' \in Nat
        /\ held_out' + output_queue' = held_out + output_queue + FrameSamples
    <3>1. /\ Emitted(held_out, FrameSamples) \in Nat
          /\ Retained(held_out, FrameSamples) \in 0..Lookahead
          /\ Emitted(held_out, FrameSamples) + Retained(held_out, FrameSamples)
               = held_out + FrameSamples
      BY <1>0, ResamplerKeepsSamples
    <3> DEFINE E == Emitted(held_out, FrameSamples)
               R == Retained(held_out, FrameSamples)
    <3>2. E \in Nat /\ R \in Nat /\ E + R = held_out + FrameSamples
      BY <1>0, <3>1
    <3>3. output_queue' = output_queue + E /\ held_out' = R
      BY <2>1
    <3> HIDE DEF E, R
    <3>. QED
      BY <1>0, <3>2, <3>3
  <2>5. Buffered' = held_in + near_queue + Waiting' + held_out' + output_queue'
    BY <2>1 DEF Buffered, Waiting
  <2>6. Buffered' = Buffered
    <3>1. Buffered' = held_in + near_queue + (Waiting - FrameSamples)
                        + (held_out' + output_queue')
      BY <1>0, <2>3, <2>4, <2>5
    <3>2. Buffered' = held_in + near_queue + (Waiting - FrameSamples)
                        + (held_out + output_queue + FrameSamples)
      BY <2>4, <3>1
    <3>. QED
      BY <1>0, <3>2
  <2>. QED
    BY <2>1, <2>6
<1>15. ASSUME ReturnBlock PROVE LatencyInv'
  <2>1. /\ pc = "drain" /\ pc' = "idle" /\ near_queue' = near_queue
        /\ held_in' = held_in /\ held_out' = held_out
        /\ pending_frames' = pending_frames
        /\ output_queue' = Excess(output_queue, block)
    BY <1>15 DEF ReturnBlock
  <2>2. Buffered = Lead * FrameSamples + block /\ near_queue < 3 * FrameSamples
    BY <2>1
  <2>3. output_queue >= block
    <3>1. CASE output_queue < block /\ pending_frames = <<>>
      <4>1. Waiting = 0
        BY <3>1, EmptyQueues, FrameProduct DEF Waiting
      <4>. QED
        BY <1>0, <2>2, <4>1, LeadAssumption
    <3>. QED
      BY <1>0, <1>15, <3>1 DEF ReturnBlock, NeedsOutput
  <2>4. output_queue' = output_queue - block
    BY <1>0, <2>1, <2>3 DEF Excess
  <2>5. Buffered' = held_in + near_queue + Waiting + held_out + (output_queue - block)
    BY <2>1, <2>4 DEF Buffered, Waiting
  <2>6. Buffered' = Lead * FrameSamples
    BY <1>0, <2>2, <2>5
  <2>. QED
    BY <2>1, <2>6
<1>16. ASSUME NEW aec \in BOOLEAN, NEW noise \in BOOLEAN, InitializeWorker(aec, noise)
      PROVE  LatencyInv'
  BY <1>16 DEF InitializeWorker, Buffered
<1>17. ASSUME NEW aec \in BOOLEAN, NEW noise \in BOOLEAN, RunJob(aec, noise)
      PROVE  LatencyInv'
  BY <1>17 DEF RunJob, Buffered
<1>18. ASSUME WakeUp PROVE LatencyInv'
  BY <1>18 DEF WakeUp, Buffered
<1>19. ASSUME TimeOut PROVE LatencyInv'
  BY <1>19 DEF TimeOut, Buffered
<1>20. ASSUME FindNoJob PROVE LatencyInv'
  BY <1>20 DEF FindNoJob, Buffered
<1>21. ASSUME SkipJob PROVE LatencyInv'
  BY <1>21 DEF SkipJob, Buffered
<1>22. ASSUME TakeJob PROVE LatencyInv'
  BY <1>22 DEF TakeJob, Buffered
<1>23. ASSUME PushResult PROVE LatencyInv'
  BY <1>23 DEF PushResult, Buffered
<1>24. ASSUME PopJob PROVE LatencyInv'
  BY <1>24 DEF PopJob, Buffered
<1>25. CASE UNCHANGED vars
  BY <1>25 DEF vars, Buffered
<1>. QED
  BY <1>1, <1>2, <1>3, <1>4, <1>5, <1>6, <1>7, <1>8, <1>9, <1>10, <1>11,
     <1>12, <1>13, <1>14, <1>15, <1>16, <1>17, <1>18, <1>19, <1>20, <1>21,
     <1>22, <1>23, <1>24, <1>25
     DEF Next, Editor, Lifecycle, Callback, ContinueBlock, WorkerStep, Unloaded

-----------------------------------------------------------------------------
(* What is rendered.                                                       *)

LEMMA AudioInit == Init => AudioInv
BY DEF Init, AudioInv, OnlyOwnCompleteAudio

LEMMA WaitingFramesNumbered ==
  ASSUME TypeOK
  PROVE  \A f \in WaitingFrames : f.seq \in Nat
<1>1. \A i \in 1..Len(pending_frames) : pending_frames[i] \in Frame
  BY ElementOfSeq DEF TypeOK
<1>. QED
  BY <1>1 DEF TypeOK, WaitingFrames, Frame

\* What belongs to a session goes on doing so when frames are rendered or
\* abandoned, and when a frame with a new number begins to wait.
LEMMA OwnKept ==
  ASSUME next_sequence \in Nat, next_sequence' \in Nat,
         next_sequence <= next_sequence',
         \A f \in WaitingFrames' :
            f \in WaitingFrames \/ f.seq = next_sequence
  PROVE  /\ OwnFrames \subseteq OwnFrames'
         /\ OwnResults \subseteq OwnResults'
         /\ \A q \in Seq(OwnFrames) : q \in Seq(OwnFrames')
         /\ \A q \in Seq(OwnResults) : q \in Seq(OwnResults')
<1>1. ASSUME NEW a \in OwnFrames PROVE a \in OwnFrames'
  <2>1. a \in Frame /\ a.seq \in Nat /\ a.seq < next_sequence
    BY DEF OwnFrames, Frame
  <2>2. a.seq < next_sequence'
    BY <2>1
  <2>3. \A f \in WaitingFrames' : f.seq = a.seq => f = a
    BY <2>1 DEF OwnFrames
  <2>. QED
    BY <2>1, <2>2, <2>3 DEF OwnFrames
<1>2. ASSUME NEW r \in OwnResults PROVE r \in OwnResults'
  <2>1. r \in Result /\ r.audio.seq \in Nat /\ r.audio.seq < next_sequence
    BY DEF OwnResults, Result, Frame
  <2>2. r.complete => r.audio \in OwnFrames'
    BY <1>1 DEF OwnResults
  <2>. QED
    BY <2>1, <2>2 DEF OwnResults
<1>. QED
  BY <1>1, <1>2, SeqMonotonic

\* One step keeps the session's audio apart, if the worker cannot time out
\* between its initialization and the configuration of the queues.
LEMMA AudioStep ==
  ASSUME TimelyStart, AudioInv, TypeOK, ThreadInv, SelectionInv, [Next]_vars
  PROVE  AudioInv'
<1> DEFINE Kept == /\ OwnFrames \subseteq OwnFrames'
                   /\ OwnResults \subseteq OwnResults'
                   /\ \A q \in Seq(OwnFrames) : q \in Seq(OwnFrames')
                   /\ \A q \in Seq(OwnResults) : q \in Seq(OwnResults')
<1>a. next_sequence \in Nat /\ next_sequence' \in Nat
  BY TypeStep DEF TypeOK
<1>b. WaitingFrames' \subseteq WaitingFrames /\ next_sequence' = next_sequence
        => Kept
  BY <1>a, OwnKept
<1> USE DEF AudioInv, OnlyOwnCompleteAudio, userVars, fifoVars, hostVars,
            sharedVars, workerVars
<1>1. ASSUME SetAecEnabled PROVE AudioInv'
  <2>1. WaitingFrames' \subseteq WaitingFrames
    BY <1>1 DEF SetAecEnabled, WaitingFrames, Submitting
  <2>. QED
    BY <1>b, <1>1, <2>1 DEF SetAecEnabled
<1>2. ASSUME SetNoiseEnabled PROVE AudioInv'
  <2>1. WaitingFrames' \subseteq WaitingFrames
    BY <1>2 DEF SetNoiseEnabled, WaitingFrames, Submitting
  <2>. QED
    BY <1>b, <1>2, <2>1 DEF SetNoiseEnabled
<1>3. ASSUME Start PROVE AudioInv'
  BY <1>3 DEF Start
<1>4. ASSUME ConfigureQueues PROVE AudioInv'
  <2>1. WaitingFrames' = {}
    BY <1>4, EmptyQueues DEF ConfigureQueues, WaitingFrames, Submitting
  <2>2. <<>> \in Seq(OwnFrames') /\ <<>> \in Seq(OwnResults')
    BY EmptySeq
  <2>. QED
    BY <1>4, <2>1, <2>2 DEF ConfigureQueues
<1>5. ASSUME Stop PROVE AudioInv'
  <2>1. WaitingFrames' \subseteq WaitingFrames
    BY <1>5 DEF Stop, WaitingFrames, Submitting
  <2>. QED
    BY <1>b, <1>5, <2>1 DEF Stop
<1>6. ASSUME FinishStop PROVE AudioInv'
  BY <1>6 DEF FinishStop
<1>7. ASSUME BypassBlock PROVE AudioInv'
  <2>1. WaitingFrames' \subseteq WaitingFrames
    BY <1>7, EmptyQueues DEF BypassBlock, WaitingFrames, Submitting
  <2>2. <<>> \in Seq(OwnResults')
    BY EmptySeq
  <2>. QED
    BY <1>b, <1>7, <2>1, <2>2 DEF BypassBlock
<1>8. ASSUME NEW n \in Blocks, NEW failed \in BOOLEAN, BeginBlock(n, failed)
      PROVE  AudioInv'
  <2>1. WaitingFrames' \subseteq WaitingFrames
    BY <1>8, EmptyQueues DEF BeginBlock, WaitingFrames, Submitting
  <2>2. <<>> \in Seq(OwnResults')
    BY EmptySeq
  <2>. QED
    BY <1>b, <1>8, <2>1, <2>2 DEF BeginBlock
<1>9. ASSUME NEW covered \in BOOLEAN, CutFrame(covered)
      PROVE  AudioInv'
  <2>1. /\ pc = "frames" /\ pc' \in Submitting
        /\ next_sequence' = next_sequence + 1
        /\ current'.seq = next_sequence
        /\ pending_frames' = pending_frames
        /\ \/ work_queue' = work_queue
           \/ work_queue' = Append(work_queue, current')
    BY <1>9 DEF CutFrame, Submitting
  <2>2. WaitingFrames' = WaitingFrames \cup {current'}
    BY <2>1 DEF WaitingFrames, Submitting
  <2>3. Kept
    BY <1>a, <2>1, <2>2, OwnKept
  <2>4. current' \in OwnFrames'
    <3>1. current' \in Frame
      BY TypeStep DEF TypeOK
    <3>2. current'.seq < next_sequence'
      BY <1>a, <2>1
    <3>3. \A f \in WaitingFrames : f.seq # current'.seq
      <4>1. \A f \in WaitingFrames : f.seq < next_sequence
        BY <2>1 DEF Submitting
      <4>2. \A f \in WaitingFrames : f.seq \in Nat
        BY WaitingFramesNumbered
      <4>. QED
        BY <1>a, <2>1, <4>1, <4>2
    <3>4. \A f \in WaitingFrames' : f.seq = current'.seq => f = current'
      BY <2>2, <3>3
    <3>. QED
      BY <3>1, <3>2, <3>4 DEF OwnFrames
  <2>5. work_queue' \in Seq(OwnFrames')
    BY <1>9, <2>1, <2>3, <2>4, AppendProperties
  <2>6. \A f \in WaitingFrames' : f.seq < next_sequence'
    <3>1. \A f \in WaitingFrames : f.seq \in Nat
      BY WaitingFramesNumbered
    <3>2. \A f \in WaitingFrames : f.seq < next_sequence
      BY <2>1
    <3>. QED
      BY <1>a, <1>9, <2>1, <2>2, <3>1, <3>2
  <2>. QED
    BY <1>9, <2>1, <2>3, <2>5, <2>6 DEF CutFrame
<1>10. ASSUME NEW covered \in BOOLEAN, EndFrames(covered)
      PROVE  AudioInv'
  <2>1. WaitingFrames' \subseteq WaitingFrames
    BY <1>10 DEF EndFrames, WaitingFrames, Submitting
  <2>. QED
    BY <1>b, <1>10, <2>1 DEF EndFrames
<1>11. ASSUME SignalWorker PROVE AudioInv'
  <2>1. WaitingFrames' \subseteq WaitingFrames
    BY <1>11 DEF SignalWorker, WaitingFrames, Submitting
  <2>. QED
    BY <1>b, <1>11, <2>1 DEF SignalWorker
<1>12. ASSUME AppendPending PROVE AudioInv'
  <2>1. /\ pc \in Submitting
        /\ pc' \notin Submitting
        /\ pending_frames' = Append(pending_frames, current)
    BY <1>12 DEF AppendPending, Submitting
  <2>2. WaitingFrames' \subseteq WaitingFrames
    BY <2>1, AppendProperties, LenProperties DEF WaitingFrames, TypeOK
  <2>. QED
    BY <1>b, <1>12, <2>2 DEF AppendPending
<1>13. ASSUME SelectResult PROVE AudioInv'
  <2>1. WaitingFrames' \subseteq WaitingFrames
    BY <1>13 DEF SelectResult, MustRender, WaitingFrames, Submitting
  <2>2. Head(pending_frames).seq \in Nat
    <3>1. pending_frames # <<>>
      BY <1>13, EmptyQueues, PipelineAssumption
         DEF SelectResult, MustRender, NeedsOutput, PendingCapacity
    <3>2. Head(pending_frames) \in Frame
      BY <3>1, HeadTailProperties DEF TypeOK
    <3>. QED
      BY <3>2 DEF Frame
  <2>3. result_queue \in Seq(OwnResults) => result_queue' \in Seq(OwnResults)
    BY <1>13, <2>2, DropStaleSuffix DEF SelectResult
  <2>. QED
    BY <1>b, <1>13, <2>1, <2>3 DEF SelectResult, MustRender
<1>14. ASSUME RenderFrame PROVE AudioInv'
  <2> DEFINE frame == Head(pending_frames)
             found == Head(result_queue)
  <2>1. /\ pc \in Rendering /\ pc' \in {"append", "drain"}
        /\ pending_frames # <<>>
        /\ pc \notin {"stopped", "starting"}
        /\ pc' \notin {"stopped", "starting"}
        /\ pending_frames' = Tail(pending_frames)
        /\ current' = current /\ (pc' \in Submitting => pc \in Submitting)
    BY <1>14 DEF RenderFrame, SelectionInv, Rendering, Submitting
  <2>2. frame \in Frame /\ frame \in WaitingFrames
    BY <2>1, HeadTailProperties, LenProperties DEF TypeOK, WaitingFrames
  <2>3. WaitingFrames' \subseteq WaitingFrames
    BY <2>1, HeadTailProperties, LenProperties DEF TypeOK, WaitingFrames
  <2>4. matching => /\ found \in OwnResults
                    /\ Tail(result_queue) \in Seq(OwnResults)
                    /\ found.audio.seq = frame.seq
    BY <2>1, HeadTailProperties DEF SelectionInv
  <2>5. matching /\ found.complete => found.audio = frame
    BY <2>2, <2>4 DEF OwnResults, OwnFrames
  <2>6. OnlyOwnCompleteAudio'
    <3>1. rendered'.frame = frame
      BY <1>14 DEF RenderFrame
    <3>2. rendered'.audio =
            ProtectedAudio(frame, matching /\ found.complete,
                           IF matching THEN found.audio ELSE NoFrame)
      BY <1>14 DEF RenderFrame
    <3>3. ~RequiresProcessing(frame) => Unprocessed(frame) = frame
      BY <2>2 DEF RequiresProcessing, Unprocessed, Frame
    <3>. QED
      BY <2>5, <3>1, <3>2, <3>3 DEF ProtectedAudio
  <2>7. result_queue' \in Seq(OwnResults)
    BY <1>14, <2>1, <2>4 DEF RenderFrame
  <2>. QED
    BY <1>b, <1>14, <2>1, <2>3, <2>6, <2>7 DEF RenderFrame
<1>15. ASSUME ReturnBlock PROVE AudioInv'
  <2>1. WaitingFrames' \subseteq WaitingFrames
    BY <1>15 DEF ReturnBlock, WaitingFrames, Submitting
  <2>. QED
    BY <1>b, <1>15, <2>1 DEF ReturnBlock
<1>16. ASSUME NEW aec \in BOOLEAN, NEW noise \in BOOLEAN, InitializeWorker(aec, noise)
      PROVE  AudioInv'
  <2>1. WaitingFrames' \subseteq WaitingFrames
    BY <1>16 DEF InitializeWorker, WaitingFrames
  <2>. QED
    BY <1>b, <1>16, <2>1 DEF InitializeWorker, ThreadInv
<1>17. ASSUME NEW aec \in BOOLEAN, NEW noise \in BOOLEAN, RunJob(aec, noise)
      PROVE  AudioInv'
  <2>1. WaitingFrames' \subseteq WaitingFrames
    BY <1>17 DEF RunJob, WaitingFrames
  <2>2. pc \notin {"stopped", "starting"}
    BY <1>17 DEF RunJob, ThreadInv
  <2>3. job \in OwnFrames
    BY <1>17, <2>2 DEF RunJob
  <2>4. result' \in OwnResults
    <3>1. /\ result'.audio.seq = job.seq
          /\ result'.complete => result'.audio = job
      BY <1>17 DEF RunJob, IsComplete, TypeOK, Frame
    <3>2. result' \in Result
      BY TypeStep DEF TypeOK
    <3>. QED
      BY <2>3, <3>1, <3>2 DEF OwnResults, OwnFrames
  <2>. QED
    BY <1>b, <1>17, <2>1, <2>3, <2>4 DEF RunJob
<1>18. ASSUME WakeUp PROVE AudioInv'
  <2>1. WaitingFrames' \subseteq WaitingFrames
    BY <1>18 DEF WakeUp, WaitingFrames
  <2>. QED
    BY <1>b, <1>18, <2>1 DEF WakeUp, AfterWait, ThreadInv
<1>19. ASSUME TimeOut PROVE AudioInv'
  <2>1. WaitingFrames' \subseteq WaitingFrames
    BY <1>19 DEF TimeOut, WaitingFrames
  <2>. QED
    BY <1>b, <1>19, <2>1 DEF TimeOut, AfterWait
<1>20. ASSUME FindNoJob PROVE AudioInv'
  <2>1. WaitingFrames' \subseteq WaitingFrames
    BY <1>20 DEF FindNoJob, WaitingFrames, Submitting
  <2>. QED
    BY <1>b, <1>20, <2>1 DEF FindNoJob
<1>21. ASSUME SkipJob PROVE AudioInv'
  <2>1. WaitingFrames' \subseteq WaitingFrames
    BY <1>21 DEF SkipJob, WaitingFrames
  <2>2. work_queue \in Seq(OwnFrames) => work_queue' \in Seq(OwnFrames)
    BY <1>21, HeadTailProperties DEF SkipJob
  <2>. QED
    BY <1>b, <1>21, <2>1, <2>2 DEF SkipJob
<1>22. ASSUME TakeJob PROVE AudioInv'
  <2>1. WaitingFrames' \subseteq WaitingFrames
    BY <1>22 DEF TakeJob, WaitingFrames
  <2>2. work_queue \in Seq(OwnFrames) => job' \in OwnFrames
    BY <1>22, HeadTailProperties DEF TakeJob
  <2>. QED
    BY <1>b, <1>22, <2>1, <2>2 DEF TakeJob
<1>23. ASSUME PushResult PROVE AudioInv'
  <2>1. WaitingFrames' \subseteq WaitingFrames
    BY <1>23 DEF PushResult, WaitingFrames
  <2>2. result_queue \in Seq(OwnResults) /\ result \in OwnResults
          => result_queue' \in Seq(OwnResults)
    BY <1>23, AppendProperties DEF PushResult
  <2>. QED
    BY <1>b, <1>23, <2>1, <2>2 DEF PushResult
<1>24. ASSUME PopJob PROVE AudioInv'
  <2>1. WaitingFrames' \subseteq WaitingFrames
    BY <1>24 DEF PopJob, WaitingFrames
  <2>2. work_queue \in Seq(OwnFrames) => work_queue' \in Seq(OwnFrames)
    BY <1>24, HeadTailProperties, EmptySeq DEF PopJob
  <2>. QED
    BY <1>b, <1>24, <2>1, <2>2 DEF PopJob
<1>25. CASE UNCHANGED vars
  <2>1. WaitingFrames' \subseteq WaitingFrames
    BY <1>25 DEF vars, WaitingFrames, Submitting
  <2>. QED
    BY <1>b, <1>25, <2>1 DEF vars
<1>. QED
  BY <1>1, <1>2, <1>3, <1>4, <1>5, <1>6, <1>7, <1>8, <1>9, <1>10, <1>11,
     <1>12, <1>13, <1>14, <1>15, <1>16, <1>17, <1>18, <1>19, <1>20, <1>21,
     <1>22, <1>23, <1>24, <1>25
     DEF Next, Editor, Lifecycle, Callback, ContinueBlock, WorkerStep, Unloaded

-----------------------------------------------------------------------------
(* The order of frames, jobs and results.                                  *)

\* The frames still to be rendered are the next ones, without a gap; a frame
\* under submission is the newest of them.
PendingOrder ==
  /\ ~pipeline_active => pending_frames = <<>>
  /\ \A i \in 1..Len(pending_frames) :
       pending_frames[i].seq = minimum_useful_sequence + (i - 1)
  /\ pipeline_active /\ pc \notin Submitting =>
       next_sequence = minimum_useful_sequence + Len(pending_frames)
  /\ pc \in Submitting =>
       /\ next_sequence = minimum_useful_sequence + Len(pending_frames) + 1
       /\ current.seq = next_sequence - 1

JobInWork == wpc \in {"run", "push", "pop", "overrun"}

\* Results, the job in work and the jobs behind it have increasing numbers of
\* this session; the job stays in its slot until its result is pushed.
QueueOrder ==
  pc \notin {"stopped", "starting"} =>
    /\ \A i \in 1..Len(result_queue) : result_queue[i].audio.seq < next_sequence
    /\ \A i, j \in 1..Len(result_queue) :
         i < j => result_queue[i].audio.seq < result_queue[j].audio.seq
    /\ \A i \in 1..Len(work_queue) : work_queue[i].seq < next_sequence
    /\ \A i, j \in 1..Len(work_queue) :
         i < j => work_queue[i].seq < work_queue[j].seq
    /\ \A i \in 1..Len(result_queue), j \in 1..Len(work_queue) :
         \/ result_queue[i].audio.seq < work_queue[j].seq
         \/ j = 1 /\ wpc \in {"pop", "overrun"}
    /\ JobInWork => work_queue # <<>> /\ work_queue[1].seq = job.seq
    /\ wpc = "push" => result.audio.seq = job.seq

LEMMA TailIndex ==
  ASSUME NEW S, NEW q \in Seq(S), q # <<>>
  PROVE  /\ Tail(q) \in Seq(S) /\ Len(Tail(q)) = Len(q) - 1
         /\ \A i \in 1..Len(Tail(q)) : i + 1 \in 1..Len(q) /\ Tail(q)[i] = q[i + 1]
         /\ 1 \in 1..Len(q) /\ Head(q) = q[1]
OBVIOUS

LEMMA AppendIndex ==
  ASSUME NEW S, NEW q \in Seq(S), NEW x \in S
  PROVE  /\ Append(q, x) \in Seq(S) /\ Len(Append(q, x)) = Len(q) + 1
         /\ \A i \in 1..Len(q) : Append(q, x)[i] = q[i]
         /\ Append(q, x)[Len(q) + 1] = x
OBVIOUS

\* DropStale drops the first results, and begins with a useful one.
LEMMA DropStaleIndex ==
  ASSUME NEW q \in Seq(Result), NEW s \in Nat
  PROVE  \E d \in 0..Len(q) :
           /\ DropStale(q, s) \in Seq(Result)
           /\ Len(DropStale(q, s)) = Len(q) - d
           /\ \A i \in 1..Len(DropStale(q, s)) : DropStale(q, s)[i] = q[i + d]
           /\ \A i \in 1..d : ~(q[i].audio.seq >= s)
           /\ d < Len(q) => q[d + 1].audio.seq >= s
<1> DEFINE U == {i \in 1..Len(q) : q[i].audio.seq >= s}
           first == CHOOSE i \in U : \A j \in U : i <= j
<1>1. CASE U = {}
  <2>1. DropStale(q, s) = <<>>
    BY <1>1 DEF DropStale
  <2>2. \A i \in 1..Len(q) : ~(q[i].audio.seq >= s)
    BY <1>1
  <2>3. /\ Len(q) \in 0..Len(q) /\ ~(Len(q) < Len(q))
        /\ <<>> \in Seq(Result) /\ Len(<<>>) = Len(q) - Len(q)
        /\ 1..Len(<<>>) = {}
    OBVIOUS
  <2>. QED
    BY <2>1, <2>2, <2>3
<1>2. CASE U # {}
  <2>1. U \subseteq Nat
    OBVIOUS
  <2>2. \E i \in U : \A j \in U : i <= j
    BY <1>2, <2>1, LeastElement
  <2>3. first \in U /\ \A j \in U : first <= j
    BY <2>2
  <2>4. first \in 1..Len(q) /\ q[first].audio.seq >= s
    BY <2>3
  <2>5. \A i \in 1..(first - 1) : ~(q[i].audio.seq >= s)
    <3> SUFFICES ASSUME NEW i \in 1..(first - 1), q[i].audio.seq >= s PROVE FALSE
      OBVIOUS
    <3>1. i \in U
      BY <2>4
    <3>2. first <= i
      BY <2>3, <3>1
    <3> HIDE DEF first, U
    <3>. QED
      BY <2>4, <3>2
  <2>6. DropStale(q, s) = SubSeq(q, first, Len(q))
    BY <1>2 DEF DropStale
  <2> HIDE DEF first, U
  <2>7. DropStale(q, s) \in Seq(Result)
    BY DropStaleSuffix
  <2>8. /\ Len(DropStale(q, s)) = Len(q) - (first - 1)
        /\ \A i \in 1..Len(DropStale(q, s)) :
             DropStale(q, s)[i] = q[i + (first - 1)]
    BY <2>4, <2>6, SubSeqProperties
  <2>9. first - 1 \in 0..Len(q) /\ first - 1 < Len(q) /\ (first - 1) + 1 = first
    BY <2>4
  <2>. QED
    BY <2>4, <2>5, <2>7, <2>8, <2>9
<1>. QED
  BY <1>1, <1>2

LEMMA PendingInit == Init => PendingOrder
BY DEF Init, PendingOrder, Submitting

LEMMA PendingStep ==
  PendingOrder /\ TypeOK /\ ThreadInv /\ SelectionInv /\ [Next]_vars
    => PendingOrder'
<1> SUFFICES ASSUME PendingOrder, TypeOK, ThreadInv, SelectionInv, [Next]_vars
             PROVE  PendingOrder'
  OBVIOUS
<1> USE DEF PendingOrder, Submitting, userVars, fifoVars, hostVars, sharedVars,
            workerVars
<1>a. /\ next_sequence \in Nat /\ minimum_useful_sequence \in Nat
      /\ pending_frames \in Seq(Frame) /\ current \in Frame
  BY DEF TypeOK
<1>1. CASE Editor
  BY <1>1 DEF Editor, SetAecEnabled, SetNoiseEnabled
<1>2. CASE Start
  BY <1>2 DEF Start
<1>3. CASE ConfigureQueues
  BY <1>3 DEF ConfigureQueues, ThreadInv
<1>4. CASE Stop
  BY <1>4 DEF Stop
<1>5. CASE FinishStop
  BY <1>5 DEF FinishStop
<1>6. CASE BypassBlock
  BY <1>a, <1>6 DEF BypassBlock
<1>7. ASSUME NEW n \in Blocks, NEW failed \in BOOLEAN, BeginBlock(n, failed)
      PROVE  PendingOrder'
  BY <1>a, <1>7 DEF BeginBlock
<1>8. ASSUME NEW covered \in BOOLEAN, CutFrame(covered) PROVE PendingOrder'
  BY <1>a, <1>8 DEF CutFrame, ThreadInv, CallbackStates
<1>9. ASSUME NEW covered \in BOOLEAN, EndFrames(covered) PROVE PendingOrder'
  BY <1>9 DEF EndFrames
<1>10. CASE SignalWorker
  BY <1>10 DEF SignalWorker
<1>11. CASE AppendPending
  <2>1. /\ pending_frames' = Append(pending_frames, current)
        /\ pc = "append" /\ pc' = "frames"
        /\ UNCHANGED <<pipeline_active, minimum_useful_sequence, next_sequence>>
    BY <1>11 DEF AppendPending
  <2>2. /\ Len(pending_frames') = Len(pending_frames) + 1
        /\ \A i \in 1..Len(pending_frames) : pending_frames'[i] = pending_frames[i]
        /\ pending_frames'[Len(pending_frames) + 1] = current
    BY <1>a, <2>1, AppendIndex
  <2>3. pipeline_active
    BY <2>1 DEF ThreadInv, CallbackStates
  <2>4. \A i \in 1..Len(pending_frames') :
          pending_frames'[i].seq = minimum_useful_sequence + (i - 1)
    BY <1>a, <2>1, <2>2
  <2>. QED
    BY <1>a, <2>1, <2>2, <2>3, <2>4
<1>12. CASE SelectResult
  BY <1>12 DEF SelectResult, MustRender
<1>13. CASE RenderFrame
  <2>1. /\ pending_frames' = Tail(pending_frames)
        /\ minimum_useful_sequence' = Head(pending_frames).seq + 1
        /\ UNCHANGED <<pipeline_active, next_sequence, current>>
        /\ \/ pc = "roomCommit" /\ pc' = "append"
           \/ pc = "commit" /\ pc' = "drain"
    BY <1>13 DEF RenderFrame
  <2>2. pending_frames # <<>>
    BY <2>1 DEF SelectionInv, Rendering
  <2>3. minimum_useful_sequence' = minimum_useful_sequence + 1
    BY <1>a, <2>1, <2>2, TailIndex
  <2>4. /\ Len(pending_frames') = Len(pending_frames) - 1
        /\ \A i \in 1..Len(pending_frames') :
             i + 1 \in 1..Len(pending_frames)
               /\ pending_frames'[i] = pending_frames[i + 1]
    BY <1>a, <2>1, <2>2, TailIndex
  <2>5. pipeline_active
    BY <2>1 DEF ThreadInv, CallbackStates
  <2>6. \A i \in 1..Len(pending_frames') :
          pending_frames'[i].seq = minimum_useful_sequence' + (i - 1)
    BY <1>a, <2>3, <2>4
  <2>7. Len(pending_frames) \in Nat
    BY <1>a
  <2>8. CASE pc = "roomCommit" /\ pc' = "append"
    <3>1. /\ next_sequence = minimum_useful_sequence + Len(pending_frames) + 1
          /\ current.seq = next_sequence - 1
      BY <2>8
    <3>2. next_sequence' = minimum_useful_sequence' + Len(pending_frames') + 1
      BY <1>a, <2>1, <2>3, <2>4, <2>7, <3>1
    <3>. QED
      BY <2>1, <2>5, <2>6, <2>8, <3>1, <3>2
  <2>9. CASE pc = "commit" /\ pc' = "drain"
    BY <1>a, <2>1, <2>3, <2>4, <2>5, <2>6, <2>7, <2>9
  <2>. QED
    BY <2>1, <2>8, <2>9
<1>14. CASE ReturnBlock
  BY <1>14 DEF ReturnBlock
<1>15. CASE WorkerStep \/ TimeOut \/ UNCHANGED vars
  <2>1. UNCHANGED <<pc, pipeline_active, pending_frames, next_sequence,
                    minimum_useful_sequence, current>>
    BY <1>15 DEF WorkerStep, InitializeWorker, RunJob, WakeUp, FindNoJob, SkipJob,
                 TakeJob, PushResult, PopJob, TimeOut, vars
  <2>. QED
    BY <2>1
<1>. QED
  BY <1>1, <1>2, <1>3, <1>4, <1>5, <1>6, <1>7, <1>8, <1>9, <1>10, <1>11,
     <1>12, <1>13, <1>14, <1>15
     DEF Next, Lifecycle, Callback, ContinueBlock, Unloaded

LEMMA QueueInit == Init => QueueOrder
BY DEF Init, QueueOrder

\* The order of the two queues, if no job of an older session is left in them.
LEMMA QueueStep ==
  ASSUME QueueOrder, TypeOK, ThreadInv, SelectionInv, AudioInv, [Next]_vars
  PROVE  QueueOrder'
<1> USE DEF QueueOrder, JobInWork, userVars, fifoVars, hostVars, sharedVars,
            workerVars
<1>a. /\ next_sequence \in Nat
      /\ work_queue \in Seq(Frame) /\ result_queue \in Seq(Result)
      /\ job \in Frame /\ result \in Result /\ result.audio \in Frame
      /\ \A i \in 1..Len(work_queue) : work_queue[i].seq \in Nat
      /\ \A i \in 1..Len(result_queue) : result_queue[i].audio.seq \in Nat
  <2>1. /\ next_sequence \in Nat
        /\ work_queue \in Seq(Frame) /\ result_queue \in Seq(Result)
        /\ job \in Frame /\ result \in Result
    BY DEF TypeOK
  <2>2. /\ \A i \in 1..Len(work_queue) : work_queue[i] \in Frame
        /\ \A i \in 1..Len(result_queue) : result_queue[i] \in Result
    BY <2>1, ElementOfSeq
  <2>3. /\ \A f \in Frame : f.seq \in Nat
        /\ \A r \in Result : r.audio \in Frame /\ r.audio.seq \in Nat
    BY DEF Frame, Result
  <2>. QED
    BY <2>1, <2>2, <2>3
<1>1. CASE Editor \/ Stop
  BY <1>1 DEF Editor, SetAecEnabled, SetNoiseEnabled, Stop
<1>2. CASE Start \/ FinishStop
  BY <1>2 DEF Start, FinishStop
<1>3. CASE ConfigureQueues
  <2>1. /\ work_queue' = <<>> /\ result_queue' = <<>> /\ wpc' = "wait"
    BY <1>3 DEF ConfigureQueues, AudioInv
  <2>. QED
    BY <2>1
<1>4. CASE BypassBlock
  <2>1. /\ result_queue' = <<>>
        /\ UNCHANGED <<pc, wpc, job, result, work_queue, next_sequence>>
    BY <1>4 DEF BypassBlock
  <2>. QED
    BY <2>1
<1>5. ASSUME NEW n \in Blocks, NEW failed \in BOOLEAN, BeginBlock(n, failed)
      PROVE  QueueOrder'
  <2>1. /\ result_queue' = result_queue \/ result_queue' = <<>>
        /\ UNCHANGED <<wpc, job, result, work_queue, next_sequence>>
        /\ pc = "idle"
    BY <1>5 DEF BeginBlock
  <2>. QED
    BY <2>1
<1>6. ASSUME NEW covered \in BOOLEAN, CutFrame(covered) PROVE QueueOrder'
  <2>1. /\ pc = "frames"
        /\ next_sequence' = next_sequence + 1
        /\ current'.seq = next_sequence
        /\ UNCHANGED <<wpc, job, result, result_queue>>
        /\ \/ work_queue' = work_queue
           \/ work_queue' = Append(work_queue, current')
    BY <1>6 DEF CutFrame
  <2>2. current' \in Frame
    BY TypeStep DEF TypeOK
  <2>3. CASE work_queue' = work_queue
    BY <1>a, <2>1, <2>3
  <2>4. CASE work_queue' = Append(work_queue, current')
    <3>1. /\ Len(work_queue') = Len(work_queue) + 1
          /\ \A i \in 1..Len(work_queue) : work_queue'[i] = work_queue[i]
          /\ work_queue'[Len(work_queue) + 1].seq = next_sequence
          /\ Len(work_queue) \in Nat
      BY <1>a, <2>1, <2>2, <2>4, AppendIndex
    <3>2. ASSUME NEW i \in 1..Len(work_queue'), NEW j \in 1..Len(work_queue'), i < j
          PROVE  work_queue'[i].seq < work_queue'[j].seq
      <4>1. i \in 1..Len(work_queue) /\ work_queue'[i] = work_queue[i]
        BY <3>1, <3>2
      <4>2. CASE j \in 1..Len(work_queue)
        BY <2>1, <3>1, <3>2, <4>1, <4>2
      <4>3. CASE j = Len(work_queue) + 1
        BY <2>1, <3>1, <4>1, <4>3
      <4>. QED
        BY <3>1, <4>2, <4>3
    <3>3. \A i \in 1..Len(work_queue') : work_queue'[i].seq < next_sequence'
      BY <1>a, <2>1, <3>1
    <3>4. ASSUME NEW i \in 1..Len(result_queue'), NEW j \in 1..Len(work_queue')
          PROVE  \/ result_queue'[i].audio.seq < work_queue'[j].seq
                 \/ j = 1 /\ wpc' \in {"pop", "overrun"}
      <4>1. i \in 1..Len(result_queue) /\ result_queue'[i] = result_queue[i]
        BY <2>1
      <4>2. CASE j \in 1..Len(work_queue)
        BY <2>1, <3>1, <4>1, <4>2
      <4>3. CASE j = Len(work_queue) + 1
        BY <2>1, <3>1, <4>1, <4>3
      <4>. QED
        BY <3>1, <4>2, <4>3
    <3>5. \A i \in 1..Len(result_queue') : result_queue'[i].audio.seq < next_sequence'
      BY <1>a, <2>1
    <3>6. JobInWork' => work_queue' # <<>> /\ work_queue'[1].seq = job'.seq
      BY <1>a, <2>1, <3>1, EmptySeq
    <3>. QED
      BY <2>1, <3>2, <3>3, <3>4, <3>5, <3>6
  <2>. QED
    BY <2>1, <2>3, <2>4
<1>7. ASSUME NEW covered \in BOOLEAN, EndFrames(covered) PROVE QueueOrder'
  BY <1>7 DEF EndFrames
<1>8. CASE SignalWorker \/ AppendPending \/ ReturnBlock
  BY <1>8 DEF SignalWorker, AppendPending, ReturnBlock
<1>9. CASE SelectResult
  <2>1. /\ result_queue' = DropStale(result_queue, Head(pending_frames).seq)
        /\ UNCHANGED <<wpc, job, result, work_queue, next_sequence>>
        /\ pc \in {"append", "drain"}
    BY <1>9 DEF SelectResult, MustRender
  <2>2. Head(pending_frames).seq \in Nat
    <3>1. pending_frames # <<>>
      BY <1>9, EmptyQueues, PipelineAssumption
         DEF SelectResult, MustRender, NeedsOutput, PendingCapacity
    <3>2. pending_frames \in Seq(Frame)
      BY DEF TypeOK
    <3>3. Head(pending_frames) \in Frame
      BY <3>1, <3>2, TailIndex, ElementOfSeq
    <3>. QED
      BY <3>3 DEF Frame
  <2>3. PICK d \in 0..Len(result_queue) :
          /\ Len(result_queue') = Len(result_queue) - d
          /\ \A i \in 1..Len(result_queue') : result_queue'[i] = result_queue[i + d]
    <3>1. \E d \in 0..Len(result_queue) :
            /\ Len(DropStale(result_queue, Head(pending_frames).seq))
                 = Len(result_queue) - d
            /\ \A i \in 1..Len(DropStale(result_queue, Head(pending_frames).seq)) :
                 DropStale(result_queue, Head(pending_frames).seq)[i]
                   = result_queue[i + d]
      BY <1>a, <2>2, DropStaleIndex
    <3>. QED
      BY <2>1, <3>1
  <2>4. \A i \in 1..Len(result_queue') : i + d \in 1..Len(result_queue)
    BY <1>a, <2>3
  <2>5. ASSUME NEW i \in 1..Len(result_queue'), NEW j \in 1..Len(result_queue'), i < j
        PROVE  result_queue'[i].audio.seq < result_queue'[j].audio.seq
    <3>1. i + d < j + d
      BY <1>a, <2>3, <2>5
    <3>. QED
      BY <2>1, <2>3, <2>4, <3>1
  <2>6. \A i \in 1..Len(result_queue') :
          \E k \in 1..Len(result_queue) : result_queue'[i] = result_queue[k]
    BY <2>3, <2>4
  <2>. QED
    BY <2>1, <2>5, <2>6
<1>10. CASE RenderFrame
  <2>1. /\ result_queue' = IF matching THEN Tail(result_queue) ELSE result_queue
        /\ UNCHANGED <<wpc, job, result, work_queue, next_sequence>>
        /\ pc \in {"roomCommit", "commit"}
    BY <1>10 DEF RenderFrame
  <2>2. CASE matching
    <3>1. /\ Len(result_queue') = Len(result_queue) - 1
          /\ \A i \in 1..Len(result_queue') :
               i + 1 \in 1..Len(result_queue)
                 /\ result_queue'[i] = result_queue[i + 1]
      BY <1>a, <2>1, <2>2, TailIndex DEF SelectionInv
    <3>2. ASSUME NEW i \in 1..Len(result_queue'), NEW j \in 1..Len(result_queue'),
                 i < j
          PROVE  result_queue'[i].audio.seq < result_queue'[j].audio.seq
      <4>1. i + 1 < j + 1
        BY <1>a, <3>1, <3>2
      <4>. QED
        BY <2>1, <3>1, <4>1
    <3>3. \A i \in 1..Len(result_queue') :
            \E k \in 1..Len(result_queue) : result_queue'[i] = result_queue[k]
      BY <3>1
    <3>. QED
      BY <2>1, <3>2, <3>3
  <2>3. CASE ~matching
    BY <2>1, <2>3
  <2>. QED
    BY <2>2, <2>3
<1>11. ASSUME NEW aec \in BOOLEAN, NEW noise \in BOOLEAN,
              InitializeWorker(aec, noise)
      PROVE  QueueOrder'
  BY <1>11 DEF InitializeWorker
<1>12. ASSUME NEW aec \in BOOLEAN, NEW noise \in BOOLEAN, RunJob(aec, noise)
      PROVE  QueueOrder'
  <2>1. /\ wpc = "run" /\ wpc' \in {"pop", "push"}
        /\ result'.audio.seq = job.seq
        /\ UNCHANGED <<pc, job, work_queue, result_queue, next_sequence>>
    BY <1>a, <1>12 DEF RunJob, Frame
  <2>. QED
    BY <2>1
<1>13. CASE WakeUp \/ TimeOut \/ FindNoJob
  BY <1>13 DEF WakeUp, TimeOut, FindNoJob, AfterWait
<1>14. CASE SkipJob
  <2>1. /\ wpc = "take" /\ wpc' = "take" /\ work_queue # <<>>
        /\ work_queue' = Tail(work_queue)
        /\ UNCHANGED <<pc, job, result, result_queue, next_sequence>>
    BY <1>14 DEF SkipJob
  <2>2. /\ Len(work_queue') = Len(work_queue) - 1
        /\ \A i \in 1..Len(work_queue') :
             i + 1 \in 1..Len(work_queue) /\ work_queue'[i] = work_queue[i + 1]
    BY <1>a, <2>1, TailIndex
  <2>. QED
    BY <1>a, <2>1, <2>2
<1>15. CASE TakeJob
  BY <1>a, <1>15, TailIndex DEF TakeJob
<1>16. CASE PushResult
  <2>1. CASE Len(result_queue) < QueueCapacity
    <3>1. /\ wpc = "push" /\ wpc' = "pop"
          /\ result_queue' = Append(result_queue, result)
          /\ UNCHANGED <<pc, job, result, work_queue, next_sequence>>
      BY <1>16, <2>1 DEF PushResult
    <3>2. /\ Len(result_queue') = Len(result_queue) + 1
          /\ \A i \in 1..Len(result_queue) : result_queue'[i] = result_queue[i]
          /\ result_queue'[Len(result_queue) + 1] = result
          /\ Len(result_queue) \in Nat /\ Len(work_queue) \in Nat
      BY <1>a, <3>1, AppendIndex
    <3> SUFFICES ASSUME pc \notin {"stopped", "starting"} PROVE QueueOrder'
      BY <3>1
    <3>3. /\ work_queue # <<>> /\ work_queue[1].seq = result.audio.seq
          /\ 1 \in 1..Len(work_queue)
      BY <1>a, <3>1, TailIndex
    <3>4. result.audio.seq \in Nat
      BY <1>a DEF Frame
    <3>5. ASSUME NEW i \in 1..Len(result_queue'), NEW j \in 1..Len(result_queue'),
                 i < j
          PROVE  result_queue'[i].audio.seq < result_queue'[j].audio.seq
      <4>1. i \in 1..Len(result_queue) /\ result_queue'[i] = result_queue[i]
        BY <3>2, <3>5
      <4>2. CASE j \in 1..Len(result_queue)
        BY <3>1, <3>2, <3>5, <4>1, <4>2
      <4>3. CASE j = Len(result_queue) + 1
        BY <3>1, <3>2, <3>3, <4>1, <4>3
      <4>. QED
        BY <3>2, <4>2, <4>3
    <3>6. \A i \in 1..Len(result_queue'), j \in 1..Len(work_queue') :
            result_queue'[i].audio.seq < work_queue'[j].seq \/ j = 1
      BY <1>a, <3>1, <3>2, <3>3, <3>4
    <3>7. \A i \in 1..Len(result_queue') : result_queue'[i].audio.seq < next_sequence
      BY <1>a, <3>1, <3>2, <3>3, <3>4
    <3>. QED
      BY <3>1, <3>3, <3>5, <3>6, <3>7
  <2>2. CASE ~(Len(result_queue) < QueueCapacity)
    BY <1>16, <2>2 DEF PushResult
  <2>. QED
    BY <2>1, <2>2
<1>17. CASE PopJob
  <2> SUFFICES ASSUME pc \notin {"stopped", "starting"} PROVE QueueOrder'
    BY <1>17 DEF PopJob
  <2>1. /\ wpc \in {"pop", "overrun"} /\ wpc' = "take" /\ work_queue # <<>>
        /\ work_queue' = Tail(work_queue)
        /\ UNCHANGED <<pc, result_queue, next_sequence>>
    BY <1>17 DEF PopJob
  <2>2. /\ Len(work_queue') = Len(work_queue) - 1
        /\ \A i \in 1..Len(work_queue') :
             i + 1 \in 1..Len(work_queue) /\ work_queue'[i] = work_queue[i + 1]
    BY <1>a, <2>1, TailIndex
  <2>3. ASSUME NEW i \in 1..Len(work_queue'), NEW j \in 1..Len(work_queue'), i < j
        PROVE  work_queue'[i].seq < work_queue'[j].seq
    <3>1. i + 1 < j + 1
      BY <1>a, <2>2, <2>3
    <3>. QED
      BY <2>1, <2>2, <3>1
  <2>4. \A i \in 1..Len(work_queue') :
          \E k \in 1..Len(work_queue) : k # 1 /\ work_queue'[i] = work_queue[k]
    <3>1. \A i \in 1..Len(work_queue') : i + 1 # 1
      BY <1>a, <2>2
    <3>. QED
      BY <2>2, <3>1
  <2>. QED
    BY <2>1, <2>3, <2>4
<1>18. CASE UNCHANGED vars
  BY <1>18 DEF vars
<1>. QED
  BY <1>1, <1>2, <1>3, <1>4, <1>5, <1>6, <1>7, <1>8, <1>9, <1>10, <1>11,
     <1>12, <1>13, <1>14, <1>15, <1>16, <1>17, <1>18
     DEF Next, Lifecycle, Callback, ContinueBlock, WorkerStep, Unloaded

\* A result that waits for the frame to be rendered is the first useful one.
LEMMA FirstUseful ==
  ASSUME TypeOK, QueueOrder, pc \notin {"stopped", "starting"},
         NEW s \in Nat, ResultQueued(s)
  PROVE  /\ DropStale(result_queue, s) # <<>>
         /\ Head(DropStale(result_queue, s)).audio.seq = s
<1>1. /\ result_queue \in Seq(Result)
      /\ \A i \in 1..Len(result_queue) : result_queue[i].audio.seq \in Nat
  <2>1. \A i \in 1..Len(result_queue) : result_queue[i] \in Result
    BY ElementOfSeq DEF TypeOK
  <2>. QED
    BY <2>1 DEF TypeOK, Result, Frame
<1>2. PICK k \in 1..Len(result_queue) : result_queue[k].audio.seq = s
  BY DEF ResultQueued
<1>3. PICK d \in 0..Len(result_queue) :
        /\ DropStale(result_queue, s) \in Seq(Result)
        /\ Len(DropStale(result_queue, s)) = Len(result_queue) - d
        /\ \A i \in 1..Len(DropStale(result_queue, s)) :
             DropStale(result_queue, s)[i] = result_queue[i + d]
        /\ \A i \in 1..d : ~(result_queue[i].audio.seq >= s)
        /\ d < Len(result_queue) => result_queue[d + 1].audio.seq >= s
  BY <1>1, DropStaleIndex
<1>4. d < k
  BY <1>1, <1>2, <1>3
<1>5. /\ d + 1 \in 1..Len(result_queue) /\ d + 1 <= k
      /\ result_queue[d + 1].audio.seq >= s
  BY <1>1, <1>2, <1>3, <1>4
<1>6. d + 1 = k
  <2>1. d + 1 < k => result_queue[d + 1].audio.seq < result_queue[k].audio.seq
    BY <1>5 DEF QueueOrder
  <2>. QED
    BY <1>1, <1>2, <1>5, <2>1
<1>7. DropStale(result_queue, s) # <<>>
  BY <1>1, <1>3, <1>5, EmptySeq
<1>8. Head(DropStale(result_queue, s)) = result_queue[k]
  <2>1. Head(DropStale(result_queue, s)) = DropStale(result_queue, s)[1]
    BY <1>3, <1>7, TailIndex
  <2>2. 1 \in 1..Len(DropStale(result_queue, s))
    BY <1>3, <1>7, TailIndex
  <2>3. DropStale(result_queue, s)[1] = result_queue[1 + d]
    BY <1>3, <2>2
  <2>. QED
    BY <1>6, <2>1, <2>3
<1>. QED
  BY <1>2, <1>7, <1>8

-----------------------------------------------------------------------------
(* The theorems.                                                           *)

\* What holds in every reachable state, whatever the constants.
IInv ==
  TypeOK /\ ThreadInv /\ SelectionInv /\ LatencyInv /\ NoLostWakeup

LEMMA IInvInit == Init => IInv
BY TypeInit, ThreadInit, SelectionInit, LatencyInit, WakeupInit DEF IInv

LEMMA IInvStep == IInv /\ [Next]_vars => IInv'
BY TypeStep, ThreadStep, SelectionStep, LatencyStep, WakeupStep DEF IInv

THEOREM InductiveInvariant == Spec => []IInv
BY IInvInit, IInvStep, PTL DEF Spec

\* Every variable of the pipeline keeps its type, and no ring its limit.
THEOREM TypeCorrectness == Spec => []TypeOK
<1>1. IInv => TypeOK
  BY DEF IInv
<1>. QED
  BY <1>1, InductiveInvariant, PTL

\* The delay between the microphone and the host is exactly Lead frames while a
\* pipeline is active: process() always has the samples it must return, for
\* every frame length, every sequence of block lengths and every behaviour of
\* the reference and of the worker.
THEOREM Latency == Spec => []ConstantLatency
<1>1. IInv => ConstantLatency
  BY DEF IInv, LatencyInv, ConstantLatency
<1>. QED
  BY <1>1, InductiveInvariant, PTL

\* SetEvent after the push, and the auto-reset event of the worker, lose no
\* wakeup, for queues of any capacity.
THEOREM Wakeup == Spec => []NoLostWakeup
<1>1. IInv => NoLostWakeup
  BY DEF IInv
<1>. QED
  BY <1>1, InductiveInvariant, PTL

\* If start() configures the queues before the worker's first wait times out,
\* the microphone emits a frame's own audio with all its effects, or silence,
\* and nothing else: no late, partial, raw or foreign audio.
THEOREM OwnAudio ==
  ASSUME TimelyStart
  PROVE  Spec => []OnlyOwnCompleteAudio
<1>1. Init => IInv /\ AudioInv
  BY IInvInit, AudioInit
<1>2. (IInv /\ AudioInv) /\ [Next]_vars => (IInv /\ AudioInv)'
  <2>1. IInv /\ AudioInv /\ [Next]_vars => AudioInv'
    BY AudioStep DEF IInv
  <2>. QED
    BY IInvStep, <2>1
<1>3. IInv /\ AudioInv => OnlyOwnCompleteAudio
  BY DEF AudioInv
<1>. QED
  BY <1>1, <1>2, <1>3, PTL DEF Spec

\* From its activation on a pipeline renders every frame it cuts, once and in
\* the order of the cuts, whatever the capacity of its rings.
THEOREM InOrder == Spec => RenderedInOrder
<1>1. Init => IInv /\ PendingOrder
  BY IInvInit, PendingInit
<1>2. (IInv /\ PendingOrder) /\ [Next]_vars => (IInv /\ PendingOrder)'
  BY IInvStep, PendingStep DEF IInv
<1>3. IInv /\ PendingOrder /\ [Next]_vars
        => (rendered' # rendered => rendered'.frame.seq = minimum_useful_sequence)
  <2> SUFFICES ASSUME IInv, PendingOrder, [Next]_vars, rendered' # rendered
               PROVE  rendered'.frame.seq = minimum_useful_sequence
    OBVIOUS
  <2>1. RenderFrame
    BY DEF Next, Editor, Lifecycle, Callback, ContinueBlock, WorkerStep, Unloaded,
           SetAecEnabled, SetNoiseEnabled, Start, ConfigureQueues, Stop,
           FinishStop, BypassBlock, BeginBlock, CutFrame, EndFrames, SignalWorker,
           AppendPending, SelectResult, ReturnBlock, InitializeWorker, RunJob,
           WakeUp, TimeOut, FindNoJob, SkipJob, TakeJob, PushResult, PopJob,
           vars, hostVars
  <2>2. rendered'.frame = Head(pending_frames) /\ pending_frames # <<>>
    BY <2>1 DEF RenderFrame, IInv, SelectionInv, Rendering
  <2>3. Head(pending_frames) = pending_frames[1] /\ 1 \in 1..Len(pending_frames)
    BY <2>2, TailIndex DEF IInv, TypeOK
  <2>4. minimum_useful_sequence \in Nat
    BY DEF IInv, TypeOK
  <2>. QED
    BY <2>2, <2>3, <2>4 DEF PendingOrder
<1>. QED
  BY <1>1, <1>2, <1>3, PTL DEF Spec, RenderedInOrder

\* If start() configures the queues in time, a result that has arrived is found
\* when its frame is rendered, behind any number of late ones.
THEOREM ResultsUsed ==
  ASSUME TimelyStart
  PROVE  Spec => ArrivedResultIsUsed
<1> DEFINE J == IInv /\ AudioInv /\ QueueOrder
<1>1. Init => J
  BY IInvInit, AudioInit, QueueInit
<1>2. J /\ [Next]_vars => J'
  BY IInvStep, AudioStep, QueueStep DEF IInv
<1>3. J /\ [Next]_vars =>
        (/\ pc \in {"append", "drain"} /\ pc' \in {"roomCommit", "commit"}
         /\ ResultQueued(Head(pending_frames).seq)
         => matching')
  <2> SUFFICES ASSUME J, [Next]_vars, pc \in {"append", "drain"},
                      pc' \in {"roomCommit", "commit"},
                      ResultQueued(Head(pending_frames).seq)
               PROVE  matching'
    OBVIOUS
  <2>1. SelectResult
    BY DEF Next, Editor, Lifecycle, Callback, ContinueBlock, WorkerStep, Unloaded,
           SetAecEnabled, SetNoiseEnabled, Start, ConfigureQueues, Stop,
           FinishStop, BypassBlock, BeginBlock, CutFrame, EndFrames, SignalWorker,
           AppendPending, RenderFrame, ReturnBlock, InitializeWorker, RunJob,
           WakeUp, TimeOut, FindNoJob, SkipJob, TakeJob, PushResult, PopJob, vars
  <2>2. pending_frames # <<>>
    BY <2>1, EmptyQueues, PipelineAssumption
       DEF SelectResult, MustRender, NeedsOutput, PendingCapacity
  <2>3. Head(pending_frames) \in Frame
    BY <2>2, TailIndex, ElementOfSeq DEF IInv, TypeOK
  <2>4. Head(pending_frames).seq \in Nat
    BY <2>3 DEF Frame
  <2>5. LET useful == DropStale(result_queue, Head(pending_frames).seq)
        IN  useful # <<>> /\ Head(useful).audio.seq = Head(pending_frames).seq
    BY <2>4, FirstUseful DEF IInv
  <2>. QED
    BY <2>1, <2>5 DEF SelectResult
<1>. QED
  BY <1>1, <1>2, <1>3, PTL DEF Spec, ArrivedResultIsUsed

=============================================================================
