-------------------------- MODULE ReferenceTimeline --------------------------
(***************************************************************************)
(* The playback reference on its way from the loopback thread to the frame *)
(* loop: WasapiLoopbackCapture's packets, the hand-over of                 *)
(* pending_reference under reference_mutex (plugin_processor.cpp), and     *)
(* TimestampedAudioBuffer, whose read() decides whether a microphone frame *)
(* waits for its reference (src/src/application/timestamped_audio_buffer   *)
(* .cpp).                                                                  *)
(*                                                                         *)
(* A block is a start time and a number of samples; what it sounds like    *)
(* does not matter here.  Times are integers in a unit of which Period     *)
(* make a sample, so that blocks need not start on the microphone's        *)
(* samples; the rounding of llround is left out.  read() is followed       *)
(* iteration by iteration.                                                 *)
(***************************************************************************)
EXTENDS Integers, Sequences, FiniteSets

CONSTANTS
  Period,           \* one sample
  FrameSamples,     \* samples of a microphone frame
  Threshold,        \* samples that make a frame covered (98 %)
  Capacity,         \* capacity_hns_
  Retention,        \* max_delay_ms + 500 ms
  MaxPending,       \* limit of pending_reference
  Lengths,          \* lengths of a packet in samples
  Gaps,             \* time lost before a packet
  Lates,            \* 0, and how late a packet without a device timestamp is
  HostBlocks,       \* lengths of the host's blocks in samples
  MaxTime           \* bound: no packet, and no frame, ends later

ASSUME TimelineAssumption ==
  /\ Period \in Nat \ {0}
  /\ FrameSamples \in Nat \ {0}
  /\ Threshold \in Nat
  /\ Capacity \in Nat
  /\ Retention \in Nat
  /\ MaxPending \in Nat
  /\ Lengths \subseteq Nat \ {0}
  /\ Gaps \subseteq Nat
  /\ Lates \subseteq Nat
  /\ HostBlocks \subseteq Nat
  /\ MaxTime \in Nat

VARIABLES
  device,           \* device time of the next packet
  handler,          \* the loopback thread holds reference_mutex, or not
  pending_reference,
  pc,               \* where the audio thread is
  drained_reference,
  chunks_,          \* the timeline
  queued,           \* near_queue: its length
  near,             \* near_queue_start_hns
  i, chunk_index,   \* read()'s loop
  covered           \* the samples it has found covered

loopbackVars == <<device, handler>>
readVars == <<i, chunk_index, covered>>
vars == <<loopbackVars, pending_reference, pc, drained_reference, chunks_,
          queued, near, readVars>>

Block == [start : Nat, samples : Nat \ {0}]

chunk_end_hns(chunk) == chunk.start + Period * chunk.samples
SampleTime(j) == near + Period * j
Samples == 0..(FrameSamples - 1)

\* Mutation of DropExpired: by the start of a chunk.
DropExpired_ByStart(blocks, time) ==
  LET Kept  == {k \in 1..Len(blocks) : blocks[k].start >= time}
      first == CHOOSE k \in Kept : \A l \in Kept : k <= l
  IN  IF Kept = {} THEN <<>> ELSE SubSeq(blocks, first, Len(blocks))

\* The front of the timeline is dropped up to the first chunk that ends at the
\* given time or later.
DropExpired(blocks, time) ==
  LET Kept  == {k \in 1..Len(blocks) : chunk_end_hns(blocks[k]) >= time}
      first == CHOOSE k \in Kept : \A l \in Kept : k <= l
  IN  IF Kept = {} THEN <<>> ELSE SubSeq(blocks, first, Len(blocks))

Init ==
  /\ device = 0
  /\ handler = "idle"
  /\ pending_reference = <<>>
  /\ pc = "bypassed"
  /\ drained_reference = <<>>
  /\ chunks_ = <<>>
  /\ queued = 0
  /\ near = 0
  /\ i = 0 /\ chunk_index = 1
  /\ covered = {}

-----------------------------------------------------------------------------
(* The loopback thread.                                                    *)

LockReference ==
  /\ handler = "idle"
  /\ handler' = "locked"
  /\ UNCHANGED <<device, pending_reference, pc, drained_reference, chunks_,
                 queued, near, readVars>>

\* Too many blocks push the oldest one out.
Capped(blocks) == IF Len(blocks) > MaxPending THEN Tail(blocks) ELSE blocks

\* The packet handler.  A packet has the device's timestamp, or that of its
\* arrival if the device reports a timestamp error; a discontinuity discards
\* what still waits.
Deliver(samples, gap, late, discontinuity) ==
  LET block == [start |-> device + gap + late, samples |-> samples]
  IN  /\ handler = "locked"
      /\ gap # 0 => discontinuity
      /\ chunk_end_hns(block) <= MaxTime
      /\ pending_reference' =
           Capped(Append(IF discontinuity THEN <<>> ELSE pending_reference,
                         block))
      /\ device' = device + gap + Period * samples
      /\ handler' = "idle"
      /\ UNCHANGED <<pc, drained_reference, chunks_, queued, near, readVars>>

\* An empty packet, or one the resampler retains, calls no handler.
Unlock ==
  /\ handler = "locked"
  /\ handler' = "idle"
  /\ UNCHANGED <<device, pending_reference, pc, drained_reference, chunks_,
                 queued, near, readVars>>

-----------------------------------------------------------------------------
(* The audio thread.                                                       *)

\* The first callback with an effect on: the microphone's clock is set to the
\* current time.  What the loopback delivered in the meantime is still there.
Activate(now) ==
  /\ pc = "bypassed"
  /\ near' = now
  /\ queued' = 0
  /\ pc' = "idle"
  /\ UNCHANGED <<loopbackVars, pending_reference, drained_reference, chunks_,
                 readVars>>

\* Both effects are off.
Bypass ==
  /\ pc = "idle"
  /\ pc' = "bypassed"
  /\ UNCHANGED <<loopbackVars, pending_reference, drained_reference, chunks_,
                 queued, near, readVars>>

\* A block is appended to near_queue, and pending_reference is taken over,
\* unless its mutex is not free: then it waits for the next callback.
BeginBlock(n) ==
  /\ pc = "idle"
  /\ near + Period * (queued + n) <= MaxTime
  /\ queued' = queued + n
  /\ IF handler = "idle"
     THEN /\ drained_reference' = pending_reference
          /\ pending_reference' = <<>>
     ELSE UNCHANGED <<drained_reference, pending_reference>>
  /\ pc' = "push"
  /\ UNCHANGED <<loopbackVars, chunks_, near, readVars>>

GoesBack(start) ==
  chunks_ # <<>> /\ start < chunks_[Len(chunks_)].start

\* A block that starts before the newest chunk starts a new timeline.
Extended(block) ==
  IF GoesBack(block.start) THEN <<block>> ELSE Append(chunks_, block)

\* TimestampedAudioBuffer::push of the next drained block.
PushBlock ==
  /\ pc = "push"
  /\ drained_reference # <<>>
  /\ LET block == Head(drained_reference)
     IN  chunks_' = DropExpired(Extended(block), chunk_end_hns(block) - Capacity)
  /\ drained_reference' = Tail(drained_reference)
  /\ UNCHANGED <<loopbackVars, pending_reference, pc, queued, near, readVars>>

BeginFrames ==
  /\ pc = "push"
  /\ drained_reference = <<>>
  /\ pc' = "frames"
  /\ UNCHANGED <<loopbackVars, pending_reference, drained_reference, chunks_,
                 queued, near, readVars>>

\* TimestampedAudioBuffer::read of the next frame.
BeginRead ==
  /\ pc = "frames"
  /\ queued >= FrameSamples
  /\ i' = 0
  /\ chunk_index' = 1
  /\ covered' = {}
  /\ pc' = "read"
  /\ UNCHANGED <<loopbackVars, pending_reference, drained_reference, chunks_,
                 queued, near>>

\* Mutation of Passed: off by one.
Passed_OffByOne(chunk, time) == chunk_end_hns(chunk) < time

Passed(chunk, time) == chunk_end_hns(chunk) <= time

SkipChunk ==
  /\ pc = "read"
  /\ i < FrameSamples
  /\ chunk_index <= Len(chunks_)
  /\ Passed(chunks_[chunk_index], SampleTime(i))
  /\ chunk_index' = chunk_index + 1
  /\ UNCHANGED <<loopbackVars, pending_reference, pc, drained_reference,
                 chunks_, queued, near, i, covered>>

\* A sample before the chunk's start stays silent; one beyond its end, which
\* only a chunk not skipped in time could have, too.
ReadSample ==
  /\ pc = "read"
  /\ i < FrameSamples
  /\ chunk_index <= Len(chunks_)
  /\ ~Passed(chunks_[chunk_index], SampleTime(i))
  /\ LET chunk == chunks_[chunk_index]
     IN  covered' = IF /\ SampleTime(i) >= chunk.start
                       /\ SampleTime(i) < chunk_end_hns(chunk)
                    THEN covered \cup {i} ELSE covered
  /\ i' = i + 1
  /\ UNCHANGED <<loopbackVars, pending_reference, pc, drained_reference,
                 chunks_, queued, near, chunk_index>>

EndRead ==
  /\ pc = "read"
  /\ i = FrameSamples \/ chunk_index > Len(chunks_)
  /\ pc' = "decide"
  /\ UNCHANGED <<loopbackVars, pending_reference, drained_reference, chunks_,
                 queued, near, readVars>>

\* A frame without its reference waits for the next callback, for at most two
\* frames and if echo cancellation is on...
WaitForReference ==
  /\ pc = "decide"
  /\ queued < 3 * FrameSamples
  /\ Cardinality(covered) < Threshold
  /\ pc' = "idle"
  /\ UNCHANGED <<loopbackVars, pending_reference, drained_reference, chunks_,
                 queued, near, readVars>>

\* ... and otherwise is cut, and the reference before it is forgotten.
CutFrame(aec) ==
  /\ pc = "decide"
  /\ aec => queued >= 3 * FrameSamples \/ Cardinality(covered) >= Threshold
  /\ queued' = queued - FrameSamples
  /\ near' = near + Period * FrameSamples
  /\ chunks_' = DropExpired(chunks_,
                            near + Period * FrameSamples - Retention)
  /\ pc' = "frames"
  /\ UNCHANGED <<loopbackVars, pending_reference, drained_reference, readVars>>

EndFrames ==
  /\ pc = "frames"
  /\ queued < FrameSamples
  /\ pc' = "idle"
  /\ UNCHANGED <<loopbackVars, pending_reference, drained_reference, chunks_,
                 queued, near, readVars>>

-----------------------------------------------------------------------------
Loopback ==
  \/ LockReference
  \/ \E samples \in Lengths, gap \in Gaps, late \in Lates,
        discontinuity \in BOOLEAN : Deliver(samples, gap, late, discontinuity)
  \/ Unlock

Read == BeginRead \/ SkipChunk \/ ReadSample \/ EndRead

Audio ==
  \/ \E now \in 0..MaxTime : Activate(now)
  \/ Bypass
  \/ \E n \in HostBlocks : BeginBlock(n)
  \/ PushBlock
  \/ BeginFrames
  \/ Read
  \/ WaitForReference
  \/ \E aec \in BOOLEAN : CutFrame(aec)
  \/ EndFrames

Next == Loopback \/ Audio

Spec == Init /\ [][Next]_vars

-----------------------------------------------------------------------------
(* Properties.                                                             *)

\* Every variable has its type, and no more than MaxPending blocks wait.
TypeOK ==
  /\ device \in Nat
  /\ handler \in {"idle", "locked"}
  /\ pending_reference \in Seq(Block) /\ Len(pending_reference) <= MaxPending
  /\ pc \in {"bypassed", "idle", "push", "frames", "read", "decide"}
  /\ drained_reference \in Seq(Block)
  /\ chunks_ \in Seq(Block)
  /\ queued \in Nat
  /\ near \in Nat
  /\ i \in 0..FrameSamples
  /\ chunk_index \in Nat \ {0}
  /\ covered \subseteq Samples

\* The timeline's chunks are in the order of their start times, whatever the
\* device's timestamps: read() looks at each chunk once and relies on it.
StartsAreSorted ==
  \A k, l \in 1..Len(chunks_) : k <= l => chunks_[k].start <= chunks_[l].start

Covers(chunk, time) == chunk.start <= time /\ time < chunk_end_hns(chunk)
CoveredAt(time) == \E k \in 1..Len(chunks_) : Covers(chunks_[k], time)

\* read() finds a sample covered exactly if some chunk of the timeline covers
\* it: chunks that overlap, leave gaps or lie within one another do not mislead
\* its single pass, so a frame neither waits for a reference that is there nor
\* is sent to the echo canceller with silence for one that is not.
ReadIsExact ==
  pc = "decide" => covered = {j \in Samples : CoveredAt(SampleTime(j))}

\* Reference that a frame not yet cut can use stays in the timeline, unless the
\* device's clock goes back or the loopback is ahead by the timeline's capacity.
ReferenceIsKept ==
  [][\A time \in 0..MaxTime :
       time >= near' /\ CoveredAt(time) /\ ~CoveredAt(time)' =>
         /\ pc = "push"
         /\ \/ GoesBack(Head(drained_reference).start)
            \/ time + Capacity < chunk_end_hns(Head(drained_reference))]_vars

=============================================================================
