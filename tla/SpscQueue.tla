------------------------------ MODULE SpscQueue ------------------------------
(***************************************************************************)
(* SpscFrameQueue (src/src/plugin/plugin_processor.cpp): the lock-free     *)
(* ring between one producer and one consumer thread, one atomic operation *)
(* or slot access per step.  A frame is copied into its slot in two steps, *)
(* its sequence number and its samples, so that a frame read while it is   *)
(* written would be seen as torn.                                          *)
(*                                                                         *)
(* An acquire load is modelled as reading the last value stored: an older  *)
(* value can only make a push fail, or a queue look empty, that an earlier *)
(* call would have failed or found empty as well.  A refused push and an   *)
(* empty try_front change nothing and are no actions.                      *)
(***************************************************************************)
EXTENDS Integers, Sequences

CONSTANTS
  Slots,      \* slots_.size(): kAsyncQueueCapacity + 1
  Frames,     \* the frames that may be pushed
  Blank,      \* what configure() leaves in a slot
  Torn        \* a read that mixes two frames

ASSUME SlotsAssumption == Slots \in Nat /\ Slots >= 2
ASSUME FramesAssumption == Blank \notin Frames /\ Torn \notin Frames /\ Torn # Blank

VARIABLES
  slots,
  read, write,     \* read_ and write_
  producer,        \* where the producer is in try_push
  pushing,         \* the frame it is pushing
  consumer,        \* where the consumer is with the slot try_front gave it
  got              \* what it has read of that slot

vars == <<slots, read, write, producer, pushing, consumer, got>>

Indices == 0..(Slots - 1)
Slot == [sequence : Frames \cup {Blank}, samples : Frames \cup {Blank}]
BlankSlot == [sequence |-> Blank, samples |-> Blank]

\* Mutation of increment: without the wrap.
increment_Unwrapped(index) == index + 1

increment(index) == IF index + 1 = Slots THEN 0 ELSE index + 1

Init ==
  /\ slots = [i \in Indices |-> BlankSlot]
  /\ read = 0 /\ write = 0
  /\ producer = "idle"
  /\ pushing = Blank
  /\ consumer = "idle"
  /\ got = BlankSlot

\* configure(), called by start() before either thread uses the queue.
Configure ==
  /\ producer = "idle" /\ consumer = "idle"
  /\ slots' = [i \in Indices |-> BlankSlot]
  /\ read' = 0 /\ write' = 0
  /\ UNCHANGED <<producer, pushing, consumer, got>>

-----------------------------------------------------------------------------
(* try_push_work and try_push_result.                                      *)

\* Mutation of HasRoom: the ring never fills up.
HasRoom_Always == TRUE

\* One slot stays unused, so that a full ring differs from an empty one.
HasRoom == increment(write) # read

BeginPush(frame) ==
  /\ producer = "idle"
  /\ HasRoom
  /\ pushing' = frame
  /\ producer' = "sequence"
  /\ UNCHANGED <<slots, read, write, consumer, got>>

\* Mutation of WriteSequence: the slot is published before it is complete.
WriteSequence_Publishes ==
  /\ producer = "sequence"
  /\ slots' = [slots EXCEPT ![write].sequence = pushing]
  /\ write' = increment(write)
  /\ producer' = "samples"
  /\ UNCHANGED <<read, pushing, consumer, got>>

WriteSequence ==
  /\ producer = "sequence"
  /\ slots' = [slots EXCEPT ![write].sequence = pushing]
  /\ producer' = "samples"
  /\ UNCHANGED <<read, write, pushing, consumer, got>>

WriteSamples ==
  /\ producer = "samples"
  /\ slots' = [slots EXCEPT ![write].samples = pushing]
  /\ producer' = "publish"
  /\ UNCHANGED <<read, write, pushing, consumer, got>>

Publish ==
  /\ producer = "publish"
  /\ write' = increment(write)
  /\ producer' = "idle"
  /\ UNCHANGED <<slots, read, pushing, consumer, got>>

-----------------------------------------------------------------------------
(* try_front, the use of the slot it returns, and pop.                     *)

Front ==
  /\ consumer = "idle"
  /\ read # write
  /\ consumer' = "sequence"
  /\ UNCHANGED <<slots, read, write, producer, pushing, got>>

ReadSequence ==
  /\ consumer = "sequence"
  /\ got' = [got EXCEPT !.sequence = slots[read].sequence]
  /\ consumer' = "samples"
  /\ UNCHANGED <<slots, read, write, producer, pushing>>

ReadSamples ==
  /\ consumer = "samples"
  /\ got' = [got EXCEPT !.samples = slots[read].samples]
  /\ consumer' = "done"
  /\ UNCHANGED <<slots, read, write, producer, pushing>>

\* The frame is of a later sequence number: it stays queued.
LeaveFrame ==
  /\ consumer = "samples"
  /\ consumer' = "idle"
  /\ UNCHANGED <<slots, read, write, producer, pushing, got>>

\* pop() looks again whether the queue is empty.  A stale frame is popped as
\* soon as its sequence number is known.
Pop ==
  /\ consumer \in {"samples", "done"}
  /\ read # write
  /\ read' = increment(read)
  /\ consumer' = "idle"
  /\ UNCHANGED <<slots, write, producer, pushing, got>>

-----------------------------------------------------------------------------
Produce ==
  \/ \E frame \in Frames : BeginPush(frame)
  \/ WriteSequence
  \/ WriteSamples
  \/ Publish

Consume == Front \/ ReadSequence \/ ReadSamples \/ LeaveFrame \/ Pop

Next == Configure \/ Produce \/ Consume

Spec == Init /\ [][Next]_vars

-----------------------------------------------------------------------------
(* Properties.                                                             *)

\* Every variable has its type.
TypeOK ==
  /\ slots \in [Indices -> Slot]
  /\ read \in Indices
  /\ write \in Indices
  /\ producer \in {"idle", "sequence", "samples", "publish"}
  /\ pushing \in Frames \cup {Blank}
  /\ consumer \in {"idle", "sequence", "samples", "done"}
  /\ got \in Slot

\* The number of published frames, and the slot of the k-th oldest.
Size == IF read <= write THEN write - read ELSE write + Slots - read
Position(k) ==
  IF read + k - 1 < Slots THEN read + k - 1 ELSE read + k - 1 - Slots

\* The two threads never touch one slot: the slot the producer fills is not
\* among those published, and the one the consumer reads is.
SlotsAreExclusive ==
  /\ producer # "idle" => \A k \in 1..Size : Position(k) # write
  /\ consumer # "idle" => Size > 0

\* What a published slot holds is one frame.
PublishedIsWhole ==
  \A k \in 1..Size :
    /\ slots[Position(k)].sequence \in Frames
    /\ slots[Position(k)].sequence = slots[Position(k)].samples

\* The ring implements the bounded FIFO of kAsyncQueueCapacity frames.
Queued == [k \in 1..Size |-> slots[Position(k)].sequence]
Held ==
  IF consumer # "done" THEN Blank
  ELSE IF got.sequence = got.samples THEN got.sequence ELSE Torn
Fifo == INSTANCE BoundedFifo
          WITH Nothing <- Blank, Capacity <- Slots - 1,
               queue <- Queued, held <- Held
ImplementsFifo == Fifo!Spec

=============================================================================
