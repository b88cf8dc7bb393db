---------------------------- MODULE HandoverProofs ----------------------------
(***************************************************************************)
(* Proofs about the three ways an audio thread hands on what it has without *)
(* ever waiting: SpscQueue, for every number of slots and every set of      *)
(* frames; TelemetryBus, for any number of plug-in instances, stops and     *)
(* ends of the audio engine; and DiagnosticLog, for any number of sessions  *)
(* and snapshots.                                                          *)
(***************************************************************************)
EXTENDS SpscQueue, TelemetryBus, DiagnosticLog, SequenceTheorems, TLAPS

-----------------------------------------------------------------------------
(* SpscQueue: its types, the exclusive use of slots by the two threads, the *)
(* wholeness of published frames, and the implementation of BoundedFifo.    *)

\* The slots between read_ and write_, going round.
Occupied(i) ==
  IF read <= write THEN read <= i /\ i < write ELSE read <= i \/ i < write

\* The inductive invariant: besides the types, what each thread may rely on
\* while it is inside a slot, and the content of the published slots.
IInv ==
  /\ TypeOK
  /\ producer # "idle" => pushing \in Frames /\ increment(write) # read
  /\ consumer # "idle" => read # write
  /\ consumer \in {"samples", "done"} => got.sequence = slots[read].sequence
  /\ consumer = "done" => got.samples = slots[read].samples
  /\ \A i \in Indices : Occupied(i) =>
        slots[i].sequence \in Frames /\ slots[i].sequence = slots[i].samples
  /\ producer \in {"samples", "publish"} => slots[write].sequence = pushing
  /\ producer = "publish" => slots[write].samples = pushing

LEMMA IncrementType ==
  ASSUME NEW i \in Indices
  PROVE  increment(i) \in Indices
BY SlotsAssumption DEF Indices, increment

\* One step of either thread keeps what the threads rely on.
LEMMA IInvStep == IInv /\ [Next]_vars => IInv'
<1> SUFFICES ASSUME IInv, [Next]_vars PROVE IInv'
  OBVIOUS
<1> USE SlotsAssumption, FramesAssumption
<1>1. ASSUME Configure PROVE IInv'
  BY <1>1 DEF IInv, TypeOK, Configure, Indices, Slot, BlankSlot, Occupied
<1>2. ASSUME NEW frame \in Frames, BeginPush(frame) PROVE IInv'
  BY <1>2 DEF IInv, TypeOK, BeginPush, HasRoom, Indices, Slot, Occupied,
              increment
<1>3. ASSUME WriteSequence PROVE IInv'
  <2>1. ~Occupied(write)
    BY DEF Occupied, IInv, TypeOK, Indices
  <2>2. consumer # "idle" => read # write
    BY DEF IInv
  <2>. QED
    BY <1>3, <2>1, <2>2
       DEF IInv, TypeOK, WriteSequence, Indices, Slot, Occupied, increment
<1>4. ASSUME WriteSamples PROVE IInv'
  <2>1. ~Occupied(write)
    BY DEF Occupied, IInv, TypeOK, Indices
  <2>. QED
    BY <1>4, <2>1
       DEF IInv, TypeOK, WriteSamples, Indices, Slot, Occupied, increment
<1>5. ASSUME Publish PROVE IInv'
  <2>1. \A i \in Indices : Occupied(i)' => Occupied(i) \/ i = write
    BY <1>5 DEF Publish, Occupied, IInv, TypeOK, Indices, increment
  <2>2. TypeOK' /\ (consumer # "idle" => read # write)'
    BY <1>5, IncrementType DEF Publish, IInv, TypeOK
  <2>. QED
    BY <1>5, <2>1, <2>2 DEF Publish, IInv, TypeOK, Indices
<1>6. ASSUME Front PROVE IInv'
  BY <1>6 DEF IInv, TypeOK, Front, Indices, Slot, Occupied, increment
<1>7. ASSUME ReadSequence PROVE IInv'
  BY <1>7 DEF IInv, TypeOK, ReadSequence, Indices, Slot, Occupied, increment
<1>8. ASSUME ReadSamples PROVE IInv'
  BY <1>8 DEF IInv, TypeOK, ReadSamples, Indices, Slot, Occupied, increment
<1>9. ASSUME LeaveFrame PROVE IInv'
  BY <1>9 DEF IInv, TypeOK, LeaveFrame, Indices, Slot, Occupied, increment
<1>10. ASSUME Pop PROVE IInv'
  <2>1. \A i \in Indices : Occupied(i)' => Occupied(i)
    BY <1>10 DEF Pop, Occupied, IInv, TypeOK, Indices, increment
  <2>2. producer # "idle" => (increment(write) # read)'
    BY <1>10 DEF Pop, IInv, TypeOK, Indices, increment
  <2>3. TypeOK'
    BY <1>10, IncrementType DEF Pop, IInv, TypeOK
  <2>. QED
    BY <1>10, <2>1, <2>2, <2>3 DEF Pop, IInv, TypeOK, Indices
<1>11. CASE UNCHANGED vars
  BY <1>11 DEF vars, IInv, TypeOK, Indices, Slot, Occupied, increment
<1>. QED
  BY <1>1, <1>2, <1>3, <1>4, <1>5, <1>6, <1>7, <1>8, <1>9, <1>10, <1>11
     DEF Next, Produce, Consume

LEMMA IInvInit == Init => IInv
BY SlotsAssumption, FramesAssumption
   DEF Init, IInv, TypeOK, Indices, Slot, BlankSlot, Occupied

THEOREM InductiveInvariant == Spec => []IInv
BY IInvInit, IInvStep, PTL DEF Spec

\* The k-th oldest published frame is in an occupied slot.
LEMMA PositionOccupied ==
  ASSUME IInv, NEW k \in 1..Size
  PROVE  Position(k) \in Indices /\ Occupied(Position(k))
BY SlotsAssumption DEF IInv, TypeOK, Indices, Position, Occupied, Size

\* Type correctness of the queue, whatever its size.
THEOREM TypeCorrectness == Spec => []TypeOK
<1>1. IInv => TypeOK
  BY DEF IInv
<1>. QED
  BY <1>1, InductiveInvariant, PTL

\* The audio thread and the GPU worker never touch one slot at the same time.
THEOREM Exclusion == Spec => []SlotsAreExclusive
<1>1. IInv => SlotsAreExclusive
  <2> SUFFICES ASSUME IInv PROVE SlotsAreExclusive
    OBVIOUS
  <2>1. ~Occupied(write)
    BY DEF Occupied, IInv, TypeOK, Indices
  <2>2. consumer # "idle" => Size > 0
    BY SlotsAssumption DEF IInv, TypeOK, Indices, Size
  <2>. QED
    BY <2>1, <2>2, PositionOccupied DEF SlotsAreExclusive
<1>. QED
  BY <1>1, InductiveInvariant, PTL

\* A published slot holds one whole frame.
THEOREM Wholeness == Spec => []PublishedIsWhole
<1>1. IInv => PublishedIsWhole
  BY PositionOccupied DEF IInv, PublishedIsWhole
<1>. QED
  BY <1>1, InductiveInvariant, PTL

-----------------------------------------------------------------------------
(* Refinement: the published slots, oldest first, are a bounded FIFO.      *)

LEMMA SizeType ==
  ASSUME IInv
  PROVE  Size \in 0..(Slots - 1)
BY SlotsAssumption DEF IInv, TypeOK, Indices, Size

LEMMA QueuedType ==
  ASSUME IInv
  PROVE  /\ Queued \in Seq(Frames)
         /\ Len(Queued) = Size
         /\ DOMAIN Queued = 1..Size
<1>1. \A k \in 1..Size : slots[Position(k)].sequence \in Frames
  BY PositionOccupied DEF IInv
<1>2. Size \in Nat
  BY SizeType, SlotsAssumption
<1>. QED
  BY <1>1, <1>2 DEF Queued

\* Append and Tail, element by element.
LEMMA AppendByElements ==
  ASSUME NEW S, NEW q \in Seq(S), NEW e \in S, NEW n \in Nat, Len(q) = n
  PROVE  Append(q, e) = [k \in 1..(n + 1) |-> IF k = n + 1 THEN e ELSE q[k]]
<1> DEFINE t == [k \in 1..(n + 1) |-> IF k = n + 1 THEN e ELSE q[k]]
<1>1. t \in Seq(S) /\ Len(t) = n + 1
  <2>1. \A k \in 1..n : q[k] \in S
    OBVIOUS
  <2>. QED
    BY <2>1, IsASeq
<1>2. Append(q, e) \in Seq(S) /\ Len(Append(q, e)) = n + 1
  OBVIOUS
<1>3. \A k \in 1..(n + 1) : Append(q, e)[k] = t[k]
  OBVIOUS
<1>. QED
  BY <1>1, <1>2, <1>3, SeqEqual

LEMMA TailByElements ==
  ASSUME NEW S, NEW q \in Seq(S), NEW n \in Nat, Len(q) = n, n > 0
  PROVE  q # <<>> /\ Tail(q) = [k \in 1..(n - 1) |-> q[k + 1]]
<1> DEFINE t == [k \in 1..(n - 1) |-> q[k + 1]]
<1>1. q # <<>>
  OBVIOUS
<1>2. t \in Seq(S) /\ Len(t) = n - 1
  <2>1. \A k \in 1..(n - 1) : q[k + 1] \in S
    OBVIOUS
  <2>. QED
    BY <2>1, IsASeq
<1>3. /\ Tail(q) \in Seq(S)
      /\ Len(Tail(q)) = n - 1
      /\ \A k \in 1..(n - 1) : Tail(q)[k] = t[k]
  BY <1>1, HeadTailProperties
<1>. QED
  BY <1>1, <1>2, <1>3, SeqEqual

\* Publish appends the frame the producer has written.
LEMMA PublishAppends ==
  ASSUME IInv, Publish
  PROVE  Len(Queued) < Slots - 1 /\ Queued' = Append(Queued, pushing)
<1> USE SlotsAssumption
<1>1. Size < Slots - 1 /\ Size' = Size + 1
  BY DEF IInv, TypeOK, Publish, Indices, Size, increment
<1>2. \A k \in 1..Size : Position(k)' = Position(k)
  BY DEF Position, Publish
<1>3. \A k \in Nat : k = Size + 1 => Position(k)' = write
  BY DEF IInv, TypeOK, Publish, Indices, Size, Position
<1>4. slots[write].sequence = pushing
  BY DEF IInv, Publish
<1>5. Size \in Nat
  BY SizeType
<1>6. Queued' = [k \in 1..(Size + 1) |-> slots[Position(k)'].sequence]
  BY <1>1 DEF Queued, Publish
<1>7. ASSUME NEW k \in 1..(Size + 1)
      PROVE  slots[Position(k)'].sequence
               = IF k = Size + 1 THEN pushing ELSE Queued[k]
  BY <1>2, <1>3, <1>4, <1>5 DEF Queued
<1>8. Queued' = [k \in 1..(Size + 1) |->
                   IF k = Size + 1 THEN pushing ELSE Queued[k]]
  BY <1>6, <1>7
<1>9. pushing \in Frames
  BY DEF IInv, Publish
<1>. QED
  BY <1>1, <1>5, <1>8, <1>9, QueuedType, AppendByElements

\* Pop removes the oldest frame.
LEMMA PopTakesHead ==
  ASSUME IInv, Pop
  PROVE  Queued # <<>> /\ Queued' = Tail(Queued)
<1> USE SlotsAssumption
<1>1. Size > 0 /\ Size' = Size - 1
  BY DEF IInv, TypeOK, Pop, Indices, Size, increment
<1>2. \A k \in 1..(Size - 1) : Position(k)' = Position(k + 1)
  BY <1>1, SizeType DEF IInv, TypeOK, Pop, Indices, Position, increment
<1>3. Size \in Nat
  BY SizeType
<1>4. Queued' = [k \in 1..(Size - 1) |-> slots[Position(k)'].sequence]
  BY <1>1 DEF Queued, Pop
<1>5. ASSUME NEW k \in 1..(Size - 1)
      PROVE  slots[Position(k)'].sequence = Queued[k + 1]
  BY <1>2, <1>3 DEF Queued
<1>6. Queued' = [k \in 1..(Size - 1) |-> Queued[k + 1]]
  BY <1>4, <1>5
<1>. QED
  BY <1>1, <1>3, <1>6, QueuedType, TailByElements

\* Writing the unpublished slot leaves the published ones alone.
LEMMA WritingKeepsQueue ==
  ASSUME IInv, WriteSequence \/ WriteSamples
  PROVE  Queued' = Queued
<1>1. ~Occupied(write)
  BY DEF Occupied, IInv, TypeOK, Indices
<1>2. \A k \in 1..Size : Position(k) \in Indices /\ Position(k) # write
  BY <1>1, PositionOccupied
<1>3. \A i \in Indices : i # write => slots'[i] = slots[i]
  BY DEF WriteSequence, WriteSamples, IInv, TypeOK
<1>4. Size' = Size /\ \A k \in 1..Size : Position(k)' = Position(k)
  BY DEF WriteSequence, WriteSamples, Size, Position
<1>. QED
  BY <1>2, <1>3, <1>4 DEF Queued

\* While the consumer reads, the oldest frame is the one in its slot.
LEMMA HeadIsRead ==
  ASSUME IInv, read # write
  PROVE  Queued # <<>> /\ Head(Queued) = slots[read].sequence
<1>1. Size \in Nat /\ Size > 0
  BY SlotsAssumption DEF IInv, TypeOK, Indices, Size
<1>2. Position(1) = read
  BY SlotsAssumption DEF IInv, TypeOK, Indices, Position
<1>. QED
  BY <1>1, <1>2, QueuedType DEF Queued

LEMMA RefinementInit == Init => Fifo!Init
<1> SUFFICES ASSUME Init PROVE Queued = <<>> /\ Held = Blank
  BY DEF Fifo!Init
<1>1. Size = 0
  BY SlotsAssumption DEF Init, Size
<1>. QED
  BY <1>1 DEF Queued, Held, Init

LEMMA RefinementStep ==
  ASSUME IInv, IInv', [Next]_vars
  PROVE  [Fifo!Next]_(Fifo!vars)
<1> DEFINE Stutter == Queued' = Queued /\ Held' = Held
<1>s. Stutter => UNCHANGED Fifo!vars
  BY DEF Fifo!vars
<1>1. ASSUME Configure PROVE Fifo!Clear
  <2>1. Size' = 0
    BY <1>1, SlotsAssumption DEF Configure, Size
  <2>2. Queued' = <<>>
    BY <2>1 DEF Queued
  <2>. QED
    BY <1>1, <2>2 DEF Fifo!Clear, Held, Configure
<1>2. ASSUME NEW frame \in Frames, BeginPush(frame) PROVE Stutter
  BY <1>2 DEF BeginPush, Queued, Size, Position, Held
<1>3. ASSUME WriteSequence \/ WriteSamples PROVE Stutter
  BY <1>3, WritingKeepsQueue DEF WriteSequence, WriteSamples, Held
<1>4. ASSUME Publish PROVE Fifo!Push(pushing) /\ pushing \in Frames
  <2>1. pushing \in Frames
    BY <1>4 DEF IInv, Publish
  <2>2. Held' = Held
    BY <1>4 DEF Publish, Held
  <2>. QED
    BY <1>4, <2>1, <2>2, PublishAppends DEF Fifo!Push
<1>5. ASSUME Front \/ ReadSequence PROVE Stutter
  BY <1>5 DEF Front, ReadSequence, Queued, Size, Position, Held
<1>6. ASSUME ReadSamples PROVE Fifo!Read
  <2>1. Queued' = Queued
    BY <1>6 DEF ReadSamples, Queued, Size, Position
  <2>2. read # write /\ Queued # <<>> /\ Head(Queued) = slots[read].sequence
    BY <1>6, HeadIsRead DEF IInv, ReadSamples
  <2>3. Occupied(read)
    BY <2>2, SlotsAssumption DEF Occupied, IInv, TypeOK, Indices
  <2>4. slots[read].sequence = slots[read].samples
    BY <2>3 DEF IInv, TypeOK
  <2>5. got'.sequence = slots[read].sequence /\ got'.samples = slots[read].samples
    BY <1>6 DEF IInv, TypeOK, Slot, ReadSamples
  <2>6. Held' = slots[read].sequence
    BY <1>6, <2>4, <2>5 DEF Held, ReadSamples
  <2>. QED
    BY <2>1, <2>2, <2>6 DEF Fifo!Read
<1>7. ASSUME LeaveFrame PROVE Fifo!Release
  <2>1. Queued' = Queued
    BY <1>7 DEF LeaveFrame, Queued, Size, Position
  <2>. QED
    BY <1>7, <2>1 DEF LeaveFrame, Held, Fifo!Release
<1>8. ASSUME Pop PROVE Fifo!Pop
  <2>1. Held' = Blank
    BY <1>8 DEF Pop, Held
  <2>. QED
    BY <1>8, <2>1, PopTakesHead DEF Fifo!Pop
<1>9. CASE UNCHANGED vars
  <2>1. Stutter
    BY <1>9 DEF vars, Queued, Size, Position, Held
  <2>. QED
    BY <2>1, <1>s
<1>. QED
  BY <1>s, <1>1, <1>2, <1>3, <1>4, <1>5, <1>6, <1>7, <1>8, <1>9
     DEF Next, Produce, Consume, Fifo!Next

\* The lock-free ring implements the bounded FIFO of one slot less: no frame is
\* lost, duplicated, reordered or seen torn.
THEOREM Refinement == Spec => ImplementsFifo
<1>1. IInv /\ IInv' /\ [Next]_vars => [Fifo!Next]_(Fifo!vars)
  BY RefinementStep
<1>. QED
  BY <1>1, RefinementInit, InductiveInvariant, PTL
     DEF Spec, ImplementsFifo, Fifo!Spec

-----------------------------------------------------------------------------
(* TelemetryBus: the editor never shows a mixture of two snapshots, as long *)
(* as the sequence lock has not been disturbed.                             *)

WriterStates == {"closed", "failed", "created", "open"} \cup Writing
ReaderStates == {"closed", "idle", "before", "first", "second", "after"}

\* The mapping exists while anyone has it, and its header is written before
\* anyone but its creator has.
MappingInv ==
  /\ \A w \in Writers : HasHandle(w) => exists
  /\ ReaderHasHandle => exists /\ valid
  /\ \A w \in Writers : instance[w] \in {"open"} \cup Writing => valid
  /\ \A w \in Writers : instance[w] = "created" => ~valid
  /\ \A v, w \in Writers : instance[v] = "created" /\ instance[w] = "created" => v = w

\* Undisturbed, one instance at a time publishes, the sequence is odd while it
\* does, and the two halves differ only between its two writes.
LockInv ==
  ~disturbed =>
    /\ \A v, w \in Writers : instance[v] \in Writing /\ instance[w] \in Writing => v = w
    /\ Publishing => sequence % 2 = 1
    /\ ~Publishing => sequence % 2 = 0
    /\ \A w \in Writers : instance[w] \in {"half", "done"} => first = writing[w]
    /\ (\A w \in Writers : instance[w] # "half") => first = second

\* An attempt in progress has seen the sequence even; while it has not changed
\* since, what was copied is what is there.
CopyInv ==
  /\ reader \in {"first", "second", "after"} =>
       before <= sequence /\ before % 2 = 0
  /\ ~disturbed /\ reader \in {"second", "after"} /\ before = sequence =>
       copied[1] = first
  /\ ~disturbed /\ reader = "after" /\ before = sequence =>
       copied[2] = second
  /\ ~disturbed /\ reader = "idle" => copied[1] = copied[2]

BusInv == BusTypeOK /\ MappingInv /\ LockInv /\ CopyInv

-----------------------------------------------------------------------------
LEMMA Parity ==
  ASSUME NEW n \in Nat
  PROVE  /\ n % 2 = 0 => (n + 1) % 2 = 1
         /\ n % 2 = 1 => (n + 1) % 2 = 0
         /\ n % 2 = 0 \/ n % 2 = 1
OBVIOUS

LEMMA InitBusInv == BusInit => BusInv
<1> SUFFICES ASSUME BusInit PROVE BusInv
  OBVIOUS
<1>1. BusTypeOK
  <2>1. attempt \in 0..Attempts /\ copied \in Nat \X Nat
    BY DEF BusInit, Attempts
  <2> QED
    BY <2>1 DEF BusInit, BusTypeOK, Writing
<1>3. MappingInv
  BY DEF BusInit, MappingInv, Writing, HasHandle, ReaderHasHandle
<1>2. LockInv /\ CopyInv
  BY DEF BusInit, LockInv, CopyInv, Publishing, Writing
<1> QED
  BY <1>1, <1>2, <1>3 DEF BusInv

\* A failed attempt leads to the next, or to the end of the poll.
LEMMA FailedAttempt ==
  ASSUME BusTypeOK, FailAttempt
  PROVE  /\ attempt' \in 0..Attempts /\ shown' \in Nat /\ exists' \in BOOLEAN
         /\ reader' \in ReaderStates
<1>1. attempt \in 0..Attempts /\ shown \in Nat /\ exists \in BOOLEAN
  BY DEF BusTypeOK
<1>2. WriterHasHandle \in BOOLEAN
  BY DEF WriterHasHandle
<1> QED
  BY <1>1, <1>2 DEF FailAttempt, Attempts, ReaderStates

\* Types are kept by every step.
LEMMA BusTypesStep == BusTypeOK /\ [BusNext]_busVars => BusTypeOK'
<1> SUFFICES ASSUME BusTypeOK, [BusNext]_busVars PROVE BusTypeOK'
  OBVIOUS
<1> USE DEF BusTypeOK, mappingVars, instanceVars, readerVars, WriterStates, Writing
<1>1. ASSUME NEW w \in Writers, Create(w) PROVE BusTypeOK'
  BY <1>1 DEF Create
<1>2. ASSUME NEW w \in Writers, Initialize(w) PROVE BusTypeOK'
  BY <1>2 DEF Initialize
<1>3. ASSUME NEW w \in Writers, Attach(w) PROVE BusTypeOK'
  BY <1>3 DEF Attach
<1>4. ASSUME NEW w \in Writers, BeginPublish(w) PROVE BusTypeOK'
  BY <1>4 DEF BeginPublish
<1>5. ASSUME NEW w \in Writers, WriteFirst(w) PROVE BusTypeOK'
  BY <1>5 DEF WriteFirst
<1>6. ASSUME NEW w \in Writers, WriteSecond(w) PROVE BusTypeOK'
  BY <1>6 DEF WriteSecond
<1>7. ASSUME NEW w \in Writers, EndPublish(w) PROVE BusTypeOK'
  BY <1>7 DEF EndPublish
<1>8. ASSUME NEW w \in Writers, CloseWriter(w) PROVE BusTypeOK'
  BY <1>8 DEF CloseWriter
<1>9. CASE EngineDies
  BY <1>9 DEF EngineDies
<1>10. CASE TimePasses
  BY <1>10 DEF TimePasses
<1>11. CASE Poll
  BY <1>11 DEF Poll, Attempts, ReaderStates
<1>12. CASE ReadBefore
  <2>1. /\ attempt' \in 0..Attempts /\ shown' \in Nat /\ exists' \in BOOLEAN
        /\ reader' \in ReaderStates
    BY <1>12, FailedAttempt DEF ReadBefore, ReaderStates
  <2> QED
    BY <1>12, <2>1 DEF ReadBefore, ReaderStates
<1>13. CASE CopyFirst
  BY <1>13 DEF CopyFirst, ReaderStates
<1>14. CASE CopySecond
  BY <1>14 DEF CopySecond, ReaderStates
<1>15. CASE ReadAfter
  <2>1. /\ attempt' \in 0..Attempts /\ shown' \in Nat /\ exists' \in BOOLEAN
        /\ reader' \in ReaderStates
    BY <1>15, FailedAttempt DEF ReadAfter, ReaderStates, Attempts
  <2> QED
    BY <1>15, <2>1 DEF ReadAfter, ReaderStates
<1>16. CASE UNCHANGED busVars
  BY <1>16 DEF busVars
<1> QED
  BY <1>1, <1>2, <1>3, <1>4, <1>5, <1>6, <1>7, <1>8, <1>9, <1>10, <1>11,
     <1>12, <1>13, <1>14, <1>15, <1>16
     DEF BusNext, Write, Stop, Read

\* Who has the mapping open.
LEMMA MappingStep == BusTypeOK /\ MappingInv /\ [BusNext]_busVars => MappingInv'
<1> SUFFICES ASSUME BusTypeOK, MappingInv, [BusNext]_busVars PROVE MappingInv'
  OBVIOUS
<1> USE DEF BusTypeOK, MappingInv, mappingVars, instanceVars, readerVars, HasHandle,
            ReaderHasHandle, WriterStates, Writing
<1>1. ASSUME NEW w \in Writers, Create(w) PROVE MappingInv'
  BY <1>1 DEF Create
<1>2. ASSUME NEW w \in Writers, Initialize(w) PROVE MappingInv'
  BY <1>2 DEF Initialize
<1>3. ASSUME NEW w \in Writers, Attach(w) PROVE MappingInv'
  BY <1>3 DEF Attach
<1>4. ASSUME NEW w \in Writers, BeginPublish(w) PROVE MappingInv'
  BY <1>4 DEF BeginPublish
<1>5. ASSUME NEW w \in Writers, WriteFirst(w) PROVE MappingInv'
  BY <1>5 DEF WriteFirst
<1>6. ASSUME NEW w \in Writers, WriteSecond(w) PROVE MappingInv'
  BY <1>6 DEF WriteSecond
<1>7. ASSUME NEW w \in Writers, EndPublish(w) PROVE MappingInv'
  BY <1>7 DEF EndPublish
<1>8. ASSUME NEW w \in Writers, CloseWriter(w) PROVE MappingInv'
  BY <1>8 DEF CloseWriter
<1>9. CASE EngineDies \/ TimePasses
  BY <1>9 DEF EngineDies, TimePasses, Publishing
<1>10. CASE Poll \/ CopyFirst \/ CopySecond
  BY <1>10 DEF Poll, CopyFirst, CopySecond, ReaderStates
<1>11. CASE ReadBefore \/ ReadAfter
  <2>1. UNCHANGED <<instance, valid>>
    BY <1>11 DEF ReadBefore, ReadAfter
  <2>2. \/ reader' # "closed" /\ UNCHANGED exists
        \/ reader' = "closed" /\ exists' = WriterHasHandle
    BY <1>11 DEF ReadBefore, ReadAfter, FailAttempt
  <2>3. ReaderHasHandle
    BY <1>11 DEF ReadBefore, ReadAfter
  <2> QED
    BY <2>1, <2>2, <2>3 DEF WriterHasHandle
<1>12. CASE UNCHANGED busVars
  BY <1>12 DEF busVars
<1> QED
  BY <1>1, <1>2, <1>3, <1>4, <1>5, <1>6, <1>7, <1>8, <1>9, <1>10, <1>11,
     <1>12
     DEF BusNext, Write, Stop, Read

\* The lock and the halves.
LEMMA LockStep == BusTypeOK /\ MappingInv /\ LockInv /\ [BusNext]_busVars => LockInv'
<1> SUFFICES ASSUME BusTypeOK, MappingInv, LockInv, [BusNext]_busVars, ~disturbed' PROVE LockInv'
  BY DEF LockInv
<1> USE DEF BusTypeOK, MappingInv, LockInv, mappingVars, instanceVars, readerVars, HasHandle,
            Publishing, WriterStates, Writing
<1>1. ASSUME NEW w \in Writers, Create(w) PROVE LockInv'
  BY <1>1, Parity DEF Create
<1>2. ASSUME NEW w \in Writers, Initialize(w) PROVE LockInv'
  BY <1>2, Parity DEF Initialize
<1>3. ASSUME NEW w \in Writers, Attach(w) PROVE LockInv'
  BY <1>3, Parity DEF Attach
<1>4. ASSUME NEW w \in Writers, BeginPublish(w) PROVE LockInv'
  BY <1>4, Parity DEF BeginPublish
<1>5. ASSUME NEW w \in Writers, WriteFirst(w) PROVE LockInv'
  BY <1>5, Parity DEF WriteFirst
<1>6. ASSUME NEW w \in Writers, WriteSecond(w) PROVE LockInv'
  BY <1>6, Parity DEF WriteSecond
<1>7. ASSUME NEW w \in Writers, EndPublish(w) PROVE LockInv'
  BY <1>7, Parity DEF EndPublish
<1>8. ASSUME NEW w \in Writers, CloseWriter(w) PROVE LockInv'
  BY <1>8, Parity DEF CloseWriter
<1>9. CASE EngineDies \/ TimePasses
  BY <1>9 DEF EngineDies, TimePasses, Publishing
<1>10. CASE Read
  BY <1>10
     DEF Read, Poll, ReadBefore, CopyFirst, CopySecond, ReadAfter,
         FailAttempt
<1>11. CASE UNCHANGED busVars
  BY <1>11 DEF busVars
<1> QED
  BY <1>1, <1>2, <1>3, <1>4, <1>5, <1>6, <1>7, <1>8, <1>9, <1>10, <1>11
     DEF BusNext, Write, Stop

\* The reader's copy.
LEMMA CopyStep ==
  BusTypeOK /\ MappingInv /\ LockInv /\ CopyInv /\ [BusNext]_busVars => CopyInv'
<1> SUFFICES ASSUME BusTypeOK, MappingInv, LockInv, CopyInv, [BusNext]_busVars PROVE CopyInv'
  OBVIOUS
<1> USE DEF BusTypeOK, MappingInv, CopyInv, LockInv, mappingVars, instanceVars, readerVars, HasHandle,
            ReaderHasHandle, Publishing, WriterStates, Writing, ReaderStates
<1>1. ASSUME NEW w \in Writers, Create(w) PROVE CopyInv'
  BY <1>1, Parity DEF Create
<1>2. ASSUME NEW w \in Writers, Initialize(w) PROVE CopyInv'
  BY <1>2, Parity DEF Initialize
<1>3. ASSUME NEW w \in Writers, Attach(w) PROVE CopyInv'
  BY <1>3, Parity DEF Attach
<1>4. ASSUME NEW w \in Writers, BeginPublish(w) PROVE CopyInv'
  BY <1>4, Parity DEF BeginPublish
<1>5. ASSUME NEW w \in Writers, WriteFirst(w) PROVE CopyInv'
  BY <1>5, Parity DEF WriteFirst
<1>6. ASSUME NEW w \in Writers, WriteSecond(w) PROVE CopyInv'
  BY <1>6, Parity DEF WriteSecond
<1>7. ASSUME NEW w \in Writers, EndPublish(w) PROVE CopyInv'
  BY <1>7, Parity DEF EndPublish
<1>8. ASSUME NEW w \in Writers, CloseWriter(w) PROVE CopyInv'
  BY <1>8, Parity DEF CloseWriter
<1>9. CASE EngineDies \/ TimePasses
  BY <1>9 DEF EngineDies, TimePasses, Publishing
<1>10. CASE Poll
  BY <1>10, Parity DEF Poll, FailAttempt, Accepted
<1>11. CASE ReadBefore
  <2>1. UNCHANGED <<sequence, first, second, copied, disturbed>> /\ before' = sequence
    BY <1>11 DEF ReadBefore
  <2>2. \/ reader' = "first" /\ sequence % 2 # 1
        \/ reader' \in {"before", "closed"}
    BY <1>11 DEF ReadBefore, FailAttempt
  <2> QED
    BY <2>1, <2>2, Parity
<1>12. CASE CopyFirst
  BY <1>12, Parity DEF CopyFirst, FailAttempt, Accepted
<1>13. CASE CopySecond
  BY <1>13, Parity DEF CopySecond, FailAttempt, Accepted
<1>14. CASE ReadAfter
  BY <1>14, Parity DEF ReadAfter, FailAttempt, Accepted
<1>15. CASE UNCHANGED busVars
  BY <1>15 DEF busVars
<1> QED
  BY <1>1, <1>2, <1>3, <1>4, <1>5, <1>6, <1>7, <1>8, <1>9, <1>10, <1>11,
     <1>12, <1>13, <1>14, <1>15
     DEF BusNext, Write, Stop, Read

LEMMA StepBusInv == BusInv /\ [BusNext]_busVars => BusInv'
BY BusTypesStep, MappingStep, LockStep, CopyStep DEF BusInv

\* The mapping, the writers and the reader keep their types; the reader gives up
\* a poll after the fourth attempt.
THEOREM BusTypeCorrect == BusSpec => []BusTypeOK
<1>1. BusInv => BusTypeOK
  BY DEF BusInv
<1> QED
  BY <1>1, InitBusInv, StepBusInv, PTL DEF BusSpec

\* The editor shows whole snapshots, for any number of instances, publications
\* and restarts, while the lock of the mapping is not disturbed.
THEOREM WholeSnapshot == BusSpec => []SnapshotIsWhole
<1>1. BusSpec => []BusInv
  BY InitBusInv, StepBusInv, PTL DEF BusSpec
<1>2. BusInv => SnapshotIsWhole
  BY DEF BusInv, CopyInv, SnapshotIsWhole
<1> QED
  BY <1>1, <1>2, PTL

-----------------------------------------------------------------------------
(* DiagnosticLog.  close() destroys the event without the mutex that        *)
(* publish() holds while it signals it; what makes this right is that       *)
(* close() has held the mutex once in between, to set stop.  And an error   *)
(* published last reaches the log: it is pending, in the writer's hands or  *)
(* written, and the writer looks at stop and at the pending snapshot in one *)
(* critical section.                                                        *)

\* A publication in progress has found the log open.
PublisherInv == publisher \in {"idle", "signalling"}
             /\ (publisher = "signalling" => host = "open")

\* Stop is set outside an open log, but for a log that was never opened and
\* has no event.
StopInv ==
  /\ host \in {"closed", "creating", "resetting", "open", "signalling",
               "joining", "clearing"}
  /\ host \notin {"closed", "open"} => stop
  /\ host = "closed" => event = "null"

\* From its creation until the writer is joined, the event exists.
EventInv ==
  host \in {"resetting", "open", "signalling", "joining"} => event = "valid"

EInv == PublisherInv /\ StopInv /\ EventInv

LEMMA InitEInv == LogInit => EInv
BY DEF LogInit, EInv, PublisherInv, StopInv, EventInv

\* close() and open() take the mutex to leave and to enter the open state.
LEMMA HostEInv == EInv /\ (Open \/ Close) => EInv'
<1> SUFFICES ASSUME EInv, Open \/ Close PROVE EInv'
  OBVIOUS
<1> USE DEF EInv, PublisherInv, StopInv, EventInv, publisherVars
<1>1. CASE BeginOpen
  BY <1>1 DEF BeginOpen, MutexFree
<1>2. CASE CreateEvent
  BY <1>2 DEF CreateEvent
<1>3. CASE FinishOpen
  BY <1>3 DEF FinishOpen, MutexFree
<1>4. CASE BeginClose
  BY <1>4 DEF BeginClose, MutexFree
<1>5. CASE SignalWriter
  BY <1>5 DEF SignalWriter
<1>6. CASE CloseEvent
  BY <1>6 DEF CloseEvent
<1>7. CASE ClearEvent
  BY <1>7 DEF ClearEvent
<1> QED
  BY <1>1, <1>2, <1>3, <1>4, <1>5, <1>6, <1>7 DEF Open, Close

\* The writer touches neither the event nor stop.
LEMMA WriterEInv == EInv /\ (WriterStep \/ TimeOut) => EInv'
<1> SUFFICES ASSUME EInv, WriterStep \/ TimeOut PROVE EInv'
  OBVIOUS
<1>1. UNCHANGED <<host, event, stop, publisher>>
  BY DEF WriterStep, OpenFile, WakeUp, TimeOut, TakeSnapshot, WriteLines,
         hostVars, publisherVars
<1> QED
  BY <1>1 DEF EInv, PublisherInv, StopInv, EventInv

LEMMA StepEInv == EInv /\ [LogNext]_logVars => EInv'
<1> SUFFICES ASSUME EInv, [LogNext]_logVars PROVE EInv'
  OBVIOUS
<1>1. CASE Open \/ Close
  BY <1>1, HostEInv
<1>2. ASSUME NEW status \in Statuses, PublishSnapshot(status) PROVE EInv'
  BY <1>2 DEF PublishSnapshot, Accepts, hostVars, EInv, PublisherInv, StopInv, EventInv
<1>3. CASE FinishPublish
  BY <1>3 DEF FinishPublish, hostVars, EInv, PublisherInv, StopInv, EventInv
<1>4. CASE WriterStep \/ TimeOut
  BY <1>4, WriterEInv
<1>5. CASE UNCHANGED logVars
  BY <1>5 DEF logVars, hostVars, publisherVars, EInv, PublisherInv, StopInv, EventInv
<1> QED
  BY <1>1, <1>2, <1>3, <1>4, <1>5 DEF LogNext

\* publish() never signals a destroyed or missing event, whatever the moments
\* of open() and close() it falls into, for any number of sessions.
THEOREM SignalledEvent == LogSpec => []EventIsValid
<1>1. LogSpec => []EInv
  BY InitEInv, StepEInv, PTL DEF LogSpec
<1>2. EInv => EventIsValid
  BY DEF EInv, PublisherInv, EventInv, EventIsValid
<1> QED
  BY <1>1, <1>2, PTL

-----------------------------------------------------------------------------
(* What the lines of a log tell.                                           *)

\* The error reported last in s is the status.
Tells(s, status) ==
  \E k \in 1..Len(s) :
    /\ s[k].kind = "error" /\ s[k].about.status = status
    /\ \A l \in 1..Len(s) : l > k => s[l].kind # "error"

Quiet(s) == \A k \in 1..Len(s) : s[k].kind # "error"
Ongoing(s) == \A k \in 1..Len(s) : s[k].kind # "stopped"
Own(s) == \A k \in 1..Len(s) :
            s[k].about = NoSnapshot \/ s[k].about.session = session

LEMMA NoLines == Quiet(<<>>) /\ Ongoing(<<>>) /\ Own(<<>>) /\ <<>> \in Seq(Line)
BY DEF Quiet, Ongoing, Own

LEMMA OneLine ==
  ASSUME NEW kind \in {"started", "setup", "error", "statistics", "stopped"},
         NEW what \in Snapshot
  PROVE  /\ <<About(kind, what)>> \in Seq(Line)
         /\ kind # "error" => Quiet(<<About(kind, what)>>)
         /\ kind # "stopped" => Ongoing(<<About(kind, what)>>)
         /\ what = NoSnapshot \/ what.session = session
              => Own(<<About(kind, what)>>)
         /\ kind = "error" => Tells(<<About(kind, what)>>, what.status)
<1>1. <<About(kind, what)>> \in Seq(Line)
  BY DEF About, Line
<1>2. /\ Len(<<About(kind, what)>>) = 1
      /\ <<About(kind, what)>>[1].kind = kind
      /\ <<About(kind, what)>>[1].about = what
  BY DEF About
<1>3. 1..1 = {1}
  OBVIOUS
<1> QED
  BY <1>1, <1>2, <1>3 DEF Quiet, Ongoing, Own, Tells

\* The lines of s \o t are those of s and those of t.
LEMMA JoinedLines ==
  ASSUME NEW s \in Seq(Line), NEW t \in Seq(Line)
  PROVE  /\ s \o t \in Seq(Line)
         /\ Len(s \o t) = Len(s) + Len(t)
         /\ \A k \in 1..Len(s) : (s \o t)[k] = s[k]
         /\ \A k \in 1..Len(t) : (s \o t)[Len(s) + k] = t[k]
         /\ \A k \in 1..Len(s \o t) :
              \/ k \in 1..Len(s)
              \/ k - Len(s) \in 1..Len(t) /\ (s \o t)[k] = t[k - Len(s)]
OBVIOUS

LEMMA JoinedKinds ==
  ASSUME NEW s \in Seq(Line), NEW t \in Seq(Line)
  PROVE  /\ Quiet(s) /\ Quiet(t) => Quiet(s \o t)
         /\ Ongoing(s) /\ Ongoing(t) => Ongoing(s \o t)
         /\ Own(s) /\ Own(t) => Own(s \o t)
<1> DEFINE u == s \o t
<1>1. \A k \in 1..Len(u) :
        \/ k \in 1..Len(s) /\ u[k] = s[k]
        \/ \E l \in 1..Len(t) : u[k] = t[l]
  BY JoinedLines
<1> HIDE DEF u
<1>2. /\ Quiet(s) /\ Quiet(t) => Quiet(u)
      /\ Ongoing(s) /\ Ongoing(t) => Ongoing(u)
      /\ Own(s) /\ Own(t) => Own(u)
  BY <1>1 DEF Quiet, Ongoing, Own
<1> QED
  BY <1>2 DEF u

LEMMA JoinedQuiet ==
  ASSUME NEW s \in Seq(Line), NEW t \in Seq(Line), NEW status,
         Tells(s, status), Quiet(t)
  PROVE  Tells(s \o t, status)
<1> PICK k \in 1..Len(s) :
      /\ s[k].kind = "error" /\ s[k].about.status = status
      /\ \A l \in 1..Len(s) : l > k => s[l].kind # "error"
  BY DEF Tells
<1>1. k \in 1..Len(s \o t) /\ (s \o t)[k] = s[k]
  BY JoinedLines
<1>2. ASSUME NEW l \in 1..Len(s \o t), l > k
      PROVE  (s \o t)[l].kind # "error"
  <2>1. CASE l \in 1..Len(s)
    BY <1>2, <2>1, JoinedLines
  <2>2. CASE l - Len(s) \in 1..Len(t) /\ (s \o t)[l] = t[l - Len(s)]
    BY <2>2 DEF Quiet
  <2> QED
    BY <2>1, <2>2, JoinedLines
<1> QED
  BY <1>1, <1>2 DEF Tells

LEMMA JoinedLoud ==
  ASSUME NEW s \in Seq(Line), NEW t \in Seq(Line), NEW status,
         Tells(t, status)
  PROVE  Tells(s \o t, status)
<1> PICK k \in 1..Len(t) :
      /\ t[k].kind = "error" /\ t[k].about.status = status
      /\ \A l \in 1..Len(t) : l > k => t[l].kind # "error"
  BY DEF Tells
<1> DEFINE m == Len(s) + k
<1>1. m \in 1..Len(s \o t) /\ (s \o t)[m] = t[k]
  BY JoinedLines
<1>2. ASSUME NEW l \in 1..Len(s \o t), l > m
      PROVE  (s \o t)[l].kind # "error"
  <2>1. l - Len(s) \in 1..Len(t) /\ (s \o t)[l] = t[l - Len(s)]
    BY <1>2, JoinedLines
  <2> QED
    BY <1>2, <2>1
<1> QED
  BY <1>1, <1>2 DEF Tells

\* A snapshot's lines are about it and end in its error if that is new, and
\* are quiet otherwise.
LEMMA LinesTell ==
  ASSUME NEW now \in Snapshot, now.session = session
  PROVE  /\ Lines(now) \in Seq(Line) /\ Ongoing(Lines(now)) /\ Own(Lines(now))
         /\ ErrorChanged(now, previous) => Tells(Lines(now), now.status)
         /\ ~ErrorChanged(now, previous) => Quiet(Lines(now))
<1> DEFINE a == IF last_statistics = 0 THEN <<About("setup", now)>> ELSE <<>>
           b == IF ErrorChanged(now, previous) THEN <<About("error", now)>>
                ELSE <<>>
           c == IF Statistics(now) # last_statistics
                THEN <<About("statistics", now)>> ELSE <<>>
<1>1. /\ a \in Seq(Line) /\ Quiet(a) /\ Ongoing(a) /\ Own(a)
      /\ c \in Seq(Line) /\ Quiet(c) /\ Ongoing(c) /\ Own(c)
  BY NoLines, OneLine
<1>2. /\ b \in Seq(Line) /\ Ongoing(b) /\ Own(b)
      /\ ErrorChanged(now, previous) => Tells(b, now.status)
      /\ ~ErrorChanged(now, previous) => Quiet(b)
  BY NoLines, OneLine
<1>3. Lines(now) = (a \o b) \o c
  BY DEF Lines
<1> HIDE DEF a, b, c
<1>4. /\ a \o b \in Seq(Line) /\ Ongoing(a \o b) /\ Own(a \o b)
      /\ ErrorChanged(now, previous) => Tells(a \o b, now.status)
      /\ ~ErrorChanged(now, previous) => Quiet(a \o b)
  BY <1>1, <1>2, JoinedLines, JoinedKinds, JoinedLoud
<1> DEFINE ab == a \o b
<1> HIDE DEF ab
<1>5. /\ ab \o c \in Seq(Line) /\ Ongoing(ab \o c) /\ Own(ab \o c)
      /\ ~ErrorChanged(now, previous) => Quiet(ab \o c)
  BY <1>1, <1>4, JoinedLines, JoinedKinds DEF ab
<1>6. ErrorChanged(now, previous) => Tells(ab \o c, now.status)
  BY <1>1, <1>4, JoinedQuiet DEF ab
<1> QED
  BY <1>3, <1>5, <1>6 DEF ab

-----------------------------------------------------------------------------
(* The way of an error from publish() to the log.                          *)

\* Types of what the argument speaks of.
LogTypes ==
  /\ writer \in {"none", "opening", "wait", "take", "write", "ended"}
  /\ stop \in BOOLEAN /\ has_pending \in BOOLEAN /\ stopping \in BOOLEAN
  /\ pending \in Snapshot /\ snapshot \in Snapshot
  /\ previous \in Snapshot /\ accepted \in Snapshot
  /\ log \in Seq(Line)
  /\ session \in Nat /\ published \in Nat /\ last_statistics \in Nat

\* The writer exists while the log is open or being closed; once it has seen
\* stop, stop stays.
WriterInv ==
  /\ writer # "none" => host \in {"open", "signalling", "joining"}
  /\ writer = "write" /\ stopping => stop /\ ~has_pending

\* The snapshot accepted last is pending, in the writer's hands, or written.
PathInv ==
  /\ accepted = NoSnapshot \/ accepted.session = session
  /\ has_pending => pending = accepted /\ accepted # NoSnapshot
  /\ writer = "write" /\ snapshot # NoSnapshot => snapshot.session = session
  /\ ~has_pending /\ writer = "write" /\ snapshot # NoSnapshot
       => snapshot = accepted
  /\ ~has_pending /\ (writer = "write" => snapshot = NoSnapshot)
       => previous = accepted
  /\ writer = "opening" => previous = NoSnapshot

\* The log tells the last error written, of its own session; a stopped one
\* has told all.
ToldInv ==
  /\ Own(log)
  /\ previous.status \in Erroneous => Tells(log, previous.status)
  /\ writer \notin {"none", "ended"} => Ongoing(log)
  /\ ~Ongoing(log) => stop /\ ~has_pending

LInv == EInv /\ LogTypes /\ WriterInv /\ PathInv /\ ToldInv

LEMMA NoSnapshotType == NoSnapshot \in Snapshot /\ NoSnapshot.status = Nothing
BY DEF NoSnapshot, Snapshot

LEMMA InitLInv == LogInit => LInv
<1> SUFFICES ASSUME LogInit PROVE LInv
  OBVIOUS
<1>1. EInv
  BY InitEInv
<1>2. LogTypes
  BY NoSnapshotType, NoLines DEF LogInit, LogTypes
<1>3. WriterInv /\ PathInv
  BY DEF LogInit, WriterInv, PathInv
<1>4. ToldInv
  BY NoLines, NoSnapshotType, LogAssumption DEF LogInit, ToldInv
<1> QED
  BY <1>1, <1>2, <1>3, <1>4 DEF LInv

\* Steps that leave the log and what is on its way alone.
LEMMA QuietStep ==
  ASSUME LInv, UNCHANGED <<has_pending, pending, accepted, published, snapshot,
                           stopping, previous, last_statistics, log, session>>,
         stop => stop', stop' \in BOOLEAN,
         \/ writer' = writer
         \/ writer = "ended" /\ writer' = "none"
         \/ writer = "wait" /\ writer' = "take"
  PROVE  LogTypes' /\ PathInv' /\ ToldInv'
<1>1. LogTypes'
  BY DEF LInv, LogTypes
<1>2. PathInv'
  BY DEF LInv, PathInv
<1>3. Own(log)' /\ (Ongoing(log)' <=> Ongoing(log))
  BY DEF LInv, ToldInv, Own, Ongoing
<1>4. previous'.status \in Erroneous => Tells(log, previous.status)'
  BY DEF LInv, ToldInv, Tells
<1>5. ToldInv'
  BY <1>3, <1>4 DEF LInv, ToldInv
<1> QED
  BY <1>1, <1>2, <1>5

\* The host's steps other than the reset of a new session.
LEMMA HostLInv ==
  ASSUME LInv,
         \/ BeginOpen \/ CreateEvent \/ BeginClose \/ SignalWriter
         \/ CloseEvent \/ ClearEvent
  PROVE  LInv'
<1>1. EInv'
  BY HostEInv DEF LInv, Open, Close
<1>2. LogTypes' /\ PathInv' /\ ToldInv'
  <2>1. /\ UNCHANGED <<has_pending, pending, accepted, published, snapshot,
                       stopping, previous, last_statistics, log, session>>
        /\ stop => stop'
        /\ stop' \in BOOLEAN
        /\ writer' = writer \/ (writer = "ended" /\ writer' = "none")
    BY DEF LInv, LogTypes, BeginOpen, CreateEvent, BeginClose, SignalWriter,
           CloseEvent, ClearEvent, publisherVars, writerVars
  <2> QED
    BY <2>1, QuietStep
<1>3. WriterInv'
  BY DEF LInv, WriterInv, BeginOpen, CreateEvent, BeginClose, SignalWriter,
         CloseEvent, ClearEvent, publisherVars, writerVars
<1> QED
  BY <1>1, <1>2, <1>3 DEF LInv

\* A new session starts with an empty log and nothing on its way.
LEMMA FinishOpenLInv == ASSUME LInv, FinishOpen PROVE LInv'
<1>1. EInv'
  BY HostEInv DEF LInv, Open
<1>2. LogTypes'
  <2>1. log' \in Seq(Line) /\ previous' \in Snapshot /\ accepted' \in Snapshot
    BY NoSnapshotType, NoLines DEF FinishOpen
  <2>2. session' \in Nat /\ published' \in Nat /\ last_statistics' \in Nat
    BY DEF LInv, LogTypes, FinishOpen
  <2>3. /\ pending' \in Snapshot /\ snapshot' \in Snapshot
        /\ stop' \in BOOLEAN /\ has_pending' \in BOOLEAN
        /\ stopping' \in BOOLEAN /\ writer' = "opening"
    BY DEF LInv, LogTypes, FinishOpen
  <2> QED
    BY <2>1, <2>2, <2>3 DEF LogTypes
<1>3. WriterInv' /\ PathInv'
  BY DEF FinishOpen, WriterInv, PathInv
<1>4. ToldInv'
  BY NoLines, NoSnapshotType, LogAssumption DEF FinishOpen, ToldInv, Own, Ongoing
<1> QED
  BY <1>1, <1>2, <1>3, <1>4 DEF LInv

LEMMA PublishLInv == ASSUME LInv, NEW status \in Statuses, PublishSnapshot(status) PROVE LInv'
<1>1. EInv'
  BY StepEInv DEF LInv, LogNext
<1>2. /\ pending' \in Snapshot /\ pending' # NoSnapshot
      /\ pending'.session = session
  BY LogAssumption DEF LInv, LogTypes, PublishSnapshot, Snapshot, NoSnapshot
<1>3. LogTypes'
  BY <1>2 DEF LInv, LogTypes, PublishSnapshot, hostVars, writerVars
<1>4. WriterInv' /\ PathInv'
  BY <1>2 DEF LInv, WriterInv, PathInv, PublishSnapshot, Accepts, hostVars, writerVars
<1>5. ToldInv'
  BY DEF LInv, ToldInv, PublishSnapshot, Accepts, hostVars, writerVars, Own, Ongoing, Tells
<1> QED
  BY <1>1, <1>3, <1>4, <1>5 DEF LInv

LEMMA OpenFileLInv == ASSUME LInv, NEW opened \in BOOLEAN, OpenFile(opened) PROVE LInv'
<1>1. EInv'
  BY WriterEInv DEF LInv, WriterStep
<1>2. log' \in Seq(Line) /\ Own(log') /\ Ongoing(log')
  <2>1. CASE opened
    BY <2>1, OneLine, NoSnapshotType DEF OpenFile
  <2>2. CASE ~opened
    BY <2>2 DEF OpenFile, LInv, LogTypes, ToldInv
  <2> QED
    BY <2>1, <2>2
<1>3. LogTypes'
  BY <1>2 DEF LInv, LogTypes, OpenFile, hostVars, publisherVars
<1>4. WriterInv' /\ PathInv'
  BY DEF LInv, WriterInv, PathInv, OpenFile, hostVars, publisherVars
<1>5. previous'.status \notin Erroneous
  BY NoSnapshotType, LogAssumption DEF LInv, PathInv, OpenFile
<1>6. ToldInv'
  BY <1>2, <1>5 DEF OpenFile, ToldInv, Own, Ongoing, hostVars
<1> QED
  BY <1>1, <1>3, <1>4, <1>6 DEF LInv

LEMMA TakeSnapshotLInv == ASSUME LInv, TakeSnapshot PROVE LInv'
<1>1. EInv'
  BY WriterEInv DEF LInv, WriterStep
<1>2. LogTypes'
  BY NoSnapshotType DEF LInv, LogTypes, TakeSnapshot, hostVars, publisherVars
<1>3. WriterInv' /\ PathInv'
  BY DEF LInv, WriterInv, PathInv, TakeSnapshot, hostVars, publisherVars
<1>4. ToldInv'
  BY DEF LInv, ToldInv, TakeSnapshot, hostVars, Own, Ongoing, Tells
<1> QED
  BY <1>1, <1>2, <1>3, <1>4 DEF LInv

\* What the writer has taken is written: its error is told unless the log
\* tells it already.
LEMMA WriteLinesLInv == ASSUME LInv, WriteLines PROVE LInv'
<1> DEFINE lines == IF snapshot = NoSnapshot THEN <<>> ELSE Lines(snapshot)
           last  == IF stopping THEN <<About("stopped", NoSnapshot)>> ELSE <<>>
<1>1. EInv'
  BY WriterEInv DEF LInv, WriterStep
<1>2. log' = (log \o lines) \o last
  BY DEF WriteLines
<1>3. lines \in Seq(Line) /\ Ongoing(lines) /\ Own(lines)
  BY NoLines, LinesTell DEF LInv, LogTypes, PathInv, WriteLines
<1>4. /\ last \in Seq(Line) /\ Quiet(last) /\ Own(last)
      /\ ~stopping => Ongoing(last)
  BY NoLines, OneLine, NoSnapshotType
<1>5. previous'.status \in Erroneous => Tells(log \o lines, previous'.status)
  <2>1. CASE snapshot = NoSnapshot
    <3>1. previous' = previous /\ lines = <<>>
      BY <2>1 DEF WriteLines
    <3> QED
      BY <3>1, NoLines, JoinedQuiet DEF LInv, LogTypes, ToldInv
  <2>2. CASE snapshot # NoSnapshot
    <3>1. previous' = snapshot /\ lines = Lines(snapshot)
      BY <2>2 DEF WriteLines
    <3>2. snapshot \in Snapshot /\ snapshot.session = session
      BY <2>2 DEF LInv, LogTypes, PathInv, WriteLines
    <3>3. CASE ErrorChanged(snapshot, previous)
      BY <3>1, <3>2, <3>3, LinesTell, JoinedLoud DEF LInv, LogTypes
    <3>4. CASE ~ErrorChanged(snapshot, previous) /\ snapshot.status \in Erroneous
      <4>1. snapshot.status = previous.status
        BY <3>4 DEF ErrorChanged
      <4>2. Tells(log, snapshot.status)
        BY <3>4, <4>1 DEF LInv, ToldInv
      <4>3. Quiet(Lines(snapshot)) /\ Lines(snapshot) \in Seq(Line)
        BY <3>2, <3>4, LinesTell
      <4> QED
        BY <3>1, <4>2, <4>3, JoinedQuiet DEF LInv, LogTypes
    <3> QED
      BY <3>1, <3>3, <3>4
  <2> QED
    BY <2>1, <2>2
<1> DEFINE told == log \o lines
<1>6. told \in Seq(Line) /\ Ongoing(told) /\ Own(told)
  BY <1>3, JoinedLines, JoinedKinds DEF LInv, LogTypes, ToldInv, WriteLines
<1>7. previous'.status \in Erroneous => Tells(told, previous'.status)
  BY <1>5
<1> HIDE DEF lines, last, told
<1>8. log' = told \o last
  BY <1>2 DEF told
<1>9. /\ log' \in Seq(Line) /\ Own(log')
      /\ ~stopping => Ongoing(log')
      /\ previous'.status \in Erroneous => Tells(log', previous'.status)
  BY <1>4, <1>6, <1>7, <1>8, JoinedLines, JoinedKinds, JoinedQuiet
<1>10. LogTypes'
  <2>1. Statistics(snapshot) \in Nat
    BY DEF Statistics, LInv, LogTypes, Snapshot
  <2> QED
    BY <1>9, <2>1 DEF LInv, LogTypes, WriteLines, hostVars, publisherVars
<1>11. WriterInv' /\ PathInv'
  BY DEF LInv, WriterInv, PathInv, WriteLines, hostVars, publisherVars
<1>12. ToldInv'
  <2>1. Own(log)' /\ (Ongoing(log)' <=> Ongoing(log'))
    BY <1>9 DEF Own, Ongoing, WriteLines, hostVars
  <2>2. Tells(log, previous.status)' <=> Tells(log', previous'.status)
    BY DEF Tells
  <2>3. stopping => stop' /\ ~has_pending'
    BY DEF LInv, WriterInv, WriteLines, hostVars
  <2> QED
    BY <1>9, <2>1, <2>2, <2>3 DEF ToldInv, WriteLines
<1> QED
  BY <1>1, <1>10, <1>11, <1>12 DEF LInv
LEMMA StepLInv == LInv /\ [LogNext]_logVars => LInv'
<1> SUFFICES ASSUME LInv, [LogNext]_logVars PROVE LInv'
  OBVIOUS
<1>1. CASE Open \/ Close
  BY <1>1, HostLInv, FinishOpenLInv DEF Open, Close
<1>2. ASSUME NEW status \in Statuses, PublishSnapshot(status) PROVE LInv'
  BY <1>2, PublishLInv
<1>3. CASE FinishPublish \/ WakeUp \/ TimeOut
  <2>1. EInv'
    BY <1>3, StepEInv DEF LInv, LogNext, WriterStep
  <2>2. /\ UNCHANGED <<has_pending, pending, accepted, published, snapshot,
                       stopping, previous, last_statistics, log, session>>
        /\ UNCHANGED <<host, stop>>
        /\ writer' = writer \/ (writer = "wait" /\ writer' = "take")
    BY <1>3 DEF FinishPublish, WakeUp, TimeOut, hostVars, publisherVars, writerVars
  <2>3. LogTypes' /\ PathInv' /\ ToldInv'
    BY <2>2, QuietStep DEF LInv, LogTypes
  <2>4. WriterInv'
    BY <2>2 DEF LInv, WriterInv
  <2> QED
    BY <2>1, <2>3, <2>4 DEF LInv
<1>4. ASSUME NEW opened \in BOOLEAN, OpenFile(opened) PROVE LInv'
  BY <1>4, OpenFileLInv
<1>5. CASE TakeSnapshot \/ WriteLines
  BY <1>5, TakeSnapshotLInv, WriteLinesLInv
<1>6. CASE UNCHANGED logVars
  <2>1. EInv'
    BY <1>6, StepEInv DEF LInv
  <2>2. LogTypes' /\ PathInv' /\ ToldInv'
    BY <1>6, QuietStep DEF LInv, LogTypes, logVars, hostVars, publisherVars, writerVars
  <2>3. WriterInv'
    BY <1>6 DEF LInv, WriterInv, logVars, hostVars, publisherVars, writerVars
  <2> QED
    BY <2>1, <2>2, <2>3 DEF LInv
<1> QED
  BY <1>1, <1>2, <1>3, <1>4, <1>5, <1>6 DEF LogNext, WriterStep

\* The log's state keeps its types; what is written are lines about snapshots.
THEOREM LogTypeCorrect == LogSpec => []LogTypeOK
<1> DEFINE Signals == wake \in BOOLEAN /\ event \in {"null", "valid", "closed"}
<1>1. LogInit => Signals
  BY DEF LogInit
<1>2. Signals /\ [LogNext]_logVars => Signals'
  BY DEF LogNext, Open, Close, BeginOpen, CreateEvent, FinishOpen, BeginClose,
         SignalWriter, CloseEvent, ClearEvent, PublishSnapshot, FinishPublish, WriterStep,
         OpenFile, WakeUp, TakeSnapshot, WriteLines, TimeOut, logVars, hostVars
<1>3. LInv /\ Signals => LogTypeOK
  BY DEF LInv, EInv, PublisherInv, StopInv, LogTypes, LogTypeOK
<1> QED
  BY <1>1, <1>2, <1>3, InitLInv, StepLInv, PTL DEF LogSpec

\* A log tells of its own session only, and a stopped one ends with the error
\* of the snapshot accepted last, however publications, the writer's turns and
\* close() fell together.
THEOREM ReportedError == LogSpec => []LastErrorIsReported
<1>1. LogSpec => []LInv
  BY InitLInv, StepLInv, PTL DEF LogSpec
<1>2. LInv => LastErrorIsReported
  <2> SUFFICES ASSUME LInv PROVE LastErrorIsReported
    OBVIOUS
  <2>1. \A k \in 1..Len(log) :
          log[k].about = NoSnapshot \/ log[k].about.session = session
    BY DEF LInv, ToldInv, Own
  <2>2. ASSUME log # <<>>, log[Len(log)].kind = "stopped",
               accepted.status \in Erroneous
        PROVE  \E k \in ReportedErrors :
                 /\ \A l \in ReportedErrors : l <= k
                 /\ log[k].about.status = accepted.status
    <3>1. Len(log) \in 1..Len(log)
      BY <2>2 DEF LInv, LogTypes
    <3>2. ~Ongoing(log)
      BY <2>2, <3>1 DEF Ongoing
    <3>3. previous = accepted
      BY <3>2 DEF LInv, LogTypes, ToldInv, PathInv
    <3>4. PICK k \in 1..Len(log) :
            /\ log[k].kind = "error" /\ log[k].about.status = accepted.status
            /\ \A l \in 1..Len(log) : l > k => log[l].kind # "error"
      BY <2>2, <3>3 DEF LInv, ToldInv, Tells
    <3>5. \A l \in ReportedErrors : l <= k
      BY <3>4 DEF ReportedErrors
    <3> QED
      BY <3>4, <3>5 DEF ReportedErrors
  <2> QED
    BY <2>1, <2>2 DEF LastErrorIsReported
<1> QED
  BY <1>1, <1>2, PTL

=============================================================================
