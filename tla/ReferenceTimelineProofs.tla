----------------------- MODULE ReferenceTimelineProofs -----------------------
(***************************************************************************)
(* ReferenceTimeline for every sample period, frame length, capacity,      *)
(* retention and packet: type correctness, the order of the timeline's     *)
(* chunks, the exactness of read(), and what pushing and discarding keep.  *)
(***************************************************************************)
EXTENDS ReferenceTimeline, SequenceTheorems, WellFoundedInduction, TLAPS

\* What read() has established when it looks at sample i and at the chunk at
\* chunk_index: the chunks before it end too early for this sample and all
\* later ones, and the earlier samples are decided.
ReadInv ==
  /\ pc \in {"read", "decide"} =>
       /\ queued >= FrameSamples
       /\ chunk_index <= Len(chunks_) + 1
       /\ \A k \in 1..Len(chunks_) :
            k < chunk_index => chunk_end_hns(chunks_[k]) <= SampleTime(i)
       /\ covered = {j \in Samples : j < i /\ CoveredAt(SampleTime(j))}
  /\ pc = "decide" => i = FrameSamples \/ chunk_index > Len(chunks_)

IInv == TypeOK /\ StartsAreSorted /\ ReadInv

-----------------------------------------------------------------------------
(* Facts about the operators of the model.                                 *)

\* Every non-empty set of natural numbers has a least element.
LEMMA LeastElement ==
  ASSUME NEW T, T \subseteq Nat, T # {}
  PROVE  \E x \in T : \A y \in T : x <= y
<1>1. PICK x \in T : \A y \in T : <<y, x>> \notin OpToRel(<, Nat)
  BY NatLessThanWellFounded, WFMin
<1>2. \A y \in T : ~(y < x)
  BY <1>1 DEF OpToRel
<1>3. \A y \in T : y \in Nat
  OBVIOUS
<1>. QED
  BY <1>2, <1>3

\* A block ends after its start.
LEMMA EndIsLater ==
  ASSUME NEW b \in Block
  PROVE  chunk_end_hns(b) \in Nat /\ b.start \in Nat /\ b.start < chunk_end_hns(b)
<1>1. b.start \in Nat /\ b.samples \in Nat \ {0}
  BY DEF Block
<1>2. \A n \in Nat \ {0} : Period * n \in Nat /\ Period * n > 0
  BY TimelineAssumption
<1>. QED
  BY <1>1, <1>2 DEF chunk_end_hns

\* Samples follow one another in time.
LEMMA TimeIsMonotonic ==
  ASSUME near \in Nat, NEW j \in Nat, NEW k \in Nat, j <= k
  PROVE  /\ SampleTime(j) \in Nat /\ SampleTime(k) \in Nat
         /\ SampleTime(j) <= SampleTime(k)
<1>1. Period * k = Period * j + Period * (k - j)
  BY TimelineAssumption
<1>2. Period * (k - j) \in Nat /\ Period * j \in Nat /\ Period * k \in Nat
  BY TimelineAssumption
<1>. QED
  BY <1>1, <1>2 DEF SampleTime

\* DropExpired takes away a prefix, and only of chunks that end too early.
LEMMA DropExpiredPrefix ==
  ASSUME NEW q \in Seq(Block), NEW time \in Int
  PROVE  /\ DropExpired(q, time) \in Seq(Block)
         /\ \E d \in 0..Len(q) :
              /\ Len(DropExpired(q, time)) = Len(q) - d
              /\ \A k \in 1..(Len(q) - d) : DropExpired(q, time)[k] = q[k + d]
              /\ \A k \in 1..d : chunk_end_hns(q[k]) < time
<1> DEFINE Kept == {k \in 1..Len(q) : chunk_end_hns(q[k]) >= time}
           first == CHOOSE k \in Kept : \A l \in Kept : k <= l
<1>0. /\ Len(q) \in Nat
      /\ \A k \in 1..Len(q) : q[k] \in Block /\ chunk_end_hns(q[k]) \in Nat
  BY ElementOfSeq, EndIsLater, LenProperties
<1>1. CASE Kept = {}
  <2>1. DropExpired(q, time) = <<>>
    BY <1>1 DEF DropExpired
  <2>2. \A k \in 1..Len(q) : chunk_end_hns(q[k]) < time
    <3>1. \A k \in 1..Len(q) : ~(chunk_end_hns(q[k]) >= time)
      BY <1>1
    <3> HIDE DEF Kept
    <3>. QED
      BY <1>0, <3>1
  <2>3. Len(q) - Len(q) = 0 /\ Len(q) \in 0..Len(q)
    BY <1>0
  <2>. QED
    BY <2>1, <2>2, <2>3, EmptySeq
<1>2. CASE Kept # {}
  <2>1. Kept \subseteq Nat
    OBVIOUS
  <2>2. \E k \in Kept : \A l \in Kept : k <= l
    BY <1>2, <2>1, LeastElement
  <2>3. first \in Kept /\ \A l \in Kept : first <= l
    BY <2>2
  <2>4. first \in 1..Len(q)
    BY <2>3
  <2>5. DropExpired(q, time) = SubSeq(q, first, Len(q))
    BY <1>2 DEF DropExpired
  <2>6. \A k \in 1..(first - 1) : chunk_end_hns(q[k]) < time
    <3> SUFFICES ASSUME NEW k \in 1..(first - 1)
                 PROVE  chunk_end_hns(q[k]) < time
      OBVIOUS
    <3>1. k \in 1..Len(q) /\ ~(first <= k)
      BY <1>0, <2>4
    <3>2. k \notin Kept
      BY <2>3, <3>1
    <3>3. ~(chunk_end_hns(q[k]) >= time)
      BY <3>1, <3>2
    <3>. QED
      BY <1>0, <3>1, <3>3
  <2> HIDE DEF first, Kept
  <2>7. \A k \in first..Len(q) : q[k] \in Block
    BY <1>0, <2>4
  <2>8. /\ SubSeq(q, first, Len(q)) \in Seq(Block)
        /\ Len(SubSeq(q, first, Len(q))) = Len(q) - first + 1
        /\ \A k \in 1..(Len(q) - first + 1) :
             SubSeq(q, first, Len(q))[k] = q[first + k - 1]
    BY <1>0, <2>4, <2>7, SubSeqProperties
  <2>9. /\ first - 1 \in 0..Len(q)
        /\ Len(q) - (first - 1) = Len(q) - first + 1
        /\ \A k \in 1..(Len(q) - first + 1) : first + k - 1 = k + (first - 1)
    BY <1>0, <2>4
  <2>. QED
    BY <2>5, <2>6, <2>8, <2>9
<1>. QED
  BY <1>1, <1>2

\* What is left of a sorted timeline is sorted.
LEMMA DropExpiredSorted ==
  ASSUME NEW q \in Seq(Block), NEW time \in Int,
         \A k, l \in 1..Len(q) : k <= l => q[k].start <= q[l].start
  PROVE  \A k, l \in 1..Len(DropExpired(q, time)) :
           k <= l => DropExpired(q, time)[k].start <= DropExpired(q, time)[l].start
<1> DEFINE r == DropExpired(q, time)
<1>1. PICK d \in 0..Len(q) :
        /\ Len(r) = Len(q) - d
        /\ \A k \in 1..(Len(q) - d) : r[k] = q[k + d]
  BY DropExpiredPrefix
<1>2. Len(q) \in Nat
  BY LenProperties
<1> HIDE DEF r
<1>3. \A k, l \in 1..Len(r) : k <= l => r[k].start <= r[l].start
  <2> SUFFICES ASSUME NEW k \in 1..Len(r), NEW l \in 1..Len(r), k <= l
               PROVE  r[k].start <= r[l].start
    OBVIOUS
  <2>1. k + d \in 1..Len(q) /\ l + d \in 1..Len(q) /\ k + d <= l + d
    BY <1>1, <1>2
  <2>2. q[k + d].start <= q[l + d].start
    BY <2>1
  <2>. QED
    BY <1>1, <2>2
<1>. QED
  BY <1>3 DEF r

\* A block handed to the timeline keeps it sorted, and well typed.
LEMMA ExtendedSorted ==
  ASSUME NEW b \in Block, chunks_ \in Seq(Block), StartsAreSorted
  PROVE  /\ Extended(b) \in Seq(Block)
         /\ \A k, l \in 1..Len(Extended(b)) :
              k <= l => Extended(b)[k].start <= Extended(b)[l].start
<1>0. Len(chunks_) \in Nat /\ \A k \in 1..Len(chunks_) : chunks_[k].start \in Nat
  BY ElementOfSeq, EndIsLater, LenProperties
<1>b. b.start \in Nat
  BY EndIsLater
<1>1. CASE GoesBack(b.start)
  <2>1. Extended(b) = <<b>>
    BY <1>1 DEF Extended
  <2>. QED
    BY <1>b, <2>1
<1>2. CASE ~GoesBack(b.start)
  <2> DEFINE e == Append(chunks_, b)
  <2>1. Extended(b) = e
    BY <1>2 DEF Extended
  <2>2. /\ e \in Seq(Block)
        /\ Len(e) = Len(chunks_) + 1
        /\ \A k \in 1..Len(chunks_) : e[k] = chunks_[k]
        /\ e[Len(chunks_) + 1] = b
    BY AppendProperties
  <2> HIDE DEF e
  <2>3. \A k \in 1..Len(chunks_) : chunks_[k].start <= b.start
    <3> SUFFICES ASSUME NEW k \in 1..Len(chunks_)
                 PROVE  chunks_[k].start <= b.start
      OBVIOUS
    <3>1. Len(chunks_) \in 1..Len(chunks_) /\ k <= Len(chunks_) /\ chunks_ # <<>>
      BY <1>0, EmptySeq
    <3>2. chunks_[k].start <= chunks_[Len(chunks_)].start
      BY <3>1 DEF StartsAreSorted
    <3>3. ~(b.start < chunks_[Len(chunks_)].start)
      BY <1>2, <3>1 DEF GoesBack
    <3>. QED
      BY <1>0, <1>b, <3>1, <3>2, <3>3
  <2>4. \A k, l \in 1..Len(e) : k <= l => e[k].start <= e[l].start
    <3> SUFFICES ASSUME NEW k \in 1..Len(e), NEW l \in 1..Len(e), k <= l
                 PROVE  e[k].start <= e[l].start
      OBVIOUS
    <3>1. CASE l = Len(e)
      <4>1. CASE k = Len(e)
        BY <1>b, <2>2, <3>1, <4>1
      <4>2. CASE k # Len(e)
        <5>1. k \in 1..Len(chunks_)
          BY <1>0, <2>2, <4>2
        <5>. QED
          BY <2>2, <2>3, <3>1, <5>1
      <4>. QED
        BY <4>1, <4>2
    <3>2. CASE l # Len(e)
      <4>1. k \in 1..Len(chunks_) /\ l \in 1..Len(chunks_)
        BY <1>0, <2>2, <3>2
      <4>. QED
        BY <2>2, <4>1 DEF StartsAreSorted
    <3>. QED
      BY <3>1, <3>2
  <2>. QED
    BY <2>1, <2>2, <2>4
<1>. QED
  BY <1>1, <1>2

-----------------------------------------------------------------------------
(* Type correctness.                                                       *)

LEMMA EmptyBlocks == <<>> \in Seq(Block) /\ Len(<<>>) = 0
BY EmptySeq

\* The handler's loop over pending_reference removes at most one block.
LEMMA CappedBlocks ==
  ASSUME NEW q \in Seq(Block), Len(q) <= MaxPending + 1
  PROVE  Capped(q) \in Seq(Block) /\ Len(Capped(q)) <= MaxPending
<1>0. Len(q) \in Nat /\ MaxPending \in Nat
  BY LenProperties, TimelineAssumption
<1>1. CASE Len(q) > MaxPending
  <2>1. q # <<>>
    BY <1>0, <1>1, EmptyBlocks
  <2>2. Tail(q) \in Seq(Block) /\ Len(Tail(q)) = Len(q) - 1
    BY <2>1, HeadTailProperties
  <2>. QED
    BY <1>0, <1>1, <2>2 DEF Capped
<1>2. CASE ~(Len(q) > MaxPending)
  BY <1>0, <1>2 DEF Capped
<1>. QED
  BY <1>1, <1>2

LEMMA IInvInit == Init => IInv
<1> SUFFICES ASSUME Init PROVE IInv
  OBVIOUS
<1>1. TypeOK
  BY EmptyBlocks, TimelineAssumption DEF Init, TypeOK
<1>2. StartsAreSorted
  BY EmptyBlocks DEF Init, StartsAreSorted
<1>3. ReadInv
  BY DEF Init, ReadInv
<1>. QED
  BY <1>1, <1>2, <1>3 DEF IInv

LEMMA TypeStep == IInv /\ [Next]_vars => TypeOK'
<1> SUFFICES ASSUME IInv, [Next]_vars PROVE TypeOK'
  OBVIOUS
<1> USE TimelineAssumption DEF IInv, TypeOK, loopbackVars, readVars
<1>1. ASSUME LockReference PROVE TypeOK'
  BY <1>1 DEF LockReference
<1>2. ASSUME NEW samples \in Lengths, NEW gap \in Gaps, NEW late \in Lates,
             NEW discontinuity \in BOOLEAN,
             Deliver(samples, gap, late, discontinuity)
      PROVE  TypeOK'
  <2> DEFINE block == [start |-> device + gap + late, samples |-> samples]
             waiting == IF discontinuity THEN <<>> ELSE pending_reference
  <2>1. block \in Block
    BY DEF Block
  <2>2. waiting \in Seq(Block) /\ Len(waiting) <= MaxPending
    BY EmptyBlocks
  <2>3. device + gap + Period * samples \in Nat
    <3>1. device \in Nat /\ gap \in Nat /\ samples \in Nat /\ Period \in Nat
      OBVIOUS
    <3>. QED
      BY ONLY <3>1
  <2>4. /\ pending_reference' = Capped(Append(waiting, block))
        /\ device' = device + gap + Period * samples
        /\ handler' = "idle"
        /\ UNCHANGED <<pc, drained_reference, chunks_, queued, near, readVars>>
    BY <1>2 DEF Deliver
  <2> HIDE DEF block, waiting
  <2>5. /\ Append(waiting, block) \in Seq(Block)
        /\ Len(Append(waiting, block)) <= MaxPending + 1
    BY <2>1, <2>2, AppendProperties, LenProperties
  <2>. QED
    BY <2>3, <2>4, <2>5, CappedBlocks
<1>3. ASSUME Unlock PROVE TypeOK'
  BY <1>3 DEF Unlock
<1>4. ASSUME NEW now \in 0..MaxTime, Activate(now) PROVE TypeOK'
  BY <1>4 DEF Activate
<1>5. ASSUME Bypass PROVE TypeOK'
  BY <1>5 DEF Bypass
<1>6. ASSUME NEW n \in HostBlocks, BeginBlock(n) PROVE TypeOK'
  <2>1. /\ pending_reference' \in Seq(Block)
        /\ Len(pending_reference') <= MaxPending
        /\ drained_reference' \in Seq(Block)
    <3>1. CASE handler = "idle"
      BY <1>6, <3>1, EmptyBlocks DEF BeginBlock
    <3>2. CASE handler # "idle"
      BY <1>6, <3>2 DEF BeginBlock
    <3>. QED
      BY <3>1, <3>2
  <2>. QED
    BY <1>6, <2>1 DEF BeginBlock
<1>7. ASSUME PushBlock PROVE TypeOK'
  <2> DEFINE block == Head(drained_reference)
  <2>1. block \in Block /\ Tail(drained_reference) \in Seq(Block)
    BY <1>7, HeadTailProperties DEF PushBlock
  <2>2. chunks_' = DropExpired(Extended(block), chunk_end_hns(block) - Capacity)
    BY <1>7 DEF PushBlock
  <2> HIDE DEF block
  <2>3. Extended(block) \in Seq(Block) /\ chunk_end_hns(block) - Capacity \in Int
    BY <2>1, ExtendedSorted, EndIsLater
  <2>4. chunks_' \in Seq(Block)
    BY <2>2, <2>3, DropExpiredPrefix
  <2>. QED
    BY <1>7, <2>1, <2>4 DEF PushBlock, block
<1>8. ASSUME BeginFrames PROVE TypeOK'
  BY <1>8 DEF BeginFrames
<1>9. ASSUME BeginRead PROVE TypeOK'
  BY <1>9 DEF BeginRead
<1>10. ASSUME SkipChunk PROVE TypeOK'
  BY <1>10 DEF SkipChunk
<1>11. ASSUME ReadSample PROVE TypeOK'
  <2>1. i < FrameSamples /\ i' = i + 1 /\ covered' \subseteq covered \cup {i}
    BY <1>11 DEF ReadSample
  <2>2. i' \in 0..FrameSamples /\ i \in Samples
    BY <2>1 DEF Samples
  <2>3. covered' \subseteq Samples
    BY <2>1, <2>2
  <2>. QED
    BY <1>11, <2>2, <2>3 DEF ReadSample
<1>12. ASSUME EndRead PROVE TypeOK'
  BY <1>12 DEF EndRead
<1>13. ASSUME WaitForReference PROVE TypeOK'
  BY <1>13 DEF WaitForReference
<1>14. ASSUME NEW aec \in BOOLEAN, CutFrame(aec) PROVE TypeOK'
  <2>1. near + Period * FrameSamples \in Nat
    BY TimeIsMonotonic DEF SampleTime
  <2>2. chunks_' \in Seq(Block)
    BY <1>14, <2>1, DropExpiredPrefix DEF CutFrame
  <2>3. queued - FrameSamples \in Nat
    BY <1>14 DEF CutFrame, ReadInv
  <2>. QED
    BY <1>14, <2>1, <2>2, <2>3 DEF CutFrame
<1>15. ASSUME EndFrames PROVE TypeOK'
  BY <1>15 DEF EndFrames
<1>16. ASSUME UNCHANGED vars PROVE TypeOK'
  BY <1>16 DEF vars
<1>. QED
  BY <1>1, <1>2, <1>3, <1>4, <1>5, <1>6, <1>7, <1>8, <1>9, <1>10, <1>11, <1>12,
     <1>13, <1>14, <1>15, <1>16 DEF Next, Loopback, Audio, Read

-----------------------------------------------------------------------------
(* The order of the chunks.                                                *)

LEMMA SortedStep == IInv /\ [Next]_vars => StartsAreSorted'
<1> SUFFICES ASSUME IInv, [Next]_vars PROVE StartsAreSorted'
  OBVIOUS
<1> USE DEF IInv
<1>1. ASSUME chunks_' = chunks_ PROVE StartsAreSorted'
  BY <1>1 DEF StartsAreSorted
<1>2. ASSUME PushBlock PROVE StartsAreSorted'
  <2> DEFINE block == Head(drained_reference)
  <2>1. block \in Block
    BY <1>2, HeadTailProperties DEF PushBlock, TypeOK
  <2>2. chunks_' = DropExpired(Extended(block), chunk_end_hns(block) - Capacity)
    BY <1>2 DEF PushBlock
  <2> HIDE DEF block
  <2>3. chunk_end_hns(block) - Capacity \in Int
    BY <2>1, EndIsLater, TimelineAssumption
  <2>4. /\ Extended(block) \in Seq(Block)
        /\ \A k, l \in 1..Len(Extended(block)) :
             k <= l => Extended(block)[k].start <= Extended(block)[l].start
    BY <2>1, ExtendedSorted DEF TypeOK
  <2>. QED
    BY <2>2, <2>3, <2>4, DropExpiredSorted DEF StartsAreSorted
<1>3. ASSUME NEW aec \in BOOLEAN, CutFrame(aec) PROVE StartsAreSorted'
  <2> DEFINE time == near + Period * FrameSamples - Retention
  <2>1. time \in Int /\ chunks_ \in Seq(Block)
    BY TimelineAssumption DEF TypeOK
  <2>2. chunks_' = DropExpired(chunks_, time)
    BY <1>3 DEF CutFrame
  <2> HIDE DEF time
  <2>. QED
    BY <2>1, <2>2, DropExpiredSorted DEF StartsAreSorted
<1>4. \/ chunks_' = chunks_
      \/ PushBlock
      \/ \E aec \in BOOLEAN : CutFrame(aec)
  BY DEF Next, Loopback, Audio, Read, vars, LockReference, Deliver, Unlock,
         Activate, Bypass, BeginBlock, BeginFrames, BeginRead, SkipChunk,
         ReadSample, EndRead, WaitForReference, EndFrames
<1>. QED
  BY <1>1, <1>2, <1>3, <1>4

-----------------------------------------------------------------------------
(* read().                                                                 *)

\* Neither a chunk skipped for sample i nor one after the current chunk covers
\* the sample if the current one does not.
LEMMA OnlyCurrentCovers ==
  ASSUME IInv, pc = "read", i < FrameSamples, chunk_index <= Len(chunks_),
         ~Passed(chunks_[chunk_index], SampleTime(i))
  PROVE  CoveredAt(SampleTime(i)) <=> Covers(chunks_[chunk_index], SampleTime(i))
<1>1. /\ chunk_index \in 1..Len(chunks_)
      /\ Len(chunks_) \in Nat
      /\ SampleTime(i) \in Nat
      /\ \A k \in 1..Len(chunks_) : /\ chunks_[k].start \in Nat
                                    /\ chunk_end_hns(chunks_[k]) \in Nat
  <2>1. /\ chunks_ \in Seq(Block) /\ i \in Nat /\ near \in Nat
        /\ chunk_index \in Nat \ {0}
    BY TimelineAssumption DEF IInv, TypeOK
  <2>2. SampleTime(i) \in Nat
    BY <2>1, TimeIsMonotonic
  <2>3. \A k \in 1..Len(chunks_) : chunks_[k] \in Block
    BY <2>1, ElementOfSeq
  <2>4. Len(chunks_) \in Nat
    BY <2>1, LenProperties
  <2>. QED
    BY <2>1, <2>2, <2>3, <2>4, EndIsLater
<1>2. chunk_end_hns(chunks_[chunk_index]) > SampleTime(i)
  BY <1>1 DEF Passed
<1>3. ASSUME NEW k \in 1..Len(chunks_), Covers(chunks_[k], SampleTime(i))
      PROVE  Covers(chunks_[chunk_index], SampleTime(i))
  <2>1. chunks_[k].start <= SampleTime(i) /\ SampleTime(i) < chunk_end_hns(chunks_[k])
    BY <1>3 DEF Covers
  <2>2. ~(k < chunk_index)
    <3>1. k < chunk_index => chunk_end_hns(chunks_[k]) <= SampleTime(i)
      BY DEF IInv, ReadInv
    <3>. QED
      BY <1>1, <2>1, <3>1
  <2>3. chunk_index <= k
    BY <1>1, <2>2
  <2>4. chunks_[chunk_index].start <= chunks_[k].start
    BY <1>1, <2>3 DEF IInv, StartsAreSorted
  <2>5. chunks_[chunk_index].start <= SampleTime(i)
    BY <1>1, <2>1, <2>4
  <2>. QED
    BY <1>2, <2>5 DEF Covers
<1>. QED
  BY <1>1, <1>3 DEF CoveredAt

\* read()'s locals, and what it reads, do not change.
LEMMA ReadKept ==
  ASSUME UNCHANGED <<queued, near, chunks_, readVars>>, ReadInv,
         \/ pc' \notin {"read", "decide"}
         \/ pc' = pc
  PROVE  ReadInv'
<1>1. CASE pc' \notin {"read", "decide"}
  BY <1>1 DEF ReadInv
<1>2. CASE pc' = pc
  BY <1>2 DEF ReadInv, readVars, SampleTime, CoveredAt
<1>. QED
  BY <1>1, <1>2

LEMMA ReadStep == IInv /\ [Next]_vars => ReadInv'
<1> SUFFICES ASSUME IInv, [Next]_vars PROVE ReadInv'
  OBVIOUS
<1>a. /\ i \in 0..FrameSamples /\ chunk_index \in Nat \ {0} /\ near \in Nat
      /\ Len(chunks_) \in Nat /\ FrameSamples \in Nat \ {0}
      /\ chunks_ \in Seq(Block) /\ covered \subseteq Samples
  BY LenProperties, TimelineAssumption DEF IInv, TypeOK
<1>1. ASSUME pc' \notin {"read", "decide"} PROVE ReadInv'
  BY <1>1 DEF ReadInv
<1>2. ASSUME BeginRead PROVE ReadInv'
  <2>1. /\ pc' = "read" /\ queued' = queued /\ queued >= FrameSamples
        /\ chunks_' = chunks_ /\ near' = near
        /\ i' = 0 /\ chunk_index' = 1 /\ covered' = {}
    BY <1>2 DEF BeginRead
  <2>2. \A j \in Samples : ~(j < 0)
    BY <1>a DEF Samples
  <2>3. \A k \in 1..Len(chunks_) : ~(k < 1)
    BY <1>a
  <2>. QED
    BY <1>a, <2>1, <2>2, <2>3 DEF ReadInv
<1>3. ASSUME SkipChunk PROVE ReadInv'
  <2>1. /\ pc = "read" /\ pc' = "read"
        /\ UNCHANGED <<queued, near, chunks_, i, covered>>
        /\ chunk_index <= Len(chunks_) /\ chunk_index' = chunk_index + 1
        /\ chunk_end_hns(chunks_[chunk_index]) <= SampleTime(i)
    BY <1>3 DEF SkipChunk, Passed
  <2>2. \A k \in 1..Len(chunks_) :
          k < chunk_index + 1 => chunk_end_hns(chunks_[k]) <= SampleTime(i)
    <3> SUFFICES ASSUME NEW k \in 1..Len(chunks_), k < chunk_index + 1
                 PROVE  chunk_end_hns(chunks_[k]) <= SampleTime(i)
      OBVIOUS
    <3>1. k < chunk_index \/ k = chunk_index
      BY <1>a
    <3>. QED
      BY <2>1, <3>1 DEF IInv, ReadInv
  <2>3. chunk_index + 1 <= Len(chunks_) + 1
    BY <1>a, <2>1
  <2>4. SampleTime(i)' = SampleTime(i)
    BY <2>1 DEF SampleTime
  <2>5. \A j \in Samples : CoveredAt(SampleTime(j))' <=> CoveredAt(SampleTime(j))
    BY <2>1 DEF SampleTime, CoveredAt
  <2>6. /\ queued >= FrameSamples
        /\ covered = {j \in Samples : j < i /\ CoveredAt(SampleTime(j))}
    BY <2>1 DEF IInv, ReadInv
  <2>. QED
    BY <2>1, <2>2, <2>3, <2>4, <2>5, <2>6 DEF ReadInv
<1>4. ASSUME ReadSample PROVE ReadInv'
  <2>1. /\ pc = "read" /\ pc' = "read" /\ i < FrameSamples
        /\ UNCHANGED <<queued, near, chunks_, chunk_index>>
        /\ i' = i + 1
        /\ chunk_index <= Len(chunks_)
        /\ ~Passed(chunks_[chunk_index], SampleTime(i))
        /\ covered' = IF Covers(chunks_[chunk_index], SampleTime(i))
                      THEN covered \cup {i} ELSE covered
    <3>1. SampleTime(i) >= chunks_[chunk_index].start
            <=> chunks_[chunk_index].start <= SampleTime(i)
      OBVIOUS
    <3>. QED
      BY <1>4, <3>1 DEF ReadSample, Covers
  <2>2. CoveredAt(SampleTime(i)) <=> Covers(chunks_[chunk_index], SampleTime(i))
    BY <2>1, OnlyCurrentCovers
  <2>3. /\ queued >= FrameSamples
        /\ chunk_index <= Len(chunks_) + 1
        /\ covered = {j \in Samples : j < i /\ CoveredAt(SampleTime(j))}
    BY <2>1 DEF IInv, ReadInv
  <2>4. i \in Samples /\ \A j \in Samples : j < i + 1 <=> j < i \/ j = i
    BY <1>a, <2>1 DEF Samples
  <2>5. covered' = {j \in Samples : j < i + 1 /\ CoveredAt(SampleTime(j))}
    BY <2>1, <2>2, <2>3, <2>4
  <2>6. \A j \in Samples : CoveredAt(SampleTime(j))' <=> CoveredAt(SampleTime(j))
    BY <2>1 DEF SampleTime, CoveredAt
  <2>7. \A k \in 1..Len(chunks_) :
          k < chunk_index => chunk_end_hns(chunks_[k]) <= SampleTime(i + 1)
    <3> SUFFICES ASSUME NEW k \in 1..Len(chunks_), k < chunk_index
                 PROVE  chunk_end_hns(chunks_[k]) <= SampleTime(i + 1)
      OBVIOUS
    <3>1. chunk_end_hns(chunks_[k]) <= SampleTime(i)
      BY <2>1 DEF IInv, ReadInv
    <3>2. chunk_end_hns(chunks_[k]) \in Nat
      BY <1>a, ElementOfSeq, EndIsLater
    <3>3. i \in Nat /\ i + 1 \in Nat /\ i <= i + 1
      BY <1>a
    <3>4. /\ SampleTime(i) \in Nat /\ SampleTime(i + 1) \in Nat
          /\ SampleTime(i) <= SampleTime(i + 1)
      BY <1>a, <3>3, TimeIsMonotonic
    <3>. QED
      BY <3>1, <3>2, <3>4
  <2>8. SampleTime(i)' = SampleTime(i + 1)
    BY <2>1 DEF SampleTime
  <2>9. covered' = {j \in Samples : j < i' /\ CoveredAt(SampleTime(j))'}
    BY <2>1, <2>5, <2>6
  <2>. QED
    BY <2>1, <2>3, <2>7, <2>8, <2>9 DEF ReadInv
<1>5. ASSUME EndRead PROVE ReadInv'
  <2>1. /\ pc = "read" /\ UNCHANGED <<queued, near, chunks_, readVars>>
        /\ i = FrameSamples \/ chunk_index > Len(chunks_)
    BY <1>5 DEF EndRead
  <2>. QED
    BY <2>1 DEF IInv, ReadInv, readVars, SampleTime, CoveredAt
<1>6. ASSUME UNCHANGED <<queued, near, chunks_, readVars>>, pc' = pc
      PROVE  ReadInv'
  BY <1>6, ReadKept DEF IInv
<1>7. ASSUME Loopback PROVE ReadInv'
  BY <1>6, <1>7 DEF Loopback, LockReference, Deliver, Unlock
<1>8. ASSUME Audio PROVE ReadInv'
  <2>1. ASSUME PushBlock PROVE ReadInv'
    BY <1>1, <2>1 DEF PushBlock
  <2>2. ASSUME NEW aec \in BOOLEAN, CutFrame(aec) PROVE ReadInv'
    BY <1>1, <2>2 DEF CutFrame
  <2>3. ASSUME NEW now \in 0..MaxTime, Activate(now) PROVE ReadInv'
    BY <1>1, <2>3 DEF Activate
  <2>4. ASSUME NEW n \in HostBlocks, BeginBlock(n) PROVE ReadInv'
    BY <1>1, <2>4 DEF BeginBlock
  <2>5. ASSUME Bypass \/ BeginFrames \/ WaitForReference \/ EndFrames
        PROVE  ReadInv'
    BY <1>1, <2>5 DEF Bypass, BeginFrames, WaitForReference, EndFrames
  <2>. QED
    BY <1>2, <1>3, <1>4, <1>5, <1>8, <2>1, <2>2, <2>3, <2>4, <2>5 DEF Audio, Read
<1>9. ASSUME UNCHANGED vars PROVE ReadInv'
  BY <1>6, <1>9 DEF vars
<1>. QED
  BY <1>7, <1>8, <1>9 DEF Next

-----------------------------------------------------------------------------
(* What pushing and discarding keep.                                       *)

\* ReferenceIsKept for a single step.
Keeps ==
  \A time \in 0..MaxTime :
    time >= near' /\ CoveredAt(time) /\ ~CoveredAt(time)' =>
      /\ pc = "push"
      /\ \/ GoesBack(Head(drained_reference).start)
         \/ time + Capacity < chunk_end_hns(Head(drained_reference))

\* A covered time stays covered unless its chunk is dropped as expired.
LEMMA DroppedChunk ==
  ASSUME NEW q \in Seq(Block), NEW limit \in Int, NEW time \in Nat,
         NEW k \in 1..Len(q), Covers(q[k], time),
         chunks_' = DropExpired(q, limit), ~CoveredAt(time)'
  PROVE  time < limit
<1> DEFINE r == DropExpired(q, limit)
<1>1. PICK d \in 0..Len(q) :
        /\ Len(r) = Len(q) - d
        /\ \A l \in 1..(Len(q) - d) : r[l] = q[l + d]
        /\ \A l \in 1..d : chunk_end_hns(q[l]) < limit
  BY DropExpiredPrefix
<1>2. Len(q) \in Nat /\ chunk_end_hns(q[k]) \in Nat
  BY LenProperties, ElementOfSeq, EndIsLater
<1>3. \A l \in 1..Len(r) : ~Covers(r[l], time)
  BY DEF CoveredAt
<1> HIDE DEF r
<1>4. k <= d
  <2> SUFFICES ASSUME ~(k <= d) PROVE FALSE
    OBVIOUS
  <2>1. k - d \in 1..(Len(q) - d) /\ (k - d) + d = k
    BY <1>2
  <2>2. r[k - d] = q[k]
    BY <1>1, <2>1
  <2>. QED
    BY <1>1, <1>3, <2>1, <2>2
<1>5. chunk_end_hns(q[k]) < limit
  BY <1>1, <1>2, <1>4
<1>. QED
  BY <1>2, <1>5 DEF Covers

LEMMA KeepsStep == IInv /\ [Next]_vars => Keeps
<1> SUFFICES ASSUME IInv, [Next]_vars,
                    NEW time \in 0..MaxTime,
                    time >= near', CoveredAt(time), ~CoveredAt(time)'
             PROVE  /\ pc = "push"
                    /\ \/ GoesBack(Head(drained_reference).start)
                       \/ time + Capacity < chunk_end_hns(Head(drained_reference))
  BY DEF Keeps
<1> DEFINE Goal == /\ pc = "push"
                   /\ \/ GoesBack(Head(drained_reference).start)
                      \/ time + Capacity < chunk_end_hns(Head(drained_reference))
<1>a. /\ chunks_ \in Seq(Block) /\ near \in Nat /\ time \in Nat
      /\ Len(chunks_) \in Nat
  BY LenProperties, TimelineAssumption DEF IInv, TypeOK
<1>b. PICK k \in 1..Len(chunks_) : Covers(chunks_[k], time)
  BY DEF CoveredAt
<1>1. chunks_' # chunks_
  BY DEF CoveredAt
<1>2. ASSUME PushBlock PROVE Goal
  <2> DEFINE block == Head(drained_reference)
  <2>1. block \in Block /\ pc = "push"
    BY <1>2, HeadTailProperties DEF PushBlock, IInv, TypeOK
  <2>2. chunks_' = DropExpired(Extended(block), chunk_end_hns(block) - Capacity)
    BY <1>2 DEF PushBlock
  <2> HIDE DEF block
  <2>3. chunk_end_hns(block) \in Nat /\ Capacity \in Nat
    BY <2>1, EndIsLater, TimelineAssumption
  <2>4. ASSUME ~GoesBack(block.start)
        PROVE  time + Capacity < chunk_end_hns(block)
    <3>1. Extended(block) = Append(chunks_, block)
      BY <2>4 DEF Extended
    <3>2. /\ Append(chunks_, block) \in Seq(Block)
          /\ Len(Append(chunks_, block)) = Len(chunks_) + 1
          /\ Append(chunks_, block)[k] = chunks_[k]
      BY <1>a, <2>1, AppendProperties
    <3>3. k \in 1..Len(Append(chunks_, block))
      BY <1>a, <3>2
    <3>4. chunk_end_hns(block) - Capacity \in Int
      BY <2>3
    <3>5. time < chunk_end_hns(block) - Capacity
      BY <1>a, <1>b, <2>2, <3>1, <3>2, <3>3, <3>4, DroppedChunk
    <3>. QED
      BY <1>a, <2>3, <3>5
  <2>. QED
    BY <2>1, <2>4 DEF block
<1>3. ASSUME NEW aec \in BOOLEAN, CutFrame(aec) PROVE FALSE
  <2> DEFINE limit == near + Period * FrameSamples - Retention
  <2>1. chunks_' = DropExpired(chunks_, limit)
    BY <1>3 DEF CutFrame
  <2>2. limit \in Int /\ limit <= near + Period * FrameSamples
    BY <1>a, TimelineAssumption
  <2>3. near' = near + Period * FrameSamples /\ near' \in Int
    BY <1>3, <1>a, TimelineAssumption DEF CutFrame
  <2>4. limit <= near'
    BY <2>2, <2>3
  <2> HIDE DEF limit
  <2>5. time < limit
    BY <1>a, <1>b, <2>1, <2>2, DroppedChunk
  <2>. QED
    BY <1>a, <2>2, <2>3, <2>4, <2>5
<1>4. PushBlock \/ \E aec \in BOOLEAN : CutFrame(aec)
  BY <1>1 DEF Next, Loopback, Audio, Read, vars, LockReference, Deliver, Unlock,
              Activate, Bypass, BeginBlock, BeginFrames, BeginRead, SkipChunk,
              ReadSample, EndRead, WaitForReference, EndFrames
<1>. QED
  BY <1>2, <1>3, <1>4

-----------------------------------------------------------------------------
(* The theorems.                                                           *)

LEMMA IInvStep == IInv /\ [Next]_vars => IInv'
BY TypeStep, SortedStep, ReadStep DEF IInv

THEOREM InductiveInvariant == Spec => []IInv
BY IInvInit, IInvStep, PTL DEF Spec

\* Every variable keeps its type, and pending_reference its limit.
THEOREM TypeCorrectness == Spec => []TypeOK
<1>1. IInv => TypeOK
  BY DEF IInv
<1>. QED
  BY <1>1, InductiveInvariant, PTL

\* push() keeps the chunks in the order of their start times, whatever the
\* device's timestamps are.
THEOREM Order == Spec => []StartsAreSorted
<1>1. IInv => StartsAreSorted
  BY DEF IInv
<1>. QED
  BY <1>1, InductiveInvariant, PTL

\* The single pass of read() finds exactly the samples some chunk covers, for
\* every timeline that push() and discard_before() can leave behind.
THEOREM Exactness == Spec => []ReadIsExact
<1>1. IInv => ReadIsExact
  <2> SUFFICES ASSUME IInv, pc = "decide"
               PROVE  covered = {j \in Samples : CoveredAt(SampleTime(j))}
    BY DEF ReadIsExact
  <2>1. /\ i \in 0..FrameSamples /\ near \in Nat
        /\ FrameSamples \in Nat \ {0} /\ chunk_index \in Nat
        /\ \A k \in 1..Len(chunks_) : chunk_end_hns(chunks_[k]) \in Nat
    BY ElementOfSeq, EndIsLater, TimelineAssumption DEF IInv, TypeOK
  <2>2. /\ covered = {j \in Samples : j < i /\ CoveredAt(SampleTime(j))}
        /\ i = FrameSamples \/ chunk_index > Len(chunks_)
        /\ \A k \in 1..Len(chunks_) :
             k < chunk_index => chunk_end_hns(chunks_[k]) <= SampleTime(i)
    BY DEF IInv, ReadInv
  <2>3. CASE i = FrameSamples
    <3>1. \A j \in Samples : j < i
      BY <2>1, <2>3 DEF Samples
    <3>. QED
      BY <2>2, <3>1
  <2>4. CASE chunk_index > Len(chunks_)
    <3>1. \A j \in Samples : ~(j < i) => ~CoveredAt(SampleTime(j))
      <4> SUFFICES ASSUME NEW j \in Samples, ~(j < i),
                          NEW k \in 1..Len(chunks_),
                          Covers(chunks_[k], SampleTime(j))
                   PROVE  FALSE
        BY DEF CoveredAt
      <4>1. chunk_end_hns(chunks_[k]) <= SampleTime(i)
        <5>1. Len(chunks_) \in Nat
          BY LenProperties DEF IInv, TypeOK
        <5>2. k < chunk_index
          BY <2>1, <2>4, <5>1
        <5>. QED
          BY <2>2, <5>2
      <4>2. i \in Nat /\ j \in Nat /\ i <= j
        BY <2>1 DEF Samples
      <4>3. /\ SampleTime(i) \in Nat /\ SampleTime(j) \in Nat
            /\ SampleTime(i) <= SampleTime(j)
        BY <2>1, <4>2, TimeIsMonotonic
      <4>. QED
        BY <2>1, <4>1, <4>3 DEF Covers
    <3>. QED
      BY <2>2, <3>1
  <2>. QED
    BY <2>2, <2>3, <2>4
<1>. QED
  BY <1>1, InductiveInvariant, PTL

\* Neither the timeline's capacity nor discard_before() takes reference away
\* that a frame not yet cut can use, unless the loopback is ahead of it by the
\* whole capacity.
THEOREM Keeping == Spec => ReferenceIsKept
<1>1. IInv /\ [Next]_vars => [Keeps]_vars
  BY KeepsStep
<1>2. Spec => [][Keeps]_vars
  BY <1>1, InductiveInvariant, PTL DEF Spec
<1>. QED
  BY <1>2 DEF ReferenceIsKept, Keeps

=============================================================================
