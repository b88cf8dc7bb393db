-------------------------- MODULE LoopbackCaptureProofs --------------------------
(***************************************************************************)
(* Proofs about LoopbackCapture: for every pair of sample rates, every     *)
(* filter width and every sequence of packets, the resampler reads only    *)
(* what it holds, its output does not depend on the cut into packets, and  *)
(* what is handed over carries its true capture time.                      *)
(*                                                                         *)
(* The inductive invariant says three things of a resampler that converts: *)
(* its buffer ends at the newest frame and starts no later than the next   *)
(* kernel, its position is emitted * in / out exactly, and a loop of       *)
(* push_into that ended left nothing undone.                               *)
(***************************************************************************)
EXTENDS LoopbackCapture, TLAPS

\* The quotient and the remainder of a division.
LEMMA DivMod ==
  ASSUME NEW a \in Nat, NEW b \in Nat \ {0}
  PROVE  /\ a \div b \in Nat
         /\ a % b \in Nat
         /\ a % b < b
         /\ a = (a \div b) * b + (a % b)
  BY SMT

\* Multiplication by a natural number is monotone.
LEMMA MulMono ==
  ASSUME NEW a \in Int, NEW b \in Int, NEW c \in Nat, a <= b
  PROVE  a * c <= b * c
  BY SMT

\* Multiplication distributes over addition.
LEMMA Distributes ==
  ASSUME NEW a \in Int, NEW b \in Int, NEW c \in Int
  PROVE  (a + b) * c = a * c + b * c
  BY SMT

PacketType ==
  [frames : Nat, first : Nat, late : Nat, start_frame : Nat,
   first_input : Nat, first_output : Nat]
BlockType ==
  [time : Int, late : Nat, first_output : Nat, samples : Nat, origin : Nat]

TypeOK ==
  /\ resampler \in Resampler
  /\ pc \in Running \cup {"none", "open", "exited"}
  /\ device \in Nat
  /\ packet \in PacketType
  /\ delivered \in BlockType
  /\ origin \in Nat
  /\ emitted \in Nat

\* What holds of a resampler r that has emitted e frames since its reset.
Consistent(r, e) ==
  IF Passthrough(r)
  THEN r.frame = r.received /\ r.phase = 0 /\ e = r.received
  ELSE /\ r.start + r.size = r.received
       /\ r.start <= r.frame - r.half + 1
       /\ r.phase < r.out
       /\ Position(r) = e * r.in
       /\ e > 0 => (e - 1) * r.in < (r.received - r.half) * r.out

\* push_into has emitted all it can.
Drained(r) == Passthrough(r) \/ r.frame + r.half >= r.received

\* The packet in work is the newest part of what the resampler received.
PacketIsNewest ==
  /\ pc \in {"loop", "wait", "next", "interpolate", "deliver"} =>
       device = origin + resampler.received
  /\ pc = "push" =>
       /\ device = origin + resampler.received + packet.frames
       /\ packet.first = origin + resampler.received
  /\ pc \in {"interpolate", "deliver"} =>
       /\ packet.first = origin + packet.start_frame
       /\ packet.first_input = packet.first_output * resampler.in

IInv ==
  /\ TypeOK
  /\ Consistent(resampler, emitted)
  /\ pc \in Running \ {"interpolate"} => Drained(resampler)
  /\ PacketIsNewest
  /\ TimestampsAreTrue

-----------------------------------------------------------------------------
(* The resampler's operators keep Consistent.                              *)

LEMMA ResetConsistent ==
  ASSUME NEW r \in Resampler
  PROVE  /\ Reset(r) \in Resampler
         /\ Consistent(Reset(r), 0)
         /\ Drained(Reset(r))
         /\ Reset(r).received = 0
         /\ Reset(r).in = r.in /\ Reset(r).out = r.out
  BY SMT DEF Reset, With, Resampler, Consistent, Drained, Passthrough, Position

LEMMA InsertConsistent ==
  ASSUME NEW r \in Resampler, NEW n \in Nat, NEW e \in Nat, Consistent(r, e)
  PROVE  /\ Insert(r, n) \in Resampler
         /\ Consistent(Insert(r, n), IF Passthrough(r) THEN e + n ELSE e)
         /\ Insert(r, n).received = r.received + n
         /\ Insert(r, n).in = r.in /\ Insert(r, n).out = r.out
         /\ Position(r) = e * r.in
<1>1. CASE Passthrough(r)
  BY <1>1, SMT DEF Insert, With, Resampler, Consistent, Passthrough, Position
<1>2. CASE ~Passthrough(r)
  <2>1. (r.received - r.half) * r.out <= (r.received + n - r.half) * r.out
    BY MulMono, SMT DEF Resampler
  <2> QED
    BY <1>2, <2>1, SMT DEF Insert, With, Resampler, Consistent, Passthrough, Position
<1> QED
  BY <1>1, <1>2

LEMMA AdvanceConsistent ==
  ASSUME NEW r \in Resampler, NEW e \in Nat, Consistent(r, e),
         CanInterpolate(r)
  PROVE  /\ Advance(r) \in Resampler
         /\ Consistent(Advance(r), e + 1)
         /\ Advance(r).received = r.received
         /\ Advance(r).in = r.in /\ Advance(r).out = r.out
<1> DEFINE q == (r.phase + r.in) \div r.out
           m == (r.phase + r.in) % r.out
<1>1. /\ q \in Nat /\ m \in Nat /\ m < r.out
      /\ r.phase + r.in = q * r.out + m
  <2>1. r.phase + r.in \in Nat /\ r.out \in Nat \ {0}
    BY SMT DEF Resampler
  <2> QED
    BY <2>1, DivMod
<1>2. /\ Advance(r)
            = With(r, r.start, r.size, r.frame + q, m, r.received)
      /\ ~Passthrough(r)
  BY SMT DEF Advance, Resampler, CanInterpolate
<1> HIDE DEF q, m
<1>3. Advance(r) \in Resampler
  BY <1>1, <1>2, SMT DEF Resampler, With
<1>4. Position(Advance(r)) = (e + 1) * r.in
  <2>1. (r.frame + q) * r.out = r.frame * r.out + q * r.out
    BY <1>1, Distributes, SMT DEF Resampler
  <2>2. (e + 1) * r.in = e * r.in + r.in
    BY Distributes, SMT DEF Resampler
  <2>3. Position(Advance(r)) = (r.frame + q) * r.out + m
    BY <1>2, SMT DEF Position, With
  <2>4. r.frame * r.out + r.phase = e * r.in
    BY <1>2 DEF Position, Consistent
  <2> QED
    BY <1>1, <2>1, <2>2, <2>3, <2>4, SMT DEF Resampler
<1>5. e * r.in < (r.received - r.half) * r.out
  <2>1. (r.frame + 1) * r.out <= (r.received - r.half) * r.out
    BY <1>2, MulMono, SMT DEF CanInterpolate, Consistent, Resampler
  <2>2. (r.frame + 1) * r.out = r.frame * r.out + r.out
    BY Distributes, SMT DEF Resampler
  <2> QED
    BY <1>2, <2>1, <2>2, SMT DEF Consistent, Position, Resampler
<1> QED
  BY <1>1, <1>2, <1>3, <1>4, <1>5, SMT
     DEF Consistent, Passthrough, Resampler, With

LEMMA DiscardConsistent ==
  ASSUME NEW r \in Resampler, NEW e \in Nat, Consistent(r, e),
         ~CanInterpolate(r)
  PROVE  /\ Discard(r) \in Resampler
         /\ Consistent(Discard(r), e)
         /\ Drained(Discard(r))
         /\ Discard(r).received = r.received
         /\ Discard(r).in = r.in /\ Discard(r).out = r.out
  BY SMT DEF Discard, With, Resampler, Consistent, Drained, CanInterpolate,
             Passthrough, Position
-----------------------------------------------------------------------------
(* The invariant.                                                          *)

LEMMA InitInvariant == Init => IInv
<1> SUFFICES ASSUME Init PROVE IInv
  OBVIOUS
<1>1. PICK in \in InRates, out \in OutRates, half \in HalfWidths :
        resampler = New(in, out, half)
  BY DEF Init
<1>2. /\ resampler \in Resampler
      /\ Consistent(resampler, 0)
  BY <1>1, LoopbackAssumption, SMT
     DEF LoopbackAssumption, New, Reset, With, Resampler, Consistent,
         Passthrough, Position
<1> QED
  BY <1>2, SMT DEF Init, IInv, TypeOK, PacketIsNewest, Running, PacketType,
                   BlockType, NoPacket, NewPacket, NoBlock,
                   TimestampsAreTrue

\* GetBuffer takes a packet, after a discontinuity into a fresh resampler.
LEMMA GetBufferInvariant ==
  ASSUME IInv, NEW n \in Packets, NEW gap \in Gaps, NEW late \in {0, 1},
         NEW d \in BOOLEAN, GetBuffer(n, gap, late, d)
  PROVE  IInv'
<1> USE DEF IInv, TypeOK
<1>1. n \in Nat /\ gap \in Nat /\ late \in Nat
  BY LoopbackAssumption DEF LoopbackAssumption
<1>2. /\ packet' = NewPacket(n, device + gap, late)
      /\ device' = device + gap + n
      /\ delivered' = NoBlock
      /\ pc = "next" /\ pc' = "push"
  BY DEF GetBuffer
<1>3. /\ packet' \in PacketType
      /\ packet'.frames = n /\ packet'.first = device + gap
      /\ delivered' \in BlockType
      /\ TimestampsAreTrue'
  BY <1>1, <1>2, SMT DEF NewPacket, NoBlock, PacketType, BlockType,
                         TimestampsAreTrue
<1>4. /\ resampler' \in Resampler
      /\ Consistent(resampler', emitted')
      /\ Drained(resampler')
      /\ origin' \in Nat /\ emitted' \in Nat
      /\ origin' + resampler'.received = device + gap
  <2>1. CASE d
    BY <1>1, <2>1, ResetConsistent, SMT DEF GetBuffer
  <2>2. CASE ~d
    BY <1>1, <1>2, <2>2, SMT DEF GetBuffer, PacketIsNewest, Running, Resampler
  <2> QED
    BY <2>1, <2>2
<1> QED
  BY <1>1, <1>2, <1>3, <1>4, SMT DEF PacketIsNewest, Running, Resampler

LEMMA PushInvariant == ASSUME IInv, Push PROVE IInv'
<1> USE DEF IInv, TypeOK
<1> DEFINE r == resampler
           n == packet.frames
<1>1. n \in Nat /\ r \in Resampler
  BY DEF PacketType
<1>2. /\ Insert(r, n) \in Resampler
      /\ Consistent(Insert(r, n), IF Passthrough(r) THEN emitted + n
                                  ELSE emitted)
      /\ Insert(r, n).received = r.received + n
      /\ Insert(r, n).in = r.in /\ Insert(r, n).out = r.out
      /\ Position(r) = emitted * r.in
  BY <1>1, InsertConsistent
<1>3. /\ packet' \in PacketType
      /\ packet'.start_frame = r.received
      /\ packet'.first = packet.first
      /\ packet'.first_input = emitted * r.in
      /\ packet'.first_output = emitted
  <2>1. Position(r) \in Nat
    BY <1>1, SMT DEF Position, Resampler
  <2> QED
    BY <1>1, <1>2, <2>1, SMT DEF Push, PacketType, Resampler
<1>4. /\ Consistent(resampler', emitted')
      /\ emitted' \in Nat
  BY <1>1, <1>2, SMT DEF Push
<1>5. TimestampsAreTrue'
  BY <1>2, SMT DEF Push, TimestampsAreTrue, FrameTime
<1> QED
  BY <1>1, <1>2, <1>3, <1>4, <1>5, SMT
     DEF Push, PacketIsNewest, Running, Resampler

LEMMA InterpolateInvariant == ASSUME IInv, Interpolate PROVE IInv'
<1> USE DEF IInv, TypeOK
<1>1. /\ Advance(resampler) \in Resampler
      /\ Consistent(Advance(resampler), emitted + 1)
      /\ Advance(resampler).received = resampler.received
      /\ Advance(resampler).in = resampler.in
      /\ Advance(resampler).out = resampler.out
  BY AdvanceConsistent DEF Interpolate
<1>2. TimestampsAreTrue'
  BY <1>1, SMT DEF Interpolate, TimestampsAreTrue, FrameTime
<1> QED
  BY <1>1, <1>2, SMT DEF Interpolate, PacketIsNewest, Running

LEMMA EndPushInvariant == ASSUME IInv, EndPush PROVE IInv'
<1> USE DEF IInv, TypeOK
<1>1. /\ Discard(resampler) \in Resampler
      /\ Consistent(Discard(resampler), emitted)
      /\ Drained(Discard(resampler))
      /\ Discard(resampler).received = resampler.received
      /\ Discard(resampler).in = resampler.in
      /\ Discard(resampler).out = resampler.out
  BY DiscardConsistent DEF EndPush
<1>2. TimestampsAreTrue'
  BY <1>1, SMT DEF EndPush, TimestampsAreTrue, FrameTime
<1> QED
  BY <1>1, <1>2, SMT DEF EndPush, PacketIsNewest, Running

LEMMA DeliverInvariant == ASSUME IInv, Deliver PROVE IInv'
<1> USE DEF IInv, TypeOK
<1> DEFINE r == resampler
<1>1. /\ r \in Resampler /\ r.out \in Nat /\ r.in \in Nat
      /\ packet.first \in Nat /\ packet.late \in Nat
      /\ packet.start_frame \in Nat /\ packet.first_output \in Nat
      /\ packet.first = origin + packet.start_frame
      /\ packet.first_input = packet.first_output * r.in
  BY SMT DEF Resampler, PacketType, PacketIsNewest, Deliver
<1>2. ConvertedTimestamp
        = (origin + packet.late) * r.out + packet.first_output * r.in
  <2>1. packet.first + packet.late
          = (origin + packet.late) + packet.start_frame
    BY <1>1, SMT
  <2>2. (packet.first + packet.late) * r.out
          = (origin + packet.late) * r.out + packet.start_frame * r.out
    BY <1>1, <2>1, Distributes, SMT
  <2> QED
    BY <1>1, <2>2, SMT DEF ConvertedTimestamp, FrameTime
<1>3. delivered' \in BlockType /\ TimestampsAreTrue'
  <2>1. CASE emitted > packet.first_output
    <3>1. delivered' = [time |-> ConvertedTimestamp, late |-> packet.late,
                        first_output |-> packet.first_output,
                        samples |-> emitted - packet.first_output,
                        origin |-> origin]
      BY <2>1 DEF Deliver
    <3>2. emitted - packet.first_output \in Nat
      BY <1>1, <2>1, SMT
    <3>3. ConvertedTimestamp \in Int
      BY <1>1, <1>2, SMT
    <3> QED
      BY <1>1, <1>2, <3>1, <3>2, <3>3
         DEF BlockType, TimestampsAreTrue, FrameTime, Deliver
  <2>2. CASE ~(emitted > packet.first_output)
    BY <2>2 DEF Deliver, TimestampsAreTrue, FrameTime
  <2> QED
    BY <2>1, <2>2
<1> QED
  BY <1>3, SMT DEF Deliver, PacketIsNewest, Running, PacketType, NoPacket,
                   NewPacket

\* Opening the device resets the resampler and everything that belongs to it.
LEMMA OpenInvariant == ASSUME IInv, Open PROVE IInv'
  BY ResetConsistent, SMT
     DEF IInv, TypeOK, Open, PacketIsNewest, Running, PacketType, BlockType,
         NoPacket, NewPacket, NoBlock, TimestampsAreTrue

\* Every step keeps the invariant.
LEMMA NextInvariant == IInv /\ [Next]_vars => IInv'
<1> SUFFICES ASSUME IInv, [Next]_vars PROVE IInv'
  OBVIOUS
<1>1. CASE Start \/ Stop \/ Joined \/ Play
  BY <1>1 DEF IInv, TypeOK, Start, Stop, Joined, Play, Join, pushVars, Running,
              PacketIsNewest, TimestampsAreTrue, FrameTime
<1>2. CASE Fail \/ Loop \/ Leave \/ TimeOut \/ Wake \/ NoMorePackets
  BY <1>2 DEF IInv, TypeOK, Fail, Loop, Leave, TimeOut, Wake, NoMorePackets,
              pushVars, Running, PacketIsNewest, TimestampsAreTrue, FrameTime
<1>3. CASE Packet
  BY <1>3, GetBufferInvariant DEF Packet
<1>4. CASE Open
  BY <1>4, OpenInvariant
<1>5. CASE Push
  BY <1>5, PushInvariant
<1>6. CASE Interpolate
  BY <1>6, InterpolateInvariant
<1>7. CASE EndPush
  BY <1>7, EndPushInvariant
<1>8. CASE Deliver
  BY <1>8, DeliverInvariant
<1>9. CASE UNCHANGED vars
  BY <1>9 DEF IInv, TypeOK, vars, pushVars, PacketIsNewest,
              TimestampsAreTrue, FrameTime
<1> QED
  BY <1>1, <1>2, <1>3, <1>4, <1>5, <1>6, <1>7, <1>8, <1>9 DEF Next, Thread

THEOREM Invariance == Spec => []IInv
  BY InitInvariant, NextInvariant, PTL DEF Spec

-----------------------------------------------------------------------------
(* The theorems.                                                           *)

\* The resampler never reads outside its buffer: the buffer starts no later
\* than the next kernel, and the loop condition puts the kernel's end before
\* the buffer's.
THEOREM BufferedTaps == Spec => []TapsAreBuffered
<1>1. IInv => TapsAreBuffered
  BY SMT DEF IInv, TypeOK, TapsAreBuffered, Consistent, CanInterpolate, Taps,
             Buffered, Resampler
<1> QED
  BY <1>1, Invariance, PTL

\* The output is a function of the input, however it is cut into packets.
THEOREM ExactOutput == Spec => []OutputIsExact
<1> DEFINE r == resampler
<1>1. ASSUME IInv, pc \in {"next", "deliver"}, ~Passthrough(r)
      PROVE  ~(emitted * r.in < (r.received - r.half) * r.out)
  <2>1. /\ r \in Resampler /\ emitted \in Nat
        /\ r.frame >= r.received - r.half
        /\ r.frame * r.out + r.phase = emitted * r.in
    BY <1>1, SMT DEF IInv, TypeOK, Running, Drained, Consistent, Position,
                     Resampler
  <2>2. (r.received - r.half) * r.out <= r.frame * r.out
    BY <2>1, MulMono, SMT DEF Resampler
  <2> QED
    BY <2>1, <2>2, SMT DEF Resampler
<1>2. IInv => OutputIsExact
  BY <1>1, SMT DEF IInv, OutputIsExact, Due, Consistent
<1> QED
  BY <1>2, Invariance, PTL

\* What is handed to the plug-in carries the time it was captured at.
THEOREM TrueTimestamps == Spec => []TimestampsAreTrue
<1>1. IInv => TimestampsAreTrue
  BY DEF IInv
<1> QED
  BY <1>1, Invariance, PTL
===============================================================================
