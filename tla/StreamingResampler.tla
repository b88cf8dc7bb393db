-------------------------- MODULE StreamingResampler --------------------------
(***************************************************************************)
(* StreamingResampler (src/src/application/streaming_resampler.cpp) as a   *)
(* value and the operators its callers apply to it.                        *)
(*                                                                         *)
(* Samples are left out: buffer_ is the interval of input frames           *)
(* start..start+size-1.  The next input position is an exact fraction, the *)
(* input frame `frame` and `phase` / out of a frame, where the code adds a *)
(* double.  The kernel table is a constant of the object.                  *)
(***************************************************************************)
EXTENDS Integers

Resampler ==
  [in : Nat \ {0}, out : Nat \ {0}, half : Nat \ {0, 1, 2, 3},
   start : Int, size : Nat, frame : Nat, phase : Nat, received : Nat]

Passthrough(r) == r.in = r.out

\* r with other contents; the constructor's arguments stay.
With(r, start, size, frame, phase, received) ==
  [in |-> r.in, out |-> r.out, half |-> r.half, start |-> start,
   size |-> size, frame |-> frame, phase |-> phase, received |-> received]

\* Mutation of Reset: the history of zeros is placed from frame 0 on.
Reset_Late(r) ==
  With(r, 0, IF Passthrough(r) THEN 0 ELSE r.half, 0, 0, 0)

\* The buffer of a resampler that converts starts with half frames of zeros,
\* which stand before the first input frame.
Reset(r) ==
  IF Passthrough(r) THEN With(r, 0, 0, 0, 0, 0)
  ELSE With(r, -r.half, r.half, 0, 0, 0)

New(in, out, half) == Reset([in |-> in, out |-> out, half |-> half])

\* push_into takes n frames; at equal rates it hands them on at once.
Insert(r, n) ==
  IF Passthrough(r)
  THEN With(r, r.start, r.size, r.received + n, r.phase, r.received + n)
  ELSE With(r, r.start, r.size + n, r.frame, r.phase, r.received + n)

\* Mutation of CanInterpolate: an output frame is computed one frame early.
CanInterpolate_Early(r) ==
  ~Passthrough(r) /\ r.frame + r.half <= r.start + r.size

\* The loop of push_into goes on while the newest frame the kernel needs is
\* there.
CanInterpolate(r) ==
  ~Passthrough(r) /\ r.frame + r.half <= r.start + r.size - 1

\* What interpolate reads: half frames up to the position, and half after it.
Taps(r) == (r.frame - r.half + 1)..(r.frame + r.half)
Buffered(r) == r.start..(r.start + r.size - 1)

Advance(r) ==
  With(r, r.start, r.size, r.frame + ((r.phase + r.in) \div r.out),
       (r.phase + r.in) % r.out, r.received)

\* Frames before the next kernel's first are discarded.  A step down in rate
\* may put that first frame behind everything received so far.
Discard(r) ==
  LET needed == r.frame - r.half + 1
      n == IF needed - r.start <= r.size THEN needed - r.start ELSE r.size
  IN  IF Passthrough(r) \/ needed <= r.start THEN r
      ELSE With(r, r.start + n, r.size - n, r.frame, r.phase, r.received)

\* Times in units of 1/out of an input frame: the next output position, and
\* that of input frame f.
Position(r) == r.frame * r.out + r.phase
FrameTime(r, f) == f * r.out
===============================================================================
