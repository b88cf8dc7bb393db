--------------------------- MODULE MCCaptureHook ---------------------------
(* CaptureHook for TLC: the microphones are interchangeable.               *)
EXTENDS CaptureHook

Symmetry == Permutations(Endpoints)
=============================================================================
