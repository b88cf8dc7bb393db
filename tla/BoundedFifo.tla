----------------------------- MODULE BoundedFifo -----------------------------
(***************************************************************************)
(* What the frame queues between the audio thread and the GPU worker       *)
(* promise: a bounded first-in-first-out queue.  The consumer looks at the *)
(* oldest frame, in full, before it removes it, and may also remove it     *)
(* without looking.                                                        *)
(***************************************************************************)
EXTENDS Naturals, Sequences

CONSTANTS
  Frames,     \* what is queued
  Nothing,    \* the consumer holds no frame
  Capacity

VARIABLES
  queue,      \* the frames queued, oldest first
  held        \* the frame the consumer has read, or Nothing

vars == <<queue, held>>

TypeOK ==
  /\ queue \in Seq(Frames)
  /\ Len(queue) <= Capacity
  /\ held \in Frames \cup {Nothing}

Init ==
  /\ queue = <<>>
  /\ held = Nothing

Push(frame) ==
  /\ Len(queue) < Capacity
  /\ queue' = Append(queue, frame)
  /\ UNCHANGED held

Read ==
  /\ queue # <<>>
  /\ held' = Head(queue)
  /\ UNCHANGED queue

\* The consumer keeps the frame queued and looks again later.
Release ==
  /\ held' = Nothing
  /\ UNCHANGED queue

Pop ==
  /\ queue # <<>>
  /\ queue' = Tail(queue)
  /\ held' = Nothing

Clear ==
  /\ held = Nothing
  /\ queue' = <<>>
  /\ UNCHANGED held

Next ==
  \/ \E frame \in Frames : Push(frame)
  \/ Read
  \/ Release
  \/ Pop
  \/ Clear

Spec == Init /\ [][Next]_vars

=============================================================================
