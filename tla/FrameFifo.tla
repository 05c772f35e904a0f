----------------------------- MODULE FrameFifo -----------------------------
(***************************************************************************)
(* What a data queue of the media library promises its users: frames come  *)
(* out whole, once and in the order they went in, and the frame a reader   *)
(* holds stays what it was until the reader gives it back.                 *)
(***************************************************************************)
EXTENDS Naturals, Sequences

CONSTANTS
  Frames,     \* what can be sent
  NoFrame     \* no frame: the reader holds nothing

VARIABLES
  pending,    \* the frames sent and not yet read, oldest first
  held        \* the frame the reader works on, or NoFrame

vars == <<pending, held>>

Init == pending = <<>> /\ held = NoFrame

\* A writer completes a frame.
Put == \E f \in Frames : pending' = Append(pending, f) /\ UNCHANGED held

\* The reader takes the oldest frame.
Take ==
  /\ held = NoFrame /\ pending # <<>>
  /\ held' = Head(pending) /\ pending' = Tail(pending)

\* The reader gives the frame back.
Release == held # NoFrame /\ held' = NoFrame /\ UNCHANGED pending

\* Everything that is waiting is thrown away.
Drain == pending' = <<>> /\ UNCHANGED held

Next == Put \/ Take \/ Release \/ Drain

Spec == Init /\ [][Next]_vars
=============================================================================
