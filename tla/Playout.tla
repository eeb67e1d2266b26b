------------------------------- MODULE Playout -------------------------------
(***************************************************************************)
(* What the media path promises: frames that were captured are played       *)
(* whole, each at most once, and never one that is older than the last.     *)
(* Frames may be missing.                                                   *)
(***************************************************************************)
EXTENDS Integers, Sequences

CONSTANT MaxFrames, ChunksOf

VARIABLES captured, played

Frame(f) == [seq |-> f, parts |-> 0..(ChunksOf[f] - 1)]

Init == captured = 0 /\ played = <<>>

Capture == captured < MaxFrames /\ captured' = captured + 1 /\ UNCHANGED played

Play ==
  \E f \in 0..(captured - 1) :
    /\ played = <<>> \/ f > played[Len(played)].seq
    /\ played' = Append(played, Frame(f))
    /\ UNCHANGED captured

Spec == Init /\ [][Capture \/ Play]_<<captured, played>>
=============================================================================
