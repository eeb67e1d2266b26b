------------------------------- MODULE MCRelay -------------------------------
(***************************************************************************)
(* Small instances of Relay for TLC.  Calls are interchangeable, and so are *)
(* tokens and instances: a permutation of each is a symmetry of the safety  *)
(* properties, and a liveness property stated of one call (without the      *)
(* symmetry reduction) is one stated of every call.                         *)
(***************************************************************************)
EXTENDS Relay, TLC

CONSTANTS s1, s2, s3, t1, t2, i1, i2

TwoStreams == {s1, s2}
ThreeStreams == {s1, s2, s3}

Symmetry == Permutations(ThreeStreams)
            \union Permutations({t1, t2}) \union Permutations({i1, i2})

\* Of two callers with one token neither is left waiting beside the other: one
\* gets a partner, and a waiter that has been claimed forwards (Stream's map and
\* its select), unless a call is over.
TwoCallersMeet == CallersMeet(s1, s2) /\ ClaimedWaiterResumes(s1)

\* All of a client's frames reach its partner while both calls last.
AllFramesArrive == FramesArrive(s1, MaxFrames)

\* The next frame tells a client that its partner is gone (pipeOneDirection).
LossIsReported == NextFrameReportsLoss(s1)

\* A cancelled call's handler returns (Stream, pipeOneDirection).
GoneIsReleased == GoneCallIsReleased(s1)

\* relay.go:58, "until either side disconnects".
EitherSideEnds == EitherSideEndsBoth(s1)
=============================================================================
