------------------------- MODULE MCControlTimeline -------------------------
(***************************************************************************)
(* Instances of ControlTimeline for TLC.                                   *)
(***************************************************************************)
EXTENDS ControlTimeline, TLC

CONSTANTS p1, p2, g1, a1, a2

TwoPosts == {p1, p2}
OneAgent == {g1}
OneChain == {a1}
TwoChains == {a1, a2}
NothingNamed == {}
SecondNamed == {2}

Interchangeable == Permutations(Agents) \cup Permutations(Attempts)
=============================================================================
