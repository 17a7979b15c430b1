---------------------------- MODULE MCRecording ----------------------------
(***************************************************************************)
(* The instance of Recording for TLC: deliveries are interchangeable, and  *)
(* so are completions.                                                     *)
(***************************************************************************)
EXTENDS Recording, TLC

CONSTANTS d1, d2, c1, c2

TwoTracks == {1, 2}
TwoDeliveries == {d1, d2}
TwoCompleters == {c1, c2}

Interchangeable == Permutations(TwoDeliveries) \cup Permutations(TwoCompleters)
=============================================================================
