--------------------------- MODULE MCLiveSession ---------------------------
(***************************************************************************)
(* Instances of LiveSession for TLC: requests are interchangeable within a *)
(* command, attempts are the epochs 1 .. n.                                *)
(***************************************************************************)
EXTENDS LiveSession, TLC

CONSTANTS s1, s2, i1, i2, r1, c1

OneStarter == {s1}
TwoStarters == {s1, s2}
TwoIngesters == {i1, i2}
OneResumer == {r1}
OneCompleter == {c1}
NoRequest == {}
OneAttempt == {1}
TwoAttempts == {1, 2}

Everyone == Threads

Interchangeable ==
  Permutations(Starters) \cup Permutations(Ingesters)
    \cup Permutations(Resumers) \cup Permutations(Completers)
=============================================================================
