--------------------------- MODULE MCProgression ---------------------------
(***************************************************************************)
(* The instance of Progression and ProgressionStore for TLC.  The readers, *)
(* the snapshots and the goals share nothing but the history: a behaviour  *)
(* is about one of them, picked in the initial state.  The snapshots and   *)
(* the goals are about one competency, so only its readings matter there.  *)
(***************************************************************************)
EXTENDS ProgressionStore

CONSTANTS c1, c2, s1, s2, t1, t2

VARIABLE part   \* "readers", "readiness" or "goals"

\* Between equals the catalogue's order decides: competencies are no symmetry.
TwoInOrder == <<c1, c2>>
LowThenHigh == <<0, 1>>
TwoSavers == {s1, s2}
TwoTrackers == {t1, t2}
Alike == Permutations(TwoSavers) \cup Permutations(TwoTrackers)

\* The readings of the subject, on the first and the last day.  An answer
\* names the reading it rests on: for what tells two answers apart, one band
\* is enough.
OfSubject(bands) ==
  observations' # observations =>
    LET row == Last(observations') IN
    /\ row.competency = Subject /\ row.as = "placed"
    /\ row.day \in {0, Today} /\ row.band \in bands

PartsInit == StoreInit /\ part \in {"readers", "readiness", "goals"}

PartsNext ==
  /\ UNCHANGED part
  /\ \/ part = "readers" /\ Observe
     \/ part = "readiness" /\ ReadinessNext /\ OfSubject({Best})
     \/ part = "goals" /\ GoalsNext /\ OfSubject(Bands)

PartsSpec == PartsInit /\ [][PartsNext]_<<part, storeVars>>
=============================================================================
