---------------------------- MODULE MCWorkflows ----------------------------
(***************************************************************************)
(* A small instance of the background work.                                *)
(***************************************************************************)
EXTENDS Workflows

CONSTANTS o1, r1, b1, v1, v2, n1, n2, e1, e2

OneOrdinary == {o1}
OneRedo == {r1}
OneDigest == {b1}
TwoVersions == {v1, v2}
TwoMails == {n1, n2}
TwoSenders == {e1, e2}
=============================================================================
