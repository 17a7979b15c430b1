------------------------------ MODULE MCOutbox ------------------------------
(***************************************************************************)
(* Instances of Outbox for TLC.  One event has a handler, whose attempts   *)
(* may end either way, and of the other nobody registered the type, so it  *)
(* can only fail and wait for the operator.  An ignored event does nothing *)
(* that the handled one may not do too.                                    *)
(***************************************************************************)
EXTENDS Outbox

CONSTANTS handled, unrouted, c1, c2, d1, d2

MCEvents == {handled, unrouted}
MCCallers == {c1, c2}
MCDispatchers == {d1, d2}
MCHandled == {handled}
MCIgnored == {}
=============================================================================
