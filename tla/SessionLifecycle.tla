-------------------------- MODULE SessionLifecycle --------------------------
(***************************************************************************)
(* The interview session's state machine (internal/interview/machine.go):  *)
(* the diagram, and the promise Store.Transition makes about it.  Every    *)
(* change of state follows an edge of the diagram and is counted by the    *)
(* row's version, so nothing moves a session without its version moving.   *)
(***************************************************************************)
EXTENDS Naturals

States ==
  {"draft", "composing", "composition_failed", "ready", "connecting", "in_progress",
   "reconnecting", "finalizing", "finalization_failed", "evaluating", "evaluation_failed",
   "review_ready", "archived", "cancelled", "expired", "interrupted"}

\* transitions: the edges; a state with no row here is terminal.
Edges ==
  {<<"draft", "composing">>, <<"draft", "cancelled">>,
   <<"composing", "ready">>, <<"composing", "composition_failed">>,
   <<"composition_failed", "composing">>,
   <<"ready", "connecting">>, <<"ready", "expired">>,
   <<"connecting", "in_progress">>, <<"connecting", "ready">>,
   <<"in_progress", "reconnecting">>, <<"in_progress", "finalizing">>,
   <<"reconnecting", "in_progress">>, <<"reconnecting", "finalizing">>,
   <<"finalizing", "evaluating">>, <<"finalizing", "finalization_failed">>,
   <<"finalization_failed", "finalizing">>,
   <<"evaluating", "review_ready">>, <<"evaluating", "evaluation_failed">>,
   <<"evaluation_failed", "evaluating">>,
   <<"review_ready", "archived">>}

CanTransition(from, to) == <<from, to>> \in Edges

VARIABLES state, version

Init == state \in States /\ version \in Nat

Move ==
  \E to \in States :
    /\ CanTransition(state, to)
    /\ state' = to
    /\ version' = version + 1

Spec == Init /\ [][Move]_<<state, version>>
=============================================================================
