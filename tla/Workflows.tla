----------------------------- MODULE Workflows ------------------------------
(***************************************************************************)
(* Three pieces of background work that share no state, side by side: the  *)
(* composition of sessions, the evaluation of one and the email queue.  A  *)
(* behaviour is a behaviour of one of them, picked in the initial state.   *)
(***************************************************************************)
EXTENDS Composition, Evaluation, EmailQueue

VARIABLE part

WorkflowsInit ==
  /\ part \in {"composition", "evaluation", "mail"}
  /\ CompositionInit /\ EvaluationInit /\ MailInit
  /\ part # "composition" => link = None

WorkflowsNext ==
  /\ UNCHANGED part
  /\ \/ /\ part = "composition" /\ CompositionNext
        /\ UNCHANGED <<evaluationVars, mailVars>>
     \/ /\ part = "evaluation" /\ EvaluationNext
        /\ UNCHANGED <<compositionVars, mailVars>>
     \/ /\ part = "mail" /\ MailNext
        /\ UNCHANGED <<compositionVars, evaluationVars>>

\* A part that was not picked never leaves its initial state, where none of
\* its fair actions is enabled.
WorkflowsSpec ==
  /\ WorkflowsInit /\ [][WorkflowsNext]_<<part, compositionVars, evaluationVars, mailVars>>
  /\ WorkerFairness /\ EvaluationFairness /\ MailFairness

\* Every part keeps to its types.
TypeOK == CompositionTypeOK /\ EvaluationTypeOK /\ MailTypeOK

\* What was decided stands: a session that was composed or failed, one that
\* was evaluated or failed, an email that was sent or given up (each is the
\* property of its module, about its guarded updates).
OutcomesStand == OutcomeKept /\ DecisionStands /\ StatusForward

\* What was begun ends: a draft is composed or fails, a session waiting for
\* its evaluation gets one or fails, an email is sent or given up (the
\* workflows and the sender, with their retries and limits).
EventuallyEnds == EventuallyDecided /\ EventuallyEvaluated /\ EventuallyMailed
=============================================================================
