----------------------------- MODULE Evaluation -----------------------------
(***************************************************************************)
(* From a sealed session to its result (evaluation/workflow.go,            *)
(* evaluation/evidence.go, result.go, stages.go, rubric.go and the         *)
(* worker's evaluation_routes.go), for one session.                        *)
(*                                                                         *)
(* The completing process publishes session_completed with the transition  *)
(* to finalizing and moves the session to evaluating in a transaction of   *)
(* its own.  The event starts one workflow per session, which extracts and *)
(* stores the evidence, aggregates what is stored behind a gate that reads *)
(* it again, and otherwise publishes evaluation.failed.  An activity is    *)
(* several transactions; an attempt that is given up may still run the     *)
(* rest of them, next to the attempt that replaces it.  Its two events     *)
(* decide the session, if they find it evaluating.  Spans are kept as the  *)
(* batches Replace writes: an extractor version and a number that stands   *)
(* for the fresh span ids.                                                 *)
(***************************************************************************)
EXTENDS Naturals, FiniteSets

CONSTANTS
  Versions,      \* extractor versions the intelligence plane may answer with
  Unknown,       \* the version of an extraction that found nothing
  MaxAttempts,   \* attempts of an activity (5)
  MaxFaults,     \* bound: attempts given up, handlers that die
  NoResult

Batches == [version : Versions, batch : Nat]
Results == [evidence : SUBSET Batches, version : Versions \cup {Unknown}]

ASSUME EvaluationAssumption ==
  /\ Unknown \notin Versions /\ MaxAttempts \in Nat \ {0} /\ MaxFaults \in Nat
  /\ NoResult \notin Results

Kinds == {"completed", "failed"}

VARIABLES
  asked,      \* the session_completed event: none yet, pending or handled
  activity,   \* the activity the workflow runs, or where it ended
  attempt,    \* the attempt under way
  tries,      \* attempts of this activity that failed
  late,       \* attempts given up, with what they may still do
  spans,      \* the stored batches (evaluation.evidence_spans)
  batches,    \* Replaces that stored spans so far
  latest,     \* per version: the number after its last Replace
  recorded,   \* outcomes of the aggregation stage (append-only)
  result,     \* the session's row of evaluation.results
  published,  \* per kind: events published
  owed,       \* per kind: events not yet handled
  handler,    \* per kind: where the handler is
  seen,       \* per kind: the session as the handler read it, or Unread
  session,    \* the interview session's state and version
  history,    \* results projected into competency observations
  missed,     \* whether a handler found the session still finalizing
  faults      \* faults so far

workflow == <<activity, attempt, tries, late>>
store == <<spans, batches, latest, recorded, result, published>>
handlers == <<owed, handler, seen, session, history, missed>>
evaluationVars == <<asked, workflow, store, handlers, faults>>

Waiting == {"finalizing", "evaluating"}
Judged == {"review_ready", "evaluation_failed"}
Row == [state : {"in_progress"} \cup Waiting \cup Judged, version : Nat]
Unread == [state |-> "in_progress", version |-> 0]

\* A fresh attempt of an activity and its first transaction.
FirstStep == [ExtractAndStore |-> "call", Aggregate |-> "list", PublishFailed |-> "publish"]
Attempt(name, version) ==
  [of |-> name, step |-> FirstStep[name], version |-> version, found |-> "nothing", listed |-> {}]

EvaluationInit ==
  /\ asked = "none"
  /\ activity = "none" /\ attempt = Attempt("ExtractAndStore", Unknown)
  /\ tries = 0 /\ late = {}
  /\ spans = {} /\ batches = 0 /\ latest = [v \in Versions |-> 0] /\ recorded = {} /\ result = NoResult
  /\ published = [k \in Kinds |-> 0] /\ owed = [k \in Kinds |-> 0]
  /\ handler = [k \in Kinds |-> "idle"]
  /\ session = Unread /\ seen = [k \in Kinds |-> Unread]
  /\ history = {} /\ missed = FALSE /\ faults = 0

Fault == faults < MaxFaults /\ faults' = faults + 1

----------------------------------------------------------------------------
(* The transactions of the activities: attempt a becomes attempt b.  The   *)
(* steps "ok", "again" and "refused" are the answers: done, an error worth *)
(* another attempt, an error that is final.                                *)

At(a, step) == [a EXCEPT !.step = step]

\* Mutant: the batches of every version go.
DeleteEverything(v) == spans

\* DeleteEvidence: the spans of this version that are committed when it runs;
\* those of an overlapping Replace are not.
DeleteEvidence(v) == {s \in spans : s.version = v}

\* Replace begins for a reading of version v that found f; contradiction pairs
\* alone carry a version and store no spans.
Reading(a, v, f) ==
  [At(a, "replace") EXCEPT !.version = v, !.found = f, !.listed = DeleteEvidence(v)]
Readings(a) ==
  {Reading(a, v, "spans") : v \in Versions} \cup
  {Reading(a, v, "nothing") : v \in Versions \cup {Unknown}}

\* The extractor, the gate on what it answers (Validate and
\* ValidateContradictions) and Replace's DELETE, which is the first to touch
\* the store.  The outcomes this stage records are read by nothing and left out.
Extract(a, b) ==
  /\ a.of = "ExtractAndStore" /\ a.step = "call"
  /\ b \in Readings(a) \cup {At(a, "again"), At(a, "refused")}
  /\ UNCHANGED <<store, owed>>

\* Store.Replace commits: what it deleted goes, its spans come with fresh ids.
Replace(a, b) ==
  /\ a.of = "ExtractAndStore" /\ a.step = "replace"
  /\ b = [At(a, "ok") EXCEPT !.found = "nothing", !.listed = {}]
  /\ batches' = batches + (IF a.found = "spans" THEN 1 ELSE 0)
  /\ latest' = [v \in Versions |-> IF v = a.version THEN batches + 1 ELSE latest[v]]
  /\ spans' = (spans \ a.listed) \cup
       (IF a.found = "spans" THEN {[version |-> a.version, batch |-> batches]} ELSE {})
  /\ UNCHANGED <<recorded, result, published, owed>>

\* The pinned rubric and the first read of the evidence; Aggregate is a pure
\* function of what was listed, span ids included.
List(a, b) ==
  /\ a.of = "Aggregate" /\ a.step = "list"
  /\ b \in {[At(a, "reread") EXCEPT !.listed = spans], At(a, "again"), At(a, "refused")}
  /\ UNCHANGED <<store, owed>>

\* ValidatePublication recomputes from a second read: equal, or never.
Reread(a, b) ==
  /\ a.of = "Aggregate" /\ a.step = "reread"
  /\ b = At(a, IF spans = a.listed THEN "store" ELSE "refused")
  /\ UNCHANGED <<store, owed>>

\* Mutant: no unique result per session.
AnyResult == TRUE

\* results.session_id is unique.
FirstResult == result = NoResult

\* StoreResult: the row and evaluation.completed in one transaction, or the
\* row that is there.
StoreResult(a, b) ==
  /\ a.of = "Aggregate" /\ a.step = "store" /\ b = [At(a, "record") EXCEPT !.listed = {}]
  /\ IF FirstResult
       THEN /\ result' = [evidence |-> a.listed, version |-> a.version]
            /\ published' = [published EXCEPT !["completed"] = @ + 1]
            /\ owed' = [owed EXCEPT !["completed"] = @ + 1]
       ELSE UNCHANGED <<result, published, owed>>
  /\ UNCHANGED <<spans, batches, latest, recorded>>

\* RecordStage, the last transaction.
RecordStage(a, b) ==
  /\ a.of = "Aggregate" /\ a.step = "record" /\ b = At(a, "ok")
  /\ recorded' = recorded \cup {"completed"}
  /\ UNCHANGED <<spans, batches, latest, result, published, owed>>

\* PublishFailed: a new event every time it runs.
PublishFailed(a, b) ==
  /\ a.of = "PublishFailed" /\ a.step = "publish" /\ b = At(a, "ok")
  /\ published' = [published EXCEPT !["failed"] = @ + 1]
  /\ owed' = [owed EXCEPT !["failed"] = @ + 1]
  /\ UNCHANGED <<spans, batches, latest, recorded, result>>

Runs(a, b) ==
  \/ Extract(a, b) \/ Replace(a, b) \/ List(a, b) \/ Reread(a, b)
  \/ StoreResult(a, b) \/ RecordStage(a, b) \/ PublishFailed(a, b)

Attempts(a) ==
  {At(a, k) : k \in {"store", "ok", "again", "refused"}} \cup Readings(a)
    \cup {[At(a, "ok") EXCEPT !.found = "nothing", !.listed = {}],
          [At(a, "record") EXCEPT !.listed = {}], [At(a, "reread") EXCEPT !.listed = spans]}

Answered(a) == a.step \in {"ok", "again", "refused"}
Running == activity \in {"ExtractAndStore", "Aggregate", "PublishFailed"}

----------------------------------------------------------------------------
(* The workflow.                                                           *)

\* complete, the sealed session's first transition and its event.
SessionCompleted ==
  /\ session.state = "in_progress"
  /\ session' = [state |-> "finalizing", version |-> session.version + 1]
  /\ asked' = "pending"
  /\ UNCHANGED <<workflow, store, owed, handler, seen, history, missed, faults>>

\* Its second transition, which nothing else attempts: if this process dies or
\* fails first, the session stays, for a retry answers the receipt.
SessionEvaluating ==
  /\ session.state = "finalizing"
  /\ session' = [state |-> "evaluating", version |-> session.version + 1]
  /\ UNCHANGED <<asked, workflow, store, owed, handler, seen, history, missed, faults>>

\* An activity with its argument: Aggregate is handed the version extracted.
Starts(name) == Attempt(name, IF name = "Aggregate" THEN attempt.version ELSE Unknown)

\* startEvidence: the reuse policy admits one workflow per session.
StartEvidence ==
  /\ asked = "pending" /\ asked' = "handled"
  /\ IF activity = "none"
       THEN activity' = "ExtractAndStore" /\ attempt' = Starts("ExtractAndStore")
       ELSE UNCHANGED <<activity, attempt>>
  /\ UNCHANGED <<tries, late, store, handlers, faults>>

\* The delivery was not recorded: the event comes again.
CompletedAgain ==
  /\ asked = "handled" /\ Fault /\ asked' = "pending"
  /\ UNCHANGED <<workflow, store, handlers>>

AttemptRuns ==
  /\ Running /\ ~Answered(attempt)
  /\ \E b \in Attempts(attempt) : Runs(attempt, b) /\ attempt' = b
  /\ UNCHANGED <<asked, activity, tries, late, handler, seen, session, history, missed, faults>>

\* The attempt is given up: a transaction failed, its worker died or hangs
\* past the 90 seconds.  What it had left to do may still happen.
GivenUp ==
  /\ Running /\ attempt.step \notin {"again", "refused"} /\ Fault
  /\ late' = late \cup (IF Answered(attempt) THEN {} ELSE {attempt})
  /\ attempt' = At(Starts(activity), "again")
  /\ UNCHANGED <<asked, activity, tries, store, handlers>>

LateRuns ==
  /\ \E a \in late : \E b \in Attempts(a) :
       Runs(a, b) /\ late' = (late \ {a}) \cup (IF Answered(b) THEN {} ELSE {b})
  /\ UNCHANGED <<asked, activity, attempt, tries, handler, seen, session, history, missed, faults>>

\* EvidenceWorkflow: what follows an activity that ended.
Follows(answer) ==
  CASE activity = "ExtractAndStore" /\ answer = "ok" -> "Aggregate"
    [] activity = "Aggregate" /\ answer = "ok" -> "completed"
    [] activity = "PublishFailed" -> "failed"
    [] OTHER -> "PublishFailed"

Retries == attempt.step = "again" /\ tries + 1 < MaxAttempts

\* Temporal's retry policy, then the workflow's own next step.
WorkflowAdvances ==
  /\ Running /\ Answered(attempt)
  /\ IF Retries
       THEN tries' = tries + 1 /\ attempt' = Starts(activity) /\ UNCHANGED activity
       ELSE /\ activity' = Follows(attempt.step) /\ tries' = 0
            /\ attempt' = Starts(IF activity' \in DOMAIN FirstStep THEN activity' ELSE "ExtractAndStore")
  /\ UNCHANGED <<asked, late, store, handlers, faults>>

----------------------------------------------------------------------------
(* recordEvaluationCompleted, appendObservations, recordEvaluationFailure. *)

\* The handler reads the session.
HandlerReads(k) ==
  /\ owed[k] > 0 /\ handler[k] = "idle"
  /\ handler' = [handler EXCEPT ![k] = "read"] /\ seen' = [seen EXCEPT ![k] = session]
  /\ UNCHANGED <<asked, workflow, store, owed, session, history, missed, faults>>

Outcome == [completed |-> "review_ready", failed |-> "evaluation_failed"]

\* The state the handler requires, and TransitionSession's WHERE clause.
Decides(k) == seen[k].state = "evaluating" /\ session = seen[k]

\* The transition; another state, or a stale version, ends quietly, and so does
\* a session that is not evaluating yet.
HandlerMoves(k) ==
  /\ handler[k] = "read"
  /\ session' = IF Decides(k)
                  THEN [state |-> Outcome[k], version |-> session.version + 1]
                  ELSE session
  /\ missed' = (missed \/ seen[k].state = "finalizing")
  /\ handler' = [handler EXCEPT ![k] = "moved"] /\ seen' = [seen EXCEPT ![k] = Unread]
  /\ UNCHANGED <<asked, workflow, store, owed, history, faults>>

\* The completed event is projected too, from the result as stored, onto
\* unique rows; then the delivery is over.
HandlerEnds(k) ==
  /\ handler[k] = "moved"
  /\ history' = IF k = "completed" THEN history \cup {result} ELSE history
  /\ handler' = [handler EXCEPT ![k] = "idle"] /\ owed' = [owed EXCEPT ![k] = @ - 1]
  /\ UNCHANGED <<asked, workflow, store, seen, session, missed, faults>>

\* The worker dies anywhere in the handler; the event stays owed.
HandlerDies(k) ==
  /\ handler[k] # "idle" /\ Fault
  /\ handler' = [handler EXCEPT ![k] = "idle"] /\ seen' = [seen EXCEPT ![k] = Unread]
  /\ UNCHANGED <<asked, workflow, store, owed, session, history, missed>>

EvaluationNext ==
  \/ SessionCompleted \/ SessionEvaluating
  \/ StartEvidence \/ CompletedAgain \/ AttemptRuns \/ GivenUp \/ LateRuns \/ WorkflowAdvances
  \/ \E k \in Kinds : HandlerReads(k) \/ HandlerMoves(k) \/ HandlerEnds(k) \/ HandlerDies(k)

EvaluationSpec == EvaluationInit /\ [][EvaluationNext]_evaluationVars

\* The outbox keeps delivering and the workflow engine keeps running what it
\* started; attempts given up and the completing process owe nothing.
EvaluationFairness ==
  /\ WF_evaluationVars(StartEvidence)
  /\ WF_evaluationVars(AttemptRuns \/ WorkflowAdvances)
  /\ \A k \in Kinds : WF_evaluationVars(HandlerReads(k) \/ HandlerMoves(k) \/ HandlerEnds(k))

FairEvaluationSpec == EvaluationSpec /\ EvaluationFairness

----------------------------------------------------------------------------
EvaluationTypeOK ==
  /\ asked \in {"none", "pending", "handled"}
  /\ activity \in {"none", "completed", "failed"} \cup DOMAIN FirstStep
  /\ attempt.of \in DOMAIN FirstStep /\ tries \in 0 .. MaxAttempts - 1
  /\ \A a \in late : ~Answered(a) /\ a.listed \subseteq Batches
  /\ spans \subseteq Batches /\ batches \in Nat /\ latest \in [Versions -> Nat]
  /\ recorded \subseteq {"completed"}
  /\ result \in Results \cup {NoResult}
  /\ published \in [Kinds -> Nat] /\ owed \in [Kinds -> Nat]
  /\ handler \in [Kinds -> {"idle", "read", "moved"}] /\ seen \in [Kinds -> Row]
  /\ session \in Row /\ missed \in BOOLEAN /\ faults \in 0 .. MaxFaults

\* However many attempts of Aggregate run, in whatever order, one result is
\* stored and announced; the session is only review_ready, the stage only
\* completed and the history only written when that result exists (StoreResult,
\* recordEvaluationCompleted, appendObservations).
ResultOnce ==
  /\ published["completed"] = IF result = NoResult THEN 0 ELSE 1
  /\ result = NoResult => session.state # "review_ready" /\ recorded = {}
  /\ history \subseteq {result} \ {NoResult}

\* What a published result cites is still stored, unless a reading of the same
\* extractor version has been committed since, though Replaces of that version
\* overlap; and with no attempt given up it cites exactly what is stored
\* (Replace, ValidatePublication).
EvidenceSuperseded ==
  result # NoResult =>
    /\ \A s \in result.evidence : s \in spans \/ latest[s.version] > s.batch + 1
    /\ late = {} /\ faults = 0 => result.evidence = spans

\* A decided session is not decided again by the other event, a duplicate or
\* a handler that read it before (both handlers, TransitionSession).
DecisionStands ==
  [][session.state \in Judged => session' = session]_evaluationVars

\* A completed session is never forgotten: its event is still to be delivered,
\* or the workflow is running, or what the workflow published is still to be
\* handled, unless as many attempts were given up as an activity has, or the
\* report was dropped because it came before the move to evaluating, or came
\* to a session whose completing process never made that move (StartEvidence,
\* the workflow's last step, both handlers).
NeverForgotten ==
  session.state \in Waiting =>
    \/ asked = "pending" \/ Running \/ \E k \in Kinds : owed[k] > 0
    \/ missed \/ faults >= MaxAttempts

\* Every completed session is decided, as long as fewer attempts are given up
\* than an activity has, or it misses a report while it is finalizing (the
\* workflow, the outbox, both handlers and complete's two transitions).
EventuallyEvaluated == asked = "pending" ~> session.state \in Judged \/ missed

\* "a published result always resolves back to its evidence" (rubric.go).
ResolvesBack == result # NoResult => result.evidence \subseteq spans

\* "A refusal becomes evaluation.failed.v1 ... and no result row exists"
\* (docs/delivery/tickets/10-evaluation-system.md, EVL-05).
RefusedHasNoResult ==
  attempt.step = "refused" /\ attempt.listed # {} => result = NoResult

\* "a retried stage converges on identical rows rather than doubling them"
\* (evidence.go, Replace).
Converges == \A s, t \in spans : s.version = t.version => s = t

\* "already moved; the surplus delivery ends quietly" (evaluation_routes.go).
MissedWasSurplus == missed => session.state \in Judged
=============================================================================
