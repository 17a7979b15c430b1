---------------------------- MODULE Composition ----------------------------
(***************************************************************************)
(* From a request for an interview to a composed session (the adapters'    *)
(* CreatePractice and StartScreeningSession, interview/redo.go,            *)
(* interview/store.go Create and Transition, the worker's                  *)
(* composition_route.go, interview/workflow.go).                           *)
(*                                                                         *)
(* A request writes a draft with its session_created event.  An ordinary   *)
(* one then moves it to composing; a redo then links it to the answer it   *)
(* retakes.  The worker, delivering the event, moves a session that is     *)
(* still a draft and starts the one workflow of that session, which        *)
(* composes, then records the outcome.  An activity may be given up while  *)
(* it still runs: its transition then arrives late, next to the retry's.   *)
(***************************************************************************)
EXTENDS Naturals, FiniteSets

CONSTANTS
  Ordinary,     \* requests for a session of its own; each creates one session
  Redos,        \* requests to retake one and the same answer
  Digests,      \* bundles the intelligence plane may compose
  MaxCompositionAttempts, \* attempts of an activity (5)
  MaxCompositionFaults, \* bound: failed transactions, lost answers, dead processes
  Earlier,      \* a retake recorded before
  None

ASSUME CompositionAssumption ==
  /\ Ordinary \cap Redos = {} /\ None \notin Ordinary \cup Redos \cup Digests
  /\ MaxCompositionAttempts \in Nat \ {0} /\ MaxCompositionFaults \in Nat

Orders == Ordinary \cup Redos

VARIABLES
  form,         \* per request: the state of its session
  revision,     \* per request: the session's version
  bundle,       \* per request: the digest pinned with ready
  announced,    \* per request: session_ready events published
  event,        \* per request: its session_created event: none, pending, handled
  link,         \* the retake recorded for the answer (interview.redos)
  reply,        \* per request: where the HTTP request is
  got,          \* per request: the session as the request read it
  route,        \* per request: the session as the worker's handler read it
  flow,         \* per request: its workflow
  composed,     \* per request: the digest the workflow was given
  failedAttempts, \* per request: failed attempts of the current activity
  read,         \* per request: the session as the current activity read it
  lateMarks,    \* per request: reads of activities given up, still to commit
  compositionFaults \* faults so far

rows == <<form, revision, bundle, announced>>
http == <<reply, got>>
composition == <<flow, composed, failedAttempts, read, lateMarks>>
compositionVars == <<rows, event, link, http, route, composition, compositionFaults>>

NoRead == [state |-> "none", version |-> 0]

CompositionInit ==
  /\ form = [o \in Orders |-> "none"] /\ revision = [o \in Orders |-> 0]
  /\ bundle = [o \in Orders |-> None] /\ announced = [o \in Orders |-> 0]
  /\ event = [o \in Orders |-> "none"] /\ link \in {None, Earlier}
  /\ reply = [o \in Orders |-> "idle"] /\ got = [o \in Orders |-> NoRead]
  /\ route = [o \in Orders |-> NoRead]
  /\ flow = [o \in Orders |-> "none"] /\ composed = [o \in Orders |-> None]
  /\ failedAttempts = [o \in Orders |-> 0] /\ read = [o \in Orders |-> NoRead]
  /\ lateMarks = [o \in Orders |-> {}]
  /\ compositionFaults = 0

CompositionFault ==
  compositionFaults < MaxCompositionFaults /\ compositionFaults' = compositionFaults + 1
SessionRow(o) == [state |-> form[o], version |-> revision[o]]

\* The edges of the session machine before the interview (machine.go).
CanTransition(from, to) ==
  <<from, to>> \in {<<"draft", "composing">>, <<"composing", "ready">>,
                    <<"composing", "composition_failed">>,
                    <<"composition_failed", "composing">>, <<"ready", "connecting">>}

\* The WHERE clause of TransitionSession.
TransitionSession(o, r) == SessionRow(o) = r

\* Store.Transition from the row as it was read: legal, and not stale.
Moves(o, r, to) == CanTransition(r.state, to) /\ TransitionSession(o, r)

\* Mutant: a failed composition is announced ready too.
AnnouncesEither(o, to) ==
  /\ form' = [form EXCEPT ![o] = to]
  /\ revision' = [revision EXCEPT ![o] = @ + 1]
  /\ bundle' = [bundle EXCEPT ![o] = IF to = "ready" THEN composed[o] ELSE @]
  /\ announced' = [announced EXCEPT ![o] = IF to \in {"ready", "composition_failed"} THEN @ + 1 ELSE @]

\* Its effects: with ready, the bundle and the session_ready event.
Moved(o, to) ==
  /\ form' = [form EXCEPT ![o] = to]
  /\ revision' = [revision EXCEPT ![o] = @ + 1]
  /\ bundle' = [bundle EXCEPT ![o] = IF to = "ready" THEN composed[o] ELSE @]
  /\ announced' = [announced EXCEPT ![o] = IF to = "ready" THEN @ + 1 ELSE @]

----------------------------------------------------------------------------
(* The HTTP requests.                                                      *)

\* Store.Create: the draft and its event in one transaction.
Create(o) ==
  /\ reply[o] = "idle" /\ form[o] = "none"
  /\ form' = [form EXCEPT ![o] = "draft"]
  /\ event' = [event EXCEPT ![o] = "pending"]
  /\ reply' = [reply EXCEPT ![o] = IF o \in Redos THEN "link" ELSE "get"]
  /\ UNCHANGED <<revision, bundle, announced, link, got, route, composition, compositionFaults>>

\* An ordinary request reads its session back.
RequestGets(o) ==
  /\ reply[o] = "get"
  /\ got' = [got EXCEPT ![o] = SessionRow(o)]
  /\ reply' = [reply EXCEPT ![o] = "compose"]
  /\ UNCHANGED <<rows, event, link, route, composition, compositionFaults>>

\* It moves it to composing, unless the worker was first: then the request
\* fails although its session is on its way.
RequestComposes(o) ==
  /\ reply[o] = "compose"
  /\ got' = [got EXCEPT ![o] = NoRead]
  /\ \/ /\ Moves(o, got[o], "composing") /\ Moved(o, "composing")
        /\ reply' = [reply EXCEPT ![o] = "answered"]
     \/ /\ ~Moves(o, got[o], "composing") /\ UNCHANGED rows
        /\ reply' = [reply EXCEPT ![o] = "failed"]
  /\ UNCHANGED <<event, link, route, composition, compositionFaults>>

\* InsertRedo: unique per answer; the loser's session stays behind.
RedoLinks(o) ==
  /\ reply[o] = "link"
  /\ \/ link = None /\ link' = o /\ reply' = [reply EXCEPT ![o] = "answered"]
     \/ link # None /\ UNCHANGED link /\ reply' = [reply EXCEPT ![o] = "exists"]
  /\ UNCHANGED <<rows, event, got, route, composition, compositionFaults>>

\* The process dies between two of the request's transactions.
RequestDies(o) ==
  /\ reply[o] \in {"get", "compose", "link"} /\ CompositionFault
  /\ reply' = [reply EXCEPT ![o] = "failed"]
  /\ got' = [got EXCEPT ![o] = NoRead]
  /\ UNCHANGED <<rows, event, link, route, composition>>

----------------------------------------------------------------------------
(* startComposition, a delivery of session_created.                        *)

\* The handler reads the session.
RouteReads(o) ==
  /\ event[o] = "pending" /\ route[o] = NoRead
  /\ route' = [route EXCEPT ![o] = SessionRow(o)]
  /\ UNCHANGED <<rows, event, link, http, composition, compositionFaults>>

\* The reuse policy: one workflow per session, ever.
Startable(o) == flow[o] = "none"

\* ExecuteWorkflow: a duplicate is taken for delivered.
StartsWorkflow(o) ==
  /\ event' = [event EXCEPT ![o] = "handled"]
  /\ IF Startable(o)
       THEN /\ flow' = [flow EXCEPT ![o] = "compose"]
            /\ failedAttempts' = [failedAttempts EXCEPT ![o] = 0]
            /\ UNCHANGED <<composed, read, lateMarks>>
       ELSE UNCHANGED composition

\* Mutant: drafts are left to the request that made them.
LeavesDrafts(o) == FALSE

\* The session was still a draft when the handler read it.
FoundDraft(o) == route[o].state = "draft"

\* A draft is moved first, and a refused move is an error: the event is
\* delivered again.  A composing session is started; any other is left alone.
RouteActs(o) ==
  /\ route[o] # NoRead
  /\ \/ /\ FoundDraft(o) /\ Moves(o, route[o], "composing")
        /\ Moved(o, "composing") /\ route' = [route EXCEPT ![o] = SessionRow(o)']
        /\ UNCHANGED <<event, composition>>
     \/ /\ FoundDraft(o) /\ ~Moves(o, route[o], "composing")
        /\ route' = [route EXCEPT ![o] = NoRead]
        /\ UNCHANGED <<rows, event, composition>>
     \/ /\ route[o].state = "composing"
        /\ StartsWorkflow(o) /\ route' = [route EXCEPT ![o] = NoRead]
        /\ UNCHANGED rows
     \/ /\ ~FoundDraft(o) /\ route[o].state # "composing"
        /\ event' = [event EXCEPT ![o] = "handled"]
        /\ route' = [route EXCEPT ![o] = NoRead]
        /\ UNCHANGED <<rows, composition>>
  /\ UNCHANGED <<link, http, compositionFaults>>

\* The worker dies in the handler; the event stays pending, or - the workflow
\* started and the delivery not recorded - is delivered once more.
RouteDies(o) ==
  /\ CompositionFault
  /\ \/ route[o] # NoRead /\ route' = [route EXCEPT ![o] = NoRead] /\ UNCHANGED event
     \/ event[o] = "handled" /\ event' = [event EXCEPT ![o] = "pending"] /\ UNCHANGED route
  /\ UNCHANGED <<rows, link, http, composition>>

----------------------------------------------------------------------------
(* CompositionWorkflow and its activities.                                 *)

\* The activity that runs next, with a fresh count of attempts.
Proceeds(o, next) ==
  /\ flow' = [flow EXCEPT ![o] = next]
  /\ failedAttempts' = [failedAttempts EXCEPT ![o] = 0]
  /\ read' = [read EXCEPT ![o] = NoRead]

\* An attempt failed: another one, or the activity has failed.
AttemptFails(o, given) ==
  IF failedAttempts[o] + 1 < MaxCompositionAttempts
    THEN /\ failedAttempts' = [failedAttempts EXCEPT ![o] = @ + 1]
         /\ read' = [read EXCEPT ![o] = NoRead] /\ UNCHANGED flow
    ELSE Proceeds(o, given)

\* Compose: a bundle, a refusal for good, or a failure worth another attempt.
Compose(o) ==
  /\ flow[o] = "compose"
  /\ \/ \E d \in Digests : composed' = [composed EXCEPT ![o] = d] /\ Proceeds(o, "ready")
     \/ Proceeds(o, "composition_failed") /\ UNCHANGED composed
     \/ AttemptFails(o, "composition_failed") /\ UNCHANGED composed
  /\ UNCHANGED <<rows, event, link, http, route, lateMarks, compositionFaults>>

Marking(o) == flow[o] \in {"ready", "composition_failed"}

\* What a previous attempt already recorded.
Recorded(o) ==
  form[o] = flow[o] /\ (flow[o] = "ready" => bundle[o] = composed[o])

\* MarkReady and MarkFailed read the session; already recorded is success.
MarkReads(o) ==
  /\ Marking(o) /\ read[o] = NoRead
  /\ IF Recorded(o)
       THEN Proceeds(o, "over")
       ELSE read' = [read EXCEPT ![o] = SessionRow(o)] /\ UNCHANGED <<flow, failedAttempts>>
  /\ UNCHANGED <<rows, event, link, http, route, composed, lateMarks, compositionFaults>>

\* Their transition; a refused one fails the attempt, and the last of them
\* the workflow.
MarkCommits(o) ==
  /\ Marking(o) /\ read[o] # NoRead
  /\ \/ Moves(o, read[o], flow[o]) /\ Moved(o, flow[o]) /\ Proceeds(o, "over")
     \/ ~Moves(o, read[o], flow[o]) /\ UNCHANGED rows /\ AttemptFails(o, "over")
  /\ UNCHANGED <<event, link, http, route, composed, lateMarks, compositionFaults>>

\* The activity times out, its worker is cut off, or its answer is lost: the
\* attempt failed, and its transition may still arrive.
MarkTimesOut(o) ==
  /\ Marking(o) /\ read[o] # NoRead /\ CompositionFault
  /\ lateMarks' = [lateMarks EXCEPT ![o] = @ \cup {[read |-> read[o], to |-> flow[o]]}]
  /\ AttemptFails(o, "over")
  /\ UNCHANGED <<rows, event, link, http, route, composed>>

LateCommits(o) ==
  \E l \in lateMarks[o] :
    /\ lateMarks' = [lateMarks EXCEPT ![o] = @ \ {l}]
    /\ IF Moves(o, l.read, l.to) THEN Moved(o, l.to) ELSE UNCHANGED rows
    /\ UNCHANGED <<event, link, http, route, flow, composed, failedAttempts, read, compositionFaults>>

\* The candidate starts the interview (see Admission).
Start(o) ==
  /\ form[o] = "ready" /\ Moved(o, "connecting")
  /\ UNCHANGED <<event, link, http, route, composition, compositionFaults>>

WorkerStep(o) ==
  \/ RouteReads(o) \/ RouteActs(o) \/ Compose(o) \/ MarkReads(o) \/ MarkCommits(o)

CompositionNext ==
  \E o \in Orders :
    \/ Create(o) \/ RequestGets(o) \/ RequestComposes(o) \/ RedoLinks(o) \/ RequestDies(o)
    \/ WorkerStep(o) \/ RouteDies(o) \/ MarkTimesOut(o) \/ LateCommits(o) \/ Start(o)

CompositionSpec == CompositionInit /\ [][CompositionNext]_compositionVars

\* The outbox keeps delivering and the workflow engine keeps running what it
\* has started; HTTP requests and candidates owe nothing.
WorkerFairness == \A o \in Orders : WF_compositionVars(WorkerStep(o))

FairCompositionSpec == CompositionSpec /\ WorkerFairness
----------------------------------------------------------------------------
SessionStates == {"none", "draft", "composing", "ready", "composition_failed", "connecting"}
RowRead == [state : SessionStates, version : Nat]

CompositionTypeOK ==
  /\ form \in [Orders -> SessionStates] /\ revision \in [Orders -> Nat]
  /\ bundle \in [Orders -> Digests \cup {None}] /\ announced \in [Orders -> Nat]
  /\ event \in [Orders -> {"none", "pending", "handled"}] /\ link \in Redos \cup {Earlier, None}
  /\ reply \in [Orders -> {"idle", "get", "compose", "link", "answered", "exists", "failed"}]
  /\ got \in [Orders -> RowRead] /\ route \in [Orders -> RowRead]
  /\ flow \in [Orders -> {"none", "compose", "ready", "composition_failed", "over"}]
  /\ composed \in [Orders -> Digests \cup {None}]
  /\ failedAttempts \in [Orders -> 0 .. MaxCompositionAttempts - 1]
  /\ read \in [Orders -> RowRead]
  /\ lateMarks \in [Orders -> SUBSET [read : RowRead, to : {"ready", "composition_failed"}]]
  /\ compositionFaults \in 0 .. MaxCompositionFaults

\* Retries, late transitions and a candidate who starts at once announce a
\* session ready once, with the bundle it pins (MarkReady, Transition).
ReadyOnce ==
  \A o \in Orders :
    /\ announced[o] <= 1
    /\ announced[o] = 1 <=> bundle[o] # None
    /\ form[o] \in {"ready", "connecting"} => announced[o] = 1

Decided == {"ready", "composition_failed", "connecting"}

\* Nothing late or redelivered reopens a decided session or gives it another
\* bundle; only its own creating request can, when it reads the session back
\* so late that the composition has already failed.
OutcomeKept ==
  [][\A o \in Orders : form[o] \in Decided =>
       /\ bundle'[o] = bundle[o]
       /\ form'[o] \in Decided \/ (reply[o] = "compose" /\ got[o].state = "composition_failed")
       /\ form[o] = "composition_failed" => form'[o] # "ready"]_compositionVars

\* "a finished composition's outcome stands until an authorized retry moves
\* the state machine" (composition_route.go, startComposition).
OutcomeStands ==
  [][\A o \in Orders : form[o] \in Decided => form'[o] \in Decided]_compositionVars

Composing(o) == flow[o] \in {"compose", "ready", "composition_failed"}

\* No session is stranded: a draft's event is still to be delivered, and a
\* session that is composing has that event or a workflow under way, unless
\* more transactions failed than an activity has attempts, or its own request
\* took it back to composing after it had failed (startComposition's two
\* branches, the retries).  Revision 1 is the first move to composing.
NoneStranded ==
  \A o \in Orders :
    /\ form[o] = "draft" => event[o] = "pending"
    /\ form[o] = "composing" =>
         \/ event[o] = "pending" \/ Composing(o)
         \/ compositionFaults >= MaxCompositionAttempts \/ revision[o] > 1

\* Every session that was created is composed or fails, although its request
\* or the worker may die anywhere, as long as fewer transactions fail than an
\* activity has attempts (the outbox event, the draft branch of the route,
\* the retries).
EventuallyDecided ==
  \A o \in Orders :
    form[o] = "draft" ~> form[o] \in Decided

\* "the just-created child is an orphan draft that expires like any other"
\* (redo.go, CreateRedo).
OrphanStaysDraft ==
  \A o \in Redos : reply[o] = "exists" => form[o] = "draft"
=============================================================================
