---------------------------- MODULE LiveSession ----------------------------
(***************************************************************************)
(* The server side of one live interview (internal/interview and the       *)
(* worker's routes): the sessions row with its guarded transitions, the    *)
(* start, ingest, resume and complete commands, the grace timers and the   *)
(* consumer of the evaluation's report.                                    *)
(*                                                                         *)
(* A thread is one request (or, for a timer, one Temporal workflow), and   *)
(* every database transaction, object-store write and announcement is one  *)
(* action, so requests interleave exactly where the code lets go of the    *)
(* row.  A thread works from "snap", the row as it last read it; the       *)
(* guards of TransitionSession compare that copy with the row.             *)
(*                                                                         *)
(* Abstracted: the transcript is its length, a batch takes one slot of its *)
(* epoch, the contiguous cursor moves as far as the slots taken allow      *)
(* (ControlTimeline says how), and the clock is "window", whether the      *)
(* stamped grace window counted from state_changed_at is over.             *)
(***************************************************************************)
EXTENDS Naturals, Sequences, FiniteSets

CONSTANTS
  Starters, Ingesters, Resumers, Completers,   \* requests, by command
  Attempts,    \* connection epochs the run allows; each may own a timer
  MaxTries,    \* RetryPolicy.MaximumAttempts of the grace activities
  MaxSequence, \* bound: the sequences of an epoch
  Mortal       \* the threads whose process may die under them

Sealers == Completers \cup Attempts
Threads == Starters \cup Ingesters \cup Resumers \cup Sealers

ASSUME LiveAssumption ==
  /\ Attempts \subseteq Nat \ {0} /\ IsFiniteSet(Attempts)
  /\ MaxTries \in Nat \ {0} /\ MaxSequence \in Nat
  /\ Mortal \subseteq Threads
  /\ Starters \cap (Ingesters \cup Resumers \cup Sealers) = {}
  /\ Ingesters \cap (Resumers \cup Sealers) = {}
  /\ Resumers \cap Sealers = {}
  /\ Completers \cap Attempts = {}

VARIABLES
  state, version, epoch, accepted,   \* the sessions row
  window,        \* the grace window since state_changed_at: open or lapsed
  stored,        \* per epoch, the sequences in control_events
  segments,      \* transcript segments in control_events, every epoch
  seal,          \* the completion_seals row, or NoSeal
  object,        \* length of the transcript in the stored evaluation input
  facts,         \* per epoch, grace_expired rows of session_interruptions
  started,       \* session_started events published
  interrupted,   \* attempts named by session_interrupted events
  completed,     \* kinds of the session_completed events, in order
  report,        \* the evaluation's report on its way back
  pc, snap,      \* per thread: the next statement, the row it read
  load, todo,    \* per ingester: segments to store, lifecycle left to fold
  asked, size, gaps, \* per sealer: the final cursor, the assembled transcript, what is missing
  reply,         \* per sealer: what it answered
  tries          \* per timer: attempts of the expiry activity so far

row == <<state, version, epoch, accepted, window>>
record == <<stored, segments, seal, object, facts>>
notices == <<started, interrupted, completed, report>>
threads == <<pc, snap, load, todo, asked, size, gaps, reply, tries>>
vars == <<row, record, notices, threads>>

L == INSTANCE SessionLifecycle

Running == {"in_progress", "reconnecting"}
Slots == 1 .. MaxSequence
Ended == {"finalizing", "evaluating", "review_ready", "evaluation_failed"}
NoSeal == [epoch |-> 0, sequence |-> 0, gaps |-> {}, digest |-> 0, input |-> 0]
NoCursor == [epoch |-> 0, sequence |-> 0]
NoRow == [state |-> "ready", version |-> 0, epoch |-> 0, accepted |-> 0]
Row == [state |-> state, version |-> version, epoch |-> epoch, accepted |-> accepted]

\* The batches the browser and the agent post, as far as the session is
\* concerned: connection lifecycle in order (a loss that could not be posted
\* travels with the recovery), or a transcript segment.
Batches ==
  {[lifecycle |-> <<"established">>, segments |-> 0],
   [lifecycle |-> <<"lost">>, segments |-> 0],
   [lifecycle |-> <<"lost", "established">>, segments |-> 0],
   [lifecycle |-> <<>>, segments |-> 1]}

\* A composed session: draft, composing, ready.
Init ==
  /\ state = "ready" /\ version = 3 /\ epoch = 0 /\ accepted = 0 /\ window = "open"
  /\ stored = [a \in Attempts |-> {}] /\ segments = 0 /\ seal = NoSeal /\ object = 0
  /\ facts = [a \in Attempts |-> 0]
  /\ started = 0 /\ interrupted = {} /\ completed = <<>> /\ report = "none"
  /\ pc = [t \in Threads |-> "idle"]
  /\ snap = [t \in Threads |-> NoRow]
  /\ load = [i \in Ingesters |-> 0]
  /\ todo = [i \in Ingesters |-> <<>>]
  /\ asked = [t \in Sealers |-> NoCursor]
  /\ size = [t \in Sealers |-> 0]
  /\ gaps = [t \in Sealers |-> {}]
  /\ reply = [t \in Sealers |-> "none"]
  /\ tries = [a \in Attempts |-> 0]

Goto(t, label) == pc' = [pc EXCEPT ![t] = label]

\* A thread that has answered keeps no copy of the row.
Return(t) == Goto(t, "done") /\ snap' = [snap EXCEPT ![t] = NoRow]

(***************************************************************************)
(* Store.Transition: one guarded UPDATE.                                   *)
(***************************************************************************)

\* Mutation: the UPDATE forgets its guards.
FreshUnguarded(t) == TRUE

\* The WHERE clause of TransitionSession: the row is still the one read.
Fresh(t) == snap[t].state = state /\ snap[t].version = version

Moved(to) == [state |-> to, version |-> version + 1, epoch |-> epoch, accepted |-> accepted]

Transition(t, to) ==
  /\ Fresh(t)
  /\ L!CanTransition(snap[t].state, to)
  /\ state' = to
  /\ version' = version + 1
  /\ window' = "open"
  /\ snap' = [snap EXCEPT ![t] = Moved(to)]
  /\ UNCHANGED <<epoch, accepted>>

(***************************************************************************)
(* Starter.Start                                                           *)
(***************************************************************************)
StartRead(t) ==
  /\ pc[t] = "idle"
  /\ \/ state = "ready" /\ Goto(t, "connect") /\ snap' = [snap EXCEPT ![t] = Row]
     \/ state # "ready" /\ Return(t)
  /\ UNCHANGED <<row, record, notices, load, todo, asked, size, gaps, reply, tries>>

StartConnect(t) ==
  /\ pc[t] = "connect"
  /\ \/ Transition(t, "connecting") /\ Goto(t, "begin")
     \/ ~Fresh(t) /\ Return(t) /\ UNCHANGED row
  /\ UNCHANGED <<record, notices, load, todo, asked, size, gaps, reply, tries>>

(***************************************************************************)
(* Events.BeginAttempt: the takeover.  It compares epochs only: neither    *)
(* the state nor the version nor the seal is looked at again.              *)
(***************************************************************************)
BeginAttempt(t) ==
  LET next == snap[t].epoch + 1 IN
    \/ /\ epoch < next
       /\ next \in Attempts
       /\ epoch' = next
       /\ accepted' = 0
    \/ epoch >= next /\ UNCHANGED <<epoch, accepted>>

Takeover(t) ==
  /\ pc[t] = "begin"
  /\ BeginAttempt(t)
  /\ Return(t)
  /\ UNCHANGED <<state, version, window, record, notices,
                 load, todo, asked, size, gaps, reply, tries>>

(***************************************************************************)
(* Resumer.Resume: refused outside an interview in flight, and once the    *)
(* window of a reconnecting session has lapsed.                            *)
(***************************************************************************)
Resumable == state = "connecting" \/ state = "in_progress" \/ (state = "reconnecting" /\ window = "open")

ResumeRead(t) ==
  /\ pc[t] = "idle"
  /\ \/ Resumable /\ Goto(t, "begin") /\ snap' = [snap EXCEPT ![t] = Row]
     \/ ~Resumable /\ Return(t)
  /\ UNCHANGED <<row, record, notices, load, todo, asked, size, gaps, reply, tries>>

(***************************************************************************)
(* Events.ingest: read and check, insert and commit, then fold the         *)
(* lifecycle into the machine from the copy read at the start.             *)
(***************************************************************************)

Contiguous(S, n) == \A k \in 1 .. n : k \in S

\* PersistCursor, in the epoch of the session: a transaction that does not see
\* another's rows leaves the cursor short of what is stored.
Advance(S) == accepted' \in {n \in accepted .. MaxSequence : Contiguous(S, n)}

\* The epoch check has passed.  A batch with nothing to store, transcript after
\* the seal or slots taken before, is answered at once.
IngestRead(t, b) ==
  /\ pc[t] = "idle"
  /\ epoch # 0
  /\ \/ /\ seal = NoSeal \/ b.segments = 0
        /\ Goto(t, "insert")
        /\ snap' = [snap EXCEPT ![t] = Row]
        /\ load' = [load EXCEPT ![t] = b.segments]
        /\ todo' = [todo EXCEPT ![t] = b.lifecycle]
        /\ UNCHANGED accepted
     \/ /\ (seal # NoSeal /\ b.segments # 0) \/ stored[epoch] # {}
        /\ Advance(stored[epoch])
        /\ Return(t)
        /\ UNCHANGED <<load, todo>>
  /\ UNCHANGED <<state, version, epoch, window, record, notices, asked, size, gaps, reply, tries>>

\* Rows are stored under the epoch read, in slots that may leave others open;
\* the cursor moves only when that epoch is still the session's.
IngestCommit(t, n) ==
  /\ pc[t] = "insert"
  /\ n \notin stored[snap[t].epoch]
  /\ Goto(t, "fold")
  /\ stored' = [stored EXCEPT ![snap[t].epoch] = @ \cup {n}]
  /\ segments' = segments + load[t]
  /\ load' = [load EXCEPT ![t] = 0]
  /\ IF snap[t].epoch = epoch THEN Advance(stored'[epoch]) ELSE UNCHANGED accepted
  /\ UNCHANGED <<state, version, epoch, window, seal, object, facts, notices,
                 snap, todo, asked, size, gaps, reply, tries>>

Folded(t) == todo' = [todo EXCEPT ![t] = Tail(@)]

\* Mutation: every arrival is announced as the start.
FoldEstablishedAlwaysStarts(t) ==
  /\ Head(todo[t]) = "established"
  /\ snap[t].state \in {"connecting", "reconnecting"}
  /\ Transition(t, "in_progress")
  /\ started' = started + 1
  /\ Folded(t)
  /\ UNCHANGED <<pc, interrupted>>

FoldEstablished(t) ==
  /\ Head(todo[t]) = "established"
  /\ snap[t].state \in {"connecting", "reconnecting"}
  /\ Transition(t, "in_progress")
  /\ started' = IF snap[t].state = "connecting" THEN started + 1 ELSE started
  /\ Folded(t)
  /\ UNCHANGED <<pc, interrupted>>

FoldLost(t) ==
  /\ Head(todo[t]) = "lost"
  /\ snap[t].state = "in_progress"
  /\ Transition(t, "reconnecting")
  /\ interrupted' = interrupted \cup {snap[t].epoch}
  /\ Folded(t)
  /\ UNCHANGED <<pc, started>>

\* An event the state it finds makes nothing of.
FoldNothing(t) ==
  /\ \/ Head(todo[t]) = "established" /\ snap[t].state \notin {"connecting", "reconnecting"}
     \/ Head(todo[t]) = "lost" /\ snap[t].state # "in_progress"
  /\ Folded(t)
  /\ UNCHANGED <<row, snap, pc, started, interrupted>>

\* A stale version ends the fold (nothing later in the batch could move the
\* session either); so does the end of the batch.
FoldEnds(t) ==
  /\ \/ todo[t] = <<>>
     \/ ~Fresh(t)
  /\ Return(t)
  /\ todo' = [todo EXCEPT ![t] = <<>>]
  /\ UNCHANGED <<row, started, interrupted>>

Fold(t) ==
  /\ pc[t] = "fold"
  /\ \/ /\ todo[t] # <<>>
        /\ FoldEstablished(t) \/ FoldLost(t) \/ FoldNothing(t)
     \/ FoldEnds(t)
  /\ UNCHANGED <<record, completed, report, load, asked, size, gaps, reply, tries>>

(***************************************************************************)
(* Completer.complete, shared by the candidate's complete and by expiry.   *)
(***************************************************************************)

\* A refusal or an error ends a request; Temporal runs an activity again
\* until MaximumAttempts.
Fails(t, answer) ==
  /\ reply' = [reply EXCEPT ![t] = answer]
  /\ snap' = [snap EXCEPT ![t] = NoRow]
  /\ IF t \in Attempts
       THEN /\ tries' = [tries EXCEPT ![t] = @ + 1]
            /\ Goto(t, IF tries[t] + 1 < MaxTries THEN "expire" ELSE "done")
       ELSE UNCHANGED tries /\ Goto(t, "done")

\* A client names an epoch it was told of and the final sequence it gave: the
\* live screen the cursor GET answers (endInterview), another any.
AskCursor(t, n) ==
  /\ pc[t] = "idle"
  /\ epoch # 0
  /\ asked' = [asked EXCEPT ![t] = [epoch |-> epoch, sequence |-> n]]
  /\ Goto(t, "asked")
  /\ UNCHANGED <<row, record, notices, snap, load, todo, size, gaps, reply, tries>>

SealCursor == [epoch |-> seal.epoch, sequence |-> seal.sequence]

\* Idempotency first: a sealed session answers its receipt, whatever its
\* state, and refuses another cursor.
CompleteRead(t) ==
  /\ pc[t] = "asked"
  /\ \/ /\ seal # NoSeal /\ asked[t] = SealCursor
        /\ reply' = [reply EXCEPT ![t] = "receipt"]
        /\ Return(t)
        /\ UNCHANGED tries
     \/ seal # NoSeal /\ asked[t] # SealCursor /\ Fails(t, "conflict")
     \/ /\ seal = NoSeal
        /\ state \notin Running \/ asked[t].epoch # epoch
        /\ Fails(t, "refused")
     \/ /\ seal = NoSeal /\ state \in Running /\ asked[t].epoch = epoch
        /\ snap' = [snap EXCEPT ![t] = Row]
        /\ Goto(t, "assemble")
        /\ UNCHANGED <<reply, tries>>
  /\ UNCHANGED <<row, record, notices, load, todo, asked, size, gaps>>

Assemble(t) ==
  /\ pc[t] = "assemble"
  /\ size' = [size EXCEPT ![t] = segments]
  /\ Goto(t, "gaps")
  /\ UNCHANGED <<row, record, notices, snap, load, todo, asked, gaps, reply, tries>>

\* Mutation: the last gap, open when the cursor is reached, is forgotten.
MissingInside(t) ==
  {n \in 1 .. asked[t].sequence :
     n \notin stored[asked[t].epoch] /\ \E m \in stored[asked[t].epoch] : n < m}

\* gapsUnder: what the epoch does not hold below the final cursor.
Missing(t) == {n \in 1 .. asked[t].sequence : n \notin stored[asked[t].epoch]}

GapsUnder(t) ==
  /\ pc[t] = "gaps"
  /\ gaps' = [gaps EXCEPT ![t] = Missing(t)]
  /\ Goto(t, "put")
  /\ UNCHANGED <<row, record, notices, snap, load, todo, asked, size, reply, tries>>

\* One object key per session: the last write stands.
PutSealedInput(t) ==
  /\ pc[t] = "put"
  /\ object' = size[t]
  /\ Goto(t, "seal")
  /\ UNCHANGED <<row, stored, segments, seal, facts, notices, snap, load, todo, asked, size, gaps, reply, tries>>

\* Mutation: an empty transcript is not worth sealing.
SealUnlessEmpty(t) ==
  /\ pc[t] = "seal"
  /\ seal' = IF size[t] = 0 THEN seal
             ELSE [epoch |-> asked[t].epoch, sequence |-> asked[t].sequence, gaps |-> gaps[t],
                   digest |-> size[t], input |-> size[t]]
  /\ size' = [size EXCEPT ![t] = 0]
  /\ gaps' = [gaps EXCEPT ![t] = {}]
  /\ Goto(t, "finalize")
  /\ UNCHANGED <<row, stored, segments, object, facts, notices, snap, load, todo, asked, reply, tries>>

\* InsertSeal: the first seal stands, a second one is not an error.
Seal(t) ==
  /\ pc[t] = "seal"
  /\ seal' = IF seal = NoSeal
               THEN [epoch |-> asked[t].epoch, sequence |-> asked[t].sequence, gaps |-> gaps[t],
                     digest |-> size[t], input |-> size[t]]
               ELSE seal
  /\ size' = [size EXCEPT ![t] = 0]
  /\ gaps' = [gaps EXCEPT ![t] = {}]
  /\ Goto(t, "finalize")
  /\ UNCHANGED <<row, stored, segments, object, facts, notices, snap, load, todo, asked, reply, tries>>

Kind(t) == IF t \in Attempts THEN "expired" ELSE "completed"

\* Mutation: the announcement is published outside the transition.
FinalizeAnnouncesFirst(t) ==
  /\ pc[t] = "finalize"
  /\ completed' = Append(completed, Kind(t))
  /\ \/ Transition(t, "finalizing") /\ Goto(t, "evaluate")
     \/ ~Fresh(t) /\ Goto(t, "answer") /\ UNCHANGED <<row, snap>>
  /\ UNCHANGED <<record, started, interrupted, report, load, todo, asked, size, gaps, reply, tries>>

Finalize(t) ==
  /\ pc[t] = "finalize"
  /\ \/ /\ Transition(t, "finalizing")
        /\ completed' = Append(completed, Kind(t))
        /\ Goto(t, "evaluate")
     \/ ~Fresh(t) /\ Goto(t, "answer") /\ UNCHANGED <<row, snap, completed>>
  /\ UNCHANGED <<record, started, interrupted, report, load, todo, asked, size, gaps, reply, tries>>

Evaluate(t) ==
  /\ pc[t] = "evaluate"
  /\ \/ Transition(t, "evaluating")
     \/ ~Fresh(t) /\ UNCHANGED <<row, snap>>
  /\ Goto(t, "answer")
  /\ UNCHANGED <<record, notices, load, todo, asked, size, gaps, reply, tries>>

Answer(t) ==
  /\ pc[t] = "answer"
  /\ reply' = [reply EXCEPT ![t] = "receipt"]
  /\ Return(t)
  /\ UNCHANGED <<row, record, notices, load, todo, asked, size, gaps, tries>>

Complete(t) ==
  \/ CompleteRead(t) \/ Assemble(t) \/ GapsUnder(t) \/ PutSealedInput(t) \/ Seal(t)
  \/ Finalize(t) \/ Evaluate(t) \/ Answer(t)

(***************************************************************************)
(* The grace timers                                                        *)
(***************************************************************************)
Lapse ==
  /\ state = "reconnecting"
  /\ window = "open"
  /\ window' = "lapsed"
  /\ UNCHANGED <<state, version, epoch, accepted, record, notices, threads>>

\* startGraceTimer: one workflow per attempt named, ever (REJECT_DUPLICATE).
StartGraceTimer(a) ==
  /\ pc[a] = "idle"
  /\ a \in interrupted
  /\ Goto(a, "check")
  /\ UNCHANGED <<row, record, notices, snap, load, todo, asked, size, gaps, reply, tries>>

RemainingGrace(a) ==
  /\ pc[a] = "check"
  /\ Goto(a, IF state = "reconnecting" THEN "sleep" ELSE "done")
  /\ UNCHANGED <<row, record, notices, snap, load, todo, asked, size, gaps, reply, tries>>

\* The sleep was measured in whole seconds, against the window of its time.
Wake(a) ==
  /\ pc[a] = "sleep"
  /\ Goto(a, "expire")
  /\ UNCHANGED <<row, record, notices, snap, load, todo, asked, size, gaps, reply, tries>>

ExpireRead(a) ==
  /\ pc[a] = "expire"
  /\ \/ /\ state = "reconnecting" /\ window = "lapsed"
        /\ snap' = [snap EXCEPT ![a] = Row]
        /\ asked' = [asked EXCEPT ![a] = [epoch |-> epoch, sequence |-> accepted]]
        /\ Goto(a, "facts")
     \/ ~(state = "reconnecting" /\ window = "lapsed") /\ Return(a) /\ UNCHANGED asked
  /\ UNCHANGED <<row, record, notices, load, todo, size, gaps, reply, tries>>

\* Mutation: a retry does not look for the fact of the attempt that died.
ReadFactsNever(a) ==
  /\ pc[a] = "facts"
  /\ Goto(a, "record")
  /\ UNCHANGED <<row, record, notices, snap, load, todo, asked, size, gaps, reply, tries>>

\* Interruptions: a fact of this cause and epoch is not recorded again.
ReadFacts(a) ==
  /\ pc[a] = "facts"
  /\ Goto(a, IF facts[snap[a].epoch] = 0 THEN "record" ELSE "asked")
  /\ UNCHANGED <<row, record, notices, snap, load, todo, asked, size, gaps, reply, tries>>

RecordInterruption(a) ==
  /\ pc[a] = "record"
  /\ facts' = [facts EXCEPT ![snap[a].epoch] = @ + 1]
  /\ Goto(a, "asked")
  /\ UNCHANGED <<row, stored, segments, seal, object, notices, snap, load, todo, asked, size, gaps, reply, tries>>

Grace(a) ==
  \/ StartGraceTimer(a) \/ RemainingGrace(a) \/ Wake(a)
  \/ ExpireRead(a) \/ ReadFacts(a) \/ RecordInterruption(a)

(***************************************************************************)
(* The evaluation's report.  The workflow itself is another component:     *)
(* all it does here is report once, some time after session_completed.     *)
(***************************************************************************)
ReportArrives ==
  /\ report = "none"
  /\ completed # <<>>
  /\ report' = "sent"
  /\ UNCHANGED <<row, record, started, interrupted, completed, threads>>

\* recordEvaluationCompleted and recordEvaluationFailure.  Nothing else moves
\* a session out of evaluating, so the handler's read and transition are one.
RecordEvaluation ==
  /\ report = "sent"
  /\ \/ /\ state = "evaluating"
        /\ state' \in {"review_ready", "evaluation_failed"}
        /\ version' = version + 1
        /\ window' = "open"
        /\ report' = "applied"
     \/ state # "evaluating" /\ report' = "dropped" /\ UNCHANGED <<state, version, window>>
  /\ UNCHANGED <<epoch, accepted, record, started, interrupted, completed, threads>>

(***************************************************************************)
(* A process dies under a thread.  Requests are gone; Temporal retries.    *)
(***************************************************************************)
Dying(t) == t \in Mortal /\ pc[t] \notin {"idle", "done", "check", "sleep", "expire"}

DieAsRequest(t) ==
  /\ Dying(t)
  /\ Return(t)
  /\ UNCHANGED <<row, record, notices, load, todo, asked, size, gaps, reply, tries>>

DieInIngest(t) ==
  /\ Dying(t)
  /\ Return(t)
  /\ load' = [load EXCEPT ![t] = 0]
  /\ todo' = [todo EXCEPT ![t] = <<>>]
  /\ UNCHANGED <<row, record, notices, asked, size, gaps, reply, tries>>

DieInComplete(t) ==
  /\ Dying(t)
  /\ Fails(t, "none")
  /\ size' = [size EXCEPT ![t] = 0]
  /\ gaps' = [gaps EXCEPT ![t] = {}]
  /\ UNCHANGED <<row, record, notices, load, todo, asked>>

Next ==
  \/ \E t \in Starters : StartRead(t) \/ StartConnect(t) \/ Takeover(t)
  \/ \E t \in Resumers : ResumeRead(t) \/ Takeover(t)
  \/ \E t \in Ingesters :
       (\E b \in Batches : IngestRead(t, b)) \/ (\E n \in Slots : IngestCommit(t, n)) \/ Fold(t)
  \/ \E t \in Completers, n \in {0} \cup Slots : AskCursor(t, n)
  \/ \E t \in Sealers : Complete(t)
  \/ \E a \in Attempts : Grace(a)
  \/ \E t \in Starters \cup Resumers : DieAsRequest(t)
  \/ \E t \in Ingesters : DieInIngest(t)
  \/ \E t \in Sealers : DieInComplete(t)
  \/ Lapse \/ ReportArrives \/ RecordEvaluation

Spec == Init /\ [][Next]_vars

(***************************************************************************)
(* Invariants                                                              *)
(***************************************************************************)
Cursors == [epoch : Nat, sequence : Nat]
Rows == [state : L!States, version : Nat, epoch : Nat, accepted : Nat]
Labels ==
  {"idle", "connect", "begin", "insert", "fold", "asked", "assemble", "gaps", "put", "seal",
   "finalize", "evaluate", "answer", "check", "sleep", "expire", "facts", "record", "done"}

TypeOK ==
  /\ state \in L!States /\ version \in Nat /\ epoch \in Attempts \cup {0} /\ accepted \in Nat
  /\ window \in {"open", "lapsed"}
  /\ stored \in [Attempts -> SUBSET Slots] /\ segments \in Nat /\ object \in Nat
  /\ seal \in [epoch : Nat, sequence : Nat, gaps : SUBSET Nat, digest : Nat, input : Nat]
  /\ facts \in [Attempts -> Nat]
  /\ started \in Nat /\ interrupted \subseteq Attempts
  /\ completed \in Seq({"completed", "expired"})
  /\ report \in {"none", "sent", "applied", "dropped"}
  /\ pc \in [Threads -> Labels]
  /\ snap \in [Threads -> Rows]
  /\ load \in [Ingesters -> Nat]
  /\ todo \in [Ingesters -> Seq({"established", "lost"})]
  /\ asked \in [Sealers -> Cursors]
  /\ size \in [Sealers -> Nat]
  /\ gaps \in [Sealers -> SUBSET Nat]
  /\ reply \in [Sealers -> {"none", "receipt", "conflict", "refused"}]
  /\ tries \in [Attempts -> Nat]

\* The interview starts once: however many starts, arrivals and takeovers
\* race, session_started is published exactly when the session first leaves
\* connecting (events.go, the first established connection).
StartedOnce == started = IF state \in {"ready", "connecting"} THEN 0 ELSE 1

\* Of the starts that race for one session, one owns it: the others were
\* answered SESSION_ALREADY_STARTED (start.go, ErrStaleVersion).
OneStart == \A t, u \in Starters : pc[t] = "begin" /\ pc[u] = "begin" => t = u

\* A completion is announced once, by the transition that ended the session:
\* never twice by a candidate's complete racing an expiry, and never for a
\* session that is still running (complete.go, the finalizing transition).
CompletedOnce == Len(completed) = IF state \in Ended THEN 1 ELSE 0

\* Nothing is finalized, announced or evaluated that has no seal.
EndedIsSealed == state \in Ended => seal # NoSeal

\* A seal is honest about what it lacks: below its final cursor, whatever
\* cursor was asked for and whatever was ingested or taken over meanwhile, a
\* sequence is in the sealed epoch or recorded as a gap (complete.go,
\* gapsUnder: "recorded exactly, closed never").
GapsCoverMissing ==
  \A n \in 1 .. seal.sequence : n \in stored[seal.epoch] \/ n \in seal.gaps

\* The expiry seals at the cursor of the row it read, so it never finds a gap:
\* the cursor is contiguous, and what is stored in an epoch stays (grace.go).
ExpiryFindsNoGap == \A a \in Attempts : gaps[a] = {}

\* A retried expiry records one interruption: the activity may die after the
\* fact and before the seal and run again (grace.go, ExpireGrace).  It holds
\* with one timer; timers that expire the same epoch at once can all find no
\* fact and record one each, and no more (LiveSessionProofs, FactsBounded).
OneFactPerExpiry == \A a \in Attempts : facts[a] <= 1

(***************************************************************************)
(* Action properties                                                       *)
(***************************************************************************)

\* Every move of the session follows the diagram and counts in its version,
\* although every transition is decided on a copy read earlier.
FollowsDiagram == L!Spec

\* The seal is written once and never rewritten (completion_seals, one row
\* per session, first insert stands).
SealImmutable == [][seal # NoSeal => seal' = seal]_vars

\* Epochs only go up, and within an epoch the cursor does too: a batch of a
\* superseded connection cannot move the new connection's cursor.
CursorMonotone == [][epoch' > epoch \/ (epoch' = epoch /\ accepted' >= accepted)]_vars

(***************************************************************************)
(* What the code's comments say and the code does not do.                  *)
(***************************************************************************)

\* complete.go: a crash between seal and transition retries, and a stale
\* version means a concurrent completion won; so once no completion is under
\* way, a sealed session is no longer running.
NoSealedStraggler ==
  (seal # NoSeal /\ \A t \in Sealers : pc[t] \in {"idle", "check", "sleep", "done"})
     => state \notin Running

\* events.go: once completion freezes the record, a transcript that can still
\* grow was never sealed.
TranscriptFrozen == [][seal # NoSeal => segments' = segments]_vars

\* complete.go: the evaluation input's write is idempotent (same key, same
\* bytes), so the object is the one whose digest the seal records.
SealedInputMatches == seal # NoSeal => object = seal.input

\* grace.go: a session that resumed is left alone, so an expiry only ever
\* seals an epoch whose own connection was lost.
ExpiredOnlyIfDropped ==
  \A k \in 1 .. Len(completed) : completed[k] = "expired" => seal.epoch \in interrupted

\* complete.go: the receipt path answers a concurrent completion's seal, or
\* refuses a different cursor.
ReceiptAnswersAsk == \A t \in Sealers : reply[t] = "receipt" => asked[t] = SealCursor

\* evaluation_routes.go: a report that finds the session not evaluating is
\* surplus, because the session already moved.
DroppedReportWasSurplus == report = "dropped" => state \in {"review_ready", "evaluation_failed"}

\* events.go: a stale tab must not write history into a session that has
\* moved on.
StaleConnectionSilent ==
  [][\A t \in Ingesters : pc[t] = "fold" /\ snap[t].epoch # epoch /\ todo'[t] # todo[t]
        => state' = state]_vars
=============================================================================
