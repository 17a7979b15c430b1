# A verification project for Prepeet

Prepeet is an interview platform: a Go service (`services/platform`) with a
Postgres database, Temporal workflows and an object store, a web application
(`apps/web`) and an agent that speaks in the interview room
(`services/intelligence`). This directory holds TLA+ models of the parts whose
correctness depends on the order in which several processes act: what leads to
an interview (invitation, sign-in, documents, composition, admission), what
happens to a live one from its start to its evaluated end, what is done with it
afterwards (decisions, appeals), and how events and emails reach their consumers.

Each model is translated from the source files it names; `PROJECT.json` maps
every definition to the lines it stands for. Paths below are relative to the
repository.

- [Parts of the system](#parts-of-the-system)
- [The modules and how they correspond to the code](#the-modules-and-how-they-correspond-to-the-code)
- [What the runs check](#what-the-runs-check)
- [Where the code and its documentation disagree](#where-the-code-and-its-documentation-disagree)
- [What is proved](#what-is-proved)
- [What is not modelled](#what-is-not-modelled)
- [Plan](#plan)

## Parts of the system

### Modelled

**Transactional outbox** (`services/platform/platform/outbox`).
*State:* the rows of `integration.outbox` with their attempts, next attempt,
published, dead and discarded stamps. *Operations:* a producer publishes in its
own transaction; dispatchers in several workers claim a batch with `FOR UPDATE
SKIP LOCKED` and a visibility window, deliver it one event at a time through
the router, and record the outcome; an operator recovers or discards a dead
event. *Hard:* a slow dispatcher's outcome arrives after another one claimed,
delivered, exhausted or after an operator discarded the same event; a process
dies between a handler's effect and the record of it. *Correct when:* no
committed event is lost, what is marked published was handed over, a discarded
event is never claimed again, and every event settles.

**Live session** (`services/platform/internal/interview`: `session.go`,
`start.go`, `events.go`, `resume.go`, `complete.go`, and the worker's
`grace_route.go` and `evaluation_routes.go`). *State:* the session's row
(state, version, connection epoch, accepted sequence), the completion seal, the
stored evaluation input, the interruption facts. *Operations:* start, ingest
with the fold of the connection lifecycle, resume, complete, expire, and the
consumption of the evaluation's report. Every command is several transactions,
each guarded by the version it last read. *Hard:* any two commands interleave
between those transactions, and a process may die between them while Temporal
or the browser retries. *Correct when:* the session follows the diagram, one
start wins, it ends once, sealed, and the seal names every gap below its final cursor.

**Reconnection grace** (`grace.go`, `grace_route.go`). *State:* when the
session changed state, and one workflow per connection attempt. *Operations:*
the announcement starts a timer, the timer asks how long is left, sleeps, and
expires the session if it is still gone. *Hard:* clock resolution, several drops
under one workflow id, timers of earlier attempts, an expiry of several transactions
with returns and other runs of it in between. *Correct when:* nobody is
finalized before the whole window has passed and everybody who stays away is.

**Control event protocol** (`events.go` and `resume.go` on the server,
`apps/web/src/lib/rtc/timeline.ts` and `recovery.ts` in the browser,
`services/intelligence`'s conversation in the agent). *State:* the stored events
with their epoch and sequence, the contiguous cursor, the browser's buffer of
unconfirmed events, the reconnection chain. *Operations:* record, flush, settle,
renumber after a takeover; ingest by the browser and by the agent; resume.
*Hard:* a request given up by its caller still runs; chains of reconnection
overlap; takeovers come from elsewhere. *Correct when:* the cursor never claims
what is not stored, an event lands once and in order, and an acknowledged event
is stored.

**Recording** (`media.go`, the worker's `media_routes.go`, the media step of
`complete.go`). *State:* a `media_tracks` row per track, the egresses running at
the provider. *Operations:* a delivery of `session_started` claims a track,
starts its egress and records the id; a completion lists the tracks, stops
and probes each, resolves it and seals. *Hard:* the provider is called between
two transactions; claims are taken over when they age; completion runs beside
a delivery. *Correct when:* one egress per track, known to the platform, and
nothing is called finalized that was not read back.

**Usage ledger and admission** (`billing/ledger.go`, `start.go`, the stamp of
`resume.go`). *State:* append-only entries, a quota row, the session's timing
stamp. *Operations:* reserve under the quota's row lock, credit, set the quota,
move the session, stamp. *Hard:* each is its own transaction and any may be the
last one before a death and a retry. *Correct when:* usage stays within the limit
and what is metered has started.

**Composition and redo** (`interview/workflow.go`, `redo.go`,
`composition_route.go`), **evaluation** (`evaluation/`, `evaluation_routes.go`).
*State:* the session row and its bundle; evidence, stage outcomes and the result;
workflows and their attempts. *Operations:* the activities, the routes that start
workflows and the handlers that record their outcome. *Hard:* an activity that was
given up may still commit next to its retry; events are redelivered; a request
and the worker move the same draft. *Correct when:* one announcement and one
result per session, outcomes that stand, and an end to everything begun.

**Email queue** (`notification/`). *State:* rows with attempts, sent and dead
stamps. *Operations:* enqueue, claim, hand over, mark. *Hard:* a send that outlasts
its claim. *Correct when:* the status a recruiter sees only moves forward,
erased content is not handed over, and each email ends sent or dead.

**Invitations and screening** (`recruiting/invitation_store.go`,
`reinvitation_store.go`, the API's adapters). *State:* links and their
outcomes, re-invitations, consents, sessions. *Operations:* issue, resend, revoke,
accept, decline, authorize, claim, start. *Hard:* `READ COMMITTED` updates act on
what their snapshot saw; a start is four transactions. *Correct when:* endings
stand, links work together only if their issues overlapped, and each
session rests on an acceptance and a consent.

**Documents** (`candidate/`, the extraction route). *State:* a row per version,
its object, its facts, one workflow. *Operations:* start, complete, abort,
delete; extract, store, mark; review. *Hard:* row and object change apart;
attempts given up commit late, after a review. *Correct when:* rows agree with the
store, facts with the outcome, and a review is never undone.

**Action tokens** (`identity/tokens.go`, `flows.go`). *State:* tokens, attempts,
sessions issued. *Operations:* issue with supersede, present a link, type a code,
consume. *Hard:* two requests and several presentations at once. *Correct when:*
one effect per token and a capped code dies.

**Content registry and campaign opening** (`content/`, `tenantadmin/rubric.go`,
`recruiting/campaign.go`). *State:* artifacts with their lifecycle, one pointer
per scope, the pins of campaigns. *Operations:* load, draft, advance, publish,
discard, retire, roll back, open. *Hard:* every operation reads in one transaction
and writes in another. *Correct when:* what is pinned or pointed at stays resolvable.

**Decisions and appeals** (`recruiting/decision.go`, `rereview.go`). *State:*
append-only decisions, appeals with assignee and outcome. *Operations:* decide,
raise, assign, answer. *Hard:* reassignment between the read and the write of an
answer. *Correct when:* one answer, by the assignee, never by the decider.

**Progression** (`progression/`). *State:* an append-only history of readings in which a
correction names the row it supersedes, a snapshot per readiness answer, goals and
their milestones. *Operations:* append; compute and save a readiness; set, pause and track goals;
recommend the next session; derive the practice cadence. At this commit only the
append, the readiness read and the skills read are called by a binary; the others are exported and
called by tests. *Hard:* three readers repeat one rule; an answer that comes back is not
written again; tracking is several statements. *Correct when:* the readers rest on the same reading,
milestones carry the date of the first one, and the standing shown is the last saved.

### How they interact

Commands change the session's row and publish to the outbox in the same
transaction. The outbox's dispatcher delivers `session_created` to the
composition workflow, `session_started` to recording, `session_interrupted` to the
grace workflow, `session_completed` to the evaluation workflow and its report
back to the session, `document_uploaded` to the extraction workflow. The grace
workflow calls the same `complete` as the candidate, and `complete` finalizes the
recording before it seals. The browser and the agent post control events to
ingest; the lifecycle events among them are folded into the session's state.
A resume raises the epoch, which resets the cursor and makes posts of the
older epoch stale. A screening start claims a re-invitation before its
session is composed; start reserves its unit before it moves the session.
Tokens and invitations travel by the email queue.

| Shared state | Written by | Module(s) |
| --- | --- | --- |
| `integration.outbox` | producers, dispatchers, operators | `Outbox`; elsewhere an event is pending, handled, and may come again |
| `sessions` row: state and version | composition, start, fold, complete, expire, report | `Composition`, `Admission`, `LiveSession`, `GraceTimer`, `Evaluation` |
| `sessions` row: epoch and cursor | start, ingest, resume | `LiveSession`, `ControlTimeline` |
| `control_events` | browser's and agent's ingest | `ControlTimeline`; as counts in `LiveSession` |
| `completion_seals`, sealed input | complete, expire | `LiveSession`, `Recording` |
| `media_tracks` | deliveries of `session_started`, complete | `Recording` |
| browser's buffer and chain | `timeline.ts`, `recovery.ts` | `ControlTimeline` |
| artifacts, pointers, pins | loader, rubric library, rollback, opening | `Registry` |

### The other parts

| Part | State and operations | Hard part |
| --- | --- | --- |
| Accounts, browser sessions, elevation, membership (`identity`) | guarded single-row statements | none beyond the statement |
| Access reviews and settings (`tenantadmin`) | versioned settings, reviews | a revocation precedes its record |
| Rate limiting | a count per key and window | concurrent increments |
| Catalogue, scoring | derivations over stored data | none of order; pure functions |
| HTTP API, platform libraries, binaries, pages, model capabilities | adapters and presentation | none of their own |

`PROJECT.json` lists all of them, and under `hazards` the lines at which an
untested order of events, a death, a stale copy or a boundary could do harm.

## The modules and how they correspond to the code

| Module | Role |
| --- | --- |
| `AtLeastOnce` | what the outbox promises: an event offered may be handed over any number of times, and is acknowledged only after that |
| `Outbox` | the table, the dispatchers, the router, the operator |
| `SessionLifecycle` | the session's diagram: states and edges of `session.go`, a version that counts moves |
| `LiveSession` | the commands, timers and consumers on one session |
| `ControlTimeline` | both ends of the control event protocol |
| `GraceTimer` | the arithmetic of the grace window |
| `Recording` | deliveries and completions over the tracks of one session |
| `Admission` | quota, ledger, start and the timing stamp |
| `Composition`, `Evaluation`, `EmailQueue` | the work done after a request has returned |
| `ActionTokens`, `Documents`, `Screening`, `Registry`, `Appeals` | the requests around an interview |
| `Progression`, `ProgressionStore` | a candidate's history, what is read from it, and what is stored of that |
| `MCOutbox`, `MCLiveSession`, `MCControlTimeline`, `MCRecording`, `MCWorkflows` | the small sets and symmetries of the runs |
| `Workflows` | `Composition`, `Evaluation` and `EmailQueue` side by side |
| `MCEntry` | `ActionTokens`, `Documents`, `Screening`, `Admission`, `Registry` and `Appeals` side by side |
| `MCProgression` | the readers, the snapshots and the goals over one history each |
| `OutboxProofs`, `LiveSessionProofs`, `ControlTimelineProofs`, `GraceTimerProofs`, `RecordingProofs`, `WorkflowsProofs` | theorems about the module of that name |
| `EntryProofs` | theorems about `ActionTokens`, `Screening` and `Documents` |
| `WorkspaceProofs` | theorems about `Appeals`, `Registry`, `Admission`, `Progression` and `ProgressionStore` |

`Workflows`, `MCEntry` and `MCProgression` join components that share no state (in `MCProgression`, nothing but the history): a variable `part`
picks one in the initial state and the others stay where they are. That is one
run for several components and adds no behaviour to any.

Definitions introduced by a comment "Mutation" or "Mutant" are not part of a
specification. Each is a plausible mistake in the definition after it, kept to
show that the properties would notice it.

### Outbox

A caller (a producer, or an operator's console) begins a transaction, and `Publish` or
`Recover` is its commit. `LockBatch` is the claim query (due, not
published, not dead, oldest first, at most `Batch`, rows locked by others skipped) and
`Claim` the commit that hides the rows; `Deliver` is the router's
answer for a handled, an ignored or an unrouted type; `MarkDelivered` and
`MarkFailed` are the two outcome statements with their own `WHERE` clauses;
they wait while another dispatcher's claim holds the row (`MayWrite`), and a claim may step over a
row that is being written. `OutcomeNotRecorded` is a failed outcome write, `Crash` the death of a
worker with whatever it had claimed, or a claim that fails and gives its rows back. `Recover` and
`Discard` are the operator's.

The clock is reduced to what the claim query can tell apart: `due` is the set
of rows whose next attempt is not in the future and `before` their order. `now()` is the start of a
transaction, so a caller has its place in that order from `Begin` on, and the row it commits takes
that place: in front of rows that were due, and claimable, all the time the transaction was open. A
transaction writes one event; one that writes two is two callers next to each other. The
dispatchers' own transactions are short, and put `next_attempt_at` further ahead than they last.
`WaitEnds` ends a backoff or a visibility window, which may be while the first
claimant is still at work. `MaxFaults` bounds crashes, failed claims and lost writes.

### LiveSession and SessionLifecycle

A thread is one request or one grace workflow. `pc` is its next transaction and
`snap` the row as it last read it, so `Fresh` is exactly the `WHERE` clause of
`TransitionSession`. The commands: `StartRead`, `StartConnect`, `BeginAttempt`;
`IngestRead`, `IngestCommit` and then one `Fold` per lifecycle event, which runs
after the events are committed; `ResumeRead`, `Takeover`; `AskCursor`,
`CompleteRead`, `Assemble`, `PutSealedInput`, `Seal`, `Finalize`, `Evaluate`,
`Answer`. A grace workflow runs `StartGraceTimer`, `RemainingGrace`, `Wake`,
`ExpireRead`, `ReadFacts`, `RecordInterruption` and then the same completion.
`ReportArrives` and `RecordEvaluation` are the report's way back. `Die...` are
deaths between two transactions: a request's caller sees an error, a workflow's
activity is retried up to `MaxTries` times.

A client may complete with any final sequence (`AskCursor`), as the API takes it; `CompleteRead` notes
the gaps below it (`GapsUnder`) and the seal carries them. `stored` is the sequences of each epoch, at
most `MaxSequence`, over which the accepted cursor advances as far as they are contiguous. The
transcript is its length; it is assembled in a transaction after the one that read the gaps. The clock is whether the window counted
from `state_changed_at` has lapsed. `SessionLifecycle` has every state of the
diagram; the model starts from a composed, `ready` session. An expiry that Temporal gave up does not
run on here; in `GraceTimer` it does. `started`,
`interrupted`, `completed` and `reply` record what was announced or answered.

### ControlTimeline

An event is its identity. On the server a request is three actions, `CallReads`
(or `AgentReads`), `CallInserts` (inserts and cursor) and `CallCommits`, and
runs whether or not its caller is still waiting. An insert waits for an
uncommitted row with its identity or slot, as the unique indexes make it.
`CallDies` is a rollback. In the browser `Recorded`, `Flush`, `Settled`,
`Rebased` and `Finally` are the functions of the timeline, and `Dropped`,
`DroppedAgain`, `Retry`, `RetryNow`, `ResumeReads` ... `Rejoined` the steps of the
reconnection chain, of which `RetryNow` can have several under way. A request
of the chain may fail at any await (`ChainFails`). `TakenElsewhere` is a resume
from another tab or device. `Leave` flushes and stops. `Named` are the events
the server may refuse for their content.

One batch of the agent is one event; it is posted once and never retried.

### GraceTimer

`now` is one clock for the service and the database, with `TicksPerSecond` to
the second because the timer sleeps whole seconds and the stored deadline does
not. `Drop(e)` and `Return` are the fold's transitions, `ResumeRead` and `Takeover` the two
transactions of a resume that matter here,
`Deliver(e)` the outbox's delivery of an announcement and `Check` the activity
that computes the sleep. A workflow id
belongs to an attempt and is never accepted again (`Startable`).

`ExpireGrace` is a run of four transactions: `Expire` is its own read and check, `CompleteRead` the
read of `complete`, which answers a receipt, refuses another epoch and accepts a session in
progress as well as one that is reconnecting, `Seal`, and `Finalize`, whose guarded transition may be
stale and is then swallowed. A run may die (`Die`), be given up by a time-out and go on beside the next one
(`TimeOut`), or fail, and after `MaxTries` of them the timer is gone for good (`Fail`). What complete
does between these, and completions the candidate asks for, are `LiveSession`'s.

### Recording

A delivery is at `check`, `claim`, `start`, `record` or `release`, one transaction or one
call of the provider each; a completion lists, and per track stops, probes and
resolves, then seals and finalizes. `StartTrack` has the provider's three
answers (started, refused, no answer though it may have started). `ClaimAges`
makes an unrecorded claim old enough to be taken over, `EgressEnds` is the provider's
own doing, `DeliveryDies` and `CompletionDies` happen between any two steps.
`found` and `mishap` are history.

### Admission

`ReserveLocks`, `ReserveCounts` and `ReserveInserts` are the statements of one
transaction, apart because `LockQuota`'s row lock is what serialises them; then
`StartTransitions`, `ReadPolicy`, `StampAndAnswer`. A resume enters at the policy.
`RequestDies` and `AskAgain` stop and repeat a request. `floor` and `slack` remember
what a new quota found already there.

### Composition, Evaluation, EmailQueue

`Composition` has a request (`Create`, `RequestGets`, `RequestComposes`, `RedoLinks`), the
worker's route (`RouteReads`, `RouteActs`) and the workflow (`Compose`, `MarkReads`,
`MarkCommits`) on one row, whose guarded update is `TransitionSession`.
`MarkTimesOut` leaves an activity's transition to `LateCommits`.

`Evaluation` begins with the completing process: `SessionCompleted` moves the session to finalizing and
publishes the event, `SessionEvaluating` moves it to evaluating, later or, if the process died in
between, never. One workflow follows, whose activities are several transactions (`Extract`,
`Replace`, `RecordStage`; `List`, `Reread`, `StoreResult`; `PublishFailed`), with `GivenUp` and
`LateRuns` for an attempt that outlives its timeout, and the two handlers are
`HandlerReads`, `HandlerMoves`, `HandlerEnds`. A handler that finds the session finalizing consumes the
report without effect, and `missed` remembers it. A batch of evidence is its extractor
version and a number. `Replace` deletes with the snapshot of its start: what another attempt of the same version
commits meanwhile stays beside its own batch, and one that found nothing to store only deletes.
The stage outcomes of the evidence stage, which nothing reads, are left out.

`EmailQueue` is the outbox's shape with hidden rows: `ClaimMail`, `HandOver` of the claimed
copy, `TransportAnswers`, `RecordOutcome`; `OutcomeLost` and `SenderDies` are the faults.

### ActionTokens, Documents, Screening, Registry, Appeals

Each request is where it is, what it read, and the transactions it still has.
Where a `READ COMMITTED` update waits for a row or acts on the rows its
snapshot saw, the model keeps the snapshot (`issue[t].replaces`, `clerkSees`,
`doomed`). In `Documents` the extraction workflow has attempts given up that run on,
as in `Evaluation`. In `Registry` operations come without end and only the number under way is
bounded; a reference has two versions in the platform's scope and one in the workspace's.
In `Appeals` a decision's `created_at` is when its transaction began, so the latest
decision need not be the one committed last.

### Progression and ProgressionStore

A row is its competency, its day, what it supersedes, and what the rubric reference and the band scale make of it:
a band, or the reason it cannot be placed. The number of a row stands for its identifier, which is
what the code breaks ties by. The query lists the rows by date only, so a reader gets any listing in
`Listings`: rows of one date come in any order, to each reader its own. `Resolve`, `ComparableReadings` with `LatestOf`, and
`LatestPerCompetency` are kept as the three separate derivations they are in the code.
`ComputeReadiness` and `SaveReadiness` are two transactions of a saver, between which a standard may be published or
rolled back (`PublishStandard`); `InsertSnapshot` is the insert that does nothing where the answer is on
file. `ReadGoals`, `ReadHistory`, `ReadMilestones` and `TrackGoals` are the statements of one tracking.

## What the runs check

Run one with `tlc -config <cfg> <module>` in this directory.

| Run | Instance | Properties |
| --- | --- | --- |
| `outbox_safety` | 2 dispatchers, 2 callers, a handled and an unrouted event, batches of 1, 2 attempts, 2 faults, an operator; fair dispatchers | `DiscardedStaysDead`, `AttemptsBounded`, `ImplementsAtLeastOnce`, `EventuallySettled` |
| `live_safety` | 1 start, 2 batches, 1 resume, 1 complete, 2 grace timers, sequences up to 2, no deaths | `CompletedOnce`, `GapsCoverMissing`, `FollowsDiagram` |
| `live_deaths` | 2 starts, 2 batches, 1 resume, 1 timer with 2 tries, everybody may die | `StartedOnce`, `EndedIsSealed`, `OneFactPerExpiry` |
| `timeline_safety` | 2 posts, 1 agent batch, 2 overlapping chains, 4 events of which the second may be refused, 2 epochs | `CursorHonest`, `AckHonest`, `OrderKept`, `FirstEpochLosesNothing` |
| `grace_safety` | a window of 1 second at 2 ticks, 2 epochs, 2 drops, 2 runs of an expiry, which die, time out and fail, 3 ticks | `WholeWindow`, `ParkedIsExplained` |
| `recording_safety` | 2 deliveries and 2 completions, each run once, 2 tracks | `OneKnownEgress`, `FinalizedWasFound` |
| `workflows_safety` | composition of 1 ordinary session and 1 redo, 3 attempts, 2 faults; evaluation with 2 extractor versions, 3 attempts, 2 faults; 2 emails, 2 senders, 2 sends, 1 death; fair workers | `ReadyOnce`, `ResultOnce`, `EvidenceSuperseded`, `OutcomesStand`, `EventuallyEnds` |
| `entry_safety` | 1 link and 2 codes, 3 presentations, 2 wrong guesses; 2 uploads, 2 requests, 2 attempts, 2 given up, 1 review; 2 links, 2 issues, 2 acceptances, 3 starts, 2 re-invitations; 2 sessions, 2 starts, 1 resume, a limit of 1, 1 retry; 2 library calls, 1 loader, 1 opening, 1 rollback; 2 decisions, 2 appeals, 3 reviewers, 3 requests | `OneEffect`, `WorkingTokens`, `RowsMatchStore`, `FactsMatchOutcome`, `WorkingLinksOverlap`, `SessionIsAdmitted`, `WithinLimit`, `MeteredIsStarted`, `ToldIsStamped`, `PinsResolve`, `AnsweredIndependently`, `ReviewsKept`, `EndingsStand` |
| `progression_safety` | 3 readings or corrections of 2 competencies on 4 days in 4 weeks, 2 bands, listed in every order the query allows; of 1 competency on 2 days with 2 versions of a standard, 2 savers and 3 computations (all placed in one band), or with 1 goal and 2 trackers | `ReadersAgree`, `CadenceCounts`, `StandingExplained`, `MilestonesDated` |

`MCEntry!TypeOK` and `Workflows!TypeOK` join the type invariants of their components and hold on the same
instances.

Three further runs end in a counterexample; they are the subject of the section
[below](#where-the-code-and-its-documentation-disagree).

**What the bounds allow.** In the outbox two events and batches of one are the least in which one event waits
while another is claimed, and two callers the least in which one transaction stays open while
another publishes and commits; two attempts make the second failure the one that kills. An ignored event does
nothing a handled one may not do. A batch of more than one is left to the theorems, which are about every size. In `LiveSession` two batches suffice for a
loss and an arrival folded out of order, and a resume with two timers for a
timer of a superseded attempt; the deaths run trades the completer for a second
start to stay small. In `ControlTimeline` four events are the opening
`established`, the loss and the two a rejoined room records (the interruption and
its `established`), a whole reconnection whose first two may both be
renumbered; two posts are one given up and one retried. With two epochs every rejoin goes to a later one, so
`OrderKept` is checked there without its exception; the proofs cover the rest. In `GraceTimer` two ticks to the second are the coarsest clock
on which rounding shows; a window of two ticks in three lets a candidate drop, return and drop again a tick later, with a timer
for each; two runs are one given up and its retry. `grace_parked` has a window of two seconds
and neither faults nor a second epoch: rounding alone parks the session. In `Recording` two deliveries are a claim and its takeover, two
completions the candidate's and the expiry's, two tracks the order in which they
are started; the second delivery is also the redelivery, and the second completion the retry, after a death. In the workflows two faults are an
attempt given up and one of its retry; with three attempts the retries are never used up, which
is what the liveness properties ask for, while in `Documents` two attempts are, which is how
a document stays undecided. Two wrong guesses and three presentations are the
cap and a right guess after it; three starts and two
re-invitations are a first session and two that race for the rest; a limit of one and two
sessions are the last unit and one too many. Three reviewers are the decider, an assignee and
the one reassigned to. Three readings are a reading, its correction and the correction's correction, or
a gap between two weeks; three computations are an answer, another one and the first again. Two to
three million states each for `live_safety`, `timeline_safety`, `grace_safety`, `recording_safety` and `entry_safety`, a million for
`progression_safety`, half a million for `workflows_safety`, a third of one for `outbox_safety`.

Requests and chains are interchangeable, hence the symmetry sets; in `MCEntry` the parts share
their interchangeable values. No liveness property is checked under symmetry.

**What some properties except.** Where the code has a race, the property says what holds beside it, and the race itself is a refuted
statement [below](#where-the-code-and-its-documentation-disagree): `WorkingLinksOverlap` excepts links whose issues overlapped
(`OneWorkingLink`), `SessionIsAdmitted` starts that were each the first as far as they could see (`OneSessionEach`), `ToldIsStamped` a
start and a resume that both found no stamp, `OneKnownEgress` tracks with a start that went unanswered or a record that was lost, `WholeWindow` runs that were raced
(`ResumedIsLeftAlone`), `EventuallyEnds` a report that was missed (`MissedWasSurplus`).

**Deadlock** is not checked: a session ends, a queue drains, and the counters
of the bounds run out; a state without a successor is expected in each.

**Fairness.** In `outbox_safety` each dispatcher's own steps are
weakly fair because `Dispatcher.Run` polls for ever and needs no signal, and the
end of a wait is weakly fair because backoff and visibility are finite. Nothing
is assumed of callers, operators or failures: a transaction may stay open for ever, and crashes are finitely many. With
crashes for ever the property is false: a crash is not counted as an attempt, so
an event whose delivery always kills its process is retried without end.
In `workflows_safety` the steps of the worker's routes, of the current attempt of an activity and of the
handlers are weakly fair (`WorkerFairness`, `EvaluationFairness`), because the
outbox redelivers what was not recorded and Temporal keeps scheduling what it has started; senders and the
end of a wait are (`MailFairness`), because `Sender.Run` ticks for ever. HTTP
requests, candidates, recruiters and attempts given up owe nothing, and neither does the completing process
its move to evaluating: what `EventuallyEvaluated` exempts is a report that was missed, and where none was the
move has been made, since a handler keeps a report only of a session that is evaluating.

## Where the code and its documentation disagree

Each of these runs checks a sentence of the repository and is refuted by what
the code does. `PROJECT.json` quotes the sentence.

| Run | Property | What happens |
| --- | --- | --- |
| `live_straggler` | `NoSealedStraggler` | complete seals, then finds its version stale because a connection change was folded since its read, and swallows the error: the session keeps a seal, stays in progress or reconnecting, and every later complete answers the receipt without moving it |
| `grace_parked` | `NotParked` | the sleep is rounded down to whole seconds, the timer wakes early, stands down, and no other timer exists for that attempt |
| `timeline_numbering` | `NumberingNotShared` | the agent's events take the slots the browser numbers on its own; the browser's event is refused as a conflict and dropped |

Further statements are defined in the modules without a run. Put one in a cfg to
see its counterexample:

- `Outbox!DiscardedNeverDelivered`: a claimed copy is delivered after its
  discard (`recovery.go`, `queries.sql`).
- `LiveSession!ExpiredOnlyIfDropped`: resume opens an epoch without leaving
  `reconnecting`, so the old window may finalize a connection that was never lost
  (`grace.go:79-81`);
  `DroppedReportWasSurplus`: `session_completed` is published before
  the transition to `evaluating`, and a report that arrives in between is consumed without
  effect (`evaluation_routes.go:96`); `TranscriptFrozen`: an ingest that checked for the seal stores its
  segment after it (`events.go:55-57`); `SealedInputMatches`: the stored input may
  be a later completion's (`complete.go:213-216`); `ReceiptAnswersAsk`: a receipt
  may be for another cursor than the one asked; `StaleConnectionSilent`: a
  superseded connection's batch, read before the takeover, still changes state;
  `OneFactPerExpiry` with two timers: both read no fact and both record one (and no more:
  `FactsWithinTimers`).
- `GraceTimer!ResumedIsLeftAlone`: the candidate returns, in the same epoch, between the read of `ExpireGrace` and that of
  `complete`, which accepts a session in progress: the session is finalized as expired with the candidate back
  (`grace.go:96` and `complete.go:162`; "one that resumed is left alone"). `WholeWindow` excepts exactly these runs, `raced`.
- `ControlTimeline!OrderKept` without its condition, with `TwoChains`, 6 events and 3 epochs: two recoveries overlap
  (`retryNow` under a running chain), both are answered with the same epoch, and the second rejoin numbers the buffer
  from one again in the epoch the first already numbered it into; a request of the first numbering that commits late
  then stores an earlier event in a later slot, and an acknowledgment of that numbering settles events by numbers that are no longer theirs
  (`timeline.ts:11-12`, "The buffer never invents order"). The history variable `renumbered` remembers such a rejoin.
- `ControlTimeline!DropIsCovered`: a drop while the chain awaits its last flush counts as
  the one being recovered, which then concludes (`recovery.ts:100-101`);
  `RecoveredIsHeld`, `GapIsOwed` and `SupersededIsClosed` without the agent, with
  `OneChain`, `NothingNamed`, 4 events and 2 epochs: a late answer of the old
  epoch settles renumbered events; a renumbered event that had landed leaves a
  gap nobody fills; a batch read before a takeover commits after it.
- `Admission!RetryOwnsReservation`: the limit is compared before the insert that would find
  the session already metered, so the retry of the start that took the last unit is told the
  quota is exhausted (`ledger.go:81-83` and `:104`).
- `Composition!OutcomeStands`: a creating request that reads its session back after the composition
  failed moves it to composing again (`composition_route.go:24-27`); `OrphanStaysDraft`: the
  loser of two redos is composed like any other (`redo.go:161-163`).
- `Evaluation!ResolvesBack` and `Converges`: an attempt given up replaces the evidence after the
  result was published from it, or beside a reading of another extractor version (`rubric.go:121-124`,
  `evidence.go:202-204`); `RefusedHasNoResult`: a retry is refused after an earlier attempt stored
  the result (`docs/delivery/tickets/10-evaluation-system.md:179-180`); `MissedWasSurplus`: a report
  delivered before the move to evaluating, or after a death before it, is consumed as surplus and the session stays undecided
  (`complete.go:241-248`, `evaluation_routes.go:66` and `:96`).
- `Screening!OneWorkingLink` and `AcceptOnce`: two issues that overlap leave two live links
  (`invitations_adapter.go:69-71`, the comment of `SupersedeLiveInvitations`); `OneSessionEach`: two starts
  that both find no session are both admitted (`screening_adapter.go:160-164`);
  `ConsumeComesFirst`: provisioning signs the recipient in before the consume
  (`screening_adapter.go:57-61`).
- `Documents!RejectedStaysAbsent`: `StoreFacts` commits, its answer is lost, the candidate rejects a fact, the
  retry deletes proposed facts only and inserts the whole reading again: the rejected fact is
  back as a proposal and in the effective read (`facts.go:24-25`).
- `Documents!UploadingCanEnd`: a complete that dies after the store assembled the object leaves
  a row that neither complete nor abort can move (`0017_candidate_documents.sql`).
  A `StoreFacts` that uses up its attempts ends the workflow with the document pending
  (`extraction.go:254`, against `:186-188`); `FactsMatchOutcome` allows exactly that.
- `Recording!NoClaimAfterSeal`: a delivery that read the session as running claims a track after
  the seal (`media.go:137-138`); `FinalizedMeansAll`: a track claimed after the completion listed
  is not in a seal that says finalized (`docs/delivery/tickets/09-realtime-and-media.md:177`).

- `Progression!SilenceAgrees`: readiness leaves superseded rows out of its reasons and `silenceReason` does not, so
  a goal may be incomparable, or not assessed, because of a row that was corrected (`goals.go:166-167`); `BreadthKept`, with
  three competencies and two slots: the slot kept from targeting is filled in the catalogue's order and goes to the next gap,
  so a strong competency at the end is never asked about while two weak ones come before it
  (`targeting.go:18-19`, `:201-203`).
- `ProgressionStore!StandingIsCurrent`: a standard is published, rolled back and computed again, or a
  correction restores an answer; that answer is on file with its first date, nothing is inserted, and the
  read keeps showing the one in between (`readiness_store.go:26-29`, `:89`). `StandingExplained` says that
  nothing else makes the standing shown an earlier one.

Three more were met in the code and have no definition: a load of a published version is a
no-op only while the pointer names it (`loader.go:21-22`; after a rollback, or once a later version is published,
the insert is refused), and a load that died half-way blocks every later one;
`Retire` is refused while a campaign uses the rubric, but one that is being opened is not
seen (`rubric.go:280-286`); the decision an appeal names may be overtaken
between the read of the latest and the insert.

## What is proved

The theorems hold for every number of events, dispatchers, requests, tracks, epochs
and ticks. Each rests only on the `ASSUME` of its module, which says that bounds are
numbers, that sets of processes which are counted are finite, that tracks are numbered
from one, and that the sets of names do not overlap; two further theorems assume one timer (`OneTimerOneFact`) and one
recovery at a time (`OneRecoveryKeepsOrder`) in their statement. Every
property the passing runs check is stated by a theorem but the two that speak of liveness, and of these the
safety half is.

Every safety argument has the same outline: an inductive invariant that contains the
property, one lemma per action or group of actions that it is kept, and a last step by
temporal logic. What the invariants add to the properties is where the code's correctness
really rests:

**OutboxProofs.** `TypeCorrect` (`TypeOK`); `DiscardedIsDead` (`DiscardedStaysDead`);
`DiscardedIsNotClaimed` (`NoDiscardedClaim`); `OutboxRefinesAtLeastOnce`
(`ImplementsAtLeastOnce`); `AttemptsAreBounded` (`AttemptsBounded`). `DiscardedStaysDead` is not
inductive alone: a late failure rewrites `dead_at` according to the count of attempts, so one has to
know that a dead event is exhausted (`DeadIsExhausted`) for the rewrite to leave
it dead. The refinement needs that what a dispatcher is about to mark delivered
was handed over. The bound on attempts counts them together with the dispatchers that hold the event:
a claim needs budget left (`AliveHasBudget`) and adds a holder, a failure turns a holder into an attempt.
`LocksAreSound`: what a claim has locked stays claimable until it commits, because what would change it waits for the lock.
`ClaimsGoInOrder` (`NeverOvertaken`): the due rows and the open transactions stand in one line (`ClaimOrder`), which is
entered only at the end; a row gets in front of one that waits only in the place of a transaction that stood there, and a
claim that leaves a row nobody holds takes only rows in front of it. So the number of rows and transactions ahead falls
until it is an event's turn, but for rows that a failing claim or a write under way holds.

**LiveSessionProofs.** `TypeCorrect` (`TypeOK`); `LiveRefinesLifecycle` (`FollowsDiagram`);
`CompletesOnce`; `EndsSealed`; `StartsOnce`; `OneStarterWins`;
`SealsNameTheirGaps` (`GapsCoverMissing`); `ExpirySealsNoGap`; `SealWrittenOnce`; `CursorOnlyAdvances`; `FactsWithinTimers`, `OneTimerOneFact`
(`OneFactPerExpiry`). The base invariant
is `TypeOK` with `Remembered`: no thread's copy of the row has a later epoch than
the row, and an ingest is always in an epoch. `Safe` adds to the three session
invariants that a thread past the seal finds one and that a running session has
an epoch; `CursorsHonest` that what a sealer found missing below the cursor it asked for is among the gaps it
carries, like the seal's: what is stored in an epoch stays, so gaps only close; `Owned` that once a start is about to
begin the first attempt the session has left `ready`, which it never enters again. `FactsBounded`
counts an epoch's interruption facts together with the timers that found none and are about to
record one: retries never add to the sum, so it stays within the number of timers.

**ControlTimelineProofs.** `CursorIsHonest`; `EventsLandOnce`;
`AcknowledgmentsAreHonest`; `CursorOnlyAdvances`; `OrderIsKept` (`OrderKept`); `OneRecoveryKeepsOrder`;
`FirstEpochKeepsAll` (`FirstEpochLosesNothing`). The invariant has a server's half
(what is stored, what each open transaction and each answer claims to be there,
that uncommitted rows clash neither with the log nor with each other) and a
browser's half (numbers in the buffer are distinct and below the next one).
`ContiguousIsPrefix` justifies the cursor's query by a minimal missing number. For the order,
`Given` says where an event was ever given a slot of an epoch and may still land there: the buffer,
a pending request, the log; `Ordered` that all slots given within an epoch follow the events, `Ahead`
that the next number is beyond them. The attempt to prove `OrderKept` as it was first stated failed at the rejoin,
and rightly: see [above](#where-the-code-and-its-documentation-disagree). For the first epoch, `FirstNumbering`
says that an event's slot is its number, so that the slot a cursor covers is the event's own.

**GraceTimerProofs.** `FinalizedAfterTheWindow` (`WholeWindow`): a run that was not raced knows the candidate gone for a
whole window, before complete's read as long as the epoch it asked for stands, after it as long as the
version does (`Knows`); a return changes the version, and with it makes the transition stale. `FourWaysToPark`
(`ParkedIsExplained`): a session left parked is so because some attempt dropped more than
once and has one timer only, or its timer was rounded short by less than a second, or failed as often as an activity is
attempted, or because a completion sealed the session and its transition was lost. The invariant says
that otherwise the attempt of the latest drop still
answers for it (`Answers`): an announcement, a check to come, or a sleep that ends
at the deadline or within a second before it.

**RecordingProofs.** `OneEgressPerTrack` (`OneKnownEgress`); `FinalizedIsReadBack` (`FinalizedWasFound`). `ClaimsInv`:
a claim has one holder, a claim that is held is young, a delivery about to start a track finds it without an egress, and
whatever runs is in its row or in its holder's hand, all but for the tracks whose answer or record was lost.
`FoundInv` follows the word "finalized" from the probe over the row to the seal.

**EntryProofs.** `TokenHasOneEffect` (`OneEffect`), `TokensThatWork` (`WorkingTokens`): `OneWinner` says that of
the presentations of a token at most one is past the guarded mark, `SeenOrReplaced` that a request about to insert
replaces every live token whose commit it could see. `LaterLinkRetires` (`WorkingLinksOverlap`), `SessionsAreAdmitted`
(`SessionIsAdmitted`), `LinkEndingsStand` (`EndingsStand`): `SnapshotsCover` is the same argument for links and
`StartsAreAdmitted` carries the admission through the start's reads. `RowsAgreeWithStore` (`RowsMatchStore`),
`FactsAreTheOutcome` (`FactsMatchOutcome`), `ReviewsAreKept` (`ReviewsKept`): `StoreDecides` and
`RequestsKnow` say what the object store has already decided of a version and what a request between the store and its row therefore
knows; `ReadingsKnow` what every attempt of the extraction, the late ones included, has read and how it stands to the outcome.

**WorkspaceProofs.** `AppealsAreIndependent` (`AnsweredIndependently`) from `SeatsAreOthers`: an admitted
request's reviewer is not the decider of the decision the appeal names, which no longer changes. `PinsAreResolvable`
(`PinsResolve`), `PublishedIsKept`: what an opening, a rollback or a pointer holds resolves to a version
that was published, and publication is never taken back. `UsageWithinLimit` (`WithinLimit`), `MeteredAndStarted`
(`MeteredIsStarted`), `ToldWhatIsStamped` (`ToldIsStamped`): `CountsUnderLock` says that a count compared under the row
lock is still the count when the entry is inserted, and `PendingWithinLimit` counts the entries together with
those already admitted. `StandingIsExplained` (`StandingExplained`), `MilestonesAreDated` (`MilestonesDated`), about
`StoreSpec` of `ProgressionStore`: the newest answer is on file; what a tracker carries from its reads to its insert is
the earliest reading of its band, whatever is appended since. `ReadersRestOnTheSame` (`ReadersAgree`), `CadenceIsCounted`
(`CadenceCounts`): each pass over the history, or over the weeks, is shown equal to a closed form of the rows it went
through. The recursive function inside the fold exists because the closed form satisfies its equation, and it is that
form on every set because a set is reached from the empty one by adding a member at a time (`SubsetsByRemoval`, from the
least size of a counterexample). `NewerIsAnOrder` then makes the latest of the rows unique, whichever
pass found it; `CountOneMore` says that a week that follows the others lengthens the run that ends with
the one before, or begins a run.

**WorkflowsProofs.** `AnnouncedReadyOnce` (`ReadyOnce`), `CompositionsStand` (`OutcomeKept`): every write of a session's row is a creation or a
guarded move (`RowsStep`), and only the move to `ready` announces. `ResultStoredOnce` (`ResultOnce`), `CitedEvidenceHolds`
(`EvidenceSuperseded`), `EvaluationsStand` (`DecisionStands`): `AttemptsOK` says what an attempt at each step, current or given up, has read,
`Undisturbed` what holds as long as none was given up. `MailMovesForward` (`StatusForward`): every change of a row moves it
forward, and copies are whole. `NoSessionIsStranded` (`NoneStranded`): a row reached its state in as many moves
(`RowReached`), so a handler that finds a session past its draft has read a row that is not older than the first move, and
the transition of a workflow is refused only once the session was decided; what ends a workflow short of that is faults of
its own (`FirstTimeWorks`). The one session that may stay behind is the one its request takes back to composing after it
failed, as under `OutcomeStands` above. `NoSessionIsForgotten` (`NeverForgotten`): what was published is owed until the
session is decided or missed it (`PublishedIsOwed`), a handler past its transition finds it decided or missed the report (`DecisionsCounted`), and where the
workflow ended it published, or was given up as often as an activity is attempted (`WorkflowPublishes`). `DecidedStands` (`OutcomesStand`) joins the three action properties for `WorkflowsSpec`.

The theorems of `EntryProofs`, `WorkspaceProofs` and of the three workflows are about each component's own
specification. A behaviour of `MCEntry`, `MCProgression` or `Workflows` is one of a component with the others at rest, so they hold of it as well.

Some theorems state more than a run repeats, because they are proved: the type invariants,
`NoDiscardedClaim`, `NeverOvertaken`, `NoneStranded`, `NeverForgotten`, `OneStart`, `SealImmutable`, `LandsOnce`, `StandingKept`, both `CursorMonotone`.

**Only model-checked.** `EventuallySettled` and `EventuallyEnds`: liveness under fairness is beyond this prover. What
they rest on is proved: events are claimed in turn (`NeverOvertaken`), and what is not decided has somebody to go on with it
(`NoneStranded`, `NeverForgotten`); that it does go on is fairness. Of
the refuted statements above, none can be proved, and each is kept for its counterexample.

## What is not modelled

Within the modelled parts: the room grant of start and usage reports; ephemeral control
events, which have no slot; the audit rows of the operator's actions; the
catalogue check of published event types; the browser's tab lock; cooldowns of sign-in
emails; the digests and upload URLs of documents; templates and wording; the steps of an
artifact to retired and from validating back to draft, which nothing calls; of progression the
personal requirements with their criteria and self-reports, the skills read, and whether a recommendation calls itself cautious. A batch of the agent
with more than one event is one event. Postgres,
Temporal, the object store, the recording provider, the mail transport, the intelligence
plane and the realtime room are external: their promises
(`READ COMMITTED` with row locks and unique indexes, activities retried at least
once under a unique workflow id, last write wins, answers that may be lost, a room that may drop) are
what the modelled code relies on.

Of the other parts, pure functions (scoring, catalogue) and
adapters (HTTP, storage, providers, pages) have no order of events to check, and
accounts, membership, elevation, settings and campaign drafts are single guarded statements whose
property would restate their `WHERE` clause. About half of the repository's lines are generated code
(API and RPC types, scanned query results), decoding, error mapping and presentation, which the
models leave out on purpose; the share of the source the map names stays small for that reason.

The components of `MCEntry` and `Workflows` are checked apart. Where they meet, through the
session's row or the outbox, each models the other's step as something that may happen at any time
(an event delivered again, a candidate who starts, a request that dies).

## Plan

Done, in this order: `Outbox` with its abstract specification; `SessionLifecycle`
and `LiveSession`; `ControlTimeline`; `GraceTimer`; the proofs of each; `Recording`;
`Admission`; `Composition`, `Evaluation`, `EmailQueue`; `Screening`, `ActionTokens`, `Documents`;
`Registry`, `Appeals`; `Progression`, `ProgressionStore`; the proofs of these, and of `AttemptsBounded`, `OneFactPerExpiry`,
`OrderKept` and `FirstEpochLosesNothing` in the older ones; the three readers and the cadence of `Progression`; the safety
half of what liveness rests on.

To come, most important first:

1. Access reviews: the access is revoked before the review says so, so a review that is
   confirmed meanwhile would be recorded beside a revoked access.
2. Personal requirements: a revision of a requirement writes its criteria where none are on file for that
   version, so two revisions at once could mix theirs.
3. Rate limiting: one count per key and window under concurrent requests.
