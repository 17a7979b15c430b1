------------------------------- MODULE Outbox -------------------------------
(***************************************************************************)
(* The transactional outbox (services/platform/platform/outbox): the table *)
(* integration.outbox, the dispatchers that drain it, the router they      *)
(* deliver through and the two transitions an operator may make.           *)
(*                                                                         *)
(* The clock is abstracted to what the claim query tells apart: "due" is   *)
(* the set of rows with next_attempt_at <= now(), and "before" is their    *)
(* order by next_attempt_at.  A wait ends when next_attempt_at = now(), so *)
(* its row enters that order last.  now() is the start of a transaction,   *)
(* though, and Publish and Recover run inside their caller's: the caller   *)
(* stands in the line from its Begin on, nobody sees its row before it     *)
(* commits, and the row then takes the caller's place, ahead of rows that  *)
(* have been due and claimable for as long as the transaction was open.    *)
(*                                                                         *)
(* Bounds: a caller's transaction writes one event (two events of one      *)
(* transaction are two callers next to each other), callers and faults are *)
(* as many as the constants say.                                           *)
(***************************************************************************)
EXTENDS Naturals, FiniteSets

CONSTANTS
  Events,        \* the events the producers may publish
  Callers,       \* transactions that producers and operators hold open
  Dispatchers,   \* worker processes running Dispatcher.Run
  MaxAttempts,   \* outbox.MaxAttempts
  Batch,         \* DispatcherOptions.Batch
  Handled,       \* events whose type has a handler in the Router
  Ignored,       \* events whose type is registered with Router.Ignore
  MaxFaults,     \* bound on crashes, failed claims and lost outcome writes
  NoEvent        \* "this dispatcher is not delivering"

ASSUME OutboxAssumption ==
  /\ IsFiniteSet(Events) /\ IsFiniteSet(Dispatchers)
  /\ MaxAttempts \in Nat \ {0}
  /\ Batch \in Nat \ {0}
  /\ MaxFaults \in Nat
  /\ Handled \subseteq Events
  /\ Ignored \subseteq Events
  /\ Handled \cap Ignored = {}
  /\ NoEvent \notin Events
  /\ Callers \cap Events = {}

VARIABLES
  stored,      \* rows of integration.outbox
  published,   \* rows with published_at set
  dead,        \* rows with dead_at set
  discarded,   \* rows with discarded_at set
  attempts,    \* the attempts column
  due,         \* rows with next_attempt_at <= now()
  open,        \* callers whose transaction has begun
  before,      \* the order of the due rows' next_attempt_at and the callers' now()
  locked,      \* per dispatcher, the rows its claim's transaction has locked
  batch,       \* per dispatcher, what it claimed and has not attempted
  working,     \* per dispatcher, the event it is attempting, or NoEvent
  result,      \* per dispatcher, the result of that attempt
  handed,      \* events whose consumer has run (history)
  faults       \* crashes, failed claims and lost writes so far

line == <<due, open, before>>
table == <<stored, published, dead, discarded, attempts, line>>
process == <<locked, batch, working, result>>
vars == <<table, process, handed, faults>>

Init ==
  /\ stored = {}
  /\ published = {}
  /\ dead = {}
  /\ discarded = {}
  /\ attempts = [e \in Events |-> 0]
  /\ due = {}
  /\ open = {}
  /\ before = {}
  /\ locked = [d \in Dispatchers |-> {}]
  /\ batch = [d \in Dispatchers |-> {}]
  /\ working = [d \in Dispatchers |-> NoEvent]
  /\ result = [d \in Dispatchers |-> "none"]
  /\ handed = {}
  /\ faults = 0

-----------------------------------------------------------------------------
(* The columns next_attempt_at and the claim order.                        *)

\* The order without those in X.
Without(X) == {p \in before : p[1] \notin X /\ p[2] \notin X}

\* x joins the line at the end: its time is now.
JoinLast(x) == before' = Without({x}) \cup ((due \cup open) \ {x}) \X {x}

\* The transaction of caller c commits next_attempt_at = now() for row e, that
\* is the time c began: e is due, in c's place in the line.
CommitAt(c, e) ==
  /\ due' = due \cup {e}
  /\ open' = open \ {c}
  /\ before' = Without({c, e}) \cup ({f \in (due \cup open) \ {c, e} : <<f, c>> \in before} \X {e})
                               \cup ({e} \X {f \in (due \cup open) \ {c, e} : <<c, f>> \in before})

\* The rows in S leave the line: next_attempt_at moves into the future.
NotDueUntilLater(S) ==
  /\ due' = due \ S
  /\ before' = Without(S)
  /\ UNCHANGED open

\* Mutation: the query forgets dead_at IS NULL.
ClaimableIfDead == due \ published

\* The WHERE clause of the Claim query.  It does not mention discarded_at.
Claimable == (due \ published) \ dead

\* The rows a claim of d steps over: those that the claims of others have
\* locked, and perhaps those whose outcome another dispatcher is writing.
Locked(d) == UNION {locked[c] : c \in Dispatchers \ {d}}
BeingWritten(d) == {working[c] : c \in Dispatchers \ {d}} \ {NoEvent}

\* Mutation: the query has no ORDER BY.
NextBatchUnordered(S, free) ==
  /\ S # {}
  /\ Cardinality(S) <= Batch
  /\ (free \ S # {}) => Cardinality(S) = Batch

\* What ORDER BY next_attempt_at LIMIT Batch may return of the free rows.
NextBatch(S, free) ==
  /\ S # {}
  /\ Cardinality(S) <= Batch
  /\ (free \ S # {}) => Cardinality(S) = Batch
  /\ \A e \in S, f \in free \ S : <<f, e>> \notin before

-----------------------------------------------------------------------------
(* Callers: producers and operators.                                       *)

\* A caller opens the transaction it will hand to Publish or Recover.
Begin(c) ==
  /\ c \notin open
  /\ open' = open \cup {c}
  /\ JoinLast(c)
  /\ UNCHANGED <<stored, published, dead, discarded, attempts, due, process, handed, faults>>

\* The transaction ends without a row of the outbox.
RollBack(c) ==
  /\ c \in open
  /\ open' = open \ {c}
  /\ before' = Without({c})
  /\ UNCHANGED <<stored, published, dead, discarded, attempts, due, process, handed, faults>>

\* Store.Publish: one insert in the caller's transaction, due since that began.
\* An event the catalogue refuses inserts nothing and is not a step.
Publish(c, e) ==
  /\ c \in open
  /\ e \notin stored
  /\ stored' = stored \cup {e}
  /\ CommitAt(c, e)
  /\ UNCHANGED <<published, dead, discarded, attempts, process, handed, faults>>

-----------------------------------------------------------------------------
(* Dispatchers.                                                            *)

\* Store.Claim, the SELECT: FOR UPDATE SKIP LOCKED.  A claim that finds nothing
\* changes nothing.
LockBatch(d) ==
  /\ locked[d] = {}
  /\ batch[d] = {}
  /\ working[d] = NoEvent
  /\ \E W \in SUBSET BeingWritten(d) :
       LET free == Claimable \ (Locked(d) \cup W)
       IN  \E S \in SUBSET free :
             /\ NextBatch(S, free)
             /\ locked' = [locked EXCEPT ![d] = S]
  /\ UNCHANGED <<table, batch, working, result, handed, faults>>

\* Store.Claim, the rest: the rows are hidden for claimVisibility, and the locks
\* let go with the commit.
Claim(d) ==
  /\ locked[d] # {}
  /\ batch' = [batch EXCEPT ![d] = locked[d]]
  /\ locked' = [locked EXCEPT ![d] = {}]
  /\ NotDueUntilLater(locked[d])
  /\ UNCHANGED <<stored, published, dead, discarded, attempts, working, result, handed, faults>>

\* Router.Deliver: what an attempt may return.  Only a registered handler runs
\* code that can fail; a type with no decision recorded always fails.
RouteResults(e) ==
  CASE e \in Handled -> {"delivered", "failed"}
    [] e \in Ignored -> {"delivered"}
    [] OTHER         -> {"failed"}

\* Whether the consumer ran.  A handler that returned nil has; one that timed
\* out or panicked may have; for an ignored type there is nothing to run; with
\* no route nothing ran.
HandedAfter(e, r) ==
  IF e \in Handled /\ r = "failed" THEN {handed, handed \cup {e}}
  ELSE IF e \in Handled \cup Ignored THEN {handed \cup {e}} ELSE {handed}

\* safeDeliver: the handler runs outside any transaction.
Deliver(d) ==
  /\ working[d] = NoEvent
  /\ \E e \in batch[d] : \E r \in RouteResults(e) :
       /\ working' = [working EXCEPT ![d] = e]
       /\ result' = [result EXCEPT ![d] = r]
       /\ batch' = [batch EXCEPT ![d] = @ \ {e}]
       /\ handed' \in HandedAfter(e, r)
  /\ UNCHANGED <<table, locked, faults>>

\* An outcome is written to a row no claim holds locked; until then the write
\* waits.
MayWrite(d) == working[d] # NoEvent /\ working[d] \notin Locked(d)

\* The dispatcher goes on to the rest of its batch.
AttemptOver(d) ==
  /\ working' = [working EXCEPT ![d] = NoEvent]
  /\ result' = [result EXCEPT ![d] = "none"]

\* Mutation: the handler's error is not looked at.
MarkDeliveredRegardless(d) ==
  /\ MayWrite(d)
  /\ published' = published \cup {working[d]}
  /\ AttemptOver(d)
  /\ UNCHANGED <<stored, dead, discarded, attempts, line, locked, batch, handed, faults>>

\* Store.MarkDelivered: guarded by published_at IS NULL and by nothing else.
MarkDelivered(d) ==
  /\ MayWrite(d)
  /\ result[d] = "delivered"
  /\ published' = published \cup {working[d]}
  /\ AttemptOver(d)
  /\ UNCHANGED <<stored, dead, discarded, attempts, line, locked, batch, handed, faults>>

\* Mutation: dead_at is set at exactly the last attempt instead of from it on.
MarkFailedExactly(d) ==
  /\ MayWrite(d)
  /\ result[d] = "failed"
  /\ LET e == working[d]
         n == attempts[e] + 1
     IN  /\ attempts' = [attempts EXCEPT ![e] = n]
         /\ dead' = IF n = MaxAttempts THEN dead \cup {e} ELSE dead \ {e}
         /\ NotDueUntilLater({e})
  /\ AttemptOver(d)
  /\ UNCHANGED <<stored, published, discarded, locked, batch, handed, faults>>

\* Store.MarkFailed: attempts is read under a row lock and dead_at is written
\* either way, set at the last attempt and cleared before it.
MarkFailed(d) ==
  /\ MayWrite(d)
  /\ result[d] = "failed"
  /\ LET e == working[d]
         n == attempts[e] + 1
     IN  /\ attempts' = [attempts EXCEPT ![e] = n]
         /\ dead' = IF n >= MaxAttempts THEN dead \cup {e} ELSE dead \ {e}
         /\ NotDueUntilLater({e})
  /\ AttemptOver(d)
  /\ UNCHANGED <<stored, published, discarded, locked, batch, handed, faults>>

\* deliver: the outcome could not be written, and is only logged.
OutcomeNotRecorded(d) ==
  /\ working[d] # NoEvent
  /\ faults < MaxFaults
  /\ faults' = faults + 1
  /\ AttemptOver(d)
  /\ UNCHANGED <<table, locked, batch, handed>>

\* The process dies or is stopped with part of its batch unattempted: those rows
\* stay hidden until the visibility window passes.  Or its claim fails, and the
\* rows that others have stepped over are unlocked as they were.
Crash(d) ==
  /\ locked[d] # {} \/ batch[d] # {} \/ working[d] # NoEvent
  /\ faults < MaxFaults
  /\ faults' = faults + 1
  /\ locked' = [locked EXCEPT ![d] = {}]
  /\ batch' = [batch EXCEPT ![d] = {}]
  /\ AttemptOver(d)
  /\ UNCHANGED <<table, handed>>

\* A backoff ends, or the visibility window of a claim does.  The window is
\* five minutes and a batch is fifty attempts of up to thirty seconds, so it can
\* end while the claiming dispatcher is still working through its batch.
WaitEnds(e) ==
  /\ e \in stored \ due
  /\ due' = due \cup {e}
  /\ JoinLast(e)
  /\ UNCHANGED <<open, stored, published, dead, discarded, attempts, process, handed, faults>>

-----------------------------------------------------------------------------
(* The operator.                                                           *)

\* The WHERE clause both operator transitions share.
Failed(e) == e \in dead /\ e \notin published /\ e \notin discarded

\* Store.Recover: back to pending with a fresh budget.
Recover(c, e) ==
  /\ c \in open
  /\ Failed(e)
  /\ dead' = dead \ {e}
  /\ attempts' = [attempts EXCEPT ![e] = 0]
  /\ CommitAt(c, e)
  /\ UNCHANGED <<stored, published, discarded, process, handed, faults>>

\* Store.Discard: a marker, not a delete.
Discard(e) ==
  /\ Failed(e)
  /\ discarded' = discarded \cup {e}
  /\ UNCHANGED <<stored, published, dead, attempts, line, process, handed, faults>>

-----------------------------------------------------------------------------
Dispatch(d) == LockBatch(d) \/ Claim(d) \/ Deliver(d) \/ MarkDelivered(d) \/ MarkFailed(d)

Next ==
  \/ \E c \in Callers : Begin(c) \/ RollBack(c) \/ \E e \in Events : Publish(c, e) \/ Recover(c, e)
  \/ \E e \in Events : WaitEnds(e) \/ Discard(e)
  \/ \E d \in Dispatchers : Dispatch(d) \/ OutcomeNotRecorded(d) \/ Crash(d)

Spec == Init /\ [][Next]_vars

\* Run polls for ever, so a live dispatcher always takes its next step; every
\* backoff and visibility window ends.  Producers, operators and faults owe
\* nothing.
Fairness ==
  /\ \A d \in Dispatchers : WF_vars(Dispatch(d))
  /\ \A e \in Events : WF_vars(WaitEnds(e))

FairSpec == Spec /\ Fairness

-----------------------------------------------------------------------------
(* Properties.                                                             *)

TypeOK ==
  /\ stored \subseteq Events
  /\ published \subseteq stored
  /\ dead \subseteq stored
  /\ discarded \subseteq stored
  /\ attempts \in [Events -> Nat]
  /\ due \subseteq stored
  /\ open \subseteq Callers
  /\ before \subseteq (due \cup open) \X (due \cup open)
  /\ locked \in [Dispatchers -> SUBSET stored]
  /\ batch \in [Dispatchers -> SUBSET stored]
  /\ working \in [Dispatchers -> stored \cup {NoEvent}]
  /\ result \in [Dispatchers -> {"none", "delivered", "failed"}]
  /\ handed \subseteq stored
  /\ faults \in 0..MaxFaults

\* A discarded event stays dead-lettered for ever, even though a slow
\* dispatcher may still record a failure against it and RecordFailure writes
\* dead_at either way.  It is what keeps the Claim query, which does not look at
\* discarded_at, from taking a discarded row.
DiscardedStaysDead == discarded \subseteq dead

\* The strengthening that makes it inductive: a dead row has spent its budget,
\* so one more failure cannot clear dead_at.
DeadIsExhausted == \A e \in dead : attempts[e] >= MaxAttempts

\* No dispatcher starts to work on a discarded event: the batch of a dispatcher
\* never gains one (Store.Claim).
NoDiscardedClaim ==
  [][\A d \in Dispatchers : (batch'[d] \ batch[d]) \cap discarded = {}]_vars

\* How many dispatchers hold an event they have not recorded an outcome for.
Holders(e) == {d \in Dispatchers : e \in batch[d] \/ working[d] = e}

\* Late outcomes of dispatchers whose claim expired are the only attempts made
\* beyond MaxAttempts: the counter overshoots by at most the number of other
\* dispatchers (MarkFailed, Claim).
AttemptsBounded ==
  \A e \in Events :
    attempts[e] + Cardinality(Holders(e)) < MaxAttempts + Cardinality(Dispatchers)

\* Who stands in front of e: rows the claim query would take first, and callers
\* whose rows it would.
InFront(e) == {x \in Claimable \cup open : <<x, e>> \in before}

\* An event that waits to be claimed is overtaken by no row but that of a
\* transaction older than its own time, which then takes the transaction's
\* place: no line of recovered events ever forms in front of it.  And a claim
\* that leaves it unlocked, though nobody held it, takes only rows in front of
\* it (the ORDER BY and SKIP LOCKED of Claim, the now() of Publish and Recover).
NeverOvertaken ==
  [][\A e \in Claimable \cap Claimable' :
       /\ \/ InFront(e)' \subseteq InFront(e)
          \/ \E c \in open \cap InFront(e), f \in Events :
               c \notin open' /\ InFront(e)' \subseteq (InFront(e) \ {c}) \cup {f}
       /\ \A d \in Dispatchers :
            locked'[d] # locked[d] /\ e \notin locked'[d] \cup Locked(d) \cup BeingWritten(d)
              => locked'[d] \subseteq InFront(e)]_vars

\* Every published event is eventually delivered or put in front of an
\* operator, whatever dispatchers crash and whatever operators retry.
EventuallySettled ==
  \A e \in Events : (e \in stored) ~> (e \in published \cup dead)

\* Discard's own comment: a discarded event is never to be delivered.
DiscardedNeverDelivered ==
  [][\A e \in discarded : e \notin handed => e \notin handed']_vars

\* The table and the dispatchers implement at-least-once delivery.
Promise == INSTANCE AtLeastOnce WITH offered <- stored, acked <- published
ImplementsAtLeastOnce == Promise!Spec
=============================================================================
