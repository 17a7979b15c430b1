---------------------------- MODULE OutboxProofs ----------------------------
(***************************************************************************)
(* Proofs about Outbox, for every set of events, every set of dispatchers, *)
(* every attempt budget and every batch size.                              *)
(***************************************************************************)
EXTENDS Outbox, FiniteSetTheorems, TLAPS

\* The line holds due rows of the table and open transactions of callers.
LineType ==
  /\ due \subseteq stored
  /\ open \subseteq Callers
  /\ before \subseteq (due \cup open) \X (due \cup open)

\* It still does when a caller joins it, or a row whose wait is over.
LEMMA JoinLastType ==
  ASSUME LineType, NEW x, JoinLast(x), x \in due' \cup open',
         due \subseteq due', open \subseteq open', due' \subseteq stored', open' \subseteq Callers
  PROVE  LineType'
BY DEF LineType, JoinLast, Without

\* It still does when a caller commits and leaves its place to a row.
LEMMA CommitAtType ==
  ASSUME LineType, NEW c \in open, NEW e \in stored', CommitAt(c, e),
         stored \subseteq stored', Callers \cap Events = {}, e \in Events
  PROVE  LineType'
<1> DEFINE Rest == (due \cup open) \ {c, e}
<1>1. \A p \in Without({c, e}) : p \in Rest \X Rest
  BY DEF LineType, Without
<1>2. before' \subseteq (Rest \cup {e}) \X (Rest \cup {e})
  BY <1>1 DEF CommitAt
<1>3. c # e
  BY DEF LineType
<1>4. Rest \cup {e} \subseteq due' \cup open'
  BY <1>3 DEF CommitAt
<1>5. due' \subseteq stored' /\ open' \subseteq Callers
  BY DEF CommitAt, LineType
<1> QED BY <1>2, <1>4, <1>5 DEF LineType

\* It still does when rows or a caller leave it.
LEMMA LeaveType ==
  ASSUME LineType, NEW S, NotDueUntilLater(S), stored' = stored
  PROVE  LineType'
BY DEF LineType, NotDueUntilLater, Without

-----------------------------------------------------------------------------
\* Every column keeps its type and every set of rows stays inside the table,
\* along every statement the store and the dispatchers issue.
THEOREM TypeCorrect == Spec => []TypeOK
<1>1. Init => TypeOK
  BY OutboxAssumption DEF Init, TypeOK
<1>2. TypeOK /\ [Next]_vars => TypeOK'
  <2> SUFFICES ASSUME TypeOK, [Next]_vars PROVE TypeOK'
    OBVIOUS
  <2> USE OutboxAssumption
  <2>0. LineType
    BY DEF LineType, TypeOK
  <2>1. ASSUME NEW c \in Callers, NEW e \in Events, Publish(c, e) PROVE TypeOK'
    <3>1. LineType'
      BY <2>0, <2>1, CommitAtType DEF Publish
    <3> QED BY <2>1, <3>1 DEF Publish, LineType, TypeOK, process
  <2>2. ASSUME NEW e \in Events, WaitEnds(e) PROVE TypeOK'
    <3>1. LineType'
      BY <2>0, <2>2, JoinLastType DEF WaitEnds, LineType
    <3> QED BY <2>2, <3>1 DEF WaitEnds, LineType, TypeOK, process
  <2>3. ASSUME NEW c \in Callers, NEW e \in Events, Recover(c, e) PROVE TypeOK'
    <3>1. LineType'
      BY <2>0, <2>3, CommitAtType DEF Recover, Failed, TypeOK
    <3> QED BY <2>3, <3>1 DEF Recover, Failed, LineType, TypeOK, process
  <2>4. ASSUME NEW e \in Events, Discard(e) PROVE TypeOK'
    BY <2>4 DEF Discard, Failed, TypeOK, process, line
  <2>5. ASSUME NEW d \in Dispatchers, Claim(d) PROVE TypeOK'
    <3>1. LineType'
      BY <2>0, <2>5, LeaveType DEF Claim
    <3> QED BY <2>5, <3>1 DEF Claim, LineType, TypeOK
  <2>12. ASSUME NEW c \in Callers, Begin(c) PROVE TypeOK'
    <3>1. LineType'
      BY <2>0, <2>12, JoinLastType DEF Begin, LineType
    <3> QED BY <2>12, <3>1 DEF Begin, LineType, TypeOK, process
  <2>13. ASSUME NEW c \in Callers, RollBack(c) PROVE TypeOK'
    BY <2>13 DEF RollBack, Without, TypeOK, process
  <2>14. ASSUME NEW d \in Dispatchers, LockBatch(d) PROVE TypeOK'
    <3>1. PICK S \in SUBSET Claimable : locked' = [locked EXCEPT ![d] = S]
      BY <2>14 DEF LockBatch
    <3>2. S \subseteq stored
      BY <3>1 DEF Claimable, TypeOK
    <3> QED BY <2>14, <3>1, <3>2 DEF LockBatch, TypeOK, table, line
  <2>6. ASSUME NEW d \in Dispatchers, Deliver(d) PROVE TypeOK'
    <3>1. PICK e \in batch[d] : \E r \in RouteResults(e) :
            /\ working' = [working EXCEPT ![d] = e]
            /\ result' = [result EXCEPT ![d] = r]
            /\ batch' = [batch EXCEPT ![d] = @ \ {e}]
            /\ handed' \in HandedAfter(e, r)
      BY <2>6 DEF Deliver
    <3>2. e \in stored /\ RouteResults(e) \subseteq {"delivered", "failed"}
      BY <3>1 DEF TypeOK, RouteResults
    <3> QED BY <2>6, <3>1, <3>2 DEF Deliver, HandedAfter, TypeOK, table, line
  <2>7. ASSUME NEW d \in Dispatchers, MarkDelivered(d) PROVE TypeOK'
    BY <2>7 DEF MarkDelivered, MayWrite, AttemptOver, TypeOK, line
  <2>8. ASSUME NEW d \in Dispatchers, MarkFailed(d) PROVE TypeOK'
    <3>1. LineType'
      BY <2>0, <2>8, LeaveType DEF MarkFailed
    <3>2. working[d] \in stored
      BY <2>8 DEF MarkFailed, MayWrite, TypeOK
    <3> QED BY <2>8, <3>1, <3>2 DEF MarkFailed, AttemptOver, LineType, TypeOK
  <2>9. ASSUME NEW d \in Dispatchers, OutcomeNotRecorded(d) PROVE TypeOK'
    BY <2>9 DEF OutcomeNotRecorded, AttemptOver, TypeOK, table, line
  <2>10. ASSUME NEW d \in Dispatchers, Crash(d) PROVE TypeOK'
    BY <2>10 DEF Crash, AttemptOver, TypeOK, table, line
  <2>11. CASE UNCHANGED vars
    BY <2>11 DEF vars, table, line, process, TypeOK
  <2> QED
    BY <2>1, <2>2, <2>3, <2>4, <2>5, <2>6, <2>7, <2>8, <2>9, <2>10, <2>11,
       <2>12, <2>13, <2>14
    DEF Next, Dispatch
<1> QED BY <1>1, <1>2, PTL DEF Spec

-----------------------------------------------------------------------------
\* A dead row has spent its budget and a discarded row is dead.  Neither half
\* is inductive alone: a late MarkFailed clears dead_at unless the row's
\* attempts are already at the limit.
DiscardInv == DeadIsExhausted /\ DiscardedStaysDead

\* Every statement keeps both halves.
LEMMA DiscardInvStep ==
  ASSUME TypeOK, DiscardInv, [Next]_vars
  PROVE  DiscardInv'
<1> USE OutboxAssumption
<1>2. ASSUME NEW c \in Callers, NEW e \in Events, Recover(c, e) PROVE DiscardInv'
  BY <1>2 DEF Recover, Failed, DiscardInv, DeadIsExhausted, DiscardedStaysDead, TypeOK
<1>3. ASSUME NEW e \in Events, Discard(e) PROVE DiscardInv'
  BY <1>3 DEF Discard, Failed, DiscardInv, DeadIsExhausted, DiscardedStaysDead
<1>4. ASSUME NEW d \in Dispatchers, MarkFailed(d) PROVE DiscardInv'
  <2> DEFINE e == working[d]
  <2>1. e \in Events /\ attempts[e] \in Nat
    BY <1>4 DEF MarkFailed, MayWrite, TypeOK
  <2>2. attempts' = [attempts EXCEPT ![e] = attempts[e] + 1]
    BY <1>4 DEF MarkFailed
  <2>3. dead' = IF attempts[e] + 1 >= MaxAttempts THEN dead \cup {e} ELSE dead \ {e}
    BY <1>4 DEF MarkFailed
  <2>4. discarded' = discarded
    BY <1>4 DEF MarkFailed
  <2>5. \A f \in dead : f \in Events /\ attempts[f] \in Nat /\ attempts[f] >= MaxAttempts
    BY DEF DiscardInv, DeadIsExhausted, TypeOK
  <2>6. DeadIsExhausted'
    BY <2>1, <2>2, <2>3, <2>5 DEF DeadIsExhausted, TypeOK
  <2>7. DiscardedStaysDead'
    BY <2>1, <2>3, <2>4, <2>5 DEF DiscardInv, DiscardedStaysDead
  <2> QED BY <2>6, <2>7 DEF DiscardInv
<1>5. ASSUME UNCHANGED <<dead, discarded, attempts>> PROVE DiscardInv'
  BY <1>5 DEF DiscardInv, DeadIsExhausted, DiscardedStaysDead
<1>1. ASSUME NEW e \in Events, NEW c \in Callers, Publish(c, e) PROVE DiscardInv'
  BY <1>5, <1>1 DEF Publish
<1>6. ASSUME NEW d \in Dispatchers,
             LockBatch(d) \/ Claim(d) \/ Deliver(d) \/ MarkDelivered(d) \/ OutcomeNotRecorded(d) \/ Crash(d)
      PROVE DiscardInv'
  BY <1>5, <1>6 DEF LockBatch, Claim, Deliver, MarkDelivered, OutcomeNotRecorded, Crash, table
<1>7. CASE UNCHANGED vars
  BY <1>5, <1>7 DEF vars, table
<1>8. ASSUME NEW c \in Callers, Begin(c) \/ RollBack(c) PROVE DiscardInv'
  BY <1>5, <1>8 DEF Begin, RollBack
<1>9. ASSUME NEW e \in Events, WaitEnds(e) PROVE DiscardInv'
  BY <1>5, <1>9 DEF WaitEnds
<1> QED BY <1>1, <1>2, <1>3, <1>4, <1>6, <1>7, <1>8, <1>9 DEF Next, Dispatch

\* A discarded event never leaves the dead letters, whatever slow dispatchers
\* still record against it.
THEOREM DiscardedIsDead == Spec => []DiscardedStaysDead
<1>1. Init => DiscardInv
  BY DEF Init, DiscardInv, DeadIsExhausted, DiscardedStaysDead
<1>2. TypeOK /\ DiscardInv /\ [Next]_vars => DiscardInv'
  BY DiscardInvStep
<1>3. DiscardInv => DiscardedStaysDead
  BY DEF DiscardInv
<1> QED BY <1>1, <1>2, <1>3, TypeCorrect, PTL DEF Spec

-----------------------------------------------------------------------------
\* A claim's transaction has locked claimable rows, its dispatcher does nothing
\* else meanwhile, and no two of them have locked the same row.
LockInv ==
  /\ \A d \in Dispatchers : locked[d] \subseteq Claimable
  /\ \A d \in Dispatchers : locked[d] # {} => working[d] = NoEvent /\ batch[d] = {}
  /\ \A c, d \in Dispatchers : c # d => locked[c] \cap locked[d] = {}

\* What a dispatcher may write to is locked by no claim.
LEMMA WritesAreUnlocked ==
  ASSUME LockInv, NEW d \in Dispatchers, MayWrite(d)
  PROVE  \A c \in Dispatchers : working[d] \notin locked[c]
BY DEF LockInv, MayWrite, Locked

\* Every statement keeps the locks: what would take a row out of the claim
\* query's reach waits for the lock, or is refused by its own WHERE clause.
LEMMA LockStep ==
  ASSUME TypeOK, LockInv, [Next]_vars
  PROVE  LockInv'
<1>1. ASSUME UNCHANGED <<locked, batch, working>>,
             \A d \in Dispatchers : \A e \in locked[d] : e \in Claimable'
      PROVE  LockInv'
  BY <1>1 DEF LockInv
<1>2. \A d \in Dispatchers : \A e \in locked[d] : e \in due /\ e \notin published /\ e \notin dead /\ e \in stored
  BY DEF LockInv, Claimable, TypeOK
<1>3. ASSUME NEW c \in Callers, Begin(c) \/ RollBack(c) PROVE LockInv'
  BY <1>1, <1>2, <1>3 DEF Begin, RollBack, Claimable, process
<1>4. ASSUME NEW c \in Callers, NEW e \in Events, Publish(c, e) \/ Recover(c, e) PROVE LockInv'
  BY <1>1, <1>2, <1>4 DEF Publish, Recover, CommitAt, Claimable, process
<1>5. ASSUME NEW e \in Events, WaitEnds(e) PROVE LockInv'
  BY <1>1, <1>2, <1>5 DEF WaitEnds, Claimable, process
<1>6. ASSUME NEW e \in Events, Discard(e) PROVE LockInv'
  BY <1>1, <1>2, <1>6 DEF Discard, Claimable, process, line
<1>7. ASSUME NEW d \in Dispatchers, LockBatch(d) PROVE LockInv'
  <2>1. PICK S \in SUBSET (Claimable \ Locked(d)) : locked' = [locked EXCEPT ![d] = S]
    BY <1>7 DEF LockBatch
  <2>2. locked'[d] = S /\ \A c \in Dispatchers \ {d} : locked'[c] = locked[c]
    BY <2>1 DEF TypeOK
  <2>3. \A c \in Dispatchers \ {d} : S \cap locked[c] = {}
    BY <2>1 DEF Locked
  <2>4. batch[d] = {} /\ working[d] = NoEvent /\ UNCHANGED <<batch, working>> /\ Claimable' = Claimable
    BY <1>7 DEF LockBatch, Claimable, table, line
  <2> QED BY <2>1, <2>2, <2>3, <2>4 DEF LockInv
<1>8. ASSUME NEW d \in Dispatchers, Claim(d) PROVE LockInv'
  <2>1. locked'[d] = {} /\ \A c \in Dispatchers \ {d} : locked'[c] = locked[c] /\ batch'[c] = batch[c]
    BY <1>8 DEF Claim, TypeOK
  <2>2. /\ \A e : e \in Claimable /\ e \notin locked[d] => e \in Claimable'
        /\ working' = working
    BY <1>8 DEF Claim, NotDueUntilLater, Claimable
  <2> QED BY <2>1, <2>2 DEF LockInv
<1>9. ASSUME NEW d \in Dispatchers, Deliver(d) PROVE LockInv'
  <2>1. /\ batch[d] # {} /\ locked' = locked /\ Claimable' = Claimable
        /\ \A c \in Dispatchers \ {d} : working'[c] = working[c] /\ batch'[c] = batch[c]
    BY <1>9 DEF Deliver, Claimable, table, line, TypeOK
  <2> QED BY <2>1 DEF LockInv
<1>10. ASSUME NEW d \in Dispatchers, MarkDelivered(d) \/ MarkFailed(d) \/ OutcomeNotRecorded(d)
       PROVE  LockInv'
  <2>1. /\ locked' = locked /\ batch' = batch /\ working[d] # NoEvent
        /\ \A c \in Dispatchers \ {d} : working'[c] = working[c]
    BY <1>10 DEF MarkDelivered, MarkFailed, OutcomeNotRecorded, MayWrite, AttemptOver, TypeOK
  <2>2. \A c \in Dispatchers : \A e \in locked[c] : e \in Claimable'
    <3>1. CASE MarkDelivered(d)
      BY <1>2, <3>1, WritesAreUnlocked DEF MarkDelivered, Claimable, line
    <3>2. CASE MarkFailed(d)
      BY <1>2, <3>2, WritesAreUnlocked DEF MarkFailed, NotDueUntilLater, Claimable
    <3>3. CASE OutcomeNotRecorded(d)
      BY <1>2, <3>3 DEF OutcomeNotRecorded, Claimable, table, line
    <3> QED BY <1>10, <3>1, <3>2, <3>3
  <2> QED BY <2>1, <2>2 DEF LockInv
<1>11. ASSUME NEW d \in Dispatchers, Crash(d) PROVE LockInv'
  <2>1. /\ locked'[d] = {} /\ Claimable' = Claimable
        /\ \A c \in Dispatchers \ {d} :
             locked'[c] = locked[c] /\ working'[c] = working[c] /\ batch'[c] = batch[c]
    BY <1>11 DEF Crash, AttemptOver, Claimable, table, line, TypeOK
  <2> QED BY <2>1 DEF LockInv
<1>12. CASE UNCHANGED vars
  BY <1>1, <1>2, <1>12 DEF vars, table, line, process, Claimable
<1> QED
  BY <1>3, <1>4, <1>5, <1>6, <1>7, <1>8, <1>9, <1>10, <1>11, <1>12 DEF Next, Dispatch

\* The locks of the claims are sound in every state.
THEOREM LocksAreSound == Spec => []LockInv
<1>1. Init => LockInv
  BY DEF Init, LockInv
<1>2. TypeOK /\ LockInv /\ [Next]_vars => LockInv'
  BY LockStep
<1> QED BY <1>1, <1>2, TypeCorrect, PTL DEF Spec

\* Hence no dispatcher ever claims a discarded event, although the claim query
\* does not mention discarded_at.
THEOREM DiscardedIsNotClaimed == Spec => NoDiscardedClaim
<1> DEFINE Gains == \A d \in Dispatchers : (batch'[d] \ batch[d]) \cap discarded = {}
<1>1. TypeOK /\ LockInv /\ DiscardedStaysDead /\ [Next]_vars => [Gains]_vars
  <2> SUFFICES ASSUME TypeOK, LockInv, DiscardedStaysDead, Next PROVE Gains
    OBVIOUS
  <2>1. ASSUME NEW c \in Dispatchers, Claim(c) PROVE Gains
    <3>1. batch' = [batch EXCEPT ![c] = locked[c]]
      BY <2>1 DEF Claim
    <3>2. locked[c] \cap discarded = {}
      BY DEF LockInv, Claimable, DiscardedStaysDead
    <3> QED BY <3>1, <3>2 DEF TypeOK
  <2>2. ASSUME NEW c \in Dispatchers, Deliver(c) PROVE Gains
    <3>1. PICK e : batch' = [batch EXCEPT ![c] = @ \ {e}]
      BY <2>2 DEF Deliver
    <3> QED BY <3>1 DEF TypeOK
  <2>3. ASSUME NEW c \in Dispatchers, Crash(c) PROVE Gains
    BY <2>3 DEF Crash, TypeOK
  <2>4. ASSUME batch' = batch PROVE Gains
    BY <2>4
  <2> QED
    BY <2>1, <2>2, <2>3, <2>4
    DEF Next, Dispatch, Begin, RollBack, Publish, WaitEnds, Recover, Discard, LockBatch,
        MarkDelivered, MarkFailed, OutcomeNotRecorded, process
<1> QED BY <1>1, TypeCorrect, LocksAreSound, DiscardedIsDead, PTL DEF Spec, NoDiscardedClaim

-----------------------------------------------------------------------------
\* A dispatcher about to mark an event delivered has had it delivered.
DeliveredWasHanded ==
  \A d \in Dispatchers : working[d] # NoEvent /\ result[d] = "delivered" => working[d] \in handed

\* Every statement keeps that.
LEMMA DeliveredWasHandedStep ==
  ASSUME TypeOK, DeliveredWasHanded, [Next]_vars
  PROVE  DeliveredWasHanded'
<1>1. ASSUME NEW c \in Dispatchers, Deliver(c) PROVE DeliveredWasHanded'
  <2>1. PICK e \in batch[c] : \E r \in RouteResults(e) :
          /\ working' = [working EXCEPT ![c] = e]
          /\ result' = [result EXCEPT ![c] = r]
          /\ handed' \in HandedAfter(e, r)
    BY <1>1 DEF Deliver
  <2>2. PICK r \in RouteResults(e) :
          /\ working' = [working EXCEPT ![c] = e]
          /\ result' = [result EXCEPT ![c] = r]
          /\ handed' \in HandedAfter(e, r)
    BY <2>1
  <2>3. /\ r = "delivered" => e \in handed'
        /\ handed \subseteq handed'
    BY <2>2 DEF RouteResults, HandedAfter
  <2> QED BY <2>2, <2>3 DEF DeliveredWasHanded, TypeOK
<1>2. ASSUME NEW c \in Dispatchers, AttemptOver(c), handed' = handed PROVE DeliveredWasHanded'
  BY <1>2 DEF AttemptOver, DeliveredWasHanded, TypeOK
<1>3. ASSUME UNCHANGED <<working, result, handed>> PROVE DeliveredWasHanded'
  BY <1>3 DEF DeliveredWasHanded
<1> QED
  BY <1>1, <1>2, <1>3
  DEF Next, Dispatch, LockBatch, Claim, MarkDelivered, MarkFailed, OutcomeNotRecorded, Crash,
      Begin, RollBack, Publish, WaitEnds, Recover, Discard, vars, process

\* Every step of the table and the dispatchers is a step of the abstract
\* at-least-once queue, or leaves it alone.
THEOREM OutboxRefinesAtLeastOnce == Spec => ImplementsAtLeastOnce
<1>1. Init => Promise!Init
  BY DEF Init, Promise!Init
<1>2. Init => DeliveredWasHanded
  BY DEF Init, DeliveredWasHanded
<1>3. TypeOK /\ DeliveredWasHanded /\ [Next]_vars => [Promise!Next]_Promise!vars
  <2> SUFFICES ASSUME TypeOK, DeliveredWasHanded, [Next]_vars
               PROVE  Promise!Next \/ UNCHANGED Promise!vars
    OBVIOUS
  <2> USE DEF Promise!Next, Promise!vars
  <2>1. ASSUME NEW c \in Callers, NEW e \in Events, Publish(c, e) PROVE Promise!Next
    BY <2>1 DEF Publish, Promise!Offer
  <2>2. ASSUME NEW d \in Dispatchers, Deliver(d) PROVE Promise!Next \/ UNCHANGED Promise!vars
    <3>1. PICK e \in batch[d] : handed' = handed \cup {e} \/ handed' = handed
      BY <2>2 DEF Deliver, HandedAfter
    <3>2. e \in stored /\ stored \subseteq Events
      BY DEF TypeOK
    <3> QED BY <2>2, <3>1, <3>2 DEF Deliver, table, Promise!Hand
  <2>3. ASSUME NEW d \in Dispatchers, MarkDelivered(d) PROVE Promise!Next
    <3>1. working[d] \in handed /\ working[d] \in Events
      BY <2>3 DEF MarkDelivered, MayWrite, DeliveredWasHanded, TypeOK
    <3> QED BY <2>3, <3>1 DEF MarkDelivered, Promise!Ack
  <2>4. ASSUME UNCHANGED <<stored, published, handed>> PROVE UNCHANGED Promise!vars
    BY <2>4
  <2> QED
    BY <2>1, <2>2, <2>3, <2>4
    DEF Next, Dispatch, LockBatch, Claim, MarkFailed, OutcomeNotRecorded, Crash, Begin,
        RollBack, WaitEnds, Recover, Discard, vars, table
<1>4. TypeOK /\ DeliveredWasHanded /\ [Next]_vars => DeliveredWasHanded'
  BY DeliveredWasHandedStep
<1> QED
  BY <1>1, <1>2, <1>3, <1>4, TypeCorrect, PTL DEF Spec, ImplementsAtLeastOnce, Promise!Spec

-----------------------------------------------------------------------------
(* The attempts beyond the budget.                                         *)

\* A row that is not dead has budget left: it is what Claim relies on, and
\* what Recover restores.
AliveHasBudget == \A e \in Events : e \notin dead => attempts[e] < MaxAttempts

\* A dispatcher has taken the event it attempts out of its batch.
TakenFromBatch == \A d \in Dispatchers : working[d] # NoEvent => working[d] \notin batch[d]

BudgetInv == AliveHasBudget /\ TakenFromBatch /\ AttemptsBounded

\* Those who hold an event are some of the dispatchers.
LEMMA HoldersAreFew ==
  ASSUME NEW e
  PROVE  /\ IsFiniteSet(Holders(e)) /\ Cardinality(Holders(e)) \in Nat
         /\ Cardinality(Dispatchers) \in Nat /\ Cardinality(Holders(e)) <= Cardinality(Dispatchers)
<1>1. Holders(e) \subseteq Dispatchers
  BY DEF Holders
<1> QED BY <1>1, OutboxAssumption, FS_Subset, FS_CardinalityType

\* The bound is kept where an event gains neither an attempt nor a holder.
LEMMA BoundKept ==
  ASSUME TypeOK, NEW e \in Events, attempts'[e] = attempts[e],
         Holders(e)' \subseteq Holders(e),
         attempts[e] + Cardinality(Holders(e)) < MaxAttempts + Cardinality(Dispatchers)
  PROVE  (attempts[e] + Cardinality(Holders(e)))' < MaxAttempts + Cardinality(Dispatchers)
<1> DEFINE H == Holders(e)
           G == Holders(e)'
<1>1. attempts[e] \in Nat /\ MaxAttempts \in Nat
  BY OutboxAssumption DEF TypeOK
<1>2. /\ Cardinality(H) \in Nat /\ Cardinality(Dispatchers) \in Nat
      /\ Cardinality(G) \in Nat /\ Cardinality(G) <= Cardinality(H)
  BY HoldersAreFew, FS_Subset, FS_CardinalityType
<1> HIDE DEF H, G
<1> QED BY <1>1, <1>2 DEF H, G

\* The bound holds where there is budget, whoever holds the event.
LEMMA BoundWithBudget ==
  ASSUME NEW e \in Events, attempts'[e] \in Nat, attempts'[e] < MaxAttempts
  PROVE  (attempts[e] + Cardinality(Holders(e)))' < MaxAttempts + Cardinality(Dispatchers)
<1> DEFINE G == Holders(e)'
<1>1. G \subseteq Dispatchers
  BY DEF Holders
<1>2. Cardinality(G) \in Nat /\ Cardinality(Dispatchers) \in Nat
      /\ Cardinality(G) <= Cardinality(Dispatchers)
  BY <1>1, OutboxAssumption, FS_Subset, FS_CardinalityType
<1> HIDE DEF G
<1> QED BY <1>2, OutboxAssumption DEF G

\* Every statement keeps the budget's invariant: a claim finds budget, and a
\* recorded failure spends an attempt and gives up the event.
LEMMA BudgetStep ==
  ASSUME TypeOK, LockInv, BudgetInv, [Next]_vars
  PROVE  BudgetInv'
<1> USE OutboxAssumption
<1>0. /\ \A e \in Events : attempts[e] \in Nat
      /\ \A e \in Events :
           attempts[e] + Cardinality(Holders(e)) < MaxAttempts + Cardinality(Dispatchers)
  BY DEF TypeOK, BudgetInv, AttemptsBounded
<1>1. ASSUME UNCHANGED <<attempts, dead>>, TakenFromBatch',
             \A e \in Events : Holders(e)' \subseteq Holders(e)
      PROVE  BudgetInv'
  <2>1. AttemptsBounded'
    BY <1>0, <1>1, BoundKept DEF AttemptsBounded
  <2> QED BY <1>1, <2>1 DEF BudgetInv, AliveHasBudget
<1>2. ASSUME UNCHANGED <<attempts, dead, batch, working>> PROVE BudgetInv'
  BY <1>1, <1>2 DEF BudgetInv, TakenFromBatch, Holders
<1>3. ASSUME NEW e \in Events, WaitEnds(e) \/ Discard(e) PROVE BudgetInv'
  BY <1>2, <1>3 DEF WaitEnds, Discard, process
<1>11. ASSUME NEW c \in Callers, NEW e \in Events, Publish(c, e) PROVE BudgetInv'
  BY <1>2, <1>11 DEF Publish, process
<1>12. ASSUME NEW c \in Callers, Begin(c) \/ RollBack(c) PROVE BudgetInv'
  BY <1>2, <1>12 DEF Begin, RollBack, process
<1>13. ASSUME NEW d \in Dispatchers, LockBatch(d) PROVE BudgetInv'
  BY <1>2, <1>13 DEF LockBatch, table
<1>4. CASE UNCHANGED vars
  BY <1>2, <1>4 DEF vars, table, process
<1>5. ASSUME NEW c \in Callers, NEW e \in Events, Recover(c, e) PROVE BudgetInv'
  <2>1. /\ dead' = dead \ {e} /\ attempts' = [attempts EXCEPT ![e] = 0]
        /\ UNCHANGED <<batch, working>>
    BY <1>5 DEF Recover, process
  <2>2. attempts'[e] = 0 /\ \A f \in Events \ {e} : attempts'[f] = attempts[f]
    BY <2>1 DEF TypeOK
  <2>3. AttemptsBounded'
    <3> SUFFICES ASSUME NEW f \in Events
        PROVE  (attempts[f] + Cardinality(Holders(f)))' < MaxAttempts + Cardinality(Dispatchers)
      BY DEF AttemptsBounded
    <3>1. CASE f = e BY <2>2, <3>1, BoundWithBudget
    <3>2. CASE f # e
      <4>1. Holders(f)' = Holders(f) BY <2>1 DEF Holders
      <4> QED BY <1>0, <2>2, <3>2, <4>1, BoundKept
    <3> QED BY <3>1, <3>2
  <2>4. AliveHasBudget'
    BY <2>1, <2>2 DEF BudgetInv, AliveHasBudget
  <2> QED BY <2>1, <2>3, <2>4 DEF BudgetInv, TakenFromBatch
<1>6. ASSUME NEW d \in Dispatchers, Claim(d) PROVE BudgetInv'
  <2>1. PICK S \in SUBSET Claimable : S = locked[d] /\ batch' = [batch EXCEPT ![d] = S]
    BY <1>6 DEF Claim, LockInv
  <2>2. UNCHANGED <<attempts, dead, working>> /\ working[d] = NoEvent
    BY <1>6 DEF Claim, LockInv
  <2>3. batch'[d] = S /\ \A c \in Dispatchers \ {d} : batch'[c] = batch[c]
    BY <2>1 DEF TypeOK
  <2>4. TakenFromBatch'
    BY <2>2, <2>3 DEF BudgetInv, TakenFromBatch
  <2>5. AttemptsBounded'
    <3> SUFFICES ASSUME NEW f \in Events
        PROVE  (attempts[f] + Cardinality(Holders(f)))' < MaxAttempts + Cardinality(Dispatchers)
      BY DEF AttemptsBounded
    <3>1. CASE f \in S
      <4>1. attempts'[f] < MaxAttempts /\ attempts'[f] \in Nat
        BY <1>0, <2>2, <3>1 DEF Claimable, BudgetInv, AliveHasBudget
      <4> QED BY <4>1, BoundWithBudget
    <3>2. CASE f \notin S
      <4>1. Holders(f)' \subseteq Holders(f) BY <2>2, <2>3, <3>2 DEF Holders
      <4> QED BY <1>0, <2>2, <4>1, BoundKept
    <3> QED BY <3>1, <3>2
  <2> QED BY <2>2, <2>4, <2>5 DEF BudgetInv, AliveHasBudget
<1>7. ASSUME NEW d \in Dispatchers, Deliver(d) PROVE BudgetInv'
  <2>1. PICK e \in batch[d] : /\ working' = [working EXCEPT ![d] = e]
                              /\ batch' = [batch EXCEPT ![d] = batch[d] \ {e}]
    BY <1>7 DEF Deliver
  <2>2. UNCHANGED <<attempts, dead>>
    BY <1>7 DEF Deliver, table
  <2>3. /\ working'[d] = e /\ batch'[d] = batch[d] \ {e}
        /\ \A c \in Dispatchers \ {d} : working'[c] = working[c] /\ batch'[c] = batch[c]
    BY <2>1 DEF TypeOK
  <2>4. TakenFromBatch'
    BY <2>3 DEF BudgetInv, TakenFromBatch
  <2>5. \A f \in Events : Holders(f)' \subseteq Holders(f)
    BY <2>3 DEF Holders
  <2> QED BY <1>1, <2>2, <2>4, <2>5
<1>8. ASSUME NEW d \in Dispatchers, AttemptOver(d), UNCHANGED <<attempts, dead>>,
             batch' = batch \/ batch' = [batch EXCEPT ![d] = {}]
      PROVE  BudgetInv'
  <2>1. /\ working'[d] = NoEvent /\ batch'[d] \subseteq batch[d]
        /\ \A c \in Dispatchers \ {d} : working'[c] = working[c] /\ batch'[c] = batch[c]
    BY <1>8 DEF AttemptOver, TypeOK
  <2>2. TakenFromBatch'
    BY <2>1 DEF BudgetInv, TakenFromBatch
  <2>3. \A f \in Events : Holders(f)' \subseteq Holders(f)
    BY <2>1 DEF Holders
  <2> QED BY <1>1, <1>8, <2>2, <2>3
<1>9. ASSUME NEW d \in Dispatchers, MarkDelivered(d) \/ OutcomeNotRecorded(d) \/ Crash(d)
      PROVE  BudgetInv'
  BY <1>8, <1>9 DEF MarkDelivered, OutcomeNotRecorded, Crash, table
<1>10. ASSUME NEW d \in Dispatchers, MarkFailed(d) PROVE BudgetInv'
  <2>1. PICK e : e = working[d] /\ e \in Events /\ e # NoEvent
    BY <1>10 DEF MarkFailed, MayWrite, TypeOK
  <2>2. /\ attempts' = [attempts EXCEPT ![e] = attempts[e] + 1] /\ batch' = batch
        /\ dead' = IF attempts[e] + 1 >= MaxAttempts THEN dead \cup {e} ELSE dead \ {e}
        /\ AttemptOver(d)
    BY <1>10, <2>1 DEF MarkFailed
  <2>3. attempts'[e] = attempts[e] + 1 /\ \A f \in Events \ {e} : attempts'[f] = attempts[f]
    BY <2>1, <2>2 DEF TypeOK
  <2>4. working'[d] = NoEvent /\ \A c \in Dispatchers \ {d} : working'[c] = working[c]
    BY <2>2 DEF AttemptOver, TypeOK
  <2>5. TakenFromBatch'
    BY <2>2, <2>4 DEF BudgetInv, TakenFromBatch
  <2>6. AliveHasBudget'
    BY <1>0, <2>1, <2>2, <2>3 DEF BudgetInv, AliveHasBudget
  <2>7. Holders(e)' = Holders(e) \ {d} /\ d \in Holders(e)
    BY <2>1, <2>2, <2>4 DEF Holders, BudgetInv, TakenFromBatch
  <2>8. \A f \in Events \ {e} : Holders(f)' \subseteq Holders(f)
    BY <2>2, <2>4 DEF Holders
  <2>9. AttemptsBounded'
    <3> SUFFICES ASSUME NEW f \in Events
        PROVE  (attempts[f] + Cardinality(Holders(f)))' < MaxAttempts + Cardinality(Dispatchers)
      BY DEF AttemptsBounded
    <3>1. CASE f = e
      <4> DEFINE H == Holders(e)
                 G == Holders(e)'
      <4>1. /\ Cardinality(G) = Cardinality(H) - 1 /\ Cardinality(H) \in Nat
            /\ Cardinality(Dispatchers) \in Nat
        <5>1. /\ IsFiniteSet(H) /\ Cardinality(H) \in Nat /\ Cardinality(Dispatchers) \in Nat
              /\ G = H \ {d} /\ d \in H
          BY <2>7, HoldersAreFew
        <5> HIDE DEF H, G
        <5>2. Cardinality(H \ {d}) = Cardinality(H) - 1
          BY <5>1, FS_RemoveElement
        <5> QED BY <5>1, <5>2
      <4>2. attempts[e] \in Nat
            /\ attempts[e] + Cardinality(H) < MaxAttempts + Cardinality(Dispatchers)
        BY <1>0, <2>1
      <4> HIDE DEF H, G
      <4>3. attempts'[e] + Cardinality(G) < MaxAttempts + Cardinality(Dispatchers)
        BY <2>3, <4>1, <4>2
      <4> QED BY <3>1, <4>3 DEF G
    <3>2. CASE f # e BY <1>0, <2>3, <2>8, <3>2, BoundKept
    <3> QED BY <3>1, <3>2
  <2> QED BY <2>5, <2>6, <2>9 DEF BudgetInv
<1> QED BY <1>3, <1>4, <1>5, <1>6, <1>7, <1>9, <1>10, <1>11, <1>12, <1>13 DEF Next, Dispatch

\* However many dispatchers crash, lose an outcome or still work through a
\* batch whose claim has run out, the attempts at an event exceed MaxAttempts
\* by less than the number of dispatchers (Store.Claim, Store.MarkFailed).
THEOREM AttemptsAreBounded == Spec => []AttemptsBounded
<1>1. Init => BudgetInv
  <2> SUFFICES ASSUME Init PROVE BudgetInv
    OBVIOUS
  <2>1. AliveHasBudget /\ TakenFromBatch
    BY OutboxAssumption DEF Init, AliveHasBudget, TakenFromBatch
  <2>2. \A e \in Events : attempts[e] = 0 /\ Holders(e) = {}
    BY OutboxAssumption DEF Init, Holders
  <2>3. AttemptsBounded
    <3> SUFFICES ASSUME NEW e \in Events
        PROVE  attempts[e] + Cardinality(Holders(e)) < MaxAttempts + Cardinality(Dispatchers)
      BY DEF AttemptsBounded
    <3>1. attempts[e] = 0 /\ Cardinality(Holders(e)) = 0 /\ Cardinality(Dispatchers) \in Nat
      BY <2>2, FS_EmptySet, HoldersAreFew
    <3> QED BY <3>1, OutboxAssumption
  <2> QED BY <2>1, <2>3 DEF BudgetInv
<1>2. TypeOK /\ LockInv /\ BudgetInv /\ [Next]_vars => BudgetInv'
  BY BudgetStep
<1>3. BudgetInv => AttemptsBounded
  BY DEF BudgetInv
<1> QED BY <1>1, <1>2, <1>3, TypeCorrect, LocksAreSound, PTL DEF Spec
-----------------------------------------------------------------------------
\* The due rows and the open transactions stand in one line: of two of them one
\* is before the other, and none before itself.
ClaimOrder ==
  /\ \A x \in due \cup open : <<x, x>> \notin before
  /\ \A x, y \in due \cup open : x # y => <<x, y>> \in before \/ <<y, x>> \in before
  /\ \A x, y, z \in due \cup open : <<x, y>> \in before /\ <<y, z>> \in before => <<x, z>> \in before

\* What joins the line is at its end.
LEMMA JoinOrder ==
  ASSUME ClaimOrder, LineType, NEW x, JoinLast(x), due' \cup open' = due \cup open \cup {x}
  PROVE  /\ ClaimOrder'
         /\ \A y, z : z # x => (<<y, z>> \in before' <=> <<y, z>> \in before /\ y # x)
<1>1. \A y, z : <<y, z>> \in before' <=>
           \/ <<y, z>> \in before /\ y # x /\ z # x
           \/ z = x /\ y \in (due \cup open) \ {x}
  BY DEF JoinLast, Without
<1> QED BY <1>1 DEF ClaimOrder, LineType

\* What leaves the line leaves the others in order.
LEMMA LeaveOrder ==
  ASSUME ClaimOrder, NEW X, before' = Without(X), due' \cup open' \subseteq (due \cup open) \ X
  PROVE  /\ ClaimOrder'
         /\ \A y, z : <<y, z>> \in before' <=> <<y, z>> \in before /\ y \notin X /\ z \notin X
<1>1. \A y, z : <<y, z>> \in before' <=> <<y, z>> \in before /\ y \notin X /\ z \notin X
  BY DEF Without
<1> QED BY <1>1 DEF ClaimOrder

\* A committed row has its caller's place: it is before what the caller was
\* before, and nothing else moves.
LEMMA CommitOrder ==
  ASSUME ClaimOrder, NEW c \in open, NEW e, CommitAt(c, e), c # e, c \notin due
  PROVE  /\ ClaimOrder'
         /\ \A y, z : z # e => (<<y, z>> \in before' <=>
              \/ <<y, z>> \in before /\ y \notin {c, e} /\ z # c
              \/ y = e /\ z \in (due \cup open) \ {c, e} /\ <<c, z>> \in before)
<1> DEFINE Rest == (due \cup open) \ {c, e}
<1>1. due' \cup open' = Rest \cup {e}
  BY DEF CommitAt
<1>2. \A y, z : <<y, z>> \in before' <=>
           \/ <<y, z>> \in before /\ y \notin {c, e} /\ z \notin {c, e}
           \/ z = e /\ y \in Rest /\ <<y, c>> \in before
           \/ y = e /\ z \in Rest /\ <<c, z>> \in before
  BY DEF CommitAt, Without
<1>3. c \in due \cup open /\ e \notin Rest /\ c \notin Rest /\ Rest \subseteq due \cup open
  OBVIOUS
<1> HIDE DEF Rest
<1>4. /\ \A y, z \in Rest : <<y, z>> \in before' <=> <<y, z>> \in before
      /\ \A y \in Rest : <<y, e>> \in before' <=> <<y, c>> \in before
      /\ \A z \in Rest : <<e, z>> \in before' <=> <<c, z>> \in before
      /\ <<e, e>> \notin before'
  BY <1>2, <1>3
<1>5. \A x \in Rest \cup {e} : <<x, x>> \notin before'
  BY <1>3, <1>4 DEF ClaimOrder
<1>6. \A x, y \in Rest \cup {e} : x # y => <<x, y>> \in before' \/ <<y, x>> \in before'
  BY <1>3, <1>4 DEF ClaimOrder
<1>7. \A x, y, z \in Rest \cup {e} :
        <<x, y>> \in before' /\ <<y, z>> \in before' => <<x, z>> \in before'
  <2> SUFFICES ASSUME NEW x \in Rest \cup {e}, NEW y \in Rest \cup {e}, NEW z \in Rest \cup {e},
                      <<x, y>> \in before', <<y, z>> \in before'
               PROVE  <<x, z>> \in before'
    OBVIOUS
  <2> DEFINE place(v) == IF v = e THEN c ELSE v
  <2>1. /\ place(x) \in due \cup open /\ place(y) \in due \cup open /\ place(z) \in due \cup open
        /\ <<place(x), place(y)>> \in before /\ <<place(y), place(z)>> \in before
    BY <1>3, <1>4
  <2>2. <<place(x), place(z)>> \in before
    BY <2>1 DEF ClaimOrder
  <2>3. x # e \/ z # e
    BY <2>2, <1>3 DEF ClaimOrder
  <2> QED BY <1>3, <1>4, <2>2, <2>3
<1> QED BY <1>1, <1>2, <1>5, <1>6, <1>7 DEF ClaimOrder, Rest

\* What NeverOvertaken says of one event in one step: at most one row comes to
\* stand in front of it, in the place of a transaction that stood there.
HoldsItsPlace(e) ==
  \/ InFront(e)' \subseteq InFront(e)
  \/ \E c \in open \cap InFront(e), f \in Events :
       c \notin open' /\ InFront(e)' \subseteq (InFront(e) \ {c}) \cup {f}

\* The second half: a claim that leaves e alone takes only rows in front of it.
ClaimsInOrder(e) ==
  \A d \in Dispatchers :
    locked'[d] # locked[d] /\ e \notin locked'[d] \cup Locked(d) \cup BeingWritten(d)
      => locked'[d] \subseteq InFront(e)

\* Every statement keeps the line, and lets nobody in before a row that waits
\* but in the place of an older transaction.
LEMMA LineKept ==
  ASSUME TypeOK, ClaimOrder, [Next]_vars
  PROVE  ClaimOrder' /\ \A e \in Claimable \cap Claimable' : HoldsItsPlace(e)
<1> DEFINE Kept == ClaimOrder' /\ \A e \in Claimable \cap Claimable' : HoldsItsPlace(e)
<1>0. LineType /\ Callers \cap Events = {} /\ stored \subseteq Events
  BY OutboxAssumption DEF LineType, TypeOK
<1>1. ASSUME ClaimOrder',
             \A x, y : y \in Claimable /\ <<x, y>> \in before' => <<x, y>> \in before,
             \A x : x \in Claimable' \cup open' => x \in Claimable \cup open \/ ~ \E y \in Claimable : <<x, y>> \in before
      PROVE  Kept
  BY <1>1 DEF HoldsItsPlace, InFront
<1>2. ASSUME NEW X, before' = Without(X), due' \cup open' \subseteq (due \cup open) \ X,
             Claimable' \cup open' \subseteq Claimable \cup open
      PROVE  Kept
  BY <1>1, <1>2, LeaveOrder
<1>3. ASSUME NEW c \in Callers, Begin(c) PROVE Kept
  <2>1. /\ ClaimOrder'
        /\ \A y, z : z # c => (<<y, z>> \in before' <=> <<y, z>> \in before /\ y # c)
    BY <1>0, <1>3, JoinOrder DEF Begin
  <2>2. c \notin Claimable /\ c \notin due \cup open
    BY <1>0, <1>3 DEF Begin, Claimable, LineType
  <2>3. Claimable' \cup open' = Claimable \cup open \cup {c}
    BY <1>3 DEF Begin, Claimable
  <2> QED BY <1>0, <1>1, <2>1, <2>2, <2>3 DEF LineType
<1>4. ASSUME NEW c \in Callers, RollBack(c) PROVE Kept
  <2>1. c \notin due
    BY <1>0 DEF LineType
  <2> QED BY <1>2, <1>4, <2>1 DEF RollBack, Claimable
<1>5. ASSUME NEW e \in Events, WaitEnds(e) PROVE Kept
  <2>1. /\ ClaimOrder'
        /\ \A y, z : z # e => (<<y, z>> \in before' <=> <<y, z>> \in before /\ y # e)
    BY <1>0, <1>5, JoinOrder DEF WaitEnds
  <2>2. e \notin Claimable /\ e \notin due \cup open
    BY <1>0, <1>5 DEF WaitEnds, Claimable, LineType
  <2>3. Claimable' \cup open' \subseteq Claimable \cup open \cup {e}
    BY <1>5 DEF WaitEnds, Claimable
  <2> QED BY <1>0, <1>1, <2>1, <2>2, <2>3 DEF LineType
<1>6. ASSUME NEW c \in Callers, NEW e \in Events, Publish(c, e) \/ Recover(c, e) PROVE Kept
  <2>1. c \in open /\ CommitAt(c, e) /\ c # e /\ c \notin due /\ e \notin Claimable
    BY <1>0, <1>6 DEF Publish, Recover, Failed, Claimable, LineType
  <2>2. /\ ClaimOrder'
        /\ \A y, z : z # e => (<<y, z>> \in before' <=>
              \/ <<y, z>> \in before /\ y \notin {c, e} /\ z # c
              \/ y = e /\ z \in (due \cup open) \ {c, e} /\ <<c, z>> \in before)
    BY <2>1, CommitOrder
  <2>3. Claimable' \cup open' \subseteq ((Claimable \cup open) \ {c}) \cup {e} /\ c \notin open' /\ c \notin Claimable'
    BY <1>0, <1>6, <2>1 DEF Publish, Recover, CommitAt, Claimable, LineType
  <2>4. ASSUME NEW z \in Claimable PROVE HoldsItsPlace(z)
    <3>1. z # e /\ z # c
      BY <1>0, <2>1 DEF Claimable, LineType
    <3>2. CASE <<c, z>> \in before
      <4>1. c \in InFront(z)
        BY <2>1, <3>2 DEF InFront
      <4>2. InFront(z)' \subseteq (InFront(z) \ {c}) \cup {e}
        BY <2>2, <2>3, <3>1 DEF InFront
      <4> QED BY <2>1, <2>3, <4>1, <4>2 DEF HoldsItsPlace
    <3>3. CASE <<c, z>> \notin before
      <4>1. InFront(z)' \subseteq InFront(z)
        BY <2>2, <2>3, <3>1, <3>3 DEF InFront
      <4> QED BY <4>1 DEF HoldsItsPlace
    <3> QED BY <3>2, <3>3
  <2> QED BY <2>2, <2>4
<1>7. ASSUME NEW S, NotDueUntilLater(S), published' = published, dead \subseteq dead' \cup S, S \subseteq stored
      PROVE  Kept
  <2>1. due' \cup open' \subseteq (due \cup open) \ S
    BY <1>0, <1>7 DEF NotDueUntilLater, LineType
  <2>2. Claimable' \cup open' \subseteq Claimable \cup open
    BY <1>7 DEF NotDueUntilLater, Claimable
  <2> QED BY <1>2, <1>7, <2>1, <2>2 DEF NotDueUntilLater
<1>8. ASSUME NEW d \in Dispatchers, Claim(d) PROVE Kept
  BY <1>7, <1>8 DEF Claim, TypeOK
<1>9. ASSUME NEW d \in Dispatchers, MarkFailed(d) PROVE Kept
  <2>1. working[d] \in stored
    BY <1>9 DEF MarkFailed, MayWrite, TypeOK
  <2> QED BY <1>7, <1>9, <2>1 DEF MarkFailed
<1>10. ASSUME UNCHANGED <<line, dead>>, published \subseteq published' PROVE Kept
  <2>1. ClaimOrder'
    BY <1>10 DEF ClaimOrder, line
  <2>2. \A e : InFront(e)' \subseteq InFront(e)
    BY <1>10 DEF InFront, Claimable, line
  <2> QED BY <2>1, <2>2 DEF HoldsItsPlace
<1>11. ASSUME NEW e \in Events, Discard(e) PROVE Kept
  BY <1>10, <1>11 DEF Discard
<1>12. ASSUME NEW d \in Dispatchers,
              LockBatch(d) \/ Deliver(d) \/ MarkDelivered(d) \/ OutcomeNotRecorded(d) \/ Crash(d)
       PROVE  Kept
  BY <1>10, <1>12 DEF LockBatch, Deliver, MarkDelivered, OutcomeNotRecorded, Crash, table
<1>13. CASE UNCHANGED vars
  BY <1>10, <1>13 DEF vars, table
<1> QED
  BY <1>3, <1>4, <1>5, <1>6, <1>8, <1>9, <1>11, <1>12, <1>13 DEF Next, Dispatch

\* Only a claim's SELECT locks rows, and what it steps over is held by others.
LEMMA ClaimsTakeTheFirst ==
  ASSUME TypeOK, ClaimOrder, [Next]_vars, NEW e \in Claimable
  PROVE  ClaimsInOrder(e)
<1> SUFFICES ASSUME NEW d \in Dispatchers, locked'[d] # locked[d],
                    e \notin locked'[d] \cup Locked(d) \cup BeingWritten(d)
             PROVE  locked'[d] \subseteq InFront(e)
  BY DEF ClaimsInOrder
<1>1. CASE LockBatch(d)
  <2>1. PICK W \in SUBSET BeingWritten(d) :
          \E S \in SUBSET (Claimable \ (Locked(d) \cup W)) :
            NextBatch(S, Claimable \ (Locked(d) \cup W)) /\ locked' = [locked EXCEPT ![d] = S]
    BY <1>1 DEF LockBatch
  <2>2. PICK S \in SUBSET (Claimable \ (Locked(d) \cup W)) :
            NextBatch(S, Claimable \ (Locked(d) \cup W)) /\ locked' = [locked EXCEPT ![d] = S]
    BY <2>1
  <2>3. locked'[d] = S
    BY <2>2 DEF TypeOK
  <2>4. e \in (Claimable \ (Locked(d) \cup W)) \ S
    BY <2>1, <2>3
  <2>5. \A f \in S : <<e, f>> \notin before /\ f # e /\ f \in due /\ f \in Claimable
    BY <2>2, <2>4 DEF NextBatch, Claimable
  <2>6. \A f \in S : <<f, e>> \in before
    BY <2>4, <2>5 DEF ClaimOrder, Claimable
  <2> QED BY <2>3, <2>5, <2>6 DEF InFront
<1>2. CASE locked'[d] = {}
  BY <1>2
<1>3. ASSUME NEW c \in Dispatchers \ {d}, LockBatch(c) \/ Claim(c) \/ Crash(c) PROVE FALSE
  BY <1>3 DEF LockBatch, Claim, Crash, TypeOK
<1>4. ASSUME Claim(d) \/ Crash(d) PROVE locked'[d] = {}
  BY <1>4 DEF Claim, Crash, TypeOK
<1>5. locked' # locked
  OBVIOUS
<1>6. \E c \in Dispatchers : LockBatch(c) \/ Claim(c) \/ Crash(c)
  BY <1>5 DEF Next, Dispatch, Begin, RollBack, Publish, WaitEnds, Recover, Discard, Deliver,
     MarkDelivered, MarkFailed, OutcomeNotRecorded, vars, process
<1> QED BY <1>1, <1>2, <1>3, <1>4, <1>6

(***************************************************************************)
(* An event that waits to be claimed holds its place, for every set of     *)
(* events, callers and dispatchers and every batch size: no row gets in    *)
(* front of it but in the place of a transaction that began before its own *)
(* time, one row for each, and every claim that leaves it takes rows in    *)
(* front of it, or it is itself locked or being written (store.go Claim,   *)
(* queries.sql ORDER BY next_attempt_at FOR UPDATE SKIP LOCKED).  It is    *)
(* the safety half of EventuallySettled.                                   *)
(***************************************************************************)
THEOREM ClaimsGoInOrder == Spec => NeverOvertaken
<1>1. Init => ClaimOrder
  BY DEF Init, ClaimOrder
<1>2. TypeOK /\ ClaimOrder /\ [Next]_vars => ClaimOrder'
  BY LineKept
<1>3. TypeOK /\ ClaimOrder /\ [Next]_vars =>
        [\A e \in Claimable \cap Claimable' :
           /\ \/ InFront(e)' \subseteq InFront(e)
              \/ \E c \in open \cap InFront(e), f \in Events :
                   c \notin open' /\ InFront(e)' \subseteq (InFront(e) \ {c}) \cup {f}
           /\ \A d \in Dispatchers :
                locked'[d] # locked[d] /\ e \notin locked'[d] \cup Locked(d) \cup BeingWritten(d)
                  => locked'[d] \subseteq InFront(e)]_vars
  BY LineKept, ClaimsTakeTheFirst DEF HoldsItsPlace, ClaimsInOrder
<1>4. Spec => []ClaimOrder
  BY <1>1, <1>2, TypeCorrect, PTL DEF Spec
<1> QED BY <1>3, <1>4, TypeCorrect, PTL DEF Spec, NeverOvertaken
=============================================================================
