------------------------- MODULE LiveSessionProofs -------------------------
(***************************************************************************)
(* Proofs about LiveSession, for any number of requests of every command,  *)
(* any number of connection epochs and any set of processes that may die.  *)
(***************************************************************************)
EXTENDS LiveSession, FiniteSetTheorems, TLAPS

(***************************************************************************)
(* What a thread remembers of the row is no newer than the row, and an     *)
(* ingest is always under way in an epoch.                                 *)
(***************************************************************************)
Remembered ==
  \A t \in Threads :
    /\ snap[t].epoch <= epoch
    /\ snap[t].epoch \in Attempts \cup {0}
    /\ t \in Ingesters /\ pc[t] \in {"insert", "fold"} => snap[t].epoch # 0

Base == TypeOK /\ Remembered

\* Epochs are natural numbers.
LEMMA AttemptsAreNat == \A e \in Attempts \cup {0} : e \in Nat /\ e >= 0
  BY LiveAssumption

\* The copies of the row a thread may take are rows.
LEMMA RowIsRow ==
  ASSUME TypeOK
  PROVE  /\ Row \in Rows
         /\ NoRow \in Rows
         /\ \A to \in L!States : Moved(to) \in Rows
  <1>1. epoch \in Nat
    BY LiveAssumption DEF TypeOK
  <1>2. Row \in Rows
    BY <1>1 DEF TypeOK, Row, Rows
  <1>3. NoRow \in Rows
    BY DEF NoRow, Rows, L!States
  <1>4. ASSUME NEW to \in L!States PROVE Moved(to) \in Rows
    BY <1>1 DEF TypeOK, Rows, Moved
  <1>. QED  BY <1>2, <1>3, <1>4

\* A step moves one thread to a label and gives it a copy no newer than the row.
LEMMA OneThreadMoves ==
  ASSUME Base, NEW t \in Threads, NEW r \in Rows, NEW label \in Labels,
         snap' = [snap EXCEPT ![t] = r],
         pc' = [pc EXCEPT ![t] = label],
         epoch' \in Attempts \cup {0}, epoch' >= epoch,
         r.epoch <= epoch', r.epoch \in Attempts \cup {0},
         t \in Ingesters /\ label \in {"insert", "fold"} => r.epoch # 0
  PROVE  /\ Remembered'
         /\ pc' \in [Threads -> Labels]
         /\ snap' \in [Threads -> Rows]
  <1>1. pc' \in [Threads -> Labels] /\ snap' \in [Threads -> Rows]
    BY DEF Base, TypeOK
  <1>2. ASSUME NEW u \in Threads
        PROVE  /\ snap'[u].epoch <= epoch'
               /\ snap'[u].epoch \in Attempts \cup {0}
               /\ u \in Ingesters /\ pc'[u] \in {"insert", "fold"} => snap'[u].epoch # 0
    <2>1. CASE u = t
      BY <2>1 DEF Base, TypeOK
    <2>2. CASE u # t
      <3>1. snap'[u] = snap[u] /\ pc'[u] = pc[u]
        BY <2>2 DEF Base, TypeOK
      <3>2. snap[u].epoch \in Nat /\ epoch \in Nat /\ epoch' \in Nat
        BY AttemptsAreNat DEF Base, TypeOK, Remembered
      <3>. QED  BY <3>1, <3>2 DEF Base, Remembered
    <2>. QED  BY <2>1, <2>2
  <1>. QED  BY <1>1, <1>2 DEF Remembered

\* A step that leaves a thread's copy alone only moves it to a label.
LEMMA OneThreadGoes ==
  ASSUME Base, NEW t \in Threads, NEW label \in Labels,
         UNCHANGED <<snap, epoch>>, Goto(t, label),
         t \in Ingesters /\ label = "fold" => pc[t] = "insert",
         label # "insert"
  PROVE  /\ Remembered'
         /\ pc' \in [Threads -> Labels]
  <1>1. pc' \in [Threads -> Labels]
    BY DEF Base, TypeOK, Goto
  <1>2. ASSUME NEW u \in Threads, u \in Ingesters, pc'[u] \in {"insert", "fold"}
        PROVE  snap[u].epoch # 0
    BY <1>2 DEF Base, TypeOK, Remembered, Goto
  <1>. QED  BY <1>1, <1>2 DEF Base, Remembered

\* The copies a thread may take.
LEMMA Copies ==
  ASSUME Base
  PROVE  /\ epoch \in Nat /\ epoch \in Attempts \cup {0} /\ epoch >= epoch
         /\ Row \in Rows /\ Row.epoch = epoch /\ Row.epoch <= epoch
         /\ NoRow \in Rows /\ NoRow.epoch = 0 /\ NoRow.epoch <= epoch
  <1>1. epoch \in Attempts \cup {0}
    BY DEF Base, TypeOK
  <1>2. Row.epoch = epoch /\ NoRow.epoch = 0
    BY DEF Row, NoRow
  <1>. QED  BY <1>1, <1>2, RowIsRow, AttemptsAreNat DEF Base

\* Where a transition goes, and what it leaves behind.
LEMMA TransitionIsTyped ==
  ASSUME Base, NEW t \in Threads, NEW to \in L!States, Transition(t, to)
  PROVE  /\ state' \in L!States /\ version' \in Nat /\ window' \in {"open", "lapsed"}
         /\ epoch' = epoch /\ accepted' = accepted
         /\ snap' = [snap EXCEPT ![t] = Moved(to)]
         /\ Moved(to) \in Rows /\ Moved(to).epoch = epoch
  <1>1. Moved(to) \in Rows /\ Moved(to).epoch = epoch
    BY RowIsRow DEF Base, Moved
  <1>. QED
    BY <1>1 DEF Base, TypeOK, Transition

\* Every step of every thread keeps the state typed and memories in the past.
LEMMA BaseStep ==
  ASSUME Base, [Next]_vars
  PROVE  Base'
  <1>. USE Copies
  <1>1. ASSUME NEW t \in Starters, StartRead(t) PROVE Base'
    <2>1. t \in Threads /\ t \notin Ingesters
      BY LiveAssumption DEF Threads, Sealers
    <2>2. \E r \in {Row, NoRow}, label \in Labels :
             snap' = [snap EXCEPT ![t] = r] /\ pc' = [pc EXCEPT ![t] = label]
      BY <1>1 DEF StartRead, Return, Goto, Labels
    <2>3. epoch' = epoch
      BY <1>1 DEF StartRead, row
    <2>4. Remembered' /\ pc' \in [Threads -> Labels] /\ snap' \in [Threads -> Rows]
      BY <2>1, <2>2, <2>3, OneThreadMoves
    <2>. QED
      BY <1>1, <2>4 DEF Base, TypeOK, StartRead, row, record, notices
  <1>2. ASSUME NEW t \in Resumers, ResumeRead(t) PROVE Base'
    <2>1. t \in Threads /\ t \notin Ingesters
      BY LiveAssumption DEF Threads, Sealers
    <2>2. \E r \in {Row, NoRow}, label \in Labels :
             snap' = [snap EXCEPT ![t] = r] /\ pc' = [pc EXCEPT ![t] = label]
      BY <1>2 DEF ResumeRead, Return, Goto, Labels
    <2>3. epoch' = epoch
      BY <1>2 DEF ResumeRead, row
    <2>4. Remembered' /\ pc' \in [Threads -> Labels] /\ snap' \in [Threads -> Rows]
      BY <2>1, <2>2, <2>3, OneThreadMoves
    <2>. QED
      BY <1>2, <2>4 DEF Base, TypeOK, ResumeRead, row, record, notices
  <1>3. ASSUME NEW t \in Starters, StartConnect(t) PROVE Base'
    <2>1. t \in Threads /\ t \notin Ingesters /\ "connecting" \in L!States
      BY LiveAssumption DEF Threads, Sealers, L!States
    <2>2. CASE Transition(t, "connecting")
      <3>1. \E label \in Labels : pc' = [pc EXCEPT ![t] = label]
        BY <1>3 DEF StartConnect, Return, Goto, Labels
      <3>2. Remembered' /\ pc' \in [Threads -> Labels] /\ snap' \in [Threads -> Rows]
        <4>1. PICK label \in Labels : pc' = [pc EXCEPT ![t] = label]
          BY <3>1
        <4>2. snap' = [snap EXCEPT ![t] = Moved("connecting")] /\ Moved("connecting") \in Rows
              /\ Moved("connecting").epoch = epoch /\ epoch' = epoch
          BY <2>1, <2>2, TransitionIsTyped
        <4>. QED  BY <2>1, <4>1, <4>2, OneThreadMoves
      <3>3. completed' \in Seq({"completed", "expired"})
        BY <1>3 DEF Base, TypeOK, StartConnect, notices
      <3>. QED
        BY <1>3, <2>1, <2>2, <3>2, <3>3, TransitionIsTyped DEF Base, TypeOK, StartConnect,
           record, notices
    <2>3. CASE ~Fresh(t)
      <3>1. snap' = [snap EXCEPT ![t] = NoRow] /\ pc' = [pc EXCEPT ![t] = "done"] /\ UNCHANGED row
        BY <1>3, <2>3 DEF StartConnect, Transition, Return, Goto
      <3>2. Remembered' /\ pc' \in [Threads -> Labels] /\ snap' \in [Threads -> Rows]
        BY <2>1, <3>1, OneThreadMoves DEF Labels, row
      <3>. QED
        BY <1>3, <3>1, <3>2 DEF Base, TypeOK, StartConnect, row, record, notices
    <2>. QED  BY <1>3, <2>2, <2>3 DEF StartConnect, Transition
  <1>4. ASSUME NEW t \in Starters \cup Resumers, Takeover(t) PROVE Base'
    <2>1. t \in Threads /\ t \notin Ingesters
      BY LiveAssumption DEF Threads, Sealers
    <2>2. snap' = [snap EXCEPT ![t] = NoRow] /\ pc' = [pc EXCEPT ![t] = "done"]
      BY <1>4 DEF Takeover, Return, Goto
    <2>3. epoch' \in Attempts \cup {0} /\ epoch' >= epoch /\ accepted' \in Nat
      <3>1. epoch \in Attempts \cup {0} /\ accepted \in Nat /\ snap[t].epoch \in Nat
        BY <2>1, AttemptsAreNat DEF Base, TypeOK, Remembered
      <3>. QED  BY <1>4, <3>1, AttemptsAreNat DEF Takeover, BeginAttempt
    <2>4. NoRow.epoch <= epoch'
      BY <2>3, AttemptsAreNat
    <2>5. Remembered' /\ pc' \in [Threads -> Labels] /\ snap' \in [Threads -> Rows]
      BY <2>1, <2>2, <2>3, <2>4, OneThreadMoves DEF Labels
    <2>. QED
      BY <1>4, <2>3, <2>5 DEF Base, TypeOK, Takeover, record, notices
  <1>5. ASSUME NEW t \in Ingesters, NEW b \in Batches, IngestRead(t, b) PROVE Base'
    <2>1. t \in Threads
      BY DEF Threads
    <2>2. UNCHANGED epoch /\ epoch # 0
      BY <1>5 DEF IngestRead
    <2>3. Remembered' /\ pc' \in [Threads -> Labels] /\ snap' \in [Threads -> Rows]
      <3>1. CASE snap' = [snap EXCEPT ![t] = Row] /\ Goto(t, "insert")
        BY <2>1, <2>2, <3>1, OneThreadMoves DEF Goto, Labels
      <3>2. CASE Return(t)
        BY <2>1, <2>2, <3>2, OneThreadMoves DEF Return, Goto, Labels
      <3>. QED  BY <1>5, <3>1, <3>2 DEF IngestRead
    <2>4. b.segments \in Nat /\ b.lifecycle \in Seq({"established", "lost"})
      <3>1. /\ <<"established">> \in Seq({"established", "lost"})
            /\ <<"lost">> \in Seq({"established", "lost"})
            /\ <<"lost", "established">> \in Seq({"established", "lost"})
            /\ <<>> \in Seq({"established", "lost"})
        OBVIOUS
      <3>2. \/ b = [lifecycle |-> <<"established">>, segments |-> 0]
            \/ b = [lifecycle |-> <<"lost">>, segments |-> 0]
            \/ b = [lifecycle |-> <<"lost", "established">>, segments |-> 0]
            \/ b = [lifecycle |-> <<>>, segments |-> 1]
        BY DEF Batches
      <3>3. b.segments \in {0, 1}
        BY <3>2
      <3>4. b.lifecycle \in {<<"established">>, <<"lost">>, <<"lost", "established">>, <<>>}
        BY <3>2
      <3>5. b.lifecycle \in Seq({"established", "lost"})
        BY <3>1, <3>4, Zenon
      <3>. QED  BY <3>3, <3>5
    <2>5. load' \in [Ingesters -> Nat] /\ todo' \in [Ingesters -> Seq({"established", "lost"})]
      BY <1>5, <2>4 DEF Base, TypeOK, IngestRead
    <2>6. accepted' \in Nat
      BY <1>5, LiveAssumption DEF Base, TypeOK, IngestRead, Advance
    <2>. QED
      BY <1>5, <2>3, <2>5, <2>6 DEF Base, TypeOK, IngestRead, record, notices
  <1>6. ASSUME NEW t \in Ingesters, NEW n \in Slots, IngestCommit(t, n) PROVE Base'
    <2>1. t \in Threads
      BY DEF Threads
    <2>2. stored' \in [Attempts -> SUBSET Slots] /\ accepted' \in Nat
      <3>1. stored \in [Attempts -> SUBSET Slots] /\ accepted \in Nat
        BY DEF Base, TypeOK
      <3>2. stored' \in [Attempts -> SUBSET Slots]
        BY <1>6, <3>1 DEF IngestCommit
      <3>3. accepted' \in Nat
        BY <1>6, <3>1, LiveAssumption DEF IngestCommit, Advance
      <3>. QED  BY <3>2, <3>3
    <2>3. load' \in [Ingesters -> Nat] /\ segments' \in Nat
      <3>1. load \in [Ingesters -> Nat] /\ segments \in Nat
        BY DEF Base, TypeOK
      <3>. QED  BY <1>6, <3>1 DEF IngestCommit
    <2>4. Remembered' /\ pc' \in [Threads -> Labels]
      BY <1>6, <2>1, OneThreadGoes DEF IngestCommit, Labels
    <2>. QED
      BY <1>6, <2>2, <2>3, <2>4 DEF Base, TypeOK, IngestCommit, notices
  <1>7. ASSUME NEW t \in Ingesters, Fold(t) PROVE Base'
    <2>1. t \in Threads /\ "in_progress" \in L!States /\ "reconnecting" \in L!States /\ "fold" \in Labels
      BY DEF Threads, L!States, Labels
    <2>2. pc[t] = "fold" /\ snap[t].epoch \in Attempts /\ epoch # 0
      BY <1>7, <2>1 DEF Base, TypeOK, Rows, Remembered, Fold
    <2>3. ASSUME todo[t] # <<>>, Folded(t)
          PROVE  todo' \in [Ingesters -> Seq({"established", "lost"})]
      <3>1. todo[t] \in Seq({"established", "lost"})
        BY DEF Base, TypeOK
      <3>2. Tail(todo[t]) \in Seq({"established", "lost"})
        BY <2>3, <3>1
      <3>. QED  BY <2>3, <3>2 DEF Base, TypeOK, Folded
    <2>4. ASSUME NEW to \in L!States, Transition(t, to), UNCHANGED pc
          PROVE  Remembered' /\ snap' \in [Threads -> Rows]
      <3>1. pc' = [pc EXCEPT ![t] = "fold"]
        BY <2>1, <2>2, <2>4 DEF Base, TypeOK
      <3>. QED
        <4>1. snap' = [snap EXCEPT ![t] = Moved(to)] /\ Moved(to) \in Rows
              /\ Moved(to).epoch = epoch /\ epoch' = epoch
          BY <2>1, <2>4, TransitionIsTyped
        <4>. QED  BY <2>1, <2>2, <3>1, <4>1, OneThreadMoves
    <2>5. CASE todo[t] # <<>> /\ FoldEstablished(t)
      <3>1. started' \in Nat
        BY <2>5 DEF Base, TypeOK, FoldEstablished
      <3>. QED
        BY <1>7, <2>1, <2>3, <2>4, <2>5, <3>1, TransitionIsTyped
           DEF Base, TypeOK, Fold, FoldEstablished, record
    <2>6. CASE todo[t] # <<>> /\ FoldLost(t)
      <3>1. interrupted' \subseteq Attempts
        BY <2>2, <2>6 DEF Base, TypeOK, FoldLost
      <3>. QED
        BY <1>7, <2>1, <2>3, <2>4, <2>6, <3>1, TransitionIsTyped
           DEF Base, TypeOK, Fold, FoldLost, record
    <2>7. CASE todo[t] # <<>> /\ FoldNothing(t)
      BY <1>7, <2>3, <2>7 DEF Base, TypeOK, Remembered, Fold, FoldNothing, row, record
    <2>8. CASE FoldEnds(t)
      <3>1. snap' = [snap EXCEPT ![t] = NoRow] /\ pc' = [pc EXCEPT ![t] = "done"] /\ UNCHANGED epoch
        BY <2>8 DEF FoldEnds, Return, Goto, row
      <3>2. Remembered' /\ pc' \in [Threads -> Labels] /\ snap' \in [Threads -> Rows]
        BY <2>1, <3>1, OneThreadMoves DEF Labels
      <3>3. todo' \in [Ingesters -> Seq({"established", "lost"})]
        BY <2>8 DEF Base, TypeOK, FoldEnds
      <3>. QED
        BY <1>7, <2>8, <3>2, <3>3 DEF Base, TypeOK, Fold, FoldEnds, row, record
    <2>. QED  BY <1>7, <2>5, <2>6, <2>7, <2>8 DEF Fold
  <1>8. ASSUME NEW t \in Completers, NEW n \in {0} \cup Slots, AskCursor(t, n) PROVE Base'
    <2>1. t \in Threads /\ t \in Sealers /\ t \notin Ingesters
      BY LiveAssumption DEF Threads, Sealers
    <2>2. Remembered' /\ pc' \in [Threads -> Labels]
      BY <1>8, <2>1, OneThreadGoes DEF AskCursor, Labels, row
    <2>3. asked' \in [Sealers -> Cursors]
      BY <1>8, <2>1, LiveAssumption, AttemptsAreNat DEF Base, TypeOK, AskCursor, Cursors, Slots
    <2>. QED
      BY <1>8, <2>2, <2>3 DEF Base, TypeOK, AskCursor, row, record, notices
  <1>9. ASSUME NEW t \in Sealers, CompleteRead(t) PROVE Base'
    <2>1. t \in Threads /\ t \notin Ingesters
      BY LiveAssumption DEF Threads, Sealers
    <2>2. \E r \in {Row, NoRow}, label \in Labels :
             snap' = [snap EXCEPT ![t] = r] /\ pc' = [pc EXCEPT ![t] = label]
      BY <1>9 DEF CompleteRead, Fails, Return, Goto, Labels
    <2>3. epoch' = epoch
      BY <1>9 DEF CompleteRead, row
    <2>4. Remembered' /\ pc' \in [Threads -> Labels] /\ snap' \in [Threads -> Rows]
      BY <2>1, <2>2, <2>3, OneThreadMoves
    <2>5. reply' \in [Sealers -> {"none", "receipt", "conflict", "refused"}]
          /\ tries' \in [Attempts -> Nat]
      <3>1. reply \in [Sealers -> {"none", "receipt", "conflict", "refused"}]
            /\ tries \in [Attempts -> Nat]
        BY DEF Base, TypeOK
      <3>. QED  BY <1>9, <3>1 DEF CompleteRead, Fails
    <2>. QED
      BY <1>9, <2>4, <2>5 DEF Base, TypeOK, CompleteRead, row, record, notices
  <1>10. ASSUME NEW t \in Sealers, Assemble(t) PROVE Base'
    <2>1. t \in Threads /\ t \notin Ingesters
      BY LiveAssumption DEF Threads, Sealers
    <2>2. \E label \in Labels \ {"insert", "fold"} : Goto(t, label) /\ UNCHANGED <<snap, epoch>>
      BY <1>10 DEF Assemble, Labels, row
    <2>3. Remembered' /\ pc' \in [Threads -> Labels]
      BY <2>1, <2>2, OneThreadGoes
    <2>4. size' \in [Sealers -> Nat]
      BY <1>10, <2>1 DEF Base, TypeOK, Assemble
    <2>. QED
      BY <1>10, <2>3, <2>4 DEF Base, TypeOK, Assemble, row, record, notices
  <1>29. ASSUME NEW t \in Sealers, GapsUnder(t) PROVE Base'
    <2>1. t \in Threads /\ t \notin Ingesters
      BY LiveAssumption DEF Threads, Sealers
    <2>2. \E label \in Labels \ {"insert", "fold"} : Goto(t, label) /\ UNCHANGED <<snap, epoch>>
      BY <1>29 DEF GapsUnder, Labels, row
    <2>3. Remembered' /\ pc' \in [Threads -> Labels]
      BY <2>1, <2>2, OneThreadGoes
    <2>4. gaps' \in [Sealers -> SUBSET Nat]
      <3>1. Missing(t) \in SUBSET Nat
        BY DEF Base, TypeOK, Cursors, Missing
      <3>. QED  BY <1>29, <3>1 DEF Base, TypeOK, GapsUnder
    <2>. QED
      BY <1>29, <2>3, <2>4 DEF Base, TypeOK, GapsUnder, row, record, notices
  <1>11. ASSUME NEW t \in Sealers, PutSealedInput(t) PROVE Base'
    <2>1. t \in Threads /\ t \notin Ingesters
      BY LiveAssumption DEF Threads, Sealers
    <2>2. \E label \in Labels \ {"insert", "fold"} : Goto(t, label) /\ UNCHANGED <<snap, epoch>>
      BY <1>11 DEF PutSealedInput, Labels, row
    <2>3. Remembered' /\ pc' \in [Threads -> Labels]
      BY <2>1, <2>2, OneThreadGoes
    <2>4. object' \in Nat
      BY <1>11, <2>1 DEF Base, TypeOK, PutSealedInput
    <2>. QED
      BY <1>11, <2>3, <2>4 DEF Base, TypeOK, PutSealedInput, row, record, notices
  <1>12. ASSUME NEW t \in Sealers, Seal(t) PROVE Base'
    <2>1. t \in Threads /\ t \notin Ingesters
      BY LiveAssumption DEF Threads, Sealers
    <2>2. \E label \in Labels \ {"insert", "fold"} : Goto(t, label) /\ UNCHANGED <<snap, epoch>>
      BY <1>12 DEF Seal, Labels, row
    <2>3. Remembered' /\ pc' \in [Threads -> Labels]
      BY <2>1, <2>2, OneThreadGoes
    <2>4. /\ seal' \in [epoch : Nat, sequence : Nat, gaps : SUBSET Nat, digest : Nat, input : Nat]
          /\ size' \in [Sealers -> Nat] /\ gaps' \in [Sealers -> SUBSET Nat]
      BY <1>12, <2>1 DEF Base, TypeOK, Seal, Cursors
    <2>. QED
      BY <1>12, <2>3, <2>4 DEF Base, TypeOK, Seal, row, record, notices
  <1>13. ASSUME NEW t \in Sealers, Finalize(t) PROVE Base'
    <2>1. t \in Threads /\ t \notin Ingesters /\ "finalizing" \in L!States
      BY LiveAssumption DEF Threads, Sealers, L!States
    <2>2. CASE Transition(t, "finalizing")
      <3>1. \E label \in Labels : pc' = [pc EXCEPT ![t] = label]
        BY <1>13 DEF Finalize, Return, Goto, Labels
      <3>2. Remembered' /\ pc' \in [Threads -> Labels] /\ snap' \in [Threads -> Rows]
        <4>1. PICK label \in Labels : pc' = [pc EXCEPT ![t] = label]
          BY <3>1
        <4>2. snap' = [snap EXCEPT ![t] = Moved("finalizing")] /\ Moved("finalizing") \in Rows
              /\ Moved("finalizing").epoch = epoch /\ epoch' = epoch
          BY <2>1, <2>2, TransitionIsTyped
        <4>. QED  BY <2>1, <4>1, <4>2, OneThreadMoves
      <3>3. completed' \in Seq({"completed", "expired"})
        <4>1. completed \in Seq({"completed", "expired"}) /\ Kind(t) \in {"completed", "expired"}
          BY DEF Base, TypeOK, Kind
        <4>2. Append(completed, Kind(t)) \in Seq({"completed", "expired"})
          BY <4>1
        <4>. QED  BY <1>13, <4>1, <4>2 DEF Finalize
      <3>. QED
        BY <1>13, <2>1, <2>2, <3>2, <3>3, TransitionIsTyped DEF Base, TypeOK, Finalize, record, notices
    <2>3. CASE ~Fresh(t)
      <3>1. UNCHANGED <<row, snap, completed>> /\ Goto(t, "answer")
        BY <1>13, <2>3 DEF Finalize, Transition, notices
      <3>2. Remembered' /\ pc' \in [Threads -> Labels] /\ snap' \in [Threads -> Rows]
        BY <2>1, <3>1, OneThreadGoes DEF Base, TypeOK, Labels, row
      <3>. QED
        BY <1>13, <3>1, <3>2 DEF Base, TypeOK, Finalize, row, record, notices
    <2>. QED  BY <1>13, <2>2, <2>3 DEF Finalize, Transition
  <1>14. ASSUME NEW t \in Sealers, Evaluate(t) PROVE Base'
    <2>1. t \in Threads /\ t \notin Ingesters /\ "evaluating" \in L!States
      BY LiveAssumption DEF Threads, Sealers, L!States
    <2>2. CASE Transition(t, "evaluating")
      <3>1. \E label \in Labels : pc' = [pc EXCEPT ![t] = label]
        BY <1>14 DEF Evaluate, Return, Goto, Labels
      <3>2. Remembered' /\ pc' \in [Threads -> Labels] /\ snap' \in [Threads -> Rows]
        <4>1. PICK label \in Labels : pc' = [pc EXCEPT ![t] = label]
          BY <3>1
        <4>2. snap' = [snap EXCEPT ![t] = Moved("evaluating")] /\ Moved("evaluating") \in Rows
              /\ Moved("evaluating").epoch = epoch /\ epoch' = epoch
          BY <2>1, <2>2, TransitionIsTyped
        <4>. QED  BY <2>1, <4>1, <4>2, OneThreadMoves
      <3>3. completed' \in Seq({"completed", "expired"})
        BY <1>14 DEF Base, TypeOK, Evaluate, notices
      <3>. QED
        BY <1>14, <2>1, <2>2, <3>2, <3>3, TransitionIsTyped DEF Base, TypeOK, Evaluate, record, notices
    <2>3. CASE ~Fresh(t)
      <3>1. UNCHANGED <<row, snap, completed>> /\ Goto(t, "answer")
        BY <1>14, <2>3 DEF Evaluate, Transition, notices
      <3>2. Remembered' /\ pc' \in [Threads -> Labels] /\ snap' \in [Threads -> Rows]
        BY <2>1, <3>1, OneThreadGoes DEF Base, TypeOK, Labels, row
      <3>. QED
        BY <1>14, <3>1, <3>2 DEF Base, TypeOK, Evaluate, row, record, notices
    <2>. QED  BY <1>14, <2>2, <2>3 DEF Evaluate, Transition
  <1>15. ASSUME NEW t \in Sealers, Answer(t) PROVE Base'
    <2>1. t \in Threads /\ t \notin Ingesters
      BY LiveAssumption DEF Threads, Sealers
    <2>2. \E r \in {Row, NoRow}, label \in Labels :
             snap' = [snap EXCEPT ![t] = r] /\ pc' = [pc EXCEPT ![t] = label]
      BY <1>15 DEF Answer, Return, Goto, Labels
    <2>3. epoch' = epoch
      BY <1>15 DEF Answer, row
    <2>4. Remembered' /\ pc' \in [Threads -> Labels] /\ snap' \in [Threads -> Rows]
      BY <2>1, <2>2, <2>3, OneThreadMoves
    <2>5. reply' \in [Sealers -> {"none", "receipt", "conflict", "refused"}]
      BY <1>15 DEF Base, TypeOK, Answer
    <2>. QED
      BY <1>15, <2>4, <2>5 DEF Base, TypeOK, Answer, row, record, notices
  <1>16. ASSUME NEW a \in Attempts, StartGraceTimer(a) PROVE Base'
    <2>1. a \in Threads /\ a \notin Ingesters
      BY LiveAssumption DEF Threads, Sealers
    <2>2. \E label \in Labels \ {"insert", "fold"} : Goto(a, label) /\ UNCHANGED <<snap, epoch>>
      BY <1>16 DEF StartGraceTimer, Labels, row
    <2>3. Remembered' /\ pc' \in [Threads -> Labels]
      BY <2>1, <2>2, OneThreadGoes
    <2>. QED
      BY <1>16, <2>3 DEF Base, TypeOK, StartGraceTimer, row, record, notices
  <1>17. ASSUME NEW a \in Attempts, RemainingGrace(a) PROVE Base'
    <2>1. a \in Threads /\ a \notin Ingesters
      BY LiveAssumption DEF Threads, Sealers
    <2>2. \E label \in Labels \ {"insert", "fold"} : Goto(a, label) /\ UNCHANGED <<snap, epoch>>
      BY <1>17 DEF RemainingGrace, Labels, row
    <2>3. Remembered' /\ pc' \in [Threads -> Labels]
      BY <2>1, <2>2, OneThreadGoes
    <2>. QED
      BY <1>17, <2>3 DEF Base, TypeOK, RemainingGrace, row, record, notices
  <1>18. ASSUME NEW a \in Attempts, Wake(a) PROVE Base'
    <2>1. a \in Threads /\ a \notin Ingesters
      BY LiveAssumption DEF Threads, Sealers
    <2>2. \E label \in Labels \ {"insert", "fold"} : Goto(a, label) /\ UNCHANGED <<snap, epoch>>
      BY <1>18 DEF Wake, Labels, row
    <2>3. Remembered' /\ pc' \in [Threads -> Labels]
      BY <2>1, <2>2, OneThreadGoes
    <2>. QED
      BY <1>18, <2>3 DEF Base, TypeOK, Wake, row, record, notices
  <1>19. ASSUME NEW a \in Attempts, ReadFacts(a) PROVE Base'
    <2>1. a \in Threads /\ a \notin Ingesters
      BY LiveAssumption DEF Threads, Sealers
    <2>2. \E label \in Labels \ {"insert", "fold"} : Goto(a, label) /\ UNCHANGED <<snap, epoch>>
      BY <1>19 DEF ReadFacts, Labels, row
    <2>3. Remembered' /\ pc' \in [Threads -> Labels]
      BY <2>1, <2>2, OneThreadGoes
    <2>. QED
      BY <1>19, <2>3 DEF Base, TypeOK, ReadFacts, row, record, notices
  <1>20. ASSUME NEW a \in Attempts, ExpireRead(a) PROVE Base'
    <2>1. a \in Threads /\ a \notin Ingesters
      BY LiveAssumption DEF Threads, Sealers
    <2>2. \E r \in {Row, NoRow}, label \in Labels :
             snap' = [snap EXCEPT ![a] = r] /\ pc' = [pc EXCEPT ![a] = label]
      BY <1>20 DEF ExpireRead, Return, Goto, Labels
    <2>3. epoch' = epoch
      BY <1>20 DEF ExpireRead, row
    <2>4. Remembered' /\ pc' \in [Threads -> Labels] /\ snap' \in [Threads -> Rows]
      BY <2>1, <2>2, <2>3, OneThreadMoves
    <2>5. asked' \in [Sealers -> Cursors]
      <3>1. asked \in [Sealers -> Cursors] /\ [epoch |-> epoch, sequence |-> accepted] \in Cursors
        BY DEF Base, TypeOK, Cursors
      <3>. QED  BY <1>20, <3>1 DEF ExpireRead
    <2>. QED
      BY <1>20, <2>4, <2>5 DEF Base, TypeOK, ExpireRead, row, record, notices
  <1>21. ASSUME NEW a \in Attempts, RecordInterruption(a) PROVE Base'
    <2>1. a \in Threads /\ a \notin Ingesters
      BY LiveAssumption DEF Threads, Sealers
    <2>2. \E label \in Labels \ {"insert", "fold"} : Goto(a, label) /\ UNCHANGED <<snap, epoch>>
      BY <1>21 DEF RecordInterruption, Labels, row
    <2>3. Remembered' /\ pc' \in [Threads -> Labels]
      BY <2>1, <2>2, OneThreadGoes
    <2>4. facts' \in [Attempts -> Nat]
      <3>1. facts \in [Attempts -> Nat]
        BY DEF Base, TypeOK
      <3>2. ASSUME NEW e \in Attempts PROVE facts'[e] \in Nat
        BY <1>21, <3>1 DEF RecordInterruption
      <3>3. facts' = [e \in Attempts |-> facts'[e]]
        BY <1>21, <3>1 DEF RecordInterruption
      <3>. QED  BY <3>2, <3>3
    <2>. QED
      BY <1>21, <2>3, <2>4 DEF Base, TypeOK, RecordInterruption, row, record, notices
  <1>22. ASSUME NEW t \in Starters \cup Resumers, DieAsRequest(t) PROVE Base'
    <2>1. t \in Threads /\ t \notin Ingesters
      BY LiveAssumption DEF Threads, Sealers
    <2>2. \E r \in {Row, NoRow}, label \in Labels :
             snap' = [snap EXCEPT ![t] = r] /\ pc' = [pc EXCEPT ![t] = label]
      BY <1>22 DEF DieAsRequest, Return, Goto, Labels
    <2>3. epoch' = epoch
      BY <1>22 DEF DieAsRequest, row
    <2>4. Remembered' /\ pc' \in [Threads -> Labels] /\ snap' \in [Threads -> Rows]
      BY <2>1, <2>2, <2>3, OneThreadMoves
    <2>. QED
      BY <1>22, <2>4 DEF Base, TypeOK, DieAsRequest, row, record, notices
  <1>23. ASSUME NEW t \in Ingesters, DieInIngest(t) PROVE Base'
    <2>1. t \in Threads
      BY DEF Threads
    <2>2. snap' = [snap EXCEPT ![t] = NoRow] /\ pc' = [pc EXCEPT ![t] = "done"] /\ UNCHANGED epoch
      BY <1>23 DEF DieInIngest, Return, Goto, row
    <2>3. Remembered' /\ pc' \in [Threads -> Labels] /\ snap' \in [Threads -> Rows]
      BY <2>1, <2>2, OneThreadMoves DEF Labels
    <2>4. load' \in [Ingesters -> Nat] /\ todo' \in [Ingesters -> Seq({"established", "lost"})]
      BY <1>23 DEF Base, TypeOK, DieInIngest
    <2>. QED
      BY <1>23, <2>3, <2>4 DEF Base, TypeOK, DieInIngest, row, record, notices
  <1>24. ASSUME NEW t \in Sealers, DieInComplete(t) PROVE Base'
    <2>1. t \in Threads /\ t \notin Ingesters
      BY LiveAssumption DEF Threads, Sealers
    <2>2. \E r \in {Row, NoRow}, label \in Labels :
             snap' = [snap EXCEPT ![t] = r] /\ pc' = [pc EXCEPT ![t] = label]
      BY <1>24 DEF DieInComplete, Fails, Return, Goto, Labels
    <2>3. epoch' = epoch
      BY <1>24 DEF DieInComplete, row
    <2>4. Remembered' /\ pc' \in [Threads -> Labels] /\ snap' \in [Threads -> Rows]
      BY <2>1, <2>2, <2>3, OneThreadMoves
    <2>5. reply' \in [Sealers -> {"none", "receipt", "conflict", "refused"}]
          /\ tries' \in [Attempts -> Nat] /\ size' \in [Sealers -> Nat]
          /\ gaps' \in [Sealers -> SUBSET Nat]
      <3>1. reply \in [Sealers -> {"none", "receipt", "conflict", "refused"}]
            /\ tries \in [Attempts -> Nat] /\ size \in [Sealers -> Nat]
            /\ gaps \in [Sealers -> SUBSET Nat]
        BY DEF Base, TypeOK
      <3>. QED  BY <1>24, <3>1 DEF DieInComplete, Fails
    <2>. QED
      BY <1>24, <2>4, <2>5 DEF Base, TypeOK, DieInComplete, row, record, notices
  <1>25. ASSUME Lapse PROVE Base'
    BY <1>25 DEF Base, TypeOK, Remembered, Lapse, threads, row, record, notices
  <1>26. ASSUME ReportArrives PROVE Base'
    BY <1>26 DEF Base, TypeOK, Remembered, ReportArrives, threads, row, record, notices
  <1>27. ASSUME RecordEvaluation PROVE Base'
    <2>0. state \in L!States /\ version \in Nat /\ window \in {"open", "lapsed"}
      BY DEF Base, TypeOK
    <2>a. {"review_ready", "evaluation_failed"} \subseteq L!States
      BY DEF L!States
    <2>1. state' \in L!States /\ version' \in Nat /\ window' \in {"open", "lapsed"}
          /\ report' \in {"applied", "dropped"}
      BY <1>27, <2>0, <2>a DEF RecordEvaluation
    <2>. QED
      BY <1>27, <2>1 DEF Base, TypeOK, Remembered, RecordEvaluation, threads, record
  <1>28. ASSUME UNCHANGED vars PROVE Base'
    BY <1>28 DEF Base, TypeOK, Remembered, vars, threads, row, record, notices
  <1>. QED
    BY <1>1, <1>2, <1>3, <1>4, <1>5, <1>6, <1>7, <1>8, <1>9, <1>10, <1>11, <1>12,
       <1>13, <1>14, <1>15, <1>16, <1>17, <1>18, <1>19, <1>20, <1>21, <1>22, <1>23, <1>24,
       <1>25, <1>26, <1>27, <1>28, <1>29 DEF Next, Complete, Grace

(***************************************************************************)
(* The order a completion follows: a running session is in an epoch, a     *)
(* thread about to seal has a cursor of one, and a thread past the seal    *)
(* finds it written.                                                       *)
(***************************************************************************)
Safe ==
  /\ state \in {"ready", "connecting"} \cup Running \cup Ended
  /\ StartedOnce
  /\ CompletedOnce
  /\ EndedIsSealed
  /\ state \in Running => epoch # 0
  /\ \A t \in Sealers :
       /\ pc[t] \in {"assemble", "gaps", "put", "seal"} => asked[t].epoch # 0
       /\ pc[t] \in {"finalize", "evaluate", "answer"} => seal # NoSeal

\* No step breaks that order.
LEMMA SafeStep ==
  ASSUME Base, Safe, [Next]_vars
  PROVE  Safe'
  <1>0. /\ Sealers \subseteq Threads /\ Attempts \subseteq Sealers /\ Completers \subseteq Sealers
       /\ Starters \subseteq Threads \ Sealers /\ Resumers \subseteq Threads \ Sealers
       /\ Ingesters \subseteq Threads \ Sealers
       /\ pc \in [Threads -> Labels] /\ asked \in [Sealers -> Cursors] /\ snap \in [Threads -> Rows]
       /\ completed \in Seq({"completed", "expired"}) /\ started \in Nat /\ epoch \in Nat
    BY LiveAssumption, AttemptsAreNat DEF Base, TypeOK, Threads, Sealers
  <1>1. ASSUME NEW t \in Starters, StartRead(t) PROVE Safe'
    BY <1>0, <1>1 DEF Safe, StartedOnce, CompletedOnce, EndedIsSealed, Running, Ended,
       StartRead, Return, Goto, row, record, notices
  <1>2. ASSUME NEW t \in Resumers, ResumeRead(t) PROVE Safe'
    BY <1>0, <1>2 DEF Safe, StartedOnce, CompletedOnce, EndedIsSealed, Running, Ended,
       ResumeRead, Return, Goto, row, record, notices
  <1>3. ASSUME NEW t \in Starters, StartConnect(t) PROVE Safe'
    BY <1>0, <1>3 DEF Safe, StartedOnce, CompletedOnce, EndedIsSealed, Running, Ended,
       StartConnect, Return, Transition, Fresh, L!CanTransition, L!Edges, Goto, row, record,
       notices
  <1>4. ASSUME NEW t \in Starters \cup Resumers, Takeover(t) PROVE Safe'
    BY <1>0, <1>4 DEF Safe, StartedOnce, CompletedOnce, EndedIsSealed, Running, Ended, Takeover,
       BeginAttempt, Return, Goto, row, record, notices
  <1>5. ASSUME NEW t \in Ingesters, NEW b \in Batches, IngestRead(t, b) PROVE Safe'
    BY <1>0, <1>5 DEF Safe, StartedOnce, CompletedOnce, EndedIsSealed, Running, Ended,
       IngestRead, Return, Goto, row, record, notices
  <1>6. ASSUME NEW t \in Ingesters, NEW n \in Slots, IngestCommit(t, n) PROVE Safe'
    BY <1>0, <1>6 DEF Safe, StartedOnce, CompletedOnce, EndedIsSealed, Running, Ended,
       IngestCommit, Goto, row, record, notices
  <1>7. ASSUME NEW t \in Ingesters, Fold(t) PROVE Safe'
    <2>1. pc[t] = "fold" /\ t \in Threads /\ epoch # 0
      BY <1>0, <1>7 DEF Base, TypeOK, Rows, Remembered, Fold
    <2>2. CASE todo[t] # <<>> /\ FoldEstablished(t)
      BY <1>0, <1>7, <2>1, <2>2 DEF Safe, StartedOnce, CompletedOnce, EndedIsSealed, Running,
         Ended, Fold, FoldEstablished, Transition, Fresh, record
    <2>3. CASE todo[t] # <<>> /\ FoldLost(t)
      BY <1>0, <1>7, <2>1, <2>3 DEF Safe, StartedOnce, CompletedOnce, EndedIsSealed, Running,
         Ended, Fold, FoldLost, Transition, Fresh, record
    <2>4. CASE todo[t] # <<>> /\ FoldNothing(t)
      BY <1>0, <1>7, <2>4 DEF Safe, StartedOnce, CompletedOnce, EndedIsSealed, Running, Ended,
         Fold, FoldNothing, row, record
    <2>5. CASE FoldEnds(t)
      BY <1>0, <1>7, <2>5 DEF Safe, StartedOnce, CompletedOnce, EndedIsSealed, Running, Ended,
         Fold, FoldEnds, Return, Goto, row, record
    <2>. QED  BY <1>7, <2>2, <2>3, <2>4, <2>5 DEF Fold
  <1>8. ASSUME NEW t \in Completers, NEW n \in {0} \cup Slots, AskCursor(t, n) PROVE Safe'
    BY <1>0, <1>8 DEF Safe, StartedOnce, CompletedOnce, EndedIsSealed, Running, Ended,
       AskCursor, Goto, row, record, notices
  <1>9. ASSUME NEW t \in Sealers, CompleteRead(t) PROVE Safe'
    BY <1>0, <1>9 DEF Safe, StartedOnce, CompletedOnce, EndedIsSealed, Running, Ended,
       CompleteRead, Fails, Return, Goto, row, record, notices
  <1>10. ASSUME NEW t \in Sealers, Assemble(t) PROVE Safe'
    BY <1>0, <1>10 DEF Safe, StartedOnce, CompletedOnce, EndedIsSealed, Running, Ended,
       Assemble, Goto, row, record, notices
  <1>29. ASSUME NEW t \in Sealers, GapsUnder(t) PROVE Safe'
    BY <1>0, <1>29 DEF Safe, StartedOnce, CompletedOnce, EndedIsSealed, Running, Ended,
       GapsUnder, Goto, row, record, notices
  <1>11. ASSUME NEW t \in Sealers, PutSealedInput(t) PROVE Safe'
    BY <1>0, <1>11 DEF Safe, StartedOnce, CompletedOnce, EndedIsSealed, Running, Ended,
       PutSealedInput, Goto, row, record, notices
  <1>12. ASSUME NEW t \in Sealers, Seal(t) PROVE Safe'
    BY <1>0, <1>12 DEF Safe, StartedOnce, CompletedOnce, EndedIsSealed, Running, Ended, Seal,
       NoSeal, Goto, row, record, notices
  <1>13. ASSUME NEW t \in Sealers, Finalize(t) PROVE Safe'
    <2>1. CASE ~Fresh(t)
      BY <1>0, <1>13, <2>1 DEF Safe, StartedOnce, CompletedOnce, EndedIsSealed, Running,
         Ended, Finalize, Transition, Goto, row, record
    <2>2. CASE Transition(t, "finalizing")
      <3>1. state \in Running /\ state' = "finalizing" /\ epoch' = epoch
        BY <2>2 DEF Safe, Running, Ended, Transition, Fresh, L!CanTransition, L!Edges
      <3>2. completed' = Append(completed, Kind(t)) /\ pc' = [pc EXCEPT ![t] = "evaluate"]
        BY <1>13, <2>2 DEF Finalize, Transition, Goto
      <3>3. Len(completed) = 0
        BY <3>1 DEF Safe, CompletedOnce, Running, Ended
      <3>4. Kind(t) \in {"completed", "expired"}
        BY DEF Kind
      <3>5. Len(completed') = 1
        BY <1>0, <3>2, <3>3, <3>4
      <3>6. seal # NoSeal /\ UNCHANGED <<seal, asked, started>>
        BY <1>13 DEF Safe, Finalize, record
      <3>7. started' = 1
        BY <3>1, <3>6 DEF Safe, StartedOnce, Running
      <3>. QED
        BY <1>0, <3>1, <3>2, <3>5, <3>6, <3>7 DEF Safe, StartedOnce, CompletedOnce,
           EndedIsSealed, Running, Ended
    <2>. QED  BY <1>13, <2>1, <2>2 DEF Finalize
  <1>14. ASSUME NEW t \in Sealers, Evaluate(t) PROVE Safe'
    BY <1>0, <1>14 DEF Safe, StartedOnce, CompletedOnce, EndedIsSealed, Running, Ended,
       Evaluate, Transition, Fresh, L!CanTransition, L!Edges, Goto, row, record, notices
  <1>15. ASSUME NEW t \in Sealers, Answer(t) PROVE Safe'
    BY <1>0, <1>15 DEF Safe, StartedOnce, CompletedOnce, EndedIsSealed, Running, Ended, Answer,
       Return, Goto, row, record, notices
  <1>16. ASSUME NEW a \in Attempts, StartGraceTimer(a) PROVE Safe'
    BY <1>0, <1>16 DEF Safe, StartedOnce, CompletedOnce, EndedIsSealed, Running, Ended,
       StartGraceTimer, Goto, row, record, notices
  <1>17. ASSUME NEW a \in Attempts, RemainingGrace(a) PROVE Safe'
    BY <1>0, <1>17 DEF Safe, StartedOnce, CompletedOnce, EndedIsSealed, Running, Ended,
       RemainingGrace, Goto, row, record, notices
  <1>18. ASSUME NEW a \in Attempts, Wake(a) PROVE Safe'
    BY <1>0, <1>18 DEF Safe, StartedOnce, CompletedOnce, EndedIsSealed, Running, Ended, Wake,
       Goto, row, record, notices
  <1>19. ASSUME NEW a \in Attempts, ExpireRead(a) PROVE Safe'
    BY <1>0, <1>19 DEF Safe, StartedOnce, CompletedOnce, EndedIsSealed, Running, Ended,
       ExpireRead, Return, Goto, row, record, notices
  <1>20. ASSUME NEW a \in Attempts, ReadFacts(a) PROVE Safe'
    BY <1>0, <1>20 DEF Safe, StartedOnce, CompletedOnce, EndedIsSealed, Running, Ended,
       ReadFacts, Goto, row, record, notices
  <1>21. ASSUME NEW a \in Attempts, RecordInterruption(a) PROVE Safe'
    BY <1>0, <1>21 DEF Safe, StartedOnce, CompletedOnce, EndedIsSealed, Running, Ended,
       RecordInterruption, Goto, row, record, notices
  <1>22. ASSUME NEW t \in Starters \cup Resumers, DieAsRequest(t) PROVE Safe'
    BY <1>0, <1>22 DEF Safe, StartedOnce, CompletedOnce, EndedIsSealed, Running, Ended,
       DieAsRequest, Return, Goto, row, record, notices
  <1>23. ASSUME NEW t \in Ingesters, DieInIngest(t) PROVE Safe'
    BY <1>0, <1>23 DEF Safe, StartedOnce, CompletedOnce, EndedIsSealed, Running, Ended,
       DieInIngest, Return, Goto, row, record, notices
  <1>24. ASSUME NEW t \in Sealers, DieInComplete(t) PROVE Safe'
    BY <1>0, <1>24 DEF Safe, StartedOnce, CompletedOnce, EndedIsSealed, Running, Ended,
       DieInComplete, Fails, Return, Goto, row, record, notices
  <1>25. ASSUME Lapse PROVE Safe'
    BY <1>0, <1>25 DEF Safe, StartedOnce, CompletedOnce, EndedIsSealed, Running, Ended, Lapse,
       threads, Goto, row, record, notices
  <1>26. ASSUME ReportArrives PROVE Safe'
    BY <1>0, <1>26 DEF Safe, StartedOnce, CompletedOnce, EndedIsSealed, Running, Ended,
       ReportArrives, threads, Goto, row, record, notices
  <1>27. ASSUME RecordEvaluation PROVE Safe'
    BY <1>0, <1>27 DEF Safe, StartedOnce, CompletedOnce, EndedIsSealed, Running, Ended,
       RecordEvaluation, threads, Goto, row, record, notices
  <1>28. ASSUME UNCHANGED vars PROVE Safe'
    BY <1>0, <1>28 DEF Safe, StartedOnce, CompletedOnce, EndedIsSealed, Running, Ended, vars,
       threads, Goto, row, record, notices
  <1>. QED
    BY <1>1, <1>2, <1>3, <1>4, <1>5, <1>6, <1>7, <1>8, <1>9, <1>10, <1>11, <1>12,
       <1>13, <1>14, <1>15, <1>16, <1>17, <1>18, <1>19, <1>20, <1>21, <1>22, <1>23, <1>24,
       <1>25, <1>26, <1>27, <1>28, <1>29 DEF Next, Complete, Grace

(***************************************************************************)
(* Cursors and gaps.  Nothing stored is lost, so what was contiguous stays *)
(* so and what was missing can only arrive: a completion that has read its *)
(* gaps holds every other sequence below its cursor, and a timer, whose    *)
(* cursor is the row's own, has no gap to read.                            *)
(***************************************************************************)
Asking == {"facts", "record", "asked", "assemble", "gaps", "put", "seal"}
Assembled == {"put", "seal"}

CursorsHonest ==
  /\ GapsCoverMissing
  /\ ExpiryFindsNoGap
  /\ seal # NoSeal => seal.epoch \in Attempts
  /\ epoch = 0 => accepted = 0
  /\ epoch # 0 => Contiguous(stored[epoch], accepted)
  /\ \A t \in Sealers :
       /\ pc[t] \in Asking => asked[t].epoch \in Attempts
       /\ t \in Attempts /\ pc[t] \in Asking => Contiguous(stored[asked[t].epoch], asked[t].sequence)
       /\ pc[t] \in Assembled =>
            \A n \in 1 .. asked[t].sequence : n \in stored[asked[t].epoch] \/ n \in gaps[t]

\* A step that touches no cursor and sends no completion past its gaps.
Apart ==
  /\ UNCHANGED <<seal, asked, gaps, stored, epoch, accepted>>
  /\ \A t \in Sealers :
       /\ pc'[t] \in Asking => pc[t] \in Asking
       /\ pc'[t] \in Assembled => pc[t] \in Assembled

\* Such a step disturbs nothing.
LEMMA ApartStep ==
  ASSUME CursorsHonest, Apart
  PROVE  CursorsHonest'
  BY DEF CursorsHonest, Apart, GapsCoverMissing, ExpiryFindsNoGap, Contiguous

\* A takeover opens an epoch with an empty cursor, a commit adds to an epoch,
\* a completion reads its gaps before it seals, and an expiry asks for what
\* the row has.
LEMMA CursorStep ==
  ASSUME Base, Safe, CursorsHonest, [Next]_vars
  PROVE  CursorsHonest'
  <1>0. /\ Sealers \subseteq Threads /\ Attempts \subseteq Sealers /\ Completers \subseteq Sealers \ Attempts
       /\ Starters \subseteq Threads \ Sealers /\ Resumers \subseteq Threads \ Sealers
       /\ Ingesters \subseteq Threads \ Sealers
       /\ pc \in [Threads -> Labels] /\ asked \in [Sealers -> Cursors] /\ snap \in [Threads -> Rows]
       /\ gaps \in [Sealers -> SUBSET Nat] /\ stored \in [Attempts -> SUBSET Slots]
       /\ epoch \in Nat /\ accepted \in Nat /\ epoch \in Attempts \cup {0}
    BY LiveAssumption, AttemptsAreNat DEF Base, TypeOK, Threads, Sealers
  <1>1. ASSUME NEW t \in Starters, StartRead(t) PROVE CursorsHonest'
    <2>1. Apart
      BY <1>0, <1>1 DEF Apart, Asking, Assembled, StartRead, Return, Goto, row, record
    <2>. QED  BY <2>1, ApartStep
  <1>2. ASSUME NEW t \in Resumers, ResumeRead(t) PROVE CursorsHonest'
    <2>1. Apart
      BY <1>0, <1>2 DEF Apart, Asking, Assembled, ResumeRead, Return, Goto, row, record
    <2>. QED  BY <2>1, ApartStep
  <1>3. ASSUME NEW t \in Starters, StartConnect(t) PROVE CursorsHonest'
    <2>1. Apart
      BY <1>0, <1>3 DEF Apart, Asking, Assembled, StartConnect, Return, Goto, Transition, row, record
    <2>. QED  BY <2>1, ApartStep
  <1>4. ASSUME NEW t \in Starters \cup Resumers, Takeover(t) PROVE CursorsHonest'
    <2>1. UNCHANGED <<seal, asked, gaps, stored>>
          /\ \A u \in Sealers : pc'[u] = pc[u]
      BY <1>0, <1>4 DEF Takeover, Return, Goto, record
    <2>2. CASE epoch' \in Attempts /\ accepted' = 0
      BY <1>0, <2>1, <2>2, AttemptsAreNat DEF CursorsHonest, GapsCoverMissing, ExpiryFindsNoGap, Contiguous
    <2>3. CASE UNCHANGED <<epoch, accepted>>
      BY <2>1, <2>3, ApartStep DEF Apart
    <2>. QED  BY <1>4, <2>2, <2>3 DEF Takeover, BeginAttempt
  <1>5. ASSUME NEW t \in Ingesters, NEW b \in Batches, IngestRead(t, b) PROVE CursorsHonest'
    <2>1. UNCHANGED <<seal, asked, gaps, stored, epoch>> /\ epoch # 0
          /\ \A u \in Sealers : pc'[u] = pc[u]
      BY <1>0, <1>5 DEF IngestRead, Return, Goto, record
    <2>2. UNCHANGED accepted \/ Contiguous(stored[epoch], accepted')
      BY <1>5 DEF IngestRead, Advance
    <2>. QED
      BY <2>1, <2>2 DEF CursorsHonest, GapsCoverMissing, ExpiryFindsNoGap, Contiguous
  <1>6. ASSUME NEW t \in Ingesters, NEW n \in Slots, IngestCommit(t, n) PROVE CursorsHonest'
    <2>1. /\ UNCHANGED <<seal, asked, gaps, epoch>>
          /\ \A u \in Sealers : pc'[u] = pc[u]
      BY <1>0, <1>6 DEF IngestCommit, Goto
    <2>2. \A e \in Attempts : stored[e] \subseteq stored'[e]
      BY <1>0, <1>6 DEF IngestCommit
    <2>3. /\ epoch # 0 => Contiguous(stored'[epoch], accepted')
          /\ epoch = 0 => accepted' = 0
      <3>1. snap[t].epoch # 0 /\ snap[t].epoch \in Attempts
        BY <1>0, <1>6 DEF Base, Remembered, IngestCommit
      <3>2. CASE snap[t].epoch = epoch
        BY <1>0, <1>6, <3>1, <3>2 DEF IngestCommit, Advance, Contiguous
      <3>3. CASE snap[t].epoch # epoch
        BY <1>0, <1>6, <2>2, <3>3 DEF IngestCommit, CursorsHonest, Contiguous
      <3>. QED  BY <3>2, <3>3
    <2>4. GapsCoverMissing'
      <3>1. CASE seal = NoSeal
        BY <2>1, <3>1 DEF GapsCoverMissing, NoSeal
      <3>2. CASE seal # NoSeal
        BY <2>1, <2>2, <3>2 DEF GapsCoverMissing, CursorsHonest
      <3>. QED  BY <3>1, <3>2
    <2>5. ExpiryFindsNoGap'
      BY <2>1 DEF CursorsHonest, ExpiryFindsNoGap
    <2>6. ASSUME NEW u \in Sealers
          PROVE  /\ pc'[u] \in Asking => asked'[u].epoch \in Attempts
                 /\ u \in Attempts /\ pc'[u] \in Asking
                      => Contiguous(stored'[asked'[u].epoch], asked'[u].sequence)
                 /\ pc'[u] \in Assembled =>
                      \A k \in 1 .. asked'[u].sequence : k \in stored'[asked'[u].epoch] \/ k \in gaps'[u]
      <3>1. pc'[u] \in Asking => asked[u].epoch \in Attempts
        BY <2>1 DEF CursorsHonest
      <3>2. pc'[u] \in Assembled => pc'[u] \in Asking
        BY DEF Assembled, Asking
      <3>. QED  BY <2>1, <2>2, <3>1, <3>2 DEF CursorsHonest, Contiguous
    <2>7. seal' # NoSeal => seal'.epoch \in Attempts
      BY <2>1 DEF CursorsHonest
    <2>. QED  BY <2>1, <2>3, <2>4, <2>5, <2>6, <2>7 DEF CursorsHonest
  <1>7. ASSUME NEW t \in Ingesters, Fold(t) PROVE CursorsHonest'
    <2>1. Apart
      BY <1>0, <1>7 DEF Apart, Asking, Assembled, Fold, FoldEstablished, FoldLost, FoldNothing, FoldEnds, Return, Goto, Transition, row, record
    <2>. QED  BY <2>1, ApartStep
  <1>8. ASSUME NEW t \in Completers, NEW n \in {0} \cup Slots, AskCursor(t, n) PROVE CursorsHonest'
    <2>1. UNCHANGED <<seal, gaps, stored, epoch, accepted>>
      BY <1>8 DEF AskCursor, row, record
    <2>2. /\ pc'[t] \notin Assembled /\ asked'[t].epoch \in Attempts
          /\ \A u \in Sealers \ {t} : pc'[u] = pc[u] /\ asked'[u] = asked[u]
      BY <1>0, <1>8 DEF AskCursor, Goto, Assembled
    <2>. QED
      BY <1>0, <2>1, <2>2 DEF CursorsHonest, GapsCoverMissing, ExpiryFindsNoGap
  <1>9. ASSUME NEW t \in Sealers, CompleteRead(t) PROVE CursorsHonest'
    <2>1. Apart
      BY <1>0, <1>9 DEF Apart, Asking, Assembled, CompleteRead, Fails, Return, Goto, row, record
    <2>. QED  BY <2>1, ApartStep
  <1>10. ASSUME NEW t \in Sealers, Assemble(t) PROVE CursorsHonest'
    <2>1. Apart
      BY <1>0, <1>10 DEF Apart, Asking, Assembled, Assemble, Goto, row, record
    <2>. QED  BY <2>1, ApartStep
  <1>29. ASSUME NEW t \in Sealers, GapsUnder(t) PROVE CursorsHonest'
    <2>1. UNCHANGED <<seal, asked, stored, epoch, accepted>>
      BY <1>29 DEF GapsUnder, row, record
    <2>2. /\ pc[t] \in Asking /\ gaps'[t] = Missing(t)
          /\ \A u \in Sealers \ {t} : pc'[u] = pc[u] /\ gaps'[u] = gaps[u]
      BY <1>0, <1>29 DEF GapsUnder, Goto, Asking
    <2>3. t \in Attempts => Missing(t) = {}
      BY <2>2 DEF CursorsHonest, Contiguous, Missing
    <2>4. ExpiryFindsNoGap'
      BY <1>0, <2>2, <2>3 DEF CursorsHonest, ExpiryFindsNoGap
    <2>5. \A k \in 1 .. asked[t].sequence : k \in stored[asked[t].epoch] \/ k \in gaps'[t]
      BY <2>2 DEF Missing
    <2>6. GapsCoverMissing'
      BY <2>1 DEF CursorsHonest, GapsCoverMissing
    <2>. QED
      BY <1>0, <2>1, <2>2, <2>4, <2>5, <2>6 DEF CursorsHonest
  <1>11. ASSUME NEW t \in Sealers, PutSealedInput(t) PROVE CursorsHonest'
    <2>1. Apart
      BY <1>0, <1>11 DEF Apart, Asking, Assembled, PutSealedInput, Goto, row, record
    <2>. QED  BY <2>1, ApartStep
  <1>12. ASSUME NEW t \in Sealers, Seal(t) PROVE CursorsHonest'
    <2>1. UNCHANGED <<asked, stored, epoch, accepted>>
      BY <1>12 DEF Seal, row
    <2>2. /\ pc[t] \in Asking /\ pc[t] \in Assembled
          /\ pc'[t] \notin Asking /\ pc'[t] \notin Assembled /\ gaps'[t] = {}
          /\ \A u \in Sealers \ {t} : pc'[u] = pc[u] /\ gaps'[u] = gaps[u]
      BY <1>0, <1>12 DEF Seal, Goto, Asking, Assembled
    <2>3. \/ seal' = seal
          \/ /\ seal'.epoch = asked[t].epoch /\ seal'.sequence = asked[t].sequence
             /\ seal'.gaps = gaps[t]
      BY <1>12 DEF Seal
    <2>4. GapsCoverMissing' /\ (seal' # NoSeal => seal'.epoch \in Attempts)
      BY <2>1, <2>2, <2>3 DEF CursorsHonest, GapsCoverMissing
    <2>5. ExpiryFindsNoGap'
      BY <1>0, <2>2 DEF CursorsHonest, ExpiryFindsNoGap
    <2>. QED
      BY <1>0, <2>1, <2>2, <2>4, <2>5 DEF CursorsHonest
  <1>13. ASSUME NEW t \in Sealers, Finalize(t) PROVE CursorsHonest'
    <2>1. Apart
      BY <1>0, <1>13 DEF Apart, Asking, Assembled, Finalize, Transition, Goto, row, record
    <2>. QED  BY <2>1, ApartStep
  <1>14. ASSUME NEW t \in Sealers, Evaluate(t) PROVE CursorsHonest'
    <2>1. Apart
      BY <1>0, <1>14 DEF Apart, Asking, Assembled, Evaluate, Transition, Goto, row, record
    <2>. QED  BY <2>1, ApartStep
  <1>15. ASSUME NEW t \in Sealers, Answer(t) PROVE CursorsHonest'
    <2>1. Apart
      BY <1>0, <1>15 DEF Apart, Asking, Assembled, Answer, Return, Goto, row, record
    <2>. QED  BY <2>1, ApartStep
  <1>16. ASSUME NEW a \in Attempts, StartGraceTimer(a) PROVE CursorsHonest'
    <2>1. Apart
      BY <1>0, <1>16 DEF Apart, Asking, Assembled, StartGraceTimer, Goto, row, record
    <2>. QED  BY <2>1, ApartStep
  <1>17. ASSUME NEW a \in Attempts, RemainingGrace(a) PROVE CursorsHonest'
    <2>1. Apart
      BY <1>0, <1>17 DEF Apart, Asking, Assembled, RemainingGrace, Goto, row, record
    <2>. QED  BY <2>1, ApartStep
  <1>18. ASSUME NEW a \in Attempts, Wake(a) PROVE CursorsHonest'
    <2>1. Apart
      BY <1>0, <1>18 DEF Apart, Asking, Assembled, Wake, Goto, row, record
    <2>. QED  BY <2>1, ApartStep
  <1>19. ASSUME NEW a \in Attempts, ExpireRead(a) PROVE CursorsHonest'
    <2>1. UNCHANGED <<seal, gaps, stored, epoch, accepted>>
      BY <1>19 DEF ExpireRead, row, record
    <2>2. /\ \A u \in Sealers \ {a} : pc'[u] = pc[u] /\ asked'[u] = asked[u]
          /\ pc'[a] \notin Assembled
      BY <1>0, <1>19 DEF ExpireRead, Return, Goto, Assembled
    <2>3. CASE Goto(a, "facts")
      <3>1. state = "reconnecting" /\ asked'[a] = [epoch |-> epoch, sequence |-> accepted]
        BY <1>0, <1>19, <2>3 DEF ExpireRead, Return, Goto
      <3>2. epoch \in Attempts /\ epoch # 0
        BY <1>0, <3>1 DEF Safe, Running
      <3>. QED
        BY <1>0, <2>1, <2>2, <3>1, <3>2 DEF CursorsHonest, GapsCoverMissing, ExpiryFindsNoGap, Contiguous
    <2>4. CASE Return(a) /\ UNCHANGED asked
      <3>1. pc'[a] \notin Asking
        BY <1>0, <2>4 DEF Return, Goto, Asking
      <3>. QED
        BY <2>1, <2>2, <2>4, <3>1, ApartStep DEF Apart
    <2>. QED  BY <1>19, <2>3, <2>4 DEF ExpireRead
  <1>20. ASSUME NEW a \in Attempts, ReadFacts(a) PROVE CursorsHonest'
    <2>1. Apart
      BY <1>0, <1>20 DEF Apart, Asking, Assembled, ReadFacts, Goto, row, record
    <2>. QED  BY <2>1, ApartStep
  <1>21. ASSUME NEW a \in Attempts, RecordInterruption(a) PROVE CursorsHonest'
    <2>1. Apart
      BY <1>0, <1>21 DEF Apart, Asking, Assembled, RecordInterruption, Goto, row, record
    <2>. QED  BY <2>1, ApartStep
  <1>22. ASSUME NEW t \in Starters \cup Resumers, DieAsRequest(t) PROVE CursorsHonest'
    <2>1. Apart
      BY <1>0, <1>22 DEF Apart, Asking, Assembled, DieAsRequest, Return, Goto, row, record
    <2>. QED  BY <2>1, ApartStep
  <1>23. ASSUME NEW t \in Ingesters, DieInIngest(t) PROVE CursorsHonest'
    <2>1. Apart
      BY <1>0, <1>23 DEF Apart, Asking, Assembled, DieInIngest, Return, Goto, row, record
    <2>. QED  BY <2>1, ApartStep
  <1>24. ASSUME NEW t \in Sealers, DieInComplete(t) PROVE CursorsHonest'
    <2>1. UNCHANGED <<seal, asked, stored, epoch, accepted>>
      BY <1>24 DEF DieInComplete, row, record
    <2>2. /\ pc'[t] \notin Asking /\ pc'[t] \notin Assembled /\ gaps'[t] = {}
          /\ \A u \in Sealers \ {t} : pc'[u] = pc[u] /\ gaps'[u] = gaps[u]
      BY <1>0, <1>24 DEF DieInComplete, Fails, Goto, Asking, Assembled
    <2>3. ExpiryFindsNoGap' /\ GapsCoverMissing'
      BY <1>0, <2>1, <2>2 DEF CursorsHonest, ExpiryFindsNoGap, GapsCoverMissing
    <2>. QED
      BY <1>0, <2>1, <2>2, <2>3 DEF CursorsHonest
  <1>25. ASSUME Lapse PROVE CursorsHonest'
    <2>1. Apart
      BY <1>25 DEF Apart, Lapse, threads, row, record
    <2>. QED  BY <2>1, ApartStep
  <1>26. ASSUME ReportArrives PROVE CursorsHonest'
    <2>1. Apart
      BY <1>26 DEF Apart, ReportArrives, threads, row, record
    <2>. QED  BY <2>1, ApartStep
  <1>27. ASSUME RecordEvaluation PROVE CursorsHonest'
    <2>1. Apart
      BY <1>27 DEF Apart, RecordEvaluation, threads, row, record
    <2>. QED  BY <2>1, ApartStep
  <1>28. ASSUME UNCHANGED vars PROVE CursorsHonest'
    <2>1. Apart
      BY <1>28 DEF Apart, vars, threads, row, record
    <2>. QED  BY <2>1, ApartStep
  <1>. QED
    BY <1>1, <1>2, <1>3, <1>4, <1>5, <1>6, <1>7, <1>8, <1>9, <1>10, <1>11, <1>12,
       <1>13, <1>14, <1>15, <1>16, <1>17, <1>18, <1>19, <1>20, <1>21, <1>22, <1>23, <1>24,
       <1>25, <1>26, <1>27, <1>28, <1>29 DEF Next, Complete, Grace

(***************************************************************************)
(* A start that is past its transition owns a session that has left ready. *)
(***************************************************************************)
Owned ==
  /\ OneStart
  /\ \A t \in Starters : pc[t] = "begin" => state # "ready"

\* Ready is left once, by the start that wins, and never entered again.
LEMMA OwnedStep ==
  ASSUME Base, Owned, [Next]_vars
  PROVE  Owned'
  <1>0. /\ Sealers \subseteq Threads \ Starters /\ Attempts \subseteq Sealers /\ Completers \subseteq Sealers
       /\ Starters \subseteq Threads /\ Resumers \subseteq Threads \ Starters /\ Ingesters \subseteq Threads \ Starters
       /\ pc \in [Threads -> Labels]
    BY LiveAssumption, AttemptsAreNat DEF Base, TypeOK, Threads, Sealers
  <1>1. ASSUME NEW t \in Starters, StartRead(t) PROVE Owned'
    BY <1>0, <1>1 DEF Owned, OneStart, StartRead, Return, Goto, row, record, notices
  <1>2. ASSUME NEW t \in Resumers, ResumeRead(t) PROVE Owned'
    BY <1>0, <1>2 DEF Owned, OneStart, ResumeRead, Return, Goto, row, record, notices
  <1>3. ASSUME NEW t \in Starters, StartConnect(t) PROVE Owned'
    BY <1>0, <1>3 DEF Owned, OneStart, StartConnect, Return, Transition, Fresh, L!CanTransition,
       L!Edges, Goto, row, record, notices
  <1>4. ASSUME NEW t \in Starters \cup Resumers, Takeover(t) PROVE Owned'
    BY <1>0, <1>4 DEF Owned, OneStart, Takeover, BeginAttempt, Return, Goto, row, record, notices
  <1>5. ASSUME NEW t \in Ingesters, NEW b \in Batches, IngestRead(t, b) PROVE Owned'
    BY <1>0, <1>5 DEF Owned, OneStart, IngestRead, Return, Goto, row, record, notices
  <1>6. ASSUME NEW t \in Ingesters, NEW n \in Slots, IngestCommit(t, n) PROVE Owned'
    BY <1>0, <1>6 DEF Owned, OneStart, IngestCommit, Goto, row, record, notices
  <1>7. ASSUME NEW t \in Ingesters, Fold(t) PROVE Owned'
    BY <1>0, <1>7 DEF Owned, OneStart, Fold, FoldEstablished, FoldLost, FoldNothing, FoldEnds,
       Return, Transition, Fresh, Goto, row, record, notices
  <1>8. ASSUME NEW t \in Completers, NEW n \in {0} \cup Slots, AskCursor(t, n) PROVE Owned'
    BY <1>0, <1>8 DEF Owned, OneStart, AskCursor, Goto, row, record, notices
  <1>9. ASSUME NEW t \in Sealers, CompleteRead(t) PROVE Owned'
    BY <1>0, <1>9 DEF Owned, OneStart, CompleteRead, Fails, Return, Goto, row, record, notices
  <1>10. ASSUME NEW t \in Sealers, Assemble(t) PROVE Owned'
    BY <1>0, <1>10 DEF Owned, OneStart, Assemble, Goto, row, record, notices
  <1>29. ASSUME NEW t \in Sealers, GapsUnder(t) PROVE Owned'
    BY <1>0, <1>29 DEF Owned, OneStart, GapsUnder, Goto, row, record, notices
  <1>11. ASSUME NEW t \in Sealers, PutSealedInput(t) PROVE Owned'
    BY <1>0, <1>11 DEF Owned, OneStart, PutSealedInput, Goto, row, record, notices
  <1>12. ASSUME NEW t \in Sealers, Seal(t) PROVE Owned'
    BY <1>0, <1>12 DEF Owned, OneStart, Seal, NoSeal, Goto, row, record, notices
  <1>13. ASSUME NEW t \in Sealers, Finalize(t) PROVE Owned'
    BY <1>0, <1>13 DEF Owned, OneStart, Finalize, Transition, Fresh, L!CanTransition, L!Edges,
       Goto, row, record, notices
  <1>14. ASSUME NEW t \in Sealers, Evaluate(t) PROVE Owned'
    BY <1>0, <1>14 DEF Owned, OneStart, Evaluate, Transition, Fresh, L!CanTransition, L!Edges,
       Goto, row, record, notices
  <1>15. ASSUME NEW t \in Sealers, Answer(t) PROVE Owned'
    BY <1>0, <1>15 DEF Owned, OneStart, Answer, Return, Goto, row, record, notices
  <1>16. ASSUME NEW a \in Attempts, StartGraceTimer(a) PROVE Owned'
    BY <1>0, <1>16 DEF Owned, OneStart, StartGraceTimer, Goto, row, record, notices
  <1>17. ASSUME NEW a \in Attempts, RemainingGrace(a) PROVE Owned'
    BY <1>0, <1>17 DEF Owned, OneStart, RemainingGrace, Goto, row, record, notices
  <1>18. ASSUME NEW a \in Attempts, Wake(a) PROVE Owned'
    BY <1>0, <1>18 DEF Owned, OneStart, Wake, Goto, row, record, notices
  <1>19. ASSUME NEW a \in Attempts, ExpireRead(a) PROVE Owned'
    BY <1>0, <1>19 DEF Owned, OneStart, ExpireRead, Return, Goto, row, record, notices
  <1>20. ASSUME NEW a \in Attempts, ReadFacts(a) PROVE Owned'
    BY <1>0, <1>20 DEF Owned, OneStart, ReadFacts, Goto, row, record, notices
  <1>21. ASSUME NEW a \in Attempts, RecordInterruption(a) PROVE Owned'
    BY <1>0, <1>21 DEF Owned, OneStart, RecordInterruption, Goto, row, record, notices
  <1>22. ASSUME NEW t \in Starters \cup Resumers, DieAsRequest(t) PROVE Owned'
    BY <1>0, <1>22 DEF Owned, OneStart, DieAsRequest, Return, Goto, row, record, notices
  <1>23. ASSUME NEW t \in Ingesters, DieInIngest(t) PROVE Owned'
    BY <1>0, <1>23 DEF Owned, OneStart, DieInIngest, Return, Goto, row, record, notices
  <1>24. ASSUME NEW t \in Sealers, DieInComplete(t) PROVE Owned'
    BY <1>0, <1>24 DEF Owned, OneStart, DieInComplete, Fails, Return, Goto, row, record, notices
  <1>25. ASSUME Lapse PROVE Owned'
    BY <1>0, <1>25 DEF Owned, OneStart, Lapse, threads, Goto, row, record, notices
  <1>26. ASSUME ReportArrives PROVE Owned'
    BY <1>0, <1>26 DEF Owned, OneStart, ReportArrives, threads, Goto, row, record, notices
  <1>27. ASSUME RecordEvaluation PROVE Owned'
    BY <1>0, <1>27 DEF Owned, OneStart, RecordEvaluation, threads, Goto, row, record, notices
  <1>28. ASSUME UNCHANGED vars PROVE Owned'
    BY <1>0, <1>28 DEF Owned, OneStart, vars, threads, Goto, row, record, notices
  <1>. QED
    BY <1>1, <1>2, <1>3, <1>4, <1>5, <1>6, <1>7, <1>8, <1>9, <1>10, <1>11, <1>12,
       <1>13, <1>14, <1>15, <1>16, <1>17, <1>18, <1>19, <1>20, <1>21, <1>22, <1>23, <1>24,
       <1>25, <1>26, <1>27, <1>28, <1>29 DEF Next, Complete, Grace

(***************************************************************************)
(* Interruptions on file.  A timer records a fact of an epoch after        *)
(* finding none, so beside the facts an epoch has there are the timers     *)
(* about to add one: together they are no more than the timers there are.  *)
(***************************************************************************)
Recorders(e) == {a \in Attempts : pc[a] = "record" /\ snap[a].epoch = e}

FactsBounded ==
  \A e \in Attempts : facts[e] + Cardinality(Recorders(e)) <= Cardinality(Attempts)

\* A step that records nothing and sends no timer to record.
Calm ==
  /\ facts' = facts
  /\ \A a \in Attempts : pc'[a] = "record" => pc[a] = "record" /\ snap'[a] = snap[a]

\* Timers that give up recording leave the bound standing.
LEMMA FewerRecorders ==
  ASSUME Base, FactsBounded, NEW e \in Attempts,
         facts'[e] = facts[e], Recorders(e)' \subseteq Recorders(e)
  PROVE  facts'[e] + Cardinality(Recorders(e)') <= Cardinality(Attempts)
  <1>1. IsFiniteSet(Recorders(e)) /\ Cardinality(Recorders(e)) \in Nat
    BY LiveAssumption, FS_Subset, FS_CardinalityType DEF Recorders
  <1>2. Cardinality(Recorders(e)') <= Cardinality(Recorders(e)) /\ Cardinality(Recorders(e)') \in Nat
    BY <1>1, FS_Subset, FS_CardinalityType
  <1>3. facts[e] + Cardinality(Recorders(e)) <= Cardinality(Attempts)
    BY DEF FactsBounded
  <1>4. facts[e] \in Nat /\ Cardinality(Attempts) \in Nat
    BY LiveAssumption, FS_CardinalityType DEF Base, TypeOK
  <1>. QED  BY <1>1, <1>2, <1>3, <1>4

\* So does every step that has nothing to do with recording.
LEMMA CalmStep ==
  ASSUME Base, FactsBounded, Calm
  PROVE  FactsBounded'
  <1>1. ASSUME NEW e \in Attempts
        PROVE  facts'[e] + Cardinality(Recorders(e)') <= Cardinality(Attempts)
    <2>1. Recorders(e)' \subseteq Recorders(e)
      BY DEF Calm, Recorders
    <2>. QED  BY <2>1, FewerRecorders DEF Calm
  <1>. QED  BY <1>1 DEF FactsBounded

\* Reading the facts sends a timer to record only where there is none; each
\* record takes the timer out of those about to.
LEMMA FactsStep ==
  ASSUME Base, FactsBounded, [Next]_vars
  PROVE  FactsBounded'
  <1>0. /\ Sealers \subseteq Threads /\ Attempts \subseteq Sealers /\ Completers \subseteq Sealers \ Attempts
        /\ Starters \subseteq Threads \ Attempts /\ Resumers \subseteq Threads \ Attempts
        /\ Ingesters \subseteq Threads \ Attempts
        /\ pc \in [Threads -> Labels] /\ snap \in [Threads -> Rows]
        /\ facts \in [Attempts -> Nat]
    BY LiveAssumption DEF Base, TypeOK, Threads, Sealers
  <1>1. ASSUME NEW t \in Starters, StartRead(t) PROVE FactsBounded'
    <2>1. Calm
      BY <1>0, <1>1 DEF Calm, StartRead, Return, Goto, row, record, notices
    <2>. QED  BY <2>1, CalmStep
  <1>2. ASSUME NEW t \in Resumers, ResumeRead(t) PROVE FactsBounded'
    <2>1. Calm
      BY <1>0, <1>2 DEF Calm, ResumeRead, Return, Goto, row, record, notices
    <2>. QED  BY <2>1, CalmStep
  <1>3. ASSUME NEW t \in Starters, StartConnect(t) PROVE FactsBounded'
    <2>1. Calm
      BY <1>0, <1>3 DEF Calm, StartConnect, Return, Transition, Fresh, L!CanTransition, L!Edges,
         Goto, row, record, notices
    <2>. QED  BY <2>1, CalmStep
  <1>4. ASSUME NEW t \in Starters \cup Resumers, Takeover(t) PROVE FactsBounded'
    <2>1. Calm
      BY <1>0, <1>4 DEF Calm, Takeover, BeginAttempt, Return, Goto, row, record, notices
    <2>. QED  BY <2>1, CalmStep
  <1>5. ASSUME NEW t \in Ingesters, NEW b \in Batches, IngestRead(t, b) PROVE FactsBounded'
    <2>1. Calm
      BY <1>0, <1>5 DEF Calm, IngestRead, Return, Goto, row, record, notices
    <2>. QED  BY <2>1, CalmStep
  <1>6. ASSUME NEW t \in Ingesters, NEW n \in Slots, IngestCommit(t, n) PROVE FactsBounded'
    <2>1. Calm
      BY <1>0, <1>6 DEF Calm, IngestCommit, Goto, row, record, notices
    <2>. QED  BY <2>1, CalmStep
  <1>7. ASSUME NEW t \in Ingesters, Fold(t) PROVE FactsBounded'
    <2>1. Calm
      BY <1>0, <1>7 DEF Calm, Fold, FoldEstablished, FoldLost, FoldNothing, FoldEnds, Return,
         Transition, Fresh, Goto, row, record, notices
    <2>. QED  BY <2>1, CalmStep
  <1>8. ASSUME NEW t \in Completers, NEW n \in {0} \cup Slots, AskCursor(t, n) PROVE FactsBounded'
    <2>1. Calm
      BY <1>0, <1>8 DEF Calm, AskCursor, Goto, row, record, notices
    <2>. QED  BY <2>1, CalmStep
  <1>9. ASSUME NEW t \in Sealers, CompleteRead(t) PROVE FactsBounded'
    <2>1. Calm
      BY <1>0, <1>9 DEF Calm, CompleteRead, Fails, Return, Goto, row, record, notices
    <2>. QED  BY <2>1, CalmStep
  <1>10. ASSUME NEW t \in Sealers, Assemble(t) PROVE FactsBounded'
    <2>1. Calm
      BY <1>0, <1>10 DEF Calm, Assemble, Goto, row, record, notices
    <2>. QED  BY <2>1, CalmStep
  <1>29. ASSUME NEW t \in Sealers, GapsUnder(t) PROVE FactsBounded'
    <2>1. Calm
      BY <1>0, <1>29 DEF Calm, GapsUnder, Goto, row, record, notices
    <2>. QED  BY <2>1, CalmStep
  <1>11. ASSUME NEW t \in Sealers, PutSealedInput(t) PROVE FactsBounded'
    <2>1. Calm
      BY <1>0, <1>11 DEF Calm, PutSealedInput, Goto, row, record, notices
    <2>. QED  BY <2>1, CalmStep
  <1>12. ASSUME NEW t \in Sealers, Seal(t) PROVE FactsBounded'
    <2>1. Calm
      BY <1>0, <1>12 DEF Calm, Seal, NoSeal, Goto, row, record, notices
    <2>. QED  BY <2>1, CalmStep
  <1>13. ASSUME NEW t \in Sealers, Finalize(t) PROVE FactsBounded'
    <2>1. Calm
      BY <1>0, <1>13 DEF Calm, Finalize, Transition, Fresh, L!CanTransition, L!Edges, Goto, row,
         record, notices
    <2>. QED  BY <2>1, CalmStep
  <1>14. ASSUME NEW t \in Sealers, Evaluate(t) PROVE FactsBounded'
    <2>1. Calm
      BY <1>0, <1>14 DEF Calm, Evaluate, Transition, Fresh, L!CanTransition, L!Edges, Goto, row,
         record, notices
    <2>. QED  BY <2>1, CalmStep
  <1>15. ASSUME NEW t \in Sealers, Answer(t) PROVE FactsBounded'
    <2>1. Calm
      BY <1>0, <1>15 DEF Calm, Answer, Return, Goto, row, record, notices
    <2>. QED  BY <2>1, CalmStep
  <1>16. ASSUME NEW a \in Attempts, StartGraceTimer(a) PROVE FactsBounded'
    <2>1. Calm
      BY <1>0, <1>16 DEF Calm, StartGraceTimer, Goto, row, record, notices
    <2>. QED  BY <2>1, CalmStep
  <1>17. ASSUME NEW a \in Attempts, RemainingGrace(a) PROVE FactsBounded'
    <2>1. Calm
      BY <1>0, <1>17 DEF Calm, RemainingGrace, Goto, row, record, notices
    <2>. QED  BY <2>1, CalmStep
  <1>18. ASSUME NEW a \in Attempts, Wake(a) PROVE FactsBounded'
    <2>1. Calm
      BY <1>0, <1>18 DEF Calm, Wake, Goto, row, record, notices
    <2>. QED  BY <2>1, CalmStep
  <1>19. ASSUME NEW a \in Attempts, ExpireRead(a) PROVE FactsBounded'
    <2>1. Calm
      BY <1>0, <1>19 DEF Calm, ExpireRead, Return, Goto, row, record, notices
    <2>. QED  BY <2>1, CalmStep
  <1>20. ASSUME NEW a \in Attempts, ReadFacts(a) PROVE FactsBounded'
    <2>1. /\ facts' = facts /\ snap' = snap
          /\ \A u \in Attempts \ {a} : pc'[u] = pc[u]
          /\ pc'[a] = "record" => facts[snap[a].epoch] = 0
      BY <1>0, <1>20 DEF ReadFacts, Goto, record
    <2>2. ASSUME NEW e \in Attempts
          PROVE  facts'[e] + Cardinality(Recorders(e)') <= Cardinality(Attempts)
      <3>1. CASE pc'[a] = "record" /\ snap[a].epoch = e
        <4>1. facts'[e] = 0
          BY <2>1, <3>1
        <4>2. Recorders(e)' \subseteq Attempts
          BY DEF Recorders
        <4>. QED
          BY <4>1, <4>2, LiveAssumption, FS_Subset, FS_CardinalityType
      <3>2. CASE ~(pc'[a] = "record" /\ snap[a].epoch = e)
        <4>1. Recorders(e)' \subseteq Recorders(e)
          BY <2>1, <3>2 DEF Recorders
        <4>. QED
          BY <2>1, <4>1, FewerRecorders
      <3>. QED  BY <3>1, <3>2
    <2>. QED  BY <2>2 DEF FactsBounded
  <1>21. ASSUME NEW a \in Attempts, RecordInterruption(a) PROVE FactsBounded'
    <2>1. /\ pc[a] = "record" /\ pc'[a] = "asked" /\ snap' = snap
          /\ \A u \in Attempts \ {a} : pc'[u] = pc[u]
      BY <1>0, <1>21 DEF RecordInterruption, Goto
    <2>2. ASSUME NEW e \in Attempts
          PROVE  facts'[e] + Cardinality(Recorders(e)') <= Cardinality(Attempts)
      <3>1. CASE snap[a].epoch = e
        <4>1. facts'[e] = facts[e] + 1
          BY <1>0, <1>21, <3>1 DEF RecordInterruption
        <4>2. a \in Recorders(e) /\ Recorders(e)' = Recorders(e) \ {a}
          BY <2>1, <3>1 DEF Recorders
        <4>3. IsFiniteSet(Recorders(e)) /\ Cardinality(Recorders(e)) \in Nat
          BY LiveAssumption, FS_Subset, FS_CardinalityType DEF Recorders
        <4>4. Cardinality(Recorders(e)') = Cardinality(Recorders(e)) - 1
          BY <4>2, <4>3, FS_RemoveElement
        <4>5. facts[e] + Cardinality(Recorders(e)) <= Cardinality(Attempts)
          BY DEF FactsBounded
        <4>6. facts[e] \in Nat
          BY <1>0
        <4>. QED
          BY <4>1, <4>3, <4>4, <4>5, <4>6
      <3>2. CASE snap[a].epoch # e
        <4>1. facts'[e] = facts[e]
          BY <1>0, <1>21, <3>2 DEF RecordInterruption
        <4>2. Recorders(e)' \subseteq Recorders(e)
          BY <2>1 DEF Recorders
        <4>. QED
          BY <4>1, <4>2, FewerRecorders
      <3>. QED  BY <3>1, <3>2
    <2>. QED  BY <2>2 DEF FactsBounded
  <1>22. ASSUME NEW t \in Starters \cup Resumers, DieAsRequest(t) PROVE FactsBounded'
    <2>1. Calm
      BY <1>0, <1>22 DEF Calm, DieAsRequest, Return, Goto, row, record, notices
    <2>. QED  BY <2>1, CalmStep
  <1>23. ASSUME NEW t \in Ingesters, DieInIngest(t) PROVE FactsBounded'
    <2>1. Calm
      BY <1>0, <1>23 DEF Calm, DieInIngest, Return, Goto, row, record, notices
    <2>. QED  BY <2>1, CalmStep
  <1>24. ASSUME NEW t \in Sealers, DieInComplete(t) PROVE FactsBounded'
    <2>1. Calm
      BY <1>0, <1>24 DEF Calm, DieInComplete, Fails, Return, Goto, row, record, notices
    <2>. QED  BY <2>1, CalmStep
  <1>25. ASSUME Lapse PROVE FactsBounded'
    <2>1. Calm
      BY <1>0, <1>25 DEF Calm, Lapse, threads, Goto, row, record, notices
    <2>. QED  BY <2>1, CalmStep
  <1>26. ASSUME ReportArrives PROVE FactsBounded'
    <2>1. Calm
      BY <1>0, <1>26 DEF Calm, ReportArrives, threads, Goto, row, record, notices
    <2>. QED  BY <2>1, CalmStep
  <1>27. ASSUME RecordEvaluation PROVE FactsBounded'
    <2>1. Calm
      BY <1>0, <1>27 DEF Calm, RecordEvaluation, threads, Goto, row, record, notices
    <2>. QED  BY <2>1, CalmStep
  <1>28. ASSUME UNCHANGED vars PROVE FactsBounded'
    <2>1. Calm
      BY <1>0, <1>28 DEF Calm, vars, threads, Goto, row, record, notices
    <2>. QED  BY <2>1, CalmStep
  <1>. QED
    BY <1>1, <1>2, <1>3, <1>4, <1>5, <1>6, <1>7, <1>8, <1>9, <1>10, <1>11, <1>12,
       <1>13, <1>14, <1>15, <1>16, <1>17, <1>18, <1>19, <1>20, <1>21, <1>22, <1>23, <1>24,
       <1>25, <1>26, <1>27, <1>28, <1>29 DEF Next, Complete, Grace

(***************************************************************************)
(* Theorems                                                                *)
(***************************************************************************)

\* A composed session that nobody has started satisfies all of it.
LEMMA InitHolds ==
  ASSUME Init
  PROVE  Base /\ Safe /\ CursorsHonest /\ Owned /\ FactsBounded
  <1>1. TypeOK
    <2>1. NoRow \in Rows /\ NoCursor \in Cursors
      BY DEF NoRow, Rows, NoCursor, Cursors, L!States
    <2>2. <<>> \in Seq({"established", "lost"}) /\ <<>> \in Seq({"completed", "expired"})
      OBVIOUS
    <2>. QED
      BY <2>1, <2>2 DEF Init, TypeOK, NoSeal, Labels, L!States
  <1>2. Remembered
    BY DEF Init, Remembered, NoRow
  <1>3. Safe
    BY DEF Init, Safe, StartedOnce, CompletedOnce, EndedIsSealed, Running, Ended, Threads
  <1>4. CursorsHonest
    BY DEF Init, CursorsHonest, GapsCoverMissing, ExpiryFindsNoGap, Asking, Assembled, NoSeal, Threads,
       Sealers
  <1>5. Owned
    BY DEF Init, Owned, OneStart, Threads
  <1>6. FactsBounded
    <2>1. ASSUME NEW e \in Attempts PROVE facts[e] = 0 /\ Recorders(e) = {}
      BY DEF Init, Recorders, Threads, Sealers
    <2>2. Cardinality({}) = 0 /\ Cardinality(Attempts) \in Nat
      BY LiveAssumption, FS_EmptySet, FS_CardinalityType
    <2>3. ASSUME NEW e \in Attempts PROVE facts[e] + Cardinality(Recorders(e)) = 0
      BY <2>1, <2>2
    <2>. QED
      BY <2>2, <2>3 DEF FactsBounded
  <1>. QED  BY <1>1, <1>2, <1>3, <1>4, <1>5, <1>6 DEF Base

\* The invariants hold together in every behaviour.
THEOREM Invariants == Spec => [](Base /\ Safe /\ CursorsHonest /\ Owned /\ FactsBounded)
  <1>1. Init => Base /\ Safe /\ CursorsHonest /\ Owned /\ FactsBounded
    BY InitHolds
  <1>2. Base /\ Safe /\ CursorsHonest /\ Owned /\ FactsBounded /\ [Next]_vars
          => (Base /\ Safe /\ CursorsHonest /\ Owned /\ FactsBounded)'
    BY BaseStep, SafeStep, CursorStep, OwnedStep, FactsStep
  <1>. QED  BY <1>1, <1>2, PTL DEF Spec

\* Type correctness, for any set of requests and epochs.
THEOREM TypeCorrect == Spec => []TypeOK
  <1>1. Base => TypeOK
    BY DEF Base
  <1>. QED  BY <1>1, Invariants, PTL

\* The interview starts once (events.go, the established fold).
THEOREM StartsOnce == Spec => []StartedOnce
  <1>1. Safe => StartedOnce
    BY DEF Safe
  <1>. QED  BY <1>1, Invariants, PTL

\* One start owns the session (start.go, ErrStaleVersion).
THEOREM OneStarterWins == Spec => []OneStart
  <1>1. Owned => OneStart
    BY DEF Owned
  <1>. QED  BY <1>1, Invariants, PTL

\* A completion is announced once, whoever completes and whoever dies
\* (complete.go, the finalizing transition).
THEOREM CompletesOnce == Spec => []CompletedOnce
  <1>1. Safe => CompletedOnce
    BY DEF Safe
  <1>. QED  BY <1>1, Invariants, PTL

\* Whatever ends is sealed (complete.go, seal before the transitions).
THEOREM EndsSealed == Spec => []EndedIsSealed
  <1>1. Safe => EndedIsSealed
    BY DEF Safe
  <1>. QED  BY <1>1, Invariants, PTL

\* What a sealed record lacks below its cursor, it names (complete.go, gapsUnder).
THEOREM SealsNameTheirGaps == Spec => []GapsCoverMissing
  <1>1. CursorsHonest => GapsCoverMissing
    BY DEF CursorsHonest
  <1>. QED  BY <1>1, Invariants, PTL

\* An expiry never has a gap to record: it seals at the contiguous cursor of
\* the row it read, and an epoch loses nothing (grace.go, complete.go).
THEOREM ExpirySealsNoGap == Spec => []ExpiryFindsNoGap
  <1>1. CursorsHonest => ExpiryFindsNoGap
    BY DEF CursorsHonest
  <1>. QED  BY <1>1, Invariants, PTL

\* An epoch has no more interruptions on file than there are timers, however
\* often their activities die and run again (grace.go, ExpireGrace).
THEOREM FactsWithinTimers == Spec => [](\A e \in Attempts : facts[e] <= Cardinality(Attempts))
  <1>1. ASSUME Base, FactsBounded, NEW e \in Attempts PROVE facts[e] <= Cardinality(Attempts)
    <2>1. facts[e] \in Nat /\ Cardinality(Attempts) \in Nat
      BY <1>1, LiveAssumption, FS_CardinalityType DEF Base, TypeOK
    <2>2. IsFiniteSet(Recorders(e)) /\ Cardinality(Recorders(e)) \in Nat
      BY LiveAssumption, FS_Subset, FS_CardinalityType DEF Recorders
    <2>. QED  BY <1>1, <2>1, <2>2 DEF FactsBounded
  <1>2. Base /\ FactsBounded => \A e \in Attempts : facts[e] <= Cardinality(Attempts)
    BY <1>1
  <1>. QED  BY <1>2, Invariants, PTL

\* One timer records one interruption, the retries of its activity included.
THEOREM OneTimerOneFact ==
  ASSUME \A a, b \in Attempts : a = b
  PROVE  Spec => []OneFactPerExpiry
  <1>1. ASSUME NEW e \in Attempts PROVE Cardinality(Attempts) = 1
    <2>1. Attempts = {e}
      OBVIOUS
    <2>. QED  BY <2>1, FS_Singleton
  <1>2. (\A e \in Attempts : facts[e] <= Cardinality(Attempts)) => OneFactPerExpiry
    BY <1>1 DEF OneFactPerExpiry
  <1>. QED  BY <1>2, FactsWithinTimers, PTL

\* The seal is written once (complete.go, InsertSeal).
THEOREM SealWrittenOnce == Spec => SealImmutable
  <1>1. ASSUME [Next]_vars, seal # NoSeal PROVE seal' = seal
    BY <1>1 DEF Next, vars, row, record, notices, threads, Complete, Grace, StartRead, StartConnect,
       Takeover, ResumeRead, IngestRead, IngestCommit, Fold, AskCursor, CompleteRead, Assemble,
       GapsUnder, PutSealedInput, Seal, Finalize, Evaluate, Answer, StartGraceTimer, RemainingGrace, Wake,
       ExpireRead, ReadFacts, RecordInterruption, DieAsRequest, DieInIngest, DieInComplete,
       Lapse, ReportArrives, RecordEvaluation
  <1>2. [Next]_vars => [seal # NoSeal => seal' = seal]_vars
    BY <1>1
  <1>. QED  BY <1>2, PTL DEF Spec, SealImmutable

\* Epochs and cursors only go up (events.go, BeginAttempt and PersistCursor).
THEOREM CursorOnlyAdvances == Spec => CursorMonotone
  <1>1. ASSUME Base, [Next]_vars
        PROVE  epoch' > epoch \/ (epoch' = epoch /\ accepted' >= accepted)
    <2>0. epoch \in Nat /\ accepted \in Nat /\ snap \in [Threads -> Rows]
      BY <1>1, AttemptsAreNat DEF Base, TypeOK
    <2>1. ASSUME NEW t \in Starters \cup Resumers, Takeover(t)
          PROVE  epoch' > epoch \/ (epoch' = epoch /\ accepted' >= accepted)
      <3>1. snap[t].epoch \in Nat
        BY <2>0 DEF Threads, Rows
      <3>. QED  BY <2>0, <2>1, <3>1 DEF Takeover, BeginAttempt
    <2>2. ASSUME NEW t \in Ingesters,
                 \/ \E b \in Batches : IngestRead(t, b)
                 \/ \E n \in Slots : IngestCommit(t, n)
          PROVE  epoch' = epoch /\ accepted' >= accepted
      BY <2>0, <2>2, LiveAssumption DEF IngestRead, IngestCommit, Advance
    <2>3. CASE \/ \E t \in Starters \cup Resumers : Takeover(t)
               \/ \E t \in Ingesters, b \in Batches : IngestRead(t, b)
               \/ \E t \in Ingesters, n \in Slots : IngestCommit(t, n)
      <3>1. epoch' > epoch \/ (epoch' = epoch /\ accepted' >= accepted)
        BY <2>1, <2>2, <2>3
      <3>. QED  BY <3>1
    <2>4. CASE UNCHANGED <<epoch, accepted>>
      BY <2>0, <2>4
    <2>. QED
      BY <1>1, <2>3, <2>4 DEF Next, vars, row, Complete, Grace, StartRead, StartConnect, Transition,
         ResumeRead, Fold, FoldEstablished, FoldLost, FoldNothing, FoldEnds, AskCursor,
         CompleteRead, Assemble, GapsUnder, PutSealedInput, Seal, Finalize, Evaluate, Answer, StartGraceTimer,
         RemainingGrace, Wake, ExpireRead, ReadFacts, RecordInterruption, DieAsRequest, DieInIngest,
         DieInComplete, Lapse, ReportArrives, RecordEvaluation
  <1>2. Base /\ [Next]_vars => [epoch' > epoch \/ (epoch' = epoch /\ accepted' >= accepted)]_vars
    BY <1>1
  <1>. QED  BY <1>2, Invariants, PTL DEF Spec, CursorMonotone

\* The live session implements the diagram of machine.go: every transition,
\* although decided on an earlier copy of the row, follows an edge from the
\* state the row is in and raises the version by one.
THEOREM LiveRefinesLifecycle == Spec => FollowsDiagram
  <1>1. Init => L!Init
    BY DEF Init, L!Init, L!States
  <1>2. ASSUME NEW t \in Threads, NEW to \in L!States, Transition(t, to) PROVE L!Move
    BY <1>2 DEF Transition, Fresh, L!Move, L!CanTransition
  <1>3. ASSUME Next PROVE L!Move \/ UNCHANGED <<state, version>>
    <2>0. {"connecting", "in_progress", "reconnecting", "finalizing", "evaluating"} \subseteq L!States
      BY DEF L!States
    <2>1. ASSUME NEW t \in Starters, StartConnect(t) PROVE L!Move \/ UNCHANGED <<state, version>>
      BY <1>2, <2>0, <2>1 DEF StartConnect, Threads, row
    <2>2. ASSUME NEW t \in Ingesters, Fold(t) PROVE L!Move \/ UNCHANGED <<state, version>>
      BY <1>2, <2>0, <2>2 DEF Fold, FoldEstablished, FoldLost, FoldNothing, FoldEnds, Threads, row
    <2>3. ASSUME NEW t \in Sealers, Finalize(t) \/ Evaluate(t) PROVE L!Move \/ UNCHANGED <<state, version>>
      BY <1>2, <2>0, <2>3 DEF Finalize, Evaluate, Threads, row
    <2>4. ASSUME RecordEvaluation PROVE L!Move \/ UNCHANGED <<state, version>>
      BY <2>4 DEF RecordEvaluation, L!Move, L!CanTransition, L!Edges, L!States
    <2>5. CASE \/ \E t \in Starters : StartConnect(t)
               \/ \E t \in Ingesters : Fold(t)
               \/ \E t \in Sealers : Finalize(t) \/ Evaluate(t)
               \/ RecordEvaluation
      BY <2>1, <2>2, <2>3, <2>4, <2>5
    <2>6. CASE UNCHANGED <<state, version>>
      BY <2>6
    <2>. QED
      BY <1>3, <2>5, <2>6 DEF Next, row, Complete, Grace, StartRead, Takeover, ResumeRead, IngestRead,
         IngestCommit, AskCursor, CompleteRead, Assemble, GapsUnder, PutSealedInput, Seal, Answer, StartGraceTimer,
         RemainingGrace, Wake, ExpireRead, ReadFacts, RecordInterruption, DieAsRequest, DieInIngest,
         DieInComplete, Lapse, ReportArrives
  <1>4. [Next]_vars => [L!Move]_<<state, version>>
    BY <1>3 DEF vars, row
  <1>. QED  BY <1>1, <1>4, PTL DEF Spec, FollowsDiagram, L!Spec
=============================================================================
