----------------------- MODULE ControlTimelineProofs -----------------------
(***************************************************************************)
(* Proofs about ControlTimeline, for any number of requests, agents,       *)
(* overlapping recoveries, events and epochs: the persisted cursor and the *)
(* acknowledgments are true, an event lands once, an epoch's events are    *)
(* stored in their order, and the first epoch loses none.                  *)
(***************************************************************************)
EXTENDS ControlTimeline, FiniteSetTheorems, WellFoundedInduction, TLAPS

\* The highest contiguous sequence exists, and is contiguous: among the
\* numbers not followed by a stored one there is a smallest.
LEMMA ContiguousIsPrefix ==
  ASSUME NEW stored, stored \subseteq Nat, IsFiniteSet(stored)
  PROVE  /\ Contiguous(stored) \in Nat
         /\ 1 .. Contiguous(stored) \subseteq stored
PROOF
  <1> DEFINE k == Cardinality(stored)
             T == {n \in Nat : n + 1 \notin stored}
             R == OpToRel(<, Nat)
  <1>1. k \in Nat BY FS_CardinalityType
  <1>2. ~(1 .. k + 1 \subseteq stored)
    <2> SUFFICES ASSUME 1 .. k + 1 \subseteq stored PROVE FALSE
      OBVIOUS
    <2>1. Cardinality(1 .. k + 1) <= k BY FS_Subset
    <2>2. Cardinality(1 .. k + 1) = k + 1
      <3>1. 1 \in Int /\ k + 1 \in Int /\ ~(1 > k + 1) /\ (k + 1) - 1 + 1 = k + 1 BY <1>1
      <3> HIDE DEF k
      <3> QED BY <3>1, FS_Interval
    <2> HIDE DEF k
    <2> QED BY <1>1, <2>1, <2>2
  <1> HIDE DEF k
  <1>3. PICK j \in 1 .. k + 1 : j \notin stored BY <1>2
  <1>4. j - 1 \in T BY <1>1, <1>3
  <1>5. T \subseteq Nat /\ T # {} BY <1>4
  <1> HIDE DEF T
  <1>6. PICK n \in T : \A m \in T : ~(<<m, n>> \in R)
    <2>1. IsWellFoundedOn(R, Nat) BY NatLessThanWellFounded, Zenon
    <2> HIDE DEF R
    <2> QED BY <1>5, <2>1, WFMin
  <1>7. n \in Nat /\ n + 1 \notin stored BY DEF T
  <1>8. \A m \in T : ~(m < n) BY <1>5, <1>6, <1>7 DEF OpToRel
  <1>9. \A i \in Nat : i < n => i + 1 \in stored BY <1>8 DEF T
  <1>10. 1 .. n \subseteq stored
    <2> SUFFICES ASSUME NEW i \in 1 .. n PROVE i \in stored
      OBVIOUS
    <2>1. i - 1 \in Nat /\ i - 1 < n /\ (i - 1) + 1 = i BY <1>7
    <2> QED BY <1>9, <2>1
  <1>11. n \in 0 .. k
    <2>1. ~(j - 1 < n) BY <1>4, <1>8
    <2> QED BY <1>1, <1>3, <1>7, <2>1
  <1>12. \E m \in 0 .. k : 1 .. m \subseteq stored /\ m + 1 \notin stored
    BY <1>7, <1>10, <1>11
  <1>13. Contiguous(stored) \in 0 .. k /\ 1 .. Contiguous(stored) \subseteq stored
    BY <1>12 DEF Contiguous, k
  <1> QED BY <1>1, <1>13

\* A finite set of numbers that is not empty has a last one: the smallest of
\* its upper bounds.
LEMMA HasLast ==
  ASSUME NEW stored, stored \subseteq Nat, IsFiniteSet(stored), stored # {}
  PROVE  \E n \in stored : \A m \in stored : m <= n
PROOF
  <1> DEFINE above(n) == {i \in stored : i > n}
             U == {Cardinality(above(n)) : n \in stored}
             R == OpToRel(<, Nat)
  <1>1. \A n \in stored : IsFiniteSet(above(n)) /\ Cardinality(above(n)) \in Nat
    BY FS_Subset, FS_CardinalityType
  <1>2. U \subseteq Nat /\ U # {} BY <1>1
  <1> HIDE DEF U
  <1>3. PICK u \in U : \A v \in U : ~(<<v, u>> \in R)
    <2>1. IsWellFoundedOn(R, Nat) BY NatLessThanWellFounded, Zenon
    <2> HIDE DEF R
    <2> QED BY <1>2, <2>1, WFMin
  <1>4. \A v \in U : ~(v < u) BY <1>2, <1>3 DEF OpToRel
  <1>5. PICK n \in stored : u = Cardinality(above(n)) BY <1>3 DEF U
  <1>6. ASSUME NEW m \in stored, m > n PROVE FALSE
    <2>0. \A i \in stored : i \in Nat OBVIOUS
    <2>a. m \in Nat /\ n \in Nat /\ m > n BY <1>6, <2>0
    <2>b. \A i \in stored : i > m => i > n BY <2>0, <2>a
    <2>c. ~(m > m) BY <2>a
    <2>1. above(m) \subseteq above(n) /\ m \in above(n) /\ m \notin above(m)
      BY <2>a, <2>b, <2>c
    <2>2. Cardinality(above(m)) \in U BY DEF U
    <2>3. Cardinality(above(m)) < Cardinality(above(n))
      <3>1. /\ IsFiniteSet(above(n)) /\ Cardinality(above(n)) \in Nat
            /\ Cardinality(above(m)) \in Nat
        BY <1>1
      <3> HIDE DEF above
      <3>2. /\ Cardinality(above(m)) <= Cardinality(above(n))
            /\ Cardinality(above(n)) # Cardinality(above(m))
        BY <2>1, <3>1, FS_Subset
      <3> QED BY <3>1, <3>2
    <2> QED BY <1>4, <1>5, <2>2, <2>3
  <1>7. \A m \in stored : m \in Nat /\ n \in Nat /\ ~(m > n) BY <1>6
  <1>8. \A m \in stored : m <= n BY <1>7
  <1> QED BY <1>5, <1>8

\* The slots of finitely many rows are finitely many.
LEMMA SlotsFinite ==
  ASSUME NEW rows, IsFiniteSet(rows), \A r \in rows : r.seq \in Nat, NEW e
  PROVE  IsFiniteSet(Slots(rows, e)) /\ Slots(rows, e) \subseteq Nat
PROOF
  <1> DEFINE S == {q \in rows : q.epoch = e}
             T == Slots(rows, e)
             f == [r \in S |-> r.seq]
  <1>1. IsFiniteSet(S) BY FS_Subset
  <1>2. f \in Surjection(S, T) BY DEF Slots, Surjection
  <1>3. IsFiniteSet(T) 
    <2> HIDE DEF f, S, T
    <2> QED BY <1>1, <1>2, FS_Surjection
  <1>4. T \subseteq Nat BY DEF Slots
  <1> QED BY <1>3, <1>4

\* More rows, more slots.
LEMMA SlotsGrow ==
  ASSUME NEW rows, NEW more, NEW e
  PROVE  Slots(rows, e) \subseteq Slots(rows \cup more, e)
BY DEF Slots

----------------------------------------------------------------------------
(* The invariant, and the steps that leave its server side alone.          *)

\* Distinct identities in distinct slots.
Numbering(batch) ==
  /\ IsFiniteSet(DOMAIN batch)
  /\ \A i \in DOMAIN batch : batch[i] \in Nat
  /\ \A i, j \in DOMAIN batch : batch[i] = batch[j] => i = j

\* A request the server has not inserted for, or that is over.
Plain(v) == v.phase \notin {"inserted", "acked"} /\ Numbering(v.batch)

\* The server: the log, the row, and every request's uncommitted rows.
Shape ==
  /\ call = [c \in Calls |-> call[c]]
  /\ accepted \in Nat
  /\ IsFiniteSet(log) /\ \A r \in log : r.seq \in Nat
  /\ \A c \in Calls : Numbering(call[c].batch)
  /\ \A c \in Calls : call[c].phase = "inserted" =>
       /\ call[c].cursor \in Nat
       /\ IsFiniteSet(call[c].rows) /\ call[c].rows \subseteq Wanted(c)

\* What an open transaction, and an answer, claims is there.
Claims ==
  \A c \in Calls :
    /\ call[c].phase = "inserted" =>
         /\ 1 .. call[c].cursor \subseteq Slots(log \cup call[c].rows, call[c].epoch)
         /\ \A i \in DOMAIN call[c].batch \ call[c].refused :
              Held(i) \/ \E r \in call[c].rows : r.id = i
    /\ call[c].phase = "acked" =>
         /\ call[c].cursor \in Nat
         /\ 1 .. call[c].cursor \subseteq Slots(log, call[c].epoch)
         /\ \A i \in DOMAIN call[c].batch \ call[c].refused : Held(i)

\* Uncommitted rows clash neither with the log nor with each other's.
Apart ==
  \A c \in Calls : call[c].phase = "inserted" =>
    /\ \A r \in call[c].rows, q \in log : ~Clash(r, q)
    /\ \A d \in Calls \ {c} : call[d].phase = "inserted" =>
         \A r \in call[c].rows, q \in call[d].rows : ~Clash(r, q)

ServerInv == Shape /\ CursorHonest /\ Claims /\ Apart /\ LandsOnce

\* The browser: its buffer numbers under the next sequence.
BufferInv ==
  /\ Numbering(unacked)
  /\ nextSeq \in Nat /\ made \in Nat
  /\ \A i \in DOMAIN unacked : i \in 1 .. made /\ unacked[i] < nextSeq

Inv == ServerInv /\ BufferInv

\* A step that only starts, advances or ends requests without rows.
LEMMA Quiet ==
  ASSUME ServerInv, UNCHANGED server,
         call' = [c \in Calls |-> call'[c]],
         \A c \in Calls : call'[c] = call[c] \/ Plain(call'[c])
  PROVE  ServerInv'
PROOF
  <1>0. Shape /\ CursorHonest /\ Claims /\ Apart /\ LandsOnce BY DEF ServerInv
  <1>1. epoch' = epoch /\ accepted' = accepted /\ log' = log BY DEF server
  <1>2. \A c \in Calls : call'[c].phase \in {"inserted", "acked"} => call'[c] = call[c]
    BY DEF Plain
  <1>3. Shape'
    <2>1. \A c \in Calls : Numbering(call'[c].batch) BY <1>0 DEF Shape, Plain
    <2>2. ASSUME NEW c \in Calls, call'[c].phase = "inserted"
          PROVE  /\ call'[c].cursor \in Nat /\ IsFiniteSet(call'[c].rows)
                 /\ call'[c].rows \subseteq Wanted(c)'
      BY <1>0, <1>2, <2>2 DEF Shape, Wanted
    <2> QED BY <1>0, <1>1, <2>1, <2>2 DEF Shape
  <1>4. CursorHonest' BY <1>0, <1>1 DEF CursorHonest
  <1>5. Claims' BY <1>0, <1>1, <1>2 DEF Claims, Held
  <1>6. Apart' BY <1>0, <1>1, <1>2 DEF Apart
  <1>7. LandsOnce' BY <1>0, <1>1 DEF LandsOnce
  <1> QED BY <1>3, <1>4, <1>5, <1>6, <1>7 DEF ServerInv

\* The buffer as a numbering survives a step that does not touch it.
LEMMA BufferStill ==
  ASSUME BufferInv, UNCHANGED buffer PROVE BufferInv'
BY DEF BufferInv, buffer, Numbering

\* The empty batch, and records that carry none or a given one.
LEMMA EmptyNumbering == Numbering(<<>>)
BY FS_EmptySet DEF Numbering

\* Requests that are idle, failed or just sent hold no rows.
LEMMA PlainCalls ==
  /\ Plain(NoCall) /\ Plain(Failed)
  /\ \A e, b : Numbering(b) => Plain(Request(e, b))
BY EmptyNumbering DEF Plain, NoCall, Failed, Request, Call

\* One request replaced by another.
LEMMA OneCall ==
  ASSUME Shape, NEW c \in Calls, NEW v, call' = [call EXCEPT ![c] = v]
  PROVE  /\ call' = [d \in Calls |-> call'[d]]
         /\ call'[c] = v
         /\ \A d \in Calls \ {c} : call'[d] = call[d]
BY DEF Shape

\* One request replaced by one without rows keeps the server's invariant.
LEMMA QuietCall ==
  ASSUME ServerInv, UNCHANGED server, NEW c \in Calls, NEW v,
         call' = [call EXCEPT ![c] = v], Plain(v)
  PROVE  ServerInv'
BY OneCall, Quiet DEF ServerInv

\* Flushing a numbered buffer.
LEMMA FlushIsQuiet ==
  ASSUME ServerInv, UNCHANGED server, NEW e, NEW b, Numbering(b), Flush(e, b)
  PROVE  ServerInv'
PROOF
  <1>1. CASE UNCHANGED <<post, call>>
    <2>1. call' = [c \in Calls |-> call'[c]] /\ \A c \in Calls : call'[c] = call[c]
      BY <1>1 DEF ServerInv, Shape
    <2> QED BY <2>1, Quiet
  <1>2. CASE /\ \E p \in Posts : Free(p)
             /\ post' = (CHOOSE p \in Posts : Free(p))
             /\ call' = [call EXCEPT ![post'] = Request(e, b)]
    <2>1. post' \in Calls BY <1>2 DEF Calls
    <2> QED BY <1>2, <2>1, QuietCall, PlainCalls
  <1> QED BY <1>1, <1>2 DEF Flush

\* So does the end of a post, with the flush it may run.
LEMMA FinallyIsQuiet ==
  ASSUME ServerInv, UNCHANGED server, post \in Posts, NEW freed, NEW b, Numbering(b),
         Finally(freed, b)
  PROVE  ServerInv'
PROOF
  <1> DEFINE calls == IF call[post].phase \in freed
                        THEN [call EXCEPT ![post] = NoCall] ELSE call
             idle == {p \in Posts : calls[p] = NoCall}
  <1>0. call = [c \in Calls |-> call[c]] /\ post \in Calls BY DEF ServerInv, Shape, Calls
  <1>1. /\ calls = [c \in Calls |-> calls[c]]
        /\ \A c \in Calls : calls[c] = call[c] \/ Plain(calls[c])
    BY <1>0, PlainCalls
  <1>2. \/ call' = calls
        \/ \E p \in Calls : call' = [calls EXCEPT ![p] = Request(bEpoch, b)]
    <2>1. ASSUME idle # {} PROVE (CHOOSE p \in idle : TRUE) \in Calls
      BY <2>1 DEF Calls
    <2> QED BY <2>1 DEF Finally
  <1> HIDE DEF calls, idle
  <1>3. CASE call' = calls BY <1>1, <1>3, Quiet
  <1>4. CASE \E p \in Calls : call' = [calls EXCEPT ![p] = Request(bEpoch, b)]
    <2>1. PICK p \in Calls : call' = [calls EXCEPT ![p] = Request(bEpoch, b)] BY <1>4
    <2>2. /\ call' = [c \in Calls |-> call'[c]]
          /\ call'[p] = Request(bEpoch, b)
          /\ \A c \in Calls \ {p} : call'[c] = calls[c]
      BY <1>1, <2>1
    <2>3. \A c \in Calls : call'[c] = call[c] \/ Plain(call'[c])
      BY <1>1, <2>2, PlainCalls
    <2> QED BY <2>2, <2>3, Quiet
  <1> QED BY <1>2, <1>3, <1>4

----------------------------------------------------------------------------
(* The buffer.                                                             *)

\* Recording n events after a numbered buffer under seq keeps it numbered.
LEMMA RecordedNumbers ==
  ASSUME NEW b, Numbering(b), NEW seq \in Nat, NEW n \in Nat, made \in Nat,
         \A i \in DOMAIN b : i \in 1 .. made /\ b[i] < seq
  PROVE  /\ Numbering(Recorded(b, seq, n))
         /\ \A i \in DOMAIN Recorded(b, seq, n) :
              i \in 1 .. made + n /\ Recorded(b, seq, n)[i] < seq + n
PROOF
  <1> DEFINE new == made + 1 .. made + n
             rec == Recorded(b, seq, n)
  <1>1. IsFiniteSet(new) BY FS_Interval
  <1>2. DOMAIN rec = DOMAIN b \cup new BY DEF Recorded
  <1>3. IsFiniteSet(DOMAIN rec)
    <2>1. IsFiniteSet(DOMAIN b) BY DEF Numbering
    <2> HIDE DEF new
    <2>2. IsFiniteSet(DOMAIN b \cup new) BY <1>1, <2>1, FS_Union
    <2> QED BY <1>2, <2>2
  <1>4. \A i \in DOMAIN b : i \notin new /\ rec[i] = b[i] /\ rec[i] \in Nat /\ rec[i] < seq
    BY DEF Recorded, Numbering
  <1>5. \A i \in new : /\ i \notin DOMAIN b /\ rec[i] = seq + (i - made - 1)
                       /\ rec[i] \in Nat /\ rec[i] >= seq /\ rec[i] < seq + n
    BY DEF Recorded
  <1> HIDE DEF rec
  <1>6. \A i \in DOMAIN rec : rec[i] \in Nat BY <1>2, <1>4, <1>5
  <1>7. ASSUME NEW i \in DOMAIN rec, NEW j \in DOMAIN rec, rec[i] = rec[j] PROVE i = j
    <2>1. CASE i \in DOMAIN b /\ j \in DOMAIN b BY <1>4, <1>7, <2>1 DEF Numbering
    <2>2. CASE i \in new /\ j \in new BY <1>5, <1>7, <2>2
    <2>3. CASE (i \in DOMAIN b /\ j \in new) \/ (i \in new /\ j \in DOMAIN b)
      BY <1>4, <1>5, <1>7, <2>3
    <2> QED BY <1>2, <2>1, <2>2, <2>3
  <1>8. \A i \in DOMAIN rec : i \in 1 .. made + n /\ rec[i] < seq + n
    BY <1>2, <1>4, <1>5
  <1> QED BY <1>3, <1>6, <1>7, <1>8 DEF Numbering, rec

\* Settling keeps a sub-numbering.
LEMMA WithoutNumbers ==
  ASSUME NEW b, Numbering(b), NEW gone
  PROVE  /\ Numbering(Without(b, gone))
         /\ DOMAIN Without(b, gone) \subseteq DOMAIN b
         /\ \A i \in DOMAIN Without(b, gone) : Without(b, gone)[i] = b[i]
PROOF
  <1>1. DOMAIN Without(b, gone) = DOMAIN b \ gone BY DEF Without
  <1>2. IsFiniteSet(DOMAIN b \ gone) BY FS_Subset DEF Numbering
  <1>3. \A i \in DOMAIN b \ gone : Without(b, gone)[i] = b[i] BY DEF Without
  <1> QED BY <1>1, <1>2, <1>3 DEF Numbering

\* Ranks are distinct and at most the number of survivors.
LEMMA RebasedNumbers ==
  ASSUME BufferInv, NEW prev
  PROVE  /\ Numbering(Rebased(prev))
         /\ Cardinality(DOMAIN Rebased(prev)) \in Nat
         /\ \A i \in DOMAIN Rebased(prev) :
              /\ i \in 1 .. made
              /\ Rebased(prev)[i] < Cardinality(DOMAIN Rebased(prev)) + 1
PROOF
  <1> DEFINE left == {i \in DOMAIN unacked : unacked[i] > prev}
             upto(i) == {j \in left : unacked[j] <= unacked[i]}
             b == Rebased(prev)
  <1>1. IsFiniteSet(left) /\ Cardinality(left) \in Nat
    BY FS_Subset, FS_CardinalityType DEF BufferInv, Numbering
  <1>2. DOMAIN b = left /\ \A i \in left : b[i] = Cardinality(upto(i)) BY DEF Rebased
  <1>3. ASSUME NEW i \in left
        PROVE  IsFiniteSet(upto(i)) /\ Cardinality(upto(i)) \in Nat
               /\ Cardinality(upto(i)) <= Cardinality(left)
    BY <1>1, FS_Subset, FS_CardinalityType
  <1>4. ASSUME NEW i \in left, NEW j \in left, unacked[i] < unacked[j]
        PROVE  Cardinality(upto(i)) # Cardinality(upto(j))
    <2>1. \A m \in left : unacked[m] \in Nat BY DEF BufferInv, Numbering
    <2>2. upto(i) \subseteq upto(j) BY <1>4, <2>1
    <2>3. j \in upto(j) /\ j \notin upto(i) BY <1>4, <2>1
    <2> HIDE DEF upto
    <2> QED BY <1>3, <2>2, <2>3, FS_Subset
  <1>5. ASSUME NEW i \in left, NEW j \in left, b[i] = b[j] PROVE i = j
    <2>1. unacked[i] \in Nat /\ unacked[j] \in Nat BY DEF BufferInv, Numbering
    <2>2. Cardinality(upto(i)) = Cardinality(upto(j)) BY <1>2, <1>5
    <2>3. ~(unacked[i] < unacked[j]) /\ ~(unacked[j] < unacked[i]) BY <1>4, <2>2
    <2>4. unacked[i] = unacked[j] BY <2>1, <2>3
    <2> QED BY <2>4 DEF BufferInv, Numbering
  <1> HIDE DEF b, upto
  <1>6. Numbering(b) BY <1>1, <1>2, <1>3, <1>5 DEF Numbering
  <1>7. \A i \in left : i \in 1 .. made BY DEF BufferInv
  <1> HIDE DEF left
  <1> QED BY <1>1, <1>2, <1>3, <1>6, <1>7 DEF b

----------------------------------------------------------------------------
(* The steps of a request.                                                 *)

\* Reading leaves the request without rows, over the same or a stamped batch.
LEMMA ReadsPreserve ==
  ASSUME Inv, NEW p \in Posts, CallReads(p) PROVE Inv'
PROOF
  <1>1. p \in Calls BY DEF Calls
  <1>2. Numbering(call[p].batch) BY <1>1 DEF Inv, ServerInv, Shape
  <1>3. Plain(IF call[p].epoch = epoch
                THEN Call("read", epoch, call[p].batch, accepted, {}, {}, 0)
                ELSE Answer(p, Failed))
    BY <1>2, PlainCalls DEF Plain, Call, Answer
  <1>4. ServerInv' BY <1>1, <1>3, QuietCall DEF Inv, CallReads
  <1>5. BufferInv' BY BufferStill DEF Inv, CallReads
  <1> QED BY <1>4, <1>5 DEF Inv

\* The agent's batch of one takes the slot after the last stored.
LEMMA StampIsPlain ==
  ASSUME Shape, NEW a \in Agents PROVE Plain(Stamp(a))
PROOF
  <1> DEFINE stored == Slots(log, epoch)
             next == IF stored = {} THEN 1 ELSE LastOf(stored) + 1
             b == [i \in {a} |-> next]
  <1>1. IsFiniteSet(stored) /\ stored \subseteq Nat BY SlotsFinite DEF Shape
  <1>2. next \in Nat
    <2>1. CASE stored = {} BY <2>1
    <2>2. CASE stored # {}
      <3>1. \E n \in stored : \A m \in stored : m <= n
        BY <1>1, <2>2, HasLast
      <3>2. LastOf(stored) \in stored BY <3>1 DEF LastOf
      <3> QED BY <1>1, <2>2, <3>2
    <2> QED BY <2>1, <2>2
  <1> HIDE DEF next
  <1>3. Numbering(b) BY <1>2, FS_Singleton DEF Numbering
  <1> QED BY <1>3 DEF Stamp, Plain, Call, next

\* The agent's request is sent, and stamped.
LEMMA AgentPreserves ==
  ASSUME Inv, NEW a \in Agents, AgentSpeaks(a) \/ AgentReads(a) PROVE Inv'
PROOF
  <1>1. a \in Calls BY DEF Calls
  <1>2. Plain(Stamp(a)) /\ Plain(Request(0, <<>>))
    BY StampIsPlain, PlainCalls, EmptyNumbering DEF Inv, ServerInv
  <1>3. ServerInv' BY <1>1, <1>2, QuietCall DEF Inv, AgentSpeaks, AgentReads
  <1>4. BufferInv' BY BufferStill DEF Inv, AgentSpeaks, AgentReads
  <1> QED BY <1>3, <1>4 DEF Inv

\* A rollback takes its rows with it.
LEMMA DiesPreserves ==
  ASSUME Inv, NEW c \in Calls, CallDies(c) PROVE Inv'
PROOF
  <1>1. Plain(Answer(c, Failed)) BY PlainCalls DEF Answer
  <1>2. ServerInv' BY <1>1, QuietCall DEF Inv, CallDies
  <1>3. BufferInv' BY BufferStill DEF Inv, CallDies
  <1> QED BY <1>2, <1>3 DEF Inv

\* A takeover empties the cursor of an epoch that holds nothing yet it claims.
LEMMA TakeoverPreserves ==
  ASSUME Inv, NEW e, BeginAttempt(e), UNCHANGED <<log, call, buffer>> PROVE Inv'
PROOF
  <1>0. Shape /\ CursorHonest /\ Claims /\ Apart /\ LandsOnce BY DEF Inv, ServerInv
  <1>1. accepted' = 0 /\ log' = log /\ call' = call BY DEF BeginAttempt
  <1>2. Shape' BY <1>0, <1>1 DEF Shape, Wanted
  <1>3. CursorHonest' BY <1>1 DEF CursorHonest
  <1>4. Claims' BY <1>0, <1>1 DEF Claims, Held
  <1>5. Apart' BY <1>0, <1>1 DEF Apart
  <1>6. LandsOnce' BY <1>0, <1>1 DEF LandsOnce
  <1>7. BufferInv' BY BufferStill DEF Inv
  <1> QED BY <1>2, <1>3, <1>4, <1>5, <1>6, <1>7 DEF Inv, ServerInv

\* The rows wanted by a batch, seen one at a time.
LEMMA WantedRows ==
  ASSUME Shape, NEW c \in Calls
  PROVE  /\ IsFiniteSet(Wanted(c))
         /\ \A r \in Wanted(c) : r.id \in DOMAIN call[c].batch /\ r.seq \in Nat
         /\ \A r, q \in Wanted(c) : Clash(r, q) => r = q
PROOF
  <1> DEFINE row(i) == [id |-> i, epoch |-> call[c].epoch, seq |-> call[c].batch[i]]
             S == DOMAIN call[c].batch
             T == Wanted(c)
             f == [i \in S |-> row(i)]
  <1>1. Numbering(call[c].batch) BY DEF Shape
  <1>2. f \in Surjection(S, T) BY DEF Wanted, Surjection
  <1>3. IsFiniteSet(T)
    <2>1. IsFiniteSet(S) BY <1>1 DEF Numbering
    <2> HIDE DEF f, S, T
    <2> QED BY <1>2, <2>1, FS_Surjection
  <1>4. \A r \in T : r.id \in S /\ r.seq \in Nat /\ r.seq = call[c].batch[r.id] /\ r = row(r.id)
    BY <1>1 DEF Wanted, Numbering
  <1>5. \A r, q \in T : Clash(r, q) => r.id = q.id BY <1>1, <1>4 DEF Clash, Numbering
  <1> HIDE DEF T
  <1>6. \A r, q \in T : Clash(r, q) => r = q BY <1>4, <1>5
  <1> QED BY <1>3, <1>4, <1>6 DEF T

\* Which of two rows is named first does not matter.
LEMMA ClashSymmetric == \A r, q : Clash(r, q) <=> Clash(q, r)
BY DEF Clash

\* Inserting: the rows clash with nothing committed, and with nothing open
\* because the insert waited for it.
LEMMA InsertsPreserve ==
  ASSUME Inv, NEW c \in Calls, CallInserts(c) PROVE Inv'
PROOF
  <1>0. Shape /\ CursorHonest /\ Claims /\ Apart /\ LandsOnce BY DEF Inv, ServerInv
  <1>1. /\ ~Waits(c)
        /\ epoch' = epoch /\ accepted' = accepted /\ log' = log /\ UNCHANGED buffer
    BY DEF CallInserts, server
  <1> DEFINE there == {i \in DOMAIN call[c].batch : \E q \in log : q.id = i}
             no(barred) == DOMAIN call[c].batch
                             \ ({r.id : r \in Stored(c, barred)} \cup (there \ barred))
             cur(barred) == Contiguous(Slots(log \cup Stored(c, barred), call[c].epoch))
  <1>2. PICK barred : call' = [call EXCEPT ![c] =
          Call("inserted", call[c].epoch, call[c].batch, call[c].accepted,
               Stored(c, barred), no(barred), cur(barred))]
    BY DEF CallInserts
  <1> DEFINE rows == Stored(c, barred)
             v == Call("inserted", call[c].epoch, call[c].batch, call[c].accepted,
                       rows, no(barred), cur(barred))
  <1>3. /\ call' = [d \in Calls |-> call'[d]]
        /\ call'[c] = v
        /\ \A d \in Calls \ {c} : call'[d] = call[d]
    BY <1>0, <1>2, OneCall
  <1>4. /\ call'[c].phase = "inserted" /\ call'[c].epoch = call[c].epoch
        /\ call'[c].batch = call[c].batch /\ call'[c].rows = rows
        /\ call'[c].refused = no(barred) /\ call'[c].cursor = cur(barred)
    BY <1>3 DEF Call
  <1>5. /\ rows \subseteq Wanted(c)
        /\ \A r \in rows, q \in log : ~Clash(r, q)
    BY DEF Stored
  <1>6. IsFiniteSet(rows) /\ \A r \in rows : r.seq \in Nat
    BY <1>0, <1>5, WantedRows, FS_Subset
  <1>7. /\ cur(barred) \in Nat
        /\ 1 .. cur(barred) \subseteq Slots(log \cup rows, call[c].epoch)
    <2>1. IsFiniteSet(log \cup rows) /\ \A r \in log \cup rows : r.seq \in Nat
      BY <1>0, <1>6, FS_Union DEF Shape
    <2> HIDE DEF rows
    <2>2. /\ IsFiniteSet(Slots(log \cup rows, call[c].epoch))
          /\ Slots(log \cup rows, call[c].epoch) \subseteq Nat
      BY <2>1, SlotsFinite
    <2> QED BY <2>2, ContiguousIsPrefix DEF rows
  <1>8. ASSUME NEW i \in DOMAIN call[c].batch, i \notin no(barred)
        PROVE  Held(i) \/ \E r \in rows : r.id = i
    BY <1>8 DEF Held
  <1> HIDE DEF rows, no, cur, v, there
  <1>9. Wanted(c)' = Wanted(c) /\ \A d \in Calls \ {c} : Wanted(d)' = Wanted(d)
    BY <1>3, <1>4 DEF Wanted
  <1>10. Shape'
    <2>1. \A d \in Calls : Numbering(call'[d].batch) BY <1>0, <1>3, <1>4 DEF Shape
    <2>2. ASSUME NEW d \in Calls, call'[d].phase = "inserted"
          PROVE  /\ call'[d].cursor \in Nat /\ IsFiniteSet(call'[d].rows)
                 /\ call'[d].rows \subseteq Wanted(d)'
      <3>1. CASE d = c BY <1>4, <1>5, <1>6, <1>7, <1>9, <3>1
      <3>2. CASE d # c BY <1>0, <1>3, <1>9, <2>2, <3>2 DEF Shape
      <3> QED BY <3>1, <3>2
    <2> QED BY <1>0, <1>1, <1>3, <2>1, <2>2 DEF Shape
  <1>11. CursorHonest' BY <1>0, <1>1 DEF CursorHonest
  <1>12. Claims'
    <2> SUFFICES ASSUME NEW d \in Calls
                 PROVE  (/\ call[d].phase = "inserted" =>
                             /\ 1 .. call[d].cursor \subseteq
                                   Slots(log \cup call[d].rows, call[d].epoch)
                             /\ \A i \in DOMAIN call[d].batch \ call[d].refused :
                                  Held(i) \/ \E r \in call[d].rows : r.id = i
                         /\ call[d].phase = "acked" =>
                             /\ call[d].cursor \in Nat
                             /\ 1 .. call[d].cursor \subseteq Slots(log, call[d].epoch)
                             /\ \A i \in DOMAIN call[d].batch \ call[d].refused : Held(i))'
      BY DEF Claims
    <2>1. CASE d = c BY <1>1, <1>4, <1>7, <1>8, <2>1 DEF Held
    <2>2. CASE d # c BY <1>0, <1>1, <1>3, <2>2 DEF Claims, Held
    <2> QED BY <2>1, <2>2
  <1>13. ASSUME NEW d \in Calls \ {c}, call[d].phase = "inserted"
         PROVE  \A r \in rows, q \in call[d].rows : ~Clash(r, q) /\ ~Clash(q, r)
    BY <1>1, <1>5, <1>13, ClashSymmetric DEF Waits
  <1>14. Apart'
    <2> SUFFICES ASSUME NEW d \in Calls, call'[d].phase = "inserted"
                 PROVE  /\ \A r \in call'[d].rows, q \in log' : ~Clash(r, q)
                        /\ \A b \in Calls \ {d} : call'[b].phase = "inserted" =>
                             \A r \in call'[d].rows, q \in call'[b].rows : ~Clash(r, q)
      BY DEF Apart, Clash
    <2>1. CASE d = c BY <1>1, <1>3, <1>4, <1>5, <1>13, <2>1
    <2>2. CASE d # c
      <3>1. call'[d] = call[d] BY <1>3, <2>2
      <3>2. \A r \in call'[d].rows, q \in log' : ~Clash(r, q)
        BY <1>0, <1>1, <3>1 DEF Apart
      <3>3. ASSUME NEW b \in Calls \ {d}, call'[b].phase = "inserted"
            PROVE  \A r \in call'[d].rows, q \in call'[b].rows : ~Clash(r, q)
        <4>1. CASE b = c BY <1>4, <1>13, <2>2, <3>1, <4>1
        <4>2. CASE b # c BY <1>0, <1>3, <3>1, <3>3, <4>2 DEF Apart
        <4> QED BY <4>1, <4>2
      <3> QED BY <3>2, <3>3
    <2> QED BY <2>1, <2>2
  <1>15. LandsOnce' BY <1>0, <1>1 DEF LandsOnce, Clash
  <1>16. BufferInv' BY <1>1, BufferStill DEF Inv
  <1> QED BY <1>10, <1>11, <1>12, <1>14, <1>15, <1>16 DEF Inv, ServerInv

\* Committing: the uncommitted rows become the log's, and the cursor moves
\* to a prefix that is then stored, or stays.
LEMMA CommitsPreserve ==
  ASSUME Inv, NEW c \in Calls, CallCommits(c) PROVE Inv'
PROOF
  <1>0. Shape /\ CursorHonest /\ Claims /\ Apart /\ LandsOnce BY DEF Inv, ServerInv
  <1> DEFINE rows == call[c].rows
             v == Answer(c, Call("acked", call[c].epoch, call[c].batch, 0, {},
                                 call[c].refused, call[c].cursor))
  <1>1. /\ call[c].phase = "inserted" /\ epoch' = epoch
        /\ log' = log \cup rows /\ accepted' = Persisted(c)
        /\ call' = [call EXCEPT ![c] = v] /\ UNCHANGED buffer
    BY DEF CallCommits
  <1>2. /\ call' = [d \in Calls |-> call'[d]]
        /\ call'[c] = v
        /\ \A d \in Calls \ {c} : call'[d] = call[d]
    BY <1>0, <1>1, OneCall
  <1>3. /\ v.phase # "inserted"
        /\ Numbering(v.batch)
        /\ v.phase = "acked" => /\ v.epoch = call[c].epoch /\ v.batch = call[c].batch
                               /\ v.refused = call[c].refused /\ v.cursor = call[c].cursor
    BY <1>0, EmptyNumbering DEF Answer, Call, NoCall, Shape
  <1>4. /\ call[c].cursor \in Nat /\ IsFiniteSet(rows) /\ rows \subseteq Wanted(c)
        /\ 1 .. call[c].cursor \subseteq Slots(log \cup rows, call[c].epoch)
        /\ \A i \in DOMAIN call[c].batch \ call[c].refused :
             Held(i) \/ \E r \in rows : r.id = i
        /\ \A r \in rows, q \in log : ~Clash(r, q)
    BY <1>0, <1>1 DEF Shape, Claims, Apart
  <1>5. /\ \A r \in rows : r.seq \in Nat
        /\ \A r, q \in rows : Clash(r, q) => r = q
    BY <1>0, <1>4, WantedRows
  <1>6. \A d \in Calls \ {c} : call[d].phase = "inserted" =>
          \A r \in call[d].rows, q \in rows : ~Clash(r, q)
    BY <1>0, <1>1 DEF Apart
  <1> HIDE DEF rows, v
  <1>7. Shape'
    <2>1. accepted' \in Nat BY <1>0, <1>1, <1>4 DEF Persisted, Shape
    <2>2. IsFiniteSet(log') /\ \A r \in log' : r.seq \in Nat
      BY <1>0, <1>1, <1>4, <1>5, FS_Union DEF Shape
    <2>3. \A d \in Calls : Numbering(call'[d].batch) BY <1>0, <1>2, <1>3 DEF Shape
    <2>4. ASSUME NEW d \in Calls, call'[d].phase = "inserted"
          PROVE  /\ call'[d].cursor \in Nat /\ IsFiniteSet(call'[d].rows)
                 /\ call'[d].rows \subseteq Wanted(d)'
      <3>1. d # c BY <1>2, <1>3, <2>4
      <3>2. call'[d] = call[d] BY <1>2, <3>1
      <3>3. Wanted(d)' = Wanted(d) BY <3>2 DEF Wanted
      <3> QED BY <1>0, <2>4, <3>2, <3>3 DEF Shape
    <2> QED BY <1>2, <2>1, <2>2, <2>3, <2>4 DEF Shape
  <1>8. CursorHonest'
    <2>1. CASE accepted' = accepted
      BY <1>0, <1>1, <2>1, SlotsGrow DEF CursorHonest
    <2>2. CASE accepted' # accepted
      <3>1. accepted' = call[c].cursor /\ call[c].epoch = epoch
        BY <1>1, <2>2 DEF Persisted
      <3> QED BY <1>1, <1>4, <3>1 DEF CursorHonest
    <2> QED BY <2>1, <2>2
  <1>9. \A i : Held(i) \/ (\E r \in rows : r.id = i) => Held(i)'
    BY <1>1 DEF Held
  <1>10. Claims'
    <2> SUFFICES ASSUME NEW d \in Calls
                 PROVE  (/\ call[d].phase = "inserted" =>
                             /\ 1 .. call[d].cursor \subseteq
                                   Slots(log \cup call[d].rows, call[d].epoch)
                             /\ \A i \in DOMAIN call[d].batch \ call[d].refused :
                                  Held(i) \/ \E r \in call[d].rows : r.id = i
                         /\ call[d].phase = "acked" =>
                             /\ call[d].cursor \in Nat
                             /\ 1 .. call[d].cursor \subseteq Slots(log, call[d].epoch)
                             /\ \A i \in DOMAIN call[d].batch \ call[d].refused : Held(i))'
      BY DEF Claims
    <2>1. CASE d = c BY <1>1, <1>2, <1>3, <1>4, <1>9, <2>1
    <2>2. CASE d # c
      <3>1. call'[d] = call[d] BY <1>2, <2>2
      <3>2. /\ Slots(log, call[d].epoch) \subseteq Slots(log', call[d].epoch)
            /\ Slots(log \cup call[d].rows, call[d].epoch)
                 \subseteq Slots(log' \cup call[d].rows, call[d].epoch)
        BY <1>1 DEF Slots
      <3> QED BY <1>0, <1>9, <3>1, <3>2 DEF Claims
    <2> QED BY <2>1, <2>2
  <1>11. Apart'
    <2> SUFFICES ASSUME NEW d \in Calls, call'[d].phase = "inserted"
                 PROVE  /\ \A r \in call'[d].rows, q \in log' : ~Clash(r, q)
                        /\ \A b \in Calls \ {d} : call'[b].phase = "inserted" =>
                             \A r \in call'[d].rows, q \in call'[b].rows : ~Clash(r, q)
      BY DEF Apart, Clash
    <2>1. d # c /\ call'[d] = call[d] BY <1>2, <1>3
    <2>2. \A r \in call'[d].rows, q \in log' : ~Clash(r, q)
      BY <1>0, <1>1, <1>6, <2>1 DEF Apart
    <2>3. ASSUME NEW b \in Calls \ {d}, call'[b].phase = "inserted"
          PROVE  \A r \in call'[d].rows, q \in call'[b].rows : ~Clash(r, q)
      <3>1. b # c /\ call'[b] = call[b] BY <1>2, <1>3, <2>3
      <3> QED BY <1>0, <2>1, <2>3, <3>1 DEF Apart
    <2> QED BY <2>2, <2>3
  <1>12. LandsOnce'
    <2> SUFFICES ASSUME NEW r \in log \cup rows, NEW q \in log \cup rows, Clash(r, q)
                 PROVE  r = q
      BY <1>1 DEF LandsOnce, Clash
    <2>1. CASE r \in log /\ q \in log BY <1>0, <2>1 DEF LandsOnce
    <2>2. CASE r \in rows /\ q \in rows BY <1>5, <2>2
    <2>3. CASE (r \in rows /\ q \in log) \/ (r \in log /\ q \in rows)
      BY <1>4, <2>3, ClashSymmetric
    <2> QED BY <2>1, <2>2, <2>3
  <1>13. BufferInv' BY <1>1, BufferStill DEF Inv
  <1> QED BY <1>7, <1>8, <1>10, <1>11, <1>12, <1>13 DEF Inv, ServerInv

----------------------------------------------------------------------------
(* The steps of the browser.                                               *)

\* An event recorded and flushed: the drop and the goodbye.
LEMMA RecordPreserves ==
  ASSUME Inv, UNCHANGED <<server, bEpoch>>,
         unacked' = Recorded(unacked, nextSeq, 1),
         nextSeq' = nextSeq + 1, made' = made + 1, Flush(bEpoch, unacked')
  PROVE  Inv'
PROOF
  <1>1. BufferInv BY DEF Inv
  <1>2. /\ Numbering(unacked')
        /\ \A i \in DOMAIN unacked' : i \in 1 .. made + 1 /\ unacked'[i] < nextSeq + 1
    BY <1>1, RecordedNumbers DEF BufferInv
  <1>3. BufferInv' BY <1>1, <1>2 DEF BufferInv, Numbering
  <1>4. ServerInv' BY <1>2, FlushIsQuiet DEF Inv
  <1> QED BY <1>3, <1>4 DEF Inv

\* Rebase, two events recorded, and the flush.
LEMMA RejoinPreserves ==
  ASSUME Inv, NEW a \in Attempts, Rejoined(a) PROVE Inv'
PROOF
  <1> DEFINE kept == Rebased(attempt[a].prev)
             next == Cardinality(DOMAIN kept) + 1
  <1>1. /\ UNCHANGED server /\ made' = made + 2
        /\ unacked' = Recorded(kept, next, 2) /\ nextSeq' = next + 2
        /\ Flush(bEpoch', unacked')
    BY DEF Rejoined
  <1>2. BufferInv /\ made \in Nat BY DEF Inv, BufferInv
  <1>3. /\ Numbering(kept) /\ next \in Nat
        /\ \A i \in DOMAIN kept : i \in 1 .. made /\ kept[i] < next
    BY <1>2, RebasedNumbers
  <1> HIDE DEF kept, next
  <1>4. /\ Numbering(unacked')
        /\ \A i \in DOMAIN unacked' : i \in 1 .. made + 2 /\ unacked'[i] < next + 2
    BY <1>1, <1>2, <1>3, RecordedNumbers
  <1>5. BufferInv' BY <1>1, <1>2, <1>3, <1>4 DEF BufferInv, Numbering
  <1>6. ServerInv' BY <1>1, <1>4, FlushIsQuiet DEF Inv
  <1> QED BY <1>5, <1>6 DEF Inv

\* The end of a post, answered or failed.
LEMMA PostPreserves ==
  ASSUME Inv, post \in Posts, PostAnswered \/ PostFails PROVE Inv'
PROOF
  <1>1. BufferInv /\ Numbering(unacked) BY DEF Inv, BufferInv
  <1>2. CASE PostAnswered
    <2> DEFINE gone == Settled(call[post])
    <2>1. /\ UNCHANGED <<server, nextSeq, made>> /\ unacked' = Without(unacked, gone)
          /\ Finally({"acked"}, unacked')
      BY <1>2 DEF PostAnswered
    <2> HIDE DEF gone
    <2>2. /\ Numbering(unacked') /\ DOMAIN unacked' \subseteq DOMAIN unacked
          /\ \A i \in DOMAIN unacked' : unacked'[i] = unacked[i]
      BY <1>1, <2>1, WithoutNumbers
    <2>3. BufferInv' BY <1>1, <2>1, <2>2 DEF BufferInv, Numbering
    <2>4. ServerInv' BY <2>1, <2>2, FinallyIsQuiet DEF Inv
    <2> QED BY <2>3, <2>4 DEF Inv
  <1>3. CASE PostFails
    <2>1. UNCHANGED <<server, buffer>> /\ Finally({"acked", "failed"}, unacked)
      BY <1>3 DEF PostFails
    <2>2. ServerInv' BY <1>1, <2>1, FinallyIsQuiet DEF Inv
    <2>3. BufferInv' BY <1>1, <2>1, BufferStill
    <2> QED BY <2>2, <2>3 DEF Inv
  <1> QED BY <1>2, <1>3

\* A step that touches neither side.
LEMMA StillPreserves ==
  ASSUME Inv, UNCHANGED <<server, call, buffer>> PROVE Inv'
PROOF
  <1>1. call' = [c \in Calls |-> call'[c]] /\ \A c \in Calls : call'[c] = call[c]
    BY DEF Inv, ServerInv, Shape
  <1>2. ServerInv' BY <1>1, Quiet DEF Inv
  <1>3. BufferInv' BY BufferStill DEF Inv
  <1> QED BY <1>2, <1>3 DEF Inv

\* The post in flight is one of the browser's requests.
InFlight == post \in Posts \cup {None}

\* Only flush and its end change the post in flight.
LEMMA FlightPreserved == ASSUME InFlight, [Next]_vars PROVE InFlight'
PROOF
  <1>1. ASSUME NEW e, NEW b, Flush(e, b) PROVE InFlight'
    BY <1>1 DEF InFlight, Flush
  <1>2. ASSUME NEW freed, NEW b, Finally(freed, b) PROVE InFlight'
    <2> DEFINE calls == IF call[post].phase \in freed
                          THEN [call EXCEPT ![post] = NoCall] ELSE call
               idle == {p \in Posts : calls[p] = NoCall}
    <2>1. ASSUME idle # {} PROVE (CHOOSE p \in idle : TRUE) \in Posts
      BY <2>1
    <2> QED BY <1>2, <2>1 DEF Finally, InFlight
  <1>3. CASE PostAnswered \/ PostFails BY <1>2, <1>3 DEF PostAnswered, PostFails
  <1>4. CASE Leave BY <1>1, <1>4 DEF Leave
  <1>5. CASE \E a \in Attempts : Dropped(a) \/ Rejoined(a)
    BY <1>1, <1>5 DEF Dropped, Rejoined
  <1>6. CASE UNCHANGED post BY <1>6 DEF InFlight
  <1>7. CASE UNCHANGED vars BY <1>6, <1>7 DEF vars
  <1>8. CASE Next
    BY <1>3, <1>4, <1>5, <1>6, <1>8
    DEF Next, CallReads, AgentSpeaks, AgentReads, CallInserts, CallCommits, CallDies,
        TakenElsewhere, DroppedAgain, Retry, RetryNow, ResumeReads, ResumeCursor,
        ResumeTakes, ResumeAnswers, ChainFails, ResumeRefused
  <1> QED BY <1>7, <1>8

\* The joined session, with its first post on its way, satisfies the invariant.
LEMMA InitInv == ASSUME Init PROVE Inv /\ InFlight
PROOF
  <1> DEFINE b == [i \in {1} |-> 1]
  <1>1. Opening \in Posts BY TimelineAssumption DEF Opening
  <1>2. Numbering(b) BY FS_Singleton DEF Numbering
  <1>3. /\ call = [c \in Calls |-> call[c]]
        /\ \A c \in Calls : call[c] = NoCall \/ call[c] = Request(1, b)
    BY DEF Init
  <1> HIDE DEF b
  <1>4. \A c \in Calls : Plain(call[c]) BY <1>2, <1>3, PlainCalls
  <1>5. Shape
    <2>1. accepted = 0 /\ log = {} BY DEF Init
    <2>2. IsFiniteSet({}) BY FS_EmptySet
    <2> QED BY <1>3, <1>4, <2>1, <2>2 DEF Shape, Plain
  <1>6. CursorHonest /\ LandsOnce BY DEF Init, CursorHonest, LandsOnce
  <1>7. Claims /\ Apart BY <1>4 DEF Claims, Apart, Plain
  <1>8. BufferInv BY <1>2 DEF Init, BufferInv, b
  <1>9. InFlight BY <1>1 DEF Init, InFlight
  <1> QED BY <1>5, <1>6, <1>7, <1>8, <1>9 DEF Inv, ServerInv

\* Every action of the server, the agent and the browser preserves it.
LEMMA StepInv == ASSUME Inv, InFlight, [Next]_vars PROVE Inv'
PROOF
  <1>1. ASSUME NEW p \in Posts, CallReads(p) PROVE Inv' BY <1>1, ReadsPreserve
  <1>2. ASSUME NEW a \in Agents, AgentSpeaks(a) \/ AgentReads(a) PROVE Inv'
    BY <1>2, AgentPreserves
  <1>3. ASSUME NEW c \in Calls, CallInserts(c) \/ CallCommits(c) \/ CallDies(c) PROVE Inv'
    BY <1>3, InsertsPreserve, CommitsPreserve, DiesPreserves
  <1>4. CASE TakenElsewhere BY <1>4, TakeoverPreserves DEF TakenElsewhere
  <1>5. CASE PostAnswered \/ PostFails
    <2>1. post \in Posts BY <1>5 DEF InFlight, PostAnswered, PostFails
    <2> QED BY <1>5, <2>1, PostPreserves
  <1>6. CASE Leave BY <1>6, RecordPreserves DEF Leave
  <1>7. ASSUME NEW a \in Attempts, Dropped(a) PROVE Inv' BY <1>7, RecordPreserves DEF Dropped
  <1>8. ASSUME NEW a \in Attempts, Rejoined(a) PROVE Inv' BY <1>8, RejoinPreserves
  <1>9. ASSUME NEW a \in Attempts, ResumeTakes(a) PROVE Inv'
    BY <1>9, TakeoverPreserves DEF ResumeTakes
  <1>10. CASE UNCHANGED <<server, call, buffer>> BY <1>10, StillPreserves
  <1>11. CASE DroppedAgain BY <1>10, <1>11 DEF DroppedAgain
  <1>12. ASSUME NEW a \in Attempts,
                \/ Retry(a) \/ RetryNow(a) \/ ResumeReads(a) \/ ResumeCursor(a)
                \/ ResumeAnswers(a) \/ ChainFails(a) \/ ResumeRefused(a)
         PROVE  Inv'
    BY <1>10, <1>12
    DEF Retry, RetryNow, ResumeReads, ResumeCursor, ResumeAnswers, ChainFails, ResumeRefused
  <1>13. CASE UNCHANGED vars BY <1>10, <1>13 DEF vars
  <1> QED
    BY <1>1, <1>2, <1>3, <1>4, <1>5, <1>6, <1>7, <1>8, <1>9, <1>11, <1>12, <1>13 DEF Next

----------------------------------------------------------------------------
(* The order of the browser's events.                                      *)

\* The slots the browser has given its events: in the buffer, in a request
\* the server may still store, or in the log.
Pending == {"sent", "read", "inserted"}

Given(e, i, n) ==
  \/ bEpoch = e /\ i \in DOMAIN unacked /\ unacked[i] = n
  \/ \E p \in Posts : /\ call[p].phase \in Pending /\ call[p].epoch = e
                      /\ i \in DOMAIN call[p].batch /\ call[p].batch[i] = n
  \/ \E r \in log : r.id = i /\ r.epoch = e /\ r.seq = n

\* Within an epoch slots are given in the order of the events,
Ordered ==
  \A e, m, n \in Nat, i, j \in Ids :
    Given(e, i, m) /\ Given(e, j, n) /\ i < j => m < n

\* and what is still to be recorded comes after all of it.
Ahead ==
  \A e, n \in Nat, i \in Ids :
    Given(e, i, n) => e <= bEpoch /\ i <= made /\ (e = bEpoch => n < nextSeq)

\* The agent's events are not the browser's.
AgentsApart == \A a \in Agents : DOMAIN call[a].batch \cap Ids = {}

OrderInv ==
  /\ bEpoch \in Nat /\ made <= MaxEvents
  /\ AgentsApart
  /\ renumbered = "no" => Ordered /\ Ahead

\* A step that gives nothing new keeps the order.
LEMMA NothingGiven ==
  ASSUME OrderInv, AgentsApart', UNCHANGED <<bEpoch, made, nextSeq, renumbered>>,
         ASSUME NEW e \in Nat, NEW i \in Ids, NEW n \in Nat, Given(e, i, n)'
         PROVE  Given(e, i, n)
  PROVE  OrderInv'
PROOF
  <1>1. Ordered => Ordered' BY DEF Ordered
  <1>2. Ahead => Ahead' BY DEF Ahead
  <1> QED BY <1>1, <1>2 DEF OrderInv

\* What is given after a step that leaves every request of the browser as it
\* was, ends it, or sends it the buffer.
LEMMA GivenByBuffer ==
  ASSUME NEW e, NEW i, NEW n, Given(e, i, n)',
         ASSUME NEW p \in Posts, call'[p].phase \in Pending
         PROVE  \/ /\ call[p].phase \in Pending /\ call'[p].epoch = call[p].epoch
                   /\ call'[p].batch = call[p].batch
                \/ call'[p].epoch = bEpoch' /\ call'[p].batch = unacked',
         log' = log
  PROVE  \/ bEpoch' = e /\ i \in DOMAIN unacked' /\ unacked'[i] = n
         \/ \E p \in Posts : /\ call[p].phase \in Pending /\ call[p].epoch = e
                             /\ i \in DOMAIN call[p].batch /\ call[p].batch[i] = n
         \/ \E r \in log : r.id = i /\ r.epoch = e /\ r.seq = n
PROOF
  <1>1. CASE \E p \in Posts : /\ call'[p].phase \in Pending /\ call'[p].epoch = e
                              /\ i \in DOMAIN call'[p].batch /\ call'[p].batch[i] = n
    <2>1. PICK p \in Posts : /\ call'[p].phase \in Pending /\ call'[p].epoch = e
                             /\ i \in DOMAIN call'[p].batch /\ call'[p].batch[i] = n
      BY <1>1
    <2>2. CASE /\ call[p].phase \in Pending /\ call'[p].epoch = call[p].epoch
               /\ call'[p].batch = call[p].batch
      BY <2>1, <2>2
    <2>3. CASE call'[p].epoch = bEpoch' /\ call'[p].batch = unacked' BY <2>1, <2>3
    <2> QED BY <2>1, <2>2, <2>3
  <1>2. CASE bEpoch' = e /\ i \in DOMAIN unacked' /\ unacked'[i] = n BY <1>2
  <1>3. CASE \E r \in log' : r.id = i /\ r.epoch = e /\ r.seq = n BY <1>3
  <1> QED BY <1>1, <1>2, <1>3 DEF Given

\* A request that is idle, failed or over holds nothing pending; one just sent
\* holds what it was sent with.
LEMMA CallFields ==
  /\ NoCall.phase \notin Pending /\ Failed.phase \notin Pending
  /\ DOMAIN NoCall.batch = {} /\ DOMAIN Failed.batch = {}
  /\ \A e, b : Request(e, b).epoch = e /\ Request(e, b).batch = b
BY DEF NoCall, Failed, Request, Call, Pending

\* A flush sends the buffer in one request, or nothing.
LEMMA FlushSends ==
  ASSUME Shape, NEW e, NEW b, Flush(e, b)
  PROVE  /\ \A a \in Agents : call'[a] = call[a]
         /\ \A p \in Posts : call'[p] = call[p] \/ call'[p] = Request(e, b)
PROOF
  <1>1. CASE UNCHANGED call BY <1>1
  <1>2. CASE /\ \E p \in Posts : Free(p)
             /\ post' = (CHOOSE p \in Posts : Free(p))
             /\ call' = [call EXCEPT ![post'] = Request(e, b)]
    <2>1. post' \in Posts BY <1>2
    <2>2. post' \in Calls /\ post' \notin Agents BY <2>1, TimelineAssumption DEF Calls
    <2>3. /\ call'[post'] = Request(e, b)
          /\ \A d \in Calls \ {post'} : call'[d] = call[d]
      BY <1>2, <2>2 DEF Shape
    <2> QED BY <2>2, <2>3 DEF Calls
  <1> QED BY <1>1, <1>2 DEF Flush

\* So does the end of a post.
LEMMA FinallySends ==
  ASSUME Shape, post \in Posts, NEW freed, NEW b, Finally(freed, b)
  PROVE  /\ \A a \in Agents : call'[a] = call[a]
         /\ \A p \in Posts : \/ call'[p] = call[p] \/ call'[p] = NoCall
                             \/ call'[p] = Request(bEpoch, b)
PROOF
  <1> DEFINE calls == IF call[post].phase \in freed
                        THEN [call EXCEPT ![post] = NoCall] ELSE call
             idle == {p \in Posts : calls[p] = NoCall}
  <1>0. /\ call = [c \in Calls |-> call[c]] /\ post \in Calls /\ post \notin Agents
        /\ Agents \subseteq Calls /\ Posts \subseteq Calls
    BY TimelineAssumption DEF Shape, Calls
  <1>1. /\ calls = [c \in Calls |-> calls[c]]
        /\ \A a \in Agents : calls[a] = call[a]
        /\ \A p \in Posts : calls[p] = call[p] \/ calls[p] = NoCall
    BY <1>0
  <1>2. \/ call' = calls
        \/ \E p \in Posts : call' = [calls EXCEPT ![p] = Request(bEpoch, b)]
    <2>1. ASSUME idle # {} PROVE (CHOOSE p \in idle : TRUE) \in Posts
      BY <2>1
    <2> QED BY <2>1 DEF Finally
  <1> HIDE DEF calls, idle
  <1>3. CASE call' = calls BY <1>1, <1>3
  <1>4. CASE \E p \in Posts : call' = [calls EXCEPT ![p] = Request(bEpoch, b)]
    <2>1. PICK p \in Posts : call' = [calls EXCEPT ![p] = Request(bEpoch, b)] BY <1>4
    <2>2. p \in Calls /\ p \notin Agents BY <1>0, TimelineAssumption
    <2>3. /\ call'[p] = Request(bEpoch, b)
          /\ \A c \in Calls \ {p} : call'[c] = calls[c]
      BY <1>1, <2>1, <2>2
    <2> QED BY <1>0, <1>1, <2>2, <2>3
  <1> QED BY <1>2, <1>3, <1>4

\* The server's work on one request gives nothing: a pending request goes on
\* with its batch, or ends.
LEMMA RequestKeepsOrder ==
  ASSUME Inv, OrderInv, UNCHANGED <<log, buffer>>, NEW c \in Calls, NEW v,
         call' = [call EXCEPT ![c] = v],
         c \in Agents => DOMAIN v.batch \cap Ids = {},
         c \in Posts /\ v.phase \in Pending =>
           call[c].phase \in Pending /\ v.epoch = call[c].epoch /\ v.batch = call[c].batch
  PROVE  OrderInv'
PROOF
  <1>1. call'[c] = v /\ \A d \in Calls \ {c} : call'[d] = call[d]
    BY OneCall DEF Inv, ServerInv
  <1>2. AgentsApart' BY <1>1 DEF OrderInv, AgentsApart, Calls
  <1>3. ASSUME NEW p \in Posts, call'[p].phase \in Pending
        PROVE  /\ call[p].phase \in Pending /\ call'[p].epoch = call[p].epoch
               /\ call'[p].batch = call[p].batch
    <2>1. CASE p = c BY <1>1, <1>3, <2>1
    <2>2. CASE p # c
      <3>1. call'[p] = call[p] BY <1>1, <2>2 DEF Calls
      <3> QED BY <1>3, <3>1
    <2> QED BY <2>1, <2>2
  <1>4. ASSUME NEW e \in Nat, NEW i \in Ids, NEW n \in Nat, Given(e, i, n)'
        PROVE  Given(e, i, n)
    <2>1. bEpoch' = bEpoch /\ unacked' = unacked BY DEF buffer
    <2> QED BY <1>3, <1>4, <2>1, GivenByBuffer DEF Given
  <1> QED BY <1>2, <1>4, NothingGiven DEF buffer

\* Reading, stamping, inserting and dying, of the browser's requests and the
\* agent's.
LEMMA ServerKeepsOrder ==
  ASSUME Inv, OrderInv,
         \/ \E p \in Posts : CallReads(p)
         \/ \E a \in Agents : AgentSpeaks(a) \/ AgentReads(a)
         \/ \E c \in Calls : CallInserts(c) \/ CallDies(c)
  PROVE  OrderInv'
PROOF
  <1>1. ASSUME NEW p \in Posts, CallReads(p) PROVE OrderInv'
    <2> DEFINE v == IF call[p].epoch = epoch
                      THEN Call("read", epoch, call[p].batch, accepted, {}, {}, 0)
                      ELSE Answer(p, Failed)
    <2>1. p \in Calls /\ p \notin Agents BY TimelineAssumption DEF Calls
    <2>2. v.phase \in Pending =>
            call[p].phase \in Pending /\ v.epoch = call[p].epoch /\ v.batch = call[p].batch
      BY <1>1, CallFields DEF CallReads, Call, Answer, Pending
    <2>3. call' = [call EXCEPT ![p] = v] /\ UNCHANGED <<log, buffer>>
      BY <1>1 DEF CallReads, server
    <2> HIDE DEF v
    <2> QED BY <2>1, <2>2, <2>3, RequestKeepsOrder
  <1>2. ASSUME NEW a \in Agents, AgentSpeaks(a) \/ AgentReads(a) PROVE OrderInv'
    <2>1. a \in Calls /\ a \notin Posts /\ a \notin Ids BY TimelineAssumption DEF Calls
    <2>2. /\ DOMAIN Request(0, <<>>).batch \cap Ids = {}
          /\ DOMAIN Stamp(a).batch \cap Ids = {}
      BY <2>1, CallFields DEF Stamp, Call
    <2>3. /\ UNCHANGED <<log, buffer>>
          /\ call' = [call EXCEPT ![a] = Request(0, <<>>)] \/ call' = [call EXCEPT ![a] = Stamp(a)]
      BY <1>2 DEF AgentSpeaks, AgentReads, server
    <2> QED BY <2>1, <2>2, <2>3, RequestKeepsOrder
  <1>3. ASSUME NEW c \in Calls, CallInserts(c) PROVE OrderInv'
    <2>1. \E rows, no, cursor :
            call' = [call EXCEPT ![c] = Call("inserted", call[c].epoch, call[c].batch,
                                             call[c].accepted, rows, no, cursor)]
      BY <1>3 DEF CallInserts
    <2>2. PICK rows, no, cursor :
            call' = [call EXCEPT ![c] = Call("inserted", call[c].epoch, call[c].batch,
                                             call[c].accepted, rows, no, cursor)]
      BY <2>1
    <2> DEFINE v == Call("inserted", call[c].epoch, call[c].batch,
                         call[c].accepted, rows, no, cursor)
    <2>3. v.epoch = call[c].epoch /\ v.batch = call[c].batch BY DEF Call
    <2>4. call[c].phase \in Pending /\ UNCHANGED <<log, buffer>>
      BY <1>3 DEF CallInserts, Pending, server
    <2>5. c \in Agents => DOMAIN v.batch \cap Ids = {} BY <2>3 DEF OrderInv, AgentsApart
    <2>6. call' = [call EXCEPT ![c] = v] BY <2>2
    <2> HIDE DEF v
    <2> QED BY <2>3, <2>4, <2>5, <2>6, RequestKeepsOrder
  <1>4. ASSUME NEW c \in Calls, CallDies(c) PROVE OrderInv'
    <2>1. /\ Answer(c, Failed).phase \notin Pending
          /\ DOMAIN Answer(c, Failed).batch \cap Ids = {}
      BY CallFields DEF Answer
    <2>2. call' = [call EXCEPT ![c] = Answer(c, Failed)] /\ UNCHANGED <<log, buffer>>
      BY <1>4 DEF CallDies, server
    <2> QED BY <2>1, <2>2, RequestKeepsOrder
  <1> QED BY <1>1, <1>2, <1>3, <1>4

\* A commit stores slots its request was sent with.
LEMMA CommitKeepsOrder ==
  ASSUME Inv, OrderInv, NEW c \in Calls, CallCommits(c)
  PROVE  OrderInv'
PROOF
  <1> DEFINE v == Answer(c, Call("acked", call[c].epoch, call[c].batch, 0, {},
                                 call[c].refused, call[c].cursor))
  <1>1. /\ call' = [call EXCEPT ![c] = v] /\ log' = log \cup call[c].rows
        /\ call[c].phase = "inserted" /\ UNCHANGED buffer
    BY DEF CallCommits
  <1>2. v.phase \notin Pending /\ (v.batch = call[c].batch \/ v = NoCall)
    BY CallFields DEF Answer, Call, Pending
  <1> HIDE DEF v
  <1>3. call'[c] = v /\ \A d \in Calls \ {c} : call'[d] = call[d]
    BY <1>1, OneCall DEF Inv, ServerInv
  <1>4. AgentsApart' BY <1>2, <1>3, CallFields DEF OrderInv, AgentsApart, Calls
  <1>5. \A r \in call[c].rows : /\ r.id \in DOMAIN call[c].batch /\ r.epoch = call[c].epoch
                                /\ r.seq = call[c].batch[r.id]
    BY <1>1 DEF Inv, ServerInv, Shape, Wanted
  <1>6. ASSUME NEW e \in Nat, NEW i \in Ids, NEW n \in Nat, Given(e, i, n)'
        PROVE  Given(e, i, n)
    <2>1. bEpoch' = bEpoch /\ unacked' = unacked BY <1>1 DEF buffer
    <2>2. \A p \in Posts : call'[p].phase \in Pending => call'[p] = call[p]
      BY <1>2, <1>3 DEF Calls
    <2>3. CASE \E r \in log' : r.id = i /\ r.epoch = e /\ r.seq = n
      <3>1. PICK r \in log' : r.id = i /\ r.epoch = e /\ r.seq = n BY <2>3
      <3>2. CASE r \in log BY <3>1, <3>2 DEF Given
      <3>3. CASE r \in call[c].rows
        <4>1. c \in Posts BY <1>5, <3>1, <3>3 DEF OrderInv, AgentsApart, Calls
        <4> QED BY <1>1, <1>5, <3>1, <3>3, <4>1 DEF Given, Pending
      <3> QED BY <1>1, <3>1, <3>2, <3>3
    <2>4. CASE \/ bEpoch' = e /\ i \in DOMAIN unacked' /\ unacked'[i] = n
               \/ \E p \in Posts : /\ call'[p].phase \in Pending /\ call'[p].epoch = e
                                   /\ i \in DOMAIN call'[p].batch /\ call'[p].batch[i] = n
      BY <2>1, <2>2, <2>4 DEF Given
    <2> QED BY <1>6, <2>3, <2>4 DEF Given
  <1> QED BY <1>1, <1>4, <1>6, NothingGiven DEF buffer

\* The end of a post settles part of the buffer and may send the rest again.
LEMMA PostKeepsOrder ==
  ASSUME Inv, OrderInv, post \in Posts, PostAnswered \/ PostFails
  PROVE  OrderInv'
PROOF
  <1>1. Shape /\ Numbering(unacked) BY DEF Inv, ServerInv, BufferInv
  <1>2. /\ UNCHANGED <<log, bEpoch, made, nextSeq, renumbered>>
        /\ DOMAIN unacked' \subseteq DOMAIN unacked
        /\ \A i \in DOMAIN unacked' : unacked'[i] = unacked[i]
        /\ \E freed : Finally(freed, unacked')
    <2>1. CASE PostAnswered
      BY <1>1, <2>1, WithoutNumbers DEF PostAnswered, server
    <2>2. CASE PostFails
      BY <2>2 DEF PostFails, server, buffer
    <2> QED BY <2>1, <2>2
  <1>3. PICK freed : Finally(freed, unacked') BY <1>2
  <1>4. /\ \A a \in Agents : call'[a] = call[a]
        /\ \A p \in Posts : \/ call'[p] = call[p] \/ call'[p] = NoCall
                            \/ call'[p] = Request(bEpoch, unacked')
    BY <1>1, <1>3, FinallySends
  <1>5. AgentsApart' BY <1>4 DEF OrderInv, AgentsApart
  <1>6. ASSUME NEW p \in Posts, call'[p].phase \in Pending
        PROVE  \/ /\ call[p].phase \in Pending /\ call'[p].epoch = call[p].epoch
                  /\ call'[p].batch = call[p].batch
               \/ call'[p].epoch = bEpoch' /\ call'[p].batch = unacked'
    BY <1>2, <1>4, <1>6, CallFields
  <1>7. ASSUME NEW e \in Nat, NEW i \in Ids, NEW n \in Nat, Given(e, i, n)'
        PROVE  Given(e, i, n)
    BY <1>2, <1>6, <1>7, GivenByBuffer DEF Given
  <1> QED BY <1>2, <1>5, <1>7, NothingGiven

\* What is given after one more event is buffered, and the buffer perhaps sent.
LEMMA OneMoreGiven ==
  ASSUME NEW e, NEW i, NEW n, Given(e, i, n)', UNCHANGED <<log, bEpoch>>,
         \A j \in DOMAIN unacked' :
           (j \in DOMAIN unacked /\ unacked'[j] = unacked[j]) \/ (j = made + 1 /\ unacked'[j] = nextSeq),
         \A p \in Posts : call'[p].phase \in Pending =>
           \/ /\ call[p].phase \in Pending /\ call'[p].epoch = call[p].epoch
              /\ call'[p].batch = call[p].batch
           \/ call'[p].epoch = bEpoch' /\ call'[p].batch = unacked'
  PROVE  Given(e, i, n) \/ (e = bEpoch /\ i = made + 1 /\ n = nextSeq)
PROOF
  <1>1. ASSUME e = bEpoch, i \in DOMAIN unacked', unacked'[i] = n
        PROVE  Given(e, i, n) \/ (e = bEpoch /\ i = made + 1 /\ n = nextSeq)
    BY <1>1 DEF Given
  <1>2. CASE \E p \in Posts : /\ call'[p].phase \in Pending /\ call'[p].epoch = e
                              /\ i \in DOMAIN call'[p].batch /\ call'[p].batch[i] = n
    <2>1. PICK p \in Posts : /\ call'[p].phase \in Pending /\ call'[p].epoch = e
                             /\ i \in DOMAIN call'[p].batch /\ call'[p].batch[i] = n
      BY <1>2
    <2>2. CASE /\ call[p].phase \in Pending /\ call'[p].epoch = call[p].epoch
               /\ call'[p].batch = call[p].batch
      BY <2>1, <2>2 DEF Given
    <2>3. CASE call'[p].epoch = bEpoch' /\ call'[p].batch = unacked' BY <1>1, <2>1, <2>3
    <2> QED BY <2>1, <2>2, <2>3
  <1>3. CASE \E r \in log' : r.id = i /\ r.epoch = e /\ r.seq = n BY <1>3 DEF Given
  <1>4. CASE bEpoch' = e /\ i \in DOMAIN unacked' /\ unacked'[i] = n BY <1>1, <1>4
  <1> QED BY <1>2, <1>3, <1>4 DEF Given

\* What the drop and the goodbye do to the buffer.
RecordsOne ==
  /\ UNCHANGED <<server, bEpoch, renumbered>> /\ made < MaxEvents
  /\ nextSeq' = nextSeq + 1 /\ made' = made + 1
  /\ \A i \in DOMAIN unacked' : \/ i \in DOMAIN unacked /\ unacked'[i] = unacked[i]
                                \/ i = made + 1 /\ unacked'[i] = nextSeq
  /\ Flush(bEpoch, unacked')

\* One event recorded takes a slot after all those given.
LEMMA RecordKeepsOrder ==
  ASSUME Inv, OrderInv, RecordsOne
  PROVE  OrderInv'
PROOF
  <1> USE DEF RecordsOne
  <1>1. Shape /\ BufferInv /\ bEpoch \in Nat /\ made \in Nat /\ nextSeq \in Nat
    BY DEF Inv, ServerInv, BufferInv, OrderInv
  <1>3. /\ \A a \in Agents : call'[a] = call[a]
        /\ \A p \in Posts : call'[p] = call[p] \/ call'[p] = Request(bEpoch, unacked')
    BY <1>1, FlushSends
  <1>4. AgentsApart' BY <1>3 DEF OrderInv, AgentsApart
  <1>5. ASSUME NEW p \in Posts, call'[p].phase \in Pending
        PROVE  \/ /\ call[p].phase \in Pending /\ call'[p].epoch = call[p].epoch
                  /\ call'[p].batch = call[p].batch
               \/ call'[p].epoch = bEpoch' /\ call'[p].batch = unacked'
    BY <1>3, <1>5, CallFields
  <1>6. ASSUME NEW e \in Nat, NEW i \in Ids, NEW n \in Nat, Given(e, i, n)'
        PROVE  Given(e, i, n) \/ (e = bEpoch /\ i = made + 1 /\ n = nextSeq)
    <2>1. log' = log BY DEF server
    <2>2. \A p \in Posts : call'[p].phase \in Pending =>
            \/ /\ call[p].phase \in Pending /\ call'[p].epoch = call[p].epoch
               /\ call'[p].batch = call[p].batch
            \/ call'[p].epoch = bEpoch' /\ call'[p].batch = unacked'
      BY <1>5
    <2> QED BY <1>6, <2>1, <2>2, OneMoreGiven
  <1>7. ASSUME Ordered, Ahead PROVE Ordered' /\ Ahead'
    <2>0. Ids \subseteq Nat BY TimelineAssumption DEF Ids
    <2>1. ASSUME NEW e \in Nat, NEW m \in Nat, NEW n \in Nat, NEW i \in Ids, NEW j \in Ids,
                 Given(e, i, m)', Given(e, j, n)', i < j
          PROVE  m < n
      <3>1. CASE Given(e, i, m) /\ Given(e, j, n) BY <1>7, <2>1, <3>1 DEF Ordered
      <3>2. CASE Given(e, i, m) /\ e = bEpoch /\ j = made + 1 /\ n = nextSeq
        BY <1>7, <3>2 DEF Ahead
      <3>3. CASE i = made + 1 /\ Given(e, j, n)
        <4>1. j <= made BY <1>7, <3>3 DEF Ahead
        <4> QED BY <1>1, <2>0, <2>1, <3>3, <4>1
      <3>4. CASE i = made + 1 /\ j = made + 1 BY <1>1, <2>1, <3>4
      <3> QED BY <1>6, <2>1, <3>1, <3>2, <3>3, <3>4
    <2>2. ASSUME NEW e \in Nat, NEW n \in Nat, NEW i \in Ids, Given(e, i, n)'
          PROVE  e <= bEpoch' /\ i <= made' /\ (e = bEpoch' => n < nextSeq')
      <3>1. CASE Given(e, i, n)
        <4>1. e <= bEpoch /\ i <= made /\ (e = bEpoch => n < nextSeq) BY <1>7, <3>1 DEF Ahead
        <4> QED BY <1>1, <2>0, <4>1
      <3>2. CASE e = bEpoch /\ i = made + 1 /\ n = nextSeq BY <1>1, <3>2
      <3> QED BY <1>6, <2>2, <3>1, <3>2
    <2> QED BY <2>1, <2>2 DEF Ordered, Ahead
  <1>8. made' <= MaxEvents BY <1>1, TimelineAssumption
  <1> QED BY <1>4, <1>7, <1>8 DEF OrderInv

\* Ranks follow the order of what they rank.
LEMMA RebasedOrdered ==
  ASSUME BufferInv, NEW prev,
         \A i, j \in DOMAIN unacked : i < j => unacked[i] < unacked[j]
  PROVE  \A i, j \in DOMAIN Rebased(prev) : i < j => Rebased(prev)[i] < Rebased(prev)[j]
PROOF
  <1> DEFINE left == {i \in DOMAIN unacked : unacked[i] > prev}
             upto(i) == {j \in left : unacked[j] <= unacked[i]}
             b == Rebased(prev)
  <1>1. IsFiniteSet(left)
    BY FS_Subset DEF BufferInv, Numbering
  <1>2. DOMAIN b = left /\ \A i \in left : b[i] = Cardinality(upto(i)) BY DEF Rebased
  <1>3. ASSUME NEW i \in left, NEW j \in left, unacked[i] < unacked[j]
        PROVE  Cardinality(upto(i)) < Cardinality(upto(j))
    <2>1. \A m \in left : unacked[m] \in Nat BY DEF BufferInv, Numbering
    <2>2. upto(i) \subseteq upto(j) BY <1>3, <2>1
    <2>3. j \in upto(j) /\ j \notin upto(i) BY <1>3, <2>1
    <2>4. IsFiniteSet(upto(i)) /\ IsFiniteSet(upto(j)) BY <1>1, FS_Subset
    <2>5. Cardinality(upto(i)) \in Nat /\ Cardinality(upto(j)) \in Nat
      BY <2>4, FS_CardinalityType
    <2> HIDE DEF upto
    <2>6. /\ Cardinality(upto(i)) <= Cardinality(upto(j))
          /\ Cardinality(upto(i)) # Cardinality(upto(j))
      BY <2>2, <2>3, <2>4, FS_Subset
    <2> QED BY <2>5, <2>6
  <1>4. \A i, j \in left : i < j => unacked[i] < unacked[j] OBVIOUS
  <1> HIDE DEF upto, left
  <1> QED BY <1>2, <1>3, <1>4 DEF b

\* A rejoin in a later epoch numbers where nothing was given.
LEMMA RejoinKeepsOrder ==
  ASSUME Inv, OrderInv, NEW a \in Attempts, attempt[a].to \in Nat, Rejoined(a)
  PROVE  OrderInv'
PROOF
  <1> DEFINE kept == Rebased(attempt[a].prev)
             next == Cardinality(DOMAIN kept) + 1
  <1>1. /\ UNCHANGED server /\ made' = made + 2 /\ made + 2 <= MaxEvents
        /\ unacked' = Recorded(kept, next, 2) /\ nextSeq' = next + 2
        /\ Flush(bEpoch', unacked') /\ bEpoch' = attempt[a].to
        /\ renumbered' = IF attempt[a].to > bEpoch THEN renumbered ELSE "yes"
    BY DEF Rejoined
  <1>2. /\ Shape /\ BufferInv /\ made \in Nat /\ bEpoch \in Nat /\ bEpoch' \in Nat
        /\ made <= MaxEvents /\ Ids \subseteq Nat /\ 1 .. made \subseteq Ids
    BY <1>1, TimelineAssumption DEF Inv, ServerInv, BufferInv, OrderInv, Ids
  <1>3. /\ next \in Nat /\ Numbering(kept)
        /\ \A i \in DOMAIN kept : i \in 1 .. made /\ kept[i] < next /\ kept[i] \in Nat
    BY <1>2, RebasedNumbers DEF Numbering
  <1>4. /\ \A c \in Agents : call'[c] = call[c]
        /\ \A p \in Posts : call'[p] = call[p] \/ call'[p] = Request(bEpoch', unacked')
    BY <1>1, <1>2, FlushSends
  <1>5. AgentsApart' BY <1>4 DEF OrderInv, AgentsApart
  <1>6. ASSUME NEW p \in Posts, call'[p].phase \in Pending
        PROVE  \/ /\ call[p].phase \in Pending /\ call'[p].epoch = call[p].epoch
                  /\ call'[p].batch = call[p].batch
               \/ call'[p].epoch = bEpoch' /\ call'[p].batch = unacked'
    BY <1>4, <1>6, CallFields
  <1>7. ASSUME NEW e \in Nat, NEW i \in Ids, NEW n \in Nat, Given(e, i, n)'
        PROVE  Given(e, i, n) \/ (e = bEpoch' /\ i \in DOMAIN unacked' /\ n = unacked'[i])
    BY <1>1, <1>6, <1>7, GivenByBuffer DEF Given, server
  <1>8. ASSUME renumbered' = "no" PROVE Ordered' /\ Ahead'
    <2>1. bEpoch' > bEpoch /\ Ordered /\ Ahead BY <1>1, <1>8 DEF OrderInv
    <2>2. \A i, j \in DOMAIN unacked : i < j => unacked[i] < unacked[j]
      <3>1. \A i \in DOMAIN unacked : i \in Ids /\ unacked[i] \in Nat /\ Given(bEpoch, i, unacked[i])
        BY <1>2 DEF Given, BufferInv, Numbering
      <3> QED BY <1>2, <2>1, <3>1 DEF Ordered
    <2>3. \A i, j \in DOMAIN kept : i < j => kept[i] < kept[j] BY <1>2, <2>2, RebasedOrdered
    <2> HIDE DEF kept, next
    <2>4. \A i \in DOMAIN unacked' :
            \/ i \in DOMAIN kept /\ unacked'[i] = kept[i]
            \/ i \in {made + 1, made + 2} /\ unacked'[i] = next + (i - made - 1)
      BY <1>1, <1>2, <1>3 DEF Recorded
    <2>5. \A i, j \in DOMAIN unacked' : i < j => unacked'[i] < unacked'[j]
      BY <1>2, <1>3, <2>3, <2>4
    <2>6. \A i \in DOMAIN unacked' : i <= made + 2 /\ unacked'[i] < next + 2
      BY <1>2, <1>3, <2>4
    <2>7. ASSUME NEW e \in Nat, NEW i \in Ids, NEW n \in Nat, Given(e, i, n)
          PROVE  e < bEpoch' /\ i <= made
      <3>1. e <= bEpoch /\ i <= made BY <2>1, <2>7 DEF Ahead
      <3> QED BY <1>2, <2>1, <3>1
    <2>8. ASSUME NEW e \in Nat, NEW m \in Nat, NEW n \in Nat, NEW i \in Ids, NEW j \in Ids,
                 Given(e, i, m)', Given(e, j, n)', i < j
          PROVE  m < n
      <3>1. CASE e = bEpoch'
        <4>1. ~Given(e, i, m) /\ ~Given(e, j, n) BY <1>2, <2>7, <3>1
        <4>2. i \in DOMAIN unacked' /\ m = unacked'[i] /\ j \in DOMAIN unacked' /\ n = unacked'[j]
          BY <1>7, <2>8, <4>1
        <4> QED BY <2>5, <2>8, <4>2
      <3>2. CASE e # bEpoch' BY <1>7, <2>1, <2>8, <3>2 DEF Ordered
      <3> QED BY <3>1, <3>2
    <2>9. ASSUME NEW e \in Nat, NEW n \in Nat, NEW i \in Ids, Given(e, i, n)'
          PROVE  e <= bEpoch' /\ i <= made' /\ (e = bEpoch' => n < nextSeq')
      <3>1. CASE Given(e, i, n)
        <4>1. e < bEpoch' /\ i <= made BY <2>7, <3>1
        <4> QED BY <1>1, <1>2, <4>1
      <3>2. CASE e = bEpoch' /\ i \in DOMAIN unacked' /\ n = unacked'[i]
        BY <1>1, <1>2, <2>6, <3>2
      <3> QED BY <1>7, <2>9, <3>1, <3>2
    <2> QED BY <2>8, <2>9 DEF Ordered, Ahead
  <1> QED BY <1>1, <1>2, <1>5, <1>8 DEF OrderInv

----------------------------------------------------------------------------
(* The reconnection chains.                                                *)

Chains ==
  [phase : {"idle", "waiting", "asking", "read", "cursor", "taken", "answered", "flushing"},
   seen : Nat, prev : Nat, to : Nat, on : Posts \cup {None}, est : Nat]

\* An epoch a chain has seen, or was answered with, is no later than the
\* session's.
ChainInv ==
  /\ epoch \in Nat \ {0}
  /\ attempt \in [Attempts -> Chains]
  /\ \A a \in Attempts : attempt[a].seen <= epoch /\ attempt[a].to <= epoch

\* The chains a step may leave.
LEMMA ChainsAtRest == Idle \in Chains /\ Wait \in Chains /\ Retrying \in Chains
                      /\ [Idle EXCEPT !.phase = "asking"] \in Chains
BY DEF Idle, Wait, Retrying, Chains

\* A chain that rejoins keeps the epochs it knows.
LEMMA FlushingChain ==
  ASSUME NEW c \in Chains, NEW o \in Posts \cup {None}, NEW m \in Nat
  PROVE  /\ [c EXCEPT !.phase = "flushing", !.on = o, !.est = m] \in Chains
         /\ [c EXCEPT !.phase = "flushing", !.on = o, !.est = m].seen = c.seen
         /\ [c EXCEPT !.phase = "flushing", !.on = o, !.est = m].to = c.to
BY DEF Chains

\* One chain goes on, in a session whose epoch does not go back.
LEMMA ChainMoves ==
  ASSUME ChainInv, NEW a \in Attempts, NEW r \in Chains, attempt' = [attempt EXCEPT ![a] = r],
         r.seen <= epoch', r.to <= epoch', epoch' \in Nat, epoch' >= epoch
  PROVE  ChainInv'
PROOF
  <1>1. attempt' \in [Attempts -> Chains] BY DEF ChainInv
  <1>2. attempt'[a] = r /\ \A b \in Attempts \ {a} : attempt'[b] = attempt[b] BY DEF ChainInv
  <1>3. epoch' \in Nat \ {0} BY DEF ChainInv
  <1>4. ASSUME NEW b \in Attempts PROVE attempt'[b].seen <= epoch' /\ attempt'[b].to <= epoch'
    <2>1. CASE b = a BY <1>2, <2>1
    <2>2. CASE b # a
      <3>1. attempt[b].seen \in Nat /\ attempt[b].to \in Nat /\ epoch \in Nat
        BY DEF ChainInv, Chains
      <3>2. attempt[b].seen <= epoch /\ attempt[b].to <= epoch BY DEF ChainInv
      <3>3. attempt[b].seen <= epoch' /\ attempt[b].to <= epoch' BY <3>1, <3>2
      <3> QED BY <1>2, <2>2, <3>3
    <2> QED BY <2>1, <2>2
  <1> QED BY <1>1, <1>3, <1>4 DEF ChainInv

\* Every step leaves chains, of epochs that have been.
LEMMA ChainStep ==
  ASSUME Inv, InFlight', ChainInv, [Next]_vars
  PROVE  ChainInv'
PROOF
  <1> USE ChainsAtRest
  <1>0. /\ epoch \in Nat /\ epoch >= 1 /\ attempt \in [Attempts -> Chains] /\ made \in Nat
        /\ Idle.seen = 0 /\ Idle.to = 0 /\ Wait.seen = 0 /\ Wait.to = 0
        /\ Retrying.seen = 0 /\ Retrying.to = 0
        /\ [Idle EXCEPT !.phase = "asking"].seen = 0 /\ [Idle EXCEPT !.phase = "asking"].to = 0
    BY DEF ChainInv, Inv, BufferInv, Idle, Wait, Retrying
  <1>1. ASSUME epoch' \in Nat, epoch' >= epoch, attempt' \in [Attempts -> Chains],
               \A a \in Attempts :
                 \/ attempt'[a].seen = attempt[a].seen /\ attempt'[a].to = attempt[a].to
                 \/ attempt'[a].seen <= epoch' /\ attempt'[a].to <= epoch'
        PROVE  ChainInv'
    <2>1. ASSUME NEW a \in Attempts
          PROVE  attempt'[a].seen <= epoch' /\ attempt'[a].to <= epoch'
      <3>1. attempt[a].seen \in Nat /\ attempt[a].to \in Nat BY <1>0 DEF Chains
      <3>2. attempt[a].seen <= epoch /\ attempt[a].to <= epoch BY DEF ChainInv
      <3> QED BY <1>0, <1>1, <3>1, <3>2
    <2> QED BY <1>0, <1>1, <2>1 DEF ChainInv
  <1>2. ASSUME epoch' = epoch,
               \E r \in {Idle, Wait, Retrying, [Idle EXCEPT !.phase = "asking"]}, b \in Attempts :
                 attempt' = [attempt EXCEPT ![b] = r]
        PROVE  ChainInv'
    <2>1. PICK r \in {Idle, Wait, Retrying, [Idle EXCEPT !.phase = "asking"]}, b \in Attempts :
            attempt' = [attempt EXCEPT ![b] = r]
      BY <1>2
    <2>2. r \in Chains /\ r.seen = 0 /\ r.to = 0 BY <1>0, <2>1
    <2>3. attempt' \in [Attempts -> Chains] BY <1>0, <2>1, <2>2
    <2>4. \A a \in Attempts : attempt'[a] = attempt[a] \/ attempt'[a] = r BY <1>0, <2>1
    <2> QED BY <1>0, <1>1, <1>2, <2>2, <2>3, <2>4
  <1>3. ASSUME epoch' = epoch, attempt' = [a \in Attempts |-> attempt'[a]],
               \A a \in Attempts : attempt'[a] \in {attempt[a], Idle, Retrying,
                                                    [Idle EXCEPT !.phase = "asking"]}
        PROVE  ChainInv'
    <2>1. attempt' \in [Attempts -> Chains] BY <1>0, <1>3
    <2>2. ASSUME NEW a \in Attempts
          PROVE  \/ attempt'[a].seen = attempt[a].seen /\ attempt'[a].to = attempt[a].to
                 \/ attempt'[a].seen <= epoch' /\ attempt'[a].to <= epoch'
      <3>1. CASE attempt'[a] = attempt[a] BY <3>1
      <3>2. CASE attempt'[a] \in {Idle, Retrying, [Idle EXCEPT !.phase = "asking"]}
        <4>1. attempt'[a].seen = 0 /\ attempt'[a].to = 0 BY <1>0, <3>2
        <4> QED BY <1>0, <1>3, <4>1
      <3> QED BY <1>3, <3>1, <3>2
    <2>3. epoch' \in Nat /\ epoch' >= epoch BY <1>0, <1>3
    <2> QED BY <1>1, <2>1, <2>2, <2>3
  <1>4. CASE PostAnswered \/ PostFails \/ Leave \/ \E a \in Attempts : RetryNow(a)
    <2>1. epoch' = epoch BY <1>4 DEF PostAnswered, PostFails, Leave, RetryNow, server
    <2>2. attempt' = [a \in Attempts |-> attempt'[a]]
      BY <1>4 DEF PostAnswered, PostFails, Leave, RetryNow
    <2>3. \A a \in Attempts : attempt'[a] \in {attempt[a], Idle, Retrying,
                                               [Idle EXCEPT !.phase = "asking"]}
      BY <1>4 DEF PostAnswered, PostFails, Leave, RetryNow
    <2> QED BY <1>3, <2>1, <2>2, <2>3
  <1>5. ASSUME NEW a \in Attempts,
               Dropped(a) \/ Retry(a) \/ ChainFails(a) \/ ResumeRefused(a)
        PROVE  ChainInv'
    <2>1. epoch' = epoch BY <1>5 DEF Dropped, Retry, ChainFails, ResumeRefused, server
    <2>2. \E r \in {Idle, Wait, Retrying, [Idle EXCEPT !.phase = "asking"]} :
            attempt' = [attempt EXCEPT ![a] = r]
      BY <1>5 DEF Dropped, Retry, ChainFails, ResumeRefused
    <2> QED BY <1>2, <2>1, <2>2
  <1>7. ASSUME NEW a \in Attempts, ResumeReads(a) PROVE ChainInv'
    <2> DEFINE r == [Idle EXCEPT !.phase = "read", !.seen = epoch]
    <2>1. r \in Chains /\ r.seen = epoch /\ r.to = 0 BY <1>0 DEF Idle, Chains
    <2>2. attempt' = [attempt EXCEPT ![a] = r] /\ epoch' = epoch
      BY <1>7 DEF ResumeReads, server
    <2> HIDE DEF r
    <2>3. r.seen <= epoch' /\ r.to <= epoch' /\ epoch' \in Nat /\ epoch' >= epoch
      BY <1>0, <2>1, <2>2
    <2> QED BY <2>1, <2>2, <2>3, ChainMoves
  <1>8. ASSUME NEW a \in Attempts, ResumeCursor(a) PROVE ChainInv'
    <2> DEFINE n == Contiguous(Slots(log, attempt[a].seen))
               r == [attempt[a] EXCEPT !.phase = "cursor", !.prev = n]
    <2>1. n \in Nat BY SlotsFinite, ContiguousIsPrefix DEF Inv, ServerInv, Shape
    <2>2. attempt' = [attempt EXCEPT ![a] = r] /\ epoch' = epoch
      BY <1>0, <1>8 DEF ResumeCursor, server
    <2> HIDE DEF n
    <2>3. attempt[a] \in Chains /\ attempt[a].seen <= epoch /\ attempt[a].to <= epoch
      BY <1>0 DEF ChainInv
    <2>4. r \in Chains /\ r.seen = attempt[a].seen /\ r.to = attempt[a].to
      BY <2>1, <2>3 DEF Chains
    <2> HIDE DEF r
    <2>5. r.seen <= epoch' /\ r.to <= epoch' /\ epoch' \in Nat /\ epoch' >= epoch
      BY <1>0, <2>2, <2>3, <2>4
    <2> QED BY <2>2, <2>4, <2>5, ChainMoves
  <1>9. ASSUME NEW a \in Attempts, ResumeTakes(a) PROVE ChainInv'
    <2> DEFINE r == [attempt[a] EXCEPT !.phase = "taken"]
    <2>1. attempt[a] \in Chains /\ attempt[a].seen <= epoch /\ attempt[a].to <= epoch
      BY <1>0 DEF ChainInv
    <2>2. r \in Chains /\ r.seen = attempt[a].seen /\ r.to = attempt[a].to
      BY <2>1 DEF Chains
    <2>3. attempt' = [attempt EXCEPT ![a] = r] BY <1>0, <1>9 DEF ResumeTakes
    <2>4. epoch' \in Nat /\ epoch' >= epoch
      BY <1>0, <1>9, TimelineAssumption DEF ResumeTakes, BeginAttempt
    <2>5. attempt[a].seen \in Nat /\ attempt[a].to \in Nat BY <2>1 DEF Chains
    <2> HIDE DEF r
    <2>6. r.seen <= epoch' /\ r.to <= epoch' /\ epoch' \in Nat /\ epoch' >= epoch
      BY <1>0, <2>1, <2>2, <2>4, <2>5
    <2> QED BY <2>2, <2>3, <2>6, ChainMoves
  <1>10. ASSUME NEW a \in Attempts, ResumeAnswers(a) PROVE ChainInv'
    <2> DEFINE r == [attempt[a] EXCEPT !.phase = "answered", !.to = epoch]
    <2>1. attempt[a] \in Chains /\ attempt[a].seen <= epoch BY <1>0 DEF ChainInv
    <2>2. r \in Chains /\ r.seen = attempt[a].seen /\ r.to = epoch
      BY <1>0, <2>1 DEF Chains
    <2>3. attempt' = [attempt EXCEPT ![a] = r] /\ epoch' = epoch
      BY <1>0, <1>10 DEF ResumeAnswers, server
    <2> HIDE DEF r
    <2>4. r.seen <= epoch' /\ r.to <= epoch' /\ epoch' \in Nat /\ epoch' >= epoch
      BY <1>0, <2>1, <2>2, <2>3
    <2> QED BY <2>2, <2>3, <2>4, ChainMoves
  <1>11. ASSUME NEW a \in Attempts, Rejoined(a) PROVE ChainInv'
    <2>0. PICK o \in Posts \cup {None} : o = post' BY DEF InFlight
    <2>m. PICK m \in Nat : m = made + 2 BY <1>0
    <2> DEFINE r == [attempt[a] EXCEPT !.phase = "flushing", !.on = o, !.est = m]
    <2>1. /\ attempt[a] \in Chains /\ attempt[a].seen <= epoch /\ attempt[a].to <= epoch
      BY <1>0 DEF ChainInv
    <2>2. r \in Chains /\ r.seen = attempt[a].seen /\ r.to = attempt[a].to
      <3>1. PICK c \in Chains : c = attempt[a] BY <2>1
      <3>2. [c EXCEPT !.phase = "flushing", !.on = o, !.est = m] \in Chains
            /\ [c EXCEPT !.phase = "flushing", !.on = o, !.est = m].seen = c.seen
            /\ [c EXCEPT !.phase = "flushing", !.on = o, !.est = m].to = c.to
        BY FlushingChain, Zenon
      <3> QED BY <3>1, <3>2
    <2>3. attempt' = [attempt EXCEPT ![a] = r] /\ epoch' = epoch
      BY <1>0, <1>11, <2>0, <2>m DEF Rejoined, server
    <2> HIDE DEF r
    <2>4. r.seen <= epoch' /\ r.to <= epoch' /\ epoch' \in Nat /\ epoch' >= epoch
      BY <1>0, <2>1, <2>2, <2>3
    <2> QED BY <2>2, <2>3, <2>4, ChainMoves
  <1>12. CASE UNCHANGED <<epoch, attempt>> BY <1>12 DEF ChainInv
  <1>13. CASE TakenElsewhere
    <2>1. attempt' = attempt /\ epoch' = epoch + 1 BY <1>13 DEF TakenElsewhere, BeginAttempt
    <2> QED BY <1>0, <1>1, <2>1
  <1>14. CASE \/ \E p \in Posts : CallReads(p)
              \/ \E a \in Agents : AgentSpeaks(a) \/ AgentReads(a)
              \/ \E c \in Calls : CallInserts(c) \/ CallCommits(c) \/ CallDies(c)
              \/ DroppedAgain
    BY <1>12, <1>14
    DEF CallReads, AgentSpeaks, AgentReads, CallInserts, CallCommits, CallDies, DroppedAgain, server
  <1>15. CASE UNCHANGED vars BY <1>12, <1>15 DEF vars, server
  <1> QED
    BY <1>4, <1>5, <1>7, <1>8, <1>9, <1>10, <1>11, <1>13, <1>14, <1>15 DEF Next

\* The order is kept by every step.
LEMMA OrderStep ==
  ASSUME Inv, InFlight, ChainInv, OrderInv, [Next]_vars
  PROVE  OrderInv'
PROOF
  <1>1. CASE \/ \E p \in Posts : CallReads(p)
             \/ \E a \in Agents : AgentSpeaks(a) \/ AgentReads(a)
             \/ \E c \in Calls : CallInserts(c) \/ CallDies(c)
    BY <1>1, ServerKeepsOrder
  <1>2. ASSUME NEW c \in Calls, CallCommits(c) PROVE OrderInv' BY <1>2, CommitKeepsOrder
  <1>3. CASE PostAnswered \/ PostFails
    <2>1. post \in Posts BY <1>3 DEF InFlight, PostAnswered, PostFails
    <2> QED BY <1>3, <2>1, PostKeepsOrder
  <1>4. CASE Leave \/ \E a \in Attempts : Dropped(a)
    <2>1. /\ UNCHANGED <<server, bEpoch, renumbered>> /\ made < MaxEvents
          /\ nextSeq' = nextSeq + 1 /\ made' = made + 1 /\ Flush(bEpoch, unacked')
      BY <1>4 DEF Leave, Dropped
    <2>2. \A i \in DOMAIN unacked' : \/ i \in DOMAIN unacked /\ unacked'[i] = unacked[i]
                                     \/ i = made + 1 /\ unacked'[i] = nextSeq
      <3>1. unacked' = Recorded(unacked, nextSeq, 1) BY <1>4 DEF Leave, Dropped
      <3> QED BY <3>1 DEF Recorded, Inv, BufferInv
    <2>3. RecordsOne BY <2>1, <2>2 DEF RecordsOne
    <2> QED BY <2>3, RecordKeepsOrder
  <1>5. ASSUME NEW a \in Attempts, Rejoined(a) PROVE OrderInv'
    <2>1. attempt[a].to \in Nat BY DEF ChainInv, Chains
    <2> QED BY <1>5, <2>1, RejoinKeepsOrder
  <1>6. CASE UNCHANGED <<log, call, buffer>>
    <2>1. /\ log' = log /\ call' = call /\ bEpoch' = bEpoch /\ unacked' = unacked
          /\ UNCHANGED <<bEpoch, made, nextSeq, renumbered>>
      BY <1>6 DEF buffer
    <2>2. AgentsApart' BY <2>1 DEF OrderInv, AgentsApart
    <2>3. ASSUME NEW e \in Nat, NEW i \in Ids, NEW n \in Nat, Given(e, i, n)'
          PROVE  Given(e, i, n)
      BY <2>1, <2>3 DEF Given
    <2> QED BY <2>1, <2>2, <2>3, NothingGiven
  <1>7. CASE \/ TakenElsewhere \/ DroppedAgain
             \/ \E a \in Attempts :
                  \/ Retry(a) \/ RetryNow(a) \/ ResumeReads(a) \/ ResumeCursor(a)
                  \/ ResumeTakes(a) \/ ResumeAnswers(a) \/ ChainFails(a) \/ ResumeRefused(a)
    BY <1>6, <1>7
    DEF TakenElsewhere, DroppedAgain, Retry, RetryNow, ResumeReads, ResumeCursor, ResumeTakes,
        ResumeAnswers, ChainFails, ResumeRefused, server
  <1>8. CASE UNCHANGED vars BY <1>6, <1>8 DEF vars, server
  <1> QED BY <1>1, <1>2, <1>3, <1>4, <1>5, <1>7, <1>8 DEF Next

----------------------------------------------------------------------------
(* Every epoch a request or a row carries is a number.                     *)

Epochs ==
  /\ \A c \in Calls : call[c].epoch \in Nat
  /\ \A r \in log : r.epoch \in Nat

\* Whatever a step sends carries the session's epoch or the buffer's.
LEMMA EpochStep ==
  ASSUME Inv, InFlight, ChainInv, OrderInv, OrderInv', Epochs, [Next]_vars
  PROVE  Epochs'
PROOF
  <1>0. /\ epoch \in Nat /\ bEpoch \in Nat /\ bEpoch' \in Nat /\ Shape
        /\ \A c \in Calls : call[c].epoch \in Nat
        /\ \A r \in log : r.epoch \in Nat
    BY DEF ChainInv, OrderInv, Inv, ServerInv, Epochs
  <1>a. NoCall.epoch \in Nat /\ Failed.epoch \in Nat
    BY DEF NoCall, Failed, Call
  <1>1. ASSUME NEW c \in Calls, NEW v, v.epoch \in Nat, call' = [call EXCEPT ![c] = v],
               log' = log
        PROVE  Epochs'
    BY <1>0, <1>1, OneCall DEF Epochs
  <1>2. ASSUME \A a \in Agents : call'[a] = call[a],
               \A p \in Posts : \/ call'[p] = call[p] \/ call'[p] = NoCall
                                \/ \E e \in Nat : \E b : call'[p] = Request(e, b),
               log' = log
        PROVE  Epochs'
    BY <1>0, <1>2, <1>a, CallFields DEF Epochs, Calls
  <1>3. ASSUME NEW e \in Nat, NEW b, Flush(e, b), log' = log PROVE Epochs'
    BY <1>0, <1>2, <1>3, FlushSends
  <1>4. ASSUME NEW c \in Calls, CallDies(c) PROVE Epochs'
    <2>1. call' = [call EXCEPT ![c] = Answer(c, Failed)] /\ log' = log
      BY <1>4 DEF CallDies, server
    <2>2. Answer(c, Failed).epoch \in Nat BY <1>a DEF Answer
    <2> QED BY <1>1, <2>1, <2>2
  <1>5. ASSUME NEW p \in Posts, CallReads(p) PROVE Epochs'
    <2> DEFINE v == IF call[p].epoch = epoch
                      THEN Call("read", epoch, call[p].batch, accepted, {}, {}, 0)
                      ELSE Answer(p, Failed)
    <2>1. v.epoch \in Nat BY <1>0, <1>a DEF Call, Answer
    <2>2. call' = [call EXCEPT ![p] = v] /\ p \in Calls /\ log' = log
      BY <1>5 DEF CallReads, Calls, server
    <2> HIDE DEF v
    <2> QED BY <1>1, <2>1, <2>2
  <1>6. ASSUME NEW a \in Agents, AgentSpeaks(a) \/ AgentReads(a) PROVE Epochs'
    <2>1. \E v : v.epoch \in Nat /\ call' = [call EXCEPT ![a] = v]
      <3>1. Request(0, <<>>).epoch \in Nat /\ Stamp(a).epoch \in Nat
        BY <1>0, CallFields DEF Stamp, Call
      <3> QED BY <1>6, <3>1 DEF AgentSpeaks, AgentReads
    <2>2. log' = log /\ a \in Calls BY <1>6 DEF AgentSpeaks, AgentReads, Calls, server
    <2> QED BY <1>1, <2>1, <2>2
  <1>7. ASSUME NEW c \in Calls, CallInserts(c) PROVE Epochs'
    <2>1. \E rows, no, cursor :
            call' = [call EXCEPT ![c] = Call("inserted", call[c].epoch, call[c].batch,
                                             call[c].accepted, rows, no, cursor)]
      BY <1>7, ZenonT(30) DEF CallInserts
    <2>2. \A rows, no, cursor : Call("inserted", call[c].epoch, call[c].batch,
                                     call[c].accepted, rows, no, cursor).epoch \in Nat
      BY <1>0 DEF Call
    <2>3. log' = log BY <1>7 DEF CallInserts, server
    <2> QED BY <1>1, <2>1, <2>2, <2>3
  <1>8. ASSUME NEW c \in Calls, CallCommits(c) PROVE Epochs'
    <2> DEFINE v == Answer(c, Call("acked", call[c].epoch, call[c].batch, 0, {},
                                   call[c].refused, call[c].cursor))
    <2>1. v.epoch \in Nat BY <1>0, <1>a DEF Answer, Call
    <2>2. /\ call' = [call EXCEPT ![c] = v] /\ log' = log \cup call[c].rows
          /\ call[c].phase = "inserted"
      BY <1>8 DEF CallCommits
    <2> HIDE DEF v
    <2>3. \A d \in Calls : call'[d].epoch \in Nat BY <1>0, <2>1, <2>2, OneCall
    <2>4. \A r \in call[c].rows : r.epoch \in Nat BY <1>0, <2>2 DEF Shape, Wanted
    <2> QED BY <1>0, <2>2, <2>3, <2>4 DEF Epochs
  <1>9. CASE PostAnswered \/ PostFails
    <2>1. post \in Posts /\ log' = log
      BY <1>9 DEF InFlight, PostAnswered, PostFails, server
    <2>2. \E freed, b : Finally(freed, b) BY <1>9 DEF PostAnswered, PostFails
    <2> QED BY <1>0, <1>2, <2>1, <2>2, FinallySends
  <1>10. CASE Leave \/ \E a \in Attempts : Dropped(a) \/ Rejoined(a)
    <2>1. log' = log /\ (Flush(bEpoch, unacked') \/ Flush(bEpoch', unacked'))
      BY <1>10 DEF Leave, Dropped, Rejoined, server
    <2> QED BY <1>0, <1>3, <2>1
  <1>11. CASE UNCHANGED <<log, call>> BY <1>0, <1>11 DEF Epochs
  <1>12. CASE \/ TakenElsewhere \/ DroppedAgain
              \/ \E a \in Attempts :
                   \/ Retry(a) \/ RetryNow(a) \/ ResumeReads(a) \/ ResumeCursor(a)
                   \/ ResumeTakes(a) \/ ResumeAnswers(a) \/ ChainFails(a) \/ ResumeRefused(a)
    BY <1>11, <1>12
    DEF TakenElsewhere, DroppedAgain, Retry, RetryNow, ResumeReads, ResumeCursor, ResumeTakes,
        ResumeAnswers, ChainFails, ResumeRefused, server
  <1>13. CASE UNCHANGED vars BY <1>11, <1>13 DEF vars, server
  <1> QED
    BY <1>4, <1>5, <1>6, <1>7, <1>8, <1>9, <1>10, <1>12, <1>13 DEF Next

----------------------------------------------------------------------------
(* The first epoch, before any takeover: an event's slot is its number, so *)
(* a slot the server holds is the event's own.                             *)

FirstNumbering ==
  /\ bEpoch = 1 /\ nextSeq = made + 1
  /\ \A i \in DOMAIN unacked : unacked[i] = i
  /\ \A p \in Posts : call[p].phase \in Pending \cup {"acked"} =>
       call[p].epoch = 1 /\ \A i \in DOMAIN call[p].batch : call[p].batch[i] = i
  /\ \A r \in log : r.id \in Ids => r.seq = r.id
  /\ \A a \in Attempts : attempt[a].phase \notin {"taken", "answered", "flushing"}

FirstInv == (epoch = 1 => FirstNumbering) /\ FirstEpochLosesNothing

\* Before a takeover no chain is past its read of the cursor.
LEMMA FirstChains ==
  ASSUME ChainInv, FirstInv, [Next]_vars, epoch' = 1
  PROVE  /\ epoch = 1 /\ FirstNumbering
         /\ \A a \in Attempts : ~Rejoined(a) /\ ~ResumeTakes(a) /\ ~ResumeAnswers(a)
         /\ ~TakenElsewhere
         /\ \A a \in Attempts : attempt'[a].phase \notin {"taken", "answered", "flushing"}
PROOF
  <1>1. ASSUME NEW e, BeginAttempt(e) PROVE FALSE
    BY <1>1, TimelineAssumption DEF BeginAttempt, ChainInv
  <1>2. ~TakenElsewhere /\ \A a \in Attempts : ~ResumeTakes(a)
    BY <1>1 DEF TakenElsewhere, ResumeTakes
  <1>3. epoch = 1
    BY <1>2
    DEF Next, vars, server, CallReads, AgentSpeaks, AgentReads, CallInserts, CallCommits,
        CallDies, PostAnswered, PostFails, DroppedAgain, Leave, Dropped, Retry, RetryNow,
        ResumeReads, ResumeCursor, ResumeAnswers, ChainFails, ResumeRefused, Rejoined
  <1>4. FirstNumbering BY <1>3 DEF FirstInv
  <1>5. \A a \in Attempts : ~Rejoined(a) /\ ~ResumeAnswers(a)
    BY <1>4 DEF FirstNumbering, Rejoined, ResumeAnswers
  <1>6. ASSUME NEW a \in Attempts
        PROVE  attempt'[a].phase \notin {"taken", "answered", "flushing"}
    <2>1. attempt \in [Attempts -> Chains] /\ attempt[a].phase \notin {"taken", "answered", "flushing"}
      BY <1>4 DEF ChainInv, FirstNumbering
    <2>2. /\ Idle.phase = "idle" /\ Wait.phase = "waiting"
          /\ Retrying.phase \in {"idle", "waiting"}
          /\ [Idle EXCEPT !.phase = "asking"].phase = "asking"
          /\ [Idle EXCEPT !.phase = "read", !.seen = epoch].phase = "read"
      BY DEF Idle, Wait, Retrying
    <2>3. CASE PostAnswered \/ PostFails \/ Leave \/ \E b \in Attempts : RetryNow(b)
      <3>1. attempt'[a] \in {attempt[a], Idle, Retrying, [Idle EXCEPT !.phase = "asking"]}
        BY <2>3 DEF PostAnswered, PostFails, Leave, RetryNow
      <3> QED BY <2>1, <2>2, <3>1
    <2>4. ASSUME NEW b \in Attempts,
                 \/ Dropped(b) \/ Retry(b) \/ ChainFails(b) \/ ResumeRefused(b) \/ ResumeReads(b)
          PROVE  attempt'[a].phase \notin {"taken", "answered", "flushing"}
      <3>1. attempt'[a] \in {attempt[a], Idle, Retrying, [Idle EXCEPT !.phase = "asking"],
                             [Idle EXCEPT !.phase = "read", !.seen = epoch]}
        BY <2>1, <2>4 DEF Dropped, Retry, ChainFails, ResumeRefused, ResumeReads
      <3> QED BY <2>1, <2>2, <3>1
    <2>5. ASSUME NEW b \in Attempts, ResumeCursor(b)
          PROVE  attempt'[a].phase \notin {"taken", "answered", "flushing"}
      <3>1. attempt[b] \in Chains BY <2>1
      <3>2. attempt'[a] = attempt[a] \/ attempt'[a].phase = "cursor"
        BY <2>1, <2>5, <3>1 DEF ResumeCursor, Chains
      <3> QED BY <2>1, <3>2
    <2>6. CASE UNCHANGED attempt BY <2>1, <2>6
    <2> QED
      BY <1>2, <1>5, <2>3, <2>4, <2>5, <2>6
      DEF Next, vars, CallReads, AgentSpeaks, AgentReads, CallInserts, CallCommits, CallDies,
          DroppedAgain
  <1> QED BY <1>2, <1>3, <1>4, <1>5, <1>6

\* A step that changes one request's progress and not the log or the buffer.
LEMMA FirstQuiet ==
  ASSUME FirstNumbering, FirstEpochLosesNothing, epoch = 1,
         UNCHANGED <<epoch, log, buffer, refused>>,
         \A p \in Posts : call'[p].phase \in Pending \cup {"acked"} =>
           /\ call[p].phase \in Pending \cup {"acked"}
           /\ call'[p].epoch = call[p].epoch /\ call'[p].batch = call[p].batch,
         \A a \in Attempts : attempt'[a].phase \notin {"taken", "answered", "flushing"}
  PROVE  FirstInv'
PROOF
  <1>1. FirstNumbering' BY DEF FirstNumbering, buffer
  <1>2. FirstEpochLosesNothing' BY DEF FirstEpochLosesNothing, Held, buffer
  <1> QED BY <1>1, <1>2 DEF FirstInv

\* The server's steps before a commit.
LEMMA FirstServer ==
  ASSUME Inv, FirstNumbering, FirstEpochLosesNothing, epoch = 1,
         \A a \in Attempts : attempt'[a].phase \notin {"taken", "answered", "flushing"},
         \/ \E p \in Posts : CallReads(p)
         \/ \E a \in Agents : AgentSpeaks(a) \/ AgentReads(a)
         \/ \E c \in Calls : CallInserts(c) \/ CallDies(c)
  PROVE  FirstInv'
PROOF
  <1>0. UNCHANGED <<epoch, log, buffer, refused>>
    BY DEF CallReads, AgentSpeaks, AgentReads, CallInserts, CallDies, server
  <1>1. ASSUME NEW c \in Calls, NEW v, call' = [call EXCEPT ![c] = v],
               c \in Posts /\ v.phase \in Pending \cup {"acked"} =>
                 /\ call[c].phase \in Pending \cup {"acked"}
                 /\ v.epoch = call[c].epoch /\ v.batch = call[c].batch
        PROVE  FirstInv'
    <2>1. call'[c] = v /\ \A d \in Calls \ {c} : call'[d] = call[d]
      BY <1>1, OneCall DEF Inv, ServerInv
    <2>2. \A p \in Posts : call'[p].phase \in Pending \cup {"acked"} =>
            /\ call[p].phase \in Pending \cup {"acked"}
            /\ call'[p].epoch = call[p].epoch /\ call'[p].batch = call[p].batch
      BY <1>1, <2>1 DEF Calls
    <2> QED BY <1>0, <2>2, FirstQuiet
  <1>a. NoCall.phase \notin Pending \cup {"acked"} /\ Failed.phase \notin Pending \cup {"acked"}
    BY DEF NoCall, Failed, Call, Pending
  <1>2. ASSUME NEW p \in Posts, CallReads(p) PROVE FirstInv'
    <2> DEFINE v == IF call[p].epoch = epoch
                      THEN Call("read", epoch, call[p].batch, accepted, {}, {}, 0)
                      ELSE Answer(p, Failed)
    <2>1. v.phase \in Pending \cup {"acked"} =>
            /\ call[p].phase \in Pending \cup {"acked"}
            /\ v.epoch = call[p].epoch /\ v.batch = call[p].batch
      BY <1>2, <1>a DEF CallReads, Call, Answer, Pending
    <2>2. call' = [call EXCEPT ![p] = v] /\ p \in Calls BY <1>2 DEF CallReads, Calls
    <2> HIDE DEF v
    <2> QED BY <1>1, <2>1, <2>2
  <1>3. ASSUME NEW a \in Agents, AgentSpeaks(a) \/ AgentReads(a) PROVE FirstInv'
    <2>1. a \in Calls /\ a \notin Posts BY TimelineAssumption DEF Calls
    <2>2. \E v : call' = [call EXCEPT ![a] = v] BY <1>3 DEF AgentSpeaks, AgentReads
    <2> QED BY <1>1, <2>1, <2>2
  <1>4. ASSUME NEW c \in Calls, CallInserts(c) PROVE FirstInv'
    <2>1. \E rows, no, cursor :
            call' = [call EXCEPT ![c] = Call("inserted", call[c].epoch, call[c].batch,
                                             call[c].accepted, rows, no, cursor)]
      BY <1>4, ZenonT(30) DEF CallInserts
    <2>2. PICK rows, no, cursor :
            call' = [call EXCEPT ![c] = Call("inserted", call[c].epoch, call[c].batch,
                                             call[c].accepted, rows, no, cursor)]
      BY <2>1
    <2> DEFINE v == Call("inserted", call[c].epoch, call[c].batch,
                         call[c].accepted, rows, no, cursor)
    <2>3. v.epoch = call[c].epoch /\ v.batch = call[c].batch BY DEF Call
    <2>4. call[c].phase \in Pending \cup {"acked"} BY <1>4 DEF CallInserts, Pending
    <2>5. call' = [call EXCEPT ![c] = v] BY <2>2
    <2> HIDE DEF v
    <2> QED BY <1>1, <2>3, <2>4, <2>5
  <1>5. ASSUME NEW c \in Calls, CallDies(c) PROVE FirstInv'
    <2>1. Answer(c, Failed).phase \notin Pending \cup {"acked"} BY <1>a DEF Answer
    <2>2. call' = [call EXCEPT ![c] = Answer(c, Failed)] BY <1>5 DEF CallDies
    <2> QED BY <1>1, <2>1, <2>2
  <1> QED BY <1>2, <1>3, <1>4, <1>5

\* A commit stores events in their own slots.
LEMMA FirstCommit ==
  ASSUME Inv, OrderInv, FirstNumbering, FirstEpochLosesNothing, epoch = 1,
         \A a \in Attempts : attempt'[a].phase \notin {"taken", "answered", "flushing"},
         NEW c \in Calls, CallCommits(c)
  PROVE  FirstInv'
PROOF
  <1> DEFINE v == Answer(c, Call("acked", call[c].epoch, call[c].batch, 0, {},
                                 call[c].refused, call[c].cursor))
  <1>1. /\ call' = [call EXCEPT ![c] = v] /\ log' = log \cup call[c].rows
        /\ call[c].phase = "inserted" /\ UNCHANGED <<epoch, buffer, refused>>
    BY DEF CallCommits
  <1>2. \/ v.epoch = call[c].epoch /\ v.batch = call[c].batch
        \/ v.phase \notin Pending \cup {"acked"}
    BY DEF Answer, Call, NoCall, Pending
  <1> HIDE DEF v
  <1>3. call'[c] = v /\ \A d \in Calls \ {c} : call'[d] = call[d]
    BY <1>1, OneCall DEF Inv, ServerInv
  <1>4. \A p \in Posts : call'[p].phase \in Pending \cup {"acked"} =>
          call'[p].epoch = 1 /\ \A i \in DOMAIN call'[p].batch : call'[p].batch[i] = i
    BY <1>1, <1>2, <1>3 DEF FirstNumbering, Calls, Pending
  <1>5. \A r \in call[c].rows : r.id \in DOMAIN call[c].batch /\ r.seq = call[c].batch[r.id]
    BY <1>1 DEF Inv, ServerInv, Shape, Wanted
  <1>6. ASSUME NEW r \in call[c].rows, r.id \in Ids PROVE r.seq = r.id
    <2>1. c \in Posts BY <1>5, <1>6 DEF OrderInv, AgentsApart, Calls
    <2> QED BY <1>1, <1>5, <2>1 DEF FirstNumbering, Pending
  <1>7. FirstNumbering' BY <1>1, <1>4, <1>6 DEF FirstNumbering, buffer
  <1>8. FirstEpochLosesNothing' BY <1>1 DEF FirstEpochLosesNothing, Held, buffer
  <1> QED BY <1>7, <1>8 DEF FirstInv

\* What a post may send or free leaves every request on its own slots.
LEMMA FirstSends ==
  ASSUME FirstNumbering, NEW b, \A i \in DOMAIN b : b[i] = i,
         \A p \in Posts : call'[p] = call[p] \/ call'[p] = NoCall \/ call'[p] = Request(1, b)
  PROVE  \A p \in Posts : call'[p].phase \in Pending \cup {"acked"} =>
           call'[p].epoch = 1 /\ \A i \in DOMAIN call'[p].batch : call'[p].batch[i] = i
PROOF
  <1>1. NoCall.phase \notin Pending \cup {"acked"} BY DEF NoCall, Call, Pending
  <1> QED BY <1>1, CallFields DEF FirstNumbering

\* An answer takes from the buffer what it names, which is stored or refused,
\* and what is under its cursor, which is stored in its own slot.
LEMMA FirstAnswer ==
  ASSUME Inv, FirstNumbering, FirstEpochLosesNothing, epoch = 1, post \in Posts,
         \A a \in Attempts : attempt'[a].phase \notin {"taken", "answered", "flushing"},
         PostAnswered
  PROVE  FirstInv'
PROOF
  <1> DEFINE ack == call[post]
             gone == Settled(ack)
  <1>1. /\ UNCHANGED <<epoch, log, bEpoch, nextSeq, made>> /\ ack.phase = "acked"
        /\ unacked' = Without(unacked, gone) /\ refused' = refused \cup ack.refused
        /\ Finally({"acked"}, unacked')
    BY DEF PostAnswered, server
  <1>2. /\ Shape /\ Numbering(unacked) /\ bEpoch = 1 /\ post \in Calls
        /\ \A i \in DOMAIN unacked : i \in 1 .. made /\ unacked[i] = i
    BY DEF Inv, ServerInv, BufferInv, FirstNumbering, Calls
  <1>3. /\ ack.epoch = 1
        /\ 1 .. ack.cursor \subseteq Slots(log, 1)
        /\ \A i \in DOMAIN ack.batch \ ack.refused : Held(i)
    BY <1>1, <1>2 DEF FirstNumbering, Inv, ServerInv, Claims
  <1>4. DOMAIN unacked' = DOMAIN unacked \ gone /\ \A i \in DOMAIN unacked' : unacked'[i] = i
    BY <1>1, <1>2 DEF Without
  <1>5. ASSUME \A r \in log : r.id \in Ids,
               NEW i \in DOMAIN unacked, i \in gone
        PROVE  i \in refused' \/ Held(i)
    <2>1. CASE i \in DOMAIN ack.batch BY <1>1, <1>3, <2>1
    <2>2. CASE i \notin DOMAIN ack.batch
      <3>1. unacked[i] <= ack.cursor BY <1>5, <2>2 DEF Settled
      <3>2. i <= ack.cursor /\ i \in 1 .. made BY <1>2, <3>1
      <3>3. CASE ack.cursor \in Int
        <4>1. i \in Slots(log, 1)
          <5>1. i \in 1 .. ack.cursor BY <1>2, <3>2, <3>3 DEF Inv, BufferInv
          <5> QED BY <1>3, <5>1
        <4>2. PICK r \in log : r.seq = i BY <4>1 DEF Slots
        <4>3. r.id = i BY <1>5, <4>2 DEF FirstNumbering
        <4> QED BY <4>3 DEF Held
      <3>4. ack.cursor \in Int
        <4>1. \A d \in Calls : call[d].phase = "acked" => call[d].cursor \in Nat
          BY DEF Inv, ServerInv, Claims
        <4> QED BY <1>1, <1>2, <4>1
      <3> QED BY <3>3, <3>4
    <2> QED BY <2>1, <2>2
  <1>6. \A p \in Posts : call'[p].phase \in Pending \cup {"acked"} =>
          call'[p].epoch = 1 /\ \A i \in DOMAIN call'[p].batch : call'[p].batch[i] = i
    BY <1>1, <1>2, <1>4, FinallySends, FirstSends
  <1> HIDE DEF ack, gone
  <1>7. FirstNumbering' BY <1>1, <1>4, <1>6 DEF FirstNumbering
  <1>8. FirstEpochLosesNothing'
    BY <1>1, <1>4, <1>5 DEF FirstEpochLosesNothing, Held
  <1> QED BY <1>7, <1>8 DEF FirstInv

\* A post that fails leaves the buffer as it is.
LEMMA FirstFailure ==
  ASSUME Inv, FirstNumbering, FirstEpochLosesNothing, epoch = 1, post \in Posts,
         \A a \in Attempts : attempt'[a].phase \notin {"taken", "answered", "flushing"},
         PostFails
  PROVE  FirstInv'
PROOF
  <1>1. UNCHANGED <<epoch, log, buffer, refused>> /\ Finally({"acked", "failed"}, unacked)
    BY DEF PostFails, server
  <1>2. Shape /\ bEpoch = 1 /\ \A i \in DOMAIN unacked : unacked[i] = i
    BY DEF Inv, ServerInv, FirstNumbering
  <1>3. \A p \in Posts : call'[p].phase \in Pending \cup {"acked"} =>
          call'[p].epoch = 1 /\ \A i \in DOMAIN call'[p].batch : call'[p].batch[i] = i
    BY <1>1, <1>2, FinallySends, FirstSends
  <1>4. FirstNumbering' BY <1>1, <1>3 DEF FirstNumbering, buffer
  <1>5. FirstEpochLosesNothing' BY <1>1 DEF FirstEpochLosesNothing, Held, buffer
  <1> QED BY <1>4, <1>5 DEF FirstInv

\* An event recorded takes its own number for slot.
LEMMA FirstRecord ==
  ASSUME Inv, FirstNumbering, FirstEpochLosesNothing, epoch = 1,
         \A a \in Attempts : attempt'[a].phase \notin {"taken", "answered", "flushing"},
         RecordsOne, UNCHANGED refused, DOMAIN unacked \cup {made + 1} \subseteq DOMAIN unacked'
  PROVE  FirstInv'
PROOF
  <1>1. /\ Shape /\ bEpoch = 1 /\ made \in Nat /\ nextSeq = made + 1
        /\ \A i \in DOMAIN unacked : unacked[i] = i
    BY DEF Inv, ServerInv, BufferInv, FirstNumbering
  <1>2. /\ UNCHANGED <<epoch, log, bEpoch>> /\ nextSeq' = nextSeq + 1 /\ made' = made + 1
        /\ Flush(1, unacked') /\ \A i \in DOMAIN unacked' : unacked'[i] = i
    BY <1>1 DEF RecordsOne, server
  <1>3. \A p \in Posts : call'[p].phase \in Pending \cup {"acked"} =>
          call'[p].epoch = 1 /\ \A i \in DOMAIN call'[p].batch : call'[p].batch[i] = i
    BY <1>1, <1>2, FlushSends, FirstSends
  <1>4. FirstNumbering' BY <1>1, <1>2, <1>3 DEF FirstNumbering
  <1>5. FirstEpochLosesNothing'
    BY <1>1, <1>2 DEF FirstEpochLosesNothing, Held
  <1> QED BY <1>4, <1>5 DEF FirstInv

\* Nothing recorded is lost in the first epoch, whatever step is taken.
LEMMA FirstStep ==
  ASSUME Inv, InFlight, ChainInv, OrderInv, FirstInv, [Next]_vars
  PROVE  FirstInv'
PROOF
  <1>1. CASE epoch' # 1 BY <1>1 DEF FirstInv, FirstEpochLosesNothing
  <1>2. CASE epoch' = 1
    <2>1. /\ epoch = 1 /\ FirstNumbering
          /\ \A a \in Attempts : ~Rejoined(a) /\ ~ResumeTakes(a) /\ ~ResumeAnswers(a)
          /\ ~TakenElsewhere
          /\ \A a \in Attempts : attempt'[a].phase \notin {"taken", "answered", "flushing"}
      BY <1>2, FirstChains
    <2>2. FirstEpochLosesNothing BY DEF FirstInv
    <2>3. CASE \/ \E p \in Posts : CallReads(p)
               \/ \E a \in Agents : AgentSpeaks(a) \/ AgentReads(a)
               \/ \E c \in Calls : CallInserts(c) \/ CallDies(c)
      BY <2>1, <2>2, <2>3, FirstServer
    <2>4. ASSUME NEW c \in Calls, CallCommits(c) PROVE FirstInv'
      BY <2>1, <2>2, <2>4, FirstCommit
    <2>5. CASE PostAnswered \/ PostFails
      <3>1. post \in Posts BY <2>5 DEF InFlight, PostAnswered, PostFails
      <3> QED BY <2>1, <2>2, <2>5, <3>1, FirstAnswer, FirstFailure
    <2>6. CASE Leave \/ \E a \in Attempts : Dropped(a)
      <3>1. UNCHANGED <<server, bEpoch, renumbered, refused>> /\ made < MaxEvents
            /\ nextSeq' = nextSeq + 1 /\ made' = made + 1 /\ Flush(bEpoch, unacked')
        BY <2>6 DEF Leave, Dropped
      <3>2. /\ \A i \in DOMAIN unacked' : \/ i \in DOMAIN unacked /\ unacked'[i] = unacked[i]
                                          \/ i = made + 1 /\ unacked'[i] = nextSeq
            /\ DOMAIN unacked \cup {made + 1} \subseteq DOMAIN unacked'
        <4>1. unacked' = Recorded(unacked, nextSeq, 1) BY <2>6 DEF Leave, Dropped
        <4> QED BY <4>1 DEF Recorded, Inv, BufferInv
      <3>3. RecordsOne BY <3>1, <3>2 DEF RecordsOne
      <3> QED BY <2>1, <2>2, <3>1, <3>2, <3>3, FirstRecord
    <2>7. CASE UNCHANGED <<epoch, log, call, buffer, refused>>
      BY <2>1, <2>2, <2>7, FirstQuiet
    <2>8. CASE \/ DroppedAgain
               \/ \E a \in Attempts :
                    \/ Retry(a) \/ RetryNow(a) \/ ResumeReads(a) \/ ResumeCursor(a)
                    \/ ChainFails(a) \/ ResumeRefused(a)
      BY <2>7, <2>8
      DEF DroppedAgain, Retry, RetryNow, ResumeReads, ResumeCursor, ChainFails, ResumeRefused, server
    <2>9. CASE UNCHANGED vars BY <2>7, <2>9 DEF vars, server
    <2> QED BY <2>1, <2>3, <2>4, <2>5, <2>6, <2>8, <2>9 DEF Next
  <1> QED BY <1>1, <1>2

\* The joined session gives its one event its slot.
LEMMA InitOrder == ASSUME Init PROVE ChainInv /\ OrderInv /\ Epochs /\ FirstInv
PROOF
  <1>1. /\ epoch = 1 /\ log = {} /\ bEpoch = 1 /\ nextSeq = 2 /\ made = 1 /\ refused = {}
        /\ DOMAIN unacked = {1} /\ unacked[1] = 1
        /\ attempt = [a \in Attempts |-> Idle]
    BY DEF Init
  <1>2. ASSUME NEW c \in Calls
        PROVE  \/ c \in Posts /\ call[c].epoch = 1 /\ DOMAIN call[c].batch = {1}
                  /\ call[c].batch[1] = 1
               \/ call[c].phase = "idle" /\ DOMAIN call[c].batch = {}
    <2>1. Opening \in Posts BY TimelineAssumption DEF Opening
    <2>2. CASE c = Opening BY <2>1, <2>2 DEF Init, Request, Call
    <2>3. CASE c # Opening BY <2>3 DEF Init, NoCall, Call
    <2> QED BY <2>2, <2>3
  <1>3. ChainInv
    <2>1. Idle.seen = 0 /\ Idle.to = 0 BY DEF Idle
    <2> QED BY <1>1, <2>1, ChainsAtRest DEF ChainInv
  <1>4. AgentsApart BY <1>2, TimelineAssumption DEF AgentsApart, Calls
  <1>5. ASSUME NEW e \in Nat, NEW i \in Ids, NEW n \in Nat, Given(e, i, n)
        PROVE  e = 1 /\ i = 1 /\ n = 1
    BY <1>1, <1>2, <1>5 DEF Given, Pending, Calls
  <1>6. Ordered
    <2> SUFFICES ASSUME NEW e \in Nat, NEW m \in Nat, NEW n \in Nat,
                        NEW i \in Ids, NEW j \in Ids,
                        Given(e, i, m), Given(e, j, n), i < j
                 PROVE  FALSE
      BY DEF Ordered
    <2> QED BY <1>5
  <1>7. Ahead BY <1>1, <1>5 DEF Ahead
  <1>8. OrderInv BY <1>1, <1>4, <1>6, <1>7, TimelineAssumption DEF OrderInv
  <1>9. FirstNumbering
    <2>1. Idle.phase = "idle" BY DEF Idle
    <2> QED BY <1>1, <1>2, <2>1 DEF FirstNumbering, Pending, Calls
  <1>10. FirstEpochLosesNothing BY <1>1 DEF FirstEpochLosesNothing
  <1>11. Epochs
    <2>1. NoCall.epoch \in Nat /\ \A b : Request(1, b).epoch \in Nat
      BY CallFields DEF NoCall, Call
    <2> QED BY <2>1 DEF Epochs, Init
  <1> QED BY <1>3, <1>8, <1>9, <1>10, <1>11 DEF FirstInv

\* The strengthened invariant holds throughout.
LEMMA Invariants == Spec => [](Inv /\ InFlight)
BY InitInv, StepInv, FlightPreserved, PTL DEF Spec

\* And so does what it says of the order the slots were given in.
LEMMA OrderInvariants == Spec => [](ChainInv /\ OrderInv /\ Epochs /\ FirstInv)
PROOF
  <1>1. ASSUME Inv, InFlight, ChainInv, OrderInv, Epochs, FirstInv, [Next]_vars
        PROVE  ChainInv' /\ OrderInv' /\ Epochs' /\ FirstInv'
    <2>1. InFlight' BY <1>1, FlightPreserved
    <2>2. OrderInv' BY <1>1, OrderStep
    <2> QED BY <1>1, <2>1, <2>2, ChainStep, EpochStep, FirstStep
  <1> QED BY <1>1, InitOrder, Invariants, PTL DEF Spec

\* The persisted cursor never claims a slot its epoch does not hold: a cursor
\* computed inside the ingest transaction over the committed rows and its own
\* is still true when the transaction commits, and a takeover cannot be
\* overwritten by it (Events.ingest, PersistCursor).
THEOREM CursorIsHonest == Spec => []CursorHonest
PROOF
  <1>1. Inv => CursorHonest BY DEF Inv, ServerInv
  <1> QED BY <1>1, Invariants, PTL

\* An event lands in the log once, in one slot, and no slot twice, whatever
\* requests overlap and however often events are renumbered (Events.apply and
\* the unique constraints of control_events).
THEOREM EventsLandOnce == Spec => []LandsOnce
PROOF
  <1>1. Inv => LandsOnce BY DEF Inv, ServerInv
  <1> QED BY <1>1, Invariants, PTL

\* An acknowledgment is true when the browser reads it, however late
\* (Events.ingest answers after its commit).
THEOREM AcknowledgmentsAreHonest == Spec => []AckHonest
PROOF
  <1>1. Inv => AckHonest BY DEF Inv, ServerInv, Claims, AckHonest, Calls
  <1> QED BY <1>1, Invariants, PTL

\* Epochs are counted.
Counted == epoch \in Nat

\* Within an epoch the cursor only advances (PersistCursor's two guards).
THEOREM CursorOnlyAdvances == Spec => CursorMonotone
PROOF
  <1>0. Init => Counted BY DEF Init, Counted
  <1>1. ASSUME Counted, [Next]_vars PROVE Counted'
    <2>1. ASSUME NEW e, BeginAttempt(e) PROVE Counted'
      BY <2>1, TimelineAssumption DEF BeginAttempt, Counted
    <2>2. CASE UNCHANGED epoch BY <1>1, <2>2 DEF Counted
    <2> QED
      BY <1>1, <2>1, <2>2
      DEF Next, vars, server, CallReads, AgentSpeaks, AgentReads, CallInserts, CallCommits,
          CallDies, TakenElsewhere, PostAnswered, PostFails, DroppedAgain, Leave, Dropped,
          Retry, RetryNow, ResumeReads, ResumeCursor, ResumeTakes, ResumeAnswers,
          ChainFails, ResumeRefused, Rejoined
  <1>2. ASSUME Counted, Inv, [Next]_vars
        PROVE  epoch' > epoch \/ (epoch' = epoch /\ accepted' >= accepted)
    <2>1. accepted \in Nat /\ epoch \in Nat BY <1>2 DEF Inv, ServerInv, Shape, Counted
    <2>2. ASSUME NEW e, BeginAttempt(e)
          PROVE  epoch' > epoch \/ (epoch' = epoch /\ accepted' >= accepted)
      BY <2>1, <2>2, TimelineAssumption DEF BeginAttempt
    <2>3. CASE UNCHANGED server BY <1>2, <2>1, <2>3 DEF server
    <2>4. ASSUME NEW c \in Calls, CallCommits(c)
          PROVE  epoch' > epoch \/ (epoch' = epoch /\ accepted' >= accepted)
      <3>1. call[c].cursor \in Nat BY <1>2, <2>4 DEF Inv, ServerInv, Shape, CallCommits
      <3> QED BY <1>2, <2>1, <2>4, <3>1 DEF CallCommits, Persisted
    <2> QED
      BY <1>2, <2>2, <2>3, <2>4
      DEF Next, vars, CallReads, AgentSpeaks, AgentReads, CallInserts,
          CallDies, TakenElsewhere, PostAnswered, PostFails, DroppedAgain, Leave, Dropped,
          Retry, RetryNow, ResumeReads, ResumeCursor, ResumeTakes, ResumeAnswers,
          ChainFails, ResumeRefused, Rejoined
  <1> QED BY <1>0, <1>1, <1>2, Invariants, PTL DEF Spec, CursorMonotone

\* The browser's events of an epoch are stored in the order they were recorded,
\* however requests are lost, given up, repeated and overtaken, for any number
\* of recoveries at once, as long as every rejoin goes to a later epoch
\* (Timeline.record, Timeline.rebase and Events.apply).
THEOREM OrderIsKept == Spec => []OrderKept
PROOF
  <1>1. ASSUME Inv, OrderInv, Epochs, renumbered = "no",
               NEW r \in log, NEW q \in log, r.id \in Ids, q.id \in Ids,
               r.epoch = q.epoch, r.id < q.id
        PROVE  r.seq < q.seq
    <2>1. r.seq \in Nat /\ q.seq \in Nat BY <1>1 DEF Inv, ServerInv, Shape
    <2>2. r.epoch \in Nat BY <1>1 DEF Epochs
    <2>3. Given(r.epoch, r.id, r.seq) /\ Given(r.epoch, q.id, q.seq) BY <1>1 DEF Given
    <2> QED BY <1>1, <2>1, <2>2, <2>3 DEF OrderInv, Ordered
  <1>2. Inv /\ OrderInv /\ Epochs => OrderKept BY <1>1 DEF OrderKept
  <1> QED BY <1>2, Invariants, OrderInvariants, PTL

\* Until a takeover, or a row of the agent's, the resend buffer loses nothing:
\* an event leaves it only stored, or refused by name (Timeline.flush settles
\* by what the answer lists and by the cursor it carries).
THEOREM FirstEpochKeepsAll == Spec => []FirstEpochLosesNothing
PROOF
  <1>1. FirstInv => FirstEpochLosesNothing BY DEF FirstInv
  <1> QED BY <1>1, OrderInvariants, PTL

----------------------------------------------------------------------------
(* One recovery at a time takes the buffer to a later epoch each time.     *)

LaterEpoch ==
  /\ renumbered = "no" /\ bEpoch <= epoch
  /\ \A a \in Attempts :
       /\ attempt[a].phase \in {"read", "cursor"} => attempt[a].seen >= bEpoch
       /\ attempt[a].phase = "taken" => epoch > bEpoch
       /\ attempt[a].phase = "answered" => attempt[a].to > bEpoch

\* A lone chain reads the buffer's epoch or a later one, supersedes it, and is
\* answered with nothing earlier; only its own rejoin moves the buffer.
LEMMA LaterStep ==
  ASSUME \A a, b \in Attempts : a = b,
         ChainInv, ChainInv', OrderInv, LaterEpoch, [Next]_vars
  PROVE  LaterEpoch'
PROOF
  <1>0. /\ epoch \in Nat /\ epoch' \in Nat /\ bEpoch \in Nat
        /\ renumbered = "no" /\ bEpoch <= epoch
        /\ attempt \in [Attempts -> Chains]
    BY DEF ChainInv, OrderInv, LaterEpoch
  <1>a. \A a \in Attempts : attempt[a].seen \in Nat /\ attempt[a].to \in Nat
    BY <1>0 DEF Chains
  <1>1. ASSUME epoch' >= epoch, bEpoch' = bEpoch, renumbered' = renumbered,
               \A a \in Attempts :
                 \/ attempt'[a] = attempt[a]
                 \/ attempt'[a].phase \notin {"read", "cursor", "taken", "answered"}
        PROVE  LaterEpoch'
    BY <1>0, <1>1, <1>a DEF LaterEpoch
  <1>b. /\ Idle.phase = "idle" /\ Wait.phase = "waiting"
        /\ Retrying.phase \in {"idle", "waiting"}
        /\ [Idle EXCEPT !.phase = "asking"].phase = "asking"
    BY DEF Idle, Wait, Retrying
  <1>2. CASE UNCHANGED <<epoch, bEpoch, renumbered, attempt>> BY <1>0, <1>1, <1>2
  <1>3. CASE \/ \E p \in Posts : CallReads(p)
             \/ \E a \in Agents : AgentSpeaks(a) \/ AgentReads(a)
             \/ \E c \in Calls : CallInserts(c) \/ CallCommits(c) \/ CallDies(c)
             \/ DroppedAgain
    BY <1>2, <1>3
    DEF CallReads, AgentSpeaks, AgentReads, CallInserts, CallCommits, CallDies, DroppedAgain,
        server, buffer
  <1>4. CASE TakenElsewhere
    BY <1>0, <1>1, <1>4 DEF TakenElsewhere, BeginAttempt, buffer
  <1>5. CASE PostAnswered \/ PostFails \/ Leave
    <2>1. epoch' = epoch /\ bEpoch' = bEpoch /\ renumbered' = renumbered
      BY <1>5 DEF PostAnswered, PostFails, Leave, server, buffer
    <2>2. \A a \in Attempts : attempt'[a] \in {attempt[a], Idle, Retrying}
      BY <1>5 DEF PostAnswered, PostFails, Leave
    <2> QED BY <1>0, <1>1, <1>b, <2>1, <2>2
  <1>6. ASSUME NEW a \in Attempts,
               Dropped(a) \/ Retry(a) \/ RetryNow(a) \/ ChainFails(a) \/ ResumeRefused(a)
        PROVE  LaterEpoch'
    <2>1. epoch' = epoch /\ bEpoch' = bEpoch /\ renumbered' = renumbered
      BY <1>6 DEF Dropped, Retry, RetryNow, ChainFails, ResumeRefused, server, buffer
    <2>2. \A b \in Attempts :
            attempt'[b] \in {attempt[b], Idle, Retrying, [Idle EXCEPT !.phase = "asking"]}
      BY <1>0, <1>6 DEF Dropped, Retry, RetryNow, ChainFails, ResumeRefused
    <2>3. \A b \in Attempts :
            \/ attempt'[b] = attempt[b]
            \/ attempt'[b].phase \notin {"read", "cursor", "taken", "answered"}
      BY <1>b, <2>2
    <2>4. epoch' >= epoch BY <1>0, <2>1
    <2> QED BY <1>1, <2>1, <2>3, <2>4
  <1>7. ASSUME NEW a \in Attempts, ResumeReads(a) PROVE LaterEpoch'
    <2>1. epoch' = epoch /\ bEpoch' = bEpoch /\ renumbered' = renumbered
      BY <1>7 DEF ResumeReads, server, buffer
    <2>2. attempt'[a].phase = "read" /\ attempt'[a].seen = epoch
      BY <1>0, <1>7 DEF ResumeReads, Idle
    <2> QED BY <1>0, <2>1, <2>2 DEF LaterEpoch
  <1>8. ASSUME NEW a \in Attempts, ResumeCursor(a) PROVE LaterEpoch'
    <2>1. /\ epoch' = epoch /\ bEpoch' = bEpoch /\ renumbered' = renumbered
          /\ attempt[a].phase = "read"
      BY <1>8 DEF ResumeCursor, server, buffer
    <2>2. attempt'[a].phase = "cursor" /\ attempt'[a].seen = attempt[a].seen
      <3>1. attempt[a] \in Chains BY <1>0
      <3> QED BY <1>0, <1>8, <3>1 DEF ResumeCursor, Chains
    <2> QED BY <1>0, <2>1, <2>2 DEF LaterEpoch
  <1>9. ASSUME NEW a \in Attempts, ResumeTakes(a) PROVE LaterEpoch'
    <2>1. /\ epoch' = attempt[a].seen + 1 /\ bEpoch' = bEpoch /\ renumbered' = renumbered
          /\ attempt[a].phase = "cursor"
      BY <1>9 DEF ResumeTakes, BeginAttempt, buffer
    <2>2. attempt'[a].phase = "taken"
      <3>1. attempt[a] \in Chains BY <1>0
      <3> QED BY <1>0, <1>9, <3>1 DEF ResumeTakes, Chains
    <2>3. attempt[a].seen >= bEpoch BY <2>1 DEF LaterEpoch
    <2>4. epoch' > bEpoch' BY <1>0, <1>a, <2>1, <2>3
    <2> QED BY <1>0, <2>1, <2>2, <2>4 DEF LaterEpoch
  <1>10. ASSUME NEW a \in Attempts, ResumeAnswers(a) PROVE LaterEpoch'
    <2>1. /\ epoch' = epoch /\ bEpoch' = bEpoch /\ renumbered' = renumbered
          /\ attempt[a].phase = "taken"
      BY <1>10 DEF ResumeAnswers, server, buffer
    <2>2. attempt'[a].phase = "answered" /\ attempt'[a].to = epoch
      <3>1. attempt[a] \in Chains BY <1>0
      <3> QED BY <1>0, <1>10, <3>1 DEF ResumeAnswers, Chains
    <2> QED BY <1>0, <2>1, <2>2 DEF LaterEpoch
  <1>11. ASSUME NEW a \in Attempts, Rejoined(a) PROVE LaterEpoch'
    <2>1. /\ epoch' = epoch /\ bEpoch' = attempt[a].to /\ attempt[a].phase = "answered"
          /\ renumbered' = IF attempt[a].to > bEpoch THEN renumbered ELSE "yes"
      BY <1>11 DEF Rejoined, server
    <2>2. attempt[a].to > bEpoch /\ attempt[a].to <= epoch
      BY <2>1 DEF LaterEpoch, ChainInv
    <2>3. attempt'[a].phase = "flushing"
      <3>1. attempt[a] \in Chains BY <1>0
      <3>2. attempt'[a] = [attempt[a] EXCEPT !.phase = "flushing", !.on = post',
                                             !.est = made + 2]
        BY <1>0, <1>11 DEF Rejoined
      <3> QED BY <3>1, <3>2 DEF Chains
    <2> QED BY <1>0, <2>1, <2>2, <2>3 DEF LaterEpoch
  <1>12. CASE UNCHANGED vars BY <1>2, <1>12 DEF vars, server, buffer
  <1> QED
    BY <1>3, <1>4, <1>5, <1>6, <1>7, <1>8, <1>9, <1>10, <1>11, <1>12 DEF Next

\* Every two of the browser's events of an epoch are stored in their order.
AlwaysInOrder ==
  \A r, q \in {s \in log : s.id \in Ids} :
    r.epoch = q.epoch /\ r.id < q.id => r.seq < q.seq

\* With one recovery at a time, whatever other tabs take over, the buffer never
\* invents order: the condition of OrderKept needs overlapping recoveries, which
\* only retryNow under a running chain starts (Recovery.retryNow).
THEOREM OneRecoveryKeepsOrder ==
  ASSUME \A a, b \in Attempts : a = b
  PROVE  Spec => []AlwaysInOrder
PROOF
  <1>1. Init => LaterEpoch
    <2>1. Idle.phase = "idle" BY DEF Idle
    <2> QED BY <2>1 DEF Init, LaterEpoch
  <1>2. ASSUME ChainInv, ChainInv', OrderInv, LaterEpoch, [Next]_vars PROVE LaterEpoch'
    BY <1>2, LaterStep
  <1>3. Spec => []LaterEpoch BY <1>1, <1>2, OrderInvariants, PTL DEF Spec
  <1>4. LaterEpoch /\ OrderKept => AlwaysInOrder
    BY DEF LaterEpoch, OrderKept, AlwaysInOrder
  <1> QED BY <1>3, <1>4, OrderIsKept, PTL
=============================================================================
