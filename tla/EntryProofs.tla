---------------------------- MODULE EntryProofs -----------------------------
(***************************************************************************)
(* Proofs about the candidate's way in, for every set of requests: the     *)
(* single-use tokens (ActionTokens), the invitations and the sessions they *)
(* admit (Screening), and the documents (Documents).                       *)
(***************************************************************************)
EXTENDS ActionTokens, Screening, Documents, FiniteSetTheorems, WellFoundedInduction, TLAPS

-----------------------------------------------------------------------------
(* Single-use tokens.                                                      *)

IssueRows == [step : {"idle", "insert", "over", "failed"}, replaces : SUBSET Tokens,
              place : Nat, after : SUBSET Tokens]

\* The columns' types, without the bounds the finite instances give counters.
TokensShape ==
  /\ token \in [Tokens -> [state : {"absent", "live", "used", "superseded"},
                           expired : BOOLEAN, attempts : Nat]]
  /\ issue \in [Tokens -> IssueRows]
  /\ presentation \in [Presentations ->
       [step : {"idle", "guess", "kill", "consume", "won", "over"}, of : SUBSET Tokens]]
  /\ mailed \subseteq Tokens /\ granted \subseteq Presentations
  /\ effects \in [Tokens -> Nat]

\* A row is there once its request committed, and unguessed until then.
StoredOnCommit ==
  \A t \in Tokens : /\ token[t].state = "absent" <=> issue[t].step # "over"
                    /\ token[t].state = "absent" => token[t].attempts = 0
                    /\ t \in mailed => issue[t].step = "over"

\* The rows an open request supersedes are locked by it alone, so they stay live.
LockedStayLive ==
  \A t \in Tokens : issue[t].step = "insert" =>
    /\ \A o \in issue[t].replaces : token[o].state = "live"
    /\ \A u \in Tokens : issue[u].step = "insert" /\ u # t =>
         issue[u].replaces \cap issue[t].replaces = {}

\* A presentation that began is about one committed token.
OfOneToken ==
  \A v \in Presentations :
    /\ presentation[v].step = "idle" => v \notin granted
    /\ presentation[v].step # "idle" =>
         \E t \in Committed : presentation[v].of = {t}

\* The presentation that won a token's mark.
Winner(v) == presentation[v].step = "won" \/ v \in granted

\* Only a presentation of a mailed token wins, and only one of each token.
OneWinner ==
  \A v \in Presentations :
    /\ presentation[v].step = "consume" => presentation[v].of \subseteq mailed
    /\ Winner(v) => \A t \in presentation[v].of :
         /\ t \in mailed /\ token[t].state = "used"
         /\ \A w \in Presentations : Winner(w) /\ t \in presentation[w].of => w = v

EffectIsUse ==
  \A t \in Tokens : effects[t] = IF token[t].state = "used" THEN 1 ELSE 0

\* What an open request saw committed and has not locked was settled by then.
SeenOrReplaced ==
  \A t \in Tokens :
    /\ \A o \in issue[t].after : issue[o].step = "over" /\ Purpose(o) = Purpose(t)
    /\ issue[t].step = "idle" => issue[t].after = {}
    /\ issue[t].step = "insert" =>
         \A o \in issue[t].after : token[o].state = "live" => o \in issue[t].replaces

TokensInv ==
  /\ TokensShape /\ StoredOnCommit /\ LockedStayLive /\ OfOneToken /\ OneWinner
  /\ EffectIsUse /\ SeenOrReplaced /\ WorkingTokens

\* Both sets of tokens and the purposes are what their names say.
LEMMA PurposesDiffer ==
  /\ LinkTokens \subseteq Tokens /\ CodeTokens \subseteq Tokens
  /\ \A t \in Tokens : t \in Purpose(t) /\ Purpose(t) \subseteq Tokens
  /\ \A t \in Tokens : \A o \in Purpose(t) : o \in Tokens /\ Purpose(o) = Purpose(t)
BY TokensAssumption DEF Tokens, Purpose

\* The place of a request among the commits is a number.
LEMMA CommittedCount == Cardinality(Committed) \in Nat
<1>1. Committed \subseteq Tokens /\ IsFiniteSet(Tokens)
  BY TokensAssumption DEF Committed, Tokens
<1> QED BY <1>1, FS_Subset, FS_CardinalityType

\* Before anything is issued the invariant holds.
LEMMA TokensInvInit == TokensInit => TokensInv
<1> SUFFICES ASSUME TokensInit PROVE TokensInv
  OBVIOUS
<1>1. TokensShape
  BY DEF TokensInit, TokensShape, IssueRows
<1>2. StoredOnCommit /\ LockedStayLive /\ EffectIsUse /\ SeenOrReplaced
  BY DEF TokensInit, StoredOnCommit, LockedStayLive, EffectIsUse, SeenOrReplaced
<1>3. OfOneToken /\ OneWinner
  BY DEF TokensInit, OfOneToken, OneWinner, Winner
<1>4. WorkingTokens
  BY PurposesDiffer DEF TokensInit, WorkingTokens, Unsettled
<1> QED BY <1>1, <1>2, <1>3, <1>4 DEF TokensInv

\* A request begins: it locks the live rows of its purpose.
LEMMA SupersedeKeepsInv ==
  ASSUME TokensInv, NEW t \in Tokens, SupersedeActionTokens(t)
  PROVE  TokensInv'
<1> USE PurposesDiffer DEF TokensInv
<1> DEFINE row0 == [issue[t] EXCEPT !.step = "insert", !.replaces = LiveOfPurpose(t),
                                      !.after = Committed \cap Purpose(t)]
<1>1. issue' = [issue EXCEPT ![t] = row0] /\ issue[t].step = "idle" /\ issue[t] \in IssueRows
  BY DEF SupersedeActionTokens, TokensShape
<1>2. UNCHANGED <<token, mailed, presentation, effects, granted>>
  BY DEF SupersedeActionTokens
<1>3. LiveOfPurpose(t) \subseteq Tokens /\ \A o \in LiveOfPurpose(t) : token[o].state = "live"
  BY DEF LiveOfPurpose, Unsettled
<1>4. \A u \in Tokens : issue[u].step = "insert" => issue[u].replaces \cap LiveOfPurpose(t) = {}
  BY <1>3 DEF SupersedeActionTokens, RowLocked
<1>5. Committed \subseteq Tokens /\ Committed' = Committed
  BY <1>1 DEF Committed, TokensShape
<1>6. \A u \in Tokens : u # t => issue'[u] = issue[u]
  BY <1>1 DEF TokensShape
<1>7. issue'[t] = row0
  BY <1>1 DEF TokensShape
<1> HIDE DEF row0
<1>8. /\ row0.step = "insert" /\ row0.replaces = LiveOfPurpose(t)
      /\ row0.place = issue[t].place /\ row0.after = Committed \cap Purpose(t)
  BY <1>1 DEF row0, IssueRows
<1>9. TokensShape'
  <2>1. row0 \in IssueRows
    BY <1>1, <1>3, <1>5 DEF row0, IssueRows
  <2> QED BY <1>1, <1>2, <2>1 DEF TokensShape
<1>10. StoredOnCommit'
  BY <1>1, <1>2, <1>6, <1>7, <1>8 DEF StoredOnCommit
<1>11. LockedStayLive'
  BY <1>2, <1>3, <1>4, <1>6, <1>7, <1>8 DEF LockedStayLive
<1>12. OfOneToken' /\ OneWinner' /\ EffectIsUse'
  BY <1>2, <1>5 DEF OfOneToken, OneWinner, Winner, EffectIsUse
<1>13. SeenOrReplaced'
  <2>1. \A o \in Committed : o \in Tokens /\ issue'[o].step = "over"
    BY <1>5 DEF Committed
  <2>2. \A u \in Tokens : issue[u].after \subseteq Committed
    BY DEF SeenOrReplaced, Committed, TokensShape, IssueRows
  <2>3. \A o \in Committed \cap Purpose(t) : token[o].state = "live" => o \in LiveOfPurpose(t)
    BY DEF LiveOfPurpose, Unsettled
  <2> QED BY <1>2, <1>6, <1>7, <1>8, <2>1, <2>2, <2>3 DEF SeenOrReplaced
<1>14. WorkingTokens'
  <2>1. token[t].state # "live"
    BY <1>1 DEF StoredOnCommit
  <2> QED BY <1>2, <1>6, <2>1 DEF WorkingTokens, Unsettled
<1> QED BY <1>9, <1>10, <1>11, <1>12, <1>13, <1>14

\* A request commits: its own row is live, the rows it locked are superseded.
LEMMA InsertKeepsInv ==
  ASSUME TokensInv, NEW t \in Tokens, InsertActionToken(t)
  PROVE  TokensInv'
<1> USE PurposesDiffer DEF TokensInv
<1>1. TokensShape'
  <2> DEFINE place0 == Cardinality(Committed) + 1
  <2>1. place0 \in Nat
    BY CommittedCount
  <2>2. issue' = [issue EXCEPT ![t] = [issue[t] EXCEPT !.step = "over", !.place = place0]]
    BY DEF InsertActionToken, TokensShape
  <2> HIDE DEF place0
  <2>3. issue' \in [Tokens -> IssueRows]
    <3>1. issue[t] \in IssueRows
      BY DEF TokensShape
    <3>2. [issue[t] EXCEPT !.step = "over", !.place = place0] \in IssueRows
      BY <2>1, <3>1 DEF IssueRows
    <3> QED BY <2>2, <3>2 DEF TokensShape
  <2>4. token' \in [Tokens -> [state : {"absent", "live", "used", "superseded"},
                           expired : BOOLEAN, attempts : Nat]]
    BY DEF InsertActionToken, TokensShape
  <2> QED BY <2>3, <2>4 DEF InsertActionToken, TokensShape
<1>2. StoredOnCommit'
  BY DEF InsertActionToken, StoredOnCommit, TokensShape, LockedStayLive
<1>3. LockedStayLive'
  BY DEF InsertActionToken, LockedStayLive, TokensShape, IssueRows, StoredOnCommit
<1>4. OfOneToken' /\ OneWinner'
  BY DEF InsertActionToken, Committed, OfOneToken, OneWinner, Winner, TokensShape,
         StoredOnCommit, LockedStayLive
<1>5. EffectIsUse'
  BY DEF InsertActionToken, EffectIsUse, TokensShape, StoredOnCommit, LockedStayLive
<1>6. SeenOrReplaced'
  BY DEF InsertActionToken, SeenOrReplaced, TokensShape, IssueRows, StoredOnCommit
<1>7. WorkingTokens'
  BY TokensAssumption
  DEF InsertActionToken, Unsettled, WorkingTokens, TokensShape, OfOneToken, StoredOnCommit,
      LockedStayLive, SeenOrReplaced
<1> QED BY <1>1, <1>2, <1>3, <1>4, <1>5, <1>6, <1>7

\* A request fails, an email arrives, a token expires: no state of a row moves.
LEMMA OutsideKeepsInv ==
  ASSUME TokensInv, NEW t \in Tokens, IssueFails(t) \/ EmailArrives(t) \/ TokenExpires(t)
  PROVE  TokensInv'
<1> USE DEF TokensInv
<1>1. CASE IssueFails(t)
  <2>1. issue' = [issue EXCEPT ![t] = [issue[t] EXCEPT !.step = "failed"]]
        /\ issue[t].step = "insert" /\ UNCHANGED <<token, mailed, presentation, effects, granted>>
    BY <1>1 DEF IssueFails, TokensShape
  <2>2. TokensShape'
    <3>1. issue[t] \in IssueRows
      BY DEF TokensShape
    <3>2. [issue[t] EXCEPT !.step = "failed"] \in IssueRows
      BY <3>1 DEF IssueRows
    <3> QED BY <2>1, <3>2 DEF TokensShape
  <2>3. StoredOnCommit' /\ LockedStayLive' /\ SeenOrReplaced'
    BY <2>1 DEF StoredOnCommit, LockedStayLive, SeenOrReplaced, TokensShape
  <2>4. OfOneToken' /\ OneWinner' /\ EffectIsUse'
    BY <2>1 DEF OfOneToken, OneWinner, Winner, EffectIsUse, Committed, TokensShape
  <2>5. WorkingTokens'
    BY <2>1 DEF WorkingTokens, Unsettled, TokensShape
  <2> QED BY <2>2, <2>3, <2>4, <2>5
<1>2. CASE EmailArrives(t)
  BY <1>2 DEF EmailArrives, TokensShape, StoredOnCommit, LockedStayLive, OfOneToken, Committed,
    OneWinner, Winner, EffectIsUse, SeenOrReplaced, WorkingTokens, Unsettled
<1>3. CASE TokenExpires(t)
  <2>1. token' = [token EXCEPT ![t] = [token[t] EXCEPT !.expired = TRUE]]
        /\ UNCHANGED <<issue, mailed, presentation, effects, granted>>
    BY <1>3 DEF TokenExpires, TokensShape
  <2>2. \A o \in Tokens : token'[o].state = token[o].state /\ token'[o].attempts = token[o].attempts
    BY <2>1 DEF TokensShape
  <2>3. TokensShape'
    BY <2>1 DEF TokensShape
  <2>4. StoredOnCommit' /\ LockedStayLive' /\ SeenOrReplaced'
    BY <2>1, <2>2 DEF StoredOnCommit, LockedStayLive, SeenOrReplaced, TokensShape
  <2>5. OfOneToken' /\ OneWinner' /\ EffectIsUse'
    BY <2>1, <2>2 DEF OfOneToken, OneWinner, Winner, EffectIsUse, Committed, TokensShape
  <2>6. WorkingTokens'
    BY <2>1, <2>2, PurposesDiffer DEF WorkingTokens, Unsettled
  <2> QED BY <2>3, <2>4, <2>5, <2>6
<1> QED BY <1>1, <1>2, <1>3

\* A presentation that only moves to "over", "guess" or, of a mailed token,
\* "consume".
LEMMA PresentingKeepsInv ==
  ASSUME TokensInv, NEW v \in Presentations, NEW t \in Committed,
         NEW step \in {"over", "guess", "consume"}, step = "consume" => t \in mailed,
         presentation[v].step = "idle",
         presentation' = [presentation EXCEPT ![v] = [step |-> step, of |-> {t}]],
         UNCHANGED <<token, issue, mailed, effects, granted>>
  PROVE  TokensInv'
<1> USE DEF TokensInv
<1>1. t \in Tokens /\ Committed' = Committed
  BY DEF Committed
<1>2. presentation'[v] = [step |-> step, of |-> {t}]
      /\ \A w \in Presentations : w # v => presentation'[w] = presentation[w]
  BY DEF TokensShape
<1>3. TokensShape'
  BY <1>1 DEF TokensShape
<1>4. StoredOnCommit' /\ LockedStayLive' /\ SeenOrReplaced' /\ EffectIsUse'
  BY DEF StoredOnCommit, LockedStayLive, SeenOrReplaced, EffectIsUse
<1>5. OfOneToken'
  BY <1>1, <1>2 DEF OfOneToken
<1>6. OneWinner'
  BY <1>2 DEF OneWinner, Winner, OfOneToken
<1>7. WorkingTokens'
  BY <1>2 DEF WorkingTokens, Unsettled
<1> QED BY <1>3, <1>4, <1>5, <1>6, <1>7

\* A token is presented by its link, or its code is typed: the
\* presentation has looked, and nothing is consumed.
LEMMA BeginsKeepsInv ==
  ASSUME TokensInv, NEW v \in Presentations,
         TypeCode(v) \/ \E t \in LinkTokens : PresentLink(v, t)
  PROVE  TokensInv'
<1>1. ASSUME NEW t \in LinkTokens, PresentLink(v, t) PROVE TokensInv'
  <2> DEFINE step == IF Unsettled(t) /\ ~token[t].expired THEN "consume" ELSE "over"
  <2>1. t \in Committed
    BY <1>1, PurposesDiffer DEF PresentLink, Committed, TokensInv, StoredOnCommit
  <2>2. /\ step \in {"over", "guess", "consume"} /\ t \in mailed
        /\ presentation[v].step = "idle"
        /\ presentation' = [presentation EXCEPT ![v] = [step |-> step, of |-> {t}]]
        /\ UNCHANGED <<token, issue, mailed, effects, granted>>
    BY <1>1 DEF PresentLink
  <2> QED BY <2>1, <2>2, PresentingKeepsInv
<1>2. ASSUME TypeCode(v) PROVE TokensInv'
  <2>1. PICK t \in NewestCode :
          \E step \in (IF token[t].expired THEN {"over"}
                       ELSE {"guess"} \cup {s \in {"consume"} : t \in mailed}) :
            presentation' = [presentation EXCEPT ![v] = [step |-> step, of |-> {t}]]
    BY <1>2 DEF TypeCode
  <2>2. t \in Committed
    BY PurposesDiffer DEF NewestCode, Unsettled, Committed, TokensInv, StoredOnCommit
  <2> QED BY <1>2, <2>1, <2>2, PresentingKeepsInv DEF TypeCode
<1> QED BY <1>1, <1>2

\* A wrong code is counted, and the one that reaches the cap goes on to kill.
LEMMA AttemptKeepsInv ==
  ASSUME TokensInv, NEW v \in Presentations, RecordTokenAttempt(v)
  PROVE  TokensInv'
<1> USE DEF TokensInv
<1>1. PICK t \in Committed : presentation[v].of = {t}
  BY DEF RecordTokenAttempt, OfOneToken
<1> DEFINE next == IF CapReached(token[t].attempts + 1) THEN "kill" ELSE "over"
<1>2. t \in Tokens /\ token[t].state # "absent"
  BY DEF Committed, StoredOnCommit
<1>3. /\ presentation[v].step = "guess"
      /\ token' = [token EXCEPT ![t] = [token[t] EXCEPT !.attempts = @ + 1]]
      /\ presentation' = [presentation EXCEPT ![v] = [presentation[v] EXCEPT !.step = next]]
      /\ UNCHANGED <<issue, mailed, effects, granted>>
  BY <1>1, <1>2 DEF RecordTokenAttempt, TokensShape
<1>4. /\ presentation'[v].step = next /\ presentation'[v].of = {t}
      /\ \A w \in Presentations : w # v => presentation'[w] = presentation[w]
  BY <1>1, <1>3 DEF TokensShape
<1>5. /\ token'[t].attempts = token[t].attempts + 1
      /\ \A o \in Tokens : token'[o].state = token[o].state
      /\ \A o \in Tokens : o # t => token'[o] = token[o]
  BY <1>2, <1>3 DEF TokensShape
<1>6. TokensShape'
  <2>1. token' \in [Tokens -> [state : {"absent", "live", "used", "superseded"},
                               expired : BOOLEAN, attempts : Nat]]
    BY <1>2, <1>3 DEF TokensShape
  <2>2. presentation' \in [Presentations ->
          [step : {"idle", "guess", "kill", "consume", "won", "over"}, of : SUBSET Tokens]]
    BY <1>3 DEF TokensShape
  <2> QED BY <1>3, <2>1, <2>2 DEF TokensShape
<1>7. StoredOnCommit' /\ LockedStayLive' /\ SeenOrReplaced' /\ EffectIsUse'
  BY <1>2, <1>3, <1>5
  DEF StoredOnCommit, LockedStayLive, SeenOrReplaced, EffectIsUse, TokensShape, IssueRows
<1>8. OfOneToken'
  <2>1. Committed' = Committed
    BY <1>3 DEF Committed
  <2> QED BY <1>1, <1>3, <1>4, <2>1 DEF OfOneToken
<1>9. OneWinner'
  <2>1. \A w \in Presentations : presentation'[w].of = presentation[w].of
    BY <1>1, <1>4
  <2>2. presentation'[v].step \notin {"idle", "consume", "won"}
    BY <1>4
  <2>3. \A w \in Presentations : Winner(w)' => Winner(w)
    BY <1>3, <1>4, <2>2 DEF Winner
  <2> QED BY <1>1, <1>2, <1>3, <1>4, <1>5, <2>1, <2>2, <2>3 DEF OneWinner, TokensShape
<1>10. WorkingTokens'
  <2>1. \A w \in Presentations : presentation[w].step = "kill" =>
          presentation'[w] = presentation[w]
    BY <1>3, <1>4
  <2>2. token'[t].attempts >= MaxWrong => presentation'[v].step = "kill"
    BY <1>4, <1>5 DEF CapReached
  <2> QED BY <1>3, <1>4, <1>5, <2>1, <2>2, PurposesDiffer DEF WorkingTokens, Unsettled
<1> QED BY <1>6, <1>7, <1>8, <1>9, <1>10

\* A presentation marks the token used, or finds that it no longer may.
LEMMA ConsumeKeepsInv ==
  ASSUME TokensInv, NEW v \in Presentations, ConsumeToken(v)
  PROVE  TokensInv'
<1> USE DEF TokensInv
<1>1. PICK t \in Committed : presentation[v].of = {t}
  BY DEF ConsumeToken, OfOneToken
<1>2. t \in Tokens /\ ~RowLocked(t) /\ presentation[v].step \in {"consume", "kill"}
  BY <1>1 DEF Committed, ConsumeToken
<1>3. Committed' = Committed /\ UNCHANGED <<issue, mailed, granted>>
  BY DEF ConsumeToken, Committed
<1>4. CASE token[t].state = "live"
  <2> DEFINE next == IF presentation[v].step = "consume" THEN "won" ELSE "over"
  <2>1. /\ token' = [token EXCEPT ![t] = [token[t] EXCEPT !.state = "used"]]
        /\ effects' = [effects EXCEPT ![t] = @ + 1]
        /\ presentation' = [presentation EXCEPT ![v] = [presentation[v] EXCEPT !.step = next]]
    BY <1>1, <1>2, <1>4 DEF ConsumeToken, Usable, Unsettled, TokensShape
  <2>2. /\ presentation'[v].step = next /\ presentation'[v].of = {t}
        /\ \A w \in Presentations : w # v => presentation'[w] = presentation[w]
    BY <1>1, <2>1 DEF TokensShape
  <2>3. /\ token'[t].state = "used" /\ effects'[t] = effects[t] + 1
        /\ \A o \in Tokens : token'[o].attempts = token[o].attempts
        /\ \A o \in Tokens : o # t => token'[o] = token[o] /\ effects'[o] = effects[o]
    BY <1>2, <2>1 DEF TokensShape
  <2>4. TokensShape'
    <3>1. token' \in [Tokens -> [state : {"absent", "live", "used", "superseded"},
                                 expired : BOOLEAN, attempts : Nat]]
      BY <1>2, <2>1 DEF TokensShape
    <3>2. presentation' \in [Presentations ->
            [step : {"idle", "guess", "kill", "consume", "won", "over"}, of : SUBSET Tokens]]
      BY <2>1 DEF TokensShape
    <3>3. effects' \in [Tokens -> Nat]
      BY <1>2, <2>1 DEF TokensShape
    <3> QED BY <1>3, <3>1, <3>2, <3>3 DEF TokensShape
  <2>5. StoredOnCommit' /\ SeenOrReplaced' /\ EffectIsUse'
    <3>1. StoredOnCommit'
      BY <1>2, <1>3, <1>4, <2>3 DEF StoredOnCommit
    <3>2. SeenOrReplaced'
      BY <1>2, <1>3, <1>4, <2>3 DEF SeenOrReplaced, TokensShape, IssueRows
    <3>3. EffectIsUse'
      BY <1>2, <1>4, <2>3 DEF EffectIsUse, TokensShape
    <3> QED BY <3>1, <3>2, <3>3
  <2>6. LockedStayLive'
    BY <1>2, <1>3, <2>3 DEF LockedStayLive, RowLocked, TokensShape, IssueRows
  <2>7. OfOneToken'
    BY <1>1, <1>2, <1>3, <2>2 DEF OfOneToken
  <2>8. OneWinner'
    <3>1. \A w \in Presentations : w # v => (Winner(w)' <=> Winner(w))
      BY <1>3, <2>2 DEF Winner
    <3>2. \A w \in Presentations : Winner(w) => t \notin presentation[w].of
      BY <1>4 DEF OneWinner
    <3>3. presentation[v].step # "consume" => ~Winner(v)'
      BY <1>1, <1>2, <1>3, <2>2, <3>2 DEF Winner
    <3>4. \A w \in Presentations : presentation'[w].of = presentation[w].of
      BY <1>1, <2>2
    <3>5. ASSUME NEW w \in Presentations
          PROVE  /\ presentation'[w].step = "consume" => presentation'[w].of \subseteq mailed'
                 /\ Winner(w)' => \A o \in presentation'[w].of :
                      /\ o \in mailed' /\ token'[o].state = "used"
                      /\ \A u \in Presentations :
                           Winner(u)' /\ o \in presentation'[u].of => u = w
      <4>1. CASE w = v
        BY <1>1, <1>2, <1>3, <2>2, <2>3, <3>1, <3>2, <3>3, <3>4, <4>1 DEF OneWinner
      <4>2. CASE w # v
        <5>1. presentation'[w] = presentation[w] /\ (Winner(w)' <=> Winner(w))
          BY <2>2, <3>1, <4>2
        <5>2. Winner(w) => t \notin presentation[w].of
          BY <3>2
        <5>3. \A o \in presentation[w].of : o \in Tokens
          BY DEF TokensShape
        <5> QED BY <1>1, <1>3, <2>3, <3>1, <3>4, <5>1, <5>2, <5>3 DEF OneWinner
      <4> QED BY <4>1, <4>2
    <3> QED BY <3>5 DEF OneWinner
  <2>9. WorkingTokens'
    <3>1. \A o \in Tokens : token'[o].state = "live" => o # t /\ token[o].state = "live"
      BY <2>3
    <3>2. \A w \in Presentations : \A o \in Tokens :
            presentation[w].step = "kill" /\ o \in presentation[w].of /\ o # t =>
              presentation'[w].step = "kill" /\ o \in presentation'[w].of
      BY <1>1, <2>2
    <3> QED BY <1>3, <2>3, <3>1, <3>2, PurposesDiffer DEF WorkingTokens, Unsettled
  <2> QED BY <2>4, <2>5, <2>6, <2>7, <2>8, <2>9
<1>5. CASE token[t].state # "live"
  <2>1. /\ presentation' = [presentation EXCEPT ![v] = [presentation[v] EXCEPT !.step = "over"]]
        /\ UNCHANGED <<token, effects>>
    BY <1>1, <1>5 DEF ConsumeToken, Usable, Unsettled, TokensShape
  <2>2. /\ presentation'[v].step = "over" /\ presentation'[v].of = {t}
        /\ \A w \in Presentations : w # v => presentation'[w] = presentation[w]
    BY <1>1, <2>1 DEF TokensShape
  <2>3. TokensShape'
    BY <1>3, <2>1 DEF TokensShape
  <2>4. StoredOnCommit' /\ SeenOrReplaced' /\ EffectIsUse' /\ LockedStayLive'
    BY <1>3, <2>1 DEF StoredOnCommit, SeenOrReplaced, EffectIsUse, LockedStayLive
  <2>5. OfOneToken'
    BY <1>1, <1>2, <1>3, <2>2 DEF OfOneToken
  <2>6. OneWinner'
    <3>1. \A w \in Presentations : presentation'[w].of = presentation[w].of
      BY <1>1, <2>2
    <3>2. \A w \in Presentations : Winner(w)' => Winner(w)
      BY <1>3, <2>2 DEF Winner
    <3> QED BY <1>3, <2>1, <2>2, <3>1, <3>2 DEF OneWinner
  <2>7. WorkingTokens'
    BY <1>1, <1>3, <1>5, <2>1, <2>2, PurposesDiffer DEF WorkingTokens, Unsettled
  <2> QED BY <2>3, <2>4, <2>5, <2>6, <2>7
<1> QED BY <1>4, <1>5

\* The winner is issued its session, or is not.
LEMMA SessionKeepsInv ==
  ASSUME TokensInv, NEW v \in Presentations, IssueSession(v)
  PROVE  TokensInv'
<1> USE DEF TokensInv
<1>1. /\ presentation[v].step = "won" /\ granted' \subseteq granted \cup {v}
      /\ presentation' = [presentation EXCEPT ![v] = [presentation[v] EXCEPT !.step = "over"]]
      /\ UNCHANGED <<token, issue, mailed, effects>>
  BY DEF IssueSession, TokensShape
<1>2. /\ presentation'[v].step = "over" /\ presentation'[v].of = presentation[v].of
      /\ \A w \in Presentations : w # v => presentation'[w] = presentation[w]
  BY <1>1 DEF TokensShape
<1>3. TokensShape'
  BY <1>1 DEF TokensShape
<1>4. StoredOnCommit' /\ SeenOrReplaced' /\ EffectIsUse' /\ LockedStayLive'
  BY <1>1 DEF StoredOnCommit, SeenOrReplaced, EffectIsUse, LockedStayLive
<1>5. OfOneToken'
  <2>1. Committed' = Committed
    BY <1>1 DEF Committed
  <2> QED BY <1>1, <1>2, <2>1 DEF OfOneToken
<1>6. OneWinner'
  <2>1. \A w \in Presentations : presentation'[w].of = presentation[w].of
    BY <1>2
  <2>2. \A w \in Presentations : Winner(w)' => Winner(w)
    BY <1>1, <1>2 DEF Winner
  <2> QED BY <1>1, <1>2, <2>1, <2>2 DEF OneWinner
<1>7. WorkingTokens'
  BY <1>1, <1>2 DEF WorkingTokens, Unsettled
<1> QED BY <1>3, <1>4, <1>5, <1>6, <1>7

\* The strengthening holds along every behaviour of the tokens.
THEOREM TokensInvariant == TokensSpec => []TokensInv
<1>1. TokensInv /\ [TokensNext]_tokenVars => TokensInv'
  <2> SUFFICES ASSUME TokensInv, [TokensNext]_tokenVars PROVE TokensInv'
    OBVIOUS
  <2>1. CASE UNCHANGED tokenVars
    BY <2>1 DEF tokenVars, TokensInv, TokensShape, StoredOnCommit, LockedStayLive, OfOneToken,
      Committed, OneWinner, Winner, EffectIsUse, SeenOrReplaced, WorkingTokens, Unsettled
  <2>2. CASE TokensNext
    BY <2>2, SupersedeKeepsInv, InsertKeepsInv, OutsideKeepsInv, BeginsKeepsInv,
      AttemptKeepsInv, ConsumeKeepsInv, SessionKeepsInv DEF TokensNext
  <2> QED BY <2>1, <2>2
<1> QED BY <1>1, TokensInvInit, PTL DEF TokensSpec

\* However many presentations race, a token has one effect and one session
\* (MarkActionTokenUsed, ConsumeForSignIn, ConsumeMagicLink).
THEOREM TokenHasOneEffect == TokensSpec => []OneEffect
<1>1. TokensInv => OneEffect
  <2> SUFFICES ASSUME TokensInv PROVE OneEffect
    OBVIOUS
  <2>1. \A t \in Tokens : effects[t] <= 1 /\ (effects[t] = 1 <=> token[t].state = "used")
    BY DEF TokensInv, EffectIsUse
  <2>2. \A v \in granted : v \in Presentations /\ Winner(v)
    BY DEF TokensInv, TokensShape, Winner
  <2> QED BY <2>1, <2>2 DEF TokensInv, OneWinner, OneEffect
<1> QED BY <1>1, TokensInvariant, PTL

\* Two tokens of one purpose work only when their requests overlapped, and a
\* code past its cap only until the guess that reached it has killed it
\* (SupersedeActionTokens, RecordTokenAttempt, ConfirmOTP).
THEOREM TokensThatWork == TokensSpec => []WorkingTokens
<1>1. TokensInv => WorkingTokens
  BY DEF TokensInv
<1> QED BY <1>1, TokensInvariant, PTL

-----------------------------------------------------------------------------
(* Invitations and the sessions they admit.                                *)

\* A request's UPDATE saw links that were issued, and of those that still are
\* live it saw each one live.
SnapshotsCover ==
  /\ \A l \in Links : over[l] \subseteq Issued
  /\ \A c \in Clerks : /\ clerkSees[c].issued \subseteq Issued
                       /\ clerk[c] = "issuing" => clerkSees[c].issued \cap Live \subseteq clerkSees[c].live

\* How far a start got tells what it found, recorded and claimed.
StartsAreAdmitted ==
  \A v \in Visits :
    /\ visit[v] \in {"claim", "claiming", "consent", "create", "done"} =>
         \E l \in Links : link[l] = "accepted"
    /\ visit[v] = "claiming" => entry[v] \in 1 .. Len(grants)
    /\ visit[v] \in {"consent", "create", "done"} /\ v \notin firsts =>
         entry[v] \in 1 .. Len(grants) /\ grants[entry[v]] # "open"
    /\ visit[v] \in {"create", "done"} => v \in consents
    /\ v \in sessions => visit[v] = "done"

GrantsBounded == grants \in Seq({"open"} \cup Visits) /\ Len(grants) <= MaxGrants

ScreeningInv ==
  /\ ScreeningTypeOK /\ GrantsBounded /\ SnapshotsCover /\ WorkingLinksOverlap
  /\ StartsAreAdmitted

\* A set of numbers that is not empty has a least one.
LEMMA LeastNumber ==
  ASSUME NEW S \in SUBSET Nat, S # {}
  PROVE  \E x \in S : \A y \in S : x <= y
<1>1. PICK x \in S : \A y \in S : ~(<<y, x>> \in OpToRel(<, Nat))
  BY WFMin, NatLessThanWellFounded
<1>2. \A y \in S : ~(y < x)
  BY <1>1 DEF OpToRel
<1> QED BY <1>2

\* A claim selects a re-invitation that is there and open.
LEMMA OldestOpen ==
  ASSUME GrantsBounded, Open # {},
         NEW g, g = CHOOSE o \in Open : \A h \in Open : o <= h
  PROVE  g \in 1 .. Len(grants) /\ g \in 0 .. MaxGrants
<1>1. Open \subseteq Nat /\ Open \subseteq 1 .. Len(grants) /\ Len(grants) \in Nat
  BY DEF Open, GrantsBounded
<1>2. \E x \in Open : \A y \in Open : x <= y
  BY <1>1, LeastNumber
<1>3. g \in Open
  BY <1>2
<1>4. Len(grants) <= MaxGrants /\ MaxGrants \in Nat
  BY ScreeningAssumption DEF GrantsBounded
<1>5. g \in 1 .. Len(grants)
  BY <1>1, <1>3
<1> QED BY <1>1, <1>4, <1>5

\* The invariant holds before the first invitation.
LEMMA ScreeningInvInit == ScreeningInit => ScreeningInv
BY ScreeningAssumption
DEF ScreeningInit, ScreeningInv, ScreeningTypeOK, GrantsBounded, SnapshotsCover,
  WorkingLinksOverlap, StartsAreAdmitted, Issued, Live

\* What the recruiter's requests leave to prove: they touch no start.
LEMMA StartsUntouched ==
  ASSUME ScreeningInv, UNCHANGED starting,
         \A l \in Links : link[l] = "accepted" => link'[l] = "accepted"
  PROVE  GrantsBounded' /\ StartsAreAdmitted'
BY DEF ScreeningInv, starting, GrantsBounded, StartsAreAdmitted

\* A step that only ends links keeps what the snapshots cover.
LEMMA LinksOnlyEnd ==
  ASSUME ScreeningInv, UNCHANGED <<over, recruiter>>, Issued' = Issued, Live' \subseteq Live
  PROVE  SnapshotsCover' /\ WorkingLinksOverlap'
BY DEF ScreeningInv, recruiter, SnapshotsCover, WorkingLinksOverlap

\* Issuing and resending, each in its steps, keep the links a snapshot
\* leaves out retired.
LEMMA ClerksKeepInv ==
  ASSUME ScreeningInv, NEW c \in Clerks, IssueBegins(c) \/ Resend(c) \/ IssueInvitation(c)
  PROVE  ScreeningInv'
<1>1. CASE IssueBegins(c) \/ Resend(c)
  <2>1. UNCHANGED <<invitations, recipient, starting, startFaults>>
    BY <1>1 DEF IssueBegins, Resend
  <2>2. GrantsBounded' /\ StartsAreAdmitted'
    BY <2>1, StartsUntouched DEF invitations
  <2>3. Issued' = Issued /\ Live' = Live /\ Issued \subseteq Links /\ Live \subseteq Links
    BY <2>1 DEF Issued, Live, invitations
  <2>4. CASE IssueBegins(c)
    <3>1. /\ clerk' = [clerk EXCEPT ![c] = "issuing"]
          /\ clerkSees' = [clerkSees EXCEPT ![c] = [issued |-> Issued, live |-> Live]]
      BY <2>4 DEF IssueBegins
    <3>2. SnapshotsCover' /\ WorkingLinksOverlap'
      <4>1. /\ clerkSees'[c].issued = Issued /\ clerkSees'[c].live = Live
            /\ \A d \in Clerks : d # c => clerkSees'[d] = clerkSees[d] /\ clerk'[d] = clerk[d]
        BY <3>1 DEF ScreeningInv, ScreeningTypeOK
      <4> QED BY <2>1, <2>3, <4>1
        DEF invitations, ScreeningInv, SnapshotsCover, WorkingLinksOverlap
    <3>3. ScreeningTypeOK'
      <4>1. /\ clerk' \in [Clerks -> {"idle", "fresh", "issuing", "done"}]
            /\ clerkSees' \in [Clerks -> [issued : SUBSET Links, live : SUBSET Links]]
        BY <2>3, <3>1 DEF ScreeningInv, ScreeningTypeOK
      <4> QED BY <2>1, <2>3, <4>1 DEF invitations, recipient, starting, ScreeningInv, ScreeningTypeOK
    <3> QED BY <2>2, <3>2, <3>3 DEF ScreeningInv
  <2>5. CASE Resend(c)
    <3>1. clerk' = [clerk EXCEPT ![c] = "fresh"] /\ UNCHANGED clerkSees
      BY <2>5 DEF Resend
    <3>2. SnapshotsCover' /\ WorkingLinksOverlap'
      BY <2>1, <2>3, <3>1
      DEF invitations, ScreeningInv, ScreeningTypeOK, SnapshotsCover, WorkingLinksOverlap
    <3>3. ScreeningTypeOK'
      BY <2>1, <2>3, <3>1 DEF invitations, recipient, starting, ScreeningInv, ScreeningTypeOK
    <3> QED BY <2>2, <3>2, <3>3 DEF ScreeningInv
  <2> QED BY <1>1, <2>4, <2>5
<1>2. CASE IssueInvitation(c)
  <2>1. PICK new \in Links \ Issued :
          /\ link' = [l \in Links |->
               IF l = new THEN "live"
               ELSE IF l \in SupersedeLiveInvitations(c) THEN "superseded" ELSE link[l]]
          /\ over' = [over EXCEPT ![new] = clerkSees[c].issued]
    BY <1>2 DEF IssueInvitation
  <2>2. /\ clerk[c] = "issuing" /\ clerk' = [clerk EXCEPT ![c] = "done"]
        /\ UNCHANGED <<lapsed, clerkSees, recipient, starting, startFaults>>
    BY <1>2 DEF IssueInvitation
  <2>3. /\ Issued' = Issued \cup {new} /\ link[new] = "unissued"
        /\ Live' = (Live \ clerkSees[c].live) \cup {new}
    BY <2>1 DEF Issued, Live, SupersedeLiveInvitations
  <2>4. \A l \in Links : link[l] = "accepted" => link'[l] = "accepted"
    BY <2>1 DEF SupersedeLiveInvitations, Live, Issued
  <2>5. GrantsBounded' /\ StartsAreAdmitted'
    BY <2>2, <2>4, StartsUntouched
  <2>6. ScreeningTypeOK'
    BY <2>1, <2>2, <2>3
    DEF ScreeningInv, ScreeningTypeOK, recipient, starting, SupersedeLiveInvitations, Outcomes
  <2>7. SnapshotsCover'
    BY <2>1, <2>2, <2>3 DEF ScreeningInv, SnapshotsCover, ScreeningTypeOK
  <2>8. WorkingLinksOverlap'
    <3>1. new \notin Live /\ Live \subseteq Links
      BY <2>3 DEF Live
    <3>2. \A m \in Links : new \notin over[m]
      BY DEF ScreeningInv, SnapshotsCover
    <3>3. over'[new] = clerkSees[c].issued /\ \A m \in Links : m # new => over'[m] = over[m]
      BY <2>1 DEF ScreeningInv, ScreeningTypeOK
    <3>4. \A l \in Live' : l # new => l \in Live /\ l \notin clerkSees[c].issued
      BY <2>2, <2>3 DEF ScreeningInv, SnapshotsCover
    <3> QED BY <3>1, <3>2, <3>3, <3>4 DEF ScreeningInv, WorkingLinksOverlap
  <2> QED BY <2>5, <2>6, <2>7, <2>8 DEF ScreeningInv
<1> QED BY <1>1, <1>2

\* Authorizing a re-invitation adds a grant and touches no link.
LEMMA AuthorizeKeepsInv ==
  ASSUME ScreeningInv, AuthorizeReInvitation
  PROVE  ScreeningInv'
<1>1. /\ Len(grants) < MaxGrants /\ grants' = Append(grants, "open")
      /\ UNCHANGED <<invitations, recruiter, recipient, visit, firsts, entry, consents, sessions,
                     startFaults>>
  BY DEF AuthorizeReInvitation
<1>2. grants \in Seq({"open"} \cup Visits) /\ Len(grants) \in Nat
  BY DEF ScreeningInv, GrantsBounded
<1>3. /\ grants' \in Seq({"open"} \cup Visits) /\ Len(grants') = Len(grants) + 1
      /\ \A g \in 1 .. Len(grants) : grants'[g] = grants[g]
  BY <1>1, <1>2
<1>4. GrantsBounded'
  BY <1>1, <1>2, <1>3, ScreeningAssumption DEF GrantsBounded
<1>5. StartsAreAdmitted'
  BY <1>1, <1>2, <1>3 DEF ScreeningInv, StartsAreAdmitted, invitations
<1>6. ScreeningTypeOK'
  <2>1. \A g \in 1 .. Len(grants') : grants'[g] \in {"open"} \cup Visits
    BY <1>2, <1>3
  <2> QED BY <1>1, <2>1 DEF ScreeningInv, ScreeningTypeOK, invitations, recruiter, recipient, Issued
<1>7. SnapshotsCover' /\ WorkingLinksOverlap'
  BY <1>1, LinksOnlyEnd DEF invitations, recruiter, Issued, Live
<1> QED BY <1>4, <1>5, <1>6, <1>7 DEF ScreeningInv

\* A link that is revoked, runs out or is declined is one less that works.
LEMMA LinksKeepInv ==
  ASSUME ScreeningInv, NEW l \in Links,
         RevokeInvitation(l) \/ Expires(l) \/ DeclineInvitationByToken(l)
  PROVE  ScreeningInv'
<1>1. UNCHANGED <<over, recruiter, recipient, starting, startFaults>>
  BY DEF RevokeInvitation, Expires, DeclineInvitationByToken
<1>2. Issued' = Issued /\ Live' \subseteq Live
  BY DEF RevokeInvitation, Expires, DeclineInvitationByToken, Acceptable, Issued, Live,
         ScreeningInv, ScreeningTypeOK
<1>3. SnapshotsCover' /\ WorkingLinksOverlap'
  BY <1>1, <1>2, LinksOnlyEnd
<1>4. \A m \in Links : link[m] = "accepted" => link'[m] = "accepted"
  BY DEF RevokeInvitation, Expires, DeclineInvitationByToken, Acceptable, ScreeningInv, ScreeningTypeOK
<1>5. GrantsBounded' /\ StartsAreAdmitted'
  BY <1>1, <1>4, StartsUntouched
<1>6. ScreeningTypeOK'
  <2>1. link' \in [Links -> {"unissued", "live"} \cup Outcomes] /\ lapsed' \subseteq Issued'
    BY <1>2 DEF RevokeInvitation, Expires, DeclineInvitationByToken, Acceptable, ScreeningInv,
      ScreeningTypeOK, Outcomes, Issued
  <2> QED BY <1>1, <2>1 DEF ScreeningInv, ScreeningTypeOK, recruiter, recipient, starting
<1> QED BY <1>3, <1>5, <1>6 DEF ScreeningInv

\* Accepting an invitation ends it and issues none.
LEMMA TakersKeepInv ==
  ASSUME ScreeningInv, NEW t \in Takers, AcceptProvisions(t) \/ AcceptInvitationByToken(t)
  PROVE  ScreeningInv'
<1>1. UNCHANGED <<over, lapsed, recruiter, starting, startFaults>>
  BY DEF AcceptProvisions, AcceptInvitationByToken, invitations
<1>2. Issued' = Issued /\ Live' \subseteq Live
  BY DEF AcceptProvisions, AcceptInvitationByToken, invitations, Acceptable, Issued, Live,
         ScreeningInv, ScreeningTypeOK
<1>3. SnapshotsCover' /\ WorkingLinksOverlap'
  BY <1>1, <1>2, LinksOnlyEnd
<1>4. \A m \in Links : link[m] = "accepted" => link'[m] = "accepted"
  BY DEF AcceptProvisions, AcceptInvitationByToken, invitations, Acceptable, ScreeningInv, ScreeningTypeOK
<1>5. GrantsBounded' /\ StartsAreAdmitted'
  BY <1>1, <1>4, StartsUntouched
<1>6. ScreeningTypeOK'
  <2>1. link' \in [Links -> {"unissued", "live"} \cup Outcomes]
    BY DEF AcceptProvisions, AcceptInvitationByToken, invitations, Acceptable, ScreeningInv,
      ScreeningTypeOK, Outcomes
  <2>2. taker' \in [Takers -> Links \cup {None, "accepted", "refused"}] /\ signedIn' \subseteq Takers
    BY DEF AcceptProvisions, AcceptInvitationByToken, ScreeningInv, ScreeningTypeOK, Issued
  <2> QED BY <1>1, <1>2, <2>1, <2>2 DEF ScreeningInv, ScreeningTypeOK, recruiter, starting
<1> QED BY <1>3, <1>5, <1>6 DEF ScreeningInv

\* A start, from its reads through its claim and its consent to its
\* session, is admitted wherever it dies.
LEMMA VisitsKeepInv ==
  ASSUME ScreeningInv, NEW v \in Visits,
         \/ StartReads(v) \/ ClaimBegins(v) \/ ClaimReInvitation(v)
         \/ StartConsents(v) \/ StartCreates(v) \/ StartDies(v)
  PROVE  ScreeningInv'
<1> USE DEF Goes
<1>1. UNCHANGED <<invitations, recruiter, recipient>>
  BY DEF StartReads, ClaimBegins, ClaimReInvitation, StartConsents, StartCreates, StartDies
<1>2. SnapshotsCover' /\ WorkingLinksOverlap'
  BY <1>1, LinksOnlyEnd DEF invitations, recruiter, Issued, Live
<1>3. Issued' = Issued /\ link' = link
  BY <1>1 DEF invitations, Issued
<1>4. SUFFICES GrantsBounded' /\ StartsAreAdmitted' /\
        /\ \A g \in 1 .. Len(grants') : grants'[g] \in {"open"} \cup Visits
        /\ visit' \in [Visits -> {"idle", "claim", "claiming", "consent", "create", "done",
                           "refused", "died"}]
        /\ firsts' \subseteq Visits /\ entry' \in [Visits -> 0 .. MaxGrants]
        /\ consents' \subseteq Visits /\ sessions' \subseteq Visits
        /\ startFaults' \in 0 .. MaxStartFaults
  BY <1>1, <1>2, <1>3 DEF ScreeningInv, ScreeningTypeOK, invitations, recruiter, recipient
<1> USE DEF ScreeningInv, ScreeningTypeOK, StartsAreAdmitted, GrantsBounded
<1>5. CASE StartReads(v)
  <2>1. CASE sessions = {}
    <3>1. /\ visit[v] = "idle" /\ visit' = [visit EXCEPT ![v] = "consent"]
          /\ firsts' = firsts \cup {v} /\ UNCHANGED <<grants, entry, consents, sessions, startFaults>>
          /\ \E l \in Links : link[l] = "accepted"
      BY <1>5, <2>1 DEF StartReads
    <3>2. visit'[v] = "consent" /\ \A w \in Visits : w # v => visit'[w] = visit[w]
      BY <3>1
    <3>3. StartsAreAdmitted'
      BY <1>3, <3>1, <3>2, <2>1
    <3> QED BY <3>1, <3>3
  <2>2. CASE sessions # {}
    <3>1. /\ visit[v] = "idle" /\ visit' = [visit EXCEPT ![v] = "claim"]
          /\ UNCHANGED <<firsts, grants, entry, consents, sessions, startFaults>>
          /\ \E l \in Links : link[l] = "accepted"
      BY <1>5, <2>2 DEF StartReads
    <3>2. visit'[v] = "claim" /\ \A w \in Visits : w # v => visit'[w] = visit[w]
      BY <3>1
    <3>3. StartsAreAdmitted'
      BY <1>3, <3>1, <3>2
    <3> QED BY <3>1, <3>3
  <2> QED BY <2>1, <2>2
<1>6. CASE ClaimBegins(v)
  <2>1. CASE Open = {}
    <3>1. /\ visit[v] = "claim" /\ visit' = [visit EXCEPT ![v] = "refused"]
          /\ UNCHANGED <<firsts, grants, entry, consents, sessions, startFaults>>
      BY <1>6, <2>1 DEF ClaimBegins, ClaimSelects
    <3>2. visit'[v] = "refused" /\ \A w \in Visits : w # v => visit'[w] = visit[w]
      BY <3>1
    <3>3. StartsAreAdmitted'
      BY <1>3, <3>1, <3>2
    <3> QED BY <3>1, <3>3
  <2>2. CASE Open # {}
    <3> DEFINE g == CHOOSE g \in Open : \A h \in Open : g <= h
    <3>1. g \in 1 .. Len(grants) /\ g \in 0 .. MaxGrants
      BY <2>2, OldestOpen
    <3>2. entry' = [entry EXCEPT ![v] = g] /\ visit' = [visit EXCEPT ![v] = "claiming"]
      BY <1>6, <2>2 DEF ClaimBegins, ClaimSelects
    <3> HIDE DEF g
    <3> QED BY <1>3, <1>6, <3>1, <3>2 DEF ClaimBegins
  <2> QED BY <2>1, <2>2
<1>7. CASE ClaimReInvitation(v)
  <2>1. entry[v] \in 1 .. Len(grants) /\ grants' = [grants EXCEPT ![entry[v]] = v]
    BY <1>7 DEF ClaimReInvitation
  <2>2. /\ grants' \in Seq({"open"} \cup Visits) /\ Len(grants') = Len(grants)
        /\ grants'[entry[v]] = v /\ \A g \in 1 .. Len(grants) : grants'[g] \in {grants[g], v}
    BY <2>1
  <2>3. v # "open"
    BY ScreeningAssumption
  <2>4. \A g \in 1 .. Len(grants') : grants'[g] \in {"open"} \cup Visits
    BY <2>2
  <2>5. StartsAreAdmitted'
    BY <1>3, <1>7, <2>1, <2>2, <2>3 DEF ClaimReInvitation
  <2> QED BY <1>7, <2>2, <2>4, <2>5 DEF ClaimReInvitation
<1>8. CASE StartConsents(v)
  BY <1>3, <1>8 DEF StartConsents, RecordAcceptance
<1>9. CASE StartCreates(v)
  BY <1>3, <1>9 DEF StartCreates
<1>10. CASE StartDies(v)
  BY <1>3, <1>10, ScreeningAssumption DEF StartDies
<1> QED BY <1>5, <1>6, <1>7, <1>8, <1>9, <1>10

\* The strengthening holds along every behaviour, the type invariant with it.
THEOREM ScreeningInvariant == ScreeningSpec => []ScreeningInv
<1>1. ScreeningInv /\ [ScreeningNext]_screeningVars => ScreeningInv'
  <2> SUFFICES ASSUME ScreeningInv, [ScreeningNext]_screeningVars PROVE ScreeningInv'
    OBVIOUS
  <2>1. CASE UNCHANGED screeningVars
    BY <2>1 DEF screeningVars, invitations, recruiter, recipient, starting, ScreeningInv,
      ScreeningTypeOK, GrantsBounded, SnapshotsCover, WorkingLinksOverlap, StartsAreAdmitted,
      Issued, Live
  <2>2. CASE ScreeningNext
    BY <2>2, ClerksKeepInv, AuthorizeKeepsInv, LinksKeepInv, TakersKeepInv, VisitsKeepInv
    DEF ScreeningNext
  <2> QED BY <2>1, <2>2
<1> QED BY <1>1, ScreeningInvInit, PTL DEF ScreeningSpec

\* Two links work together only when the requests that issued them overlapped
\* (IssueInvitation, SupersedeLiveInvitations).
THEOREM LaterLinkRetires == ScreeningSpec => []WorkingLinksOverlap
<1>1. ScreeningInv => WorkingLinksOverlap
  BY DEF ScreeningInv
<1> QED BY <1>1, ScreeningInvariant, PTL

\* Every session stands on an accepted link, a consent and, but for the first,
\* a recruiter's authorization (StartScreeningSession).
THEOREM SessionsAreAdmitted == ScreeningSpec => []SessionIsAdmitted
<1>1. ScreeningInv => SessionIsAdmitted
  BY DEF ScreeningInv, ScreeningTypeOK, StartsAreAdmitted, SessionIsAdmitted
<1> QED BY <1>1, ScreeningInvariant, PTL

\* No race overwrites the ending of a link, and no lapsed one is answered (the
\* WHERE clauses of the updates).
THEOREM LinkEndingsStand == ScreeningSpec => EndingsStand
<1> DEFINE Stands ==
      \A l \in Links :
        /\ link[l] \in Outcomes => link'[l] = link[l]
        /\ l \in lapsed => link'[l] \notin {"accepted", "declined"} \/ link'[l] = link[l]
<1>1. ScreeningTypeOK /\ [ScreeningNext]_screeningVars => [Stands]_screeningVars
  <2> SUFFICES ASSUME ScreeningTypeOK, ScreeningNext PROVE Stands
    OBVIOUS
  <2> USE DEF ScreeningTypeOK, Outcomes
  <2>1. ASSUME NEW c \in Clerks, IssueBegins(c) \/ Resend(c) \/ IssueInvitation(c) PROVE Stands
    BY <2>1 DEF IssueBegins, Resend, IssueInvitation, invitations, SupersedeLiveInvitations,
      Live, Issued
  <2>2. CASE AuthorizeReInvitation
    BY <2>2 DEF AuthorizeReInvitation, invitations
  <2>3. ASSUME NEW l \in Links, RevokeInvitation(l) \/ Expires(l) \/ DeclineInvitationByToken(l)
        PROVE Stands
    BY <2>3 DEF RevokeInvitation, Expires, DeclineInvitationByToken, Acceptable
  <2>4. ASSUME NEW t \in Takers, AcceptProvisions(t) \/ AcceptInvitationByToken(t) PROVE Stands
    BY <2>4 DEF AcceptProvisions, AcceptInvitationByToken, invitations, Acceptable
  <2>5. ASSUME NEW v \in Visits,
          \/ StartReads(v) \/ ClaimBegins(v) \/ ClaimReInvitation(v)
          \/ StartConsents(v) \/ StartCreates(v) \/ StartDies(v)
        PROVE Stands
    BY <2>5 DEF StartReads, ClaimBegins, ClaimReInvitation, StartConsents, StartCreates,
      StartDies, invitations
  <2> QED BY <2>1, <2>2, <2>3, <2>4, <2>5 DEF ScreeningNext
<1>2. ScreeningInv => ScreeningTypeOK
  BY DEF ScreeningInv
<1> QED BY <1>1, <1>2, ScreeningInvariant, PTL DEF ScreeningSpec, EndingsStand

-----------------------------------------------------------------------------
(* Documents: the rows and the object store.                               *)

RowType == [state : {"absent", "uploading", "stored", "failed", "deleted"},
            upload : Uploads \cup {NoUpload},
            extraction : {"none", "pending", "extracted", "unsupported", "failed"}]
StartType == [step : {"idle", "initiate", "insert", "started", "refused"}, version : Numbers]
RequestType == [step : {"idle", "store", "row", "over"}, op : {"complete", "abort", "delete"},
                version : Numbers, upload : Uploads \cup {NoUpload}]

StoreShape ==
  /\ row \in [Numbers -> RowType]
  /\ multipart \in [Uploads -> {"none", "open", "assembled", "discarded"}]
  /\ object \subseteq Numbers
  /\ start \in [Uploads -> StartType]
  /\ request \in [VersionRequests -> RequestType]

\* The versions that are there are the first ones, and a start that read the
\* next number never inserts past it.
VersionsDense ==
  \E k \in 0 .. Cardinality(Uploads) :
    /\ Present = 1 .. k
    /\ \A u \in Uploads : start[u].step # "idle" => start[u].version \in 1 .. (k + 1)

\* The upload that StartUpload opened for a version.
Opened(u, v) == start[u].step = "started" /\ start[u].version = v

OneUploadEach ==
  \A v \in Numbers :
    /\ \A u \in Uploads : Opened(u, v) => row[v].state # "absent"
    /\ \A u, w \in Uploads : Opened(u, v) /\ Opened(w, v) => u = w
    /\ row[v].state = "uploading" => row[v].upload \in Uploads /\ Opened(row[v].upload, v)

\* What the store did to the upload of a version decides what its row says.
StoreDecides ==
  \A v \in Numbers :
    /\ v \in object => \E u \in Uploads : Opened(u, v) /\ multipart[u] = "assembled"
    /\ row[v].state \in {"stored", "deleted"} =>
         \A u \in Uploads : Opened(u, v) => multipart[u] = "assembled"
    /\ row[v].state = "failed" => \A u \in Uploads : Opened(u, v) => multipart[u] = "discarded"
    /\ row[v].state \in {"absent", "failed", "deleted"} => v \notin object
    /\ row[v].state = "stored" =>
         v \in object \/ \E r \in VersionRequests : /\ request[r].op = "delete"
                                             /\ request[r].version = v
                                             /\ request[r].step \in {"row", "over"}

\* What a request under way knows of its version.
RequestsKnow ==
  \A r \in VersionRequests :
    LET q == request[r] IN
    /\ q.step \in {"store", "row"} /\ q.op # "delete" =>
         q.upload \in Uploads /\ Opened(q.upload, q.version)
    /\ q.step \in {"store", "row"} /\ q.op = "delete" =>
         row[q.version].state \in {"stored", "deleted"}
    /\ q.step = "row" /\ q.op = "complete" =>
         /\ multipart[q.upload] = "assembled"
         /\ row[q.version].state = "uploading" => q.version \in object
    /\ q.step = "row" /\ q.op = "abort" => multipart[q.upload] = "discarded"
    /\ q.step = "row" /\ q.op = "delete" => q.version \notin object

StoreInv == StoreShape /\ VersionsDense /\ OneUploadEach /\ StoreDecides /\ RequestsKnow

\* Versions are numbered from 1, and the three changes of a document begin
\* where its row says.
LEMMA NumbersAre ==
  /\ Cardinality(Uploads) \in Nat /\ 1 \in Numbers /\ Numbers \subseteq Nat
  /\ DOMAIN Begins = {"complete", "abort", "delete"}
  /\ Begins["complete"] = "uploading" /\ Begins["abort"] = "uploading" /\ Begins["delete"] = "stored"
<1>1. Cardinality(Uploads) \in Nat /\ Cardinality(Uploads) # 0
  BY DocumentsAssumption, FS_CardinalityType, FS_EmptySet
<1> QED BY <1>1 DEF Numbers, Begins

\* The rows and the store agree before the first upload.
LEMMA StoreInvInit == DocumentsInit => StoreInv
<1> SUFFICES ASSUME DocumentsInit PROVE StoreInv
  OBVIOUS
<1> USE NumbersAre DEF DocumentsInit
<1>1. StoreShape
  BY DEF StoreShape, RowType, StartType, RequestType
<1>2. VersionsDense
  <2>1. Present = 1 .. 0
    BY DEF Present
  <2> QED BY <2>1 DEF VersionsDense
<1>3. OneUploadEach /\ StoreDecides /\ RequestsKnow
  BY DEF OneUploadEach, StoreDecides, RequestsKnow, Opened
<1> QED BY <1>1, <1>2, <1>3 DEF StoreInv

\* A step that leaves the store, the requests, and the rows' states and uploads
\* as they are.
LEMMA StoreUntouched ==
  ASSUME StoreInv, UNCHANGED <<multipart, object, start, request>>, row' \in [Numbers -> RowType],
         \A v \in Numbers : row'[v].state = row[v].state /\ row'[v].upload = row[v].upload
  PROVE  StoreInv'
<1> USE DEF StoreInv
<1>1. StoreShape'
  BY DEF StoreShape
<1>2. Present' = Present
  BY DEF Present
<1>3. VersionsDense'
  BY <1>2 DEF VersionsDense
<1>4. \A u, v : Opened(u, v)' <=> Opened(u, v)
  BY DEF Opened
<1>5. OneUploadEach' /\ StoreDecides'
  BY <1>4 DEF OneUploadEach, StoreDecides
<1>6. \A r \in VersionRequests : request[r].version \in Numbers
  BY DEF StoreShape, RequestType
<1>7. RequestsKnow'
  BY <1>4, <1>6 DEF RequestsKnow
<1> QED BY <1>1, <1>3, <1>5, <1>7

\* A start that reads the next number, or opens its upload, answers nobody yet.
LEMMA StartingKeepsStore ==
  ASSUME StoreInv, NEW u \in Uploads, NextDocumentVersion(u) \/ InitiateUpload(u)
  PROVE  StoreInv'
<1> USE NumbersAre DEF StoreInv
<1>1. UNCHANGED <<rows, object, request>>
  BY DEF NextDocumentVersion, InitiateUpload, store
<1>2. Present' = Present
  BY <1>1 DEF Present, rows
<1>3. PICK k \in 0 .. Cardinality(Uploads) :
        /\ Present = 1 .. k
        /\ \A w \in Uploads : start[w].step # "idle" => start[w].version \in 1 .. (k + 1)
  BY DEF VersionsDense
<1>4. /\ start' \in [Uploads -> StartType] /\ \A w \in Uploads : w # u => start'[w] = start[w]
      /\ start'[u].step \in {"initiate", "insert"} /\ start'[u].version \in 1 .. (k + 1)
  <2>1. CASE NextDocumentVersion(u)
    <3>1. Cardinality(Present) = k
      BY <1>3, FS_Interval
    <3>2. Max(Present \cup {0}) = k
      <4>1. /\ k \in Present \cup {0}
            /\ \A y \in Present \cup {0} : y \in Nat /\ k >= y
        BY <1>3
      <4>2. \A x \in Present \cup {0} : (\A y \in Present \cup {0} : x >= y) => x = k
        BY <4>1
      <4> QED BY <4>1, <4>2 DEF Max
    <3>3. k + 1 \in Numbers
      BY <2>1, <3>1 DEF NextDocumentVersion, Numbers
    <3>4. start' = [start EXCEPT ![u] = [step |-> "initiate", version |-> k + 1]]
      BY <2>1, <3>2 DEF NextDocumentVersion
    <3> QED BY <3>3, <3>4 DEF StoreShape, StartType
  <2>2. CASE InitiateUpload(u)
    <3>1. start[u].step = "initiate" /\ start' = [start EXCEPT ![u].step = "insert"]
      BY <2>2 DEF InitiateUpload
    <3>2. start[u] \in StartType
      BY DEF StoreShape
    <3>3. start' = [start EXCEPT ![u] = [start[u] EXCEPT !.step = "insert"]]
      BY <3>1
    <3>4. /\ [start[u] EXCEPT !.step = "insert"] \in StartType
          /\ [start[u] EXCEPT !.step = "insert"].step = "insert"
          /\ [start[u] EXCEPT !.step = "insert"].version = start[u].version
      BY <3>2 DEF StartType
    <3> QED BY <1>3, <3>1, <3>3, <3>4 DEF StoreShape
  <2> QED BY <2>1, <2>2
<1>5. start[u].step # "started"
  BY DEF NextDocumentVersion, InitiateUpload
<1>6. multipart' \in [Uploads -> {"none", "open", "assembled", "discarded"}]
      /\ \A w \in Uploads : w # u => multipart'[w] = multipart[w]
  BY DEF NextDocumentVersion, InitiateUpload, store, StoreShape
<1>7. \A w \in Uploads : \A v : Opened(w, v)' <=> Opened(w, v)
  BY <1>4, <1>5 DEF Opened
<1>8. \A w \in Uploads : \A v : Opened(w, v) => w # u
  BY <1>5 DEF Opened
<1>9. StoreShape'
  BY <1>1, <1>4, <1>6 DEF StoreShape, rows
<1>10. VersionsDense'
  <2>1. \A w \in Uploads : start'[w].step # "idle" => start'[w].version \in 1 .. (k + 1)
    BY <1>3, <1>4
  <2> QED BY <1>2, <1>3, <2>1 DEF VersionsDense
<1>11. OneUploadEach'
  BY <1>1, <1>7 DEF OneUploadEach, rows
<1>12. StoreDecides'
  BY <1>1, <1>6, <1>7, <1>8 DEF StoreDecides, rows
<1>13. RequestsKnow'
  BY <1>1, <1>6, <1>7, <1>8 DEF RequestsKnow, rows
<1> QED BY <1>9, <1>10, <1>11, <1>12, <1>13

\* The insert gives the version to one start.
LEMMA InsertDocumentKeepsStore ==
  ASSUME StoreInv, NEW u \in Uploads, InsertDocument(u)
  PROVE  StoreInv'
<1> USE NumbersAre DEF StoreInv
<1> DEFINE n == start[u].version
<1>1. n \in Numbers /\ start[u].step = "insert" /\ UNCHANGED <<multipart, object, request>>
  BY DEF InsertDocument, StoreShape, StartType, store
<1>2. PICK k \in 0 .. Cardinality(Uploads) :
        /\ Present = 1 .. k
        /\ \A w \in Uploads : start[w].step # "idle" => start[w].version \in 1 .. (k + 1)
  BY DEF VersionsDense
<1>3. CASE row[n].state = "absent"
  <2>1. /\ row' = [row EXCEPT ![n] = [row[n] EXCEPT !.state = "uploading", !.upload = u]]
        /\ start' = [start EXCEPT ![u] = [start[u] EXCEPT !.step = "started"]]
    BY <1>1, <1>3 DEF InsertDocument, VersionFree, StoreShape
  <2>2. /\ row'[n].state = "uploading" /\ row'[n].upload = u
        /\ \A v \in Numbers : v # n => row'[v] = row[v]
    BY <1>1, <2>1 DEF StoreShape, RowType
  <2>3. /\ start'[u].step = "started" /\ start'[u].version = n
        /\ \A w \in Uploads : w # u => start'[w] = start[w]
    BY <1>1, <2>1 DEF StoreShape, StartType
  <2>4. StoreShape'
    <3>1. row[n] \in RowType /\ start[u] \in StartType
      BY <1>1 DEF StoreShape
    <3>2. [row[n] EXCEPT !.state = "uploading", !.upload = u] \in RowType
      BY <3>1 DEF RowType
    <3>3. [start[u] EXCEPT !.step = "started"] \in StartType
      BY <3>1 DEF StartType
    <3> QED BY <1>1, <2>1, <3>2, <3>3 DEF StoreShape
  <2>5. VersionsDense'
    <3>1. Present' = Present \cup {n} /\ n \notin Present
      BY <1>1, <1>3, <2>2 DEF Present
    <3>2. n = k + 1 /\ k + 1 \in 0 .. Cardinality(Uploads)
      BY <1>1, <1>2, <3>1 DEF Numbers
    <3>3. Present' = 1 .. (k + 1)
      BY <1>2, <3>1, <3>2
    <3>4. \A w \in Uploads : start'[w].step # "idle" => start'[w].version \in 1 .. (k + 2)
      BY <1>2, <2>3, <3>2
    <3> DEFINE j == k + 1
    <3>5. j \in 0 .. Cardinality(Uploads) /\ Present' = 1 .. j
          /\ \A w \in Uploads : start'[w].step # "idle" => start'[w].version \in 1 .. (j + 1)
      BY <3>2, <3>3, <3>4
    <3> QED BY <3>5 DEF VersionsDense
  <2>6. /\ \A v : Opened(u, v)' <=> v = n
        /\ \A w \in Uploads : \A v : w # u => (Opened(w, v)' <=> Opened(w, v))
        /\ \A v : ~Opened(u, v)
    BY <1>1, <2>3 DEF Opened
  <2>7. \A w \in Uploads : ~Opened(w, n)
    BY <1>1, <1>3 DEF OneUploadEach
  <2>8. OneUploadEach'
    BY <1>1, <2>2, <2>6, <2>7 DEF OneUploadEach
  <2>9. StoreDecides'
    BY <1>1, <1>3, <2>2, <2>6, <2>7 DEF StoreDecides
  <2>10. RequestsKnow'
    <3>1. ASSUME NEW r \in VersionRequests, request[r].step \in {"store", "row"}
          PROVE  /\ request[r].version # n /\ row'[request[r].version] = row[request[r].version]
                 /\ request[r].op # "delete" => request[r].upload # u
      <4>1. request[r].version \in Numbers
        BY DEF StoreShape, RequestType
      <4>2. CASE request[r].op = "delete"
        BY <1>3, <2>2, <3>1, <4>1, <4>2 DEF RequestsKnow
      <4>3. CASE request[r].op # "delete"
        <5>1. request[r].upload \in Uploads /\ Opened(request[r].upload, request[r].version)
          BY <3>1, <4>3 DEF RequestsKnow
        <5> QED BY <2>2, <2>6, <2>7, <4>1, <5>1
      <4> QED BY <4>2, <4>3
    <3> QED BY <1>1, <2>6, <3>1 DEF RequestsKnow
  <2> QED BY <2>4, <2>5, <2>8, <2>9, <2>10
<1>4. CASE row[n].state # "absent"
  <2>1. row' = row /\ start' = [start EXCEPT ![u] = [start[u] EXCEPT !.step = "refused"]]
    BY <1>1, <1>4 DEF InsertDocument, VersionFree, StoreShape
  <2>2. /\ start'[u].step = "refused" /\ start'[u].version = n
        /\ \A w \in Uploads : w # u => start'[w] = start[w]
    BY <1>1, <2>1 DEF StoreShape, StartType
  <2>3. StoreShape'
    <3>1. [start[u] EXCEPT !.step = "refused"] \in StartType
      BY DEF StoreShape, StartType
    <3> QED BY <1>1, <2>1, <3>1 DEF StoreShape
  <2>4. VersionsDense'
    BY <1>1, <1>2, <2>1, <2>2 DEF VersionsDense, Present
  <2>5. \A w \in Uploads : \A v : Opened(w, v)' <=> Opened(w, v)
    BY <1>1, <2>2 DEF Opened
  <2>6. OneUploadEach' /\ StoreDecides'
    BY <1>1, <2>1, <2>5 DEF OneUploadEach, StoreDecides
  <2>7. RequestsKnow'
    BY <1>1, <2>1, <2>5 DEF RequestsKnow
  <2> QED BY <2>3, <2>4, <2>6, <2>7
<1> QED BY <1>3, <1>4

\* A request reads the row it needs.
LEMMA RequestReadsKeepsStore ==
  ASSUME StoreInv, NEW r \in VersionRequests, NEW op \in DOMAIN Begins, NEW v \in Numbers,
         RequestReads(r, op, v)
  PROVE  StoreInv'
<1> USE NumbersAre DEF StoreInv
<1>1. /\ request[r].step = "idle" /\ row[v].state = Begins[op]
      /\ request' = [request EXCEPT ![r] =
           [step |-> "store", op |-> op, version |-> v, upload |-> row[v].upload]]
      /\ UNCHANGED <<row, multipart, object, start>>
  BY DEF RequestReads, rows, store
<1>2. /\ request'[r].step = "store" /\ request'[r].op = op /\ request'[r].version = v
      /\ request'[r].upload = row[v].upload
      /\ \A s \in VersionRequests : s # r => request'[s] = request[s]
  BY <1>1 DEF StoreShape
<1>3. StoreShape'
  BY <1>1 DEF StoreShape, RequestType, RowType
<1>4. \A w, x : Opened(w, x)' <=> Opened(w, x)
  BY <1>1 DEF Opened
<1>5. VersionsDense' /\ OneUploadEach'
  BY <1>1, <1>4 DEF VersionsDense, Present, OneUploadEach
<1>6. StoreDecides'
  BY <1>1, <1>2, <1>4 DEF StoreDecides
<1>7. RequestsKnow'
  <2>1. op # "delete" => row[v].upload \in Uploads /\ Opened(row[v].upload, v)
    BY <1>1 DEF OneUploadEach
  <2> QED BY <1>1, <1>2, <1>4, <2>1 DEF RequestsKnow
<1> QED BY <1>3, <1>5, <1>6, <1>7

\* The store answers: the first to reach an open upload decides it.
LEMMA StoreAnswersKeepsStore ==
  ASSUME StoreInv, NEW r \in VersionRequests, StoreAnswers(r)
  PROVE  StoreInv'
<1> USE NumbersAre DEF StoreInv
<1> DEFINE q == request[r]
<1>1. /\ q.step = "store" /\ UNCHANGED <<row, start>> /\ q.version \in Numbers
      /\ q.op \in {"complete", "abort", "delete"} /\ q \in RequestType
  BY DEF StoreAnswers, rows, StoreShape, RequestType
<1>2. PICK s \in {"row", "over"} : request' = [request EXCEPT ![r] = [q EXCEPT !.step = s]]
  BY DEF StoreAnswers
<1>3. /\ request'[r].step = s /\ request'[r].op = q.op /\ request'[r].version = q.version
      /\ request'[r].upload = q.upload
      /\ \A o \in VersionRequests : o # r => request'[o] = request[o]
  BY <1>1, <1>2 DEF StoreShape, RequestType
<1>4. request' \in [VersionRequests -> RequestType]
  <2>1. [q EXCEPT !.step = s] \in RequestType
    BY <1>1 DEF RequestType
  <2> QED BY <1>2, <2>1 DEF StoreShape
<1>5. \A w, x : Opened(w, x)' <=> Opened(w, x)
  BY <1>1 DEF Opened
<1>6. VersionsDense' /\ OneUploadEach'
  BY <1>1, <1>5 DEF VersionsDense, Present, OneUploadEach
<1>7. CASE q.op = "complete" /\ multipart[q.upload] = "open"
  <2>1. q.upload \in Uploads /\ Opened(q.upload, q.version)
    BY <1>1, <1>7 DEF RequestsKnow
  <2>2. /\ multipart' = [multipart EXCEPT ![q.upload] = "assembled"]
        /\ object' = object \cup {q.version}
    BY <1>7 DEF StoreAnswers
  <2>3. StoreShape'
    BY <1>1, <1>4, <2>2 DEF StoreShape
  <2>4. row[q.version].state = "uploading"
    <3>1. row[q.version].state # "absent"
      BY <1>1, <2>1 DEF OneUploadEach
    <3>2. row[q.version].state \notin {"stored", "deleted", "failed"}
      BY <1>1, <1>7, <2>1 DEF StoreDecides
    <3> QED BY <1>1, <3>1, <3>2 DEF StoreShape, RowType
  <2>5. /\ multipart'[q.upload] = "assembled"
        /\ \A u \in Uploads : u # q.upload => multipart'[u] = multipart[u]
    BY <2>1, <2>2 DEF StoreShape
  <2>6. \A u \in Uploads : Opened(u, q.version) => u = q.upload
    BY <1>1, <2>1 DEF OneUploadEach
  <2>7. \A v \in Numbers : v # q.version => ~Opened(q.upload, v)
    BY <2>1 DEF Opened
  <2>8. StoreDecides'
    <3>1. ASSUME NEW v \in Numbers
          PROVE  /\ v \in object' => \E u \in Uploads : Opened(u, v) /\ multipart'[u] = "assembled"
                 /\ row[v].state \in {"stored", "deleted"} =>
                      \A u \in Uploads : Opened(u, v) => multipart'[u] = "assembled"
                 /\ row[v].state = "failed" =>
                      \A u \in Uploads : Opened(u, v) => multipart'[u] = "discarded"
                 /\ row[v].state \in {"absent", "failed", "deleted"} => v \notin object'
                 /\ row[v].state = "stored" =>
                      v \in object' \/ \E o \in VersionRequests :
                        /\ request'[o].op = "delete" /\ request'[o].version = v
                        /\ request'[o].step \in {"row", "over"}
      <4>1. CASE v = q.version
        BY <2>1, <2>2, <2>4, <2>5, <4>1
      <4>2. CASE v # q.version
        BY <1>3, <2>2, <2>5, <2>7, <4>2, <1>7 DEF StoreDecides
      <4> QED BY <4>1, <4>2
    <3> SUFFICES ASSUME NEW v \in Numbers
                 PROVE  (/\ v \in object => \E u \in Uploads :
                                              Opened(u, v) /\ multipart[u] = "assembled"
                         /\ row[v].state \in {"stored", "deleted"} =>
                              \A u \in Uploads : Opened(u, v) => multipart[u] = "assembled"
                         /\ row[v].state = "failed" =>
                              \A u \in Uploads : Opened(u, v) => multipart[u] = "discarded"
                         /\ row[v].state \in {"absent", "failed", "deleted"} => v \notin object
                         /\ row[v].state = "stored" =>
                              v \in object \/ \E o \in VersionRequests :
                                /\ request[o].op = "delete" /\ request[o].version = v
                                /\ request[o].step \in {"row", "over"})'
      BY DEF StoreDecides
    <3>2. row' = row /\ \A u \in Uploads : Opened(u, v)' <=> Opened(u, v)
      BY <1>1, <1>5
    <3> QED BY <3>1, <3>2
  <2>9. RequestsKnow'
    <3>1. ASSUME NEW o \in VersionRequests, o # r,
                 request[o].step \in {"store", "row"}
          PROVE  /\ request[o].op = "complete" /\ request[o].step = "row" =>
                      multipart'[request[o].upload] = "assembled"
                 /\ request[o].op = "abort" /\ request[o].step = "row" =>
                      multipart'[request[o].upload] = "discarded"
                 /\ request[o].op = "delete" => request[o].version # q.version
      BY <1>7, <2>1, <2>4, <2>5, <3>1 DEF RequestsKnow
    <3> QED BY <1>1, <1>3, <1>5, <1>7, <2>1, <2>2, <2>5, <3>1 DEF RequestsKnow
  <2> QED BY <1>6, <2>3, <2>8, <2>9
<1>8. CASE q.op = "abort" /\ multipart[q.upload] = "open"
  <2>1. q.upload \in Uploads /\ Opened(q.upload, q.version)
    BY <1>1, <1>8 DEF RequestsKnow
  <2>2. multipart' = [multipart EXCEPT ![q.upload] = "discarded"] /\ object' = object
    BY <1>8 DEF StoreAnswers
  <2>3. StoreShape'
    BY <1>1, <1>4, <2>2 DEF StoreShape
  <2>4. row[q.version].state \notin {"stored", "deleted"} /\ q.version \notin object
    <3>1. row[q.version].state \notin {"stored", "deleted"}
      BY <1>1, <1>8, <2>1 DEF StoreDecides
    <3>2. \A u \in Uploads : Opened(u, q.version) => u = q.upload
      BY <1>1, <2>1 DEF OneUploadEach
    <3> QED BY <1>1, <1>8, <3>1, <3>2 DEF StoreDecides
  <2>5. /\ multipart'[q.upload] = "discarded"
        /\ \A u \in Uploads : u # q.upload => multipart'[u] = multipart[u]
    BY <2>1, <2>2 DEF StoreShape
  <2>6. \A v \in Numbers : v # q.version => ~Opened(q.upload, v)
    BY <2>1 DEF Opened
  <2>7. \A u \in Uploads : Opened(u, q.version) => u = q.upload
    BY <1>1, <2>1 DEF OneUploadEach
  <2>8. StoreDecides'
    <3>1. ASSUME NEW v \in Numbers
          PROVE  /\ v \in object => \E u \in Uploads : Opened(u, v) /\ multipart'[u] = "assembled"
                 /\ row[v].state \in {"stored", "deleted"} =>
                      \A u \in Uploads : Opened(u, v) => multipart'[u] = "assembled"
                 /\ row[v].state = "failed" =>
                      \A u \in Uploads : Opened(u, v) => multipart'[u] = "discarded"
                 /\ row[v].state = "stored" =>
                      v \in object \/ \E o \in VersionRequests :
                        /\ request'[o].op = "delete" /\ request'[o].version = v
                        /\ request'[o].step \in {"row", "over"}
      <4>1. CASE v = q.version
        BY <2>4, <2>5, <2>7, <4>1
      <4>2. CASE v # q.version
        BY <1>3, <2>5, <2>6, <4>2, <1>8 DEF StoreDecides
      <4> QED BY <4>1, <4>2
    <3> QED BY <1>1, <1>5, <2>2, <3>1 DEF StoreDecides
  <2>9. RequestsKnow'
    <3>1. ASSUME NEW o \in VersionRequests, o # r,
                 request[o].step = "row", request[o].op # "delete"
          PROVE  request[o].upload # q.upload
      <4>1. request[o].op \in {"complete", "abort"}
        BY <3>1 DEF StoreShape, RequestType
      <4> QED BY <1>8, <3>1, <4>1 DEF RequestsKnow
    <3> QED BY <1>1, <1>3, <1>5, <1>8, <2>1, <2>2, <2>5, <3>1 DEF RequestsKnow
  <2> QED BY <1>6, <2>3, <2>8, <2>9
<1>9. CASE q.op # "delete" /\ multipart[q.upload] # "open"
  <2>1. request' = [request EXCEPT ![r].step = "over"] /\ UNCHANGED <<multipart, object>>
    BY <1>9 DEF StoreAnswers, store
  <2>2. s = "over"
    BY <1>3, <2>1 DEF StoreShape, RequestType
  <2>3. StoreShape' /\ StoreDecides'
    BY <1>1, <1>3, <1>4, <1>5, <1>9, <2>1 DEF StoreShape, StoreDecides
  <2>4. RequestsKnow'
    BY <1>1, <1>3, <1>5, <2>1, <2>2 DEF RequestsKnow
  <2> QED BY <1>6, <2>3, <2>4
<1>10. CASE q.op = "delete"
  <2>1. UNCHANGED multipart /\ object' = object \ {q.version}
    BY <1>10 DEF StoreAnswers
  <2>2. row[q.version].state \in {"stored", "deleted"}
    BY <1>1, <1>10 DEF RequestsKnow
  <2>3. StoreShape'
    BY <1>1, <1>4, <2>1 DEF StoreShape
  <2>4. StoreDecides'
    <3>1. ASSUME NEW v \in Numbers, row[v].state = "stored"
          PROVE  v \in object' \/ \E o \in VersionRequests :
                   /\ request'[o].op = "delete" /\ request'[o].version = v
                   /\ request'[o].step \in {"row", "over"}
      BY <1>1, <1>3, <1>10, <2>1, <3>1 DEF StoreDecides
    <3> QED BY <1>1, <1>5, <2>1, <3>1 DEF StoreDecides
  <2>5. RequestsKnow'
    BY <1>1, <1>3, <1>5, <1>10, <2>1, <2>2 DEF RequestsKnow
  <2> QED BY <1>6, <2>3, <2>4, <2>5
<1> QED BY <1>1, <1>7, <1>8, <1>9, <1>10

\* The row follows what the store did, if it is still where the request read it.
LEMMA RequestMarksKeepsStore ==
  ASSUME StoreInv, NEW r \in VersionRequests, RequestMarks(r)
  PROVE  StoreInv'
<1> USE NumbersAre DEF StoreInv
<1> DEFINE q == request[r]
<1>1. /\ q.step = "row" /\ UNCHANGED <<multipart, object, start>> /\ q.version \in Numbers
      /\ q.op \in {"complete", "abort", "delete"} /\ q \in RequestType
      /\ request' = [request EXCEPT ![r] = [q EXCEPT !.step = "over"]]
  BY DEF RequestMarks, store, StoreShape, RequestType
<1>2. /\ request'[r].step = "over" /\ request'[r].op = q.op /\ request'[r].version = q.version
      /\ \A o \in VersionRequests : o # r => request'[o] = request[o]
  BY <1>1 DEF StoreShape, RequestType
<1>3. request' \in [VersionRequests -> RequestType]
  <2>1. [q EXCEPT !.step = "over"] \in RequestType
    BY <1>1 DEF RequestType
  <2> QED BY <1>1, <2>1 DEF StoreShape
<1>4. \A w, x : Opened(w, x)' <=> Opened(w, x)
  BY <1>1 DEF Opened
<1>5. CASE row[q.version].state # Begins[q.op]
  <2>1. row' = row
    BY <1>5 DEF RequestMarks, Moves
  <2>2. StoreShape' /\ VersionsDense' /\ OneUploadEach'
    BY <1>1, <1>3, <1>4, <2>1 DEF StoreShape, VersionsDense, Present, OneUploadEach
  <2>3. StoreDecides'
    BY <1>1, <1>2, <1>4, <2>1 DEF StoreDecides
  <2>4. RequestsKnow'
    BY <1>1, <1>2, <1>4, <2>1 DEF RequestsKnow
  <2> QED BY <2>2, <2>3, <2>4
<1>6. CASE row[q.version].state = Begins[q.op]
  <2> DEFINE new == Marked(q.op, row[q.version])
  <2>1. row' = [row EXCEPT ![q.version] = new]
    BY <1>6 DEF RequestMarks, Moves
  <2>2. /\ new \in RowType /\ new.state # "absent"
        /\ q.op = "complete" => new.state = "stored"
        /\ q.op = "abort" => new.state = "failed"
        /\ q.op = "delete" => new.state = "deleted"
    <3>1. row[q.version] \in RowType
      BY <1>1 DEF StoreShape
    <3>2. CASE q.op = "complete"
      BY <3>2 DEF Marked, RowType
    <3>3. CASE q.op = "abort"
      BY <3>1, <3>3 DEF Marked, RowType
    <3>4. CASE q.op = "delete"
      BY <3>1, <3>4 DEF Marked, RowType
    <3> QED BY <1>1, <3>2, <3>3, <3>4
  <2> HIDE DEF new
  <2>3. row'[q.version] = new /\ \A v \in Numbers : v # q.version => row'[v] = row[v]
    BY <1>1, <2>1 DEF StoreShape
  <2>4. StoreShape'
    BY <1>1, <1>3, <2>1, <2>2 DEF StoreShape
  <2>5. row[q.version].state \in {"uploading", "stored"}
    BY <1>1, <1>6
  <2>6. VersionsDense'
    <3>1. Present' = Present
      BY <1>1, <2>2, <2>3, <2>5 DEF Present
    <3> QED BY <1>1, <3>1 DEF VersionsDense
  <2>7. OneUploadEach'
    BY <1>1, <1>4, <2>2, <2>3 DEF OneUploadEach
  <2>8. q.op # "delete" => /\ q.upload \in Uploads /\ Opened(q.upload, q.version)
                           /\ \A u \in Uploads : Opened(u, q.version) => u = q.upload
    BY <1>1 DEF RequestsKnow, OneUploadEach
  <2>9. /\ q.op = "complete" => multipart[q.upload] = "assembled" /\ q.version \in object
        /\ q.op = "abort" => multipart[q.upload] = "discarded"
        /\ q.op = "delete" => q.version \notin object
    BY <1>1, <1>6 DEF RequestsKnow
  <2>10. StoreDecides'
    <3>1. CASE q.op = "complete"
      BY <1>1, <1>2, <1>4, <2>2, <2>3, <2>8, <2>9, <3>1 DEF StoreDecides
    <3>2. CASE q.op = "abort"
      BY <1>1, <1>2, <1>4, <2>2, <2>3, <2>8, <2>9, <3>2 DEF StoreDecides
    <3>3. CASE q.op = "delete"
      BY <1>1, <1>2, <1>4, <1>6, <2>2, <2>3, <2>9, <3>3 DEF StoreDecides
    <3> QED BY <1>1, <3>1, <3>2, <3>3
  <2>11. RequestsKnow'
    <3>1. \A o \in VersionRequests : request[o].version \in Numbers
      BY DEF StoreShape, RequestType
    <3>2. \A o \in VersionRequests :
            o # r /\ request[o].step \in {"store", "row"} /\ request[o].op = "delete" =>
              row'[request[o].version].state \in {"stored", "deleted"}
      BY <1>1, <1>6, <2>2, <2>3, <3>1 DEF RequestsKnow
    <3>3. \A v \in Numbers : row'[v].state = "uploading" => row[v].state = "uploading"
      BY <1>1, <2>2, <2>3
    <3> QED BY <1>1, <1>2, <1>4, <3>1, <3>2, <3>3 DEF RequestsKnow
  <2> QED BY <2>4, <2>6, <2>7, <2>10, <2>11
<1> QED BY <1>5, <1>6

-----------------------------------------------------------------------------
(* Documents: the facts and the workflow that reads them.                  *)

FactType == [version : Numbers, span : Spans, batch : Nat,
             status : {"proposed", "confirmed", "corrected", "rejected"}]
AttemptType == [of : Activities, version : Numbers,
                step : {"read", "call", "delete", "insert", "mark",
                        "ok", "again", "refused", "unsupported", "not_pending"},
                doomed : SUBSET FactType]
ReadingType == [activity : Activities \cup {"none", "ended"}, attempt : AttemptType,
                tries : 0 .. MaxAttempts - 1]

FactsShape ==
  /\ fact \subseteq FactType /\ inserted \in Nat /\ reviews \in Nat
  /\ reading \in [Numbers -> ReadingType] /\ late \subseteq AttemptType
  /\ event \in [Numbers -> {"none", "pending", "handled", "again", "done"}]

\* The steps of an attempt are those of its activity, it holds deleted only
\* proposals of its version, and what it was answered is still so.
AttemptOK(a) ==
  /\ a.step \in {"read", "call", "refused", "unsupported", "not_pending"} => a.of = "Extract"
  /\ a.step \in {"delete", "insert"} => a.of = "StoreFacts"
  /\ a.step = "mark" => a.of \in {"MarkUnsupported", "MarkFailed"}
  /\ \A f \in a.doomed : f.version = a.version /\ f.status = "proposed"
  /\ a.step = "not_pending" \/ (a.step = "ok" /\ a.of # "Extract") =>
       row[a.version].extraction # "pending"

ReadingsKnow ==
  /\ \A a \in late : AttemptOK(a) /\ row[a.version].extraction # "none"
  /\ \A v \in Numbers :
       /\ reading[v].attempt.version = v /\ AttemptOK(reading[v].attempt)
       /\ reading[v].activity \in Activities => reading[v].attempt.of = reading[v].activity
       /\ reading[v].activity = "none" => reading[v].attempt.step = "read"
       /\ reading[v].activity # "none" => row[v].extraction # "none"
       /\ event[v] # "none" => row[v].extraction # "none"

FactsInv == FactsShape /\ ReadingsKnow /\ FactsMatchOutcome

\* There are no facts before the first upload.
LEMMA FactsInvInit == DocumentsInit => FactsInv
<1> SUFFICES ASSUME DocumentsInit PROVE FactsInv
  OBVIOUS
<1>1. \A v \in Numbers : Attempt(v, "Extract") \in AttemptType
  BY DEF Attempt, AttemptType, FirstOf, Activities
<1>2. FactsShape
  BY <1>1, DocumentsAssumption DEF DocumentsInit, FactsShape, ReadingType
<1>3. ReadingsKnow /\ FactsMatchOutcome
  BY DEF DocumentsInit, ReadingsKnow, FactsMatchOutcome, AttemptOK, Attempt, FirstOf, Activities
<1> QED BY <1>2, <1>3 DEF FactsInv

\* Once decided, an extraction stays so for what attempts know of it.
LEMMA AttemptStaysOK ==
  ASSUME NEW a, AttemptOK(a),
         row[a.version].extraction # "pending" => row'[a.version].extraction # "pending"
  PROVE  AttemptOK(a)'
BY DEF AttemptOK

\* A version has its spans exactly when it is extracted.
FactsAgree ==
  \A v \in Numbers :
    /\ row[v].extraction = "extracted" => {f.span : f \in {g \in fact : g.version = v}} = Spans
    /\ row[v].extraction # "extracted" => {f \in fact : f.version = v} = {}

\* The steps of an attempt move a row at most from pending to an outcome, take
\* back at most proposals, and keep the attempt's own promise.
ExtractionMoves ==
  /\ row' \in [Numbers -> RowType]
  /\ \A v \in Numbers :
       /\ row'[v].state = row[v].state /\ row'[v].upload = row[v].upload
       /\ row[v].extraction # "pending" => row'[v].extraction = row[v].extraction
       /\ row[v].extraction = "pending" => row'[v].extraction # "none"

OnlyProposedGo ==
  fact' \subseteq FactType /\ inserted' \in Nat /\ \A f \in fact : f \notin fact' => f.status = "proposed"

AttemptMoves(a, b) ==
  b \in AttemptType /\ b.of = a.of /\ b.version = a.version /\ AttemptOK(b)'

\* One step of an attempt, in time or late, moves the extraction forward,
\* removes only proposed facts and keeps the facts that of the outcome.
LEMMA RunsKeepsFacts ==
  ASSUME StoreShape, FactsShape, FactsAgree, NEW a \in AttemptType, AttemptOK(a),
         NEW b, Runs(a, b)
  PROVE  ExtractionMoves /\ FactsAgree' /\ OnlyProposedGo /\ AttemptMoves(a, b)
<1> USE DEF FactsShape
<1>1. a.version \in Numbers /\ row[a.version] \in RowType
  BY DEF AttemptType, StoreShape
<1>2. ASSUME NEW step \in {"call", "not_pending", "again", "refused", "unsupported", "ok", "insert"}
      PROVE  /\ At(a, step) \in AttemptType /\ At(a, step).of = a.of
             /\ At(a, step).version = a.version /\ At(a, step).step = step
             /\ At(a, step).doomed = a.doomed
  BY DEF At, AttemptType
<1>3. ASSUME UNCHANGED rows PROVE ExtractionMoves /\ FactsAgree' /\ OnlyProposedGo
  BY <1>3 DEF rows, StoreShape, RowType, ExtractionMoves, FactsAgree, OnlyProposedGo
<1>4. CASE ExtractReads(a, b)
  <2>1. PICK step \in {"call", "not_pending"} :
          b = At(a, step) /\ (step = "not_pending" => row[a.version].extraction # "pending")
    BY <1>4 DEF ExtractReads
  <2>2. UNCHANGED rows /\ a.of = "Extract"
    BY <1>4 DEF ExtractReads, AttemptOK
  <2>3. AttemptMoves(a, b)
    BY <1>2, <2>1, <2>2 DEF AttemptMoves, AttemptOK, rows
  <2> QED BY <1>3, <2>2, <2>3
<1>5. CASE ExtractCalls(a, b)
  <2>1. PICK step \in {"again", "refused", "unsupported", "ok"} : b = At(a, step)
    BY <1>5 DEF ExtractCalls
  <2>2. UNCHANGED rows /\ a.of = "Extract"
    BY <1>5 DEF ExtractCalls, AttemptOK
  <2>3. AttemptMoves(a, b)
    BY <1>2, <2>1, <2>2 DEF AttemptMoves, AttemptOK, rows
  <2> QED BY <1>3, <2>2, <2>3
<1>6. CASE DeleteProposedFacts(a, b)
  <2>1. /\ b = [At(a, "insert") EXCEPT !.doomed = Proposed(a.version)]
        /\ UNCHANGED rows /\ a.of = "StoreFacts"
    BY <1>6 DEF DeleteProposedFacts, AttemptOK
  <2>2. Proposed(a.version) \in SUBSET FactType
        /\ \A f \in Proposed(a.version) : f.version = a.version /\ f.status = "proposed"
    BY DEF Proposed
  <2>3. /\ b \in AttemptType /\ b.of = a.of /\ b.version = a.version /\ b.step = "insert"
        /\ b.doomed = Proposed(a.version)
    BY <1>2, <2>1, <2>2 DEF AttemptType
  <2>4. AttemptMoves(a, b)
    BY <2>1, <2>2, <2>3 DEF AttemptMoves, AttemptOK
  <2> QED BY <1>3, <2>1, <2>4
<1>7. CASE InsertFacts(a, b)
  <2>1. a.of = "StoreFacts" /\ Outcome[a.of] = "extracted"
    BY <1>7 DEF InsertFacts, AttemptOK, Outcome
  <2>2. CASE MayDecide(a)
    <3> DEFINE New == {[version |-> a.version, span |-> s, batch |-> inserted, status |-> "proposed"] :
                         s \in Spans}
    <3>1. /\ fact' = (fact \ a.doomed) \cup New /\ inserted' = inserted + 1
          /\ row' = [row EXCEPT ![a.version] = [row[a.version] EXCEPT !.extraction = "extracted"]]
          /\ b = [At(a, "ok") EXCEPT !.doomed = {}]
      BY <1>7, <2>1, <2>2 DEF InsertFacts, StoreShape
    <3>2. row[a.version].extraction \in {"pending", "extracted"}
      BY <2>1, <2>2 DEF MayDecide
    <3>3. /\ row' \in [Numbers -> RowType] /\ row'[a.version].extraction = "extracted"
          /\ row'[a.version].state = row[a.version].state
          /\ row'[a.version].upload = row[a.version].upload
          /\ \A v \in Numbers : v # a.version => row'[v] = row[v]
      BY <1>1, <3>1 DEF StoreShape, RowType
    <3>4. ExtractionMoves
      BY <3>2, <3>3 DEF ExtractionMoves, StoreShape, RowType
    <3>5. /\ New \subseteq FactType /\ {f.span : f \in New} = Spans
          /\ \A f \in New : f.version = a.version
      <4>1. \A f \in New : f \in FactType /\ f.span \in Spans /\ f.version = a.version
        BY <1>1 DEF FactType
      <4>2. ASSUME NEW s \in Spans PROVE \E f \in New : f.span = s
        <5> DEFINE f0 == [version |-> a.version, span |-> s, batch |-> inserted,
                          status |-> "proposed"]
        <5>1. f0 \in New /\ f0.span = s
          OBVIOUS
        <5> QED BY <5>1
      <4> HIDE DEF New
      <4> QED BY <4>1, <4>2
    <3>6. \A f \in a.doomed : f.version = a.version /\ f.status = "proposed"
      BY DEF AttemptOK
    <3> HIDE DEF New
    <3>7. OnlyProposedGo
      BY <3>1, <3>5, <3>6 DEF OnlyProposedGo
    <3>8. FactsAgree'
      <4>1. {f.span : f \in {g \in fact' : g.version = a.version}} = Spans
        <5>1. New \subseteq {g \in fact' : g.version = a.version}
          BY <3>1, <3>5
        <5>2. \A f \in fact' : f.span \in Spans
          BY <3>7 DEF OnlyProposedGo, FactType
        <5> QED BY <3>5, <5>1, <5>2
      <4>2. \A v \in Numbers : v # a.version =>
              {f \in fact' : f.version = v} = {f \in fact : f.version = v}
        BY <3>1, <3>5, <3>6
      <4> QED BY <3>3, <4>1, <4>2 DEF FactsAgree
    <3>9. AttemptMoves(a, b)
      <4>1. /\ b \in AttemptType /\ b.of = a.of /\ b.version = a.version /\ b.step = "ok"
            /\ b.doomed = {}
        BY <1>2, <3>1 DEF AttemptType
      <4> QED BY <2>1, <3>3, <4>1 DEF AttemptMoves, AttemptOK
    <3> QED BY <3>4, <3>7, <3>8, <3>9
  <2>3. CASE ~MayDecide(a)
    <3>1. UNCHANGED rows /\ b = [At(a, "again") EXCEPT !.doomed = {}]
      BY <1>7, <2>3 DEF InsertFacts
    <3>2. /\ b \in AttemptType /\ b.of = a.of /\ b.version = a.version /\ b.step = "again"
          /\ b.doomed = {}
      BY <1>2, <3>1 DEF AttemptType
    <3>3. AttemptMoves(a, b)
      BY <3>2 DEF AttemptMoves, AttemptOK
    <3> QED BY <1>3, <3>1, <3>3
  <2> QED BY <2>2, <2>3
<1>8. CASE MarkExtractionOutcome(a, b)
  <2>1. a.of \in {"MarkUnsupported", "MarkFailed"} /\ Outcome[a.of] \in {"unsupported", "failed"}
    BY <1>8 DEF MarkExtractionOutcome, AttemptOK, Outcome
  <2>2. UNCHANGED <<fact, inserted>>
    BY <1>8 DEF MarkExtractionOutcome
  <2>3. CASE MayDecide(a)
    <3>1. /\ row' = [row EXCEPT ![a.version] = [row[a.version] EXCEPT !.extraction = Outcome[a.of]]]
          /\ b = At(a, "ok")
      BY <1>8, <2>3 DEF MarkExtractionOutcome, StoreShape
    <3>2. row[a.version].extraction \in {"pending", Outcome[a.of]}
      BY <2>3 DEF MayDecide
    <3>3. /\ row' \in [Numbers -> RowType] /\ row'[a.version].extraction = Outcome[a.of]
          /\ row'[a.version].state = row[a.version].state
          /\ row'[a.version].upload = row[a.version].upload
          /\ \A v \in Numbers : v # a.version => row'[v] = row[v]
      BY <1>1, <2>1, <3>1 DEF StoreShape, RowType
    <3>4. ExtractionMoves
      BY <2>1, <3>2, <3>3 DEF ExtractionMoves, StoreShape, RowType
    <3>5. FactsAgree' /\ OnlyProposedGo
      BY <1>1, <2>1, <2>2, <3>2, <3>3 DEF FactsAgree, OnlyProposedGo
    <3>6. AttemptMoves(a, b)
      BY <1>2, <2>1, <3>1, <3>3 DEF AttemptMoves, AttemptOK
    <3> QED BY <3>4, <3>5, <3>6
  <2>4. CASE ~MayDecide(a)
    <3>1. UNCHANGED rows /\ b = At(a, "again")
      BY <1>8, <2>4 DEF MarkExtractionOutcome, rows
    <3>2. AttemptMoves(a, b)
      BY <1>2, <3>1 DEF AttemptMoves, AttemptOK
    <3> QED BY <1>3, <3>1, <3>2
  <2> QED BY <2>3, <2>4
<1> QED BY <1>4, <1>5, <1>6, <1>7, <1>8 DEF Runs

\* The rest of what FactsMatchOutcome says.
OutcomesStored ==
  \A v \in Numbers : row[v].extraction # "none" => row[v].state \in {"stored", "deleted"}

EndedDecided ==
  \A v \in Numbers :
    reading[v].activity = "ended" /\ row[v].extraction = "pending" =>
      reading[v].attempt.of # "Extract" /\ reading[v].tries = MaxAttempts - 1

\* What FactsMatchOutcome says of facts, of outcomes and of ended workflows.
LEMMA OutcomeParts == FactsMatchOutcome <=> FactsAgree /\ OutcomesStored /\ EndedDecided
BY DEF FactsMatchOutcome, FactsAgree, OutcomesStored, EndedDecided

\* A step that leaves the facts, the workflows and every extraction alone.
LEMMA FactsUntouched ==
  ASSUME StoreInv, FactsInv, UNCHANGED <<fact, inserted, event, reading, late, reviews>>,
         \A v \in Numbers :
           /\ row'[v].extraction = row[v].extraction
           /\ row[v].state \in {"stored", "deleted"} => row'[v].state \in {"stored", "deleted"}
  PROVE  FactsInv'
<1> USE OutcomeParts DEF FactsInv
<1>1. FactsShape' /\ FactsAgree' /\ OutcomesStored' /\ EndedDecided'
  BY DEF FactsShape, FactsAgree, OutcomesStored, EndedDecided
<1>2. ReadingsKnow'
  <2>1. \A a \in late : AttemptOK(a)' /\ row'[a.version].extraction # "none"
    BY DEF ReadingsKnow, AttemptOK, FactsShape, AttemptType
  <2>2. \A v \in Numbers : AttemptOK(reading[v].attempt)'
    BY DEF ReadingsKnow, AttemptOK
  <2> QED BY <2>1, <2>2 DEF ReadingsKnow
<1>3. FactsMatchOutcome'
  BY <1>1 DEF FactsMatchOutcome, FactsAgree, OutcomesStored, EndedDecided
<1> QED BY <1>1, <1>2, <1>3

\* An upload touches no fact.
LEMMA UploadsKeepFacts ==
  ASSUME StoreInv, FactsInv, NEW u \in Uploads,
         NextDocumentVersion(u) \/ InitiateUpload(u) \/ InsertDocument(u)
  PROVE  FactsInv'
<1>1. CASE NextDocumentVersion(u) \/ InitiateUpload(u)
  BY <1>1, FactsUntouched DEF NextDocumentVersion, InitiateUpload, rows
<1>2. CASE InsertDocument(u)
  <2>1. UNCHANGED <<fact, inserted, event, reading, late, reviews>>
    BY <1>2 DEF InsertDocument
  <2>2. start[u].version \in Numbers /\ row \in [Numbers -> RowType]
    BY DEF StoreInv, StoreShape, StartType
  <2>3. \A v \in Numbers :
          /\ row'[v].extraction = row[v].extraction
          /\ row[v].state \in {"stored", "deleted"} => row'[v].state \in {"stored", "deleted"}
    BY <1>2, <2>2 DEF InsertDocument, VersionFree, RowType
  <2> QED BY <2>1, <2>3, FactsUntouched
<1> QED BY <1>1, <1>2

\* A complete makes its version pending, before anything has read it.
LEMMA RequestsKeepFacts ==
  ASSUME StoreInv, FactsInv, NEW r \in VersionRequests,
         \/ \E op \in DOMAIN Begins, v \in Numbers : RequestReads(r, op, v)
         \/ StoreAnswers(r) \/ RequestMarks(r)
  PROVE  FactsInv'
<1> USE NumbersAre
<1>1. CASE StoreAnswers(r) \/ \E op \in DOMAIN Begins, v \in Numbers : RequestReads(r, op, v)
  BY <1>1, FactsUntouched DEF StoreAnswers, RequestReads, rows
<1>2. CASE RequestMarks(r)
  <2> DEFINE q == request[r]
  <2>1. /\ q.version \in Numbers /\ row[q.version] \in RowType /\ row \in [Numbers -> RowType]
        /\ q.op \in {"complete", "abort", "delete"}
    BY DEF StoreInv, StoreShape, RequestType
  <2>2. UNCHANGED <<fact, inserted, reading, late, reviews>>
    BY <1>2 DEF RequestMarks
  <2>3. CASE row[q.version].state # Begins[q.op]
    BY <1>2, <2>2, <2>3, FactsUntouched DEF RequestMarks, Moves
  <2>4. CASE row[q.version].state = Begins[q.op] /\ q.op # "complete"
    <3>1. row' = [row EXCEPT ![q.version] = Marked(q.op, row[q.version])] /\ UNCHANGED event
      BY <1>2, <2>4 DEF RequestMarks, Moves
    <3>2. /\ Marked(q.op, row[q.version]).extraction = row[q.version].extraction
          /\ row[q.version].state \in {"stored", "deleted"} =>
               Marked(q.op, row[q.version]).state \in {"stored", "deleted"}
      BY <2>1, <2>4 DEF Marked, RowType
    <3>3. \A v \in Numbers :
            /\ row'[v].extraction = row[v].extraction
            /\ row[v].state \in {"stored", "deleted"} => row'[v].state \in {"stored", "deleted"}
      BY <2>1, <3>1, <3>2
    <3> QED BY <2>2, <3>1, <3>3, FactsUntouched
  <2>5. CASE row[q.version].state = "uploading" /\ q.op = "complete"
    <3>1. /\ row' = [row EXCEPT ![q.version] =
               [state |-> "stored", upload |-> NoUpload, extraction |-> "pending"]]
          /\ event' = [event EXCEPT ![q.version] = "pending"]
      BY <1>2, <2>5 DEF RequestMarks, Moves, Marked
    <3>2. /\ row'[q.version].extraction = "pending" /\ row'[q.version].state = "stored"
          /\ \A v \in Numbers : v # q.version => row'[v] = row[v]
      BY <2>1, <3>1
    <3> HIDE DEF q
    <3>3. row[q.version].extraction = "none"
      BY <2>1, <2>5, OutcomeParts DEF FactsInv, OutcomesStored
    <3>4. FactsShape'
      BY <2>1, <2>2, <3>1 DEF FactsInv, FactsShape
    <3>5. ReadingsKnow'
      <4>1. ASSUME NEW a \in late PROVE AttemptOK(a)' /\ row'[a.version].extraction # "none"
        <5>1. a.version \in Numbers /\ a.version # q.version /\ AttemptOK(a)
          BY <3>3 DEF FactsInv, ReadingsKnow, FactsShape, AttemptType
        <5>2. row'[a.version] = row[a.version] /\ row[a.version].extraction # "none"
          BY <3>2, <5>1 DEF FactsInv, ReadingsKnow
        <5> QED BY <5>1, <5>2, AttemptStaysOK
      <4>2. ASSUME NEW v \in Numbers
            PROVE  /\ AttemptOK(reading[v].attempt)'
                   /\ reading[v].activity # "none" => row'[v].extraction # "none"
                   /\ event'[v] # "none" => row'[v].extraction # "none"
        <5>1. CASE v = q.version
          <6>1. reading[v].activity = "none" /\ reading[v].attempt.step = "read"
            BY <3>3, <5>1 DEF FactsInv, ReadingsKnow
          <6>2. AttemptOK(reading[v].attempt)
            BY DEF FactsInv, ReadingsKnow
          <6>3. AttemptOK(reading[v].attempt)'
            BY <2>2, <6>1, <6>2 DEF AttemptOK
          <6> QED BY <3>2, <5>1, <6>3
        <5>2. CASE v # q.version
          <6>1. row'[v] = row[v] /\ event'[v] = event[v]
            BY <3>1, <3>2, <5>2 DEF FactsInv, FactsShape
          <6>2. reading[v].attempt.version = v /\ AttemptOK(reading[v].attempt)
            BY DEF FactsInv, ReadingsKnow
          <6>3. AttemptOK(reading[v].attempt)'
            BY <2>2, <6>1, <6>2 DEF AttemptOK
          <6> QED BY <6>1, <6>3 DEF FactsInv, ReadingsKnow
        <5> QED BY <5>1, <5>2
      <4> QED BY <2>2, <4>1, <4>2 DEF FactsInv, ReadingsKnow
    <3>6. FactsAgree' /\ OutcomesStored'
      BY <2>1, <2>2, <3>2, <3>3, OutcomeParts DEF FactsInv, FactsAgree, OutcomesStored
    <3>7. EndedDecided'
      <4>1. reading[q.version].activity = "none"
        BY <2>1, <3>3 DEF FactsInv, ReadingsKnow
      <4> QED BY <2>2, <3>2, <4>1, OutcomeParts DEF FactsInv, EndedDecided
    <3>8. FactsMatchOutcome'
      BY <3>6, <3>7 DEF FactsMatchOutcome, FactsAgree, OutcomesStored, EndedDecided
    <3> QED BY <3>4, <3>5, <3>8 DEF FactsInv
  <2> QED BY <2>1, <2>3, <2>4, <2>5
<1> QED BY <1>1, <1>2

\* One attempt runs, of the workflow or a late one: the rest keeps its promises.
LEMMA OthersStayOK ==
  ASSUME FactsInv, ExtractionMoves, NEW a, a \in AttemptType, AttemptOK(a)
  PROVE  /\ AttemptOK(a)'
         /\ row[a.version].extraction # "none" => row'[a.version].extraction # "none"
<1>1. a.version \in Numbers
  BY DEF AttemptType
<1>2. /\ row[a.version].extraction # "pending" => row'[a.version].extraction # "pending"
      /\ row[a.version].extraction # "none" => row'[a.version].extraction # "none"
  BY <1>1 DEF ExtractionMoves
<1> QED BY <1>2, AttemptStaysOK

\* An attempt that runs, or one given up that still runs, keeps the facts
\* those of the stored outcome.
LEMMA RunningKeepsFacts ==
  ASSUME StoreInv, FactsInv, (\E v \in Numbers : AttemptRuns(v)) \/ LateRuns
  PROVE  FactsInv' /\ ExtractionMoves /\ OnlyProposedGo
<1> USE OutcomeParts DEF FactsInv, StoreInv
<1>1. ASSUME NEW a \in AttemptType, AttemptOK(a), NEW b, Runs(a, b),
             UNCHANGED <<event, reviews>>,
             row[a.version].extraction # "none",
             AttemptMoves(a, b) =>
               /\ reading' \in [Numbers -> ReadingType] /\ late' \subseteq AttemptType
               /\ \A c \in late' : c \in late \/ c = b
               /\ \A v \in Numbers :
                    /\ reading'[v].activity = reading[v].activity
                    /\ reading'[v].tries = reading[v].tries
                    /\ \/ reading'[v] = reading[v]
                       \/ /\ reading'[v].attempt = b /\ a.version = v
                          /\ reading[v].activity \in Activities
                          /\ a.of = reading[v].activity
      PROVE  FactsInv' /\ ExtractionMoves /\ OnlyProposedGo
  <2>1. ExtractionMoves /\ FactsAgree' /\ OnlyProposedGo /\ AttemptMoves(a, b)
    BY <1>1, RunsKeepsFacts
  <2>2. FactsShape'
    BY <1>1, <2>1 DEF FactsShape, OnlyProposedGo
  <2>3. OutcomesStored'
    BY <2>1 DEF ExtractionMoves, OutcomesStored
  <2>4. ReadingsKnow'
    <3>1. /\ b.of = a.of /\ b.version = a.version /\ AttemptOK(b)' /\ b \in AttemptType
          /\ row'[b.version].extraction # "none"
      BY <1>1, <2>1, OthersStayOK DEF AttemptMoves
    <3>2. ASSUME NEW c \in late' PROVE AttemptOK(c)' /\ row'[c.version].extraction # "none"
      <4>1. CASE c = b
        BY <3>1, <4>1
      <4>2. CASE c \in late
        <5>1. c \in AttemptType /\ AttemptOK(c) /\ row[c.version].extraction # "none"
          BY <4>2 DEF FactsShape, ReadingsKnow
        <5> QED BY <2>1, <5>1, OthersStayOK
      <4> QED BY <1>1, <2>1, <4>1, <4>2
    <3>3. ASSUME NEW v \in Numbers
          PROVE  /\ reading'[v].attempt.version = v /\ AttemptOK(reading[v].attempt)'
                 /\ reading'[v].activity \in Activities =>
                      reading'[v].attempt.of = reading'[v].activity
                 /\ reading'[v].activity = "none" => reading'[v].attempt.step = "read"
      <4>1. CASE reading'[v] = reading[v]
        <5>1. reading[v].attempt \in AttemptType /\ AttemptOK(reading[v].attempt)
          BY DEF FactsShape, ReadingType, ReadingsKnow
        <5>2. \A c : c = reading[v].attempt => AttemptOK(c)'
          BY <2>1, <5>1, OthersStayOK
        <5>3. AttemptOK(reading[v].attempt)'
          BY <4>1, <5>2
        <5> QED BY <4>1, <5>3 DEF ReadingsKnow
      <4>2. CASE /\ reading'[v].attempt = b /\ a.version = v
                 /\ reading[v].activity \in Activities /\ a.of = reading[v].activity
        <5>1. AttemptOK(reading[v].attempt)'
          BY <3>1, <4>2
        <5> QED BY <1>1, <2>1, <3>1, <4>2, <5>1 DEF Activities
      <4> QED BY <1>1, <2>1, <4>1, <4>2
    <3>4. \A v \in Numbers :
            /\ reading'[v].activity # "none" => row'[v].extraction # "none"
            /\ event'[v] # "none" => row'[v].extraction # "none"
      BY <1>1, <2>1 DEF ReadingsKnow, ExtractionMoves
    <3> QED BY <3>2, <3>3, <3>4 DEF ReadingsKnow
  <2>5. EndedDecided'
    BY <1>1, <2>1 DEF EndedDecided, ExtractionMoves, Activities
  <2>6. FactsMatchOutcome'
    BY <2>1, <2>3, <2>5 DEF FactsMatchOutcome, FactsAgree, OutcomesStored, EndedDecided
  <2> QED BY <2>1, <2>2, <2>4, <2>6
<1>2. ASSUME NEW v \in Numbers, AttemptRuns(v) PROVE FactsInv' /\ ExtractionMoves /\ OnlyProposedGo
  <2> DEFINE a == reading[v].attempt
  <2>1. PICK b : Runs(a, b) /\ reading' = [reading EXCEPT ![v] = [reading[v] EXCEPT !.attempt = b]]
    BY <1>2 DEF AttemptRuns, FactsShape
  <2>2. /\ UNCHANGED <<event, late, reviews>> /\ reading[v].activity \in Activities
        /\ reading[v] \in ReadingType
    BY <1>2 DEF AttemptRuns, Running, FactsShape
  <2>3. a \in AttemptType /\ AttemptOK(a) /\ a.of = reading[v].activity /\ a.version = v
    BY <2>2 DEF ReadingType, ReadingsKnow
  <2>4. row[a.version].extraction # "none"
    BY <2>2, <2>3 DEF ReadingsKnow, Activities
  <2> HIDE DEF a
  <2>5. ASSUME AttemptMoves(a, b)
        PROVE  /\ reading' \in [Numbers -> ReadingType]
               /\ reading'[v].attempt = b /\ reading'[v].activity = reading[v].activity
               /\ reading'[v].tries = reading[v].tries
               /\ \A w \in Numbers : w # v => reading'[w] = reading[w]
    <3>1. b \in AttemptType
      BY <2>5 DEF AttemptMoves
    <3>2. /\ [reading[v] EXCEPT !.attempt = b] \in ReadingType
          /\ [reading[v] EXCEPT !.attempt = b].attempt = b
          /\ [reading[v] EXCEPT !.attempt = b].activity = reading[v].activity
          /\ [reading[v] EXCEPT !.attempt = b].tries = reading[v].tries
      BY <2>2, <3>1 DEF ReadingType
    <3> QED BY <2>1, <3>2 DEF FactsShape
  <2>6. late' \subseteq AttemptType
    BY <2>2 DEF FactsShape
  <2> QED BY <1>1, <2>1, <2>2, <2>3, <2>4, <2>5, <2>6
<1>3. ASSUME LateRuns PROVE FactsInv' /\ ExtractionMoves /\ OnlyProposedGo
  <2>1. PICK a \in late : \E b \in Nexts(a) :
          Runs(a, b) /\ late' = (late \ {a}) \cup (IF Answered(b) THEN {} ELSE {b})
    BY <1>3 DEF LateRuns
  <2>2. PICK b : Runs(a, b) /\ late' = (late \ {a}) \cup (IF Answered(b) THEN {} ELSE {b})
    BY <2>1
  <2>3. UNCHANGED <<event, reading, reviews>>
    BY <1>3 DEF LateRuns
  <2>4. a \in AttemptType /\ AttemptOK(a) /\ row[a.version].extraction # "none"
    BY DEF FactsShape, ReadingsKnow
  <2>5. AttemptMoves(a, b) => late' \subseteq AttemptType
    BY <2>2 DEF AttemptMoves, FactsShape
  <2>6. \A c \in late' : c \in late \/ c = b
    BY <2>2
  <2>7. reading' \in [Numbers -> ReadingType]
    BY <2>3 DEF FactsShape
  <2> QED BY <1>1, <2>2, <2>3, <2>4, <2>5, <2>6, <2>7
<1> QED BY <1>2, <1>3

\* The workflow itself moves: a new attempt knows nothing yet, and one that is
\* given up forgets what it was answered.
LEMMA WorkflowKeepsFacts ==
  ASSUME StoreInv, FactsInv, NEW v \in Numbers, UNCHANGED <<rows, reviews>>,
         event' \in [Numbers -> {"none", "pending", "handled", "again", "done"}],
         \A w \in Numbers : event'[w] # "none" => row[w].extraction # "none",
         late' \subseteq late \cup (IF Answered(reading[v].attempt) THEN {} ELSE {reading[v].attempt}),
         late' # late => reading[v].activity \in Activities,
         NEW w0 \in ReadingType, reading' = [reading EXCEPT ![v] = w0],
         w0.attempt.version = v, AttemptOK(w0.attempt),
         w0.activity \in Activities => w0.attempt.of = w0.activity,
         w0.activity # "none", row[v].extraction # "none",
         w0.activity = "ended" /\ row[v].extraction = "pending" =>
           w0.attempt.of # "Extract" /\ w0.tries = MaxAttempts - 1
  PROVE  FactsInv'
<1> USE OutcomeParts DEF FactsInv, rows
<1>1. reading'[v] = w0 /\ \A w \in Numbers : w # v => reading'[w] = reading[w]
  BY DEF FactsShape
<1>2. reading[v].attempt \in AttemptType /\ AttemptOK(reading[v].attempt)
      /\ reading[v].attempt.version = v
  BY DEF FactsShape, ReadingType, ReadingsKnow
<1>3. FactsShape'
  BY <1>2 DEF FactsShape
<1>4. \A a : AttemptOK(a) => (row' = row => AttemptOK(a)')
  BY AttemptStaysOK
<1>5. ReadingsKnow'
  <2>1. ASSUME NEW a \in late' PROVE AttemptOK(a)' /\ row'[a.version].extraction # "none"
    BY <1>2, <1>4 DEF ReadingsKnow, Activities
  <2>2. ASSUME NEW w \in Numbers
        PROVE  /\ reading'[w].attempt.version = w /\ AttemptOK(reading[w].attempt)'
               /\ reading'[w].activity \in Activities =>
                    reading'[w].attempt.of = reading'[w].activity
               /\ reading'[w].activity = "none" => reading'[w].attempt.step = "read"
               /\ reading'[w].activity # "none" => row'[w].extraction # "none"
    <3>1. CASE w = v
      <4>1. AttemptOK(reading[w].attempt)'
        BY <1>1, <3>1 DEF AttemptOK
      <4> QED BY <1>1, <3>1, <4>1
    <3>2. CASE w # v
      <4>1. AttemptOK(reading[w].attempt)'
        BY <1>1, <3>2 DEF AttemptOK, ReadingsKnow
      <4> QED BY <1>1, <3>2, <4>1 DEF ReadingsKnow
    <3> QED BY <3>1, <3>2
  <2> QED BY <2>1, <2>2 DEF ReadingsKnow
<1>6. FactsAgree' /\ OutcomesStored'
  BY DEF FactsAgree, OutcomesStored
<1>7. EndedDecided'
  BY <1>1 DEF EndedDecided
<1>8. FactsMatchOutcome'
  BY <1>6, <1>7 DEF FactsMatchOutcome, FactsAgree, OutcomesStored, EndedDecided
<1> QED BY <1>3, <1>5, <1>8

\* The first attempt of an activity is in order.
LEMMA FreshAttempt ==
  ASSUME NEW v \in Numbers, NEW name \in Activities
  PROVE  /\ Attempt(v, name) \in AttemptType /\ Attempt(v, name).version = v
         /\ Attempt(v, name).of = name /\ AttemptOK(Attempt(v, name))
BY DEF Attempt, AttemptType, AttemptOK, FirstOf, Activities

\* An event starts its workflow once, and a repeat changes no fact.
LEMMA EventsKeepFacts ==
  ASSUME StoreInv, FactsInv, NEW v \in Numbers, StartExtraction(v) \/ UploadedAgain(v)
  PROVE  FactsInv'
<1> USE DEF FactsInv
<1>1. /\ UNCHANGED <<rows, late, reviews>> /\ event[v] # "none" /\ row[v].extraction # "none"
  BY DEF StartExtraction, UploadedAgain, ReadingsKnow
<1>2. event' \in [Numbers -> {"none", "pending", "handled", "again", "done"}]
      /\ \A w \in Numbers : event'[w] # "none" => row[w].extraction # "none"
  BY <1>1 DEF StartExtraction, UploadedAgain, FactsShape, ReadingsKnow
<1>3. CASE reading' = reading
  <2>1. FactsShape' /\ FactsMatchOutcome'
    BY <1>1, <1>2, <1>3 DEF FactsShape, FactsMatchOutcome, rows
  <2>2. ReadingsKnow'
    BY <1>1, <1>2, <1>3 DEF ReadingsKnow, AttemptOK, rows
  <2> QED BY <2>1, <2>2
<1>4. CASE reading' # reading
  <2> DEFINE w0 == [activity |-> "Extract", attempt |-> Attempt(v, "Extract"), tries |-> 0]
  <2>1. reading' = [reading EXCEPT ![v] = w0]
    BY <1>4 DEF StartExtraction, UploadedAgain
  <2>2. /\ Attempt(v, "Extract") \in AttemptType /\ Attempt(v, "Extract").version = v
        /\ Attempt(v, "Extract").of = "Extract" /\ AttemptOK(Attempt(v, "Extract"))
    BY FreshAttempt DEF Activities
  <2>3. w0 \in ReadingType
    BY <2>2, DocumentsAssumption DEF ReadingType, Activities
  <2>4. /\ w0.attempt = Attempt(v, "Extract") /\ w0.activity = "Extract"
    OBVIOUS
  <2> HIDE DEF w0
  <2> QED BY <1>1, <1>2, <2>1, <2>2, <2>3, <2>4, WorkflowKeepsFacts
<1> QED BY <1>3, <1>4

\* An attempt given up is retried, and goes on beside its retry.
LEMMA GivenUpKeepsFacts ==
  ASSUME StoreInv, FactsInv, NEW v \in Numbers, GivenUp(v)
  PROVE  FactsInv'
<1> USE DEF FactsInv
<1> DEFINE a == reading[v].attempt
           a0 == [At(a, "again") EXCEPT !.doomed = {}]
           w0 == [reading[v] EXCEPT !.attempt = a0]
<1>1. /\ UNCHANGED <<rows, event, reviews>> /\ reading[v].activity \in Activities
      /\ reading[v] \in ReadingType /\ row[v].extraction # "none"
  BY DEF GivenUp, Running, FactsShape, ReadingsKnow, Activities
<1>2. a \in AttemptType /\ a.version = v /\ a.of = reading[v].activity
  BY <1>1 DEF ReadingType, ReadingsKnow
<1>3. /\ a0 \in AttemptType /\ a0.version = v /\ a0.of = a.of /\ a0.step = "again"
      /\ a0.doomed = {}
  BY <1>2 DEF At, AttemptType
<1>4. late' \subseteq late \cup (IF Answered(a) THEN {} ELSE {a})
  BY DEF GivenUp
<1>5. reading' = [reading EXCEPT ![v] = w0]
  BY DEF GivenUp, FactsShape
<1> HIDE DEF a0
<1>6. w0 \in ReadingType /\ w0.attempt = a0 /\ w0.activity = reading[v].activity
  BY <1>1, <1>3 DEF ReadingType
<1>7. AttemptOK(a0)
  BY <1>3 DEF AttemptOK
<1>8. event' \in [Numbers -> {"none", "pending", "handled", "again", "done"}]
      /\ \A w \in Numbers : event'[w] # "none" => row[w].extraction # "none"
  BY <1>1 DEF FactsShape, ReadingsKnow
<1>9. w0.activity \notin {"none", "ended"}
  BY <1>1, <1>6 DEF Activities
<1> HIDE DEF w0
<1> QED BY <1>1, <1>2, <1>3, <1>4, <1>5, <1>6, <1>7, <1>8, <1>9, WorkflowKeepsFacts

\* A workflow that goes to its next activity, or ends, has decided by then.
LEMMA AdvanceKeepsFacts ==
  ASSUME StoreInv, FactsInv, NEW v \in Numbers, WorkflowAdvances(v)
  PROVE  FactsInv'
<1> USE DEF FactsInv
<1> DEFINE w == reading[v]
           next == Follows(w.activity, w.attempt.step)
<1>1. /\ UNCHANGED <<rows, event, late, reviews>> /\ w.activity \in Activities
      /\ w \in ReadingType /\ row[v].extraction # "none" /\ Answered(w.attempt)
  BY DEF WorkflowAdvances, Running, FactsShape, ReadingsKnow, Activities
<1>2. /\ w.attempt \in AttemptType /\ w.attempt.version = v /\ w.attempt.of = w.activity
      /\ AttemptOK(w.attempt) /\ w.tries \in 0 .. MaxAttempts - 1
  BY <1>1 DEF ReadingType, ReadingsKnow
<1>3. event' \in [Numbers -> {"none", "pending", "handled", "again", "done"}]
      /\ \A x \in Numbers : event'[x] # "none" => row[x].extraction # "none"
  BY <1>1 DEF FactsShape, ReadingsKnow
<1>4. ASSUME NEW w0 \in ReadingType, reading' = [reading EXCEPT ![v] = w0],
             w0.attempt.version = v, AttemptOK(w0.attempt),
             w0.activity \in Activities => w0.attempt.of = w0.activity, w0.activity # "none",
             w0.activity = "ended" /\ row[v].extraction = "pending" =>
               w0.attempt.of # "Extract" /\ w0.tries = MaxAttempts - 1
      PROVE  FactsInv'
  BY <1>1, <1>3, <1>4, WorkflowKeepsFacts
<1>5. CASE Retries(w)
  <2> DEFINE w0 == [w EXCEPT !.attempt = Attempt(v, w.activity), !.tries = @ + 1]
  <2>1. reading' = [reading EXCEPT ![v] = w0]
    BY <1>5 DEF WorkflowAdvances
  <2>2. /\ Attempt(v, w.activity) \in AttemptType /\ Attempt(v, w.activity).version = v
        /\ Attempt(v, w.activity).of = w.activity /\ AttemptOK(Attempt(v, w.activity))
    BY <1>1, FreshAttempt
  <2>3. w.tries + 1 \in 0 .. MaxAttempts - 1
    BY <1>2, <1>5, DocumentsAssumption DEF Retries
  <2>4. w0 \in ReadingType /\ w0.attempt = Attempt(v, w.activity) /\ w0.activity = w.activity
    BY <1>1, <2>2, <2>3 DEF ReadingType
  <2>5. w0.activity \notin {"none", "ended"}
    BY <1>1, <2>4 DEF Activities
  <2> HIDE DEF w0, w
  <2> QED BY <1>4, <2>1, <2>2, <2>4, <2>5
<1>6. CASE ~Retries(w) /\ next = "ended"
  <2> DEFINE w0 == [w EXCEPT !.activity = "ended"]
  <2>1. reading' = [reading EXCEPT ![v] = w0]
    BY <1>6 DEF WorkflowAdvances
  <2>2. /\ w0 \in ReadingType /\ w0.attempt = w.attempt /\ w0.activity = "ended"
        /\ w0.tries = w.tries
    BY <1>1 DEF ReadingType
  <2>3. row[v].extraction = "pending" => w.activity # "Extract" /\ w.tries = MaxAttempts - 1
    <3> SUFFICES ASSUME row[v].extraction = "pending"
                 PROVE  w.activity # "Extract" /\ w.tries = MaxAttempts - 1
      OBVIOUS
    <3>1. w.attempt.step # "not_pending" /\ (w.attempt.step = "ok" => w.activity = "Extract")
      BY <1>2 DEF AttemptOK
    <3>2. w.activity # "Extract"
      BY <1>6, <3>1 DEF Follows
    <3>3. w.attempt.step = "again"
      BY <1>1, <1>2, <3>1, <3>2 DEF Answered, AttemptOK
    <3>4. ~(w.tries + 1 < MaxAttempts)
      BY <1>6, <3>3 DEF Retries
    <3> QED BY <1>2, <3>2, <3>4, DocumentsAssumption
  <2>4. "ended" \notin Activities
    BY DEF Activities
  <2> HIDE DEF w0, w
  <2> QED BY <1>2, <1>4, <2>1, <2>2, <2>3, <2>4
<1>7. CASE ~Retries(w) /\ next # "ended"
  <2> DEFINE w0 == [activity |-> next, attempt |-> Attempt(v, next), tries |-> 0]
  <2>1. reading' = [reading EXCEPT ![v] = w0]
    BY <1>7 DEF WorkflowAdvances
  <2>2. next \in Activities
    BY <1>7 DEF Follows, Activities
  <2>3. /\ Attempt(v, next) \in AttemptType /\ Attempt(v, next).version = v
        /\ Attempt(v, next).of = next /\ AttemptOK(Attempt(v, next))
    BY <2>2, FreshAttempt
  <2>4. 0 \in 0 .. MaxAttempts - 1
    BY DocumentsAssumption
  <2> HIDE DEF next
  <2>5. w0 \in ReadingType /\ w0.attempt = Attempt(v, next) /\ w0.activity = next
    BY <2>2, <2>3, <2>4 DEF ReadingType
  <2>6. w0.activity \notin {"none", "ended"}
    BY <2>2, <2>5 DEF Activities
  <2> HIDE DEF w0, w
  <2> QED BY <1>4, <2>1, <2>3, <2>5, <2>6
<1> QED BY <1>5, <1>6, <1>7

\* A review rewrites the status of a fact and nothing else of it.
LEMMA ReviewKeepsFacts ==
  ASSUME StoreInv, FactsInv, NEW f \in fact,
         NEW status \in {"confirmed", "corrected", "rejected"}, ReviewFact(f, status)
  PROVE  FactsInv' /\ reviews' > reviews
<1> USE OutcomeParts DEF FactsInv
<1> DEFINE f0 == [f EXCEPT !.status = status]
<1>1. /\ fact' = (fact \ {f}) \cup {f0} /\ reviews' = reviews + 1
      /\ UNCHANGED <<row, inserted, event, reading, late>> /\ f \in FactType
  BY DEF ReviewFact, FactsShape
<1>2. f0 \in FactType /\ f0.version = f.version /\ f0.span = f.span
  BY <1>1 DEF FactType
<1> HIDE DEF f0
<1>3. FactsShape' /\ reviews' > reviews
  BY <1>1, <1>2 DEF FactsShape
<1>4. ReadingsKnow'
  BY <1>1 DEF ReadingsKnow, AttemptOK
<1>5. FactsAgree'
  <2>1. ASSUME NEW v \in Numbers
        PROVE  /\ {g.span : g \in {h \in fact' : h.version = v}}
                    = {g.span : g \in {h \in fact : h.version = v}}
               /\ {g \in fact : g.version = v} = {} => {g \in fact' : g.version = v} = {}
    BY <1>1, <1>2
  <2> QED BY <1>1, <2>1 DEF FactsAgree
<1>6. OutcomesStored' /\ EndedDecided'
  BY <1>1 DEF OutcomesStored, EndedDecided
<1>7. FactsMatchOutcome'
  BY <1>5, <1>6 DEF FactsMatchOutcome, FactsAgree, OutcomesStored, EndedDecided
<1> QED BY <1>3, <1>4, <1>7

DocumentsInv == StoreInv /\ FactsInv

\* Each step keeps both parts, and takes back a reviewed fact only to review it.
LEMMA DocumentsStep ==
  ASSUME DocumentsInv, DocumentsNext
  PROVE  /\ DocumentsInv'
         /\ \A f \in fact : f.status # "proposed" /\ f \notin fact' => reviews' > reviews
<1> USE DEF DocumentsInv
<1>1. ASSUME NEW u \in Uploads, NextDocumentVersion(u) \/ InitiateUpload(u) \/ InsertDocument(u)
      PROVE  DocumentsInv' /\ fact' = fact
  <2>1. fact' = fact
    BY <1>1 DEF NextDocumentVersion, InitiateUpload, InsertDocument, rows
  <2> QED BY <1>1, <2>1, StartingKeepsStore, InsertDocumentKeepsStore, UploadsKeepFacts
<1>2. ASSUME NEW r \in VersionRequests,
             \/ \E op \in DOMAIN Begins, v \in Numbers : RequestReads(r, op, v)
             \/ StoreAnswers(r) \/ RequestMarks(r)
      PROVE  DocumentsInv' /\ fact' = fact
  <2>1. fact' = fact
    BY <1>2 DEF RequestReads, StoreAnswers, RequestMarks, rows
  <2>2. FactsInv'
    BY <1>2, RequestsKeepFacts
  <2> QED BY <1>2, <2>1, <2>2, RequestReadsKeepsStore, StoreAnswersKeepsStore, RequestMarksKeepsStore
<1>3. ASSUME NEW v \in Numbers,
             StartExtraction(v) \/ UploadedAgain(v) \/ GivenUp(v) \/ WorkflowAdvances(v)
      PROVE  DocumentsInv' /\ fact' = fact
  <2>1. UNCHANGED <<rows, store, start, request>>
    BY <1>3 DEF StartExtraction, UploadedAgain, GivenUp, WorkflowAdvances
  <2>2. StoreInv'
    BY <2>1, StoreUntouched DEF rows, store, StoreInv, StoreShape
  <2> QED BY <1>3, <2>1, <2>2, EventsKeepFacts, GivenUpKeepsFacts, AdvanceKeepsFacts DEF rows
<1>4. ASSUME (\E v \in Numbers : AttemptRuns(v)) \/ LateRuns
      PROVE  DocumentsInv' /\ \A f \in fact : f \notin fact' => f.status = "proposed"
  <2>1. FactsInv' /\ ExtractionMoves /\ OnlyProposedGo
    BY <1>4, RunningKeepsFacts
  <2>2. UNCHANGED <<multipart, object, start, request>>
    BY <1>4 DEF AttemptRuns, LateRuns, store
  <2>3. StoreInv'
    BY <2>1, <2>2, StoreUntouched DEF ExtractionMoves
  <2> QED BY <2>1, <2>3 DEF OnlyProposedGo
<1>5. ASSUME NEW f \in fact, NEW status \in {"confirmed", "corrected", "rejected"},
             ReviewFact(f, status)
      PROVE  DocumentsInv' /\ reviews' > reviews
  <2>1. UNCHANGED <<row, store, start, request>>
    BY <1>5 DEF ReviewFact
  <2>2. StoreInv'
    BY <2>1, StoreUntouched DEF store, StoreInv, StoreShape
  <2> QED BY <1>5, <2>2, ReviewKeepsFacts
<1> QED BY <1>1, <1>2, <1>3, <1>4, <1>5 DEF DocumentsNext

\* What the rows, the object store, the facts and the extraction workflows
\* keep between them.
THEOREM DocumentsInvariant == DocumentsSpec => []DocumentsInv
<1>1. DocumentsInit => DocumentsInv
  BY StoreInvInit, FactsInvInit DEF DocumentsInv
<1>2. DocumentsInv /\ [DocumentsNext]_documentsVars => DocumentsInv'
  <2> SUFFICES ASSUME DocumentsInv, [DocumentsNext]_documentsVars PROVE DocumentsInv'
    OBVIOUS
  <2>1. CASE UNCHANGED documentsVars
    <3>1. StoreInv'
      BY <2>1, StoreUntouched DEF documentsVars, rows, store, DocumentsInv, StoreInv, StoreShape
    <3>2. FactsInv'
      BY <2>1, FactsUntouched DEF documentsVars, rows, DocumentsInv
    <3> QED BY <3>1, <3>2 DEF DocumentsInv
  <2>2. CASE DocumentsNext
    BY <2>2, DocumentsStep
  <2> QED BY <2>1, <2>2
<1> QED BY <1>1, <1>2, PTL DEF DocumentsSpec

\* Every row agrees with the object store at every step of every other request
\* (CompleteUpload, AbortUpload, Delete).
THEOREM RowsAgreeWithStore == DocumentsSpec => []RowsMatchStore
<1>1. DocumentsInv => RowsMatchStore
  <2> SUFFICES ASSUME DocumentsInv, NEW v \in Numbers
               PROVE  Cardinality({u \in Uploads : start[u].step = "started" /\ start[u].version = v}) <= 1
    BY DEF RowsMatchStore, DocumentsInv, StoreInv, StoreDecides
  <2> DEFINE S == {u \in Uploads : start[u].step = "started" /\ start[u].version = v}
  <2>1. \A u, w \in S : u = w
    BY DEF DocumentsInv, StoreInv, OneUploadEach, Opened
  <2>2. CASE S = {}
    BY <2>2, FS_EmptySet
  <2>3. CASE S # {}
    <3>1. PICK u \in S : TRUE
      BY <2>3
    <3>2. S = {u}
      BY <2>1, <3>1
    <3>3. Cardinality({u}) = 1
      BY FS_Singleton
    <3> HIDE DEF S
    <3>4. Cardinality(S) <= 1
      BY <3>2, <3>3
    <3> QED BY <3>4 DEF S
  <2> QED BY <2>2, <2>3
<1> QED BY <1>1, DocumentsInvariant, PTL

\* A version is read into all its spans exactly when it says so, however its
\* attempts overlap (StoreFacts, MarkExtractionOutcome, ExtractionWorkflow).
THEOREM FactsAreTheOutcome == DocumentsSpec => []FactsMatchOutcome
<1>1. DocumentsInv => FactsMatchOutcome
  BY DEF DocumentsInv, FactsInv
<1> QED BY <1>1, DocumentsInvariant, PTL

\* No step of the pipeline takes back a reviewed fact (DeleteProposedFacts).
THEOREM ReviewsAreKept == DocumentsSpec => ReviewsKept
<1>1. DocumentsInv /\ [DocumentsNext]_documentsVars =>
        [\A f \in fact : f.status # "proposed" /\ f \notin fact' => reviews' > reviews]_documentsVars
  BY DocumentsStep
<1> QED BY <1>1, DocumentsInvariant, PTL DEF DocumentsSpec, ReviewsKept

=============================================================================
