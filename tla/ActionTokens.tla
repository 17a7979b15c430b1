---------------------------- MODULE ActionTokens ----------------------------
(***************************************************************************)
(* Single-use tokens by email (identity/tokens.go, flows.go), for one      *)
(* account.  A request supersedes the live tokens of its purpose, stores   *)
(* its own and enqueues its email in one transaction.  A link is presented *)
(* by whoever its email reached; a code is typed, compared with the newest *)
(* live one, and a wrong one is counted.  The email queue (EmailQueue) may *)
(* deliver an email at any time after the commit.  The cooldown is a fixed *)
(* window that admits two requests next to each other, so requests of one  *)
(* purpose may overlap.                                                    *)
(***************************************************************************)
EXTENDS Naturals, FiniteSets

CONSTANTS
  LinkTokens, CodeTokens, \* the tokens of two purposes
  Presentations,          \* links followed and codes typed
  MaxWrong                \* wrong guesses that kill a code (5)

ASSUME TokensAssumption ==
  /\ LinkTokens \cap CodeTokens = {} /\ IsFiniteSet(LinkTokens \cup CodeTokens)
  /\ MaxWrong \in Nat \ {0}

VARIABLES
  token,        \* per token: its row, state "absent" before it is stored
  issue,        \* per token: where its request is, what it superseded, its place
                \* among the commits and (history) the commits before it began
  mailed,       \* tokens whose email arrived
  presentation, \* per presentation: where it is and which token it is about
  effects,      \* per token: times its mark and effect were committed
  granted       \* presentations that were issued a session

tokenVars == <<token, issue, mailed, presentation, effects, granted>>

Tokens == LinkTokens \cup CodeTokens
Purpose(t) == IF t \in LinkTokens THEN LinkTokens ELSE CodeTokens
Unsettled(t) == token[t].state = "live"

TokensInit ==
  /\ token = [t \in Tokens |-> [state |-> "absent", expired |-> FALSE, attempts |-> 0]]
  /\ issue = [t \in Tokens |-> [step |-> "idle", replaces |-> {}, place |-> 0, after |-> {}]]
  /\ presentation = [v \in Presentations |-> [step |-> "idle", of |-> {}]]
  /\ mailed = {} /\ effects = [t \in Tokens |-> 0] /\ granted = {}

\* A row an open transaction has superseded makes the next writer wait.
RowLocked(t) == \E o \in Tokens : issue[o].step = "insert" /\ t \in issue[o].replaces

\* SupersedeActionTokens' WHERE clause.
LiveOfPurpose(t) == {o \in Purpose(t) : Unsettled(o)}

Committed == {t \in Tokens : issue[t].step = "over"}

\* sendToken, sendCode: the first statement of IssueActionToken.
SupersedeActionTokens(t) ==
  /\ issue[t].step = "idle" /\ \A o \in LiveOfPurpose(t) : ~RowLocked(o)
  /\ issue' = [issue EXCEPT ![t].step = "insert", ![t].replaces = LiveOfPurpose(t),
                            ![t].after = Committed \cap Purpose(t)]
  /\ UNCHANGED <<token, mailed, presentation, effects, granted>>

\* InsertActionToken, the email, the commit.
InsertActionToken(t) ==
  /\ issue[t].step = "insert"
  /\ token' = [o \in Tokens |->
       CASE o = t -> [token[o] EXCEPT !.state = "live"]
         [] o \in issue[t].replaces \ {t} -> [token[o] EXCEPT !.state = "superseded"]
         [] OTHER -> token[o]]
  /\ issue' = [issue EXCEPT ![t].step = "over", ![t].place = Cardinality(Committed) + 1]
  /\ UNCHANGED <<mailed, presentation, effects, granted>>

\* The transaction fails: no token and no email.
IssueFails(t) ==
  /\ issue[t].step = "insert"
  /\ issue' = [issue EXCEPT ![t].step = "failed"]
  /\ UNCHANGED <<token, mailed, presentation, effects, granted>>

\* The email queue's promise.
EmailArrives(t) ==
  /\ issue[t].step = "over" /\ t \notin mailed
  /\ mailed' = mailed \cup {t}
  /\ UNCHANGED <<token, issue, presentation, effects, granted>>

\* Time passes.
TokenExpires(t) ==
  /\ Unsettled(t) /\ ~token[t].expired
  /\ token' = [token EXCEPT ![t].expired = TRUE]
  /\ UNCHANGED <<issue, mailed, presentation, effects, granted>>

----------------------------------------------------------------------------
(* Presentations.                                                          *)

\* consumable: a used, superseded or expired token ends the presentation.
PresentLink(v, t) ==
  /\ presentation[v].step = "idle" /\ t \in mailed
  /\ presentation' = [presentation EXCEPT ![v] =
       [step |-> IF Unsettled(t) /\ ~token[t].expired THEN "consume" ELSE "over", of |-> {t}]]
  /\ UNCHANGED <<token, issue, mailed, effects, granted>>

\* FindLiveOTP: the newest live code.
NewestCode == {t \in CodeTokens : Unsettled(t) /\
  \A o \in CodeTokens : Unsettled(o) => issue[o].place <= issue[t].place}

\* ConfirmOTP: the code typed is the right one only if its email arrived.
TypeCode(v) ==
  /\ presentation[v].step = "idle"
  /\ \E t \in NewestCode :
       \E step \in (IF token[t].expired THEN {"over"}
                    ELSE {"guess"} \cup {s \in {"consume"} : t \in mailed}) :
         presentation' = [presentation EXCEPT ![v] = [step |-> step, of |-> {t}]]
  /\ UNCHANGED <<token, issue, mailed, effects, granted>>

\* Mutant: the guess that reaches the cap is forgiven.
CapPassed(n) == n > MaxWrong

\* The cap on wrong guesses.
CapReached(n) == n >= MaxWrong

\* RecordTokenAttempt, whatever the token's state, and the cap.
RecordTokenAttempt(v) ==
  /\ presentation[v].step = "guess"
  /\ \E t \in presentation[v].of :
       /\ ~RowLocked(t)
       /\ token' = [token EXCEPT ![t].attempts = @ + 1]
       /\ presentation' = [presentation EXCEPT ![v].step =
            IF CapReached(token[t].attempts + 1) THEN "kill" ELSE "over"]
  /\ UNCHANGED <<issue, mailed, effects, granted>>

\* Mutant: the mark does not ask whether the token is live.
UsesAny(t) == token[t].state # "absent"

\* MarkActionTokenUsed's WHERE clause.
Usable(t) == Unsettled(t)

\* ConsumeForSignIn: the mark and its effect in one transaction, for the first
\* presentation; a code at its cap takes the same path and signs nobody in.
ConsumeToken(v) ==
  /\ presentation[v].step \in {"consume", "kill"}
  /\ \E t \in presentation[v].of :
       /\ ~RowLocked(t)
       /\ IF Usable(t)
            THEN /\ token' = [token EXCEPT ![t].state = "used"]
                 /\ effects' = [effects EXCEPT ![t] = @ + 1]
                 /\ presentation' = [presentation EXCEPT
                      ![v].step = IF @ = "consume" THEN "won" ELSE "over"]
            ELSE /\ presentation' = [presentation EXCEPT ![v].step = "over"]
                 /\ UNCHANGED <<token, effects>>
  /\ UNCHANGED <<issue, mailed, granted>>

\* The session is issued after the consume commits, or the process dies.
IssueSession(v) ==
  /\ presentation[v].step = "won"
  /\ presentation' = [presentation EXCEPT ![v].step = "over"]
  /\ \E g \in SUBSET {v} : granted' = granted \cup g
  /\ UNCHANGED <<token, issue, mailed, effects>>

TokensNext ==
  \/ \E t \in Tokens : \/ SupersedeActionTokens(t) \/ InsertActionToken(t) \/ IssueFails(t)
                       \/ EmailArrives(t) \/ TokenExpires(t)
  \/ \E v \in Presentations :
       \/ \E t \in LinkTokens : PresentLink(v, t)
       \/ TypeCode(v) \/ RecordTokenAttempt(v) \/ ConsumeToken(v) \/ IssueSession(v)

TokensSpec == TokensInit /\ [][TokensNext]_tokenVars

----------------------------------------------------------------------------
TokensTypeOK ==
  /\ token \in [Tokens -> [state : {"absent", "live", "used", "superseded"}, expired : BOOLEAN,
                           attempts : 0 .. Cardinality(Presentations)]]
  /\ issue \in [Tokens -> [step : {"idle", "insert", "over", "failed"}, replaces : SUBSET Tokens,
                           place : 0 .. Cardinality(Tokens), after : SUBSET Tokens]]
  /\ presentation \in [Presentations ->
       [step : {"idle", "guess", "kill", "consume", "won", "over"}, of : SUBSET Tokens]]
  /\ mailed \subseteq Tokens /\ granted \subseteq Presentations
  /\ effects \in [Tokens -> 0 .. Cardinality(Presentations)]

\* However many presentations race, a token's effect is committed once, only
\* for a token that is then used for good, and a session is issued only to
\* one presentation of a token whose email arrived (MarkActionTokenUsed,
\* ConsumeForSignIn, ConsumeMagicLink).
OneEffect ==
  /\ \A t \in Tokens : effects[t] <= 1 /\ (effects[t] = 1 <=> token[t].state = "used")
  /\ \A v \in granted : \A t \in presentation[v].of :
       t \in mailed /\ \A w \in granted : t \in presentation[w].of => w = v

\* Which tokens still work.  Two of one purpose do only when the requests for
\* them overlapped: neither was committed when the other's request began.  A
\* code that was guessed wrong as often as it may be does only until the
\* guess that reached the cap has killed it (IssueActionToken,
\* SupersedeActionTokens, RecordTokenAttempt, ConfirmOTP).
WorkingTokens ==
  /\ \A i, j \in Tokens :
       Unsettled(i) /\ Unsettled(j) /\ Purpose(i) = Purpose(j) => i \notin issue[j].after
  /\ \A t \in CodeTokens :
       token[t].attempts >= MaxWrong /\ Unsettled(t) =>
         \E v \in Presentations : presentation[v].step = "kill" /\ t \in presentation[v].of

=============================================================================
