-------------------------- MODULE WorkflowsProofs ---------------------------
(***************************************************************************)
(* Proofs about the background work, for every number of requests,         *)
(* attempts, faults, emails and senders: the composition of sessions       *)
(* (Composition), the evaluation of one (Evaluation) and the email queue   *)
(* (EmailQueue), and from them about the three side by side (Workflows).   *)
(***************************************************************************)
EXTENDS Workflows, TLAPS

-----------------------------------------------------------------------------
(* The email queue.                                                        *)

MailRows == [there : BOOLEAN, due : BOOLEAN, sent : BOOLEAN, dead : BOOLEAN,
             attempts : Nat, body : {"whole", "erased"}]
Copies == [mail : Mails, body : {"whole", "erased"}]

MailShape ==
  /\ mail \in [Mails -> MailRows]
  /\ held \in [Senders -> SUBSET Copies]
  /\ outcome \in [Senders -> {Idle} \cup Outcomes]
  /\ handed \in [Mails -> SUBSET {"whole", "erased"}]

\* An email given up has failed as often as it may; only one that was sent is
\* erased.
RowsTell ==
  \A m \in Mails :
    /\ mail[m].dead => mail[m].attempts >= MaxSends
    /\ mail[m].body = "erased" => mail[m].sent

\* Whatever a sender holds was claimed before the row was erased, and so was
\* what was handed over.
CopiesAreWhole ==
  /\ \A s \in Senders : \A c \in held[s] : c.body = "whole"
  /\ \A s \in Senders : outcome[s] # Idle => outcome[s].body = "whole"
  /\ \A m \in Mails : "erased" \notin handed[m]

MailInv == MailShape /\ RowsTell /\ CopiesAreWhole

\* What a recruiter is told of one row.
RowStatus(r) ==
  IF ~r.there THEN "unknown" ELSE IF r.dead THEN "failed" ELSE IF r.sent THEN "sent" ELSE "pending"

\* A row only moves forward, and is one of the rows RowsTell speaks of.
RowForward(r, q) ==
  /\ q \in MailRows
  /\ q.dead => q.attempts >= MaxSends
  /\ q.body = "erased" => q.sent
  /\ RowStatus(r) \in {"sent", "failed"} => RowStatus(q) \in {"sent", "failed"}
  /\ RowStatus(r) = "failed" => RowStatus(q) = "failed"

\* Each change of a row moves it forward: it is enqueued, comes due, is
\* hidden, is sent, or fails once more.
LEMMA RowsForward ==
  ASSUME NEW r \in MailRows, r.dead => r.attempts >= MaxSends, r.body = "erased" => r.sent
  PROVE  /\ RowForward(r, r)
         /\ ~r.there => RowForward(r, [r EXCEPT !.there = TRUE, !.due = TRUE])
         /\ RowForward(r, [r EXCEPT !.due = TRUE])
         /\ RowForward(r, [r EXCEPT !.due = FALSE])
         /\ RowForward(r, Sent(r))
         /\ RowForward(r, Failed(r))
<1> USE DEF RowForward, MailRows, RowStatus
<1>1. RowForward(r, r)
  OBVIOUS
<1>2. ~r.there => RowForward(r, [r EXCEPT !.there = TRUE, !.due = TRUE])
  OBVIOUS
<1>3. RowForward(r, [r EXCEPT !.due = TRUE]) /\ RowForward(r, [r EXCEPT !.due = FALSE])
  OBVIOUS
<1>4. RowForward(r, Sent(r))
  BY DEF Sent
<1>5. RowForward(r, Failed(r))
  <2>0. MaxSends \in Nat /\ r.attempts \in Nat
    BY EmailAssumption
  <2>1. r.attempts + 1 \in Nat /\ (r.attempts + 1 >= MaxSends) \in BOOLEAN
    BY <2>0
  <2>2. Failed(r) \in MailRows
    BY <2>1 DEF Failed
  <2>3. /\ Failed(r).there = r.there /\ Failed(r).sent = r.sent /\ Failed(r).body = r.body
        /\ Failed(r).attempts = r.attempts + 1
        /\ Failed(r).dead = (r.attempts + 1 >= MaxSends)
    BY DEF Failed
  <2>4. r.dead => Failed(r).dead
    BY <2>0, <2>3
  <2> QED BY <2>0, <2>2, <2>3, <2>4
<1> QED BY <1>1, <1>2, <1>3, <1>4, <1>5

\* Rows that move forward keep what the rows tell and what recruiters are told.
LEMMA ForwardKeepsMail ==
  ASSUME MailShape, mail' \in [Mails -> MailRows],
         \A m \in Mails : RowForward(mail[m], mail'[m])
  PROVE  /\ RowsTell'
         /\ \A m \in Mails :
              /\ DeliveryStatus(m) \in {"sent", "failed"} => DeliveryStatus(m)' \in {"sent", "failed"}
              /\ DeliveryStatus(m) = "failed" => DeliveryStatus(m)' = "failed"
<1>1. RowsTell'
  BY DEF RowForward, RowsTell
<1>2. \A m \in Mails : DeliveryStatus(m) = RowStatus(mail[m])
  BY DEF DeliveryStatus, RowStatus
<1>3. \A m \in Mails : DeliveryStatus(m)' = RowStatus(mail'[m])
  BY DEF DeliveryStatus, RowStatus
<1> QED BY <1>1, <1>2, <1>3 DEF RowForward

\* Enqueueing and coming due.
LEMMA RowsKeepMail ==
  ASSUME MailInv, NEW m \in Mails, Enqueue(m) \/ ComesDue(m)
  PROVE  MailInv' /\ \A n \in Mails : RowForward(mail[n], mail'[n])
<1> USE DEF MailInv
<1>1. UNCHANGED <<held, outcome, handed>>
  BY DEF Enqueue, ComesDue
<1>2. mail[m] \in MailRows
  BY DEF MailShape
<1>3. /\ RowForward(mail[m], mail'[m])
      /\ \A n \in Mails : n # m => mail'[n] = mail[n]
      /\ mail' = [mail EXCEPT ![m] = mail'[m]]
  <2>1. CASE Enqueue(m)
    <3>1. mail' = [mail EXCEPT ![m] = [mail[m] EXCEPT !.there = TRUE, !.due = TRUE]] /\ ~mail[m].there
      BY <2>1 DEF Enqueue, MailShape
    <3>2. RowForward(mail[m], [mail[m] EXCEPT !.there = TRUE, !.due = TRUE])
      BY <1>2, <3>1, RowsForward DEF RowsTell
    <3> QED BY <3>1, <3>2 DEF MailShape
  <2>2. CASE ComesDue(m)
    <3>1. mail' = [mail EXCEPT ![m] = [mail[m] EXCEPT !.due = TRUE]]
      BY <2>2 DEF ComesDue, MailShape
    <3>2. RowForward(mail[m], [mail[m] EXCEPT !.due = TRUE])
      BY <1>2, RowsForward DEF RowsTell
    <3> QED BY <3>1, <3>2 DEF MailShape
  <2> QED BY <2>1, <2>2
<1>4. \A n \in Mails : mail[n] \in MailRows /\ RowForward(mail[n], mail[n])
  BY RowsForward DEF RowsTell, MailShape
<1>5. \A n \in Mails : RowForward(mail[n], mail'[n])
  BY <1>3, <1>4
<1>6. mail' \in [Mails -> MailRows]
  BY <1>3 DEF MailShape, RowForward
<1>7. MailShape' /\ CopiesAreWhole'
  BY <1>1, <1>6 DEF MailShape, CopiesAreWhole
<1>8. RowsTell'
  BY <1>5, <1>6, ForwardKeepsMail
<1> QED BY <1>5, <1>7, <1>8

\* The claim takes copies of rows that were not sent, hence not erased.
LEMMA ClaimKeepsMail ==
  ASSUME MailInv, NEW s \in Senders, ClaimMail(s)
  PROVE  MailInv' /\ \A n \in Mails : RowForward(mail[n], mail'[n])
<1> USE DEF MailInv
<1>1. UNCHANGED <<outcome, handed>>
  BY DEF ClaimMail
<1> DEFINE copies == {[mail |-> m, body |-> mail[m].body] : m \in Claimable}
<1>2. held' = [held EXCEPT ![s] = copies]
  BY DEF ClaimMail
<1>3. copies \subseteq Copies /\ \A c \in copies : c.body = "whole"
  BY DEF Claimable, Copies, MailShape, MailRows, RowsTell
<1> HIDE DEF copies
<1>4. mail' = [m \in Mails |-> IF m \in Claimable THEN [mail[m] EXCEPT !.due = FALSE] ELSE mail[m]]
  BY DEF ClaimMail
<1>5. \A n \in Mails : /\ RowForward(mail[n], mail[n])
                       /\ RowForward(mail[n], [mail[n] EXCEPT !.due = FALSE])
  BY RowsForward DEF RowsTell, MailShape
<1>6. \A n \in Mails : RowForward(mail[n], mail'[n])
  BY <1>4, <1>5
<1>7. mail' \in [Mails -> MailRows]
  BY <1>4, <1>6 DEF RowForward
<1>8. MailShape'
  BY <1>1, <1>2, <1>3, <1>7 DEF MailShape
<1>9. CopiesAreWhole'
  BY <1>1, <1>2, <1>3 DEF CopiesAreWhole, MailShape
<1> QED BY <1>6, <1>7, <1>8, <1>9, ForwardKeepsMail

\* The rest of a sender's steps but the record touch no row.
LEMMA SendingKeepsMail ==
  ASSUME MailInv, NEW s \in Senders,
         HandOver(s) \/ TransportAnswers(s) \/ OutcomeLost(s) \/ SenderDies(s)
  PROVE  MailInv' /\ \A n \in Mails : RowForward(mail[n], mail'[n])
<1> USE DEF MailInv
<1>1. mail' = mail
  BY DEF HandOver, TransportAnswers, OutcomeLost, SenderDies
<1>2. \A n \in Mails : RowForward(mail[n], mail'[n])
  BY <1>1, RowsForward DEF RowsTell, MailShape
<1>3. RowsTell'
  BY <1>1 DEF RowsTell
<1>4. outcome[s] # Idle => outcome[s] \in Outcomes /\ outcome[s].body = "whole"
  BY DEF MailShape, CopiesAreWhole
<1>5. CASE HandOver(s)
  <2>1. PICK c \in held[s] :
          /\ held' = [held EXCEPT ![s] = held[s] \ {c}]
          /\ outcome' = [outcome EXCEPT ![s] = [step |-> "sending", mail |-> c.mail, body |-> c.body]]
    BY <1>5 DEF HandOver, MailShape
  <2>2. c \in Copies /\ c.body = "whole"
    BY DEF MailShape, CopiesAreWhole
  <2> DEFINE o == [step |-> "sending", mail |-> c.mail, body |-> c.body]
  <2>3. o \in Outcomes /\ o.body = "whole"
    BY <2>2 DEF Copies, Outcomes
  <2> HIDE DEF o
  <2>4. outcome' = [outcome EXCEPT ![s] = o]
    BY <2>1 DEF o
  <2>5. handed' = handed
    BY <1>5 DEF HandOver
  <2>6. MailShape'
    BY <1>1, <2>1, <2>3, <2>4, <2>5 DEF MailShape
  <2>7. CopiesAreWhole'
    BY <2>1, <2>3, <2>4, <2>5 DEF MailShape, CopiesAreWhole
  <2> QED BY <1>2, <1>3, <2>6, <2>7
<1>6. CASE TransportAnswers(s)
  <2>1. outcome[s].step = "sending"
    BY <1>6 DEF TransportAnswers
  <2>2. outcome[s] # Idle
    BY <2>1 DEF Idle
  <2>3. PICK k \in {"sent", "failed"} : outcome' = [outcome EXCEPT ![s] = [outcome[s] EXCEPT !.step = k]]
    BY <1>6 DEF TransportAnswers, MailShape
  <2> DEFINE o == [outcome[s] EXCEPT !.step = k]
  <2>4. o \in Outcomes /\ o.body = "whole"
    BY <1>4, <2>2 DEF Outcomes
  <2> HIDE DEF o
  <2>5. outcome' = [outcome EXCEPT ![s] = o]
    BY <2>3 DEF o
  <2>6. held' = held
    BY <1>6 DEF TransportAnswers
  <2>7. outcome[s].mail \in Mails
    BY <1>4, <2>2 DEF Outcomes
  <2>8. handed' = handed \/ handed' = [handed EXCEPT ![outcome[s].mail] = @ \cup {outcome[s].body}]
    BY <1>6 DEF TransportAnswers
  <2>9. /\ handed' \in [Mails -> SUBSET {"whole", "erased"}]
        /\ \A m \in Mails : "erased" \notin handed'[m]
    BY <1>4, <2>2, <2>7, <2>8 DEF MailShape, CopiesAreWhole
  <2>10. MailShape'
    BY <1>1, <2>4, <2>5, <2>6, <2>9 DEF MailShape
  <2>11. CopiesAreWhole'
    BY <2>4, <2>5, <2>6, <2>9 DEF MailShape, CopiesAreWhole
  <2> QED BY <1>2, <1>3, <2>10, <2>11
<1>7. CASE OutcomeLost(s) \/ SenderDies(s)
  <2>1. /\ outcome' = [outcome EXCEPT ![s] = Idle] /\ handed' = handed
        /\ held' = held \/ held' = [held EXCEPT ![s] = {}]
    BY <1>7 DEF OutcomeLost, SenderDies
  <2>2. MailShape'
    BY <1>1, <2>1 DEF MailShape
  <2>3. CopiesAreWhole'
    BY <2>1 DEF MailShape, CopiesAreWhole
  <2> QED BY <1>2, <1>3, <2>2, <2>3
<1> QED BY <1>5, <1>6, <1>7

\* The outcome, recorded: sent once, or failed once more.
LEMMA RecordKeepsMail ==
  ASSUME MailInv, NEW s \in Senders, RecordOutcome(s)
  PROVE  MailInv' /\ \A n \in Mails : RowForward(mail[n], mail'[n])
<1> USE DEF MailInv
<1>1. outcome[s].step \in {"sent", "failed"} /\ UNCHANGED <<held, handed>>
  BY DEF RecordOutcome
<1>2. outcome[s].mail \in Mails
  BY <1>1 DEF MailShape, Outcomes, Idle
<1> DEFINE m == outcome[s].mail
           q == IF outcome[s].step = "sent" THEN Sent(mail[m]) ELSE Failed(mail[m])
<1>3. mail' = [mail EXCEPT ![m] = q]
  BY DEF RecordOutcome, MailShape
<1>4. RowForward(mail[m], q)
  BY <1>2, RowsForward DEF RowsTell, MailShape
<1>5. \A n \in Mails : RowForward(mail[n], mail[n])
  BY RowsForward DEF RowsTell, MailShape
<1>6. outcome' = [outcome EXCEPT ![s] = Idle]
  BY DEF RecordOutcome
<1> HIDE DEF q, m
<1>7. \A n \in Mails : RowForward(mail[n], mail'[n])
  BY <1>3, <1>4, <1>5 DEF MailShape
<1>8. mail' \in [Mails -> MailRows]
  BY <1>3, <1>4 DEF MailShape, RowForward
<1>9. MailShape'
  BY <1>1, <1>6, <1>8 DEF MailShape
<1>10. CopiesAreWhole'
  BY <1>1, <1>6 DEF MailShape, CopiesAreWhole
<1> QED BY <1>7, <1>8, <1>9, <1>10, ForwardKeepsMail

\* Every step keeps the invariant and moves every row forward.
LEMMA StepKeepsMail ==
  ASSUME MailInv, [MailNext]_mailVars
  PROVE  MailInv' /\ \A n \in Mails : RowForward(mail[n], mail'[n])
<1>1. CASE UNCHANGED mailVars
  <2>1. UNCHANGED <<mail, held, outcome, handed>>
    BY <1>1 DEF mailVars
  <2>2. \A n \in Mails : RowForward(mail[n], mail[n])
    BY RowsForward DEF MailInv, RowsTell, MailShape
  <2> QED BY <2>1, <2>2 DEF MailInv, MailShape, RowsTell, CopiesAreWhole
<1> QED BY <1>1, RowsKeepMail, ClaimKeepsMail, SendingKeepsMail, RecordKeepsMail
        DEF MailNext, SenderSteps

\* Every state of the queue satisfies the inductive invariant.
THEOREM MailInvariant == MailSpec => []MailInv
<1>1. MailInit => MailInv
  BY EmailAssumption DEF MailInit, MailInv, MailShape, MailRows, RowsTell, CopiesAreWhole
<1>2. MailInv /\ [MailNext]_mailVars => MailInv'
  BY StepKeepsMail
<1> QED BY <1>1, <1>2, PTL DEF MailSpec

(***************************************************************************)
(* What a recruiter is told of an email never goes back to pending, one    *)
(* given up stays so, and no erased body reaches the transport, for every  *)
(* number of senders, deaths and claims that outlive their window          *)
(* (notification.go Claim, MarkSent, RecordFailure, DeliveryStatus).       *)
(***************************************************************************)
THEOREM MailMovesForward == MailSpec => StatusForward
<1>1. MailInv /\ [MailNext]_mailVars =>
        [\A m \in Mails :
           /\ DeliveryStatus(m) \in {"sent", "failed"} => DeliveryStatus(m)' \in {"sent", "failed"}
           /\ DeliveryStatus(m) = "failed" => DeliveryStatus(m)' = "failed"
           /\ "erased" \notin handed'[m]]_mailVars
  <2> SUFFICES ASSUME MailInv, [MailNext]_mailVars, NEW m \in Mails
               PROVE  /\ DeliveryStatus(m) \in {"sent", "failed"} =>
                           DeliveryStatus(m)' \in {"sent", "failed"}
                      /\ DeliveryStatus(m) = "failed" => DeliveryStatus(m)' = "failed"
                      /\ "erased" \notin handed'[m]
    OBVIOUS
  <2>1. MailInv' /\ \A n \in Mails : RowForward(mail[n], mail'[n])
    BY StepKeepsMail
  <2>2. mail' \in [Mails -> MailRows] /\ MailShape
    BY <2>1 DEF MailInv, MailShape
  <2>3. /\ DeliveryStatus(m) \in {"sent", "failed"} => DeliveryStatus(m)' \in {"sent", "failed"}
        /\ DeliveryStatus(m) = "failed" => DeliveryStatus(m)' = "failed"
    BY <2>1, <2>2, ForwardKeepsMail
  <2> QED BY <2>1, <2>3 DEF MailInv, CopiesAreWhole
<1> QED BY <1>1, MailInvariant, PTL DEF MailSpec, StatusForward

-----------------------------------------------------------------------------
(* The composition of sessions.                                            *)

Flows == {"none", "compose", "ready", "composition_failed", "over"}
LateRows == [read : RowRead, to : {"ready", "composition_failed"}]

RowsShape ==
  /\ form \in [Orders -> SessionStates] /\ revision \in [Orders -> Nat]
  /\ bundle \in [Orders -> Digests \cup {None}] /\ announced \in [Orders -> Nat]
WorkShape ==
  /\ flow \in [Orders -> Flows] /\ composed \in [Orders -> Digests \cup {None}]
  /\ read \in [Orders -> RowRead] /\ lateMarks \in [Orders -> SUBSET LateRows]

\* A session is announced, and has its bundle, exactly from ready on.
ReadyExactly ==
  \A o \in Orders :
    /\ announced[o] = IF form[o] \in {"ready", "connecting"} THEN 1 ELSE 0
    /\ bundle[o] # None <=> form[o] \in {"ready", "connecting"}

\* Who marks a session ready, in time or late, was given a bundle.
ComposedFirst ==
  \A o \in Orders :
    /\ flow[o] = "ready" => composed[o] \in Digests
    /\ \A l \in lateMarks[o] : l.to = "ready" => composed[o] \in Digests

CompositionInv == RowsShape /\ WorkShape /\ ReadyExactly /\ ComposedFirst

\* What may happen to the row of a session: it is created, or moves along an
\* edge of the machine; to ready with a bundle, and back to composing only for
\* the request that read it after its composition failed.
Moving(o, to) ==
  /\ CanTransition(form[o], to) /\ Moved(o, to)
  /\ to = "ready" => composed[o] \in Digests
  /\ to = "composing" /\ form[o] # "draft" =>
       reply[o] = "compose" /\ got[o].state = "composition_failed"
Creating(o) ==
  /\ form[o] = "none" /\ form' = [form EXCEPT ![o] = "draft"]
  /\ UNCHANGED <<revision, bundle, announced>>
RowsStep ==
  \/ UNCHANGED rows
  \/ \E o \in Orders : Creating(o)
  \/ \E o \in Orders, to \in SessionStates : Moving(o, to)

\* What OutcomeKept says of one session.
KeepsOutcome(o) ==
  form[o] \in Decided =>
    /\ bundle'[o] = bundle[o]
    /\ form'[o] \in Decided \/ (reply[o] = "compose" /\ got[o].state = "composition_failed")
    /\ form[o] = "composition_failed" => form'[o] # "ready"

\* Every such change keeps the announcements and the outcomes.
LEMMA RowsStepKeeps ==
  ASSUME CompositionInv, RowsStep
  PROVE  RowsShape' /\ ReadyExactly' /\ \A o \in Orders : KeepsOutcome(o)
<1> USE DEF CompositionInv
<1>1. CASE UNCHANGED rows
  BY <1>1 DEF rows, RowsShape, ReadyExactly, KeepsOutcome
<1>2. ASSUME NEW o \in Orders, Creating(o)
      PROVE  RowsShape' /\ ReadyExactly' /\ \A p \in Orders : KeepsOutcome(p)
  <2>1. form'[o] = "draft" /\ \A p \in Orders : p # o => form'[p] = form[p]
    BY <1>2 DEF Creating, RowsShape
  <2>2. RowsShape'
    BY <1>2 DEF Creating, RowsShape, SessionStates
  <2>3. ReadyExactly'
    BY <1>2, <2>1 DEF Creating, ReadyExactly
  <2>4. \A p \in Orders : KeepsOutcome(p)
    BY <1>2, <2>1 DEF Creating, KeepsOutcome, Decided
  <2> QED BY <2>2, <2>3, <2>4
<1>3. ASSUME NEW o \in Orders, NEW to \in SessionStates, Moving(o, to)
      PROVE  RowsShape' /\ ReadyExactly' /\ \A p \in Orders : KeepsOutcome(p)
  <2>1. /\ form' = [form EXCEPT ![o] = to]
        /\ revision' = [revision EXCEPT ![o] = revision[o] + 1]
        /\ bundle' = [bundle EXCEPT ![o] = IF to = "ready" THEN composed[o] ELSE bundle[o]]
        /\ announced' = [announced EXCEPT ![o] = IF to = "ready" THEN announced[o] + 1 ELSE announced[o]]
    BY <1>3 DEF Moving, Moved, RowsShape
  <2>2. /\ form'[o] = to /\ bundle'[o] = (IF to = "ready" THEN composed[o] ELSE bundle[o])
        /\ announced'[o] = (IF to = "ready" THEN announced[o] + 1 ELSE announced[o])
        /\ \A p \in Orders : p # o =>
             form'[p] = form[p] /\ bundle'[p] = bundle[p] /\ announced'[p] = announced[p]
    BY <2>1 DEF RowsShape
  <2>3. RowsShape'
    <3>1. composed[o] \in Digests \cup {None} /\ revision[o] + 1 \in Nat /\ announced[o] + 1 \in Nat
      BY DEF WorkShape, RowsShape
    <3> QED BY <2>1, <3>1 DEF RowsShape
  <2>4. \/ to = "ready" /\ form[o] = "composing" /\ composed[o] \in Digests
        \/ to = "connecting" /\ form[o] = "ready"
        \/ to \in {"composing", "composition_failed"} /\ form[o] \in {"draft", "composing", "composition_failed"}
    BY <1>3 DEF Moving, CanTransition
  <2>5. None \notin Digests
    BY CompositionAssumption
  <2>6. ReadyExactly'
    BY <2>2, <2>4, <2>5 DEF ReadyExactly
  <2>7. KeepsOutcome(o)
    BY <1>3, <2>2, <2>4 DEF KeepsOutcome, Decided, Moving, CanTransition
  <2>8. \A p \in Orders : p # o => KeepsOutcome(p)
    BY <2>2 DEF KeepsOutcome
  <2> QED BY <2>3, <2>6, <2>7, <2>8
<1> QED BY <1>1, <1>2, <1>3 DEF RowsStep

\* A row read that still stands is the row.
LEMMA MovesFromTheRow ==
  ASSUME NEW o \in Orders, NEW r, NEW to, Moves(o, r, to)
  PROVE  r.state = form[o] /\ CanTransition(form[o], to)
BY DEF Moves, TransitionSession, SessionRow

\* The HTTP requests, the handler of the event and the candidate change rows as
\* allowed, and of the workflow they only start it.
LEMMA RequestsKeepComposition ==
  ASSUME CompositionInv, NEW o \in Orders,
         \/ Create(o) \/ RequestGets(o) \/ RequestComposes(o) \/ RedoLinks(o)
         \/ RequestDies(o)
         \/ RouteReads(o) \/ RouteActs(o) \/ RouteDies(o) \/ Start(o)
  PROVE  RowsStep /\ WorkShape' /\ ComposedFirst'
<1> USE DEF CompositionInv
<1>1. WorkShape' /\ ComposedFirst'
  <2>1. CASE UNCHANGED <<flow, composed, read, lateMarks>>
    BY <2>1 DEF WorkShape, ComposedFirst
  <2>2. CASE /\ flow' = [flow EXCEPT ![o] = "compose"]
             /\ UNCHANGED <<composed, read, lateMarks>>
    BY <2>2 DEF WorkShape, ComposedFirst, Flows
  <2> QED BY <2>1, <2>2 DEF Create, RequestGets, RequestComposes, RedoLinks, RequestDies,
             RouteReads, RouteActs, StartsWorkflow, RouteDies, Start, composition
<1>2. RowsStep
  <2>1. CASE Create(o)
    BY <2>1 DEF Create, Creating, RowsStep
  <2>2. CASE RequestGets(o) \/ RedoLinks(o) \/ RequestDies(o) \/ RouteReads(o) \/ RouteDies(o)
    BY <2>2 DEF RequestGets, RedoLinks, RequestDies, RouteReads, RouteDies, RowsStep
  <2>3. CASE RequestComposes(o)
    <3>1. CASE UNCHANGED rows
      BY <3>1 DEF RowsStep
    <3>2. CASE Moves(o, got[o], "composing") /\ Moved(o, "composing")
      <4>1. got[o].state = form[o] /\ CanTransition(form[o], "composing")
        BY <3>2, MovesFromTheRow
      <4>2. form[o] \in {"draft", "composition_failed"}
        BY <4>1 DEF CanTransition
      <4>3. Moving(o, "composing")
        BY <2>3, <3>2, <4>1, <4>2 DEF Moving, RequestComposes
      <4> QED BY <4>3 DEF RowsStep, SessionStates
    <3> QED BY <2>3, <3>1, <3>2 DEF RequestComposes
  <2>4. CASE RouteActs(o)
    <3>1. CASE UNCHANGED rows
      BY <3>1 DEF RowsStep
    <3>2. CASE FoundDraft(o) /\ Moves(o, route[o], "composing") /\ Moved(o, "composing")
      <4>1. form[o] = "draft" /\ CanTransition(form[o], "composing")
        BY <3>2, MovesFromTheRow DEF FoundDraft
      <4>2. Moving(o, "composing")
        BY <3>2, <4>1 DEF Moving
      <4> QED BY <4>2 DEF RowsStep, SessionStates
    <3> QED BY <2>4, <3>1, <3>2 DEF RouteActs
  <2>5. CASE Start(o)
    <3>1. Moving(o, "connecting")
      BY <2>5 DEF Start, Moving, CanTransition
    <3> QED BY <3>1 DEF RowsStep, SessionStates
  <2> QED BY <2>1, <2>2, <2>3, <2>4, <2>5
<1> QED BY <1>1, <1>2

\* The workflow's next activity, and another attempt of this one, leave the
\* bundle it was given and the late transitions alone.
LEMMA WorkflowMoves ==
  ASSUME CompositionInv, NEW o \in Orders, NEW next \in Flows,
         next = "ready" => composed'[o] \in Digests,
         composed' \in [Orders -> Digests \cup {None}],
         \A p \in Orders : composed[p] \in Digests => composed'[p] \in Digests,
         lateMarks' = lateMarks, Proceeds(o, next) \/ AttemptFails(o, next)
  PROVE  WorkShape' /\ ComposedFirst'
<1> USE DEF CompositionInv
<1>1. NoRead \in RowRead
  BY DEF NoRead, RowRead, SessionStates
<1>2. read' = [read EXCEPT ![o] = NoRead] /\ (flow' = flow \/ flow' = [flow EXCEPT ![o] = next])
  BY DEF Proceeds, AttemptFails
<1>3. WorkShape'
  BY <1>1, <1>2 DEF WorkShape
<1>4. ComposedFirst'
  BY <1>2 DEF WorkShape, ComposedFirst
<1> QED BY <1>3, <1>4

\* The workflow and what it left behind.
LEMMA WorkflowKeepsComposition ==
  ASSUME CompositionInv, NEW o \in Orders,
         Compose(o) \/ MarkReads(o) \/ MarkCommits(o) \/ MarkTimesOut(o) \/ LateCommits(o)
  PROVE  RowsStep /\ WorkShape' /\ ComposedFirst'
<1> USE DEF CompositionInv
<1>0. SessionRow(o) \in RowRead
  BY DEF SessionRow, RowRead, RowsShape
<1>1. CASE Compose(o)
  <2>1. RowsStep /\ lateMarks' = lateMarks
    BY <1>1 DEF Compose, RowsStep
  <2>2. CASE \E d \in Digests : composed' = [composed EXCEPT ![o] = d] /\ Proceeds(o, "ready")
    <3>1. PICK d \in Digests : composed' = [composed EXCEPT ![o] = d] /\ Proceeds(o, "ready")
      BY <2>2
    <3>2. /\ composed'[o] \in Digests /\ composed' \in [Orders -> Digests \cup {None}]
          /\ \A p \in Orders : composed[p] \in Digests => composed'[p] \in Digests
      BY <3>1 DEF WorkShape
    <3> QED BY <2>1, <3>1, <3>2, WorkflowMoves DEF Flows
  <2>3. CASE /\ Proceeds(o, "composition_failed") \/ AttemptFails(o, "composition_failed")
             /\ UNCHANGED composed
    <3>1. composed' \in [Orders -> Digests \cup {None}]
      BY <2>3 DEF WorkShape
    <3> QED BY <2>1, <2>3, <3>1, WorkflowMoves DEF Flows
  <2> QED BY <1>1, <2>2, <2>3 DEF Compose
<1>2. CASE MarkReads(o)
  <2>1. RowsStep /\ UNCHANGED <<composed, lateMarks>>
    BY <1>2 DEF MarkReads, RowsStep
  <2>2. CASE Proceeds(o, "over")
    <3>1. composed' \in [Orders -> Digests \cup {None}]
      BY <2>1 DEF WorkShape
    <3> QED BY <2>1, <2>2, <3>1, WorkflowMoves DEF Flows
  <2>3. CASE read' = [read EXCEPT ![o] = SessionRow(o)] /\ UNCHANGED flow
    BY <1>0, <2>1, <2>3 DEF WorkShape, ComposedFirst
  <2> QED BY <1>2, <2>1, <2>2, <2>3 DEF MarkReads
<1>3. CASE MarkCommits(o)
  <2>1. UNCHANGED <<composed, lateMarks>> /\ flow[o] \in {"ready", "composition_failed"}
    BY <1>3 DEF MarkCommits, Marking
  <2>2. composed' \in [Orders -> Digests \cup {None}]
    BY <2>1 DEF WorkShape
  <2>3. WorkShape' /\ ComposedFirst'
    BY <1>3, <2>1, <2>2, WorkflowMoves DEF MarkCommits, Flows
  <2>4. RowsStep
    <3>1. CASE UNCHANGED rows
      BY <3>1 DEF RowsStep
    <3>2. CASE Moves(o, read[o], flow[o]) /\ Moved(o, flow[o])
      <4>1. Moving(o, flow[o])
        BY <2>1, <3>2, MovesFromTheRow DEF Moving, ComposedFirst
      <4> QED BY <2>1, <4>1 DEF RowsStep, SessionStates
    <3> QED BY <1>3, <3>1, <3>2 DEF MarkCommits
  <2> QED BY <2>3, <2>4
<1>4. CASE MarkTimesOut(o)
  <2> DEFINE l == [read |-> read[o], to |-> flow[o]]
  <2>1. /\ RowsStep /\ UNCHANGED composed /\ flow[o] \in {"ready", "composition_failed"}
        /\ lateMarks' = [lateMarks EXCEPT ![o] = lateMarks[o] \cup {l}]
    BY <1>4 DEF MarkTimesOut, RowsStep, Marking, WorkShape
  <2>2. l \in LateRows /\ l.to = flow[o]
    BY <2>1 DEF LateRows, WorkShape
  <2> HIDE DEF l
  <2>3. NoRead \in RowRead
    BY DEF NoRead, RowRead, SessionStates
  <2>4. read' = [read EXCEPT ![o] = NoRead] /\ (flow' = flow \/ flow' = [flow EXCEPT ![o] = "over"])
    BY <1>4 DEF MarkTimesOut, Proceeds, AttemptFails
  <2>5. WorkShape'
    BY <2>1, <2>2, <2>3, <2>4 DEF WorkShape, Flows
  <2>6. ComposedFirst'
    BY <2>1, <2>2, <2>4 DEF WorkShape, ComposedFirst
  <2> QED BY <2>1, <2>5, <2>6
<1>5. CASE LateCommits(o)
  <2>1. PICK l \in lateMarks[o] :
          /\ lateMarks' = [lateMarks EXCEPT ![o] = lateMarks[o] \ {l}]
          /\ IF Moves(o, l.read, l.to) THEN Moved(o, l.to) ELSE UNCHANGED rows
          /\ UNCHANGED <<flow, composed, read>>
    BY <1>5 DEF LateCommits, WorkShape
  <2>2. l \in LateRows
    BY DEF WorkShape
  <2>3. WorkShape' /\ ComposedFirst'
    BY <2>1 DEF WorkShape, ComposedFirst
  <2>4. RowsStep
    <3>1. CASE UNCHANGED rows
      BY <3>1 DEF RowsStep
    <3>2. CASE Moves(o, l.read, l.to) /\ Moved(o, l.to)
      <4>1. l.to \in {"ready", "composition_failed"}
        BY <2>2 DEF LateRows
      <4>2. Moving(o, l.to)
        BY <3>2, <4>1, MovesFromTheRow DEF Moving, ComposedFirst
      <4> QED BY <4>1, <4>2 DEF RowsStep, SessionStates
    <3> QED BY <2>1, <3>1, <3>2
  <2> QED BY <2>3, <2>4
<1> QED BY <1>1, <1>2, <1>3, <1>4, <1>5

\* Every step keeps the invariant and the outcomes.
LEMMA StepKeepsComposition ==
  ASSUME CompositionInv, [CompositionNext]_compositionVars
  PROVE  CompositionInv' /\ \A o \in Orders : KeepsOutcome(o)
<1>1. RowsStep /\ WorkShape' /\ ComposedFirst'
  <2>1. CASE UNCHANGED compositionVars
    BY <2>1 DEF compositionVars, composition, RowsStep, CompositionInv, WorkShape, ComposedFirst
  <2>2. CASE CompositionNext
    BY <2>2, RequestsKeepComposition, WorkflowKeepsComposition DEF CompositionNext, WorkerStep
  <2> QED BY <2>1, <2>2
<1> QED BY <1>1, RowsStepKeeps DEF CompositionInv

\* Every state of the composition satisfies the inductive invariant.
THEOREM CompositionInvariant == CompositionSpec => []CompositionInv
<1>1. CompositionInit => CompositionInv
  <2> SUFFICES ASSUME CompositionInit PROVE CompositionInv
    OBVIOUS
  <2>1. NoRead \in RowRead
    BY DEF NoRead, RowRead, SessionStates
  <2>2. RowsShape /\ WorkShape
    BY <2>1 DEF CompositionInit, RowsShape, WorkShape, SessionStates, Flows
  <2>3. ReadyExactly /\ ComposedFirst
    BY DEF CompositionInit, ReadyExactly, ComposedFirst
  <2> QED BY <2>2, <2>3 DEF CompositionInv
<1>2. CompositionInv /\ [CompositionNext]_compositionVars => CompositionInv'
  BY StepKeepsComposition
<1> QED BY <1>1, <1>2, PTL DEF CompositionSpec

(***************************************************************************)
(* A session is announced ready at most once, with the bundle it pins, for *)
(* every number of requests, attempts and late transitions (workflow.go    *)
(* MarkReady, store.go Transition).                                        *)
(***************************************************************************)
THEOREM AnnouncedReadyOnce == CompositionSpec => []ReadyOnce
<1>1. CompositionInv => ReadyOnce
  BY DEF CompositionInv, ReadyExactly, ReadyOnce
<1> QED BY <1>1, CompositionInvariant, PTL

(***************************************************************************)
(* No step reopens a decided session or gives it another bundle, but its   *)
(* own request that read it after its composition had failed               *)
(* (composition_route.go startComposition, workflow.go MarkReady,          *)
(* MarkFailed).                                                            *)
(***************************************************************************)
THEOREM CompositionsStand == CompositionSpec => OutcomeKept
<1>1. CompositionInv /\ [CompositionNext]_compositionVars =>
        [\A o \in Orders : KeepsOutcome(o)]_compositionVars
  BY StepKeepsComposition
<1>2. CompositionSpec => [][\A o \in Orders : KeepsOutcome(o)]_compositionVars
  BY <1>1, CompositionInvariant, PTL DEF CompositionSpec
<1> QED BY <1>2 DEF OutcomeKept, KeepsOutcome

-----------------------------------------------------------------------------
(* Composition: who answers for a session that is not decided.             *)

RouteShape ==
  /\ event \in [Orders -> {"none", "pending", "handled"}] /\ route \in [Orders -> RowRead]
  /\ failedAttempts \in [Orders -> Nat] /\ compositionFaults \in Nat

\* A state takes as many moves to be reached.
RowReached(r) ==
  /\ r.state \in {"none", "draft"} => r.version = 0
  /\ r.state = "composing" => r.version >= 1
  /\ r.state \in Decided => r.version >= 2

\* A row as it was read at some time of this session's life.
ReadEarlier(o, r) ==
  r # NoRead => r.state # "none" /\ RowReached(r) /\ r.version <= revision[o]

\* The session is composing and was never decided.
FirstTime(o) == form[o] = "composing" /\ revision[o] <= 1

\* While it is, what refuses a workflow's transition is only a fault of its own.
FirstTimeWorks(o) ==
  FirstTime(o) =>
    /\ flow[o] = "none" => event[o] = "pending"
    /\ Marking(o) => failedAttempts[o] <= compositionFaults
    /\ flow[o] = "over" => compositionFaults >= MaxCompositionAttempts

AnsweredFor(o) ==
  /\ RowReached(SessionRow(o)) /\ ReadEarlier(o, route[o]) /\ ReadEarlier(o, read[o])
  /\ flow[o] # "none" => revision[o] >= 1
  /\ read[o] # NoRead => flow[o] # "none" /\ read[o].version >= 1
  /\ event[o] # "none" => form[o] # "none"
  /\ route[o] # NoRead => event[o] = "pending"
  /\ form[o] = "draft" => event[o] = "pending"
  /\ FirstTimeWorks(o)

StrandedInv == CompositionInv /\ RouteShape /\ \A o \in Orders : AnsweredFor(o)

\* A step leaves the session p alone.
LeavesAlone(p) ==
  /\ form'[p] = form[p] /\ revision'[p] = revision[p] /\ event'[p] = event[p] /\ route'[p] = route[p]
  /\ flow'[p] = flow[p] /\ failedAttempts'[p] = failedAttempts[p] /\ read'[p] = read[p]

\* The moves and the workflow's next activity, at the session they are about and
\* elsewhere.
LEMMA MovedAt ==
  ASSUME CompositionInv, NEW o \in Orders, NEW to, Moved(o, to)
  PROVE  /\ form'[o] = to /\ revision'[o] = revision[o] + 1
         /\ \A p \in Orders : p # o => form'[p] = form[p] /\ revision'[p] = revision[p]
BY DEF CompositionInv, RowsShape, Moved

LEMMA ProceedsAt ==
  ASSUME CompositionInv, RouteShape, NEW o \in Orders, NEW next, Proceeds(o, next)
  PROVE  /\ flow'[o] = next /\ failedAttempts'[o] = 0 /\ read'[o] = NoRead
         /\ \A p \in Orders : p # o =>
              flow'[p] = flow[p] /\ failedAttempts'[p] = failedAttempts[p] /\ read'[p] = read[p]
         /\ failedAttempts' \in [Orders -> Nat]
BY DEF CompositionInv, WorkShape, RouteShape, Proceeds

LEMMA AttemptFailsAt ==
  ASSUME CompositionInv, RouteShape, NEW o \in Orders, NEW next, AttemptFails(o, next)
  PROVE  /\ read'[o] = NoRead
         /\ \/ flow'[o] = flow[o] /\ failedAttempts'[o] = failedAttempts[o] + 1
            \/ /\ flow'[o] = next /\ failedAttempts'[o] = 0
               /\ failedAttempts[o] + 1 >= MaxCompositionAttempts
         /\ \A p \in Orders : p # o =>
              flow'[p] = flow[p] /\ failedAttempts'[p] = failedAttempts[p] /\ read'[p] = read[p]
         /\ failedAttempts' \in [Orders -> Nat]
<1>1. failedAttempts[o] \in Nat /\ MaxCompositionAttempts \in Nat
  BY CompositionAssumption DEF RouteShape
<1>2. CASE failedAttempts[o] + 1 < MaxCompositionAttempts
  BY <1>1, <1>2 DEF CompositionInv, WorkShape, RouteShape, AttemptFails
<1>3. CASE ~(failedAttempts[o] + 1 < MaxCompositionAttempts)
  <2>1. Proceeds(o, next)
    BY <1>3 DEF AttemptFails
  <2> QED BY <1>1, <1>3, <2>1, ProceedsAt
<1> QED BY <1>2, <1>3

\* A session that is left alone is answered for as before.
LEMMA AloneIsAnswered ==
  ASSUME StrandedInv, NEW p \in Orders, LeavesAlone(p),
         compositionFaults' \in Nat, compositionFaults' >= compositionFaults
  PROVE  AnsweredFor(p)'
<1>1. AnsweredFor(p) /\ compositionFaults \in Nat /\ failedAttempts[p] \in Nat
  BY DEF StrandedInv, RouteShape
<1>2. MaxCompositionAttempts \in Nat
  BY CompositionAssumption
<1>3. FirstTimeWorks(p)'
  BY <1>1, <1>2 DEF AnsweredFor, LeavesAlone, FirstTimeWorks, FirstTime, Marking
<1> QED BY <1>1, <1>3 DEF AnsweredFor, LeavesAlone, RowReached, ReadEarlier, SessionRow

\* What a step at the session o has to keep.
KeepsStranded(o) ==
  /\ RouteShape' /\ compositionFaults' >= compositionFaults
  /\ \A p \in Orders : p # o => LeavesAlone(p)
  /\ AnsweredFor(o)'

\* The HTTP requests and the candidate.
LEMMA RequestsStrandNone ==
  ASSUME StrandedInv, NEW o \in Orders,
         Create(o) \/ RequestGets(o) \/ RequestComposes(o) \/ RedoLinks(o) \/ RequestDies(o) \/ Start(o)
  PROVE  KeepsStranded(o)
<1> USE DEF StrandedInv
<1>1. /\ compositionFaults' \in Nat /\ compositionFaults' >= compositionFaults
      /\ UNCHANGED <<route, flow, failedAttempts, read>>
  BY DEF Create, RequestGets, RequestComposes, RedoLinks, RequestDies, Start, composition,
         CompositionFault, RouteShape
<1>2. AnsweredFor(o) /\ revision[o] \in Nat
  BY DEF CompositionInv, RowsShape
<1>3. CASE Create(o)
  <2>1. /\ form[o] = "none" /\ form'[o] = "draft" /\ revision' = revision /\ event'[o] = "pending"
        /\ \A p \in Orders : p # o => form'[p] = form[p] /\ event'[p] = event[p]
        /\ event' \in [Orders -> {"none", "pending", "handled"}]
    BY <1>3 DEF Create, CompositionInv, RowsShape, RouteShape
  <2>2. RouteShape'
    BY <1>1, <2>1 DEF RouteShape
  <2>3. AnsweredFor(o)'
    BY <1>1, <1>2, <2>1 DEF AnsweredFor, RowReached, ReadEarlier, SessionRow, FirstTimeWorks, FirstTime, Decided
  <2> QED BY <1>1, <2>1, <2>2, <2>3 DEF KeepsStranded, LeavesAlone
<1>4. CASE UNCHANGED <<rows, event>>
  <2>1. RouteShape' /\ \A p \in Orders : LeavesAlone(p)
    BY <1>1, <1>4 DEF RouteShape, LeavesAlone, rows
  <2> QED BY <1>1, <2>1, AloneIsAnswered DEF KeepsStranded
<1>5. ASSUME NEW to \in {"composing", "connecting"}, Moved(o, to), CanTransition(form[o], to), event' = event
      PROVE  KeepsStranded(o)
  <2>1. /\ form'[o] = to /\ revision'[o] = revision[o] + 1
        /\ \A p \in Orders : p # o => form'[p] = form[p] /\ revision'[p] = revision[p]
    BY <1>5, MovedAt
  <2>2. \/ form[o] = "draft" /\ to = "composing" /\ revision[o] = 0 /\ event[o] = "pending" /\ flow[o] = "none"
        \/ form[o] = "composition_failed" /\ to = "composing" /\ revision[o] >= 2
        \/ form[o] = "ready" /\ to = "connecting" /\ revision[o] >= 2
    BY <1>2, <1>5 DEF CanTransition, AnsweredFor, RowReached, SessionRow, Decided
  <2>3. AnsweredFor(o)'
    <3>1. RowReached(SessionRow(o))' /\ form'[o] # "none" /\ form'[o] # "draft"
      BY <1>2, <2>1, <2>2 DEF RowReached, SessionRow, Decided
    <3>2. ReadEarlier(o, route[o])' /\ ReadEarlier(o, read[o])'
      <4>1. (route[o] # NoRead => route[o].version \in Nat) /\ (read[o] # NoRead => read[o].version \in Nat)
        BY DEF RouteShape, CompositionInv, WorkShape, RowRead
      <4> QED BY <1>1, <1>2, <2>1, <4>1 DEF AnsweredFor, ReadEarlier, RowReached
    <3>3. FirstTimeWorks(o)'
      BY <1>1, <1>2, <1>5, <2>1, <2>2 DEF FirstTimeWorks, FirstTime, Marking
    <3>4. revision'[o] >= 1
      BY <1>2, <2>1
    <3> QED BY <1>1, <1>2, <1>5, <3>1, <3>2, <3>3, <3>4 DEF AnsweredFor
  <2>4. RouteShape'
    BY <1>1, <1>5 DEF RouteShape
  <2> QED BY <1>1, <1>5, <2>1, <2>3, <2>4 DEF KeepsStranded, LeavesAlone
<1>6. CASE RequestComposes(o)
  <2>1. CASE Moves(o, got[o], "composing") /\ Moved(o, "composing")
    BY <1>5, <1>6, <2>1, MovesFromTheRow DEF RequestComposes
  <2> QED BY <1>4, <1>6, <2>1 DEF RequestComposes
<1>7. CASE Start(o)
  BY <1>5, <1>7 DEF Start, CanTransition
<1> QED BY <1>3, <1>4, <1>6, <1>7 DEF RequestGets, RedoLinks, RequestDies

\* The handler of the event: it takes the event for handled only when the session
\* has left the draft, and of one that is composing it has started the workflow.
LEMMA RouteStrandsNone ==
  ASSUME StrandedInv, NEW o \in Orders, RouteReads(o) \/ RouteActs(o) \/ RouteDies(o)
  PROVE  KeepsStranded(o)
<1> USE DEF StrandedInv
<1>1. compositionFaults' \in Nat /\ compositionFaults' >= compositionFaults
  BY DEF RouteReads, RouteActs, RouteDies, CompositionFault, RouteShape
<1>2. AnsweredFor(o) /\ revision[o] \in Nat /\ flow[o] \in Flows /\ SessionRow(o) \in RowRead
  BY DEF CompositionInv, RowsShape, WorkShape, SessionRow, RowRead
<1>3. NoRead \in RowRead /\ NoRead.state = "none"
  BY DEF NoRead, RowRead, SessionStates
<1>4. ASSUME UNCHANGED <<rows, flow, failedAttempts, read>>,
             RouteShape', \A p \in Orders : p # o => event'[p] = event[p] /\ route'[p] = route[p],
             ReadEarlier(o, route'[o]), route'[o] # NoRead => event'[o] = "pending",
             \/ event'[o] = "pending" /\ form[o] # "none"
             \/ /\ event'[o] = "handled" /\ form[o] \notin {"none", "draft"}
                /\ FirstTime(o) => flow[o] # "none"
      PROVE  KeepsStranded(o)
  <2>2. form' = form /\ revision' = revision
    BY <1>4 DEF rows
  <2>3. FirstTimeWorks(o)'
    <3>1. failedAttempts[o] \in Nat /\ compositionFaults \in Nat /\ MaxCompositionAttempts \in Nat
      BY CompositionAssumption DEF RouteShape
    <3> QED BY <1>1, <1>2, <1>4, <2>2, <3>1 DEF AnsweredFor, FirstTimeWorks, FirstTime, Marking
  <2>4. AnsweredFor(o)'
    BY <1>2, <1>4, <2>2, <2>3 DEF AnsweredFor, RowReached, ReadEarlier, SessionRow
  <2> QED BY <1>1, <1>4, <2>2, <2>4 DEF KeepsStranded, LeavesAlone
<1>5. ReadEarlier(o, NoRead)
  BY DEF ReadEarlier
<1>6. ASSUME NEW r \in RowRead, NEW e \in {"pending", "handled"},
             route' = [route EXCEPT ![o] = r], event' = [event EXCEPT ![o] = e] \/ event' = event,
             UNCHANGED failedAttempts
      PROVE  /\ RouteShape' /\ route'[o] = r /\ (event' = event \/ event'[o] = e)
             /\ \A p \in Orders : p # o => event'[p] = event[p] /\ route'[p] = route[p]
  BY <1>1, <1>6 DEF RouteShape
<1>7. CASE RouteReads(o)
  <2>1. form[o] # "none" /\ ReadEarlier(o, SessionRow(o)) /\ event[o] = "pending"
    BY <1>2, <1>7 DEF RouteReads, AnsweredFor, ReadEarlier, SessionRow
  <2>2. /\ route' = [route EXCEPT ![o] = SessionRow(o)] /\ event' = event
        /\ UNCHANGED <<rows, flow, failedAttempts, read>>
    BY <1>7 DEF RouteReads, composition
  <2>3. /\ RouteShape' /\ route'[o] = SessionRow(o)
        /\ \A p \in Orders : p # o => event'[p] = event[p] /\ route'[p] = route[p]
    BY <1>2, <1>6, <2>2
  <2> QED BY <1>4, <2>1, <2>2, <2>3
<1>8. CASE RouteDies(o)
  <2>1. /\ UNCHANGED <<rows, flow, failedAttempts, read>> /\ form[o] # "none"
        /\ \/ event[o] = "pending" /\ event' = event /\ route' = [route EXCEPT ![o] = NoRead]
           \/ /\ event' = [event EXCEPT ![o] = "pending"]
              /\ route[o] = NoRead /\ route' = [route EXCEPT ![o] = NoRead]
    BY <1>2, <1>8 DEF RouteDies, AnsweredFor, RouteShape, composition
  <2>2. /\ RouteShape' /\ route'[o] = NoRead /\ event'[o] = "pending"
        /\ \A p \in Orders : p # o => event'[p] = event[p] /\ route'[p] = route[p]
    <3>1. route' = [route EXCEPT ![o] = NoRead] /\ failedAttempts' = failedAttempts
          /\ (event' = [event EXCEPT ![o] = "pending"] \/ event' = event)
      BY <2>1
    <3>2. event'[o] = "pending"
      BY <2>1 DEF RouteShape
    <3>3. /\ RouteShape' /\ route'[o] = NoRead
          /\ \A p \in Orders : p # o => event'[p] = event[p] /\ route'[p] = route[p]
      BY <1>3, <1>6, <3>1
    <3> QED BY <3>2, <3>3
  <2> QED BY <1>4, <1>5, <2>1, <2>2
<1>9. CASE RouteActs(o)
  <2>0. /\ route[o] # NoRead /\ event[o] = "pending" /\ route[o] \in RowRead /\ route[o].version \in Nat
        /\ RowReached(route[o]) /\ route[o].state # "none" /\ route[o].version <= revision[o]
    BY <1>2, <1>9 DEF RouteActs, AnsweredFor, ReadEarlier, RouteShape, RowRead
  <2>1. CASE /\ FoundDraft(o) /\ Moves(o, route[o], "composing")
             /\ Moved(o, "composing") /\ route' = [route EXCEPT ![o] = SessionRow(o)']
             /\ UNCHANGED <<event, composition>>
    <3>1. form[o] = "draft" /\ revision[o] = 0
      BY <1>2, <2>1, MovesFromTheRow DEF FoundDraft, AnsweredFor, RowReached, SessionRow
    <3>2. /\ form'[o] = "composing" /\ revision'[o] = 1
          /\ \A p \in Orders : p # o => form'[p] = form[p] /\ revision'[p] = revision[p]
      BY <2>1, <3>1, MovedAt
    <3>3. SessionRow(o)' = [state |-> "composing", version |-> 1]
      BY <3>2 DEF SessionRow
    <3>4. /\ route'[o] = [state |-> "composing", version |-> 1] /\ RouteShape'
          /\ \A p \in Orders : p # o => route'[p] = route[p]
      BY <1>1, <2>1, <3>3 DEF RouteShape, RowRead, SessionStates, composition
    <3>5. UNCHANGED <<event, flow, failedAttempts, read>> /\ flow[o] = "none" /\ read[o] = NoRead
      BY <1>2, <2>1, <3>1 DEF composition, AnsweredFor
    <3>6. RowReached(SessionRow(o))' /\ ReadEarlier(o, route[o])'
      BY <3>2, <3>3, <3>4 DEF RowReached, ReadEarlier, Decided
    <3>7. FirstTimeWorks(o)'
      BY <2>0, <3>5 DEF FirstTimeWorks, Marking
    <3>8. AnsweredFor(o)'
      BY <2>0, <3>2, <3>5, <3>6, <3>7 DEF AnsweredFor, ReadEarlier
    <3> QED BY <1>1, <3>2, <3>4, <3>5, <3>8 DEF KeepsStranded, LeavesAlone
  <2>2. CASE /\ FoundDraft(o) /\ ~Moves(o, route[o], "composing")
             /\ route' = [route EXCEPT ![o] = NoRead] /\ UNCHANGED <<rows, event, composition>>
    <3>1. UNCHANGED <<rows, flow, failedAttempts, read>> /\ form[o] # "none" /\ event' = event
      BY <1>2, <2>0, <2>2 DEF composition, AnsweredFor
    <3>2. /\ RouteShape' /\ route'[o] = NoRead
          /\ \A p \in Orders : p # o => event'[p] = event[p] /\ route'[p] = route[p]
      BY <1>3, <1>6, <2>2, <3>1
    <3> QED BY <1>4, <1>5, <2>0, <3>1, <3>2
  <2>3. CASE /\ route[o].state = "composing" /\ StartsWorkflow(o)
             /\ route' = [route EXCEPT ![o] = NoRead] /\ UNCHANGED rows
    <3>1. form[o] \notin {"none", "draft"} /\ revision[o] >= 1
      BY <1>2, <2>0, <2>3 DEF AnsweredFor, RowReached, SessionRow
    <3>2. CASE flow[o] # "none"
      <4>1. event' = [event EXCEPT ![o] = "handled"] /\ UNCHANGED <<flow, failedAttempts, read>>
        BY <2>3, <3>2 DEF StartsWorkflow, Startable, composition
      <4>2. /\ RouteShape' /\ route'[o] = NoRead /\ event'[o] = "handled"
            /\ \A p \in Orders : p # o => event'[p] = event[p] /\ route'[p] = route[p]
        BY <1>1, <1>3, <2>3, <4>1 DEF RouteShape
      <4> QED BY <1>4, <1>5, <2>3, <3>1, <3>2, <4>1, <4>2
    <3>3. CASE flow[o] = "none"
      <4>1. /\ event' = [event EXCEPT ![o] = "handled"] /\ flow' = [flow EXCEPT ![o] = "compose"]
            /\ failedAttempts' = [failedAttempts EXCEPT ![o] = 0] /\ read' = read
        BY <2>3, <3>3 DEF StartsWorkflow, Startable
      <4>2. /\ event'[o] = "handled" /\ route'[o] = NoRead /\ flow'[o] = "compose" /\ RouteShape'
            /\ \A p \in Orders : p # o => /\ event'[p] = event[p] /\ route'[p] = route[p]
                                          /\ flow'[p] = flow[p] /\ failedAttempts'[p] = failedAttempts[p]
        BY <1>1, <1>3, <2>3, <4>1 DEF RouteShape, CompositionInv, WorkShape
      <4>3. form' = form /\ revision' = revision /\ read[o] = NoRead
        BY <1>2, <2>3, <3>3 DEF rows, AnsweredFor
      <4>4. FirstTimeWorks(o)'
        BY <4>2 DEF FirstTimeWorks, Marking
      <4>5. AnsweredFor(o)'
        BY <1>2, <3>1, <4>1, <4>2, <4>3, <4>4 DEF AnsweredFor, ReadEarlier, RowReached, SessionRow
      <4> QED BY <1>1, <4>1, <4>2, <4>3, <4>5 DEF KeepsStranded, LeavesAlone
    <3> QED BY <3>2, <3>3
  <2>4. CASE /\ ~FoundDraft(o) /\ route[o].state # "composing"
             /\ event' = [event EXCEPT ![o] = "handled"]
             /\ route' = [route EXCEPT ![o] = NoRead] /\ UNCHANGED <<rows, composition>>
    <3>1. route[o].state \in Decided
      BY <2>0, <2>4 DEF FoundDraft, RowRead, SessionStates, Decided
    <3>2. revision[o] >= 2
      BY <1>2, <2>0, <3>1 DEF RowReached
    <3>3. form[o] \notin {"none", "draft"} /\ ~FirstTime(o)
      BY <1>2, <3>2 DEF AnsweredFor, RowReached, SessionRow, FirstTime
    <3>4. UNCHANGED <<flow, failedAttempts, read>>
      BY <2>4 DEF composition
    <3>5. /\ RouteShape' /\ route'[o] = NoRead /\ event'[o] = "handled"
          /\ \A p \in Orders : p # o => event'[p] = event[p] /\ route'[p] = route[p]
      BY <1>1, <1>3, <2>4, <3>4 DEF RouteShape
    <3> QED BY <1>4, <1>5, <2>4, <3>3, <3>4, <3>5
  <2> QED BY <1>9, <2>1, <2>2, <2>3, <2>4 DEF RouteActs
<1> QED BY <1>7, <1>8, <1>9

\* The workflow: the transition of a session that was never decided is refused to
\* none of its attempts, so it ends short of one only by its faults.
LEMMA WorkflowStrandsNone ==
  ASSUME StrandedInv, NEW o \in Orders,
         Compose(o) \/ MarkReads(o) \/ MarkCommits(o) \/ MarkTimesOut(o) \/ LateCommits(o)
  PROVE  KeepsStranded(o)
<1> USE DEF StrandedInv
<1>1. /\ compositionFaults' \in Nat /\ compositionFaults' >= compositionFaults
      /\ UNCHANGED <<event, route>>
  BY DEF Compose, MarkReads, MarkCommits, MarkTimesOut, LateCommits, CompositionFault, RouteShape
<1>2. /\ AnsweredFor(o) /\ revision[o] \in Nat /\ flow[o] \in Flows /\ SessionRow(o) \in RowRead
      /\ failedAttempts[o] \in Nat /\ compositionFaults \in Nat /\ MaxCompositionAttempts \in Nat
      /\ read[o] \in RowRead
  BY CompositionAssumption DEF CompositionInv, RowsShape, WorkShape, SessionRow, RowRead, RouteShape
\* Its row stays, and it has read nothing or read the row.
<1>3. ASSUME UNCHANGED rows, failedAttempts' \in [Orders -> Nat],
             \A p \in Orders : p # o =>
               flow'[p] = flow[p] /\ failedAttempts'[p] = failedAttempts[p] /\ read'[p] = read[p],
             flow[o] # "none", flow'[o] # "none", read'[o] \in {NoRead, SessionRow(o)},
             FirstTimeWorks(o)'
      PROVE  KeepsStranded(o)
  <2>1. form' = form /\ revision' = revision
    BY <1>3 DEF rows
  <2>2. form[o] # "none" /\ revision[o] >= 1
    BY <1>2, <1>3 DEF AnsweredFor, RowReached, SessionRow
  <2>3. ReadEarlier(o, read[o])' /\ (read'[o] # NoRead => read'[o].version >= 1)
    BY <1>2, <1>3, <2>1, <2>2 DEF ReadEarlier, AnsweredFor, RowReached, SessionRow
  <2>4. AnsweredFor(o)'
    BY <1>1, <1>2, <1>3, <2>1, <2>3 DEF AnsweredFor, RowReached, ReadEarlier, SessionRow
  <2>5. RouteShape'
    BY <1>1, <1>3 DEF RouteShape
  <2> QED BY <1>1, <1>3, <2>1, <2>4, <2>5 DEF KeepsStranded, LeavesAlone
\* Its row moves to ready or to failed.
<1>4. ASSUME NEW to \in {"ready", "composition_failed"}, CanTransition(form[o], to), Moved(o, to),
             failedAttempts' \in [Orders -> Nat],
             \A p \in Orders : p # o =>
               flow'[p] = flow[p] /\ failedAttempts'[p] = failedAttempts[p] /\ read'[p] = read[p],
             flow[o] # "none" => flow'[o] # "none", read'[o] = NoRead \/ (read' = read /\ flow' = flow)
      PROVE  KeepsStranded(o)
  <2>1. /\ form'[o] = to /\ revision'[o] = revision[o] + 1
        /\ \A p \in Orders : p # o => form'[p] = form[p] /\ revision'[p] = revision[p]
    BY <1>4, MovedAt
  <2>2. form[o] = "composing" /\ revision[o] >= 1
    BY <1>2, <1>4 DEF CanTransition, AnsweredFor, RowReached, SessionRow
  <2>3. RowReached(SessionRow(o))' /\ ~FirstTime(o)'
    BY <1>2, <2>1, <2>2 DEF RowReached, SessionRow, Decided, FirstTime
  <2>4. ReadEarlier(o, route[o])' /\ ReadEarlier(o, read[o])'
    <3>1. route[o] \in RowRead /\ route[o].version \in Nat /\ read[o].version \in Nat
      BY <1>2 DEF RouteShape, RowRead
    <3> QED BY <1>1, <1>2, <1>4, <2>1, <3>1 DEF AnsweredFor, ReadEarlier, RowReached
  <2>5. read'[o] # NoRead => flow'[o] # "none" /\ read'[o].version >= 1
    BY <1>2, <1>4 DEF AnsweredFor
  <2>6. AnsweredFor(o)'
    BY <1>1, <1>2, <1>4, <2>1, <2>2, <2>3, <2>4, <2>5 DEF AnsweredFor, FirstTimeWorks
  <2>7. RouteShape'
    BY <1>1, <1>4 DEF RouteShape
  <2> QED BY <1>1, <1>4, <2>1, <2>6, <2>7 DEF KeepsStranded, LeavesAlone
<1>5. CASE Compose(o)
  <2>1. flow[o] = "compose" /\ UNCHANGED rows
    BY <1>5 DEF Compose
  <2>2. ASSUME NEW next \in {"ready", "composition_failed"}, Proceeds(o, next) PROVE KeepsStranded(o)
    <3>1. flow'[o] = next /\ failedAttempts'[o] = 0
      BY <2>2, ProceedsAt
    <3>2. FirstTimeWorks(o)'
      BY <1>1, <3>1 DEF FirstTimeWorks
    <3> QED BY <1>3, <2>1, <2>2, <3>1, <3>2, ProceedsAt
  <2>3. CASE AttemptFails(o, "composition_failed")
    <3>1. flow'[o] = "compose" \/ (flow'[o] = "composition_failed" /\ failedAttempts'[o] = 0)
      BY <2>1, <2>3, AttemptFailsAt
    <3>2. FirstTimeWorks(o)'
      BY <1>1, <3>1 DEF FirstTimeWorks, Marking
    <3> QED BY <1>3, <2>1, <2>3, <3>1, <3>2, AttemptFailsAt
  <2> QED BY <1>5, <2>2, <2>3 DEF Compose
<1>6. CASE MarkReads(o)
  <2>1. flow[o] \in {"ready", "composition_failed"} /\ UNCHANGED <<rows, compositionFaults>>
    BY <1>6 DEF MarkReads, Marking
  <2>2. CASE Recorded(o) /\ Proceeds(o, "over")
    <3>1. ~FirstTime(o)'
      BY <2>1, <2>2 DEF Recorded, FirstTime, rows
    <3>2. FirstTimeWorks(o)'
      BY <3>1 DEF FirstTimeWorks
    <3> QED BY <1>3, <2>1, <2>2, <3>2, ProceedsAt
  <2>3. CASE read' = [read EXCEPT ![o] = SessionRow(o)] /\ UNCHANGED <<flow, failedAttempts>>
    <3>1. read'[o] = SessionRow(o) /\ \A p \in Orders : p # o => read'[p] = read[p]
      BY <2>3 DEF CompositionInv, WorkShape
    <3>2. FirstTimeWorks(o)'
      BY <1>1, <1>2, <2>1, <2>3 DEF AnsweredFor, FirstTimeWorks, FirstTime, Marking, rows
    <3> QED BY <1>3, <2>1, <2>3, <3>1, <3>2 DEF RouteShape
  <2> QED BY <1>6, <2>2, <2>3 DEF MarkReads
<1>7. CASE MarkCommits(o)
  <2>1. flow[o] \in {"ready", "composition_failed"} /\ read[o] # NoRead
    BY <1>7 DEF MarkCommits, Marking
  <2>2. CASE Moves(o, read[o], flow[o]) /\ Moved(o, flow[o]) /\ Proceeds(o, "over")
    <3>1. CanTransition(form[o], flow[o])
      BY <2>2, MovesFromTheRow
    <3>2. /\ flow'[o] = "over" /\ read'[o] = NoRead /\ failedAttempts' \in [Orders -> Nat]
          /\ \A p \in Orders : p # o =>
               flow'[p] = flow[p] /\ failedAttempts'[p] = failedAttempts[p] /\ read'[p] = read[p]
      BY <2>2, ProceedsAt
    <3>3. flow'[o] # "none" /\ Moved(o, flow[o])
      BY <2>2, <3>2
    <3> QED BY <1>4, <2>1, <3>1, <3>2, <3>3
  <2>3. CASE ~Moves(o, read[o], flow[o]) /\ UNCHANGED rows /\ AttemptFails(o, "over")
    <3>1. ~FirstTime(o)
      <4> SUFFICES ASSUME FirstTime(o) PROVE FALSE
        OBVIOUS
      <4>1. read[o].version = 1 /\ revision[o] = 1
        BY <1>2, <2>1 DEF FirstTime, AnsweredFor, ReadEarlier, RowRead
      <4>2. read[o].state = "composing"
        BY <1>2, <2>1, <4>1 DEF AnsweredFor, ReadEarlier, RowReached, RowRead, SessionStates, Decided
      <4>3. read[o] = [state |-> "composing", version |-> 1]
        BY <1>2, <4>1, <4>2 DEF RowRead
      <4>4. Moves(o, read[o], flow[o])
        BY <2>1, <4>1, <4>2, <4>3 DEF Moves, CanTransition, TransitionSession, SessionRow, FirstTime
      <4> QED BY <2>3, <4>4
    <3>2. FirstTimeWorks(o)'
      BY <2>3, <3>1 DEF FirstTimeWorks, FirstTime, rows
    <3>3. flow'[o] # "none" /\ read'[o] = NoRead
      BY <2>1, <2>3, AttemptFailsAt
    <3> QED BY <1>3, <2>1, <2>3, <3>2, <3>3, AttemptFailsAt
  <2> QED BY <1>7, <2>2, <2>3 DEF MarkCommits
<1>8. CASE MarkTimesOut(o)
  <2>1. /\ flow[o] \in {"ready", "composition_failed"} /\ UNCHANGED rows /\ AttemptFails(o, "over")
        /\ compositionFaults' = compositionFaults + 1
    BY <1>8 DEF MarkTimesOut, Marking, CompositionFault
  <2>2. /\ read'[o] = NoRead
        /\ \/ flow'[o] = flow[o] /\ failedAttempts'[o] = failedAttempts[o] + 1
           \/ flow'[o] = "over" /\ failedAttempts[o] + 1 >= MaxCompositionAttempts
    BY <2>1, AttemptFailsAt
  <2>3. FirstTimeWorks(o)'
    BY <1>2, <2>1, <2>2 DEF AnsweredFor, FirstTimeWorks, FirstTime, Marking, rows
  <2>4. flow'[o] # "none"
    BY <2>1, <2>2
  <2> QED BY <1>3, <2>1, <2>2, <2>3, <2>4, AttemptFailsAt
<1>9. CASE LateCommits(o)
  <2>1. PICK l \in lateMarks[o] :
          /\ IF Moves(o, l.read, l.to) THEN Moved(o, l.to) ELSE UNCHANGED rows
          /\ UNCHANGED <<flow, failedAttempts, read, compositionFaults>>
    BY <1>9 DEF LateCommits
  <2>2. l.to \in {"ready", "composition_failed"}
    BY DEF CompositionInv, WorkShape, LateRows
  <2>3. CASE UNCHANGED rows
    <3>1. RouteShape' /\ \A p \in Orders : LeavesAlone(p)
      BY <1>1, <2>1, <2>3 DEF RouteShape, LeavesAlone, rows
    <3> QED BY <1>1, <3>1, AloneIsAnswered DEF KeepsStranded
  <2>4. CASE Moves(o, l.read, l.to) /\ Moved(o, l.to)
    <3>1. failedAttempts' \in [Orders -> Nat]
      BY <2>1 DEF RouteShape
    <3> QED BY <1>4, <2>1, <2>2, <2>4, <3>1, MovesFromTheRow
  <2> QED BY <2>1, <2>3, <2>4
<1> QED BY <1>5, <1>6, <1>7, <1>8, <1>9

\* Every step keeps every session answered for.
LEMMA StepStrandsNone ==
  ASSUME StrandedInv, [CompositionNext]_compositionVars
  PROVE  StrandedInv'
<1>1. CompositionInv'
  BY StepKeepsComposition DEF StrandedInv
<1>2. CASE UNCHANGED compositionVars
  <2>1. RouteShape' /\ compositionFaults' = compositionFaults /\ \A p \in Orders : LeavesAlone(p)
    BY <1>2 DEF compositionVars, rows, composition, StrandedInv, RouteShape, LeavesAlone
  <2>2. compositionFaults \in Nat
    BY DEF StrandedInv, RouteShape
  <2> QED BY <1>1, <2>1, <2>2, AloneIsAnswered DEF StrandedInv
<1>3. ASSUME NEW o \in Orders, KeepsStranded(o) PROVE StrandedInv'
  <2>1. \A p \in Orders : p # o => AnsweredFor(p)'
    BY <1>3, AloneIsAnswered DEF KeepsStranded, RouteShape
  <2> QED BY <1>1, <1>3, <2>1 DEF KeepsStranded, StrandedInv
<1> QED BY <1>2, <1>3, RequestsStrandNone, RouteStrandsNone, WorkflowStrandsNone
        DEF CompositionNext, WorkerStep

(***************************************************************************)
(* A draft is never without its event, and a session that is composing for *)
(* the first time never without an event or a workflow, unless as many     *)
(* transactions failed as an activity has attempts: the safety half of     *)
(* EventuallyDecided, for every number of requests, attempts and faults    *)
(* (composition_route.go startComposition, workflow.go MarkReady,          *)
(* MarkFailed).                                                            *)
(***************************************************************************)
THEOREM NoSessionIsStranded == CompositionSpec => []NoneStranded
<1>1. CompositionInit => RouteShape /\ \A o \in Orders : AnsweredFor(o)
  <2> SUFFICES ASSUME CompositionInit, NEW o \in Orders PROVE RouteShape /\ AnsweredFor(o)
    BY DEF CompositionInit, RouteShape, NoRead, RowRead, SessionStates
  <2>1. RouteShape
    BY DEF CompositionInit, RouteShape, NoRead, RowRead, SessionStates
  <2>2. AnsweredFor(o)
    BY DEF CompositionInit, AnsweredFor, ReadEarlier, RowReached, SessionRow, FirstTimeWorks, FirstTime, Decided
  <2> QED BY <2>1, <2>2
<1>2. StrandedInv /\ [CompositionNext]_compositionVars => StrandedInv'
  BY StepStrandsNone
<1>3. StrandedInv => NoneStranded
  <2> SUFFICES ASSUME StrandedInv, NEW o \in Orders
               PROVE  /\ form[o] = "draft" => event[o] = "pending"
                      /\ form[o] = "composing" =>
                           \/ event[o] = "pending" \/ Composing(o)
                           \/ compositionFaults >= MaxCompositionAttempts \/ revision[o] > 1
    BY DEF NoneStranded
  <2>1. AnsweredFor(o) /\ flow[o] \in Flows /\ revision[o] \in Nat
    BY DEF StrandedInv, CompositionInv, WorkShape, RowsShape
  <2> QED BY <2>1 DEF AnsweredFor, FirstTimeWorks, FirstTime, Composing, Flows
<1>4. StrandedInv => CompositionInv
  BY DEF StrandedInv
<1>5. CompositionSpec => []StrandedInv
  <2>1. CompositionInit /\ CompositionInv => StrandedInv
    BY <1>1 DEF StrandedInv
  <2> QED BY <1>2, <2>1, CompositionInvariant, PTL DEF CompositionSpec
<1> QED BY <1>3, <1>5, PTL

-----------------------------------------------------------------------------
(* The evaluation of a session.                                            *)

Activities == {"ExtractAndStore", "Aggregate", "PublishFailed"}
AttemptSteps == {"call", "replace", "record", "list", "reread", "store", "publish",
                 "ok", "again", "refused"}
AttemptRows == [of : Activities, step : AttemptSteps, version : Versions \cup {Unknown},
                found : {"spans", "nothing"}, listed : SUBSET Batches]

StoreShape ==
  /\ spans \subseteq Batches /\ batches \in Nat /\ latest \in [Versions -> Nat]
  /\ result \in Results \cup {NoResult}
  /\ published \in [Kinds -> Nat] /\ owed \in [Kinds -> Nat]
EngineShape ==
  /\ attempt \in AttemptRows /\ late \subseteq AttemptRows
  /\ activity \in Activities \cup {"none", "completed", "failed"}
  /\ tries \in Nat /\ faults \in Nat /\ (Running => attempt.of = activity)
HandlerShape ==
  /\ handler \in [Kinds -> {"idle", "read", "moved"}]
  /\ session \in Row /\ seen \in [Kinds -> Row]

\* A span once stored is stored still, or a reading of its extractor version was
\* committed later.
Holds(s) ==
  /\ s.batch < batches
  /\ s \in spans \/ latest[s.version] > s.batch + 1

\* What an attempt relies on: the result it is about to record is there, what it
\* listed was stored, and what it replaces is of the version it writes.
AttemptOK(a) ==
  /\ a.of = "Aggregate" /\ a.step = "record" => result # NoResult
  /\ \A s \in a.listed : Holds(s)
  /\ a.step = "replace" =>
       /\ \A s \in a.listed : s.version = a.version
       /\ a.found = "spans" => a.version \in Versions
AttemptsOK == \A a \in {attempt} \cup late : AttemptOK(a)

CitesHold ==
  /\ \A s \in spans : s.batch < batches
  /\ result # NoResult => \A s \in result.evidence : Holds(s)

\* A handler is at work on an event that is owed, and the completed event is
\* about a result.
HandledIsOwed == \A k \in Kinds : handler[k] # "idle" => owed[k] > 0
EventHasResult == owed["completed"] > 0 => result # NoResult

\* As long as no attempt is given up there is one attempt at a time: what it is
\* about to store is what is stored, and once it has nothing replaces it.
Undisturbed ==
  faults = 0 =>
    /\ late = {}
    /\ Running /\ attempt.of = "Aggregate" /\ attempt.step = "store" => attempt.listed = spans
    /\ result # NoResult =>
         /\ result.evidence = spans
         /\ \/ activity = "completed"
            \/ activity = "Aggregate" /\ attempt.step \in {"record", "ok"}

EvaluationInv ==
  /\ StoreShape /\ EngineShape /\ HandlerShape /\ AttemptsOK /\ CitesHold
  /\ HandledIsOwed /\ EventHasResult /\ ResultOnce /\ Undisturbed

\* The fields of an attempt after a transaction.
LEMMA AtFields ==
  ASSUME NEW a \in AttemptRows, NEW k \in AttemptSteps
  PROVE  /\ At(a, k) \in AttemptRows /\ At(a, k).step = k /\ At(a, k).of = a.of
         /\ At(a, k).listed = a.listed /\ At(a, k).version = a.version
         /\ At(a, k).found = a.found
BY DEF At, AttemptRows

\* The fields of an attempt that is done with what it listed.
LEMMA ClearFields ==
  ASSUME NEW a \in AttemptRows, NEW k \in AttemptSteps
  PROVE  \A b \in {[At(a, k) EXCEPT !.found = "nothing", !.listed = {}], [At(a, k) EXCEPT !.listed = {}]} :
           b \in AttemptRows /\ b.of = a.of /\ b.step = k /\ b.listed = {}
BY DEF At, AttemptRows

\* The fields of an attempt that begins to replace what is stored.
LEMMA ReadingFields ==
  ASSUME StoreShape, NEW a \in AttemptRows, NEW b \in Readings(a)
  PROVE  /\ b \in AttemptRows /\ b.of = a.of /\ b.step = "replace"
         /\ b.listed \subseteq spans /\ \A s \in b.listed : s.version = b.version
         /\ b.found = "spans" => b.version \in Versions
<1>1. PICK v \in Versions \cup {Unknown}, f \in {"spans", "nothing"} :
        b = Reading(a, v, f) /\ (f = "spans" => v \in Versions)
  BY DEF Readings
<1> DEFINE d == DeleteEvidence(v)
<1>2. d \subseteq spans /\ \A s \in d : s.version = v
  BY DEF DeleteEvidence
<1>3. b = [At(a, "replace") EXCEPT !.version = v, !.found = f, !.listed = d]
  BY <1>1 DEF Reading
<1> HIDE DEF d
<1>4. d \subseteq Batches
  BY <1>2 DEF StoreShape
<1>5. b \in AttemptRows /\ b.of = a.of /\ b.step = "replace" /\ b.listed = d /\ b.version = v
      /\ b.found = f
  BY <1>3, <1>4 DEF At, AttemptRows, AttemptSteps
<1> QED BY <1>1, <1>2, <1>5

\* A new attempt at an activity has read nothing and is at its first step.
LEMMA FreshAttempt ==
  ASSUME NEW name \in Activities, NEW v \in Versions \cup {Unknown}
  PROVE  /\ Attempt(name, v) \in AttemptRows /\ Attempt(name, v).of = name
         /\ Attempt(name, v).listed = {} /\ Attempt(name, v).step = FirstStep[name]
         /\ FirstStep[name] \in {"call", "list", "publish"}
BY DEF Attempt, AttemptRows, FirstStep, Activities, AttemptSteps

\* So has the attempt that starts one with its argument.
LEMMA StartedAttempt ==
  ASSUME attempt \in AttemptRows, NEW name \in Activities
  PROVE  /\ Starts(name) \in AttemptRows /\ Starts(name).of = name
         /\ Starts(name).listed = {} /\ Starts(name).step = FirstStep[name]
         /\ FirstStep[name] \in {"call", "list", "publish"}
<1>1. attempt.version \in Versions \cup {Unknown}
  BY DEF AttemptRows
<1>2. PICK v \in Versions \cup {Unknown} : Starts(name) = Attempt(name, v)
  BY <1>1 DEF Starts
<1> QED BY <1>2, FreshAttempt

\* A stored span holds over every Replace, whichever version it is of and
\* whatever overlaps it.
LEMMA ReplaceKeepsHolds ==
  ASSUME StoreShape, CitesHold, NEW a \in AttemptRows, AttemptOK(a), NEW b, Replace(a, b)
  PROVE  /\ spans' \subseteq Batches /\ batches' \in Nat /\ latest' \in [Versions -> Nat]
         /\ \A s \in spans' : s.batch < batches'
         /\ \A s \in Batches : Holds(s) => Holds(s)'
<1> DEFINE v == a.version
           new == [version |-> v, batch |-> batches]
<1>1. batches \in Nat /\ spans \subseteq Batches /\ \A s \in spans : s.batch < batches
  BY DEF StoreShape, CitesHold
<1>2. v \in Versions \cup {Unknown} /\ latest \in [Versions -> Nat]
  BY DEF AttemptRows, StoreShape
<1>3. /\ latest' \in [Versions -> Nat]
      /\ \A u \in Versions : latest'[u] = IF u = v THEN batches + 1 ELSE latest[u]
  BY <1>1, <1>2 DEF Replace
<1>4. \A s \in Batches : s.batch \in Nat /\ s.version \in Versions
  BY DEF Batches
<1>5. \A s \in a.listed : s.version = v
  BY DEF AttemptOK, Replace
<1>6. \/ spans' = spans \ a.listed /\ batches' = batches
      \/ spans' = (spans \ a.listed) \cup {new} /\ batches' = batches + 1 /\ a.found = "spans"
  BY <1>1 DEF Replace
<1>7. new.batch = batches /\ new.version = v
  OBVIOUS
<1>8. a.found = "spans" => v \in Versions
  BY DEF AttemptOK, Replace
<1>9. a.found = "spans" => new \in Batches
  BY <1>1, <1>8 DEF Batches
<1> HIDE DEF new, v
<1>10. spans' \subseteq Batches /\ batches' \in Nat /\ \A s \in spans' : s.batch < batches'
  BY <1>1, <1>4, <1>6, <1>7, <1>9
<1>11. ASSUME NEW s \in Batches, Holds(s) PROVE Holds(s)'
  <2>1. s.batch \in Nat /\ s.version \in Versions /\ s.batch < batches /\ s.batch < batches'
    BY <1>1, <1>4, <1>6, <1>11 DEF Holds
  <2>2. CASE s.version = v
    BY <1>1, <1>3, <2>1, <2>2 DEF Holds
  <2>3. CASE s.version # v
    BY <1>3, <1>5, <1>6, <1>11, <2>1, <2>3 DEF Holds
  <2> QED BY <2>2, <2>3
<1> QED BY <1>3, <1>10, <1>11

\* What one transaction of an attempt, current or given up, does to the store.
RunKeeps(b) ==
  /\ StoreShape' /\ CitesHold' /\ EventHasResult' /\ ResultOnce'
  /\ b \in AttemptRows /\ AttemptOK(b)'
  /\ \A x \in AttemptRows : AttemptOK(x) => AttemptOK(x)'
  /\ \A k \in Kinds : owed'[k] >= owed[k]

\* A transaction keeps what every attempt, the events and the result rely on.
LEMMA TransactionKeepsStore ==
  ASSUME StoreShape, CitesHold, EventHasResult, ResultOnce,
         NEW a \in AttemptRows, AttemptOK(a), NEW b \in Attempts(a), Runs(a, b),
         UNCHANGED <<handler, session, history>>
  PROVE  RunKeeps(b) /\ b.of = a.of
<1>1. a.listed \subseteq Batches /\ a.version \in Versions \cup {Unknown}
  BY DEF AttemptRows
<1>2. b \in AttemptRows /\ b.of = a.of
  <2>1. ASSUME NEW k \in AttemptSteps, b = At(a, k) PROVE b \in AttemptRows /\ b.of = a.of
    BY <2>1, AtFields
  <2>2. ASSUME b \in Readings(a) PROVE b \in AttemptRows /\ b.of = a.of
    BY <2>2, ReadingFields
  <2>3. ASSUME b = [At(a, "reread") EXCEPT !.listed = spans] PROVE b \in AttemptRows /\ b.of = a.of
    BY <2>3 DEF At, AttemptRows, AttemptSteps, StoreShape
  <2>4. ASSUME b \in {[At(a, "ok") EXCEPT !.found = "nothing", !.listed = {}],
                      [At(a, "record") EXCEPT !.listed = {}]}
        PROVE  b \in AttemptRows /\ b.of = a.of
    BY <2>4 DEF At, AttemptRows, AttemptSteps
  <2> QED BY <2>1, <2>2, <2>3, <2>4 DEF Attempts, AttemptSteps
<1>3. ASSUME UNCHANGED <<spans, batches, latest, result, published, owed>>,
             recorded' # {} => recorded # {} \/ result # NoResult,
             AttemptOK(b)
      PROVE  RunKeeps(b)
  <2>1. StoreShape' /\ CitesHold' /\ EventHasResult' /\ ResultOnce'
    BY <1>3 DEF StoreShape, CitesHold, Holds, EventHasResult, ResultOnce
  <2>2. \A x \in AttemptRows : AttemptOK(x) <=> AttemptOK(x)'
    BY <1>3 DEF AttemptOK, Holds
  <2>3. \A k \in Kinds : owed'[k] >= owed[k]
    BY <1>3 DEF StoreShape
  <2> QED BY <1>2, <1>3, <2>1, <2>2, <2>3 DEF RunKeeps
<1>4. CASE Extract(a, b)
  <2>1. UNCHANGED <<spans, batches, latest, result, published, owed>> /\ recorded' = recorded
    BY <1>4 DEF Extract, store
  <2>2. CASE b \in Readings(a)
    <3>1. AttemptOK(b)
      BY <2>2, ReadingFields DEF AttemptOK, CitesHold, Holds
    <3> QED BY <1>2, <1>3, <2>1, <3>1
  <2>3. CASE b \in {At(a, "again"), At(a, "refused")}
    <3>1. b.step \in {"again", "refused"} /\ b.listed = a.listed
      BY <2>3, AtFields DEF AttemptSteps
    <3>2. AttemptOK(b)
      BY <3>1 DEF AttemptOK
    <3> QED BY <1>2, <1>3, <2>1, <3>2
  <2> QED BY <1>4, <2>2, <2>3 DEF Extract
<1>5. CASE Replace(a, b)
  <2>1. /\ \A s \in Batches : Holds(s) => Holds(s)'
        /\ spans' \subseteq Batches /\ batches' \in Nat /\ latest' \in [Versions -> Nat]
        /\ \A s \in spans' : s.batch < batches'
    BY <1>5, ReplaceKeepsHolds
  <2>2. UNCHANGED <<recorded, result, published, owed>> /\ b.listed = {} /\ b.step = "ok"
    BY <1>5, ClearFields DEF Replace, AttemptSteps
  <2>3. StoreShape' /\ EventHasResult' /\ ResultOnce'
    BY <2>1, <2>2 DEF StoreShape, EventHasResult, ResultOnce
  <2>4. result # NoResult => result.evidence \subseteq Batches
    BY DEF StoreShape, Results
  <2>5. CitesHold'
    BY <2>1, <2>2, <2>4 DEF CitesHold
  <2>6. \A x \in AttemptRows : x.listed \subseteq Batches
    BY DEF AttemptRows
  <2>7. \A x \in AttemptRows : AttemptOK(x) => AttemptOK(x)'
    BY <2>1, <2>2, <2>6 DEF AttemptOK
  <2>8. AttemptOK(b)'
    BY <2>2 DEF AttemptOK
  <2>9. \A k \in Kinds : owed'[k] >= owed[k]
    BY <2>2 DEF StoreShape
  <2> QED BY <1>2, <2>3, <2>5, <2>7, <2>8, <2>9 DEF RunKeeps
<1>6. CASE List(a, b)
  <2>a. \/ b = [At(a, "reread") EXCEPT !.listed = spans]
        \/ b = At(a, "again") \/ b = At(a, "refused")
    BY <1>6 DEF List
  <2>b. {"reread", "again", "refused"} \subseteq AttemptSteps
    BY DEF AttemptSteps
  <2>c. /\ At(a, "reread") \in AttemptRows /\ At(a, "reread").step = "reread"
        /\ At(a, "again").step = "again" /\ At(a, "refused").step = "refused"
        /\ At(a, "again").listed = a.listed /\ At(a, "refused").listed = a.listed
    BY <2>b, AtFields
  <2>d. /\ [At(a, "reread") EXCEPT !.listed = spans].step = "reread"
        /\ [At(a, "reread") EXCEPT !.listed = spans].listed = spans
    BY <2>c DEF AttemptRows
  <2>1. b.step \notin {"record", "replace"}
    BY <2>a, <2>c, <2>d
  <2>2. b.listed = spans \/ b.listed = a.listed
    BY <2>a, <2>c, <2>d
  <2>3. AttemptOK(b)
    BY <2>1, <2>2 DEF AttemptOK, CitesHold, Holds
  <2> QED BY <1>2, <1>3, <1>6, <2>3 DEF List, store
<1>7. CASE Reread(a, b)
  <2>1. b.step \notin {"record", "replace"} /\ b.listed = a.listed
    BY <1>7, AtFields DEF Reread, AttemptSteps
  <2>2. AttemptOK(b)
    BY <2>1 DEF AttemptOK
  <2> QED BY <1>2, <1>3, <1>7, <2>2 DEF Reread, store
<1>8. CASE RecordStage(a, b)
  <2>1. b.step = "ok" /\ b.listed = a.listed /\ a.step = "record"
    BY <1>8, AtFields DEF RecordStage, AttemptSteps
  <2>2. AttemptOK(b)
    BY <2>1 DEF AttemptOK
  <2>3. result # NoResult
    BY <1>8, <2>1 DEF RecordStage, AttemptOK
  <2> QED BY <1>2, <1>3, <1>8, <2>2, <2>3 DEF RecordStage
<1>9. CASE PublishFailed(a, b)
  <2>1. /\ b.listed = a.listed /\ b.step = "ok" /\ UNCHANGED <<spans, batches, latest, recorded, result>>
        /\ published' = [published EXCEPT !["failed"] = published["failed"] + 1]
        /\ owed' = [owed EXCEPT !["failed"] = owed["failed"] + 1]
    BY <1>9, AtFields DEF PublishFailed, AttemptSteps, StoreShape, Kinds
  <2>2. /\ published'["completed"] = published["completed"] /\ owed'["completed"] = owed["completed"]
        /\ published' \in [Kinds -> Nat] /\ owed' \in [Kinds -> Nat]
    BY <2>1 DEF StoreShape, Kinds
  <2>3. StoreShape' /\ CitesHold' /\ EventHasResult' /\ ResultOnce'
    BY <2>1, <2>2 DEF StoreShape, CitesHold, Holds, EventHasResult, ResultOnce
  <2>4. \A x \in AttemptRows : AttemptOK(x) <=> AttemptOK(x)'
    BY <2>1 DEF AttemptOK, Holds
  <2>5. AttemptOK(b)
    BY <2>1 DEF AttemptOK
  <2>6. \A k \in Kinds : owed'[k] >= owed[k]
    BY <2>1 DEF StoreShape
  <2> QED BY <1>2, <2>3, <2>4, <2>5, <2>6 DEF RunKeeps
<1>10. CASE StoreResult(a, b)
  <2>1. b.listed = {} /\ b.step = "record" /\ UNCHANGED <<spans, batches, latest, recorded>>
    BY <1>10, ClearFields DEF StoreResult, AttemptSteps
  <2>2. CASE ~FirstResult
    <3>1. result # NoResult /\ UNCHANGED <<result, published, owed>>
      BY <1>10, <2>2 DEF StoreResult, FirstResult
    <3>2. AttemptOK(b)
      BY <2>1, <3>1 DEF AttemptOK
    <3> QED BY <1>2, <1>3, <2>1, <3>1, <3>2
  <2>3. CASE FirstResult
    <3> DEFINE r == [evidence |-> a.listed, version |-> a.version]
    <3>1. /\ result = NoResult /\ result' = r
          /\ published' = [published EXCEPT !["completed"] = published["completed"] + 1]
          /\ owed' = [owed EXCEPT !["completed"] = owed["completed"] + 1]
      BY <1>10, <2>3 DEF StoreResult, FirstResult, StoreShape, Kinds
    <3>2. r \in Results /\ r.evidence = a.listed
      BY <1>1 DEF Results, StoreShape
    <3> HIDE DEF r
    <3>3. r # NoResult
      BY <3>2, EvaluationAssumption
    <3>4. /\ published'["completed"] = 1
          /\ published' \in [Kinds -> Nat] /\ owed' \in [Kinds -> Nat]
      BY <3>1 DEF StoreShape, Kinds, ResultOnce
    <3>5. StoreShape'
      BY <2>1, <3>1, <3>2, <3>4 DEF StoreShape
    <3>6. history = {}
      BY <3>1 DEF ResultOnce
    <3>7. ResultOnce' /\ EventHasResult'
      BY <3>1, <3>3, <3>4, <3>6 DEF ResultOnce, EventHasResult
    <3>8. \A s : Holds(s)' <=> Holds(s)
      BY <2>1 DEF Holds
    <3>9. CitesHold'
      BY <2>1, <3>1, <3>2, <3>8 DEF CitesHold, AttemptOK
    <3>10. \A x \in AttemptRows : AttemptOK(x) => AttemptOK(x)'
      BY <3>1, <3>3, <3>8 DEF AttemptOK
    <3>11. AttemptOK(b)'
      BY <2>1, <3>1, <3>3, <3>8 DEF AttemptOK
    <3>12. \A k \in Kinds : owed'[k] >= owed[k]
      BY <3>1 DEF StoreShape
    <3> QED BY <1>2, <3>5, <3>7, <3>9, <3>10, <3>11, <3>12 DEF RunKeeps
  <2> QED BY <2>2, <2>3
<1> QED BY <1>2, <1>4, <1>5, <1>6, <1>7, <1>8, <1>9, <1>10 DEF Runs

\* The attempt under way runs a transaction.
LEMMA AttemptKeepsEvaluation ==
  ASSUME EvaluationInv, AttemptRuns
  PROVE  EvaluationInv'
<1> USE DEF EvaluationInv
<1>1. PICK b \in Attempts(attempt) : Runs(attempt, b) /\ attempt' = b
  BY DEF AttemptRuns
<1>2. Running /\ ~Answered(attempt)
      /\ UNCHANGED <<activity, tries, late, handler, seen, session, history, faults>>
  BY DEF AttemptRuns
<1>3. attempt \in AttemptRows /\ AttemptOK(attempt) /\ attempt.of = activity
  BY <1>2 DEF EngineShape, AttemptsOK
<1>4. RunKeeps(b) /\ b.of = attempt.of
  BY <1>1, <1>2, <1>3, TransactionKeepsStore
<1>5. EngineShape' /\ HandlerShape'
  BY <1>1, <1>2, <1>3, <1>4 DEF RunKeeps, EngineShape, HandlerShape, Running
<1>6. AttemptsOK'
  BY <1>1, <1>2, <1>4 DEF RunKeeps, AttemptsOK, EngineShape
<1>7. Undisturbed'
  <2> SUFFICES ASSUME faults = 0
               PROVE  /\ late' = {}
                      /\ attempt'.of = "Aggregate" /\ attempt'.step = "store" => attempt'.listed = spans'
                      /\ result' # NoResult =>
                           /\ result'.evidence = spans'
                           /\ \/ activity' = "completed"
                              \/ activity' = "Aggregate" /\ attempt'.step \in {"record", "ok"}
    BY <1>2 DEF Undisturbed
  <2>1. late' = {}
    BY <1>2 DEF Undisturbed
  <2>2. result # NoResult => attempt.of = "Aggregate" /\ attempt.step = "record" /\ result.evidence = spans
    BY <1>2, <1>3 DEF Undisturbed, Answered, Running
  <2>3. CASE Reread(attempt, b)
    <3>1. attempt.of = "Aggregate" /\ attempt.step = "reread" /\ UNCHANGED <<spans, result>>
      BY <2>3 DEF Reread, store
    <3>2. b.listed = attempt.listed /\ (b.step = "store" => spans = attempt.listed)
      BY <1>3, <2>3, AtFields DEF Reread, AttemptSteps
    <3> QED BY <1>1, <2>1, <2>2, <3>1, <3>2
  <2>4. CASE StoreResult(attempt, b)
    <3>1. attempt.of = "Aggregate" /\ attempt.step = "store" /\ spans' = spans
      BY <2>4 DEF StoreResult
    <3>2. result = NoResult /\ attempt.listed = spans
      BY <1>2, <2>2, <3>1 DEF Undisturbed
    <3>3. b.step = "record" /\ b.of = "Aggregate"
      BY <1>3, <2>4, <3>1, ClearFields DEF StoreResult, AttemptSteps
    <3>4. result'.evidence = attempt.listed
      BY <2>4, <3>2 DEF StoreResult, FirstResult
    <3> QED BY <1>1, <1>2, <1>3, <2>1, <3>1, <3>2, <3>3, <3>4
  <2>5. CASE RecordStage(attempt, b)
    <3>1. b.step = "ok" /\ b.of = attempt.of /\ UNCHANGED <<spans, result>>
      BY <1>3, <2>5, AtFields DEF RecordStage, AttemptSteps
    <3> QED BY <1>1, <1>2, <1>3, <2>1, <2>2, <3>1
  <2>6. CASE Extract(attempt, b) \/ Replace(attempt, b) \/ List(attempt, b) \/ PublishFailed(attempt, b)
    <3>1. attempt.step \in {"call", "replace", "list", "publish"} /\ result' = result
      BY <2>6 DEF Extract, Replace, List, PublishFailed, store
    <3>2. result = NoResult
      BY <2>2, <3>1
    <3>3. b.step # "store"
      <4>1. CASE Extract(attempt, b)
        <5>1. CASE b \in Readings(attempt)
          BY <1>3, <5>1, ReadingFields
        <5>2. CASE b \in {At(attempt, "again"), At(attempt, "refused")}
          BY <1>3, <5>2, AtFields DEF AttemptSteps
        <5> QED BY <4>1, <5>1, <5>2 DEF Extract
      <4>2. CASE Replace(attempt, b)
        BY <1>3, <4>2, ClearFields DEF Replace, AttemptSteps
      <4>3. CASE PublishFailed(attempt, b)
        BY <1>3, <4>3, AtFields DEF PublishFailed, AttemptSteps
      <4>4. CASE List(attempt, b)
        <5>1. CASE b = [At(attempt, "reread") EXCEPT !.listed = spans]
          BY <1>3, <5>1 DEF At, AttemptRows
        <5>2. CASE b \in {At(attempt, "again"), At(attempt, "refused")}
          BY <1>3, <5>2, AtFields DEF AttemptSteps
        <5> QED BY <4>4, <5>1, <5>2 DEF List
      <4> QED BY <2>6, <4>1, <4>2, <4>3, <4>4
    <3> QED BY <1>1, <2>1, <3>1, <3>2, <3>3
  <2> QED BY <1>1, <2>3, <2>4, <2>5, <2>6 DEF Runs
<1>8. HandledIsOwed'
  BY <1>2, <1>4 DEF RunKeeps, HandledIsOwed, StoreShape
<1> QED BY <1>4, <1>5, <1>6, <1>7, <1>8 DEF RunKeeps

\* An attempt given up runs a transaction it had left.
LEMMA LateKeepsEvaluation ==
  ASSUME EvaluationInv, LateRuns
  PROVE  EvaluationInv'
<1> USE DEF EvaluationInv
<1>1. PICK a \in late : \E b \in Attempts(a) :
        Runs(a, b) /\ late' = (late \ {a}) \cup (IF Answered(b) THEN {} ELSE {b})
  BY DEF LateRuns
<1>2. PICK b \in Attempts(a) :
        Runs(a, b) /\ late' = (late \ {a}) \cup (IF Answered(b) THEN {} ELSE {b})
  BY <1>1
<1>3. UNCHANGED <<activity, attempt, tries, handler, seen, session, history, faults>>
  BY DEF LateRuns
<1>4. a \in AttemptRows /\ AttemptOK(a)
  BY DEF EngineShape, AttemptsOK
<1>5. RunKeeps(b)
  BY <1>2, <1>3, <1>4, TransactionKeepsStore
<1>6. EngineShape' /\ HandlerShape'
  BY <1>2, <1>3, <1>5 DEF RunKeeps, EngineShape, HandlerShape, Running
<1>7. AttemptsOK'
  BY <1>2, <1>3, <1>5 DEF RunKeeps, AttemptsOK, EngineShape
<1>8. faults # 0
  BY DEF Undisturbed
<1>9. Undisturbed'
  BY <1>3, <1>8 DEF Undisturbed
<1>10. HandledIsOwed'
  BY <1>3, <1>5 DEF RunKeeps, HandledIsOwed, StoreShape
<1> QED BY <1>5, <1>6, <1>7, <1>9, <1>10 DEF RunKeeps

\* A step of the engine that runs no transaction leaves the store alone.
LEMMA EngineKeepsStore ==
  ASSUME EvaluationInv, UNCHANGED <<store, handlers>>, EngineShape',
         \A a \in {attempt'} \cup late' : AttemptOK(a), Undisturbed'
  PROVE  EvaluationInv'
<1> USE DEF EvaluationInv
<1>1. UNCHANGED <<spans, batches, latest, recorded, result, published, owed, handler, seen, session, history>>
  BY DEF store, handlers
<1>2. StoreShape' /\ HandlerShape' /\ CitesHold' /\ HandledIsOwed' /\ EventHasResult' /\ ResultOnce'
  BY <1>1 DEF StoreShape, HandlerShape, CitesHold, Holds, HandledIsOwed, EventHasResult, ResultOnce
<1>3. \A a : AttemptOK(a)' <=> AttemptOK(a)
  BY <1>1 DEF AttemptOK, Holds
<1>4. AttemptsOK'
  BY <1>3 DEF AttemptsOK
<1> QED BY <1>2, <1>4

\* The engine: events, attempts given up, retries and the next activity.
LEMMA EngineKeepsEvaluation ==
  ASSUME EvaluationInv,
         StartEvidence \/ CompletedAgain \/ GivenUp \/ WorkflowAdvances
  PROVE  EvaluationInv'
<1> USE DEF EvaluationInv
<1>0. UNCHANGED <<store, handlers>>
  BY DEF StartEvidence, CompletedAgain, GivenUp, WorkflowAdvances
<1>1. UNCHANGED <<spans, result>> /\ attempt \in AttemptRows /\ faults \in Nat
  BY <1>0 DEF store, EngineShape
<1>2. CASE CompletedAgain \/ (StartEvidence /\ activity # "none")
  <2>1. UNCHANGED workflow
    BY <1>2 DEF CompletedAgain, StartEvidence, workflow
  <2>2. faults' = faults \/ faults' = faults + 1
    BY <1>2 DEF CompletedAgain, StartEvidence, Fault
  <2>3. EngineShape'
    BY <2>1, <2>2 DEF EngineShape, workflow, Running
  <2>4. \A a \in {attempt'} \cup late' : AttemptOK(a)
    BY <2>1 DEF workflow, AttemptsOK
  <2>5. Undisturbed'
    BY <1>1, <2>1, <2>2 DEF Undisturbed, workflow, Running
  <2> QED BY <1>0, <2>3, <2>4, <2>5, EngineKeepsStore
<1>3. CASE StartEvidence /\ activity = "none"
  <2>1. /\ activity' = "ExtractAndStore" /\ attempt' = Starts("ExtractAndStore")
        /\ UNCHANGED <<tries, late, faults>>
    BY <1>3 DEF StartEvidence
  <2>2. /\ attempt' \in AttemptRows /\ attempt'.of = "ExtractAndStore" /\ attempt'.listed = {}
        /\ attempt'.step \in {"call", "list", "publish"}
    BY <1>1, <2>1, StartedAttempt DEF Activities
  <2>3. EngineShape'
    BY <2>1, <2>2 DEF EngineShape, Activities
  <2>4. \A a \in {attempt'} \cup late' : AttemptOK(a)
    BY <2>1, <2>2 DEF AttemptsOK, AttemptOK
  <2>5. Undisturbed'
    BY <1>1, <1>3, <2>1, <2>2 DEF Undisturbed
  <2> QED BY <1>0, <2>3, <2>4, <2>5, EngineKeepsStore
<1>4. CASE GivenUp
  <2>1. /\ late' = late \cup (IF Answered(attempt) THEN {} ELSE {attempt})
        /\ attempt' = At(Starts(activity), "again") /\ faults' = faults + 1 /\ activity \in Activities
        /\ UNCHANGED <<activity, tries>>
    BY <1>4 DEF GivenUp, Fault, Running, Activities
  <2>2. Starts(activity) \in AttemptRows /\ Starts(activity).of = activity /\ Starts(activity).listed = {}
    BY <1>1, <2>1, StartedAttempt
  <2>3. /\ attempt' \in AttemptRows /\ attempt'.of = activity /\ attempt'.listed = {}
        /\ attempt'.step = "again"
    BY <2>1, <2>2, AtFields DEF AttemptSteps
  <2>4. EngineShape'
    BY <1>1, <2>1, <2>3 DEF EngineShape, Running
  <2>5. \A a \in {attempt'} \cup late' : AttemptOK(a)
    BY <2>1, <2>3 DEF AttemptsOK, AttemptOK
  <2>6. Undisturbed'
    BY <1>1, <2>1 DEF Undisturbed
  <2> QED BY <1>0, <2>4, <2>5, <2>6, EngineKeepsStore
<1>5. CASE WorkflowAdvances
  <2>1. Running /\ Answered(attempt) /\ UNCHANGED <<late, faults>> /\ activity \in Activities
    BY <1>5 DEF WorkflowAdvances, Running, Activities
  <2>2. activity' \in Activities \cup {"completed", "failed"} /\ tries' \in Nat
    <3>1. Follows(attempt.step) \in Activities \cup {"completed", "failed"}
      BY DEF Follows, Activities
    <3> QED BY <1>5, <2>1, <3>1 DEF WorkflowAdvances, EngineShape
  <2>3. DOMAIN FirstStep = Activities
    BY DEF FirstStep, Activities
  <2>4. PICK name \in Activities : attempt' = Starts(name) /\ (activity' \in Activities => name = activity')
    BY <1>5, <2>1, <2>3 DEF WorkflowAdvances, Activities
  <2>5. /\ attempt' \in AttemptRows /\ (activity' \in Activities => attempt'.of = activity')
        /\ attempt'.listed = {} /\ attempt'.step \in {"call", "list", "publish"}
    BY <1>1, <2>4, StartedAttempt
  <2>6. EngineShape'
    BY <2>1, <2>2, <2>5 DEF EngineShape, Running, Activities
  <2>7. \A a \in {attempt'} \cup late' : AttemptOK(a)
    BY <2>1, <2>5 DEF AttemptsOK, AttemptOK
  <2>8. Undisturbed'
    <3>1. CASE result = NoResult
      BY <1>1, <2>1, <2>5, <3>1 DEF Undisturbed
    <3>2. CASE result # NoResult /\ faults = 0
      <4>1. activity = "Aggregate" /\ attempt.step = "ok" /\ result.evidence = spans /\ late = {}
        BY <2>1, <3>2 DEF Undisturbed, Answered, Running
      <4>2. activity' = "completed"
        BY <1>5, <4>1 DEF WorkflowAdvances, Retries, Follows
      <4> QED BY <1>1, <2>1, <4>1, <4>2 DEF Undisturbed, Running
    <3>3. CASE faults # 0
      BY <2>1, <3>3 DEF Undisturbed
    <3> QED BY <3>1, <3>2, <3>3
  <2> QED BY <1>0, <2>6, <2>7, <2>8, EngineKeepsStore
<1> QED BY <1>2, <1>3, <1>4, <1>5

\* The session's own moves to finalizing and to evaluating.
LEMMA SessionKeepsEvaluation ==
  ASSUME EvaluationInv, SessionCompleted \/ SessionEvaluating
  PROVE  EvaluationInv'
<1> USE DEF EvaluationInv
<1>1. /\ UNCHANGED <<spans, batches, latest, recorded, result, published, owed>>
      /\ UNCHANGED <<activity, attempt, tries, late, handler, seen, history, faults>>
  BY DEF SessionCompleted, SessionEvaluating, workflow, store
<1>2. session' \in Row /\ session'.state # "review_ready"
  <2>1. session.version + 1 \in Nat
    BY DEF HandlerShape, Row
  <2> QED BY <2>1 DEF SessionCompleted, SessionEvaluating, Row, Waiting
<1>3. StoreShape' /\ EngineShape' /\ HandlerShape' /\ CitesHold' /\ Undisturbed'
  BY <1>1, <1>2 DEF StoreShape, EngineShape, HandlerShape, CitesHold, Holds, Undisturbed, Running
<1>4. AttemptsOK' /\ HandledIsOwed' /\ EventHasResult' /\ ResultOnce'
  BY <1>1, <1>2 DEF AttemptsOK, AttemptOK, Holds, HandledIsOwed, EventHasResult, ResultOnce
<1> QED BY <1>3, <1>4

\* The handlers of the two events.
LEMMA HandlerKeepsEvaluation ==
  ASSUME EvaluationInv, NEW k \in Kinds,
         HandlerReads(k) \/ HandlerMoves(k) \/ HandlerEnds(k) \/ HandlerDies(k)
  PROVE  EvaluationInv'
<1> USE DEF EvaluationInv
<1>1. UNCHANGED <<spans, batches, latest, recorded, result, published, activity, attempt, tries, late>>
  BY DEF HandlerReads, HandlerMoves, HandlerEnds, HandlerDies, store, workflow
<1>2. faults' = faults \/ faults' = faults + 1
  BY DEF HandlerReads, HandlerMoves, HandlerEnds, HandlerDies, Fault
<1>3. EngineShape' /\ Undisturbed'
  BY <1>1, <1>2 DEF EngineShape, Undisturbed, Running
<1>4. AttemptsOK' /\ CitesHold'
  BY <1>1 DEF AttemptsOK, AttemptOK, CitesHold, Holds
<1>5. /\ handler' \in [Kinds -> {"idle", "read", "moved"}]
      /\ \A j \in Kinds : j # k => handler'[j] = handler[j]
  BY DEF HandlerReads, HandlerMoves, HandlerEnds, HandlerDies, HandlerShape
<1>6. owed[k] > 0
  BY DEF HandlerReads, HandlerMoves, HandlerEnds, HandlerDies, HandledIsOwed
<1>7. owed[k] \in Nat /\ Kinds = {"completed", "failed"}
  BY DEF StoreShape, Kinds
<1>8. /\ owed' \in [Kinds -> Nat] /\ \A j \in Kinds : j # k => owed'[j] = owed[j]
      /\ owed'[k] > 0 \/ handler'[k] = "idle"
  <2>1. CASE HandlerEnds(k)
    <3>1. owed' = [owed EXCEPT ![k] = owed[k] - 1] /\ handler'[k] = "idle"
      BY <2>1 DEF HandlerEnds, StoreShape, HandlerShape
    <3>2. owed[k] - 1 \in Nat
      BY <1>6, <1>7
    <3> QED BY <3>1, <3>2 DEF StoreShape
  <2>2. CASE HandlerReads(k) \/ HandlerMoves(k) \/ HandlerDies(k)
    BY <1>6, <2>2 DEF HandlerReads, HandlerMoves, HandlerDies, StoreShape
  <2> QED BY <2>1, <2>2
<1>9. HandledIsOwed'
  BY <1>5, <1>8 DEF HandledIsOwed
<1>10. EventHasResult'
  BY <1>1, <1>6, <1>7, <1>8 DEF EventHasResult
<1>11. StoreShape'
  BY <1>1, <1>8 DEF StoreShape
<1>12. k = "completed" => result # NoResult
  BY <1>6 DEF EventHasResult
<1>13. /\ session' \in Row /\ (session'.state = "review_ready" =>
                               session.state = "review_ready" \/ k = "completed")
  <2>1. CASE session' = session
    BY <2>1 DEF HandlerShape
  <2>2. CASE session' = [state |-> Outcome[k], version |-> session.version + 1]
    <3>1. Outcome[k] \in {"review_ready", "evaluation_failed"} /\ (k = "failed" => Outcome[k] = "evaluation_failed")
      BY <1>7 DEF Outcome
    <3>2. session.version + 1 \in Nat
      BY DEF HandlerShape, Row
    <3> QED BY <1>7, <2>2, <3>1, <3>2 DEF Row, Judged
  <2> QED BY <2>1, <2>2 DEF HandlerReads, HandlerMoves, HandlerEnds, HandlerDies
<1>14. seen' \in [Kinds -> Row]
  <2>1. Unread \in Row
    BY DEF Unread, Row
  <2> QED BY <2>1 DEF HandlerReads, HandlerMoves, HandlerEnds, HandlerDies, HandlerShape
<1>15. HandlerShape'
  BY <1>5, <1>13, <1>14 DEF HandlerShape
<1>16. history' = history \/ (k = "completed" /\ history' = history \cup {result})
  BY DEF HandlerReads, HandlerMoves, HandlerEnds, HandlerDies
<1>17. ResultOnce'
  BY <1>1, <1>12, <1>13, <1>16 DEF ResultOnce
<1> QED BY <1>3, <1>4, <1>9, <1>10, <1>11, <1>15, <1>17

\* Every step of the evaluation keeps its invariant.
LEMMA StepKeepsEvaluation ==
  ASSUME EvaluationInv, [EvaluationNext]_evaluationVars
  PROVE  EvaluationInv'
<1>1. CASE UNCHANGED evaluationVars
  <2>1. UNCHANGED <<workflow, store, handlers, faults>>
    BY <1>1 DEF evaluationVars
  <2>2. EngineShape' /\ Undisturbed'
    BY <2>1 DEF EvaluationInv, EngineShape, Undisturbed, workflow, store, Running
  <2>3. \A a \in {attempt'} \cup late' : AttemptOK(a)
    BY <2>1 DEF EvaluationInv, AttemptsOK, workflow
  <2> QED BY <2>1, <2>2, <2>3, EngineKeepsStore
<1> QED BY <1>1, AttemptKeepsEvaluation, LateKeepsEvaluation, EngineKeepsEvaluation,
           SessionKeepsEvaluation, HandlerKeepsEvaluation DEF EvaluationNext

\* Every state of the evaluation satisfies the inductive invariant.
THEOREM EvaluationInvariant == EvaluationSpec => []EvaluationInv
<1>1. EvaluationInit => EvaluationInv
  <2> SUFFICES ASSUME EvaluationInit PROVE EvaluationInv
    OBVIOUS
  <2>1. attempt \in AttemptRows /\ attempt.listed = {} /\ attempt.step \in {"call", "list", "publish"}
    <3>1. "ExtractAndStore" \in Activities
      BY DEF Activities
    <3> QED BY <3>1, FreshAttempt DEF EvaluationInit
  <2>2. session = Unread /\ session \in Row /\ session.state = "in_progress"
    BY DEF EvaluationInit, Row, Unread
  <2>3. StoreShape /\ EngineShape /\ HandlerShape
    BY <2>1, <2>2 DEF EvaluationInit, StoreShape, EngineShape, HandlerShape, Running
  <2>4. AttemptsOK /\ CitesHold /\ Undisturbed
    BY <2>1 DEF EvaluationInit, AttemptsOK, AttemptOK, CitesHold, Undisturbed, Running
  <2>5. HandledIsOwed /\ EventHasResult /\ ResultOnce
    BY <2>2 DEF EvaluationInit, HandledIsOwed, EventHasResult, ResultOnce, Kinds
  <2> QED BY <2>3, <2>4, <2>5 DEF EvaluationInv
<1>2. EvaluationInv /\ [EvaluationNext]_evaluationVars => EvaluationInv'
  BY StepKeepsEvaluation
<1> QED BY <1>1, <1>2, PTL DEF EvaluationSpec

(***************************************************************************)
(* One result is stored and announced, and nothing reports one before it   *)
(* exists, for every number of attempts and handlers that run late         *)
(* (result.go StoreResult, evaluation_routes.go recordEvaluationCompleted, *)
(* appendObservations).                                                    *)
(***************************************************************************)
THEOREM ResultStoredOnce == EvaluationSpec => []ResultOnce
<1>1. EvaluationInv => ResultOnce
  BY DEF EvaluationInv
<1> QED BY <1>1, EvaluationInvariant, PTL

(***************************************************************************)
(* What a result cites is stored or superseded by a later reading of its   *)
(* extractor version, and exactly what is stored when no attempt was given *)
(* up, for every set of versions and every number of attempts (evidence.go *)
(* Replace, result.go ValidatePublication).                                *)
(***************************************************************************)
THEOREM CitedEvidenceHolds == EvaluationSpec => []EvidenceSuperseded
<1>1. EvaluationInv => EvidenceSuperseded
  BY DEF EvaluationInv, CitesHold, Holds, Undisturbed, EvidenceSuperseded
<1> QED BY <1>1, EvaluationInvariant, PTL

(***************************************************************************)
(* A session that was decided is not decided again: a handler moves the    *)
(* row it read, and read it evaluating (evaluation_routes.go, store.go     *)
(* TransitionSession).                                                     *)
(***************************************************************************)
THEOREM EvaluationsStand == EvaluationSpec => DecisionStands
<1>1. [EvaluationNext]_evaluationVars =>
        [session.state \in Judged => session' = session]_evaluationVars
  BY DEF EvaluationNext, SessionCompleted, SessionEvaluating, Judged, StartEvidence, CompletedAgain, AttemptRuns, GivenUp,
         LateRuns, WorkflowAdvances, HandlerReads, HandlerMoves, HandlerEnds, HandlerDies, Decides,
         handlers, evaluationVars
<1> QED BY <1>1, PTL DEF EvaluationSpec, DecisionStands

-----------------------------------------------------------------------------
(* Evaluation: who answers for a session that waits.                       *)

\* A session moves in one order, its version counts the moves.
InOrder(row) ==
  /\ row.state = "in_progress" <=> row.version = 0
  /\ row.state = "finalizing" <=> row.version = 1
  /\ row.state = "evaluating" <=> row.version = 2

\* No event, workflow or report is there before the session is completed; a
\* handler read no later row than there is, and past its transition it found
\* the session finalizing, or the session is decided.
DecisionsCounted ==
  /\ InOrder(session) /\ \A k \in Kinds : InOrder(seen[k])
  /\ asked = "none" => session.version = 0
  /\ session.version = 0 =>
       asked = "none" /\ activity = "none" /\ late = {} /\ \A k \in Kinds : owed[k] = 0
  /\ \A k \in Kinds :
       /\ seen[k].version <= session.version
       /\ handler[k] = "read" => seen[k].version > 0
       /\ handler[k] = "moved" => missed \/ session.version > 2

\* What was published is owed until the session is decided or misses a report.
PublishedIsOwed ==
  \A k \in Kinds : published[k] > 0 => owed[k] > 0 \/ missed \/ session.version > 2

\* How far the workflow is: where it ended it has published, or failed to as
\* often as an activity is attempted.
WorkflowPublishes ==
  /\ activity = "none" => asked \in {"none", "pending"}
  /\ activity = "Aggregate" /\ attempt.step = "ok" => result # NoResult
  /\ activity = "PublishFailed" =>
       \/ attempt.step = "publish" /\ tries <= faults
       \/ attempt.step = "ok" /\ tries <= faults /\ published["failed"] > 0
       \/ attempt.step = "again" /\ tries + 1 <= faults
  /\ activity = "completed" => result # NoResult
  /\ activity = "failed" => published["failed"] > 0 \/ faults >= MaxAttempts

WaitingInv == EvaluationInv /\ DecisionsCounted /\ PublishedIsOwed /\ WorkflowPublishes

\* A transaction of an attempt publishes what is then owed, and takes no result
\* back.
LEMMA TransactionsPublish ==
  ASSUME StoreShape, NEW a \in AttemptRows, NEW b, Runs(a, b)
  PROVE  /\ \A k \in Kinds : /\ owed'[k] >= owed[k] /\ published'[k] >= published[k]
                             /\ published'[k] > published[k] => owed'[k] > 0
         /\ result # NoResult => result' # NoResult
<1>0. \A k \in Kinds : owed[k] \in Nat /\ published[k] \in Nat
  BY DEF StoreShape
<1>1. CASE UNCHANGED <<published, owed, result>>
  BY <1>0, <1>1
<1>2. ASSUME NEW k \in Kinds, published' = [published EXCEPT ![k] = published[k] + 1],
             owed' = [owed EXCEPT ![k] = owed[k] + 1]
      PROVE  \A j \in Kinds : /\ owed'[j] >= owed[j] /\ published'[j] >= published[j]
                              /\ published'[j] > published[j] => owed'[j] > 0
  BY <1>0, <1>2 DEF StoreShape
<1>3. CASE StoreResult(a, b)
  <2>1. CASE result # NoResult
    BY <1>1, <1>3, <2>1 DEF StoreResult, FirstResult
  <2>2. CASE result = NoResult
    BY <1>2, <1>3, <2>2 DEF StoreResult, FirstResult, Kinds
  <2> QED BY <2>1, <2>2
<1>4. CASE PublishFailed(a, b)
  BY <1>2, <1>4 DEF PublishFailed, Kinds
<1>5. CASE Extract(a, b) \/ Replace(a, b) \/ List(a, b) \/ Reread(a, b) \/ RecordStage(a, b)
  BY <1>1, <1>5 DEF Extract, Replace, List, Reread, RecordStage, store
<1> QED BY <1>3, <1>4, <1>5 DEF Runs

\* Where a session is and what handlers saw stays; more is published.
LEMMA PublishingKeepsWaiting ==
  ASSUME WaitingInv, NEW a \in AttemptRows, NEW b, Runs(a, b), StoreShape',
         UNCHANGED <<asked, handler, seen, session, missed>>, session.version > 0, session.version \in Nat
  PROVE  /\ DecisionsCounted' /\ PublishedIsOwed' /\ (result # NoResult => result' # NoResult)
         /\ published["failed"] > 0 => published'["failed"] > 0
<1>1. /\ \A k \in Kinds : /\ owed'[k] >= owed[k] /\ published'[k] >= published[k]
                          /\ published'[k] > published[k] => owed'[k] > 0
      /\ result # NoResult => result' # NoResult
  BY TransactionsPublish DEF WaitingInv, EvaluationInv
<1>2. \A k \in Kinds : /\ owed[k] \in Nat /\ published[k] \in Nat
                       /\ owed'[k] \in Nat /\ published'[k] \in Nat
  BY DEF WaitingInv, EvaluationInv, StoreShape
<1>3. DecisionsCounted'
  BY DEF WaitingInv, DecisionsCounted, InOrder
<1>4. PublishedIsOwed'
  BY <1>1, <1>2 DEF WaitingInv, PublishedIsOwed
<1>5. published["failed"] > 0 => published'["failed"] > 0
  BY <1>1, <1>2 DEF Kinds
<1> QED BY <1>1, <1>3, <1>4, <1>5

\* The attempts, the current one and those given up.
LEMMA AttemptsKeepWaiting ==
  ASSUME WaitingInv, EvaluationInv', AttemptRuns \/ LateRuns
  PROVE  WaitingInv'
<1>0. StoreShape' /\ EngineShape /\ AttemptsOK /\ tries \in Nat /\ faults \in Nat
      /\ session.version \in Nat
  BY DEF WaitingInv, EvaluationInv, EngineShape, HandlerShape, Row
<1>1. CASE AttemptRuns
  <2>1. PICK b \in Attempts(attempt) : Runs(attempt, b) /\ attempt' = b
    BY <1>1 DEF AttemptRuns
  <2>2. /\ Running /\ ~Answered(attempt) /\ attempt \in AttemptRows /\ attempt.of = activity
        /\ UNCHANGED <<asked, activity, tries, handler, seen, session, missed, faults>>
        /\ session.version > 0
    BY <1>0, <1>1 DEF AttemptRuns, EngineShape, Running, WaitingInv, DecisionsCounted
  <2>3. /\ DecisionsCounted' /\ PublishedIsOwed' /\ (result # NoResult => result' # NoResult)
        /\ published["failed"] > 0 => published'["failed"] > 0
    BY <1>0, <2>1, <2>2, PublishingKeepsWaiting
  <2>4. ASSUME activity = "Aggregate", b.step = "ok" PROVE result' # NoResult
    <3>1. /\ At(attempt, "again").step = "again" /\ At(attempt, "refused").step = "refused"
          /\ At(attempt, "store").step = "store"
          /\ [At(attempt, "record") EXCEPT !.listed = {}].step = "record"
          /\ [At(attempt, "reread") EXCEPT !.listed = spans].step = "reread"
      BY <2>2 DEF At, AttemptRows
    <3>2. attempt.step = "record"
      BY <2>1, <2>2, <2>4, <3>1
         DEF Runs, Extract, Replace, List, Reread, StoreResult, RecordStage, PublishFailed
    <3> QED BY <1>0, <2>2, <2>3, <2>4, <3>2 DEF AttemptsOK, AttemptOK
  <2>5. ASSUME activity = "PublishFailed"
        PROVE  b.step = "ok" /\ published'["failed"] > 0 /\ tries <= faults
    <3>1. attempt.step = "publish" /\ tries <= faults
      BY <2>2, <2>5 DEF WaitingInv, WorkflowPublishes, Answered
    <3>2. PublishFailed(attempt, b)
      BY <2>1, <2>2, <2>5, <3>1
         DEF Runs, Extract, Replace, List, Reread, StoreResult, RecordStage
    <3>3. published'["failed"] = published["failed"] + 1 /\ published["failed"] \in Nat
      BY <3>2 DEF PublishFailed, WaitingInv, EvaluationInv, StoreShape, Kinds
    <3>4. b.step = "ok"
      BY <2>2, <3>2, AtFields DEF PublishFailed, AttemptSteps
    <3> QED BY <3>1, <3>3, <3>4
  <2>6. WorkflowPublishes'
    BY <2>1, <2>2, <2>4, <2>5 DEF WorkflowPublishes, Running
  <2> QED BY <2>3, <2>6 DEF WaitingInv
<1>2. CASE LateRuns
  <2>1. PICK a \in late : \E b \in Attempts(a) : Runs(a, b)
    BY <1>2 DEF LateRuns
  <2>2. PICK b \in Attempts(a) : Runs(a, b)
    BY <2>1
  <2>3. /\ a \in AttemptRows /\ session.version > 0
        /\ UNCHANGED <<asked, activity, attempt, tries, handler, seen, session, missed, faults>>
    BY <1>0, <1>2, <2>1 DEF LateRuns, EngineShape, WaitingInv, DecisionsCounted
  <2>4. /\ DecisionsCounted' /\ PublishedIsOwed' /\ (result # NoResult => result' # NoResult)
        /\ published["failed"] > 0 => published'["failed"] > 0
    BY <1>0, <2>2, <2>3, PublishingKeepsWaiting
  <2>5. WorkflowPublishes'
    BY <2>3, <2>4 DEF WaitingInv, WorkflowPublishes
  <2> QED BY <2>4, <2>5 DEF WaitingInv
<1> QED BY <1>1, <1>2

\* The workflow's own steps and its start.
LEMMA EngineKeepsWaiting ==
  ASSUME WaitingInv, EvaluationInv',
         SessionCompleted \/ SessionEvaluating \/ StartEvidence \/ CompletedAgain \/ GivenUp \/ WorkflowAdvances
  PROVE  WaitingInv'
<1>0. /\ tries \in Nat /\ faults \in Nat /\ MaxAttempts \in Nat /\ attempt \in AttemptRows
      /\ activity \in Activities \cup {"none", "completed", "failed"}
      /\ session.version \in Nat /\ \A k \in Kinds : seen[k].version \in Nat
  BY EvaluationAssumption DEF WaitingInv, EvaluationInv, EngineShape, HandlerShape, Row
<1>1. UNCHANGED <<result, published, owed, handler, seen, missed>>
  BY DEF SessionCompleted, SessionEvaluating, StartEvidence, CompletedAgain, GivenUp, WorkflowAdvances,
         store, handlers
<1>7. CASE SessionCompleted \/ SessionEvaluating
  <2>1. /\ UNCHANGED <<activity, attempt, tries, faults>> /\ (asked' = "pending" \/ asked' = asked)
        /\ session'.version = session.version + 1 /\ session.version < 2
        /\ session'.state = IF session.version = 0 THEN "finalizing" ELSE "evaluating"
    <3>1. session.version = IF session.state = "in_progress" THEN 0 ELSE 1
      BY <1>0, <1>7 DEF SessionCompleted, SessionEvaluating, WaitingInv, DecisionsCounted, InOrder
    <3> QED BY <1>7, <3>1 DEF SessionCompleted, SessionEvaluating, workflow
  <2>2. InOrder(session)' /\ asked' # "none"
    BY <1>0, <1>7, <2>1 DEF InOrder, SessionCompleted, SessionEvaluating, WaitingInv, DecisionsCounted
  <2>a. \A k \in Kinds : InOrder(seen[k])'
    BY <1>1 DEF WaitingInv, DecisionsCounted, InOrder
  <2>3. DecisionsCounted'
    BY <1>0, <1>1, <2>1, <2>2, <2>a DEF WaitingInv, DecisionsCounted
  <2>b. PublishedIsOwed'
    BY <1>0, <1>1, <2>1 DEF WaitingInv, PublishedIsOwed
  <2>4. WorkflowPublishes'
    BY <1>1, <2>1 DEF WaitingInv, WorkflowPublishes
  <2> QED BY <2>3, <2>b, <2>4 DEF WaitingInv
<1>2. ASSUME StartEvidence \/ CompletedAgain \/ GivenUp \/ WorkflowAdvances
      PROVE  DecisionsCounted' /\ PublishedIsOwed'
  <2>1. session' = session /\ session.version > 0
    BY <1>0, <1>2 DEF StartEvidence, CompletedAgain, GivenUp, WorkflowAdvances, Running, handlers,
                      WaitingInv, DecisionsCounted
  <2>2. asked' # "none"
    BY <1>2, <2>1 DEF StartEvidence, CompletedAgain, GivenUp, WorkflowAdvances, WaitingInv, DecisionsCounted
  <2>3. DecisionsCounted'
    BY <1>0, <1>1, <2>1, <2>2 DEF WaitingInv, DecisionsCounted, InOrder
  <2> QED BY <1>1, <2>1, <2>3 DEF WaitingInv, PublishedIsOwed
<1>3. CASE CompletedAgain
  <2>1. /\ UNCHANGED <<activity, attempt, tries>> /\ asked' = "pending" /\ faults' \in Nat /\ faults' >= faults
    BY <1>0, <1>3 DEF CompletedAgain, Fault, workflow
  <2>2. WorkflowPublishes'
    BY <1>0, <1>1, <2>1 DEF WaitingInv, WorkflowPublishes
  <2> QED BY <1>2, <1>3, <2>2 DEF WaitingInv
<1>4. CASE StartEvidence
  <2>1. /\ activity # "none" => UNCHANGED <<activity, attempt>>
        /\ activity = "none" => activity' = "ExtractAndStore"
        /\ UNCHANGED <<tries, faults>>
    BY <1>4 DEF StartEvidence
  <2>2. WorkflowPublishes'
    BY <1>1, <2>1 DEF WaitingInv, WorkflowPublishes
  <2> QED BY <1>2, <1>4, <2>2 DEF WaitingInv
<1>5. CASE GivenUp
  <2>1. /\ Running /\ attempt.step \notin {"again", "refused"} /\ UNCHANGED <<activity, tries, asked>>
        /\ faults' = faults + 1 /\ attempt' = At(Starts(activity), "again")
    BY <1>5 DEF GivenUp, Fault
  <2>2. attempt'.step = "again"
    <3>1. Starts(activity) \in AttemptRows
      BY <1>0, <2>1, StartedAttempt DEF Running, Activities
    <3> QED BY <2>1, <3>1, AtFields DEF AttemptSteps
  <2>3. WorkflowPublishes'
    BY <1>0, <1>1, <2>1, <2>2 DEF WaitingInv, WorkflowPublishes, Running
  <2> QED BY <1>2, <1>5, <2>3 DEF WaitingInv
<1>6. CASE WorkflowAdvances
  <2>1. Running /\ Answered(attempt) /\ UNCHANGED <<asked, faults>> /\ activity \in Activities
    BY <1>6 DEF WorkflowAdvances, Running, Activities
  <2>2. /\ Starts("PublishFailed").step = "publish" /\ Starts("Aggregate").step = "list"
        /\ DOMAIN FirstStep = Activities
    BY DEF Starts, Attempt, FirstStep, Activities
  <2>3. CASE Retries
    <3>1. tries' = tries + 1 /\ attempt' = Starts(activity) /\ activity' = activity /\ attempt.step = "again"
      BY <1>6, <2>3 DEF WorkflowAdvances, Retries
    <3>2. WorkflowPublishes'
      BY <1>0, <1>1, <2>1, <2>2, <3>1 DEF WaitingInv, WorkflowPublishes, Activities
    <3> QED BY <1>2, <1>6, <3>2 DEF WaitingInv
  <2>4. CASE ~Retries
    <3>1. /\ activity' = Follows(attempt.step) /\ tries' = 0
          /\ activity' \in Activities => attempt' = Starts(activity')
      BY <1>6, <2>2, <2>4 DEF WorkflowAdvances
    <3>2. CASE activity = "PublishFailed"
      <4>1. activity' = "failed"
        BY <3>1, <3>2 DEF Follows
      <4>2. attempt.step = "again" => tries + 1 >= MaxAttempts
        BY <1>0, <2>4 DEF Retries
      <4>3. published["failed"] > 0 \/ faults >= MaxAttempts
        BY <1>0, <2>1, <3>2, <4>2 DEF WaitingInv, WorkflowPublishes, Answered
      <4>4. WorkflowPublishes'
        BY <1>1, <2>1, <4>1, <4>3 DEF WorkflowPublishes
      <4> QED BY <1>2, <1>6, <4>4 DEF WaitingInv
    <3>3. CASE activity = "Aggregate" /\ attempt.step = "ok"
      <4>1. activity' = "completed" /\ result # NoResult
        BY <3>1, <3>3 DEF Follows, WaitingInv, WorkflowPublishes
      <4>2. WorkflowPublishes'
        BY <1>1, <4>1 DEF WorkflowPublishes
      <4> QED BY <1>2, <1>6, <4>2 DEF WaitingInv
    <3>4. CASE activity # "PublishFailed" /\ ~(activity = "Aggregate" /\ attempt.step = "ok")
      <4>1. activity' \in {"Aggregate", "PublishFailed"}
        BY <3>1, <3>4 DEF Follows
      <4>2. attempt'.step = IF activity' = "Aggregate" THEN "list" ELSE "publish"
        BY <2>2, <3>1, <4>1 DEF Activities
      <4>3. WorkflowPublishes'
        BY <1>0, <2>1, <3>1, <4>1, <4>2 DEF WorkflowPublishes
      <4> QED BY <1>2, <1>6, <4>3 DEF WaitingInv
    <3> QED BY <3>2, <3>3, <3>4
  <2> QED BY <2>3, <2>4
<1> QED BY <1>7, <1>3, <1>4, <1>5, <1>6

\* The handlers: one that has tried to move the session finds it decided, by
\* itself or by the other, or has missed it while it was finalizing.
LEMMA HandlerKeepsWaiting ==
  ASSUME WaitingInv, EvaluationInv', NEW k \in Kinds,
         HandlerReads(k) \/ HandlerMoves(k) \/ HandlerEnds(k) \/ HandlerDies(k)
  PROVE  WaitingInv'
<1>0. /\ session \in Row /\ \A j \in Kinds : seen[j] \in Row /\ owed[j] \in Nat
      /\ session.version \in Nat /\ \A j \in Kinds : seen[j].version \in Nat
      /\ faults \in Nat /\ tries \in Nat /\ MaxAttempts \in Nat
  BY EvaluationAssumption DEF WaitingInv, EvaluationInv, HandlerShape, StoreShape, EngineShape, Row
<1>1. /\ UNCHANGED <<asked, activity, attempt, tries, result, published>>
      /\ faults' \in Nat /\ faults' >= faults
  BY <1>0 DEF HandlerReads, HandlerMoves, HandlerEnds, HandlerDies, Fault, workflow, store
<1>2. WorkflowPublishes'
  BY <1>0, <1>1 DEF WaitingInv, WorkflowPublishes
<1>3. CASE HandlerReads(k)
  <2>1. /\ session' = session /\ owed' = owed /\ missed' = missed /\ late' = late
        /\ handler'[k] = "read" /\ seen'[k] = session
        /\ \A j \in Kinds : j # k => handler'[j] = handler[j] /\ seen'[j] = seen[j]
    BY <1>3 DEF HandlerReads, WaitingInv, EvaluationInv, HandlerShape, workflow
  <2>2. owed[k] > 0 /\ session.version > 0
    BY <1>0, <1>3 DEF HandlerReads, WaitingInv, DecisionsCounted
  <2>3. DecisionsCounted' /\ PublishedIsOwed'
    BY <1>0, <1>1, <2>1, <2>2 DEF WaitingInv, DecisionsCounted, PublishedIsOwed, InOrder
  <2> QED BY <1>2, <2>3 DEF WaitingInv
<1>4. CASE HandlerMoves(k)
  <2>1. /\ owed' = owed /\ handler[k] = "read" /\ seen'[k] = Unread
        /\ session' = IF Decides(k) THEN [state |-> Outcome[k], version |-> session.version + 1] ELSE session
        /\ \A j \in Kinds : j # k => handler'[j] = handler[j] /\ seen'[j] = seen[j]
    BY <1>4 DEF HandlerMoves, WaitingInv, EvaluationInv, HandlerShape
  <2>a. missed => missed'
    BY <1>4 DEF HandlerMoves
  <2>b. seen[k].state = "finalizing" => missed'
    BY <1>4 DEF HandlerMoves
  <2>2. InOrder(session)' /\ session'.version >= session.version /\ session'.version > 0
    <3>0. seen[k].version > 0 /\ seen[k].version <= session.version
      BY <2>1 DEF WaitingInv, DecisionsCounted
    <3>1. CASE Decides(k)
      <4>1. Outcome[k] \in {"review_ready", "evaluation_failed"}
        BY DEF Outcome, Kinds
      <4>2. session'.state = Outcome[k] /\ session'.version = session.version + 1
        BY <2>1, <3>1
      <4>3. session.version = 2
        BY <3>1 DEF Decides, WaitingInv, DecisionsCounted, InOrder
      <4> QED BY <4>1, <4>2, <4>3 DEF InOrder
    <3>2. CASE ~Decides(k)
      BY <1>0, <2>1, <3>0, <3>2 DEF WaitingInv, DecisionsCounted, InOrder
    <3> QED BY <3>1, <3>2
  <2>3. missed' \/ session'.version > 2
    <3>1. seen[k].version = 1 => missed'
      BY <2>b DEF WaitingInv, DecisionsCounted, InOrder
    <3>2. seen[k].version > 0 /\ seen[k].version <= session.version
      BY <2>1 DEF WaitingInv, DecisionsCounted
    <3>3. CASE seen[k].version = 2 /\ session.version = 2
      <4>1. session.state = "evaluating" /\ seen[k].state = "evaluating"
        BY <3>3 DEF WaitingInv, DecisionsCounted, InOrder
      <4>2. session = seen[k]
        BY <1>0, <3>3, <4>1 DEF Row
      <4>3. Decides(k)
        BY <4>1, <4>2 DEF Decides
      <4> QED BY <2>1, <3>3, <4>3
    <3>4. CASE session.version > 2
      BY <1>0, <2>2, <3>4 DEF EvaluationInv, HandlerShape, Row
    <3> QED BY <1>0, <3>1, <3>2, <3>3, <3>4
  <2>4. InOrder(Unread) /\ Unread.version = 0
    BY DEF InOrder, Unread
  <2>5. session'.version \in Nat
    BY DEF EvaluationInv, HandlerShape, Row
  <2>6. handler'[k] = "moved"
    BY <1>4 DEF HandlerMoves, WaitingInv, EvaluationInv, HandlerShape
  <2>7. DecisionsCounted'
    <3>1. ASSUME NEW j \in Kinds
          PROVE  /\ InOrder(seen[j])' /\ seen'[j].version <= session'.version
                 /\ handler'[j] = "read" => seen'[j].version > 0
                 /\ handler'[j] = "moved" => missed' \/ session'.version > 2
      <4>1. CASE j = k
        BY <2>1, <2>3, <2>4, <2>5, <2>6, <4>1 DEF InOrder
      <4>2. CASE j # k
        BY <1>0, <2>1, <2>a, <2>2, <2>5, <4>2 DEF WaitingInv, DecisionsCounted, InOrder
      <4> QED BY <4>1, <4>2
    <3>2. asked' # "none"
      BY <1>0, <1>1, <2>1 DEF WaitingInv, DecisionsCounted
    <3> QED BY <2>2, <2>5, <3>1, <3>2 DEF DecisionsCounted
  <2>8. PublishedIsOwed'
    BY <1>1, <2>3 DEF PublishedIsOwed
  <2> QED BY <1>2, <2>7, <2>8 DEF WaitingInv
<1>5. CASE HandlerEnds(k)
  <2>1. /\ session' = session /\ seen' = seen /\ missed' = missed /\ (missed \/ session.version > 2)
        /\ handler'[k] = "idle" /\ \A j \in Kinds : j # k => handler'[j] = handler[j]
    BY <1>5 DEF HandlerEnds, WaitingInv, EvaluationInv, HandlerShape, DecisionsCounted
  <2>2. session.version > 0
    BY <1>0, <1>5 DEF HandlerEnds, WaitingInv, EvaluationInv, HandledIsOwed, DecisionsCounted
  <2>a. asked' # "none"
    BY <1>1, <2>2 DEF WaitingInv, DecisionsCounted
  <2>3. DecisionsCounted' /\ PublishedIsOwed'
    BY <1>0, <2>1, <2>2, <2>a DEF WaitingInv, DecisionsCounted, PublishedIsOwed, InOrder
  <2> QED BY <1>2, <2>3 DEF WaitingInv
<1>6. CASE HandlerDies(k)
  <2>1. /\ UNCHANGED <<owed, session, missed>> /\ seen'[k] = Unread
        /\ handler'[k] = "idle"
        /\ \A j \in Kinds : j # k => handler'[j] = handler[j] /\ seen'[j] = seen[j]
    BY <1>6 DEF HandlerDies, WaitingInv, EvaluationInv, HandlerShape
  <2>2. session.version > 0
    BY <1>0, <1>6 DEF HandlerDies, WaitingInv, EvaluationInv, HandledIsOwed, DecisionsCounted
  <2>3. InOrder(Unread) /\ Unread.version = 0
    BY DEF InOrder, Unread
  <2>4. ASSUME NEW j \in Kinds
        PROVE  /\ InOrder(seen[j])' /\ seen'[j].version <= session'.version
               /\ handler'[j] = "read" => seen'[j].version > 0
               /\ handler'[j] = "moved" => missed' \/ session'.version > 2
    <3>1. CASE j = k
      BY <1>0, <2>1, <2>3, <3>1 DEF InOrder
    <3>2. CASE j # k
      BY <1>0, <2>1, <3>2 DEF WaitingInv, DecisionsCounted, InOrder
    <3> QED BY <3>1, <3>2
  <2>a. asked' # "none" /\ InOrder(session)'
    BY <1>1, <2>1, <2>2 DEF WaitingInv, DecisionsCounted, InOrder
  <2>5. DecisionsCounted'
    BY <1>0, <2>1, <2>2, <2>4, <2>a DEF DecisionsCounted
  <2>6. PublishedIsOwed'
    BY <1>1, <2>1 DEF WaitingInv, PublishedIsOwed
  <2> QED BY <1>2, <2>5, <2>6 DEF WaitingInv
<1> QED BY <1>3, <1>4, <1>5, <1>6

\* Every step keeps a waiting session answered for.
LEMMA StepKeepsWaiting ==
  ASSUME WaitingInv, [EvaluationNext]_evaluationVars
  PROVE  WaitingInv'
<1>1. EvaluationInv'
  BY StepKeepsEvaluation DEF WaitingInv
<1>2. CASE UNCHANGED evaluationVars
  <2>1. UNCHANGED <<asked, activity, attempt, tries, late, result, published, owed, handler, seen, session,
                  missed, faults>>
    BY <1>2 DEF evaluationVars, workflow, store, handlers
  <2> QED BY <1>1, <2>1 DEF WaitingInv, DecisionsCounted, InOrder, PublishedIsOwed, WorkflowPublishes
<1> QED BY <1>1, <1>2, AttemptsKeepWaiting, EngineKeepsWaiting, HandlerKeepsWaiting DEF EvaluationNext

(***************************************************************************)
(* A completed session that is not decided yet has its event, a running    *)
(* workflow, or an event of that workflow still to be handled, unless as   *)
(* many attempts were given up as an activity has, or a report came while  *)
(* it was finalizing: the safety half of EventuallyEvaluated, for every    *)
(* number of attempts and faults (complete.go complete, workflow.go        *)
(* EvidenceWorkflow, evaluation_routes.go recordEvaluationCompleted,       *)
(* recordEvaluationFailure).                                               *)
(***************************************************************************)
THEOREM NoSessionIsForgotten == EvaluationSpec => []NeverForgotten
<1>1. EvaluationInit /\ EvaluationInv => WaitingInv
  BY DEF EvaluationInit, WaitingInv, DecisionsCounted, InOrder, Unread, PublishedIsOwed, WorkflowPublishes,
         Kinds
<1>2. WaitingInv /\ [EvaluationNext]_evaluationVars => WaitingInv'
  BY StepKeepsWaiting
<1>3. WaitingInv => NeverForgotten
  <2> SUFFICES ASSUME WaitingInv, session.state \in Waiting, ~missed
               PROVE  asked = "pending" \/ Running \/ (\E k \in Kinds : owed[k] > 0) \/ faults >= MaxAttempts
    BY DEF NeverForgotten
  <2>0. session.version \in {1, 2}
    BY DEF WaitingInv, DecisionsCounted, InOrder, Waiting
  <2>1. activity \in Activities \cup {"none", "completed", "failed"} /\ ResultOnce
    BY DEF WaitingInv, EvaluationInv, EngineShape
  <2>2. activity = "completed" => published["completed"] > 0
    BY <2>1 DEF WaitingInv, WorkflowPublishes, ResultOnce
  <2>3. \A k \in Kinds : published[k] > 0 => owed[k] > 0
    BY <2>0 DEF WaitingInv, PublishedIsOwed
  <2>4. "completed" \in Kinds /\ "failed" \in Kinds
    BY DEF Kinds
  <2>5. activity = "none" => asked = "pending"
    BY <2>0 DEF WaitingInv, WorkflowPublishes, DecisionsCounted
  <2> QED BY <2>1, <2>2, <2>3, <2>4, <2>5 DEF WaitingInv, WorkflowPublishes, Activities, Running
<1> QED BY <1>1, <1>2, <1>3, EvaluationInvariant, PTL DEF EvaluationSpec

-----------------------------------------------------------------------------
(* The three side by side.                                                 *)

\* Of the three side by side each behaves as it does alone.
LEMMA SideBySide == WorkflowsSpec => CompositionSpec /\ EvaluationSpec /\ MailSpec
<1>1. WorkflowsInit => CompositionInit /\ EvaluationInit /\ MailInit
  BY DEF WorkflowsInit
<1>2. [WorkflowsNext]_<<part, compositionVars, evaluationVars, mailVars>> =>
        /\ [CompositionNext]_compositionVars
        /\ [EvaluationNext]_evaluationVars
        /\ [MailNext]_mailVars
  BY DEF WorkflowsNext
<1> QED BY <1>1, <1>2, PTL DEF WorkflowsSpec, CompositionSpec, EvaluationSpec, MailSpec

(***************************************************************************)
(* What was decided stands: a composed session, an evaluated one, an email *)
(* that was sent or given up (composition_route.go, evaluation_routes.go,  *)
(* notification.go), in the specification the run checks and for every     *)
(* number of requests, attempts, faults, emails and senders.               *)
(***************************************************************************)
THEOREM DecidedStands == WorkflowsSpec => OutcomesStand
BY SideBySide, CompositionsStand, EvaluationsStand, MailMovesForward DEF OutcomesStand

=============================================================================
