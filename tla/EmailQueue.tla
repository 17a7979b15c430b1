----------------------------- MODULE EmailQueue -----------------------------
(***************************************************************************)
(* The email queue (notification/notification.go, sender.go): a row is     *)
(* enqueued in its caller's transaction, claimed by senders and hidden for *)
(* a while, handed to the transport from the claimed copy, and then marked *)
(* sent, which erases it, or failed.  A send may outlast the two minutes a *)
(* claim hides its row, and a sender may die at any point.  Time is not    *)
(* counted: a hidden row may come due whenever it likes.                   *)
(***************************************************************************)
EXTENDS Naturals, FiniteSets

CONSTANTS
  Mails, Senders,
  MaxSends,      \* failures that dead-letter an email (5)
  MaxDeaths      \* bound: senders that die, outcomes that are not recorded

ASSUME EmailAssumption == MaxSends \in Nat \ {0} /\ MaxDeaths \in Nat

VARIABLES
  mail,    \* per email: its row, state "absent" before it is enqueued
  held,    \* per sender: the copies of its claim it has not delivered yet
  outcome, \* per sender: the email in its hands and what became of it
  handed,  \* per email: the bodies the transport was handed
  deaths

mailVars == <<mail, held, outcome, handed, deaths>>

Idle == [step |-> "idle"]
Outcomes == [step : {"sending", "sent", "failed"}, mail : Mails, body : {"whole", "erased"}]

MailInit ==
  /\ mail = [m \in Mails |-> [there |-> FALSE, due |-> FALSE, sent |-> FALSE, dead |-> FALSE,
                              attempts |-> 0, body |-> "whole"]]
  /\ held = [s \in Senders |-> {}]
  /\ outcome = [s \in Senders |-> Idle]
  /\ handed = [m \in Mails |-> {}]
  /\ deaths = 0

\* Queue.Enqueue: the row appears when its caller's transaction commits.
Enqueue(m) ==
  /\ ~mail[m].there
  /\ mail' = [mail EXCEPT ![m].there = TRUE, ![m].due = TRUE]
  /\ UNCHANGED <<held, outcome, handed, deaths>>

\* next_attempt_at passes: a backoff, or a claim that outlived its window.
ComesDue(m) ==
  /\ mail[m].there /\ ~mail[m].due
  /\ mail' = [mail EXCEPT ![m].due = TRUE]
  /\ UNCHANGED <<held, outcome, handed, deaths>>

\* Mutant: the claim does not look at sent_at.
ClaimsSent == {m \in Mails : mail[m].there /\ mail[m].due /\ ~mail[m].dead}

\* Claim's WHERE clause; the batch limit is not reached.
Claimable == {m \in Mails : mail[m].there /\ mail[m].due /\ ~mail[m].sent /\ ~mail[m].dead}

\* Queue.Claim: the rows are read and hidden in one transaction.
ClaimMail(s) ==
  /\ held[s] = {} /\ outcome[s] = Idle /\ Claimable # {}
  /\ held' = [held EXCEPT ![s] = {[mail |-> m, body |-> mail[m].body] : m \in Claimable}]
  /\ mail' = [m \in Mails |-> IF m \in Claimable THEN [mail[m] EXCEPT !.due = FALSE] ELSE mail[m]]
  /\ UNCHANGED <<outcome, handed, deaths>>

\* Sender.deliver: the claimed copy goes to the transport ...
HandOver(s) ==
  /\ outcome[s] = Idle
  /\ \E c \in held[s] :
       /\ held' = [held EXCEPT ![s] = @ \ {c}]
       /\ outcome' = [outcome EXCEPT ![s] = [step |-> "sending", mail |-> c.mail, body |-> c.body]]
  /\ UNCHANGED <<mail, handed, deaths>>

\* ... which takes it, or answers with an error after it may have taken it.
TransportAnswers(s) ==
  LET o == outcome[s] IN
  /\ o.step = "sending"
  /\ \/ /\ handed' = [handed EXCEPT ![o.mail] = @ \cup {o.body}]
        /\ \E step \in {"sent", "failed"} : outcome' = [outcome EXCEPT ![s].step = step]
     \/ outcome' = [outcome EXCEPT ![s].step = "failed"] /\ UNCHANGED handed
  /\ UNCHANGED <<mail, held, deaths>>

\* MarkSent: one statement, and nothing when the row is sent already.
Sent(r) == IF r.sent THEN r ELSE [r EXCEPT !.sent = TRUE, !.body = "erased"]

\* MarkFailed, under the row's lock; it does not look at sent_at, and writes
\* dead_at afresh.
Failed(r) == [r EXCEPT !.attempts = @ + 1, !.due = FALSE, !.dead = (r.attempts + 1 >= MaxSends)]

RecordOutcome(s) ==
  LET o == outcome[s] IN
  /\ o.step \in {"sent", "failed"}
  /\ mail' = [mail EXCEPT ![o.mail] = IF o.step = "sent" THEN Sent(@) ELSE Failed(@)]
  /\ outcome' = [outcome EXCEPT ![s] = Idle]
  /\ UNCHANGED <<held, handed, deaths>>

\* The outcome is not recorded, and the sender goes on.
OutcomeLost(s) ==
  /\ outcome[s].step \in {"sent", "failed"} /\ deaths < MaxDeaths
  /\ deaths' = deaths + 1 /\ outcome' = [outcome EXCEPT ![s] = Idle]
  /\ UNCHANGED <<mail, held, handed>>

\* The process dies with its claims.
SenderDies(s) ==
  /\ held[s] # {} \/ outcome[s] # Idle
  /\ deaths < MaxDeaths /\ deaths' = deaths + 1
  /\ held' = [held EXCEPT ![s] = {}] /\ outcome' = [outcome EXCEPT ![s] = Idle]
  /\ UNCHANGED <<mail, handed>>

SenderSteps(s) == ClaimMail(s) \/ HandOver(s) \/ TransportAnswers(s) \/ RecordOutcome(s)

MailNext ==
  \/ \E m \in Mails : Enqueue(m) \/ ComesDue(m)
  \/ \E s \in Senders : SenderSteps(s) \/ OutcomeLost(s) \/ SenderDies(s)

MailSpec == MailInit /\ [][MailNext]_mailVars

\* The ticker of Run drains for ever, and time passes.
MailFairness ==
  /\ \A m \in Mails : WF_mailVars(ComesDue(m))
  /\ \A s \in Senders : WF_mailVars(SenderSteps(s))

FairMailSpec == MailSpec /\ MailFairness

----------------------------------------------------------------------------
\* Queue.DeliveryStatus; nothing writes a bounce or a complaint yet.
DeliveryStatus(m) ==
  IF ~mail[m].there THEN "unknown"
  ELSE IF mail[m].dead THEN "failed"
  ELSE IF mail[m].sent THEN "sent" ELSE "pending"

MailTypeOK ==
  /\ \A m \in Mails : /\ mail[m].attempts \in 0 .. MaxSends + Cardinality(Senders) - 1
                      /\ handed[m] \subseteq {"whole", "erased"}
  /\ \A s \in Senders : /\ \A c \in held[s] : c.mail \in Mails
                        /\ outcome[s] \in {Idle} \cup Outcomes
  /\ deaths \in 0 .. MaxDeaths

\* What a recruiter is told only moves forward: never back to pending, and a
\* reported send is contradicted at most by the failures of copies claimed
\* before it; and no email is handed over after its content was erased,
\* although a second sender may hold a copy (DeliveryStatus, RecordFailure,
\* Claim, MarkSent).
StatusForward ==
  [][\A m \in Mails :
       /\ DeliveryStatus(m) \in {"sent", "failed"} => DeliveryStatus(m)' \in {"sent", "failed"}
       /\ DeliveryStatus(m) = "failed" => DeliveryStatus(m)' = "failed"
       /\ "erased" \notin handed'[m]]_mailVars

\* An enqueued email is sent or dead-lettered as long as one sender keeps
\* running (Run, drain, MaxAttempts).
EventuallyMailed ==
  \A m \in Mails : mail[m].there ~> (mail[m].sent \/ mail[m].dead)
=============================================================================
