------------------------------ MODULE Appeals -------------------------------
(***************************************************************************)
(* Decisions on one screened session and the appeals against them          *)
(* (recruiting/decision.go, rereview.go, and the handlers and adapters     *)
(* over them).  Recruiters record decisions, which are only ever appended; *)
(* an appeal names the latest one and its reviewer, is assigned to someone *)
(* else while open, and is answered once by whom it is assigned to.        *)
(*                                                                         *)
(* Each operation is one READ COMMITTED transaction that reads and then    *)
(* writes, so another's commit may fall between the two.  A decision's     *)
(* created_at is when its transaction began.                               *)
(***************************************************************************)
EXTENDS Naturals, FiniteSets

CONSTANTS
  Deciders,   \* requests to record a decision
  Appellants, \* requests to raise an appeal, each with the appeal it raises
  Seats,      \* requests to assign or to answer an appeal
  Reviewers,  \* recruiters on the campaign
  Nobody

ASSUME AppealsAssumption == Nobody \notin Reviewers \cup Deciders

VARIABLES
  decided,   \* per request to decide: where it is, by whom, created_at
  instant,   \* transactions begun by requests to decide
  appeal,    \* per appeal: where it is and its row
  seat,      \* per request to assign or answer: where it is, what it asks
  answers    \* per appeal: who was told that their answer was recorded

appealVars == <<decided, instant, appeal, seat, answers>>

NoAppeal == [step |-> "idle", of |-> Nobody, original |-> Nobody,
             assigned |-> Nobody, resolvedBy |-> Nobody]

AppealsInit ==
  /\ decided = [d \in Deciders |-> [step |-> "idle", by |-> Nobody, at |-> 0]]
  /\ instant = 0
  /\ appeal = [a \in Appellants |-> NoAppeal]
  /\ seat = [s \in Seats |-> [step |-> "idle"]]
  /\ answers = [a \in Appellants |-> {}]

-----------------------------------------------------------------------------
(* Decisions.                                                              *)

\* The session and its result are there and the transaction begins.
DecisionBegins(d) ==
  /\ decided[d].step = "idle"
  /\ \E r \in Reviewers :
       decided' = [decided EXCEPT ![d] = [step |-> "begun", by |-> r, at |-> instant + 1]]
  /\ instant' = instant + 1
  /\ UNCHANGED <<appeal, seat, answers>>

RecordReviewDecision(d) ==
  /\ decided[d].step = "begun"
  /\ decided' = [decided EXCEPT ![d].step = "recorded"]
  /\ UNCHANGED <<instant, appeal, seat, answers>>

Recorded == {d \in Deciders : decided[d].step = "recorded"}

IsLatest(d) == d \in Recorded /\ \A e \in Recorded : decided[e].at <= decided[d].at

-----------------------------------------------------------------------------
(* Appeals.                                                                *)

LatestReviewDecision(a) ==
  /\ appeal[a].step = "idle"
  /\ \E d \in Deciders :
       /\ IsLatest(d)
       /\ appeal' = [appeal EXCEPT ![a] =
            [NoAppeal EXCEPT !.step = "raising", !.of = d, !.original = decided[d].by]]
  /\ UNCHANGED <<decided, instant, seat, answers>>

RaiseReReview(a) ==
  /\ appeal[a].step = "raising"
  /\ appeal' = [appeal EXCEPT ![a].step = "open"]
  /\ UNCHANGED <<decided, instant, seat, answers>>

\* What an assignment to r, and an answer by r, require of the row read.
MayAssign(a, r) == appeal[a].step = "open" /\ appeal[a].original # r
MayResolve(a, r) == MayAssign(a, r) /\ appeal[a].assigned = r

ReReviewByID(s) ==
  /\ seat[s].step = "idle"
  /\ \E a \in Appellants, r \in Reviewers :
       \/ MayAssign(a, r) /\ seat' = [seat EXCEPT ![s] = [step |-> "assign", of |-> a, who |-> r]]
       \/ MayResolve(a, r) /\ seat' = [seat EXCEPT ![s] = [step |-> "resolve", of |-> a, who |-> r]]
  /\ UNCHANGED <<decided, instant, appeal, answers>>

Unanswered(a) == appeal[a].step = "open"

\* The update writes the rows its predicate admits, none of them else.
AssignReReview(s) ==
  /\ seat[s].step = "assign"
  /\ appeal' = IF Unanswered(seat[s].of) THEN [appeal EXCEPT ![seat[s].of].assigned = seat[s].who]
               ELSE appeal
  /\ seat' = [seat EXCEPT ![s] = [step |-> "over"]]
  /\ UNCHANGED <<decided, instant, answers>>

AnswersUnlessAnswered(a, r) == Unanswered(a)
Answerable(a, r) == Unanswered(a) /\ appeal[a].assigned = r

ResolveReReview(s) ==
  /\ seat[s].step = "resolve"
  /\ IF Answerable(seat[s].of, seat[s].who)
     THEN /\ appeal' = [appeal EXCEPT ![seat[s].of].step = "answered",
                                      ![seat[s].of].resolvedBy = seat[s].who]
          /\ answers' = [answers EXCEPT ![seat[s].of] = @ \cup {s}]
     ELSE UNCHANGED <<appeal, answers>>
  /\ seat' = [seat EXCEPT ![s] = [step |-> "over"]]
  /\ UNCHANGED <<decided, instant>>

AppealsNext ==
  \/ \E d \in Deciders : DecisionBegins(d) \/ RecordReviewDecision(d)
  \/ \E a \in Appellants : LatestReviewDecision(a) \/ RaiseReReview(a)
  \/ \E s \in Seats : ReReviewByID(s) \/ AssignReReview(s) \/ ResolveReReview(s)

AppealsSpec == AppealsInit /\ [][AppealsNext]_appealVars

-----------------------------------------------------------------------------

AppealsTypeOK ==
  /\ instant \in 0 .. Cardinality(Deciders)
  /\ \A a \in Appellants :
       /\ appeal[a].step \in {"idle", "raising", "open", "answered"}
       /\ appeal[a].of \in Deciders \cup {Nobody}
       /\ {appeal[a].original, appeal[a].assigned, appeal[a].resolvedBy}
            \subseteq Reviewers \cup {Nobody}

(***************************************************************************)
(* An appeal is answered by whom it is assigned to, who did not take the   *)
(* decision under appeal, and only one of the requests that race to answer *)
(* it is told that it did, whoever was assigned between its read and its   *)
(* write (recruiting/rereview.go AssignReReview, ResolveReReview).         *)
(***************************************************************************)
AnsweredIndependently ==
  \A a \in Appellants :
    /\ Cardinality(answers[a]) = IF appeal[a].step = "answered" THEN 1 ELSE 0
    /\ appeal[a].step = "answered" =>
         /\ appeal[a].resolvedBy = appeal[a].assigned
         /\ appeal[a].resolvedBy # decided[appeal[a].of].by
=============================================================================
