----------------------------- MODULE Screening ------------------------------
(***************************************************************************)
(* Invitations to a campaign and the screening sessions they admit         *)
(* (recruiting/invitation_store.go, reinvitation_store.go and the adapters *)
(* invitations_adapter.go and screening_adapter.go), for one recipient of  *)
(* one open campaign.                                                      *)
(*                                                                         *)
(* Recruiters issue and resend links: one transaction retires the links it *)
(* sees live and stores a new one.  The recipient accepts or declines a    *)
(* link once, then asks for a session; a further one needs a recruiter's   *)
(* re-invitation, which the start claims.  Requests of both kinds overlap, *)
(* and a start is several transactions.                                    *)
(***************************************************************************)
EXTENDS Naturals, Sequences, FiniteSets

CONSTANTS
  Links,        \* invitations (tokens) that may be issued
  Clerks,       \* recruiters' requests to issue or resend
  Takers,       \* the recipient's requests to accept a link
  Visits,       \* the recipient's requests to start a session
  MaxGrants,    \* bound: re-invitations authorized
  MaxStartFaults, \* bound: start requests that die half-way
  None

ASSUME ScreeningAssumption ==
  /\ None \notin Links \cup Clerks \cup Takers \cup Visits /\ "open" \notin Visits
  /\ MaxGrants \in Nat /\ MaxStartFaults \in Nat

VARIABLES
  link,       \* per invitation: unissued, live or its outcome
  lapsed,     \* invitations past expires_at
  over,       \* per invitation: what its issuing transaction saw issued
  clerk,      \* per request: where it is
  clerkSees,  \* per request: what its transaction saw issued and live
  taker,      \* per request: where it is, and its link
  signedIn,   \* requests to accept that were given a candidate session
  grants,     \* re-invitations in the order they were decided: open, or the visit
  visit,      \* per request to start: where it is
  firsts,     \* requests to start that found no session yet
  entry,      \* per request to start: the re-invitation it claims, or 0
  consents,   \* acceptances of the disclosure recorded
  sessions,   \* requests to start whose session was created
  startFaults \* faults so far

invitations == <<link, lapsed, over>>
recruiter == <<clerk, clerkSees>>
recipient == <<taker, signedIn>>
starting == <<grants, visit, firsts, entry, consents, sessions>>
screeningVars == <<invitations, recruiter, recipient, starting, startFaults>>

ScreeningInit ==
  /\ link = [l \in Links |-> "unissued"] /\ lapsed = {} /\ over = [l \in Links |-> {}]
  /\ clerk = [c \in Clerks |-> "idle"]
  /\ clerkSees = [c \in Clerks |-> [issued |-> {}, live |-> {}]]
  /\ taker = [t \in Takers |-> None] /\ signedIn = {}
  /\ grants = <<>> /\ visit = [v \in Visits |-> "idle"] /\ entry = [v \in Visits |-> 0]
  /\ firsts = {} /\ consents = {} /\ sessions = {}
  /\ startFaults = 0

Issued == {l \in Links : link[l] # "unissued"}
Live == {l \in Links : link[l] = "live"}

----------------------------------------------------------------------------
(* The recruiter's side.                                                   *)

\* IssueInvitation begins: the UPDATE of SupersedeLiveInvitations sees the
\* links committed so far.
IssueBegins(c) ==
  /\ clerk[c] \in {"idle", "fresh"}
  /\ clerk' = [clerk EXCEPT ![c] = "issuing"]
  /\ clerkSees' = [clerkSees EXCEPT ![c] = [issued |-> Issued, live |-> Live]]
  /\ UNCHANGED <<invitations, recipient, starting, startFaults>>

\* Resend refuses a link that was answered or revoked, then issues.
Resend(c) ==
  /\ clerk[c] = "idle"
  /\ \E l \in Issued : link[l] \notin {"accepted", "declined", "revoked"}
  /\ clerk' = [clerk EXCEPT ![c] = "fresh"]
  /\ UNCHANGED <<invitations, clerkSees, recipient, starting, startFaults>>

\* Mutant: the rows it saw live are retired whatever became of them.
RetiresSeen(c) == clerkSees[c].live

\* Mutant: a resend leaves the earlier links alone.
RetiresNone(c) == {}

\* SupersedeLiveInvitations: of the rows it saw, those still live when their
\* lock is granted.
SupersedeLiveInvitations(c) == clerkSees[c].live \cap Live

\* The transaction commits: supersede, email and the new link together.
IssueInvitation(c) ==
  /\ clerk[c] = "issuing"
  /\ \E new \in Links \ Issued :
       /\ link' = [l \in Links |->
                     IF l = new THEN "live"
                     ELSE IF l \in SupersedeLiveInvitations(c) THEN "superseded" ELSE link[l]]
       /\ over' = [over EXCEPT ![new] = clerkSees[c].issued]
  /\ clerk' = [clerk EXCEPT ![c] = "done"]
  /\ UNCHANGED <<lapsed, clerkSees, recipient, starting, startFaults>>

\* RevokeInvitation: a live one only.
RevokeInvitation(l) ==
  /\ link[l] = "live" /\ link' = [link EXCEPT ![l] = "revoked"]
  /\ UNCHANGED <<lapsed, over, recruiter, recipient, starting, startFaults>>

\* AuthorizeReInvitation.
AuthorizeReInvitation ==
  /\ Len(grants) < MaxGrants /\ grants' = Append(grants, "open")
  /\ UNCHANGED <<invitations, recruiter, recipient, visit, firsts, entry, consents, sessions, startFaults>>

----------------------------------------------------------------------------
(* The recipient and the link.                                             *)

Expires(l) ==
  /\ link[l] = "live" /\ l \notin lapsed /\ lapsed' = lapsed \cup {l}
  /\ UNCHANGED <<link, over, recruiter, recipient, starting, startFaults>>

\* Accept resolves the token and provisions the account and its session.
AcceptProvisions(t) ==
  /\ taker[t] = None
  /\ \E l \in Issued : taker' = [taker EXCEPT ![t] = l]
  /\ signedIn' = signedIn \cup {t}
  /\ UNCHANGED <<invitations, recruiter, starting, startFaults>>

\* The WHERE clause of AcceptInvitationByToken and DeclineInvitationByToken.
Acceptable(l) == link[l] = "live" /\ l \notin lapsed

\* It then consumes the link, once; a refused one is reported to the caller.
AcceptInvitationByToken(t) ==
  /\ taker[t] \in Links
  /\ link' = IF Acceptable(taker[t]) THEN [link EXCEPT ![taker[t]] = "accepted"] ELSE link
  /\ taker' = [taker EXCEPT ![t] = IF Acceptable(taker[t]) THEN "accepted" ELSE "refused"]
  /\ UNCHANGED <<lapsed, over, signedIn, recruiter, starting, startFaults>>

DeclineInvitationByToken(l) ==
  /\ Acceptable(l) /\ link' = [link EXCEPT ![l] = "declined"]
  /\ UNCHANGED <<lapsed, over, recruiter, recipient, starting, startFaults>>

----------------------------------------------------------------------------
(* StartScreeningSession.                                                  *)

Goes(v, to) == visit' = [visit EXCEPT ![v] = to]

\* AcceptedInvitationForCandidate, then whether there is a session already
\* (ScreeningPhaseForCandidate).
StartReads(v) ==
  /\ visit[v] = "idle" /\ \E l \in Links : link[l] = "accepted"
  /\ IF sessions = {} THEN firsts' = firsts \cup {v} /\ Goes(v, "consent")
                      ELSE UNCHANGED firsts /\ Goes(v, "claim")
  /\ UNCHANGED <<invitations, recruiter, recipient, grants, entry, consents, sessions, startFaults>>

Open == {g \in 1 .. Len(grants) : grants[g] = "open"}

\* Mutant: without an open re-invitation the start goes on.
ClaimsNothing(v) ==
  IF Open = {} THEN Goes(v, "consent") /\ UNCHANGED entry
  ELSE /\ entry' = [entry EXCEPT ![v] = CHOOSE g \in Open : \A h \in Open : g <= h]
       /\ Goes(v, "claiming")

\* ClaimReInvitation selects the oldest open one in its snapshot; there is
\* none: the start is refused.
ClaimSelects(v) ==
  IF Open = {} THEN Goes(v, "refused") /\ UNCHANGED entry
  ELSE /\ entry' = [entry EXCEPT ![v] = CHOOSE g \in Open : \A h \in Open : g <= h]
       /\ Goes(v, "claiming")

ClaimBegins(v) ==
  /\ visit[v] = "claim" /\ ClaimSelects(v)
  /\ UNCHANGED <<invitations, recruiter, recipient, grants, firsts, consents, sessions, startFaults>>

\* Its UPDATE names the row by id alone: the one selected, taken or not.
ClaimReInvitation(v) ==
  /\ visit[v] = "claiming"
  /\ grants' = [grants EXCEPT ![entry[v]] = v]
  /\ Goes(v, "consent")
  /\ UNCHANGED <<invitations, recruiter, recipient, firsts, entry, consents, sessions, startFaults>>

\* RecordAcceptance, before the session exists.
RecordAcceptance(v) == consents' = consents \cup {v}

StartConsents(v) ==
  /\ visit[v] = "consent" /\ RecordAcceptance(v) /\ Goes(v, "create")
  /\ UNCHANGED <<invitations, recruiter, recipient, grants, firsts, entry, sessions, startFaults>>

\* The session is created; its composition is the module Composition.
StartCreates(v) ==
  /\ visit[v] = "create" /\ sessions' = sessions \cup {v} /\ Goes(v, "done")
  /\ UNCHANGED <<invitations, recruiter, recipient, grants, firsts, entry, consents, startFaults>>

\* The request dies between two of its transactions.
StartDies(v) ==
  /\ visit[v] \in {"claim", "claiming", "consent", "create"} /\ startFaults < MaxStartFaults
  /\ startFaults' = startFaults + 1 /\ Goes(v, "died")
  /\ UNCHANGED <<invitations, recruiter, recipient, grants, firsts, entry, consents, sessions>>

ScreeningNext ==
  \/ \E c \in Clerks : IssueBegins(c) \/ Resend(c) \/ IssueInvitation(c)
  \/ AuthorizeReInvitation
  \/ \E l \in Links : RevokeInvitation(l) \/ Expires(l) \/ DeclineInvitationByToken(l)
  \/ \E t \in Takers : AcceptProvisions(t) \/ AcceptInvitationByToken(t)
  \/ \E v \in Visits :
       \/ StartReads(v) \/ ClaimBegins(v) \/ ClaimReInvitation(v)
       \/ StartConsents(v) \/ StartCreates(v) \/ StartDies(v)

ScreeningSpec == ScreeningInit /\ [][ScreeningNext]_screeningVars
----------------------------------------------------------------------------
Outcomes == {"accepted", "declined", "revoked", "superseded"}

ScreeningTypeOK ==
  /\ link \in [Links -> {"unissued", "live"} \cup Outcomes] /\ lapsed \subseteq Issued
  /\ over \in [Links -> SUBSET Links]
  /\ clerk \in [Clerks -> {"idle", "fresh", "issuing", "done"}]
  /\ clerkSees \in [Clerks -> [issued : SUBSET Links, live : SUBSET Links]]
  /\ taker \in [Takers -> Links \cup {None, "accepted", "refused"}] /\ signedIn \subseteq Takers
  /\ \A g \in 1 .. Len(grants) : grants[g] \in {"open"} \cup Visits
  /\ visit \in [Visits -> {"idle", "claim", "claiming", "consent", "create", "done",
                           "refused", "died"}]
  /\ firsts \subseteq Visits /\ entry \in [Visits -> 0 .. MaxGrants]
  /\ consents \subseteq Visits /\ sessions \subseteq Visits /\ startFaults \in 0 .. MaxStartFaults

\* Two links of one recipient work together only when the requests that issued
\* them overlapped: a later one always retires the earlier (IssueInvitation,
\* SupersedeLiveInvitations).
WorkingLinksOverlap ==
  \A l, m \in Live : l # m => l \notin over[m] /\ m \notin over[l]

\* No race of an answer, a revocation and a resend overwrites an ending, and
\* no lapsed link is accepted or declined (the WHERE clauses).
EndingsStand ==
  [][\A l \in Links :
       /\ link[l] \in Outcomes => link'[l] = link[l]
       /\ l \in lapsed => link'[l] \notin {"accepted", "declined"} \/ link'[l] = link[l]
    ]_screeningVars

\* Every session stands on an accepted invitation and a recorded consent; it
\* was the first as far as its request could see, or it holds a recruiter's
\* authorization (StartScreeningSession).
SessionIsAdmitted ==
  /\ sessions \subseteq consents
  /\ sessions # {} => \E l \in Links : link[l] = "accepted"
  /\ \A v \in sessions \ firsts :
       entry[v] \in 1 .. Len(grants) /\ grants[entry[v]] # "open"

\* "a recipient never holds two working ones" (invitations_adapter.go, Resend).
OneWorkingLink == Cardinality(Live) <= 1

\* "a recipient forwarded two emails cannot accept twice" (the comment of
\* SupersedeLiveInvitations).
AcceptOnce == Cardinality({l \in Links : link[l] = "accepted"}) <= 1

\* "One session per accepted invitation ... one authorization admits exactly
\* one further attempt" (screening_adapter.go, StartScreeningSession).
OneSessionEach ==
  Cardinality(sessions) <= Cardinality({l \in Links : link[l] = "accepted"}) + Len(grants)

\* "The consume is the single-use guard and comes before the session is
\* issued" (screening_adapter.go, Accept).
ConsumeComesFirst == \A t \in signedIn : taker[t] = "accepted"
=============================================================================
