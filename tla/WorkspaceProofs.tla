-------------------------- MODULE WorkspaceProofs ---------------------------
(***************************************************************************)
(* Proofs about what a hiring workspace runs on, for every set of          *)
(* requests: the content registry its campaigns pin from (Registry), the   *)
(* decisions and the appeals against them (Appeals), and the admission of  *)
(* its interviews under a quota (Admission).  And about a candidate's      *)
(* progression: what is stored of the readings (ProgressionStore), that    *)
(* the three readers of the history agree, and that the practice cadence   *)
(* is counted right (Progression), for every history.                      *)
(***************************************************************************)
EXTENDS Registry, Appeals, Admission, ProgressionStore, FiniteSetTheorems,
        WellFoundedInduction, TLAPS

-----------------------------------------------------------------------------
(* Decisions and appeals.                                                  *)

DecisionRows == [step : {"idle", "begun", "recorded"}, by : Reviewers \cup {Nobody}, at : Nat]
AppealRows == [step : {"idle", "raising", "open", "answered"}, of : Deciders \cup {Nobody},
               original : Reviewers \cup {Nobody}, assigned : Reviewers \cup {Nobody},
               resolvedBy : Reviewers \cup {Nobody}]
SeatRows == [step : {"idle", "over"}]
              \cup [step : {"assign", "resolve"}, of : Appellants, who : Reviewers]

AppealsShape ==
  /\ decided \in [Deciders -> DecisionRows] /\ instant \in Nat
  /\ appeal \in [Appellants -> AppealRows]
  /\ seat \in [Seats -> SeatRows]
  /\ answers \in [Appellants -> SUBSET Seats]

\* A decision that began is somebody's.
DecisionsAreTaken == \A d \in Deciders : decided[d].step # "idle" => decided[d].by \in Reviewers

\* An appeal names a recorded decision and who took it, and neither changes; it
\* is never with that reviewer.
NamesItsDecision ==
  \A a \in Appellants : appeal[a].step # "idle" =>
    /\ appeal[a].of \in Deciders /\ decided[appeal[a].of].step = "recorded"
    /\ decided[appeal[a].of].by = appeal[a].original
    /\ appeal[a].original \in Reviewers /\ appeal[a].assigned # appeal[a].original

\* A request to assign or answer is by, or for, someone else.
SeatsAreOthers ==
  \A s \in Seats : seat[s].step \in {"assign", "resolve"} =>
    appeal[seat[s].of].step \in {"open", "answered"} /\ appeal[seat[s].of].original # seat[s].who

\* An appeal has an answer when it is answered, by whom it was assigned to.
AnsweredOnce ==
  \A a \in Appellants :
    IF appeal[a].step = "answered"
    THEN appeal[a].resolvedBy = appeal[a].assigned /\ \E s \in Seats : answers[a] = {s}
    ELSE answers[a] = {}

AppealsInv ==
  /\ AppealsShape /\ DecisionsAreTaken /\ NamesItsDecision
  /\ SeatsAreOthers /\ AnsweredOnce

\* A request under way names an appeal and a reviewer.
LEMMA SeatOf ==
  ASSUME AppealsShape, NEW s \in Seats, seat[s].step \in {"assign", "resolve"}
  PROVE  seat[s].of \in Appellants /\ seat[s].who \in Reviewers
BY DEF AppealsShape, SeatRows

\* Decisions are appended: none that an appeal names changes.
LEMMA DecidingKeepsAppeals ==
  ASSUME AppealsInv, NEW d \in Deciders, DecisionBegins(d) \/ RecordReviewDecision(d)
  PROVE  AppealsInv'
<1> USE DEF AppealsInv
<1>1. UNCHANGED <<appeal, seat, answers>>
  BY DEF DecisionBegins, RecordReviewDecision
<1>2. AppealsShape'
  <2>1. decided' \in [Deciders -> DecisionRows] /\ instant' \in Nat
    <3>1. CASE DecisionBegins(d)
      <4>1. \A w \in Reviewers : [step |-> "begun", by |-> w, at |-> instant + 1] \in DecisionRows
        BY DEF AppealsShape, DecisionRows
      <4> QED BY <3>1, <4>1 DEF DecisionBegins, AppealsShape
    <3>2. CASE RecordReviewDecision(d)
      <4>1. decided[d] \in DecisionRows
        BY DEF AppealsShape
      <4>2. [decided[d] EXCEPT !.step = "recorded"] \in DecisionRows
        BY <4>1 DEF DecisionRows
      <4> QED BY <3>2, <4>2 DEF RecordReviewDecision, AppealsShape
    <3> QED BY <3>1, <3>2
  <2> QED BY <1>1, <2>1 DEF AppealsShape
<1>3. \A e \in Deciders : decided[e].step = "recorded" => decided'[e] = decided[e]
  BY DEF DecisionBegins, RecordReviewDecision, AppealsShape
<1>4. NamesItsDecision'
  BY <1>1, <1>3 DEF NamesItsDecision
<1>5. SeatsAreOthers' /\ AnsweredOnce'
  BY <1>1 DEF SeatsAreOthers, AnsweredOnce
<1>6. DecisionsAreTaken'
  BY DEF DecisionBegins, RecordReviewDecision, AppealsShape, DecisionRows, DecisionsAreTaken
<1> QED BY <1>2, <1>4, <1>5, <1>6

\* An appeal is raised against the decision read, with its reviewer.
LEMMA RaisingKeepsAppeals ==
  ASSUME AppealsInv, NEW a \in Appellants, LatestReviewDecision(a) \/ RaiseReReview(a)
  PROVE  AppealsInv'
<1> USE DEF AppealsInv
<1>1. UNCHANGED <<decided, instant, seat, answers>> /\ appeal[a].step \in {"idle", "raising"}
  BY DEF LatestReviewDecision, RaiseReReview
<1>2. CASE LatestReviewDecision(a)
  <2> DEFINE row0(d) == [NoAppeal EXCEPT !.step = "raising", !.of = d, !.original = decided[d].by]
  <2>1. PICK d \in Deciders : IsLatest(d) /\ appeal' = [appeal EXCEPT ![a] = row0(d)]
    BY <1>2 DEF LatestReviewDecision
  <2>2. decided[d].step = "recorded" /\ decided[d] \in DecisionRows
    BY <2>1 DEF IsLatest, Recorded, AppealsShape
  <2>3. appeal[a].step = "idle"
    BY <1>2 DEF LatestReviewDecision
  <2>4. /\ row0(d) \in AppealRows /\ row0(d).step = "raising" /\ row0(d).of = d
        /\ row0(d).original = decided[d].by /\ row0(d).assigned = Nobody
    BY <2>2 DEF NoAppeal, AppealRows, DecisionRows
  <2> HIDE DEF row0
  <2>5. appeal'[a] = row0(d) /\ \A b \in Appellants : b # a => appeal'[b] = appeal[b]
    BY <2>1 DEF AppealsShape
  <2>6. AppealsShape'
    BY <1>1, <2>1, <2>4 DEF AppealsShape
  <2> USE AppealsAssumption
  <2>7. decided[d].by \in Reviewers
    BY <2>2 DEF DecisionsAreTaken
  <2>8. NamesItsDecision' /\ SeatsAreOthers' /\ AnsweredOnce'
    BY <1>1, <2>2, <2>3, <2>4, <2>5, <2>7, SeatOf DEF NamesItsDecision, SeatsAreOthers, AnsweredOnce
  <2>9. DecisionsAreTaken'
    BY <1>1 DEF DecisionsAreTaken
  <2> QED BY <2>6, <2>8, <2>9
<1>3. CASE RaiseReReview(a)
  <2>1. appeal[a].step = "raising" /\ appeal' = [appeal EXCEPT ![a] = [appeal[a] EXCEPT !.step = "open"]]
    BY <1>3 DEF RaiseReReview, AppealsShape
  <2>2. /\ appeal'[a].step = "open" /\ appeal'[a].of = appeal[a].of
        /\ appeal'[a].original = appeal[a].original /\ appeal'[a].assigned = appeal[a].assigned
        /\ \A b \in Appellants : b # a => appeal'[b] = appeal[b]
    BY <2>1 DEF AppealsShape, AppealRows
  <2>3. AppealsShape'
    BY <1>1, <2>1 DEF AppealsShape, AppealRows
  <2>4. NamesItsDecision' /\ SeatsAreOthers' /\ AnsweredOnce'
    BY <1>1, <2>1, <2>2, SeatOf DEF NamesItsDecision, SeatsAreOthers, AnsweredOnce
  <2>5. DecisionsAreTaken'
    BY <1>1 DEF DecisionsAreTaken
  <2> QED BY <2>3, <2>4, <2>5
<1> QED BY <1>1, <1>2, <1>3

\* Requests to assign or answer: only an open appeal changes hands, to someone
\* who did not decide, and the one answer it takes closes it.
LEMMA SeatingKeepsAppeals ==
  ASSUME AppealsInv, NEW s \in Seats,
         ReReviewByID(s) \/ AssignReReview(s) \/ ResolveReReview(s)
  PROVE  AppealsInv'
<1> USE DEF AppealsInv
<1>1. UNCHANGED <<decided, instant>>
  BY DEF ReReviewByID, AssignReReview, ResolveReReview
<1>2. DecisionsAreTaken'
  BY <1>1 DEF DecisionsAreTaken
<1>3. CASE ReReviewByID(s)
  <2>1. UNCHANGED <<appeal, answers>>
    BY <1>3 DEF ReReviewByID
  <2>2. PICK a \in Appellants, r \in Reviewers, k \in {"assign", "resolve"} :
          /\ appeal[a].step = "open" /\ appeal[a].original # r
          /\ seat' = [seat EXCEPT ![s] = [step |-> k, of |-> a, who |-> r]]
    BY <1>3 DEF ReReviewByID, MayAssign, MayResolve
  <2>3. [step |-> k, of |-> a, who |-> r] \in SeatRows
    BY DEF SeatRows
  <2>4. AppealsShape'
    BY <1>1, <2>1, <2>2, <2>3 DEF AppealsShape
  <2>5. SeatsAreOthers'
    BY <2>1, <2>2 DEF SeatsAreOthers, AppealsShape
  <2>6. NamesItsDecision' /\ AnsweredOnce'
    BY <1>1, <2>1 DEF NamesItsDecision, AnsweredOnce
  <2> QED BY <1>2, <2>4, <2>5, <2>6
<1> DEFINE a == seat[s].of
           r == seat[s].who
<1>4. SUFFICES ASSUME AssignReReview(s) \/ ResolveReReview(s) PROVE AppealsInv'
  BY <1>3
<1>5. a \in Appellants /\ r \in Reviewers /\ appeal[a].original # r
  BY <1>4, SeatOf DEF AssignReReview, ResolveReReview, SeatsAreOthers
<1>6. seat' = [seat EXCEPT ![s] = [step |-> "over"]]
  BY <1>4 DEF AssignReReview, ResolveReReview
<1>7. seat' \in [Seats -> SeatRows] /\ seat'[s].step = "over"
      /\ \A q \in Seats : q # s => seat'[q] = seat[q]
  BY <1>6 DEF AppealsShape, SeatRows
<1>8. CASE UNCHANGED <<appeal, answers>>
  BY <1>1, <1>2, <1>7, <1>8 DEF AppealsShape, NamesItsDecision, SeatsAreOthers, AnsweredOnce
<1>9. CASE AssignReReview(s) /\ appeal[a].step = "open"
  <2>1. appeal' = [appeal EXCEPT ![a] = [appeal[a] EXCEPT !.assigned = r]] /\ answers' = answers
    BY <1>9 DEF AssignReReview, Unanswered, AppealsShape
  <2> HIDE DEF a, r
  <2>2. /\ appeal'[a].step = "open" /\ appeal'[a].of = appeal[a].of
        /\ appeal'[a].original = appeal[a].original /\ appeal'[a].assigned = r
        /\ \A b \in Appellants : b # a => appeal'[b] = appeal[b]
    BY <1>5, <1>9, <2>1 DEF AppealsShape, AppealRows
  <2>3. AppealsShape'
    BY <1>1, <1>5, <1>7, <2>1 DEF AppealsShape, AppealRows
  <2>4. NamesItsDecision'
    BY <1>1, <1>5, <1>9, <2>2 DEF NamesItsDecision
  <2>5. SeatsAreOthers'
    BY <1>5, <1>7, <1>9, <2>2, SeatOf DEF SeatsAreOthers
  <2>6. AnsweredOnce'
    BY <1>5, <1>9, <2>1, <2>2 DEF AnsweredOnce
  <2> QED BY <1>2, <2>3, <2>4, <2>5, <2>6
<1>10. CASE ResolveReReview(s) /\ appeal[a].step = "open" /\ appeal[a].assigned = r
  <2>1. /\ appeal' = [appeal EXCEPT ![a] = [appeal[a] EXCEPT !.step = "answered", !.resolvedBy = r]]
        /\ answers' = [answers EXCEPT ![a] = answers[a] \cup {s}]
    BY <1>5, <1>10 DEF ResolveReReview, Answerable, Unanswered, AppealsShape
  <2> HIDE DEF a, r
  <2>2. /\ appeal'[a].step = "answered" /\ appeal'[a].of = appeal[a].of
        /\ appeal'[a].original = appeal[a].original /\ appeal'[a].assigned = r
        /\ appeal'[a].resolvedBy = r
        /\ \A b \in Appellants : b # a => appeal'[b] = appeal[b]
    BY <1>5, <1>10, <2>1 DEF AppealsShape, AppealRows
  <2>3. answers'[a] = {s} /\ \A b \in Appellants : b # a => answers'[b] = answers[b]
    BY <1>5, <1>10, <2>1 DEF AppealsShape, AnsweredOnce
  <2>4. AppealsShape'
    <3>1. appeal[a] \in AppealRows
      BY <1>5 DEF AppealsShape
    <3>2. [appeal[a] EXCEPT !.step = "answered", !.resolvedBy = r] \in AppealRows
      BY <1>5, <3>1 DEF AppealRows
    <3>3. answers[a] \cup {s} \in SUBSET Seats
      BY <1>5 DEF AppealsShape
    <3> QED BY <1>1, <1>5, <1>7, <2>1, <3>2, <3>3 DEF AppealsShape
  <2>5. NamesItsDecision'
    BY <1>1, <1>5, <1>10, <2>2 DEF NamesItsDecision
  <2>6. SeatsAreOthers'
    BY <1>5, <1>7, <1>10, <2>2, SeatOf DEF SeatsAreOthers
  <2>7. AnsweredOnce'
    BY <1>5, <2>2, <2>3 DEF AnsweredOnce
  <2> QED BY <1>2, <2>4, <2>5, <2>6, <2>7
<1> QED BY <1>4, <1>8, <1>9, <1>10 DEF AssignReReview, ResolveReReview, Answerable, Unanswered

\* Every state of the appeals satisfies the inductive invariant.
THEOREM AppealsInvariant == AppealsSpec => []AppealsInv
<1>1. AppealsInit => AppealsInv
  <2> SUFFICES ASSUME AppealsInit PROVE AppealsInv
    OBVIOUS
  <2>1. NoAppeal \in AppealRows /\ NoAppeal.step = "idle"
    BY DEF NoAppeal, AppealRows
  <2>2. AppealsShape
    BY <2>1 DEF AppealsInit, AppealsShape, DecisionRows, SeatRows
  <2>3. DecisionsAreTaken /\ NamesItsDecision /\ SeatsAreOthers /\ AnsweredOnce
    BY <2>1 DEF AppealsInit, DecisionsAreTaken, NamesItsDecision, SeatsAreOthers, AnsweredOnce
  <2> QED BY <2>2, <2>3 DEF AppealsInv
<1>2. AppealsInv /\ [AppealsNext]_appealVars => AppealsInv'
  <2> SUFFICES ASSUME AppealsInv, [AppealsNext]_appealVars PROVE AppealsInv'
    OBVIOUS
  <2>1. CASE UNCHANGED appealVars
    BY <2>1 DEF appealVars, AppealsInv, AppealsShape, DecisionsAreTaken, NamesItsDecision,
                SeatsAreOthers, AnsweredOnce
  <2> QED
    BY <2>1, DecidingKeepsAppeals, RaisingKeepsAppeals, SeatingKeepsAppeals DEF AppealsNext
<1> QED BY <1>1, <1>2, PTL DEF AppealsSpec

(***************************************************************************)
(* An appeal is answered once, by whom it is assigned to, who did not take *)
(* the decision under appeal, for every number of requests that race to    *)
(* assign and to answer it (recruiting/rereview.go AssignReReview,         *)
(* ResolveReReview).                                                       *)
(***************************************************************************)
THEOREM AppealsAreIndependent == AppealsSpec => []AnsweredIndependently
<1>1. AppealsInv => AnsweredIndependently
  <2> SUFFICES ASSUME AppealsInv, NEW a \in Appellants
               PROVE  /\ Cardinality(answers[a]) = IF appeal[a].step = "answered" THEN 1 ELSE 0
                      /\ appeal[a].step = "answered" =>
                           /\ appeal[a].resolvedBy = appeal[a].assigned
                           /\ appeal[a].resolvedBy # decided[appeal[a].of].by
    BY DEF AnsweredIndependently
  <2>1. CASE appeal[a].step = "answered"
    <3>1. PICK s \in Seats : answers[a] = {s}
      BY <2>1 DEF AppealsInv, AnsweredOnce
    <3>2. Cardinality(answers[a]) = 1
      BY <3>1, FS_Singleton
    <3> QED BY <2>1, <3>2 DEF AppealsInv, AnsweredOnce, NamesItsDecision
  <2>2. CASE appeal[a].step # "answered"
    BY <2>2, FS_EmptySet DEF AppealsInv, AnsweredOnce
  <2> QED BY <2>1, <2>2
<1> QED BY <1>1, AppealsInvariant, PTL

-----------------------------------------------------------------------------
(* The content registry.                                                   *)

Statuses == {"absent", "draft", "validating", "approved"} \cup Standing
IdleRows == [step : {"idle"}]
ReleaseRows ==
  IdleRows \cup [step : {"draft", "validating", "approved", "publish"}, of : VersionsIn("platform")]
CallRows == IdleRows \cup [of : VersionsIn("own"), seen : Statuses, to : Statuses,
                           step : {"usage", "write"}]
RollbackRows ==
  IdleRows \cup [step : {"current"}, to : Artifacts]
    \cup [step : {"write"}, to : Artifacts, away : BOOLEAN, from : Artifacts \cup {NoArtifact}]
PinRows == [of : Artifacts \cup {NoArtifact}, digest : Bodies \cup {NoArtifact}]
OpenerRows == IdleRows \cup [step : {"open"}, of : Campaigns, pin : PinRows]

PublishedShape ==
  /\ status \in [Artifacts -> Statuses]
  /\ digest \in [Artifacts -> Bodies \cup {NoArtifact}]
  /\ pointer \in [Scopes -> Artifacts \cup {NoArtifact}]

RequestsShape ==
  /\ release \in [Releases -> ReleaseRows] /\ call \in [Calls -> CallRows]
  /\ rollback \in RollbackRows
  /\ opener \in [Openers -> OpenerRows] /\ pin \in [Campaigns -> PinRows]

\* A call that read a standing version asks for its deprecation.
CallsFollow ==
  \A c \in Calls : call[c].step # "idle" /\ call[c].seen \in Standing => call[c].to = "deprecated"

\* What p names was published and says what p says it does.
Resolves(p) == p.of \in Artifacts /\ status[p.of] \in Standing /\ digest[p.of] = p.digest

PointersStand ==
  \A s \in Scopes : pointer[s] # NoArtifact =>
    pointer[s] \in VersionsIn(s) /\ status[pointer[s]] \in Standing

RollbackStands == rollback.step # "idle" => rollback.to \in Artifacts /\ status[rollback.to] \in Standing

OpenersResolve == \A o \in Openers : opener[o].step = "open" => Resolves(opener[o].pin)

PinsStand == \A c \in Campaigns : pin[c] # NoPin => Resolves(pin[c])

RegistryInv ==
  /\ PublishedShape /\ RequestsShape /\ CallsFollow
  /\ PointersStand /\ RollbackStands /\ OpenersResolve /\ PinsStand

\* A version that was published is never unpublished or reworded.
StandingKept ==
  \A a \in Artifacts : status[a] \in Standing =>
    status'[a] \in Standing /\ digest'[a] = digest[a]

\* A pointer moves only to a version of its scope that stands.
PointersFollow ==
  \A s \in Scopes : pointer'[s] = pointer[s]
    \/ (pointer'[s] \in VersionsIn(s) /\ status'[pointer'[s]] \in Standing)

\* What every write of the registry does to what is published.
KeepsPublished == PublishedShape' /\ StandingKept /\ PointersFollow

\* A version is of one of the scopes.
LEMMA ScopeOf == \A a \in Artifacts : a[1] \in Scopes /\ a \in VersionsIn(a[1])
BY DEF Artifacts, Scopes, VersionsIn

\* The insert of a version that is absent leaves those that stand alone.
LEMMA InsertKeepsPublished ==
  ASSUME PublishedShape, NEW a \in Artifacts, NEW b \in Bodies, status[a] = "absent",
         InsertArtifact(a, b)
  PROVE  KeepsPublished
BY DEF PublishedShape, InsertArtifact, KeepsPublished, StandingKept, PointersFollow, Statuses, Standing

\* So does a transition that never leaves a standing state for another.
LEMMA TransitionKeepsPublished ==
  ASSUME PublishedShape, NEW a \in Artifacts, NEW from, NEW to \in Statuses,
         from \in Standing => to \in Standing, TransitionArtifact(a, from, to)
  PROVE  KeepsPublished
BY DEF PublishedShape, TransitionArtifact, KeepsPublished, StandingKept, PointersFollow

\* The pointer follows a publication, in the scope of the version.
LEMMA PublishKeepsPublished ==
  ASSUME PublishedShape, NEW a \in Artifacts, Publish(a)
  PROVE  KeepsPublished
<1>1. /\ a[1] \in Scopes /\ a \in VersionsIn(a[1])
  BY ScopeOf
<1>2. /\ status' = [status EXCEPT ![a] = "published"] /\ digest' = digest
      /\ pointer' = [pointer EXCEPT ![a[1]] = a]
  BY DEF Publish
<1>3. PublishedShape'
  BY <1>1, <1>2 DEF PublishedShape, Statuses, Standing
<1>4. StandingKept
  BY <1>2 DEF PublishedShape, StandingKept, Standing
<1>5. status'[a] \in Standing
  BY <1>2 DEF PublishedShape, Standing
<1>6. PointersFollow
  BY <1>1, <1>2, <1>5 DEF PointersFollow, PublishedShape
<1> QED BY <1>3, <1>4, <1>6 DEF KeepsPublished

\* Only a draft is ever deleted.
LEMMA DeleteKeepsPublished ==
  ASSUME PublishedShape, NEW a \in Artifacts, DeleteDraft(a)
  PROVE  KeepsPublished
BY DEF PublishedShape, DeleteDraft, DeleteDraftArtifact, KeepsPublished, StandingKept,
       PointersFollow, Statuses, Standing

\* What leaves the published artifacts alone keeps them.
LEMMA SameKeepsPublished ==
  ASSUME PublishedShape, UNCHANGED published
  PROVE  KeepsPublished
BY DEF PublishedShape, published, KeepsPublished, StandingKept, PointersFollow

\* What is pointed at, pinned or about to be stays resolvable over a write.
LEMMA ResolvedStays ==
  ASSUME RegistryInv, KeepsPublished
  PROVE  /\ PointersStand'
         /\ rollback.step # "idle" => rollback.to \in Artifacts /\ status'[rollback.to] \in Standing
         /\ \A p \in PinRows : Resolves(p) => p.of \in Artifacts /\ status'[p.of] \in Standing
                                              /\ digest'[p.of] = p.digest
<1>1. PointersStand'
  BY DEF RegistryInv, PointersStand, KeepsPublished, PointersFollow, StandingKept, VersionsIn
<1> QED BY <1>1 DEF RegistryInv, RollbackStands, KeepsPublished, StandingKept, Resolves

\* A write by someone else leaves the requests to open, what they resolved, and
\* the pins as they were, and all of it still resolves.
LEMMA OthersKeepPins ==
  ASSUME RegistryInv, KeepsPublished, UNCHANGED <<opener, pin>>
  PROVE  OpenersResolve' /\ PinsStand'
<1>1. \A o \in Openers : opener[o].step = "open" => opener[o].pin \in PinRows
  BY DEF RegistryInv, RequestsShape, OpenerRows, IdleRows
<1>2. \A c \in Campaigns : pin[c] \in PinRows
  BY DEF RegistryInv, RequestsShape
<1>3. \A p \in PinRows : Resolves(p) => p.of \in Artifacts /\ status'[p.of] \in Standing
                                        /\ digest'[p.of] = p.digest
  BY ResolvedStays
<1>4. OpenersResolve'
  BY <1>1, <1>3 DEF RegistryInv, OpenersResolve, Resolves
<1>5. PinsStand'
  BY <1>2, <1>3 DEF RegistryInv, PinsStand, Resolves
<1> QED BY <1>4, <1>5

\* The loader.
LEMMA LoaderKeepsRegistry ==
  ASSUME RegistryInv, NEW r \in Releases,
         Load(r) \/ LoadDrafts(r) \/ LoadAdvances(r) \/ LoaderDies(r)
  PROVE  RegistryInv' /\ StandingKept
<1> USE DEF RegistryInv
<1>1. UNCHANGED <<call, rollback, opener, pin>>
  BY DEF Load, LoadDrafts, LoadAdvances, LoaderDies
<1>2. release[r].step # "idle" => release[r].of \in Artifacts
  BY DEF RequestsShape, ReleaseRows, IdleRows, VersionsIn
<1>3. KeepsPublished
  <2>1. CASE Load(r) \/ LoaderDies(r)
    BY <2>1, SameKeepsPublished DEF Load, LoaderDies
  <2>2. CASE LoadDrafts(r)
    BY <1>2, <2>2, SameKeepsPublished, InsertKeepsPublished DEF LoadDrafts
  <2>3. CASE LoadAdvances(r)
    <3>1. CASE release[r].step = "publish" /\ Publish(release[r].of)
      BY <1>2, <3>1, PublishKeepsPublished
    <3>2. CASE release[r].step = "validating" /\ TransitionArtifact(release[r].of, "draft", "validating")
      BY <1>2, <3>2, TransitionKeepsPublished DEF Statuses, Standing
    <3>3. CASE release[r].step = "approved" /\ TransitionArtifact(release[r].of, "validating", "approved")
      BY <1>2, <3>3, TransitionKeepsPublished DEF Statuses, Standing
    <3> QED BY <2>3, <3>1, <3>2, <3>3 DEF LoadAdvances
  <2> QED BY <2>1, <2>2, <2>3
<1>4. release' \in [Releases -> ReleaseRows]
  <2>1. Nowhere \in ReleaseRows
    BY DEF Nowhere, ReleaseRows, IdleRows
  <2>2. CASE ReleaseEnds(r)
    BY <2>1, <2>2 DEF ReleaseEnds, RequestsShape
  <2>3. ASSUME NEW k \in {"validating", "approved", "publish"}, release[r].step # "idle",
               ReleaseMoves(r, k)
        PROVE  release' \in [Releases -> ReleaseRows]
    <3>1. release' = [release EXCEPT ![r] = [release[r] EXCEPT !.step = k]]
      BY <2>3 DEF ReleaseMoves, RequestsShape
    <3>2. [release[r] EXCEPT !.step = k] \in ReleaseRows
      BY <2>3 DEF RequestsShape, ReleaseRows, IdleRows
    <3> QED BY <3>1, <3>2 DEF RequestsShape
  <2>4. CASE Load(r)
    <3>1. PICK a \in VersionsIn("platform") : release' = [release EXCEPT ![r] = [step |-> "draft", of |-> a]]
      BY <2>4 DEF Load
    <3>2. [step |-> "draft", of |-> a] \in ReleaseRows
      BY DEF ReleaseRows
    <3> QED BY <3>1, <3>2 DEF RequestsShape
  <2> QED BY <2>2, <2>3, <2>4 DEF LoadDrafts, LoadAdvances, LoaderDies
<1>5. PublishedShape' /\ RequestsShape' /\ CallsFollow'
  BY <1>1, <1>3, <1>4 DEF KeepsPublished, RequestsShape, CallsFollow
<1>6. PointersStand' /\ RollbackStands'
  BY <1>1, <1>3, ResolvedStays DEF RollbackStands
<1>7. OpenersResolve' /\ PinsStand'
  BY <1>1, <1>3, OthersKeepPins
<1> QED BY <1>3, <1>5, <1>6, <1>7 DEF KeepsPublished

\* The rubric library.
LEMMA LibraryKeepsRegistry ==
  ASSUME RegistryInv,
         \/ \E a \in Artifacts : Draft(a)
         \/ \E c \in Calls : own(c) \/ refuseWhileInUse(c) \/ LibraryWrites(c)
  PROVE  RegistryInv' /\ StandingKept
<1> USE DEF RegistryInv
<1>1. UNCHANGED <<release, rollback, opener, pin>>
  BY DEF Draft, own, refuseWhileInUse, LibraryWrites
<1>2. \A c \in Calls : call[c].step # "idle" =>
         call[c].of \in Artifacts /\ call[c].to \in Statuses /\ call[c].seen \in Statuses
  BY DEF RequestsShape, CallRows, IdleRows, VersionsIn
<1>3. KeepsPublished
  <2>1. ASSUME NEW a \in Artifacts, Draft(a) PROVE KeepsPublished
    BY <2>1, InsertKeepsPublished DEF Draft
  <2>2. ASSUME NEW c \in Calls, own(c) \/ refuseWhileInUse(c) PROVE KeepsPublished
    BY <2>2, SameKeepsPublished DEF own, refuseWhileInUse
  <2>3. ASSUME NEW c \in Calls, LibraryWrites(c) PROVE KeepsPublished
    <3>1. call[c].step = "write"
      BY <2>3 DEF LibraryWrites
    <3>2. CASE Publish(call[c].of)
      BY <1>2, <3>1, <3>2, PublishKeepsPublished
    <3>3. CASE DeleteDraft(call[c].of)
      BY <1>2, <3>1, <3>3, DeleteKeepsPublished
    <3>4. CASE TransitionArtifact(call[c].of, call[c].seen, call[c].to)
      <4>1. call[c].seen \in Standing => call[c].to \in Standing
        BY <3>1 DEF CallsFollow, Standing
      <4> QED BY <1>2, <3>1, <3>4, <4>1, TransitionKeepsPublished
    <3>5. CASE UNCHANGED published
      BY <3>5, SameKeepsPublished
    <3> QED BY <2>3, <3>2, <3>3, <3>4, <3>5 DEF LibraryWrites
  <2> QED BY <2>1, <2>2, <2>3
<1>4. call' \in [Calls -> CallRows] /\ CallsFollow'
  <2>0. Nowhere \in CallRows /\ Nowhere.step = "idle"
    BY DEF Nowhere, CallRows, IdleRows
  <2>1. CASE call' = call
    BY <2>1 DEF RequestsShape, CallsFollow
  <2>2. ASSUME NEW c \in Calls, call' = [call EXCEPT ![c] = Nowhere]
        PROVE  call' \in [Calls -> CallRows] /\ CallsFollow'
    BY <2>0, <2>2 DEF RequestsShape, CallsFollow
  <2>3. ASSUME NEW c \in Calls, own(c)
        PROVE  call' \in [Calls -> CallRows] /\ CallsFollow'
    <3>0. PICK a \in VersionsIn("own") : \E to \in Asks(status[a]), k \in {"usage", "write"} :
            call' = [call EXCEPT ![c] = [of |-> a, seen |-> status[a], to |-> to, step |-> k]]
      BY <2>3 DEF own
    <3>1. PICK to \in Asks(status[a]), k \in {"usage", "write"} :
            call' = [call EXCEPT ![c] = [of |-> a, seen |-> status[a], to |-> to, step |-> k]]
      BY <3>0
    <3>2. to \in Statuses /\ status[a] \in Statuses /\ (status[a] \in Standing => to = "deprecated")
      BY <3>1 DEF Asks, CanTransition, Statuses, Standing, PublishedShape, VersionsIn
    <3>3. [of |-> a, seen |-> status[a], to |-> to, step |-> k] \in CallRows
      BY <3>2 DEF CallRows
    <3> QED BY <3>1, <3>2, <3>3 DEF RequestsShape, CallsFollow
  <2>4. ASSUME NEW c \in Calls, call[c].step = "usage",
               call' = [call EXCEPT ![c] = [call[c] EXCEPT !.step = "write"]]
        PROVE  call' \in [Calls -> CallRows] /\ CallsFollow'
    <3> DEFINE new == [call[c] EXCEPT !.step = "write"]
    <3>1. call[c] \in CallRows
      BY DEF RequestsShape
    <3>2. new \in CallRows /\ new.seen = call[c].seen /\ new.to = call[c].to
      BY <2>4, <3>1 DEF CallRows, IdleRows
    <3>3. call' = [call EXCEPT ![c] = new]
      BY <2>4
    <3> HIDE DEF new
    <3> QED BY <2>4, <3>2, <3>3 DEF RequestsShape, CallsFollow
  <2>5. ASSUME NEW c \in Calls, refuseWhileInUse(c)
        PROVE  call' \in [Calls -> CallRows] /\ CallsFollow'
    <3>1. /\ call[c].step = "usage"
          /\ \/ call' = [call EXCEPT ![c] = [call[c] EXCEPT !.step = "write"]]
             \/ call' = [call EXCEPT ![c] = Nowhere]
      BY <2>5 DEF refuseWhileInUse, RequestsShape
    <3> QED BY <2>2, <2>4, <3>1
  <2> QED BY <2>1, <2>2, <2>3, <2>5 DEF Draft, LibraryWrites
<1>5. PublishedShape' /\ RequestsShape'
  BY <1>1, <1>3, <1>4 DEF KeepsPublished, RequestsShape
<1>6. PointersStand' /\ RollbackStands'
  BY <1>1, <1>3, ResolvedStays DEF RollbackStands
<1>7. OpenersResolve' /\ PinsStand'
  BY <1>1, <1>3, OthersKeepPins
<1> QED BY <1>3, <1>4, <1>5, <1>6, <1>7 DEF KeepsPublished

\* The rollback, which points at a version that stood when it was read.
LEMMA RollbackKeepsRegistry ==
  ASSUME RegistryInv, RollbackReads \/ RollbackReadsCurrent \/ Rollback
  PROVE  RegistryInv' /\ StandingKept
<1> USE DEF RegistryInv
<1>1. UNCHANGED <<release, call, opener, pin>>
  BY DEF RollbackReads, RollbackReadsCurrent, Rollback
<1>2. rollback \in RollbackRows
  BY DEF RequestsShape
<1>3. KeepsPublished
  <2>1. CASE RollbackReads \/ RollbackReadsCurrent
    BY <2>1, SameKeepsPublished DEF RollbackReads, RollbackReadsCurrent
  <2>2. CASE Rollback
    <3> DEFINE a == rollback.to
    <3>1. a \in Artifacts /\ status[a] \in Standing /\ a[1] \in Scopes /\ a \in VersionsIn(a[1])
      BY <2>2, ScopeOf DEF Rollback, RollbackStands
    <3>2. pointer' = [pointer EXCEPT ![a[1]] = a] /\ digest' = digest
      BY <2>2 DEF Rollback
    <3>3. /\ status' \in [Artifacts -> Statuses]
          /\ \A b \in Artifacts : status[b] \in Standing => status'[b] \in Standing
      <4>1. CASE status' = status
        BY <4>1 DEF PublishedShape
      <4>2. CASE /\ status[rollback.from] = "published"
                 /\ status' = [status EXCEPT ![rollback.from] = "deprecated"]
        BY <4>2 DEF PublishedShape, Statuses, Standing
      <4> QED BY <2>2, <4>1, <4>2 DEF Rollback
    <3> HIDE DEF a
    <3>4. PublishedShape'
      BY <3>1, <3>2, <3>3 DEF PublishedShape
    <3>5. StandingKept
      BY <3>2, <3>3 DEF StandingKept
    <3>6. PointersFollow
      BY <3>1, <3>2, <3>3 DEF PointersFollow, PublishedShape
    <3> QED BY <3>4, <3>5, <3>6 DEF KeepsPublished
  <2> QED BY <2>1, <2>2
<1>4. rollback' \in RollbackRows /\ RollbackStands'
  <2>1. CASE RollbackReads
    <3>1. PICK a \in Artifacts : status[a] \in Standing /\ rollback' = [step |-> "current", to |-> a]
      BY <2>1 DEF RollbackReads
    <3> QED BY <2>1, <3>1 DEF RollbackReads, published, RollbackRows, RollbackStands
  <2>2. CASE RollbackReadsCurrent
    <3> DEFINE now == ResolvePointer(rollback.to[1])
    <3>1. rollback.to \in Artifacts /\ rollback.to[1] \in Scopes /\ status[rollback.to] \in Standing
      BY <2>2, ScopeOf DEF RollbackReadsCurrent, RollbackStands
    <3>2. now \in Artifacts \cup {NoArtifact}
      BY DEF ResolvePointer, PublishedShape, Scopes
    <3>3. rollback' = [step |-> "write", to |-> rollback.to,
                       away |-> (now # rollback.to /\ status[now] = "published"), from |-> now]
      BY <2>2 DEF RollbackReadsCurrent
    <3> HIDE DEF now
    <3>4. rollback' \in RollbackRows /\ rollback'.to = rollback.to
      BY <3>1, <3>2, <3>3 DEF RollbackRows
    <3> QED BY <2>2, <3>1, <3>4 DEF RollbackReadsCurrent, published, RollbackStands
  <2>3. CASE Rollback
    BY <2>3 DEF Rollback, Nowhere, RollbackRows, IdleRows, RollbackStands
  <2> QED BY <2>1, <2>2, <2>3
<1>5. PublishedShape' /\ RequestsShape' /\ CallsFollow'
  BY <1>1, <1>3, <1>4 DEF KeepsPublished, RequestsShape, CallsFollow
<1>6. PointersStand'
  BY <1>3, ResolvedStays
<1>7. OpenersResolve' /\ PinsStand'
  BY <1>1, <1>3, OthersKeepPins
<1> QED BY <1>3, <1>4, <1>5, <1>6, <1>7 DEF KeepsPublished

\* Opening a campaign pins what the request resolved, which still stands.
LEMMA OpeningKeepsRegistry ==
  ASSUME RegistryInv, NEW o \in Openers, ResolveOpening(o) \/ OpenCampaign(o)
  PROVE  RegistryInv' /\ StandingKept
<1> USE DEF RegistryInv
<1>1. UNCHANGED <<published, release, call, rollback>>
  BY DEF ResolveOpening, OpenCampaign
<1>2. KeepsPublished
  BY <1>1, SameKeepsPublished
<1>3. PublishedShape' /\ CallsFollow' /\ PointersStand' /\ RollbackStands'
  BY <1>1, <1>2 DEF KeepsPublished, CallsFollow, published, PointersStand, RollbackStands
<1>4. \A p \in PinRows : Resolves(p) <=> Resolves(p)'
  BY <1>1 DEF published, Resolves
<1>5. opener' \in [Openers -> OpenerRows] /\ pin' \in [Campaigns -> PinRows]
      /\ OpenersResolve' /\ PinsStand'
  <2>1. CASE ResolveOpening(o)
    <3> DEFINE a == ResolvePointer("own")
               p == [of |-> a, digest |-> digest[a]]
    <3>1. PICK c \in Campaigns : opener' = [opener EXCEPT ![o] = [step |-> "open", of |-> c, pin |-> p]]
      BY <2>1 DEF ResolveOpening
    <3>2. a # NoArtifact /\ status[a] = "published" /\ pin' = pin
      BY <2>1 DEF ResolveOpening, PublishedArtifact
    <3>3. a \in Artifacts
      BY <3>2 DEF ResolvePointer, PublishedShape, Scopes
    <3> HIDE DEF a
    <3>4. p \in PinRows /\ p.of = a /\ p.digest = digest[a]
      BY <3>3 DEF PinRows, PublishedShape
    <3> HIDE DEF p
    <3>5. p.of \in Artifacts /\ status'[p.of] \in Standing /\ digest'[p.of] = p.digest
      BY <1>1, <3>2, <3>3, <3>4 DEF Resolves, Standing, published
    <3>6. [step |-> "open", of |-> c, pin |-> p] \in OpenerRows
      BY <3>4 DEF OpenerRows
    <3>7. opener' \in [Openers -> OpenerRows] /\ pin' \in [Campaigns -> PinRows]
      BY <3>1, <3>2, <3>6 DEF RequestsShape
    <3>8. PinsStand'
      BY <1>4, <3>2 DEF PinsStand, RequestsShape, Resolves, published
    <3>9. OpenersResolve'
      BY <1>1, <3>1, <3>5 DEF OpenersResolve, RequestsShape, Resolves, published
    <3> QED BY <3>7, <3>8, <3>9
  <2>2. CASE OpenCampaign(o)
    <3>1. opener[o].step = "open" /\ opener' = [opener EXCEPT ![o] = Nowhere]
      BY <2>2 DEF OpenCampaign
    <3>2. opener[o].pin \in PinRows /\ opener[o].of \in Campaigns /\ Resolves(opener[o].pin)
      BY <3>1 DEF RequestsShape, OpenerRows, IdleRows, OpenersResolve
    <3>3. pin' = pin \/ pin' = [pin EXCEPT ![opener[o].of] = opener[o].pin]
      BY <2>2 DEF OpenCampaign
    <3>4. Nowhere \in OpenerRows /\ Nowhere.step = "idle"
      BY DEF Nowhere, OpenerRows, IdleRows
    <3>5. opener' \in [Openers -> OpenerRows] /\ pin' \in [Campaigns -> PinRows]
      BY <3>1, <3>2, <3>3, <3>4 DEF RequestsShape
    <3>6. PinsStand'
      BY <1>1, <3>2, <3>3 DEF PinsStand, RequestsShape, Resolves, published
    <3>7. OpenersResolve'
      BY <1>1, <3>1, <3>4 DEF OpenersResolve, RequestsShape, Resolves, published
    <3> QED BY <3>5, <3>6, <3>7
  <2> QED BY <2>1, <2>2
<1> QED BY <1>1, <1>2, <1>3, <1>5 DEF RequestsShape, KeepsPublished

\* Every step of the registry keeps its invariant and what stands.
LEMMA StepKeepsRegistry ==
  ASSUME RegistryInv, [RegistryNext]_registryVars
  PROVE  RegistryInv' /\ StandingKept
<1>1. CASE UNCHANGED registryVars
  <2>1. UNCHANGED <<published, release, call, rollback, opener, pin>>
    BY <1>1 DEF registryVars
  <2>2. KeepsPublished
    BY <2>1, SameKeepsPublished DEF RegistryInv
  <2> QED BY <2>1, <2>2, ResolvedStays, OthersKeepPins
          DEF RegistryInv, KeepsPublished, RequestsShape, CallsFollow, RollbackStands
<1> QED BY <1>1, LoaderKeepsRegistry, LibraryKeepsRegistry, RollbackKeepsRegistry,
           OpeningKeepsRegistry DEF RegistryNext

\* Every state of the registry satisfies the inductive invariant.
THEOREM RegistryInvariant == RegistrySpec => []RegistryInv
<1>1. RegistryInit => RegistryInv
  <2> SUFFICES ASSUME RegistryInit PROVE RegistryInv
    OBVIOUS
  <2>1. NoPin \in PinRows /\ Nowhere \in IdleRows /\ Nowhere.step = "idle"
    BY DEF NoPin, PinRows, Nowhere, IdleRows
  <2>2. PublishedShape
    BY DEF RegistryInit, PublishedShape, Statuses
  <2>3. RequestsShape
    BY <2>1 DEF RegistryInit, RequestsShape, ReleaseRows, CallRows, RollbackRows, OpenerRows
  <2>4. CallsFollow /\ RollbackStands /\ OpenersResolve
    BY <2>1 DEF RegistryInit, CallsFollow, RollbackStands, OpenersResolve
  <2>5. PointersStand /\ PinsStand
    BY DEF RegistryInit, PointersStand, PinsStand
  <2> QED BY <2>2, <2>3, <2>4, <2>5 DEF RegistryInv
<1>2. RegistryInv /\ [RegistryNext]_registryVars => RegistryInv'
  BY StepKeepsRegistry
<1> QED BY <1>1, <1>2, PTL DEF RegistrySpec

(***************************************************************************)
(* What a campaign pinned, and what the reference points at in each scope, *)
(* stays published and keeps its digest, for every number of loaders,      *)
(* library calls and requests to open that overlap (content/store.go       *)
(* Publish, DeleteDraft, Rollback; recruiting Open).                       *)
(***************************************************************************)
THEOREM PinsAreResolvable == RegistrySpec => []PinsResolve
<1>1. RegistryInv => PinsResolve
  BY DEF RegistryInv, PinsResolve, PinsStand, PointersStand, Resolves
<1> QED BY <1>1, RegistryInvariant, PTL

(***************************************************************************)
(* No step unpublishes a version or rewrites what one that was published   *)
(* says: a discard whose read was overtaken by a publication finds no      *)
(* draft to delete (content/store.go DeleteDraft, Deprecate, Rollback).    *)
(***************************************************************************)
THEOREM PublishedIsKept == RegistrySpec => [][StandingKept]_registryVars
<1>1. RegistryInv /\ [RegistryNext]_registryVars => [StandingKept]_registryVars
  BY StepKeepsRegistry
<1> QED BY <1>1, RegistryInvariant, PTL DEF RegistrySpec

-----------------------------------------------------------------------------
(* Admission under the quota.                                              *)

Stages == {"idle", "reserve", "count", "insert", "transition", "policy", "stamp", "done",
           "refused", "exhausted"}
UnderWay == {"reserve", "count", "insert", "transition", "policy", "stamp"}

AdmissionShape ==
  /\ standing \in [Interviews -> {"ready", "connecting"}]
  /\ entries \subseteq Interviews \X {"session_started", "start_credited"}
  /\ quota \in Limits \cup {NoQuota, Unlimited} /\ quotaLock \in Starts \cup {NoOne}
  /\ changes \in 0 .. MaxChanges /\ floor \in Int /\ slack \in Nat
  /\ policy \in 1 .. MaxPolicy /\ stamp \in [Interviews -> 0 .. MaxPolicy]
  /\ told \in [Interviews -> SUBSET (1 .. MaxPolicy)]
  /\ unstamped \in [Interviews -> SUBSET Requests]
  /\ stage \in [Requests -> Stages]
  /\ target \in [Requests -> Interviews \cup {NoOne}]
  /\ held \in [Requests -> 0 .. MaxPolicy]
  /\ abandoned \subseteq Interviews
  /\ retries \in 0 .. MaxRetries

\* A request under way names its session; only a start reserves; a request about
\* to stamp has read a policy.
OnTheWay ==
  \A h \in Requests :
    /\ stage[h] \in {"reserve", "count", "insert", "transition"} => h \in Starts
    /\ stage[h] \in UnderWay => target[h] \in Interviews
    /\ stage[h] = "stamp" => held[h] \in 1 .. MaxPolicy

\* Who counts holds the lock of a row with a limit; who holds the lock is
\* between it and the insert.
CountsUnderLock ==
  \A h \in Starts :
    /\ stage[h] = "count" => quotaLock = h /\ quota \in Limits
    /\ quotaLock = h => stage[h] \in {"count", "insert"}

Pending == {h \in Starts : stage[h] = "insert"}
PendingUnlocked == {h \in Pending : quotaLock # h}

\* Once there is a row, the starts past the count that do not hold its lock are
\* those that were when the quota was set; and with what is pending the usage
\* stays within the limit or within what stood.
PendingBounded == quota # NoQuota => Cardinality(PendingUnlocked) <= slack
PendingWithinLimit ==
  quota \in Limits =>
    \/ Billable + Cardinality(Pending) <= quota + slack
    \/ Billable + Cardinality(Pending) <= floor + slack

MeteringInv ==
  IsFiniteSet(entries) /\ CountsUnderLock /\ PendingBounded /\ PendingWithinLimit

\* A start at its transition has its entry.
TransitionsAreMetered ==
  \A h \in Starts : stage[h] = "transition" => <<target[h], "session_started">> \in entries

StartedInv == TransitionsAreMetered /\ MeteredIsStarted

\* The requests that found the session without a stamp: one that is about to
\* stamp it, and the one that did.  Unless there were two, its clients were told
\* what is stamped.
StampersFound ==
  \A h \in Requests : stage[h] = "stamp" => h \in unstamped[target[h]]
StampedByOne ==
  \A s \in Interviews :
    /\ IsFiniteSet(unstamped[s])
    /\ stamp[s] # 0 => \E g \in unstamped[s] : stage[g] = "done"
Alone(s) == \A g, h \in unstamped[s] : g = h
ToldAlone == \A s \in Interviews : Alone(s) => \A p \in told[s] : p = stamp[s]

TimingInv == StampersFound /\ StampedByOne /\ ToldAlone

AdmissionInv == AdmissionShape /\ OnTheWay /\ MeteringInv /\ StartedInv /\ TimingInv

\* What counts is an integer, and moves by one where an entry is added.
LEMMA BillableMoves ==
  ASSUME IsFiniteSet(entries)
  PROVE  /\ Billable \in Int
         /\ \A s, k : entries' = entries \cup {<<s, k>>} =>
              /\ IsFiniteSet(entries')
              /\ k = "session_started" => Billable' <= Billable + 1
              /\ k = "start_credited" => Billable' <= Billable
<1>1. \A k : IsFiniteSet(Of(k)) /\ Cardinality(Of(k)) \in Nat
  BY FS_Subset, FS_CardinalityType DEF Of
<1>2. ASSUME NEW s, NEW k, entries' = entries \cup {<<s, k>>}
      PROVE  /\ IsFiniteSet(entries')
             /\ k = "session_started" => Billable' <= Billable + 1
             /\ k = "start_credited" => Billable' <= Billable
  <2>1. IsFiniteSet(entries')
    BY <1>2, FS_AddElement
  <2>2. Of(k)' = Of(k) \cup {<<s, k>>} /\ \A j : j # k => Of(j)' = Of(j)
    BY <1>2 DEF Of
  <2>3. Cardinality(Of(k) \cup {<<s, k>>}) \in {Cardinality(Of(k)), Cardinality(Of(k)) + 1}
    BY <1>1, FS_AddElement
  <2>4. k = "session_started" => Billable' <= Billable + 1
    <3>1. SUFFICES ASSUME k = "session_started" PROVE Billable' <= Billable + 1
      OBVIOUS
    <3>2. Of("start_credited")' = Of("start_credited")
      BY <2>2, <3>1
    <3>3. Of("session_started")' = Of("session_started") \cup {<<s, k>>}
      BY <2>2, <3>1
    <3> QED BY <1>1, <2>3, <3>1, <3>2, <3>3 DEF Billable
  <2>5. k = "start_credited" => Billable' <= Billable
    <3>1. SUFFICES ASSUME k = "start_credited" PROVE Billable' <= Billable
      OBVIOUS
    <3>2. Of("session_started")' = Of("session_started")
      BY <2>2, <3>1
    <3>3. Of("start_credited")' = Of("start_credited") \cup {<<s, k>>}
      BY <2>2, <3>1
    <3>4. Cardinality(Of("start_credited"))' \in
            {Cardinality(Of("start_credited")), Cardinality(Of("start_credited")) + 1}
      BY <2>3, <3>1, <3>3
    <3>5. Cardinality(Of("session_started"))' = Cardinality(Of("session_started"))
      BY <3>2
    <3> QED BY <1>1, <3>4, <3>5 DEF Billable
  <2> QED BY <2>1, <2>4, <2>5
<1>3. Billable \in Int
  BY <1>1 DEF Billable
<1> QED BY <1>2, <1>3

\* The sets of pending starts are finite.
LEMMA PendingFinite ==
  /\ IsFiniteSet(Pending) /\ Cardinality(Pending) \in Nat
  /\ IsFiniteSet(PendingUnlocked) /\ Cardinality(PendingUnlocked) \in Nat
<1>1. Pending \in SUBSET Starts /\ PendingUnlocked \in SUBSET Starts
  BY DEF Pending, PendingUnlocked
<1> QED BY <1>1, FS_Subset, FS_CardinalityType, AdmissionAssumption

\* A set of at most one member has no two.
LEMMA AtMostOne ==
  ASSUME NEW S, IsFiniteSet(S), Cardinality(S) <= 1, NEW g \in S, NEW h \in S
  PROVE  g = h
<1>1. SUFFICES ASSUME g # h PROVE FALSE
  OBVIOUS
<1>2. IsFiniteSet({g}) /\ Cardinality({g}) = 1
  BY FS_Singleton
<1>3. Cardinality({g} \cup {h}) = 2
  <2>1. PICK T : T = {g}
    OBVIOUS
  <2>2. IsFiniteSet(T) /\ Cardinality(T) = 1 /\ h \notin T
    BY <1>1, <1>2, <2>1
  <2>3. Cardinality(T \cup {h}) = Cardinality(T) + 1
    BY <2>2, FS_AddElement
  <2> QED BY <2>1, <2>2, <2>3
<1>4. {g} \cup {h} \in SUBSET S
  OBVIOUS
<1>5. Cardinality({g} \cup {h}) <= Cardinality(S) /\ Cardinality(S) \in Nat
  BY <1>4, FS_Subset, FS_CardinalityType
<1> QED BY <1>3, <1>5

\* What the clients of one request see of its steps: the types, and OnTheWay.
LEMMA StartKeepsShape ==
  ASSUME AdmissionShape, OnTheWay, NEW h \in Starts,
         \/ \E s \in Interviews : StartBegins(h, s)
         \/ ReserveLocks(h) \/ ReserveCounts(h) \/ ReserveInserts(h)
         \/ StartTransitions(h) \/ AskAgain(h)
  PROVE  AdmissionShape' /\ OnTheWay'
<1> USE DEF AdmissionShape, metering, timing, Stages
<1>0. h \in Requests
  BY DEF Requests
<1>1. ASSUME NEW s \in Interviews, StartBegins(h, s) PROVE AdmissionShape' /\ OnTheWay'
  <2>1. AdmissionShape'
    <3>1. 0 \in 0 .. MaxPolicy
      BY AdmissionAssumption
    <3> QED BY <1>0, <1>1, <3>1 DEF StartBegins, Leaves, Reaches
  <2>2. OnTheWay'
    BY <1>0, <1>1 DEF StartBegins, Leaves, Reaches, OnTheWay, UnderWay
  <2> QED BY <2>1, <2>2
<1>2. CASE ReserveLocks(h)
  <2>1. AdmissionShape'
    BY <1>0, <1>2 DEF ReserveLocks, LockQuota, Reaches
  <2>2. OnTheWay'
    BY <1>0, <1>2 DEF ReserveLocks, Reaches, OnTheWay, UnderWay
  <2> QED BY <2>1, <2>2
<1>3. CASE ReserveCounts(h)
  <2>1. AdmissionShape'
    BY <1>0, <1>3 DEF ReserveCounts, Unlock, Reaches
  <2>2. OnTheWay'
    BY <1>0, <1>3 DEF ReserveCounts, Reaches, OnTheWay, UnderWay
  <2> QED BY <2>1, <2>2
<1>4. CASE ReserveInserts(h)
  <2>0. target[h] \in Interviews
    BY <1>0, <1>4 DEF ReserveInserts, OnTheWay, UnderWay
  <2>1. AdmissionShape'
    BY <1>0, <1>4, <2>0 DEF ReserveInserts, InsertUsageEntry, Unlock, Reaches
  <2>2. OnTheWay'
    BY <1>0, <1>4 DEF ReserveInserts, Reaches, OnTheWay, UnderWay
  <2> QED BY <2>1, <2>2
<1>5. CASE StartTransitions(h)
  <2>1. AdmissionShape'
    <3>1. 0 \in 0 .. MaxPolicy
      BY AdmissionAssumption
    <3> QED BY <1>0, <1>5, <3>1 DEF StartTransitions, Leaves, Reaches
  <2>2. OnTheWay'
    BY <1>0, <1>5 DEF StartTransitions, Reserved, Leaves, Reaches, OnTheWay, UnderWay
  <2> QED BY <2>1, <2>2
<1>6. CASE AskAgain(h)
  <2>1. AdmissionShape'
    <3>1. 0 \in 0 .. MaxPolicy
      BY AdmissionAssumption
    <3>2. retries' \in 0 .. MaxRetries
      BY <1>6, AdmissionAssumption DEF AskAgain, AskedAgain
    <3> QED BY <1>0, <1>6, <3>1, <3>2 DEF AskAgain, Leaves
  <2>2. OnTheWay'
    BY <1>0, <1>6 DEF AskAgain, Leaves, OnTheWay, UnderWay
  <2> QED BY <2>1, <2>2
<1> QED BY <1>1, <1>2, <1>3, <1>4, <1>5, <1>6

\* The steps of the timing policy, and deaths.
LEMMA TimingKeepsShape ==
  ASSUME AdmissionShape, OnTheWay, NEW h \in Requests,
         \/ \E s \in Interviews : h \in Resumes /\ ResumeReads(h, s)
         \/ ReadPolicy(h) \/ StampAndAnswer(h) \/ RequestDies(h)
  PROVE  AdmissionShape' /\ OnTheWay'
<1> USE DEF AdmissionShape, metering, timing, Stages
<1>1. ASSUME NEW s \in Interviews, h \in Resumes, ResumeReads(h, s)
      PROVE  AdmissionShape' /\ OnTheWay'
  <2>1. told' \in [Interviews -> SUBSET (1 .. MaxPolicy)]
    BY <1>1, AdmissionAssumption DEF ResumeReads
  <2>2. AdmissionShape'
    <3>1. 0 \in 0 .. MaxPolicy
      BY AdmissionAssumption
    <3> QED BY <1>1, <2>1, <3>1 DEF ResumeReads, Leaves, Reaches
  <2>3. OnTheWay'
    BY <1>1 DEF ResumeReads, Leaves, Reaches, OnTheWay, UnderWay
  <2> QED BY <2>2, <2>3
<1>2. CASE ReadPolicy(h)
  <2>1. target[h] \in Interviews /\ policy \in 0 .. MaxPolicy /\ policy \in 1 .. MaxPolicy
    BY <1>2, AdmissionAssumption DEF ReadPolicy, OnTheWay, UnderWay
  <2>2. AdmissionShape'
    BY <1>2, <2>1 DEF ReadPolicy, Reaches
  <2>3. OnTheWay'
    BY <1>2, <2>1 DEF ReadPolicy, Reaches, OnTheWay, UnderWay
  <2> QED BY <2>2, <2>3
<1>3. CASE StampAndAnswer(h)
  <2>1. target[h] \in Interviews /\ held[h] \in 1 .. MaxPolicy
    BY <1>3 DEF StampAndAnswer, OnTheWay, UnderWay
  <2>2. told' \in [Interviews -> SUBSET (1 .. MaxPolicy)] /\ stamp' \in [Interviews -> 0 .. MaxPolicy]
    BY <1>3, <2>1 DEF StampAndAnswer, StampTimingPolicy
  <2>3. AdmissionShape'
    BY <1>3, <2>2, AdmissionAssumption DEF StampAndAnswer, Leaves
  <2>4. OnTheWay'
    BY <1>3 DEF StampAndAnswer, Leaves, OnTheWay, UnderWay
  <2> QED BY <2>3, <2>4
<1>4. CASE RequestDies(h)
  <2>1. target[h] \in Interviews
    BY <1>4 DEF RequestDies, OnTheWay, UnderWay
  <2>2. AdmissionShape'
    BY <1>4, <2>1, AdmissionAssumption DEF RequestDies, AskedAgain, Unlock, Leaves
  <2>3. OnTheWay'
    BY <1>4 DEF RequestDies, Leaves, OnTheWay, UnderWay
  <2> QED BY <2>2, <2>3
<1> QED BY <1>1, <1>2, <1>3, <1>4

\* The rest of the world.
LEMMA WorldKeepsShape ==
  ASSUME AdmissionShape, OnTheWay, IsFiniteSet(entries),
         \/ \E q \in Limits \cup {Unlimited} : SetQuota(q)
         \/ \E s \in Interviews : CreditStart(s)
         \/ PublishPolicy
  PROVE  AdmissionShape' /\ OnTheWay'
<1> USE DEF AdmissionShape, metering, timing
<1>1. OnTheWay'
  BY DEF SetQuota, CreditStart, PublishPolicy, OnTheWay
<1>2. ASSUME NEW q \in Limits \cup {Unlimited}, SetQuota(q) PROVE AdmissionShape'
  <2>1. floor' \in Int /\ slack' \in Nat
    BY <1>2, BillableMoves, PendingFinite DEF SetQuota, Pending
  <2>2. changes' \in 0 .. MaxChanges
    BY <1>2, AdmissionAssumption DEF SetQuota
  <2> QED BY <1>2, <2>1, <2>2 DEF SetQuota
<1>3. ASSUME NEW s \in Interviews, CreditStart(s) PROVE AdmissionShape'
  BY <1>3 DEF CreditStart, InsertUsageEntry
<1>4. CASE PublishPolicy
  <2>1. policy' \in 1 .. MaxPolicy
    BY <1>4, AdmissionAssumption DEF PublishPolicy
  <2>2. UNCHANGED <<standing, entries, quota, quotaLock, changes, floor, slack, stamp, told,
                    unstamped, stage, target, held, abandoned, retries>>
    BY <1>4 DEF PublishPolicy
  <2> QED BY <1>1, <2>1, <2>2
<1> QED BY <1>1, <1>2, <1>3, <1>4

\* A step that moves no start between the lock and the insert, and writes no
\* usage, leaves the metering as it is.
LEMMA OthersKeepMetering ==
  ASSUME MeteringInv, UNCHANGED metering,
         \A h \in Starts : stage'[h] = stage[h]
                           \/ {stage[h], stage'[h]} \cap {"count", "insert"} = {}
  PROVE  MeteringInv'
<1> USE DEF MeteringInv, metering
<1>1. Pending' = Pending /\ PendingUnlocked' = PendingUnlocked
  BY DEF Pending, PendingUnlocked
<1>2. Billable' = Billable /\ IsFiniteSet(entries)'
  BY DEF Billable, Of
<1>3. CountsUnderLock'
  BY DEF CountsUnderLock
<1>4. PendingBounded' /\ PendingWithinLimit'
  BY <1>1, <1>2 DEF PendingBounded, PendingWithinLimit
<1> QED BY <1>2, <1>3, <1>4

\* The lock: a start that takes it is the only one between it and the insert
\* that holds it, and one that finds no row finds no limit to keep.
LEMMA LockingKeepsMetering ==
  ASSUME AdmissionShape, MeteringInv, NEW h \in Starts, ReserveLocks(h)
  PROVE  MeteringInv'
<1> USE DEF MeteringInv
<1>0. h \in Requests /\ Starts \subseteq Requests
  BY DEF Requests
<1>1. /\ stage[h] = "reserve" /\ UNCHANGED <<entries, quota, floor, slack>>
      /\ \A g \in Starts : g # h => stage'[g] = stage[g]
  BY <1>0 DEF ReserveLocks, Reaches, AdmissionShape
<1>2. Billable' = Billable /\ IsFiniteSet(entries)' /\ quotaLock # h
  BY <1>1 DEF Billable, Of, CountsUnderLock
<1>3. CASE quota = NoQuota
  <2>1. quotaLock' = quotaLock /\ stage'[h] = "insert" /\ quota' \notin Limits
    BY <1>0, <1>1, <1>3, AdmissionAssumption DEF ReserveLocks, Reaches, AdmissionShape
  <2>2. CountsUnderLock'
    BY <1>1, <1>2, <2>1 DEF CountsUnderLock
  <2> QED BY <1>1, <1>2, <1>3, <2>1, <2>2 DEF PendingBounded, PendingWithinLimit
<1>4. CASE quota = Unlimited
  <2>1. quotaLock = NoOne /\ quotaLock' = h /\ stage'[h] = "insert"
    BY <1>0, <1>4, AdmissionAssumption DEF ReserveLocks, LockQuota, Reaches, AdmissionShape
  <2>2. CountsUnderLock'
    BY <1>1, <2>1, AdmissionAssumption DEF CountsUnderLock
  <2>3. PendingUnlocked' = PendingUnlocked
    BY <1>1, <2>1, AdmissionAssumption DEF PendingUnlocked, Pending
  <2> QED BY <1>1, <1>2, <1>4, <2>2, <2>3, AdmissionAssumption DEF PendingBounded, PendingWithinLimit
<1>5. CASE quota \in Limits
  <2>1. quotaLock = NoOne /\ quotaLock' = h /\ stage'[h] = "count"
    BY <1>0, <1>5, AdmissionAssumption DEF ReserveLocks, LockQuota, Reaches, AdmissionShape
  <2>2. CountsUnderLock'
    BY <1>1, <1>5, <2>1, AdmissionAssumption DEF CountsUnderLock
  <2>3. Pending' = Pending /\ PendingUnlocked' = PendingUnlocked
    BY <1>1, <2>1, AdmissionAssumption DEF PendingUnlocked, Pending
  <2> QED BY <1>1, <1>2, <2>2, <2>3 DEF PendingBounded, PendingWithinLimit
<1> QED BY <1>3, <1>4, <1>5 DEF ReserveLocks

\* The count, under the lock: the others pending were when the quota was set, so
\* a start that finds room keeps within the limit with all of them.
LEMMA CountingKeepsMetering ==
  ASSUME AdmissionShape, MeteringInv, NEW h \in Starts, ReserveCounts(h)
  PROVE  MeteringInv'
<1> USE DEF MeteringInv
<1>0. h \in Requests /\ Starts \subseteq Requests
  BY DEF Requests
<1>1. /\ stage[h] = "count" /\ quotaLock = h /\ quota \in Limits
      /\ UNCHANGED <<entries, quota, floor, slack>>
      /\ \A g \in Starts : g # h => stage'[g] = stage[g]
  BY <1>0 DEF ReserveCounts, Reaches, AdmissionShape, CountsUnderLock
<1>2. Billable' = Billable /\ IsFiniteSet(entries)' /\ Billable \in Int /\ quota \in Nat /\ slack \in Nat
  BY <1>1, BillableMoves, AdmissionAssumption DEF Billable, Of, AdmissionShape
<1>3. \A g \in Starts : g # h => stage[g] # "count"
  BY <1>1 DEF CountsUnderLock
<1>4. PendingUnlocked = Pending /\ h \notin Pending
  BY <1>1 DEF Pending, PendingUnlocked
<1>5. CASE AtLimit(Billable, quota)
  <2>1. quotaLock' = NoOne /\ stage'[h] = "exhausted"
    BY <1>0, <1>1, <1>5 DEF ReserveCounts, Reaches, Unlock, AdmissionShape
  <2>2. Pending' = Pending /\ PendingUnlocked' = Pending
    BY <1>1, <2>1, AdmissionAssumption DEF Pending, PendingUnlocked
  <2>3. CountsUnderLock'
    BY <1>1, <1>3, <2>1, AdmissionAssumption DEF CountsUnderLock
  <2> QED BY <1>1, <1>2, <1>4, <2>2, <2>3 DEF PendingBounded, PendingWithinLimit
<1>6. CASE ~AtLimit(Billable, quota)
  <2>1. quotaLock' = h /\ stage'[h] = "insert"
    BY <1>0, <1>1, <1>6 DEF ReserveCounts, Reaches, AdmissionShape
  <2>2. Pending' = Pending \cup {h} /\ PendingUnlocked' = Pending
    BY <1>1, <1>4, <2>1 DEF Pending, PendingUnlocked
  <2>3. CountsUnderLock'
    BY <1>1, <1>3, <2>1 DEF CountsUnderLock
  <2>4. Cardinality(Pending) <= slack
    BY <1>1, <1>4, AdmissionAssumption DEF PendingBounded
  <2>5. Cardinality(Pending') = Cardinality(Pending) + 1 /\ Cardinality(Pending) \in Nat
    BY <1>4, <2>2, PendingFinite, FS_AddElement
  <2>6. Billable + 1 <= quota
    BY <1>2, <1>6 DEF AtLimit
  <2>7. Billable + (Cardinality(Pending) + 1) <= quota + slack
    BY <1>2, <2>4, <2>5, <2>6
  <2>8. PendingWithinLimit'
    BY <1>1, <1>2, <2>5, <2>7 DEF PendingWithinLimit
  <2>9. PendingBounded'
    BY <1>1, <2>2, <2>4 DEF PendingBounded
  <2> QED BY <1>2, <2>3, <2>8, <2>9
<1> QED BY <1>5, <1>6

\* A start that goes past the insert, or dies, gives back the lock if it held it
\* and is pending no longer.
LEMMA LeavingKeepsMetering ==
  ASSUME AdmissionShape, MeteringInv, NEW h \in Starts, UNCHANGED <<quota, floor, slack>>,
         Unlock(h), stage'[h] \notin {"count", "insert"},
         \A g \in Starts : g # h => stage'[g] = stage[g],
         IsFiniteSet(entries'), Billable' \in Int,
         Billable' <= Billable + IF h \in Pending THEN 1 ELSE 0
  PROVE  MeteringInv'
<1> USE DEF MeteringInv
<1>1. Pending' = Pending \ {h}
  BY DEF Pending
<1>2. quotaLock' = IF quotaLock = h THEN NoOne ELSE quotaLock
  BY DEF Unlock
<1>3. PendingUnlocked' \subseteq PendingUnlocked
  BY <1>1, <1>2, AdmissionAssumption DEF PendingUnlocked, Pending
<1>4. CountsUnderLock'
  BY <1>2, AdmissionAssumption DEF CountsUnderLock
<1>5. Cardinality(PendingUnlocked') <= Cardinality(PendingUnlocked) /\ Cardinality(PendingUnlocked') \in Nat
  BY <1>3, PendingFinite, FS_Subset, FS_CardinalityType
<1>6. PendingBounded'
  <2>1. Cardinality(PendingUnlocked) \in Nat /\ slack \in Nat
    BY PendingFinite DEF AdmissionShape
  <2> QED BY <1>5, <2>1 DEF PendingBounded
<1>7. Cardinality(Pending') = IF h \in Pending THEN Cardinality(Pending) - 1 ELSE Cardinality(Pending)
  BY <1>1, PendingFinite, FS_RemoveElement
<1>8. Billable' + Cardinality(Pending') <= Billable + Cardinality(Pending)
  <2>1. Billable \in Int /\ Cardinality(Pending) \in Nat
    BY BillableMoves, PendingFinite
  <2> QED BY <1>7, <2>1
<1>9. PendingWithinLimit'
  <2>1. /\ Billable \in Int /\ Cardinality(Pending) \in Nat /\ Cardinality(Pending') \in Int
        /\ slack \in Nat /\ floor \in Int /\ (quota \in Limits => quota \in Nat)
    BY <1>7, BillableMoves, PendingFinite, AdmissionAssumption DEF AdmissionShape
  <2>2. quota' = quota /\ floor' = floor /\ slack' = slack
    OBVIOUS
  <2>3. SUFFICES ASSUME quota \in Limits
                 PROVE  \/ Billable' + Cardinality(Pending') <= quota + slack
                        \/ Billable' + Cardinality(Pending') <= floor + slack
    BY <2>2 DEF PendingWithinLimit
  <2>4. \/ Billable + Cardinality(Pending) <= quota + slack
        \/ Billable + Cardinality(Pending) <= floor + slack
    BY <2>3 DEF PendingWithinLimit
  <2> QED BY <1>8, <2>1, <2>3, <2>4
<1> QED BY <1>4, <1>6, <1>9

\* The insert adds at most one.
LEMMA InsertingKeepsMetering ==
  ASSUME AdmissionShape, MeteringInv, NEW h \in Starts, ReserveInserts(h)
  PROVE  MeteringInv'
<1>0. h \in Requests /\ Starts \subseteq Requests
  BY DEF Requests
<1>1. entries' = entries \cup {<<target[h], "session_started">>}
  BY DEF ReserveInserts, InsertUsageEntry
<1>2. IsFiniteSet(entries') /\ Billable' <= Billable + 1 /\ Billable \in Int
  BY <1>1, BillableMoves DEF MeteringInv
<1>3. Billable' \in Int
  <2>1. IsFiniteSet(Of("session_started")') /\ IsFiniteSet(Of("start_credited")')
    BY <1>2, FS_Subset DEF Of
  <2> QED BY <2>1, FS_CardinalityType DEF Billable
<1>4. h \in Pending /\ stage'[h] = "transition" /\ \A g \in Starts : g # h => stage'[g] = stage[g]
  BY <1>0 DEF ReserveInserts, Reaches, Pending, AdmissionShape
<1>5. Unlock(h) /\ UNCHANGED <<quota, floor, slack>>
  BY DEF ReserveInserts
<1> QED BY <1>2, <1>3, <1>4, <1>5, LeavingKeepsMetering

\* A death adds nothing.
LEMMA DyingKeepsMetering ==
  ASSUME AdmissionShape, OnTheWay, MeteringInv, NEW h \in Requests, RequestDies(h)
  PROVE  MeteringInv'
<1>0. Starts \subseteq Requests
  BY DEF Requests
<1>1. stage'[h] = "idle" /\ \A g \in Requests : g # h => stage'[g] = stage[g]
  BY DEF RequestDies, Leaves, AdmissionShape
<1>2. Unlock(h) /\ UNCHANGED <<entries, quota, changes, floor, slack>>
  BY DEF RequestDies
<1>3. CASE h \in Starts
  <2>1. Billable' = Billable /\ Billable \in Int /\ IsFiniteSet(entries')
    BY <1>2, BillableMoves DEF MeteringInv, Billable, Of
  <2> QED BY <1>0, <1>1, <1>2, <1>3, <2>1, LeavingKeepsMetering
<1>4. CASE h \notin Starts
  <2>1. quotaLock' = quotaLock
    BY <1>2, <1>4 DEF Unlock, AdmissionShape
  <2> QED BY <1>0, <1>1, <1>2, <1>4, <2>1, OthersKeepMetering DEF metering
<1> QED BY <1>3, <1>4

\* A new quota starts from what stands and what is pending.
LEMMA QuotaKeepsMetering ==
  ASSUME AdmissionShape, MeteringInv, NEW q \in Limits \cup {Unlimited}, SetQuota(q)
  PROVE  MeteringInv'
<1> USE DEF MeteringInv
<1>1. /\ quotaLock = NoOne /\ quotaLock' = NoOne /\ UNCHANGED <<entries, stage>>
      /\ floor' = Billable /\ slack' = Cardinality(Pending)
  BY DEF SetQuota, Pending
<1>2. Billable' = Billable /\ Billable \in Int /\ IsFiniteSet(entries')
  BY <1>1, BillableMoves DEF Billable, Of
<1>3. Pending' = Pending /\ PendingUnlocked' = Pending /\ Cardinality(Pending) \in Nat
  BY <1>1, PendingFinite, AdmissionAssumption DEF Pending, PendingUnlocked
<1>4. CountsUnderLock'
  BY <1>1, AdmissionAssumption DEF CountsUnderLock
<1>5. PendingBounded'
  BY <1>1, <1>3 DEF PendingBounded
<1>6. PendingWithinLimit'
  BY <1>1, <1>2, <1>3 DEF PendingWithinLimit
<1> QED BY <1>2, <1>4, <1>5, <1>6

\* A credit only lowers what counts.
LEMMA CreditKeepsMetering ==
  ASSUME AdmissionShape, MeteringInv, NEW s \in Interviews, CreditStart(s)
  PROVE  MeteringInv'
<1> USE DEF MeteringInv
<1>1. /\ entries' = entries \cup {<<s, "start_credited">>}
      /\ UNCHANGED <<quota, quotaLock, floor, slack, stage>>
  BY DEF CreditStart, InsertUsageEntry
<1>2. IsFiniteSet(entries') /\ Billable' <= Billable /\ Billable \in Int
  BY <1>1, BillableMoves
<1>3. Billable' \in Int
  <2>1. IsFiniteSet(Of("session_started")') /\ IsFiniteSet(Of("start_credited")')
    BY <1>2, FS_Subset DEF Of
  <2> QED BY <2>1, FS_CardinalityType DEF Billable
<1>4. Pending' = Pending /\ PendingUnlocked' = PendingUnlocked /\ Cardinality(Pending) \in Nat
  BY <1>1, PendingFinite DEF Pending, PendingUnlocked
<1>5. CountsUnderLock' /\ PendingBounded'
  BY <1>1, <1>4 DEF CountsUnderLock, PendingBounded
<1>6. PendingWithinLimit'
  <2>1. slack \in Nat /\ floor \in Int /\ (quota \in Limits => quota \in Nat)
    BY AdmissionAssumption DEF AdmissionShape
  <2> QED BY <1>1, <1>2, <1>3, <1>4, <2>1 DEF PendingWithinLimit
<1> QED BY <1>2, <1>5, <1>6

\* A step that starts no interview, meters none and moves no start to or from
\* its transition keeps what is metered and what started together.
LEMMA OthersKeepStarted ==
  ASSUME StartedInv, UNCHANGED <<standing, abandoned>>,
         \A s : <<s, "session_started">> \in entries' <=> <<s, "session_started">> \in entries,
         \A h \in Starts :
           \/ stage'[h] = stage[h] /\ target'[h] = target[h]
           \/ "transition" \notin {stage[h], stage'[h]}
  PROVE  StartedInv'
<1>1. TransitionsAreMetered'
  BY DEF StartedInv, TransitionsAreMetered
<1>2. MeteredIsStarted'
  BY DEF StartedInv, MeteredIsStarted
<1> QED BY <1>1, <1>2 DEF StartedInv

\* The insert: the start is on its way to the transition.
LEMMA InsertingKeepsStarted ==
  ASSUME AdmissionShape, OnTheWay, StartedInv, NEW h \in Starts, ReserveInserts(h)
  PROVE  StartedInv'
<1>0. h \in Requests /\ Starts \subseteq Requests
  BY DEF Requests
<1>1. /\ entries' = entries \cup {<<target[h], "session_started">>}
      /\ UNCHANGED <<standing, abandoned, target>> /\ stage[h] = "insert"
      /\ stage'[h] = "transition" /\ \A g \in Starts : g # h => stage'[g] = stage[g]
  BY <1>0 DEF ReserveInserts, InsertUsageEntry, Reaches, AdmissionShape
<1>2. TransitionsAreMetered'
  BY <1>1 DEF StartedInv, TransitionsAreMetered
<1>3. MeteredIsStarted'
  <2> SUFFICES ASSUME NEW s \in Interviews
               PROVE  /\ standing'[s] = "connecting" => <<s, "session_started">> \in entries'
                      /\ <<s, "session_started">> \in entries' /\ standing'[s] = "ready" =>
                           s \in abandoned' \/ \E g \in Starts : stage'[g] = "transition" /\ target'[g] = s
    BY DEF MeteredIsStarted
  <2>1. CASE s = target[h]
    BY <1>1, <2>1
  <2>2. CASE s # target[h]
    <3>1. <<s, "session_started">> \in entries' <=> <<s, "session_started">> \in entries
      BY <1>1, <2>2
    <3>2. \A g \in Starts : stage[g] = "transition" => stage'[g] = "transition" /\ target'[g] = target[g]
      BY <1>1
    <3> QED BY <1>1, <3>1, <3>2 DEF StartedInv, MeteredIsStarted
  <2> QED BY <2>1, <2>2
<1> QED BY <1>2, <1>3 DEF StartedInv

\* The transition: a session that was metered starts, or had started.
LEMMA TransitionKeepsStarted ==
  ASSUME AdmissionShape, OnTheWay, StartedInv, NEW h \in Starts, StartTransitions(h)
  PROVE  StartedInv'
<1>0. h \in Requests /\ Starts \subseteq Requests
  BY DEF Requests
<1>1. /\ stage[h] = "transition" /\ target[h] \in Interviews /\ UNCHANGED <<entries, abandoned>>
      /\ stage'[h] # "transition"
      /\ \A g \in Starts : g # h => stage'[g] = stage[g] /\ target'[g] = target[g]
  BY <1>0 DEF StartTransitions, Reserved, Leaves, Reaches, metering, OnTheWay, UnderWay, AdmissionShape
<1>2. /\ standing'[target[h]] = "connecting"
      /\ \A s \in Interviews : s # target[h] => standing'[s] = standing[s]
  BY <1>1 DEF StartTransitions, AdmissionShape
<1>3. TransitionsAreMetered'
  BY <1>1 DEF StartedInv, TransitionsAreMetered
<1>4. MeteredIsStarted'
  <2> SUFFICES ASSUME NEW s \in Interviews
               PROVE  /\ standing'[s] = "connecting" => <<s, "session_started">> \in entries'
                      /\ <<s, "session_started">> \in entries' /\ standing'[s] = "ready" =>
                           s \in abandoned' \/ \E g \in Starts : stage'[g] = "transition" /\ target'[g] = s
    BY DEF MeteredIsStarted
  <2>1. CASE s = target[h]
    BY <1>1, <1>2, <2>1 DEF StartedInv, TransitionsAreMetered
  <2>2. CASE s # target[h]
    <3>1. standing'[s] = standing[s]
      BY <1>2, <2>2
    <3>2. \A g \in Starts : stage[g] = "transition" /\ target[g] = s =>
                              stage'[g] = "transition" /\ target'[g] = s
      BY <1>1, <2>2
    <3> QED BY <1>1, <3>1, <3>2 DEF StartedInv, MeteredIsStarted
  <2> QED BY <2>1, <2>2
<1> QED BY <1>3, <1>4 DEF StartedInv

\* A death: a start that reserved leaves its session abandoned.
LEMMA DyingKeepsStarted ==
  ASSUME AdmissionShape, OnTheWay, StartedInv, NEW h \in Requests, RequestDies(h)
  PROVE  StartedInv'
<1>0. Starts \subseteq Requests
  BY DEF Requests
<1>1. /\ stage'[h] = "idle" /\ UNCHANGED <<standing, entries>>
      /\ \A g \in Requests : g # h => stage'[g] = stage[g] /\ target'[g] = target[g]
      /\ abandoned \subseteq abandoned'
      /\ h \in Starts /\ stage[h] = "transition" => target[h] \in abandoned'
  BY DEF RequestDies, Leaves, AdmissionShape
<1>2. TransitionsAreMetered'
  BY <1>0, <1>1 DEF StartedInv, TransitionsAreMetered
<1>3. MeteredIsStarted'
  <2> SUFFICES ASSUME NEW s \in Interviews
               PROVE  /\ standing'[s] = "connecting" => <<s, "session_started">> \in entries'
                      /\ <<s, "session_started">> \in entries' /\ standing'[s] = "ready" =>
                           s \in abandoned' \/ \E g \in Starts : stage'[g] = "transition" /\ target'[g] = s
    BY DEF MeteredIsStarted
  <2>1. \A g \in Starts : stage[g] = "transition" /\ target[g] = s =>
          s \in abandoned' \/ (stage'[g] = "transition" /\ target'[g] = s)
    BY <1>0, <1>1
  <2> QED BY <1>1, <2>1 DEF StartedInv, MeteredIsStarted
<1> QED BY <1>2, <1>3 DEF StartedInv

\* A step that reads no policy, stamps none and answers none keeps the timing.
LEMMA OthersKeepTiming ==
  ASSUME AdmissionShape, TimingInv, UNCHANGED <<stamp, told, unstamped>>,
         \A h \in Requests :
           /\ stage[h] = "done" => stage'[h] = "done"
           /\ stage'[h] = "stamp" => stage[h] = "stamp" /\ target'[h] = target[h]
  PROVE  TimingInv'
<1> USE DEF TimingInv
<1>1. \A s \in Interviews : unstamped[s] \subseteq Requests
  BY DEF AdmissionShape
<1>2. StampersFound'
  BY DEF StampersFound
<1>3. StampedByOne'
  BY <1>1 DEF StampedByOne
<1>4. ToldAlone'
  BY DEF ToldAlone, Alone
<1> QED BY <1>2, <1>3, <1>4

\* A resume that finds a stamp answers it.
LEMMA ResumingKeepsTiming ==
  ASSUME AdmissionShape, TimingInv, NEW h \in Requests, NEW s \in Interviews, ResumeReads(h, s)
  PROVE  TimingInv'
<1>1. stage[h] = "idle" /\ \A g \in Requests : g # h => stage'[g] = stage[g] /\ target'[g] = target[g]
  BY DEF ResumeReads, Leaves, Reaches, AdmissionShape
<1>2. stage'[h] \in {"done", "policy"}
  BY DEF ResumeReads, Leaves, Reaches, AdmissionShape
<1>3. CASE UNCHANGED told
  BY <1>1, <1>2, <1>3, OthersKeepTiming DEF ResumeReads
<1>4. CASE told' = [told EXCEPT ![s] = @ \cup {stamp[s]}]
  <2>1. UNCHANGED <<stamp, unstamped>>
    BY DEF ResumeReads
  <2>2. \A r \in Interviews : unstamped[r] \subseteq Requests
    BY DEF AdmissionShape
  <2>3. StampersFound' /\ StampedByOne'
    BY <1>1, <1>2, <2>1, <2>2 DEF TimingInv, StampersFound, StampedByOne
  <2>4. ToldAlone'
    BY <1>4, <2>1 DEF TimingInv, ToldAlone, Alone, AdmissionShape
  <2> QED BY <2>3, <2>4 DEF TimingInv
<1> QED BY <1>3, <1>4 DEF ResumeReads

\* A request that reads the policy has found the session without a stamp.
LEMMA ReadingKeepsTiming ==
  ASSUME AdmissionShape, OnTheWay, TimingInv, NEW h \in Requests, ReadPolicy(h)
  PROVE  TimingInv'
<1> DEFINE s == target[h]
<1>1. s \in Interviews /\ stage[h] = "policy"
  BY DEF ReadPolicy, OnTheWay, UnderWay
<1>2. /\ UNCHANGED <<stamp, told, target>> /\ stage'[h] = "stamp"
      /\ \A g \in Requests : g # h => stage'[g] = stage[g]
  BY DEF ReadPolicy, Reaches, AdmissionShape
<1>3. /\ unstamped'[s] = unstamped[s] \cup {h}
      /\ \A r \in Interviews : r # s => unstamped'[r] = unstamped[r]
  BY <1>1 DEF ReadPolicy, AdmissionShape
<1>4. \A r \in Interviews : unstamped[r] \subseteq Requests /\ unstamped[r] \subseteq unstamped'[r]
  BY <1>3 DEF AdmissionShape
<1>5. \A g \in Requests : stage[g] = "stamp" => target[g] \in Interviews
  BY DEF OnTheWay, UnderWay
<1> HIDE DEF s
<1>6. StampersFound'
  <2>1. h \in unstamped'[target'[h]]
    BY <1>2, <1>3 DEF s
  <2> QED BY <1>2, <1>4, <1>5, <2>1 DEF TimingInv, StampersFound
<1>7. StampedByOne'
  <2>1. \A r \in Interviews : IsFiniteSet(unstamped'[r])
    <3>1. \A r \in Interviews : IsFiniteSet(unstamped[r])
      BY DEF TimingInv, StampedByOne
    <3>2. \A r \in Interviews : IsFiniteSet(unstamped[r] \cup {h})
      BY <3>1, FS_AddElement
    <3> QED BY <1>1, <1>3, <3>1, <3>2
  <2>2. \A r \in Interviews : stamp'[r] # 0 => \E g \in unstamped'[r] : stage'[g] = "done"
    BY <1>1, <1>2, <1>4 DEF TimingInv, StampedByOne
  <2> QED BY <2>1, <2>2 DEF StampedByOne
<1>8. ToldAlone'
  BY <1>2, <1>4 DEF TimingInv, ToldAlone, Alone
<1> QED BY <1>6, <1>7, <1>8 DEF TimingInv

\* A request that stamps: either the stamp it answers is its own, or another
\* request that found none had stamped the session before.
LEMMA StampingKeepsTiming ==
  ASSUME AdmissionShape, OnTheWay, TimingInv, NEW h \in Requests, StampAndAnswer(h)
  PROVE  TimingInv'
<1> DEFINE s == target[h]
<1>1. s \in Interviews /\ stage[h] = "stamp" /\ held[h] \in 1 .. MaxPolicy /\ h \in unstamped[s]
  BY DEF StampAndAnswer, OnTheWay, UnderWay, TimingInv, StampersFound
<1>2. /\ UNCHANGED unstamped /\ stage'[h] = "done"
      /\ \A g \in Requests : g # h => stage'[g] = stage[g] /\ target'[g] = target[g]
  BY DEF StampAndAnswer, Leaves, AdmissionShape
<1>3. /\ stamp'[s] = (IF stamp[s] = 0 THEN held[h] ELSE stamp[s])
      /\ told'[s] = told[s] \cup {held[h]}
      /\ \A r \in Interviews : r # s => stamp'[r] = stamp[r] /\ told'[r] = told[r]
  BY <1>1 DEF StampAndAnswer, StampTimingPolicy, AdmissionShape
<1> HIDE DEF s
<1>4. \A r \in Interviews : unstamped[r] \subseteq Requests
  BY DEF AdmissionShape
<1>5. StampersFound'
  BY <1>2 DEF TimingInv, StampersFound
<1>6. StampedByOne'
  BY <1>1, <1>2, <1>3, <1>4 DEF TimingInv, StampedByOne
<1>7. ToldAlone'
  <2>1. \A r \in Interviews : r # s => (Alone(r)' => \A p \in told'[r] : p = stamp'[r])
    BY <1>2, <1>3 DEF TimingInv, ToldAlone, Alone
  <2>2. ASSUME Alone(s) PROVE \A p \in told'[s] : p = stamp'[s]
    <3>1. stamp[s] = 0
      <4>1. SUFFICES ASSUME stamp[s] # 0 PROVE FALSE
        OBVIOUS
      <4>2. PICK g \in unstamped[s] : stage[g] = "done"
        BY <1>1, <4>1 DEF TimingInv, StampedByOne
      <4>3. g = h
        BY <1>1, <2>2 DEF Alone
      <4> QED BY <1>1, <4>2, <4>3
    <3>2. told[s] \subseteq {0} /\ told[s] \subseteq 1 .. MaxPolicy
      BY <1>1, <2>2, <3>1 DEF TimingInv, ToldAlone, AdmissionShape
    <3>3. told[s] = {}
      BY <3>2, AdmissionAssumption
    <3> QED BY <1>3, <3>1, <3>3
  <2>3. (\A g, f \in unstamped'[s] : g = f) => Alone(s)
    BY <1>2 DEF Alone
  <2>4. \A r \in Interviews : Alone(r)' <=> \A g, f \in unstamped'[r] : g = f
    BY DEF Alone
  <2> QED BY <2>1, <2>2, <2>3, <2>4 DEF ToldAlone
<1> QED BY <1>5, <1>6, <1>7 DEF TimingInv

\* Every step of the admission keeps its invariant: for each action, the part it
\* disturbs, and for the others that it does not.
LEMMA StepKeepsAdmission ==
  ASSUME AdmissionInv, [AdmissionNext]_admissionVars
  PROVE  AdmissionInv'
<1> USE DEF AdmissionInv
<1>0. Starts \subseteq Requests /\ Resumes \subseteq Requests
  BY DEF Requests
<1>1. ASSUME NEW h \in Starts, NEW s \in Interviews, StartBegins(h, s) PROVE AdmissionInv'
  <2>1. UNCHANGED <<standing, metering, timing, abandoned>>
    BY <1>1 DEF StartBegins
  <2>2. /\ stage[h] = "idle" /\ stage'[h] \in {"refused", "reserve"}
        /\ \A g \in Requests : g # h => stage'[g] = stage[g] /\ target'[g] = target[g]
    BY <1>0, <1>1 DEF StartBegins, Leaves, Reaches, AdmissionShape
  <2>3. MeteringInv'
    BY <1>0, <2>1, <2>2, OthersKeepMetering
  <2>4. StartedInv'
    BY <1>0, <2>1, <2>2, OthersKeepStarted DEF metering
  <2>5. TimingInv'
    BY <1>0, <2>1, <2>2, OthersKeepTiming DEF timing
  <2> QED BY <1>1, <2>3, <2>4, <2>5, StartKeepsShape
<1>2. ASSUME NEW h \in Starts,
             ReserveLocks(h) \/ ReserveCounts(h) \/ ReserveInserts(h)
      PROVE  AdmissionInv'
  <2>1. UNCHANGED <<standing, timing, target, abandoned>>
    BY <1>2 DEF ReserveLocks, ReserveCounts, ReserveInserts
  <2>2. /\ stage[h] \in {"reserve", "count", "insert"}
        /\ stage'[h] \in {"count", "insert", "exhausted", "transition"}
        /\ \A g \in Requests : g # h => stage'[g] = stage[g]
    BY <1>0, <1>2 DEF ReserveLocks, ReserveCounts, ReserveInserts, Reaches, AdmissionShape
  <2>3. MeteringInv'
    BY <1>2, LockingKeepsMetering, CountingKeepsMetering, InsertingKeepsMetering
  <2>4. StartedInv'
    <3>1. CASE ReserveLocks(h) \/ ReserveCounts(h)
      <4>1. stage'[h] # "transition" /\ entries' = entries
        BY <1>0, <3>1 DEF ReserveLocks, ReserveCounts, Reaches, AdmissionShape
      <4> QED BY <1>0, <2>1, <2>2, <4>1, OthersKeepStarted
    <3> QED BY <1>2, <3>1, InsertingKeepsStarted
  <2>5. TimingInv'
    BY <1>0, <2>1, <2>2, OthersKeepTiming DEF timing
  <2> QED BY <1>2, <2>3, <2>4, <2>5, StartKeepsShape
<1>3. ASSUME NEW h \in Starts, StartTransitions(h) PROVE AdmissionInv'
  <2>1. UNCHANGED <<metering, timing>>
    BY <1>3 DEF StartTransitions
  <2>2. /\ stage[h] = "transition" /\ stage'[h] \in {"policy", "refused"}
        /\ \A g \in Requests : g # h => stage'[g] = stage[g] /\ target'[g] = target[g]
    BY <1>0, <1>3 DEF StartTransitions, Reserved, Leaves, Reaches, AdmissionShape
  <2>3. MeteringInv'
    BY <1>0, <2>1, <2>2, OthersKeepMetering
  <2>4. StartedInv'
    BY <1>3, TransitionKeepsStarted
  <2>5. TimingInv'
    BY <1>0, <2>1, <2>2, OthersKeepTiming DEF timing
  <2> QED BY <1>3, <2>3, <2>4, <2>5, StartKeepsShape
<1>4. ASSUME NEW h \in Starts, AskAgain(h) PROVE AdmissionInv'
  <2>1. UNCHANGED <<standing, metering, timing, abandoned>>
    BY <1>4 DEF AskAgain
  <2>2. /\ stage[h] = "exhausted" /\ stage'[h] = "idle"
        /\ \A g \in Requests : g # h => stage'[g] = stage[g] /\ target'[g] = target[g]
    BY <1>0, <1>4 DEF AskAgain, Leaves, AdmissionShape
  <2>3. MeteringInv'
    BY <1>0, <2>1, <2>2, OthersKeepMetering
  <2>4. StartedInv'
    BY <1>0, <2>1, <2>2, OthersKeepStarted DEF metering
  <2>5. TimingInv'
    BY <1>0, <2>1, <2>2, OthersKeepTiming DEF timing
  <2> QED BY <1>4, <2>3, <2>4, <2>5, StartKeepsShape
<1>5. ASSUME NEW h \in Requests,
             \/ \E s \in Interviews : h \in Resumes /\ ResumeReads(h, s)
             \/ ReadPolicy(h) \/ StampAndAnswer(h)
      PROVE  AdmissionInv'
  <2>1. UNCHANGED <<standing, metering, abandoned>>
    BY <1>5 DEF ResumeReads, ReadPolicy, StampAndAnswer
  <2>2. /\ stage[h] \in {"idle", "policy", "stamp"} /\ stage'[h] \in {"policy", "stamp", "done"}
        /\ \A g \in Requests : g # h => stage'[g] = stage[g] /\ target'[g] = target[g]
    BY <1>5 DEF ResumeReads, ReadPolicy, StampAndAnswer, Leaves, Reaches, AdmissionShape
  <2>3. MeteringInv'
    BY <1>0, <2>1, <2>2, OthersKeepMetering
  <2>4. StartedInv'
    BY <1>0, <2>1, <2>2, OthersKeepStarted DEF metering
  <2>5. TimingInv'
    BY <1>5, ResumingKeepsTiming, ReadingKeepsTiming, StampingKeepsTiming
  <2> QED BY <1>5, <2>3, <2>4, <2>5, TimingKeepsShape
<1>6. ASSUME NEW h \in Requests, RequestDies(h) PROVE AdmissionInv'
  <2>1. /\ UNCHANGED timing /\ stage[h] # "done" /\ stage'[h] = "idle"
        /\ \A g \in Requests : g # h => stage'[g] = stage[g] /\ target'[g] = target[g]
        /\ stage[h] \in UnderWay
    BY <1>6 DEF RequestDies, Leaves, AdmissionShape, UnderWay, Stages
  <2>2. TimingInv'
    BY <2>1, OthersKeepTiming DEF timing
  <2>3. target[h] \in Interviews
    BY <2>1 DEF OnTheWay
  <2> QED BY <1>6, <2>2, <2>3, TimingKeepsShape, DyingKeepsMetering, DyingKeepsStarted
<1>7. ASSUME NEW q \in Limits \cup {Unlimited}, SetQuota(q) PROVE AdmissionInv'
  <2>1. UNCHANGED <<standing, entries, timing, stage, target, abandoned>>
    BY <1>7 DEF SetQuota
  <2>2. StartedInv' /\ TimingInv'
    BY <2>1, OthersKeepStarted, OthersKeepTiming DEF timing
  <2> QED BY <1>7, <2>2, QuotaKeepsMetering, WorldKeepsShape DEF MeteringInv
<1>8. ASSUME NEW s \in Interviews, CreditStart(s) PROVE AdmissionInv'
  <2>1. /\ UNCHANGED <<standing, timing, stage, target, abandoned>>
        /\ entries' = entries \cup {<<s, "start_credited">>}
    BY <1>8 DEF CreditStart, InsertUsageEntry
  <2>2. StartedInv' /\ TimingInv'
    BY <2>1, OthersKeepStarted, OthersKeepTiming DEF timing
  <2> QED BY <1>8, <2>2, CreditKeepsMetering, WorldKeepsShape DEF MeteringInv
<1>9. CASE PublishPolicy
  <2>1. UNCHANGED <<standing, metering, stamp, told, unstamped, stage, target, abandoned>>
    BY <1>9 DEF PublishPolicy
  <2>2. MeteringInv' /\ StartedInv' /\ TimingInv'
    BY <2>1, OthersKeepMetering, OthersKeepStarted, OthersKeepTiming DEF metering
  <2> QED BY <1>9, <2>2, WorldKeepsShape DEF MeteringInv
<1>10. CASE UNCHANGED admissionVars
  <2>1. UNCHANGED <<standing, metering, timing, stage, target, held, abandoned, retries>>
    BY <1>10 DEF admissionVars
  <2>2. MeteringInv' /\ StartedInv' /\ TimingInv'
    BY <2>1, OthersKeepMetering, OthersKeepStarted, OthersKeepTiming DEF metering, timing
  <2>3. AdmissionShape' /\ OnTheWay'
    BY <2>1 DEF AdmissionShape, OnTheWay, metering, timing
  <2> QED BY <2>2, <2>3
<1> QED BY <1>0, <1>1, <1>2, <1>3, <1>4, <1>5, <1>6, <1>7, <1>8, <1>9, <1>10 DEF AdmissionNext

\* Every state of the admission satisfies the inductive invariant.
THEOREM AdmissionInvariant == AdmissionSpec => []AdmissionInv
<1>1. AdmissionInit => AdmissionInv
  <2> SUFFICES ASSUME AdmissionInit PROVE AdmissionInv
    OBVIOUS
  <2>1. AdmissionShape
    <3>1. 0 \in 0 .. MaxPolicy /\ 1 \in 1 .. MaxPolicy /\ 0 \in 0 .. MaxChanges /\ 0 \in 0 .. MaxRetries
      BY AdmissionAssumption
    <3> QED BY <3>1 DEF AdmissionInit, AdmissionShape, Stages
  <2>2. OnTheWay
    BY DEF AdmissionInit, OnTheWay, UnderWay
  <2>3. MeteringInv
    <3>1. CountsUnderLock
      BY AdmissionAssumption DEF AdmissionInit, CountsUnderLock, Requests
    <3> QED BY <3>1, FS_EmptySet, AdmissionAssumption
            DEF AdmissionInit, MeteringInv, PendingBounded, PendingWithinLimit
  <2>4. StartedInv
    BY DEF AdmissionInit, StartedInv, TransitionsAreMetered, MeteredIsStarted, Requests
  <2>5. TimingInv
    BY FS_EmptySet DEF AdmissionInit, TimingInv, StampersFound, StampedByOne, ToldAlone, Alone
  <2> QED BY <2>1, <2>2, <2>3, <2>4, <2>5 DEF AdmissionInv
<1>2. AdmissionInv /\ [AdmissionNext]_admissionVars => AdmissionInv'
  BY StepKeepsAdmission
<1> QED BY <1>1, <1>2, PTL DEF AdmissionSpec

(***************************************************************************)
(* Under the row lock the usage never passes the limit but by what stood   *)
(* or was past the count when the limit was set, for every number of       *)
(* starts, credits, deaths and changes of the quota (ledger.go             *)
(* ReserveStart, SetQuota, CreditStart).                                   *)
(***************************************************************************)
THEOREM UsageWithinLimit == AdmissionSpec => []WithinLimit
<1>1. AdmissionInv => WithinLimit
  <2> SUFFICES ASSUME AdmissionInv, quota \in Limits
               PROVE  Billable <= quota + slack \/ Billable <= floor + slack
    BY DEF WithinLimit
  <2>1. Billable \in Int /\ Cardinality(Pending) \in Nat
    BY BillableMoves, PendingFinite DEF AdmissionInv, MeteringInv
  <2>2. slack \in Nat /\ floor \in Int /\ quota \in Nat
    BY AdmissionAssumption DEF AdmissionInv, AdmissionShape
  <2> QED BY <2>1, <2>2 DEF AdmissionInv, MeteringInv, PendingWithinLimit
<1> QED BY <1>1, AdmissionInvariant, PTL

(***************************************************************************)
(* An interview that started is metered, and one that is metered and did   *)
(* not start has a start on its way to the transition or was abandoned by  *)
(* one that died there (start.go Starter.Start, ledger.go ReserveStart).   *)
(***************************************************************************)
THEOREM MeteredAndStarted == AdmissionSpec => []MeteredIsStarted
<1>1. AdmissionInv => MeteredIsStarted
  BY DEF AdmissionInv, StartedInv
<1> QED BY <1>1, AdmissionInvariant, PTL

(***************************************************************************)
(* A client counts down by the policy stamped on its session unless two    *)
(* requests found it without a stamp (start.go, resume.go timingOf).       *)
(***************************************************************************)
THEOREM ToldWhatIsStamped == AdmissionSpec => []ToldIsStamped
<1>1. AdmissionInv => ToldIsStamped
  <2> SUFFICES ASSUME AdmissionInv, NEW s \in Interviews, Cardinality(unstamped[s]) <= 1
               PROVE  \A p \in told[s] : p = stamp[s]
    BY DEF ToldIsStamped
  <2>1. IsFiniteSet(unstamped[s])
    BY DEF AdmissionInv, TimingInv, StampedByOne
  <2>2. Alone(s)
    BY <2>1, AtMostOne DEF Alone
  <2> QED BY <2>2 DEF AdmissionInv, TimingInv, ToldAlone
<1> QED BY <1>1, AdmissionInvariant, PTL

-----------------------------------------------------------------------------
(* Progression: the snapshots.                                             *)

\* Every computation has a number of its own, and what is in a saver's hand
\* is not on file.
ComputationsNumbered ==
  /\ computed \in Nat /\ saver = [s \in Savers |-> saver[s]]
  /\ \A s \in Savers : saver[s] # NoAnswer => saver[s].at \in 1 .. computed
  /\ \A kept \in snapshots : kept.at \in 1 .. computed
  /\ \A s, u \in Savers :
       saver[s] # NoAnswer /\ saver[u] # NoAnswer /\ saver[s].at = saver[u].at => s = u
  /\ \A kept, other \in snapshots : kept.at = other.at => kept = other
  /\ \A kept \in snapshots, s \in Savers : saver[s] # NoAnswer => saver[s].at # kept.at

\* The answer saved that was computed last is on file, under a number that is
\* not later, and so is every other snapshot.
NewestOnFile ==
  /\ newest.at \in Nat /\ \A kept \in snapshots : kept.at <= newest.at
  /\ snapshots = {} => newest = NoAnswer
  /\ snapshots # {} => \E kept \in snapshots : kept.answer = newest.answer

StandingInv == ComputationsNumbered /\ NewestOnFile

\* Numbers that are some have a first.
LEMMA FirstNumber ==
  ASSUME NEW S \in SUBSET Nat, S # {}
  PROVE  \E x \in S : x \in Nat /\ \A y \in S : x <= y
<1>1. PICK x \in S : \A y \in S : ~(<<y, x>> \in OpToRel(<, Nat))
  BY WFMin, NatLessThanWellFounded
<1>2. \A y \in S : ~(y < x)
  BY <1>1 DEF OpToRel
<1> QED BY <1>2

\* The snapshot computed last exists.
LEMMA LatestSnapshot ==
  ASSUME ComputationsNumbered, snapshots # {}
  PROVE  Readiness \in snapshots /\ \A other \in snapshots : other.at <= Readiness.at
<1> DEFINE D == {computed - kept.at : kept \in snapshots}
<1>1. D \in SUBSET Nat /\ D # {}
  BY DEF ComputationsNumbered
<1>2. PICK x \in D : x \in Nat /\ \A y \in D : x <= y
  <2> HIDE DEF D
  <2> QED BY <1>1, FirstNumber
<1>4. PICK kept \in snapshots : x = computed - kept.at
  BY <1>2
<1>5. \A other \in snapshots : other.at <= kept.at
  <2> SUFFICES ASSUME NEW other \in snapshots PROVE other.at <= kept.at
    OBVIOUS
  <2>1. x <= computed - other.at
    BY <1>2
  <2>2. computed \in Nat /\ kept.at \in Nat /\ other.at \in Nat
    BY DEF ComputationsNumbered
  <2> HIDE DEF D
  <2> QED BY <1>4, <2>1, <2>2
<1> QED BY <1>4, <1>5 DEF Readiness

\* Computing takes the next number and saves nothing.
LEMMA ComputeStep ==
  ASSUME StandingInv, NEW s \in Savers, ComputeReadiness(s)
  PROVE  StandingInv'
<1>0. PICK history \in Listings :
        saver' = [saver EXCEPT ![s] =
          [answer |-> <<standard, Outcome(Subject, Targets[standard], history)>>,
           at |-> computed + 1]]
  BY DEF ComputeReadiness
<1> DEFINE carried == [answer |-> <<standard, Outcome(Subject, Targets[standard], history)>>,
                       at |-> computed + 1]
<1>1. carried.at = computed + 1 /\ computed \in Nat
  BY DEF StandingInv, ComputationsNumbered
<1>2. saver' = [saver EXCEPT ![s] = carried] /\ computed' = computed + 1
  BY <1>0 DEF ComputeReadiness
<1> HIDE DEF carried
<1>3. UNCHANGED <<snapshots, newest>>
  BY DEF ComputeReadiness
<1>4. /\ saver' = [u \in Savers |-> saver'[u]] /\ saver'[s] = carried
      /\ \A u \in Savers \ {s} : saver'[u] = saver[u]
  BY <1>2 DEF StandingInv, ComputationsNumbered
<1>5. ComputationsNumbered'
  BY <1>1, <1>2, <1>3, <1>4 DEF StandingInv, ComputationsNumbered
<1> QED BY <1>3, <1>5 DEF StandingInv, NewestOnFile

\* Saving files the answer in hand unless it is on file.
LEMMA SaveStep ==
  ASSUME StandingInv, NEW s \in Savers, SaveReadiness(s)
  PROVE  StandingInv'
<1> DEFINE carried == saver[s]
<1>1. carried # NoAnswer /\ carried.at \in 1 .. computed /\ computed \in Nat /\ newest.at \in Nat
  BY DEF SaveReadiness, StandingInv, ComputationsNumbered, NewestOnFile
<1>2. /\ computed' = computed /\ saver' = [u \in Savers |-> saver'[u]] /\ saver'[s] = NoAnswer
      /\ \A u \in Savers \ {s} : saver'[u] = saver[u]
  BY DEF SaveReadiness, StandingInv, ComputationsNumbered
<1>3. newest' = IF carried.at > newest.at THEN carried ELSE newest
  BY DEF SaveReadiness
<1>4. \/ snapshots' = snapshots /\ \E kept \in snapshots : kept.answer = carried.answer
      \/ snapshots' = snapshots \cup {carried}
  BY DEF SaveReadiness, InsertSnapshot
<1>5. \A u \in Savers : saver'[u] # NoAnswer => u # s
  BY <1>2
<1>6. \A kept \in snapshots' : kept \in snapshots \/ kept = carried
  BY <1>4
<1>7. /\ \A u \in Savers : saver[u] # NoAnswer => saver[u].at \in 1 .. computed
      /\ \A u \in Savers \ {s} : saver[u] # NoAnswer => saver[u].at # carried.at
      /\ \A kept \in snapshots : kept.at # carried.at /\ kept.at \in 1 .. computed
      /\ \A kept, other \in snapshots : kept.at = other.at => kept = other
      /\ \A kept \in snapshots, u \in Savers : saver[u] # NoAnswer => saver[u].at # kept.at
      /\ \A u, v \in Savers :
           saver[u] # NoAnswer /\ saver[v] # NoAnswer /\ saver[u].at = saver[v].at => u = v
  BY <1>1 DEF StandingInv, ComputationsNumbered
<1> HIDE DEF carried
<1>8. ComputationsNumbered'
  BY <1>1, <1>2, <1>5, <1>6, <1>7 DEF ComputationsNumbered
<1>9. newest'.at \in Nat /\ newest'.at >= newest.at /\ newest'.at >= carried.at
  BY <1>1, <1>3
<1>10. \A kept \in snapshots' : kept.at <= newest'.at
  BY <1>1, <1>6, <1>7, <1>9 DEF StandingInv, NewestOnFile
<1>11. snapshots' # {} /\ \E kept \in snapshots' : kept.answer = newest'.answer
  <2>1. \E kept \in snapshots' : kept.answer = carried.answer
    BY <1>4
  <2>2. CASE newest' = carried
    BY <2>1, <2>2
  <2>3. CASE newest' = newest /\ ~(carried.at > newest.at)
    <3>1. snapshots # {}
      BY <1>1, <2>3 DEF StandingInv, NewestOnFile, NoAnswer
    <3>2. \E kept \in snapshots : kept.answer = newest.answer
      BY <3>1 DEF StandingInv, NewestOnFile
    <3> QED BY <1>4, <2>3, <3>2
  <2> QED BY <1>3, <2>2, <2>3
<1> QED BY <1>8, <1>9, <1>10, <1>11 DEF StandingInv, NewestOnFile

\* What was saved of the readinesses, whoever computed and saved them when.
THEOREM StandingInvariant == StoreSpec => []StandingInv
<1>1. StoreInit => StandingInv
  <2> SUFFICES ASSUME StoreInit PROVE StandingInv
    OBVIOUS
  <2>1. ComputationsNumbered
    BY DEF StoreInit, ComputationsNumbered
  <2>2. NewestOnFile
    BY DEF StoreInit, NewestOnFile, NoAnswer
  <2> QED BY <2>1, <2>2 DEF StandingInv
<1>2. StandingInv /\ [ReadinessNext \/ GoalsNext]_storeVars => StandingInv'
  <2> SUFFICES ASSUME StandingInv, [ReadinessNext \/ GoalsNext]_storeVars PROVE StandingInv'
    OBVIOUS
  <2>1. ASSUME UNCHANGED <<saver, computed, snapshots, newest>> PROVE StandingInv'
    BY <2>1 DEF StandingInv, ComputationsNumbered, NewestOnFile
  <2>2. CASE UNCHANGED storeVars
    BY <2>1, <2>2 DEF storeVars, readinessVars
  <2>3. CASE GoalsNext
    <3>1. UNCHANGED <<saver, computed, snapshots, newest>>
      BY <2>3 DEF GoalsNext, Observe, CreateGoal, SetGoalStatus, ReadGoals, ReadHistory,
                  ReadMilestones, TrackGoals, readinessVars
    <3> QED BY <2>1, <3>1
  <2>4. CASE ReadinessNext
    <3>1. CASE Observe \/ PublishStandard
      BY <2>1, <3>1 DEF Observe, PublishStandard, readinessVars
    <3>2. ASSUME NEW s \in Savers, ComputeReadiness(s) \/ SaveReadiness(s) PROVE StandingInv'
      BY <3>2, ComputeStep, SaveStep
    <3> QED BY <2>4, <3>1, <3>2 DEF ReadinessNext
  <2> QED BY <2>2, <2>3, <2>4
<1> QED BY <1>1, <1>2, PTL DEF StoreSpec

\* The standing shown is the answer saved that was computed last, or that
\* answer is on file from an earlier computation, whatever savers save in
\* whatever order and whatever is published between their reads and their
\* writes (SaveReadiness, ListReadiness).
THEOREM StandingIsExplained == StoreSpec => []StandingExplained
<1>1. StandingInv => StandingExplained
  <2> SUFFICES ASSUME StandingInv PROVE StandingExplained
    OBVIOUS
  <2>1. CASE snapshots = {}
    BY <2>1 DEF StandingInv, NewestOnFile, StandingExplained, Readiness
  <2>2. CASE snapshots # {}
    <3>1. PICK kept \in snapshots : kept.answer = newest.answer
      BY <2>2 DEF StandingInv, NewestOnFile
    <3>2. kept.at \in Nat /\ newest.at \in Nat /\ kept.at <= newest.at
      BY DEF StandingInv, ComputationsNumbered, NewestOnFile
    <3>3. CASE kept.at < newest.at
      BY <3>1, <3>3 DEF StandingExplained
    <3>4. CASE kept.at = newest.at
      <4> DEFINE shown == Readiness
      <4>1. shown \in snapshots /\ kept.at <= shown.at /\ shown.at <= newest.at /\ shown.at \in Nat
        BY <2>2, LatestSnapshot DEF StandingInv, ComputationsNumbered, NewestOnFile
      <4> HIDE DEF shown
      <4>2. shown = kept
        BY <3>2, <3>4, <4>1 DEF StandingInv, ComputationsNumbered
      <4> QED BY <3>1, <4>2 DEF StandingExplained, shown
    <3> QED BY <3>2, <3>3, <3>4
  <2> QED BY <2>1, <2>2
<1> QED BY <1>1, StandingInvariant, PTL

-----------------------------------------------------------------------------
(* Progression: the milestones.                                            *)

Readings == [competency : Competencies, as : {"placed"} \cup Unplaced, band : Bands,
             day : 0 .. Today, supersedes : Nat]

\* No reading that was on file before it and still counts reached the band on
\* an earlier day.
Earliest(b, by) ==
  /\ by \in Rows
  /\ \A i \in ComparableReadings(Subject) :
       i < by /\ observations[i].band = b => ~(observations[i].day < observations[by].day)

\* What a tracker has read, and what it is about to insert, is dated.
TrackersDated ==
  \A t \in Trackers :
    /\ tracker[t].step = "milestones" => \A m \in tracker[t].first : Earliest(m.band, m.by)
    /\ tracker[t].step = "insert" => \A m \in tracker[t].fresh : Earliest(m.band, m.by)

MilestonesInv ==
  /\ observations \in Seq(Readings) /\ tracker = [t \in Trackers |-> tracker[t]]
  /\ \A b \in Bands : milestones[b] # 0 => Earliest(b, milestones[b])
  /\ TrackersDated

\* The rows are numbered, and each is a reading.
LEMMA RowsAreReadings ==
  ASSUME observations \in Seq(Readings), NEW i \in Rows
  PROVE  /\ i \in 1 .. Len(observations) /\ i \in Nat
         /\ observations[i].day \in 0 .. Today /\ observations[i].day \in Nat /\ Today \in Nat
         /\ observations[i].competency \in Competencies
         /\ observations[i].as \in {"placed"} \cup Unplaced
<1>1. Rows = 1 .. Len(observations) /\ Len(observations) \in Nat
  BY DEF Rows
<1>2. observations[i] \in Readings
  BY <1>1
<1> QED BY <1>1, <1>2, ProgressionAssumption DEF Readings

\* A listing is of all rows, the later dated after the earlier.
LEMMA ListingsAreOrdered ==
  ASSUME observations \in Seq(Readings), NEW history \in Listings
  PROVE  /\ DOMAIN history = Rows /\ \A n \in Rows : history[n] \in Rows
         /\ \A i \in Rows : \E n \in Rows : history[n] = i
         /\ \A m, n \in Rows : m <= n => observations[history[m]].day <= observations[history[n]].day
<1>1. /\ DOMAIN history = Rows /\ \A n \in Rows : history[n] \in Rows
      /\ \A i \in Rows : \E n \in Rows : history[n] = i
      /\ \A m, n \in Rows : m < n => observations[history[m]].day <= observations[history[n]].day
  BY DEF Listings, Bijection, Injection, Surjection
<1>2. \A n \in Rows : n \in Nat /\ observations[n].day \in Nat
  BY RowsAreReadings
<1>3. \A m, n \in Rows : m <= n => observations[history[m]].day <= observations[history[n]].day
  BY <1>1, <1>2
<1> QED BY <1>1, <1>3

\* Of readings on file, the one listed first is dated first.
LEMMA FirstReading ==
  ASSUME observations \in Seq(Readings), NEW history \in Listings, NEW S \in SUBSET Rows, S # {}
  PROVE  /\ FirstListed(S, history) \in S
         /\ \A j \in S : observations[FirstListed(S, history)].day <= observations[j].day
<1>1. /\ DOMAIN history = Rows
      /\ \A i \in Rows : \E n \in Rows : history[n] = i
      /\ \A m, n \in Rows : m <= n => observations[history[m]].day <= observations[history[n]].day
  BY ListingsAreOrdered
<1>2. \A n \in Rows : n \in Nat
  BY RowsAreReadings
<1> DEFINE Places == {n \in DOMAIN history : history[n] \in S}
<1>3. Places \in SUBSET Nat /\ Places # {}
  BY <1>1, <1>2
<1>4. Min(Places) \in Places /\ \A n \in Places : Min(Places) <= n
  <2> HIDE DEF Places
  <2>1. PICK x \in Places : \A n \in Places : x <= n
    BY <1>3, FirstNumber
  <2> QED BY <2>1 DEF Min
<1>5. FirstListed(S, history) = history[Min(Places)]
  BY DEF FirstListed
<1>6. ASSUME NEW j \in S
      PROVE  observations[FirstListed(S, history)].day <= observations[j].day
  <2>1. PICK n \in Rows : history[n] = j
    BY <1>1
  <2>2. n \in Places
    BY <1>1, <2>1
  <2> QED BY <1>1, <1>4, <1>5, <2>1, <2>2
<1> QED BY <1>4, <1>5, <1>6

\* The first reading of each band is the earliest of it.
LEMMA NewMilestonesDated ==
  ASSUME observations \in Seq(Readings), NEW history \in Listings,
         NEW m \in NewMilestones(Subject, history)
  PROVE  Earliest(m.band, m.by)
<1> DEFINE Reaching(band) == {i \in ComparableReadings(Subject) : observations[i].band = band}
<1>1. PICK band \in Bands :
        Reaching(band) # {} /\ m = [band |-> band, by |-> FirstListed(Reaching(band), history)]
  BY DEF NewMilestones
<1> DEFINE S == Reaching(band)
<1>2. S \in SUBSET Rows /\ S # {}
  BY <1>1 DEF ComparableReadings
<1>3. /\ FirstListed(S, history) \in S
      /\ \A j \in S : observations[FirstListed(S, history)].day <= observations[j].day
  <2> HIDE DEF S
  <2> QED BY <1>2, FirstReading
<1>4. m.band = band /\ m.by \in S /\ \A j \in S : observations[m.by].day <= observations[j].day
  BY <1>1, <1>3
<1>5. \A j \in S : observations[j].day \in Nat
  BY <1>2, RowsAreReadings
<1>6. ASSUME NEW i \in ComparableReadings(Subject), observations[i].band = band
      PROVE  ~(observations[i].day < observations[m.by].day)
  <2>1. i \in S
    BY <1>6
  <2> HIDE DEF S
  <2> QED BY <1>4, <1>5, <2>1
<1>7. m.by \in Rows
  BY <1>2, <1>4
<1> QED BY <1>4, <1>6, <1>7 DEF Earliest

\* An evaluation's row is a reading, appended.
LEMMA AppendsReading ==
  ASSUME observations \in Seq(Readings), AppendObservation
  PROVE  /\ observations' \in Seq(Readings)
         /\ \E r \in Readings : observations' = Append(observations, r)
<1>1. PICK r \in Readings : observations' = Append(observations, r)
  <2>1. PICK c \in Competencies, day \in Days, supersedes \in Rows \cup {0} :
          \/ \E band \in Bands : AppendRow(c, "placed", band, day, supersedes)
          \/ \E as \in Unplaced : AppendRow(c, as, 0, day, supersedes)
    BY DEF AppendObservation
  <2>2. day \in 0 .. Today /\ supersedes \in Nat /\ 0 \in Bands
    BY ProgressionAssumption DEF Rows, Bands
  <2>3. CASE \E band \in Bands : AppendRow(c, "placed", band, day, supersedes)
    BY <2>2, <2>3 DEF AppendRow, Readings
  <2>4. CASE \E as \in Unplaced : AppendRow(c, as, 0, day, supersedes)
    BY <2>2, <2>4 DEF AppendRow, Readings
  <2> QED BY <2>1, <2>3, <2>4
<1> QED BY <1>1

\* A reading that is appended, or corrects another, leaves dates standing.
LEMMA EarliestKept ==
  ASSUME observations \in Seq(Readings), AppendObservation, NEW b, NEW by, Earliest(b, by)
  PROVE  Earliest(b, by)'
<1>1. PICK r \in Readings : observations' = Append(observations, r)
  BY AppendsReading
<1>2. observations' \in Seq(Readings) /\ Rows \subseteq Rows'
  BY <1>1 DEF Rows
<1>3. \A i \in Rows : observations'[i] = observations[i]
  BY <1>1 DEF Rows
<1>4. \A i \in Rows : i \in ComparableReadings(Subject)' => i \in ComparableReadings(Subject)
  BY <1>2, <1>3 DEF ComparableReadings, Superseded
<1>5. \A i \in ComparableReadings(Subject)' : i < by => i \in Rows
  BY <1>1 DEF ComparableReadings, Rows, Earliest
<1>6. by \in Rows
  BY DEF Earliest
<1> QED BY <1>2, <1>3, <1>4, <1>5, <1>6 DEF Earliest

\* The dates stand while nothing is appended.
LEMMA EarliestStands ==
  ASSUME UNCHANGED observations, NEW b, NEW by
  PROVE  Earliest(b, by)' <=> Earliest(b, by)
BY DEF Earliest, Rows, ComparableReadings, Superseded

\* Appending keeps every date that is on file or in a tracker's hand.
LEMMA ObserveStep ==
  ASSUME MilestonesInv, Observe
  PROVE  MilestonesInv'
<1>1. observations \in Seq(Readings) /\ AppendObservation /\ UNCHANGED <<tracker, milestones>>
  BY DEF MilestonesInv, Observe, goalVars
<1>2. \A b, by : Earliest(b, by) => Earliest(b, by)'
  BY <1>1, EarliestKept
<1>3. observations' \in Seq(Readings)
  BY <1>1, AppendsReading
<1>4. TrackersDated'
  BY <1>1, <1>2 DEF MilestonesInv, TrackersDated
<1> QED BY <1>1, <1>2, <1>3, <1>4 DEF MilestonesInv

\* A step of a tracker leaves the history alone: what is left to show is what
\* it holds after.
LEMMA TrackerStep ==
  ASSUME MilestonesInv, UNCHANGED observations, NEW t \in Trackers, NEW r,
         tracker' = [tracker EXCEPT ![t] = r],
         r.step = "milestones" => \A m \in r.first : Earliest(m.band, m.by),
         r.step = "insert" => \A m \in r.fresh : Earliest(m.band, m.by),
         \A b \in Bands : milestones'[b] # 0 => Earliest(b, milestones'[b])
  PROVE  MilestonesInv'
<1>1. /\ tracker' = [u \in Trackers |-> tracker'[u]] /\ tracker'[t] = r
      /\ \A u \in Trackers \ {t} : tracker'[u] = tracker[u]
  BY DEF MilestonesInv
<1>2. \A b, by : Earliest(b, by)' <=> Earliest(b, by)
  BY EarliestStands
<1>3. TrackersDated'
  <2> SUFFICES ASSUME NEW u \in Trackers
      PROVE  /\ tracker'[u].step = "milestones" => \A m \in tracker'[u].first : Earliest(m.band, m.by)'
             /\ tracker'[u].step = "insert" => \A m \in tracker'[u].fresh : Earliest(m.band, m.by)'
    BY DEF TrackersDated
  <2>1. CASE u = t BY <1>1, <1>2, <2>1
  <2>2. CASE u # t BY <1>1, <1>2, <2>2 DEF MilestonesInv, TrackersDated
  <2> QED BY <2>1, <2>2
<1>4. \A b \in Bands : milestones'[b] # 0 => Earliest(b, milestones[b])'
  <2> SUFFICES ASSUME NEW b \in Bands, NEW by, by = milestones'[b], by # 0
               PROVE  Earliest(b, by)'
    BY DEF Earliest
  <2> QED BY <1>2
<1> QED BY <1>1, <1>3, <1>4 DEF MilestonesInv

\* The statements of one tracking, with anything between them.
LEMMA TrackingStep ==
  ASSUME MilestonesInv, NEW t \in Trackers,
         ReadGoals(t) \/ ReadHistory(t) \/ ReadMilestones(t) \/ TrackGoals(t)
  PROVE  MilestonesInv'
<1>1. CASE ReadGoals(t)
  <2> DEFINE r == [step |-> "history", status |-> goal]
  <2>1. /\ tracker' = [tracker EXCEPT ![t] = r] /\ UNCHANGED <<observations, milestones>>
        /\ r.step = "history"
    BY <1>1 DEF ReadGoals
  <2> HIDE DEF r
  <2> QED BY <2>1, TrackerStep DEF MilestonesInv
<1>2. CASE ReadHistory(t)
  <2>0. PICK history \in Listings :
          tracker' = [tracker EXCEPT ![t] = [step |-> "milestones", status |-> @.status,
                                             first |-> NewMilestones(Subject, history)]]
    BY <1>2 DEF ReadHistory
  <2> DEFINE r == [step |-> "milestones", status |-> tracker[t].status,
                   first |-> NewMilestones(Subject, history)]
  <2>1. /\ tracker' = [tracker EXCEPT ![t] = r] /\ UNCHANGED <<observations, milestones>>
        /\ r.step = "milestones" /\ r.first = NewMilestones(Subject, history)
    BY <1>2, <2>0 DEF ReadHistory, MilestonesInv
  <2>2. \A m \in NewMilestones(Subject, history) : Earliest(m.band, m.by)
    BY NewMilestonesDated DEF MilestonesInv
  <2> HIDE DEF r
  <2> QED BY <2>1, <2>2, TrackerStep DEF MilestonesInv
<1>3. CASE ReadMilestones(t)
  <2> DEFINE fresh == {m \in tracker[t].first :
                         tracker[t].status = "active" /\ milestones[m.band] = 0}
             r == [step |-> "insert", fresh |-> fresh]
  <2>1. /\ tracker' = [tracker EXCEPT ![t] = r] /\ UNCHANGED <<observations, milestones>>
        /\ r.step = "insert" /\ r.fresh = fresh /\ tracker[t].step = "milestones"
    BY <1>3 DEF ReadMilestones, MilestonesInv
  <2>2. \A m \in fresh : Earliest(m.band, m.by)
    BY <2>1 DEF MilestonesInv, TrackersDated
  <2> HIDE DEF r, fresh
  <2> QED BY <2>1, <2>2, TrackerStep DEF MilestonesInv
<1>4. CASE TrackGoals(t)
  <2> DEFINE r == [step |-> "idle"]
             fresh == tracker[t].fresh
  <2>1. /\ tracker' = [tracker EXCEPT ![t] = r] /\ UNCHANGED observations
        /\ r.step = "idle" /\ tracker[t].step = "insert"
    BY <1>4 DEF TrackGoals
  <2> HIDE DEF r
  <2>2. \A m \in fresh : Earliest(m.band, m.by)
    BY <2>1 DEF MilestonesInv, TrackersDated
  <2>3. \A b \in Bands :
          milestones'[b] = IF milestones[b] = 0 /\ \E m \in fresh : m.band = b
                           THEN (CHOOSE m \in fresh : m.band = b).by ELSE milestones[b]
    BY <1>4 DEF TrackGoals, InsertMilestones
  <2> HIDE DEF fresh
  <2>4. \A b \in Bands : milestones'[b] # 0 => Earliest(b, milestones'[b])
    <3> SUFFICES ASSUME NEW b \in Bands, milestones'[b] # 0 PROVE Earliest(b, milestones'[b])
      OBVIOUS
    <3>1. CASE milestones[b] = 0 /\ \E m \in fresh : m.band = b
      <4> DEFINE m == CHOOSE k \in fresh : k.band = b
      <4>1. m \in fresh /\ m.band = b
        BY <3>1
      <4>2. milestones'[b] = m.by
        BY <2>3, <3>1
      <4> HIDE DEF m
      <4> QED BY <2>2, <4>1, <4>2
    <3>2. CASE ~(milestones[b] = 0 /\ \E m \in fresh : m.band = b)
      <4>1. milestones'[b] = milestones[b]
        BY <2>3, <3>2
      <4> QED BY <4>1 DEF MilestonesInv
    <3> QED BY <3>1, <3>2
  <2> QED BY <2>1, <2>4, TrackerStep
<1> QED BY <1>1, <1>2, <1>3, <1>4

\* What the readings, the trackers' hands and the milestones keep.
THEOREM MilestonesInvariant == StoreSpec => []MilestonesInv
<1>1. StoreInit => MilestonesInv
  <2> SUFFICES ASSUME StoreInit PROVE MilestonesInv
    OBVIOUS
  <2>1. observations \in Seq(Readings)
    BY DEF StoreInit, ProgressionInit
  <2>2. \A t \in Trackers : tracker[t].step = "idle"
    BY DEF StoreInit
  <2>3. TrackersDated
    BY <2>2 DEF TrackersDated
  <2> QED BY <2>1, <2>3 DEF StoreInit, MilestonesInv
<1>2. MilestonesInv /\ [ReadinessNext \/ GoalsNext]_storeVars => MilestonesInv'
  <2> SUFFICES ASSUME MilestonesInv, [ReadinessNext \/ GoalsNext]_storeVars PROVE MilestonesInv'
    OBVIOUS
  <2>1. ASSUME UNCHANGED <<observations, tracker, milestones>> PROVE MilestonesInv'
    <3>1. \A b, by : Earliest(b, by)' <=> Earliest(b, by)
      BY <2>1, EarliestStands
    <3>2. TrackersDated'
      BY <2>1, <3>1 DEF MilestonesInv, TrackersDated
    <3> QED BY <2>1, <3>1, <3>2 DEF MilestonesInv
  <2>2. CASE UNCHANGED storeVars
    BY <2>1, <2>2 DEF storeVars, goalVars
  <2>3. CASE Observe
    BY <2>3, ObserveStep
  <2>4. CASE PublishStandard \/ CreateGoal \/ SetGoalStatus
    BY <2>1, <2>4 DEF PublishStandard, CreateGoal, SetGoalStatus, goalVars
  <2>5. ASSUME NEW s \in Savers, ComputeReadiness(s) \/ SaveReadiness(s) PROVE MilestonesInv'
    BY <2>1, <2>5 DEF ComputeReadiness, SaveReadiness, goalVars
  <2>6. ASSUME NEW t \in Trackers,
               ReadGoals(t) \/ ReadHistory(t) \/ ReadMilestones(t) \/ TrackGoals(t)
        PROVE  MilestonesInv'
    BY <2>6, TrackingStep
  <2> QED BY <2>2, <2>3, <2>4, <2>5, <2>6 DEF ReadinessNext, GoalsNext
<1> QED BY <1>1, <1>2, PTL DEF StoreSpec

\* A milestone is dated to the first reading that reached its band, whatever
\* trackers read and insert in turns and whatever is appended or corrected
\* between their statements (newMilestones, TrackGoals).
THEOREM MilestonesAreDated == StoreSpec => []MilestonesDated
<1>1. MilestonesInv => MilestonesDated
  BY DEF MilestonesInv, Earliest, MilestonesDated
<1> QED BY <1>1, MilestonesInvariant, PTL

-----------------------------------------------------------------------------
(* Progression: the three readers.                                         *)

\* What holds of no element, and of a set when it holds of the set without
\* some member of it, holds of every subset.
LEMMA SubsetsByRemoval ==
  ASSUME NEW R, IsFiniteSet(R), NEW Good, {} \in Good,
         \A s \in SUBSET R : s # {} => \E x \in s : s \ {x} \in Good => s \in Good
  PROVE  \A s \in SUBSET R : s \in Good
<1> DEFINE Bad == {Cardinality(s) : s \in (SUBSET R) \ Good}
<1>1. \A s \in SUBSET R : IsFiniteSet(s) /\ Cardinality(s) \in Nat
  BY FS_Subset, FS_CardinalityType
<1>2. SUFFICES ASSUME (SUBSET R) \ Good # {} PROVE FALSE
  OBVIOUS
<1>3. PICK least \in Bad : \A n \in Bad : least <= n
  <2>1. Bad \in SUBSET Nat /\ Bad # {}
    BY <1>1, <1>2
  <2> HIDE DEF Bad
  <2> QED BY <2>1, FirstNumber
<1>4. PICK s \in (SUBSET R) \ Good : least = Cardinality(s)
  BY <1>3
<1>5. PICK x \in s : s \ {x} \in Good => s \in Good
  <2>1. s \in SUBSET R /\ s \notin Good
    BY <1>4
  <2>2. s # {}
    BY <2>1
  <2> QED BY <2>1, <2>2
<1>6. s \ {x} \in (SUBSET R) \ Good
  BY <1>4, <1>5
<1>7. Cardinality(s \ {x}) = Cardinality(s) - 1 /\ Cardinality(s) \in Nat
  BY <1>1, <1>4, FS_RemoveElement
<1>8. Cardinality(s \ {x}) \in Bad
  BY <1>6
<1> HIDE DEF Bad
<1> QED BY <1>3, <1>4, <1>7, <1>8

\* Two readings have an order, and only one.
LEMMA NewerIsAnOrder ==
  ASSUME observations \in Seq(Readings), NEW i \in Rows, NEW j \in Rows
  PROVE  /\ i # j => Newer(i, j) \/ Newer(j, i)
         /\ ~(Newer(i, j) /\ Newer(j, i))
         /\ \A k \in Rows : Newer(i, j) /\ Newer(j, k) => Newer(i, k)
<1>1. \A k \in Rows : k \in Nat /\ observations[k].day \in Nat
  BY RowsAreReadings
<1> QED BY <1>1 DEF Newer

\* Of readings on file, one is newer than all others.
LEMMA LatestReading ==
  ASSUME observations \in Seq(Readings), NEW S \in SUBSET Rows, S # {}
  PROVE  LatestOf(S) \in S /\ \A j \in S \ {LatestOf(S)} : Newer(LatestOf(S), j)
<1>1. \A i \in S : /\ i \in 1 .. Len(observations) /\ i \in Nat
                   /\ observations[i].day \in 0 .. Today /\ observations[i].day \in Nat
  BY RowsAreReadings
<1>2. Today \in Nat /\ Len(observations) \in Nat
  BY ProgressionAssumption
<1> DEFINE D == {Today - observations[i].day : i \in S}
<1>3. PICK age \in D : age \in Nat /\ \A e \in D : age <= e
  <2>1. D \in SUBSET Nat /\ D # {}
    BY <1>1, <1>2
  <2> HIDE DEF D
  <2> QED BY <2>1, FirstNumber
<1> DEFINE E == {Len(observations) - i : i \in {j \in S : Today - observations[j].day = age}}
<1>4. PICK back \in E : back \in Nat /\ \A e \in E : back <= e
  <2>1. E \in SUBSET Nat /\ E # {}
    BY <1>1, <1>2, <1>3
  <2> HIDE DEF E
  <2> QED BY <2>1, FirstNumber
<1>5. PICK i \in S : Today - observations[i].day = age /\ back = Len(observations) - i
  BY <1>4
<1>6. \A j \in S \ {i} : Newer(i, j)
  <2> SUFFICES ASSUME NEW j \in S \ {i} PROVE Newer(i, j)
    OBVIOUS
  <2>1. age <= Today - observations[j].day
    BY <1>3
  <2>2. Today - observations[j].day = age => back <= Len(observations) - j
    BY <1>4
  <2> HIDE DEF D, E
  <2>3. /\ observations[j].day \in Nat /\ observations[i].day \in Nat
        /\ i \in Nat /\ j \in Nat /\ i # j
    BY <1>1
  <2>4. observations[i].day >= observations[j].day
    BY <1>2, <1>5, <2>1, <2>3
  <2>5. observations[i].day = observations[j].day => i > j
    BY <1>2, <1>5, <2>2, <2>3
  <2> QED BY <2>3, <2>4, <2>5 DEF Newer
<1> HIDE DEF D, E
<1> QED BY <1>6 DEF LatestOf

\* And no other is: whatever is newer than all others is the latest.
LEMMA LatestIsUnique ==
  ASSUME observations \in Seq(Readings), NEW S \in SUBSET Rows,
         NEW i \in S, \A j \in S \ {i} : Newer(i, j)
  PROVE  LatestOf(S) = i
<1>1. LatestOf(S) \in S /\ \A j \in S \ {LatestOf(S)} : Newer(LatestOf(S), j)
  BY LatestReading
<1>2. LatestOf(S) \in Rows /\ i \in Rows
  BY <1>1
<1> QED BY <1>1, <1>2, NewerIsAnOrder

\* The latest of readings with one more among them.
LEMMA LatestWithOneMore ==
  ASSUME observations \in Seq(Readings), NEW S \in SUBSET Rows, NEW i \in Rows
  PROVE  LatestOf(S \cup {i}) =
           IF LatestOf(S) = 0 \/ Newer(i, LatestOf(S)) THEN i ELSE LatestOf(S)
<1>1. 0 \notin Rows
  BY DEF Rows
<1>2. CASE S = {}
  <2>1. LatestOf(S) = 0
    BY <1>2 DEF LatestOf
  <2>2. LatestOf({i}) = i
    BY LatestIsUnique
  <2> QED BY <1>2, <2>1, <2>2
<1>3. CASE S # {}
  <2> DEFINE latest == LatestOf(S)
  <2>1. latest \in S /\ \A j \in S \ {latest} : Newer(latest, j)
    BY <1>3, LatestReading
  <2> HIDE DEF latest
  <2>2. latest # 0 /\ latest \in Rows
    BY <1>1, <2>1
  <2>3. CASE Newer(i, latest)
    <3>1. \A j \in S : Newer(i, j)
      BY <2>1, <2>2, <2>3, NewerIsAnOrder
    <3>2. LatestOf(S \cup {i}) = i
      BY <3>1, LatestIsUnique
    <3> QED BY <2>3, <3>2 DEF latest
  <2>4. CASE ~Newer(i, latest)
    <3>1. \A j \in (S \cup {i}) \ {latest} : Newer(latest, j)
      BY <2>1, <2>2, <2>4, NewerIsAnOrder
    <3>2. S \cup {i} \in SUBSET Rows /\ latest \in S \cup {i}
      BY <2>1
    <3>3. LatestOf(S \cup {i}) = latest
      BY <3>1, <3>2, LatestIsUnique
    <3> QED BY <2>2, <2>4, <3>3 DEF latest
  <2> QED BY <2>3, <2>4
<1> QED BY <1>2, <1>3

\* A set of bounded numbers has a greatest.
LEMMA LastPlace ==
  ASSUME NEW n \in Nat, NEW s \in SUBSET (0 .. n), s # {}
  PROVE  Max(s) \in s /\ \A j \in s : j <= Max(s)
<1> DEFINE D == {n - k : k \in s}
<1>1. PICK d \in D : \A e \in D : d <= e
  <2>1. \A k \in s : n - k \in Nat
    OBVIOUS
  <2>2. D \in SUBSET Nat /\ D # {}
    BY <2>1
  <2> HIDE DEF D
  <2> QED BY <2>2, FirstNumber
<1>2. PICK k \in s : d = n - k
  BY <1>1
<1>3. \A j \in s : k >= j
  <2> SUFFICES ASSUME NEW j \in s PROVE k >= j
    OBVIOUS
  <2>1. d <= n - j
    BY <1>1
  <2>2. j \in Nat /\ k \in Nat
    OBVIOUS
  <2> HIDE DEF D
  <2> QED BY <1>2, <2>1, <2>2
<1> HIDE DEF D
<1> QED BY <1>3 DEF Max

\* One row of readiness's pass, and what the pass holds after some rows.
ScanRow(c, seen, i) ==
  IF observations[i].competency # c \/ i \in Superseded THEN seen
  ELSE IF observations[i].as # "placed"
       THEN [by |-> seen.by, saw |-> seen.saw \cup {observations[i].as}]
  ELSE IF seen.by = 0 \/ Newer(i, seen.by) THEN [by |-> i, saw |-> seen.saw]
  ELSE seen

UnplacedOf(c, rows) ==
  {observations[i].as : i \in {j \in rows \ Superseded :
                                 observations[j].competency = c /\ observations[j].as # "placed"}}

ReadOf(c, rows) ==
  [by |-> LatestOf(rows \cap ComparableReadings(c)), saw |-> UnplacedOf(c, rows)]

\* The pass as a function of the places of the listing gone through.
ScanFunction(c, history, f) ==
  f = [s \in SUBSET DOMAIN history |->
         IF s = {} THEN [by |-> 0, saw |-> {}]
         ELSE ScanRow(c, f[s \ {Max(s)}], history[Max(s)])]

\* One more row is taken into account, wherever it is listed.
LEMMA ScanOneMore ==
  ASSUME observations \in Seq(Readings), NEW c, NEW rows \in SUBSET Rows, NEW i \in Rows
  PROVE  ScanRow(c, ReadOf(c, rows), i) = ReadOf(c, rows \cup {i})
<1> DEFINE S == rows \cap ComparableReadings(c)
<1>1. S \in SUBSET Rows
  OBVIOUS
<1>2. LatestOf(S \cup {i}) = IF LatestOf(S) = 0 \/ Newer(i, LatestOf(S)) THEN i ELSE LatestOf(S)
  <2> HIDE DEF S
  <2> QED BY <1>1, LatestWithOneMore
<1>3. CASE observations[i].competency # c \/ i \in Superseded
  <2>1. (rows \cup {i}) \cap ComparableReadings(c) = S
    BY <1>3 DEF ComparableReadings
  <2>2. UnplacedOf(c, rows \cup {i}) = UnplacedOf(c, rows)
    BY <1>3 DEF UnplacedOf
  <2> QED BY <1>3, <2>1, <2>2 DEF ScanRow, ReadOf
<1>4. CASE ~(observations[i].competency # c \/ i \in Superseded) /\ observations[i].as # "placed"
  <2>1. (rows \cup {i}) \cap ComparableReadings(c) = S
    BY <1>4 DEF ComparableReadings
  <2>2. UnplacedOf(c, rows \cup {i}) = UnplacedOf(c, rows) \cup {observations[i].as}
    BY <1>4 DEF UnplacedOf
  <2> QED BY <1>4, <2>1, <2>2 DEF ScanRow, ReadOf
<1>5. CASE ~(observations[i].competency # c \/ i \in Superseded) /\ observations[i].as = "placed"
  <2>1. (rows \cup {i}) \cap ComparableReadings(c) = S \cup {i}
    BY <1>5 DEF ComparableReadings
  <2>2. UnplacedOf(c, rows \cup {i}) = UnplacedOf(c, rows)
    BY <1>5 DEF UnplacedOf
  <2>3. ScanRow(c, ReadOf(c, rows), i) =
          [by |-> LatestOf(S \cup {i}), saw |-> UnplacedOf(c, rows)]
    BY <1>2, <1>5 DEF ScanRow, ReadOf
  <2> QED BY <2>1, <2>2, <2>3 DEF ReadOf
<1> QED BY <1>3, <1>4, <1>5

\* The rows at some places of a listing.
At(history, s) == {history[n] : n \in s}

LEMMA PlacesOfRows ==
  ASSUME observations \in Seq(Readings), NEW history \in Listings
  PROVE  /\ DOMAIN history = Rows /\ IsFiniteSet(Rows) /\ At(history, {}) = {}
         /\ At(history, Rows) = Rows
         /\ \A s \in SUBSET Rows : At(history, s) \in SUBSET Rows
         /\ \A s \in SUBSET Rows : s # {} =>
              /\ Max(s) \in s /\ history[Max(s)] \in Rows
              /\ At(history, s) = At(history, s \ {Max(s)}) \cup {history[Max(s)]}
<1>1. Rows = 1 .. Len(observations) /\ Len(observations) \in Nat
  BY DEF Rows
<1>2. /\ DOMAIN history = Rows /\ \A n \in Rows : history[n] \in Rows
      /\ \A i \in Rows : \E n \in Rows : history[n] = i
  BY ListingsAreOrdered
<1>3. IsFiniteSet(Rows)
  BY <1>1, FS_Interval
<1>4. \A s \in SUBSET Rows : s # {} => Max(s) \in s
  <2>1. \A s \in SUBSET Rows : s \in SUBSET (0 .. Len(observations))
    BY <1>1
  <2> QED BY <1>1, <2>1, LastPlace
<1>5. At(history, {}) = {} /\ At(history, Rows) = Rows
  BY <1>2 DEF At
<1>6. \A s \in SUBSET Rows : At(history, s) \in SUBSET Rows
  BY <1>2 DEF At
<1>7. ASSUME NEW s \in SUBSET Rows, s # {}
      PROVE  At(history, s) = At(history, s \ {Max(s)}) \cup {history[Max(s)]}
  <2>1. PICK last \in s : last = Max(s)
    BY <1>4, <1>7
  <2> QED BY <2>1 DEF At
<1> QED BY <1>2, <1>3, <1>4, <1>5, <1>6, <1>7

\* What readiness's pass leaves is the latest reading that counts, and why
\* rows that were not taken were not, however the history was listed.
LEMMA ReadinessReads ==
  ASSUME observations \in Seq(Readings), NEW c, NEW history \in Listings
  PROVE  Resolve(c, history) = ReadOf(c, Rows)
<1> DEFINE g == [s \in SUBSET Rows |-> ReadOf(c, At(history, s))]
           pass == CHOOSE f : ScanFunction(c, history, f)
<1>1. ReadOf(c, {}) = [by |-> 0, saw |-> {}]
  BY DEF ReadOf, UnplacedOf, LatestOf
<1>2. ASSUME NEW s \in SUBSET Rows, s # {}
      PROVE  ReadOf(c, At(history, s)) =
               ScanRow(c, ReadOf(c, At(history, s \ {Max(s)})), history[Max(s)])
  <2>1. /\ history[Max(s)] \in Rows /\ At(history, s \ {Max(s)}) \in SUBSET Rows
        /\ At(history, s) = At(history, s \ {Max(s)}) \cup {history[Max(s)]}
    BY <1>2, PlacesOfRows
  <2>2. \A rows \in SUBSET Rows, i \in Rows : ScanRow(c, ReadOf(c, rows), i) = ReadOf(c, rows \cup {i})
    BY ScanOneMore
  <2> QED BY <2>1, <2>2
<1>3. ScanFunction(c, history, g)
  <2>1. ASSUME NEW s \in SUBSET Rows
        PROVE  g[s] = IF s = {} THEN [by |-> 0, saw |-> {}]
                      ELSE ScanRow(c, g[s \ {Max(s)}], history[Max(s)])
    <3>1. g[s] = ReadOf(c, At(history, s)) /\ g[s \ {Max(s)}] = ReadOf(c, At(history, s \ {Max(s)}))
      BY <2>1
    <3> HIDE DEF g
    <3> QED BY <1>1, <1>2, <3>1, PlacesOfRows
  <2>2. g = [s \in SUBSET Rows |-> g[s]]
    OBVIOUS
  <2> HIDE DEF g
  <2>3. g = [s \in SUBSET Rows |-> IF s = {} THEN [by |-> 0, saw |-> {}]
                                   ELSE ScanRow(c, g[s \ {Max(s)}], history[Max(s)])]
    BY <2>1, <2>2
  <2> QED BY <2>3, PlacesOfRows DEF ScanFunction
<1>4. Resolve(c, history) = pass[Rows]
  BY PlacesOfRows DEF Resolve, FoldLeft, MapThenFoldSet, ScanFunction, ScanRow
<1>5. ScanFunction(c, history, pass)
  <2> HIDE DEF g
  <2> QED BY <1>3
<1>6. \A s \in SUBSET Rows :
        pass[s] = IF s = {} THEN [by |-> 0, saw |-> {}]
                  ELSE ScanRow(c, pass[s \ {Max(s)}], history[Max(s)])
  <2> HIDE DEF pass
  <2> QED BY <1>5, PlacesOfRows DEF ScanFunction
<1> DEFINE Good == {s \in SUBSET Rows : pass[s] = ReadOf(c, At(history, s))}
<1> HIDE DEF pass
<1>7. {} \in Good
  BY <1>1, <1>6, PlacesOfRows
<1>8. ASSUME NEW s \in SUBSET Rows, s # {}
      PROVE  \E x \in s : s \ {x} \in Good => s \in Good
  <2>1. Max(s) \in s
    BY <1>8, PlacesOfRows
  <2>2. s \ {Max(s)} \in Good => pass[s] = ReadOf(c, At(history, s))
    BY <1>2, <1>6, <1>8
  <2> QED BY <2>1, <2>2
<1>9. Rows \in Good
  <2> HIDE DEF Good
  <2> QED BY <1>7, <1>8, PlacesOfRows, SubsetsByRemoval
<1> QED BY <1>4, <1>9, PlacesOfRows

\* One row of targeting's pass, what the pass holds after some rows, and the
\* pass as a function of the places gone through.
HoldRow(latest, i) ==
  IF i \in Superseded \/ observations[i].as # "placed" THEN latest
  ELSE IF latest[observations[i].competency] = 0 \/ Newer(i, latest[observations[i].competency])
       THEN [latest EXCEPT ![observations[i].competency] = i] ELSE latest

HeldOf(rows) == [c \in Competencies |-> LatestOf(rows \cap ComparableReadings(c))]
NothingHeld == [c \in Competencies |-> 0]

HoldFunction(history, f) ==
  f = [s \in SUBSET DOMAIN history |->
         IF s = {} THEN NothingHeld ELSE HoldRow(f[s \ {Max(s)}], history[Max(s)])]

\* One more row is taken into account for its competency.
LEMMA HoldOneMore ==
  ASSUME observations \in Seq(Readings), NEW rows \in SUBSET Rows, NEW i \in Rows
  PROVE  HoldRow(HeldOf(rows), i) = HeldOf(rows \cup {i})
<1> DEFINE subject == observations[i].competency
           S == rows \cap ComparableReadings(subject)
           before == HeldOf(rows)
<1>1. subject \in Competencies
  BY RowsAreReadings
<1>2. LatestOf(S \cup {i}) = IF LatestOf(S) = 0 \/ Newer(i, LatestOf(S)) THEN i ELSE LatestOf(S)
  <2>1. S \in SUBSET Rows
    OBVIOUS
  <2> HIDE DEF S
  <2> QED BY <2>1, LatestWithOneMore
<1>3. \A c \in Competencies : c # subject =>
        (rows \cup {i}) \cap ComparableReadings(c) = rows \cap ComparableReadings(c)
  BY DEF ComparableReadings
<1>4. before = [c \in Competencies |-> before[c]] /\ before[subject] = LatestOf(S)
  BY <1>1 DEF HeldOf
<1>5. CASE i \in Superseded \/ observations[i].as # "placed"
  <2>1. \A c \in Competencies :
          (rows \cup {i}) \cap ComparableReadings(c) = rows \cap ComparableReadings(c)
    BY <1>5 DEF ComparableReadings
  <2>2. HeldOf(rows \cup {i}) = HeldOf(rows)
    BY <2>1 DEF HeldOf
  <2> QED BY <1>5, <2>2 DEF HoldRow
<1>6. CASE ~(i \in Superseded \/ observations[i].as # "placed")
  <2>1. (rows \cup {i}) \cap ComparableReadings(subject) = S \cup {i}
    BY <1>6 DEF ComparableReadings
  <2>2. HeldOf(rows \cup {i}) = [before EXCEPT ![subject] = LatestOf(S \cup {i})]
    <3>1. \A c \in Competencies : HeldOf(rows \cup {i})[c] =
                                    IF c = subject THEN LatestOf(S \cup {i}) ELSE before[c]
      BY <1>3, <2>1 DEF HeldOf
    <3>2. HeldOf(rows \cup {i}) = [c \in Competencies |-> HeldOf(rows \cup {i})[c]]
      BY DEF HeldOf
    <3> HIDE DEF before, subject, S
    <3> QED BY <1>1, <1>4, <3>1, <3>2
  <2>3. HoldRow(before, i) = IF LatestOf(S) = 0 \/ Newer(i, LatestOf(S))
                           THEN [before EXCEPT ![subject] = i] ELSE before
    BY <1>4, <1>6 DEF HoldRow
  <2>4. [before EXCEPT ![subject] = LatestOf(S)] = before
    <3> HIDE DEF before, subject, S
    <3> QED BY <1>1, <1>4
  <2> HIDE DEF before, subject, S
  <2>5. HoldRow(before, i) = [before EXCEPT ![subject] = LatestOf(S \cup {i})]
    BY <1>2, <2>3, <2>4
  <2> QED BY <2>2, <2>5 DEF before
<1> QED BY <1>5, <1>6

\* What targeting's pass leaves is the latest reading of each competency that
\* counts, however the history was listed.
LEMMA TargetingReads ==
  ASSUME observations \in Seq(Readings), NEW history \in Listings
  PROVE  LatestPerCompetency(history) = HeldOf(Rows)
<1> DEFINE g == [s \in SUBSET Rows |-> HeldOf(At(history, s))]
           pass == CHOOSE f : HoldFunction(history, f)
<1>1. HeldOf({}) = NothingHeld
  BY DEF HeldOf, NothingHeld, LatestOf
<1>2. ASSUME NEW s \in SUBSET Rows, s # {}
      PROVE  HeldOf(At(history, s)) = HoldRow(HeldOf(At(history, s \ {Max(s)})), history[Max(s)])
  <2>1. /\ history[Max(s)] \in Rows /\ At(history, s \ {Max(s)}) \in SUBSET Rows
        /\ At(history, s) = At(history, s \ {Max(s)}) \cup {history[Max(s)]}
    BY <1>2, PlacesOfRows
  <2>2. \A rows \in SUBSET Rows, i \in Rows : HoldRow(HeldOf(rows), i) = HeldOf(rows \cup {i})
    BY HoldOneMore
  <2> QED BY <2>1, <2>2
<1>3. HoldFunction(history, g)
  <2>1. ASSUME NEW s \in SUBSET Rows
        PROVE  g[s] = IF s = {} THEN NothingHeld ELSE HoldRow(g[s \ {Max(s)}], history[Max(s)])
    <3>1. g[s] = HeldOf(At(history, s)) /\ g[s \ {Max(s)}] = HeldOf(At(history, s \ {Max(s)}))
      BY <2>1
    <3> HIDE DEF g
    <3> QED BY <1>1, <1>2, <3>1, PlacesOfRows
  <2>2. g = [s \in SUBSET Rows |-> g[s]]
    OBVIOUS
  <2> HIDE DEF g
  <2>3. g = [s \in SUBSET Rows |-> IF s = {} THEN NothingHeld
                                   ELSE HoldRow(g[s \ {Max(s)}], history[Max(s)])]
    BY <2>1, <2>2
  <2> QED BY <2>3, PlacesOfRows DEF HoldFunction
<1>4. LatestPerCompetency(history) = pass[Rows]
  BY PlacesOfRows DEF LatestPerCompetency, FoldLeft, MapThenFoldSet, HoldFunction, HoldRow, NothingHeld
<1>5. HoldFunction(history, pass)
  <2> HIDE DEF g
  <2> QED BY <1>3
<1>6. \A s \in SUBSET Rows :
        pass[s] = IF s = {} THEN NothingHeld ELSE HoldRow(pass[s \ {Max(s)}], history[Max(s)])
  <2> HIDE DEF pass
  <2> QED BY <1>5, PlacesOfRows DEF HoldFunction
<1> DEFINE Good == {s \in SUBSET Rows : pass[s] = HeldOf(At(history, s))}
<1> HIDE DEF pass
<1>7. {} \in Good
  BY <1>1, <1>6, PlacesOfRows
<1>8. ASSUME NEW s \in SUBSET Rows, s # {}
      PROVE  \E x \in s : s \ {x} \in Good => s \in Good
  <2>1. Max(s) \in s
    BY <1>8, PlacesOfRows
  <2>2. s \ {Max(s)} \in Good => pass[s] = HeldOf(At(history, s))
    BY <1>2, <1>6, <1>8
  <2> QED BY <2>1, <2>2
<1>9. Rows \in Good
  <2> HIDE DEF Good
  <2> QED BY <1>7, <1>8, PlacesOfRows, SubsetsByRemoval
<1> QED BY <1>4, <1>9, PlacesOfRows

\* Readings on file and typed are read alike by all three.
LEMMA TypedReadersAgree ==
  ASSUME observations \in Seq(Readings)
  PROVE  ReadersAgree
<1> SUFFICES ASSUME NEW history \in Listings, NEW c \in Competencies, NEW latest,
                    latest = LatestOf(ComparableReadings(c))
    PROVE  /\ Resolve(c, history).by = latest
           /\ LatestPerCompetency(history)[c] = latest
           /\ \A aim \in Bands :
                GoalState(c, aim) = "reached" <=> Outcome(c, aim, history).outcome = "met"
  BY DEF ReadersAgree
<1>1. Rows \cap ComparableReadings(c) = ComparableReadings(c)
  BY DEF ComparableReadings
<1>2. Resolve(c, history).by = latest
  BY <1>1, ReadinessReads DEF ReadOf
<1>3. LatestPerCompetency(history)[c] = latest
  BY <1>1, TargetingReads DEF HeldOf
<1>4. ASSUME NEW aim \in Bands
      PROVE  GoalState(c, aim) = "reached" <=> Outcome(c, aim, history).outcome = "met"
  <2>1. CASE latest = 0
    BY <1>2, <2>1 DEF GoalState, Outcome
  <2>2. CASE latest # 0
    BY <1>2, <2>2 DEF GoalState, Outcome
  <2> QED BY <2>1, <2>2
<1> QED BY <1>2, <1>3, <1>4

\* Readiness, goals and targeting rest on the same reading of a competency,
\* whatever was corrected, in whatever order the rows were dated and appended,
\* and however each of them had the history listed (resolve, latestOf,
\* latestPerCompetency).
THEOREM ReadersRestOnTheSame == StoreSpec => []ReadersAgree
<1>1. MilestonesInv => ReadersAgree
  BY TypedReadersAgree DEF MilestonesInv
<1> QED BY <1>1, MilestonesInvariant, PTL

-----------------------------------------------------------------------------
(* Progression: the practice cadence.                                      *)

\* The weeks in a row that end with one: up to the first one missing.
RunLength(s, w) == CHOOSE n \in Nat : w - n \notin s /\ \A k \in Nat : k < n => w - k \in s

LongestRun(s) == Max({RunLength(s, w) : w \in s})

\* What the pass holds after some weeks, and one week of it.
NoCadence == [run |-> 0, previous |-> 0, longest |-> 0]

CadenceOf(s) ==
  IF s = {} THEN NoCadence
  ELSE [run |-> RunLength(s, Max(s)), previous |-> Max(s), longest |-> LongestRun(s)]

CountWeek(week, runs) ==
  LET run == IF runs.run > 0 /\ week = runs.previous + 1 THEN runs.run + 1 ELSE 1
  IN [run |-> run, previous |-> week, longest |-> IF run > runs.longest THEN run ELSE runs.longest]

CountFunction(f) ==
  f = [s \in SUBSET Weeks |->
         IF s = {} THEN NoCadence ELSE CountWeek(Max(s), f[s \ {Max(s)}])]

\* No reading is of a later week than the one in progress.
LEMMA WeeksAreBounded ==
  ASSUME observations \in Seq(Readings)
  PROVE  WeekOf(Today) \in Nat /\ Weeks \in SUBSET (0 .. WeekOf(Today))
<1>1. ASSUME NEW day \in 0 .. Today
      PROVE  day \div Week \in 0 .. (Today \div Week)
  <2>1. day \in Nat /\ Today \in Nat /\ day <= Today /\ Week \in Nat /\ Week > 0
    BY ProgressionAssumption
  <2> QED BY <2>1
<1>2. Today \div Week \in Nat
  BY ProgressionAssumption
<1>3. \A i \in Rows : observations[i].day \in 0 .. Today
  BY RowsAreReadings
<1> QED BY <1>1, <1>2, <1>3 DEF Weeks, WeekOf

\* The run that ends with a week: how long it is, and that nothing else is.
LEMMA RunIsCounted ==
  ASSUME NEW n \in Nat, NEW s \in SUBSET (0 .. n), NEW w \in s
  PROVE  /\ RunLength(s, w) \in 1 .. n + 1 /\ w - RunLength(s, w) \notin s
         /\ \A k \in Nat : k < RunLength(s, w) => w - k \in s
         /\ \A m \in Nat : w - m \notin s /\ (\A k \in Nat : k < m => w - k \in s)
                           => m = RunLength(s, w)
<1> DEFINE Missing == {k \in Nat : w - k \notin s}
<1>1. w \in 0 .. n /\ w \in Nat
  OBVIOUS
<1>2. w + 1 \in Missing
  BY <1>1
<1>3. PICK first \in Missing : \A k \in Missing : first <= k
  <2>1. Missing \in SUBSET Nat /\ Missing # {}
    BY <1>2
  <2> HIDE DEF Missing
  <2> QED BY <2>1, FirstNumber
<1>4. /\ first \in Nat /\ w - first \notin s
      /\ \A k \in Nat : k < first => w - k \in s
  BY <1>3
<1> DEFINE length == RunLength(s, w)
<1>5. length \in Nat /\ w - length \notin s /\ \A k \in Nat : k < length => w - k \in s
  BY <1>4 DEF RunLength
<1> HIDE DEF length
<1>6. length # 0
  BY <1>1, <1>5
<1>7. length <= n + 1
  <2>1. length - 1 \in Nat /\ length - 1 < length
    BY <1>5, <1>6
  <2>2. w - (length - 1) \in 0 .. n
    BY <1>5, <2>1
  <2> QED BY <1>1, <1>5, <2>2
<1>8. ASSUME NEW m \in Nat, w - m \notin s, \A k \in Nat : k < m => w - k \in s
      PROVE  m = length
  BY <1>5, <1>8
<1> QED BY <1>5, <1>6, <1>7, <1>8 DEF length

\* A later week lengthens no run that ended before it, and ends one that is
\* longer by it, or a run of its own.
LEMMA RunWithOneMore ==
  ASSUME NEW n \in Nat, NEW s \in SUBSET (0 .. n), NEW m \in 0 .. n, \A w \in s : w < m
  PROVE  /\ \A w \in s : RunLength(s \cup {m}, w) = RunLength(s, w)
         /\ RunLength(s \cup {m}, m) = IF m - 1 \in s THEN RunLength(s, m - 1) + 1 ELSE 1
<1> DEFINE more == s \cup {m}
<1>1. more \in SUBSET (0 .. n) /\ m \in more /\ m \in Nat
  OBVIOUS
<1>2. ASSUME NEW w \in s PROVE RunLength(more, w) = RunLength(s, w)
  <2> DEFINE length == RunLength(s, w)
  <2>1. length \in 1 .. n + 1 /\ w - length \notin s /\ \A k \in Nat : k < length => w - k \in s
    BY RunIsCounted
  <2> HIDE DEF length
  <2>2. w - length < m /\ w \in more /\ length \in Nat
    BY <2>1
  <2>3. w - length \notin more /\ \A k \in Nat : k < length => w - k \in more
    BY <2>1, <2>2
  <2> HIDE DEF more
  <2> QED BY <1>1, <2>2, <2>3, RunIsCounted DEF length
<1>3. ASSUME m - 1 \in s PROVE RunLength(more, m) = RunLength(s, m - 1) + 1
  <2> DEFINE length == RunLength(s, m - 1)
  <2>1. /\ length \in 1 .. n + 1 /\ (m - 1) - length \notin s
        /\ \A k \in Nat : k < length => (m - 1) - k \in s
    BY <1>3, RunIsCounted
  <2> HIDE DEF length
  <2>2. length + 1 \in Nat /\ m - (length + 1) = (m - 1) - length /\ m - (length + 1) < m
    BY <1>1, <2>1
  <2>3. m - (length + 1) \notin more
    BY <2>1, <2>2
  <2>4. ASSUME NEW k \in Nat, k < length + 1 PROVE m - k \in more
    <3>1. CASE k = 0
      BY <1>1, <3>1
    <3>2. CASE k # 0
      <4>1. k - 1 \in Nat /\ k - 1 < length /\ (m - 1) - (k - 1) = m - k
        BY <1>1, <2>1, <2>4, <3>2
      <4>2. (m - 1) - (k - 1) \in s
        BY <2>1, <4>1
      <4> QED BY <4>1, <4>2
    <3> QED BY <3>1, <3>2
  <2> HIDE DEF more
  <2>5. length + 1 = RunLength(more, m)
    BY <1>1, <2>2, <2>3, <2>4, RunIsCounted
  <2> QED BY <2>5 DEF length
<1>4. ASSUME m - 1 \notin s PROVE RunLength(more, m) = 1
  <2>1. m - 1 \notin more /\ \A k \in Nat : k < 1 => m - k \in more
    BY <1>1, <1>4
  <2> HIDE DEF more
  <2> QED BY <1>1, <2>1, RunIsCounted
<1> HIDE DEF more
<1>5. RunLength(more, m) = IF m - 1 \in s THEN RunLength(s, m - 1) + 1 ELSE 1
  BY <1>3, <1>4
<1> QED BY <1>2, <1>5 DEF more

\* The longest run is the length of one, and of none shorter.
LEMMA LongestRunIsOne ==
  ASSUME NEW n \in Nat, NEW s \in SUBSET (0 .. n), s # {}
  PROVE  /\ \E w \in s : LongestRun(s) = RunLength(s, w)
         /\ \A w \in s : RunLength(s, w) <= LongestRun(s)
         /\ LongestRun(s) \in Nat \ {0}
         /\ \A longest \in Nat : (\E w \in s : longest = RunLength(s, w))
                                 /\ (\A w \in s : RunLength(s, w) <= longest)
                                 => longest = LongestRun(s)
<1> DEFINE L == {RunLength(s, w) : w \in s}
<1>1. \A w \in s : RunLength(s, w) \in 1 .. n + 1
  BY RunIsCounted
<1>2. L \in SUBSET (0 .. n + 1) /\ L # {} /\ n + 1 \in Nat
  <2>1. \A w \in s : RunLength(s, w) \in 0 .. n + 1
    BY <1>1
  <2>2. n + 1 \in Nat
    OBVIOUS
  <2> QED BY <2>1, <2>2
<1>3. Max(L) \in L /\ \A j \in L : j <= Max(L)
  <2> HIDE DEF L
  <2> QED BY <1>2, LastPlace
<1>4. Max(L) \in Nat \ {0}
  BY <1>1, <1>3
<1>5. ASSUME NEW longest \in Nat, \E w \in s : longest = RunLength(s, w),
             \A w \in s : RunLength(s, w) <= longest
      PROVE  longest = Max(L)
  <2>1. longest \in L /\ \A j \in L : j <= longest
    BY <1>5
  <2>2. longest <= Max(L) /\ Max(L) <= longest
    BY <1>3, <2>1
  <2> HIDE DEF L
  <2> QED BY <1>4, <2>2
<1>6. LongestRun(s) = Max(L)
  BY DEF LongestRun
<1>7. \E w \in s : Max(L) = RunLength(s, w)
  BY <1>3
<1>8. \A w \in s : RunLength(s, w) <= Max(L)
  BY <1>3
<1> HIDE DEF L
<1> QED BY <1>4, <1>5, <1>6, <1>7, <1>8

\* One more week is counted.
LEMMA CountOneMore ==
  ASSUME NEW n \in Nat, NEW s \in SUBSET (0 .. n), NEW m \in 0 .. n, \A w \in s : w < m
  PROVE  CountWeek(m, CadenceOf(s)) = CadenceOf(s \cup {m})
<1> DEFINE more == s \cup {m}
           run == IF m - 1 \in s THEN RunLength(s, m - 1) + 1 ELSE 1
<1>1. /\ more \in SUBSET (0 .. n) /\ more # {} /\ m \in Nat
      /\ \A w \in s : w \in Nat
  OBVIOUS
<1>2. Max(more) = m
  <2>1. Max(more) \in more /\ \A j \in more : j <= Max(more)
    <3> HIDE DEF more
    <3> QED BY <1>1, LastPlace
  <2> DEFINE last == Max(more)
  <2>2. m <= last /\ (last = m \/ last \in s)
    BY <2>1
  <2> HIDE DEF more, last
  <2>3. last \in s => last \in Nat /\ last < m
    BY <1>1
  <2>4. last = m
    BY <1>1, <2>2, <2>3
  <2> QED BY <2>4 DEF last
<1>3. (\A w \in s : RunLength(more, w) = RunLength(s, w)) /\ RunLength(more, m) = run
  BY RunWithOneMore
<1>4. \A w \in more : RunLength(more, w) = IF w = m THEN run ELSE RunLength(s, w)
  BY <1>3
<1>5. \A w \in s : RunLength(s, w) \in Nat \ {0}
  BY RunIsCounted
<1>6. run \in Nat \ {0}
  BY <1>5
<1>7. CadenceOf(more) = [run |-> run, previous |-> m, longest |-> LongestRun(more)]
  BY <1>1, <1>2, <1>3 DEF CadenceOf
<1>8. CASE s = {}
  <2>1. CountWeek(m, CadenceOf(s)) = [run |-> 1, previous |-> m, longest |-> 1]
    BY <1>8 DEF CountWeek, CadenceOf, NoCadence
  <2>2. run = 1 /\ more = {m}
    BY <1>8
  <2>3. LongestRun(more) = 1
    <3>1. \E w \in more : LongestRun(more) = RunLength(more, w)
      <4> HIDE DEF more
      <4> QED BY <1>1, LongestRunIsOne
    <3> QED BY <1>3, <2>2, <3>1
  <2> QED BY <1>7, <2>1, <2>2, <2>3
<1>9. CASE s # {}
  <2> DEFINE last == Max(s)
             longest == LongestRun(s)
             best == IF run > longest THEN run ELSE longest
  <2>1. last \in s /\ \A j \in s : j <= last
    BY <1>9, LastPlace
  <2>2. CadenceOf(s) = [run |-> RunLength(s, last), previous |-> last, longest |-> longest]
    BY <1>9 DEF CadenceOf
  <2>3. longest \in Nat \ {0} /\ RunLength(s, last) > 0
    <3>1. longest \in Nat \ {0}
      BY <1>9, LongestRunIsOne
    <3>2. RunLength(s, last) \in Nat \ {0}
      BY <1>5, <2>1
    <3> QED BY <3>1, <3>2
  <2>4. m - 1 \in s <=> m = last + 1
    <3>1. last \in Nat /\ last < m /\ \A j \in s : j \in Nat /\ j <= last
      BY <1>1, <2>1
    <3> HIDE DEF last
    <3>2. m - 1 \in s => m = last + 1
      BY <1>1, <3>1
    <3>3. m = last + 1 => m - 1 = last
      BY <1>1, <3>1
    <3> QED BY <2>1, <3>2, <3>3
  <2>5. m = last + 1 => m - 1 = last
    BY <1>1, <2>1
  <2>6. CountWeek(m, CadenceOf(s)) = [run |-> run, previous |-> m, longest |-> best]
    <3> HIDE DEF last, longest
    <3> QED BY <2>2, <2>3, <2>4, <2>5 DEF CountWeek
  <2>7. best = LongestRun(more)
    <3>1. PICK w \in s : longest = RunLength(s, w)
      BY <1>9, LongestRunIsOne
    <3>2. \A v \in s : RunLength(s, v) <= longest
      BY <1>9, LongestRunIsOne
    <3>3. w # m /\ m \in more /\ w \in more
      BY <1>1
    <3> HIDE DEF longest, run
    <3>4. best \in Nat /\ best >= run /\ best >= longest
      BY <1>6, <2>3
    <3>5. \A v \in more : RunLength(more, v) <= best
      <4> SUFFICES ASSUME NEW v \in more PROVE RunLength(more, v) <= best
        OBVIOUS
      <4>1. CASE v = m
        BY <1>4, <3>4, <4>1
      <4>2. CASE v # m
        <5>1. v \in s
          BY <4>2
        <5>2. RunLength(s, v) \in Nat /\ RunLength(s, v) <= longest
          BY <1>5, <3>2, <5>1
        <5> HIDE DEF best
        <5> QED BY <1>4, <2>3, <3>4, <4>2, <5>2
      <4> QED BY <4>1, <4>2
    <3>6. \E v \in more : best = RunLength(more, v)
      BY <1>4, <3>1, <3>3
    <3> HIDE DEF more, best
    <3> QED BY <1>1, <3>4, <3>5, <3>6, LongestRunIsOne
  <2> QED BY <1>7, <2>6, <2>7
<1> QED BY <1>8, <1>9

\* What the pass over the weeks leaves.
LEMMA RunsAreCounted ==
  ASSUME observations \in Seq(Readings)
  PROVE  Runs = CadenceOf(Weeks)
<1> DEFINE n == WeekOf(Today)
           g == [s \in SUBSET Weeks |-> CadenceOf(s)]
           pass == CHOOSE f : CountFunction(f)
<1>1. n \in Nat /\ Weeks \in SUBSET (0 .. n)
  BY WeeksAreBounded
<1> HIDE DEF n
<1>2. IsFiniteSet(Weeks)
  <2>1. IsFiniteSet(0 .. n)
    BY <1>1, FS_Interval
  <2> QED BY <1>1, <2>1, FS_Subset
<1>3. ASSUME NEW s \in SUBSET Weeks, s # {}
      PROVE  Max(s) \in s /\ CadenceOf(s) = CountWeek(Max(s), CadenceOf(s \ {Max(s)}))
  <2>1. Max(s) \in s /\ \A j \in s : j <= Max(s)
    BY <1>1, <1>3, LastPlace
  <2>2. PICK m \in s : m = Max(s) /\ \A j \in s : j <= m
    BY <2>1
  <2>3. m \in 0 .. n /\ \A j \in s : j \in Nat
    BY <1>1
  <2>4. s \ {m} \in SUBSET (0 .. n) /\ (\A w \in s \ {m} : w < m) /\ (s \ {m}) \cup {m} = s
    <3>1. ASSUME NEW w \in s \ {m} PROVE w < m
      <4>1. w \in Nat /\ m \in Nat /\ w <= m /\ w # m
        BY <2>2, <2>3
      <4> QED BY <4>1
    <3> QED BY <1>1, <2>2, <3>1
  <2>5. CountWeek(m, CadenceOf(s \ {m})) = CadenceOf((s \ {m}) \cup {m})
    BY <1>1, <2>3, <2>4, CountOneMore
  <2> QED BY <2>2, <2>4, <2>5
<1>4. CadenceOf({}) = NoCadence
  BY DEF CadenceOf
<1>5. CountFunction(g)
  <2>1. ASSUME NEW s \in SUBSET Weeks
        PROVE  g[s] = IF s = {} THEN NoCadence ELSE CountWeek(Max(s), g[s \ {Max(s)}])
    <3>1. g[s] = CadenceOf(s) /\ g[s \ {Max(s)}] = CadenceOf(s \ {Max(s)})
      BY <2>1
    <3> HIDE DEF g
    <3> QED BY <1>3, <1>4, <3>1
  <2>2. g = [s \in SUBSET Weeks |-> g[s]]
    OBVIOUS
  <2> HIDE DEF g
  <2> QED BY <2>1, <2>2 DEF CountFunction
<1>6. Runs = pass[Weeks]
  BY DEF Runs, MapThenFoldSet, CountFunction, CountWeek, NoCadence
<1>7. CountFunction(pass)
  <2> HIDE DEF g
  <2> QED BY <1>5
<1>8. \A s \in SUBSET Weeks :
        pass[s] = IF s = {} THEN NoCadence ELSE CountWeek(Max(s), pass[s \ {Max(s)}])
  <2> HIDE DEF pass
  <2> QED BY <1>7 DEF CountFunction
<1> DEFINE Good == {s \in SUBSET Weeks : pass[s] = CadenceOf(s)}
<1> HIDE DEF pass
<1>9. {} \in Good
  BY <1>4, <1>8
<1>10. ASSUME NEW s \in SUBSET Weeks, s # {}
       PROVE  \E x \in s : s \ {x} \in Good => s \in Good
  <2>1. Max(s) \in s
    BY <1>3, <1>10
  <2>2. s \ {Max(s)} \in Good => pass[s] = CadenceOf(s)
    BY <1>3, <1>8, <1>10
  <2> QED BY <2>1, <2>2
<1>11. Weeks \in Good
  <2> HIDE DEF Good
  <2>1. \A s \in SUBSET Weeks : s # {} => \E x \in s : s \ {x} \in Good => s \in Good
    BY <1>10
  <2>2. \A s \in SUBSET Weeks : s \in Good
    BY <1>2, <1>9, <2>1, SubsetsByRemoval
  <2> QED BY <2>2
<1> QED BY <1>6, <1>11

\* The longest run that ends with a week, as the property counts it.
RunEndingWith(week, n) == week - n + 1 .. week \subseteq Weeks
LengthsAt(week) == {n \in 1 .. Cardinality(Weeks) : RunEndingWith(week, n)}
LongestAt(week) == CHOOSE n \in LengthsAt(week) : \A m \in LengthsAt(week) : m <= n

LEMMA RunIsLongest ==
  ASSUME observations \in Seq(Readings), NEW week \in Weeks
  PROVE  LongestAt(week) = RunLength(Weeks, week)
<1> DEFINE n == WeekOf(Today)
           length == RunLength(Weeks, week)
<1>1. n \in Nat /\ Weeks \in SUBSET (0 .. n)
  BY WeeksAreBounded
<1> HIDE DEF n
<1>2. /\ length \in 1 .. n + 1 /\ week - length \notin Weeks
      /\ \A k \in Nat : k < length => week - k \in Weeks
  BY <1>1, RunIsCounted
<1>3. length \in Nat \ {0} /\ week \in Nat
  BY <1>1, <1>2
<1> HIDE DEF length
<1>4. RunEndingWith(week, length)
  <2> SUFFICES ASSUME NEW v \in week - length + 1 .. week PROVE v \in Weeks
    BY DEF RunEndingWith
  <2>1. week - v \in Nat /\ week - v < length /\ week - (week - v) = v
    BY <1>3
  <2>2. week - (week - v) \in Weeks
    BY <1>2, <2>1
  <2> QED BY <2>1, <2>2
<1>5. length <= Cardinality(Weeks) /\ Cardinality(Weeks) \in Nat
  <2>1. IsFiniteSet(Weeks)
    <3>1. IsFiniteSet(0 .. n)
      BY <1>1, FS_Interval
    <3> QED BY <1>1, <3>1, FS_Subset
  <2>2. Cardinality(week - length + 1 .. week) <= Cardinality(Weeks) /\ Cardinality(Weeks) \in Nat
    BY <1>4, <2>1, FS_Subset, FS_CardinalityType DEF RunEndingWith
  <2>3. Cardinality(week - length + 1 .. week) = length
    <3>1. /\ week - length + 1 \in Int /\ week \in Int /\ ~(week - length + 1 > week)
          /\ week - (week - length + 1) + 1 = length
      BY <1>3
    <3> QED BY <3>1, FS_Interval
  <2> QED BY <2>2, <2>3
<1>6. length \in LengthsAt(week)
  BY <1>3, <1>4, <1>5 DEF LengthsAt
<1>7. ASSUME NEW m \in LengthsAt(week) PROVE m <= length
  <2> SUFFICES ASSUME m > length PROVE FALSE
    BY <1>3, <1>5 DEF LengthsAt
  <2>1. m \in Nat /\ week - m + 1 .. week \subseteq Weeks
    BY <1>5 DEF LengthsAt, RunEndingWith
  <2>2. week - length \in week - m + 1 .. week
    BY <1>3, <2>1
  <2> QED BY <1>2, <2>1, <2>2
<1>8. \A m \in LengthsAt(week) : m \in Nat
  BY <1>5 DEF LengthsAt
<1>9. LongestAt(week) \in LengthsAt(week) /\ \A m \in LengthsAt(week) : m <= LongestAt(week)
  BY <1>6, <1>7 DEF LongestAt
<1>10. LongestAt(week) <= length /\ length <= LongestAt(week) /\ LongestAt(week) \in Nat
  BY <1>6, <1>7, <1>8, <1>9
<1>11. LongestAt(week) = length
  BY <1>3, <1>10
<1> QED BY <1>11 DEF length

\* Readings on file and typed give a cadence that is counted right.
LEMMA TypedCadenceCounts ==
  ASSUME observations \in Seq(Readings)
  PROVE  CadenceCounts
<1> DEFINE now == WeekOf(Today)
           recent == Weeks \cap {now, now - 1}
           latest == CHOOSE w \in recent : \A v \in recent : v <= w
<1>1. now \in Nat /\ Weeks \in SUBSET (0 .. now) /\ \A w \in Weeks : w \in Nat
  BY WeeksAreBounded
<1>2. Runs = CadenceOf(Weeks)
  BY RunsAreCounted
<1>3. \A w \in Weeks : LongestAt(w) = RunLength(Weeks, w)
  BY RunIsLongest
<1> HIDE DEF now
<1>4. CASE Weeks = {}
  <2>1. Practice = [run |-> 0, longest |-> 0, resting |-> FALSE]
    BY <1>2, <1>4 DEF Practice, CadenceOf, NoCadence
  <2> QED BY <1>4, <2>1 DEF CadenceCounts
<1>5. CASE Weeks # {}
  <2> DEFINE last == Max(Weeks)
             current == last \in {now, now - 1}
  <2>1. last \in Weeks /\ (\A w \in Weeks : w <= last) /\ last \in Nat /\ last <= now
    <3>1. last \in Weeks /\ \A w \in Weeks : w <= last
      BY <1>1, <1>5, LastPlace
    <3>2. last \in Nat /\ last \in 0 .. now
      BY <1>1, <3>1
    <3> HIDE DEF last
    <3> QED BY <3>1, <3>2
  <2>2. Runs = [run |-> RunLength(Weeks, last), previous |-> last, longest |-> LongestRun(Weeks)]
    BY <1>2, <1>5 DEF CadenceOf
  <2> HIDE DEF last
  <2>3. /\ \A w \in Weeks : RunLength(Weeks, w) <= LongestRun(Weeks)
        /\ \E w \in Weeks : LongestRun(Weeks) = RunLength(Weeks, w)
    BY <1>1, <1>5, LongestRunIsOne
  <2>4. Practice = [run |-> IF current THEN RunLength(Weeks, last) ELSE 0,
                    longest |-> LongestRun(Weeks), resting |-> ~current]
    BY <1>5, <2>2 DEF Practice, now
  <2>5. current <=> recent # {}
    <3>1. ASSUME NEW w \in recent PROVE current
      <4>1. w \in Weeks /\ w <= last /\ w \in {now, now - 1}
        BY <2>1
      <4> QED BY <1>1, <2>1, <4>1
    <3>2. current => last \in recent
      BY <2>1
    <3> QED BY <3>1, <3>2
  <2>6. ASSUME current PROVE latest = last
    <3>1. last \in recent /\ \A v \in recent : v <= last
      BY <2>1, <2>6
    <3>2. latest \in recent /\ \A v \in recent : v <= latest
      BY <3>1
    <3>3. latest <= last /\ last <= latest /\ latest \in Nat
      BY <1>1, <3>1, <3>2
    <3> QED BY <2>1, <3>3
  <2>7. \A w \in Weeks : LongestAt(w) <= Practice.longest
    BY <1>3, <2>3, <2>4
  <2>8. \E w \in Weeks : LongestAt(w) = Practice.longest
    BY <1>3, <2>3, <2>4
  <2>9. Practice.run = IF recent = {} THEN 0 ELSE LongestAt(latest)
    BY <1>3, <2>1, <2>4, <2>5, <2>6
  <2>10. Practice.resting <=> Weeks # {} /\ recent = {}
    BY <1>5, <2>4, <2>5
  <2> HIDE DEF current
  <2> QED BY <2>7, <2>8, <2>9, <2>10 DEF CadenceCounts, LongestAt, LengthsAt, RunEndingWith, now
<1> QED BY <1>4, <1>5

\* The cadence is that of the runs of consecutive weeks, whatever was dated to
\* whichever day in whatever order: no run is longer than the longest it
\* gives, one is as long, the current one reaches back from the last week
\* practised, and a quiet week in progress does not end it (Practice).
THEOREM CadenceIsCounted == StoreSpec => []CadenceCounts
<1>1. MilestonesInv => CadenceCounts
  BY TypedCadenceCounts DEF MilestonesInv
<1> QED BY <1>1, MilestonesInvariant, PTL
=============================================================================
