------------------------------ MODULE Registry ------------------------------
(***************************************************************************)
(* The artifact registry (content/store.go), who publishes into it and who *)
(* pins from it, for one reference.  The loader (content/loader.go) walks  *)
(* the files of a release to published as the platform's artifacts; the    *)
(* rubric library (tenantadmin/rubric.go) does the same, step by step, for *)
(* a workspace's own; opening a campaign (recruiting/campaign.go, store.go)*)
(* resolves the reference and pins what it finds.                          *)
(*                                                                         *)
(* Every operation reads in one transaction and writes in another, guarded *)
(* by a predicate of the write.  Requests and runs come one after another  *)
(* without end; only how many overlap is bounded.                          *)
(***************************************************************************)
EXTENDS Naturals

CONSTANTS
  Releases,   \* loaders that run next to each other
  Bodies,     \* what a version may say: its digest
  Calls,      \* calls of the rubric library, next to each other
  Openers,    \* requests to open a campaign, next to each other
  Campaigns,
  NoArtifact

Scopes == {"platform", "own"}
Artifacts == {<<"platform", 1>>, <<"platform", 2>>, <<"own", 1>>}
VersionsIn(scope) == {a \in Artifacts : a[1] = scope}

ASSUME RegistryAssumption == NoArtifact \notin Artifacts \cup Bodies

VARIABLES
  status,    \* per artifact: absent or its lifecycle state
  digest,    \* per artifact: its body
  pointer,   \* per scope: the artifact the reference points at
  release,   \* per run of the loader: where it is and its artifact
  call,      \* per call of the library: where it is, what it read
  rollback,  \* the rollback: where it is, what it read
  opener,    \* per request to open: where it is, its campaign and what it resolved
  pin        \* per campaign: what it pinned when it opened

published == <<status, digest, pointer>>
registryVars == <<published, release, call, rollback, opener, pin>>

Standing == {"published", "deprecated"}
Nowhere == [step |-> "idle"]
NoPin == [of |-> NoArtifact, digest |-> NoArtifact]

RegistryInit ==
  /\ status = [a \in Artifacts |-> "absent"] /\ digest = [a \in Artifacts |-> NoArtifact]
  /\ pointer = [s \in Scopes |-> NoArtifact]
  /\ release = [r \in Releases |-> Nowhere] /\ call = [c \in Calls |-> Nowhere]
  /\ rollback = Nowhere
  /\ opener = [o \in Openers |-> Nowhere] /\ pin = [c \in Campaigns |-> NoPin]

-----------------------------------------------------------------------------
(* The registry's writes.                                                  *)

CanTransition(from, to) ==
  <<from, to>> \in {<<"draft", "validating">>, <<"validating", "approved">>,
                    <<"approved", "published">>, <<"published", "deprecated">>}

InsertArtifact(a, b) ==
  /\ status' = [status EXCEPT ![a] = "draft"] /\ digest' = [digest EXCEPT ![a] = b]
  /\ UNCHANGED pointer

TransitionArtifact(a, from, to) ==
  /\ status[a] = from
  /\ status' = [status EXCEPT ![a] = to] /\ UNCHANGED <<digest, pointer>>

MarkPublished(a) == status[a] = "approved"

Publish(a) ==
  /\ MarkPublished(a)
  /\ status' = [status EXCEPT ![a] = "published"]
  /\ pointer' = [pointer EXCEPT ![a[1]] = a] /\ UNCHANGED digest

DeletesAnything(a) == status[a] # "absent"
DeleteDraftArtifact(a) == status[a] = "draft"

DeleteDraft(a) ==
  /\ DeleteDraftArtifact(a)
  /\ status' = [status EXCEPT ![a] = "absent"] /\ digest' = [digest EXCEPT ![a] = NoArtifact]
  /\ UNCHANGED pointer

\* A workspace's own pointer overrides the platform's.
ResolvePointer(scope) == IF scope = "own" /\ pointer["own"] # NoArtifact THEN pointer["own"]
                         ELSE pointer["platform"]

-----------------------------------------------------------------------------
(* The loader.  A file names a version and a body; what the pointer names  *)
(* already is left alone (or refused, when the body differs).              *)

ReleaseMoves(r, step) == release' = [release EXCEPT ![r].step = step]
ReleaseEnds(r) == release' = [release EXCEPT ![r] = Nowhere]

Load(r) ==
  /\ release[r].step = "idle"
  /\ \E a \in VersionsIn("platform") :
       /\ pointer["platform"] # a
       /\ release' = [release EXCEPT ![r] = [step |-> "draft", of |-> a]]
  /\ UNCHANGED <<published, call, rollback, opener, pin>>

\* A reference has one artifact of a version: a second insert is refused.
LoadDrafts(r) ==
  /\ release[r].step = "draft"
  /\ LET a == release[r].of IN
     \/ /\ status[a] = "absent" /\ ReleaseMoves(r, "validating")
        /\ \E b \in Bodies : InsertArtifact(a, b)
     \/ status[a] # "absent" /\ UNCHANGED published /\ ReleaseEnds(r)
  /\ UNCHANGED <<call, rollback, opener, pin>>

LoadAdvances(r) ==
  /\ \/ /\ release[r].step = "validating" /\ ReleaseMoves(r, "approved")
        /\ TransitionArtifact(release[r].of, "draft", "validating")
     \/ /\ release[r].step = "approved" /\ ReleaseMoves(r, "publish")
        /\ TransitionArtifact(release[r].of, "validating", "approved")
     \/ /\ release[r].step = "publish" /\ ReleaseEnds(r)
        /\ Publish(release[r].of)
  /\ UNCHANGED <<call, rollback, opener, pin>>

\* What it left half-way stays: no later load passes the insert.
LoaderDies(r) ==
  /\ release[r].step # "idle" /\ ReleaseEnds(r)
  /\ UNCHANGED <<published, call, rollback, opener, pin>>

-----------------------------------------------------------------------------
(* The rubric library, which acts on the workspace's own artifacts only.   *)
(* A publish by the drafter is refused and changes nothing.                *)

Draft(a) ==
  /\ a \in VersionsIn("own") /\ status[a] = "absent"
  /\ \E b \in Bodies : InsertArtifact(a, b)
  /\ UNCHANGED <<release, call, rollback, opener, pin>>

\* What the call is about to ask of a version in the state it read.
Asks(from) == {to \in {"validating", "approved", "published", "deprecated"} : CanTransition(from, to)}
                \cup {op \in {"absent"} : from = "draft"}

own(c) ==
  /\ call[c].step = "idle"
  /\ \E a \in VersionsIn("own") : \E to \in Asks(status[a]) :
       call' = [call EXCEPT ![c] =
         [of |-> a, seen |-> status[a], to |-> to,
          step |-> IF to \in {"deprecated", "absent"} THEN "usage" ELSE "write"]]
  /\ UNCHANGED <<published, release, rollback, opener, pin>>

CampaignsUsing == {c \in Campaigns : pin[c] # NoPin}

refuseWhileInUse(c) ==
  /\ call[c].step = "usage"
  /\ call' = [call EXCEPT ![c] = IF CampaignsUsing = {} THEN [@ EXCEPT !.step = "write"] ELSE Nowhere]
  /\ UNCHANGED <<published, release, rollback, opener, pin>>

\* What the predicate of the call's write says.
Admits(c) ==
  \/ call[c].to = "published" /\ MarkPublished(call[c].of)
  \/ call[c].to = "absent" /\ DeleteDraftArtifact(call[c].of)
  \/ call[c].to \in {"validating", "approved", "deprecated"} /\ status[call[c].of] = call[c].seen

LibraryWrites(c) ==
  /\ call[c].step = "write"
  /\ \/ call[c].to = "published" /\ Publish(call[c].of)
     \/ call[c].to = "absent" /\ DeleteDraft(call[c].of)
     \/ /\ call[c].to \in {"validating", "approved", "deprecated"}
        /\ TransitionArtifact(call[c].of, call[c].seen, call[c].to)
     \/ ~Admits(c) /\ UNCHANGED published
  /\ call' = [call EXCEPT ![c] = Nowhere]
  /\ UNCHANGED <<release, rollback, opener, pin>>

-----------------------------------------------------------------------------
(* Rollback: one transaction whose reads precede its writes.               *)

RollbackReads ==
  /\ rollback.step = "idle"
  /\ \E a \in Artifacts :
       status[a] \in Standing /\ rollback' = [step |-> "current", to |-> a]
  /\ UNCHANGED <<published, release, call, opener, pin>>

RollbackReadsCurrent ==
  /\ rollback.step = "current"
  /\ LET now == ResolvePointer(rollback.to[1]) IN
     rollback' = [step |-> "write", to |-> rollback.to,
                  away |-> now # rollback.to /\ status[now] = "published", from |-> now]
  /\ UNCHANGED <<published, release, call, opener, pin>>

\* The count of rows deprecated is not looked at.
Rollback ==
  /\ rollback.step = "write"
  /\ status' = IF rollback.away /\ status[rollback.from] = "published"
               THEN [status EXCEPT ![rollback.from] = "deprecated"] ELSE status
  /\ pointer' = [pointer EXCEPT ![rollback.to[1]] = rollback.to]
  /\ rollback' = Nowhere
  /\ UNCHANGED <<digest, release, call, opener, pin>>

-----------------------------------------------------------------------------
(* Opening a campaign.                                                     *)

PublishedArtifact(a) == a # NoArtifact /\ status[a] = "published"

ResolveOpening(o) ==
  /\ opener[o].step = "idle"
  /\ \E c \in Campaigns :
       /\ pin[c] = NoPin /\ PublishedArtifact(ResolvePointer("own"))
       /\ opener' = [opener EXCEPT ![o] =
            [step |-> "open", of |-> c,
             pin |-> [of |-> ResolvePointer("own"), digest |-> digest[ResolvePointer("own")]]]]
  /\ UNCHANGED <<published, release, call, rollback, pin>>

\* Pins and status commit together, while the campaign is a draft.
OpenCampaign(o) ==
  /\ opener[o].step = "open"
  /\ pin' = IF pin[opener[o].of] = NoPin THEN [pin EXCEPT ![opener[o].of] = opener[o].pin] ELSE pin
  /\ opener' = [opener EXCEPT ![o] = Nowhere]
  /\ UNCHANGED <<published, release, call, rollback>>

RegistryNext ==
  \/ \E r \in Releases : Load(r) \/ LoadDrafts(r) \/ LoadAdvances(r) \/ LoaderDies(r)
  \/ \E a \in Artifacts : Draft(a)
  \/ \E c \in Calls : own(c) \/ refuseWhileInUse(c) \/ LibraryWrites(c)
  \/ RollbackReads \/ RollbackReadsCurrent \/ Rollback
  \/ \E o \in Openers : ResolveOpening(o) \/ OpenCampaign(o)

RegistrySpec == RegistryInit /\ [][RegistryNext]_registryVars

-----------------------------------------------------------------------------

RegistryTypeOK ==
  /\ status \in [Artifacts -> {"absent", "draft", "validating", "approved"} \cup Standing]
  /\ digest \in [Artifacts -> Bodies \cup {NoArtifact}]
  /\ pointer \in [Scopes -> Artifacts \cup {NoArtifact}]
  /\ \A c \in Campaigns : pin[c].of \in Artifacts \cup {NoArtifact}

(***************************************************************************)
(* What a campaign pinned stays resolvable: its artifact was published and *)
(* still says what the digest names, whatever was discarded, drafted       *)
(* again, retired or rolled back since the request resolved it; and so     *)
(* does what the reference points at, in each scope                        *)
(* (content/store.go Publish, DeleteDraft, Rollback; recruiting Open).     *)
(***************************************************************************)
PinsResolve ==
  /\ \A c \in Campaigns : pin[c] # NoPin =>
       status[pin[c].of] \in Standing /\ digest[pin[c].of] = pin[c].digest
  /\ \A s \in Scopes : pointer[s] # NoArtifact =>
       pointer[s] \in VersionsIn(s) /\ status[pointer[s]] \in Standing
=============================================================================
