----------------------------- MODULE Recording -----------------------------
(***************************************************************************)
(* The recording of one interview (interview/media.go, the worker's        *)
(* media_routes.go and the media step of complete.go): the media_tracks    *)
(* rows, the deliveries of session_started that claim a track and start    *)
(* its egress at the provider, and the completions that stop the egress,   *)
(* read the object back and seal.                                          *)
(*                                                                         *)
(* The provider is called between two transactions, so a delivery is at    *)
(* "claim", "start", "record" or "release" while others run.  An egress is *)
(* a number per track; what the provider knows is "running", what the      *)
(* database knows is the row.  The clock is reduced to whether a claim     *)
(* without an egress is older than the takeover window.                    *)
(***************************************************************************)
EXTENDS Naturals, FiniteSets

CONSTANTS
  Tracks,       \* recordedTracks, numbered in the order they are started
  Deliveries,   \* workers delivering session_started, first time or again
  Completers,   \* the candidate's complete and the grace expiry
  MaxTries      \* bound: runs of one delivery, of one completion

ASSUME RecordingAssumption ==
  /\ IsFiniteSet(Tracks) /\ Tracks # {} /\ Tracks = 1 .. Cardinality(Tracks)
  /\ MaxTries \in Nat
  /\ Deliveries \cap Completers = {}

VARIABLES
  preference,   \* sessions.recording_preference
  state,        \* the session: running, or over
  seal,         \* the seal: its media status and the tracks it speaks of
  row,          \* per track, its media_tracks row
  running,      \* per track, the egresses running at the provider
  started,      \* per track, the egresses ever started
  found,        \* tracks whose object a probe has read back (history)
  mishap,       \* tracks with an egress nobody was told of (history)
  pc,           \* per delivery and completion, the next step
  track, job,   \* per delivery: the track it is at, the egress it started
  listed,       \* per completion: the rows it read and has not resolved
  status,       \* per completion: the media status so far
  seen,         \* per completion: the tracks it read
  tries         \* per delivery and completion: runs so far

Threads == Deliveries \cup Completers
session == <<preference, state>>
provider == <<running, started, mishap>>
delivering == <<track, job>>
completing == <<listed, status, seen>>
vars == <<session, seal, row, provider, found, pc, delivering, completing, tries>>

NoRow == [state |-> "none", egress |-> 0, age |-> "fresh"]
NoSeal == [media |-> "none", tracks |-> {}]
Last == CHOOSE t \in Tracks : \A u \in Tracks : u <= t

Init ==
  /\ preference \in {"audio_and_transcript", "transcript_only"}
  /\ state = "running" /\ seal = NoSeal
  /\ row = [t \in Tracks |-> NoRow]
  /\ running = [t \in Tracks |-> {}] /\ started = [t \in Tracks |-> 0]
  /\ found = {} /\ mishap = {}
  /\ pc = [h \in Threads |-> "idle"]
  /\ track = [d \in Deliveries |-> 0] /\ job = [d \in Deliveries |-> 0]
  /\ listed = [c \in Completers |-> [t \in Tracks |-> NoRow]]
  /\ status = [c \in Completers |-> "none"] /\ seen = [c \in Completers |-> {}]
  /\ tries = [h \in Threads |-> 0]

Goto(h, label) == pc' = [pc EXCEPT ![h] = label]

----------------------------------------------------------------------------
(* StartRecording, one delivery of session_started.                        *)

\* The handler runs, for the first time or redelivered; without audio it
\* is done at once.
Deliver(d) ==
  /\ pc[d] = "idle" /\ tries[d] < MaxTries
  /\ tries' = [tries EXCEPT ![d] = @ + 1]
  /\ track' = [track EXCEPT ![d] = 1]
  /\ Goto(d, IF preference = "transcript_only" THEN "done" ELSE "check")
  /\ UNCHANGED <<session, seal, row, provider, found, job, completing>>

\* On to the next of recordedTracks, or done.
NextTrack(d) ==
  /\ track' = [track EXCEPT ![d] = IF @ < Last THEN @ + 1 ELSE 0]
  /\ Goto(d, IF track[d] < Last THEN "check" ELSE "done")
  /\ job' = [job EXCEPT ![d] = 0]

\* An error ends the run; the outbox delivers again.
Fail(d) ==
  /\ track' = [track EXCEPT ![d] = 0]
  /\ job' = [job EXCEPT ![d] = 0]
  /\ Goto(d, "idle")

\* claimTrack's reads: no seal, a state that may record.
ClaimReads(d) ==
  /\ pc[d] = "check"
  /\ IF seal = NoSeal /\ state = "running"
       THEN Goto(d, "claim") /\ UNCHANGED delivering
       ELSE NextTrack(d)
  /\ UNCHANGED <<session, seal, row, provider, found, completing, tries>>

\* The conflict branch of ClaimMediaTrack: no egress, and an old claim.
Takeable(r) == r.egress = 0 /\ r.age = "stale"

\* ClaimMediaTrack: insert, take over, or affect no row.  The trigger on the
\* table refuses to touch a resolved row, which fails the run.
ClaimMediaTrack(d) ==
  /\ pc[d] = "claim"
  /\ LET t == track[d] IN
     \/ /\ row[t].state = "none" \/ (Takeable(row[t]) /\ row[t].state = "recording")
        /\ row' = [row EXCEPT ![t] = [state |-> "recording", egress |-> 0, age |-> "fresh"]]
        /\ Goto(d, "start") /\ UNCHANGED delivering
     \/ /\ row[t].state # "none" /\ ~Takeable(row[t])
        /\ NextTrack(d) /\ UNCHANGED row
     \/ /\ row[t].state \in {"finalized", "missing"} /\ Takeable(row[t])
        /\ Fail(d) /\ UNCHANGED row
  /\ UNCHANGED <<session, seal, provider, found, completing, tries>>

\* Recorder.StartTrack: it starts and answers, it fails, or it starts and
\* the answer does not arrive within the client's timeout.
StartTrack(d) ==
  /\ pc[d] = "start"
  /\ LET t == track[d]
         n == started[t] + 1
     IN \/ /\ started' = [started EXCEPT ![t] = n]
           /\ running' = [running EXCEPT ![t] = @ \cup {n}]
           /\ job' = [job EXCEPT ![d] = n]
           /\ Goto(d, "record") /\ UNCHANGED mishap
        \/ Goto(d, "release") /\ UNCHANGED <<provider, job>>
        \/ /\ started' = [started EXCEPT ![t] = n]
           /\ running' = [running EXCEPT ![t] = @ \cup {n}]
           /\ mishap' = mishap \cup {t}
           /\ Goto(d, "release") /\ UNCHANGED job
  /\ UNCHANGED <<session, seal, row, found, track, completing, tries>>

\* ReleaseMediaClaim: a claim without an egress is aged.
ReleaseMediaClaim(r) == IF r.egress = 0 THEN [r EXCEPT !.age = "stale"] ELSE r

\* releaseClaim after a failed start; the trigger raises for a resolved row,
\* and the run fails either way.
ReleaseClaim(d) ==
  /\ pc[d] = "release"
  /\ row' = [row EXCEPT ![track[d]] = IF @.state = "recording" THEN ReleaseMediaClaim(@) ELSE @]
  /\ Fail(d)
  /\ UNCHANGED <<session, seal, provider, found, completing, tries>>

\* Mutant: the id is attached to nothing.
RecordsNowhere(r) == FALSE

\* RecordTrackEgress' WHERE clause.
Records(r) == r.egress = 0

\* recordEgress: the id is attached while the claim has none; nothing checks
\* that a row was affected, and the trigger refuses a resolved row.
RecordEgress(d) ==
  /\ pc[d] = "record"
  /\ LET t == track[d] IN
     \/ /\ Records(row[t]) /\ row[t].state = "recording"
        /\ row' = [row EXCEPT ![t].egress = job[d]]
        /\ NextTrack(d) /\ UNCHANGED mishap
     \/ /\ Records(row[t]) /\ row[t].state # "recording"
        /\ mishap' = mishap \cup {t}
        /\ Fail(d) /\ UNCHANGED row
     \/ /\ ~Records(row[t])
        /\ NextTrack(d) /\ UNCHANGED <<row, mishap>>
  /\ UNCHANGED <<session, seal, running, started, found, completing, tries>>

\* A transaction fails or the worker dies: between the provider's answer and
\* its record that is an egress nobody was told of.
DeliveryDies(d) ==
  /\ pc[d] \in {"check", "claim", "start", "record", "release"}
  /\ mishap' = IF pc[d] = "record" THEN mishap \cup {track[d]} ELSE mishap
  /\ Fail(d)
  /\ UNCHANGED <<session, seal, row, running, started, found, completing, tries>>

\* A delivery is cut off (30 seconds) well before its claim ages (2 minutes).
NobodyHolds(t) ==
  \A d \in Deliveries : ~(pc[d] \in {"start", "record", "release"} /\ track[d] = t)

ClaimAges(t) ==
  /\ row[t].state # "none" /\ row[t].age = "fresh"
  /\ NobodyHolds(t)
  /\ row' = [row EXCEPT ![t].age = "stale"]
  /\ UNCHANGED <<session, seal, provider, found, pc, delivering, completing, tries>>

\* A participant leaves: the provider ends the egress by itself.
EgressEnds(t) ==
  /\ \E n \in running[t] : running' = [running EXCEPT ![t] = @ \ {n}]
  /\ UNCHANGED <<session, seal, row, started, found, mishap, pc, delivering, completing, tries>>

----------------------------------------------------------------------------
(* The media step of a completion.                                         *)

\* complete, up to the media step: a sealed session answers its receipt.
CompleteReads(c) ==
  /\ pc[c] = "idle" /\ tries[c] < MaxTries
  /\ tries' = [tries EXCEPT ![c] = @ + 1]
  /\ IF seal = NoSeal /\ state = "running"
       THEN IF preference = "transcript_only"
              THEN Goto(c, "seal") /\ status' = [status EXCEPT ![c] = "none_by_choice"]
              ELSE Goto(c, "list") /\ UNCHANGED status
       ELSE Goto(c, "done") /\ UNCHANGED status
  /\ UNCHANGED <<session, seal, row, provider, found, delivering, listed, seen>>

\* MediaTracks: one read of the rows there are.
MediaTracks(c) ==
  /\ pc[c] = "list"
  /\ LET some == {t \in Tracks : row[t].state # "none"} IN
       /\ listed' = [listed EXCEPT ![c] = row]
       /\ seen' = [seen EXCEPT ![c] = some]
       /\ status' = [status EXCEPT ![c] = IF some = {} THEN "missing" ELSE "finalized"]
       /\ Goto(c, IF some = {} THEN "seal" ELSE "stop")
  /\ UNCHANGED <<session, seal, row, provider, found, delivering, tries>>

Unresolved(c) == {t \in Tracks : listed[c][t].state # "none"}
NextOf(c) == CHOOSE t \in Unresolved(c) : \A u \in Unresolved(c) : t <= u
Passed(c, t) == listed' = [listed EXCEPT ![c][t] = NoRow]

\* A track resolved by an earlier attempt is counted and passed over.
AlreadyResolved(c) ==
  /\ pc[c] = "stop" /\ Unresolved(c) # {}
  /\ LET t == NextOf(c) IN
       /\ listed[c][t].state # "recording"
       /\ Passed(c, t)
       /\ status' = [status EXCEPT ![c] = IF listed[c][t].state = "missing" THEN "missing" ELSE @]
  /\ UNCHANGED <<session, seal, row, provider, found, pc, delivering, seen, tries>>

\* StopTrack, whose failure decides nothing, and the probe, which does: it
\* finds an object only if some egress wrote one.  A claim without an egress
\* has nothing to stop.
StopTrack(c) ==
  /\ pc[c] = "stop" /\ Unresolved(c) # {}
  /\ LET t == NextOf(c) IN
       /\ listed[c][t].state = "recording"
       /\ \/ running' = [running EXCEPT ![t] = @ \ {listed[c][t].egress}]
          \/ UNCHANGED running
       /\ \/ /\ started[t] > 0
             /\ found' = found \cup {t}
             /\ Goto(c, "finalized") /\ UNCHANGED status
          \/ /\ Goto(c, "missing")
             /\ status' = [status EXCEPT ![c] = "missing"]
             /\ UNCHANGED found
  /\ UNCHANGED <<session, seal, row, started, mishap, delivering, listed, seen, tries>>

\* ResolveMediaTrack: once, from recording.
ResolveMediaTrack(r, to) == IF r.state = "recording" THEN [r EXCEPT !.state = to] ELSE r

ResolveTrack(c) ==
  /\ pc[c] \in {"finalized", "missing"}
  /\ LET t == NextOf(c) IN
       /\ row' = [row EXCEPT ![t] = ResolveMediaTrack(@, pc[c])]
       /\ Passed(c, t)
  /\ Goto(c, "stop")
  /\ UNCHANGED <<session, seal, provider, found, delivering, status, seen, tries>>

\* Mutation: the seal says finalized whatever became of the tracks.
MediaStatusOptimistic(c) == "finalized"

MediaStatus(c) == status[c]

\* InsertSeal: the first one stands.
Seal(c) ==
  /\ pc[c] = "seal" \/ (pc[c] = "stop" /\ Unresolved(c) = {})
  /\ seal' = IF seal = NoSeal THEN [media |-> MediaStatus(c), tracks |-> seen[c]] ELSE seal
  /\ Goto(c, "finalize")
  /\ UNCHANGED <<session, row, provider, found, delivering, completing, tries>>

\* The finalizing transition: the session leaves the recordable states.
Finalize(c) ==
  /\ pc[c] = "finalize"
  /\ state' = "over"
  /\ Goto(c, "done")
  /\ UNCHANGED <<preference, seal, row, provider, found, delivering, completing, tries>>

\* The request fails or its process dies; the caller may ask again.
CompletionDies(c) ==
  /\ pc[c] \notin {"idle", "done"}
  /\ Goto(c, "idle")
  /\ listed' = [listed EXCEPT ![c] = [t \in Tracks |-> NoRow]]
  /\ status' = [status EXCEPT ![c] = "none"] /\ seen' = [seen EXCEPT ![c] = {}]
  /\ UNCHANGED <<session, seal, row, provider, found, delivering, tries>>

Next ==
  \/ \E d \in Deliveries :
       \/ Deliver(d) \/ ClaimReads(d) \/ ClaimMediaTrack(d) \/ StartTrack(d)
       \/ ReleaseClaim(d) \/ RecordEgress(d) \/ DeliveryDies(d)
  \/ \E t \in Tracks : ClaimAges(t) \/ EgressEnds(t)
  \/ \E c \in Completers :
       \/ CompleteReads(c) \/ MediaTracks(c) \/ AlreadyResolved(c) \/ StopTrack(c)
       \/ ResolveTrack(c) \/ Seal(c) \/ Finalize(c) \/ CompletionDies(c)

Spec == Init /\ [][Next]_vars
----------------------------------------------------------------------------

\* The delivery is recording egress n of track t.
Recording(d, t, n) == pc[d] = "record" /\ track[d] = t /\ job[d] = n

\* Redeliveries, takeovers and retries run one egress per track at a time
\* ("three starts or a reconnection begin exactly one egress per track"), and
\* the platform knows it: the row has its id or the delivery that started it
\* is about to write it.  Unless a start's answer or its record was lost
\* (claim first, then start: ClaimMediaTrack, RecordTrackEgress).
OneKnownEgress ==
  \A t \in Tracks : t \in mishap \/
    /\ \A n, m \in running[t] : n = m
    /\ \A n \in running[t] : row[t].egress = n \/ \E d \in Deliveries : Recording(d, t, n)

\* What the row and the seal call finalized was read back from the store,
\* for every track the sealing completion knew of, and it knew of one.
FinalizedWasFound ==
  /\ \A t \in Tracks : row[t].state = "finalized" => t \in found
  /\ seal.media = "finalized" => seal.tracks # {} /\ seal.tracks \subseteq found

\* "The state check and the claim are in one transaction so a completion
\* committing between them cannot be missed" (media.go, claimTrack).
NoClaimAfterSeal ==
  [][seal # NoSeal => \A t \in Tracks : row[t].state = "none" => row'[t].state = "none"]_vars

\* "One absent artifact makes the recording missing" (the media ticket).
FinalizedMeansAll ==
  seal.media = "finalized" => \A t \in Tracks : row[t].state = "finalized"
=============================================================================
