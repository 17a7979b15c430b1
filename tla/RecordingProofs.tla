-------------------------- MODULE RecordingProofs --------------------------
(***************************************************************************)
(* Proofs about Recording, for any number of tracks, deliveries and        *)
(* completions: a track has one egress and the platform knows it, unless   *)
(* an answer or its record was lost, and what is called finalized was read *)
(* back.                                                                   *)
(***************************************************************************)
EXTENDS Recording, FiniteSetTheorems, WellFoundedInduction, TLAPS

----------------------------------------------------------------------------
(* The inductive invariant.                                                *)

MediaRows == [state : {"none", "recording", "finalized", "missing"}, egress : Nat,
              age : {"fresh", "stale"}]

Labels == {"idle", "check", "claim", "start", "record", "release", "done", "list", "seal",
           "stop", "finalized", "missing", "finalize"}
Statuses == {"none", "none_by_choice", "missing", "finalized"}

\* What every step needs of the types.
RecordingShape ==
  /\ row \in [Tracks -> MediaRows]
  /\ running \in [Tracks -> SUBSET (Nat \ {0})] /\ started \in [Tracks -> Nat]
  /\ found \subseteq Tracks /\ mishap \subseteq Tracks
  /\ pc \in [Threads -> Labels]
  /\ track \in [Deliveries -> Nat] /\ job \in [Deliveries -> Nat]
  /\ listed \in [Completers -> [Tracks -> MediaRows]]
  /\ status \in [Completers -> Statuses] /\ seen \in [Completers -> SUBSET Tracks]

\* The delivery has claimed the track it is at.
Holds(d) == pc[d] \in {"start", "record", "release"}

\* A delivery that is at a track is at one of recordedTracks.
AtATrack == \A d \in Deliveries : Holds(d) \/ pc[d] \in {"check", "claim"} => track[d] \in Tracks

\* While a claim is held its row is there, without an egress, and young: no
\* other delivery may take it over.
HeldIsYoung ==
  \A d \in Deliveries : Holds(d) =>
    /\ row[track[d]].state # "none"
    /\ row[track[d]].egress = 0 /\ row[track[d]].age = "fresh"

\* A track's claim is held by one delivery.
OneHolder == \A d, e \in Deliveries : Holds(d) /\ Holds(e) /\ track[d] = track[e] => d = e

\* A track without a row has no egress on record.
NoEgressYet == \A t \in Tracks : row[t].state = "none" => row[t].egress = 0

\* What runs is in the row or about to be written there.
RunningIsKnown ==
  \A t \in Tracks : t \in mishap \/
    \A n \in running[t] : row[t].egress = n \/ \E d \in Deliveries : Recording(d, t, n)

\* A finalized row, whether on file or as a completion read it, was found.
RowsFound ==
  /\ \A t \in Tracks : row[t].state = "finalized" => t \in found
  /\ \A c \in Completers, t \in Tracks : listed[c][t].state = "finalized" => t \in found

\* A completion about to resolve a track is at one, and found what it will
\* call finalized.
ProbeFound ==
  \A c \in Completers :
    /\ pc[c] \in {"finalized", "missing"} => Unresolved(c) # {}
    /\ pc[c] = "finalized" => NextOf(c) \in found

\* A completion that still says finalized has read a track, and found each of
\* those it has passed: it says missing before it resolves one to that.
Vouched(c) ==
  status[c] = "finalized" =>
    pc[c] \notin {"seal", "missing"} /\ seen[c] # {} /\ seen[c] \subseteq found \cup Unresolved(c)

StatusFound == \A c \in Completers : Vouched(c)

SealFound == seal.media = "finalized" => seal.tracks # {} /\ seal.tracks \subseteq found

ClaimsInv == AtATrack /\ HeldIsYoung /\ OneHolder /\ NoEgressYet /\ RunningIsKnown
FoundInv == RowsFound /\ ProbeFound /\ StatusFound /\ SealFound
RecordingInv == RecordingShape /\ ClaimsInv /\ FoundInv

----------------------------------------------------------------------------
(* Tracks and rows.                                                        *)

\* The tracks are numbered from 1 without a gap, and Last is one of them.
LEMMA TracksInOrder ==
  /\ Tracks \subseteq Nat \ {0} /\ 1 \in Tracks /\ Last \in Tracks
  /\ \A t \in Tracks : t < Last => t + 1 \in Tracks
<1> DEFINE n == Cardinality(Tracks)
<1>1. n \in Nat /\ Tracks = 1 .. n /\ Tracks # {}
  BY RecordingAssumption, FS_CardinalityType
<1> HIDE DEF n
<1>2. n \in Tracks /\ \A u \in Tracks : u <= n
  BY <1>1
<1>3. Last \in Tracks /\ \A u \in Tracks : u <= Last
  BY <1>2 DEF Last
<1> QED BY <1>1, <1>2, <1>3

\* A completion that has rows to resolve is at one of them.
LEMMA NextIsUnresolved ==
  ASSUME NEW c, Unresolved(c) # {}
  PROVE  NextOf(c) \in Unresolved(c) /\ NextOf(c) \in Tracks
<1> DEFINE S == Unresolved(c)
<1>1. S \subseteq Tracks /\ S \in SUBSET Nat /\ S # {}
  BY TracksInOrder DEF Unresolved
<1>2. PICK x \in S : \A y \in S : ~(<<y, x>> \in OpToRel(<, Nat))
  <2> HIDE DEF S
  <2> QED BY <1>1, WFMin, NatLessThanWellFounded
<1>3. \A y \in S : x <= y
  <2> HIDE DEF S
  <2>1. S \subseteq Nat /\ x \in Nat BY <1>1
  <2>2. \A y \in S : ~(y < x) BY <1>1, <1>2, <2>1 DEF OpToRel
  <2> QED BY <2>1, <2>2
<1>4. NextOf(c) \in S
  BY <1>3 DEF NextOf
<1> QED BY <1>1, <1>4

\* Deliveries and completions are different threads.
LEMMA DifferentThreads ==
  /\ \A d \in Deliveries : d \in Threads /\ d \notin Completers
  /\ \A c \in Completers : c \in Threads /\ c \notin Deliveries
BY RecordingAssumption DEF Threads

\* A step of a delivery that finalizes no row leaves what was found as it is.
LEMMA FoundKept ==
  ASSUME RecordingShape, FoundInv, UNCHANGED <<seal, found, listed, status, seen>>,
         \A c \in Completers : pc'[c] = pc[c],
         \A t \in Tracks : row'[t].state = "finalized" => row[t].state = "finalized"
  PROVE  FoundInv'
<1>1. RowsFound' BY DEF FoundInv, RowsFound
<1>2. \A c \in Completers : Unresolved(c)' = Unresolved(c) BY DEF Unresolved
<1>3. \A c \in Completers : NextOf(c)' = NextOf(c) BY <1>2 DEF NextOf
<1>4. ProbeFound' BY <1>2, <1>3 DEF FoundInv, ProbeFound
<1>5. StatusFound' BY <1>2 DEF FoundInv, StatusFound, Vouched
<1>6. SealFound' BY DEF FoundInv, SealFound
<1> QED BY <1>1, <1>4, <1>5, <1>6 DEF FoundInv

\* A step of a completion that leaves every claim as it is, and starts no
\* egress, keeps what is known of claims and egresses.
LEMMA ClaimsKept ==
  ASSUME RecordingShape, ClaimsInv, UNCHANGED <<mishap, track, job>>,
         \A d \in Deliveries : pc'[d] = pc[d],
         \A t \in Tracks : /\ row'[t].egress = row[t].egress /\ row'[t].age = row[t].age
                           /\ row[t].state # "none" => row'[t].state # "none"
                           /\ running'[t] \subseteq running[t]
  PROVE  ClaimsInv'
<1>1. \A d \in Deliveries : Holds(d)' = Holds(d) BY DEF Holds
<1>2. AtATrack' BY <1>1 DEF ClaimsInv, AtATrack
<1>3. HeldIsYoung' BY <1>1 DEF ClaimsInv, AtATrack, HeldIsYoung
<1>4. OneHolder' BY <1>1 DEF ClaimsInv, OneHolder
<1>5. RunningIsKnown' BY DEF ClaimsInv, RunningIsKnown, Recording
<1>6. NoEgressYet' BY DEF ClaimsInv, NoEgressYet
<1> QED BY <1>2, <1>3, <1>4, <1>5, <1>6 DEF ClaimsInv

----------------------------------------------------------------------------
(* The steps of a delivery.                                                *)

\* A delivery that gives up its claim, with nothing running that only it knew
\* of, leaves the other claims as they are: its own row may be aged.
LEMMA ClaimGivenUp ==
  ASSUME RecordingShape, ClaimsInv, NEW d \in Deliveries, UNCHANGED running,
         pc' \in [Threads -> Labels], ~Holds(d)',
         pc'[d] \in {"check", "claim"} => track'[d] \in Tracks,
         \A e \in Deliveries \ {d} : pc'[e] = pc[e] /\ track'[e] = track[e] /\ job'[e] = job[e],
         mishap \subseteq mishap',
         row' = row \/ (Holds(d) /\ \E r \in MediaRows :
           row' = [row EXCEPT ![track[d]] = r] /\ r.state # "none"),
         \A t \in Tracks : \A n \in running[t] :
           Recording(d, t, n) => t \in mishap' \/ row'[t].egress = n,
         \A t \in Tracks : row[t].egress = 0 \/ row'[t].egress = row[t].egress
  PROVE  ClaimsInv'
<1>1. \A e \in Deliveries \ {d} : Holds(e)' = Holds(e) BY DEF Holds
<1>2. AtATrack' BY <1>1 DEF ClaimsInv, AtATrack, Holds
<1>3. \A e \in Deliveries \ {d} : Holds(e) => row'[track[e]] = row[track[e]]
  <2> SUFFICES ASSUME NEW e \in Deliveries \ {d}, Holds(e)
               PROVE  row'[track[e]] = row[track[e]]
    OBVIOUS
  <2>1. CASE row' = row BY <2>1
  <2>2. CASE Holds(d) /\ \E r \in MediaRows : row' = [row EXCEPT ![track[d]] = r]
    <3>1. track[e] # track[d] BY <2>2 DEF ClaimsInv, OneHolder
    <3>2. track[e] \in Tracks BY DEF ClaimsInv, AtATrack
    <3> QED BY <2>2, <3>1, <3>2 DEF RecordingShape
  <2> QED BY <2>1, <2>2
<1>4. HeldIsYoung' BY <1>1, <1>3 DEF ClaimsInv, HeldIsYoung
<1>5. OneHolder' BY <1>1 DEF ClaimsInv, OneHolder
<1>6. RunningIsKnown'
  <2> SUFFICES ASSUME NEW t \in Tracks, t \notin mishap', NEW n \in running[t]
               PROVE  row'[t].egress = n \/ \E e \in Deliveries : Recording(e, t, n)'
    BY DEF RunningIsKnown
  <2>1. n # 0 BY DEF RecordingShape
  <2>2. row[t].egress = n \/ \E e \in Deliveries : Recording(e, t, n)
    BY DEF ClaimsInv, RunningIsKnown
  <2>3. CASE row[t].egress = n BY <2>1, <2>3
  <2>4. ASSUME NEW e \in Deliveries, Recording(e, t, n)
        PROVE  row'[t].egress = n \/ \E f \in Deliveries : Recording(f, t, n)'
    <3>1. CASE e = d BY <2>4, <3>1
    <3>2. CASE e # d BY <2>4, <3>2 DEF Recording
    <3> QED BY <3>1, <3>2
  <2> QED BY <2>2, <2>3, <2>4
<1>7. NoEgressYet'
  BY DEF ClaimsInv, NoEgressYet, AtATrack, RecordingShape
<1> QED BY <1>2, <1>4, <1>5, <1>6, <1>7 DEF ClaimsInv

\* What all steps of a delivery leave alone.
DeliveryFrame(d) ==
  /\ UNCHANGED <<session, seal, found, completing>>
  /\ pc' \in [Threads -> Labels]
  /\ track' \in [Deliveries -> Nat] /\ job' \in [Deliveries -> Nat]
  /\ \A h \in Threads \ {d} : pc'[h] = pc[h]
  /\ \A e \in Deliveries \ {d} : track'[e] = track[e] /\ job'[e] = job[e]

\* A step that moves the delivery alone.
LEMMA Framed ==
  ASSUME RecordingShape, NEW d \in Deliveries,
         UNCHANGED <<session, seal, found, completing>>,
         NEW l \in Labels, pc' = [pc EXCEPT ![d] = l],
         track' = track \/ \E t \in Nat : track' = [track EXCEPT ![d] = t],
         job' = job \/ \E n \in Nat : job' = [job EXCEPT ![d] = n]
  PROVE  DeliveryFrame(d) /\ pc'[d] = l
<1>1. d \in Threads
  BY DifferentThreads
<1>2. pc' \in [Threads -> Labels] /\ pc'[d] = l /\ \A h \in Threads \ {d} : pc'[h] = pc[h]
  BY <1>1 DEF RecordingShape
<1>3. track' \in [Deliveries -> Nat] /\ \A e \in Deliveries \ {d} : track'[e] = track[e]
  BY DEF RecordingShape
<1>4. job' \in [Deliveries -> Nat] /\ \A e \in Deliveries \ {d} : job'[e] = job[e]
  BY DEF RecordingShape
<1> QED BY <1>2, <1>3, <1>4 DEF DeliveryFrame

\* A delivery that goes on to the next track is at it, or done.
LEMMA AfterNextTrack ==
  ASSUME RecordingShape, NEW d \in Deliveries, NextTrack(d), track[d] \in Tracks,
         UNCHANGED <<session, seal, found, completing>>
  PROVE  /\ DeliveryFrame(d) /\ ~Holds(d)'
         /\ pc'[d] \in {"check", "claim"} => track'[d] \in Tracks
<1>1. d \in Threads /\ Last \in Nat /\ track[d] \in Nat
  BY DifferentThreads, TracksInOrder
<1>2. pc' = [pc EXCEPT ![d] = IF track[d] < Last THEN "check" ELSE "done"]
  BY DEF NextTrack, Goto
<1>3. track' = [track EXCEPT ![d] = IF track[d] < Last THEN track[d] + 1 ELSE 0]
  BY DEF NextTrack
<1>4. job' = [job EXCEPT ![d] = 0]
  BY DEF NextTrack
<1>5. DeliveryFrame(d)
  <2>1. (IF track[d] < Last THEN "check" ELSE "done") \in Labels
    BY DEF Labels
  <2>2. (IF track[d] < Last THEN track[d] + 1 ELSE 0) \in Nat
    BY <1>1
  <2> QED BY <1>2, <1>3, <1>4, <2>1, <2>2, Framed
<1>6. pc'[d] = (IF track[d] < Last THEN "check" ELSE "done")
  BY <1>1, <1>2 DEF RecordingShape
<1>7. track[d] < Last => track'[d] = track[d] + 1
  BY <1>1, <1>3 DEF RecordingShape
<1> QED BY <1>5, <1>6, <1>7, TracksInOrder DEF Holds

\* A delivery that fails is idle and holds nothing.
LEMMA AfterFail ==
  ASSUME RecordingShape, NEW d \in Deliveries, Fail(d),
         UNCHANGED <<session, seal, found, completing>>
  PROVE  DeliveryFrame(d) /\ ~Holds(d)' /\ pc'[d] \notin {"check", "claim"}
<1>1. d \in Threads
  BY DifferentThreads
<1>2. DeliveryFrame(d)
  BY Framed DEF Fail, Goto, Labels
<1>3. pc'[d] = "idle"
  BY <1>1 DEF Fail, Goto, RecordingShape
<1> QED BY <1>2, <1>3 DEF Holds

\* The three parts of the invariant from a step of a delivery.
LEMMA FromFrame ==
  ASSUME RecordingInv, NEW d \in Deliveries, DeliveryFrame(d), ClaimsInv',
         row' \in [Tracks -> MediaRows], started' \in [Tracks -> Nat],
         running' \in [Tracks -> SUBSET (Nat \ {0})], mishap' \subseteq Tracks,
         \A t \in Tracks : row'[t].state = "finalized" => row[t].state = "finalized"
  PROVE  RecordingInv'
<1>1. RecordingShape'
  BY DEF RecordingInv, RecordingShape, DeliveryFrame, completing
<1>2. \A c \in Completers : pc'[c] = pc[c]
  BY DifferentThreads DEF DeliveryFrame
<1>3. FoundInv'
  BY <1>2, FoundKept DEF RecordingInv, DeliveryFrame, completing
<1> QED BY <1>1, <1>3 DEF RecordingInv

\* The delivery begins, or begins again: it is at the first track.
LEMMA DeliverStep ==
  ASSUME RecordingInv, NEW d \in Deliveries, Deliver(d)
  PROVE  RecordingInv'
<1>1. d \in Threads /\ 1 \in Tracks /\ RecordingShape /\ ClaimsInv /\ ~Holds(d)
  BY DifferentThreads, TracksInOrder DEF RecordingInv, Deliver, Holds
<1>2. pc'[d] \in {"check", "done"} /\ track'[d] = 1
  BY <1>1 DEF Deliver, Goto, RecordingShape
<1>3. DeliveryFrame(d)
  <2>1. PICK l \in Labels : pc' = [pc EXCEPT ![d] = l]
    BY DEF Deliver, Goto, Labels
  <2> QED BY <1>1, <2>1, Framed DEF Deliver
<1>4. ClaimsInv'
  BY <1>1, <1>2, <1>3, ClaimGivenUp DEF Deliver, Holds, DeliveryFrame, provider, Recording, Threads
<1> QED BY <1>1, <1>3, <1>4, FromFrame DEF Deliver, provider, RecordingShape

\* The reads before a claim change nothing that is claimed.
LEMMA ClaimReadsStep ==
  ASSUME RecordingInv, NEW d \in Deliveries, ClaimReads(d)
  PROVE  RecordingInv'
<1>1. d \in Threads /\ RecordingShape /\ ClaimsInv /\ ~Holds(d) /\ track[d] \in Tracks
  BY DifferentThreads DEF RecordingInv, ClaimReads, Holds, ClaimsInv, AtATrack
<1>2. CASE pc' = [pc EXCEPT ![d] = "claim"] /\ UNCHANGED delivering
  <2>1. pc'[d] = "claim" /\ track'[d] = track[d]
    BY <1>1, <1>2 DEF RecordingShape, delivering
  <2>2. DeliveryFrame(d)
    BY <1>1, <1>2, Framed DEF ClaimReads, delivering, Labels
  <2>3. ClaimsInv'
    BY <1>1, <2>1, <2>2, ClaimGivenUp
    DEF ClaimReads, Holds, DeliveryFrame, provider, Recording, Threads
  <2> QED BY <1>1, <2>2, <2>3, FromFrame DEF ClaimReads, provider, RecordingShape
<1>3. CASE NextTrack(d)
  <2>1. DeliveryFrame(d) /\ ~Holds(d)' /\ (pc'[d] \in {"check", "claim"} => track'[d] \in Tracks)
    BY <1>1, <1>3, AfterNextTrack DEF ClaimReads
  <2>2. ClaimsInv'
    BY <1>1, <2>1, ClaimGivenUp
    DEF ClaimReads, Holds, DeliveryFrame, provider, Recording, Threads
  <2> QED BY <1>1, <2>1, <2>2, FromFrame DEF ClaimReads, provider, RecordingShape
<1> QED BY <1>2, <1>3 DEF ClaimReads, Goto

\* A claim is made where there is no row, or where the row's claim is old:
\* nobody holds it, so it has one holder after.  Otherwise the delivery goes
\* on or fails.
LEMMA ClaimMediaTrackStep ==
  ASSUME RecordingInv, NEW d \in Deliveries, ClaimMediaTrack(d)
  PROVE  RecordingInv'
<1>1. /\ d \in Threads /\ RecordingShape /\ ClaimsInv /\ ~Holds(d) /\ track[d] \in Tracks
      /\ UNCHANGED <<session, seal, found, completing, running, started, mishap>>
  BY DifferentThreads
  DEF RecordingInv, ClaimMediaTrack, Holds, ClaimsInv, AtATrack, provider
<1>2. CASE NextTrack(d) /\ UNCHANGED row
  <2>1. DeliveryFrame(d) /\ ~Holds(d)' /\ (pc'[d] \in {"check", "claim"} => track'[d] \in Tracks)
    BY <1>1, <1>2, AfterNextTrack
  <2>2. ClaimsInv'
    BY <1>1, <1>2, <2>1, ClaimGivenUp DEF Holds, DeliveryFrame, Recording, Threads
  <2> QED BY <1>1, <1>2, <2>1, <2>2, FromFrame DEF RecordingShape
<1>3. CASE Fail(d) /\ UNCHANGED row
  <2>1. DeliveryFrame(d) /\ ~Holds(d)' /\ pc'[d] \notin {"check", "claim"}
    BY <1>1, <1>3, AfterFail
  <2>2. ClaimsInv'
    BY <1>1, <1>3, <2>1, ClaimGivenUp DEF Holds, DeliveryFrame, Recording, Threads
  <2> QED BY <1>1, <1>3, <2>1, <2>2, FromFrame DEF RecordingShape
<1>4. ASSUME \/ row[track[d]].state = "none"
             \/ Takeable(row[track[d]]) /\ row[track[d]].state = "recording",
             row' = [row EXCEPT ![track[d]] =
                       [state |-> "recording", egress |-> 0, age |-> "fresh"]],
             pc' = [pc EXCEPT ![d] = "start"], UNCHANGED delivering
      PROVE  RecordingInv'
  <2> DEFINE t == track[d]
             r == [state |-> "recording", egress |-> 0, age |-> "fresh"]
  <2>1. DeliveryFrame(d) /\ pc'[d] = "start" /\ track' = track /\ job' = job
    BY <1>1, <1>4, Framed DEF delivering, Labels
  <2>2. r \in MediaRows /\ r.state = "recording" /\ r.egress = 0 /\ r.age = "fresh"
    BY DEF MediaRows
  <2> HIDE DEF r
  <2>3. /\ row' \in [Tracks -> MediaRows] /\ row'[t] = r
        /\ \A u \in Tracks \ {t} : row'[u] = row[u]
    BY <1>1, <1>4, <2>2 DEF RecordingShape, r
  <2>4. \A e \in Deliveries : Holds(e) => track[e] \in Tracks /\ track[e] # t
    BY <1>1, <1>4 DEF ClaimsInv, AtATrack, HeldIsYoung, Takeable
  <2>5. \A e \in Deliveries : Holds(e)' <=> (Holds(e) \/ e = d)
    BY <2>1 DEF Holds, DeliveryFrame, Threads
  <2>6. AtATrack'
    BY <1>1, <2>1, <2>4, <2>5 DEF ClaimsInv, AtATrack, DeliveryFrame, Threads
  <2>7. HeldIsYoung'
    BY <1>1, <2>1, <2>2, <2>3, <2>4, <2>5 DEF ClaimsInv, HeldIsYoung
  <2>8. OneHolder'
    BY <1>1, <2>1, <2>4, <2>5 DEF ClaimsInv, OneHolder
  <2>9. RunningIsKnown'
    <3> SUFFICES ASSUME NEW u \in Tracks, u \notin mishap, NEW n \in running[u]
                 PROVE  row'[u].egress = n \/ \E e \in Deliveries : Recording(e, u, n)'
      BY <1>1 DEF RunningIsKnown
    <3>1. n # 0
      BY <1>1 DEF RecordingShape
    <3>2. row[u].egress = n \/ \E e \in Deliveries : Recording(e, u, n)
      BY <1>1 DEF ClaimsInv, RunningIsKnown
    <3>3. \A e \in Deliveries : Recording(e, u, n) => Recording(e, u, n)'
      BY <1>1, <2>1 DEF Recording, DeliveryFrame, Threads, Holds
    <3>4. ASSUME u = t PROVE \E e \in Deliveries : Recording(e, u, n)'
      <4>1. row[u].egress = n => FALSE
        BY <1>4, <3>1, <3>4, <1>1 DEF Takeable, ClaimsInv, NoEgressYet
      <4> QED BY <3>2, <3>3, <4>1
    <3>5. CASE u # t
      BY <2>3, <3>2, <3>3, <3>5
    <3> QED BY <3>4, <3>5
  <2>10. NoEgressYet'
    BY <1>1, <2>2, <2>3 DEF ClaimsInv, NoEgressYet
  <2>11. ClaimsInv'
    BY <2>6, <2>7, <2>8, <2>9, <2>10 DEF ClaimsInv
  <2> QED BY <1>1, <2>1, <2>2, <2>3, <2>11, FromFrame DEF RecordingShape
<1> QED BY <1>2, <1>3, <1>4 DEF ClaimMediaTrack, Goto

\* The provider starts an egress for the holder of the claim, the only one
\* there is: nothing else runs for the track unless an answer was lost.
LEMMA StartTrackStep ==
  ASSUME RecordingInv, NEW d \in Deliveries, StartTrack(d)
  PROVE  RecordingInv'
<1> DEFINE t == track[d]
           n == started[t] + 1
<1>1. /\ d \in Threads /\ RecordingShape /\ ClaimsInv /\ Holds(d) /\ t \in Tracks
      /\ pc[d] = "start" /\ UNCHANGED <<session, seal, found, completing, row, track>>
  BY DifferentThreads
  DEF RecordingInv, StartTrack, Holds, ClaimsInv, AtATrack
<1>2. n \in Nat \ {0}
  BY <1>1 DEF RecordingShape
<1> HIDE DEF n
<1>3. PICK l \in {"record", "release"} : pc' = [pc EXCEPT ![d] = l]
  BY DEF StartTrack, Goto
<1>4. /\ job' = job \/ job' = [job EXCEPT ![d] = n]
      /\ started' = started \/ started' = [started EXCEPT ![t] = n]
      /\ running' = running \/ running' = [running EXCEPT ![t] = running[t] \cup {n}]
      /\ mishap' = mishap \/ mishap' = mishap \cup {t}
  BY DEF StartTrack, provider, n
<1>5. DeliveryFrame(d) /\ pc'[d] = l
  BY <1>1, <1>2, <1>3, <1>4, Framed DEF Labels
<1>6. /\ started' \in [Tracks -> Nat] /\ mishap \subseteq mishap' /\ mishap' \subseteq Tracks
      /\ running' \in [Tracks -> SUBSET (Nat \ {0})]
      /\ \A u \in Tracks \ {t} : running'[u] = running[u]
      /\ running'[t] \subseteq running[t] \cup {n}
  <2>1. started' \in [Tracks -> Nat] /\ mishap \subseteq mishap' /\ mishap' \subseteq Tracks
    BY <1>1, <1>2, <1>4 DEF RecordingShape
  <2>2. CASE running' = running
    BY <1>1, <2>1, <2>2 DEF RecordingShape
  <2>3. CASE running' = [running EXCEPT ![t] = running[t] \cup {n}]
    <3>1. running[t] \cup {n} \in SUBSET (Nat \ {0})
      BY <1>1, <1>2 DEF RecordingShape
    <3> QED BY <1>1, <2>1, <2>3, <3>1 DEF RecordingShape
  <2> QED BY <1>4, <2>2, <2>3
<1>7. t \in mishap' \/ running' = running \/ (l = "record" /\ job'[d] = n)
  BY <1>1, <1>3, <1>5 DEF StartTrack, provider, Goto, RecordingShape, n
<1>8. \A e \in Deliveries : (Holds(e)' <=> Holds(e))
  BY <1>1, <1>3, <1>5 DEF Holds, DeliveryFrame, Threads
<1>9. AtATrack' /\ HeldIsYoung' /\ OneHolder' /\ NoEgressYet'
  <2>1. AtATrack'
    BY <1>1, <1>3, <1>5, <1>8 DEF ClaimsInv, AtATrack, DeliveryFrame, Threads
  <2>2. HeldIsYoung' /\ OneHolder' /\ NoEgressYet'
    BY <1>1, <1>8 DEF ClaimsInv, HeldIsYoung, OneHolder, NoEgressYet
  <2> QED BY <2>1, <2>2
<1>10. RunningIsKnown'
  <2> SUFFICES ASSUME NEW u \in Tracks, u \notin mishap', NEW k \in running'[u]
               PROVE  row'[u].egress = k \/ \E e \in Deliveries : Recording(e, u, k)'
    BY DEF RunningIsKnown
  <2>1. ASSUME k \in running[u]
        PROVE  row[u].egress = k \/ \E e \in Deliveries : Recording(e, u, k)
    BY <1>1, <1>6, <2>1 DEF ClaimsInv, RunningIsKnown
  <2>2. \A e \in Deliveries : Recording(e, u, k) => Recording(e, u, k)'
    BY <1>1, <1>5 DEF Recording, DeliveryFrame, Threads
  <2>3. CASE k \in running[u]
    BY <1>1, <2>1, <2>2, <2>3
  <2>4. CASE k \notin running[u]
    <3>1. u = t /\ k = n /\ running' # running
      BY <1>6, <2>4
    <3>2. l = "record" /\ job'[d] = n
      BY <1>7, <3>1
    <3>3. Recording(d, u, k)'
      BY <1>1, <1>5, <3>1, <3>2 DEF Recording
    <3> QED BY <3>3
  <2> QED BY <2>3, <2>4
<1>11. ClaimsInv'
  BY <1>9, <1>10 DEF ClaimsInv
<1> QED BY <1>1, <1>5, <1>6, <1>11, FromFrame DEF RecordingShape

\* After a failed start the claim is given up, and its row aged; nothing runs
\* that the delivery was about to record.
LEMMA ReleaseClaimStep ==
  ASSUME RecordingInv, NEW d \in Deliveries, ReleaseClaim(d)
  PROVE  RecordingInv'
<1> DEFINE t == track[d]
           r == IF row[t].state = "recording" THEN ReleaseMediaClaim(row[t]) ELSE row[t]
<1>1. /\ d \in Threads /\ RecordingShape /\ ClaimsInv /\ Holds(d) /\ t \in Tracks
      /\ UNCHANGED <<session, seal, found, completing, running, started, mishap>>
      /\ pc[d] = "release" /\ Fail(d)
  BY DifferentThreads
  DEF RecordingInv, ReleaseClaim, Holds, ClaimsInv, AtATrack, provider
<1>2. row' = [row EXCEPT ![t] = r]
  BY DEF ReleaseClaim
<1>3. row[t] \in MediaRows /\ row[t].state # "none"
  BY <1>1 DEF RecordingShape, ClaimsInv, HeldIsYoung
<1>4. r \in MediaRows /\ r.state = row[t].state /\ r.egress = row[t].egress
  BY <1>3 DEF ReleaseMediaClaim, MediaRows
<1> HIDE DEF r
<1>5. /\ row' \in [Tracks -> MediaRows] /\ row'[t] = r
      /\ \A u \in Tracks \ {t} : row'[u] = row[u]
  BY <1>1, <1>2, <1>4 DEF RecordingShape
<1>6. DeliveryFrame(d) /\ ~Holds(d)' /\ pc'[d] \notin {"check", "claim"}
  BY <1>1, AfterFail
<1>7. \A u \in Tracks : \A n \in running[u] : ~Recording(d, u, n)
  BY <1>1 DEF Recording
<1>8. ClaimsInv'
  BY <1>1, <1>2, <1>3, <1>4, <1>5, <1>6, <1>7, ClaimGivenUp DEF DeliveryFrame, Threads
<1> QED BY <1>1, <1>3, <1>4, <1>5, <1>6, <1>8, FromFrame DEF RecordingShape

\* The holder writes the id of the egress it started into its row, which has
\* none, or its row was resolved meanwhile and the egress is lost.
LEMMA RecordEgressStep ==
  ASSUME RecordingInv, NEW d \in Deliveries, RecordEgress(d)
  PROVE  RecordingInv'
<1> DEFINE t == track[d]
<1>1. /\ d \in Threads /\ RecordingShape /\ ClaimsInv /\ Holds(d) /\ t \in Tracks
      /\ pc[d] = "record" /\ UNCHANGED <<session, seal, found, completing, running, started>>
  BY DifferentThreads
  DEF RecordingInv, RecordEgress, Holds, ClaimsInv, AtATrack
<1>2. row[t] \in MediaRows /\ row[t].state # "none" /\ row[t].egress = 0 /\ job[d] \in Nat
  BY <1>1 DEF RecordingShape, ClaimsInv, HeldIsYoung
<1>3. CASE row' = [row EXCEPT ![t].egress = job[d]] /\ NextTrack(d) /\ UNCHANGED mishap
  <2> DEFINE r == [row[t] EXCEPT !.egress = job[d]]
  <2>1. r \in MediaRows /\ r.egress = job[d] /\ r.state = row[t].state
    BY <1>2 DEF MediaRows
  <2>2. row' = [row EXCEPT ![t] = r]
    BY <1>1, <1>3 DEF RecordingShape
  <2> HIDE DEF r
  <2>3. /\ row' \in [Tracks -> MediaRows] /\ row'[t] = r
        /\ \A u \in Tracks \ {t} : row'[u] = row[u]
    BY <1>1, <2>1, <2>2 DEF RecordingShape
  <2>4. DeliveryFrame(d) /\ ~Holds(d)' /\ (pc'[d] \in {"check", "claim"} => track'[d] \in Tracks)
    BY <1>1, <1>3, AfterNextTrack
  <2>5. \A u \in Tracks : \A n \in running[u] : Recording(d, u, n) => row'[u].egress = n
    BY <2>1, <2>3 DEF Recording
  <2>6. ClaimsInv'
    BY <1>1, <1>2, <1>3, <2>1, <2>2, <2>3, <2>4, <2>5, ClaimGivenUp DEF DeliveryFrame, Threads
  <2> QED BY <1>1, <1>2, <1>3, <2>1, <2>3, <2>4, <2>6, FromFrame DEF RecordingShape
<1>4. CASE mishap' = mishap \cup {t} /\ Fail(d) /\ UNCHANGED row
  <2>1. DeliveryFrame(d) /\ ~Holds(d)' /\ pc'[d] \notin {"check", "claim"}
    BY <1>1, <1>4, AfterFail
  <2>2. \A u \in Tracks : \A n \in running[u] : Recording(d, u, n) => u \in mishap'
    BY <1>4 DEF Recording
  <2>3. ClaimsInv'
    BY <1>1, <1>4, <2>1, <2>2, ClaimGivenUp DEF DeliveryFrame, Threads
  <2> QED BY <1>1, <1>4, <2>1, <2>3, FromFrame DEF RecordingShape
<1> QED BY <1>2, <1>3, <1>4 DEF RecordEgress, Records

\* A delivery that dies leaves its claim to age; an egress it was about to
\* record is lost.
LEMMA DeliveryDiesStep ==
  ASSUME RecordingInv, NEW d \in Deliveries, DeliveryDies(d)
  PROVE  RecordingInv'
<1>1. /\ d \in Threads /\ RecordingShape /\ ClaimsInv /\ Fail(d) /\ track[d] \in Tracks
      /\ UNCHANGED <<session, seal, found, completing, row, running, started>>
  BY DifferentThreads
  DEF RecordingInv, DeliveryDies, Holds, ClaimsInv, AtATrack
<1>2. /\ mishap \subseteq mishap' /\ mishap' \subseteq Tracks
      /\ pc[d] = "record" => track[d] \in mishap'
  BY <1>1 DEF DeliveryDies, RecordingShape
<1>3. DeliveryFrame(d) /\ ~Holds(d)' /\ pc'[d] \notin {"check", "claim"}
  BY <1>1, AfterFail
<1>4. \A u \in Tracks : \A n \in running[u] : Recording(d, u, n) => u \in mishap'
  BY <1>2 DEF Recording
<1>5. ClaimsInv'
  BY <1>1, <1>2, <1>3, <1>4, ClaimGivenUp DEF DeliveryFrame, Threads
<1> QED BY <1>1, <1>2, <1>3, <1>5, FromFrame DEF RecordingShape

\* A claim ages only when nobody holds it, and an egress that ends by itself
\* is one less to know of.
LEMMA ProviderStep ==
  ASSUME RecordingInv, NEW t \in Tracks, ClaimAges(t) \/ EgressEnds(t)
  PROVE  RecordingInv'
<1>1. RecordingShape /\ ClaimsInv /\ FoundInv
  BY DEF RecordingInv
<1>2. CASE ClaimAges(t)
  <2> DEFINE r == [row[t] EXCEPT !.age = "stale"]
  <2>1. /\ r \in MediaRows /\ r.egress = row[t].egress /\ r.state = row[t].state
        /\ row' = [row EXCEPT ![t] = r]
    <3>1. row[t] \in MediaRows
      BY <1>1 DEF RecordingShape
    <3> QED BY <1>1, <1>2, <3>1 DEF ClaimAges, MediaRows, RecordingShape
  <2> HIDE DEF r
  <2>2. /\ row' \in [Tracks -> MediaRows] /\ row'[t] = r
        /\ \A u \in Tracks \ {t} : row'[u] = row[u]
    BY <1>1, <2>1 DEF RecordingShape
  <2>3. UNCHANGED <<seal, running, started, mishap, found, pc, track, job, listed, status, seen>>
    BY <1>2 DEF ClaimAges, provider, delivering, completing
  <2>4. \A d \in Deliveries : (Holds(d)' <=> Holds(d)) /\ (Holds(d) => track[d] # t)
    BY <1>2, <2>3 DEF ClaimAges, NobodyHolds, Holds
  <2>5. AtATrack' /\ OneHolder'
    BY <1>1, <2>3, <2>4 DEF ClaimsInv, AtATrack, OneHolder
  <2>6. HeldIsYoung'
    BY <1>1, <2>2, <2>3, <2>4 DEF ClaimsInv, AtATrack, HeldIsYoung
  <2>7. NoEgressYet'
    BY <1>1, <2>1, <2>2 DEF ClaimsInv, NoEgressYet
  <2>8. RunningIsKnown'
    BY <1>1, <2>1, <2>2, <2>3 DEF ClaimsInv, RunningIsKnown, Recording
  <2>9. FoundInv'
    BY <1>1, <2>1, <2>2, <2>3, FoundKept
  <2>10. RecordingShape'
    BY <1>1, <2>2, <2>3 DEF RecordingShape
  <2> QED BY <2>5, <2>6, <2>7, <2>8, <2>9, <2>10 DEF RecordingInv, ClaimsInv
<1>3. CASE EgressEnds(t)
  <2>1. PICK n : running' = [running EXCEPT ![t] = running[t] \ {n}]
    BY <1>3 DEF EgressEnds
  <2>2. UNCHANGED <<seal, row, started, mishap, found, pc, track, job, listed, status, seen>>
    BY <1>3 DEF EgressEnds, delivering, completing
  <2>3. running[t] \ {n} \in SUBSET (Nat \ {0})
    BY <1>1 DEF RecordingShape
  <2>4. /\ running' \in [Tracks -> SUBSET (Nat \ {0})]
        /\ \A u \in Tracks : running'[u] \subseteq running[u]
    BY <1>1, <2>1, <2>3 DEF RecordingShape
  <2>5. ClaimsInv'
    BY <1>1, <2>2, <2>4, ClaimsKept
  <2>6. FoundInv'
    BY <1>1, <2>2, FoundKept
  <2>7. RecordingShape'
    BY <1>1, <2>2, <2>4 DEF RecordingShape
  <2> QED BY <2>5, <2>6, <2>7 DEF RecordingInv
<1> QED BY <1>2, <1>3

----------------------------------------------------------------------------
(* The steps of a completion.                                              *)

\* What all steps of a completion leave alone.
CompletionFrame(c) ==
  /\ UNCHANGED <<mishap, started, track, job>>
  /\ pc' \in [Threads -> Labels]
  /\ \A h \in Threads \ {c} : pc'[h] = pc[h]

\* A completion changes no claim.
LEMMA ClaimsStand ==
  ASSUME RecordingInv, NEW c \in Completers, CompletionFrame(c), UNCHANGED <<row, running>>
  PROVE  ClaimsInv'
<1>1. \A d \in Deliveries : pc'[d] = pc[d]
  BY DifferentThreads DEF CompletionFrame
<1> QED BY <1>1, ClaimsKept DEF RecordingInv, CompletionFrame

\* The step moves the completion alone.
LEMMA CompletionFramed ==
  ASSUME RecordingShape, NEW c \in Completers, UNCHANGED <<mishap, started, track, job>>,
         NEW l \in Labels, pc' = [pc EXCEPT ![c] = l]
  PROVE  CompletionFrame(c) /\ pc'[c] = l
BY DifferentThreads DEF RecordingShape, CompletionFrame

\* What another completion read and found stands.
LEMMA OthersStand ==
  ASSUME RecordingInv, NEW c \in Completers, CompletionFrame(c), found \subseteq found',
         \A b \in Completers \ {c} :
           listed'[b] = listed[b] /\ status'[b] = status[b] /\ seen'[b] = seen[b]
  PROVE  \A b \in Completers \ {c} :
           /\ \A t \in Tracks : listed'[b][t].state = "finalized" => t \in found'
           /\ pc'[b] \in {"finalized", "missing"} => Unresolved(b)' # {}
           /\ pc'[b] = "finalized" => NextOf(b)' \in found'
           /\ Vouched(b)'
<1> SUFFICES ASSUME NEW b \in Completers \ {c}
    PROVE  /\ \A t \in Tracks : listed'[b][t].state = "finalized" => t \in found'
           /\ pc'[b] \in {"finalized", "missing"} => Unresolved(b)' # {}
           /\ pc'[b] = "finalized" => NextOf(b)' \in found'
           /\ Vouched(b)'
  OBVIOUS
<1>1. pc'[b] = pc[b]
  BY DifferentThreads DEF CompletionFrame
<1>2. Unresolved(b)' = Unresolved(b)
  BY DEF Unresolved
<1>3. NextOf(b)' = NextOf(b)
  BY <1>2 DEF NextOf
<1>4. \A t \in Tracks : listed'[b][t].state = "finalized" => t \in found'
  BY DEF RecordingInv, FoundInv, RowsFound
<1>5. /\ pc'[b] \in {"finalized", "missing"} => Unresolved(b)' # {}
      /\ pc'[b] = "finalized" => NextOf(b)' \in found'
  BY <1>1, <1>2, <1>3 DEF RecordingInv, FoundInv, ProbeFound
<1>6. Vouched(b)'
  BY <1>1, <1>2 DEF RecordingInv, FoundInv, StatusFound, Vouched
<1> QED BY <1>4, <1>5, <1>6

\* The invariant from a step of a completion: what is left to show is about
\* that completion, the rows and the seal.
LEMMA FromCompletion ==
  ASSUME RecordingInv, NEW c \in Completers, CompletionFrame(c), ClaimsInv', SealFound',
         found \subseteq found', found' \subseteq Tracks,
         row' \in [Tracks -> MediaRows], running' \in [Tracks -> SUBSET (Nat \ {0})],
         listed' \in [Completers -> [Tracks -> MediaRows]],
         status' \in [Completers -> Statuses], seen' \in [Completers -> SUBSET Tracks],
         \A b \in Completers \ {c} :
           listed'[b] = listed[b] /\ status'[b] = status[b] /\ seen'[b] = seen[b],
         \A t \in Tracks : row'[t].state = "finalized" => t \in found',
         \A t \in Tracks : listed'[c][t].state = "finalized" => t \in found',
         pc'[c] \in {"finalized", "missing"} => Unresolved(c)' # {},
         pc'[c] = "finalized" => NextOf(c)' \in found',
         Vouched(c)'
  PROVE  RecordingInv'
<1>1. RecordingShape'
  BY DEF RecordingInv, RecordingShape, CompletionFrame
<1>2. \A b \in Completers \ {c} :
        /\ \A t \in Tracks : listed'[b][t].state = "finalized" => t \in found'
        /\ pc'[b] \in {"finalized", "missing"} => Unresolved(b)' # {}
        /\ pc'[b] = "finalized" => NextOf(b)' \in found'
        /\ Vouched(b)'
  BY OthersStand
<1>3. RowsFound' BY <1>2 DEF RowsFound
<1>4. ProbeFound' BY <1>2 DEF ProbeFound
<1>5. StatusFound' BY <1>2 DEF StatusFound
<1> QED BY <1>1, <1>3, <1>4, <1>5 DEF RecordingInv, FoundInv

\* What the steps below use of the state they start from.
LEMMA Before ==
  ASSUME RecordingInv, NEW c \in Completers
  PROVE  /\ RecordingShape /\ ClaimsInv /\ FoundInv /\ c \in Threads
         /\ \A t \in Tracks : row[t].state = "finalized" => t \in found
         /\ \A t \in Tracks : listed[c][t].state = "finalized" => t \in found
         /\ pc[c] \in {"finalized", "missing"} => Unresolved(c) # {}
         /\ pc[c] = "finalized" => NextOf(c) \in found
         /\ Vouched(c)
BY DifferentThreads DEF RecordingInv, FoundInv, RowsFound, ProbeFound, StatusFound

\* A completion begins: it says nothing of the media yet, or that there is
\* none by choice.
LEMMA CompleteReadsStep ==
  ASSUME RecordingInv, NEW c \in Completers, CompleteReads(c)
  PROVE  RecordingInv'
<1>1. UNCHANGED <<seal, row, running, started, mishap, found, track, job, listed, seen>>
  BY DEF CompleteReads, provider, delivering
<1>2. PICK l \in {"seal", "list", "done"} : pc' = [pc EXCEPT ![c] = l]
  BY DEF CompleteReads, Goto
<1>3. CompletionFrame(c) /\ pc'[c] = l
  BY <1>1, <1>2, Before, CompletionFramed DEF Labels
<1>4. /\ status' \in [Completers -> Statuses]
      /\ \A b \in Completers \ {c} : status'[b] = status[b]
      /\ status'[c] = "finalized" => l # "seal" /\ status[c] = "finalized"
  BY <1>2, <1>3, Before DEF CompleteReads, Goto, RecordingShape, Statuses
<1>5. Unresolved(c)' = Unresolved(c)
  BY <1>1 DEF Unresolved
<1>6. ClaimsInv' /\ SealFound'
  BY <1>1, <1>3, Before, ClaimsStand DEF FoundInv, SealFound
<1> QED BY <1>1, <1>3, <1>4, <1>5, <1>6, Before, FromCompletion DEF RecordingShape, Vouched

\* The rows as they are read: finalized ones were found, and there is one if
\* the completion starts from finalized.
LEMMA MediaTracksStep ==
  ASSUME RecordingInv, NEW c \in Completers, MediaTracks(c)
  PROVE  RecordingInv'
<1> DEFINE some == {t \in Tracks : row[t].state # "none"}
           l == IF some = {} THEN "seal" ELSE "stop"
<1>1. UNCHANGED <<seal, row, running, started, mishap, found, track, job>>
  BY DEF MediaTracks, provider, delivering
<1>2. pc' = [pc EXCEPT ![c] = l] /\ l \in Labels
  BY DEF MediaTracks, Goto, Labels
<1>3. CompletionFrame(c) /\ pc'[c] = l
  BY <1>1, <1>2, Before, CompletionFramed
<1>4. /\ listed' \in [Completers -> [Tracks -> MediaRows]] /\ listed'[c] = row
      /\ seen' \in [Completers -> SUBSET Tracks] /\ seen'[c] = some
      /\ \A b \in Completers \ {c} : listed'[b] = listed[b] /\ seen'[b] = seen[b]
  BY Before DEF MediaTracks, RecordingShape
<1>5. /\ status' \in [Completers -> Statuses]
      /\ status'[c] = (IF some = {} THEN "missing" ELSE "finalized")
      /\ \A b \in Completers \ {c} : status'[b] = status[b]
  BY Before DEF MediaTracks, RecordingShape, Statuses
<1>6. Unresolved(c)' = some
  BY <1>4 DEF Unresolved
<1>7. ClaimsInv' /\ SealFound'
  BY <1>1, <1>3, Before, ClaimsStand DEF FoundInv, SealFound
<1> HIDE DEF some
<1> QED BY <1>1, <1>3, <1>4, <1>5, <1>6, <1>7, Before, FromCompletion DEF RecordingShape, Vouched

\* What remains of a completion's rows after it has passed the next one.
LEMMA AfterPassed ==
  ASSUME RecordingInv, NEW c \in Completers, NEW t \in Tracks, Passed(c, t)
  PROVE  /\ listed' \in [Completers -> [Tracks -> MediaRows]]
         /\ \A b \in Completers \ {c} : listed'[b] = listed[b]
         /\ listed'[c][t].state # "finalized"
         /\ \A u \in Tracks \ {t} : listed'[c][u] = listed[c][u]
         /\ Unresolved(c)' = Unresolved(c) \ {t}
<1>1. listed \in [Completers -> [Tracks -> MediaRows]]
  BY DEF RecordingInv, RecordingShape
<1>2. NoRow \in MediaRows /\ NoRow.state = "none"
  BY DEF NoRow, MediaRows
<1> DEFINE after == [listed[c] EXCEPT ![t] = NoRow]
<1>3. after \in [Tracks -> MediaRows] /\ after[t] = NoRow
  BY <1>1, <1>2
<1>4. \A u \in Tracks \ {t} : after[u] = listed[c][u]
  BY <1>1
<1>5. listed' = [listed EXCEPT ![c] = after]
  BY <1>1 DEF Passed
<1> HIDE DEF after
<1>6. listed' \in [Completers -> [Tracks -> MediaRows]] /\ listed'[c] = after
  BY <1>1, <1>3, <1>5
<1>7. \A b \in Completers \ {c} : listed'[b] = listed[b]
  BY <1>1, <1>5
<1>8. Unresolved(c)' = Unresolved(c) \ {t}
  BY <1>2, <1>3, <1>4, <1>6 DEF Unresolved
<1> QED BY <1>2, <1>3, <1>4, <1>6, <1>7, <1>8

\* A track that an earlier attempt resolved is passed over: as finalized only
\* when it was found.
LEMMA AlreadyResolvedStep ==
  ASSUME RecordingInv, NEW c \in Completers, AlreadyResolved(c)
  PROVE  RecordingInv'
<1> DEFINE t == NextOf(c)
<1>1. UNCHANGED <<seal, row, running, started, mishap, found, track, job, pc, seen>>
  BY DEF AlreadyResolved, provider, delivering
<1>2. t \in Unresolved(c) /\ t \in Tracks
  BY NextIsUnresolved DEF AlreadyResolved
<1>3. Passed(c, t) /\ pc[c] = "stop" /\ listed[c][t].state # "recording"
  BY DEF AlreadyResolved
<1> HIDE DEF t
<1>4. CompletionFrame(c) /\ pc'[c] = "stop"
  BY <1>1, <1>3, Before DEF CompletionFrame, RecordingShape
<1>5. /\ status' \in [Completers -> Statuses]
      /\ status'[c] = (IF listed[c][t].state = "missing" THEN "missing" ELSE status[c])
      /\ \A b \in Completers \ {c} : status'[b] = status[b]
  BY Before DEF AlreadyResolved, RecordingShape, Statuses, t
<1>6. listed[c][t].state \in {"finalized", "missing"}
  <2>1. listed[c][t] \in MediaRows
    BY <1>2, Before DEF RecordingShape
  <2>2. listed[c][t].state # "none"
    BY <1>2 DEF Unresolved
  <2> QED BY <1>3, <2>1, <2>2 DEF MediaRows
<1>7. /\ listed' \in [Completers -> [Tracks -> MediaRows]]
      /\ \A b \in Completers \ {c} : listed'[b] = listed[b]
      /\ listed'[c][t].state # "finalized"
      /\ \A u \in Tracks \ {t} : listed'[c][u] = listed[c][u]
      /\ Unresolved(c)' = Unresolved(c) \ {t}
  BY <1>2, <1>3, AfterPassed
<1>8. ClaimsInv' /\ SealFound'
  BY <1>1, <1>4, Before, ClaimsStand DEF FoundInv, SealFound
<1>9. Vouched(c)'
  <2> SUFFICES ASSUME status'[c] = "finalized"
               PROVE  seen[c] # {} /\ seen[c] \subseteq found \cup (Unresolved(c) \ {t})
    BY <1>1, <1>4, <1>7 DEF Vouched
  <2>1. listed[c][t].state = "finalized" /\ status[c] = "finalized"
    BY <1>5, <1>6
  <2> QED BY <1>2, <2>1, Before DEF Vouched
<1>10. \A u \in Tracks : listed'[c][u].state = "finalized" => u \in found'
  BY <1>1, <1>7, Before
<1> QED BY <1>1, <1>4, <1>5, <1>7, <1>8, <1>9, <1>10, Before, FromCompletion DEF RecordingShape

\* The probe: finalized is what it read back.
LEMMA StopTrackStep ==
  ASSUME RecordingInv, NEW c \in Completers, StopTrack(c)
  PROVE  RecordingInv'
<1> DEFINE t == NextOf(c)
<1>1. UNCHANGED <<seal, row, started, mishap, track, job, listed, seen>>
  BY DEF StopTrack, delivering
<1>2. t \in Tracks /\ Unresolved(c) # {} /\ pc[c] = "stop"
  BY NextIsUnresolved DEF StopTrack
<1>3. running' = running \/ running' = [running EXCEPT ![t] = running[t] \ {listed[c][t].egress}]
  BY DEF StopTrack
<1>4. \/ found' = found \cup {t} /\ pc' = [pc EXCEPT ![c] = "finalized"] /\ status' = status
      \/ /\ found' = found /\ pc' = [pc EXCEPT ![c] = "missing"]
         /\ status' = [status EXCEPT ![c] = "missing"]
  BY DEF StopTrack, Goto
<1>5. Unresolved(c)' = Unresolved(c)
  BY <1>1 DEF Unresolved
<1>6. NextOf(c)' = t
  BY <1>5 DEF NextOf
<1> HIDE DEF t
<1>7. PICK l \in {"finalized", "missing"} : pc' = [pc EXCEPT ![c] = l]
  BY <1>4
<1>8. CompletionFrame(c) /\ pc'[c] = l
  BY <1>1, <1>7, Before, CompletionFramed DEF Labels
<1>9. /\ running' \in [Tracks -> SUBSET (Nat \ {0})]
      /\ \A u \in Tracks : running'[u] \subseteq running[u]
  <2>1. running[t] \ {listed[c][t].egress} \in SUBSET (Nat \ {0})
    BY <1>2, Before DEF RecordingShape
  <2> QED BY <1>2, <1>3, <2>1, Before DEF RecordingShape
<1>10. \A d \in Deliveries : pc'[d] = pc[d]
  BY <1>8, DifferentThreads DEF CompletionFrame
<1>11. ClaimsInv'
  BY <1>1, <1>9, <1>10, Before, ClaimsKept
<1>12. /\ found \subseteq found' /\ found' \subseteq Tracks
       /\ pc'[c] = "finalized" => t \in found'
       /\ status' \in [Completers -> Statuses]
       /\ \A b \in Completers \ {c} : status'[b] = status[b]
       /\ status'[c] = "finalized" => status[c] = "finalized" /\ pc'[c] # "missing"
  <2>1. CASE found' = found \cup {t} /\ pc' = [pc EXCEPT ![c] = "finalized"] /\ status' = status
    BY <1>2, <2>1, Before DEF RecordingShape
  <2>2. CASE /\ found' = found /\ pc' = [pc EXCEPT ![c] = "missing"]
             /\ status' = [status EXCEPT ![c] = "missing"]
    BY <1>2, <2>2, Before DEF RecordingShape, Statuses
  <2> QED BY <1>4, <2>1, <2>2
<1>13. SealFound'
  BY <1>1, <1>12, Before DEF FoundInv, SealFound
<1>14. \A u \in Tracks : row'[u].state = "finalized" => u \in found'
  BY <1>1, <1>12, Before
<1>15. \A u \in Tracks : listed'[c][u].state = "finalized" => u \in found'
  BY <1>1, <1>12, Before
<1>16. Vouched(c)'
  BY <1>1, <1>5, <1>7, <1>8, <1>12, Before DEF Vouched
<1> QED BY <1>1, <1>2, <1>5, <1>6, <1>8, <1>9, <1>11, <1>12, <1>13, <1>14, <1>15, <1>16, Before,
           FromCompletion DEF RecordingShape

\* A row is resolved once, and to finalized only after its probe.
LEMMA ResolveTrackStep ==
  ASSUME RecordingInv, NEW c \in Completers, ResolveTrack(c)
  PROVE  RecordingInv'
<1> DEFINE t == NextOf(c)
           r == ResolveMediaTrack(row[t], pc[c])
<1>1. UNCHANGED <<seal, running, started, mishap, found, track, job, status, seen>>
  BY DEF ResolveTrack, provider, delivering
<1>2. pc[c] \in {"finalized", "missing"} /\ pc' = [pc EXCEPT ![c] = "stop"]
  BY DEF ResolveTrack, Goto
<1>3. t \in Unresolved(c) /\ t \in Tracks
  BY <1>2, Before, NextIsUnresolved
<1>4. Passed(c, t) /\ row' = [row EXCEPT ![t] = r]
  BY DEF ResolveTrack
<1>5. pc[c] = "finalized" => t \in found
  BY Before
<1> HIDE DEF t
<1>6. /\ r \in MediaRows /\ r.egress = row[t].egress /\ r.age = row[t].age
      /\ row[t].state # "none" => r.state # "none"
      /\ r.state = "finalized" => row[t].state = "finalized" \/ pc[c] = "finalized"
  <2>1. row[t] \in MediaRows
    BY <1>3, Before DEF RecordingShape
  <2> QED BY <1>2, <2>1 DEF ResolveMediaTrack, MediaRows
<1> HIDE DEF r
<1>7. /\ row' \in [Tracks -> MediaRows] /\ row'[t] = r
      /\ \A u \in Tracks \ {t} : row'[u] = row[u]
  BY <1>3, <1>4, <1>6, Before DEF RecordingShape
<1>8. CompletionFrame(c) /\ pc'[c] = "stop"
  BY <1>1, <1>2, Before, CompletionFramed DEF Labels
<1>9. \A d \in Deliveries : pc'[d] = pc[d]
  BY <1>8, DifferentThreads DEF CompletionFrame
<1>10. ClaimsInv'
  BY <1>1, <1>6, <1>7, <1>9, Before, ClaimsKept
<1>11. /\ listed' \in [Completers -> [Tracks -> MediaRows]]
       /\ \A b \in Completers \ {c} : listed'[b] = listed[b]
       /\ listed'[c][t].state # "finalized"
       /\ \A u \in Tracks \ {t} : listed'[c][u] = listed[c][u]
       /\ Unresolved(c)' = Unresolved(c) \ {t}
  BY <1>3, <1>4, AfterPassed
<1>12. \A u \in Tracks : row'[u].state = "finalized" => u \in found'
  BY <1>1, <1>5, <1>6, <1>7, Before
<1>13. \A u \in Tracks : listed'[c][u].state = "finalized" => u \in found'
  BY <1>1, <1>11, Before
<1>14. SealFound'
  BY <1>1, Before DEF FoundInv, SealFound
<1>15. Vouched(c)'
  <2> SUFFICES ASSUME status[c] = "finalized"
               PROVE  seen[c] # {} /\ seen[c] \subseteq found \cup (Unresolved(c) \ {t})
    BY <1>1, <1>8, <1>11 DEF Vouched
  <2>1. pc[c] = "finalized"
    BY <1>2, Before DEF Vouched
  <2> QED BY <1>5, <2>1, Before DEF Vouched
<1> QED BY <1>1, <1>7, <1>8, <1>10, <1>11, <1>12, <1>13, <1>14, <1>15, Before,
           FromCompletion DEF RecordingShape

\* The first seal stands; it says finalized only of tracks that were found.
LEMMA SealStep ==
  ASSUME RecordingInv, NEW c \in Completers, Seal(c)
  PROVE  RecordingInv'
<1>1. UNCHANGED <<row, running, started, mishap, found, track, job, listed, status, seen>>
  BY DEF Seal, provider, delivering, completing
<1>2. pc' = [pc EXCEPT ![c] = "finalize"]
  BY DEF Seal, Goto
<1>3. CompletionFrame(c) /\ pc'[c] = "finalize"
  BY <1>1, <1>2, Before, CompletionFramed DEF Labels
<1>4. Unresolved(c)' = Unresolved(c)
  BY <1>1 DEF Unresolved
<1>5. ClaimsInv'
  BY <1>1, <1>3, ClaimsStand
<1>6. SealFound'
  <2>1. CASE seal' = seal
    BY <1>1, <2>1, Before DEF FoundInv, SealFound
  <2>2. CASE seal' = [media |-> status[c], tracks |-> seen[c]]
    <3> SUFFICES ASSUME status[c] = "finalized" PROVE seen[c] # {} /\ seen[c] \subseteq found
      BY <1>1, <2>2 DEF SealFound
    <3>1. Unresolved(c) = {}
      BY Before DEF Seal, Vouched
    <3> QED BY <3>1, Before DEF Vouched
  <2> QED BY <2>1, <2>2 DEF Seal, MediaStatus
<1>7. Vouched(c)'
  BY <1>1, <1>3, <1>4, Before DEF Vouched
<1> QED BY <1>1, <1>3, <1>5, <1>6, <1>7, Before, FromCompletion DEF RecordingShape

\* The finalizing transition touches no recording.
LEMMA FinalizeStep ==
  ASSUME RecordingInv, NEW c \in Completers, Finalize(c)
  PROVE  RecordingInv'
<1>1. UNCHANGED <<seal, row, running, started, mishap, found, track, job, listed, status, seen>>
  BY DEF Finalize, provider, delivering, completing
<1>2. pc' = [pc EXCEPT ![c] = "done"]
  BY DEF Finalize, Goto
<1>3. CompletionFrame(c) /\ pc'[c] = "done"
  BY <1>1, <1>2, Before, CompletionFramed DEF Labels
<1>4. Unresolved(c)' = Unresolved(c)
  BY <1>1 DEF Unresolved
<1>5. ClaimsInv' /\ SealFound'
  BY <1>1, <1>3, Before, ClaimsStand DEF FoundInv, SealFound
<1>6. Vouched(c)'
  BY <1>1, <1>3, <1>4, Before DEF Vouched
<1> QED BY <1>1, <1>3, <1>5, <1>6, Before, FromCompletion DEF RecordingShape

\* A completion that dies forgets what it read.
LEMMA CompletionDiesStep ==
  ASSUME RecordingInv, NEW c \in Completers, CompletionDies(c)
  PROVE  RecordingInv'
<1>1. UNCHANGED <<seal, row, running, started, mishap, found, track, job>>
  BY DEF CompletionDies, provider, delivering
<1>2. pc' = [pc EXCEPT ![c] = "idle"]
  BY DEF CompletionDies, Goto
<1>3. CompletionFrame(c) /\ pc'[c] = "idle"
  BY <1>1, <1>2, Before, CompletionFramed DEF Labels
<1> DEFINE nothing == [t \in Tracks |-> NoRow]
<1>4. nothing \in [Tracks -> MediaRows] /\ \A t \in Tracks : nothing[t].state # "finalized"
  BY DEF NoRow, MediaRows
<1>5. listed' = [listed EXCEPT ![c] = nothing]
  BY DEF CompletionDies
<1> HIDE DEF nothing
<1>6. /\ listed' \in [Completers -> [Tracks -> MediaRows]] /\ listed'[c] = nothing
      /\ \A b \in Completers \ {c} : listed'[b] = listed[b]
  BY <1>4, <1>5, Before DEF RecordingShape
<1>7. /\ status' \in [Completers -> Statuses] /\ status'[c] = "none"
      /\ seen' \in [Completers -> SUBSET Tracks]
      /\ \A b \in Completers \ {c} : status'[b] = status[b] /\ seen'[b] = seen[b]
  BY Before DEF CompletionDies, RecordingShape, Statuses
<1>8. ClaimsInv' /\ SealFound'
  BY <1>1, <1>3, Before, ClaimsStand DEF FoundInv, SealFound
<1>9. Vouched(c)'
  BY <1>7 DEF Vouched
<1>10. \A t \in Tracks : listed'[c][t].state = "finalized" => t \in found'
  BY <1>4, <1>6
<1> QED BY <1>1, <1>3, <1>4, <1>6, <1>7, <1>8, <1>9, <1>10, Before, FromCompletion DEF RecordingShape

----------------------------------------------------------------------------
(* The theorems.                                                           *)

\* The invariant holds before anything was delivered.
LEMMA InitRecording == Init => RecordingInv
<1> SUFFICES ASSUME Init PROVE RecordingInv
  OBVIOUS
<1>1. NoRow \in MediaRows /\ NoRow.state = "none" /\ NoRow.egress = 0
  BY DEF NoRow, MediaRows
<1>2. \A h \in Threads : pc[h] = "idle"
  BY DEF Init
<1>3. \A c \in Completers : pc[c] = "idle" /\ status[c] = "none"
  BY <1>2, DifferentThreads DEF Init
<1>4. \A d \in Deliveries : pc[d] = "idle"
  BY <1>2, DifferentThreads
<1>5. RecordingShape
  BY <1>1 DEF Init, RecordingShape, Labels, Statuses
<1>6. \A t \in Tracks : row[t] = NoRow /\ running[t] = {}
  BY DEF Init
<1>7. ClaimsInv
  <2>1. AtATrack /\ HeldIsYoung /\ OneHolder
    BY <1>4 DEF AtATrack, HeldIsYoung, OneHolder, Holds
  <2>2. NoEgressYet /\ RunningIsKnown
    BY <1>1, <1>6 DEF NoEgressYet, RunningIsKnown
  <2> QED BY <2>1, <2>2 DEF ClaimsInv
<1>8. RowsFound
  BY <1>1, <1>6 DEF Init, RowsFound
<1>9. ProbeFound /\ StatusFound
  BY <1>3 DEF ProbeFound, StatusFound, Vouched
<1>10. SealFound
  BY DEF Init, NoSeal, SealFound
<1> QED BY <1>5, <1>7, <1>8, <1>9, <1>10 DEF RecordingInv, FoundInv

\* Every step of a delivery, of the provider and of a completion keeps it.
LEMMA NextRecording ==
  ASSUME RecordingInv, [Next]_vars
  PROVE  RecordingInv'
<1>1. ASSUME NEW d \in Deliveries,
             \/ Deliver(d) \/ ClaimReads(d) \/ ClaimMediaTrack(d) \/ StartTrack(d)
             \/ ReleaseClaim(d) \/ RecordEgress(d) \/ DeliveryDies(d)
      PROVE  RecordingInv'
  BY <1>1, DeliverStep, ClaimReadsStep, ClaimMediaTrackStep, StartTrackStep, ReleaseClaimStep,
     RecordEgressStep, DeliveryDiesStep
<1>2. ASSUME NEW t \in Tracks, ClaimAges(t) \/ EgressEnds(t) PROVE RecordingInv'
  BY <1>2, ProviderStep
<1>3. ASSUME NEW c \in Completers,
             \/ CompleteReads(c) \/ MediaTracks(c) \/ AlreadyResolved(c) \/ StopTrack(c)
             \/ ResolveTrack(c) \/ Seal(c) \/ Finalize(c) \/ CompletionDies(c)
      PROVE  RecordingInv'
  BY <1>3, CompleteReadsStep, MediaTracksStep, AlreadyResolvedStep, StopTrackStep,
     ResolveTrackStep, SealStep, FinalizeStep, CompletionDiesStep
<1>4. CASE UNCHANGED vars
  <2>1. UNCHANGED <<seal, row, running, started, mishap, found, pc, track, job, listed, status, seen>>
    BY <1>4 DEF vars, provider, delivering, completing
  <2>2. RecordingShape'
    BY <2>1 DEF RecordingInv, RecordingShape
  <2>3. ClaimsInv'
    BY <2>1, ClaimsKept DEF RecordingInv
  <2>4. FoundInv'
    BY <2>1, FoundKept DEF RecordingInv
  <2> QED BY <2>2, <2>3, <2>4 DEF RecordingInv
<1> QED BY <1>1, <1>2, <1>3, <1>4 DEF Next

\* What the deliveries, the provider and the completions keep between them:
\* a claim has one holder and is young while it is held, what runs is in its
\* row or in its holder's hand, and finalized is said of what was found.
THEOREM RecordingInvariant == Spec => []RecordingInv
BY InitRecording, NextRecording, PTL DEF Spec

\* However often session_started is delivered, and wherever a delivery fails,
\* dies or is taken over, a track has one egress and the platform knows it,
\* unless a start's answer or its record was lost (claimTrack,
\* Recorder.StartTrack, recordEgress).
THEOREM OneEgressPerTrack == Spec => []OneKnownEgress
<1>1. RecordingInv => OneKnownEgress
  <2> SUFFICES ASSUME RecordingInv, NEW t \in Tracks, t \notin mishap
               PROVE  /\ \A n, m \in running[t] : n = m
                      /\ \A n \in running[t] :
                           row[t].egress = n \/ \E d \in Deliveries : Recording(d, t, n)
    BY DEF OneKnownEgress
  <2>1. \A n \in running[t] :
          row[t].egress = n \/ \E d \in Deliveries : Recording(d, t, n)
    BY DEF RecordingInv, ClaimsInv, RunningIsKnown
  <2>2. \A n \in running[t] : n # 0
    BY DEF RecordingInv, RecordingShape
  <2>3. ASSUME NEW d \in Deliveries, NEW n \in running[t], Recording(d, t, n)
        PROVE  Holds(d) /\ track[d] = t /\ job[d] = n /\ row[t].egress = 0
    BY <2>3 DEF RecordingInv, ClaimsInv, HeldIsYoung, Holds, Recording
  <2>4. \A n, m \in running[t] : n = m
    <3> SUFFICES ASSUME NEW n \in running[t], NEW m \in running[t] PROVE n = m
      OBVIOUS
    <3>1. CASE row[t].egress # 0
      BY <2>1, <2>3, <3>1
    <3>2. CASE row[t].egress = 0
      <4>1. PICK d \in Deliveries : Recording(d, t, n)
        BY <2>1, <2>2, <3>2
      <4>2. PICK e \in Deliveries : Recording(e, t, m)
        BY <2>1, <2>2, <3>2
      <4>3. d = e
        BY <4>1, <4>2, <2>3 DEF RecordingInv, ClaimsInv, OneHolder
      <4> QED BY <4>1, <4>2, <4>3 DEF Recording
    <3> QED BY <3>1, <3>2
  <2> QED BY <2>1, <2>4
<1> QED BY <1>1, RecordingInvariant, PTL

\* What a row or the seal calls finalized was read back from the store, for
\* every track the sealing completion knew of, whatever completions race,
\* retry or die between their reads and their writes (FinalizeRecording,
\* ResolveMediaTrack, InsertSeal).
THEOREM FinalizedIsReadBack == Spec => []FinalizedWasFound
<1>1. RecordingInv => FinalizedWasFound
  BY DEF RecordingInv, FoundInv, RowsFound, SealFound, FinalizedWasFound
<1> QED BY <1>1, RecordingInvariant, PTL

============================================================================
