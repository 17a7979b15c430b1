----------------------------- MODULE GraceTimer -----------------------------
(***************************************************************************)
(* The arithmetic of the reconnection grace window (grace.go, and the      *)
(* worker's grace_route.go): when a session that dropped is finalized, and *)
(* by which timer.  LiveSession has the same timers with the clock         *)
(* abstracted away; here the clock is explicit and runs TicksPerSecond to  *)
(* the second, because the timer sleeps whole seconds and the database     *)
(* does not.  The platform's clock and the database's are one clock.       *)
(*                                                                         *)
(* A drop and a return are what the fold of an ingested batch makes of     *)
(* connection.lost and connection.established.  Both may happen within one *)
(* connection epoch: an unconfirmed connection.lost is renumbered into the *)
(* next epoch and folded there, before that epoch's established event.     *)
(*                                                                         *)
(* A run is one execution of the ExpireGrace activity.  It reads the row   *)
(* itself, then complete reads it again, seals it and moves it to          *)
(* finalizing, each in a transaction of its own.  The workflow gives a run *)
(* up when its worker dies or it takes too long; a run given up may still  *)
(* be going.  The interruption fact a run records, and the completions the *)
(* candidate asks for, are in LiveSession.                                 *)
(***************************************************************************)
EXTENDS Integers

CONSTANTS
  GraceSeconds,     \* TimingPolicy.ReconnectGraceSeconds, stamped at start
  TicksPerSecond,   \* the clock's resolution
  MaxTries,         \* RetryPolicy.MaximumAttempts of the activities
  Faults,           \* whether activities die, time out and fail
  MaxEpoch,         \* bound: connection epochs
  MaxDrops,         \* bound: drops
  MaxTime           \* bound: ticks of the clock

ASSUME GraceAssumption ==
  /\ GraceSeconds \in Nat /\ TicksPerSecond \in Nat \ {0}
  /\ MaxTries \in Nat \ {0} /\ Faults \in BOOLEAN
  /\ MaxEpoch \in Nat \ {0} /\ MaxDrops \in Nat /\ MaxTime \in Nat

VARIABLES
  now,                                         \* the clock
  state, changedAt, changedIn, version, epoch, \* the sessions row; changedIn: its epoch at the last move
  sealed,     \* the epoch of the completion_seals row, 0 without one
  resuming,   \* epochs that resumes have read the row for and not yet begun
  pending,    \* attempts named by undelivered session_interrupted events
  phase,      \* per attempt: how far its GraceWorkflow is
  wake,       \* per attempt: when its sleep ends
  tries,      \* per attempt: runs of its ExpireGrace so far
  at,         \* per run: the next thing it does
  asked,      \* per run: the epoch its own read found
  read,       \* per run: the version complete's read found
  \* for the properties only
  goneAt,     \* when the candidate was last in progress
  drops,      \* per attempt: drops announced for it
  dropped,    \* the attempt announced by the latest drop
  short,      \* per attempt: ticks its timer was early when it stood down
  gaveUp,     \* attempts whose timer failed for good
  raced,      \* runs with a return of the asked epoch between their two reads
  by          \* the run that finalized

row == <<state, changedAt, changedIn, version, epoch>>
timers == <<phase, wake, tries, short, gaveUp>>
runs == <<at, asked, read>>
drop == <<drops, dropped>>
vars == <<now, row, sealed, resuming, pending, timers, runs, goneAt, drop, raced, by>>

Epochs == 1 .. MaxEpoch
Runs == Epochs \X (1 .. MaxTries)
NoRun == <<0, 0>>
Window == GraceSeconds * TicksPerSecond
Deadline == changedAt + Window

\* time.Until(deadline).Seconds() truncated to whole seconds, zero when due.
Remaining ==
  IF now < Deadline THEN (Deadline - now) \div TicksPerSecond ELSE 0

Init ==
  /\ now = 0
  /\ state = "in_progress" /\ changedAt = 0 /\ changedIn = 1 /\ version = 0 /\ epoch = 1
  /\ sealed = 0 /\ resuming = {} /\ pending = {}
  /\ phase = [e \in Epochs |-> "none"] /\ wake = [e \in Epochs |-> 0]
  /\ tries = [e \in Epochs |-> 0] /\ short = [e \in Epochs |-> 0] /\ gaveUp = {}
  /\ at = [r \in Runs |-> "none"] /\ asked = [r \in Runs |-> 0] /\ read = [r \in Runs |-> 0]
  /\ goneAt = 0 /\ drops = [e \in Epochs |-> 0] /\ dropped = 0
  /\ raced = {} /\ by = NoRun

Tick ==
  /\ now < MaxTime
  /\ now' = now + 1
  /\ goneAt' = IF state = "in_progress" THEN now' ELSE goneAt
  /\ UNCHANGED <<row, sealed, resuming, pending, timers, runs, drop, raced, by>>

\* TransitionSession: the version counts the moves.
Move(to) ==
  /\ state' = to /\ changedAt' = now /\ changedIn' = epoch /\ version' = version + 1
  /\ UNCHANGED epoch

\* connection.lost folded: reconnecting from now on, and announced under the
\* epoch the ingest read, which a takeover may have left behind.
Drop(e) ==
  /\ state = "in_progress" /\ e \in changedIn .. epoch /\ version < 2 * MaxDrops
  /\ Move("reconnecting")
  /\ pending' = pending \cup {e}
  /\ drops' = [drops EXCEPT ![e] = @ + 1] /\ dropped' = e
  /\ UNCHANGED <<now, sealed, resuming, timers, runs, goneAt, raced, by>>

\* connection.established folded.
Return ==
  /\ state = "reconnecting"
  /\ Move("in_progress") /\ goneAt' = now
  /\ raced' = raced \cup {r \in Runs : at[r] = "checked" /\ asked[r] = epoch}
  /\ UNCHANGED <<now, sealed, resuming, pending, timers, runs, drop, by>>

\* Resume: refused once the window of a reconnecting session has lapsed.
ResumeRead ==
  /\ epoch < MaxEpoch
  /\ \/ state = "in_progress"
     \/ state = "reconnecting" /\ now <= Deadline
  /\ resuming' = resuming \cup {epoch + 1}
  /\ UNCHANGED <<now, row, sealed, pending, timers, runs, goneAt, drop, raced, by>>

\* BeginAttempt: the takeover compares epochs and nothing else.
Takeover(e) ==
  /\ e \in resuming
  /\ resuming' = resuming \ {e}
  /\ epoch' = IF epoch < e THEN e ELSE epoch
  /\ UNCHANGED <<now, state, changedAt, changedIn, version, sealed, pending, timers, runs,
                 goneAt, drop, raced, by>>

\* Mutant: the workflow is named after the session alone.
StartPerSession(e) == \A d \in Epochs : phase[d] = "none"

\* REJECT_DUPLICATE: an attempt's workflow is started once, ever.
Startable(e) == phase[e] = "none"

\* startGraceTimer, on an announcement the outbox may deliver again.
Deliver(e) ==
  /\ e \in pending
  /\ pending' \in {pending, pending \ {e}}
  /\ phase' = [phase EXCEPT ![e] = IF Startable(e) THEN "started" ELSE @]
  /\ UNCHANGED <<now, row, sealed, resuming, wake, tries, short, gaveUp, runs, goneAt, drop, raced, by>>

\* RemainingGrace, and the sleep it decides.
Check(e) ==
  /\ phase[e] = "started"
  /\ phase' = [phase EXCEPT ![e] = IF state = "reconnecting" THEN "asleep" ELSE "done"]
  /\ wake' = [wake EXCEPT ![e] = now + Remaining * TicksPerSecond]
  /\ UNCHANGED <<now, row, sealed, resuming, pending, tries, short, gaveUp, runs, goneAt, drop, raced, by>>

(***************************************************************************)
(* The runs of ExpireGrace                                                 *)
(***************************************************************************)
Due == state = "reconnecting" /\ now >= Deadline

\* ExpireGrace's own read, the first time or on a retry: go on to complete, or
\* stand down for good.
Expire(e) ==
  /\ phase[e] = "asleep" /\ now >= wake[e]
  /\ tries' = [tries EXCEPT ![e] = @ + 1]
  /\ \/ /\ Due
        /\ phase' = [phase EXCEPT ![e] = "expiring"]
        /\ at' = [at EXCEPT ![<<e, tries'[e]>>] = "checked"]
        /\ asked' = [asked EXCEPT ![<<e, tries'[e]>>] = epoch]
        /\ UNCHANGED short
     \/ /\ ~Due
        /\ phase' = [phase EXCEPT ![e] = "done"]
        /\ short' = [short EXCEPT ![e] = IF state = "reconnecting" THEN Deadline - now ELSE 0]
        /\ UNCHANGED <<at, asked>>
  /\ UNCHANGED <<now, row, sealed, resuming, pending, wake, gaveUp, read, goneAt, drop, raced, by>>

\* The workflow waits for its latest run, unless it gave that up.
Awaited(r) == phase[r[1]] = "expiring" /\ tries[r[1]] = r[2]

\* A run that is over keeps no copy of the row.
Over(r) ==
  /\ at' = [at EXCEPT ![r] = "over"]
  /\ asked' = [asked EXCEPT ![r] = 0]
  /\ read' = [read EXCEPT ![r] = 0]

\* An activity that answers without an error ends the workflow.
Succeeds(r) ==
  /\ Over(r)
  /\ phase' = [phase EXCEPT ![r[1]] = IF Awaited(r) THEN "done" ELSE @]
  /\ UNCHANGED gaveUp

\* Temporal runs it again, until MaximumAttempts.
Retry(e) ==
  /\ phase' = [phase EXCEPT ![e] = IF tries[e] < MaxTries THEN "asleep" ELSE "done"]
  /\ gaveUp' = IF tries[e] < MaxTries THEN gaveUp ELSE gaveUp \cup {e}

Errs(r) ==
  /\ Over(r)
  /\ IF Awaited(r) THEN Retry(r[1]) ELSE UNCHANGED <<phase, gaveUp>>

\* Mutant: the completion does not compare the epoch it was asked for.
AcceptsAnyEpoch(r) == state # "ended"

\* The states completion applies to, in the epoch asked for.
Accepts(r) == state # "ended" /\ asked[r] = epoch

\* complete's read.  A sealed session answers its receipt, or a conflict when
\* the cursor asked for is another one (the cursor is left out here).
CompleteRead(r) ==
  /\ at[r] = "checked"
  /\ \/ /\ sealed = 0 /\ Accepts(r)
        /\ at' = [at EXCEPT ![r] = "seal"]
        /\ read' = [read EXCEPT ![r] = version]
        /\ UNCHANGED <<asked, phase, gaveUp>>
     \/ sealed = asked[r] /\ Succeeds(r)
     \/ (sealed # 0 \/ ~Accepts(r)) /\ Errs(r)
  /\ UNCHANGED <<now, row, sealed, resuming, pending, wake, tries, short, goneAt, drop, raced, by>>

\* The first seal stands, a second one is not an error.
Seal(r) ==
  /\ at[r] = "seal"
  /\ sealed' = IF sealed = 0 THEN asked[r] ELSE sealed
  /\ at' = [at EXCEPT ![r] = "finalize"]
  /\ UNCHANGED <<now, row, resuming, pending, timers, asked, read, goneAt, drop, raced, by>>

\* The guarded move.  A stale version is swallowed.
Finalize(r) ==
  /\ at[r] = "finalize"
  /\ Succeeds(r)
  /\ \/ read[r] = version /\ Move("ended") /\ by' = r
     \/ read[r] # version /\ UNCHANGED <<row, by>>
  /\ UNCHANGED <<now, sealed, resuming, pending, wake, tries, short, goneAt, drop, raced>>

\* A worker dies under a run.
Die(r) ==
  /\ Faults
  /\ at[r] \in {"checked", "seal", "finalize"}
  /\ Over(r)
  /\ UNCHANGED <<now, row, sealed, resuming, pending, timers, goneAt, drop, raced, by>>

\* StartToCloseTimeout: the workflow waits no longer, whatever the run does.
TimeOut(e) ==
  /\ Faults
  /\ phase[e] = "expiring"
  /\ Retry(e)
  /\ UNCHANGED <<now, row, sealed, resuming, pending, wake, tries, short, runs, goneAt, drop, raced, by>>

\* Every attempt of an activity failed before it read the row.
Fail(e) ==
  /\ Faults
  /\ phase[e] = "started" \/ (phase[e] = "asleep" /\ now >= wake[e])
  /\ phase' = [phase EXCEPT ![e] = "done"]
  /\ gaveUp' = gaveUp \cup {e}
  /\ UNCHANGED <<now, row, sealed, resuming, pending, wake, tries, short, runs, goneAt, drop, raced, by>>

Next ==
  \/ Tick \/ Return \/ ResumeRead
  \/ \E e \in Epochs :
       \/ Drop(e) \/ Takeover(e) \/ Deliver(e)
       \/ Check(e) \/ Expire(e) \/ TimeOut(e) \/ Fail(e)
  \/ \E r \in Runs : CompleteRead(r) \/ Seal(r) \/ Finalize(r) \/ Die(r)

Spec == Init /\ [][Next]_vars

----------------------------------------------------------------------------

\* A timer finalizes a session only when the candidate has been gone for the
\* whole stamped window, whichever of the earlier drops the timer was started
\* for, however late it runs and however often it is tried again: a return
\* makes complete refuse (another epoch) or its transition stale (another
\* version).  One race remains: a return folded in the very epoch that
\* ExpireGrace read, after that read and before complete's own, which accepts
\* a session in progress (grace.go:96, complete.go:162).
WholeWindow == state = "ended" => now - goneAt >= Window \/ by \in raced

\* grace.go: a session that resumed is left alone.
ResumedIsLeftAlone == state = "ended" => now - goneAt >= Window

\* A reconnecting session nobody will finalize: no announcement on its way,
\* no timer and no run of one going.
Parked ==
  /\ state = "reconnecting" /\ pending = {}
  /\ \A e \in Epochs : phase[e] \in {"none", "done"}
  /\ \A r \in Runs : at[r] \in {"none", "over"}

\* A lapsed window is finalized "rather than leaving the session parked in
\* reconnecting forever" (grace.go).
NotParked == ~Parked

\* There are four ways to be parked and no fifth.  The attempt that dropped
\* had dropped before, and its one timer is spent; its timer woke within the
\* second before the deadline and stood down; its timer failed as often as an
\* activity is attempted; or a completion sealed the session and its
\* transition was lost, to a stale version or to a death.
ParkedIsExplained ==
  Parked => \/ drops[dropped] > 1
            \/ short[dropped] \in 1 .. TicksPerSecond - 1
            \/ dropped \in gaveUp
            \/ sealed # 0
=============================================================================
