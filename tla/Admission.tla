----------------------------- MODULE Admission -----------------------------
(***************************************************************************)
(* Admitting interviews of one workspace (interview/start.go, the timing   *)
(* stamp of resume.go, billing/ledger.go): the start command reads the     *)
(* session, reserves a unit of the workspace's quota in the ledger, moves  *)
(* the session to connecting and stamps the timing policy in force, each   *)
(* in a transaction of its own.  Starts race each other, resumes, changes  *)
(* of the quota, credits and publications of a timing policy, and any of   *)
(* them may die between two transactions and be asked for again.           *)
(*                                                                         *)
(* The reservation keeps its statements apart (lock, count, insert),       *)
(* because the row lock is what serialises them.                           *)
(***************************************************************************)
EXTENDS Naturals, FiniteSets

CONSTANTS
  Interviews,   \* screening sessions of the workspace, composed and ready
  Starts,       \* start requests
  Resumes,      \* resume requests
  Limits,       \* session limits the operator may set
  MaxRetries,   \* bound: requests asked for again
  MaxChanges,   \* bound: changes of the quota
  MaxPolicy,    \* bound: timing policies published
  NoQuota,      \* no quota row
  Unlimited,    \* a quota row with no limit
  NoOne         \* no session, no request

ASSUME AdmissionAssumption ==
  /\ Limits \subseteq Nat
  /\ MaxRetries \in Nat /\ MaxChanges \in Nat /\ MaxPolicy \in Nat \ {0}
  /\ Starts \cap Resumes = {} /\ NoOne \notin Starts \cup Interviews
  /\ NoQuota # Unlimited /\ NoQuota \notin Limits /\ Unlimited \notin Limits
  /\ IsFiniteSet(Interviews) /\ IsFiniteSet(Starts)

VARIABLES
  standing,     \* per session: ready or connecting
  entries,      \* the ledger: <<session, kind>>, unique
  quota,        \* the quota row: absent, unlimited, or its limit
  quotaLock,    \* the request that holds the row lock
  changes,      \* changes of the quota so far
  floor,        \* the usage that stood when the quota was set (history)
  slack,        \* the starts past the count when the quota was set (history)
  policy,       \* the timing policy in force
  stamp,        \* per session: the policy stamped on it, 0 for none
  stage,        \* per request: the next step
  target,       \* per request: the session it names
  held,         \* per request: the policy it has read
  told,         \* per session: the policies its clients were answered (history)
  unstamped,    \* per session: the requests that found it without a stamp (history)
  abandoned,    \* sessions a start died on after it reserved (history)
  retries       \* requests asked for again so far

Requests == Starts \cup Resumes
metering == <<entries, quota, quotaLock, changes, floor, slack>>
timing == <<policy, stamp, told, unstamped>>
admissionVars == <<standing, metering, timing, stage, target, held, abandoned, retries>>

AdmissionInit ==
  /\ standing = [s \in Interviews |-> "ready"]
  /\ entries = {} /\ quota = NoQuota /\ quotaLock = NoOne /\ changes = 0
  /\ floor = 0 /\ slack = 0
  /\ policy = 1 /\ stamp = [s \in Interviews |-> 0] /\ told = [s \in Interviews |-> {}]
  /\ unstamped = [s \in Interviews |-> {}]
  /\ stage = [h \in Requests |-> "idle"]
  /\ target = [h \in Requests |-> NoOne]
  /\ held = [h \in Requests |-> 0]
  /\ abandoned = {} /\ retries = 0

Reaches(h, label) == stage' = [stage EXCEPT ![h] = label]

\* The request is over, or its process is gone.
Leaves(h, label) ==
  /\ stage' = [stage EXCEPT ![h] = label]
  /\ target' = [target EXCEPT ![h] = NoOne]
  /\ held' = [held EXCEPT ![h] = 0]

\* The usage entries of one kind.
Of(kind) == {e \in entries : e[2] = kind}

\* CountBillableStarts: what counts against the quota.
Billable == Cardinality(Of("session_started")) - Cardinality(Of("start_credited"))

----------------------------------------------------------------------------
(* Starter.Start                                                           *)

\* The read of the session: only a ready one goes on.  (Practice would skip
\* the reservation.)
StartBegins(h, s) ==
  /\ stage[h] = "idle"
  /\ \/ standing[s] # "ready" /\ Leaves(h, "refused")
     \/ /\ standing[s] = "ready"
        /\ target' = [target EXCEPT ![h] = s]
        /\ Reaches(h, "reserve") /\ UNCHANGED held
  /\ UNCHANGED <<standing, metering, timing, abandoned, retries>>

\* Mutant: the row is read without FOR UPDATE.
UnlockedRead(h) == quotaLock' = quotaLock

\* LockQuota, where there is a row.
LockQuota(h) == quotaLock = NoOne /\ quotaLock' = h

\* ReserveStart, to the lock: no row is unlimited and takes no lock.
ReserveLocks(h) ==
  /\ stage[h] = "reserve"
  /\ \/ quota = NoQuota /\ Reaches(h, "insert") /\ UNCHANGED quotaLock
     \/ quota = Unlimited /\ Reaches(h, "insert") /\ LockQuota(h)
     \/ quota \in Limits /\ Reaches(h, "count") /\ LockQuota(h)
  /\ UNCHANGED <<standing, entries, quota, changes, floor, slack, timing, target, held, abandoned, retries>>

Unlock(h) == quotaLock' = IF quotaLock = h THEN NoOne ELSE quotaLock

\* The comparison that refuses a start.
AtLimit(billable, limit) == billable >= limit

ReserveCounts(h) ==
  /\ stage[h] = "count"
  /\ IF AtLimit(Billable, quota)
       THEN Reaches(h, "exhausted") /\ Unlock(h)
       ELSE Reaches(h, "insert") /\ UNCHANGED quotaLock
  /\ UNCHANGED <<standing, entries, quota, changes, floor, slack, timing, target, held, abandoned, retries>>

\* Mutant: the entry is written for every session of the workspace.
MetersAll(s, kind) == entries \cup (Interviews \X {kind})

\* InsertUsageEntry: unique per session and kind, so a second one changes
\* nothing and is answered ALREADY_METERED.
InsertUsageEntry(s, kind) == entries \cup {<<s, kind>>}

\* The entry is the reservation; ALREADY_METERED is taken for one.
ReserveInserts(h) ==
  /\ stage[h] = "insert"
  /\ entries' = InsertUsageEntry(target[h], "session_started")
  /\ Unlock(h) /\ Reaches(h, "transition")
  /\ UNCHANGED <<standing, quota, changes, floor, slack, timing, target, held, abandoned, retries>>

\* What the start has done before its transition.
Reserved(h) == stage[h] = "transition"

\* Transition to connecting: a stale version is somebody else's start.
StartTransitions(h) ==
  /\ Reserved(h)
  /\ LET s == target[h] IN
       IF standing[s] = "ready"
         THEN /\ standing' = [standing EXCEPT ![s] = "connecting"]
              /\ Reaches(h, "policy") /\ UNCHANGED <<target, held>>
         ELSE UNCHANGED standing /\ Leaves(h, "refused")
  /\ UNCHANGED <<metering, timing, abandoned, retries>>

----------------------------------------------------------------------------
(* The timing policy: CurrentTimingPolicy, StampTimingPolicy, timingOf.    *)

\* Resumer.Resume, as far as its timing goes: a session already stamped is
\* answered its stamp, read in the transaction that read the session.
ResumeReads(h, s) ==
  /\ stage[h] = "idle" /\ standing[s] = "connecting"
  /\ \/ /\ stamp[s] > 0
        /\ told' = [told EXCEPT ![s] = @ \cup {stamp[s]}]
        /\ Leaves(h, "done")
     \/ /\ stamp[s] = 0
        /\ target' = [target EXCEPT ![h] = s]
        /\ Reaches(h, "policy") /\ UNCHANGED <<told, held>>
  /\ UNCHANGED <<standing, metering, policy, stamp, unstamped, abandoned, retries>>

\* CurrentTimingPolicy
ReadPolicy(h) ==
  /\ stage[h] = "policy"
  /\ held' = [held EXCEPT ![h] = policy]
  /\ unstamped' = [unstamped EXCEPT ![target[h]] = @ \cup {h}]
  /\ Reaches(h, "stamp")
  /\ UNCHANGED <<standing, metering, policy, stamp, told, target, abandoned, retries>>

\* Mutant: the stamp is never committed.
NeverStamps(s, p) == stamp

\* StampTimingPolicy: the first write wins.
StampTimingPolicy(s, p) == IF stamp[s] = 0 THEN [stamp EXCEPT ![s] = p] ELSE stamp

\* The stamp, and the answer: the policy read, whoever's stamp stands.
StampAndAnswer(h) ==
  /\ stage[h] = "stamp"
  /\ LET s == target[h] IN
       /\ stamp' = StampTimingPolicy(s, held[h])
       /\ told' = [told EXCEPT ![s] = @ \cup {held[h]}]
  /\ Leaves(h, "done")
  /\ UNCHANGED <<standing, metering, policy, unstamped, abandoned, retries>>

----------------------------------------------------------------------------
(* The rest of the world.                                                  *)

AskedAgain == retries < MaxRetries /\ retries' = retries + 1

\* The process dies or a transaction fails: its lock is released, and the
\* client asks again.
RequestDies(h) ==
  /\ stage[h] \notin {"idle", "done", "refused", "exhausted"} /\ AskedAgain
  /\ abandoned' = IF h \in Starts /\ stage[h] = "transition"
                    THEN abandoned \cup {target[h]} ELSE abandoned
  /\ Unlock(h) /\ Leaves(h, "idle")
  /\ UNCHANGED <<standing, entries, quota, changes, floor, slack, timing>>

\* A refused start may be asked for again.
AskAgain(h) ==
  /\ stage[h] = "exhausted" /\ AskedAgain
  /\ Leaves(h, "idle")
  /\ UNCHANGED <<standing, metering, timing, abandoned>>

\* SetQuota: an upsert, which waits for the row's lock.  A start that found
\* no row, or no limit, is already past the count.
SetQuota(q) ==
  /\ changes < MaxChanges /\ q # quota
  /\ quotaLock = NoOne
  /\ quota' = q /\ changes' = changes + 1
  /\ floor' = Billable
  /\ slack' = Cardinality({h \in Starts : stage[h] = "insert"})
  /\ UNCHANGED <<standing, entries, quotaLock, timing, stage, target, held, abandoned, retries>>

\* CreditStart: only a start that was metered, once.
CreditStart(s) ==
  /\ <<s, "session_started">> \in entries /\ <<s, "start_credited">> \notin entries
  /\ entries' = InsertUsageEntry(s, "start_credited")
  /\ UNCHANGED <<standing, quota, quotaLock, changes, floor, slack, timing, stage, target, held, abandoned, retries>>

\* A new row of timing_policies.
PublishPolicy ==
  /\ policy < MaxPolicy
  /\ policy' = policy + 1
  /\ UNCHANGED <<standing, metering, stamp, told, unstamped, stage, target, held, abandoned, retries>>

AdmissionNext ==
  \/ \E h \in Starts, s \in Interviews : StartBegins(h, s)
  \/ \E h \in Starts :
       \/ ReserveLocks(h) \/ ReserveCounts(h) \/ ReserveInserts(h)
       \/ StartTransitions(h) \/ AskAgain(h)
  \/ \E h \in Resumes, s \in Interviews : ResumeReads(h, s)
  \/ \E h \in Requests : ReadPolicy(h) \/ StampAndAnswer(h) \/ RequestDies(h)
  \/ \E q \in Limits \cup {Unlimited} : SetQuota(q)
  \/ \E s \in Interviews : CreditStart(s)
  \/ PublishPolicy

AdmissionSpec == AdmissionInit /\ [][AdmissionNext]_admissionVars
----------------------------------------------------------------------------
AdmissionTypeOK ==
  /\ standing \in [Interviews -> {"ready", "connecting"}]
  /\ entries \subseteq Interviews \X {"session_started", "start_credited"}
  /\ quota \in Limits \cup {NoQuota, Unlimited} /\ quotaLock \in Starts \cup {NoOne}
  /\ changes \in 0 .. MaxChanges /\ floor \in Nat /\ slack \in Nat
  /\ policy \in 1 .. MaxPolicy /\ stamp \in [Interviews -> 0 .. MaxPolicy]
  /\ told \in [Interviews -> SUBSET (1 .. MaxPolicy)]
  /\ unstamped \in [Interviews -> SUBSET Requests]
  /\ stage \in [Requests -> {"idle", "reserve", "count", "insert", "transition", "policy",
                             "stamp", "done", "refused", "exhausted"}]
  /\ target \in [Requests -> Interviews \cup {NoOne}]
  /\ held \in [Requests -> 0 .. MaxPolicy]
  /\ abandoned \subseteq Interviews
  /\ retries \in 0 .. MaxRetries

\* However starts, retries, credits and quota changes interleave, the usage
\* that counts never passes the limit, except by what stood or was already
\* past the count when the limit was set (ReserveStart's row lock).
WithinLimit ==
  quota \in Limits => Billable <= quota + slack \/ Billable <= floor + slack

\* An interview that started is metered, and a unit is spent on one that has
\* not only while a start is on its way to the transition, or because one
\* died there (Starter.Start, ReserveStart).
MeteredIsStarted ==
  \A s \in Interviews :
    /\ standing[s] = "connecting" => <<s, "session_started">> \in entries
    /\ <<s, "session_started">> \in entries /\ standing[s] = "ready" =>
         s \in abandoned \/ \E h \in Starts : stage[h] = "transition" /\ target[h] = s

\* The client counts down by the policy that governs its session, unless a
\* start and a resume both found the session without a stamp: then both
\* answer the policy they read and one of them is wrong (start.go, timingOf).
ToldIsStamped ==
  \A s \in Interviews :
    Cardinality(unstamped[s]) <= 1 => \A p \in told[s] : p = stamp[s]

\* "Re-reserving the same session is ErrAlreadyMetered, which a retrying
\* caller treats as success already achieved" (ledger.go, ReserveStart).
RetryOwnsReservation ==
  \A h \in Starts : stage[h] = "exhausted" => <<target[h], "session_started">> \notin entries
=============================================================================
