-------------------------- MODULE ProgressionStore --------------------------
(***************************************************************************)
(* What progression keeps of its readings: readiness snapshots, one per    *)
(* answer, and the milestones of a goal, one per band (readiness_store.go, *)
(* goals_store.go and their tables).  Readiness is computed from a history *)
(* read in one transaction and saved in another, possibly after another    *)
(* computation or another publication of the standard.  Goals are tracked  *)
(* in one READ COMMITTED transaction of several statements, each of which  *)
(* sees what was committed when it ran.                                    *)
(*                                                                         *)
(* One goal and one standard, both about the first competency.             *)
(***************************************************************************)
EXTENDS Progression

CONSTANTS
  Savers,       \* callers that compute a readiness and save it
  Trackers,     \* callers of TrackGoals
  Targets,      \* the target band of each version of the standard
  MaxComputed,  \* bound: readinesses computed
  MaxTracked    \* bound: goal trackings begun

VARIABLES
  standard,    \* the version of the standard that is published
  saver,       \* per saver: the answer in hand
  computed,    \* readinesses computed
  snapshots,   \* the snapshots stored
  newest,      \* the latest computed answer that was saved, a history variable
  goal,        \* the goal's status, "none" before it is set
  tracker,     \* per tracker: its step and what it has read
  tracked,     \* trackings begun
  milestones   \* per band: the reading that earned it, 0 if none

readinessVars == <<standard, saver, computed, snapshots, newest>>
goalVars == <<goal, tracker, tracked, milestones>>
storeVars == <<observations, readinessVars, goalVars>>

Subject == Catalogue[1]
NoAnswer == [answer |-> <<0, "none">>, at |-> 0]

StoreInit ==
  /\ ProgressionInit
  /\ standard = 1 /\ saver = [s \in Savers |-> NoAnswer] /\ computed = 0
  /\ snapshots = {} /\ newest = NoAnswer
  /\ goal = "none" /\ tracker = [t \in Trackers |-> [step |-> "idle"]] /\ tracked = 0
  /\ milestones = [b \in Bands |-> 0]

\* The worker appends what an evaluation published, or a correction of it.
Observe == AppendObservation /\ UNCHANGED <<readinessVars, goalVars>>

-----------------------------------------------------------------------------
(* Readiness.                                                              *)

\* The registry publishes another version of the standard, or rolls back.
PublishStandard ==
  /\ \E v \in DOMAIN Targets \ {standard} : standard' = v
  /\ UNCHANGED <<observations, saver, computed, snapshots, newest, goalVars>>

\* The history is read and the answer worked out: the pin and the outcome.
ComputeReadiness(s) ==
  /\ saver[s] = NoAnswer /\ computed < MaxComputed
  /\ computed' = computed + 1
  /\ \E history \in Listings :
       saver' = [saver EXCEPT ![s] =
         [answer |-> <<standard, Outcome(Subject, Targets[standard], history)>>, at |-> computed + 1]]
  /\ UNCHANGED <<observations, standard, snapshots, newest, goalVars>>

\* Mutation: a snapshot per version of the standard.
SnapshotPerPin(held) ==
  IF \E kept \in snapshots : kept.answer[1] = held.answer[1]
  THEN snapshots ELSE snapshots \cup {held}

\* A snapshot per answer: nothing is inserted where the answer is on file.
InsertSnapshot(held) ==
  IF \E kept \in snapshots : kept.answer = held.answer
  THEN snapshots ELSE snapshots \cup {held}

SaveReadiness(s) ==
  /\ saver[s] # NoAnswer
  /\ snapshots' = InsertSnapshot(saver[s])
  /\ saver' = [saver EXCEPT ![s] = NoAnswer]
  /\ newest' = IF saver[s].at > newest.at THEN saver[s] ELSE newest
  /\ UNCHANGED <<observations, standard, computed, goalVars>>

\* The current standing: the snapshot computed last.
Readiness ==
  IF snapshots = {} THEN NoAnswer
  ELSE CHOOSE kept \in snapshots : \A other \in snapshots : other.at <= kept.at

-----------------------------------------------------------------------------
(* Goals.                                                                  *)

CreateGoal ==
  /\ goal = "none" /\ goal' = "active"
  /\ UNCHANGED <<observations, readinessVars, tracker, tracked, milestones>>

\* A retired goal does not come back: the table's trigger refuses it.
SetGoalStatus ==
  /\ goal \notin {"none", "retired"}
  /\ goal' \in {"active", "paused", "retired"}
  /\ UNCHANGED <<observations, readinessVars, tracker, tracked, milestones>>

\* TrackGoals, statement by statement: the goals,
ReadGoals(t) ==
  /\ tracker[t].step = "idle" /\ goal # "none" /\ tracked < MaxTracked
  /\ tracked' = tracked + 1
  /\ tracker' = [tracker EXCEPT ![t] = [step |-> "history", status |-> goal]]
  /\ UNCHANGED <<observations, readinessVars, goal, milestones>>

\* the history, with the first reading of each band in it,
ReadHistory(t) ==
  /\ tracker[t].step = "history"
  /\ \E history \in Listings :
       tracker' = [tracker EXCEPT ![t] = [step |-> "milestones", status |-> @.status,
                                          first |-> NewMilestones(Subject, history)]]
  /\ UNCHANGED <<observations, readinessVars, goal, tracked, milestones>>

\* and the milestones.  Only an active goal earns, and a band once.
ReadMilestones(t) ==
  /\ tracker[t].step = "milestones"
  /\ tracker' = [tracker EXCEPT ![t] =
       [step |-> "insert",
        fresh |-> {m \in @.first : @.status = "active" /\ milestones[m.band] = 0}]]
  /\ UNCHANGED <<observations, readinessVars, goal, tracked, milestones>>

\* A band that another tracker recorded meanwhile keeps its row.
InsertMilestones(fresh) ==
  [b \in Bands |-> IF milestones[b] = 0 /\ \E m \in fresh : m.band = b
                   THEN (CHOOSE m \in fresh : m.band = b).by ELSE milestones[b]]

TrackGoals(t) ==
  /\ tracker[t].step = "insert"
  /\ milestones' = InsertMilestones(tracker[t].fresh)
  /\ tracker' = [tracker EXCEPT ![t] = [step |-> "idle"]]
  /\ UNCHANGED <<observations, readinessVars, goal, tracked>>

-----------------------------------------------------------------------------
ReadinessNext ==
  \/ Observe
  \/ PublishStandard
  \/ \E s \in Savers : ComputeReadiness(s) \/ SaveReadiness(s)

GoalsNext ==
  \/ Observe
  \/ CreateGoal
  \/ SetGoalStatus
  \/ \E t \in Trackers : ReadGoals(t) \/ ReadHistory(t) \/ ReadMilestones(t) \/ TrackGoals(t)

StoreSpec == StoreInit /\ [][ReadinessNext \/ GoalsNext]_storeVars

-----------------------------------------------------------------------------
(* Properties.                                                             *)

\* A milestone is dated to the first reading that reached its band: no
\* reading that was on file before it, still stands and reached the band is
\* dated earlier, whoever looked when (newMilestones under two trackers).
MilestonesDated ==
  \A b \in Bands : milestones[b] # 0 =>
    ~\E i \in ComparableReadings(Subject) :
       i < milestones[b] /\ observations[i].band = b
       /\ observations[i].day < observations[milestones[b]].day

\* The standing shown is the answer computed last of those that were saved,
\* in whatever order they were, unless that answer had been given before and
\* another one since: its snapshot keeps the date of the first time
\* (SaveReadiness, ListReadiness).
StandingExplained ==
  Readiness.answer = newest.answer
  \/ \E kept \in snapshots : kept.answer = newest.answer /\ kept.at < newest.at

\* The standing shown is the answer computed last of those that were saved
\* ("Readiness answers the owner's current standing").
StandingIsCurrent == Readiness.answer = newest.answer
=============================================================================
