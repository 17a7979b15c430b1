----------------------------- MODULE Progression -----------------------------
(***************************************************************************)
(* One candidate's competency history and what is read from it             *)
(* (internal/progression).  The history only grows: a correction is a row  *)
(* of its own that names the row it supersedes.  Three readers each pick   *)
(* the latest reading that counts, in code of their own: readiness         *)
(* (readiness.go), goals (goals.go) and the targeting of the next session  *)
(* (targeting.go).  The practice cadence is derived from the same rows.    *)
(*                                                                         *)
(* The standard, the goals and the next session share one rubric reference *)
(* and one band scale, and a row carries what these make of its reading:   *)
(* `placed' on the scale, or the reason why it cannot be.  The rows of one *)
(* evaluation are appended one by one: no reader compares the rows of two  *)
(* competencies, and a repeat of an append is the subject of Evaluation.   *)
(***************************************************************************)
EXTENDS Integers, FiniteSets, Sequences, SequencesExt

CONSTANTS
  Catalogue,            \* the role's competencies, in the catalogue's order
  Best,                 \* the scale is the bands 0 .. Best
  Days,                 \* the days a reading may be dated to
  Today,                \* the day of every read
  FreshDays, StaleDays, \* the ages at which evidence is aging, and stale
  Week,                 \* the days of a week
  Slots,                \* the competencies the next session has room for
  MaxReadings           \* bound: rows appended

ASSUME ProgressionAssumption ==
  /\ Best \in Nat /\ Slots \in Nat /\ MaxReadings \in Nat /\ Week \in Nat \ {0}
  /\ Today \in Nat /\ Days \subseteq 0 .. Today

VARIABLE observations   \* the rows, in the order of their identifiers

Competencies == ToSet(Catalogue)
Bands == 0 .. Best
Rows == DOMAIN observations
Unplaced == {"incomparable_rubric", "not_assessed", "incomparable_band"}

ProgressionInit == observations = <<>>

-----------------------------------------------------------------------------
(* The history.                                                            *)

\* A reading, and for a correction the row of its competency it replaces.
AppendRow(c, as, band, day, supersedes) ==
  /\ Len(observations) < MaxReadings
  /\ supersedes # 0 => observations[supersedes].competency = c
  /\ observations' = Append(observations,
       [competency |-> c, as |-> as, band |-> band, day |-> day, supersedes |-> supersedes])

AppendObservation ==
  \E c \in Competencies, day \in Days, supersedes \in Rows \cup {0} :
    \/ \E band \in Bands : AppendRow(c, "placed", band, day, supersedes)
    \/ \E as \in Unplaced : AppendRow(c, as, 0, day, supersedes)

\* A later date, or the same date and a later identifier.
Newer(i, j) ==
  \/ observations[i].day > observations[j].day
  \/ observations[i].day = observations[j].day /\ i > j

\* The ways the history may be listed, oldest first: the rows of a competency
\* that have one date come in any order.
Listings ==
  {history \in Bijection(Rows, Rows) :
     \A m, n \in Rows : m < n => observations[history[m]].day <= observations[history[n]].day}

Superseded == {observations[i].supersedes : i \in Rows}

\* Why there is no reading, from the most specific fact to the least.
ReasonFor(saw) ==
  IF "not_assessed" \in saw THEN "not_assessed"
  ELSE IF "incomparable_band" \in saw THEN "incomparable_band"
  ELSE IF "incomparable_rubric" \in saw THEN "incomparable_rubric" ELSE "never_observed"

-----------------------------------------------------------------------------
(* Readiness: one pass over the history.                                   *)

Resolve(c, history) ==
  LET Scan(seen, i) ==
        LET row == observations[i] IN
        IF row.competency # c \/ i \in Superseded THEN seen
        ELSE IF row.as # "placed" THEN [by |-> seen.by, saw |-> seen.saw \cup {row.as}]
        ELSE IF seen.by = 0 \/ Newer(i, seen.by) THEN [by |-> i, saw |-> seen.saw]
        ELSE seen
  IN FoldLeft(Scan, [by |-> 0, saw |-> {}], history)

\* One requirement's answer against a target band.
Outcome(c, target, history) ==
  LET seen == Resolve(c, history) IN
  IF seen.by = 0
  THEN [outcome |-> "unassessed", by |-> 0, reason |-> ReasonFor(seen.saw)]
  ELSE [outcome |-> IF observations[seen.by].band >= target THEN "met" ELSE "below",
        by |-> seen.by, reason |-> "none"]

-----------------------------------------------------------------------------
(* Goals: the readings that count, and the latest of them.                 *)

\* Mutation: a corrected reading still counts.
CorrectedReadings(c) == {i \in Rows : observations[i].competency = c /\ observations[i].as = "placed"}

ComparableReadings(c) ==
  {i \in Rows \ Superseded : observations[i].competency = c /\ observations[i].as = "placed"}

LatestOf(readings) ==
  IF readings = {} THEN 0
  ELSE CHOOSE i \in readings : \A j \in readings \ {i} : Newer(i, j)

\* Superseded rows are not left out here.
SilenceReason(c) == ReasonFor({observations[i].as : i \in {j \in Rows : observations[j].competency = c}})

GoalState(c, target) ==
  LET current == LatestOf(ComparableReadings(c)) IN
  IF current # 0
  THEN IF observations[current].band >= target THEN "reached" ELSE "in_progress"
  ELSE IF SilenceReason(c) \in {"incomparable_rubric", "incomparable_band"} THEN "incomparable"
  ELSE "not_started"

\* Mutation: a later reading takes the place of an earlier one.
LastListed(readings, history) == history[Max({n \in DOMAIN history : history[n] \in readings})]

\* The first by date; of two on one day the one listed first.
FirstListed(readings, history) == history[Min({n \in DOMAIN history : history[n] \in readings})]

\* The bands reached, each with the first reading of it.
NewMilestones(c, history) ==
  LET Of(band) == {i \in ComparableReadings(c) : observations[i].band = band}
  IN {[band |-> band, by |-> FirstListed(Of(band), history)] : band \in {b \in Bands : Of(b) # {}}}

-----------------------------------------------------------------------------
(* Targeting: what the next session should cover.                          *)

LatestPerCompetency(history) ==
  LET Hold(latest, i) ==
        LET row == observations[i] IN
        IF i \in Superseded \/ row.as # "placed" THEN latest
        ELSE IF latest[row.competency] = 0 \/ Newer(i, latest[row.competency])
             THEN [latest EXCEPT ![row.competency] = i] ELSE latest
  IN FoldLeft(Hold, [c \in Competencies |-> 0], history)

Freshness(day) ==
  IF Today - day < FreshDays THEN "fresh"
  ELSE IF Today - day < StaleDays THEN "aging" ELSE "stale"

\* Why a competency is worth asking about; "none" when it is not.
Assess(c, history) ==
  LET reading == LatestPerCompetency(history)[c] IN
  IF reading = 0 THEN "never_observed"
  ELSE IF observations[reading].band < Best THEN "below_band"
  ELSE IF Freshness(observations[reading].day) = "stale" THEN "stale_evidence" ELSE "none"

TargetPriority(c, history) ==
  CASE Assess(c, history) = "never_observed" -> 0
    [] Assess(c, history) = "below_band" -> 10 + observations[LatestPerCompetency(history)[c]].band
    [] OTHER -> 100

Wanted(history) == {c \in Competencies : Assess(c, history) # "none"}
Place(c) == CHOOSE k \in DOMAIN Catalogue : Catalogue[k] = c

ReservedSlots == 1
SlotsUsed == IF Slots > Len(Catalogue) THEN Len(Catalogue) ELSE Slots
Room == IF SlotsUsed > ReservedSlots THEN SlotsUsed - ReservedSlots ELSE 0

\* The most urgent that there is room for, the catalogue's order between equals.
Targeted(history) ==
  LET Priority(c) == TargetPriority(c, history)
      Urgent(c, d) ==
        \/ Priority(c) < Priority(d)
        \/ Priority(c) = Priority(d) /\ Place(c) < Place(d)
      sorted == SetToSortSeq(Wanted(history), Urgent)
  IN SubSeq(sorted, 1, IF Len(sorted) > Room THEN Room ELSE Len(sorted))

\* The rest of the slots are filled in the catalogue's order.
Covers(history) ==
  LET targeted == Targeted(history)
      Rest(c) == c \notin ToSet(targeted)
  IN targeted \o SubSeq(SelectSeq(Catalogue, Rest), 1, SlotsUsed - Len(targeted))

-----------------------------------------------------------------------------
(* The practice cadence.                                                   *)

WeekOf(day) == day \div Week
Weeks == {WeekOf(observations[i].day) : i \in Rows}

\* One pass over the weeks practised, the earliest first.
Runs ==
  LET Count(week, runs) ==
        LET run == IF runs.run > 0 /\ week = runs.previous + 1 THEN runs.run + 1 ELSE 1
        IN [run |-> run, previous |-> week,
            longest |-> IF run > runs.longest THEN run ELSE runs.longest]
  IN MapThenFoldSet(Count, [run |-> 0, previous |-> 0, longest |-> 0], LAMBDA week : week, Max, Weeks)

\* Mutation: a week in progress with nothing in it yet ends the run.
PracticeThisWeek ==
  [run |-> IF WeekOf(Today) \in Weeks THEN Runs.run ELSE 0, longest |-> Runs.longest,
   resting |-> Weeks # {} /\ WeekOf(Today) \notin Weeks]

\* The week in progress does not end a run.
Practice ==
  LET runs == Runs
      current == Weeks # {} /\ runs.previous \in {WeekOf(Today), WeekOf(Today) - 1}
  IN [run |-> IF current THEN runs.run ELSE 0, longest |-> runs.longest,
      resting |-> Weeks # {} /\ ~current]

-----------------------------------------------------------------------------
ProgressionNext == AppendObservation
ProgressionSpec == ProgressionInit /\ [][ProgressionNext]_observations

-----------------------------------------------------------------------------
(* Properties.                                                             *)

\* Readiness, a goal and the targeting rest on the same reading of a
\* competency, whatever was corrected, in whatever order the rows were dated
\* and appended, and however each of them had the history listed (resolve,
\* comparableReadings with latestOf, and latestPerCompetency are three copies
\* of one rule): a goal is reached exactly where readiness finds the same
\* target met.
ReadersAgree ==
  \A history \in Listings, c \in Competencies :
    LET latest == LatestOf(ComparableReadings(c)) IN
    /\ Resolve(c, history).by = latest
    /\ LatestPerCompetency(history)[c] = latest
    /\ \A target \in Bands :
         GoalState(c, target) = "reached" <=> Outcome(c, target, history).outcome = "met"

\* The cadence is the runs of consecutive weeks: the longest is the longest
\* there is, the current one reaches back from the last week practised, and
\* a quiet week in progress does not end it (Practice's single pass).
CadenceCounts ==
  LET cadence == Practice
      Run(week, n) == week - n + 1 .. week \subseteq Weeks
      Lengths(week) == {n \in 1 .. Cardinality(Weeks) : Run(week, n)}
      Longest(week) == CHOOSE n \in Lengths(week) : \A m \in Lengths(week) : m <= n
      recent == Weeks \cap {WeekOf(Today), WeekOf(Today) - 1}
      last == CHOOSE w \in recent : \A v \in recent : v <= w
  IN /\ \A w \in Weeks : Longest(w) <= cadence.longest
     /\ Weeks # {} => \E w \in Weeks : Longest(w) = cadence.longest
     /\ cadence.run = IF recent = {} THEN 0 ELSE Longest(last)
     /\ cadence.resting <=> Weeks # {} /\ recent = {}

\* A goal with nothing to go by gives the reason readiness gives ("a goal
\* and a readiness screen can never disagree about the same competency").
SilenceAgrees ==
  \A history \in Listings, c \in Competencies :
    LET seen == Resolve(c, history) IN seen.by = 0 => SilenceReason(c) = ReasonFor(seen.saw)

\* The slot that targeting may not take goes to something the history did
\* not ask for, where every competency has been read and one of them is not a
\* gap ("at least one slot is always something the history did not ask for").
BreadthKept ==
  \A history \in Listings :
    /\ SlotsUsed > 0 /\ Wanted(history) # Competencies
    /\ \A c \in Competencies : LatestPerCompetency(history)[c] # 0
    => ToSet(Covers(history)) \ Wanted(history) # {}
=============================================================================
