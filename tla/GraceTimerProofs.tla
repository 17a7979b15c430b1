-------------------------- MODULE GraceTimerProofs --------------------------
(***************************************************************************)
(* Proofs about GraceTimer, for every window, clock resolution and bound:  *)
(* but for one race no session is finalized inside its window, and a       *)
(* session is left parked for one of four reasons only.                    *)
(***************************************************************************)
EXTENDS GraceTimer, TLAPS

Phases == {"none", "started", "asleep", "expiring", "done"}
Places == {"none", "checked", "seal", "finalize", "over"}

\* What every step needs of the types, without the upper bounds.
Shape ==
  /\ now \in Nat /\ changedAt \in Nat /\ goneAt \in Nat /\ version \in Nat
  /\ epoch \in Epochs /\ changedIn \in Epochs /\ resuming \subseteq Epochs
  /\ pending \subseteq Epochs
  /\ state \in {"in_progress", "reconnecting", "ended"}
  /\ phase \in [Epochs -> Phases]
  /\ tries \in [Epochs -> Nat]
  /\ wake \in [Epochs -> Int] /\ short \in [Epochs -> Nat] /\ drops \in [Epochs -> Nat]
  /\ at \in [Runs -> Places] /\ asked \in [Runs -> Nat] /\ read \in [Runs -> Nat]

\* A timer that may run again has not used up its runs.
HasTries ==
  \A e \in Epochs : /\ phase[e] \in {"none", "started"} => tries[e] = 0
                    /\ phase[e] = "asleep" => tries[e] < MaxTries

AwayLongEnough == state # "in_progress" /\ now - goneAt >= Window

\* What a run that was not raced knows: before complete's read as long as the
\* epoch it asked for stands, after it as long as the version does.
Knows(r) ==
  /\ at[r] = "checked" =>
       /\ asked[r] \in Epochs /\ asked[r] <= epoch
       /\ r \notin raced /\ asked[r] = epoch => AwayLongEnough
  /\ at[r] \in {"seal", "finalize"} =>
       /\ asked[r] \in Epochs /\ read[r] <= version
       /\ r \notin raced /\ read[r] = version => AwayLongEnough
  /\ at[r] = "finalize" => sealed # 0

\* The candidate is gone since before the row says so, and for a whole window
\* once finalized.
Gone ==
  /\ goneAt <= now /\ changedAt <= now
  /\ state = "reconnecting" => goneAt <= changedAt
  /\ WholeWindow
  /\ \A r \in Runs : Knows(r)

\* A timer is announced or started only by a drop of its attempt.
Caused == \A e \in Epochs : (e \in pending \/ phase[e] # "none") => drops[e] >= 1

\* Attempt e still answers for the drop the session is in.
Answers(e) ==
  /\ phase[e] = "none" => e \in pending
  /\ phase[e] \in {"asleep", "expiring"} => wake[e] > Deadline - TicksPerSecond
  /\ phase[e] = "done" => short[e] \in 1 .. TicksPerSecond - 1

Excused == drops[dropped] > 1 \/ dropped \in gaveUp \/ sealed # 0

Covered ==
  state = "reconnecting" =>
    dropped \in Epochs /\ drops[dropped] >= 1 /\ (Excused \/ Answers(dropped))

Inv == Shape /\ HasTries /\ Gone /\ Caused /\ Covered

\* Rounding down to whole seconds loses less than a second.
LEMMA RoundingDown ==
  ASSUME NEW a \in Nat, NEW u \in Nat \ {0}
  PROVE  (a \div u) * u \in Nat /\ a - u < (a \div u) * u /\ (a \div u) * u <= a
PROOF
  <1>1. a \div u \in Nat /\ a = u * (a \div u) + (a % u) /\ a % u \in 0 .. u - 1
    OBVIOUS
  <1> QED BY <1>1

\* The window is a natural number of ticks.
LEMMA WindowType == Window \in Nat
BY GraceAssumption DEF Window

\* A check of an open window sleeps to less than a second before the deadline.
LEMMA SleepsLongEnough ==
  ASSUME Shape
  PROVE  /\ now + Remaining * TicksPerSecond \in Int
         /\ now + Remaining * TicksPerSecond > Deadline - TicksPerSecond
PROOF
  <1>1. now \in Nat /\ Deadline \in Nat /\ TicksPerSecond \in Nat \ {0}
    BY GraceAssumption, WindowType DEF Shape, Deadline
  <1>2. CASE now < Deadline
    <2>1. Deadline - now \in Nat BY <1>1, <1>2
    <2>2. /\ Remaining * TicksPerSecond \in Nat
          /\ Deadline - now - TicksPerSecond < Remaining * TicksPerSecond
      BY <1>1, <1>2, <2>1, RoundingDown DEF Remaining
    <2> QED BY <1>1, <2>2
  <1>3. CASE ~(now < Deadline)
    <2>1. Remaining * TicksPerSecond = 0 BY <1>1, <1>3 DEF Remaining
    <2> QED BY <1>1, <1>3, <2>1
  <1> QED BY <1>2, <1>3

\* The initial state satisfies the invariant.
LEMMA InitInv == ASSUME Init PROVE Inv
PROOF
  <1>1. 1 \in Epochs /\ MaxTries \in Nat \ {0} BY GraceAssumption DEF Epochs
  <1>2. Shape BY <1>1 DEF Init, Shape, Phases, Places
  <1>3. HasTries BY <1>1 DEF Init, HasTries
  <1>4. Gone BY DEF Init, Gone, WholeWindow, Knows
  <1>5. Caused BY DEF Init, Caused
  <1>6. Covered BY DEF Init, Covered
  <1> QED BY <1>2, <1>3, <1>4, <1>5, <1>6 DEF Inv

\* Time passes.
LEMMA TickInv == ASSUME Inv, Tick PROVE Inv'
PROOF
  <1> USE WindowType
  <1>0. Shape /\ HasTries /\ Gone /\ Caused /\ Covered BY DEF Inv
  <1>1. /\ now \in Nat /\ now' = now + 1 /\ goneAt \in Nat
        /\ goneAt' = IF state = "in_progress" THEN now' ELSE goneAt
        /\ UNCHANGED <<row, sealed, resuming, pending, timers, runs, drop, raced, by>>
    BY <1>0 DEF Tick, Shape
  <1>2. Shape' BY <1>0, <1>1 DEF Shape, row, timers, runs, drop
  <1>3. HasTries' BY <1>0, <1>1 DEF HasTries, timers
  <1>4. Gone'
    <2>1. AwayLongEnough => AwayLongEnough' BY <1>1 DEF AwayLongEnough, row
    <2>2. \A r \in Runs : Knows(r)' BY <1>0, <1>1, <2>1 DEF Gone, Knows, row, runs
    <2>3. WholeWindow' BY <1>0, <1>1 DEF Gone, WholeWindow, row
    <2> QED BY <1>0, <1>1, <2>2, <2>3 DEF Gone, Shape, row
  <1>5. Caused' BY <1>0, <1>1 DEF Caused, timers, drop
  <1>6. Covered' BY <1>0, <1>1 DEF Covered, Excused, Answers, Deadline, row, timers, drop
  <1> QED BY <1>2, <1>3, <1>4, <1>5, <1>6 DEF Inv

\* A drop is answered for by its announcement, or is not the first of its
\* attempt.
LEMMA DropInv == ASSUME Inv, NEW e \in Epochs, Drop(e) PROVE Inv'
PROOF
  <1> USE WindowType
  <1>0. Shape /\ HasTries /\ Gone /\ Caused /\ Covered BY DEF Inv
  <1>1. /\ state = "in_progress" /\ state' = "reconnecting"
        /\ changedAt' = now /\ changedIn' = epoch /\ epoch' = epoch
        /\ version \in Nat /\ version' = version + 1
        /\ pending' = pending \cup {e}
        /\ drops \in [Epochs -> Nat] /\ drops' = [drops EXCEPT ![e] = drops[e] + 1]
        /\ dropped' = e
        /\ UNCHANGED <<now, sealed, resuming, timers, runs, goneAt, raced, by>>
    BY <1>0 DEF Drop, Move, Shape
  <1>2. /\ drops' \in [Epochs -> Nat] /\ drops'[e] = drops[e] + 1
        /\ \A d \in Epochs \ {e} : drops'[d] = drops[d]
    BY <1>1
  <1>3. Shape' BY <1>0, <1>1, <1>2 DEF Shape, timers, runs
  <1>4. HasTries' BY <1>0, <1>1 DEF HasTries, timers
  <1>5. Gone'
    <2>1. \A r \in Runs : Knows(r)'
      <3> SUFFICES ASSUME NEW r \in Runs PROVE Knows(r)' OBVIOUS
      <3>1. Knows(r) /\ read[r] \in Nat BY <1>0 DEF Gone, Shape
      <3>2. at[r] = "checked" /\ r \notin raced => asked[r] # epoch
        BY <1>1, <3>1 DEF Knows, AwayLongEnough
      <3> QED BY <1>1, <3>1, <3>2 DEF Knows, runs
    <2>2. goneAt \in Nat /\ changedAt \in Nat /\ now \in Nat /\ goneAt <= now BY <1>0 DEF Shape, Gone
    <2> QED BY <1>1, <2>1, <2>2 DEF Gone, WholeWindow
  <1>6. Caused'
    <2> SUFFICES ASSUME NEW d \in Epochs, d \in pending' \/ phase'[d] # "none"
                 PROVE  drops'[d] >= 1
      BY DEF Caused
    <2>1. CASE d = e BY <1>1, <1>2, <2>1
    <2>2. CASE d # e BY <1>0, <1>1, <1>2, <2>2 DEF Caused, timers
    <2> QED BY <2>1, <2>2
  <1>7. Covered'
    <2>1. CASE drops[e] = 0
      <3>1. phase[e] = "none" BY <1>0, <2>1 DEF Caused
      <3> QED BY <1>1, <1>2, <2>1, <3>1 DEF Covered, Answers, timers
    <2>2. CASE drops[e] # 0 BY <1>1, <1>2, <2>2 DEF Covered, Excused
    <2> QED BY <2>1, <2>2
  <1> QED BY <1>3, <1>4, <1>5, <1>6, <1>7 DEF Inv

\* A return races the runs that are about to read its epoch again; it makes
\* every later step of the others stale.
LEMMA ReturnInv == ASSUME Inv, Return PROVE Inv'
PROOF
  <1> USE WindowType
  <1>0. Shape /\ HasTries /\ Gone /\ Caused /\ Covered BY DEF Inv
  <1>1. /\ state = "reconnecting" /\ state' = "in_progress"
        /\ changedAt' = now /\ changedIn' = epoch /\ epoch' = epoch
        /\ version \in Nat /\ version' = version + 1 /\ goneAt' = now
        /\ raced' = raced \cup {r \in Runs : at[r] = "checked" /\ asked[r] = epoch}
        /\ UNCHANGED <<now, sealed, resuming, pending, timers, runs, drop, by>>
    BY <1>0 DEF Return, Move, Shape
  <1>2. Shape' BY <1>0, <1>1 DEF Shape, timers, runs, drop
  <1>3. HasTries' BY <1>0, <1>1 DEF HasTries, timers
  <1>4. Gone'
    <2>1. \A r \in Runs : Knows(r)'
      <3> SUFFICES ASSUME NEW r \in Runs PROVE Knows(r)' OBVIOUS
      <3>1. Knows(r) /\ read[r] \in Nat BY <1>0 DEF Gone, Shape
      <3>2. at[r] = "checked" /\ asked[r] = epoch => r \in raced' BY <1>1
      <3> QED BY <1>1, <3>1, <3>2 DEF Knows, runs
    <2>2. now \in Nat BY <1>0 DEF Shape
    <2> QED BY <1>1, <2>1, <2>2 DEF Gone, WholeWindow
  <1>5. Caused' BY <1>0, <1>1 DEF Caused, timers, drop
  <1>6. Covered' BY <1>1 DEF Covered
  <1> QED BY <1>2, <1>3, <1>4, <1>5, <1>6 DEF Inv

\* A resume changes the epoch, and nothing else of the row.
LEMMA ResumeInv ==
  ASSUME Inv, ResumeRead \/ \E e \in Epochs : Takeover(e)
  PROVE  Inv'
PROOF
  <1> USE WindowType
  <1>0. Shape /\ HasTries /\ Gone /\ Caused /\ Covered BY DEF Inv
  <1>1. /\ epoch' \in Epochs /\ resuming' \subseteq Epochs /\ epoch <= epoch'
        /\ epoch \in Epochs /\ Epochs \subseteq Nat
        /\ UNCHANGED <<now, state, changedAt, changedIn, version, sealed, pending, timers, runs,
                       goneAt, drop, raced, by>>
    <2>1. epoch \in Epochs /\ Epochs \subseteq Nat /\ resuming \subseteq Epochs
      BY <1>0 DEF Shape, Epochs
    <2>2. CASE ResumeRead
      <3>1. epoch + 1 \in Epochs BY <2>1, <2>2, GraceAssumption DEF ResumeRead, Epochs
      <3> QED BY <2>1, <2>2, <3>1 DEF ResumeRead, row
    <2>3. CASE \E e \in Epochs : Takeover(e)
      <3>1. PICK e \in Epochs : Takeover(e) BY <2>3
      <3>2. epoch \in Nat /\ e \in Nat BY <2>1
      <3> QED BY <2>1, <3>1, <3>2 DEF Takeover
    <2> QED BY <2>2, <2>3
  <1>2. Shape' BY <1>0, <1>1 DEF Shape, timers, runs, drop
  <1>3. HasTries' BY <1>0, <1>1 DEF HasTries, timers
  <1>4. Gone'
    <2>1. AwayLongEnough' = AwayLongEnough BY <1>1 DEF AwayLongEnough
    <2>2. \A r \in Runs : Knows(r)'
      <3> SUFFICES ASSUME NEW r \in Runs PROVE Knows(r)' OBVIOUS
      <3>1. Knows(r) BY <1>0 DEF Gone
      <3>2. /\ at'[r] = at[r] /\ asked'[r] = asked[r] /\ read'[r] = read[r]
            /\ version' = version /\ sealed' = sealed /\ raced' = raced
        BY <1>1 DEF runs
      <3>3. at[r] = "checked" => asked[r] \in Nat /\ asked[r] <= epoch BY <1>1, <3>1 DEF Knows
      <3>4. at[r] = "checked" /\ asked[r] = epoch' => asked[r] = epoch /\ asked[r] <= epoch'
        BY <1>1, <3>3
      <3>5. at[r] = "checked" => asked[r] <= epoch' BY <1>1, <3>3
      <3> QED BY <2>1, <3>1, <3>2, <3>4, <3>5 DEF Knows
    <2> QED BY <1>0, <1>1, <2>2 DEF Gone, WholeWindow
  <1>5. Caused' BY <1>0, <1>1 DEF Caused, timers, drop
  <1>6. Covered' BY <1>0, <1>1 DEF Covered, Excused, Answers, Deadline, timers, drop
  <1> QED BY <1>2, <1>3, <1>4, <1>5, <1>6 DEF Inv

\* The start of a timer and its first check: the session's row is only read.
LEMMA TimerInv ==
  ASSUME Inv, NEW e \in Epochs, Deliver(e) \/ Check(e)
  PROVE  Inv'
PROOF
  <1> USE GraceAssumption, WindowType
  <1>0. Shape /\ HasTries /\ Gone /\ Caused /\ Covered BY DEF Inv
  <1>1. /\ phase \in [Epochs -> Phases] /\ wake \in [Epochs -> Int]
        /\ pending \subseteq Epochs /\ tries \in [Epochs -> Nat]
        /\ \A d \in Epochs \ {e} : (d \in pending' <=> d \in pending)
        /\ e \in pending' => e \in pending
        /\ pending' \subseteq Epochs
        /\ UNCHANGED <<now, row, sealed, resuming, tries, short, gaveUp, runs, goneAt, drop, raced, by>>
    BY <1>0 DEF Deliver, Check, Shape
  <1>2. /\ phase' \in [Epochs -> Phases] /\ wake' \in [Epochs -> Int]
        /\ \A d \in Epochs \ {e} : phase'[d] = phase[d] /\ wake'[d] = wake[d]
        /\ phase'[e] \in {"started", "asleep", "done", "expiring"}
        /\ phase[e] # "none" \/ e \in pending
        /\ phase'[e] # "started" /\ phase'[e] # phase[e] => phase[e] = "started"
        /\ phase'[e] = "started" => phase[e] \in {"none", "started"}
    <2>1. CASE Deliver(e)
      <3>1. phase' = [phase EXCEPT ![e] = IF phase[e] = "none" THEN "started" ELSE phase[e]]
            /\ e \in pending /\ wake' = wake
        BY <2>1 DEF Deliver, Startable
      <3> QED BY <1>1, <3>1 DEF Phases
    <2>2. CASE Check(e)
      <3>1. /\ phase[e] = "started"
            /\ phase' = [phase EXCEPT ![e] = IF state = "reconnecting" THEN "asleep" ELSE "done"]
            /\ wake' = [wake EXCEPT ![e] = now + Remaining * TicksPerSecond]
        BY <2>2 DEF Check
      <3>2. now + Remaining * TicksPerSecond \in Int BY <1>0, SleepsLongEnough
      <3> QED BY <1>1, <3>1, <3>2 DEF Phases
    <2> QED BY <2>1, <2>2
  <1>3. Shape' BY <1>0, <1>1, <1>2 DEF Shape, row, runs, drop
  <1>4. HasTries'
    <2> SUFFICES ASSUME NEW d \in Epochs
                 PROVE  /\ phase'[d] \in {"none", "started"} => tries[d] = 0
                        /\ phase'[d] = "asleep" => tries[d] < MaxTries
      BY <1>1 DEF HasTries
    <2>1. CASE d # e BY <1>0, <1>2, <2>1 DEF HasTries
    <2>2. CASE d = e BY <1>0, <1>1, <1>2, <2>2 DEF HasTries
    <2> QED BY <2>1, <2>2
  <1>5. Gone' BY <1>0, <1>1 DEF Gone, Knows, AwayLongEnough, WholeWindow, row, runs
  <1>6. Caused' BY <1>0, <1>1, <1>2 DEF Caused, drop
  <1>7. Covered'
    <2> SUFFICES ASSUME state = "reconnecting", ~Excused PROVE Answers(dropped)'
      BY <1>0, <1>1 DEF Covered, Excused, row, drop
    <2>1. dropped \in Epochs /\ Answers(dropped) /\ dropped' = dropped
      BY <1>0, <1>1 DEF Covered, drop
    <2>2. Deadline' = Deadline BY <1>1 DEF Deadline, row
    <2>3. CASE dropped # e BY <1>1, <1>2, <2>1, <2>2, <2>3 DEF Answers
    <2>4. CASE dropped = e /\ Deliver(e)
      <3>1. wake' = wake /\ short' = short BY <2>4 DEF Deliver
      <3>2. phase'[e] = IF phase[e] = "none" THEN "started" ELSE phase[e]
        BY <1>1, <2>4 DEF Deliver, Startable
      <3> QED BY <2>1, <2>2, <2>4, <3>1, <3>2 DEF Answers
    <2>5. CASE dropped = e /\ Check(e)
      <3>1. phase'[e] = "asleep" /\ wake'[e] = now + Remaining * TicksPerSecond
        BY <1>1, <2>5 DEF Check
      <3>2. wake'[e] > Deadline - TicksPerSecond BY <1>0, <3>1, SleepsLongEnough
      <3> QED BY <2>1, <2>2, <2>5, <3>1, <3>2 DEF Answers
    <2> QED BY <2>3, <2>4, <2>5
  <1> QED BY <1>3, <1>4, <1>5, <1>6, <1>7 DEF Inv

\* A timer that stood down, went on, was given up or timed out: the row and
\* what the other timers and runs know are as they were.
LEMMA OwnReadInv == ASSUME Inv, NEW e \in Epochs, Expire(e) PROVE Inv'
PROOF
  <1> USE GraceAssumption, WindowType
  <1>0. Shape /\ HasTries /\ Gone /\ Caused /\ Covered BY DEF Inv
  <1> DEFINE r == <<e, tries[e] + 1>>
  <1>1. /\ phase[e] = "asleep" /\ now >= wake[e]
        /\ tries \in [Epochs -> Nat] /\ tries[e] < MaxTries /\ tries[e] \in Nat
        /\ tries' = [tries EXCEPT ![e] = tries[e] + 1] /\ tries'[e] = tries[e] + 1
        /\ r \in Runs
        /\ UNCHANGED <<now, row, sealed, resuming, pending, wake, gaveUp, read, goneAt, drop, raced, by>>
    <2>1. phase[e] = "asleep" /\ tries \in [Epochs -> Nat] /\ tries' = [tries EXCEPT ![e] = tries[e] + 1]
      BY <1>0 DEF Expire, Shape
    <2>2. tries[e] < MaxTries /\ tries[e] \in Nat BY <1>0, <2>1 DEF HasTries
    <2>3. tries[e] + 1 \in 1 .. MaxTries BY <2>2
    <2> QED BY <2>1, <2>2, <2>3 DEF Expire, Runs
  <1>2. /\ phase \in [Epochs -> Phases] /\ wake \in [Epochs -> Int] /\ short \in [Epochs -> Nat]
        /\ at \in [Runs -> Places] /\ asked \in [Runs -> Nat]
        /\ now \in Nat /\ goneAt \in Nat /\ changedAt \in Nat /\ epoch \in Epochs
        /\ Deadline \in Nat /\ Deadline = changedAt + Window /\ Epochs \subseteq Nat
    BY <1>0 DEF Shape, Deadline, Epochs
  <1>3. \/ /\ state = "reconnecting" /\ now >= Deadline
           /\ phase' = [phase EXCEPT ![e] = "expiring"]
           /\ at' = [at EXCEPT ![r] = "checked"]
           /\ asked' = [asked EXCEPT ![r] = epoch]
           /\ short' = short
        \/ /\ ~(state = "reconnecting" /\ now >= Deadline)
           /\ phase' = [phase EXCEPT ![e] = "done"]
           /\ short' = [short EXCEPT ![e] = IF state = "reconnecting" THEN Deadline - now ELSE 0]
           /\ at' = at /\ asked' = asked
    BY <1>1 DEF Expire, Due
  <1>4. /\ phase' \in [Epochs -> Phases] /\ phase'[e] \in {"expiring", "done"}
        /\ \A d \in Epochs \ {e} : phase'[d] = phase[d] /\ tries'[d] = tries[d] /\ short'[d] = short[d]
    BY <1>1, <1>2, <1>3 DEF Phases
  <1>5. Shape'
    <2>1. short' \in [Epochs -> Nat] BY <1>2, <1>3
    <2>2. at' \in [Runs -> Places] /\ asked' \in [Runs -> Nat] BY <1>1, <1>2, <1>3 DEF Places
    <2>3. tries' \in [Epochs -> Nat] BY <1>1
    <2> QED BY <1>0, <1>1, <1>4, <2>1, <2>2, <2>3 DEF Shape, row, drop
  <1>6. HasTries' BY <1>0, <1>4 DEF HasTries
  <1>7. Gone'
    <2>1. AwayLongEnough' = AwayLongEnough BY <1>1 DEF AwayLongEnough, row
    <2>2. \A q \in Runs : Knows(q)'
      <3> SUFFICES ASSUME NEW q \in Runs PROVE Knows(q)' OBVIOUS
      <3>1. Knows(q) BY <1>0 DEF Gone
      <3>2. CASE at'[q] = at[q] /\ asked'[q] = asked[q] BY <1>1, <2>1, <3>1, <3>2 DEF Knows, row
      <3>3. CASE q = r /\ state = "reconnecting" /\ now >= Deadline /\ at'[q] = "checked" /\ asked'[q] = epoch
        <4>1. AwayLongEnough BY <1>0, <1>2, <3>3 DEF Gone, AwayLongEnough
        <4>2. epoch' = epoch /\ epoch <= epoch BY <1>1, <1>2 DEF row
        <4> QED BY <1>2, <2>1, <3>3, <4>1, <4>2 DEF Knows
      <3> QED BY <1>1, <1>2, <1>3, <3>2, <3>3
    <2> QED BY <1>0, <1>1, <2>2 DEF Gone, WholeWindow, row
  <1>8. Caused' BY <1>0, <1>1, <1>4 DEF Caused, drop
  <1>9. Covered'
    <2> SUFFICES ASSUME state = "reconnecting", ~Excused PROVE Answers(dropped)'
      BY <1>0, <1>1 DEF Covered, Excused, row, drop
    <2>1. dropped \in Epochs /\ Answers(dropped) /\ dropped' = dropped
      BY <1>0, <1>1 DEF Covered, drop
    <2>2. Deadline' = Deadline /\ wake' = wake /\ pending' = pending BY <1>1 DEF Deadline, row
    <2>3. CASE dropped # e BY <1>4, <2>1, <2>2, <2>3 DEF Answers
    <2>4. CASE dropped = e
      <3>1. wake[e] > Deadline - TicksPerSecond /\ wake[e] \in Int
        BY <1>1, <1>2, <2>1, <2>4 DEF Answers
      <3>2. CASE now >= Deadline
        <4>1. phase'[e] = "expiring" BY <1>2, <1>3, <3>2
        <4> QED BY <2>1, <2>2, <2>4, <3>1, <4>1 DEF Answers
      <3>3. CASE ~(now >= Deadline)
        <4>1. phase'[e] = "done" /\ short'[e] = Deadline - now BY <1>2, <1>3, <3>3
        <4>2. Deadline - now \in 1 .. TicksPerSecond - 1 BY <1>1, <1>2, <3>1, <3>3
        <4> QED BY <2>1, <2>2, <2>4, <4>1, <4>2 DEF Answers
      <3> QED BY <3>2, <3>3
    <2> QED BY <2>3, <2>4
  <1> QED BY <1>5, <1>6, <1>7, <1>8, <1>9 DEF Inv

\* What a workflow makes of its activity's end: it is done, having sealed or
\* given up, or it sleeps for another run.
Settled(e) ==
  /\ \A d \in Epochs \ {e} : phase'[d] = phase[d]
  /\ phase' \in [Epochs -> Phases]
  /\ gaveUp \subseteq gaveUp'
  /\ \/ phase'[e] = phase[e]
     \/ /\ phase[e] = "expiring"
        /\ \/ phase'[e] = "asleep" /\ tries[e] < MaxTries
           \/ phase'[e] = "done" /\ (sealed' # 0 \/ e \in gaveUp')
     \/ phase[e] \in {"started", "asleep"} /\ phase'[e] = "done" /\ e \in gaveUp'

\* Such an end keeps what the timers are bound to, as long as the row stands.
LEMMA SettledKeeps ==
  ASSUME Inv, NEW e \in Epochs, Settled(e),
         state' = "reconnecting" => state = "reconnecting" /\ changedAt' = changedAt,
         sealed # 0 => sealed' # 0,
         UNCHANGED <<pending, wake, tries, short, drop>>
  PROVE  HasTries' /\ Caused' /\ Covered'
PROOF
  <1>0. Shape /\ HasTries /\ Gone /\ Caused /\ Covered BY DEF Inv
  <1>1. HasTries'
    <2> SUFFICES ASSUME NEW d \in Epochs
                 PROVE  /\ phase'[d] \in {"none", "started"} => tries[d] = 0
                        /\ phase'[d] = "asleep" => tries[d] < MaxTries
      BY DEF HasTries
    <2> QED BY <1>0 DEF HasTries, Settled
  <1>2. Caused'
    <2> SUFFICES ASSUME NEW d \in Epochs, d \in pending \/ phase'[d] # "none"
                 PROVE  drops[d] >= 1
      BY DEF Caused, drop
    <2> QED BY <1>0 DEF Caused, Settled
  <1>3. Covered'
    <2> SUFFICES ASSUME state' = "reconnecting", ~Excused' PROVE Answers(dropped)'
      BY <1>0 DEF Covered, drop
    <2>1. state = "reconnecting" /\ changedAt' = changedAt /\ ~Excused /\ sealed' = 0
      BY DEF Excused, drop, Settled
    <2>2. dropped \in Epochs /\ Answers(dropped) /\ dropped' = dropped /\ Deadline' = Deadline
      BY <1>0, <2>1 DEF Covered, drop, Deadline
    <2>3. CASE dropped # e BY <2>2, <2>3 DEF Answers, Settled
    <2>4. CASE dropped = e
      <3>1. e \notin gaveUp' BY <2>2, <2>4 DEF Excused
      <3> QED BY <2>1, <2>2, <2>4, <3>1 DEF Answers, Settled
    <2> QED BY <2>3, <2>4
  <1> QED BY <1>1, <1>2, <1>3

\* The workflow gives up waiting, or its activity fails before its read.
LEMMA GivenUpInv == ASSUME Inv, NEW e \in Epochs, TimeOut(e) \/ Fail(e) PROVE Inv'
PROOF
  <1>0. Shape /\ HasTries /\ Gone /\ Caused /\ Covered BY DEF Inv
  <1>1. /\ phase \in [Epochs -> Phases]
        /\ UNCHANGED <<now, row, sealed, resuming, pending, wake, tries, short, runs, goneAt, drop, raced, by>>
    BY <1>0 DEF TimeOut, Fail, Shape
  <1>2. Settled(e)
    <2>1. CASE TimeOut(e) BY <1>1, <2>1 DEF TimeOut, Retry, Settled, Phases
    <2>2. CASE Fail(e) BY <1>1, <2>2 DEF Fail, Settled, Phases
    <2> QED BY <2>1, <2>2
  <1>3. Shape' BY <1>0, <1>1, <1>2 DEF Shape, Settled, row, runs, drop
  <1>4. Gone' BY <1>0, <1>1 DEF Gone, Knows, AwayLongEnough, WholeWindow, row, runs
  <1>5. HasTries' /\ Caused' /\ Covered' BY <1>1, <1>2, SettledKeeps DEF row
  <1> QED BY <1>3, <1>4, <1>5 DEF Inv

\* A step of a run: its own place, and what its workflow makes of it.
RunStep(r) ==
  /\ at' \in [Runs -> Places] /\ asked' \in [Runs -> Nat] /\ read' \in [Runs -> Nat]
  /\ \A q \in Runs \ {r} : at'[q] = at[q] /\ asked'[q] = asked[q] /\ read'[q] = read[q]
  /\ at[r] \in {"checked", "seal", "finalize"}
  /\ UNCHANGED <<now, epoch, resuming, pending, wake, tries, short, goneAt, drop, raced>>

\* A run that is over, and what its workflow makes of it.
LEMMA OverStep ==
  ASSUME Shape, NEW r \in Runs, Over(r)
  PROVE  /\ at' \in [Runs -> Places] /\ asked' \in [Runs -> Nat] /\ read' \in [Runs -> Nat]
         /\ \A q \in Runs \ {r} : at'[q] = at[q] /\ asked'[q] = asked[q] /\ read'[q] = read[q]
         /\ at'[r] = "over"
PROOF
  <1>1. at \in [Runs -> Places] /\ asked \in [Runs -> Nat] /\ read \in [Runs -> Nat] BY DEF Shape
  <1> QED BY <1>1 DEF Over, Places

\* complete's read of the row.
LEMMA CompleteReadInv == ASSUME Inv, NEW r \in Runs, CompleteRead(r) PROVE Inv'
PROOF
  <1>0. Shape /\ HasTries /\ Gone /\ Caused /\ Covered BY DEF Inv
  <1> DEFINE e == r[1]
  <1>1. e \in Epochs BY DEF Runs
  <1>2. /\ phase \in [Epochs -> Phases] /\ at \in [Runs -> Places] /\ version \in Nat
        /\ asked \in [Runs -> Nat] /\ read \in [Runs -> Nat]
        /\ at[r] = "checked" /\ asked[r] # 0
        /\ UNCHANGED <<now, row, sealed, resuming, pending, wake, tries, short, goneAt, drop, raced, by>>
    <2>1. at[r] = "checked" BY DEF CompleteRead
    <2>2. asked[r] # 0 BY <1>0, <2>1 DEF Gone, Knows, Epochs
    <2> QED BY <1>0, <2>1, <2>2 DEF CompleteRead, Shape
  <1>3. /\ RunStep(r)
        /\ \/ at'[r] = "over"
           \/ at'[r] = "seal" /\ asked[r] = epoch /\ asked'[r] = asked[r] /\ read'[r] = version
        /\ Settled(e)
    <2>1. CASE /\ Accepts(r) /\ at' = [at EXCEPT ![r] = "seal"]
               /\ read' = [read EXCEPT ![r] = version] /\ UNCHANGED <<asked, phase, gaveUp>>
      <3>1. asked[r] = epoch BY <2>1 DEF Accepts
      <3> QED BY <1>2, <2>1, <3>1 DEF RunStep, Settled, row, Places
    <2>2. CASE sealed = asked[r] /\ Succeeds(r)
      <3>1. Over(r) /\ phase' = [phase EXCEPT ![e] = IF Awaited(r) THEN "done" ELSE phase[e]]
            /\ gaveUp' = gaveUp
        BY <2>2 DEF Succeeds
      <3>2. Settled(e) BY <1>1, <1>2, <2>2, <3>1 DEF Settled, Awaited, Phases
      <3> QED BY <1>0, <1>2, <3>1, <3>2, OverStep DEF RunStep, row
    <2>3. CASE Errs(r)
      <3>1. Over(r) /\ IF Awaited(r) THEN Retry(e) ELSE UNCHANGED <<phase, gaveUp>> BY <2>3 DEF Errs
      <3>2. Settled(e) BY <1>1, <1>2, <3>1 DEF Settled, Awaited, Retry, Phases
      <3> QED BY <1>0, <1>2, <3>1, <3>2, OverStep DEF RunStep, row
    <2> QED BY <2>1, <2>2, <2>3 DEF CompleteRead
  <1>4. Shape' BY <1>0, <1>2, <1>3 DEF Shape, RunStep, Settled, row, drop
  <1>5. Gone'
    <2>1. AwayLongEnough' = AwayLongEnough BY <1>2 DEF AwayLongEnough, row
    <2>2. \A q \in Runs : Knows(q)'
      <3> SUFFICES ASSUME NEW q \in Runs PROVE Knows(q)' OBVIOUS
      <3>1. Knows(q) BY <1>0 DEF Gone
      <3>2. CASE q # r BY <1>2, <1>3, <2>1, <3>1, <3>2 DEF Knows, RunStep, row
      <3>3. CASE q = r
        <4>1. CASE at'[r] = "over" BY <3>3, <4>1 DEF Knows
        <4>2. CASE /\ at'[r] = "seal" /\ asked[r] = epoch
                   /\ asked'[r] = asked[r] /\ read'[r] = version
          <5>1. version' = version /\ version <= version BY <1>2 DEF row
          <5> QED BY <1>2, <2>1, <3>1, <3>3, <4>2, <5>1 DEF Knows
        <4> QED BY <1>3, <4>1, <4>2
      <3> QED BY <3>2, <3>3
    <2> QED BY <1>0, <1>2, <2>2 DEF Gone, WholeWindow, row
  <1>6. HasTries' /\ Caused' /\ Covered' BY <1>1, <1>2, <1>3, SettledKeeps DEF row
  <1> QED BY <1>4, <1>5, <1>6 DEF Inv

\* The seal, or the death of a run's worker.
LEMMA SealOrDieInv == ASSUME Inv, NEW r \in Runs, Seal(r) \/ Die(r) PROVE Inv'
PROOF
  <1>0. Shape /\ HasTries /\ Gone /\ Caused /\ Covered BY DEF Inv
  <1>1. r[1] \in Epochs BY DEF Runs
  <1>2. /\ at \in [Runs -> Places] /\ asked \in [Runs -> Nat] /\ read \in [Runs -> Nat]
        /\ phase \in [Epochs -> Phases]
        /\ UNCHANGED <<now, row, resuming, pending, timers, goneAt, drop, raced, by>>
    BY <1>0 DEF Seal, Die, Shape
  <1>3. /\ RunStep(r)
        /\ \/ at'[r] = "over"
           \/ /\ at[r] = "seal" /\ at'[r] = "finalize" /\ sealed' # 0
              /\ asked'[r] = asked[r] /\ read'[r] = read[r]
        /\ sealed # 0 => sealed' # 0
    <2>1. CASE Seal(r)
      <3>1. /\ at[r] = "seal" /\ at' = [at EXCEPT ![r] = "finalize"]
            /\ sealed' = IF sealed = 0 THEN asked[r] ELSE sealed
            /\ UNCHANGED <<asked, read>>
        BY <2>1 DEF Seal
      <3>2. asked[r] # 0 BY <1>0, <3>1 DEF Gone, Knows, Epochs
      <3> QED BY <1>2, <3>1, <3>2 DEF RunStep, row, timers, Places
    <2>2. CASE Die(r) BY <1>0, <1>2, <2>2, OverStep DEF Die, RunStep, row, timers
    <2> QED BY <2>1, <2>2
  <1>4. Settled(r[1]) BY <1>1, <1>2 DEF Settled, timers
  <1>5. Shape' BY <1>0, <1>2, <1>3 DEF Shape, RunStep, row, timers, drop
  <1>6. Gone'
    <2>1. AwayLongEnough' = AwayLongEnough BY <1>2 DEF AwayLongEnough, row
    <2>2. \A q \in Runs : Knows(q)'
      <3> SUFFICES ASSUME NEW q \in Runs PROVE Knows(q)' OBVIOUS
      <3>1. Knows(q) BY <1>0 DEF Gone
      <3>2. CASE q # r BY <1>2, <1>3, <2>1, <3>1, <3>2 DEF Knows, RunStep, row
      <3>3. CASE q = r BY <1>2, <1>3, <2>1, <3>1, <3>3 DEF Knows, row
      <3> QED BY <3>2, <3>3
    <2> QED BY <1>0, <1>2, <2>2 DEF Gone, WholeWindow, row
  <1>7. HasTries' /\ Caused' /\ Covered' BY <1>1, <1>2, <1>3, <1>4, SettledKeeps DEF row, timers
  <1> QED BY <1>5, <1>6, <1>7 DEF Inv

\* The transition: made on the version read, or swallowed on a sealed session.
LEMMA FinalizeInv == ASSUME Inv, NEW r \in Runs, Finalize(r) PROVE Inv'
PROOF
  <1> USE WindowType
  <1>0. Shape /\ HasTries /\ Gone /\ Caused /\ Covered BY DEF Inv
  <1> DEFINE e == r[1]
  <1>1. e \in Epochs BY DEF Runs
  <1>2. /\ at[r] = "finalize" /\ Over(r) /\ gaveUp' = gaveUp
        /\ phase' = [phase EXCEPT ![e] = IF Awaited(r) THEN "done" ELSE phase[e]]
        /\ phase \in [Epochs -> Phases] /\ version \in Nat /\ now \in Nat /\ epoch \in Epochs
        /\ UNCHANGED <<now, sealed, resuming, pending, wake, tries, short, goneAt, drop, raced>>
    BY <1>0 DEF Finalize, Succeeds, Shape
  <1>3. Knows(r) /\ sealed # 0 BY <1>0, <1>2 DEF Gone, Knows
  <1>4. /\ \/ /\ read[r] = version /\ state' = "ended" /\ changedAt' = now /\ changedIn' = epoch
              /\ version' = version + 1 /\ by' = r
           \/ state' = state /\ changedAt' = changedAt /\ changedIn' = changedIn
              /\ version' = version /\ by' = by
        /\ epoch' = epoch
    BY DEF Finalize, Move, row
  <1>5. RunStep(r) /\ at'[r] = "over" BY <1>0, <1>2, <1>4, OverStep DEF RunStep
  <1>6. Settled(e) BY <1>1, <1>2, <1>3 DEF Settled, Awaited, Phases
  <1>7. Shape'
    <2>1. /\ changedAt' \in Nat /\ changedIn' \in Epochs /\ version' \in Nat
          /\ state' \in {"in_progress", "reconnecting", "ended"}
      BY <1>0, <1>2, <1>4 DEF Shape
    <2> QED BY <1>0, <1>2, <1>4, <1>5, <1>6, <2>1 DEF Shape, RunStep, Settled, drop
  <1>8. Gone'
    <2>1. AwayLongEnough => AwayLongEnough' BY <1>2, <1>4 DEF AwayLongEnough
    <2>2. \A q \in Runs : Knows(q)'
      <3> SUFFICES ASSUME NEW q \in Runs PROVE Knows(q)' OBVIOUS
      <3>1. Knows(q) /\ read[q] \in Nat BY <1>0 DEF Gone, Shape
      <3>2. CASE q # r
        <4>1. /\ at'[q] = at[q] /\ asked'[q] = asked[q] /\ read'[q] = read[q]
              /\ raced' = raced /\ sealed' = sealed /\ epoch' = epoch
          BY <1>2, <1>4, <1>5, <3>2 DEF RunStep
        <4>2. at[q] \in {"seal", "finalize"} =>
                read[q] <= version' /\ (read[q] = version' => read[q] = version)
          BY <1>2, <1>4, <3>1 DEF Knows
        <4> QED BY <2>1, <3>1, <4>1, <4>2 DEF Knows
      <3>3. CASE q = r BY <1>5, <3>3 DEF Knows
      <3> QED BY <3>2, <3>3
    <2>3. WholeWindow'
      <3>1. CASE read[r] = version /\ state' = "ended" /\ by' = r
        BY <1>2, <1>3, <3>1 DEF Knows, AwayLongEnough, WholeWindow
      <3>2. CASE state' = state /\ by' = by BY <1>0, <1>2, <3>2 DEF Gone, WholeWindow
      <3> QED BY <1>4, <3>1, <3>2
    <2>4. changedAt' <= now /\ goneAt <= now /\ (state' = "reconnecting" => goneAt <= changedAt')
      BY <1>0, <1>2, <1>4 DEF Gone
    <2> QED BY <1>2, <2>2, <2>3, <2>4 DEF Gone
  <1>9. HasTries' /\ Caused' /\ Covered' BY <1>1, <1>2, <1>4, <1>6, SettledKeeps
  <1> QED BY <1>7, <1>8, <1>9 DEF Inv

\* Every step preserves the invariant.
LEMMA StepInv == ASSUME Inv, [Next]_vars PROVE Inv'
PROOF
  <1>1. CASE UNCHANGED vars
    BY <1>1 DEF vars, row, timers, runs, drop, Inv, Shape, HasTries, Gone, WholeWindow, Knows,
                AwayLongEnough, Caused, Covered, Excused, Answers, Deadline
  <1>2. CASE Next
    BY <1>2, TickInv, DropInv, ReturnInv, ResumeInv, TimerInv, OwnReadInv, GivenUpInv,
       CompleteReadInv, SealOrDieInv, FinalizeInv DEF Next
  <1> QED BY <1>1, <1>2

\* The invariant is what the two properties need.
LEMMA InvImplies == ASSUME Inv PROVE WholeWindow /\ ParkedIsExplained
PROOF
  <1>1. WholeWindow BY DEF Inv, Gone
  <1>2. ASSUME Parked, ~Excused PROVE short[dropped] \in 1 .. TicksPerSecond - 1
    <2>1. dropped \in Epochs /\ Answers(dropped) BY <1>2 DEF Inv, Covered, Parked
    <2> QED BY <1>2, <2>1 DEF Parked, Answers
  <1> QED BY <1>1, <1>2 DEF ParkedIsExplained, Excused

\* No timer finalizes a session inside its window, for every window length,
\* clock and number of runs, but after a return folded between the two reads
\* of its last run, in the epoch it asked for.
THEOREM FinalizedAfterTheWindow == Spec => []WholeWindow
BY InitInv, StepInv, InvImplies, PTL DEF Spec

\* A session is parked only when its attempt dropped before, its timer woke
\* early by the fraction of a second its sleep was rounded down by, its timer
\* failed for good, or a completion sealed it.
THEOREM FourWaysToPark == Spec => []ParkedIsExplained
BY InitInv, StepInv, InvImplies, PTL DEF Spec
=============================================================================
