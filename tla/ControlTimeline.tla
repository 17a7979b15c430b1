-------------------------- MODULE ControlTimeline --------------------------
(***************************************************************************)
(* The control event protocol of one live interview, both ends of it: the  *)
(* browser's resend buffer (timeline.ts) and reconnection chain            *)
(* (recovery.ts), the server's ingest (events.go) and takeover (resume.go),*)
(* and the agent, which writes the same timeline without a numbering of    *)
(* its own.                                                                *)
(*                                                                         *)
(* An event is its identity: the browser's are 1, 2, ... in the order      *)
(* recorded, an agent's batch is one event named after the request that    *)
(* carries it.  The buffer is a function from the unconfirmed identities   *)
(* to their slots, so "in the order recorded" is the order of the slots.   *)
(* A request runs on the server whether or not its caller still waits: its *)
(* reads, its inserts with the cursor, and its commit are three actions.   *)
(* An insert waits for an uncommitted row with its identity or slot, so    *)
(* the inserts of a batch and the cursor query behave as one statement.    *)
(*                                                                         *)
(* What an accepted event does to the session's state is LiveSession's.    *)
(***************************************************************************)
EXTENDS Naturals, FiniteSets

CONSTANTS
  Posts,      \* requests of the browser the server may be working on at once
  Agents,     \* batches of the agent
  Attempts,   \* runs of the recovery chain that may overlap (retryNow)
  Named,      \* events the server may refuse for what they carry
  None,       \* no post in flight
  MaxEvents,  \* bound: events the browser records
  MaxEpoch    \* bound: connection epochs

Calls == Posts \cup Agents
Ids == 1 .. MaxEvents

ASSUME TimelineAssumption ==
  /\ MaxEvents \in Nat \ {0} /\ MaxEpoch \in Nat
  /\ Posts \cap Agents = {} /\ None \notin Calls
  /\ Agents \cap Ids = {} /\ Posts # {}

VARIABLES
  epoch, accepted,    \* the sessions row: connection_epoch, accepted_sequence
  log,                \* interview.control_events
  call,               \* per request: how far the server is with it
  bEpoch, nextSeq,    \* Timeline.epoch, Timeline.nextSequence
  unacked,            \* Timeline.unacked
  post, again,        \* Timeline.inFlight, Timeline.flushAgain
  made,               \* identities handed out so far
  renumbered,         \* history: a rejoin found the buffer in its epoch or a later one
  refused,            \* events the server refused by name, dropped for it
  room,               \* the realtime connection: up or down
  active,             \* Recovery.active
  screen,             \* live until the person leaves or recovery concludes
  attempt,            \* per run of the chain: how far it is
  claimed             \* established events whose recovery was announced

server == <<epoch, accepted, log>>
buffer == <<bEpoch, nextSeq, unacked, made, renumbered>>
surface == <<room, active, screen>>
vars == <<server, call, buffer, post, again, refused, surface, attempt, claimed>>

----------------------------------------------------------------------------
(* The server's side of one request.                                       *)

Call(phase, e, batch, acc, rows, no, cursor) ==
  [phase |-> phase, epoch |-> e, batch |-> batch, accepted |-> acc,
   rows |-> rows, refused |-> no, cursor |-> cursor]
NoCall == Call("idle", 0, <<>>, 0, {}, {}, 0)
Failed == Call("failed", 0, <<>>, 0, {}, {}, 0)
Request(e, batch) == Call("sent", e, batch, 0, {}, {}, 0)

Slots(rows, e) == {r.seq : r \in {q \in rows : q.epoch = e}}

\* Mutant: the cursor counts the stored events instead of the contiguous ones.
ContiguousCounts(stored) == Cardinality(stored)

\* events.cursor: the highest sequence with nothing missing under it.
Contiguous(stored) ==
  CHOOSE n \in 0 .. Cardinality(stored) :
    1 .. n \subseteq stored /\ n + 1 \notin stored

Clash(r, q) == r.id = q.id \/ (r.epoch = q.epoch /\ r.seq = q.seq)

\* The rows a batch asks for, and those of them apply() stores.
Wanted(c) ==
  {[id |-> i, epoch |-> call[c].epoch, seq |-> call[c].batch[i]] :
     i \in DOMAIN call[c].batch}
Stored(c, barred) ==
  {r \in Wanted(c) : r.id \notin barred /\ \A q \in log : ~Clash(r, q)}

\* Its caller gone, the answer of a request reaches nobody.
Answer(c, reply) == IF c = post THEN reply ELSE NoCall

LastOf(stored) == CHOOSE n \in stored : \A m \in stored : m <= n

\* IngestAsService: the current epoch, and the sequence after the last stored.
Stamp(a) ==
  LET stored == Slots(log, epoch)
      next == IF stored = {} THEN 1 ELSE LastOf(stored) + 1
  IN  Call("read", epoch, [i \in {a} |-> next], accepted, {}, {}, 0)

AgentReads(a) ==
  /\ call[a].phase = "sent"
  /\ call' = [call EXCEPT ![a] = Stamp(a)]
  /\ UNCHANGED <<server, buffer, post, again, refused, surface, attempt, claimed>>

CallReads(p) ==
  /\ call[p].phase = "sent"
  /\ call' = [call EXCEPT ![p] =
       IF call[p].epoch = epoch
         THEN Call("read", epoch, call[p].batch, accepted, {}, {}, 0)
         ELSE Answer(p, Failed)]
  /\ UNCHANGED <<server, buffer, post, again, refused, surface, attempt, claimed>>

Waits(c) ==
  \E d \in Calls \ {c} : call[d].phase = "inserted"
    /\ \E r \in Wanted(c), q \in call[d].rows : Clash(r, q)

CallInserts(c) ==
  /\ call[c].phase = "read"
  /\ ~Waits(c)
  /\ \E barred \in SUBSET (DOMAIN call[c].batch \cap Named) :
       LET rows == Stored(c, barred)
           there == {i \in DOMAIN call[c].batch : \E q \in log : q.id = i}
           no == DOMAIN call[c].batch \ ({r.id : r \in rows} \cup (there \ barred))
       IN  call' = [call EXCEPT ![c] =
             Call("inserted", call[c].epoch, call[c].batch, call[c].accepted, rows, no,
                  Contiguous(Slots(log \cup rows, call[c].epoch)))]
  /\ UNCHANGED <<server, buffer, post, again, refused, surface, attempt, claimed>>

\* Mutant: PersistCursor without its guard on the epoch.
PersistedAnyEpoch(c) ==
  IF call[c].cursor > call[c].accepted /\ accepted < call[c].cursor
    THEN call[c].cursor ELSE accepted

\* PersistCursor, guarded by the epoch and by the cursor the row has now.
Persisted(c) ==
  IF /\ call[c].cursor > call[c].accepted
     /\ call[c].epoch = epoch
     /\ accepted < call[c].cursor
    THEN call[c].cursor ELSE accepted

CallCommits(c) ==
  /\ call[c].phase = "inserted"
  /\ log' = log \cup call[c].rows
  /\ accepted' = Persisted(c)
  /\ call' = [call EXCEPT ![c] =
       Answer(c, Call("acked", call[c].epoch, call[c].batch, 0, {},
                      call[c].refused, call[c].cursor))]
  /\ UNCHANGED <<epoch, buffer, post, again, refused, surface, attempt, claimed>>

\* The request is lost on its way, or its transaction rolls back.
CallDies(c) ==
  /\ call[c].phase \in {"sent", "read", "inserted"}
  /\ call' = [call EXCEPT ![c] = Answer(c, Failed)]
  /\ UNCHANGED <<server, buffer, post, again, refused, surface, attempt, claimed>>

\* One utterance, posted once and never retried; the identity is not reused.
AgentSpeaks(a) ==
  /\ call[a] = NoCall
  /\ \A r \in log : r.id # a
  /\ call' = [call EXCEPT ![a] = Request(0, <<>>)]
  /\ UNCHANGED <<server, buffer, post, again, refused, surface, attempt, claimed>>

\* AdvanceSessionEpoch, in the transaction of BeginAttempt.
BeginAttempt(e) ==
  /\ e \in 1 .. MaxEpoch
  /\ epoch < e
  /\ epoch' = e
  /\ accepted' = 0

\* Another tab, or a resume whose caller gave up on it, takes the session.
TakenElsewhere ==
  /\ BeginAttempt(epoch + 1)
  /\ UNCHANGED <<log, call, buffer, post, again, refused, surface, attempt, claimed>>

----------------------------------------------------------------------------
(* The browser's resend buffer.                                            *)

Free(p) == p # post /\ call[p] = NoCall

\* Timeline.flush over the buffer "buf" numbered into epoch "e".
Flush(e, buf) ==
  \/ /\ post # None
     /\ again' = "yes"
     /\ UNCHANGED <<post, call>>
  \/ /\ post = None
     /\ \E p \in Posts : Free(p)
     /\ post' = CHOOSE p \in Posts : Free(p)
     /\ call' = [call EXCEPT ![post'] = Request(e, buf)]
     /\ UNCHANGED again

\* The finally of flush: the slot is given back, a flush asked for meanwhile
\* runs now if anything is left to send.
Finally(freed, buf) ==
  LET calls == IF call[post].phase \in freed
                 THEN [call EXCEPT ![post] = NoCall] ELSE call
      idle == {p \in Posts : calls[p] = NoCall}
  IN  /\ again' = "no"
      /\ IF again = "yes" /\ buf # <<>>
           THEN /\ idle # {}
                /\ post' = CHOOSE p \in idle : TRUE
                /\ call' = [calls EXCEPT ![post'] = Request(bEpoch, buf)]
           ELSE post' = None /\ call' = calls

Without(buf, gone) == [i \in DOMAIN buf \ gone |-> buf[i]]

\* Mutant: an acknowledgment empties the buffer.
SettledAll(ack) == DOMAIN unacked

\* What the acknowledgment settles: every event it names, and every event
\* numbered at or under the cursor it carries.
Settled(ack) ==
  DOMAIN ack.batch
    \cup {i \in DOMAIN unacked : unacked[i] <= ack.cursor}

\* The chain runs that await the post which just ended.
Awaiting == {a \in Attempts : attempt[a].phase = "flushing" /\ attempt[a].on = post}
Idle == [phase |-> "idle", seen |-> 0, prev |-> 0, to |-> 0, on |-> None, est |-> 0]
Wait == [Idle EXCEPT !.phase = "waiting"]

\* Recovery.conclude and Recovery.next: nothing if recovery was cancelled.
Retrying == IF active = "yes" THEN Wait ELSE Idle

PostAnswered ==
  /\ post # None
  /\ call[post].phase = "acked"
  /\ unacked' = Without(unacked, Settled(call[post]))
  /\ refused' = refused \cup call[post].refused
  /\ Finally({"acked"}, unacked')
  /\ attempt' = [a \in Attempts |-> IF a \in Awaiting THEN Idle ELSE attempt[a]]
  /\ claimed' = IF active = "yes" THEN claimed \cup {attempt[a].est : a \in Awaiting}
                ELSE claimed
  /\ active' = IF Awaiting # {} THEN "no" ELSE active
  /\ UNCHANGED <<server, bEpoch, nextSeq, made, renumbered, room, screen>>

\* The post throws: refused whole, lost, or given up while the server works.
PostFails ==
  /\ post # None
  /\ Finally({"acked", "failed"}, unacked)
  /\ attempt' = [a \in Attempts |-> IF a \in Awaiting THEN Retrying ELSE attempt[a]]
  /\ UNCHANGED <<server, buffer, refused, surface, claimed>>

\* Timeline.record, one event after another.
Recorded(buf, seq, n) ==
  [i \in DOMAIN buf \cup (made + 1 .. made + n) |->
     IF i \in DOMAIN buf THEN buf[i] ELSE seq + (i - made - 1)]

\* Mutant: the survivors keep the slots of the epoch they leave.
RebasedKeepsSlots(prev) ==
  LET left == {i \in DOMAIN unacked : unacked[i] > prev}
  IN  [i \in left |-> unacked[i]]

\* Timeline.rebase: the survivors, renumbered from one in their order.
Rebased(prev) ==
  LET left == {i \in DOMAIN unacked : unacked[i] > prev}
  IN  [i \in left |-> Cardinality({j \in left : unacked[j] <= unacked[i]})]

----------------------------------------------------------------------------
(* The reconnection chain.                                                 *)

\* The room drops under a screen that is not recovering: Recovery.begin.
Dropped(a) ==
  /\ room = "up" /\ screen = "live" /\ active = "no"
  /\ attempt[a] = Idle
  /\ made < MaxEvents
  /\ room' = "down" /\ active' = "yes"
  /\ unacked' = Recorded(unacked, nextSeq, 1)
  /\ nextSeq' = nextSeq + 1 /\ made' = made + 1
  /\ Flush(bEpoch, unacked')
  /\ attempt' = [attempt EXCEPT ![a] = [Idle EXCEPT !.phase = "asking"]]
  /\ UNCHANGED <<server, bEpoch, renumbered, refused, screen, claimed>>

\* The room drops while a drop is being recovered: begin returns at once.
DroppedAgain ==
  /\ room = "up" /\ screen = "live" /\ active = "yes"
  /\ room' = "down"
  /\ UNCHANGED <<server, call, buffer, post, again, refused, active, screen, attempt, claimed>>

\* The back-off ends, or the person presses retry while it runs.
Retry(a) ==
  /\ active = "yes"
  /\ attempt[a].phase = "waiting"
  /\ attempt' = [attempt EXCEPT ![a] = [Idle EXCEPT !.phase = "asking"]]
  /\ UNCHANGED <<server, call, buffer, post, again, refused, surface, claimed>>

\* retryNow under a chain that still runs: a second one starts beside it.
RetryNow(a) ==
  /\ active = "yes"
  /\ attempt[a] = Idle
  /\ attempt' = [b \in Attempts |->
       IF b = a THEN [Idle EXCEPT !.phase = "asking"]
       ELSE IF attempt[b].phase = "waiting" THEN Idle ELSE attempt[b]]
  /\ UNCHANGED <<server, call, buffer, post, again, refused, surface, claimed>>

\* Resumer.Resume reads the session,
ResumeReads(a) ==
  /\ attempt[a].phase = "asking"
  /\ attempt' = [attempt EXCEPT ![a] = [Idle EXCEPT !.phase = "read", !.seen = epoch]]
  /\ UNCHANGED <<server, call, buffer, post, again, refused, surface, claimed>>

\* then the cursor of the epoch it is about to supersede,
ResumeCursor(a) ==
  /\ attempt[a].phase = "read"
  /\ attempt' = [attempt EXCEPT ![a] =
       [@ EXCEPT !.phase = "cursor", !.prev = Contiguous(Slots(log, attempt[a].seen))]]
  /\ UNCHANGED <<server, call, buffer, post, again, refused, surface, claimed>>

\* takes over,
ResumeTakes(a) ==
  /\ attempt[a].phase = "cursor"
  /\ BeginAttempt(attempt[a].seen + 1)
  /\ attempt' = [attempt EXCEPT ![a] = [@ EXCEPT !.phase = "taken"]]
  /\ UNCHANGED <<log, call, buffer, post, again, refused, surface, claimed>>

\* and answers with the session as it reads it now.
ResumeAnswers(a) ==
  /\ attempt[a].phase = "taken"
  /\ attempt' = [attempt EXCEPT ![a] = [@ EXCEPT !.phase = "answered", !.to = epoch]]
  /\ UNCHANGED <<server, call, buffer, post, again, refused, surface, claimed>>

\* The resume or the rejoin fails without a name: the chain backs off.
ChainFails(a) ==
  /\ attempt[a].phase \in {"asking", "read", "cursor", "taken", "answered"}
  /\ attempt' = [attempt EXCEPT ![a] = Retrying]
  /\ UNCHANGED <<server, call, buffer, post, again, refused, surface, claimed>>

\* GRACE_EXPIRED, SESSION_NOT_RESUMABLE or EPOCH_STALE ends the chain.
ResumeRefused(a) ==
  /\ attempt[a].phase = "asking"
  /\ attempt' = [attempt EXCEPT ![a] = Idle]
  /\ screen' = IF active = "yes" THEN "over" ELSE screen
  /\ active' = "no"
  /\ UNCHANGED <<server, call, buffer, post, again, refused, room, claimed>>

\* Back in the room: rebase, the interruption, the established event, flush.  An
\* attempt under way is not stopped by Recovery.cancel, nor by another's verdict.
Rejoined(a) ==
  /\ attempt[a].phase = "answered"
  /\ made + 2 <= MaxEvents
  /\ room' = "up"
  /\ bEpoch' = attempt[a].to
  /\ renumbered' = IF attempt[a].to > bEpoch THEN renumbered ELSE "yes"
  /\ LET kept == Rebased(attempt[a].prev)
         next == Cardinality(DOMAIN kept) + 1
     IN  unacked' = Recorded(kept, next, 2) /\ nextSeq' = next + 2
  /\ made' = made + 2
  /\ Flush(bEpoch', unacked')
  /\ attempt' = [attempt EXCEPT ![a] =
       [@ EXCEPT !.phase = "flushing", !.on = post', !.est = made + 2]]
  /\ UNCHANGED <<server, refused, active, screen, claimed>>

\* endInterview: recovery is cancelled, the goodbye recorded and flushed.
Leave ==
  /\ screen = "live"
  /\ made < MaxEvents
  /\ screen' = "over" /\ active' = "no"
  /\ unacked' = Recorded(unacked, nextSeq, 1)
  /\ nextSeq' = nextSeq + 1 /\ made' = made + 1
  /\ Flush(bEpoch, unacked')
  /\ attempt' = [a \in Attempts |->
       IF attempt[a].phase = "waiting" THEN Idle ELSE attempt[a]]
  /\ UNCHANGED <<server, bEpoch, renumbered, refused, room, claimed>>

----------------------------------------------------------------------------
\* LiveScreen.open(1): the first attempt's established event is on its way.
Opening == CHOOSE p \in Posts : TRUE
Init ==
  /\ epoch = 1 /\ accepted = 0 /\ log = {}
  /\ bEpoch = 1 /\ nextSeq = 2 /\ made = 1 /\ unacked = [i \in {1} |-> 1]
  /\ renumbered = "no"
  /\ post = Opening /\ again = "no"
  /\ call = [c \in Calls |-> IF c = Opening THEN Request(1, [i \in {1} |-> 1]) ELSE NoCall]
  /\ refused = {} /\ claimed = {}
  /\ room = "up" /\ active = "no" /\ screen = "live"
  /\ attempt = [a \in Attempts |-> Idle]

Next ==
  \/ \E p \in Posts : CallReads(p)
  \/ \E a \in Agents : AgentSpeaks(a) \/ AgentReads(a)
  \/ \E c \in Calls : CallInserts(c) \/ CallCommits(c) \/ CallDies(c)
  \/ TakenElsewhere
  \/ PostAnswered \/ PostFails
  \/ DroppedAgain \/ Leave
  \/ \E a \in Attempts :
       \/ Dropped(a) \/ Retry(a) \/ RetryNow(a) \/ ResumeReads(a) \/ ResumeCursor(a)
       \/ ResumeTakes(a) \/ ResumeAnswers(a) \/ ChainFails(a) \/ ResumeRefused(a)
       \/ Rejoined(a)

Spec == Init /\ [][Next]_vars

----------------------------------------------------------------------------
(* Properties.                                                             *)

Held(i) == \E r \in log : r.id = i

\* The persisted cursor never claims a slot the current epoch does not hold,
\* whatever requests, takeovers and rollbacks interleave (events.go: "the
\* persisted cursor never claims events that did not commit").
CursorHonest == 1 .. accepted \subseteq Slots(log, epoch)

\* An event lands once, and no slot is given twice, although a takeover
\* renumbers events whose first request may still commit (timeline.ts:
\* "converges to a duplicate instead of doubling").
LandsOnce == \A r, q \in log : Clash(r, q) => r = q

\* The answer the browser settles its buffer by is true when it is read:
\* what it does not refuse is stored, and so is every slot it covers.
AckHonest ==
  \A p \in Posts : call[p].phase = "acked" =>
    /\ \A i \in DOMAIN call[p].batch \ call[p].refused : Held(i)
    /\ 1 .. call[p].cursor \subseteq Slots(log, call[p].epoch)

\* Within an epoch the browser's events are stored in the order they were
\* recorded, resent or not (timeline.ts: "The buffer never invents order"),
\* as long as every rejoin takes the buffer to a later epoch.  Overlapping
\* recoveries may both be answered with one epoch; the second then numbers
\* from one where the first did, and a later event can land under an earlier.
OrderKept ==
  renumbered = "no" =>
    \A r, q \in {s \in log : s.id \in Ids} :
      r.epoch = q.epoch /\ r.id < q.id => r.seq < q.seq

\* Until a takeover or the agent's first row, an event the browser recorded
\* is in its buffer, stored, or refused by name, however requests are lost,
\* given up, repeated or answered late.
FirstEpochLosesNothing ==
  (epoch = 1 /\ \A r \in log : r.id \in Ids) =>
    \A i \in 1 .. made : i \in DOMAIN unacked \cup refused \/ Held(i)

\* The cursor moves back only with a takeover, which opens a later epoch.
CursorMonotone ==
  [][epoch' > epoch \/ (epoch' = epoch /\ accepted' >= accepted)]_vars

\* No event of the browser is refused for a slot another writer took
\* (events.go, IngestAsService: "the agent and the browser never share a
\* numbering").
NumberingNotShared == refused \subseteq Named

\* A screen that is not recovering is connected (recovery.ts, begin: a second
\* drop "changes nothing: the chain already covers it").
DropIsCovered == (screen = "live" /\ active = "no") => room = "up"

\* Recovery is announced only over an established event the server has
\* (recovery.ts: "recovery is not claimed until the server has it").
RecoveredIsHeld == \A i \in claimed : Held(i)

\* No row is stored under an epoch already superseded (the comment on
\* interview.attempts: "events from superseded epochs are refused").
SupersededIsClosed == [][\A r \in log' \ log : r.epoch = epoch]_vars

\* A gap in the current epoch is a slot somebody still means to fill.
GapIsOwed ==
  \A n \in 1 .. MaxEvents :
    (n \notin Slots(log, epoch) /\ \E m \in Slots(log, epoch) : m > n) =>
      \/ \E i \in DOMAIN unacked : bEpoch = epoch /\ unacked[i] = n
      \/ \E c \in Calls : /\ call[c].phase \in {"sent", "read", "inserted"}
                          /\ call[c].epoch = epoch
                          /\ \E i \in DOMAIN call[c].batch : call[c].batch[i] = n
=============================================================================
