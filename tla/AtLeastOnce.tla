----------------------------- MODULE AtLeastOnce -----------------------------
(***************************************************************************)
(* What the outbox promises its producers and consumers, with no table, no *)
(* dispatcher and no clock: an event is offered once, may be handed to its *)
(* consumer any number of times, and is acknowledged (never offered again) *)
(* only after it has been handed over at least once.                       *)
(***************************************************************************)
CONSTANT Events

VARIABLES
  offered,   \* events whose transaction committed
  handed,    \* events a consumer has received at least once
  acked      \* events the outbox is finished with because they arrived

vars == <<offered, handed, acked>>

Init == offered = {} /\ handed = {} /\ acked = {}

Offer(e) ==
  /\ e \notin offered
  /\ offered' = offered \cup {e}
  /\ UNCHANGED <<handed, acked>>

Hand(e) ==
  /\ e \in offered
  /\ handed' = handed \cup {e}
  /\ UNCHANGED <<offered, acked>>

Ack(e) ==
  /\ e \in handed
  /\ acked' = acked \cup {e}
  /\ UNCHANGED <<offered, handed>>

Next == \E e \in Events : Offer(e) \/ Hand(e) \/ Ack(e)

Spec == Init /\ [][Next]_vars
==============================================================================
