---------------------------- MODULE RequestRoad ----------------------------
(***************************************************************************)
(* The road of a message of an agent to its target, as far as the book of  *)
(* return routes can tell: in a delivery, in the held queue (with or       *)
(* without the record that check_inbox gave it out), or over.  HeldQueue   *)
(* travels it (HeldQueueRefinement), and ReturnRouting, which has no lane, *)
(* no flush and no leases, assumes nothing else of its requests.           *)
(***************************************************************************)
CONSTANT Reqs

VARIABLES
  place,   \* per message: where it is
  queued,  \* messages in the held queue
  leased,  \* those with a record of check_inbox
  late     \* those that the flush is delivering

vars == <<place, queued, leased, late>>

\* "flight": in a delivery; "stray": in one of the flush that goes on though the message left the
\* queue; "sent": written, its delivery not over; "over": out of the bridge.
Places == {"new", "flight", "stray", "held", "sent", "over"}

\* From one place to another; and what the bridge holds of the message stays as it is.
Goes(r, from, to) == place[r] = from /\ place'[r] = to
QueueKept(r) == (r \in queued' <=> r \in queued) /\ (r \in leased' <=> r \in leased)
RestKept(r) == QueueKept(r) /\ (r \in late' <=> r \in late)
Forgotten(r) == r \notin queued' \cup leased' \cup late'

\* What the flush delivers must still be queued when it is sent or put back, unless it strays.
Wanted(r) == r \in late => r \in queued

Ask(r) == Goes(r, "new", "flight") /\ RestKept(r)

\* Taken into the queue at once: an answer for an agent that is offline.
Store(r) == Goes(r, "new", "held") /\ r \in queued' /\ r \notin leased' \cup late'

Refuse(r) == Goes(r, "flight", "over") /\ r \notin late /\ Forgotten(r)

\* Back in the queue, where it keeps the record of check_inbox if it has one.
PutBack(r) ==
  /\ Goes(r, "stray", "held") \/ (Goes(r, "flight", "held") /\ Wanted(r))
  /\ r \in queued' /\ r \notin late' /\ (r \in leased' <=> r \in leased)

\* It left the queue while the flush was delivering it.
Withdraw(r) == Goes(r, "flight", "over") /\ ~Wanted(r) /\ Forgotten(r)

Flush(r) == Goes(r, "held", "flight") /\ QueueKept(r) /\ r \in late'
Send(r) == /\ Goes(r, "stray", "sent") \/ (Goes(r, "flight", "sent") /\ Wanted(r))
           /\ RestKept(r)
Land(r) == Goes(r, "sent", "over") /\ Forgotten(r)

TakeInbox(r) == Goes(r, "held", "held") /\ r \in queued' \cap leased' /\ r \notin late'
Confirm(r) == Goes(r, "held", "over") /\ r \in leased /\ Forgotten(r)

\* Given up, or discarded by kill: a delivery under way goes on without its place in the queue; one
\* that waits for the registry after its last look at the queue does not notice, and strays.
GiveUp(r) ==
  /\ r \in queued \ (queued' \cup leased')
  /\ \/ Goes(r, "held", "over") /\ r \notin late'
     \/ /\ Goes(r, "flight", "flight") \/ Goes(r, "sent", "sent") \/ Goes(r, "flight", "stray")
        /\ r \in late' <=> r \in late

\* A restart ends deliveries: what is queued is held again.
Crash(r) ==
  /\ place[r] \in {"flight", "stray", "sent"}
  /\ IF r \in queued THEN place'[r] = "held" /\ QueueKept(r) /\ r \notin late'
     ELSE place'[r] = "over" /\ Forgotten(r)

Stays(r) == place'[r] = place[r] /\ RestKept(r)

Step(r) == \/ Stays(r)
           \/ Ask(r) \/ Store(r) \/ Refuse(r) \/ PutBack(r) \/ Withdraw(r) \/ Flush(r) \/ Send(r)
           \/ Land(r) \/ TakeInbox(r) \/ Confirm(r) \/ GiveUp(r) \/ Crash(r)

Init == place = [r \in Reqs |-> "new"] /\ queued = {} /\ leased = {} /\ late = {}

\* Messages travel independently of each other; a step of the bridge may move several.
Next == /\ place' \in [Reqs -> Places] /\ queued' \cup leased' \cup late' \subseteq Reqs
        /\ \A r \in Reqs : Step(r)

Spec == Init /\ [][Next]_vars
=============================================================================
