------------------------ MODULE HeldQueueRefinement ------------------------
(* The bridge's delivery implements MessageDelivery, and RequestRoad for agents' messages. *)
EXTENDS HeldQueue

\* The refinement mapping.
Owed == held \cup InLane
Promised == {m \in Msgs : told[m] \in {"sent", "queued"}}
Offered == {m \in Msgs : copies[m] > 0} \cup lost \cup acked
Closed == gaveUp \cup killed \cup expelled

Promise == INSTANCE MessageDelivery
             WITH owed <- Owed, promised <- Promised, offered <- Offered, closed <- Closed

\* Every step of the lane, the queue, the flush, the inbox, kill and a restart is a step of
\* the promise: what was promised is let go of only once it was offered or closed.
KeepsPromise == Promise!Spec

-----------------------------------------------------------------------------
(* What becomes of an agent's message, as the book of return routes sees it. *)

\* Requests and answers of agents that are not addressed to one session.
Requests == {m \in Msgs \ Pinned : Kind[m] = "agent"}

JobsOf(m) == {i \in DOMAIN lane : lane[i].msg = m}

\* Outside the lane a message is queued or over; in it, written or not yet, or it strays: the flush's
\* delivery waits for the registry past its last look, and the message left the queue meanwhile.
Stray(m) == m \notin held /\ \E i \in JobsOf(m) : lane[i].via = "flush" /\ lane[i].phase = "gated"
PlaceOf(m) ==
  IF told[m] = "new" THEN "new"
  ELSE IF \E i \in JobsOf(m) : lane[i].phase = "written" THEN "sent"
  ELSE IF Stray(m) THEN "stray"
  ELSE IF JobsOf(m) # {} THEN "flight"
  ELSE IF m \in held THEN "held" ELSE "over"

OnRoad == INSTANCE RequestRoad
            WITH Reqs   <- Requests,
                 place  <- [m \in Requests |-> PlaceOf(m)],
                 queued <- Requests \cap held,
                 leased <- {m \in Requests : item[m].batch > 0},
                 late   <- {m \in Requests : \E i \in JobsOf(m) : lane[i].via = "flush"}

\* However the lane, the flush, check_inbox, the sweep, kill and restarts interleave, a message
\* takes only the steps that ReturnRouting reckons with: nothing leaves the queue unseen, returns
\* to it after its end (except from the ledger gate), or loses the record that check_inbox gave it
\* out while it stays queued.
FollowsRoad == OnRoad!Spec
=============================================================================
