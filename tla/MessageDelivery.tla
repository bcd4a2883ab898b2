-------------------------- MODULE MessageDelivery --------------------------
(***************************************************************************)
(* What the bridge promises about messages for an agent, with no queue, no *)
(* lane and no flush: a message whose sender was told "sent" or "queued"   *)
(* stays owed until it was put before the agent or written off.            *)
(***************************************************************************)
CONSTANT Msgs

VARIABLES
  owed,      \* messages the bridge still holds in some form
  promised,  \* messages whose sender was told "sent" or "queued"
  offered,   \* messages put before the agent: written to its socket or shown and confirmed
  closed     \* messages written off: given up, discarded by kill, refused by their session

vars == <<owed, promised, offered, closed>>

TypeOK == {owed, promised, offered, closed} \subseteq SUBSET Msgs

Init == owed = {} /\ promised = {} /\ offered = {} /\ closed = {}

Keeps == promised \subseteq promised' /\ offered \subseteq offered' /\ closed \subseteq closed'

\* A message is taken on once: what was settled never comes back.
TakesOnNew == owed' \ owed \subseteq Msgs \ (promised \cup offered \cup closed)

\* Only a message the bridge has can be promised, offered or closed.
OnlyOwed ==
  LET had == owed \cup owed'
  IN  /\ promised' \ promised \subseteq had
      /\ offered' \ offered \subseteq had
      /\ closed' \ closed \subseteq had

\* A promised message is let go of only when it was offered or closed.
LetsGoOfSettled == (owed \cap promised') \ owed' \subseteq offered' \cup closed'

Step == Keeps /\ TakesOnNew /\ OnlyOwed /\ LetsGoOfSettled

Spec == Init /\ [][Step]_vars
=============================================================================
