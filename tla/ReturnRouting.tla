--------------------------- MODULE ReturnRouting ---------------------------
(***************************************************************************)
(* Who gets the answer: one target agent, the agents that sent it requests *)
(* with send_to_agent, and the bridge's book of return routes              *)
(* (agent-calls.ts).  A request enters the book before it is delivered and *)
(* leaves it when an answer consumes it, when its delivery fails, when it  *)
(* is stale, or when the channel is taken over or killed.                  *)
(*                                                                         *)
(* Three handlers read the book, wait, and then consume what they read:    *)
(* reply(), a send_to_agent back to the caller, and the fallback of the    *)
(* Stop hook (stop-settle.ts).  As many as Handlers allows are in progress *)
(* together, interleaved with deliveries, the sweep, takeovers and         *)
(* restarts.  How a message travels is HeldQueue's subject; here a request *)
(* takes any road that RequestRoad allows, and what matters is whether the *)
(* bridge counts it as seen.                                               *)
(***************************************************************************)
EXTENDS Naturals, FiniteSets

CONSTANTS
  Reqs,         \* requests of agents; each is sent once
  Callers,      \* the agents that send them
  Caller,       \* Reqs -> Callers
  Gated,        \* requests whose delivery waits in inboundLedgerGate: the target runs Pi
  Handlers,     \* bound: answers being processed at the same time
  MaxCrashes    \* bound: restarts of the bridge

ASSUME CallerAssumption == Caller \in [Reqs -> Callers]
ASSUME GatedAssumption == Gated \subseteq Reqs
ASSUME BoundsAssumption == MaxCrashes \in Nat

VARIABLES
  place,    \* per request: where it is on its way to the target
  queued,   \* requests with an entry in the held queue (on disk)
  leased,   \* queued requests that check_inbox gave out; the record stays when its time is over
  late,     \* requests whose delivery is the flush's
  booked,   \* requests in the book of return routes (on disk)
  stale,    \* booked requests whose two hours since delivery are over
  turn,     \* the target's main turn: "idle" or "busy"
  trigger,  \* TriggerRec of the current turn: what opened it
  last,     \* TriggerRec of the turn settled last
  answers,  \* the answer each handler is processing
  crashes,  \* restarts of the bridge so far
  had,      \* history: requests the target received
  fate      \* history: what first took a request out of the book

roadVars == <<place, queued, leased, late, had>>
bookVars == <<booked, stale, fate>>
turnVars == <<turn, trigger, last>>
vars == <<roadVars, bookVars, turnVars, answers, crashes>>

Of(c) == {r \in Reqs : Caller[r] = c}

-----------------------------------------------------------------------------
(* The book. *)

\* "flight": in the lane; "stray": there, though it left the queue after its delivery's last look;
\* "sent": written to the socket, its delivery not over yet; "given": received, delivery over;
\* "lost": left the bridge undelivered; "refused": its sender was told that it failed.
Places == {"new", "flight", "stray", "held", "sent", "given", "lost", "refused"}

\* Mutant of Unseen: only the held queue is asked, and not the messages in delivery.
UnseenHeldOnly(r) == place[r] = "held" /\ r \notin leased

\* requestStillHeld: somewhere in its delivery, or in the queue and never given out.
Unseen(r) == place[r] \in {"flight", "stray", "sent"} \/ (place[r] = "held" /\ r \notin leased)

\* Mutant of Seen: held requests count as well.
SeenAll(c) == booked \cap Of(c)

\* AgentCallBook.view: the requests of a caller the target has seen.
Seen(c) == {r \in booked \cap Of(c) : ~Unseen(r)}

Waiting == {c \in Callers : Seen(c) # {}}

\* TriggerRec: the askers of the turn, and whether it still gathers its first batch.
NoTrigger == [known |-> FALSE, askers |-> {}, batch |-> FALSE]
TriggerType == [known : BOOLEAN, askers : SUBSET Callers, batch : BOOLEAN]

\* recOfCid: a turn nobody opened through the bridge continues the one before it.
Askers == IF trigger.known THEN trigger.askers ELSE last.askers

\* answerableUnmixed: exactly one caller waits, and the turn was not opened by several.
Answerable(c) == Waiting = {c} /\ Cardinality(Askers) <= 1

\* noteDelivered, for a message of caller c that may ask for an answer.
NoteDelivered(asking, idle) ==
  trigger' = IF ~trigger.known /\ ~idle /\ last.known THEN [last EXCEPT !.batch = FALSE]
             ELSE IF ~trigger.known \/ (idle /\ ~trigger.batch)
             THEN [known |-> TRUE, askers |-> asking, batch |-> TRUE]
             ELSE IF trigger.batch THEN [trigger EXCEPT !.askers = @ \cup asking]
             ELSE trigger

Fates == {"none", "answered", "silent", "expired", "cleared"}
Record(S, how) == fate' = [r \in Reqs |-> IF r \in S /\ fate[r] = "none" THEN how ELSE fate[r]]

\* Mutant of Consume: an answer removes everything its caller waits for.
ConsumeSlot(S) ==
  /\ booked' = booked \ UNION {Of(Caller[r]) : r \in S}
  /\ stale' = stale \cap booked'

\* Mutant of Consume: the clock of a consumed request is kept.
ConsumeKeepsClock(S) ==
  /\ booked' = booked \ S
  /\ UNCHANGED stale

\* AgentCallBook.consume with a view: only the requests of the view go.
Consume(S) ==
  /\ booked' = booked \ S
  /\ stale' = stale \ S

-----------------------------------------------------------------------------
(* A request on its way. *)

\* route_to_agent: the route is recorded before the request is delivered.
Ask(r) ==
  /\ place[r] = "new"
  /\ booked' = booked \cup {r}
  /\ place' = [place EXCEPT ![r] = "flight"]
  /\ UNCHANGED <<queued, leased, late, had, stale, fate, turnVars, answers, crashes>>

\* The delivery fails: the sender is told, and only this request is dropped.
Refuse(r) ==
  /\ place[r] = "flight" /\ r \notin late
  /\ place' = [place EXCEPT ![r] = "refused"]
  /\ booked' = booked \ {r} /\ stale' = stale \ {r}
  /\ UNCHANGED <<queued, leased, late, had, fate, turnVars, answers, crashes>>

\* What the flush delivers must still be queued when it is sent or put back, unless it strays.
Wanted(r) == r \in late => r \in queued

\* The target works, its ledger cannot be purged, or the flush's delivery failed: the request waits
\* in the held queue.
PutBack(r) ==
  /\ place[r] = "stray" \/ (place[r] = "flight" /\ Wanted(r))
  /\ place' = [place EXCEPT ![r] = "held"]
  /\ queued' = queued \cup {r} /\ late' = late \ {r}
  /\ UNCHANGED <<leased, had, bookVars, turnVars, answers, crashes>>

\* It left the queue while the flush was delivering it: called off, and nobody is told.
Withdraw(r) ==
  /\ place[r] = "flight" /\ ~Wanted(r)
  /\ place' = [place EXCEPT ![r] = "lost"]
  /\ late' = late \ {r}
  /\ UNCHANGED <<queued, leased, had, bookVars, turnVars, answers, crashes>>

\* The flush takes it up; one that was given out, when its lease has run out.
Flush(r) ==
  /\ place[r] = "held"
  /\ place' = [place EXCEPT ![r] = "flight"]
  /\ late' = late \cup {r}
  /\ UNCHANGED <<queued, leased, had, bookVars, turnVars, answers, crashes>>

\* Sent to a target that looked idle or could not be read; it works on it from now on.
Send(r) ==
  /\ place[r] = "stray" \/ (place[r] = "flight" /\ Wanted(r))
  /\ place' = [place EXCEPT ![r] = "sent"]
  /\ had' = had \cup {r}
  /\ \E idle \in {turn = "idle", FALSE} : NoteDelivered({Caller[r]}, idle)
  /\ turn' = "busy"
  /\ UNCHANGED <<queued, leased, late, bookVars, last, answers, crashes>>

\* Mutant of Touch: whatever reaches the target from the caller starts all its clocks again.
TouchSlot(c, S) == stale \ Of(c)

\* touchDelivered: what was delivered late starts its own two hours, by message id.
Touch(c, S) == stale \ (Of(c) \cap S)

\* The request leaves the queue with its lease record.
Dequeue(r) == queued' = queued \ {r} /\ leased' = leased \ {r}

\* The delivery is over; what the flush delivered starts its clock and leaves the queue.
Land(r) ==
  /\ place[r] = "sent"
  /\ place' = [place EXCEPT ![r] = "given"]
  /\ Dequeue(r) /\ late' = late \ {r}
  /\ stale' = IF r \in late THEN Touch(Caller[r], {r}) ELSE stale
  /\ UNCHANGED <<had, booked, fate, turnVars, answers, crashes>>

\* check_inbox gives it out (again, when its lease has run out): the target has seen it.
TakeInbox(r) ==
  /\ place[r] = "held"
  /\ leased' = leased \cup {r}
  /\ had' = had \cup {r}
  /\ stale' = Touch(Caller[r], {r})
  /\ UNCHANGED <<place, queued, late, booked, fate, turnVars, answers, crashes>>

\* The target confirms its batch, whether the lease still runs or not.
Confirm(r) ==
  /\ place[r] = "held" /\ r \in leased
  /\ place' = [place EXCEPT ![r] = "given"]
  /\ Dequeue(r)
  /\ UNCHANGED <<late, had, bookVars, turnVars, answers, crashes>>

\* ageHeld gives it up after 24 hours, or kill's cleanup discards it: the queue forgets it, the
\* book does not, and a delivery under way goes on.  One that waits in inboundLedgerGate, past its
\* last look at the queue, does not notice.
GiveUp(r) ==
  /\ r \in queued
  /\ \E there \in IF place[r] = "held" THEN {"lost"}
                  ELSE IF place[r] = "flight" /\ r \in Gated THEN {"flight", "stray"}
                  ELSE {place[r]} :
       place' = [place EXCEPT ![r] = there]
  /\ Dequeue(r)
  /\ UNCHANGED <<late, had, bookVars, turnVars, answers, crashes>>

\* Something that asks for no answer is delivered: a oneShot of an agent, or the owner's.
Notice(c) ==
  /\ \E idle \in {turn = "idle", FALSE} : NoteDelivered({}, idle)
  /\ turn' = "busy"
  /\ stale' = Touch(c, {})
  /\ UNCHANGED <<roadVars, booked, fate, last, answers, crashes>>

Road == \/ \E r \in Reqs : \/ Ask(r) \/ Refuse(r) \/ PutBack(r) \/ Withdraw(r) \/ Flush(r)
                           \/ Send(r) \/ Land(r) \/ TakeInbox(r) \/ Confirm(r) \/ GiveUp(r)
        \/ \E c \in Callers : Notice(c)

-----------------------------------------------------------------------------
(* Answers.  A handler reads the book, waits for its push, then consumes what it had read. *)

NoAnswer == [by |-> "nobody", stage |-> "off", view |-> {}]
AnswerType == [by : {"nobody", "reply", "route", "stop"}, stage : {"off", "waiting", "pushing"},
               view : SUBSET Reqs]

Begin(answer) ==
  \E h \in Handlers :
    /\ answers[h] = NoAnswer
    /\ answers' = [answers EXCEPT ![h] = answer]

End(h) == answers' = [answers EXCEPT ![h] = NoAnswer]
Push(h, S) == answers' = [answers EXCEPT ![h].stage = "pushing", ![h].view = S]

\* The turn's end is booked: the next turn starts with no trigger.
CloseTurn ==
  /\ last' = [known |-> TRUE, askers |-> Askers, batch |-> FALSE]
  /\ trigger' = NoTrigger

\* The target starts a turn by itself.
TurnStart ==
  /\ turn = "idle" /\ turn' = "busy"
  /\ UNCHANGED <<roadVars, bookVars, trigger, last, answers, crashes>>

\* reply() in the target's own channel, addressed to nobody: delivered there first.
Reply ==
  /\ turn = "busy"
  /\ Begin([by |-> "reply", stage |-> "waiting", view |-> {}])
  /\ UNCHANGED <<roadVars, bookVars, turnVars, crashes>>

\* Then it is pushed to the one caller that waits, or to nobody.
ReplyRouted(h) ==
  /\ answers[h].by = "reply" /\ answers[h].stage = "waiting"
  /\ \/ \E c \in Callers : Answerable(c) /\ Push(h, Seen(c))
     \/ (\A c \in Callers : ~Answerable(c)) /\ End(h)
  /\ UNCHANGED <<roadVars, bookVars, turnVars, crashes>>

\* send_to_agent back to a caller: answers what the target has seen of that caller.
AnswerCaller(c) ==
  /\ turn = "busy" /\ Seen(c) # {}
  /\ Begin([by |-> "route", stage |-> "pushing", view |-> Seen(c)])
  /\ UNCHANGED <<roadVars, bookVars, turnVars, crashes>>

\* The push failed: after send_to_agent and at a Stop nothing is answered.
AnswerFails(h) ==
  /\ answers[h].stage = "pushing" /\ answers[h].by # "reply"
  /\ End(h)
  /\ IF answers[h].by = "stop" THEN CloseTurn ELSE UNCHANGED <<trigger, last>>
  /\ UNCHANGED <<roadVars, bookVars, turn, crashes>>

\* The turn ends.  The Stop handler waits (for the screen, for the session file) before it settles.
Stop ==
  /\ turn = "busy" /\ turn' = "idle"
  /\ Begin([by |-> "stop", stage |-> "waiting", view |-> {}])
  /\ UNCHANGED <<roadVars, bookVars, trigger, last, crashes>>

\* settleCallers: the turn's text goes to the one caller that waits now; without text its
\* requests are dropped silently; with several callers waiting nobody is answered.
Settle(h) ==
  /\ answers[h].by = "stop" /\ answers[h].stage = "waiting"
  /\ \/ \E c \in Callers :
          /\ Answerable(c)
          /\ \/ Push(h, Seen(c)) /\ UNCHANGED <<bookVars, trigger, last>>
             \/ End(h) /\ Consume(Seen(c)) /\ Record(Seen(c), "silent") /\ CloseTurn
     \/ /\ \A c \in Callers : ~Answerable(c)
        /\ End(h) /\ CloseTurn /\ UNCHANGED bookVars
  /\ UNCHANGED <<roadVars, turn, crashes>>

\* The push is over (for reply(), however it ended): what was read is consumed.
Answered(h) ==
  /\ answers[h].stage = "pushing"
  /\ Consume(answers[h].view)
  /\ Record(answers[h].view, "answered")
  /\ End(h)
  /\ IF answers[h].by = "stop" THEN CloseTurn ELSE UNCHANGED <<trigger, last>>
  /\ UNCHANGED <<roadVars, turn, crashes>>

Answering == \/ TurnStart \/ Reply \/ Stop
             \/ \E c \in Callers : AnswerCaller(c)
             \/ \E h \in Handlers : ReplyRouted(h) \/ AnswerFails(h) \/ Settle(h) \/ Answered(h)

-----------------------------------------------------------------------------
(* Time, takeovers, restarts. *)

\* Two hours since delivery (for a request still held: since it was sent) are over.
Age(r) ==
  /\ r \in booked \ stale
  /\ stale' = stale \cup {r}
  /\ UNCHANGED <<roadVars, booked, fate, turnVars, answers, crashes>>

\* requestExpired: what the target has not seen yet does not expire.
Overdue == {r \in stale : ~Unseen(r)}

\* sweepStale, every minute.
Sweep ==
  /\ Overdue # {}
  /\ Record(Overdue, "expired")
  /\ booked' = booked \ Overdue /\ stale' = stale \ Overdue
  /\ UNCHANGED <<roadVars, turnVars, answers, crashes>>

\* dropChannel: the owner takes over the target's channel, or a caller's.
TakeOver(S) ==
  /\ booked \cap S # {}
  /\ Record(booked \cap S, "cleared")
  /\ booked' = booked \ S /\ stale' = stale \ S
  /\ UNCHANGED <<roadVars, turnVars, answers, crashes>>

\* The bridge restarts with its two files: a delivery of a queued message is held again, any
\* other is gone with the handlers and what is known of turns.
Crash ==
  /\ crashes < MaxCrashes
  /\ crashes' = crashes + 1
  /\ place' = [r \in Reqs |-> IF place[r] \notin {"flight", "stray", "sent"} THEN place[r]
                             ELSE IF r \in queued THEN "held"
                             ELSE IF place[r] = "sent" THEN "given" ELSE "lost"]
  /\ answers' = [h \in Handlers |-> NoAnswer]
  /\ late' = {}
  /\ trigger' = NoTrigger /\ last' = NoTrigger
  /\ UNCHANGED <<queued, leased, had, bookVars, turn>>

\* The three seconds in which deliveries open a turn together are over.
BatchOver ==
  /\ trigger.batch /\ trigger' = [trigger EXCEPT !.batch = FALSE]
  /\ UNCHANGED <<roadVars, bookVars, turn, last, answers, crashes>>

Housekeeping == \/ Sweep \/ BatchOver \/ Crash \/ TakeOver(Reqs)
                \/ \E r \in Reqs : Age(r)
                \/ \E c \in Callers : TakeOver(Of(c))

-----------------------------------------------------------------------------
Init ==
  /\ place = [r \in Reqs |-> "new"] /\ queued = {} /\ leased = {} /\ late = {} /\ had = {}
  /\ booked = {} /\ stale = {} /\ fate = [r \in Reqs |-> "none"]
  /\ turn = "idle" /\ trigger = NoTrigger /\ last = NoTrigger
  /\ answers = [h \in Handlers |-> NoAnswer]
  /\ crashes = 0

Next == Road \/ Answering \/ Housekeeping

Spec == Init /\ [][Next]_vars

\* Time passes and the minute sweep runs.
LiveSpec == Spec /\ WF_vars(Sweep) /\ \A r \in Reqs : WF_vars(Age(r))

-----------------------------------------------------------------------------
TypeOK ==
  /\ place \in [Reqs -> Places] /\ had \subseteq Reqs
  /\ leased \subseteq queued /\ queued \subseteq Reqs /\ late \subseteq Reqs
  /\ stale \subseteq booked /\ booked \subseteq Reqs
  /\ fate \in [Reqs -> Fates]
  /\ turn \in {"idle", "busy"} /\ {trigger, last} \subseteq TriggerType
  /\ answers \in [Handlers -> AnswerType] /\ crashes \in 0 .. MaxCrashes

With(ends) == {r \in Reqs : fate[r] \in ends}
Gone == {r \in Reqs : place[r] = "lost"}

\* A request keeps its return route until it was answered, its turn ended without a word,
\* it expired, or its channel was taken over: no answer to an earlier request takes along
\* one that was sent while the answer was on its way.
RouteKept ==
  \A r \in Reqs : place[r] \notin {"new", "refused"} =>
    r \in booked \/ fate[r] # "none"

\* A request that waits in the queue or in the lane does not expire, however long it waits:
\* its two hours start when the target receives it.
WaitingNeverExpires == With({"expired"}) \subseteq had \cup Gone

\* An answer consumes only what the target received, or what left the queue without ever
\* reaching it (given up, or lost with the lane in a restart): the book does not tell them apart.
AnswersReceived == With({"answered", "silent"}) \subseteq had \cup Gone

\* Whatever ends a request's route while it is still on its way to the target is an event of its
\* own: no answer to another request, no silent turn, no clock.
UnreceivedIsKept == WaitingNeverExpires /\ AnswersReceived

\* A request the target has seen leaves the book in the end even if it is never answered,
\* whatever else its caller keeps sending.
RouteEnds ==
  \A r \in Reqs : (r \in booked /\ place[r] \in {"given", "lost"}) ~> (r \notin booked)

\* The refinement mapping: once it is over, the road does not tell how a request left it.
PlaceOf(r) == IF place[r] \in {"given", "lost", "refused"} THEN "over" ELSE place[r]
OnRoad == INSTANCE RequestRoad WITH place <- [r \in Reqs |-> PlaceOf(r)]

\* A request goes nowhere that the queue, the lane and the flush do not take it.
FollowsRoad == OnRoad!Spec

-----------------------------------------------------------------------------
\* agent-messaging.md: "Answers only ever consume the requests the target has seen."  A request
\* given up after 24 hours is not held any more, so until the next sweep it counts as seen.
AnswersOnlySeen == With({"answered", "silent"}) \subseteq had
=============================================================================
