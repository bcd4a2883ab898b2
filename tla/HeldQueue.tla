----------------------------- MODULE HeldQueue -----------------------------
(***************************************************************************)
(* Delivery of messages to one local agent by the bridge: the ordered lane *)
(* every delivery to the agent's channel runs through (deliverToLocal),    *)
(* the persisted queue of held messages (held-queue.ts), the flush that    *)
(* empties it (held-flush.ts) and the agent's own check_inbox (inbox.ts).  *)
(*                                                                         *)
(* The bridge is one JavaScript thread: an action is a stretch of code     *)
(* between two awaits that really wait, so every interleaving of the lane, *)
(* the flush, an inbox call, the minute sweep, kill cleanup, reconnects    *)
(* and crashes is a behaviour.  Time is kept as saturating ages.           *)
(***************************************************************************)
EXTENDS Naturals, Sequences, FiniteSets

CONSTANTS
  Msgs,        \* envelopes; each arrives once
  Kind,        \* Msgs -> {"agent", "notice", "owner", "ask"}
  Long,        \* messages too long for an inbox batch: previewed, then read by their id
  Pinned,      \* messages addressed to one session (meta.expectSession)
  Pi,          \* sessions of the Pi runtime in tmux: an inbound ledger is purged before each send
  LateAge,     \* OWNER_HELD_MAX_MS
  LeaseLen,    \* INBOX_LEASE_MS
  NotifyAge,   \* HELD_NOTIFY_MS
  GiveUpAge,   \* HELD_GIVE_UP_MS
  MaxTake,     \* messages of one inbox batch
  MaxLives,    \* bound: sessions that use the channel one after another
  MaxCrashes,  \* bound: restarts of the bridge
  MaxBatches   \* bound: inbox batches handed out

None == "none"

ASSUME KindAssumption == Kind \in [Msgs -> {"agent", "notice", "owner", "ask"}]
ASSUME MsgsAssumption == Pinned \subseteq Msgs /\ Long \subseteq Msgs /\ None \notin Msgs
ASSUME AgesAssumption ==
  /\ {LateAge, LeaseLen, NotifyAge, GiveUpAge} \subseteq Nat
  /\ LateAge <= GiveUpAge /\ LeaseLen <= GiveUpAge /\ NotifyAge <= GiveUpAge
ASSUME BoundsAssumption ==
  {MaxTake, MaxLives, MaxCrashes, MaxBatches} \subseteq Nat /\ MaxLives > 0

VARIABLES
  turn,     \* the agent's main turn: "idle", "busy" or "compacting"
  life,     \* "alive", "killed" (window closed), "cleaned" (/agent/cleanup ran)
  session,  \* which session the channel now belongs to
  conn,     \* whether a socket is registered for the channel
  held,     \* the messages in the held queue (on disk too: every change is saved)
  item,     \* per held message: age, 30-minute notice sent, lease
  ahead,    \* queue order: <<x, y>> when x stands before y
  lane,     \* deliveries of this channel, served one at a time in order
  flush,    \* the flush of this channel
  inbox,    \* the check_inbox call being served
  batches,  \* how many inbox batches were handed out
  known,    \* batches whose tool result the agent received
  told,     \* per message: what its sender was answered ("refused": an error, or no answer at all)
  home,     \* per message: the session it was addressed to
  copies,   \* per message: how often it was written to an open socket
  lost,     \* messages written to a socket that was already closed
  shown,    \* messages a tool result of check_inbox showed
  acked,    \* messages the agent confirmed
  gaveUp,   \* messages given up after 24 hours, sender notified
  killed,   \* messages discarded by kill cleanup
  expelled, \* messages dropped because their session is gone
  crashes   \* restarts of the bridge so far

agentVars == <<turn, life, session, conn>>
queueVars == <<held, item, ahead>>
callVars  == <<flush, inbox, batches, known>>
endVars   == <<shown, acked, gaveUp, killed>>
wireVars  == <<copies, lost, expelled>>
vars == <<agentVars, queueVars, lane, callVars, told, home, wireVars, endVars, crashes>>

-----------------------------------------------------------------------------
(* Messages and held items. *)

Ages == 0 .. GiveUpAge + 1
Older(a) == IF a > GiveUpAge THEN a ELSE a + 1
LeaseOlder(a) == IF a < LeaseLen THEN a + 1 ELSE a

Fresh == [age |-> 0, notified |-> FALSE, batch |-> 0, leaseAge |-> 0]
Items == [age : Ages, notified : BOOLEAN, batch : 0 .. MaxBatches, leaseAge : 0 .. LeaseLen]

Leased(m) == item[m].batch > 0 /\ item[m].leaseAge < LeaseLen
Takeable(m) == Kind[m] # "notice"
OwnerLate(m) == Kind[m] \in {"owner", "ask"} /\ item[m].age >= LateAge

\* Local agents and the bridge share a turn; the owner's messages open one of their own.
Insider(m) == Kind[m] \in {"agent", "notice"}
JoinsTurn(first, m) == first # None => (Insider(first) <=> Insider(m))

\* Mutant of HoldsUntilIdle: the waitForIdle mark of a late card answer is not cleared.
HoldsLateToo(m, late, seen) ==
  seen = "compacting" \/ (seen = "busy" /\ (Insider(m) \/ Kind[m] = "ask"))

\* holdsUntilIdle: a late card answer has lost its waitForIdle mark.
HoldsUntilIdle(m, late, seen) ==
  \/ seen = "compacting"
  \/ seen = "busy" /\ (Insider(m) \/ (Kind[m] = "ask" /\ ~late))

\* Mutant of Hold: a message put back is queued anew, without its age and its lease.
HoldAnew(m) ==
  /\ held' = held \cup {m}
  /\ item' = [item EXCEPT ![m] = Fresh]
  /\ ahead' = {p \in ahead : m \notin {p[1], p[2]}} \cup ((held \ {m}) \X {m})

\* HeldQueue.hold: a message already queued keeps its place, age and lease.
Hold(m) ==
  /\ held' = held \cup {m}
  /\ item' = IF m \in held THEN item ELSE [item EXCEPT ![m] = Fresh]
  /\ ahead' = IF m \in held THEN ahead ELSE ahead \cup (held \X {m})

\* Mutant of Remove: a message that leaves the queue keeps its lease.
RemoveKeepsLease(S) ==
  /\ held' = held \ S /\ UNCHANGED item
  /\ ahead' = {p \in ahead : p[1] \notin S /\ p[2] \notin S}

\* HeldQueue.remove, for every message of S.
Remove(S) ==
  /\ held' = held \ S
  /\ item' = [m \in Msgs |-> IF m \in S THEN Fresh ELSE item[m]]
  /\ ahead' = {p \in ahead : p[1] \notin S /\ p[2] \notin S}


-----------------------------------------------------------------------------
(* The lane: deliverToLocal, serialised per channel by createKeyedSerial. *)

\* A delivery or an inbox call keeps the socket it began with; once closed it stays closed.
Sockets == {"current", "closed"}
Job == [msg : Msgs, via : {"direct", "flush"}, ws : Sockets, late : BOOLEAN,
        phase : {"queued", "probed", "vetted", "gated", "written"}, hold : BOOLEAN]

NewJob(m, via, late) ==
  [msg |-> m, via |-> via, ws |-> "current", late |-> late, phase |-> "queued", hold |-> FALSE]

\* What a delivery's end means to its caller: the sender's answer, or the flush's next step.
FlushOff == [pc |-> "off", todo |-> {}, late |-> {}, first |-> None]
Answer(outcome) ==
  IF lane[1].via = "direct"
  THEN told' = [told EXCEPT ![lane[1].msg] = outcome] /\ UNCHANGED flush
  ELSE /\ UNCHANGED told
       /\ flush' = CASE outcome = "queued" -> FlushOff
                     [] outcome = "sent" -> [flush EXCEPT !.pc = "next",
                          !.first = IF @ = None THEN lane[1].msg ELSE @]
                     [] OTHER -> [flush EXCEPT !.pc = "next"]

\* Mutant of Dequeue: the flush leaves what it delivered in the queue.
DequeueForgotten == UNCHANGED queueVars

\* The flush takes a message out of the queue once its delivery is over.
Dequeue == IF lane[1].via = "flush" THEN Remove({lane[1].msg}) ELSE UNCHANGED queueVars

\* A message for a connected agent: the socket is the one registered now.
Accept(m) ==
  /\ told[m] = "new" /\ conn
  /\ lane' = Append(lane, NewJob(m, "direct", FALSE))
  /\ told' = [told EXCEPT ![m] = "pending"]
  /\ home' = [home EXCEPT ![m] = session]
  /\ UNCHANGED <<agentVars, queueVars, callVars, wireVars, endVars, crashes>>

\* pushBackToCaller: an answer for an agent that is offline goes straight to the queue.
AcceptOffline(m) ==
  /\ told[m] = "new" /\ Kind[m] = "agent" /\ m \notin Pinned
  /\ ~conn /\ life # "cleaned"
  /\ Hold(m)
  /\ told' = [told EXCEPT ![m] = "queued"]
  /\ home' = [home EXCEPT ![m] = session]
  /\ UNCHANGED <<agentVars, lane, callVars, wireVars, endVars, crashes>>

\* Preempts for an owner's request, then looks at the screen; an unreadable one holds nothing.
Probe ==
  /\ lane # << >> /\ lane[1].phase = "queued"
  /\ turn' \in IF Kind[lane[1].msg] = "owner" /\ turn = "busy" THEN {"busy", "idle"} ELSE {turn}
  /\ \E seen \in {turn', "unknown"} :
       lane' = [lane EXCEPT ![1] = [@ EXCEPT !.phase = "probed",
                  !.hold = HoldsUntilIdle(lane[1].msg, lane[1].late, seen)]]
  /\ UNCHANGED <<life, session, conn, queueVars, callVars, told, home, wireVars, endVars, crashes>>

\* Mutant of Fail: the flush dequeues a message whose delivery failed.
FailDequeues ==
  /\ lane # << >> /\ lane[1].phase = "queued"
  /\ lane' = Tail(lane)
  /\ Answer("refused")
  /\ Dequeue
  /\ UNCHANGED <<agentVars, inbox, batches, known, home, wireVars, endVars, crashes>>

\* An await of the delivery throws: the sender is told, a held message stays held.
Fail ==
  /\ lane # << >> /\ lane[1].phase = "queued"
  /\ lane' = Tail(lane)
  /\ Answer("refused")
  /\ UNCHANGED <<agentVars, queueVars, inbox, batches, known, home, wireVars, endVars, crashes>>

\* Mutant of StillWanted: nothing is looked up again before the send.
AlwaysWanted == TRUE

StillWanted == lane[1].via = "flush" => lane[1].msg \in held

\* Withdrawn from the queue meanwhile: neither sent nor held again.
Withdraw ==
  /\ lane # << >> /\ lane[1].phase = "probed" /\ ~StillWanted
  /\ lane' = Tail(lane)
  /\ Answer("refused")
  /\ Dequeue
  /\ UNCHANGED <<agentVars, inbox, batches, known, home, wireVars, endVars, crashes>>

\* sessionGone reads the registry: after StillWanted, so what it waits for may end meanwhile.
Vet ==
  /\ lane # << >> /\ lane[1].phase = "probed" /\ lane[1].msg \in Pinned /\ StillWanted
  /\ lane' = [lane EXCEPT ![1] = [@ EXCEPT !.phase = "vetted"]]
  /\ UNCHANGED <<agentVars, queueVars, callVars, told, home, wireVars, endVars, crashes>>

\* Mutant of SessionGone: the session of a held message is not checked again.
SessionNeverGone(m) == FALSE

SessionGone(m) == home[m] # session

Expel ==
  /\ lane # << >> /\ lane[1].phase = "vetted" /\ SessionGone(lane[1].msg)
  /\ expelled' = expelled \cup {lane[1].msg}
  /\ lane' = Tail(lane)
  /\ Answer("refused")
  /\ Dequeue
  /\ UNCHANGED <<agentVars, inbox, batches, known, home, copies, lost, endVars, crashes>>

\* Past the checks, with no wait since the last of them: vetted, or not addressed to a session and
\* still wanted.
Ready ==
  /\ lane # << >>
  /\ IF lane[1].msg \in Pinned
     THEN lane[1].phase = "vetted" /\ ~SessionGone(lane[1].msg)
     ELSE lane[1].phase = "probed" /\ StillWanted

\* The agent was busy when looked at: (back) into the queue, answered "queued".
PutBack ==
  /\ Ready /\ lane[1].hold
  /\ Hold(lane[1].msg)
  /\ lane' = Tail(lane)
  /\ Answer("queued")
  /\ UNCHANGED <<agentVars, inbox, batches, known, home, wireVars, endVars, crashes>>

\* The runtime that the registered socket names.
PiAgent == conn /\ session \in Pi

\* inboundLedgerGate, for a Pi session whose name the bridge does not know: it reads the registry
\* before it purges the agent's ledger, and nothing is looked at again after that.
Gate ==
  /\ Ready /\ ~lane[1].hold /\ PiAgent
  /\ lane' = [lane EXCEPT ![1] = [@ EXCEPT !.phase = "gated"]]
  /\ UNCHANGED <<agentVars, queueVars, callVars, told, home, wireVars, endVars, crashes>>

AtGate == lane # << >> /\ lane[1].phase = "gated"

\* The ledger of a Pi session cannot be purged: (back) into the queue, though the agent is idle.
LedgerHold ==
  /\ AtGate \/ (Ready /\ ~lane[1].hold /\ PiAgent)
  /\ Hold(lane[1].msg)
  /\ lane' = Tail(lane)
  /\ Answer("queued")
  /\ UNCHANGED <<agentVars, inbox, batches, known, home, wireVars, endVars, crashes>>

\* ws.send on the socket taken when the delivery began; its result is not looked at.
Write(m, ws) ==
  /\ turn' = "busy"
  /\ IF ws = "current"
     THEN copies' = [copies EXCEPT ![m] = @ + 1] /\ UNCHANGED lost
     ELSE lost' = lost \cup {m} /\ UNCHANGED copies

\* A local agent's message waits for the registry after the send (channelStillRegistered).
Send ==
  /\ AtGate \/ (Ready /\ ~lane[1].hold)
  /\ Write(lane[1].msg, lane[1].ws)
  /\ IF Kind[lane[1].msg] = "agent"
     THEN /\ lane' = [lane EXCEPT ![1] = [@ EXCEPT !.phase = "written"]]
          /\ UNCHANGED <<queueVars, flush, told>>
     ELSE /\ lane' = Tail(lane)
          /\ Answer("sent")
          /\ Dequeue
  /\ UNCHANGED <<life, session, conn, inbox, batches, known, home, expelled, endVars, crashes>>

Return ==
  /\ lane # << >> /\ lane[1].phase = "written"
  /\ lane' = Tail(lane)
  /\ Answer("sent")
  /\ Dequeue
  /\ UNCHANGED <<agentVars, inbox, batches, known, home, wireVars, endVars, crashes>>

Deliver == Probe \/ Fail \/ Withdraw \/ Vet \/ Expel \/ PutBack \/ Gate \/ LedgerHold \/ Send \/ Return

-----------------------------------------------------------------------------
(* The flush: flushHeld, triggered by Stop, compaction end and the sweep. *)

\* Mutant of Claimed: check_inbox takes no claim.
ClaimedByFlush == flush.pc # "off"

\* HeldQueue.claim: a flush and an inbox call never work on the channel together.
Claimed == flush.pc # "off" \/ inbox.pc # "off"

FlushStart ==
  /\ held # {} /\ turn # "compacting" /\ ~Claimed
  /\ flush' = [FlushOff EXCEPT !.pc = "claimed"]
  /\ UNCHANGED <<agentVars, queueVars, lane, inbox, batches, known, told, home, wireVars, endVars, crashes>>

\* Mutant of Due: a lease does not keep the flush away.
DueLeasedToo(m, working) == working => Kind[m] = "owner" \/ OwnerLate(m)

\* What may go now: nothing leased; while the agent works only the owner's and late messages.
Due(m, working) == ~Leased(m) /\ (working => Kind[m] = "owner" \/ OwnerLate(m))

\* Looks at the agent, then takes the snapshot this flush works through.
FlushPlan ==
  /\ flush.pc = "claimed"
  /\ \E seen \in {turn, "unknown"} :
       LET due == {m \in held : Due(m, seen \in {"busy", "compacting"})}
       IN  flush' = [flush EXCEPT !.pc = "next", !.todo = due, !.late = {m \in due : OwnerLate(m)}]
  /\ UNCHANGED <<agentVars, queueVars, lane, inbox, batches, known, told, home, wireVars, endVars, crashes>>

\* The next message of the snapshot that is still queued: late ones first, then queue order.
FlushHead(m) ==
  LET left == flush.todo \cap held
      class == IF left \cap flush.late # {} THEN left \cap flush.late ELSE left
  IN  m \in class /\ \A x \in class : <<x, m>> \notin ahead

FlushNext ==
  /\ flush.pc = "next"
  /\ \E m \in held :
       /\ FlushHead(m)
       /\ conn /\ JoinsTurn(flush.first, m)
       /\ lane' = Append(lane, NewJob(m, "flush", m \in flush.late))
       /\ flush' = [flush EXCEPT !.pc = "waiting", !.todo = @ \ {m}]
  /\ UNCHANGED <<agentVars, queueVars, inbox, batches, known, told, home, wireVars, endVars, crashes>>

\* Nothing left, nobody connected, or a message of someone else is next.
FlushStop ==
  /\ flush.pc = "next"
  /\ \A m \in held : FlushHead(m) => ~conn \/ ~JoinsTurn(flush.first, m)
  /\ flush' = FlushOff
  /\ UNCHANGED <<agentVars, queueVars, lane, inbox, batches, known, told, home, wireVars, endVars, crashes>>

Flush == FlushStart \/ FlushPlan \/ FlushNext \/ FlushStop

-----------------------------------------------------------------------------
(* check_inbox: takeInbox, with the texts rendered between its two halves. *)

InboxOff == [pc |-> "off", ws |-> "closed", picked |-> {}, batch |-> 0, age |-> 0]

InBatch(b) == {m \in held : item[m].batch = b}

\* Takeable messages the call finds free, and those of a batch still to be confirmed.
Free(S) == {m \in S : Takeable(m) /\ ~Leased(m)}
Unconfirmed(S) == {m \in S : Takeable(m) /\ Leased(m)}

\* The batch of the first unconfirmed message, given again to an agent that confirms nothing.
OpenBatch(S) ==
  LET open == Unconfirmed(S)
  IN  {item[m].batch : m \in {m \in open : \A x \in open : <<x, m>> \notin ahead}}

Render(S, b) == inbox' = [pc |-> "rendering", ws |-> "current", picked |-> S, batch |-> b, age |-> 0]

\* check_inbox({ack}): the confirmed batch leaves the queue, the next messages are picked.
InboxTake(ack) ==
  /\ conn /\ ~Claimed
  /\ ack \in known \cup {0}
  /\ LET done == IF ack = 0 THEN {} ELSE InBatch(ack)
         rest == held \ done
     IN  /\ Remove(done)
         /\ acked' = acked \cup done
         /\ \/ /\ ack = 0 /\ Unconfirmed(rest) # {}
               /\ \E b \in OpenBatch(rest) : Render(Unconfirmed(rest) \cap InBatch(b), b)
            \/ /\ ack # 0 \/ Unconfirmed(rest) = {}
               /\ \E S \in SUBSET (Free(rest) \ Long) :
                    S # {} /\ Cardinality(S) <= MaxTake /\ Render(S, 0)
            \/ ack # 0 /\ UNCHANGED inbox   \* nothing free, or nothing that fits a batch
  /\ UNCHANGED <<agentVars, lane, flush, batches, known, told, home, wireVars, shown, gaveUp, killed, crashes>>

\* check_inbox({read}): one message by an id the agent saw in a preview or an earlier text;
\* it is leased by itself, unless it is leased already: then the batch it is in is named.
InboxRead(m) ==
  /\ conn /\ ~Claimed
  /\ m \in held \cap (Long \cup shown) /\ Takeable(m)
  /\ Render({m}, IF Leased(m) THEN item[m].batch ELSE 0)
  /\ UNCHANGED <<agentVars, queueVars, lane, flush, batches, known, told, home, wireVars, endVars, crashes>>

\* The tool result reaches the agent, or the call was cancelled meanwhile and it does not.
Result(S, b) ==
  \/ shown' = shown \cup S /\ known' = known \cup {b}
  \/ UNCHANGED <<shown, known>>

\* A batch given again is only read again: its lease is not renewed.
InboxAgain ==
  /\ inbox.pc = "rendering" /\ inbox.batch # 0
  /\ inbox.ws = "current" /\ inbox.picked \subseteq held
  /\ Result(inbox.picked, inbox.batch)
  /\ inbox' = InboxOff
  /\ UNCHANGED <<agentVars, queueVars, lane, flush, batches, told, home, wireVars, acked, gaveUp, killed, crashes>>

\* What is still queued is leased under a new batch, the lease running from the call's start.
InboxLease ==
  /\ inbox.pc = "rendering" /\ inbox.batch = 0
  /\ batches < MaxBatches
  /\ LET live == inbox.picked \cap held
     IN  /\ inbox.ws = "current" /\ live # {}
         /\ item' = [m \in Msgs |-> IF m \in live
                       THEN [item[m] EXCEPT !.batch = batches + 1, !.leaseAge = inbox.age]
                       ELSE item[m]]
         /\ Result(live, batches + 1)
  /\ batches' = batches + 1
  /\ inbox' = InboxOff
  /\ UNCHANGED <<agentVars, held, ahead, lane, flush, told, home, wireVars, acked, gaveUp, killed, crashes>>

\* The socket changed or what was picked is gone: the call answers with an error.
InboxFail ==
  /\ inbox.pc = "rendering"
  /\ \/ inbox.ws = "closed"
     \/ inbox.batch # 0 /\ ~(inbox.picked \subseteq held)
     \/ inbox.batch = 0 /\ (inbox.picked \cap held = {} \/ batches = MaxBatches)
  /\ inbox' = InboxOff
  /\ UNCHANGED <<agentVars, queueVars, lane, flush, batches, known, told, home, wireVars, endVars, crashes>>

InboxFinish == InboxAgain \/ InboxLease \/ InboxFail
InboxCall == \/ \E ack \in 0 .. MaxBatches : InboxTake(ack)
             \/ \E m \in Msgs : InboxRead(m)

-----------------------------------------------------------------------------
(* The minute sweep (ageHeld), kill, sockets, the agent's turn, restarts, time. *)

Overdue == {m \in held : item[m].age > GiveUpAge}
Unnotified == {m \in held \ Overdue : item[m].age > NotifyAge /\ ~item[m].notified}

\* After 24 hours a message is given up; after 30 minutes its sender is told once.
AgeHeld ==
  /\ Overdue \cup Unnotified # {}
  /\ held' = held \ Overdue
  /\ item' = [m \in Msgs |-> CASE m \in Overdue -> Fresh
                               [] m \in Unnotified -> [item[m] EXCEPT !.notified = TRUE]
                               [] OTHER -> item[m]]
  /\ ahead' = {p \in ahead : p[1] \notin Overdue /\ p[2] \notin Overdue}
  /\ gaveUp' = gaveUp \cup Overdue
  /\ UNCHANGED <<agentVars, lane, callVars, told, home, wireVars, shown, acked, killed, crashes>>

\* Deliveries and an inbox call that began on the registered socket keep it, closed.
CloseSocket ==
  /\ lane' = [i \in DOMAIN lane |-> [lane[i] EXCEPT !.ws = "closed"]]
  /\ inbox' = [inbox EXCEPT !.ws = "closed"]

\* manager kill: the agent's window is closed, its socket with it.
Kill ==
  /\ life = "alive" /\ session < MaxLives
  /\ life' = "killed" /\ turn' = "idle"
  /\ conn' = FALSE /\ CloseSocket
  /\ known' = {}
  /\ UNCHANGED <<session, queueVars, flush, batches, told, home, wireVars, endVars, crashes>>

\* /agent/cleanup (dropHeldOnKill): the queue is discarded; the lane is not touched.
Cleanup ==
  /\ life = "killed"
  /\ life' = "cleaned"
  /\ killed' = killed \cup held
  /\ Remove(held)
  /\ UNCHANGED <<turn, session, conn, lane, callVars, told, home, wireVars, shown, acked, gaveUp, crashes>>

\* Another session takes the channel.
Succeed ==
  /\ life = "cleaned"
  /\ life' = "alive" /\ session' = session + 1
  /\ UNCHANGED <<turn, conn, queueVars, lane, callVars, told, home, wireVars, endVars, crashes>>

\* A channel-server registers; an older socket is closed in the same step.
Register ==
  /\ life = "alive"
  /\ conn' = TRUE /\ CloseSocket
  /\ UNCHANGED <<turn, life, session, queueVars, flush, batches, known, told, home, wireVars, endVars, crashes>>

Disconnect ==
  /\ conn
  /\ conn' = FALSE /\ CloseSocket
  /\ UNCHANGED <<turn, life, session, queueVars, flush, batches, known, told, home, wireVars, endVars, crashes>>

\* The agent starts a turn by itself, ends one, compacts its context, and is done compacting.
TurnChange ==
  /\ life = "alive"
  /\ turn' \in CASE turn = "idle" -> {"busy", "compacting"}
                 [] turn = "busy" -> {"idle", "compacting"}
                 [] turn = "compacting" -> {"idle", "busy"}
  /\ UNCHANGED <<life, session, conn, queueVars, lane, callVars, told, home, wireVars, endVars, crashes>>

\* Mutant of Crash: the queue was kept in memory only.
CrashLosesQueue ==
  /\ crashes < MaxCrashes
  /\ crashes' = crashes + 1
  /\ conn' = FALSE
  /\ lane' = << >> /\ Remove(held)
  /\ flush' = FlushOff /\ inbox' = InboxOff
  /\ told' = [m \in Msgs |-> IF told[m] = "pending" THEN "refused" ELSE told[m]]
  /\ UNCHANGED <<turn, life, session, batches, known, home, wireVars, endVars>>

\* The bridge restarts: the queue is read back from disk, everything in memory is gone.
Crash ==
  /\ crashes < MaxCrashes
  /\ crashes' = crashes + 1
  /\ conn' = FALSE
  /\ lane' = << >>
  /\ flush' = FlushOff /\ inbox' = InboxOff
  /\ told' = [m \in Msgs |-> IF told[m] = "pending" THEN "refused" ELSE told[m]]
  /\ UNCHANGED <<turn, life, session, queueVars, batches, known, home, wireVars, endVars>>

\* Time passes for every held message, every lease and the inbox call being served.
Tick ==
  /\ item' = [m \in Msgs |-> IF m \notin held THEN item[m] ELSE
                [item[m] EXCEPT !.age = Older(@),
                                !.leaseAge = IF item[m].batch = 0 THEN 0 ELSE LeaseOlder(@)]]
  /\ inbox' = IF inbox.pc = "off" THEN inbox ELSE [inbox EXCEPT !.age = LeaseOlder(@)]
  /\ <<item', inbox'>> # <<item, inbox>>
  /\ UNCHANGED <<agentVars, held, ahead, lane, flush, batches, known, told, home, wireVars, endVars, crashes>>

Environment == Kill \/ Cleanup \/ Succeed \/ Register \/ Disconnect \/ TurnChange \/ Crash \/ Tick

-----------------------------------------------------------------------------
Init ==
  /\ turn = "idle" /\ life = "alive" /\ session = 1
  /\ conn = FALSE
  /\ held = {} /\ item = [m \in Msgs |-> Fresh] /\ ahead = {}
  /\ lane = << >> /\ flush = FlushOff /\ inbox = InboxOff
  /\ batches = 0 /\ known = {}
  /\ told = [m \in Msgs |-> "new"] /\ home = [m \in Msgs |-> 0]
  /\ copies = [m \in Msgs |-> 0] /\ lost = {} /\ expelled = {}
  /\ shown = {} /\ acked = {} /\ gaveUp = {} /\ killed = {}
  /\ crashes = 0

Arrive == \E m \in Msgs : Accept(m) \/ AcceptOffline(m)

Next == Arrive \/ Deliver \/ Flush \/ InboxCall \/ InboxFinish \/ AgeHeld \/ Environment

Spec == Init /\ [][Next]_vars

\* The bridge's own awaits end; the sweep runs every minute and short inbox calls
\* do not meet it for ever.  Time, the agent and the inbox owe nothing.
Fairness == /\ WF_vars(Deliver) /\ WF_vars(FlushPlan \/ FlushNext \/ FlushStop)
            /\ SF_vars(FlushStart) /\ WF_vars(InboxFinish) /\ WF_vars(AgeHeld)
LiveSpec == Spec /\ Fairness

-----------------------------------------------------------------------------
(* Type correctness. *)

AgentTypeOK ==
  /\ turn \in {"idle", "busy", "compacting"} /\ life \in {"alive", "killed", "cleaned"}
  /\ session \in 1 .. MaxLives /\ conn \in BOOLEAN
  /\ life # "alive" => session < MaxLives

\* The order relates queued messages only, and only queued messages have an age or a lease.
QueueTypeOK ==
  /\ held \subseteq Msgs /\ ahead \subseteq held \X held
  /\ item \in [Msgs -> Items] /\ \A m \in Msgs \ held : item[m] = Fresh

FlushType == [pc : {"off", "claimed", "next", "waiting"}, todo : SUBSET Msgs,
              late : SUBSET Msgs, first : Msgs \cup {None}]
InboxType == [pc : {"off", "rendering"}, ws : Sockets, picked : SUBSET Msgs,
              batch : 0 .. MaxBatches, age : 0 .. LeaseLen]
CallTypeOK ==
  /\ flush \in FlushType /\ inbox \in InboxType
  /\ batches \in 0 .. MaxBatches /\ known \subseteq 1 .. MaxBatches

Outcomes == {"new", "pending", "sent", "queued", "refused"}
HistoryTypeOK ==
  /\ told \in [Msgs -> Outcomes] /\ home \in [Msgs -> 0 .. MaxLives]
  /\ copies \in [Msgs -> Nat] /\ crashes \in 0 .. MaxCrashes
  /\ lost \subseteq Msgs /\ expelled \subseteq Msgs /\ shown \subseteq Msgs
  /\ acked \subseteq Msgs /\ gaveUp \subseteq Msgs /\ killed \subseteq Msgs

TypeOK == AgentTypeOK /\ QueueTypeOK /\ lane \in Seq(Job) /\ CallTypeOK /\ HistoryTypeOK

-----------------------------------------------------------------------------
(* Safety. *)

InLane == {lane[i].msg : i \in DOMAIN lane}
FlushJobs == {i \in DOMAIN lane : lane[i].via = "flush"}

\* One deliverer: a flush and an inbox call never work on the channel at the same time, and
\* the flush has exactly one delivery in the lane while it waits for one, none otherwise.
OneDeliverer ==
  /\ ~(flush.pc # "off" /\ inbox.pc # "off")
  /\ (flush.pc = "waiting") <=> (FlushJobs # {})
  /\ \A i, j \in FlushJobs : i = j

\* A message whose sender was told "sent" or "queued" is still queued or has met an end: it
\* was written to a socket, confirmed by the agent, given up, discarded by kill or refused by its session.
Accounted(m) == \/ m \in held \cup lost \cup acked \cup gaveUp \cup killed \cup expelled
                \/ copies[m] > 0
NothingVanishes == \A m \in Msgs : told[m] \in {"sent", "queued"} => Accounted(m)

\* Why NothingVanishes is kept: a delivery in the lane is one its caller still waits for,
\* an untouched message has no history, and what is held was promised.
JobOK(job) ==
  /\ told[job.msg] = IF job.via = "direct" THEN "pending" ELSE "queued"
  /\ job.phase = "written" => job.msg \in lost \/ copies[job.msg] > 0
DirectOnce ==
  \A i, j \in DOMAIN lane :
    lane[i].via = "direct" /\ lane[j].via = "direct" /\ lane[i].msg = lane[j].msg => i = j
LaneOK == DirectOnce /\ \A i \in DOMAIN lane : JobOK(lane[i])
HeldOK == \A m \in held : told[m] = "queued"
NewOK == \A m \in Msgs : told[m] = "new" =>
           copies[m] = 0 /\ m \notin lost \cup acked \cup gaveUp \cup killed \cup expelled
Inv == TypeOK /\ LaneOK /\ HeldOK /\ NewOK /\ NothingVanishes

\* The agent sees a message on its socket once, and once more for every bridge restart that
\* can fall between the send and the dequeue.
OneCopyPerRun == \A m \in Msgs : copies[m] <= 1 + crashes

\* While check_inbox has a message leased, no flush writes it to the agent as well.
LeaseKeepsFlushAway ==
  [][\A m \in held : Leased(m) => copies'[m] = copies[m] /\ (m \in lost' => m \in lost)]_vars

\* A message addressed to a session is never written to another session's socket.
PinnedStaysHome ==
  [][\A m \in Pinned : copies'[m] > copies[m] => home[m] = session]_vars

\* Deliveries that wait for the registry after their last look at the queue.
PastLook == {lane[i].msg : i \in {k \in DOMAIN lane : lane[k].phase \in {"vetted", "gated"}}}

\* Over is over: what the agent confirmed, what was given up (and its sender told so) and what kill
\* discarded neither comes back to the queue nor reaches the agent later, although its delivery may
\* stand in the lane meanwhile and take up the socket, the screen and the interrupt before it looks
\* again.  Only a delivery that waits for the registry after that look goes on, and may queue it anew.
EndIsFinal ==
  [][\A m \in (acked \cup gaveUp \cup killed) \ (held \cup PastLook) :
       m \notin held' /\ copies'[m] = copies[m]]_vars

\* A card answer or message of the owner that has waited its two minutes is delivered even
\* to an agent that never ends its turn, provided it stays connected and not
\* compacting, deliveries stop failing and its ledger can be purged.
LateIsDelivered ==
  <>[](conn /\ turn # "compacting") /\ <>[][~Fail /\ ~LedgerHold]_vars =>
    \A m \in Msgs : (m \in held /\ OwnerLate(m)) ~> (m \notin held \/ Leased(m))

-----------------------------------------------------------------------------
(* Statements of the docs that the code does not keep. *)

\* agent-messaging.md: "Delivery is at least once".  deliverToLocal ignores what ws.send
\* returns, so a message written to a socket that had just closed is gone.
AtLeastOnce ==
  \A m \in Msgs : told[m] \in {"sent", "queued"} =>
    m \in held \cup acked \cup gaveUp \cup killed \cup expelled \/ copies[m] > 0

\* dropHeldOnKill: what was held for a killed agent must not reach a later agent on the same
\* channel.  A delivery already in the lane is not called off and holds its message again.
NotForSuccessor == [][\A m \in Msgs : copies'[m] > copies[m] => home[m] = session]_vars

\* deliverToLocal: what left the queue during a delivery (kill, 24 hours) is neither put back nor
\* sent.  It is looked for before the waits for the registry (sessionGone, inboundLedgerGate).
WithdrawnStaysAway ==
  [][\A m \in gaveUp \cup killed : (m \in held' => m \in held) /\ copies'[m] = copies[m]]_vars

\* agent-messaging.md: an ack confirms a batch the agent was given.  Reading one message of a
\* batch by its id names the whole batch, and acking it removes messages never shown.
ConfirmedWasShown == acked \subseteq shown
=============================================================================
