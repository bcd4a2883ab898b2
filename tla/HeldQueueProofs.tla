-------------------------- MODULE HeldQueueProofs --------------------------
(* What holds of HeldQueue for every set of messages and every bound. *)
EXTENDS HeldQueueRefinement, SequenceTheorems, TLAPS

-----------------------------------------------------------------------------
(* The lane as a sequence of jobs. *)

\* The delivery being served is a job of the lane.
LEMMA LaneHead ==
  ASSUME NEW s \in Seq(Job), s # << >>
  PROVE  1 \in DOMAIN s /\ s[1] \in Job /\ DOMAIN s = 1 .. Len(s) /\ Len(s) \in Nat
  BY EmptySeq, LenProperties, ElementOfSeq

\* Ending the delivery being served moves every other job one place up.
LEMMA LaneTail ==
  ASSUME NEW s \in Seq(Job), s # << >>
  PROVE  /\ Tail(s) \in Seq(Job)
         /\ \A i \in DOMAIN Tail(s) : i + 1 \in DOMAIN s /\ i + 1 # 1 /\ Tail(s)[i] = s[i + 1]
         /\ \A i \in DOMAIN s : i # 1 => i - 1 \in DOMAIN Tail(s) /\ Tail(s)[i - 1] = s[i]
  <1>1. /\ Tail(s) \in Seq(Job) /\ Len(Tail(s)) = Len(s) - 1
        /\ \A i \in 1 .. Len(Tail(s)) : Tail(s)[i] = s[i + 1]
    BY HeadTailProperties
  <1>2. DOMAIN s = 1 .. Len(s) /\ Len(s) \in Nat /\ DOMAIN Tail(s) = 1 .. Len(Tail(s))
    BY <1>1, LenProperties
  <1>3. QED  BY <1>1, <1>2

\* A step of the delivery being served changes that job only.
LEMMA LaneStep ==
  ASSUME NEW s \in Seq(Job), s # << >>, NEW j \in Job
  PROVE  /\ [s EXCEPT ![1] = j] \in Seq(Job)
         /\ DOMAIN [s EXCEPT ![1] = j] = DOMAIN s
         /\ \A i \in DOMAIN s : [s EXCEPT ![1] = j][i] = IF i = 1 THEN j ELSE s[i]
  BY ExceptSeq, LaneHead, LenProperties

\* A new job stands last.
LEMMA LaneAppend ==
  ASSUME NEW s \in Seq(Job), NEW j \in Job
  PROVE  /\ Append(s, j) \in Seq(Job)
         /\ DOMAIN Append(s, j) = DOMAIN s \cup {Len(s) + 1} /\ Len(s) + 1 \notin DOMAIN s
         /\ \A i \in DOMAIN s : Append(s, j)[i] = s[i]
         /\ Append(s, j)[Len(s) + 1] = j
  <1>1. /\ Append(s, j) \in Seq(Job) /\ Len(Append(s, j)) = Len(s) + 1
        /\ \A i \in 1 .. Len(s) : Append(s, j)[i] = s[i]
        /\ Append(s, j)[Len(s) + 1] = j
    BY AppendProperties
  <1>2. DOMAIN s = 1 .. Len(s) /\ Len(s) \in Nat
        /\ DOMAIN Append(s, j) = 1 .. Len(Append(s, j))
    BY <1>1, LenProperties
  <1>3. QED  BY <1>1, <1>2

\* What a step changes in the job being served leaves it a job.
LEMMA JobUpdates ==
  ASSUME NEW j \in Job
  PROVE  /\ [j EXCEPT !.ws = "closed"] \in Job
         /\ \A h \in BOOLEAN : [j EXCEPT !.phase = "probed", !.hold = h] \in Job
         /\ [j EXCEPT !.phase = "vetted"] \in Job
         /\ [j EXCEPT !.phase = "gated"] \in Job
         /\ [j EXCEPT !.phase = "written"] \in Job
         /\ j.msg \in Msgs /\ j.via \in {"direct", "flush"} /\ j.ws \in Sockets
  <1>1. [j EXCEPT !.ws = "closed"] \in Job  BY DEF Job, Sockets
  <1>2. \A h \in BOOLEAN : [j EXCEPT !.phase = "probed", !.hold = h] \in Job  BY DEF Job
  <1>3. [j EXCEPT !.phase = "vetted"] \in Job /\ [j EXCEPT !.phase = "gated"] \in Job  BY DEF Job
  <1>4. [j EXCEPT !.phase = "written"] \in Job  BY DEF Job
  <1>5. j.msg \in Msgs /\ j.via \in {"direct", "flush"} /\ j.ws \in Sockets  BY DEF Job
  <1>6. QED  BY <1>1, <1>2, <1>3, <1>4, <1>5

\* Closing the socket changes no more than the jobs' sockets.
LEMMA LaneClose ==
  ASSUME NEW s \in Seq(Job), NEW t, t = [i \in DOMAIN s |-> [s[i] EXCEPT !.ws = "closed"]]
  PROVE  /\ t \in Seq(Job) /\ DOMAIN t = DOMAIN s
         /\ \A i \in DOMAIN s : t[i] = [s[i] EXCEPT !.ws = "closed"]
  <1>1. DOMAIN s = 1 .. Len(s) /\ Len(s) \in Nat
    BY LenProperties
  <1>2. ASSUME NEW i \in 1 .. Len(s)
        PROVE  [s[i] EXCEPT !.ws = "closed"] \in Job
    <2>1. s[i] \in Job
      BY ElementOfSeq
    <2>2. QED  BY <2>1, JobUpdates
  <1>3. t \in [1 .. Len(s) -> Job]
    BY <1>1, <1>2
  <1>4. t \in Seq(Job)
    BY <1>1, <1>3, SeqDef
  <1>5. QED  BY <1>4

LEMMA NewJobType == \A m \in Msgs, late \in BOOLEAN, via \in {"direct", "flush"} :
                      NewJob(m, via, late) \in Job
  BY DEF NewJob, Job, Sockets

-----------------------------------------------------------------------------
(* Types of the queue's operations. *)

LEMMA FreshItem == Fresh \in Items
  BY AgesAssumption, BoundsAssumption DEF Fresh, Items, Ages

LEMMA HoldType ==
  ASSUME NEW m \in Msgs, QueueTypeOK, Hold(m)
  PROVE  QueueTypeOK'
  <1>1. CASE m \in held
    BY <1>1 DEF QueueTypeOK, Hold
  <1>2. CASE m \notin held
    BY <1>2, FreshItem DEF QueueTypeOK, Hold
  <1>3. QED  BY <1>1, <1>2

LEMMA RemoveType ==
  ASSUME NEW S, QueueTypeOK, Remove(S)
  PROVE  QueueTypeOK'
  <1>1. held' \subseteq Msgs /\ ahead' \subseteq held' \X held'
    BY DEF QueueTypeOK, Remove
  <1>2. item' \in [Msgs -> Items]
    BY FreshItem DEF QueueTypeOK, Remove
  <1>3. \A m \in Msgs \ held' : item'[m] = Fresh
    BY DEF QueueTypeOK, Remove
  <1>4. QED  BY <1>1, <1>2, <1>3 DEF QueueTypeOK

LEMMA DequeueType ==
  ASSUME QueueTypeOK, Dequeue
  PROVE  QueueTypeOK'
  BY RemoveType DEF Dequeue, QueueTypeOK, queueVars

LEMMA FlushOffType == FlushOff \in FlushType
  BY DEF FlushOff, FlushType

LEMMA AnswerType ==
  ASSUME lane \in Seq(Job), lane # << >>, told \in [Msgs -> Outcomes], flush \in FlushType,
         NEW outcome \in {"sent", "queued", "refused"}, Answer(outcome)
  PROVE  told' \in [Msgs -> Outcomes] /\ flush' \in FlushType
  <1>1. lane[1].msg \in Msgs
    BY LaneHead, JobUpdates
  <1>2. CASE lane[1].via = "direct"
    BY <1>1, <1>2 DEF Answer, Outcomes
  <1>3. CASE lane[1].via # "direct"
    <2>1. [flush EXCEPT !.pc = "next"] \in FlushType
      BY DEF FlushType
    <2>2. \A f \in Msgs \cup {None} : [flush EXCEPT !.pc = "next", !.first = f] \in FlushType
      BY DEF FlushType
    <2>3. flush.first \in Msgs \cup {None}
      BY DEF FlushType
    <2>4. flush' \in FlushType
      BY <1>1, <1>3, <2>1, <2>2, <2>3, FlushOffType DEF Answer
    <2>5. QED  BY <1>3, <2>4 DEF Answer
  <1>4. QED  BY <1>2, <1>3

LEMMA CloseSocketType ==
  ASSUME lane \in Seq(Job), inbox \in InboxType, CloseSocket
  PROVE  lane' \in Seq(Job) /\ inbox' \in InboxType
  <1>1. lane' \in Seq(Job)
    BY LaneClose DEF CloseSocket
  <1>2. inbox' \in InboxType
    BY DEF CloseSocket, InboxType, Sockets
  <1>3. QED  BY <1>1, <1>2

LEMMA InboxOffType == InboxOff \in InboxType
  BY AgesAssumption, BoundsAssumption DEF InboxOff, InboxType, Sockets

LEMMA RenderType ==
  ASSUME NEW S, S \subseteq Msgs, NEW b \in 0 .. MaxBatches, Render(S, b)
  PROVE  inbox' \in InboxType
  BY AgesAssumption DEF Render, InboxType, Sockets

\* Ages and leases stay within their bounds.
LEMMA AgeTypes ==
  /\ \A a \in Ages : Older(a) \in Ages
  /\ \A a \in 0 .. LeaseLen : LeaseOlder(a) \in 0 .. LeaseLen
  BY AgesAssumption DEF Ages, Older, LeaseOlder

-----------------------------------------------------------------------------
(* Type correctness, one step per action. *)

LEMMA TypeInit == Init => TypeOK
  <1> SUFFICES ASSUME Init PROVE TypeOK  OBVIOUS
  <1>1. AgentTypeOK
    <2>1. 1 \in 1 .. MaxLives
      BY BoundsAssumption
    <2>2. QED  BY <2>1 DEF Init, AgentTypeOK
  <1>2. QueueTypeOK
    BY FreshItem DEF Init, QueueTypeOK
  <1>3. lane \in Seq(Job)
    BY EmptySeq DEF Init
  <1>4. CallTypeOK
    BY FlushOffType, InboxOffType, BoundsAssumption DEF Init, CallTypeOK
  <1>5. HistoryTypeOK
    BY BoundsAssumption DEF Init, HistoryTypeOK, Outcomes
  <1>6. QED  BY <1>1, <1>2, <1>3, <1>4, <1>5 DEF TypeOK

LEMMA TypeArrive ==
  ASSUME TypeOK, Arrive
  PROVE  TypeOK'
  <1> USE DEF TypeOK, agentVars, queueVars, callVars, endVars, wireVars
  <1>1. ASSUME NEW m \in Msgs, Accept(m)
        PROVE  TypeOK'
    <2>1. lane' \in Seq(Job)
      BY <1>1, NewJobType, LaneAppend DEF Accept
    <2>2. HistoryTypeOK'
      BY <1>1 DEF Accept, HistoryTypeOK, AgentTypeOK, Outcomes
    <2>3. AgentTypeOK' /\ QueueTypeOK' /\ CallTypeOK'
      BY <1>1 DEF Accept, AgentTypeOK, QueueTypeOK, CallTypeOK
    <2>4. QED  BY <2>1, <2>2, <2>3
  <1>2. ASSUME NEW m \in Msgs, AcceptOffline(m)
        PROVE  TypeOK'
    <2>1. QueueTypeOK'
      BY <1>2, HoldType DEF AcceptOffline
    <2>2. HistoryTypeOK'
      BY <1>2 DEF AcceptOffline, HistoryTypeOK, AgentTypeOK, Outcomes
    <2>3. AgentTypeOK' /\ lane' \in Seq(Job) /\ CallTypeOK'
      BY <1>2 DEF AcceptOffline, AgentTypeOK, CallTypeOK
    <2>4. QED  BY <2>1, <2>2, <2>3
  <1>3. QED  BY <1>1, <1>2 DEF Arrive

\* A delivery that ends gives way to the next one and answers its caller.
LEMMA TypeEnd ==
  ASSUME TypeOK, lane # << >>, lane' = Tail(lane),
         NEW outcome \in {"sent", "queued", "refused"}, Answer(outcome),
         QueueTypeOK', AgentTypeOK', UNCHANGED <<inbox, batches, known, home, crashes>>,
         UNCHANGED endVars, copies' \in [Msgs -> Nat], lost' \subseteq Msgs, expelled' \subseteq Msgs
  PROVE  TypeOK'
  <1>1. lane' \in Seq(Job)
    BY LaneTail DEF TypeOK
  <1>2. told' \in [Msgs -> Outcomes] /\ flush' \in FlushType
    BY AnswerType DEF TypeOK, HistoryTypeOK, CallTypeOK
  <1>3. CallTypeOK'
    BY <1>2 DEF TypeOK, CallTypeOK
  <1>4. HistoryTypeOK'
    BY <1>2 DEF TypeOK, HistoryTypeOK, endVars
  <1>5. QED  BY <1>1, <1>3, <1>4 DEF TypeOK

\* Both ways back into the queue do the same, whether the agent or its ledger is in the way; and so do
\* both waits for the registry.
Requeue ==
  /\ lane # << >> /\ lane[1].phase # "written"
  /\ Hold(lane[1].msg) /\ lane' = Tail(lane) /\ Answer("queued")
  /\ UNCHANGED <<agentVars, inbox, batches, known, home, wireVars, endVars, crashes>>
Marks(p) ==
  /\ lane # << >> /\ lane[1].phase # "written"
  /\ lane' = [lane EXCEPT ![1] = [@ EXCEPT !.phase = p]]
  /\ UNCHANGED <<agentVars, queueVars, callVars, told, home, wireVars, endVars, crashes>>

LEMMA HeadSteps ==
  /\ PutBack \/ LedgerHold => Requeue
  /\ Vet => Marks("vetted")
  /\ Gate => Marks("gated")
  BY DEF PutBack, LedgerHold, AtGate, Ready, Requeue, Vet, Gate, Marks

LEMMA TypeDeliver ==
  ASSUME TypeOK, Deliver
  PROVE  TypeOK'
  <1> USE DEF TypeOK, agentVars, queueVars, callVars, wireVars
  <1>0. /\ lane # << >> => lane[1] \in Job /\ lane[1].msg \in Msgs
        /\ copies \in [Msgs -> Nat] /\ lost \subseteq Msgs /\ expelled \subseteq Msgs
    BY LaneHead, JobUpdates DEF HistoryTypeOK
  <1>1. CASE Probe
    <2>1. PICK seen : lane' = [lane EXCEPT ![1] = [@ EXCEPT !.phase = "probed",
                        !.hold = HoldsUntilIdle(lane[1].msg, lane[1].late, seen)]]
      BY <1>1 DEF Probe
    <2>2. HoldsUntilIdle(lane[1].msg, lane[1].late, seen) \in BOOLEAN
      BY DEF HoldsUntilIdle
    <2>3. 1 \in DOMAIN lane /\ [lane[1] EXCEPT !.phase = "probed",
                        !.hold = HoldsUntilIdle(lane[1].msg, lane[1].late, seen)] \in Job
      BY <1>1, <1>0, <2>2, JobUpdates, LaneHead DEF Probe
    <2>4. lane' \in Seq(Job)
      BY <1>1, <2>1, <2>3, LaneStep DEF Probe
    <2>5. AgentTypeOK'
      BY <1>1 DEF Probe, AgentTypeOK
    <2>6. QueueTypeOK' /\ CallTypeOK' /\ HistoryTypeOK'
      BY <1>1 DEF Probe, QueueTypeOK, CallTypeOK, HistoryTypeOK, endVars
    <2>7. QED  BY <2>4, <2>5, <2>6
  <1>2. CASE Fail
    BY <1>2, <1>0, TypeEnd DEF Fail, AgentTypeOK, QueueTypeOK
  <1>3. CASE Withdraw
    BY <1>3, <1>0, DequeueType, TypeEnd DEF Withdraw, AgentTypeOK
  <1>4. ASSUME NEW p \in {"vetted", "gated"}, Marks(p) PROVE TypeOK'
    <2>1. 1 \in DOMAIN lane /\ [lane[1] EXCEPT !.phase = p] \in Job
      BY <1>4, <1>0, JobUpdates, LaneHead DEF Marks
    <2>2. lane' \in Seq(Job)
      BY <1>4, <2>1, LaneStep DEF Marks
    <2>3. AgentTypeOK' /\ QueueTypeOK' /\ CallTypeOK' /\ HistoryTypeOK'
      BY <1>4 DEF Marks, AgentTypeOK, QueueTypeOK, CallTypeOK, HistoryTypeOK, endVars
    <2>4. QED  BY <2>2, <2>3
  <1>5. CASE Expel
    BY <1>5, <1>0, DequeueType, TypeEnd DEF Expel, AgentTypeOK
  <1>6. CASE Requeue
    BY <1>6, <1>0, HoldType, TypeEnd DEF Requeue, AgentTypeOK
  <1>7. CASE Send
    <2>1. /\ lane # << >> /\ Write(lane[1].msg, lane[1].ws) /\ UNCHANGED <<life, session, conn>>
          /\ UNCHANGED <<inbox, batches, known, home, expelled, crashes>> /\ UNCHANGED endVars
      BY <1>7 DEF Send, Ready, AtGate
    <2>2. copies' \in [Msgs -> Nat] /\ lost' \subseteq Msgs
      BY <1>0, <2>1 DEF Write
    <2>3. AgentTypeOK'
      BY <2>1 DEF Write, AgentTypeOK
    <2>4. CASE Kind[lane[1].msg] = "agent"
      <3>1. 1 \in DOMAIN lane /\ [lane[1] EXCEPT !.phase = "written"] \in Job
        BY <1>0, <2>1, JobUpdates, LaneHead
      <3>2. lane' = [lane EXCEPT ![1] = [@ EXCEPT !.phase = "written"]]
            /\ UNCHANGED <<queueVars, flush, told>>
        BY <1>7, <2>4 DEF Send
      <3>3. lane' \in Seq(Job)
        BY <2>1, <3>1, <3>2, LaneStep
      <3>4. QueueTypeOK' /\ CallTypeOK' /\ HistoryTypeOK'
        BY <1>0, <2>1, <2>2, <3>2 DEF QueueTypeOK, CallTypeOK, HistoryTypeOK, endVars
      <3>5. QED  BY <2>3, <3>3, <3>4
    <2>5. CASE Kind[lane[1].msg] # "agent"
      <3>1. lane' = Tail(lane) /\ Answer("sent") /\ Dequeue
        BY <1>7, <2>5 DEF Send
      <3>2. QED  BY <1>0, <2>1, <2>2, <2>3, <3>1, DequeueType, TypeEnd
    <2>6. QED  BY <2>4, <2>5
  <1>8. CASE Return
    BY <1>8, <1>0, DequeueType, TypeEnd DEF Return, AgentTypeOK
  <1>9. QED
    BY <1>1, <1>2, <1>3, <1>4, <1>5, <1>6, <1>7, <1>8, HeadSteps DEF Deliver

LEMMA TypeFlush ==
  ASSUME TypeOK, Flush
  PROVE  TypeOK'
  <1> USE DEF TypeOK, agentVars, queueVars
  <1>1. AgentTypeOK' /\ QueueTypeOK' /\ HistoryTypeOK'
    BY DEF Flush, FlushStart, FlushPlan, FlushNext, FlushStop, AgentTypeOK, QueueTypeOK,
           HistoryTypeOK, endVars, wireVars
  <1>2. CASE FlushStart
    <2>1. flush' \in FlushType
      BY <1>2 DEF FlushStart, FlushOff, FlushType
    <2>2. QED  BY <1>1, <1>2, <2>1 DEF FlushStart, CallTypeOK
  <1>3. CASE FlushPlan
    <2>1. \A due \in SUBSET Msgs, late \in SUBSET Msgs :
            [flush EXCEPT !.pc = "next", !.todo = due, !.late = late] \in FlushType
      BY DEF CallTypeOK, FlushType
    <2>2. PICK seen : LET due == {m \in held : Due(m, seen \in {"busy", "compacting"})}
                      IN  flush' = [flush EXCEPT !.pc = "next", !.todo = due,
                                                 !.late = {m \in due : OwnerLate(m)}]
      BY <1>3 DEF FlushPlan
    <2> DEFINE due == {m \in held : Due(m, seen \in {"busy", "compacting"})}
    <2> HIDE DEF due
    <2>3. due \in SUBSET Msgs
      BY DEF QueueTypeOK, due
    <2>4. {m \in due : OwnerLate(m)} \in SUBSET Msgs
      BY <2>3
    <2>5. flush' \in FlushType
      BY <2>1, <2>2, <2>3, <2>4 DEF due
    <2>6. QED  BY <1>1, <1>3, <2>5 DEF FlushPlan, CallTypeOK
  <1>4. CASE FlushNext
    <2>1. PICK m \in held : /\ lane' = Append(lane, NewJob(m, "flush", m \in flush.late))
                            /\ flush' = [flush EXCEPT !.pc = "waiting", !.todo = @ \ {m}]
      BY <1>4 DEF FlushNext
    <2>2. m \in Msgs /\ (m \in flush.late) \in BOOLEAN
      BY DEF QueueTypeOK
    <2>3. lane' \in Seq(Job)
      BY <2>1, <2>2, NewJobType, LaneAppend
    <2>4. flush' \in FlushType
      BY <2>1 DEF CallTypeOK, FlushType
    <2>5. QED  BY <1>1, <1>4, <2>3, <2>4 DEF FlushNext, CallTypeOK
  <1>5. CASE FlushStop
    BY <1>1, <1>5, FlushOffType DEF FlushStop, CallTypeOK
  <1>6. QED  BY <1>2, <1>3, <1>4, <1>5 DEF Flush

LEMMA TypeInboxCall ==
  ASSUME TypeOK, InboxCall
  PROVE  TypeOK'
  <1> USE DEF TypeOK, agentVars, queueVars
  <1>1. ASSUME NEW ack \in 0 .. MaxBatches, InboxTake(ack)
        PROVE  TypeOK'
    <2> DEFINE done == IF ack = 0 THEN {} ELSE InBatch(ack)
               rest == held \ done
    <2>1. done \subseteq held /\ held \subseteq Msgs
      BY DEF InBatch, QueueTypeOK
    <2>2. Remove(done) /\ acked' = acked \cup done
      BY <1>1 DEF InboxTake
    <2>3. QueueTypeOK'
      BY <2>2, RemoveType
    <2>4. inbox' \in InboxType
      <3>1. CASE \E b \in OpenBatch(rest) : Render(Unconfirmed(rest) \cap InBatch(b), b)
        <4>1. PICK b \in OpenBatch(rest) : Render(Unconfirmed(rest) \cap InBatch(b), b)
          BY <3>1
        <4>2. b \in 0 .. MaxBatches
          BY <2>1 DEF OpenBatch, Unconfirmed, QueueTypeOK, Items
        <4>3. Unconfirmed(rest) \cap InBatch(b) \subseteq Msgs
          BY <2>1 DEF Unconfirmed
        <4>4. QED  BY <4>1, <4>2, <4>3, RenderType
      <3>2. CASE \E S \in SUBSET (Free(rest) \ Long) : Render(S, 0)
        <4>1. PICK S \in SUBSET (Free(rest) \ Long) : Render(S, 0)
          BY <3>2
        <4>2. S \subseteq Msgs
          BY <2>1 DEF Free
        <4>3. 0 \in 0 .. MaxBatches
          BY BoundsAssumption
        <4>4. QED  BY <4>1, <4>2, <4>3, RenderType
      <3>3. CASE UNCHANGED inbox
        BY <3>3 DEF CallTypeOK
      <3>4. QED  BY <1>1, <3>1, <3>2, <3>3 DEF InboxTake
    <2>5. AgentTypeOK' /\ lane' \in Seq(Job) /\ CallTypeOK'
      BY <1>1, <2>4 DEF InboxTake, AgentTypeOK, CallTypeOK
    <2>6. HistoryTypeOK'
      BY <1>1, <2>1, <2>2 DEF InboxTake, HistoryTypeOK, wireVars
    <2>7. QED  BY <2>3, <2>5, <2>6
  <1>2. ASSUME NEW m \in Msgs, InboxRead(m)
        PROVE  TypeOK'
    <2>1. item[m].batch \in 0 .. MaxBatches /\ 0 \in 0 .. MaxBatches
      BY BoundsAssumption DEF QueueTypeOK, Items
    <2>2. inbox' \in InboxType
      BY <1>2, <2>1, RenderType DEF InboxRead
    <2>3. AgentTypeOK' /\ QueueTypeOK' /\ lane' \in Seq(Job) /\ HistoryTypeOK' /\ CallTypeOK'
      BY <1>2, <2>2 DEF InboxRead, AgentTypeOK, QueueTypeOK, HistoryTypeOK, CallTypeOK,
                        wireVars, endVars
    <2>4. QED  BY <2>3
  <1>3. QED  BY <1>1, <1>2 DEF InboxCall

LEMMA TypeInboxFinish ==
  ASSUME TypeOK, InboxFinish
  PROVE  TypeOK'
  <1> USE DEF TypeOK, agentVars, queueVars, callVars, wireVars
  <1>1. inbox.picked \subseteq Msgs /\ inbox.batch \in 0 .. MaxBatches /\ inbox.age \in 0 .. LeaseLen
        /\ batches \in 0 .. MaxBatches /\ held \subseteq Msgs /\ MaxBatches \in Nat
    BY BoundsAssumption DEF CallTypeOK, InboxType, QueueTypeOK
  <1>2. inbox' \in InboxType
    BY InboxOffType DEF InboxFinish, InboxAgain, InboxLease, InboxFail
  <1>3. CASE InboxAgain
    <2>1. inbox.batch \in 1 .. MaxBatches
      BY <1>1, <1>3 DEF InboxAgain
    <2>2. CallTypeOK' /\ shown' \subseteq Msgs
      BY <1>1, <1>2, <1>3, <2>1 DEF InboxAgain, Result, CallTypeOK, HistoryTypeOK
    <2>3. QED  BY <1>3, <2>2 DEF InboxAgain, AgentTypeOK, QueueTypeOK, HistoryTypeOK
  <1>4. CASE InboxLease
    <2> DEFINE live == inbox.picked \cap held
    <2> HIDE DEF live
    <2>1. batches < MaxBatches /\ batches' = batches + 1 /\ Result(live, batches + 1)
          /\ item' = [m \in Msgs |-> IF m \in live
                       THEN [item[m] EXCEPT !.batch = batches + 1, !.leaseAge = inbox.age]
                       ELSE item[m]]
          /\ UNCHANGED <<held, ahead, flush>>
      BY <1>4 DEF InboxLease, live
    <2>2. batches + 1 \in 1 .. MaxBatches /\ batches + 1 \in 0 .. MaxBatches /\ live \subseteq held
      <3>1. batches \in Nat /\ MaxBatches \in Nat /\ batches < MaxBatches
        <4>1. batches < MaxBatches  BY <2>1
        <4>2. batches \in 0 .. MaxBatches /\ MaxBatches \in Nat  BY <1>1
        <4>3. QED  BY ONLY <4>1, <4>2
      <3>2. live \subseteq held
        BY DEF live
      <3>3. QED  BY ONLY <3>1, <3>2
    <2>3. CallTypeOK'
      BY <1>2, <2>1, <2>2 DEF Result, CallTypeOK
    <2>4. shown' \subseteq Msgs
      BY <1>1, <2>1, <2>2 DEF Result, HistoryTypeOK
    <2>5. QueueTypeOK'
      <3>1. \A m \in Msgs : [item[m] EXCEPT !.batch = batches + 1, !.leaseAge = inbox.age] \in Items
        <4> DEFINE n == batches + 1
        <4> HIDE DEF n
        <4>1. n \in 0 .. MaxBatches
          BY <2>2 DEF n
        <4>2. \A m \in Msgs : [item[m] EXCEPT !.batch = n, !.leaseAge = inbox.age] \in Items
          BY <1>1, <4>1 DEF QueueTypeOK, Items
        <4>3. QED  BY <4>2 DEF n
      <3>2. item' \in [Msgs -> Items]
        BY <2>1, <3>1 DEF QueueTypeOK
      <3>3. \A m \in Msgs \ held' : item'[m] = Fresh
        BY <2>1, <2>2 DEF QueueTypeOK
      <3>4. QED  BY <2>1, <3>2, <3>3 DEF QueueTypeOK
    <2>6. QED  BY <1>4, <2>3, <2>4, <2>5 DEF InboxLease, AgentTypeOK, HistoryTypeOK
  <1>5. CASE InboxFail
    BY <1>2, <1>5 DEF InboxFail, AgentTypeOK, QueueTypeOK, HistoryTypeOK, CallTypeOK, endVars
  <1>6. QED  BY <1>3, <1>4, <1>5 DEF InboxFinish

LEMMA TypeAgeHeld ==
  ASSUME TypeOK, AgeHeld
  PROVE  TypeOK'
  <1> USE DEF TypeOK, agentVars, callVars, wireVars
  <1>1. Overdue \subseteq held /\ Unnotified \subseteq held /\ held \subseteq Msgs
    BY DEF Overdue, Unnotified, QueueTypeOK
  <1>2. \A m \in Msgs : [item[m] EXCEPT !.notified = TRUE] \in Items
    BY DEF QueueTypeOK, Items
  <1>3. QueueTypeOK'
    <2>1. held' \subseteq Msgs /\ ahead' \subseteq held' \X held'
      BY <1>1 DEF AgeHeld, QueueTypeOK
    <2>2. ASSUME NEW m \in Msgs
          PROVE  item'[m] \in Items /\ (m \notin held' => item'[m] = Fresh)
      <3>1. item'[m] = CASE m \in Overdue -> Fresh
                         [] m \in Unnotified -> [item[m] EXCEPT !.notified = TRUE]
                         [] OTHER -> item[m]
        BY DEF AgeHeld
      <3>2. item[m] \in Items /\ (m \notin held => item[m] = Fresh)
        BY DEF QueueTypeOK
      <3>3. Overdue \cap Unnotified = {}
        BY DEF Unnotified
      <3>4. CASE m \in Overdue
        BY <3>1, <3>3, <3>4, FreshItem
      <3>5. CASE m \in Unnotified
        BY <1>1, <1>2, <3>1, <3>3, <3>5 DEF AgeHeld
      <3>6. CASE m \notin Overdue /\ m \notin Unnotified
        BY <3>1, <3>2, <3>6 DEF AgeHeld
      <3>7. QED  BY <3>4, <3>5, <3>6
    <2>3. item' \in [Msgs -> Items]
      BY <2>2 DEF AgeHeld
    <2>4. QED  BY <2>1, <2>2, <2>3 DEF QueueTypeOK
  <1>4. QED  BY <1>1, <1>3 DEF AgeHeld, AgentTypeOK, CallTypeOK, HistoryTypeOK

LEMMA TypeEnvironment ==
  ASSUME TypeOK, Environment
  PROVE  TypeOK'
  <1> USE DEF TypeOK, agentVars, queueVars, callVars, endVars, wireVars
  <1>1. CASE Kill
    <2>1. lane' \in Seq(Job) /\ inbox' \in InboxType
      BY <1>1, CloseSocketType DEF Kill, CallTypeOK
    <2>2. QED
      BY <1>1, <2>1 DEF Kill, AgentTypeOK, QueueTypeOK, CallTypeOK, HistoryTypeOK
  <1>2. CASE Cleanup
    <2>1. QueueTypeOK'
      BY <1>2, RemoveType DEF Cleanup
    <2>2. killed' \subseteq Msgs
      BY <1>2 DEF Cleanup, HistoryTypeOK, QueueTypeOK
    <2>3. QED  BY <1>2, <2>1, <2>2 DEF Cleanup, AgentTypeOK, CallTypeOK, HistoryTypeOK
  <1>3. CASE Succeed
    <2>1. session' \in 1 .. MaxLives
      BY <1>3, BoundsAssumption DEF Succeed, AgentTypeOK
    <2>2. QED
      BY <1>3, <2>1 DEF Succeed, AgentTypeOK, QueueTypeOK, CallTypeOK, HistoryTypeOK
  <1>4. CASE Register
    <2>1. lane' \in Seq(Job) /\ inbox' \in InboxType
      BY <1>4, CloseSocketType DEF Register, CallTypeOK
    <2>2. QED
      BY <1>4, <2>1 DEF Register, AgentTypeOK, QueueTypeOK, CallTypeOK, HistoryTypeOK
  <1>5. CASE Disconnect
    <2>1. lane' \in Seq(Job) /\ inbox' \in InboxType
      BY <1>5, CloseSocketType DEF Disconnect, CallTypeOK
    <2>2. QED
      BY <1>5, <2>1 DEF Disconnect, AgentTypeOK, QueueTypeOK, CallTypeOK, HistoryTypeOK
  <1>6. CASE TurnChange
    BY <1>6 DEF TurnChange, AgentTypeOK, QueueTypeOK, CallTypeOK, HistoryTypeOK
  <1>7. CASE Crash
    <2>1. told' \in [Msgs -> Outcomes] /\ crashes' \in 0 .. MaxCrashes
      BY <1>7, BoundsAssumption DEF Crash, HistoryTypeOK, Outcomes
    <2>2. lane' \in Seq(Job)
      BY <1>7, EmptySeq DEF Crash
    <2>3. QED
      BY <1>7, <2>1, <2>2, FlushOffType, InboxOffType
      DEF Crash, AgentTypeOK, QueueTypeOK, CallTypeOK, HistoryTypeOK
  <1>8. CASE Tick
    <2>1. inbox' \in InboxType
      BY <1>8, AgeTypes DEF Tick, CallTypeOK, InboxType
    <2>2. ASSUME NEW m \in Msgs
          PROVE  item'[m] \in Items /\ (m \notin held => item'[m] = Fresh)
      <3>1. item[m].age \in Ages /\ item[m].leaseAge \in 0 .. LeaseLen /\ 0 \in 0 .. LeaseLen
        BY AgesAssumption DEF QueueTypeOK, Items
      <3>2. Older(item[m].age) \in Ages /\ LeaseOlder(item[m].leaseAge) \in 0 .. LeaseLen
        BY <3>1, AgeTypes
      <3>3. QED  BY <1>8, <3>1, <3>2 DEF Tick, QueueTypeOK, Items
    <2>3. QueueTypeOK'
      BY <1>8, <2>2 DEF Tick, QueueTypeOK
    <2>4. QED  BY <1>8, <2>1, <2>3 DEF Tick, AgentTypeOK, CallTypeOK, HistoryTypeOK
  <1>9. QED
    BY <1>1, <1>2, <1>3, <1>4, <1>5, <1>6, <1>7, <1>8 DEF Environment

LEMMA TypeStep == TypeOK /\ [Next]_vars => TypeOK'
  <1> SUFFICES ASSUME TypeOK, [Next]_vars PROVE TypeOK'  OBVIOUS
  <1>1. CASE UNCHANGED vars
    BY <1>1 DEF vars, TypeOK, AgentTypeOK, QueueTypeOK, CallTypeOK, HistoryTypeOK,
                agentVars, queueVars, callVars, endVars, wireVars
  <1>2. CASE Next
    BY <1>2, TypeArrive, TypeDeliver, TypeFlush, TypeInboxCall, TypeInboxFinish, TypeAgeHeld,
       TypeEnvironment DEF Next
  <1>3. QED  BY <1>1, <1>2

\* Every reachable state is well typed: queue, order relation, leases, lane and calls never
\* leave their ranges, and a message that left the queue keeps neither age nor lease.
THEOREM TypeCorrect == Spec => []TypeOK
  BY TypeInit, TypeStep, PTL DEF Spec

-----------------------------------------------------------------------------
(* Nothing vanishes. *)

\* A message accounted for stays so while it keeps its place and its history only grows.
LEMMA AccountedStays ==
  ASSUME NEW m \in Msgs, Accounted(m), copies[m] \in Nat, copies'[m] \in Nat,
         copies[m] <= copies'[m], lost \subseteq lost',
         acked \subseteq acked', gaveUp \subseteq gaveUp', killed \subseteq killed',
         expelled \subseteq expelled',
         m \in held \ held' => m \in acked' \cup gaveUp' \cup killed' \cup expelled'
  PROVE  Accounted(m)'
  BY DEF Accounted

\* The message of the delivery being served is pending or, for a flush, queued.
LEMMA HeadFacts ==
  ASSUME Inv, lane # << >>
  PROVE  /\ 1 \in DOMAIN lane /\ lane[1] \in Job /\ lane[1].msg \in Msgs
         /\ lane[1].via \in {"direct", "flush"} /\ lane[1].ws \in Sockets
         /\ told[lane[1].msg] = IF lane[1].via = "direct" THEN "pending" ELSE "queued"
         /\ lane[1].phase = "written" => lane[1].msg \in lost \/ copies[lane[1].msg] > 0
         /\ lane[1].via = "direct" => lane[1].msg \notin held
  BY LaneHead, JobUpdates DEF Inv, TypeOK, LaneOK, JobOK, HeldOK

\* The end of a delivery keeps the invariant when what it leaves behind for its own message
\* is accounted for: every other delivery and message is untouched.
LEMMA DeliveryEnds ==
  ASSUME Inv, TypeOK', lane # << >>, lane' = Tail(lane), NEW h \in Msgs, h = lane[1].msg,
         NEW outcome \in {"sent", "queued", "refused"}, Answer(outcome), UNCHANGED endVars,
         copies[h] <= copies'[h], \A m \in Msgs \ {h} : copies'[m] = copies[m],
         lost \subseteq lost', lost' \subseteq lost \cup {h},
         expelled \subseteq expelled', expelled' \subseteq expelled \cup {h},
         held \ {h} \subseteq held', held' \subseteq held \cup {h},
         h \in held' => told'[h] = "queued",
         told'[h] \in {"sent", "queued"} => Accounted(h)'
  PROVE  Inv'
  <1>1. h \in Msgs /\ told[h] = IF lane[1].via = "direct" THEN "pending" ELSE "queued"
    BY HeadFacts
  <1>2. told \in [Msgs -> Outcomes] /\ lane \in Seq(Job)
    BY DEF Inv, TypeOK, HistoryTypeOK
  <1>3. /\ \A m \in Msgs \ {h} : told'[m] = told[m]
        /\ told'[h] = IF lane[1].via = "direct" THEN outcome ELSE told[h]
    BY <1>1, <1>2 DEF Answer
  <1>4. LaneOK'
    <2>1. \A i \in DOMAIN lane' : i + 1 \in DOMAIN lane /\ i + 1 # 1 /\ lane'[i] = lane[i + 1]
      BY <1>2, LaneTail
    <2>2. DOMAIN lane' \subseteq Nat
      BY LenProperties DEF TypeOK
    <2>3. DirectOnce'
      BY <2>1, <2>2 DEF DirectOnce, Inv, LaneOK
    <2>4. ASSUME NEW i \in DOMAIN lane', NEW job, job = lane'[i]
          PROVE  JobOK(job)'
      <3>1. i + 1 \in DOMAIN lane /\ i + 1 # 1 /\ job = lane[i + 1]
        BY <2>1, <2>4
      <3>2. JobOK(job) /\ job \in Job
        BY <1>2, <3>1, ElementOfSeq, LenProperties DEF Inv, LaneOK
      <3>3. job.msg \in Msgs /\ job.via \in {"direct", "flush"}
        BY <3>2, JobUpdates
      <3>4. lane[1].via = "direct" => job.msg # h
        <4>1. CASE job.via = "direct"
          BY <3>1, <4>1, HeadFacts DEF Inv, LaneOK, DirectOnce
        <4>2. CASE job.via = "flush"
          BY <1>1, <3>2, <4>2 DEF JobOK
        <4>3. QED  BY <3>3, <4>1, <4>2
      <3>5. told'[job.msg] = told[job.msg]
        BY <1>3, <3>3, <3>4
      <3>6. copies[job.msg] > 0 => copies'[job.msg] > 0
        <4>1. copies[job.msg] \in Nat /\ copies'[job.msg] \in Nat
          BY <3>3 DEF Inv, TypeOK, HistoryTypeOK
        <4>2. copies[job.msg] <= copies'[job.msg]
          BY <3>3, <4>1
        <4>3. QED  BY <4>1, <4>2
      <3>7. QED  BY <3>2, <3>5, <3>6 DEF JobOK
    <2>5. QED  BY <2>3, <2>4 DEF LaneOK
  <1>5. HeldOK'
    BY <1>3 DEF HeldOK, Inv, TypeOK, QueueTypeOK
  <1>6. NewOK'
    BY <1>1, <1>3 DEF NewOK, Inv, endVars
  <1>7. NothingVanishes'
    <2>1. ASSUME NEW m \in Msgs, m # h, told'[m] \in {"sent", "queued"}
          PROVE  Accounted(m)'
      <3>1. Accounted(m)
        BY <1>3, <2>1 DEF Inv, NothingVanishes
      <3>2. copies[m] \in Nat /\ copies'[m] = copies[m] /\ (m \in held => m \in held')
        BY <2>1 DEF Inv, TypeOK, HistoryTypeOK
      <3>3. QED  BY <3>1, <3>2 DEF Accounted, endVars
    <2>2. QED  BY <2>1 DEF NothingVanishes
  <1>8. QED  BY <1>4, <1>5, <1>6, <1>7 DEF Inv

LEMMA InvInit == Init => Inv
  <1> SUFFICES ASSUME Init PROVE Inv  OBVIOUS
  <1>1. TypeOK
    BY TypeInit
  <1>2. DOMAIN lane = {}
    BY EmptySeq, LenProperties DEF Init
  <1>3. LaneOK /\ HeldOK /\ NewOK /\ NothingVanishes
    BY <1>2 DEF Init, LaneOK, DirectOnce, HeldOK, NewOK, NothingVanishes
  <1>4. QED  BY <1>1, <1>3 DEF Inv

\* A step of the delivery being served that keeps its message, its caller and the histories.
LEMMA HeadChanges ==
  ASSUME Inv, TypeOK', lane # << >>, NEW j \in Job, lane' = [lane EXCEPT ![1] = j],
         j.msg = lane[1].msg, j.via = lane[1].via, UNCHANGED told, lost \subseteq lost',
         \A m \in Msgs : copies[m] <= copies'[m],
         j.phase = "written" => j.msg \in lost' \/ copies'[j.msg] > 0
  PROVE  LaneOK'
  <1>1. /\ lane \in Seq(Job) /\ copies \in [Msgs -> Nat] /\ copies' \in [Msgs -> Nat]
    BY DEF Inv, TypeOK, HistoryTypeOK
  <1>2. /\ DOMAIN lane' = DOMAIN lane
        /\ \A i \in DOMAIN lane : lane'[i] = IF i = 1 THEN j ELSE lane[i]
    BY <1>1, LaneStep
  <1>3. DirectOnce'
    BY <1>2 DEF Inv, LaneOK, DirectOnce
  <1>4. ASSUME NEW i \in DOMAIN lane', NEW job, job = lane'[i]
        PROVE  JobOK(job)'
    <2>1. CASE i = 1
      BY <1>2, <1>4, <2>1 DEF Inv, LaneOK, JobOK
    <2>2. CASE i # 1
      <3>1. JobOK(job) /\ job \in Job
        BY <1>1, <1>2, <1>4, <2>2, ElementOfSeq, LenProperties DEF Inv, LaneOK
      <3>2. copies[job.msg] > 0 => copies'[job.msg] > 0
        <4>1. job.msg \in Msgs
          BY <3>1, JobUpdates
        <4>2. copies[job.msg] \in Nat /\ copies'[job.msg] \in Nat /\ copies[job.msg] <= copies'[job.msg]
          BY <1>1, <4>1
        <4>3. QED  BY <4>2
      <3>3. QED  BY <3>1, <3>2 DEF JobOK
    <2>3. QED  BY <2>1, <2>2
  <1>5. QED  BY <1>3, <1>4 DEF LaneOK

LEMMA JobKeeps ==
  ASSUME NEW job \in Job
  PROVE  /\ \A b \in BOOLEAN : LET j == [job EXCEPT !.phase = "probed", !.hold = b]
                               IN  /\ j.msg = job.msg /\ j.via = job.via
                                   /\ j.phase = "probed" /\ j.ws = job.ws
         /\ LET j == [job EXCEPT !.phase = "vetted"]
            IN  j.msg = job.msg /\ j.via = job.via /\ j.phase = "vetted" /\ j.ws = job.ws
         /\ LET j == [job EXCEPT !.phase = "gated"]
            IN  j.msg = job.msg /\ j.via = job.via /\ j.phase = "gated" /\ j.ws = job.ws
         /\ LET j == [job EXCEPT !.phase = "written"]
            IN  j.msg = job.msg /\ j.via = job.via /\ j.phase = "written" /\ j.ws = job.ws
         /\ LET j == [job EXCEPT !.ws = "closed"]
            IN  j.msg = job.msg /\ j.via = job.via /\ j.phase = job.phase
  BY DEF Job

LEMMA InvDeliver ==
  ASSUME Inv, TypeOK', Deliver
  PROVE  Inv'
  <1>0. /\ lane # << >>
        /\ copies \in [Msgs -> Nat] /\ copies' \in [Msgs -> Nat] /\ told \in [Msgs -> Outcomes]
        /\ lane \in Seq(Job) /\ flush \in FlushType
    BY DEF Inv, TypeOK, HistoryTypeOK, CallTypeOK, Deliver, Probe, Fail, Withdraw, Vet, Expel,
           PutBack, Gate, LedgerHold, AtGate, Send, Return, Ready
  <1>h. PICK h \in Msgs : h = lane[1].msg
    BY <1>0, HeadFacts
  <1>1. /\ h = lane[1].msg /\ lane[1] \in Job /\ lane[1].via \in {"direct", "flush"}
        /\ told[h] = IF lane[1].via = "direct" THEN "pending" ELSE "queued"
        /\ lane[1].phase = "written" => h \in lost \/ copies[h] > 0
        /\ lane[1].via = "direct" => h \notin held
    BY <1>0, <1>h, HeadFacts
  <1>2. told[h] \in {"sent", "queued"} => Accounted(h)
    BY <1>1 DEF Inv, NothingVanishes
  <1>3. ASSUME Answer("refused") PROVE told'[h] = IF lane[1].via = "direct" THEN "refused" ELSE told[h]
    BY <1>0, <1>1, <1>3 DEF Answer
  <1>4. ASSUME Dequeue
        PROVE  held' \subseteq held /\ held \ {h} \subseteq held' /\ h \notin held'
    BY <1>1, <1>4 DEF Dequeue, Remove, queueVars
  <1>5. CASE Probe
    <2>1. PICK seen : lane' = [lane EXCEPT ![1] = [@ EXCEPT !.phase = "probed",
                        !.hold = HoldsUntilIdle(lane[1].msg, lane[1].late, seen)]]
      BY <1>5 DEF Probe
    <2> DEFINE b == HoldsUntilIdle(lane[1].msg, lane[1].late, seen)
               j == [lane[1] EXCEPT !.phase = "probed", !.hold = b]
    <2>2. b \in BOOLEAN
      BY DEF HoldsUntilIdle
    <2>3. j \in Job /\ j.msg = h /\ j.via = lane[1].via /\ j.phase = "probed"
      <3> HIDE DEF b
      <3>1. j \in Job  BY <1>1, <2>2, JobUpdates
      <3>2. j.msg = h /\ j.via = lane[1].via /\ j.phase = "probed"  BY <1>1, <2>2, JobKeeps
      <3>3. QED  BY <3>1, <3>2
    <2>4. lane' = [lane EXCEPT ![1] = j]
      BY <1>0, <1>1, <2>1
    <2>5. LaneOK'
      <3>1. /\ UNCHANGED told /\ lost \subseteq lost' /\ j.phase # "written"
            /\ \A m \in Msgs : copies[m] <= copies'[m]
        BY <1>0, <1>5, <2>3 DEF Probe, wireVars
      <3> HIDE DEF j
      <3>2. QED  BY <1>0, <1>1, <2>3, <2>4, <3>1, HeadChanges
    <2>6. QED
      BY <1>5, <2>5 DEF Probe, Inv, HeldOK, NewOK, NothingVanishes, Accounted, queueVars,
                        wireVars, endVars
  <1>6. CASE Fail
    <2>1. /\ Answer("refused") /\ lane' = Tail(lane)
          /\ UNCHANGED <<held, copies, lost, expelled, acked, gaveUp, killed, shown>>
      BY <1>6 DEF Fail, queueVars, wireVars, endVars
    <2>2. told'[h] \in {"sent", "queued"} => Accounted(h)'
      BY <1>2, <1>3, <2>1 DEF Accounted
    <2>3. h \in held' => told'[h] = "queued"
      BY <1>1, <1>3, <2>1
    <2>4. QED  BY <1>0, <1>1, <2>1, <2>2, <2>3, DeliveryEnds DEF endVars
  <1>7. CASE Withdraw
    <2>1. /\ Answer("refused") /\ lane' = Tail(lane) /\ Dequeue /\ h \notin held
          /\ UNCHANGED <<copies, lost, expelled, acked, gaveUp, killed, shown>>
      BY <1>1, <1>7 DEF Withdraw, StillWanted, wireVars, endVars
    <2>2. told'[h] \in {"sent", "queued"} => Accounted(h)'
      BY <1>2, <1>3, <2>1 DEF Accounted
    <2>3. QED  BY <1>0, <1>1, <1>4, <2>1, <2>2, DeliveryEnds DEF endVars
  <1>8. ASSUME NEW p \in {"vetted", "gated"}, Marks(p) PROVE Inv'
    <2>1. lane' = [lane EXCEPT ![1] = [@ EXCEPT !.phase = p]]
      BY <1>8 DEF Marks
    <2> DEFINE j == [lane[1] EXCEPT !.phase = p]
    <2>2. j \in Job /\ j.msg = h /\ j.via = lane[1].via /\ j.phase = p
      <3>1. lane[1] \in Job /\ lane[1].msg = h
        BY <1>1
      <3>2. j \in Job
        BY <3>1, JobUpdates
      <3>3. j.msg = lane[1].msg /\ j.via = lane[1].via /\ j.phase = p
        BY <3>1, JobKeeps
      <3>4. QED  BY <3>1, <3>2, <3>3
    <2>3. lane' = [lane EXCEPT ![1] = j]
      BY <1>0, <1>1, <2>1
    <2>4. LaneOK'
      <3>1. /\ UNCHANGED told /\ lost \subseteq lost' /\ j.phase # "written"
            /\ \A m \in Msgs : copies[m] <= copies'[m]
        BY <1>0, <1>8, <2>2 DEF Marks, wireVars
      <3> HIDE DEF j
      <3>2. QED  BY <1>0, <1>1, <2>2, <2>3, <3>1, HeadChanges
    <2>5. QED
      BY <1>8, <2>4 DEF Marks, Inv, HeldOK, NewOK, NothingVanishes, Accounted, queueVars,
                        wireVars, endVars
  <1>9. CASE Expel
    <2>1. /\ Answer("refused") /\ lane' = Tail(lane) /\ Dequeue
          /\ expelled' = expelled \cup {h}
          /\ UNCHANGED <<copies, lost, acked, gaveUp, killed, shown>>
      BY <1>1, <1>9 DEF Expel, endVars
    <2>2. Accounted(h)'
      BY <2>1 DEF Accounted
    <2>3. QED  BY <1>0, <1>1, <1>4, <2>1, <2>2, DeliveryEnds DEF endVars
  <1>10. CASE Requeue
    <2>1. /\ Answer("queued") /\ lane' = Tail(lane) /\ held' = held \cup {h}
          /\ UNCHANGED <<copies, lost, expelled, acked, gaveUp, killed, shown>>
      BY <1>1, <1>10 DEF Requeue, Hold, wireVars, endVars
    <2>2. told'[h] = "queued"
      BY <1>0, <1>1, <2>1 DEF Answer
    <2>3. Accounted(h)'
      BY <2>1 DEF Accounted
    <2>4. QED  BY <1>0, <1>1, <2>1, <2>2, <2>3, DeliveryEnds DEF endVars
  <1>11. CASE Send
    <2>1. /\ Write(h, lane[1].ws)
          /\ UNCHANGED <<expelled, acked, gaveUp, killed, shown>>
      BY <1>1, <1>11 DEF Send, endVars
    <2>2. /\ \A m \in Msgs : copies[m] <= copies'[m]
          /\ \A m \in Msgs \ {h} : copies'[m] = copies[m]
          /\ lost \subseteq lost' /\ lost' \subseteq lost \cup {h}
          /\ h \in lost' \/ copies'[h] > 0
      <3>1. CASE lane[1].ws = "current"
        BY <1>0, <1>1, <2>1, <3>1 DEF Write
      <3>2. CASE lane[1].ws # "current"
        BY <1>0, <1>1, <2>1, <3>2 DEF Write
      <3>3. QED  BY <3>1, <3>2
    <2>3. CASE Kind[h] = "agent"
      <3>1. lane' = [lane EXCEPT ![1] = [@ EXCEPT !.phase = "written"]]
            /\ UNCHANGED <<queueVars, told>>
        BY <1>1, <1>11, <2>3 DEF Send
      <3> DEFINE j == [lane[1] EXCEPT !.phase = "written"]
      <3>2. j \in Job /\ j.msg = h /\ j.via = lane[1].via /\ j.phase = "written"
        BY <1>1, JobUpdates, JobKeeps
      <3>3. lane' = [lane EXCEPT ![1] = j]
        BY <1>0, <1>1, <3>1
      <3>4. LaneOK'
        <4> HIDE DEF j
        <4>1. QED  BY <1>0, <1>1, <2>2, <3>1, <3>2, <3>3, HeadChanges
      <3>5. HeldOK'
        BY <3>1 DEF Inv, HeldOK, queueVars
      <3>6. NewOK'
        BY <1>1, <2>1, <2>2, <3>1 DEF Inv, NewOK
      <3>7. NothingVanishes'
        <4>1. ASSUME NEW m \in Msgs, told'[m] \in {"sent", "queued"} PROVE Accounted(m)'
          <5>1. Accounted(m) /\ copies[m] \in Nat /\ copies'[m] \in Nat /\ held' = held
            BY <1>0, <3>1, <4>1 DEF Inv, NothingVanishes, queueVars
          <5>2. QED  BY <2>1, <2>2, <5>1, AccountedStays
        <4>2. QED  BY <4>1 DEF NothingVanishes
      <3>8. QED  BY <3>4, <3>5, <3>6, <3>7 DEF Inv
    <2>4. CASE Kind[h] # "agent"
      <3>1. lane' = Tail(lane) /\ Answer("sent") /\ Dequeue
        BY <1>1, <1>11, <2>4 DEF Send
      <3>2. Accounted(h)'
        BY <2>2 DEF Accounted
      <3>3. QED  BY <1>0, <1>1, <1>4, <2>1, <2>2, <3>1, <3>2, DeliveryEnds DEF endVars
    <2>5. QED  BY <2>3, <2>4
  <1>12. CASE Return
    <2>1. /\ Answer("sent") /\ lane' = Tail(lane) /\ Dequeue /\ lane[1].phase = "written"
          /\ UNCHANGED <<copies, lost, expelled, acked, gaveUp, killed, shown>>
      BY <1>12 DEF Return, wireVars, endVars
    <2>2. Accounted(h)'
      BY <1>1, <2>1 DEF Accounted
    <2>3. QED  BY <1>0, <1>1, <1>4, <2>1, <2>2, DeliveryEnds DEF endVars
  <1>13. QED
    BY <1>5, <1>6, <1>7, <1>8, <1>9, <1>10, <1>11, <1>12, HeadSteps DEF Deliver

LEMMA InvArrive ==
  ASSUME Inv, TypeOK', Arrive
  PROVE  Inv'
  <1>0. /\ lane \in Seq(Job) /\ told \in [Msgs -> Outcomes] /\ held \subseteq Msgs
        /\ copies \in [Msgs -> Nat]
    BY DEF Inv, TypeOK, HistoryTypeOK, QueueTypeOK
  <1>1. PICK m \in Msgs : Accept(m) \/ AcceptOffline(m)
    BY DEF Arrive
  <1>2. /\ told[m] = "new" /\ \A x \in Msgs \ {m} : told'[x] = told[x]
        /\ UNCHANGED <<copies, lost, acked, gaveUp, killed, expelled>>
        /\ told'[m] \in {"pending", "queued"}
    BY <1>0, <1>1 DEF Accept, AcceptOffline, wireVars, endVars
  <1>3. \A i \in DOMAIN lane : lane[i].msg \in Msgs \ {m} /\ JobOK(lane[i]) /\ lane[i] \in Job
    <2> SUFFICES ASSUME NEW i \in DOMAIN lane
                 PROVE  lane[i].msg \in Msgs \ {m} /\ JobOK(lane[i]) /\ lane[i] \in Job
      OBVIOUS
    <2>1. lane[i] \in Job
      BY <1>0, ElementOfSeq, LenProperties
    <2>2. lane[i].msg \in Msgs /\ JobOK(lane[i])
      BY <2>1, JobUpdates DEF Inv, LaneOK
    <2>3. QED  BY <1>2, <2>1, <2>2 DEF JobOK
  <1>4. NewOK'
    BY <1>2 DEF Inv, NewOK
  <1>5. \A x \in Msgs \ {m} : told'[x] \in {"sent", "queued"} /\ held \subseteq held' => Accounted(x)'
    BY <1>2 DEF Inv, NothingVanishes, Accounted
  <1>6. CASE Accept(m)
    <2> DEFINE j == NewJob(m, "direct", FALSE)
    <2>1. lane' = Append(lane, j) /\ held' = held /\ told'[m] = "pending"
      BY <1>0, <1>6 DEF Accept, queueVars
    <2>2. j \in Job /\ j.msg = m /\ j.via = "direct" /\ j.phase = "queued"
      BY NewJobType DEF NewJob
    <2> HIDE DEF j
    <2>3. /\ DOMAIN lane' = DOMAIN lane \cup {Len(lane) + 1} /\ Len(lane) + 1 \notin DOMAIN lane
          /\ \A i \in DOMAIN lane : lane'[i] = lane[i]
          /\ lane'[Len(lane) + 1] = j
      BY <1>0, <2>1, <2>2, LaneAppend
    <2>4. DirectOnce'
      BY <1>3, <2>2, <2>3 DEF Inv, LaneOK, DirectOnce
    <2>5. ASSUME NEW i \in DOMAIN lane', NEW job, job = lane'[i]
          PROVE  JobOK(job)'
      <3>1. CASE i \in DOMAIN lane
        BY <1>2, <1>3, <2>3, <2>5, <3>1 DEF JobOK
      <3>2. CASE i = Len(lane) + 1
        BY <2>1, <2>2, <2>3, <2>5, <3>2 DEF JobOK
      <3>3. QED  BY <2>3, <3>1, <3>2
    <2>6. LaneOK'
      BY <2>4, <2>5 DEF LaneOK
    <2>7. HeldOK'
      BY <1>0, <1>2, <2>1 DEF Inv, HeldOK
    <2>8. NothingVanishes'
      BY <1>5, <2>1 DEF NothingVanishes
    <2>9. QED  BY <1>4, <2>6, <2>7, <2>8 DEF Inv
  <1>7. CASE AcceptOffline(m)
    <2>1. lane' = lane /\ held' = held \cup {m} /\ told'[m] = "queued"
      BY <1>0, <1>7 DEF AcceptOffline, Hold
    <2>2. ASSUME NEW i \in DOMAIN lane, NEW job, job = lane[i]
          PROVE  JobOK(job)'
      BY <1>2, <1>3, <2>2 DEF JobOK
    <2>3. LaneOK'
      BY <2>1, <2>2 DEF Inv, LaneOK, DirectOnce
    <2>4. HeldOK'
      BY <1>0, <1>2, <2>1 DEF Inv, HeldOK
    <2>5. Accounted(m)'
      BY <2>1 DEF Accounted
    <2>6. NothingVanishes'
      BY <1>5, <2>1, <2>5 DEF NothingVanishes
    <2>7. QED  BY <1>4, <2>3, <2>4, <2>6 DEF Inv
  <1>8. QED  BY <1>1, <1>6, <1>7

\* Steps that leave the lane and the answers alone and take messages out of the queue only
\* to an end of their own.
LEMMA QueueShrinks ==
  ASSUME Inv, TypeOK', UNCHANGED <<lane, told, copies, lost, expelled>>, held' \subseteq held,
         acked \subseteq acked', gaveUp \subseteq gaveUp', killed \subseteq killed',
         held \ held' \subseteq acked' \cup gaveUp' \cup killed',
         (acked' \ acked) \cup (gaveUp' \ gaveUp) \cup (killed' \ killed) \subseteq held
  PROVE  Inv'
  <1>1. LaneOK'
    BY DEF Inv, LaneOK, DirectOnce, JobOK
  <1>2. HeldOK'
    BY DEF Inv, HeldOK
  <1>3. NewOK'
    BY DEF Inv, NewOK, HeldOK
  <1>4. NothingVanishes'
    <2>1. ASSUME NEW m \in Msgs, told'[m] \in {"sent", "queued"} PROVE Accounted(m)'
      BY <2>1 DEF Inv, NothingVanishes, Accounted
    <2>2. QED  BY <2>1 DEF NothingVanishes
  <1>5. QED  BY <1>1, <1>2, <1>3, <1>4 DEF Inv

LEMMA InvFlush ==
  ASSUME Inv, TypeOK', Flush
  PROVE  Inv'
  <1> USE DEF queueVars, wireVars, endVars
  <1>1. CASE FlushStart \/ FlushPlan \/ FlushStop
    BY <1>1, QueueShrinks DEF FlushStart, FlushPlan, FlushStop
  <1>2. CASE FlushNext
    <2>1. PICK m \in held : lane' = Append(lane, NewJob(m, "flush", m \in flush.late))
      BY <1>2 DEF FlushNext
    <2> DEFINE j == NewJob(m, "flush", m \in flush.late)
    <2>2. /\ UNCHANGED <<told, held, copies, lost, acked, gaveUp, killed, expelled>>
          /\ m \in Msgs /\ lane \in Seq(Job) /\ told[m] = "queued"
      BY <1>2 DEF FlushNext, Inv, TypeOK, QueueTypeOK, HeldOK
    <2>3. j \in Job /\ j.msg = m /\ j.via = "flush" /\ j.phase = "queued"
      <3>1. (m \in flush.late) \in BOOLEAN
        OBVIOUS
      <3>2. QED  BY <2>2, <3>1, NewJobType DEF NewJob
    <2>4. lane' = Append(lane, j)
      BY <2>1
    <2> HIDE DEF j
    <2>5. /\ DOMAIN lane' = DOMAIN lane \cup {Len(lane) + 1} /\ Len(lane) + 1 \notin DOMAIN lane
          /\ \A i \in DOMAIN lane : lane'[i] = lane[i]
          /\ lane'[Len(lane) + 1] = j
      BY <2>2, <2>3, <2>4, LaneAppend
    <2>6. DirectOnce'
      BY <2>3, <2>5 DEF Inv, LaneOK, DirectOnce
    <2>7. \A i \in DOMAIN lane' : JobOK(lane'[i])
      BY <2>2, <2>3, <2>5 DEF JobOK, Inv, LaneOK
    <2>8. LaneOK'
      BY <2>2, <2>6, <2>7 DEF LaneOK, JobOK
    <2>9. HeldOK' /\ NewOK' /\ NothingVanishes'
      BY <2>2 DEF Inv, HeldOK, NewOK, NothingVanishes, Accounted
    <2>10. QED  BY <2>8, <2>9 DEF Inv
  <1>3. QED  BY <1>1, <1>2 DEF Flush

LEMMA InvInbox ==
  ASSUME Inv, TypeOK', InboxCall \/ InboxFinish
  PROVE  Inv'
  <1> USE DEF queueVars, wireVars, endVars
  <1>1. ASSUME NEW ack \in 0 .. MaxBatches, InboxTake(ack)
        PROVE  Inv'
    <2> DEFINE done == IF ack = 0 THEN {} ELSE InBatch(ack)
    <2>1. done \subseteq held
      BY DEF InBatch
    <2>2. held' = held \ done /\ acked' = acked \cup done
          /\ UNCHANGED <<lane, told, copies, lost, expelled, gaveUp, killed>>
      BY <1>1 DEF InboxTake, Remove
    <2> HIDE DEF done
    <2>3. QED  BY <2>1, <2>2, QueueShrinks
  <1>2. ASSUME NEW m \in Msgs, InboxRead(m)
        PROVE  Inv'
    BY <1>2, QueueShrinks DEF InboxRead
  <1>3. CASE InboxFinish
    BY <1>3, QueueShrinks DEF InboxFinish, InboxAgain, InboxLease, InboxFail
  <1>4. QED  BY <1>1, <1>2, <1>3 DEF InboxCall

LEMMA InvAgeHeld ==
  ASSUME Inv, TypeOK', AgeHeld
  PROVE  Inv'
  <1>1. Overdue \subseteq held
    BY DEF Overdue
  <1>2. QED  BY <1>1, QueueShrinks DEF AgeHeld, wireVars

\* Closing the sockets changes neither whose deliveries they are nor how far they have come.
LEMMA CloseSocketKeepsJobs ==
  ASSUME lane \in Seq(Job), CloseSocket
  PROVE  /\ DOMAIN lane' = DOMAIN lane
         /\ \A i \in DOMAIN lane : /\ lane'[i].msg = lane[i].msg /\ lane'[i].via = lane[i].via
                                   /\ lane'[i].phase = lane[i].phase
  <1>1. /\ DOMAIN lane' = DOMAIN lane
        /\ \A i \in DOMAIN lane : lane'[i] = [lane[i] EXCEPT !.ws = "closed"]
    BY LaneClose DEF CloseSocket
  <1>2. ASSUME NEW i \in DOMAIN lane
        PROVE  lane'[i].msg = lane[i].msg /\ lane'[i].via = lane[i].via /\ lane'[i].phase = lane[i].phase
    <2>1. PICK job \in Job : job = lane[i]
      BY ElementOfSeq, LenProperties
    <2>2. lane'[i] = [job EXCEPT !.ws = "closed"]
      BY <1>1, <2>1
    <2>3. QED  BY <2>1, <2>2, JobKeeps
  <1>3. QED  BY <1>1, <1>2

\* Closing the socket leaves every delivery with its caller.
LEMMA CloseSocketKeepsLane ==
  ASSUME Inv, TypeOK', CloseSocket, UNCHANGED <<told, copies, lost>>
  PROVE  LaneOK'
  <1>1. lane \in Seq(Job)
    BY DEF Inv, TypeOK
  <1>2. /\ DOMAIN lane' = DOMAIN lane
        /\ \A i \in DOMAIN lane : /\ lane'[i].msg = lane[i].msg /\ lane'[i].via = lane[i].via
                                  /\ lane'[i].phase = lane[i].phase
    BY <1>1, CloseSocketKeepsJobs
  <1>3. DirectOnce'
    BY <1>2 DEF Inv, LaneOK, DirectOnce
  <1>4. QED  BY <1>2, <1>3 DEF Inv, LaneOK, JobOK

LEMMA InvEnvironment ==
  ASSUME Inv, TypeOK', Environment
  PROVE  Inv'
  <1> USE DEF queueVars, wireVars, endVars
  <1>1. CASE Kill \/ Register \/ Disconnect
    <2>1. CloseSocket /\ UNCHANGED <<held, told, copies, lost, acked, gaveUp, killed, expelled>>
      BY <1>1 DEF Kill, Register, Disconnect
    <2>2. LaneOK'
      BY <2>1, CloseSocketKeepsLane
    <2>3. QED  BY <2>1, <2>2 DEF Inv, HeldOK, NewOK, NothingVanishes, Accounted
  <1>2. CASE Cleanup
    <2>1. held' \subseteq held /\ killed' = killed \cup held
          /\ UNCHANGED <<lane, told, copies, lost, expelled, acked, gaveUp>>
      BY <1>2 DEF Cleanup, Remove
    <2>2. QED  BY <2>1, QueueShrinks
  <1>3. CASE Succeed \/ TurnChange \/ Tick
    BY <1>3, QueueShrinks DEF Succeed, TurnChange, Tick
  <1>4. CASE Crash
    <2>1. DOMAIN lane' = {}
      BY <1>4, EmptySeq, LenProperties DEF Crash
    <2>2. LaneOK'
      BY <2>1 DEF LaneOK, DirectOnce
    <2>3. /\ UNCHANGED <<held, copies, lost, acked, gaveUp, killed, expelled>>
          /\ \A m \in Msgs : told'[m] = IF told[m] = "pending" THEN "refused" ELSE told[m]
      BY <1>4 DEF Crash
    <2>4. HeldOK'
      BY <2>3 DEF Inv, HeldOK, TypeOK, QueueTypeOK
    <2>5. NewOK' /\ NothingVanishes'
      BY <2>3 DEF Inv, NewOK, NothingVanishes, Accounted
    <2>6. QED  BY <2>2, <2>4, <2>5 DEF Inv
  <1>5. QED  BY <1>1, <1>2, <1>3, <1>4 DEF Environment

LEMMA InvStep == Inv /\ [Next]_vars => Inv'
  <1> SUFFICES ASSUME Inv, [Next]_vars PROVE Inv'  OBVIOUS
  <1>1. TypeOK'
    BY TypeStep DEF Inv
  <1>2. CASE UNCHANGED vars
    BY <1>1, <1>2, QueueShrinks DEF vars, queueVars, wireVars, endVars
  <1>3. CASE Next
    BY <1>1, <1>3, InvArrive, InvDeliver, InvFlush, InvInbox, InvAgeHeld, InvEnvironment DEF Next
  <1>4. QED  BY <1>2, <1>3

LEMMA InvAlways == Spec => []Inv
  BY InvInit, InvStep, PTL DEF Spec

\* A sender who was told "sent" or "queued" is never left with a message that is nowhere: it is
\* still in the queue, was written to a socket, confirmed, given up, discarded or expelled.
THEOREM NothingEverVanishes == Spec => []NothingVanishes
  <1>1. Inv => NothingVanishes
    BY DEF Inv
  <1>2. QED  BY <1>1, InvAlways, PTL

-----------------------------------------------------------------------------
(* One deliverer at a time. *)

\* A step that changes no delivery's caller keeps the flush and the inbox call apart.
LEMMA SameDeliveries ==
  ASSUME OneDeliverer, DOMAIN lane' = DOMAIN lane, \A i \in DOMAIN lane : lane'[i].via = lane[i].via,
         flush'.pc = "waiting" <=> flush.pc = "waiting",
         ~(flush'.pc # "off" /\ inbox'.pc # "off")
  PROVE  OneDeliverer'
  <1>1. FlushJobs' = FlushJobs
    BY DEF FlushJobs
  <1>2. QED  BY <1>1 DEF OneDeliverer

\* The end of a delivery of the flush sets the flush going again; any other leaves it waiting.
LEMMA DeliveryEndsOnce ==
  ASSUME TypeOK, OneDeliverer, lane # << >>, lane' = Tail(lane), UNCHANGED inbox,
         NEW outcome \in {"sent", "queued", "refused"}, Answer(outcome)
  PROVE  OneDeliverer'
  <1>1. /\ lane \in Seq(Job) /\ flush \in FlushType
        /\ 1 \in DOMAIN lane /\ lane[1].via \in {"direct", "flush"}
    BY LaneHead, JobUpdates DEF TypeOK, CallTypeOK
  <1>2. /\ \A i \in DOMAIN lane' : i + 1 \in DOMAIN lane /\ i + 1 # 1 /\ lane'[i] = lane[i + 1]
        /\ \A i \in DOMAIN lane : i # 1 => i - 1 \in DOMAIN lane' /\ lane'[i - 1] = lane[i]
    BY <1>1, LaneTail
  <1>3. DOMAIN lane' \subseteq Nat
    <2>1. lane' \in Seq(Job)
      BY <1>1, LaneTail
    <2>2. QED  BY <2>1, LenProperties
  <1>4. CASE lane[1].via = "direct"
    <2>1. flush' = flush
      BY <1>4 DEF Answer
    <2>2. FlushJobs' # {} <=> FlushJobs # {}
      <3>1. \A i \in FlushJobs : i # 1 /\ i - 1 \in FlushJobs'
        BY <1>2, <1>4 DEF FlushJobs
      <3>2. \A i \in FlushJobs' : i + 1 \in FlushJobs
        BY <1>2 DEF FlushJobs
      <3>3. QED  BY <3>1, <3>2
    <2>3. \A i, j \in FlushJobs' : i = j
      BY <1>2, <1>3 DEF FlushJobs, OneDeliverer
    <2>4. QED  BY <2>1, <2>2, <2>3 DEF OneDeliverer
  <1>5. CASE lane[1].via = "flush"
    <2>1. 1 \in FlushJobs /\ \A i \in FlushJobs : i = 1
      BY <1>1, <1>5 DEF FlushJobs, OneDeliverer
    <2>2. FlushJobs' = {}
      BY <1>2, <2>1 DEF FlushJobs
    <2>3. flush.pc = "waiting" /\ inbox.pc = "off"
      BY <2>1 DEF OneDeliverer
    <2>4. flush'.pc \in {"off", "next"}
      <3>1. \A x : [flush EXCEPT !.pc = "next", !.first = x].pc = "next"
        BY <1>1 DEF FlushType
      <3>2. [flush EXCEPT !.pc = "next"].pc = "next" /\ FlushOff.pc = "off"
        BY <1>1 DEF FlushType, FlushOff
      <3>3. CASE outcome = "sent"
        BY <1>5, <3>1, <3>3 DEF Answer
      <3>4. CASE outcome \in {"queued", "refused"}
        BY <1>5, <3>2, <3>4 DEF Answer
      <3>5. QED  BY <3>3, <3>4
    <2>5. QED  BY <2>2, <2>3, <2>4 DEF OneDeliverer
  <1>6. QED  BY <1>1, <1>4, <1>5

LEMMA OneDelivererInit == Init => OneDeliverer
  <1> SUFFICES ASSUME Init PROVE OneDeliverer  OBVIOUS
  <1>1. FlushJobs = {}
    BY EmptySeq, LenProperties DEF Init, FlushJobs
  <1>2. QED  BY <1>1 DEF Init, OneDeliverer, FlushOff, InboxOff

\* A step of the lane either advances the delivery being served or ends it with an answer.
LEMMA DeliverShape ==
  ASSUME TypeOK, Deliver
  PROVE  /\ lane # << >> /\ UNCHANGED inbox
         /\ \/ /\ \E j \in Job : /\ lane' = [lane EXCEPT ![1] = j]
                                 /\ j.msg = lane[1].msg /\ j.via = lane[1].via
               /\ UNCHANGED <<flush, told, held>>
            \/ /\ lane' = Tail(lane)
               /\ \E outcome \in {"sent", "queued", "refused"} : Answer(outcome)
  <1>1. lane # << >> /\ UNCHANGED inbox
    BY DEF Deliver, Probe, Fail, Withdraw, Vet, Expel, PutBack, Gate, LedgerHold, AtGate, Send, Return, Ready,
           callVars
  <1>2. PICK job \in Job : job = lane[1]
    BY <1>1, LaneHead DEF TypeOK
  <1>3. lane \in Seq(Job) /\ 1 \in DOMAIN lane
    BY <1>1, LaneHead DEF TypeOK
  <1>4. CASE Probe
    <2>1. PICK seen : lane' = [lane EXCEPT ![1] = [@ EXCEPT !.phase = "probed",
                        !.hold = HoldsUntilIdle(lane[1].msg, lane[1].late, seen)]]
      BY <1>4 DEF Probe
    <2> DEFINE b == HoldsUntilIdle(lane[1].msg, lane[1].late, seen)
    <2>2. b \in BOOLEAN
      BY DEF HoldsUntilIdle
    <2>3. lane' = [lane EXCEPT ![1] = [job EXCEPT !.phase = "probed", !.hold = b]]
      BY <1>2, <1>3, <2>1
    <2> HIDE DEF b
    <2>4. PICK j \in Job : /\ j = [job EXCEPT !.phase = "probed", !.hold = b]
                           /\ j.msg = job.msg /\ j.via = job.via
      <3> DEFINE j == [job EXCEPT !.phase = "probed", !.hold = b]
      <3>1. j \in Job  BY <2>2, JobUpdates
      <3>2. j.msg = job.msg /\ j.via = job.via  BY <2>2, JobKeeps
      <3> HIDE DEF j
      <3>3. QED  BY <3>1, <3>2 DEF j
    <2>5. UNCHANGED <<flush, told, held>>
      BY <1>4 DEF Probe, callVars, queueVars
    <2>6. QED  BY <1>1, <1>2, <2>3, <2>4, <2>5
  <1>5. CASE \E p \in {"vetted", "gated"} : Marks(p)
    <2>p. PICK p \in {"vetted", "gated"} : Marks(p)  BY <1>5
    <2>1. lane' = [lane EXCEPT ![1] = [job EXCEPT !.phase = p]]
      BY <1>2, <1>3, <2>p DEF Marks
    <2> DEFINE j == [job EXCEPT !.phase = p]
    <2>2. j \in Job  BY JobUpdates
    <2>3. j.msg = job.msg /\ j.via = job.via  BY JobKeeps
    <2>4. UNCHANGED <<flush, told, held>>
      BY <2>p DEF Marks, callVars, queueVars
    <2> HIDE DEF j
    <2>5. QED  BY <1>1, <1>2, <2>1, <2>2, <2>3, <2>4 DEF j
  <1>6. CASE Send
    <2>1. CASE Kind[job.msg] = "agent"
      <3>1. lane' = [lane EXCEPT ![1] = [job EXCEPT !.phase = "written"]]
            /\ UNCHANGED <<flush, told, held>>
        BY <1>2, <1>3, <1>6, <2>1 DEF Send, queueVars
      <3> DEFINE j == [job EXCEPT !.phase = "written"]
      <3>2. j \in Job  BY JobUpdates
      <3>3. j.msg = job.msg /\ j.via = job.via  BY JobKeeps
      <3> HIDE DEF j
      <3>4. QED  BY <1>1, <1>2, <3>1, <3>2, <3>3 DEF j
    <2>2. CASE Kind[job.msg] # "agent"
      BY <1>1, <1>2, <1>6, <2>2 DEF Send
    <2>3. QED  BY <2>1, <2>2
  <1>7. CASE Fail \/ Withdraw \/ Expel \/ Requeue \/ Return
    BY <1>1, <1>7 DEF Fail, Withdraw, Expel, Requeue, Return
  <1>8. QED  BY <1>4, <1>5, <1>6, <1>7, HeadSteps DEF Deliver

LEMMA OneDelivererDeliver ==
  ASSUME TypeOK, OneDeliverer, Deliver
  PROVE  OneDeliverer'
  <1>1. lane # << >> /\ UNCHANGED inbox /\ lane \in Seq(Job)
    BY DeliverShape DEF TypeOK
  <1>2. CASE lane' = Tail(lane) /\ \E outcome \in {"sent", "queued", "refused"} : Answer(outcome)
    BY <1>1, <1>2, DeliveryEndsOnce
  <1>3. ASSUME NEW j \in Job, lane' = [lane EXCEPT ![1] = j], j.via = lane[1].via, UNCHANGED flush
        PROVE  OneDeliverer'
    <2>1. DOMAIN lane' = DOMAIN lane /\ \A i \in DOMAIN lane : lane'[i].via = lane[i].via
      BY <1>1, <1>3, LaneStep
    <2>2. QED  BY <1>1, <1>3, <2>1, SameDeliveries DEF OneDeliverer
  <1>4. QED  BY <1>2, <1>3, DeliverShape

LEMMA OneDelivererFlush ==
  ASSUME TypeOK, OneDeliverer, Flush
  PROVE  OneDeliverer'
  <1> USE DEF queueVars
  <1>1. flush \in FlushType /\ lane \in Seq(Job) /\ UNCHANGED inbox
    BY DEF TypeOK, CallTypeOK, Flush, FlushStart, FlushPlan, FlushNext, FlushStop
  <1>2. CASE FlushStart
    <2>1. flush'.pc = "claimed" /\ flush.pc = "off" /\ inbox.pc = "off" /\ lane' = lane
      BY <1>2 DEF FlushStart, FlushOff, Claimed
    <2>2. QED  BY <1>1, <2>1, SameDeliveries
  <1>3. CASE FlushPlan
    <2>1. \A due, late : [flush EXCEPT !.pc = "next", !.todo = due, !.late = late].pc = "next"
      BY <1>1 DEF FlushType
    <2>2. flush'.pc = "next" /\ flush.pc = "claimed" /\ lane' = lane
      BY <1>3, <2>1 DEF FlushPlan
    <2>3. QED  BY <1>1, <2>2, SameDeliveries DEF OneDeliverer
  <1>4. CASE FlushNext
    <2>1. PICK m \in held : /\ lane' = Append(lane, NewJob(m, "flush", m \in flush.late))
                            /\ flush' = [flush EXCEPT !.pc = "waiting", !.todo = @ \ {m}]
      BY <1>4 DEF FlushNext
    <2>2. flush'.pc = "waiting" /\ flush.pc = "next"
      BY <1>1, <1>4, <2>1 DEF FlushNext, FlushType
    <2>3. FlushJobs = {} /\ inbox.pc = "off"
      BY <2>2 DEF OneDeliverer
    <2>4. PICK j \in Job : lane' = Append(lane, j) /\ j.via = "flush"
      <3>1. m \in Msgs /\ (m \in flush.late) \in BOOLEAN
        BY DEF TypeOK, QueueTypeOK
      <3>2. NewJob(m, "flush", m \in flush.late) \in Job
            /\ NewJob(m, "flush", m \in flush.late).via = "flush"
        BY <3>1, NewJobType DEF NewJob
      <3>3. QED  BY <2>1, <3>2
    <2>5. FlushJobs' = {Len(lane) + 1}
      <3>1. /\ DOMAIN lane' = DOMAIN lane \cup {Len(lane) + 1}
            /\ \A i \in DOMAIN lane : lane'[i] = lane[i]
            /\ lane'[Len(lane) + 1] = j
        BY <1>1, <2>4, LaneAppend
      <3>2. QED  BY <2>3, <2>4, <3>1 DEF FlushJobs
    <2>6. QED  BY <1>1, <2>2, <2>3, <2>5 DEF OneDeliverer
  <1>5. CASE FlushStop
    BY <1>1, <1>5, SameDeliveries DEF FlushStop, FlushOff, OneDeliverer
  <1>6. QED  BY <1>2, <1>3, <1>4, <1>5 DEF Flush

LEMMA OneDelivererRest ==
  ASSUME TypeOK, OneDeliverer,
         Arrive \/ InboxCall \/ InboxFinish \/ AgeHeld \/ Environment \/ UNCHANGED vars
  PROVE  OneDeliverer'
  <1> USE DEF queueVars, callVars
  <1>1. lane \in Seq(Job) /\ inbox \in InboxType
    BY DEF TypeOK, CallTypeOK
  <1>2. CASE InboxCall
    <2>1. lane' = lane /\ flush' = flush /\ flush.pc = "off"
      BY <1>2 DEF InboxCall, InboxTake, InboxRead, Claimed
    <2>2. QED  BY <2>1, SameDeliveries
  <1>3. CASE InboxFinish
    <2>1. lane' = lane /\ flush' = flush /\ inbox' = InboxOff
      BY <1>3 DEF InboxFinish, InboxAgain, InboxLease, InboxFail
    <2>2. inbox'.pc = "off"
      BY <2>1 DEF InboxOff
    <2>3. QED  BY <2>1, <2>2, SameDeliveries
  <1>4. CASE Arrive
    <2>1. PICK m \in Msgs : Accept(m) \/ AcceptOffline(m)
      BY <1>4 DEF Arrive
    <2>2. UNCHANGED <<flush, inbox>>
      BY <2>1 DEF Accept, AcceptOffline
    <2>3. CASE lane' = Append(lane, NewJob(m, "direct", FALSE))
      <3>1. PICK j \in Job : lane' = Append(lane, j) /\ j.via = "direct"
        BY <2>3, NewJobType DEF NewJob
      <3>2. /\ DOMAIN lane' = DOMAIN lane \cup {Len(lane) + 1}
            /\ \A i \in DOMAIN lane : lane'[i] = lane[i]
            /\ lane'[Len(lane) + 1] = j
        BY <1>1, <3>1, LaneAppend
      <3>3. FlushJobs' = FlushJobs
        BY <3>1, <3>2 DEF FlushJobs
      <3>4. QED  BY <2>2, <3>3 DEF OneDeliverer
    <2>4. CASE lane' = lane
      BY <2>2, <2>4, SameDeliveries DEF OneDeliverer
    <2>5. QED  BY <2>1, <2>3, <2>4 DEF Accept, AcceptOffline
  <1>5. CASE Kill \/ Register \/ Disconnect
    <2>1. CloseSocket /\ flush' = flush
      BY <1>5 DEF Kill, Register, Disconnect
    <2>2. DOMAIN lane' = DOMAIN lane /\ \A i \in DOMAIN lane : lane'[i].via = lane[i].via
      BY <1>1, <2>1, CloseSocketKeepsJobs
    <2>3. inbox'.pc = inbox.pc
      BY <1>1, <2>1 DEF CloseSocket, InboxType
    <2>4. QED  BY <2>1, <2>2, <2>3, SameDeliveries DEF OneDeliverer
  <1>6. CASE Crash
    <2>1. FlushJobs' = {}
      BY <1>6, EmptySeq, LenProperties DEF Crash, FlushJobs
    <2>2. QED  BY <1>6, <2>1 DEF Crash, FlushOff, InboxOff, OneDeliverer
  <1>7. CASE Tick
    <2>1. lane' = lane /\ flush' = flush /\ inbox'.pc = inbox.pc
      BY <1>1, <1>7 DEF Tick, InboxType
    <2>2. QED  BY <2>1, SameDeliveries DEF OneDeliverer
  <1>8. CASE AgeHeld \/ Cleanup \/ Succeed \/ TurnChange \/ UNCHANGED vars
    <2>1. UNCHANGED <<lane, flush, inbox>>
      BY <1>8 DEF AgeHeld, Cleanup, Succeed, TurnChange, vars
    <2>2. QED  BY <2>1, SameDeliveries DEF OneDeliverer
  <1>9. QED  BY <1>2, <1>3, <1>4, <1>5, <1>6, <1>7, <1>8 DEF Environment

\* However many triggers meet (Stop, the end of a compaction, the sweep, check_inbox), at most
\* one flush or inbox call works on the channel, and a waiting flush has its one delivery.
THEOREM AlwaysOneDeliverer == Spec => []OneDeliverer
  <1>1. TypeOK /\ OneDeliverer /\ [Next]_vars => OneDeliverer'
    BY OneDelivererDeliver, OneDelivererFlush, OneDelivererRest DEF Next
  <1>2. QED  BY <1>1, OneDelivererInit, TypeCorrect, PTL DEF Spec

-----------------------------------------------------------------------------
(* A message has at most one delivery in the lane. *)

OneJob == \A i, j \in DOMAIN lane : lane[i].msg = lane[j].msg => i = j

\* A sender waits for a direct delivery only, and was told "queued" of one of the flush, so a
\* message is not in the lane both ways; twice the same way DirectOnce and OneDeliverer exclude.
LEMMA OneJobPerMessage ==
  ASSUME Inv, OneDeliverer
  PROVE  OneJob
  <1> SUFFICES ASSUME NEW i \in DOMAIN lane, NEW j \in DOMAIN lane, lane[i].msg = lane[j].msg
               PROVE  i = j
    BY DEF OneJob
  <1>1. lane[i].via \in {"direct", "flush"} /\ lane[j].via \in {"direct", "flush"}
    <2>1. lane[i] \in Job /\ lane[j] \in Job
      BY ElementOfSeq, LenProperties DEF Inv, TypeOK
    <2>2. QED  BY <2>1, JobUpdates
  <1>2. lane[i].via = lane[j].via
    BY <1>1 DEF Inv, LaneOK, JobOK
  <1>3. CASE lane[i].via = "direct"
    BY <1>2, <1>3 DEF Inv, LaneOK, DirectOnce
  <1>4. CASE lane[i].via = "flush"
    BY <1>2, <1>4 DEF OneDeliverer, FlushJobs
  <1>5. QED  BY <1>1, <1>3, <1>4

\* Once its delivery has ended, a message has none in the lane any more.
LEMMA HeadLeaves ==
  ASSUME lane \in Seq(Job), OneJob, lane # << >>, lane' = Tail(lane)
  PROVE  \A i \in DOMAIN lane' : lane'[i].msg # lane[1].msg
  <1>1. \A i \in DOMAIN lane' : i + 1 \in DOMAIN lane /\ i + 1 # 1 /\ lane'[i] = lane[i + 1]
    BY LaneTail
  <1>2. 1 \in DOMAIN lane
    BY LaneHead
  <1>3. QED  BY <1>1, <1>2 DEF OneJob

-----------------------------------------------------------------------------
(* One copy for each run of the bridge. *)

\* Nothing is left to write for m in this run: its delivery, if it has one, has been written,
\* and it is in the queue only until that delivery returns.
Delivered(m) ==
  /\ told[m] # "new"
  /\ \A i \in DOMAIN lane : lane[i].msg = m => lane[i].phase = "written"
  /\ m \in held => \E i \in DOMAIN lane : lane[i].msg = m

\* OneCopyPerRun is not inductive: a message still to be written must have one copy less.
CopiesOK == \A m \in Msgs : copies[m] <= IF Delivered(m) THEN crashes + 1 ELSE crashes

LEMMA CopiesInit == Init => CopiesOK
  BY DEF Init, CopiesOK, Delivered

\* A step that writes nothing keeps the bound when what was delivered stays delivered.
LEMMA CopiesKept ==
  ASSUME TypeOK, CopiesOK, UNCHANGED <<copies, crashes>>, \A m \in Msgs : Delivered(m) => Delivered(m)'
  PROVE  CopiesOK'
  <1> SUFFICES ASSUME NEW m \in Msgs
               PROVE  copies'[m] <= IF Delivered(m)' THEN crashes' + 1 ELSE crashes'
    BY DEF CopiesOK
  <1>1. copies[m] \in Nat /\ crashes \in Nat
    BY BoundsAssumption DEF TypeOK, HistoryTypeOK
  <1>2. CASE Delivered(m)
    BY <1>1, <1>2 DEF CopiesOK
  <1>3. CASE ~Delivered(m)
    BY <1>1, <1>3 DEF CopiesOK
  <1>4. QED  BY <1>2, <1>3

\* The other messages, while a delivery advances or ends.
LEMMA OthersDelivered ==
  ASSUME Inv, Deliver, NEW m \in Msgs, m # lane[1].msg, Delivered(m)
  PROVE  Delivered(m)'
  <1>1. lane \in Seq(Job) /\ lane # << >> /\ TypeOK /\ told \in [Msgs -> Outcomes]
    BY DeliverShape DEF Inv, TypeOK, HistoryTypeOK
  <1>2. lane[1].msg \in Msgs
    BY <1>1, HeadFacts
  <1>3. m \in held' => m \in held
    BY <1>2 DEF Deliver, Probe, Vet, Fail, Withdraw, PutBack, Gate, LedgerHold, Return, Send, Expel,
                Dequeue, Remove, Hold, queueVars
  <1>4. ASSUME NEW j \in Job, lane' = [lane EXCEPT ![1] = j], j.msg = lane[1].msg, UNCHANGED told
        PROVE  Delivered(m)'
    <2>1. /\ DOMAIN lane' = DOMAIN lane
          /\ \A i \in DOMAIN lane : lane'[i] = IF i = 1 THEN j ELSE lane[i]
      BY <1>1, <1>4, LaneStep
    <2>2. QED  BY <1>3, <1>4, <2>1 DEF Delivered
  <1>5. ASSUME lane' = Tail(lane), NEW outcome \in {"sent", "queued", "refused"}, Answer(outcome)
        PROVE  Delivered(m)'
    <2>1. /\ \A i \in DOMAIN lane' : i + 1 \in DOMAIN lane /\ lane'[i] = lane[i + 1]
          /\ \A i \in DOMAIN lane : i # 1 => i - 1 \in DOMAIN lane' /\ lane'[i - 1] = lane[i]
      BY <1>1, <1>5, LaneTail
    <2>2. told'[m] = told[m]
      BY <1>1, <1>2, <1>5 DEF Answer
    <2>3. QED  BY <1>3, <2>1, <2>2 DEF Delivered
  <1>6. QED  BY <1>1, <1>4, <1>5, DeliverShape

LEMMA CopiesDeliver ==
  ASSUME Inv, OneDeliverer, CopiesOK, Deliver
  PROVE  CopiesOK'
  <1>1. /\ lane \in Seq(Job) /\ lane # << >> /\ TypeOK /\ told \in [Msgs -> Outcomes]
        /\ copies \in [Msgs -> Nat] /\ crashes \in Nat /\ crashes' = crashes
    <2>1. crashes' = crashes
      BY DEF Deliver, Probe, Fail, Withdraw, Vet, Expel, PutBack, Gate, LedgerHold, Send, Return
    <2>2. QED  BY <2>1, BoundsAssumption, DeliverShape DEF Inv, TypeOK, HistoryTypeOK
  <1>h. PICK h \in Msgs : /\ h = lane[1].msg /\ 1 \in DOMAIN lane /\ lane[1] \in Job
                          /\ told[h] = IF lane[1].via = "direct" THEN "pending" ELSE "queued"
                          /\ lane[1].via \in {"direct", "flush"}
                          /\ lane[1].via = "direct" => h \notin held
    BY <1>1, HeadFacts
  <1>2. OneJob
    BY OneJobPerMessage
  <1>3. /\ \A m \in Msgs \ {h} : copies'[m] = copies[m]
        /\ copies'[h] = copies[h] \/ (Send /\ copies'[h] = copies[h] + 1)
    <2>1. CASE Send
      BY <1>1, <1>h, <2>1 DEF Send, Write
    <2>2. CASE ~Send
      BY <2>2 DEF Deliver, Probe, Vet, Fail, Withdraw, PutBack, Gate, LedgerHold, Return, Expel, wireVars
    <2>3. QED  BY <2>1, <2>2
  <1>4. ASSUME NEW m \in Msgs \ {h}
        PROVE  copies'[m] <= IF Delivered(m)' THEN crashes' + 1 ELSE crashes'
    <2>1. copies[m] \in Nat /\ copies'[m] = copies[m]
      BY <1>1, <1>3
    <2>2. CASE Delivered(m)
      BY <1>1, <1>h, <2>1, <2>2, OthersDelivered DEF CopiesOK
    <2>3. CASE ~Delivered(m)
      BY <1>1, <2>1, <2>3 DEF CopiesOK
    <2>4. QED  BY <2>2, <2>3
  <1>5. copies'[h] <= IF Delivered(h)' THEN crashes' + 1 ELSE crashes'
    <2>1. copies[h] \in Nat /\ copies[h] <= crashes + 1
      BY <1>1 DEF CopiesOK
    <2>2. lane[1].phase # "written" => copies[h] <= crashes
      BY <1>h DEF CopiesOK, Delivered
    <2>3. ASSUME lane' = Tail(lane), Answer("sent"), Dequeue
          PROVE  Delivered(h)'
      <3>1. \A i \in DOMAIN lane' : lane'[i].msg # h
        BY <1>1, <1>h, <1>2, <2>3, HeadLeaves
      <3>2. h \notin held'
        BY <1>h, <2>3 DEF Dequeue, Remove, queueVars
      <3>3. told'[h] # "new"
        BY <1>1, <1>h, <2>3 DEF Answer
      <3>4. QED  BY <3>1, <3>2, <3>3 DEF Delivered
    <2>4. CASE Send
      <3>1. lane[1].phase # "written"
        BY <2>4 DEF Send, Ready, AtGate
      <3>2. Delivered(h)'
        <4>1. CASE Kind[h] = "agent"
          <5>1. lane' = [lane EXCEPT ![1] = [lane[1] EXCEPT !.phase = "written"]]
                /\ UNCHANGED <<held, told>>
            BY <1>1, <1>h, <2>4, <4>1 DEF Send, queueVars
          <5>2. [lane[1] EXCEPT !.phase = "written"] \in Job
                /\ [lane[1] EXCEPT !.phase = "written"].phase = "written"
                /\ [lane[1] EXCEPT !.phase = "written"].msg = h
            BY <1>h, JobUpdates, JobKeeps
          <5>3. /\ DOMAIN lane' = DOMAIN lane
                /\ lane'[1].phase = "written" /\ lane'[1].msg = h
                /\ \A i \in DOMAIN lane : i # 1 => lane'[i] = lane[i]
            BY <1>1, <1>h, <5>1, <5>2, LaneStep
          <5>4. \A i \in DOMAIN lane : i # 1 => lane[i].msg # h
            BY <1>h, <1>2 DEF OneJob
          <5>5. QED  BY <1>h, <5>1, <5>3, <5>4 DEF Delivered
        <4>2. CASE Kind[h] # "agent"
          BY <1>h, <2>3, <2>4, <4>2 DEF Send
        <4>3. QED  BY <4>1, <4>2
      <3>3. copies'[h] <= crashes + 1
        BY <1>1, <1>3, <2>1, <2>2, <3>1
      <3>4. QED  BY <1>1, <3>2, <3>3
    <2>5. CASE Return
      <3>1. Delivered(h)'
        BY <2>3, <2>5 DEF Return
      <3>2. copies'[h] = copies[h]
        BY <2>5 DEF Return, wireVars
      <3>3. QED  BY <1>1, <2>1, <3>1, <3>2
    <2>6. CASE Probe \/ Fail \/ Withdraw \/ Expel \/ Requeue \/ Marks("vetted") \/ Marks("gated")
      <3>1. lane[1].phase # "written"
        BY <2>6 DEF Probe, Fail, Withdraw, Expel, Requeue, Marks
      <3>2. copies'[h] = copies[h]
        BY <2>6 DEF Probe, Fail, Withdraw, Expel, Requeue, Marks, wireVars
      <3>3. QED  BY <1>1, <2>1, <2>2, <3>1, <3>2
    <2>7. QED  BY <2>4, <2>5, <2>6, HeadSteps DEF Deliver
  <1>6. QED  BY <1>4, <1>5 DEF CopiesOK

\* A new delivery is of a message that has none yet and still has to be written.
LEMMA DeliveredAppend ==
  ASSUME lane \in Seq(Job), NEW j \in Job, lane' = Append(lane, j), UNCHANGED held,
         ~Delivered(j.msg), NEW m \in Msgs, Delivered(m), told'[m] = told[m]
  PROVE  Delivered(m)'
  <1>1. /\ DOMAIN lane' = DOMAIN lane \cup {Len(lane) + 1}
        /\ \A i \in DOMAIN lane : lane'[i] = lane[i]
        /\ lane'[Len(lane) + 1] = j
    BY LaneAppend
  <1>2. j.msg # m
    OBVIOUS
  <1>3. QED  BY <1>1, <1>2 DEF Delivered

LEMMA CopiesRest ==
  ASSUME Inv, TypeOK', OneDeliverer, CopiesOK,
         Arrive \/ Flush \/ InboxCall \/ InboxFinish \/ AgeHeld \/ Environment \/ UNCHANGED vars
  PROVE  CopiesOK'
  <1> USE DEF queueVars, wireVars
  <1>1. lane \in Seq(Job) /\ TypeOK /\ told \in [Msgs -> Outcomes] /\ held \subseteq Msgs
    BY DEF Inv, TypeOK, HistoryTypeOK, QueueTypeOK
  <1>2. ASSUME UNCHANGED <<lane, told, copies, crashes>>, held' \subseteq held
        PROVE  CopiesOK'
    <2>1. \A m \in Msgs : Delivered(m) => Delivered(m)'
      BY <1>2 DEF Delivered
    <2>2. QED  BY <1>1, <1>2, <2>1, CopiesKept
  <1>3. ASSUME NEW m \in Msgs, Accept(m)
        PROVE  CopiesOK'
    <2>1. PICK j \in Job : lane' = Append(lane, j) /\ j.msg = m
      BY <1>3, NewJobType DEF Accept, NewJob
    <2>2. ~Delivered(m)
      BY <1>3 DEF Accept, Delivered
    <2>3. \A x \in Msgs : Delivered(x) => told'[x] = told[x]
      BY <1>1, <1>3, <2>2 DEF Accept
    <2>4. \A x \in Msgs : Delivered(x) => Delivered(x)'
      BY <1>1, <1>3, <2>1, <2>2, <2>3, DeliveredAppend DEF Accept
    <2>5. QED  BY <1>1, <1>3, <2>4, CopiesKept DEF Accept
  <1>4. ASSUME NEW m \in Msgs, AcceptOffline(m)
        PROVE  CopiesOK'
    <2>1. ~Delivered(m)
      BY <1>4 DEF AcceptOffline, Delivered
    <2>2. \A x \in Msgs \ {m} : told'[x] = told[x] /\ (x \in held' => x \in held)
      BY <1>1, <1>4 DEF AcceptOffline, Hold
    <2>3. \A x \in Msgs : Delivered(x) => Delivered(x)'
      BY <1>4, <2>1, <2>2 DEF AcceptOffline, Delivered
    <2>4. QED  BY <1>1, <1>4, <2>3, CopiesKept DEF AcceptOffline
  <1>5. CASE FlushNext
    <2>1. PICK m \in held : /\ lane' = Append(lane, NewJob(m, "flush", m \in flush.late))
      BY <1>5 DEF FlushNext
    <2>2. PICK j \in Job : lane' = Append(lane, j) /\ j.msg = m
      <3>1. m \in Msgs /\ (m \in flush.late) \in BOOLEAN
        BY <1>1
      <3>2. NewJob(m, "flush", m \in flush.late) \in Job
            /\ NewJob(m, "flush", m \in flush.late).msg = m
        BY <3>1, NewJobType DEF NewJob
      <3>3. QED  BY <2>1, <3>2
    <2>3. ~Delivered(m)
      <3>1. FlushJobs = {}
        BY <1>5 DEF FlushNext, OneDeliverer
      <3>2. ASSUME NEW i \in DOMAIN lane, lane[i].msg = m
            PROVE  FALSE
        <4>1. told[m] = "queued" /\ JobOK(lane[i])
          BY DEF Inv, HeldOK, LaneOK
        <4>2. lane[i].via \in {"direct", "flush"}
          BY <1>1, ElementOfSeq, LenProperties, JobUpdates
        <4>3. lane[i].via = "flush"
          BY <3>2, <4>1, <4>2 DEF JobOK
        <4>4. QED  BY <3>1, <4>3 DEF FlushJobs
      <3>3. QED  BY <3>2 DEF Delivered
    <2>4. \A x \in Msgs : Delivered(x) => Delivered(x)'
      BY <1>1, <1>5, <2>2, <2>3, DeliveredAppend DEF FlushNext
    <2>5. QED  BY <1>1, <1>5, <2>4, CopiesKept DEF FlushNext
  <1>6. CASE FlushStart \/ FlushPlan \/ FlushStop
    BY <1>2, <1>6 DEF FlushStart, FlushPlan, FlushStop
  <1>7. CASE InboxCall \/ InboxFinish
    BY <1>2, <1>7 DEF InboxCall, InboxTake, InboxRead, Remove, InboxFinish, InboxAgain, InboxLease,
                      InboxFail
  <1>8. CASE AgeHeld \/ Cleanup \/ Succeed \/ TurnChange \/ Tick \/ UNCHANGED vars
    BY <1>2, <1>8 DEF AgeHeld, Cleanup, Remove, Succeed, TurnChange, Tick, vars
  <1>9. CASE Kill \/ Register \/ Disconnect
    <2>1. CloseSocket /\ UNCHANGED <<held, told, copies, crashes>>
      BY <1>9 DEF Kill, Register, Disconnect
    <2>2. \A m \in Msgs : Delivered(m) => Delivered(m)'
      BY <1>1, <2>1, CloseSocketKeepsJobs DEF Delivered
    <2>3. QED  BY <1>1, <2>1, <2>2, CopiesKept
  <1>10. CASE Crash
    <2>1. \A m \in Msgs : copies[m] \in Nat /\ copies[m] <= crashes + 1
      <3>1. \A m \in Msgs : copies[m] \in Nat /\ crashes \in Nat
        BY BoundsAssumption DEF Inv, TypeOK, HistoryTypeOK
      <3>2. QED  BY <3>1 DEF CopiesOK
    <2>2. copies' = copies /\ crashes' = crashes + 1 /\ crashes \in Nat
      BY <1>10, BoundsAssumption DEF Crash, Inv, TypeOK, HistoryTypeOK
    <2>3. QED  BY <2>1, <2>2 DEF CopiesOK
  <1>11. QED
    BY <1>3, <1>4, <1>5, <1>6, <1>7, <1>8, <1>9, <1>10 DEF Arrive, Flush, Environment

LEMMA CopiesAlways == Spec => []CopiesOK
  <1>1. Inv /\ Inv' /\ OneDeliverer /\ CopiesOK /\ [Next]_vars => CopiesOK'
    BY CopiesDeliver, CopiesRest DEF Next, Inv
  <1>2. QED  BY <1>1, CopiesInit, InvAlways, AlwaysOneDeliverer, PTL DEF Spec

\* However deliveries, flushes, failures, kills and reconnects interleave, a message is written
\* to an open socket at most once in each run of the bridge.
THEOREM OneCopyEachRun == Spec => []OneCopyPerRun
  <1>1. TypeOK /\ CopiesOK => OneCopyPerRun
    <2> SUFFICES ASSUME TypeOK, CopiesOK, NEW m \in Msgs PROVE copies[m] <= 1 + crashes
      BY DEF OneCopyPerRun
    <2>1. copies[m] \in Nat /\ crashes \in Nat
      BY BoundsAssumption DEF TypeOK, HistoryTypeOK
    <2>2. QED  BY <2>1 DEF CopiesOK
  <1>2. QED  BY <1>1, TypeCorrect, CopiesAlways, PTL

-----------------------------------------------------------------------------
(* A lease keeps the flush away. *)

\* LeaseKeepsFlushAway is not inductive either: nothing the flush has planned is leased, nor
\* what its delivery is about.
LeasesOK ==
  /\ flush.pc = "off" => flush.todo = {}
  /\ \A m \in flush.todo : ~Leased(m)
  /\ \A i \in FlushJobs : ~Leased(lane[i].msg)

\* A message whose item is fresh, unchanged, or older with the same batch is no more leased.
LEMMA LeaseOnlyEnds ==
  ASSUME TypeOK, NEW m \in Msgs, ~Leased(m),
         \/ item'[m] = Fresh \/ item'[m] = item[m]
         \/ item'[m].batch = item[m].batch /\ item'[m].leaseAge >= item[m].leaseAge
            /\ item'[m].leaseAge \in Nat
  PROVE  ~Leased(m)'
  <1>1. item[m].batch \in Nat /\ item[m].leaseAge \in Nat /\ LeaseLen \in Nat
    BY AgesAssumption, BoundsAssumption DEF TypeOK, QueueTypeOK, Items
  <1>2. Fresh.batch = 0
    BY DEF Fresh
  <1>3. QED  BY <1>1, <1>2 DEF Leased

\* Only the second half of check_inbox leases anything.
LEMMA NoOtherLeases ==
  ASSUME TypeOK, [Next]_vars, ~InboxLease, NEW m \in Msgs, ~Leased(m)
  PROVE  ~Leased(m)'
  <1> USE DEF queueVars
  <1>1. item \in [Msgs -> Items] /\ item[m] \in Items
    BY DEF TypeOK, QueueTypeOK
  <1>2. ASSUME NEW S, Remove(S)
        PROVE  item'[m] = Fresh \/ item'[m] = item[m]
    BY <1>2 DEF Remove
  <1>3. ASSUME NEW x, Hold(x)
        PROVE  item'[m] = Fresh \/ item'[m] = item[m]
    BY <1>1, <1>3 DEF Hold
  <1>4. CASE Arrive
    BY <1>3, <1>4, LeaseOnlyEnds DEF Arrive, Accept, AcceptOffline
  <1>5. CASE Deliver
    <2>1. UNCHANGED item \/ Dequeue \/ Hold(lane[1].msg)
      BY <1>5 DEF Deliver, Probe, Vet, Fail, Withdraw, PutBack, Gate, LedgerHold, Return, Send, Expel
    <2>2. item'[m] = Fresh \/ item'[m] = item[m]
      BY <1>2, <1>3, <2>1 DEF Dequeue
    <2>3. QED  BY <2>2, LeaseOnlyEnds
  <1>6. CASE Flush \/ InboxAgain \/ InboxFail \/ UNCHANGED vars
    <2>1. item' = item
      BY <1>6 DEF Flush, FlushStart, FlushPlan, FlushNext, FlushStop, InboxAgain, InboxFail, vars
    <2>2. QED  BY <2>1, LeaseOnlyEnds
  <1>7. CASE InboxCall
    <2>1. UNCHANGED item \/ \E S : Remove(S)
      BY <1>7 DEF InboxCall, InboxTake, InboxRead
    <2>2. QED  BY <1>2, <2>1, LeaseOnlyEnds
  <1>8. CASE AgeHeld
    <2>1. item'[m] = CASE m \in Overdue -> Fresh
                       [] m \in Unnotified -> [item[m] EXCEPT !.notified = TRUE]
                       [] OTHER -> item[m]
      BY <1>8 DEF AgeHeld
    <2>2. Overdue \cap Unnotified = {}
      BY DEF Unnotified
    <2>3. LET x == [item[m] EXCEPT !.notified = TRUE]
          IN  x.batch = item[m].batch /\ x.leaseAge = item[m].leaseAge
      BY <1>1 DEF Items
    <2>4. item[m].leaseAge \in Nat
      BY <1>1, AgesAssumption DEF Items
    <2>5. CASE m \in Overdue
      BY <2>1, <2>2, <2>5, LeaseOnlyEnds
    <2>6. CASE m \in Unnotified
      <3>1. item'[m] = [item[m] EXCEPT !.notified = TRUE]
        BY <2>1, <2>2, <2>6
      <3>2. item'[m].batch = item[m].batch /\ item'[m].leaseAge = item[m].leaseAge
        BY <2>3, <3>1
      <3>3. QED  BY <2>4, <3>2, LeaseOnlyEnds
    <2>7. CASE m \notin Overdue \cup Unnotified
      BY <2>1, <2>7, LeaseOnlyEnds
    <2>8. QED  BY <2>5, <2>6, <2>7
  <1>9. CASE Kill \/ Succeed \/ Register \/ Disconnect \/ TurnChange \/ Crash
    <2>1. item' = item
      BY <1>9 DEF Kill, Succeed, Register, Disconnect, TurnChange, Crash
    <2>2. QED  BY <2>1, LeaseOnlyEnds
  <1>10. CASE Cleanup
    BY <1>2, <1>10, LeaseOnlyEnds DEF Cleanup
  <1>11. CASE Tick
    <2>1. item'[m] = IF m \notin held THEN item[m] ELSE
             [item[m] EXCEPT !.age = Older(@),
                             !.leaseAge = IF item[m].batch = 0 THEN 0 ELSE LeaseOlder(@)]
      BY <1>11 DEF Tick
    <2>2. item[m].leaseAge \in Nat /\ item[m].batch \in Nat /\ LeaseLen \in Nat
      BY <1>1, AgesAssumption, BoundsAssumption DEF Items
    <2>3. LeaseOlder(item[m].leaseAge) \in Nat /\ LeaseOlder(item[m].leaseAge) >= item[m].leaseAge
      BY <2>2 DEF LeaseOlder
    <2>4. CASE m \notin held
      BY <2>1, <2>4, LeaseOnlyEnds
    <2>5. CASE m \in held /\ item[m].batch # 0
      <3>1. /\ item'[m].batch = item[m].batch
            /\ item'[m].leaseAge = LeaseOlder(item[m].leaseAge)
        BY <1>1, <2>1, <2>5 DEF Items
      <3>2. QED  BY <2>3, <3>1, LeaseOnlyEnds
    <2>6. CASE m \in held /\ item[m].batch = 0
      <3>1. item'[m].batch = 0
        BY <1>1, <2>1, <2>6 DEF Items
      <3>2. QED  BY <3>1 DEF Leased
    <2>7. QED  BY <2>4, <2>5, <2>6
  <1>12. QED
    BY <1>4, <1>5, <1>6, <1>7, <1>8, <1>9, <1>10, <1>11 DEF Next, InboxFinish, Environment

\* Steps that plan nothing and start no delivery of the flush.
LEMMA LeasesKept ==
  ASSUME TypeOK, TypeOK', LeasesOK, \A m \in Msgs : ~Leased(m) => ~Leased(m)',
         flush'.todo \subseteq flush.todo, flush'.pc = "off" => flush'.todo = {},
         \A i \in FlushJobs' : \E k \in FlushJobs : lane'[i].msg = lane[k].msg
  PROVE  LeasesOK'
  <1>1. \A m \in flush'.todo : ~Leased(m)'
    BY DEF LeasesOK, TypeOK, CallTypeOK, FlushType
  <1>2. ASSUME NEW i \in FlushJobs'
        PROVE  ~Leased(lane[i].msg)'
    <2>1. PICK k \in FlushJobs : lane'[i].msg = lane[k].msg
      OBVIOUS
    <2>2. lane[k] \in Job
      BY ElementOfSeq, LenProperties DEF FlushJobs, TypeOK
    <2>3. PICK m \in Msgs : m = lane[k].msg
      BY <2>2, JobUpdates
    <2>4. ~Leased(m)'
      BY <2>3 DEF LeasesOK
    <2>5. QED  BY <2>1, <2>3, <2>4 DEF Leased
  <1>3. QED  BY <1>1, <1>2 DEF LeasesOK

LEMMA SameJobs ==
  ASSUME DOMAIN lane' = DOMAIN lane,
         \A i \in DOMAIN lane : lane'[i].via = lane[i].via /\ lane'[i].msg = lane[i].msg
  PROVE  \A i \in FlushJobs' : \E k \in FlushJobs : lane'[i].msg = lane[k].msg
  BY DEF FlushJobs

LEMMA LeasesDeliver ==
  ASSUME TypeOK, TypeOK', LeasesOK, Deliver, \A m \in Msgs : ~Leased(m) => ~Leased(m)'
  PROVE  LeasesOK'
  <1>1. lane # << >> /\ lane \in Seq(Job) /\ flush \in FlushType
    BY DeliverShape DEF TypeOK, CallTypeOK
  <1>2. ASSUME NEW j \in Job, lane' = [lane EXCEPT ![1] = j], j.msg = lane[1].msg,
               j.via = lane[1].via, UNCHANGED flush
        PROVE  LeasesOK'
    <2>1. /\ DOMAIN lane' = DOMAIN lane
          /\ \A i \in DOMAIN lane : lane'[i].via = lane[i].via /\ lane'[i].msg = lane[i].msg
      BY <1>1, <1>2, LaneStep
    <2>2. \A i \in FlushJobs' : \E k \in FlushJobs : lane'[i].msg = lane[k].msg
      BY <2>1, SameJobs
    <2>3. QED  BY <1>2, <2>2, LeasesKept DEF LeasesOK
  <1>3. ASSUME lane' = Tail(lane), NEW outcome \in {"sent", "queued", "refused"}, Answer(outcome)
        PROVE  LeasesOK'
    <2>1. \A i \in FlushJobs' : \E k \in FlushJobs : lane'[i].msg = lane[k].msg
      BY <1>1, <1>3, LaneTail DEF FlushJobs
    <2>2. flush'.todo \subseteq flush.todo /\ (flush'.pc = "off" => flush'.todo = {})
      <3>1. FlushOff.todo = {}
        BY DEF FlushOff
      <3>2. LET f == [flush EXCEPT !.pc = "next"] IN f.pc = "next" /\ f.todo = flush.todo
        BY <1>1 DEF FlushType
      <3>3. \A x : LET f == [flush EXCEPT !.pc = "next", !.first = x]
                   IN  f.pc = "next" /\ f.todo = flush.todo
        BY <1>1 DEF FlushType
      <3>4. CASE lane[1].via = "direct"
        BY <1>3, <3>4 DEF Answer, LeasesOK
      <3>5. CASE lane[1].via # "direct" /\ outcome = "queued"
        BY <1>3, <3>1, <3>5 DEF Answer
      <3>6. CASE lane[1].via # "direct" /\ outcome = "sent"
        BY <1>3, <3>3, <3>6 DEF Answer
      <3>7. CASE lane[1].via # "direct" /\ outcome = "refused"
        BY <1>3, <3>2, <3>7 DEF Answer
      <3>8. QED  BY <3>4, <3>5, <3>6, <3>7
    <2>3. QED  BY <2>1, <2>2, LeasesKept
  <1>4. QED  BY <1>2, <1>3, DeliverShape

LEMMA LeasesFlush ==
  ASSUME TypeOK, TypeOK', OneDeliverer, LeasesOK, Flush
  PROVE  LeasesOK'
  <1> USE DEF queueVars
  <1>1. flush \in FlushType /\ lane \in Seq(Job) /\ \A m : Leased(m)' <=> Leased(m)
    BY DEF TypeOK, CallTypeOK, Flush, FlushStart, FlushPlan, FlushNext, FlushStop, Leased
  <1>2. CASE FlushStart \/ FlushStop
    <2>1. flush'.todo = {} /\ lane' = lane
      BY <1>2 DEF FlushStart, FlushStop, FlushOff
    <2>2. QED  BY <1>1, <2>1 DEF LeasesOK, FlushJobs
  <1>3. CASE FlushPlan
    <2>1. PICK seen : LET due == {m \in held : Due(m, seen \in {"busy", "compacting"})}
                      IN  flush' = [flush EXCEPT !.pc = "next", !.todo = due,
                                                 !.late = {m \in due : OwnerLate(m)}]
      BY <1>3 DEF FlushPlan
    <2> DEFINE due == {m \in held : Due(m, seen \in {"busy", "compacting"})}
    <2>2. \A m \in due : ~Leased(m)
      BY DEF Due
    <2>3. \A d, l : LET f == [flush EXCEPT !.pc = "next", !.todo = d, !.late = l]
                    IN  f.pc = "next" /\ f.todo = d
      BY <1>1 DEF FlushType
    <2>4. flush'.pc = "next" /\ flush'.todo = due
      <3> HIDE DEF due
      <3>1. flush' = [flush EXCEPT !.pc = "next", !.todo = due, !.late = {m \in due : OwnerLate(m)}]
        BY <2>1 DEF due
      <3>2. QED  BY <2>3, <3>1
    <2>5. lane' = lane
      BY <1>3 DEF FlushPlan
    <2>6. QED  BY <1>1, <2>2, <2>4, <2>5 DEF LeasesOK, FlushJobs
  <1>4. CASE FlushNext
    <2>1. PICK m \in held : /\ FlushHead(m)
                            /\ lane' = Append(lane, NewJob(m, "flush", m \in flush.late))
                            /\ flush' = [flush EXCEPT !.pc = "waiting", !.todo = @ \ {m}]
      BY <1>4 DEF FlushNext
    <2>2. flush'.pc = "waiting" /\ flush'.todo = flush.todo \ {m}
      BY <1>1, <2>1 DEF FlushType
    <2>3. ~Leased(m)
      BY <2>1 DEF FlushHead, LeasesOK
    <2>4. PICK j \in Job : lane' = Append(lane, j) /\ j.msg = m /\ j.via = "flush"
      <3>1. m \in Msgs /\ (m \in flush.late) \in BOOLEAN
        BY DEF TypeOK, QueueTypeOK
      <3>2. /\ NewJob(m, "flush", m \in flush.late) \in Job
            /\ NewJob(m, "flush", m \in flush.late).msg = m
            /\ NewJob(m, "flush", m \in flush.late).via = "flush"
        BY <3>1, NewJobType DEF NewJob
      <3>3. QED  BY <2>1, <3>2
    <2>5. FlushJobs = {}
      BY <1>4 DEF FlushNext, OneDeliverer
    <2>6. \A i \in FlushJobs' : lane'[i].msg = m
      <3>1. /\ DOMAIN lane' = DOMAIN lane \cup {Len(lane) + 1}
            /\ \A i \in DOMAIN lane : lane'[i] = lane[i]
            /\ lane'[Len(lane) + 1] = j
        BY <1>1, <2>4, LaneAppend
      <3>2. QED  BY <2>4, <2>5, <3>1 DEF FlushJobs
    <2>7. QED  BY <1>1, <2>2, <2>3, <2>6 DEF LeasesOK
  <1>5. QED  BY <1>2, <1>3, <1>4 DEF Flush

LEMMA LeasesRest ==
  ASSUME TypeOK, TypeOK', OneDeliverer, LeasesOK, \A m \in Msgs : ~Leased(m) => ~Leased(m)',
         Arrive \/ InboxCall \/ InboxAgain \/ InboxFail \/ AgeHeld \/ Environment \/ UNCHANGED vars
  PROVE  LeasesOK'
  <1> USE DEF callVars
  <1>1. lane \in Seq(Job)
    BY DEF TypeOK
  <1>2. CASE Arrive
    <2>1. PICK m \in Msgs : Accept(m) \/ AcceptOffline(m)
      BY <1>2 DEF Arrive
    <2>2. flush' = flush
      BY <2>1 DEF Accept, AcceptOffline
    <2>3. \A i \in FlushJobs' : \E k \in FlushJobs : lane'[i].msg = lane[k].msg
      <3>1. CASE lane' = Append(lane, NewJob(m, "direct", FALSE))
        <4>1. PICK j \in Job : lane' = Append(lane, j) /\ j.via = "direct"
          BY <3>1, NewJobType DEF NewJob
        <4>2. QED  BY <1>1, <4>1, LaneAppend DEF FlushJobs
      <3>2. CASE lane' = lane
        BY <3>2 DEF FlushJobs
      <3>3. QED  BY <2>1, <3>1, <3>2 DEF Accept, AcceptOffline
    <2>4. QED  BY <2>2, <2>3, LeasesKept DEF LeasesOK
  <1>3. CASE UNCHANGED <<lane, flush>>
    <2>1. \A i \in FlushJobs' : \E k \in FlushJobs : lane'[i].msg = lane[k].msg
      BY <1>3, SameJobs
    <2>2. QED  BY <1>3, <2>1, LeasesKept DEF LeasesOK
  <1>4. CASE InboxCall \/ InboxAgain \/ InboxFail \/ AgeHeld \/ UNCHANGED vars
    BY <1>3, <1>4 DEF InboxCall, InboxTake, InboxRead, InboxAgain, InboxFail, AgeHeld, vars
  <1>5. CASE Cleanup \/ Succeed \/ TurnChange \/ Tick
    BY <1>3, <1>5 DEF Cleanup, Succeed, TurnChange, Tick
  <1>6. CASE Kill \/ Register \/ Disconnect
    <2>1. CloseSocket /\ flush' = flush
      BY <1>6 DEF Kill, Register, Disconnect
    <2>2. \A i \in FlushJobs' : \E k \in FlushJobs : lane'[i].msg = lane[k].msg
      BY <1>1, <2>1, CloseSocketKeepsJobs, SameJobs
    <2>3. QED  BY <2>1, <2>2, LeasesKept DEF LeasesOK
  <1>7. CASE Crash
    <2>1. FlushJobs' = {}
      BY <1>7, EmptySeq, LenProperties DEF Crash, FlushJobs
    <2>2. flush'.todo = {}
      BY <1>7 DEF Crash, FlushOff
    <2>3. QED  BY <2>1, <2>2 DEF LeasesOK
  <1>8. QED  BY <1>2, <1>4, <1>5, <1>6, <1>7 DEF Environment

LEMMA LeasesStep ==
  ASSUME TypeOK, TypeOK', OneDeliverer, LeasesOK, [Next]_vars
  PROVE  LeasesOK'
  <1>1. CASE InboxLease
    <2>1. inbox.pc # "off" /\ UNCHANGED <<lane, flush>>
      BY <1>1 DEF InboxLease
    <2>2. flush.todo = {} /\ FlushJobs = {}
      BY <2>1 DEF OneDeliverer, LeasesOK
    <2>3. flush'.todo = {} /\ FlushJobs' = {}
      BY <2>1, <2>2 DEF FlushJobs
    <2>4. QED  BY <2>3 DEF LeasesOK
  <1>2. CASE ~InboxLease
    <2>1. \A m \in Msgs : ~Leased(m) => ~Leased(m)'
      BY <1>2, NoOtherLeases
    <2>2. QED
      BY <1>2, <2>1, LeasesDeliver, LeasesFlush, LeasesRest DEF Next, InboxFinish
  <1>3. QED  BY <1>1, <1>2

LEMMA LeasesAlways == Spec => []LeasesOK
  <1>1. Init => LeasesOK
    <2> SUFFICES ASSUME Init PROVE LeasesOK  OBVIOUS
    <2>1. FlushJobs = {}
      BY EmptySeq, LenProperties DEF Init, FlushJobs
    <2>2. QED  BY <2>1 DEF Init, LeasesOK, FlushOff
  <1>2. TypeOK /\ TypeOK' /\ OneDeliverer /\ LeasesOK /\ [Next]_vars => LeasesOK'
    BY LeasesStep
  <1>3. QED  BY <1>1, <1>2, TypeCorrect, AlwaysOneDeliverer, PTL DEF Spec

-----------------------------------------------------------------------------
(* What is written, and to whom. *)

\* Only a Send writes, and only the message of the delivery being served.
LEMMA OnlySendWrites ==
  ASSUME TypeOK, [Next]_vars, NEW m \in Msgs, copies'[m] # copies[m] \/ m \in lost' \ lost
  PROVE  Send /\ m = lane[1].msg
  <1> USE DEF wireVars
  <1>1. Send
    <2>1. CASE Arrive \/ Flush \/ InboxCall \/ InboxFinish
      BY <2>1 DEF Arrive, Accept, AcceptOffline, Flush, FlushStart, FlushPlan, FlushNext, FlushStop,
                  InboxCall, InboxTake, InboxRead, InboxFinish, InboxAgain, InboxLease, InboxFail
    <2>2. CASE AgeHeld \/ Environment \/ UNCHANGED vars
      BY <2>2 DEF AgeHeld, Environment, Kill, Cleanup, Succeed, Register, Disconnect, TurnChange,
                  Crash, Tick, vars
    <2>3. CASE Deliver /\ ~Send
      BY <2>3 DEF Deliver, Probe, Fail, Withdraw, Vet, Expel, PutBack, Gate, LedgerHold, Return
    <2>4. QED  BY <2>1, <2>2, <2>3 DEF Next
  <1>2. copies \in [Msgs -> Nat]
    BY DEF TypeOK, HistoryTypeOK
  <1>3. QED  BY <1>1, <1>2 DEF Send, Write

\* While check_inbox has a message leased, no flush writes it to the agent's socket: not even
\* one that planned its work, or queued its delivery, before the call.
THEOREM LeasedIsNotFlushed == Spec => LeaseKeepsFlushAway
  <1>1. ASSUME Inv, LeasesOK, [Next]_vars, NEW m \in held, Leased(m)
        PROVE  copies'[m] = copies[m] /\ (m \in lost' => m \in lost)
    <2> SUFFICES ASSUME copies'[m] # copies[m] \/ m \in lost' \ lost PROVE FALSE  OBVIOUS
    <2>1. m \in Msgs /\ TypeOK
      BY <1>1 DEF Inv, TypeOK, QueueTypeOK
    <2>2. Send /\ m = lane[1].msg
      BY <1>1, <2>1, OnlySendWrites
    <2>3. lane # << >>
      BY <2>2 DEF Send, Ready, AtGate
    <2>4. 1 \in FlushJobs
      BY <1>1, <2>2, <2>3, HeadFacts DEF FlushJobs
    <2>5. QED  BY <1>1, <2>2, <2>4 DEF LeasesOK
  <1>2. Inv /\ LeasesOK /\ [Next]_vars =>
          [\A m \in held : Leased(m) => copies'[m] = copies[m] /\ (m \in lost' => m \in lost)]_vars
    <2> SUFFICES ASSUME Inv, LeasesOK, [Next]_vars
                 PROVE  \A m \in held : Leased(m) => copies'[m] = copies[m] /\ (m \in lost' => m \in lost)
      OBVIOUS
    <2>1. QED  BY <1>1
  <1>3. QED  BY <1>2, InvAlways, LeasesAlways, PTL DEF Spec, LeaseKeepsFlushAway

\* The ledger gate waits after the session was checked: while the delivery still has the registered
\* socket, the channel has not changed hands.
GateOK ==
  \A i \in DOMAIN lane :
    lane[i].phase = "gated" /\ lane[i].msg \in Pinned /\ lane[i].ws = "current" =>
      home[lane[i].msg] = session

\* A channel whose agent is gone has no socket, and no delivery has one.
AwayOK == life # "alive" => ~conn /\ \A i \in DOMAIN lane : lane[i].ws = "closed"

\* A delivery that advances.
LEMMA HomeHead ==
  ASSUME Inv, GateOK, AwayOK, lane # << >>, UNCHANGED <<life, session, conn, home>>, NEW j \in Job,
         lane' = [lane EXCEPT ![1] = j], j.ws = lane[1].ws,
         j.phase = "gated" /\ j.msg \in Pinned => home[j.msg] = session
  PROVE  GateOK' /\ AwayOK'
  <1>1. lane \in Seq(Job) /\ 1 \in DOMAIN lane
    BY LaneHead DEF Inv, TypeOK
  <1>2. /\ DOMAIN lane' = DOMAIN lane
        /\ \A i \in DOMAIN lane : lane'[i] = IF i = 1 THEN j ELSE lane[i]
    BY <1>1, LaneStep
  <1>3. GateOK'
    BY <1>2 DEF GateOK
  <1>4. AwayOK'
    BY <1>1, <1>2 DEF AwayOK
  <1>5. QED  BY <1>3, <1>4

\* A new delivery has the registered socket, so the agent is there.
LEMMA HomeAppend ==
  ASSUME Inv, GateOK, AwayOK, conn, UNCHANGED <<life, session, conn>>, NEW j \in Job,
         lane' = Append(lane, j), j.phase = "queued",
         \A i \in DOMAIN lane : home'[lane[i].msg] = home[lane[i].msg]
  PROVE  GateOK' /\ AwayOK'
  <1>1. lane \in Seq(Job)
    BY DEF Inv, TypeOK
  <1>2. /\ DOMAIN lane' = DOMAIN lane \cup {Len(lane) + 1}
        /\ \A i \in DOMAIN lane : lane'[i] = lane[i]
        /\ lane'[Len(lane) + 1] = j
    BY <1>1, LaneAppend
  <1>3. GateOK'
    BY <1>2 DEF GateOK
  <1>4. AwayOK'
    BY DEF AwayOK
  <1>5. QED  BY <1>3, <1>4

LEMMA HomeDeliver ==
  ASSUME Inv, GateOK, AwayOK, Deliver
  PROVE  GateOK' /\ AwayOK'
  <1>1. lane \in Seq(Job) /\ lane # << >> /\ TypeOK
    BY DeliverShape DEF Inv, TypeOK
  <1>2. PICK job \in Job : job = lane[1] /\ 1 \in DOMAIN lane
    BY <1>1, LaneHead
  <1>3. UNCHANGED <<life, session, conn, home>>
    BY DEF Deliver, Probe, Fail, Withdraw, Vet, Expel, PutBack, Gate, LedgerHold, Send, Return,
           agentVars
  <1>4. CASE lane' = Tail(lane)
    <2>1. \A i \in DOMAIN lane' : i + 1 \in DOMAIN lane /\ lane'[i] = lane[i + 1]
      BY <1>1, <1>4, LaneTail
    <2>2. QED  BY <1>3, <2>1 DEF GateOK, AwayOK
  <1>5. CASE Vet
    <2>1. PICK j \in Job : j = [job EXCEPT !.phase = "vetted"] /\ j.phase = "vetted" /\ j.ws = job.ws
      BY JobUpdates, JobKeeps
    <2>2. QED  BY <1>1, <1>2, <1>3, <1>5, <2>1, HomeHead DEF Vet
  <1>6. CASE Gate
    <2>1. PICK j \in Job : j = [job EXCEPT !.phase = "gated"] /\ j.msg = job.msg /\ j.ws = job.ws
      BY JobUpdates, JobKeeps
    <2>2. j.msg \in Pinned => home[j.msg] = session
      BY <1>2, <1>6, <2>1 DEF Gate, Ready, SessionGone
    <2>3. QED  BY <1>1, <1>2, <1>3, <1>6, <2>1, <2>2, HomeHead DEF Gate
  <1>7. CASE Probe
    <2>1. PICK seen : lane' = [lane EXCEPT ![1] = [@ EXCEPT !.phase = "probed",
                        !.hold = HoldsUntilIdle(lane[1].msg, lane[1].late, seen)]]
      BY <1>7 DEF Probe
    <2> DEFINE b == HoldsUntilIdle(lane[1].msg, lane[1].late, seen)
    <2>2. b \in BOOLEAN
      BY DEF HoldsUntilIdle
    <2>3. lane' = [lane EXCEPT ![1] = [job EXCEPT !.phase = "probed", !.hold = b]]
      BY <1>2, <2>1
    <2> HIDE DEF b
    <2>4. [job EXCEPT !.phase = "probed", !.hold = b] \in Job
      BY <2>2, JobUpdates
    <2>5. PICK j \in Job : /\ j = [job EXCEPT !.phase = "probed", !.hold = b]
                           /\ j.phase = "probed" /\ j.ws = job.ws
      BY <2>2, <2>4, JobKeeps
    <2>6. QED  BY <1>1, <1>2, <1>3, <2>3, <2>5, HomeHead
  <1>8. CASE Send /\ Kind[lane[1].msg] = "agent"
    <2>1. lane' = [lane EXCEPT ![1] = [job EXCEPT !.phase = "written"]]
      BY <1>2, <1>8 DEF Send
    <2>2. PICK j \in Job : j = [job EXCEPT !.phase = "written"] /\ j.phase = "written" /\ j.ws = job.ws
      BY JobUpdates, JobKeeps
    <2>3. QED  BY <1>1, <1>2, <1>3, <2>1, <2>2, HomeHead
  <1>9. QED
    BY <1>4, <1>5, <1>6, <1>7, <1>8
    DEF Deliver, Fail, Withdraw, Expel, PutBack, LedgerHold, Send, Return

LEMMA HomeStep ==
  ASSUME Inv, GateOK, AwayOK, [Next]_vars
  PROVE  GateOK' /\ AwayOK'
  <1>1. lane \in Seq(Job) /\ home \in [Msgs -> 0 .. MaxLives]
    BY DEF Inv, TypeOK, HistoryTypeOK
  <1>2. ASSUME NEW x \in Msgs, told[x] = "new", home' = [home EXCEPT ![x] = session]
        PROVE  \A i \in DOMAIN lane : home'[lane[i].msg] = home[lane[i].msg]
    <2>1. \A i \in DOMAIN lane : lane[i].msg # x
      BY <1>2 DEF Inv, LaneOK, JobOK
    <2>2. QED  BY <1>1, <1>2, <2>1
  <1>3. ASSUME NEW x \in Msgs, Accept(x)
        PROVE  GateOK' /\ AwayOK'
    <2>1. PICK j \in Job : lane' = Append(lane, j) /\ j.phase = "queued"
      BY <1>3, NewJobType DEF Accept, NewJob
    <2>2. QED  BY <1>2, <1>3, <2>1, HomeAppend DEF Accept, agentVars
  <1>4. ASSUME NEW x \in Msgs, AcceptOffline(x)
        PROVE  GateOK' /\ AwayOK'
    BY <1>2, <1>4 DEF AcceptOffline, agentVars, GateOK, AwayOK
  <1>5. CASE FlushNext
    <2>1. PICK x \in held : lane' = Append(lane, NewJob(x, "flush", x \in flush.late)) /\ conn
      BY <1>5 DEF FlushNext
    <2>2. x \in Msgs /\ (x \in flush.late) \in BOOLEAN
      BY DEF Inv, TypeOK, QueueTypeOK
    <2>3. PICK j \in Job : lane' = Append(lane, j) /\ j.phase = "queued"
      BY <2>1, <2>2, NewJobType DEF NewJob
    <2>4. QED  BY <1>5, <2>1, <2>3, HomeAppend DEF FlushNext, agentVars
  <1>6. CASE Kill \/ Register \/ Disconnect
    <2>1. /\ DOMAIN lane' = DOMAIN lane
          /\ \A i \in DOMAIN lane : lane'[i] = [lane[i] EXCEPT !.ws = "closed"]
      BY <1>1, <1>6, LaneClose DEF Kill, Register, Disconnect, CloseSocket
    <2>2. \A i \in DOMAIN lane' : lane'[i].ws = "closed"
      <3>1. ASSUME NEW i \in DOMAIN lane  PROVE lane'[i].ws = "closed"
        <4>1. lane[i] \in Job
          BY <1>1, ElementOfSeq, LenProperties
        <4>2. QED  BY <2>1, <4>1 DEF Job
      <3>2. QED  BY <2>1, <3>1
    <2>3. life' = "alive" \/ ~conn'
      BY <1>6 DEF Kill, Register, Disconnect
    <2>4. QED  BY <2>2, <2>3 DEF GateOK, AwayOK
  <1>7. CASE Succeed
    BY <1>7 DEF Succeed, GateOK, AwayOK
  <1>8. CASE Cleanup
    BY <1>8 DEF Cleanup, GateOK, AwayOK
  <1>9. CASE Crash
    <2>1. DOMAIN lane' = {} /\ ~conn'
      BY <1>9, EmptySeq, LenProperties DEF Crash
    <2>2. QED  BY <2>1 DEF GateOK, AwayOK
  <1>10. CASE UNCHANGED <<life, session, conn, lane, home>>
    BY <1>10 DEF GateOK, AwayOK
  <1>11. QED
    BY <1>3, <1>4, <1>5, <1>6, <1>7, <1>8, <1>9, <1>10, HomeDeliver
    DEF Next, Arrive, Flush, FlushStart, FlushPlan, FlushStop, InboxCall, InboxTake, InboxRead,
        InboxFinish, InboxAgain, InboxLease, InboxFail, AgeHeld, Environment, TurnChange, Tick, vars,
        agentVars

LEMMA HomeAlways == Spec => [](GateOK /\ AwayOK)
  <1>1. Init => GateOK /\ AwayOK
    BY EmptySeq, LenProperties DEF Init, GateOK, AwayOK
  <1>2. Inv /\ GateOK /\ AwayOK /\ [Next]_vars => (GateOK /\ AwayOK)'
    BY HomeStep
  <1>3. QED  BY <1>1, <1>2, InvAlways, PTL DEF Spec

\* A message addressed to a session is written only while that session owns the channel, though the
\* registry is read a step or two before the send and the channel may change hands in between: then
\* the delivery's socket is closed.
THEOREM PinnedNeverStrays == Spec => PinnedStaysHome
  <1>1. ASSUME TypeOK, GateOK, [Next]_vars, NEW m \in Pinned, copies'[m] > copies[m]
        PROVE  home[m] = session
    <2>1. m \in Msgs /\ copies[m] \in Nat /\ lane \in Seq(Job)
      BY <1>1, MsgsAssumption DEF TypeOK, HistoryTypeOK
    <2>2. Send /\ m = lane[1].msg
      BY <1>1, <2>1, OnlySendWrites
    <2>3. CASE AtGate
      <3>1. 1 \in DOMAIN lane /\ lane[1].ws = "current"
        BY <1>1, <2>1, <2>2, <2>3, LaneHead DEF Send, Write, AtGate
      <3>2. QED  BY <1>1, <2>2, <2>3, <3>1 DEF AtGate, GateOK
    <2>4. CASE Ready
      BY <1>1, <2>2, <2>4 DEF Ready, SessionGone
    <2>5. QED  BY <2>2, <2>3, <2>4 DEF Send
  <1>2. TypeOK /\ GateOK /\ [Next]_vars =>
          [\A m \in Pinned : copies'[m] > copies[m] => home[m] = session]_vars
    <2> SUFFICES ASSUME TypeOK, GateOK, [Next]_vars
                 PROVE  \A m \in Pinned : copies'[m] > copies[m] => home[m] = session
      OBVIOUS
    <2>1. QED  BY <1>1
  <1>3. QED  BY <1>2, TypeCorrect, HomeAlways, PTL DEF Spec, PinnedStaysHome

-----------------------------------------------------------------------------
(* Over is over. *)

\* Messages whose end the bridge booked while they were queued.
Ended == acked \cup gaveUp \cup killed

\* What ended was held: its sender was told "queued" and is told nothing else, so nothing but a flush
\* could deliver it, and that looks for it in the queue.
OverOK == \A m \in Ended : told[m] = "queued"

\* The flush's delivery of a message that left the queue goes no further, unless it looked for the
\* message before it waited for the registry.
LEMMA WithdrawnStaysOut ==
  ASSUME Inv, NEW m \in Msgs \ held, told[m] = "queued", m = lane[1].msg,
         Send \/ PutBack \/ LedgerHold
  PROVE  m \in PastLook
  <1>1. lane # << >> /\ (Ready \/ lane[1].phase = "gated")
    BY DEF Send, PutBack, LedgerHold, AtGate, Ready
  <1>2. lane[1].via = "flush" /\ 1 \in DOMAIN lane
    BY <1>1, HeadFacts
  <1>3. lane[1].phase \in {"vetted", "gated"}
    BY <1>1, <1>2 DEF Ready, StillWanted
  <1>4. QED  BY <1>2, <1>3 DEF PastLook

\* Who was told "queued" is told nothing else, and comes back to the queue only when its delivery puts it back.
LEMMA QueuedStays ==
  ASSUME Inv, [Next]_vars, NEW m \in Msgs, told[m] = "queued"
  PROVE  /\ told'[m] = "queued"
         /\ m \in held' \ held => (PutBack \/ LedgerHold) /\ m = lane[1].msg
  <1> USE DEF queueVars, callVars
  <1>1. told \in [Msgs -> Outcomes] /\ TypeOK
    BY DEF Inv, TypeOK, HistoryTypeOK
  <1>2. CASE Arrive
    <2>1. PICK x \in Msgs : Accept(x) \/ AcceptOffline(x)
      BY <1>2 DEF Arrive
    <2>2. x # m
      BY <2>1 DEF Accept, AcceptOffline
    <2>3. QED  BY <1>1, <2>1, <2>2 DEF Accept, AcceptOffline, Hold
  <1>3. CASE Deliver
    <2>1. lane # << >>
      BY <1>1, <1>3, DeliverShape
    <2>2. lane[1].via = "direct" => lane[1].msg # m
      BY <2>1, HeadFacts
    <2>3. told'[m] = told[m]
      <3>1. ASSUME NEW outcome, Answer(outcome)
            PROVE  told'[m] = told[m]
        BY <1>1, <2>2, <3>1 DEF Answer
      <3>2. QED  BY <1>1, <1>3, <3>1, DeliverShape
    <2>4. ASSUME m \in held' \ held
          PROVE  (PutBack \/ LedgerHold) /\ m = lane[1].msg
      <3>1. PutBack \/ LedgerHold
        BY <1>3, <2>4 DEF Deliver, Probe, Fail, Withdraw, Vet, Gate, Expel, Send, Return, Dequeue, Remove
      <3>2. QED  BY <2>4, <3>1 DEF PutBack, LedgerHold, Hold
    <2>5. QED  BY <2>3, <2>4
  <1>4. CASE Flush \/ InboxCall \/ InboxFinish \/ AgeHeld
    BY <1>4 DEF Flush, FlushStart, FlushPlan, FlushNext, FlushStop, InboxCall, InboxTake, InboxRead,
                Remove, InboxFinish, InboxAgain, InboxLease, InboxFail, AgeHeld
  <1>5. CASE Environment
    <2>1. told' = told \/ told' = [x \in Msgs |-> IF told[x] = "pending" THEN "refused" ELSE told[x]]
      BY <1>5 DEF Environment, Kill, Cleanup, Succeed, Register, Disconnect, TurnChange, Crash, Tick
    <2>2. held' \subseteq held
      BY <1>5 DEF Environment, Kill, Cleanup, Succeed, Register, Disconnect, TurnChange, Crash, Tick,
                  Remove
    <2>3. QED  BY <2>1, <2>2
  <1>6. CASE UNCHANGED vars
    BY <1>6 DEF vars
  <1>7. QED  BY <1>2, <1>3, <1>4, <1>5, <1>6 DEF Next

\* A message ends by leaving the queue: confirmed, given up, or discarded.
LEMMA EndsLeave ==
  ASSUME Inv, [Next]_vars
  PROVE  \A m \in Ended' \ Ended : m \in held \ held'
  <1> USE DEF Ended, endVars
  <1>1. CASE AgeHeld
    BY <1>1 DEF AgeHeld, Overdue
  <1>2. ASSUME NEW ack, InboxTake(ack)
        PROVE  \A m \in Ended' \ Ended : m \in held \ held'
    BY <1>2 DEF InboxTake, InBatch, Remove
  <1>3. CASE Cleanup
    BY <1>3 DEF Cleanup, Remove
  <1>4. Ended' = Ended \/ AgeHeld \/ Cleanup \/ \E ack \in 0 .. MaxBatches : InboxTake(ack)
    BY DEF Next, Arrive, Accept, AcceptOffline, Deliver, Probe, Fail, Withdraw, Vet, Expel, PutBack,
           Gate, LedgerHold, Send, Return, Flush, FlushStart, FlushPlan, FlushNext, FlushStop, InboxCall,
           InboxRead, InboxFinish, InboxAgain, InboxLease, InboxFail, Environment, Kill,
           Succeed, Register, Disconnect, TurnChange, Crash, Tick, vars
  <1>5. QED  BY <1>1, <1>2, <1>3, <1>4

LEMMA OverStep ==
  ASSUME Inv, OverOK, [Next]_vars
  PROVE  OverOK'
  <1>1. Ended \subseteq Msgs /\ held \subseteq Msgs /\ \A m \in held : told[m] = "queued"
    BY DEF Ended, Inv, TypeOK, HistoryTypeOK, QueueTypeOK, HeldOK
  <1>2. ASSUME NEW m \in Ended
        PROVE  told'[m] = "queued"
    BY <1>1, <1>2, QueuedStays DEF OverOK
  <1>3. ASSUME NEW m \in Ended' \ Ended
        PROVE  told'[m] = "queued"
    BY <1>1, <1>3, EndsLeave, QueuedStays
  <1>4. QED  BY <1>2, <1>3 DEF OverOK

LEMMA OverAlways == Spec => []OverOK
  <1>1. Init => OverOK
    BY DEF Init, OverOK, Ended
  <1>2. Inv /\ OverOK /\ [Next]_vars => OverOK'
    BY OverStep
  <1>3. QED  BY <1>1, <1>2, InvAlways, PTL DEF Spec

\* A message that the agent confirmed, that was given up after 24 hours or that kill discarded stays
\* out of the queue and never reaches the agent later, though its delivery may stand in the lane when
\* the sweep or the cleanup takes it out of the queue: unless that delivery has had its last look at
\* the queue and waits for the registry.
THEOREM EndsAreFinal == Spec => EndIsFinal
  <1>1. ASSUME Inv, OverOK, [Next]_vars, NEW m \in Ended \ (held \cup PastLook)
        PROVE  m \notin held' /\ copies'[m] = copies[m]
    <2>1. m \in Msgs \ held /\ TypeOK /\ told[m] = "queued"
      BY <1>1 DEF Ended, Inv, TypeOK, HistoryTypeOK, OverOK
    <2>2. ~(m = lane[1].msg /\ (Send \/ PutBack \/ LedgerHold))
      BY <1>1, <2>1, WithdrawnStaysOut
    <2>3. copies'[m] = copies[m]
      BY <1>1, <2>1, <2>2, OnlySendWrites
    <2>4. m \notin held'
      BY <1>1, <2>1, <2>2, QueuedStays
    <2>5. QED  BY <2>3, <2>4
  <1>2. Inv /\ OverOK /\ [Next]_vars =>
          [\A m \in (acked \cup gaveUp \cup killed) \ (held \cup PastLook) :
             m \notin held' /\ copies'[m] = copies[m]]_vars
    BY <1>1 DEF Ended
  <1>3. QED  BY <1>2, InvAlways, OverAlways, PTL DEF Spec, EndIsFinal

-----------------------------------------------------------------------------
(* The bridge's delivery implements MessageDelivery. *)

LEMMA PromiseInit == Init => Promise!Init
  <1> SUFFICES ASSUME Init PROVE Promise!Init  OBVIOUS
  <1>1. InLane = {}
    BY EmptySeq, LenProperties DEF Init, InLane
  <1>2. QED  BY <1>1 DEF Init, Promise!Init, Owed, Promised, Offered, Closed

\* What a step of the bridge has to do to be a step of the promise.
LEMMA PromiseByEffects ==
  ASSUME Inv, Inv',
         \A m \in Msgs : told[m] \in {"sent", "queued"} => told'[m] \in {"sent", "queued"},
         \A m \in Msgs : told[m] # told'[m] /\ told'[m] \in {"sent", "queued"} => m \in InLane \cup held',
         \A m \in Msgs : copies[m] <= copies'[m],
         \A m \in Msgs : copies'[m] # copies[m] => m \in InLane,
         lost \subseteq lost', acked \subseteq acked', gaveUp \subseteq gaveUp',
         killed \subseteq killed', expelled \subseteq expelled',
         (lost' \ lost) \cup (acked' \ acked) \cup (gaveUp' \ gaveUp) \cup (killed' \ killed)
           \cup (expelled' \ expelled) \subseteq InLane \cup held,
         \A m \in held' \cup InLane' : m \in held \cup InLane \/ told[m] = "new"
  PROVE  Promise!Step
  <1>1. /\ copies \in [Msgs -> Nat] /\ copies' \in [Msgs -> Nat] /\ held' \subseteq Msgs
        /\ InLane' \subseteq Msgs
    <2>1. copies \in [Msgs -> Nat] /\ copies' \in [Msgs -> Nat] /\ held' \subseteq Msgs
      BY DEF Inv, TypeOK, HistoryTypeOK, QueueTypeOK
    <2>2. lane' \in Seq(Job)
      BY DEF Inv, TypeOK
    <2>3. \A i \in DOMAIN lane' : lane'[i] \in Job
      BY <2>2, ElementOfSeq, LenProperties
    <2>4. QED  BY <2>1, <2>3, JobUpdates DEF InLane
  <1>2. Promise!Keeps
    BY <1>1 DEF Promise!Keeps, Promised, Offered, Closed
  <1>3. Promise!TakesOnNew
    BY <1>1 DEF Promise!TakesOnNew, Owed, Promised, Offered, Closed, Inv, NewOK
  <1>4. Promise!OnlyOwed
    BY <1>1 DEF Promise!OnlyOwed, Owed, Promised, Offered, Closed
  <1>5. Promise!LetsGoOfSettled
    BY DEF Promise!LetsGoOfSettled, Owed, Promised, Offered, Closed, Inv, NothingVanishes, Accounted
  <1>6. QED  BY <1>2, <1>3, <1>4, <1>5 DEF Promise!Step

LEMMA PromiseDeliver ==
  ASSUME Inv, Inv', Deliver
  PROVE  Promise!Step
  <1>1. /\ lane # << >> /\ lane \in Seq(Job) /\ TypeOK /\ told \in [Msgs -> Outcomes]
        /\ copies \in [Msgs -> Nat] /\ copies' \in [Msgs -> Nat]
    BY DeliverShape DEF Inv, TypeOK, HistoryTypeOK
  <1>2. PICK h \in Msgs : /\ h = lane[1].msg /\ 1 \in DOMAIN lane
                          /\ told[h] = IF lane[1].via = "direct" THEN "pending" ELSE "queued"
    BY <1>1, HeadFacts
  <1>3. h \in InLane
    BY <1>2 DEF InLane
  <1>4. /\ InLane' \subseteq InLane
        /\ \A m \in Msgs \ {h} : told'[m] = told[m]
        /\ told[h] \in {"sent", "queued"} => told'[h] = told[h]
    <2>1. ASSUME NEW j \in Job, lane' = [lane EXCEPT ![1] = j], j.msg = lane[1].msg, UNCHANGED told
          PROVE  InLane' \subseteq InLane
      <3>1. /\ DOMAIN lane' = DOMAIN lane
            /\ \A i \in DOMAIN lane : lane'[i].msg = lane[i].msg
        BY <1>1, <2>1, LaneStep
      <3>2. QED  BY <3>1 DEF InLane
    <2>2. ASSUME lane' = Tail(lane)
          PROVE  InLane' \subseteq InLane
      BY <1>1, <2>2, LaneTail DEF InLane
    <2>3. ASSUME NEW outcome \in {"sent", "queued", "refused"}, Answer(outcome)
          PROVE  /\ \A m \in Msgs \ {h} : told'[m] = told[m]
                 /\ told[h] \in {"sent", "queued"} => told'[h] = told[h]
      BY <1>1, <1>2, <2>3 DEF Answer
    <2>4. QED  BY <1>1, <2>1, <2>2, <2>3, DeliverShape
  <1>5. /\ \A m \in Msgs \ {h} : copies'[m] = copies[m]
        /\ copies[h] <= copies'[h]
        /\ lost \subseteq lost' /\ lost' \subseteq lost \cup {h}
        /\ expelled \subseteq expelled' /\ expelled' \subseteq expelled \cup {h}
        /\ UNCHANGED <<acked, gaveUp, killed>>
    <2>1. ASSUME Write(h, lane[1].ws)
          PROVE  /\ \A m \in Msgs \ {h} : copies'[m] = copies[m]
                 /\ copies[h] <= copies'[h]
                 /\ lost \subseteq lost' /\ lost' \subseteq lost \cup {h}
      BY <1>1, <2>1 DEF Write
    <2>2. CASE Send
      BY <1>2, <2>1, <2>2 DEF Send, endVars
    <2>3. CASE Probe \/ Fail \/ Withdraw \/ Return \/ Requeue \/ Marks("vetted") \/ Marks("gated")
      BY <1>1, <2>3 DEF Probe, Fail, Withdraw, Return, Requeue, Marks, wireVars, endVars
    <2>4. CASE Expel
      BY <1>1, <1>2, <2>4 DEF Expel, endVars
    <2>5. QED  BY <2>2, <2>3, <2>4, HeadSteps DEF Deliver
  <1>6. held' \subseteq held \cup {h}
    BY <1>2 DEF Deliver, Probe, Vet, Fail, Withdraw, PutBack, Gate, LedgerHold, Return, Send, Expel,
                Dequeue, Remove, Hold, queueVars
  <1>7. /\ \A m \in Msgs : told[m] \in {"sent", "queued"} => told'[m] \in {"sent", "queued"}
        /\ \A m \in Msgs : told[m] # told'[m] => m \in InLane
    <2>1. ASSUME NEW m \in Msgs
          PROVE  /\ told[m] \in {"sent", "queued"} => told'[m] \in {"sent", "queued"}
                 /\ told[m] # told'[m] => m \in InLane
      BY <1>3, <1>4
    <2>2. QED  BY <2>1
  <1>8. /\ \A m \in Msgs : copies[m] <= copies'[m]
        /\ \A m \in Msgs : copies'[m] # copies[m] => m \in InLane
    BY <1>1, <1>3, <1>5
  <1>9. \A m \in held' \cup InLane' : m \in held \cup InLane
    BY <1>3, <1>4, <1>6
  <1>10. (lost' \ lost) \cup (acked' \ acked) \cup (gaveUp' \ gaveUp) \cup (killed' \ killed)
           \cup (expelled' \ expelled) \subseteq InLane \cup held
    BY <1>3, <1>5
  <1>11. QED  BY <1>5, <1>7, <1>8, <1>9, <1>10, PromiseByEffects

LEMMA PromiseArrive ==
  ASSUME Inv, Inv', Arrive
  PROVE  Promise!Step
  <1>1. PICK m \in Msgs : Accept(m) \/ AcceptOffline(m)
    BY DEF Arrive
  <1>2. /\ lane \in Seq(Job) /\ told \in [Msgs -> Outcomes] /\ copies \in [Msgs -> Nat]
    BY DEF Inv, TypeOK, HistoryTypeOK
  <1>3. /\ told[m] = "new" /\ \A x \in Msgs \ {m} : told'[x] = told[x]
        /\ UNCHANGED <<copies, lost, acked, gaveUp, killed, expelled>>
        /\ held' \subseteq held \cup {m}
        /\ told'[m] = "pending" \/ (told'[m] = "queued" /\ m \in held')
    BY <1>1, <1>2 DEF Accept, AcceptOffline, Hold, queueVars, wireVars, endVars
  <1>4. InLane' \subseteq InLane \cup {m}
    <2>1. CASE lane' = Append(lane, NewJob(m, "direct", FALSE))
      <3>1. PICK j \in Job : lane' = Append(lane, j) /\ j.msg = m
        BY <2>1, NewJobType DEF NewJob
      <3>2. QED  BY <1>2, <3>1, LaneAppend DEF InLane
    <2>2. CASE lane' = lane
      BY <2>2 DEF InLane
    <2>3. QED  BY <1>1, <2>1, <2>2 DEF Accept, AcceptOffline
  <1>5. \A x \in Msgs : copies[x] <= copies'[x]
    BY <1>2, <1>3
  <1>6. QED  BY <1>3, <1>4, <1>5, PromiseByEffects

\* Steps that answer nobody and write nothing: the lane keeps its messages, or takes one from
\* the queue, and what leaves the queue meets an end.
LEMMA PromiseQuiet ==
  ASSUME Inv, Inv', InLane' \subseteq InLane \cup held, held' \subseteq held,
         \A m \in Msgs : told'[m] # told[m] => told[m] = "pending" /\ told'[m] = "refused",
         UNCHANGED <<copies, lost, expelled>>, acked \subseteq acked', gaveUp \subseteq gaveUp',
         killed \subseteq killed',
         (acked' \ acked) \cup (gaveUp' \ gaveUp) \cup (killed' \ killed) \subseteq held
  PROVE  Promise!Step
  <1>1. \A m \in Msgs : copies[m] <= copies'[m]
    BY DEF Inv, TypeOK, HistoryTypeOK
  <1>2. QED  BY <1>1, PromiseByEffects

LEMMA PromiseRest ==
  ASSUME Inv, Inv', Flush \/ InboxCall \/ InboxFinish \/ AgeHeld \/ Environment
  PROVE  Promise!Step
  <1> USE DEF queueVars, wireVars, endVars
  <1>1. lane \in Seq(Job)
    BY DEF Inv, TypeOK
  <1>2. lane' = lane => InLane' = InLane
    BY DEF InLane
  <1>3. CASE FlushStart \/ FlushPlan \/ FlushStop
    BY <1>2, <1>3, PromiseQuiet DEF FlushStart, FlushPlan, FlushStop
  <1>4. CASE FlushNext
    <2>1. PICK m \in held : lane' = Append(lane, NewJob(m, "flush", m \in flush.late))
      BY <1>4 DEF FlushNext
    <2>2. PICK j \in Job : lane' = Append(lane, j) /\ j.msg = m
      <3>1. m \in Msgs /\ (m \in flush.late) \in BOOLEAN
        BY DEF Inv, TypeOK, QueueTypeOK
      <3>2. QED  BY <2>1, <3>1, NewJobType DEF NewJob
    <2>3. InLane' \subseteq InLane \cup held
      BY <1>1, <2>2, LaneAppend DEF InLane
    <2>4. QED  BY <1>4, <2>3, PromiseQuiet DEF FlushNext
  <1>5. ASSUME NEW ack \in 0 .. MaxBatches, InboxTake(ack)
        PROVE  Promise!Step
    <2> DEFINE done == IF ack = 0 THEN {} ELSE InBatch(ack)
    <2>1. done \subseteq held
      BY DEF InBatch
    <2>2. held' = held \ done /\ acked' = acked \cup done
          /\ UNCHANGED <<lane, told, copies, lost, expelled, gaveUp, killed>>
      BY <1>5 DEF InboxTake, Remove
    <2> HIDE DEF done
    <2>3. QED  BY <1>2, <2>1, <2>2, PromiseQuiet
  <1>6. ASSUME NEW m \in Msgs, InboxRead(m)
        PROVE  Promise!Step
    BY <1>2, <1>6, PromiseQuiet DEF InboxRead
  <1>7. CASE InboxFinish
    BY <1>2, <1>7, PromiseQuiet DEF InboxFinish, InboxAgain, InboxLease, InboxFail
  <1>8. CASE AgeHeld
    <2>1. Overdue \subseteq held
      BY DEF Overdue
    <2>2. QED  BY <1>2, <1>8, <2>1, PromiseQuiet DEF AgeHeld
  <1>9. CASE Kill \/ Register \/ Disconnect
    <2>1. CloseSocket /\ UNCHANGED <<held, told, copies, lost, acked, gaveUp, killed, expelled>>
      BY <1>9 DEF Kill, Register, Disconnect
    <2>2. DOMAIN lane' = DOMAIN lane /\ \A i \in DOMAIN lane : lane'[i].msg = lane[i].msg
      BY <1>1, <2>1, CloseSocketKeepsJobs
    <2>3. InLane' = InLane
      BY <2>2 DEF InLane
    <2>4. QED  BY <2>1, <2>3, PromiseQuiet
  <1>10. CASE Cleanup
    <2>1. held' \subseteq held /\ killed' = killed \cup held
          /\ UNCHANGED <<lane, told, copies, lost, expelled, acked, gaveUp>>
      BY <1>10 DEF Cleanup, Remove
    <2>2. QED  BY <1>2, <2>1, PromiseQuiet
  <1>11. CASE Succeed \/ TurnChange \/ Tick
    BY <1>2, <1>11, PromiseQuiet DEF Succeed, TurnChange, Tick
  <1>12. CASE Crash
    <2>1. InLane' = {}
      BY <1>12, EmptySeq, LenProperties DEF Crash, InLane
    <2>2. \A m \in Msgs : told'[m] = IF told[m] = "pending" THEN "refused" ELSE told[m]
      BY <1>12 DEF Crash
    <2>3. QED  BY <1>12, <2>1, <2>2, PromiseQuiet DEF Crash
  <1>13. QED
    BY <1>3, <1>4, <1>5, <1>6, <1>7, <1>8, <1>9, <1>10, <1>11, <1>12
    DEF Flush, InboxCall, Environment

\* Every behaviour of the lane, the queue, the flush, the inbox, kill and restarts is one of
\* MessageDelivery: a promised message is owed until it was offered or closed, and never taken
\* on a second time.
THEOREM ImplementsPromise == Spec => KeepsPromise
  <1>1. Inv /\ Inv' /\ [Next]_vars => [Promise!Step]_Promise!vars
    <2> SUFFICES ASSUME Inv, Inv', [Next]_vars PROVE [Promise!Step]_Promise!vars  OBVIOUS
    <2>1. CASE Next
      BY <2>1, PromiseArrive, PromiseDeliver, PromiseRest DEF Next
    <2>2. CASE UNCHANGED vars
      BY <2>2 DEF vars, queueVars, wireVars, endVars, Promise!vars, Owed, InLane, Promised,
                  Offered, Closed
    <2>3. QED  BY <2>1, <2>2
  <1>2. QED  BY <1>1, PromiseInit, InvAlways, PTL DEF Spec, KeepsPromise, Promise!Spec

-----------------------------------------------------------------------------
(* The road of an agent's message. *)

Late(m) == \E i \in JobsOf(m) : lane[i].via = "flush"
Taken(m) == item[m].batch > 0

\* The message stays where it is, or loses what the bridge held of it.
QueueStays(m) == (m \in held' <=> m \in held) /\ (Taken(m)' <=> Taken(m))
NothingLeft(m) == m \notin held' /\ ~Taken(m)' /\ ~Late(m)'

\* Where a delivery has its message.
PlaceAt(job, queued) ==
  IF job.phase = "written" THEN "sent"
  ELSE IF job.via = "flush" /\ job.phase = "gated" /\ ~queued THEN "stray" ELSE "flight"

\* Only a message addressed to one session is vetted, so no other one is ever expelled.
VettedOK == \A i \in DOMAIN lane : lane[i].phase = "vetted" => lane[i].msg \in Pinned

\* The steps of RequestRoad in the words of HeldQueue.
LEMMA RoadSteps ==
  ASSUME NEW m \in Requests, NEW p, NEW q, p = PlaceOf(m), q = PlaceOf(m)'
  PROVE  /\ q = p /\ QueueStays(m) /\ (Late(m)' <=> Late(m)) => OnRoad!Step(m)
         /\ p = "new" /\ q = "flight" /\ QueueStays(m) /\ (Late(m)' <=> Late(m)) => OnRoad!Step(m)
         /\ p = "new" /\ q = "held" /\ m \in held' /\ ~Taken(m)' /\ ~Late(m)' => OnRoad!Step(m)
         /\ p = "flight" /\ q = "over" /\ (Late(m) => m \notin held) /\ NothingLeft(m)
             => OnRoad!Step(m)
         /\ p = "flight" /\ q = "held" /\ (Late(m) => m \in held) /\ m \in held'
            /\ (Taken(m)' <=> Taken(m)) /\ ~Late(m)' => OnRoad!Step(m)
         /\ p = "stray" /\ q = "held" /\ m \in held' /\ (Taken(m)' <=> Taken(m)) /\ ~Late(m)'
             => OnRoad!Step(m)
         /\ p = "held" /\ q = "flight" /\ QueueStays(m) /\ Late(m)' => OnRoad!Step(m)
         /\ p = "stray" /\ q = "sent" /\ QueueStays(m) /\ (Late(m)' <=> Late(m)) => OnRoad!Step(m)
         /\ p = "flight" /\ q = "sent" /\ (Late(m) => m \in held) /\ QueueStays(m)
            /\ (Late(m)' <=> Late(m)) => OnRoad!Step(m)
         /\ p = "sent" /\ q = "over" /\ NothingLeft(m) => OnRoad!Step(m)
         /\ p = "held" /\ q = "held" /\ m \in held' /\ Taken(m)' /\ ~Late(m)' => OnRoad!Step(m)
         /\ p = "held" /\ q = "over" /\ Taken(m) /\ NothingLeft(m) => OnRoad!Step(m)
         /\ p = "held" /\ q = "over" /\ m \in held /\ NothingLeft(m) => OnRoad!Step(m)
         /\ <<p, q>> \in {<<"flight", "flight">>, <<"sent", "sent">>, <<"flight", "stray">>}
            /\ m \in held /\ m \notin held' /\ ~Taken(m)' /\ (Late(m)' <=> Late(m)) => OnRoad!Step(m)
         /\ p \in {"flight", "stray", "sent"} /\ q = "held" /\ m \in held /\ QueueStays(m) /\ ~Late(m)'
            => OnRoad!Step(m)
         /\ p \in {"flight", "stray", "sent"} /\ q = "over" /\ m \notin held /\ NothingLeft(m)
             => OnRoad!Step(m)
  <1> DEFINE stops == [r \in Requests |-> PlaceOf(r)]
             given == {r \in Requests : item[r].batch > 0}
             late == {r \in Requests : \E i \in JobsOf(r) : lane[i].via = "flush"}
             waiting == Requests \cap held
  <1>0. /\ stops[m] = p /\ stops'[m] = q
        /\ m \in waiting <=> m \in held
        /\ m \in waiting' <=> m \in held'
        /\ m \in given <=> Taken(m)
        /\ m \in given' <=> Taken(m)'
        /\ m \in late <=> Late(m)
        /\ m \in late' <=> Late(m)'
    BY DEF Late, Taken
  <1> HIDE DEF stops, given, late, waiting
  <1> USE DEF OnRoad!Step, OnRoad!Goes, OnRoad!QueueKept, OnRoad!RestKept, OnRoad!Forgotten,
              OnRoad!Wanted, QueueStays, NothingLeft
  <1>1. q = p /\ QueueStays(m) /\ (Late(m)' <=> Late(m)) => OnRoad!Step(m)
    BY <1>0 DEF stops, given, late, waiting, OnRoad!Stays
  <1>2. p = "new" /\ q = "flight" /\ QueueStays(m) /\ (Late(m)' <=> Late(m)) => OnRoad!Step(m)
    BY <1>0 DEF stops, given, late, waiting, OnRoad!Ask
  <1>3. p = "new" /\ q = "held" /\ m \in held' /\ ~Taken(m)' /\ ~Late(m)' => OnRoad!Step(m)
    BY <1>0 DEF stops, given, late, waiting, OnRoad!Store
  <1>4. p = "flight" /\ q = "over" /\ (Late(m) => m \notin held) /\ NothingLeft(m) => OnRoad!Step(m)
    BY <1>0 DEF stops, given, late, waiting, OnRoad!Refuse, OnRoad!Withdraw
  <1>5. p = "flight" /\ q = "held" /\ (Late(m) => m \in held) /\ m \in held'
          /\ (Taken(m)' <=> Taken(m)) /\ ~Late(m)' => OnRoad!Step(m)
    BY <1>0 DEF stops, given, late, waiting, OnRoad!PutBack
  <1>6. p = "held" /\ q = "flight" /\ QueueStays(m) /\ Late(m)' => OnRoad!Step(m)
    BY <1>0 DEF stops, given, late, waiting, OnRoad!Flush
  <1>7. p = "flight" /\ q = "sent" /\ (Late(m) => m \in held) /\ QueueStays(m)
          /\ (Late(m)' <=> Late(m)) => OnRoad!Step(m)
    BY <1>0 DEF stops, given, late, waiting, OnRoad!Send
  <1>8. p = "sent" /\ q = "over" /\ NothingLeft(m) => OnRoad!Step(m)
    BY <1>0 DEF stops, given, late, waiting, OnRoad!Land
  <1>9. p = "held" /\ q = "held" /\ m \in held' /\ Taken(m)' /\ ~Late(m)' => OnRoad!Step(m)
    BY <1>0 DEF stops, given, late, waiting, OnRoad!TakeInbox
  <1>10. p = "held" /\ q = "over" /\ Taken(m) /\ NothingLeft(m) => OnRoad!Step(m)
    BY <1>0 DEF stops, given, late, waiting, OnRoad!Confirm
  <1>11. p = "held" /\ q = "over" /\ m \in held /\ NothingLeft(m) => OnRoad!Step(m)
    BY <1>0 DEF stops, given, late, waiting, OnRoad!GiveUp
  <1>12. <<p, q>> \in {<<"flight", "flight">>, <<"sent", "sent">>, <<"flight", "stray">>}
           /\ m \in held /\ m \notin held' /\ ~Taken(m)' /\ (Late(m)' <=> Late(m)) => OnRoad!Step(m)
    BY <1>0 DEF stops, given, late, waiting, OnRoad!GiveUp
  <1>13. p \in {"flight", "stray", "sent"} /\ q = "held" /\ m \in held /\ QueueStays(m) /\ ~Late(m)'
           => OnRoad!Step(m)
    BY <1>0 DEF stops, given, late, waiting, OnRoad!Crash
  <1>14. p \in {"flight", "stray", "sent"} /\ q = "over" /\ m \notin held /\ NothingLeft(m)
           => OnRoad!Step(m)
    BY <1>0 DEF stops, given, late, waiting, OnRoad!Crash
  <1>15. p = "stray" /\ q = "held" /\ m \in held' /\ (Taken(m)' <=> Taken(m)) /\ ~Late(m)'
           => OnRoad!Step(m)
    BY <1>0 DEF stops, given, late, waiting, OnRoad!PutBack
  <1>16. p = "stray" /\ q = "sent" /\ QueueStays(m) /\ (Late(m)' <=> Late(m)) => OnRoad!Step(m)
    BY <1>0 DEF stops, given, late, waiting, OnRoad!Send
  <1>17. QED
    BY <1>1, <1>2, <1>3, <1>4, <1>5, <1>6, <1>7, <1>8, <1>9, <1>10, <1>11, <1>12, <1>13, <1>14, <1>15,
       <1>16

LEMMA RequestFacts ==
  ASSUME Inv, NEW m \in Requests
  PROVE  /\ m \in Msgs \ Pinned /\ Kind[m] = "agent"
         /\ m \notin held => item[m] = Fresh /\ ~Taken(m)
         /\ item[m].batch \in Nat
  BY BoundsAssumption DEF Requests, Inv, TypeOK, QueueTypeOK, Items, Fresh, Taken

\* Where a message is that nobody delivers now.
LEMMA PlaceWithout ==
  ASSUME Inv, NEW m \in Requests, \A i \in DOMAIN lane : lane[i].msg # m
  PROVE  /\ PlaceOf(m) = IF told[m] = "new" THEN "new" ELSE IF m \in held THEN "held" ELSE "over"
         /\ ~Late(m)
  BY DEF PlaceOf, Late, JobsOf, Stray

\* A new message is neither delivered nor queued.
LEMMA PlaceOfNew ==
  ASSUME Inv, NEW m \in Requests, told[m] = "new"
  PROVE  PlaceOf(m) = "new" /\ ~Late(m) /\ m \notin held /\ \A i \in DOMAIN lane : lane[i].msg # m
  <1>1. m \notin held
    BY DEF Inv, HeldOK
  <1>2. \A i \in DOMAIN lane : lane[i].msg # m
    BY DEF Inv, LaneOK, JobOK
  <1>3. QED  BY <1>1, <1>2 DEF PlaceOf, Late, JobsOf

\* Where a message is that has a delivery: the delivery says it all.
LEMMA PlaceInLane ==
  ASSUME Inv, OneJob, NEW m \in Requests, NEW i \in DOMAIN lane, lane[i].msg = m
  PROVE  /\ PlaceOf(m) = PlaceAt(lane[i], m \in held)
         /\ Late(m) <=> lane[i].via = "flush"
         /\ m \in held => Late(m)
         /\ told[m] # "new"
  <1>1. told[m] = IF lane[i].via = "direct" THEN "pending" ELSE "queued"
    BY DEF Inv, LaneOK, JobOK
  <1>2. lane[i].via \in {"direct", "flush"}
    BY ElementOfSeq, LenProperties, JobUpdates DEF Inv, TypeOK
  <1>3. i \in JobsOf(m) /\ \A j \in JobsOf(m) : j = i
    BY DEF JobsOf, OneJob
  <1>4. told[m] # "new" /\ (m \in held => lane[i].via = "flush")
    BY <1>1, <1>2 DEF Inv, HeldOK
  <1>5. PlaceOf(m) = PlaceAt(lane[i], m \in held)
    BY <1>3, <1>4 DEF PlaceOf, PlaceAt, Stray
  <1>6. QED  BY <1>3, <1>4, <1>5 DEF Late

\* A step that only moves a message's delivery up, or closes its socket, leaves it in its place.
LEMMA PlaceKept ==
  ASSUME NEW m \in Requests, told'[m] = "new" <=> told[m] = "new",
         \A i \in DOMAIN lane : lane[i].msg = m =>
           \E j \in DOMAIN lane' : /\ lane'[j].msg = m /\ lane'[j].via = lane[i].via
                                   /\ lane'[j].phase = lane[i].phase,
         \A j \in DOMAIN lane' : lane'[j].msg = m =>
           \E i \in DOMAIN lane : /\ lane[i].msg = m /\ lane'[j].via = lane[i].via
                                  /\ lane'[j].phase = lane[i].phase
  PROVE  /\ Late(m)' <=> Late(m)
         /\ PlaceOf(m) \notin {"held", "over"} /\ (m \in held' <=> m \in held) => PlaceOf(m)' = PlaceOf(m)
         /\ PlaceOf(m) \in {"held", "over"} => PlaceOf(m)' = IF m \in held' THEN "held" ELSE "over"
         /\ PlaceOf(m) = "held" => m \in held
         /\ PlaceOf(m) = "over" => m \notin held
  <1>1. (\E i \in JobsOf(m)' : (lane[i].via = "flush")') <=> Late(m)
    BY DEF JobsOf, Late
  <1>2. (\E i \in JobsOf(m)' : (lane[i].phase = "written")') <=> (\E i \in JobsOf(m) : lane[i].phase = "written")
    BY DEF JobsOf
  <1>3. JobsOf(m)' = {} <=> JobsOf(m) = {}
    BY DEF JobsOf
  <1>4. (m \in held' <=> m \in held) => (Stray(m)' <=> Stray(m))
    BY DEF Stray, JobsOf
  <1>5. JobsOf(m) = {} => ~Stray(m) /\ ~Stray(m)'
    BY <1>3 DEF Stray
  <1>6. QED  BY <1>1, <1>2, <1>3, <1>4, <1>5 DEF PlaceOf, Late

LEMMA RoadQuiet ==
  ASSUME Inv, OneJob, NEW m \in Requests, told'[m] = told[m], UNCHANGED lane,
         m \in held' <=> m \in held, item'[m].batch = item[m].batch
  PROVE  OnRoad!Step(m)
  <1>1. QueueStays(m)
    BY DEF QueueStays, Taken
  <1>2. (Late(m)' <=> Late(m)) /\ PlaceOf(m)' = PlaceOf(m)
    BY PlaceKept DEF PlaceOf
  <1>3. QED  BY <1>1, <1>2, RoadSteps

\* A message that leaves the queue: at its end, or given up while the flush delivers it.
LEMMA RoadLeaves ==
  ASSUME Inv, OneJob, NEW m \in Requests, told'[m] = told[m], UNCHANGED lane,
         m \in held \ held', item'[m] = Fresh
  PROVE  OnRoad!Step(m)
  <1>1. told[m] = "queued"
    BY DEF Inv, HeldOK
  <1>2. ~Taken(m)'
    BY DEF Taken, Fresh
  <1>3. CASE \A i \in DOMAIN lane : lane[i].msg # m
    <2>1. PlaceOf(m) = "held" /\ ~Late(m)
      BY <1>1, <1>3, PlaceWithout
    <2>2. PlaceOf(m)' = "over" /\ ~Late(m)'
      BY <2>1, PlaceKept
    <2>3. QED  BY <1>2, <2>1, <2>2, RoadSteps DEF NothingLeft
  <1>4. ASSUME NEW i \in DOMAIN lane, lane[i].msg = m
        PROVE  OnRoad!Step(m)
    <2>1. /\ PlaceOf(m) = (IF lane[i].phase = "written" THEN "sent" ELSE "flight")
          /\ lane[i].via = "flush" /\ \A j \in JobsOf(m) : j = i
      BY <1>4, PlaceInLane DEF PlaceAt, OneJob, JobsOf
    <2>2. Late(m)' <=> Late(m)
      BY DEF Late, JobsOf
    <2>3. PlaceOf(m)' = PlaceAt(lane[i], FALSE)
      BY <1>1, <1>4, <2>1 DEF PlaceOf, PlaceAt, Stray, JobsOf
    <2>4. QED  BY <1>2, <2>1, <2>2, <2>3, RoadSteps DEF PlaceAt
  <1>5. QED  BY <1>3, <1>4

LEMMA RoadArrive ==
  ASSUME Inv, OneJob, Arrive, NEW m \in Requests
  PROVE  OnRoad!Step(m)
  <1>1. lane \in Seq(Job) /\ told \in [Msgs -> Outcomes] /\ item \in [Msgs -> Items] /\ m \in Msgs
    BY DEF Inv, TypeOK, HistoryTypeOK, QueueTypeOK, Requests
  <1>2. PICK x \in Msgs : Accept(x) \/ AcceptOffline(x)
    BY DEF Arrive
  <1>3. CASE Accept(x)
    <2>1. PICK j \in Job : lane' = Append(lane, j) /\ j.msg = x /\ j.via = "direct" /\ j.phase = "queued"
      BY <1>3, NewJobType DEF Accept, NewJob
    <2>2. /\ DOMAIN lane' = DOMAIN lane \cup {Len(lane) + 1} /\ Len(lane) + 1 \notin DOMAIN lane
          /\ \A i \in DOMAIN lane : lane'[i] = lane[i]
          /\ lane'[Len(lane) + 1] = j
      BY <1>1, <2>1, LaneAppend
    <2>3. held' = held /\ item' = item
      BY <1>3 DEF Accept, queueVars
    <2>4. QueueStays(m)
      BY <2>3 DEF QueueStays, Taken
    <2>5. CASE m = x
      <3>1. PlaceOf(m) = "new" /\ ~Late(m) /\ \A i \in DOMAIN lane : lane[i].msg # m
        BY <1>3, <2>5, PlaceOfNew DEF Accept
      <3>2. told'[m] = "pending"
        BY <1>1, <1>3, <2>5 DEF Accept
      <3>3. PlaceOf(m)' = "flight" /\ ~Late(m)'
        BY <2>1, <2>2, <2>5, <3>1, <3>2 DEF PlaceOf, Late, JobsOf, Stray
      <3>4. QED  BY <2>4, <3>1, <3>3, RoadSteps
    <2>6. CASE m # x
      <3>1. told'[m] = told[m]
        BY <1>1, <1>3, <2>6 DEF Accept
      <3>2. PlaceOf(m)' = PlaceOf(m) /\ (Late(m)' <=> Late(m))
        BY <2>1, <2>2, <2>3, <2>6, <3>1, PlaceKept
      <3>3. QED  BY <2>4, <3>2, RoadSteps
    <2>7. QED  BY <2>5, <2>6
  <1>4. CASE AcceptOffline(x)
    <2>1. lane' = lane
      BY <1>4 DEF AcceptOffline
    <2>2. CASE m = x
      <3>1. PlaceOf(m) = "new" /\ ~Late(m) /\ m \notin held /\ \A i \in DOMAIN lane : lane[i].msg # m
        BY <1>4, <2>2, PlaceOfNew DEF AcceptOffline
      <3>2. told'[m] = "queued" /\ m \in held' /\ item'[m] = Fresh
        BY <1>1, <1>4, <2>2, <3>1 DEF AcceptOffline, Hold
      <3>3. PlaceOf(m)' = "held" /\ ~Late(m)' /\ ~Taken(m)'
        BY <2>1, <3>1, <3>2 DEF PlaceOf, Late, JobsOf, Stray, Taken, Fresh
      <3>4. QED  BY <3>1, <3>2, <3>3, RoadSteps
    <2>3. CASE m # x
      <3>1. told'[m] = told[m] /\ (m \in held' <=> m \in held) /\ item'[m] = item[m]
        BY <1>1, <1>4, <2>3 DEF AcceptOffline, Hold
      <3>2. QED  BY <2>1, <3>1, RoadQuiet
    <2>4. QED  BY <2>2, <2>3
  <1>5. QED  BY <1>2, <1>3, <1>4

\* A delivery advances, or ends: the messages of the others stay where they are.
LEMMA RoadOthers ==
  ASSUME Inv, OneJob, Deliver, NEW m \in Requests, m # lane[1].msg
  PROVE  OnRoad!Step(m)
  <1>1. /\ lane \in Seq(Job) /\ lane # << >> /\ TypeOK /\ told \in [Msgs -> Outcomes]
        /\ item \in [Msgs -> Items] /\ m \in Msgs
    BY DeliverShape DEF Inv, TypeOK, HistoryTypeOK, QueueTypeOK, Requests
  <1>2. lane[1].msg \in Msgs /\ 1 \in DOMAIN lane
    BY <1>1, HeadFacts
  <1>3. (m \in held' <=> m \in held) /\ item'[m] = item[m]
    BY <1>1, <1>2 DEF Deliver, Probe, Vet, Fail, Withdraw, PutBack, Gate, LedgerHold, Return, Send,
                Expel, Dequeue, Remove, Hold, queueVars
  <1>4. QueueStays(m)
    BY <1>3 DEF QueueStays, Taken
  <1>5. PlaceOf(m)' = PlaceOf(m) /\ (Late(m)' <=> Late(m))
    <2>1. ASSUME NEW j \in Job, lane' = [lane EXCEPT ![1] = j], j.msg = lane[1].msg, UNCHANGED told
          PROVE  PlaceOf(m)' = PlaceOf(m) /\ (Late(m)' <=> Late(m))
      <3>1. /\ DOMAIN lane' = DOMAIN lane
            /\ \A i \in DOMAIN lane : lane'[i] = IF i = 1 THEN j ELSE lane[i]
        BY <1>1, <2>1, LaneStep
      <3>2. QED  BY <1>3, <2>1, <3>1, PlaceKept
    <2>2. ASSUME lane' = Tail(lane), NEW outcome \in {"sent", "queued", "refused"}, Answer(outcome)
          PROVE  PlaceOf(m)' = PlaceOf(m) /\ (Late(m)' <=> Late(m))
      <3>1. /\ \A i \in DOMAIN lane' : i + 1 \in DOMAIN lane /\ lane'[i] = lane[i + 1]
            /\ \A i \in DOMAIN lane : i # 1 => i - 1 \in DOMAIN lane' /\ lane'[i - 1] = lane[i]
        BY <1>1, <2>2, LaneTail
      <3>2. told'[m] = told[m]
        BY <1>1, <1>2, <2>2 DEF Answer
      <3>3. QED  BY <1>3, <3>1, <3>2, PlaceKept
    <2>3. QED  BY <1>1, <2>1, <2>2, DeliverShape
  <1>6. QED  BY <1>4, <1>5, RoadSteps

\* The message being delivered.
LEMMA RoadHead ==
  ASSUME Inv, OneJob, VettedOK, Deliver, NEW m \in Requests, m = lane[1].msg
  PROVE  OnRoad!Step(m)
  <1>1. /\ lane \in Seq(Job) /\ lane # << >> /\ TypeOK /\ told \in [Msgs -> Outcomes]
        /\ item \in [Msgs -> Items]
    BY DeliverShape DEF Inv, TypeOK, HistoryTypeOK, QueueTypeOK
  <1>2. PICK job \in Job : job = lane[1] /\ job.msg = m /\ 1 \in DOMAIN lane
                           /\ job.via \in {"direct", "flush"}
    BY <1>1, HeadFacts
  <1>3. /\ PlaceOf(m) = PlaceAt(job, m \in held)
        /\ Late(m) <=> job.via = "flush"
        /\ m \in held => Late(m)
        /\ told[m] # "new"
    BY <1>2, PlaceInLane
  <1>4. m \in Msgs \ Pinned /\ Kind[m] = "agent" /\ (m \notin held => item[m] = Fresh /\ ~Taken(m))
    BY RequestFacts
  <1>5. ASSUME lane' = Tail(lane), NEW outcome \in {"sent", "queued", "refused"}, Answer(outcome)
        PROVE  PlaceOf(m)' = (IF m \in held' THEN "held" ELSE "over") /\ ~Late(m)'
    <2>1. \A i \in DOMAIN lane' : lane'[i].msg # m
      BY <1>1, <1>2, <1>5, HeadLeaves
    <2>2. told'[m] # "new"
      BY <1>1, <1>2, <1>3, <1>4, <1>5 DEF Answer
    <2>3. QED  BY <2>1, <2>2 DEF PlaceOf, Late, JobsOf, Stray
  <1>6. ASSUME Dequeue
        PROVE  m \notin held' /\ ~Taken(m)'
    <2>1. CASE job.via = "flush"
      BY <1>2, <1>4, <1>6, <2>1 DEF Dequeue, Remove, Taken, Fresh
    <2>2. CASE job.via = "direct"
      BY <1>2, <1>3, <1>4, <1>6, <2>2 DEF Dequeue, queueVars, Taken, Fresh
    <2>3. QED  BY <1>2, <2>1, <2>2
  <1>7. ASSUME NEW j \in Job, lane' = [lane EXCEPT ![1] = j], j.msg = m, j.via = job.via,
               UNCHANGED <<told, queueVars>>
        PROVE  /\ PlaceOf(m)' = PlaceAt(j, m \in held)
               /\ (Late(m)' <=> Late(m)) /\ QueueStays(m)
    <2>1. /\ DOMAIN lane' = DOMAIN lane
          /\ \A i \in DOMAIN lane : lane'[i] = IF i = 1 THEN j ELSE lane[i]
      BY <1>1, <1>7, LaneStep
    <2>2. \A i \in DOMAIN lane' : lane'[i].msg = m => i = 1
      BY <1>2, <2>1 DEF OneJob
    <2>3. told'[m] # "new"
      BY <1>3, <1>7
    <2>4. QueueStays(m)
      BY <1>7 DEF QueueStays, Taken, queueVars
    <2>5. PlaceOf(m)' = PlaceAt(j, m \in held)
      BY <1>2, <1>7, <2>1, <2>2, <2>3 DEF PlaceOf, PlaceAt, Stray, JobsOf, queueVars
    <2>6. Late(m)' <=> Late(m)
      BY <1>2, <1>3, <1>7, <2>1, <2>2 DEF Late, JobsOf
    <2>7. QED  BY <2>4, <2>5, <2>6
  <1>8. CASE Probe
    <2>1. PICK seen : lane' = [lane EXCEPT ![1] = [@ EXCEPT !.phase = "probed",
                        !.hold = HoldsUntilIdle(lane[1].msg, lane[1].late, seen)]]
      BY <1>8 DEF Probe
    <2> DEFINE b == HoldsUntilIdle(lane[1].msg, lane[1].late, seen)
    <2>2. b \in BOOLEAN
      BY DEF HoldsUntilIdle
    <2>3. lane' = [lane EXCEPT ![1] = [job EXCEPT !.phase = "probed", !.hold = b]]
      BY <1>2, <2>1
    <2> HIDE DEF b
    <2>4. PICK j \in Job : /\ j = [job EXCEPT !.phase = "probed", !.hold = b]
                           /\ j.msg = job.msg /\ j.via = job.via /\ j.phase = "probed"
      <3> DEFINE j == [job EXCEPT !.phase = "probed", !.hold = b]
      <3>1. j \in Job  BY <2>2, JobUpdates
      <3>2. j.msg = job.msg /\ j.via = job.via /\ j.phase = "probed"  BY <2>2, JobKeeps
      <3>3. QED  BY <3>1, <3>2
    <2>5. PlaceOf(m)' = PlaceOf(m) /\ (Late(m)' <=> Late(m)) /\ QueueStays(m)
      BY <1>2, <1>3, <1>7, <1>8, <2>3, <2>4 DEF Probe, PlaceAt
    <2>6. QED  BY <2>5, RoadSteps
  <1>9. CASE Vet
    BY <1>2, <1>4, <1>9 DEF Vet
  <1>10. CASE Expel
    BY <1>2, <1>4, <1>10 DEF Expel, VettedOK
  <1>11. CASE Fail
    <2>1. PlaceOf(m) = "flight" /\ QueueStays(m) /\ (m \in held' <=> m \in held)
      BY <1>2, <1>3, <1>11 DEF Fail, QueueStays, Taken, queueVars, PlaceAt
    <2>2. PlaceOf(m)' = (IF m \in held' THEN "held" ELSE "over") /\ ~Late(m)'
      BY <1>5, <1>11 DEF Fail
    <2>3. CASE m \in held
      BY <1>3, <2>1, <2>2, <2>3, RoadSteps DEF QueueStays
    <2>4. CASE m \notin held
      BY <1>4, <2>1, <2>2, <2>4, RoadSteps DEF QueueStays, NothingLeft
    <2>5. QED  BY <2>3, <2>4
  <1>12. CASE Withdraw
    <2>1. PlaceOf(m) = "flight" /\ m \notin held
      BY <1>2, <1>3, <1>12 DEF Withdraw, StillWanted, PlaceAt
    <2>2. NothingLeft(m) /\ PlaceOf(m)' = "over"
      BY <1>5, <1>6, <1>12 DEF Withdraw, NothingLeft
    <2>3. QED  BY <2>1, <2>2, RoadSteps
  <1>13. ASSUME \/ Ready \/ AtGate
         PROVE  \/ PlaceOf(m) = "flight" /\ (Late(m) => m \in held)
                \/ PlaceOf(m) = "stray"
    BY <1>2, <1>3, <1>4, <1>13 DEF Ready, AtGate, StillWanted, PlaceAt
  <1>14. CASE PutBack \/ LedgerHold
    <2>1. Requeue /\ (Ready \/ AtGate)
      BY <1>14, HeadSteps DEF PutBack, LedgerHold
    <2>2. m \in held' /\ (Taken(m)' <=> Taken(m))
      <3>1. m \in held' /\ (m \in held => item' = item) /\ (m \notin held => item'[m] = Fresh)
        BY <1>1, <1>2, <1>4, <2>1 DEF Requeue, Hold
      <3>2. QED  BY <1>4, <3>1 DEF Taken
    <2>3. PlaceOf(m)' = "held" /\ ~Late(m)'
      BY <1>5, <2>1, <2>2 DEF Requeue
    <2>4. QED  BY <1>13, <2>1, <2>2, <2>3, RoadSteps
  <1>15. CASE Gate
    <2>1. PlaceOf(m) = "flight" /\ (Late(m) => m \in held)
      BY <1>2, <1>3, <1>4, <1>15 DEF Gate, Ready, StillWanted, PlaceAt
    <2>2. lane' = [lane EXCEPT ![1] = [job EXCEPT !.phase = "gated"]] /\ UNCHANGED <<told, queueVars>>
      BY <1>2, <1>15 DEF Gate
    <2>3. PICK j \in Job : /\ j = [job EXCEPT !.phase = "gated"]
                           /\ j.msg = m /\ j.via = job.via /\ j.phase = "gated"
      <3> DEFINE j == [job EXCEPT !.phase = "gated"]
      <3>1. j \in Job  BY JobUpdates
      <3>2. j.msg = job.msg /\ j.via = job.via /\ j.phase = "gated"  BY JobKeeps
      <3>3. QED  BY <1>2, <3>1, <3>2
    <2>4. PlaceOf(m)' = PlaceAt(j, m \in held) /\ (Late(m)' <=> Late(m)) /\ QueueStays(m)
      BY <1>7, <2>2, <2>3
    <2>5. PlaceOf(m)' = "flight"
      BY <1>3, <2>1, <2>3, <2>4 DEF PlaceAt
    <2>6. QED  BY <2>1, <2>4, <2>5, RoadSteps
  <1>16. CASE Send
    <2>1. Ready \/ AtGate
      BY <1>16 DEF Send
    <2>2. lane' = [lane EXCEPT ![1] = [job EXCEPT !.phase = "written"]] /\ UNCHANGED <<told, queueVars>>
      BY <1>2, <1>4, <1>16 DEF Send
    <2>3. PICK j \in Job : /\ j = [job EXCEPT !.phase = "written"]
                           /\ j.msg = m /\ j.via = job.via /\ j.phase = "written"
      <3> DEFINE j == [job EXCEPT !.phase = "written"]
      <3>1. j \in Job  BY JobUpdates
      <3>2. j.msg = job.msg /\ j.via = job.via /\ j.phase = "written"  BY JobKeeps
      <3>3. QED  BY <1>2, <3>1, <3>2
    <2>4. PlaceOf(m)' = "sent" /\ (Late(m)' <=> Late(m)) /\ QueueStays(m)
      BY <1>7, <2>2, <2>3 DEF PlaceAt
    <2>5. QED  BY <1>13, <2>1, <2>4, RoadSteps
  <1>17. CASE Return
    <2>1. PlaceOf(m) = "sent"
      BY <1>2, <1>3, <1>17 DEF Return, PlaceAt
    <2>2. NothingLeft(m) /\ PlaceOf(m)' = "over"
      BY <1>5, <1>6, <1>17 DEF Return, NothingLeft
    <2>3. QED  BY <2>1, <2>2, RoadSteps
  <1>18. QED
    BY <1>8, <1>9, <1>10, <1>11, <1>12, <1>14, <1>15, <1>16, <1>17 DEF Deliver

\* The flush takes up a message that nobody delivers.
LEMMA FlushTakesUp ==
  ASSUME Inv, OneDeliverer, flush.pc # "waiting", NEW m \in held
  PROVE  \A i \in DOMAIN lane : lane[i].msg # m
  <1> SUFFICES ASSUME NEW i \in DOMAIN lane, lane[i].msg = m PROVE FALSE  OBVIOUS
  <1>1. told[m] = "queued" /\ JobOK(lane[i])
    BY DEF Inv, HeldOK, LaneOK
  <1>2. lane[i].via \in {"direct", "flush"}
    BY ElementOfSeq, LenProperties, JobUpdates DEF Inv, TypeOK
  <1>3. lane[i].via = "flush"
    BY <1>1, <1>2 DEF JobOK
  <1>4. QED  BY <1>3 DEF OneDeliverer, FlushJobs

LEMMA RoadFlush ==
  ASSUME Inv, OneJob, OneDeliverer, FlushNext, NEW m \in Requests
  PROVE  OnRoad!Step(m)
  <1>1. lane \in Seq(Job)
    BY DEF Inv, TypeOK
  <1>2. PICK x \in held : lane' = Append(lane, NewJob(x, "flush", x \in flush.late))
    BY DEF FlushNext
  <1>3. x \in Msgs /\ (x \in flush.late) \in BOOLEAN
    BY DEF Inv, TypeOK, QueueTypeOK
  <1>4. PICK j \in Job : lane' = Append(lane, j) /\ j.msg = x /\ j.via = "flush" /\ j.phase = "queued"
    BY <1>2, <1>3, NewJobType DEF NewJob
  <1>5. /\ DOMAIN lane' = DOMAIN lane \cup {Len(lane) + 1} /\ Len(lane) + 1 \notin DOMAIN lane
        /\ \A i \in DOMAIN lane : lane'[i] = lane[i]
        /\ lane'[Len(lane) + 1] = j
    BY <1>1, <1>4, LaneAppend
  <1>6. UNCHANGED <<told, held, item>>
    BY DEF FlushNext, queueVars
  <1>7. QueueStays(m)
    BY <1>6 DEF QueueStays, Taken
  <1>8. CASE m = x
    <2>1. told[m] = "queued" /\ \A i \in DOMAIN lane : lane[i].msg # m
      BY <1>8, FlushTakesUp DEF FlushNext, Inv, HeldOK
    <2>2. PlaceOf(m) = "held"
      BY <1>8, <2>1, PlaceWithout
    <2>3. PlaceOf(m)' = "flight" /\ Late(m)'
      BY <1>4, <1>5, <1>6, <1>8, <2>1 DEF PlaceOf, Late, JobsOf, Stray
    <2>4. QED  BY <1>7, <2>2, <2>3, RoadSteps
  <1>9. CASE m # x
    <2>1. PlaceOf(m)' = PlaceOf(m) /\ (Late(m)' <=> Late(m))
      BY <1>4, <1>5, <1>6, <1>9, PlaceKept
    <2>2. QED  BY <1>7, <2>1, RoadSteps
  <1>10. QED  BY <1>8, <1>9

\* check_inbox gives out what nobody delivers, under a batch of its own.
LEMMA RoadLease ==
  ASSUME Inv, OneJob, OneDeliverer, InboxLease, NEW m \in Requests
  PROVE  OnRoad!Step(m)
  <1> DEFINE live == inbox.picked \cap held
  <1>1. /\ UNCHANGED <<lane, held, told>>
        /\ item'[m] = IF m \in live THEN [item[m] EXCEPT !.batch = batches + 1, !.leaseAge = inbox.age]
                      ELSE item[m]
    BY RequestFacts DEF InboxLease
  <1>2. CASE m \notin live
    BY <1>1, <1>2, RoadQuiet
  <1>3. CASE m \in live
    <2>1. m \in held /\ m \in held'
      BY <1>1, <1>3
    <2>2. told[m] = "queued" /\ told'[m] = "queued"
      BY <1>1, <2>1 DEF Inv, HeldOK
    <2>3. flush.pc = "off"
      BY DEF InboxLease, OneDeliverer
    <2>4. \A i \in DOMAIN lane : lane[i].msg # m
      BY <2>1, <2>3, FlushTakesUp
    <2>5. PlaceOf(m) = "held" /\ ~Late(m)
      BY <2>1, <2>2, <2>4, PlaceWithout
    <2>6. PlaceOf(m)' = "held" /\ ~Late(m)'
      BY <1>1, <2>1, <2>5, PlaceKept
    <2>7. Taken(m)'
      <3>1. item[m] \in Items /\ batches \in Nat
        BY RequestFacts, BoundsAssumption DEF Inv, TypeOK, QueueTypeOK, CallTypeOK
      <3>2. item'[m].batch = batches + 1
        BY <1>1, <1>3, <3>1 DEF Items
      <3>3. QED  BY <3>1, <3>2 DEF Taken
    <2>8. QED  BY <2>1, <2>5, <2>6, <2>7, RoadSteps
  <1>4. QED  BY <1>2, <1>3

LEMMA RoadCrash ==
  ASSUME Inv, OneJob, Crash, NEW m \in Requests
  PROVE  OnRoad!Step(m)
  <1>1. DOMAIN lane' = {}
    BY EmptySeq, LenProperties DEF Crash
  <1>2. UNCHANGED <<held, item>> /\ (told'[m] = "new" <=> told[m] = "new")
    BY RequestFacts DEF Crash, queueVars
  <1>3. QueueStays(m)
    BY <1>2 DEF QueueStays, Taken
  <1>4. /\ PlaceOf(m)' = IF told[m] = "new" THEN "new" ELSE IF m \in held THEN "held" ELSE "over"
        /\ ~Late(m)'
    BY <1>1, <1>2 DEF PlaceOf, Late, JobsOf, Stray
  <1>5. CASE \A i \in DOMAIN lane : lane[i].msg # m
    <2>1. PlaceOf(m)' = PlaceOf(m) /\ (Late(m)' <=> Late(m))
      BY <1>4, <1>5, PlaceWithout
    <2>2. QED  BY <1>3, <2>1, RoadSteps
  <1>6. ASSUME NEW i \in DOMAIN lane, lane[i].msg = m
        PROVE  OnRoad!Step(m)
    <2>1. PlaceOf(m) \in {"flight", "stray", "sent"} /\ told[m] # "new"
      BY <1>6, PlaceInLane DEF PlaceAt
    <2>2. CASE m \in held
      BY <1>3, <1>4, <2>1, <2>2, RoadSteps
    <2>3. CASE m \notin held
      BY <1>3, <1>4, <2>1, <2>3, RequestFacts, RoadSteps DEF NothingLeft, QueueStays
    <2>4. QED  BY <2>2, <2>3
  <1>7. QED  BY <1>5, <1>6

\* What leaves the queue otherwise ends; time, the agent and its sockets move nothing.
LEMMA RoadRest ==
  ASSUME Inv, OneJob, NEW m \in Requests,
         \/ FlushStart \/ FlushPlan \/ FlushStop \/ InboxCall \/ InboxAgain \/ InboxFail
         \/ AgeHeld \/ (Environment /\ ~Crash) \/ UNCHANGED vars
  PROVE  OnRoad!Step(m)
  <1> USE DEF queueVars
  <1>1. item \in [Msgs -> Items] /\ m \in Msgs /\ lane \in Seq(Job)
    BY RequestFacts DEF Inv, TypeOK, QueueTypeOK
  <1>2. ASSUME NEW S, Remove(S), UNCHANGED <<told, lane>>
        PROVE  OnRoad!Step(m)
    <2>1. CASE m \in S /\ m \in held
      BY <1>1, <1>2, <2>1, RoadLeaves DEF Remove
    <2>2. CASE m \notin S \/ m \notin held
      <3>1. (m \in held' <=> m \in held) /\ item'[m] = item[m]
        BY <1>1, <1>2, <2>2, RequestFacts DEF Remove
      <3>2. QED  BY <1>2, <3>1, RoadQuiet
    <2>3. QED  BY <2>1, <2>2
  <1>3. CASE FlushStart \/ FlushPlan \/ FlushStop \/ InboxAgain \/ InboxFail \/ Succeed \/ TurnChange
             \/ UNCHANGED vars
    BY <1>3, RoadQuiet DEF FlushStart, FlushPlan, FlushStop, InboxAgain, InboxFail, Succeed, TurnChange, vars
  <1>4. CASE InboxCall
    BY <1>2, <1>4, RoadQuiet DEF InboxCall, InboxTake, InboxRead
  <1>5. CASE Cleanup
    BY <1>2, <1>5 DEF Cleanup
  <1>6. CASE AgeHeld
    <2>1. /\ held' = held \ Overdue /\ UNCHANGED <<told, lane>>
          /\ item'[m] = CASE m \in Overdue -> Fresh
                          [] m \in Unnotified -> [item[m] EXCEPT !.notified = TRUE]
                          [] OTHER -> item[m]
      BY <1>1, <1>6 DEF AgeHeld
    <2>2. CASE m \in Overdue
      <3>1. m \in held \ held' /\ item'[m] = Fresh
        BY <2>1, <2>2 DEF Overdue, Unnotified
      <3>2. QED  BY <2>1, <3>1, RoadLeaves
    <2>3. CASE m \notin Overdue
      <3>1. item'[m].batch = item[m].batch
        BY <1>1, <2>1, <2>3 DEF Items
      <3>2. QED  BY <2>1, <2>3, <3>1, RoadQuiet
    <2>4. QED  BY <2>2, <2>3
  <1>7. CASE Kill \/ Register \/ Disconnect
    <2>1. CloseSocket /\ UNCHANGED <<held, item, told>>
      BY <1>7 DEF Kill, Register, Disconnect
    <2>2. /\ DOMAIN lane' = DOMAIN lane
          /\ \A i \in DOMAIN lane : /\ lane'[i].msg = lane[i].msg /\ lane'[i].via = lane[i].via
                                    /\ lane'[i].phase = lane[i].phase
      BY <1>1, <2>1, CloseSocketKeepsJobs
    <2>3. PlaceOf(m)' = PlaceOf(m) /\ (Late(m)' <=> Late(m))
      BY <2>1, <2>2, PlaceKept
    <2>4. QueueStays(m)
      BY <2>1 DEF QueueStays, Taken
    <2>5. QED  BY <2>3, <2>4, RoadSteps
  <1>8. CASE Tick
    <2>1. UNCHANGED <<held, told, lane>>
      BY <1>8 DEF Tick
    <2>2. item'[m].batch = item[m].batch
      BY <1>1, <1>8 DEF Tick, Items
    <2>3. QED  BY <2>1, <2>2, RoadQuiet
  <1>9. QED
    BY <1>3, <1>4, <1>5, <1>6, <1>7, <1>8 DEF Environment

LEMMA VettedStep ==
  ASSUME Inv, VettedOK, [Next]_vars
  PROVE  VettedOK'
  <1> USE DEF VettedOK
  <1>1. lane \in Seq(Job) /\ TypeOK
    BY DEF Inv, TypeOK
  <1>2. ASSUME NEW j \in Job, lane' = Append(lane, j), j.phase = "queued"
        PROVE  VettedOK'
    BY <1>1, <1>2, LaneAppend
  <1>3. CASE Arrive
    <2>1. PICK x \in Msgs : Accept(x) \/ AcceptOffline(x)
      BY <1>3 DEF Arrive
    <2>2. CASE Accept(x)
      <3>1. PICK j \in Job : lane' = Append(lane, j) /\ j.phase = "queued"
        BY <2>2, NewJobType DEF Accept, NewJob
      <3>2. QED  BY <1>2, <3>1
    <2>3. CASE AcceptOffline(x)
      BY <2>3 DEF AcceptOffline
    <2>4. QED  BY <2>1, <2>2, <2>3
  <1>4. CASE Deliver
    <2>1. PICK job \in Job : job = lane[1] /\ 1 \in DOMAIN lane /\ lane # << >>
      BY <1>1, <1>4, DeliverShape, HeadFacts
    <2>2. CASE lane' = Tail(lane)
      BY <1>1, <2>1, <2>2, LaneTail
    <2>3. ASSUME NEW j \in Job, lane' = [lane EXCEPT ![1] = j], j.phase = "vetted" => j.msg \in Pinned
          PROVE  VettedOK'
      BY <1>1, <2>1, <2>3, LaneStep
    <2>4. CASE Vet
      <3>1. PICK j \in Job : j = [job EXCEPT !.phase = "vetted"] /\ j.msg = job.msg
        BY JobUpdates, JobKeeps
      <3>2. QED  BY <2>1, <2>3, <2>4, <3>1 DEF Vet
    <2>5. CASE Probe
      <3>1. PICK seen : lane' = [lane EXCEPT ![1] = [@ EXCEPT !.phase = "probed",
                          !.hold = HoldsUntilIdle(lane[1].msg, lane[1].late, seen)]]
        BY <2>5 DEF Probe
      <3> DEFINE b == HoldsUntilIdle(lane[1].msg, lane[1].late, seen)
      <3>2. b \in BOOLEAN
        BY DEF HoldsUntilIdle
      <3>3. lane' = [lane EXCEPT ![1] = [job EXCEPT !.phase = "probed", !.hold = b]]
        BY <2>1, <3>1
      <3> HIDE DEF b
      <3>4. [job EXCEPT !.phase = "probed", !.hold = b] \in Job
            /\ [job EXCEPT !.phase = "probed", !.hold = b].phase = "probed"
        <4>1. [job EXCEPT !.phase = "probed", !.hold = b] \in Job  BY <3>2, JobUpdates
        <4>2. [job EXCEPT !.phase = "probed", !.hold = b].phase = "probed"  BY <3>2, JobKeeps
        <4>3. QED  BY <4>1, <4>2
      <3>5. QED  BY <2>3, <3>3, <3>4
    <2>6. CASE Send /\ Kind[lane[1].msg] = "agent"
      <3>1. lane' = [lane EXCEPT ![1] = [job EXCEPT !.phase = "written"]]
        BY <2>1, <2>6 DEF Send
      <3>2. [job EXCEPT !.phase = "written"] \in Job  BY JobUpdates
      <3>3. [job EXCEPT !.phase = "written"].phase = "written"  BY JobKeeps
      <3>4. QED  BY <2>3, <3>1, <3>2, <3>3
    <2>7. CASE Gate
      <3>1. lane' = [lane EXCEPT ![1] = [job EXCEPT !.phase = "gated"]]
        BY <2>1, <2>7 DEF Gate
      <3>2. [job EXCEPT !.phase = "gated"] \in Job  BY JobUpdates
      <3>3. [job EXCEPT !.phase = "gated"].phase = "gated"  BY JobKeeps
      <3>4. QED  BY <2>3, <3>1, <3>2, <3>3
    <2>8. QED
      BY <1>4, <2>2, <2>4, <2>5, <2>6, <2>7
      DEF Deliver, Fail, Withdraw, Expel, PutBack, LedgerHold, Send, Return
  <1>5. CASE FlushNext
    <2>1. PICK x \in held : lane' = Append(lane, NewJob(x, "flush", x \in flush.late))
      BY <1>5 DEF FlushNext
    <2>2. x \in Msgs /\ (x \in flush.late) \in BOOLEAN
      BY DEF Inv, TypeOK, QueueTypeOK
    <2>3. PICK j \in Job : lane' = Append(lane, j) /\ j.phase = "queued"
      BY <2>1, <2>2, NewJobType DEF NewJob
    <2>4. QED  BY <1>2, <2>3
  <1>6. CASE Kill \/ Register \/ Disconnect
    <2>1. CloseSocket
      BY <1>6 DEF Kill, Register, Disconnect
    <2>2. QED  BY <1>1, <2>1, CloseSocketKeepsJobs
  <1>7. CASE Crash
    BY <1>7, EmptySeq, LenProperties DEF Crash
  <1>8. CASE lane' = lane
    BY <1>8
  <1>9. QED
    BY <1>3, <1>4, <1>5, <1>6, <1>7, <1>8
    DEF Next, Flush, FlushStart, FlushPlan, FlushStop, InboxCall, InboxTake, InboxRead, InboxFinish,
        InboxAgain, InboxLease, InboxFail, AgeHeld, Environment, Cleanup, Succeed, TurnChange, Tick, vars

LEMMA RoadStep ==
  ASSUME Inv, OneDeliverer, VettedOK, [Next]_vars, NEW m \in Requests
  PROVE  OnRoad!Step(m)
  <1>1. OneJob
    BY OneJobPerMessage
  <1>2. CASE Arrive
    BY <1>1, <1>2, RoadArrive
  <1>3. CASE Deliver
    BY <1>1, <1>3, RoadHead, RoadOthers
  <1>4. CASE FlushNext \/ InboxLease
    BY <1>1, <1>4, RoadFlush, RoadLease
  <1>5. CASE Crash
    BY <1>1, <1>5, RoadCrash
  <1>6. CASE \/ FlushStart \/ FlushPlan \/ FlushStop \/ InboxCall \/ InboxAgain \/ InboxFail
             \/ AgeHeld \/ (Environment /\ ~Crash) \/ UNCHANGED vars
    BY <1>1, <1>6, RoadRest
  <1>7. QED  BY <1>2, <1>3, <1>4, <1>5, <1>6 DEF Next, Flush, InboxFinish

\* A message of an agent that is not addressed to one session takes only the steps of RequestRoad,
\* on which the book of return routes relies: whatever lane, flush, inbox, sweep, kill and restarts do.
THEOREM AgentsFollowRoad == Spec => FollowsRoad
  <1>1. Init => VettedOK
    BY EmptySeq, LenProperties DEF Init, VettedOK
  <1>2. Inv /\ VettedOK /\ [Next]_vars => VettedOK'
    BY VettedStep
  <1>3. Init => OnRoad!Init
    <2> SUFFICES ASSUME Init PROVE OnRoad!Init  OBVIOUS
    <2>1. Inv /\ DOMAIN lane = {} /\ held = {}
      BY InvInit, EmptySeq, LenProperties DEF Init
    <2>2. \A m \in Requests : PlaceOf(m) = "new" /\ ~Late(m) /\ ~Taken(m)
      BY <2>1, PlaceOfNew, RequestFacts DEF Init
    <2>3. QED  BY <2>1, <2>2 DEF OnRoad!Init, Late, Taken
  <1>4. Inv /\ OneDeliverer /\ VettedOK /\ [Next]_vars => OnRoad!Next
    <2> SUFFICES ASSUME Inv, OneDeliverer, VettedOK, [Next]_vars PROVE OnRoad!Next  OBVIOUS
    <2>1. \A m \in Requests : OnRoad!Step(m)
      BY RoadStep
    <2>2. \A m \in Requests : PlaceOf(m)' \in OnRoad!Places
      BY DEF PlaceOf, OnRoad!Places
    <2>3. QED  BY <2>1, <2>2 DEF OnRoad!Next
  <1>5. QED
    BY <1>1, <1>2, <1>3, <1>4, InvAlways, AlwaysOneDeliverer, PTL DEF Spec, FollowsRoad, OnRoad!Spec
=============================================================================
