------------------------ MODULE ReturnRoutingProofs ------------------------
(* What holds of ReturnRouting for any requests, callers and handlers.     *)
EXTENDS ReturnRouting, TLAPS

-----------------------------------------------------------------------------
(* The inductive invariant. *)

Reached == had \cup Gone

\* Where a request is tells whether the target received it, and whether it is in the queue.
PlaceOK ==
  \A r \in Reqs :
    /\ place[r] \in {"sent", "given"} \/ r \in leased => r \in had
    /\ place[r] = "held" => r \in queued
    /\ r \in booked => place[r] \notin {"new", "refused"}

\* What an answer in progress has read reached the target, or is lost.
ViewsReached == \A h \in Handlers : answers[h].view \subseteq Reached

FatesOK == WaitingNeverExpires /\ AnswersReceived
Inv == TypeOK /\ PlaceOK /\ ViewsReached /\ FatesOK /\ RouteKept

-----------------------------------------------------------------------------
(* The book. *)

LEMMA SeenReached ==
  ASSUME TypeOK, PlaceOK, NEW c \in Callers
  PROVE  Seen(c) \subseteq Reqs /\ Seen(c) \subseteq Reached
  BY DEF TypeOK, Places, PlaceOK, Seen, Unseen, Of, Reached, Gone

LEMMA OverdueReached ==
  ASSUME TypeOK, PlaceOK
  PROVE  Overdue \subseteq Reqs /\ Overdue \subseteq Reached
  BY DEF TypeOK, Places, PlaceOK, Overdue, Unseen, Reached, Gone

\* Only a step that sends a request changes what the target received; what is lost stays lost.
LEMMA ReachedGrows ==
  ASSUME TypeOK, PlaceOK, had \subseteq had',
         \A r \in Reqs : place[r] = "lost" => place'[r] = "lost"
  PROVE  Reached \subseteq Reached'
  BY DEF Reached, Gone

LEMMA RecordType ==
  ASSUME fate \in [Reqs -> Fates], NEW S, NEW how \in Fates, Record(S, how)
  PROVE  fate' \in [Reqs -> Fates]
  BY DEF Record

\* What leaves the book is recorded.
LEMMA RecordKeepsRoutes ==
  ASSUME TypeOK, RouteKept, NEW S, NEW how \in Fates \ {"none"}, Record(S, how),
         booked' = booked \ S, UNCHANGED place
  PROVE  RouteKept'
  BY DEF TypeOK, RouteKept, Record

LEMMA RecordReached ==
  ASSUME TypeOK, FatesOK, NEW S, NEW how \in Fates, Record(S, how),
         how \in {"expired", "answered", "silent"} => S \subseteq Reached,
         UNCHANGED <<place, queued, leased, had>>
  PROVE  FatesOK'
  BY DEF TypeOK, FatesOK, WaitingNeverExpires, AnswersReceived, With, Record, Reached, Gone

LEMMA ConsumeType ==
  ASSUME TypeOK, NEW S, Consume(S)
  PROVE  stale' \subseteq booked' /\ booked' \subseteq Reqs
  BY DEF TypeOK, Consume

LEMMA NoteDeliveredType ==
  ASSUME TypeOK, NEW asking \in SUBSET Callers, NEW idle \in BOOLEAN, NoteDelivered(asking, idle)
  PROVE  trigger' \in TriggerType
  <1>1. trigger \in TriggerType /\ last \in TriggerType  BY DEF TypeOK
  <1>2. [last EXCEPT !.batch = FALSE] \in TriggerType  BY <1>1 DEF TriggerType
  <1>3. [trigger EXCEPT !.askers = @ \cup asking] \in TriggerType  BY <1>1 DEF TriggerType
  <1>4. [known |-> TRUE, askers |-> asking, batch |-> TRUE] \in TriggerType  BY DEF TriggerType
  <1>5. QED  BY <1>1, <1>2, <1>3, <1>4 DEF NoteDelivered

LEMMA NoTriggerType == NoTrigger \in TriggerType
  BY DEF NoTrigger, TriggerType

LEMMA AskersType ==
  ASSUME TypeOK
  PROVE  Askers \subseteq Callers
  BY DEF TypeOK, Askers, TriggerType

-----------------------------------------------------------------------------
(* Types. *)

LEMMA BeginType ==
  ASSUME answers \in [Handlers -> AnswerType], NEW answer \in AnswerType, Begin(answer)
  PROVE  answers' \in [Handlers -> AnswerType]
  BY DEF Begin

LEMMA EndType ==
  ASSUME answers \in [Handlers -> AnswerType], NEW h \in Handlers, End(h)
  PROVE  answers' \in [Handlers -> AnswerType]
  BY DEF End, NoAnswer, AnswerType

LEMMA PushGoesOn ==
  ASSUME answers \in [Handlers -> AnswerType], NEW h \in Handlers, NEW S \in SUBSET Reqs, Push(h, S)
  PROVE  /\ answers' \in [Handlers -> AnswerType]
         /\ \A k \in Handlers : answers'[k].view = IF k = h THEN S ELSE answers[k].view
  BY DEF Push, AnswerType

LEMMA CloseTurnType ==
  ASSUME TypeOK, CloseTurn
  PROVE  {trigger', last'} \subseteq TriggerType
  BY NoTriggerType, AskersType DEF CloseTurn, TriggerType

LEMMA RoadType == TypeOK /\ PlaceOK /\ Road => TypeOK'
  <1> SUFFICES ASSUME TypeOK, PlaceOK, Road PROVE TypeOK'  OBVIOUS
  <1>1. ASSUME NEW r \in Reqs, Ask(r) \/ Refuse(r) \/ PutBack(r) \/ Withdraw(r) \/ Flush(r) \/ GiveUp(r)
        PROVE  TypeOK'
    BY <1>1 DEF Ask, Refuse, PutBack, Withdraw, Flush, GiveUp, Dequeue, TypeOK, Places, turnVars,
                bookVars
  <1>2. ASSUME NEW r \in Reqs, Send(r) PROVE TypeOK'
    <2>1. {Caller[r]} \in SUBSET Callers  BY CallerAssumption
    <2>2. trigger' \in TriggerType  BY <1>2, <2>1, NoteDeliveredType DEF Send
    <2>3. QED  BY <1>2, <2>2 DEF Send, TypeOK, Places, bookVars
  <1>3. ASSUME NEW r \in Reqs, Land(r) \/ TakeInbox(r) \/ Confirm(r) PROVE TypeOK'
    BY <1>3 DEF Land, TakeInbox, Confirm, Dequeue, Touch, TypeOK, PlaceOK, Places, turnVars, bookVars
  <1>4. ASSUME NEW c \in Callers, Notice(c) PROVE TypeOK'
    <2>1. trigger' \in TriggerType  BY <1>4, NoteDeliveredType DEF Notice
    <2>2. QED  BY <1>4, <2>1 DEF Notice, Touch, TypeOK, roadVars
  <1>5. QED  BY <1>1, <1>2, <1>3, <1>4 DEF Road

LEMMA AnsweringType == TypeOK /\ PlaceOK /\ Answering => TypeOK'
  <1> SUFFICES ASSUME TypeOK, PlaceOK, Answering PROVE TypeOK'  OBVIOUS
  <1>0. {"answered", "silent"} \subseteq Fates  BY DEF Fates
  <1>1. CASE TurnStart
    BY <1>1 DEF TurnStart, TypeOK, roadVars, bookVars
  <1>2. CASE Reply
    <2>1. [by |-> "reply", stage |-> "waiting", view |-> {}] \in AnswerType  BY DEF AnswerType
    <2>2. QED  BY <1>2, <2>1, BeginType DEF Reply, TypeOK, roadVars, bookVars, turnVars
  <1>3. CASE Stop
    <2>1. [by |-> "stop", stage |-> "waiting", view |-> {}] \in AnswerType  BY DEF AnswerType
    <2>2. QED  BY <1>3, <2>1, BeginType DEF Stop, TypeOK, roadVars, bookVars
  <1>4. ASSUME NEW c \in Callers, AnswerCaller(c) PROVE TypeOK'
    <2>1. [by |-> "route", stage |-> "pushing", view |-> Seen(c)] \in AnswerType
      BY SeenReached DEF AnswerType
    <2>2. QED  BY <1>4, <2>1, BeginType DEF AnswerCaller, TypeOK, roadVars, bookVars, turnVars
  <1>5. ASSUME NEW h \in Handlers, ReplyRouted(h) PROVE TypeOK'
    <2>1. answers' \in [Handlers -> AnswerType]
      BY <1>5, SeenReached, PushGoesOn, EndType DEF ReplyRouted, TypeOK
    <2>2. QED  BY <1>5, <2>1 DEF ReplyRouted, TypeOK, roadVars, bookVars, turnVars
  <1>6. ASSUME NEW h \in Handlers, AnswerFails(h) PROVE TypeOK'
    BY <1>6, EndType, CloseTurnType DEF AnswerFails, TypeOK, roadVars, bookVars
  <1>7. ASSUME NEW h \in Handlers, Settle(h) PROVE TypeOK'
    <2>1. ASSUME NEW c \in Callers, Push(h, Seen(c)), UNCHANGED <<bookVars, trigger, last>>
          PROVE  TypeOK'
      BY <1>7, <2>1, SeenReached, PushGoesOn DEF Settle, TypeOK, roadVars, bookVars
    <2>2. ASSUME NEW c \in Callers, End(h), Consume(Seen(c)), Record(Seen(c), "silent"), CloseTurn
          PROVE  TypeOK'
      BY <1>0, <1>7, <2>2, ConsumeType, RecordType, EndType, CloseTurnType
      DEF Settle, TypeOK, roadVars
    <2>3. CASE End(h) /\ CloseTurn /\ UNCHANGED bookVars
      BY <1>7, <2>3, EndType, CloseTurnType DEF Settle, TypeOK, roadVars, bookVars
    <2>4. QED  BY <1>7, <2>1, <2>2, <2>3 DEF Settle
  <1>8. ASSUME NEW h \in Handlers, Answered(h) PROVE TypeOK'
    BY <1>0, <1>8, ConsumeType, RecordType, EndType, CloseTurnType DEF Answered, TypeOK, roadVars
  <1>9. QED  BY <1>1, <1>2, <1>3, <1>4, <1>5, <1>6, <1>7, <1>8 DEF Answering

LEMMA HousekeepingType == TypeOK /\ Housekeeping => TypeOK'
  <1> SUFFICES ASSUME TypeOK, Housekeeping PROVE TypeOK'  OBVIOUS
  <1>1. CASE Sweep
    BY <1>1, RecordType DEF Sweep, TypeOK, Fates, roadVars, turnVars
  <1>2. CASE BatchOver
    <2>1. [trigger EXCEPT !.batch = FALSE] \in TriggerType  BY DEF TypeOK, TriggerType
    <2>2. QED  BY <1>2, <2>1 DEF BatchOver, TypeOK, roadVars, bookVars
  <1>3. CASE Crash
    <2>1. place' \in [Reqs -> Places]  BY <1>3 DEF Crash, TypeOK, Places
    <2>2. answers' \in [Handlers -> AnswerType]  BY <1>3 DEF Crash, NoAnswer, AnswerType
    <2>3. crashes' \in 0 .. MaxCrashes  BY <1>3, BoundsAssumption DEF Crash, TypeOK
    <2>4. QED  BY <1>3, <2>1, <2>2, <2>3, NoTriggerType DEF Crash, TypeOK, bookVars
  <1>4. ASSUME NEW S, TakeOver(S) PROVE TypeOK'
    BY <1>4, RecordType DEF TakeOver, TypeOK, Fates, roadVars, turnVars
  <1>5. ASSUME NEW r \in Reqs, Age(r) PROVE TypeOK'
    BY <1>5 DEF Age, TypeOK, roadVars, turnVars
  <1>6. QED  BY <1>1, <1>2, <1>3, <1>4, <1>5 DEF Housekeeping

LEMMA TypeStep == TypeOK /\ PlaceOK /\ [Next]_vars => TypeOK'
  <1>1. TypeOK /\ UNCHANGED vars => TypeOK'
    BY DEF vars, roadVars, bookVars, turnVars, TypeOK
  <1>2. QED  BY <1>1, RoadType, AnsweringType, HousekeepingType DEF Next

-----------------------------------------------------------------------------
(* Places and views. *)

LEMMA PlaceStep == TypeOK /\ PlaceOK /\ [Next]_vars => PlaceOK'
  <1> SUFFICES ASSUME TypeOK, PlaceOK, [Next]_vars PROVE PlaceOK'  OBVIOUS
  <1>1. CASE Road
    <2>1. ASSUME NEW r \in Reqs, Ask(r) \/ Refuse(r) \/ PutBack(r) \/ Withdraw(r) \/ Flush(r) \/ GiveUp(r)
          PROVE  PlaceOK'
      BY <2>1 DEF Ask, Refuse, PutBack, Withdraw, Flush, GiveUp, Dequeue, TypeOK, PlaceOK, bookVars
    <2>2. ASSUME NEW r \in Reqs, Send(r) \/ Land(r) \/ TakeInbox(r) \/ Confirm(r)
          PROVE  PlaceOK'
      BY <2>2 DEF Send, Land, TakeInbox, Confirm, Dequeue, TypeOK, PlaceOK, bookVars
    <2>3. ASSUME NEW c \in Callers, Notice(c) PROVE PlaceOK'
      BY <2>3 DEF Notice, PlaceOK, roadVars
    <2>4. QED  BY <1>1, <2>1, <2>2, <2>3 DEF Road
  <1>2. CASE Answering
    <2>1. booked' \subseteq booked /\ UNCHANGED <<place, queued, leased, had>>
      BY <1>2 DEF Answering, TurnStart, Reply, Stop, AnswerCaller, ReplyRouted, AnswerFails, Settle,
                  Answered, Consume, roadVars, bookVars
    <2>2. QED  BY <2>1 DEF PlaceOK
  <1>3. CASE Crash
    BY <1>3 DEF Crash, TypeOK, PlaceOK, bookVars
  <1>4. CASE Housekeeping /\ ~Crash
    <2>1. booked' \subseteq booked /\ UNCHANGED <<place, queued, leased, had>>
      BY <1>4 DEF Housekeeping, Sweep, BatchOver, TakeOver, Age, roadVars, bookVars
    <2>2. QED  BY <2>1 DEF PlaceOK
  <1>5. CASE UNCHANGED vars
    BY <1>5 DEF vars, roadVars, bookVars, PlaceOK
  <1>6. QED  BY <1>1, <1>2, <1>3, <1>4, <1>5 DEF Next

LEMMA ReachedStep == TypeOK /\ PlaceOK /\ [Next]_vars => Reached \subseteq Reached'
  <1> SUFFICES ASSUME TypeOK, PlaceOK, [Next]_vars PROVE Reached \subseteq Reached'  OBVIOUS
  <1>1. CASE Road
    <2>1. ASSUME NEW r \in Reqs, Ask(r) \/ Refuse(r) \/ PutBack(r) \/ Withdraw(r) \/ Flush(r) \/ GiveUp(r)
          PROVE  Reached \subseteq Reached'
      BY <2>1, ReachedGrows DEF Ask, Refuse, PutBack, Withdraw, Flush, GiveUp, TypeOK, PlaceOK
    <2>2. ASSUME NEW r \in Reqs, Send(r) \/ Land(r) \/ TakeInbox(r) \/ Confirm(r)
          PROVE  Reached \subseteq Reached'
      BY <2>2, ReachedGrows DEF Send, Land, TakeInbox, Confirm, TypeOK
    <2>3. ASSUME NEW c \in Callers, Notice(c) PROVE Reached \subseteq Reached'
      BY <2>3, ReachedGrows DEF Notice, roadVars
    <2>4. QED  BY <1>1, <2>1, <2>2, <2>3 DEF Road
  <1>2. CASE Answering
    BY <1>2, ReachedGrows DEF Answering, TurnStart, Reply, Stop, AnswerCaller, ReplyRouted,
                              AnswerFails, Settle, Answered, roadVars
  <1>3. CASE Crash
    BY <1>3, ReachedGrows DEF Crash
  <1>4. CASE Housekeeping /\ ~Crash
    BY <1>4, ReachedGrows DEF Housekeeping, Sweep, BatchOver, TakeOver, Age, roadVars
  <1>5. CASE UNCHANGED vars
    BY <1>5, ReachedGrows DEF vars, roadVars
  <1>6. QED  BY <1>1, <1>2, <1>3, <1>4, <1>5 DEF Next

LEMMA ViewStep == TypeOK /\ PlaceOK /\ ViewsReached /\ [Next]_vars => ViewsReached'
  <1> SUFFICES ASSUME TypeOK, PlaceOK, ViewsReached, [Next]_vars PROVE ViewsReached'  OBVIOUS
  <1>1. Reached \subseteq Reached'  BY ReachedStep
  <1>2. CASE UNCHANGED answers
    BY <1>1, <1>2 DEF ViewsReached
  <1>3. ASSUME NEW answer, Begin(answer), answer.view \subseteq Reached PROVE ViewsReached'
    BY <1>1, <1>3 DEF Begin, ViewsReached, TypeOK
  <1>4. ASSUME NEW h \in Handlers, End(h) PROVE ViewsReached'
    BY <1>1, <1>4 DEF End, NoAnswer, ViewsReached, TypeOK
  <1>5. ASSUME NEW h \in Handlers, NEW c \in Callers, Push(h, Seen(c)) PROVE ViewsReached'
    BY <1>1, <1>5, SeenReached, PushGoesOn DEF ViewsReached, TypeOK
  <1>6. CASE Road
    BY <1>2, <1>6 DEF Road, Ask, Refuse, PutBack, Withdraw, Flush, Send, Land, TakeInbox, Confirm, GiveUp, Notice
  <1>7. CASE Answering
    <2>1. CASE TurnStart
      BY <1>2, <2>1 DEF TurnStart
    <2>2. CASE Reply \/ Stop
      BY <1>3, <2>2 DEF Reply, Stop
    <2>3. ASSUME NEW c \in Callers, AnswerCaller(c) PROVE ViewsReached'
      BY <1>3, <2>3, SeenReached DEF AnswerCaller
    <2>4. ASSUME NEW h \in Handlers, ReplyRouted(h) \/ AnswerFails(h) \/ Settle(h) \/ Answered(h)
          PROVE  ViewsReached'
      BY <1>4, <1>5, <2>4 DEF ReplyRouted, AnswerFails, Settle, Answered
    <2>5. QED  BY <1>7, <2>1, <2>2, <2>3, <2>4 DEF Answering
  <1>8. CASE Crash
    BY <1>8 DEF Crash, NoAnswer, ViewsReached
  <1>9. CASE Housekeeping /\ ~Crash
    BY <1>2, <1>9 DEF Housekeeping, Sweep, BatchOver, TakeOver, Age
  <1>10. CASE UNCHANGED vars
    BY <1>2, <1>10 DEF vars
  <1>11. QED  BY <1>6, <1>7, <1>8, <1>9, <1>10 DEF Next

-----------------------------------------------------------------------------
(* Fates and routes. *)

\* Nothing leaves the book, and what was received stays received.
LEMMA FatesQuiet ==
  ASSUME FatesOK, UNCHANGED fate, Reached \subseteq Reached'
  PROVE  FatesOK'
  BY DEF FatesOK, WaitingNeverExpires, AnswersReceived, With, Reached

LEMMA FatesStep == TypeOK /\ PlaceOK /\ ViewsReached /\ FatesOK /\ [Next]_vars => FatesOK'
  <1> SUFFICES ASSUME TypeOK, PlaceOK, ViewsReached, FatesOK, [Next]_vars PROVE FatesOK'  OBVIOUS
  <1>0. {"expired", "answered", "silent", "cleared"} \subseteq Fates  BY DEF Fates
  <1>1. CASE UNCHANGED fate
    BY <1>1, ReachedStep, FatesQuiet
  <1>2. ASSUME NEW h \in Handlers, Settle(h) PROVE FatesOK'
    <2>1. ASSUME NEW c \in Callers, Record(Seen(c), "silent") PROVE FatesOK'
      BY <1>0, <1>2, <2>1, SeenReached, RecordReached DEF Settle, roadVars
    <2>2. CASE UNCHANGED bookVars
      BY <1>1, <2>2 DEF bookVars
    <2>3. QED  BY <1>2, <2>1, <2>2 DEF Settle
  <1>3. ASSUME NEW h \in Handlers, Answered(h) PROVE FatesOK'
    BY <1>0, <1>3, RecordReached DEF Answered, ViewsReached, roadVars
  <1>4. CASE Sweep
    BY <1>0, <1>4, OverdueReached, RecordReached DEF Sweep, roadVars
  <1>5. ASSUME NEW S, TakeOver(S) PROVE FatesOK'
    BY <1>0, <1>5, RecordReached DEF TakeOver, roadVars
  <1>6. CASE Road
    BY <1>1, <1>6 DEF Road, Ask, Refuse, PutBack, Withdraw, Flush, Send, Land, TakeInbox, Confirm, GiveUp,
                      Notice, bookVars
  <1>7. CASE Answering
    <2>1. CASE TurnStart \/ Reply \/ Stop
      BY <1>1, <2>1 DEF TurnStart, Reply, Stop, bookVars
    <2>2. ASSUME NEW c \in Callers, AnswerCaller(c) PROVE FatesOK'
      BY <1>1, <2>2 DEF AnswerCaller, bookVars
    <2>3. ASSUME NEW h \in Handlers, ReplyRouted(h) \/ AnswerFails(h) PROVE FatesOK'
      BY <1>1, <2>3 DEF ReplyRouted, AnswerFails, bookVars
    <2>4. QED  BY <1>2, <1>3, <1>7, <2>1, <2>2, <2>3 DEF Answering
  <1>8. CASE BatchOver \/ Crash \/ \E r \in Reqs : Age(r)
    BY <1>1, <1>8 DEF BatchOver, Crash, Age, bookVars
  <1>9. CASE UNCHANGED vars
    BY <1>1, <1>9 DEF vars, bookVars
  <1>10. QED  BY <1>4, <1>5, <1>6, <1>7, <1>8, <1>9 DEF Next, Housekeeping

LEMMA RouteStep == TypeOK /\ RouteKept /\ [Next]_vars => RouteKept'
  <1> SUFFICES ASSUME TypeOK, RouteKept, [Next]_vars PROVE RouteKept'  OBVIOUS
  <1>0. {"expired", "answered", "silent", "cleared"} \subseteq Fates \ {"none"}  BY DEF Fates
  <1>1. CASE UNCHANGED <<place, booked, fate>>
    BY <1>1 DEF RouteKept
  <1>2. CASE Road
    <2>1. ASSUME NEW r \in Reqs, Ask(r) \/ Refuse(r) PROVE RouteKept'
      BY <2>1 DEF Ask, Refuse, TypeOK, RouteKept
    <2>2. ASSUME NEW r \in Reqs, \/ PutBack(r) \/ Withdraw(r) \/ Flush(r) \/ Send(r) \/ Land(r)
                                \/ TakeInbox(r) \/ Confirm(r) \/ GiveUp(r)
          PROVE  RouteKept'
      <3>1. /\ UNCHANGED <<booked, fate>>
            /\ \A q \in Reqs : place[q] \in {"new", "refused"} => place'[q] = place[q]
        BY <2>2 DEF PutBack, Withdraw, Flush, Send, Land, TakeInbox, Confirm, GiveUp, TypeOK, bookVars
      <3>2. QED  BY <3>1 DEF RouteKept
    <2>3. ASSUME NEW c \in Callers, Notice(c) PROVE RouteKept'
      BY <1>1, <2>3 DEF Notice, roadVars
    <2>4. QED  BY <1>2, <2>1, <2>2, <2>3 DEF Road
  <1>3. ASSUME NEW S, Consume(S), Record(S, "answered") \/ Record(S, "silent"), UNCHANGED place
        PROVE  RouteKept'
    BY <1>0, <1>3, RecordKeepsRoutes DEF Consume
  <1>4. CASE Answering
    <2>1. CASE TurnStart \/ Reply \/ Stop
      BY <1>1, <2>1 DEF TurnStart, Reply, Stop, roadVars, bookVars
    <2>2. ASSUME NEW c \in Callers, AnswerCaller(c) PROVE RouteKept'
      BY <1>1, <2>2 DEF AnswerCaller, roadVars, bookVars
    <2>3. ASSUME NEW h \in Handlers, ReplyRouted(h) \/ AnswerFails(h) PROVE RouteKept'
      BY <1>1, <2>3 DEF ReplyRouted, AnswerFails, roadVars, bookVars
    <2>4. ASSUME NEW h \in Handlers, Settle(h) \/ Answered(h) PROVE RouteKept'
      BY <1>1, <1>3, <2>4 DEF Settle, Answered, roadVars, bookVars
    <2>5. QED  BY <1>4, <2>1, <2>2, <2>3, <2>4 DEF Answering
  <1>5. CASE Sweep
    BY <1>0, <1>5, RecordKeepsRoutes DEF Sweep, roadVars
  <1>6. ASSUME NEW S, TakeOver(S) PROVE RouteKept'
    <2>1. booked' = booked \ (booked \cap S)  BY <1>6 DEF TakeOver
    <2>2. QED  BY <1>0, <1>6, <2>1, RecordKeepsRoutes DEF TakeOver, roadVars
  <1>7. CASE Crash
    <2>1. \A r \in Reqs : place[r] \in {"new", "refused"} => place'[r] = place[r]
      BY <1>7 DEF Crash
    <2>2. QED  BY <1>7, <2>1 DEF Crash, RouteKept, bookVars
  <1>8. CASE BatchOver \/ \E r \in Reqs : Age(r)
    BY <1>1, <1>8 DEF BatchOver, Age, roadVars, bookVars
  <1>9. CASE UNCHANGED vars
    BY <1>1, <1>9 DEF vars, roadVars, bookVars
  <1>10. QED  BY <1>2, <1>4, <1>5, <1>6, <1>7, <1>8, <1>9 DEF Next, Housekeeping

-----------------------------------------------------------------------------
(* What follows for every behaviour. *)

LEMMA InvInit == Init => Inv
  <1> SUFFICES ASSUME Init PROVE Inv  OBVIOUS
  <1>1. TypeOK
    <2>1. 0 \in 0 .. MaxCrashes  BY BoundsAssumption
    <2>2. answers \in [Handlers -> AnswerType]  BY DEF Init, NoAnswer, AnswerType
    <2>3. QED  BY <2>1, <2>2, NoTriggerType DEF Init, TypeOK, Places, Fates
  <1>2. PlaceOK /\ ViewsReached /\ FatesOK /\ RouteKept
    BY DEF Init, PlaceOK, ViewsReached, NoAnswer, FatesOK, WaitingNeverExpires, AnswersReceived,
           With, RouteKept
  <1>3. QED  BY <1>1, <1>2 DEF Inv

LEMMA InvAlways == Spec => []Inv
  <1>1. Inv /\ [Next]_vars => Inv'
    BY TypeStep, PlaceStep, ViewStep, FatesStep, RouteStep DEF Inv
  <1>2. QED  BY <1>1, InvInit, PTL DEF Spec

\* The book, the turns and the answers in progress keep their types; only booked requests age.
THEOREM TypeCorrect == Spec => []TypeOK
  <1>1. Inv => TypeOK  BY DEF Inv
  <1>2. QED  BY <1>1, InvAlways, PTL

\* No interleaving of answers, deliveries, takeovers and restarts takes the return route of a
\* request that was not answered, ended, expired or cleared.
THEOREM RoutesAreKept == Spec => []RouteKept
  <1>1. Inv => RouteKept  BY DEF Inv
  <1>2. QED  BY <1>1, InvAlways, PTL

\* A request that still waits for its target does not expire, and an answer consumes only requests
\* that the target received, or that left the queue for good.
THEOREM UnreceivedAreKept == Spec => []UnreceivedIsKept
  <1>1. Inv => UnreceivedIsKept  BY DEF Inv, FatesOK, UnreceivedIsKept
  <1>2. QED  BY <1>1, InvAlways, PTL

-----------------------------------------------------------------------------
(* The road of a request. *)

\* The flush delivers what is in a delivery, nothing else in a delivery is queued, and what strays
\* has left the queue.
StopOK == \A r \in Reqs : /\ r \in late => place[r] \in {"flight", "stray", "sent"}
                          /\ r \in queued => place[r] = "held" \/ r \in late
                          /\ place[r] = "stray" => r \notin queued

\* A restart moves the requests that are being delivered, and no others.
LEMMA CrashMoves ==
  ASSUME Crash, NEW r \in Reqs
  PROVE  /\ place[r] \in {"flight", "stray", "sent"} =>
              place'[r] \in IF r \in queued THEN {"held"} ELSE {"lost", "given"}
         /\ place[r] \notin {"flight", "stray", "sent"} => place'[r] = place[r]
         /\ late' = {} /\ queued' = queued /\ leased' = leased
  BY DEF Crash

LEMMA StopStep == TypeOK /\ PlaceOK /\ StopOK /\ [Next]_vars => StopOK'
  <1> SUFFICES ASSUME TypeOK, PlaceOK, StopOK, [Next]_vars PROVE StopOK'  OBVIOUS
  <1>1. CASE UNCHANGED <<place, queued, late>>
    BY <1>1 DEF StopOK
  <1>2. ASSUME NEW r \in Reqs, \/ Ask(r) \/ Refuse(r) \/ PutBack(r) \/ Withdraw(r) \/ Flush(r)
                              \/ Send(r) \/ Land(r) \/ TakeInbox(r) \/ Confirm(r) \/ GiveUp(r)
        PROVE  StopOK'
    BY <1>2 DEF Ask, Refuse, PutBack, Withdraw, Wanted, Flush, Send, Land, TakeInbox, Confirm, GiveUp,
                Dequeue, TypeOK, PlaceOK, StopOK
  <1>3. CASE Crash
    BY <1>3, CrashMoves DEF TypeOK, StopOK
  <1>4. CASE (\E c \in Callers : Notice(c)) \/ Answering \/ (Housekeeping /\ ~Crash) \/ UNCHANGED vars
    BY <1>1, <1>4 DEF Notice, Answering, TurnStart, Reply, Stop, AnswerCaller, ReplyRouted, AnswerFails,
                Settle, Answered, Housekeeping, Sweep, BatchOver, TakeOver, Age, vars, roadVars
  <1>5. QED  BY <1>2, <1>3, <1>4 DEF Next, Road

LEMMA StopAlways == Spec => [](Inv /\ StopOK)
  <1>1. Init => StopOK
    BY DEF Init, StopOK
  <1>2. Inv /\ StopOK /\ [Next]_vars => StopOK'
    BY StopStep DEF Inv
  <1>3. QED  BY <1>1, <1>2, InvAlways, PTL DEF Spec

\* One request moves, or a restart moves many; the others stay where they are.
LEMMA StopsMove ==
  ASSUME TypeOK, PlaceOK, StopOK, [Next]_vars, NEW r \in Reqs
  PROVE  OnRoad!Step(r)
  <1> DEFINE stops == [q \in Reqs |-> PlaceOf(q)]
  <1>0. stops[r] = PlaceOf(r) /\ stops'[r] = PlaceOf(r)'
    OBVIOUS
  <1> HIDE DEF stops
  <1> USE DEF PlaceOf, OnRoad!Step, OnRoad!Goes, OnRoad!QueueKept, OnRoad!RestKept, OnRoad!Forgotten,
              OnRoad!Wanted, OnRoad!Stays
  <1>1. CASE UNCHANGED <<place, queued, leased, late>>
    BY <1>0, <1>1 DEF stops
  <1>2. ASSUME NEW q \in Reqs, Ask(q) \/ Refuse(q) \/ PutBack(q) \/ Withdraw(q)
        PROVE  OnRoad!Step(r)
    BY <1>0, <1>2 DEF Ask, Refuse, PutBack, Withdraw, Wanted, TypeOK, PlaceOK, StopOK, stops,
                OnRoad!Ask, OnRoad!Refuse, OnRoad!PutBack, OnRoad!Withdraw
  <1>3. ASSUME NEW q \in Reqs, Flush(q) \/ Send(q) \/ TakeInbox(q)
        PROVE  OnRoad!Step(r)
    BY <1>0, <1>3 DEF Flush, Send, TakeInbox, Wanted, TypeOK, PlaceOK, StopOK, stops,
                OnRoad!Flush, OnRoad!Send, OnRoad!TakeInbox
  <1>4. ASSUME NEW q \in Reqs, Land(q) \/ Confirm(q) \/ GiveUp(q)
        PROVE  OnRoad!Step(r)
    BY <1>0, <1>4 DEF Land, Confirm, GiveUp, Dequeue, TypeOK, StopOK, stops,
                OnRoad!Land, OnRoad!Confirm, OnRoad!GiveUp
  <1>5. CASE Crash
    BY <1>0, <1>5, CrashMoves DEF TypeOK, StopOK, OnRoad!Crash, stops
  <1>6. CASE (\E c \in Callers : Notice(c)) \/ Answering \/ (Housekeeping /\ ~Crash) \/ UNCHANGED vars
    BY <1>1, <1>6 DEF Notice, Answering, TurnStart, Reply, Stop, AnswerCaller, ReplyRouted, AnswerFails,
                Settle, Answered, Housekeeping, Sweep, BatchOver, TakeOver, Age, vars, roadVars
  <1>7. QED  BY <1>2, <1>3, <1>4, <1>5, <1>6 DEF Next, Road

\* ReturnRouting asks of the queue, the lane and the flush only what RequestRoad says of them.
THEOREM RequestsFollowRoad == Spec => FollowsRoad
  <1>1. Init => OnRoad!Init
    BY DEF Init, OnRoad!Init, PlaceOf
  <1>2. Inv /\ StopOK /\ Inv' /\ [Next]_vars => OnRoad!Next
    <2> SUFFICES ASSUME Inv, StopOK, Inv', [Next]_vars PROVE OnRoad!Next  OBVIOUS
    <2>1. \A r \in Reqs : PlaceOf(r)' \in OnRoad!Places
      BY DEF Inv, TypeOK, Places, PlaceOf, OnRoad!Places
    <2>2. queued' \cup leased' \cup late' \subseteq Reqs
      BY DEF Inv, TypeOK
    <2>3. \A r \in Reqs : OnRoad!Step(r)
      BY StopsMove DEF Inv
    <2>4. QED  BY <2>1, <2>2, <2>3 DEF OnRoad!Next
  <1>3. QED  BY <1>1, <1>2, StopAlways, PTL DEF Spec, FollowsRoad, OnRoad!Spec
=============================================================================
