--------------------------- MODULE CronRunsProofs ---------------------------
(* What holds of CronRuns for any number of daemons and of faults.          *)
EXTENDS CronRuns, TLAPS

-----------------------------------------------------------------------------
(* The inductive invariant. *)

\* The claim makes one daemon the executor for good: whoever executes the run is its owner.
OneExecutor == \A d \in Daemons : Live(d) => run.owner = d /\ run.status # "none"

\* Steps of an execution that has not come to the prompt.
Before == {"claimed", "creating", "created", "ready", "sending"}

NotSentBefore ==
  /\ run.status = "none" => sent = 0
  /\ \A d \in Daemons : pc[d] \in Before => sent = 0

\* The note of the prompt precedes it and is never taken back.
NotedBefore == \A d \in Daemons : pc[d] = "sending" => run.prompt

\* A stop that was tried has a result to note.
StopKnown == \A d \in Daemons : pc[d] = "stopped" => mem[d].sup # "none"

\* Recovery takes up unfinished records only, so that a verdict is always meant for a record it has
\* read as running.
SawUnfinished == \A d \in Daemons : rec[d].at = "scanned" => Unfinished(rec[d].saw)

VerdictOnRunning == \A d \in Daemons :
  rec[d].to.status # "none" => rec[d].from.status = "running" /\ rec[d].to.status # "running"

NoticeHasVerdict == run.status \in {"none", "running"} => notices = 0

Inv == /\ TypeOK /\ OneExecutor /\ NotSentBefore /\ NotedBefore /\ PromptedOnce
       /\ StopKnown /\ SawUnfinished /\ VerdictOnRunning /\ NoticeHasVerdict /\ OneVerdictNotice
       /\ OwnSessionOnly

-----------------------------------------------------------------------------
(* What an update leaves is of its type again. *)

USE DEF Goto, Fault, Persist, PersistFails, Become, Away, At

LEMMA StatusType ==
  /\ "none" \in Status /\ "running" \in Status /\ "unknown" \in Status /\ "error" \in Status
  /\ \A o \in Outcomes : o \in Status /\ o \notin {"none", "running"}
  /\ "success" \in Outcomes /\ "timeout" \in Outcomes
  BY DEF Status, Outcomes

LEMMA EmptyTypes == NoRun \in Record /\ NoMem \in Mem /\ NoRec \in Rec
<1>1. NoRun \in Record
  BY DEF NoRun, Record, Status, Outcomes, Supervision, OpenSupervision
<1>2. NoMem \in Mem
  BY DEF NoMem, Mem, Outcomes, StopResults
<1>3. NoRec \in Rec
  BY <1>1 DEF NoRec, Rec, Stage, StageOf, Settle, NoSettle, StopResults, NoRun, Status, Outcomes,
     Supervision, OpenSupervision, Rows
<1> QED BY <1>1, <1>2, <1>3

LEMMA StageType == ASSUME NEW r \in Record PROVE StageOf(r) \in Stage
  BY DEF StageOf, Stage, Record

LEMMA RecordUpdates ==
  ASSUME NEW r \in Record
  PROVE  /\ \A s \in Status : [r EXCEPT !.status = s] \in Record
         /\ \A u \in StopResults : [r EXCEPT !.sup = u] \in Record
         /\ [r EXCEPT !.sup = "create-attempted"] \in Record
         /\ [r EXCEPT !.prompt = TRUE] \in Record
         /\ r.status \in Status /\ r.sup \in Supervision /\ r.owner \in Daemons \cup {"none"}
<1>1. ASSUME NEW s \in Status PROVE [r EXCEPT !.status = s] \in Record
  BY DEF Record
<1>2. ASSUME NEW u \in StopResults PROVE [r EXCEPT !.sup = u] \in Record
  BY DEF Record, StopResults, Supervision, OpenSupervision
<1>3. [r EXCEPT !.sup = "create-attempted"] \in Record
  BY DEF Record, Supervision, OpenSupervision
<1>4. [r EXCEPT !.prompt = TRUE] \in Record
  BY DEF Record
<1>5. r.status \in Status /\ r.sup \in Supervision /\ r.owner \in Daemons \cup {"none"}
  BY DEF Record
<1> QED BY <1>1, <1>2, <1>3, <1>4, <1>5

\* The notes of the session, with what the create returned or with what memory still has.
LEMMA SessionUpdates ==
  ASSUME NEW r \in Record
  PROVE  /\ \A s \in BOOLEAN :
              [r EXCEPT !.session = s, !.sup = IF s THEN "supervising" ELSE "needs-review"] \in Record
         /\ [r EXCEPT !.prompt = TRUE, !.session = TRUE, !.sup = "supervising"] \in Record
<1>1. ASSUME NEW s \in BOOLEAN
      PROVE  [r EXCEPT !.session = s, !.sup = IF s THEN "supervising" ELSE "needs-review"] \in Record
  BY DEF Record, Supervision, OpenSupervision
<1>2. [r EXCEPT !.prompt = TRUE, !.session = TRUE, !.sup = "supervising"] \in Record
  BY DEF Record, Supervision, OpenSupervision
<1> QED BY <1>1, <1>2

\* The outcome of an execution; a run has an agent to stop only when it has a temporary one.
LEMMA ResultUpdate ==
  ASSUME NEW r \in Record, NEW o \in {"success", "timeout"}, NEW s \in BOOLEAN
  PROVE  [r EXCEPT !.status = o, !.undone = FALSE, !.sup = IF s THEN "cleanup-pending" ELSE @] \in Record
  BY DEF Record, Status, Outcomes, Supervision, OpenSupervision

LEMMA SettledType ==
  ASSUME NEW r \in Record, NEW to \in Settle
  PROVE  Settled(r, to) \in Record
<1> DEFINE v == IF to.status = "none" THEN r ELSE [r EXCEPT !.status = to.status, !.undone = to.undone]
<1>1. v \in Record
  BY DEF Record, Settle
<1>2. Settled(r, to) = [v EXCEPT !.sup = IF @ = "none" \/ to.sup = "none" THEN @ ELSE to.sup]
  BY DEF Settled
<1> HIDE DEF v
<1>3. CASE v.sup = "none" \/ to.sup = "none"
  <2>1. Settled(r, to) = v
    BY <1>1, <1>2, <1>3 DEF Record
  <2> QED BY <1>1, <2>1
<1>4. CASE v.sup # "none" /\ to.sup # "none"
  <2>1. Settled(r, to) = [v EXCEPT !.sup = to.sup] /\ to.sup \in StopResults
    BY <1>1, <1>2, <1>4 DEF Record, Settle
  <2> QED BY <1>1, <2>1, RecordUpdates
<1> QED BY <1>3, <1>4

LEMMA MemUpdates ==
  ASSUME NEW m \in [Daemons -> Mem], NEW d \in Daemons
  PROVE  /\ \A s \in BOOLEAN : [m EXCEPT ![d].session = s] \in [Daemons -> Mem]
         /\ \A o \in Outcomes : [m EXCEPT ![d].outcome = o] \in [Daemons -> Mem]
         /\ \A u \in {"none"} \cup StopResults : [m EXCEPT ![d].sup = u] \in [Daemons -> Mem]
         /\ m[d].session \in BOOLEAN /\ m[d].outcome \in Outcomes
         /\ m[d].sup \in {"none"} \cup StopResults
<1>1. ASSUME NEW s \in BOOLEAN PROVE [m EXCEPT ![d].session = s] \in [Daemons -> Mem]
  BY DEF Mem
<1>2. ASSUME NEW o \in Outcomes PROVE [m EXCEPT ![d].outcome = o] \in [Daemons -> Mem]
  BY DEF Mem
<1>3. ASSUME NEW u \in {"none"} \cup StopResults PROVE [m EXCEPT ![d].sup = u] \in [Daemons -> Mem]
  BY DEF Mem
<1>4. /\ m[d].session \in BOOLEAN /\ m[d].outcome \in Outcomes
      /\ m[d].sup \in {"none"} \cup StopResults
  BY DEF Mem
<1> QED BY <1>1, <1>2, <1>3, <1>4

\* The forms a recovery's state takes.
LEMMA RecForms ==
  /\ \A r \in Record : Scanned(r) \in Rec
  /\ \A f \in Stage : ToStop(f) \in Rec
  /\ \A f \in Stage, status \in Status, sup \in {"none"} \cup StopResults, undone \in BOOLEAN :
       ToSettle(f, status, sup, undone) \in Rec
<1>1. ASSUME NEW r \in Record PROVE Scanned(r) \in Rec
  BY EmptyTypes DEF Scanned, Rec
<1>2. ASSUME NEW f \in Stage PROVE ToStop(f) \in Rec
  BY EmptyTypes DEF ToStop, Rec
<1>3. ASSUME NEW f \in Stage, NEW status \in Status, NEW sup \in {"none"} \cup StopResults,
             NEW undone \in BOOLEAN
      PROVE  ToSettle(f, status, sup, undone) \in Rec
  BY EmptyTypes DEF ToSettle, Rec, Settle
<1> QED BY <1>1, <1>2, <1>3

LEMMA RecFields ==
  ASSUME NEW x \in Rec
  PROVE  x.saw \in Record /\ x.from \in Stage /\ x.to \in Settle /\ x.rows \in Rows
  BY DEF Rec

-----------------------------------------------------------------------------
(* Every variable keeps its type. *)

LEMMA TypeInit == Init => TypeOK /\ StopKnown
<1> SUFFICES ASSUME Init PROVE TypeOK /\ StopKnown
  OBVIOUS
<1>1. run \in Record /\ mem \in [Daemons -> Mem] /\ rec \in [Daemons -> Rec]
  BY EmptyTypes DEF Init
<1>2. direct \in BOOLEAN /\ late \in BOOLEAN
  BY DEF Init
<1>3. /\ pc \in [Daemons -> Steps] /\ up \subseteq Daemons
      /\ create \in {"no", "flying", "made", "void"} /\ agent \in {"none", "own", "other"}
      /\ sent \in Nat /\ stopped \subseteq {"own", "other"} /\ notices \in Nat
      /\ faults \in 0..MaxFaults
  BY BoundsAssumption DEF Init, Steps
<1>4. StopKnown
  BY DEF Init, StopKnown
<1> QED BY <1>1, <1>2, <1>3, <1>4 DEF TypeOK

LEMMA ExecuteTypes ==
  ASSUME TypeOK, StopKnown, NEW d \in Daemons, Execute(d)
  PROVE  TypeOK' /\ StopKnown'
<1> USE BoundsAssumption DEF exec, outside, ghosts
<1>a. /\ run \in Record /\ mem \in [Daemons -> Mem]
      /\ mem[d].session \in BOOLEAN /\ mem[d].outcome \in Outcomes
      /\ mem[d].sup \in {"none"} \cup StopResults
  BY MemUpdates DEF TypeOK
<1>1. CASE Claim(d)
  <2>1. run' \in Record
    BY <1>1, <1>a, EmptyTypes DEF Claim, NoRun, Record, Status, Supervision
  <2> QED BY <1>1, <1>a, <2>1 DEF Claim, TypeOK, StopKnown, Steps
<1>2. CASE NoteCreate(d)
  <2>1. run' \in Record
    BY <1>2, <1>a, RecordUpdates DEF NoteCreate
  <2> QED BY <1>2, <1>a, <2>1 DEF NoteCreate, TypeOK, StopKnown, Steps
<1>3. CASE Created(d)
  <2>1. mem' \in [Daemons -> Mem]
    BY <1>3, <1>a, MemUpdates DEF Created
  <2> QED BY <1>3, <1>a, <2>1 DEF Created, TypeOK, StopKnown, Steps
<1>4. CASE NoteSession(d)
  <2>1. run' \in Record
    BY <1>4, <1>a, SessionUpdates DEF NoteSession
  <2>2. late' \in BOOLEAN
    BY <1>4 DEF NoteSession, TypeOK
  <2>3. pc' \in [Daemons -> Steps] /\ faults' \in 0..MaxFaults
    BY <1>4 DEF NoteSession, TypeOK, Steps
  <2>4. StopKnown'
    BY <1>4 DEF NoteSession, TypeOK, StopKnown
  <2> QED BY <1>4, <2>1, <2>2, <2>3, <2>4 DEF NoteSession, TypeOK
<1>5. CASE NotePrompt(d)
  <2>1. run' \in Record
    BY <1>5, <1>a, SessionUpdates, RecordUpdates DEF NotePrompt
  <2> QED BY <1>5, <1>a, <2>1 DEF NotePrompt, TypeOK, StopKnown, Steps
<1>6. CASE NoteDispatch(d)
  <2>1. run' \in Record
    BY <1>6, <1>a, RecordUpdates DEF NoteDispatch
  <2> QED BY <1>6, <1>a, <2>1 DEF NoteDispatch, TypeOK, StopKnown, Steps
<1>7. CASE Send(d)
  <2> QED BY <1>7, <1>a DEF Send, TypeOK, StopKnown, Steps
<1>8. CASE NoteResult(d)
  <2>1. run' \in Record
    <3>1. PICK o \in {"success", "timeout"} :
            IF direct THEN UNCHANGED run
            ELSE NoteTemp(d, [run EXCEPT !.status = o, !.undone = FALSE,
                                         !.sup = IF mem[d].session THEN "cleanup-pending" ELSE @])
      BY <1>8 DEF NoteResult
    <3>2. [run EXCEPT !.status = o, !.undone = FALSE,
                      !.sup = IF mem[d].session THEN "cleanup-pending" ELSE @] \in Record
      BY <1>a, ResultUpdate
    <3> QED BY <3>1, <3>2, <1>a DEF NoteTemp
  <2>2. mem' \in [Daemons -> Mem]
    BY <1>8, <1>a, MemUpdates, StatusType DEF NoteResult
  <2> QED BY <1>8, <1>a, <2>1, <2>2 DEF NoteResult, NoteTemp, TypeOK, StopKnown, Steps
<1>9. CASE List(d)
  <2>1. mem' \in [Daemons -> Mem]
    BY <1>9, <1>a, MemUpdates DEF List
  <2>2. pc' \in [Daemons -> Steps] /\ faults' \in 0..MaxFaults
    BY <1>9 DEF List, ListBefore, TypeOK, Steps
  <2>3. CASE ~mem[d].session
    BY <1>9, <2>1, <2>2, <2>3 DEF List, TypeOK, StopKnown
  <2>4. CASE mem[d].session
    <3>1. PICK u \in {"none"} \cup StopResults :
            /\ mem' = [mem EXCEPT ![d].sup = u]
            /\ Goto(d, IF u = "none" THEN "killing" ELSE "stopped")
      BY <1>9, <2>4 DEF List
    <3>2. \A w \in Daemons : pc'[w] = "stopped" => mem'[w].sup # "none"
      BY <1>a, <3>1 DEF TypeOK, StopKnown, Mem
    <3> QED BY <1>9, <2>1, <2>2, <3>2 DEF List, TypeOK, StopKnown
  <2> QED BY <2>3, <2>4
<1>10. CASE Kill(d)
  <2>1. mem' \in [Daemons -> Mem]
    BY <1>10, <1>a, MemUpdates DEF Kill
  <2> QED BY <1>10, <1>a, <2>1 DEF Kill, StopAgent, StopResults, TypeOK, StopKnown, Steps
<1>11. CASE NoteStopped(d)
  <2>1. run' \in Record
    BY <1>11, <1>a, RecordUpdates DEF NoteStopped, NoteTemp, StopKnown
  <2> QED BY <1>11, <1>a, <2>1 DEF NoteStopped, NoteTemp, TypeOK, StopKnown, Steps
<1>12. CASE Finish(d)
  <2>1. run' \in Record
    BY <1>12, <1>a, RecordUpdates, StatusType DEF Finish
  <2>2. mem' \in [Daemons -> Mem]
    BY <1>12, <1>a, EmptyTypes DEF Finish
  <2> QED BY <1>12, <1>a, <2>1, <2>2 DEF Finish, TypeOK, StopKnown, Steps
<1> QED BY <1>1, <1>2, <1>3, <1>4, <1>5, <1>6, <1>7, <1>8, <1>9, <1>10, <1>11, <1>12 DEF Execute

\* The judgements of a record of the ledger.
LEMMA JudgeTypes ==
  ASSUME TypeOK, NEW d \in Daemons, NEW status \in Status, NEW sup \in {"none"} \cup StopResults,
         NEW undone \in BOOLEAN, Judge(d, status, sup, undone)
  PROVE  rec' \in [Daemons -> Rec]
<1>1. StageOf(rec[d].saw) \in Stage
  BY RecFields, StageType DEF TypeOK
<1>2. ToSettle(StageOf(rec[d].saw), status, sup, undone) \in Rec
  BY <1>1, RecForms
<1> QED BY <1>2 DEF Judge, Decide, TypeOK

\* What every step of recovery leaves alone.
RecoverFrame == UNCHANGED <<direct, up, exec, create, late>>

LEMMA RecoverFrames ==
  ASSUME NEW d \in Daemons, Recover(d)
  PROVE  RecoverFrame
  BY DEF Recover, RecoverFrame, exec, outside, Scan, Skip, JudgePlain, ListRows, ListFails, TooEarly,
     JudgeUnconfirmed, JudgeLost, JudgeLate, StillBusy, JudgeIdle, TakeCleanup, RecList, RecKill, Write

LEMMA RecoverRecTypes ==
  ASSUME TypeOK, NEW d \in Daemons, Recover(d)
  PROVE  rec' \in [Daemons -> Rec]
<1>a. /\ rec \in [Daemons -> Rec] /\ rec[d] \in Rec /\ run \in Record
      /\ NoRec \in Rec /\ StageOf(rec[d].saw) \in Stage /\ rec[d].from \in Stage
  BY EmptyTypes, RecFields, StageType DEF TypeOK
<1>away. ASSUME Away(d) PROVE rec' \in [Daemons -> Rec]
  BY <1>a, <1>away
<1>1. CASE Scan(d)
  BY <1>1, <1>a, RecForms DEF Scan
<1>2. CASE Skip(d) \/ ListFails(d) \/ TooEarly(d) \/ StillBusy(d)
  BY <1>2, <1>away DEF Skip, ListFails, TooEarly, StillBusy
<1>3. CASE JudgePlain(d)
  BY <1>3, JudgeTypes, StatusType DEF JudgePlain
<1>4. CASE ListRows(d)
  <2>1. [rec[d] EXCEPT !.rows = agent] \in Rec
    BY <1>a DEF TypeOK, Rec, Rows
  <2> QED BY <1>4, <1>a, <2>1 DEF ListRows
<1>5. CASE JudgeUnconfirmed(d)
  <2> DEFINE running == rec[d].saw.status = "running"
  <2>1. CASE Listed(d) = "none"
    <3>1. Judge(d, IF running THEN "error" ELSE "none", "cleaned", running)
      BY <1>5, <2>1 DEF JudgeUnconfirmed
    <3>2. running \in BOOLEAN /\ (IF running THEN "error" ELSE "none") \in Status
      BY StatusType
    <3> QED BY <3>1, <3>2, JudgeTypes DEF StopResults
  <2>2. CASE Listed(d) # "none"
    <3>1. Judge(d, IF running THEN "unknown" ELSE "none", "needs-review", FALSE)
      BY <1>5, <2>2 DEF JudgeUnconfirmed
    <3>2. (IF running THEN "unknown" ELSE "none") \in Status
      BY StatusType
    <3> QED BY <3>1, <3>2, JudgeTypes DEF StopResults
  <2> QED BY <2>1, <2>2
<1>6. CASE JudgeLost(d)
  BY <1>6, JudgeTypes, StatusType DEF JudgeLost, StopResults
<1>7. CASE JudgeLate(d)
  BY <1>7, JudgeTypes, StatusType DEF JudgeLate, StopResults
<1>8. CASE JudgeIdle(d)
  BY <1>8, JudgeTypes, StatusType DEF JudgeIdle, StopResults
<1>9. CASE TakeCleanup(d)
  BY <1>9, <1>a, RecForms DEF TakeCleanup
<1>settle. ASSUME NEW sup \in StopResults \cup {"none"}, Decide(d, rec[d].from, "none", sup, FALSE)
           PROVE  rec' \in [Daemons -> Rec]
  <2>1. ToSettle(rec[d].from, "none", sup, FALSE) \in Rec
    BY <1>a, RecForms, StatusType
  <2> QED BY <1>a, <1>settle, <2>1 DEF Decide
<1>10. CASE RecList(d)
  <2>1. [rec[d] EXCEPT !.at = "killing"] \in Rec
    BY <1>a DEF Rec
  <2> QED BY <1>10, <1>a, <1>settle, <2>1 DEF RecList
<1>11. CASE RecKill(d)
  BY <1>11, <1>settle DEF RecKill
<1>12. CASE Write(d)
  <2>1. run' \in Record
    BY <1>12, <1>a, SettledType, RecFields DEF Write
  <2> QED BY <1>12, <1>a, <1>away, <2>1, StageType, RecForms DEF Write
<1> QED BY <1>1, <1>2, <1>3, <1>4, <1>5, <1>6, <1>7, <1>8, <1>9, <1>10, <1>11, <1>12 DEF Recover

LEMMA RecoverTypes ==
  ASSUME TypeOK, StopKnown, NEW d \in Daemons, Recover(d)
  PROVE  TypeOK' /\ StopKnown'
<1>1. rec' \in [Daemons -> Rec] /\ RecoverFrame
  BY RecoverRecTypes, RecoverFrames
<1>2. run' \in Record
  <2>1. CASE Write(d)
    BY <2>1, SettledType, RecFields DEF Write, TypeOK
  <2>2. CASE ~Write(d)
    BY <2>2 DEF TypeOK, Recover, Scan, Skip, JudgePlain, ListRows, ListFails, TooEarly,
       JudgeUnconfirmed, JudgeLost, JudgeLate, StillBusy, JudgeIdle, TakeCleanup, RecList, RecKill
  <2> QED BY <2>1, <2>2
<1>3. /\ agent' \in {"none", "own", "other"} /\ stopped' \subseteq {"own", "other"}
      /\ sent' \in Nat /\ notices' \in Nat /\ faults' \in 0..MaxFaults
  <2>1. CASE RecKill(d)
    <3>1. PICK sup \in StopResults : StopAgent(sup)
      BY <2>1 DEF RecKill
    <3>2. agent' \in {"none", "own", "other"} /\ stopped' \subseteq {"own", "other"}
      BY <3>1 DEF StopAgent, TypeOK
    <3>3. faults' \in 0..MaxFaults
      BY <3>1, BoundsAssumption DEF StopAgent, TypeOK
    <3> QED BY <2>1, <3>2, <3>3 DEF RecKill, TypeOK
  <2>2. CASE Write(d)
    <3>1. UNCHANGED <<agent, stopped, sent>>
      BY <2>2 DEF Write, outside
    <3>2. notices' \in Nat /\ faults' \in 0..MaxFaults
      BY <2>2, BoundsAssumption DEF Write, TypeOK
    <3> QED BY <3>1, <3>2 DEF TypeOK
  <2>3. CASE RecList(d)
    BY <2>3, BoundsAssumption DEF RecList, ListBefore, TypeOK, outside, ghosts
  <2>4. CASE ~RecKill(d) /\ ~Write(d) /\ ~RecList(d)
    <3>1. UNCHANGED <<agent, ghosts>>
      BY <2>4 DEF Recover, outside, Scan, Skip, JudgePlain, ListRows, ListFails, TooEarly,
         JudgeUnconfirmed, JudgeLost, JudgeLate, StillBusy, JudgeIdle, TakeCleanup
    <3>2. UNCHANGED faults \/ Fault
      BY <2>4 DEF Recover, Scan, Skip, JudgePlain, ListRows, ListFails, TooEarly,
         JudgeUnconfirmed, JudgeLost, JudgeLate, StillBusy, JudgeIdle, TakeCleanup
    <3>3. faults' \in 0..MaxFaults
      BY <3>2, BoundsAssumption DEF TypeOK
    <3> QED BY <3>1, <3>3 DEF TypeOK, ghosts
  <2> QED BY <2>1, <2>2, <2>3, <2>4
<1> QED BY <1>1, <1>2, <1>3 DEF TypeOK, StopKnown, RecoverFrame, exec

LEMMA TypeStep == TypeOK /\ StopKnown /\ [Next]_vars => TypeOK' /\ StopKnown'
<1> SUFFICES ASSUME TypeOK, StopKnown, [Next]_vars PROVE TypeOK' /\ StopKnown'
  OBVIOUS
<1>1. ASSUME NEW d \in Daemons, Execute(d) PROVE TypeOK' /\ StopKnown'
  BY <1>1, ExecuteTypes
<1>2. ASSUME NEW d \in Daemons, Recover(d) PROVE TypeOK' /\ StopKnown'
  BY <1>2, RecoverTypes
<1>3. ASSUME NEW d \in Daemons, Crash(d) PROVE TypeOK' /\ StopKnown'
  BY <1>3, EmptyTypes DEF Crash, TypeOK, StopKnown, Steps, outside, ghosts
<1>4. CASE CreateEnds
  BY <1>4 DEF CreateEnds, TypeOK, StopKnown, exec, ghosts
<1>5. CASE AgentChanges
  BY <1>5 DEF AgentChanges, TypeOK, StopKnown, exec, ghosts
<1>6. CASE Passes
  <2>1. late' \in BOOLEAN
    BY <1>6 DEF Passes
  <2> QED BY <1>6, <2>1 DEF Passes, TypeOK, StopKnown, exec, outside, ghosts
<1>7. CASE UNCHANGED vars
  BY <1>7 DEF vars, TypeOK, StopKnown, exec, outside, ghosts
<1> QED BY <1>1, <1>2, <1>3, <1>4, <1>5, <1>6, <1>7 DEF Next

-----------------------------------------------------------------------------
(* The prompt leaves at most once, and after its note. *)

Executor == OneExecutor /\ NotSentBefore /\ NotedBefore /\ PromptedOnce

\* What settling does to a record.
LEMMA SettledFields ==
  ASSUME NEW r \in Record, NEW to \in Settle
  PROVE  /\ Settled(r, to).owner = r.owner /\ Settled(r, to).prompt = r.prompt
         /\ Settled(r, to).status = IF to.status = "none" THEN r.status ELSE to.status
  BY DEF Settled, Record, Settle

\* Recovery gives verdicts to running records only, and leaves everything about the prompt alone.
LEMMA RecoverLedger ==
  ASSUME TypeOK, VerdictOnRunning, NEW d \in Daemons, Recover(d)
  PROVE  /\ UNCHANGED <<pc, sent>>
         /\ run'.owner = run.owner /\ run'.prompt = run.prompt
         /\ run'.status # run.status => run.status = "running" /\ run'.status \notin {"none", "running"}
<1>1. UNCHANGED <<pc, sent>>
  BY RecoverFrames DEF RecoverFrame, exec, Recover, ghosts, Scan, Skip, JudgePlain, ListRows, ListFails,
     TooEarly, JudgeUnconfirmed, JudgeLost, JudgeLate, StillBusy, JudgeIdle, TakeCleanup, RecList,
     RecKill, Write
<1>2. CASE UNCHANGED run
  BY <1>1, <1>2
<1>3. CASE ~UNCHANGED run
  <2>1. Write(d) /\ SameStage(run, rec[d].from) /\ run' = Settled(run, rec[d].to)
    BY <1>3 DEF Recover, Scan, Skip, JudgePlain, ListRows, ListFails, TooEarly, JudgeUnconfirmed,
       JudgeLost, JudgeLate, StillBusy, JudgeIdle, TakeCleanup, RecList, RecKill, Write
  <2>2. run \in Record /\ rec[d].to \in Settle
    BY RecFields DEF TypeOK
  <2>3. run.status = rec[d].from.status
    BY <2>1 DEF SameStage, StageOf
  <2> QED BY <1>1, <2>1, <2>2, <2>3, SettledFields DEF VerdictOnRunning
<1> QED BY <1>2, <1>3

LEMMA ExecutorStep ==
  ASSUME TypeOK, VerdictOnRunning, Executor, [Next]_vars
  PROVE  Executor'
<1> USE DEF Executor, OneExecutor, NotSentBefore, NotedBefore, PromptedOnce, Live, Before
<1>t. pc \in [Daemons -> Steps] /\ sent \in Nat /\ run \in Record
  BY DEF TypeOK
<1>1. ASSUME NEW d \in Daemons, Recover(d) PROVE Executor'
  BY <1>1, <1>t, RecoverLedger
<1>2. ASSUME NEW d \in Daemons, Crash(d) PROVE Executor'
  BY <1>2, <1>t DEF Crash, ghosts
<1>3. CASE CreateEnds \/ AgentChanges \/ Passes \/ UNCHANGED vars
  BY <1>3 DEF CreateEnds, AgentChanges, Passes, vars, exec, ghosts
<1>4. ASSUME NEW d \in Daemons, Execute(d) PROVE Executor'
  <2>1. CASE Claim(d)
    BY <2>1, <1>t DEF Claim, Unclaimed, NoRun, ghosts, Record
  <2>2. CASE NoteCreate(d)
    BY <2>2, <1>t DEF NoteCreate, ghosts, Record
  <2>3. CASE Created(d)
    BY <2>3, <1>t DEF Created, ghosts, Record
  <2>4. CASE NoteSession(d)
    BY <2>4, <1>t DEF NoteSession, ghosts, Record
  <2>5. CASE NotePrompt(d)
    BY <2>5, <1>t DEF NotePrompt, ghosts, Record
  <2>6. CASE NoteDispatch(d)
    BY <2>6, <1>t DEF NoteDispatch, ghosts, Record
  <2>7. CASE Send(d)
    BY <2>7, <1>t DEF Send, ghosts, Record
  <2>8. CASE NoteResult(d)
    <3>1. run'.owner = run.owner /\ run'.prompt = run.prompt /\ (run'.status = "none" => run.status = "none")
      BY <2>8, <1>t DEF NoteResult, NoteTemp, Record
    <3>2. sent' = sent /\ pc' \in {[pc EXCEPT ![d] = "finishing"], [pc EXCEPT ![d] = "stopping"]} /\ Live(d)
      BY <2>8 DEF NoteResult, ghosts
    <3> QED BY <3>1, <3>2, <1>t
  <2>9. CASE List(d)
    BY <2>9, <1>t DEF List, ghosts, Record
  <2>10. CASE Kill(d)
    BY <2>10, <1>t DEF Kill, ghosts, Record
  <2>11. CASE NoteStopped(d)
    BY <2>11, <1>t DEF NoteStopped, NoteTemp, ghosts, Record
  <2>12. CASE Finish(d)
    <3>1. mem[d].outcome \notin {"none", "running"}
      BY MemUpdates, StatusType DEF TypeOK
    <3>2. run'.owner = run.owner /\ run'.prompt = run.prompt /\ (run'.status = "none" => run.status = "none")
      BY <2>12, <1>t, <3>1 DEF Finish, Record
    <3> QED BY <2>12, <1>t, <3>2 DEF Finish, ghosts
  <2> QED BY <1>4, <2>1, <2>2, <2>3, <2>4, <2>5, <2>6, <2>7, <2>8, <2>9, <2>10, <2>11, <2>12 DEF Execute
<1> QED BY <1>1, <1>2, <1>3, <1>4 DEF Next

-----------------------------------------------------------------------------
(* One verdict, one notice. *)

Notices == SawUnfinished /\ VerdictOnRunning /\ NoticeHasVerdict /\ OneVerdictNotice

\* What a daemon's recovery becomes keeps the promise of the three forms.
Sound(x) ==
  /\ x.at = "scanned" => Unfinished(x.saw)
  /\ x.to.status # "none" => x.from.status = "running" /\ x.to.status # "running"

LEMMA SoundForms ==
  ASSUME NEW from \in Stage
  PROVE  /\ Sound(NoRec) /\ Sound(ToStop(from))
         /\ \A sup, undone : Sound(ToSettle(from, "none", sup, undone))
         /\ \A status, sup, undone : from.status = "running" /\ status # "running"
                                       => Sound(ToSettle(from, status, sup, undone))
  BY DEF Sound, NoRec, NoSettle, ToStop, ToSettle

LEMMA SoundStep ==
  ASSUME TypeOK, \A w \in Daemons : Sound(rec[w]), NEW d \in Daemons, NEW x, Sound(x), Become(d, x)
  PROVE  \A w \in Daemons : Sound(rec'[w])
  BY DEF TypeOK

LEMMA JudgeSound ==
  ASSUME TypeOK, \A w \in Daemons : Sound(rec[w]), NEW d \in Daemons,
         NEW status, NEW sup, NEW undone, Judge(d, status, sup, undone),
         status # "none" => rec[d].saw.status = "running" /\ status # "running"
  PROVE  \A w \in Daemons : Sound(rec'[w])
<1>1. StageOf(rec[d].saw) \in Stage /\ StageOf(rec[d].saw).status = rec[d].saw.status
  BY RecFields, StageType DEF TypeOK, StageOf
<1>2. Sound(ToSettle(StageOf(rec[d].saw), status, sup, undone))
  BY <1>1, SoundForms
<1> QED BY <1>2, SoundStep DEF Judge, Decide

LEMMA RecoverSound ==
  ASSUME TypeOK, \A w \in Daemons : Sound(rec[w]), NEW d \in Daemons, Recover(d)
  PROVE  \A w \in Daemons : Sound(rec'[w])
<1>a. rec[d] \in Rec /\ rec[d].saw \in Record /\ rec[d].from \in Stage
      /\ StageOf(rec[d].saw) \in Stage /\ Sound(rec[d])
  BY RecFields, StageType DEF TypeOK
<1>away. ASSUME Away(d) PROVE \A w \in Daemons : Sound(rec'[w])
  BY <1>a, <1>away, SoundForms, SoundStep
<1>settle. ASSUME NEW sup, Decide(d, rec[d].from, "none", sup, FALSE)
           PROVE  \A w \in Daemons : Sound(rec'[w])
  BY <1>a, <1>settle, SoundForms, SoundStep DEF Decide
<1>1. CASE Scan(d)
  <2>1. Sound(Scanned(run))
    BY <1>1 DEF Scan, Sound, Scanned, NoRec, NoSettle
  <2> QED BY <1>1, <2>1, SoundStep DEF Scan
<1>2. CASE Skip(d) \/ ListFails(d) \/ TooEarly(d) \/ StillBusy(d)
  BY <1>2, <1>away DEF Skip, ListFails, TooEarly, StillBusy
<1>3. CASE JudgePlain(d)
  <2>1. rec[d].saw.status = "running"
    BY <1>3, <1>a DEF JudgePlain, Due, Sound, Unfinished, OpenSupervision
  <2>2. PICK status \in {"unknown", "error"}, undone \in BOOLEAN : Judge(d, status, "none", undone)
    BY <1>3 DEF JudgePlain
  <2> QED BY <2>1, <2>2, JudgeSound
<1>4. CASE ListRows(d)
  <2>1. Sound([rec[d] EXCEPT !.rows = agent])
    BY <1>a DEF Sound, Rec
  <2>2. Become(d, [rec[d] EXCEPT !.rows = agent])
    BY <1>4 DEF ListRows
  <2> QED BY <2>1, <2>2, SoundStep
<1>5. CASE JudgeUnconfirmed(d)
  <2>1. PICK status \in {"error", "unknown", "none"}, sup \in {"cleaned", "needs-review"}, undone \in BOOLEAN :
          /\ Judge(d, status, sup, undone)
          /\ status # "none" => rec[d].saw.status = "running"
    BY <1>5 DEF JudgeUnconfirmed
  <2> QED BY <2>1, JudgeSound
<1>6. CASE JudgeLost(d) \/ JudgeLate(d) \/ JudgeIdle(d)
  <2>1. PICK status \in {"unknown", "timeout", "success"}, sup \in {"cleaned", "needs-review", "cleanup-pending"},
            undone \in BOOLEAN :
          /\ Judge(d, status, sup, undone)
          /\ rec[d].saw.status = "running"
    BY <1>6 DEF JudgeLost, JudgeLate, JudgeIdle, Supervised
  <2> QED BY <2>1, JudgeSound
<1>7. CASE TakeCleanup(d)
  BY <1>7, <1>a, SoundForms, SoundStep DEF TakeCleanup
<1>8. CASE RecList(d)
  <2>1. Sound([rec[d] EXCEPT !.at = "killing"])
    BY <1>a DEF Sound, Rec
  <2>2. Become(d, [rec[d] EXCEPT !.at = "killing"]) \/ \E sup : Decide(d, rec[d].from, "none", sup, FALSE)
    BY <1>8 DEF RecList
  <2> QED BY <2>1, <2>2, <1>settle, SoundStep
<1>9. CASE RecKill(d)
  BY <1>9, <1>settle DEF RecKill
<1>10. CASE Write(d)
  <2>1. run' \in Record
    BY <1>10, RecoverTypes, SettledType, RecFields DEF Write, TypeOK
  <2>2. Sound(ToStop(StageOf(run')))
    BY <2>1, StageType, SoundForms
  <2>3. Away(d) \/ Become(d, ToStop(StageOf(run')))
    BY <1>10 DEF Write
  <2> QED BY <1>away, <2>2, <2>3, SoundStep
<1> QED BY <1>1, <1>2, <1>3, <1>4, <1>5, <1>6, <1>7, <1>8, <1>9, <1>10 DEF Recover

LEMMA SoundIsSound == (\A w \in Daemons : Sound(rec[w])) <=> SawUnfinished /\ VerdictOnRunning
  BY DEF Sound, SawUnfinished, VerdictOnRunning

\* Execution opens a run once, and never takes a verdict back.
LEMMA ExecuteLedger ==
  ASSUME TypeOK, NEW d \in Daemons, Execute(d)
  PROVE  /\ UNCHANGED <<rec, notices>>
         /\ \/ run'.status = run.status
            \/ run.status = "none" /\ run'.status = "running"
            \/ run'.status \notin {"none", "running"}
<1>a. run \in Record /\ mem[d].outcome \notin {"none", "running"}
  BY MemUpdates, StatusType DEF TypeOK
<1>1. UNCHANGED <<rec, notices>>
  BY DEF Execute, ghosts, Claim, NoteCreate, Created, NoteSession, NotePrompt, NoteDispatch, Send,
     NoteResult, List, Kill, NoteStopped, Finish
<1>2. CASE Claim(d)
  BY <1>1, <1>2 DEF Claim, Unclaimed, NoRun
<1>3. CASE NoteResult(d) \/ Finish(d)
  BY <1>1, <1>3, <1>a DEF NoteResult, Finish, NoteTemp, Record
<1>4. CASE ~Claim(d) /\ ~NoteResult(d) /\ ~Finish(d)
  <2>1. run'.status = run.status
    BY <1>4, <1>a DEF Execute, NoteCreate, Created, NoteSession, NotePrompt, NoteDispatch, Send,
       List, Kill, NoteStopped, NoteTemp, Record
  <2> QED BY <1>1, <2>1
<1> QED BY <1>2, <1>3, <1>4

LEMMA NoticesStep ==
  ASSUME TypeOK, Notices, [Next]_vars
  PROVE  Notices'
<1> USE DEF Notices
<1>a. (\A w \in Daemons : Sound(rec[w])) /\ notices \in Nat
  BY SoundIsSound DEF TypeOK
<1>sound. ASSUME \A w \in Daemons : Sound(rec'[w]) PROVE SawUnfinished' /\ VerdictOnRunning'
  BY <1>sound DEF Sound, SawUnfinished, VerdictOnRunning
<1>1. ASSUME NEW d \in Daemons, Execute(d) PROVE Notices'
  BY <1>1, <1>a, <1>sound, ExecuteLedger DEF NoticeHasVerdict, OneVerdictNotice
<1>2. ASSUME NEW d \in Daemons, Recover(d) PROVE Notices'
  <2>1. SawUnfinished' /\ VerdictOnRunning'
    BY <1>2, <1>a, <1>sound, RecoverSound
  <2>2. run'.status # run.status => run.status = "running" /\ run'.status \notin {"none", "running"}
    BY <1>2, RecoverLedger
  <2>3. CASE UNCHANGED notices
    BY <2>1, <2>2, <2>3 DEF NoticeHasVerdict, OneVerdictNotice
  <2>4. CASE ~UNCHANGED notices
    <3>1. /\ Write(d) /\ SameStage(run, rec[d].from) /\ run' = Settled(run, rec[d].to)
          /\ rec[d].to.status # "none" /\ notices' = notices + 1
      BY <1>2, <2>4 DEF Recover, Scan, Skip, JudgePlain, ListRows, ListFails, TooEarly, JudgeUnconfirmed,
         JudgeLost, JudgeLate, StillBusy, JudgeIdle, TakeCleanup, RecList, RecKill, Write, ghosts
    <3>2. run.status = "running" /\ rec[d].to.status # "running"
      BY <3>1 DEF SameStage, StageOf, VerdictOnRunning
    <3>3. run'.status = rec[d].to.status
      BY <3>1, RecFields, SettledFields DEF TypeOK
    <3> QED BY <1>a, <2>1, <3>1, <3>2, <3>3 DEF NoticeHasVerdict, OneVerdictNotice
  <2> QED BY <2>3, <2>4
<1>3. ASSUME NEW d \in Daemons, Crash(d) PROVE Notices'
  <2>1. \A w \in Daemons : Sound(rec'[w])
    BY <1>3, <1>a, EmptyTypes, RecFields, SoundForms, SoundStep DEF Crash
  <2> QED BY <1>3, <2>1, <1>sound DEF Crash, ghosts, NoticeHasVerdict, OneVerdictNotice
<1>4. CASE CreateEnds \/ AgentChanges \/ Passes \/ UNCHANGED vars
  BY <1>4 DEF CreateEnds, AgentChanges, Passes, vars, exec, ghosts, SawUnfinished, VerdictOnRunning,
     NoticeHasVerdict, OneVerdictNotice
<1> QED BY <1>1, <1>2, <1>3, <1>4 DEF Next

-----------------------------------------------------------------------------
(* Nothing but the session of the create is stopped. *)

LEMMA OwnSessionStep ==
  ASSUME TypeOK, OwnSessionOnly, [Next]_vars
  PROVE  OwnSessionOnly'
<1>1. ASSUME NEW sup, StopAgent(sup) PROVE OwnSessionOnly'
  BY <1>1 DEF StopAgent, OwnSessionOnly, TypeOK
<1>2. CASE UNCHANGED stopped
  BY <1>2 DEF OwnSessionOnly
<1>3. ASSUME NEW d \in Daemons, Execute(d) PROVE OwnSessionOnly'
  <2>1. Kill(d) \/ UNCHANGED stopped
    BY <1>3 DEF Execute, ghosts, Claim, NoteCreate, Created, NoteSession, NotePrompt, NoteDispatch, Send,
       NoteResult, List, NoteStopped, Finish
  <2> QED BY <1>1, <1>2, <2>1 DEF Kill
<1>4. ASSUME NEW d \in Daemons, Recover(d) PROVE OwnSessionOnly'
  <2>1. RecKill(d) \/ UNCHANGED stopped
    BY <1>4 DEF Recover, ghosts, Scan, Skip, JudgePlain, ListRows, ListFails, TooEarly, JudgeUnconfirmed,
       JudgeLost, JudgeLate, StillBusy, JudgeIdle, TakeCleanup, RecList, Write
  <2> QED BY <1>1, <1>2, <2>1 DEF RecKill
<1>5. ASSUME NEW d \in Daemons, Crash(d) PROVE OwnSessionOnly'
  BY <1>2, <1>5 DEF Crash, ghosts
<1>6. CASE CreateEnds \/ AgentChanges \/ Passes \/ UNCHANGED vars
  BY <1>2, <1>6 DEF CreateEnds, AgentChanges, Passes, vars, ghosts
<1> QED BY <1>3, <1>4, <1>5, <1>6 DEF Next

-----------------------------------------------------------------------------
LEMMA InvInit == Init => Inv
<1> SUFFICES ASSUME Init PROVE Inv
  OBVIOUS
<1>1. TypeOK /\ StopKnown
  BY TypeInit
<1>2. OneExecutor /\ NotSentBefore /\ NotedBefore /\ PromptedOnce
  BY DEF Init, OneExecutor, NotSentBefore, NotedBefore, PromptedOnce, Live
<1>3. SawUnfinished /\ VerdictOnRunning
  BY DEF Init, NoRec, NoSettle, SawUnfinished, VerdictOnRunning
<1>4. NoticeHasVerdict /\ OneVerdictNotice /\ OwnSessionOnly
  BY DEF Init, NoticeHasVerdict, OneVerdictNotice, OwnSessionOnly
<1> QED BY <1>1, <1>2, <1>3, <1>4 DEF Inv

LEMMA InvStep == Inv /\ [Next]_vars => Inv'
<1> SUFFICES ASSUME Inv, [Next]_vars PROVE Inv'
  OBVIOUS
<1>1. TypeOK' /\ StopKnown'
  BY TypeStep DEF Inv
<1>2. Executor'
  BY ExecutorStep DEF Inv, Executor
<1>3. Notices'
  BY NoticesStep DEF Inv, Notices
<1>4. OwnSessionOnly'
  BY OwnSessionStep DEF Inv
<1> QED BY <1>1, <1>2, <1>3, <1>4 DEF Inv, Executor, Notices

\* Every reachable state satisfies the inductive invariant: whose the run is, what the ledger has noted
\* of it by each step of its execution, and what a recovery may still write.
THEOREM Safe == Spec => []Inv
<1>1. Init => Inv
  BY InvInit
<1>2. Inv /\ [Next]_vars => Inv'
  BY InvStep
<1> QED BY <1>1, <1>2, PTL DEF Spec

\* The records of the ledger and of every execution and recovery keep their form: an agent is supervised
\* only with its session, whatever failed on the way.
THEOREM TypeCorrect == Spec => []TypeOK
<1>1. Inv => TypeOK
  BY DEF Inv
<1> QED BY <1>1, Safe, PTL

\* The prompt of a run leaves at most once, after the ledger says so, for any number of daemons.
THEOREM PromptLeavesOnce == Spec => []PromptedOnce
<1>1. Inv => PromptedOnce
  BY DEF Inv
<1> QED BY <1>1, Safe, PTL

\* No daemon ever stops a session that the run's create did not make.
THEOREM StopsOwnSession == Spec => []OwnSessionOnly
<1>1. Inv => OwnSessionOnly
  BY DEF Inv
<1> QED BY <1>1, Safe, PTL

\* However many recoveries judge the run, one notice of a verdict leaves.
THEOREM OneNotice == Spec => []OneVerdictNotice
<1>1. Inv => OneVerdictNotice
  BY DEF Inv
<1> QED BY <1>1, Safe, PTL

\* A verdict is replaced only by the outcome of the execution of the run's owner.
THEOREM VerdictIsKept == Spec => VerdictStands
<1> DEFINE Kept == (run.status \notin {"none", "running"} /\ run'.status # run.status)
                     => \E d \in Daemons : run.owner = d /\ NoteResult(d)
<1>1. ASSUME Inv, [Next]_vars PROVE [Kept]_vars
  <2>1. ASSUME NEW d \in Daemons, Execute(d) PROVE Kept
    <3>1. run \in Record /\ OneExecutor
      BY <1>1 DEF Inv, TypeOK
    <3>2. CASE NoteResult(d)
      <4>1. Live(d)
        BY <3>2 DEF NoteResult, Live
      <4> QED BY <3>1, <3>2, <4>1 DEF OneExecutor
    <3>3. CASE ~NoteResult(d)
      BY <2>1, <3>1, <3>3 DEF Execute, Claim, Unclaimed, NoteCreate, Created, NoteSession, NotePrompt,
         NoteDispatch, Send, List, Kill, NoteStopped, NoteTemp, Finish, Record
    <3> QED BY <3>2, <3>3
  <2>2. ASSUME NEW d \in Daemons, Recover(d) PROVE Kept
    BY <1>1, <2>2, RecoverLedger DEF Inv
  <2>3. ASSUME NEW d \in Daemons, Crash(d) PROVE Kept
    BY <2>3 DEF Crash
  <2>4. CASE CreateEnds \/ AgentChanges \/ Passes
    BY <2>4 DEF CreateEnds, AgentChanges, Passes
  <2> QED BY <1>1, <2>1, <2>2, <2>3, <2>4 DEF Next
<1> QED BY <1>1, Safe, PTL DEF Spec, VerdictStands

=============================================================================
