------------------------------ MODULE CronRuns ------------------------------
(***************************************************************************)
(* One due run of a cron job (one job, one minute) and the daemons that    *)
(* may all execute or recover it (cron.ts, cron-run-state.ts,              *)
(* cron-run-state-exec.ts, cron-run-recovery.ts).  They share the ledger   *)
(* cron-runs.json, and agree on nothing else:                              *)
(*                                                                         *)
(*   - a daemon claims the run in the ledger before anything leaves it,    *)
(*     then notes each step before or after it takes it: the temporary     *)
(*     agent, its session, the prompt, the outcome;                        *)
(*   - every tick, every daemon scans the ledger for unfinished runs and   *)
(*     moves each one step on: those of a dead owner, and those of a       *)
(*     living one once they are well past their deadline.  It never        *)
(*     prompts again.                                                      *)
(*                                                                         *)
(* A step of this module lies between two awaits.  A transaction of the    *)
(* ledger is one step: it holds a lock of the file, and its rename takes   *)
(* effect or fails whole.  Daemons stop at any step.                       *)
(***************************************************************************)
EXTENDS Naturals

CONSTANTS
  Daemons,    \* instances of the daemon, the restarted ones included
  MaxFaults   \* bound: failed writes, lists and stops

ASSUME BoundsAssumption == MaxFaults \in Nat

VARIABLES
  direct,     \* the job is directed to a standing agent and needs no temporary one
  run,        \* the record of the run
  up,         \* the daemons that run
  pc,         \* what each is doing to execute the run
  mem,        \* what the execution holds in memory: session and outcome
  rec,        \* the recovery of each daemon
  create,     \* the create at the manager
  agent,      \* the session under the temporary agent's name
  late,       \* the deadline of the run has passed; ownerGraceMs are not told apart from it
  sent,       \* prompts sent: typed into a window, or perhaps not
  stopped,    \* sessions the daemons have stopped
  notices,    \* notices of a verdict that recovery has sent
  faults      \* faults so far

exec == <<pc, mem>>
outside == <<create, agent>>
ghosts == <<sent, stopped, notices>>
vars == <<direct, run, up, exec, rec, outside, late, ghosts, faults>>

-----------------------------------------------------------------------------
Outcomes == {"success", "error", "timeout"}
Status == {"none", "running", "unknown"} \cup Outcomes
OpenSupervision == {"create-attempted", "supervising", "cleanup-pending"}
Supervision == {"none", "cleaned", "needs-review"} \cup OpenSupervision

\* CronRunRecord: `session' and `prompt' are the ledger's temp.sessionId and promptAttemptedAt or
\* dispatchAttemptedAt; `undone' is an error that says the run was not executed.
Record == {r \in [status : Status, sup : Supervision, owner : Daemons \cup {"none"},
                  session : BOOLEAN, prompt : BOOLEAN, undone : BOOLEAN] :
             /\ r.sup = "supervising" => r.session
             /\ r.session => r.sup # "none"}

NoRun == [status |-> "none", sup |-> "none", owner |-> "none",
          session |-> FALSE, prompt |-> FALSE, undone |-> FALSE]

\* isUnfinishedCronRun
Unfinished(r) == r.status = "running" \/ r.sup \in OpenSupervision

Steps == {"idle", "claimed", "creating", "created", "ready", "sending", "waiting",
          "stopping", "killing", "stopped", "finishing", "done"}

\* liveKeys: the daemon is executing the run.
Live(d) == pc[d] \notin {"idle", "done"}

\* What an attempt to stop the agent leaves to note.
StopResults == {"cleaned", "needs-review", "cleanup-pending"}

Mem == [session : BOOLEAN, outcome : Outcomes, sup : {"none"} \cup StopResults]
NoMem == [session |-> FALSE, outcome |-> "error", sup |-> "none"]

Goto(d, s) == pc' = [pc EXCEPT ![d] = s]
Fault == faults < MaxFaults /\ faults' = faults + 1

\* The ledger is written, or the write fails and the record stays as it was.
Persist(r) == run' = r /\ UNCHANGED faults
PersistFails == Fault /\ UNCHANGED run

-----------------------------------------------------------------------------
(* Execution: runCronJobGuarded, runCronTempAgent, executeOnExistingAgent. *)

\* claim() refuses a run that is in the ledger, whatever became of it.
Unclaimed == run.status = "none"

\* A claim that is refused or cannot be written leaves nothing behind and dispatches nothing: no step.
Claim(d) ==
  /\ d \in up /\ pc[d] = "idle"
  /\ Unclaimed
  /\ run' = [NoRun EXCEPT !.status = "running", !.owner = d]
  /\ Goto(d, "claimed")
  /\ UNCHANGED <<direct, up, mem, rec, outside, late, ghosts, faults>>

\* The first row of the history, then the name of the temporary agent, are written before it is
\* created; a run that fails here ends in an error.
NoteCreate(d) ==
  /\ d \in up /\ pc[d] = "claimed" /\ ~direct
  /\ \/ /\ run' = [run EXCEPT !.sup = "create-attempted"]
        /\ create' = "flying" /\ Goto(d, "creating")
     \/ Goto(d, "finishing") /\ UNCHANGED <<run, create>>
  /\ UNCHANGED <<direct, up, mem, rec, agent, late, ghosts, faults>>

\* The answer of the create; a failure (its timeout too) says nothing of whether the agent is there.
Created(d) ==
  /\ d \in up /\ pc[d] = "creating"
  /\ \/ /\ create = "made"
        /\ \E s \in BOOLEAN : mem' = [mem EXCEPT ![d].session = s]
        /\ Goto(d, "created")
     \/ Goto(d, "finishing") /\ UNCHANGED mem
  /\ UNCHANGED <<direct, run, up, rec, outside, late, ghosts, faults>>

\* noteTemp: a record without a temporary agent stays as it is, and a failed write is only logged.
NoteTemp(d, r) == Persist(IF run.sup = "none" THEN run ELSE r) \/ PersistFails

\* Mutant of NoteSession: an agent whose create returned no session is supervised like any other.
NoteSessionBlind(d) ==
  /\ d \in up /\ pc[d] = "created"
  /\ Persist([run EXCEPT !.session = mem[d].session, !.sup = "supervising"])
  /\ late' = FALSE
  /\ Goto(d, "ready")
  /\ UNCHANGED <<direct, up, mem, rec, outside, ghosts>>

\* The session the create returned, and a deadline that counts from here.
NoteSession(d) ==
  /\ d \in up /\ pc[d] = "created"
  /\ \/ /\ Persist([run EXCEPT !.session = mem[d].session,
                               !.sup = IF mem[d].session THEN "supervising" ELSE "needs-review"])
        /\ late' = FALSE
     \/ PersistFails /\ UNCHANGED late
  /\ Goto(d, "ready")
  /\ UNCHANGED <<direct, up, mem, rec, outside, ghosts>>

\* Mutant of NotePrompt: the note is written like any other, and a failed write is only logged.
NotePromptLogged(d) ==
  /\ d \in up /\ pc[d] = "ready"
  /\ NoteTemp(d, [run EXCEPT !.prompt = TRUE])
  /\ Goto(d, "sending")
  /\ UNCHANGED <<direct, up, mem, rec, outside, late, ghosts>>

\* Before the prompt leaves, the ledger says so, and names the session if it did not yet.
NotePrompt(d) ==
  /\ d \in up /\ pc[d] = "ready"
  /\ \/ /\ Persist(IF mem[d].session /\ ~run.session
                   THEN [run EXCEPT !.prompt = TRUE, !.session = TRUE, !.sup = "supervising"]
                   ELSE [run EXCEPT !.prompt = TRUE])
        /\ Goto(d, "sending")
     \/ PersistFails /\ Goto(d, "stopping")
  /\ UNCHANGED <<direct, up, mem, rec, outside, late, ghosts>>

\* The same for a standing agent (noteDispatch), unless it is away or walled.
NoteDispatch(d) ==
  /\ d \in up /\ pc[d] = "claimed" /\ direct
  /\ \/ run' = [run EXCEPT !.prompt = TRUE] /\ Goto(d, "sending")
     \/ Goto(d, "finishing") /\ UNCHANGED run
  /\ UNCHANGED <<direct, up, mem, rec, outside, late, ghosts, faults>>

\* The prompt is typed into the agent's window.  Whether this returns or fails says nothing of what
\* reached it: the errors of single keys, and a window that is gone, are passed over.
Send(d) ==
  /\ d \in up /\ pc[d] = "sending"
  /\ sent' = sent + 1
  /\ Goto(d, "waiting") \/ Goto(d, IF direct THEN "finishing" ELSE "stopping")
  /\ UNCHANGED <<direct, run, up, mem, rec, outside, late, stopped, notices, faults>>

\* The outcome is in the ledger before the agent is stopped; a standing agent is not stopped.
NoteResult(d) ==
  /\ d \in up /\ pc[d] = "waiting"
  /\ \E o \in {"success", "timeout"} :
       /\ mem' = [mem EXCEPT ![d].outcome = o]
       /\ IF direct
          THEN Goto(d, "finishing") /\ UNCHANGED <<run, faults>>
          ELSE /\ NoteTemp(d, [run EXCEPT !.status = o, !.undone = FALSE,
                                          !.sup = IF mem[d].session THEN "cleanup-pending" ELSE @])
               /\ Goto(d, "stopping")
  /\ UNCHANGED <<direct, up, rec, outside, late, ghosts>>

-----------------------------------------------------------------------------
(* Stopping the temporary agent: guardedStopTempAgent and the manager behind it.  What becomes of the  *)
(* supervision: cleaned when the agent is away or stopped, needs-review when its session is another,   *)
(* cleanup-pending when the list or the stop failed.                                                   *)

\* Mutant of StopAgent: the manager is asked to stop whatever bears the name.
StopByName(sup) ==
  \/ /\ sup = "cleaned" /\ agent' = "none" /\ stopped' = stopped \cup ({agent} \ {"none"})
     /\ UNCHANGED faults
  \/ sup = "cleanup-pending" /\ Fault /\ UNCHANGED <<agent, stopped>>

\* The manager checks the session once more and stops only the expected one.  A stop that failed may
\* have stopped it.
StopAgent(sup) ==
  \/ /\ sup = "cleaned" /\ agent # "other"
     /\ agent' = "none" /\ stopped' = stopped \cup ({agent} \ {"none"})
     /\ UNCHANGED faults
  \/ sup = "needs-review" /\ agent = "other" /\ UNCHANGED <<agent, stopped, faults>>
  \/ /\ sup = "cleanup-pending" /\ Fault
     /\ \/ agent = "own" /\ agent' = "none" /\ stopped' = stopped \cup {"own"}
        \/ UNCHANGED <<agent, stopped>>

\* The list before it: `sup' is what it settles, or "none" when the stop is to follow.
ListBefore(sup) ==
  \/ sup = "cleaned" /\ agent = "none" /\ UNCHANGED faults
  \/ sup = "needs-review" /\ agent = "other" /\ UNCHANGED faults
  \/ sup = "none" /\ agent = "own" /\ UNCHANGED faults
  \/ sup = "cleanup-pending" /\ Fault

\* cleanupTempAgent: an agent whose session was never confirmed is left to recovery.
List(d) ==
  /\ d \in up /\ pc[d] = "stopping"
  /\ IF ~mem[d].session
     THEN Goto(d, "finishing") /\ UNCHANGED <<mem, faults>>
     ELSE \E sup \in {"none"} \cup StopResults :
            /\ ListBefore(sup)
            /\ mem' = [mem EXCEPT ![d].sup = sup]
            /\ Goto(d, IF sup = "none" THEN "killing" ELSE "stopped")
  /\ UNCHANGED <<direct, run, up, rec, outside, late, ghosts>>

Kill(d) ==
  /\ d \in up /\ pc[d] = "killing"
  /\ \E sup \in StopResults : StopAgent(sup) /\ mem' = [mem EXCEPT ![d].sup = sup]
  /\ Goto(d, "stopped")
  /\ UNCHANGED <<direct, run, up, rec, create, late, sent, notices>>

NoteStopped(d) ==
  /\ d \in up /\ pc[d] = "stopped"
  /\ NoteTemp(d, [run EXCEPT !.sup = mem[d].sup])
  /\ Goto(d, "finishing")
  /\ UNCHANGED <<direct, up, mem, rec, outside, late, ghosts>>

\* Mutant of Finish: the outcome is written over whatever the record says.
FinishOver(d) ==
  /\ d \in up /\ pc[d] = "finishing"
  /\ \/ Persist([run EXCEPT !.status = mem[d].outcome]) \/ PersistFails
  /\ Goto(d, "done") /\ mem' = [mem EXCEPT ![d] = NoMem]
  /\ UNCHANGED <<direct, up, rec, outside, late, ghosts>>

\* finishRun leaves a verdict alone.  Then the key is released, whatever was written.
Finish(d) ==
  /\ d \in up /\ pc[d] = "finishing"
  /\ \/ Persist(IF run.status = "running" THEN [run EXCEPT !.status = mem[d].outcome] ELSE run)
     \/ PersistFails
  /\ Goto(d, "done") /\ mem' = [mem EXCEPT ![d] = NoMem]
  /\ UNCHANGED <<direct, up, rec, outside, late, ghosts>>

Execute(d) ==
  \/ Claim(d) \/ NoteCreate(d) \/ Created(d) \/ NoteSession(d) \/ NotePrompt(d)
  \/ NoteDispatch(d) \/ Send(d) \/ NoteResult(d)
  \/ List(d) \/ Kill(d) \/ NoteStopped(d) \/ Finish(d)

-----------------------------------------------------------------------------
(* Recovery: recoverCronRuns.  It works on the record as the scan read it; a round takes the records   *)
(* one by one, so everything may have changed when the turn of this one comes.                         *)

Rows == {"unknown", "none", "own", "other"}

\* stageOf: what settle() finds again in the ledger or gives up.
Stage == [status : Status, sup : Supervision]
StageOf(r) == [status |-> r.status, sup |-> r.sup]

\* What settle() is to write; "none" keeps what is there.
Settle == [status : Status, sup : {"none"} \cup StopResults, undone : BOOLEAN]
NoSettle == [status |-> "none", sup |-> "none", undone |-> FALSE]

\* A record that has been judged is known only by its stage.
Rec == [at : {"idle", "scanned", "settling", "stopping", "killing"},
        saw : Record, rows : Rows, from : Stage, to : Settle]
NoRec == [at |-> "idle", saw |-> NoRun, rows |-> "unknown", from |-> StageOf(NoRun), to |-> NoSettle]

Scanned(r) == [NoRec EXCEPT !.at = "scanned", !.saw = r]
ToStop(from) == [NoRec EXCEPT !.at = "stopping", !.from = from]
ToSettle(from, status, sup, undone) ==
  [NoRec EXCEPT !.at = "settling", !.from = from,
                !.to = [status |-> status, sup |-> sup, undone |-> undone]]

Become(d, r) == rec' = [rec EXCEPT ![d] = r]
Away(d) == Become(d, NoRec)
At(d, s) == d \in up /\ rec[d].at = s

Decide(d, from, status, sup, undone) == Become(d, ToSettle(from, status, sup, undone))

\* The verdict on the record as it was read.
Judge(d, status, sup, undone) == Decide(d, StageOf(rec[d].saw), status, sup, undone)

\* Mutant of Scan: only runs without a verdict are unfinished.
ScanRunning(d) ==
  /\ At(d, "idle") /\ run.status = "running"
  /\ Become(d, Scanned(run))
  /\ UNCHANGED <<direct, run, up, exec, outside, late, ghosts, faults>>

Scan(d) ==
  /\ At(d, "idle") /\ Unfinished(run)
  /\ Become(d, Scanned(run))
  /\ UNCHANGED <<direct, run, up, exec, outside, late, ghosts, faults>>

\* Whose run it is.  The pid of a dead owner may by now be another process's.
Skip(d) ==
  /\ At(d, "scanned")
  /\ Live(d) \/ (rec[d].saw.owner # d /\ ~late)
  /\ Away(d)
  /\ UNCHANGED <<direct, run, up, exec, outside, late, ghosts, faults>>

\* A run of one's own that is not being executed, of a dead owner, or well past its deadline.
Due(d) ==
  /\ At(d, "scanned") /\ ~Live(d)
  /\ rec[d].saw.owner \notin up \ {d} \/ late

\* No temporary agent: there is nothing to stop, and a prompt that may have been sent is not repeated.
JudgePlain(d) ==
  /\ Due(d) /\ rec[d].saw.sup = "none"
  /\ IF rec[d].saw.prompt THEN Judge(d, "unknown", "none", FALSE)
                          ELSE Judge(d, "error", "none", TRUE)
  /\ UNCHANGED <<direct, run, up, exec, outside, late, ghosts, faults>>

\* One list of the agents serves a whole round: it may have been read in the turn of an earlier record.
ListRows(d) ==
  /\ At(d, "scanned") /\ rec[d].saw.sup # "none" /\ ~rec[d].saw.session /\ rec[d].rows = "unknown"
  /\ rec' = [rec EXCEPT ![d].rows = agent]
  /\ UNCHANGED <<direct, run, up, exec, outside, late, ghosts, faults>>

Listed(d) == IF rec[d].rows = "unknown" THEN agent ELSE rec[d].rows

\* The list of the agents cannot be read: this record waits for the next round.
ListFails(d) ==
  /\ Due(d) /\ rec[d].saw.sup # "none" /\ rec[d].rows = "unknown"
  /\ Fault /\ Away(d)
  /\ UNCHANGED <<direct, run, up, exec, outside, late, ghosts>>

Unconfirmed(d) == Due(d) /\ rec[d].saw.sup # "none" /\ ~rec[d].saw.session

\* recoverUnconfirmed: createSettleMs have not passed, the create may still be under way.
TooEarly(d) ==
  /\ Unconfirmed(d) /\ (~late \/ create = "flying")
  /\ Away(d)
  /\ UNCHANGED <<direct, run, up, exec, outside, late, ghosts, faults>>

\* They have: without a confirmed session nothing is stopped.
JudgeUnconfirmed(d) ==
  /\ Unconfirmed(d) /\ create # "flying"
  /\ LET running == rec[d].saw.status = "running"
     IN IF Listed(d) = "none"
        THEN Judge(d, IF running THEN "error" ELSE "none", "cleaned", running)
        ELSE Judge(d, IF running THEN "unknown" ELSE "none", "needs-review", FALSE)
  /\ UNCHANGED <<direct, run, up, exec, outside, late, ghosts, faults>>

Supervised(d) == Due(d) /\ rec[d].saw.session /\ rec[d].saw.status = "running"

\* recoverSupervised: the agent is away, or its session is another.
JudgeLost(d) ==
  /\ Supervised(d) /\ agent # "own"
  /\ Judge(d, "unknown", IF agent = "none" THEN "cleaned" ELSE "needs-review", FALSE)
  /\ UNCHANGED <<direct, run, up, exec, outside, late, ghosts, faults>>

JudgeLate(d) ==
  /\ Supervised(d) /\ agent = "own" /\ late
  /\ Judge(d, "timeout", "cleanup-pending", FALSE)
  /\ UNCHANGED <<direct, run, up, exec, outside, late, ghosts, faults>>

\* The agent is busy, or idle for the first time: the next round looks again.
StillBusy(d) ==
  /\ Supervised(d) /\ agent = "own" /\ ~late
  /\ Away(d)
  /\ UNCHANGED <<direct, run, up, exec, outside, late, ghosts, faults>>

\* Two rounds in a row have found it idle (idleStreaks, whose count is left out).
JudgeIdle(d) ==
  /\ Supervised(d) /\ agent = "own" /\ ~late
  /\ Judge(d, IF rec[d].saw.prompt THEN "success" ELSE "unknown", "cleanup-pending", FALSE)
  /\ UNCHANGED <<direct, run, up, exec, outside, late, ghosts, faults>>

\* A verdict stands, the agent is still to be stopped.
TakeCleanup(d) ==
  /\ Due(d) /\ rec[d].saw.session /\ rec[d].saw.status # "running"
  /\ Become(d, ToStop(StageOf(rec[d].saw)))
  /\ UNCHANGED <<direct, run, up, exec, outside, late, ghosts, faults>>

RecList(d) ==
  /\ At(d, "stopping")
  /\ \E sup \in {"none"} \cup StopResults :
       /\ ListBefore(sup)
       /\ IF sup = "none" THEN rec' = [rec EXCEPT ![d].at = "killing"]
                          ELSE Decide(d, rec[d].from, "none", sup, FALSE)
  /\ UNCHANGED <<direct, run, up, exec, outside, late, ghosts>>

RecKill(d) ==
  /\ At(d, "killing")
  /\ \E sup \in StopResults : StopAgent(sup) /\ Decide(d, rec[d].from, "none", sup, FALSE)
  /\ UNCHANGED <<direct, run, up, exec, create, late, sent, notices>>

\* What settle() makes of the record.
Settled(r, to) ==
  LET v == IF to.status = "none" THEN r ELSE [r EXCEPT !.status = to.status, !.undone = to.undone]
  IN [v EXCEPT !.sup = IF @ = "none" \/ to.sup = "none" THEN @ ELSE to.sup]

\* Mutant of SameStage: whatever the record has become, the verdict is written.
AnyStage(r, from) == TRUE

\* Two recoveries of one record: only the one that finds the stage it read can write.
SameStage(r, from) == StageOf(r) = from

\* settle(): the record is written first, then the one notice of a verdict leaves; the agent of a run
\* whose verdict has just been settled is stopped at once.
Write(d) ==
  /\ At(d, "settling")
  /\ LET to == rec[d].to
     IN \/ /\ SameStage(run, rec[d].from)
           /\ Persist(Settled(run, to))
           /\ notices' = IF to.status = "none" THEN notices ELSE notices + 1
           /\ IF to.status # "none" /\ to.sup = "cleanup-pending"
              THEN Become(d, ToStop(StageOf(run')))
              ELSE Away(d)
        \/ ~SameStage(run, rec[d].from) /\ Away(d) /\ UNCHANGED <<run, notices, faults>>
        \/ PersistFails /\ Away(d) /\ UNCHANGED notices
  /\ UNCHANGED <<direct, up, exec, outside, late, sent, stopped>>

Recover(d) ==
  \/ Scan(d) \/ Skip(d) \/ JudgePlain(d) \/ ListRows(d) \/ ListFails(d) \/ TooEarly(d)
  \/ JudgeUnconfirmed(d) \/ JudgeLost(d) \/ JudgeLate(d) \/ StillBusy(d) \/ JudgeIdle(d) \/ TakeCleanup(d)
  \/ RecList(d) \/ RecKill(d) \/ Write(d)

-----------------------------------------------------------------------------
(* The outside. *)

\* Bound: the last daemon does not stop; it stands for every later restart.
Crash(d) ==
  /\ d \in up /\ up # {d}
  /\ up' = up \ {d}
  /\ pc' = [pc EXCEPT ![d] = "done"] /\ mem' = [mem EXCEPT ![d] = NoMem]
  /\ Away(d)
  /\ UNCHANGED <<direct, run, outside, late, ghosts, faults>>

\* The manager's create has its end, whether its caller lives or not.
CreateEnds ==
  /\ create = "flying"
  /\ \/ create' = "made" /\ agent' = "own"
     \/ create' = "void" /\ UNCHANGED agent
  /\ UNCHANGED <<direct, run, up, exec, rec, late, ghosts, faults>>

\* The agent ends by itself, or is restarted with a new session.  Bound: that one stays.
AgentChanges ==
  /\ agent = "own"
  /\ agent' \in {"none", "other"}
  /\ UNCHANGED <<direct, run, up, exec, rec, create, late, ghosts, faults>>

\* createSettleMs and the deadline leave the create the time it may take.
Passes ==
  /\ run.status # "none" /\ create # "flying" /\ ~late
  /\ late' = TRUE
  /\ UNCHANGED <<direct, run, up, exec, rec, outside, ghosts, faults>>

-----------------------------------------------------------------------------
Init ==
  /\ direct \in BOOLEAN
  /\ run = NoRun
  /\ up = Daemons
  /\ pc = [d \in Daemons |-> "idle"] /\ mem = [d \in Daemons |-> NoMem]
  /\ rec = [d \in Daemons |-> NoRec]
  /\ create = "no" /\ agent = "none"
  /\ late = FALSE
  /\ sent = 0 /\ stopped = {} /\ notices = 0
  /\ faults = 0

Next ==
  \/ \E d \in Daemons : Execute(d) \/ Recover(d) \/ Crash(d)
  \/ CreateEnds \/ AgentChanges \/ Passes

Spec == Init /\ [][Next]_vars

\* A daemon goes on with what it awaits and ticks; a create ends and time passes.
Fairness ==
  /\ \A d \in Daemons : WF_vars(Execute(d)) /\ WF_vars(Recover(d))
  /\ WF_vars(CreateEnds) /\ WF_vars(Passes)

LiveSpec == Spec /\ Fairness

-----------------------------------------------------------------------------
TypeOK ==
  /\ direct \in BOOLEAN
  /\ run \in Record
  /\ up \subseteq Daemons
  /\ pc \in [Daemons -> Steps]
  /\ mem \in [Daemons -> Mem]
  /\ rec \in [Daemons -> Rec]
  /\ create \in {"no", "flying", "made", "void"}
  /\ agent \in {"none", "own", "other"}
  /\ late \in BOOLEAN
  /\ sent \in Nat /\ stopped \subseteq {"own", "other"} /\ notices \in Nat
  /\ faults \in 0..MaxFaults

\* However many daemons see the minute, stop or recover the run, its prompt leaves at most once, and
\* never before the ledger says that it may have left.
PromptedOnce == sent <= 1 /\ (sent = 1 => run.prompt)

\* Only the session the create made is ever stopped, whatever took its name between a list and a stop.
OwnSessionOnly == stopped \subseteq {"own"}

\* Of all the daemons that recover a run, one tells of its verdict, once.
OneVerdictNotice == notices <= 1

\* A verdict of the ledger is replaced by nothing but the outcome of the run's own execution: no daemon
\* overrules another.
VerdictStands ==
  [][(run.status \notin {"none", "running"} /\ run'.status # run.status)
       => \E d \in Daemons : run.owner = d /\ NoteResult(d)]_vars

\* Whoever stops and whatever fails, a run gets its verdict, and its agent is stopped, gone, or left for
\* a person to look at; nothing opens it again for ever.
EveryRunEnds == <>[](run.status # "running" /\ run.sup \notin OpenSupervision)

-----------------------------------------------------------------------------
(* A statement of the comments that the code does not keep. *)

\* What runCronTempAgent and executeOnExistingAgent say of the note before the prompt: recovery tells by
\* it a run that was not dispatched.  A run recorded as not executed never had its prompt sent.
UndoneWasNotSent == run.undone => sent = 0

=============================================================================
