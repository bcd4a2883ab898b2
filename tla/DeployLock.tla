----------------------------- MODULE DeployLock -----------------------------
(***************************************************************************)
(* The machine-wide lock of deployments (pm-deploy-lock.ts): a file whose  *)
(* record names its holder and, once it is known, the process group the    *)
(* deployment runs in.  Each holder is a process of its own:               *)
(*                                                                         *)
(*   - a wrapper (pm-deploy-lock-run.ts) starts the deployment behind a    *)
(*     gate, a new process group that waits for a byte; it writes the      *)
(*     group into the record before it sends the byte;                     *)
(*   - a worker of the scheduler (center-deploy-worker.ts) starts its      *)
(*     script in a group of its own and writes nothing.                    *)
(*                                                                         *)
(* Processes are killed at any step and leave the file behind.  A waiter   *)
(* that finds the holder dead removes the file under a second lock         *)
(* (file-lock.ts), which can itself be lost.  Every step is one system     *)
(* call on shared state; what lies between two calls interleaves.          *)
(***************************************************************************)
EXTENDS Naturals

CONSTANTS
  Holders,    \* processes; each takes the lock at most once
  Workers,    \* those of the scheduler's center deployments; the others are wrappers
  MaxLosses   \* bound: guards lost by a living process

None == "none"

ASSUME HoldersAssumption == Workers \subseteq Holders /\ None \notin Holders
ASSUME BoundsAssumption == MaxLosses \in Nat

VARIABLES
  pc,      \* where each process is; "gone" when it has exited, "killed" by SIGKILL
  group,   \* the process group of each process's deployment
  lock,    \* the lock file: nothing, or its record
  guard,   \* the owner of the guard <lock>.reap
  seen,    \* the record each waiter read last
  losses   \* guards lost so far

vars == <<pc, group, lock, guard, seen, losses>>

-----------------------------------------------------------------------------
Waiting == {"trying", "reading", "judging", "guarding", "rereading", "rejudging", "sure"}
Judging == {"judging", "guarding", "rereading", "rejudging", "sure"}
Holding == {"held", "gated", "recorded", "running", "draining", "releasing"}
Ended == {"gone", "killed"}

Record == [by : Holders, child : BOOLEAN]
NoRecord == [by |-> None, child |-> FALSE]

Groups == {"none", "gated", "running", "stray", "empty"}
Executing == {"running", "stray"}   \* "stray": the command has ended, others of its group have not

\* Mutant of Dead: only the holder is asked, not the group it started.
DeadHolder(r) == pc[r.by] \in Ended

\* holderLiveness is "dead": neither the holder nor a group it recorded has a process left.
Dead(r) ==
  /\ pc[r.by] \in Ended
  /\ r.child => group[r.by] \notin {"gated"} \cup Executing

Goto(w, to) == pc' = [pc EXCEPT ![w] = to]

\* LockHandle.release of the guard: only if it is still one's own.
DropGuard(w) == guard' = IF guard = w THEN None ELSE guard

\* The end of a round that did not get the lock: a worker does not wait for another.
NextRound(w) == Goto(w, IF w \in Workers THEN "gone" ELSE "trying")

-----------------------------------------------------------------------------
(* Waiting: acquireDeployLock and reapDead. *)

\* tryCreate: the file appears with its full record, or exists already.
Try(w) ==
  /\ pc[w] = "trying"
  /\ IF lock = NoRecord
     THEN lock' = [by |-> w, child |-> FALSE] /\ Goto(w, "held")
     ELSE Goto(w, "reading") /\ UNCHANGED lock
  /\ UNCHANGED <<group, guard, seen, losses>>

\* Mutant of Read: a file that has disappeared is judged like a record.
ReadMissing(w) ==
  /\ pc[w] = "reading"
  /\ Goto(w, "judging") /\ seen' = [seen EXCEPT ![w] = lock]
  /\ UNCHANGED <<group, lock, guard, losses>>

\* readDeployLock: a file that has disappeared meanwhile is tried for at once.
Read(w) ==
  /\ pc[w] = "reading"
  /\ IF lock = NoRecord
     THEN Goto(w, "trying") /\ UNCHANGED seen
     ELSE Goto(w, "judging") /\ seen' = [seen EXCEPT ![w] = lock]
  /\ UNCHANGED <<group, lock, guard, losses>>

FoundDead(w) ==
  /\ pc[w] = "judging" /\ Dead(seen[w])
  /\ Goto(w, "guarding")
  /\ UNCHANGED <<group, lock, guard, seen, losses>>

\* The holder lives, or a probe gave no answer: the lock counts as occupied.
FoundOccupied(w) ==
  /\ pc[w] = "judging"
  /\ NextRound(w)
  /\ UNCHANGED <<group, lock, guard, seen, losses>>

TakeGuard(w) ==
  /\ pc[w] = "guarding" /\ guard = None
  /\ guard' = w
  /\ Goto(w, "rereading")
  /\ UNCHANGED <<group, lock, seen, losses>>

GuardBusy(w) ==
  /\ pc[w] = "guarding" /\ guard # None
  /\ NextRound(w)
  /\ UNCHANGED <<group, lock, guard, seen, losses>>

\* Mutant of Reread: the record read before the guard was taken is trusted.
RereadNothing(w) ==
  /\ pc[w] = "rereading"
  /\ Goto(w, "rejudging")
  /\ UNCHANGED <<group, lock, guard, seen, losses>>

\* Under the guard the record is read again; another holder's is left alone.
Reread(w) ==
  /\ pc[w] = "rereading"
  /\ IF lock.by = seen[w].by
     THEN Goto(w, "rejudging") /\ seen' = [seen EXCEPT ![w] = lock] /\ UNCHANGED guard
     ELSE Goto(w, "trying") /\ DropGuard(w) /\ UNCHANGED seen
  /\ UNCHANGED <<group, lock, losses>>

StillDead(w) ==
  /\ pc[w] = "rejudging" /\ Dead(seen[w])
  /\ Goto(w, "sure")
  /\ UNCHANGED <<group, lock, guard, seen, losses>>

StillOccupied(w) ==
  /\ pc[w] = "rejudging"
  /\ NextRound(w) /\ DropGuard(w)
  /\ UNCHANGED <<group, lock, seen, losses>>

\* guard.held(), then unlink: between the two nothing comes (no process is suspended there).
Reap(w) ==
  /\ pc[w] = "sure"
  /\ IF guard = w
     THEN lock' = NoRecord /\ guard' = None /\ Goto(w, "trying")
     ELSE NextRound(w) /\ UNCHANGED <<lock, guard>>
  /\ UNCHANGED <<group, seen, losses>>

\* The deadline has passed, or a signal came: a wrapper stops waiting.
GiveUp(w) ==
  /\ pc[w] = "trying"
  /\ Goto(w, "gone")
  /\ UNCHANGED <<group, lock, guard, seen, losses>>

Wait(w) == \/ Try(w) \/ Read(w) \/ FoundDead(w) \/ FoundOccupied(w) \/ TakeGuard(w) \/ GuardBusy(w)
           \/ Reread(w) \/ StillDead(w) \/ StillOccupied(w) \/ Reap(w)

\* acquireLock of file-lock.ts: the guard of a dead process is removed when it is stale.
GuardNeverExpires == FALSE /\ UNCHANGED vars

GuardExpires ==
  /\ guard # None /\ pc[guard] \in Ended
  /\ guard' = None
  /\ UNCHANGED <<pc, group, lock, seen, losses>>

\* A living owner was suspended for three minutes, or lost the guard to a reclaim gone wrong.
GuardLost ==
  /\ guard # None /\ pc[guard] \notin Ended
  /\ losses < MaxLosses
  /\ losses' = losses + 1
  /\ guard' = None
  /\ UNCHANGED <<pc, group, lock, seen>>

-----------------------------------------------------------------------------
(* Holding: runGated, and the worker's exec. *)

\* The gate, leader of a new group, waits for its byte.
StartGate(w) ==
  /\ pc[w] = "held" /\ w \notin Workers
  /\ group' = [group EXCEPT ![w] = "gated"]
  /\ Goto(w, "gated")
  /\ UNCHANGED <<lock, guard, seen, losses>>

\* recordChild: the record is replaced if it is still one's own.
RecordChild(w) ==
  /\ pc[w] = "gated" /\ lock.by = w /\ group[w] = "gated"
  /\ lock' = [lock EXCEPT !.child = TRUE]
  /\ Goto(w, "recorded")
  /\ UNCHANGED <<group, guard, seen, losses>>

\* A failure or a signal before the byte: nothing was executed.
Abort(w) ==
  /\ pc[w] \in {"held", "gated", "recorded"}
  /\ group' = [group EXCEPT ![w] = "empty"]
  /\ Goto(w, "releasing")
  /\ UNCHANGED <<lock, guard, seen, losses>>

\* The byte: the gate starts the command, unless it was killed meanwhile.
OpenGate(w) ==
  /\ pc[w] = "recorded"
  /\ group' = [group EXCEPT ![w] = IF @ = "gated" THEN "running" ELSE @]
  /\ Goto(w, "running")
  /\ UNCHANGED <<lock, guard, seen, losses>>

\* The gate has exited, with the command's code.
Exited(w) ==
  /\ pc[w] = "running" /\ w \notin Workers
  /\ group[w] \in {"stray", "empty"}
  /\ Goto(w, "draining")
  /\ UNCHANGED <<group, lock, guard, seen, losses>>

\* drainGroup: the group is seen to be empty.
Drained(w) ==
  /\ pc[w] = "draining" /\ group[w] = "empty"
  /\ Goto(w, "releasing")
  /\ UNCHANGED <<group, lock, guard, seen, losses>>

\* The group did not empty in time, or cannot be asked: the lock stays with it.
KeepLock(w) ==
  /\ pc[w] = "draining"
  /\ Goto(w, "gone")
  /\ UNCHANGED <<group, lock, guard, seen, losses>>

\* centerScriptRunner: a detached script, nothing recorded.
StartScript(w) ==
  /\ pc[w] = "held" /\ w \in Workers
  /\ group' = [group EXCEPT ![w] = "running"]
  /\ Goto(w, "running")
  /\ UNCHANGED <<lock, guard, seen, losses>>

\* The script ended, ran out of time, or the worker got SIGTERM: its group is killed.
FinishScript(w) ==
  /\ pc[w] = "running" /\ w \in Workers
  /\ group' = [group EXCEPT ![w] = "empty"]
  /\ Goto(w, "releasing")
  /\ UNCHANGED <<lock, guard, seen, losses>>

\* release: the file is removed if it is still one's own.
Release(w) ==
  /\ pc[w] = "releasing"
  /\ lock' = IF lock.by = w THEN NoRecord ELSE lock
  /\ Goto(w, "gone")
  /\ UNCHANGED <<group, guard, seen, losses>>

Hold(w) == \/ StartGate(w) \/ RecordChild(w) \/ Abort(w) \/ OpenGate(w) \/ Exited(w) \/ Drained(w)
           \/ KeepLock(w) \/ StartScript(w) \/ FinishScript(w) \/ Release(w)

-----------------------------------------------------------------------------
(* The machine. *)

\* A process of the group ends: the command, the last of its descendants, or a gate whose
\* wrapper is gone (it reads the end of its pipe) or that is killed.
GroupShrinks(w) ==
  /\ group[w] \in {"gated"} \cup Executing
  /\ group' = [group EXCEPT ![w] = IF @ = "running" THEN "stray" ELSE "empty"]
  /\ UNCHANGED <<pc, lock, guard, seen, losses>>

\* SIGKILL, at any step.
Kill(w) ==
  /\ pc[w] \notin Ended
  /\ Goto(w, "killed")
  /\ UNCHANGED <<group, lock, guard, seen, losses>>

Init ==
  /\ pc = [w \in Holders |-> "trying"]
  /\ group = [w \in Holders |-> "none"]
  /\ lock = NoRecord /\ guard = None
  /\ seen = [w \in Holders |-> NoRecord]
  /\ losses = 0

Next == \/ \E w \in Holders : \/ Wait(w) \/ GiveUp(w) \/ Hold(w)
                              \/ GroupShrinks(w) \/ Kill(w)
        \/ GuardExpires \/ GuardLost

Spec == Init /\ [][Next]_vars

\* A process goes on until it is killed, stale guards expire, and a probe that can tell that
\* a holder is dead does so in the end.  Nothing makes a deployment end.
Fairness == /\ WF_vars(GuardExpires)
            /\ \A w \in Holders : /\ WF_vars(Wait(w))
                                  /\ SF_vars(FoundDead(w)) /\ SF_vars(StillDead(w))
LiveSpec == Spec /\ Fairness

-----------------------------------------------------------------------------
\* The types of the state; what a waiter judges is a record it has read.
TypeOK ==
  /\ pc \in [Holders -> Waiting \cup Holding \cup Ended]
  /\ group \in [Holders -> Groups]
  /\ lock \in Record \cup {NoRecord}
  /\ guard \in Holders \cup {None}
  /\ seen \in [Holders -> Record \cup {NoRecord}]
  /\ \A w \in Holders : pc[w] \in Judging => seen[w] \in Record
  /\ losses \in 0 .. MaxLosses

\* A process is in the critical region while it holds the lock, and a wrapper's deployment
\* while anything of its group runs.
Inside(w) == pc[w] \in Holding \/ (w \notin Workers /\ group[w] \in Executing)

\* However processes are killed and waiters race to remove a dead holder's file, two never
\* merge, deploy or restart at the same time; a deployment outlives its wrapper with the lock.
Exclusive == \A v, w \in Holders : Inside(v) /\ Inside(w) => v = w

\* While anything of a wrapper's deployment runs, the lock names it and its group, so that
\* waiters, nested calls (reentrantHolder) and the status command see the right holder.
RunsRecorded == \A w \in Holders \ Workers :
  group[w] \in Executing => lock = [by |-> w, child |-> TRUE]

\* A lock whose holder and group are dead is removed as long as somebody keeps waiting for
\* it, even if waiters are killed while they remove it.
Abandoned == lock # NoRecord /\ Dead(lock)
AbandonedIsReaped == \A w \in Holders : (Abandoned /\ pc[w] \in Waiting) ~> (~Abandoned \/ pc[w] \in Ended)

\* pm-deploy-lock.ts, line 2: one deployment of this machine at a time, whoever starts it.
OneDeployment == \A v, w \in Holders : group[v] \in Executing /\ group[w] \in Executing => v = w
=============================================================================
