-------------------------- MODULE DeployLockProofs --------------------------
(* What holds of DeployLock for any processes, any mixture of wrappers and  *)
(* workers and any number of guards lost.                                   *)
EXTENDS DeployLock, TLAPS

-----------------------------------------------------------------------------
(* The inductive invariant. *)

\* Whoever is past tryCreate owns the file.
HolderOwns == \A w \in Holders : pc[w] \in Holding => lock.by = w

\* A wrapper's group is in the record before the byte and until the wrapper has left; nothing of
\* it runs any more when the wrapper releases.
StageRecorded == \A w \in Holders \ Workers :
  /\ pc[w] \in {"recorded", "running", "draining"} => lock.child
  /\ pc[w] = "releasing" => group[w] \notin Executing

\* A waiter takes the guard only after it judged a record whose holder had ended, and an ended
\* holder cannot change its record any more: what is read under the guard is final.
SuspectsEnded == \A w \in Holders :
  pc[w] \in {"guarding", "rereading", "rejudging", "sure"} => pc[seen[w].by] \in Ended

\* As long as it has the guard, what a waiter read under it is what the file says.
SeenIsLock == \A w \in Holders :
  pc[w] \in {"rejudging", "sure"} /\ guard = w => lock = seen[w]

SureIsDead == \A w \in Holders : pc[w] = "sure" => Dead(seen[w])

Inv == /\ TypeOK /\ HolderOwns /\ RunsRecorded /\ StageRecorded
       /\ SuspectsEnded /\ SeenIsLock /\ SureIsDead

-----------------------------------------------------------------------------
(* Facts about records and steps. *)

LEMMA NoRecordType == NoRecord \notin Record /\ NoRecord.by \notin Holders
  BY HoldersAssumption DEF NoRecord, Record

\* What happens to processes and groups at every step: who has ended stays so, and an ended process's group
\* never starts again.
LEMMA EndedStays ==
  ASSUME TypeOK, Next, NEW w \in Holders, pc[w] \in Ended
  PROVE  /\ pc'[w] = pc[w]
         /\ group[w] \notin {"gated"} \cup Executing => group'[w] \notin {"gated"} \cup Executing
  <1> USE DEF TypeOK, Goto, NextRound, Ended, Executing
  <1>1. ASSUME NEW v \in Holders, Wait(v) \/ GiveUp(v) PROVE pc'[w] = pc[w] /\ group'[w] = group[w]
    BY <1>1 DEF Wait, Try, Read, FoundDead, FoundOccupied, TakeGuard, GuardBusy, Reread, StillDead,
                StillOccupied, Reap, GiveUp
  <1>2. ASSUME NEW v \in Holders, Hold(v) PROVE pc'[w] = pc[w] /\ group'[w] = group[w]
    BY <1>2 DEF Hold, StartGate, RecordChild, Abort, OpenGate, Exited, Drained, KeepLock,
                StartScript, FinishScript, Release
  <1>3. ASSUME NEW v \in Holders, GroupShrinks(v)
        PROVE  /\ pc'[w] = pc[w]
               /\ group[w] \notin {"gated"} \cup Executing => group'[w] = group[w]
    BY <1>3 DEF GroupShrinks
  <1>4. ASSUME NEW v \in Holders, Kill(v) PROVE pc'[w] = pc[w] /\ group'[w] = group[w]
    BY <1>4 DEF Kill
  <1>5. ASSUME GuardExpires \/ GuardLost PROVE pc'[w] = pc[w] /\ group'[w] = group[w]
    BY <1>5 DEF GuardExpires, GuardLost
  <1>6. QED  BY <1>1, <1>2, <1>3, <1>4, <1>5 DEF Next

LEMMA DeadStays ==
  ASSUME TypeOK, Next, NEW r \in Record, Dead(r)
  PROVE  Dead(r)'
  <1>1. r.by \in Holders  BY DEF Record
  <1>2. QED  BY <1>1, EndedStays DEF Dead

-----------------------------------------------------------------------------
(* Every step keeps the invariant. *)

LEMMA TypeStep == Inv /\ [Next]_vars => TypeOK'
  <1> SUFFICES ASSUME Inv, [Next]_vars PROVE TypeOK'  OBVIOUS
  <1> USE NoRecordType, BoundsAssumption, HoldersAssumption
      DEF Inv, TypeOK, Goto, NextRound, DropGuard, Waiting, Judging, Holding, Ended, Groups
  <1>1. ASSUME NEW w \in Holders, Wait(w) \/ GiveUp(w) PROVE TypeOK'
    <2>1. CASE Try(w)
      <3>1. [by |-> w, child |-> FALSE] \in Record  BY DEF Record
      <3>2. lock' \in Record \cup {NoRecord}  BY <2>1, <3>1 DEF Try
      <3>3. pc' \in [Holders -> Waiting \cup Holding \cup Ended]  BY <2>1 DEF Try
      <3>4. QED  BY <2>1, <3>2, <3>3 DEF Try
    <2>2. CASE Read(w)           BY <2>2 DEF Read
    <2>3. CASE FoundDead(w)      BY <2>3 DEF FoundDead
    <2>4. CASE FoundOccupied(w)  BY <2>4 DEF FoundOccupied
    <2>5. CASE TakeGuard(w)      BY <2>5 DEF TakeGuard
    <2>6. CASE GuardBusy(w)      BY <2>6 DEF GuardBusy
    <2>7. CASE Reread(w)
      <3>1. seen[w].by \in Holders  BY <2>7 DEF Reread, Record
      <3>2. QED  BY <2>7, <3>1 DEF Reread
    <2>8. CASE StillDead(w)      BY <2>8 DEF StillDead
    <2>9. CASE StillOccupied(w)  BY <2>9 DEF StillOccupied
    <2>10. CASE Reap(w)          BY <2>10 DEF Reap
    <2>11. CASE GiveUp(w)        BY <2>11 DEF GiveUp
    <2>12. QED
      BY <1>1, <2>1, <2>2, <2>3, <2>4, <2>5, <2>6, <2>7, <2>8, <2>9, <2>10, <2>11 DEF Wait
  <1>2. ASSUME NEW w \in Holders, Hold(w) PROVE TypeOK'
    <2>1. CASE StartGate(w)     BY <2>1 DEF StartGate
    <2>2. CASE RecordChild(w)   BY <2>2 DEF RecordChild, Record
    <2>3. CASE Abort(w)         BY <2>3 DEF Abort
    <2>4. CASE OpenGate(w)      BY <2>4 DEF OpenGate
    <2>5. CASE Exited(w)        BY <2>5 DEF Exited
    <2>6. CASE Drained(w)       BY <2>6 DEF Drained
    <2>7. CASE KeepLock(w)      BY <2>7 DEF KeepLock
    <2>8. CASE StartScript(w)   BY <2>8 DEF StartScript
    <2>9. CASE FinishScript(w)  BY <2>9 DEF FinishScript
    <2>10. CASE Release(w)      BY <2>10 DEF Release
    <2>11. QED  BY <1>2, <2>1, <2>2, <2>3, <2>4, <2>5, <2>6, <2>7, <2>8, <2>9, <2>10 DEF Hold
  <1>3. ASSUME NEW w \in Holders, GroupShrinks(w) \/ Kill(w) PROVE TypeOK'
    BY <1>3 DEF GroupShrinks, Kill
  <1>4. CASE GuardExpires  BY <1>4 DEF GuardExpires
  <1>5. CASE GuardLost     BY <1>5 DEF GuardLost
  <1>6. CASE UNCHANGED vars  BY <1>6 DEF vars
  <1>7. QED  BY <1>1, <1>2, <1>3, <1>4, <1>5, <1>6 DEF Next

\* The file and the groups: only Try, RecordChild, Reap and Release write the file.
LEMMA FileStep == Inv /\ [Next]_vars => (HolderOwns /\ RunsRecorded /\ StageRecorded)'
  <1> SUFFICES ASSUME Inv, [Next]_vars PROVE (HolderOwns /\ RunsRecorded /\ StageRecorded)'  OBVIOUS
  <1> DEFINE Files == HolderOwns /\ RunsRecorded /\ StageRecorded
  <1> USE DEF Inv, TypeOK, Goto, NextRound, Holding, Executing, HolderOwns, RunsRecorded, StageRecorded
  <1>1. ASSUME NEW w \in Holders, Try(w) PROVE Files'
    BY <1>1, NoRecordType DEF Try, NoRecord
  <1>2. ASSUME NEW w \in Holders, Reap(w) PROVE Files'
    <2>1. CASE guard # w  BY <1>2, <2>1 DEF Reap
    <2>2. CASE guard = w
      <3>1. lock = seen[w] /\ lock \in Record /\ Dead(lock)
        BY <1>2, <2>2 DEF Reap, SeenIsLock, SureIsDead, Judging
      <3>2. lock.by \in Holders /\ pc[lock.by] \in Ended  BY <3>1 DEF Record, Dead
      <3>3. \A v \in Holders : pc[v] \notin Holding  BY <3>2 DEF Ended
      <3>4. \A v \in Holders \ Workers : group[v] \notin Executing
        BY <3>1 DEF Dead
      <3>5. QED  BY <1>2, <2>2, <3>3, <3>4 DEF Reap
    <2>3. QED  BY <2>1, <2>2
  <1>3. ASSUME NEW w \in Holders, Wait(w) \/ GiveUp(w) PROVE Files'
    <2>1. CASE UNCHANGED <<lock, group>> /\ pc'[w] \notin Holding /\ \A v \in Holders \ {w} : pc'[v] = pc[v]
      BY <2>1
    <2>2. QED
      BY <1>1, <1>2, <1>3, <2>1 DEF Wait, Read, FoundDead, FoundOccupied, TakeGuard, GuardBusy,
         Reread, StillDead, StillOccupied, GiveUp
  <1>4. ASSUME NEW w \in Holders, Hold(w) PROVE Files'
    <2>1. CASE StartGate(w)     BY <2>1 DEF StartGate
    <2>2. CASE RecordChild(w)
      <3>1. lock \in Record  BY <2>2, NoRecordType DEF RecordChild
      <3>2. lock' = [by |-> w, child |-> TRUE]  BY <2>2, <3>1 DEF RecordChild, Record
      <3>3. QED  BY <2>2, <3>2 DEF RecordChild
    <2>3. CASE Abort(w)         BY <2>3 DEF Abort
    <2>4. CASE OpenGate(w)
      <3>1. lock \in Record /\ lock.by = w  BY <2>4, NoRecordType DEF OpenGate
      <3>2. w \notin Workers => lock = [by |-> w, child |-> TRUE]  BY <2>4, <3>1 DEF OpenGate, Record
      <3>3. QED  BY <2>4, <3>2 DEF OpenGate
    <2>5. CASE Exited(w)        BY <2>5 DEF Exited
    <2>6. CASE Drained(w)       BY <2>6 DEF Drained
    <2>7. CASE KeepLock(w)      BY <2>7 DEF KeepLock
    <2>8. CASE StartScript(w)   BY <2>8 DEF StartScript
    <2>9. CASE FinishScript(w)  BY <2>9 DEF FinishScript
    <2>10. CASE Release(w)
      <3>1. lock.by = w /\ lock' = NoRecord  BY <2>10 DEF Release
      <3>2. \A v \in Holders \ Workers : group[v] \notin Executing  BY <2>10, <3>1 DEF Release
      <3>3. \A v \in Holders : pc'[v] \notin Holding  BY <2>10, <3>1 DEF Release
      <3>4. group' = group  BY <2>10 DEF Release
      <3>5. QED  BY <3>2, <3>3, <3>4
    <2>11. QED  BY <1>4, <2>1, <2>2, <2>3, <2>4, <2>5, <2>6, <2>7, <2>8, <2>9, <2>10 DEF Hold
  <1>5. ASSUME NEW w \in Holders, GroupShrinks(w) \/ Kill(w) PROVE Files'
    BY <1>5 DEF GroupShrinks, Kill
  <1>6. CASE GuardExpires \/ GuardLost \/ UNCHANGED vars
    BY <1>6 DEF GuardExpires, GuardLost, vars
  <1>7. QED  BY <1>3, <1>4, <1>5, <1>6 DEF Next

\* The waiters.
LEMMA SuspectStep == Inv /\ [Next]_vars => (SuspectsEnded /\ SureIsDead)'
  <1> SUFFICES ASSUME Inv, [Next]_vars, NEW w \in Holders
               PROVE  /\ (pc[w] \in {"guarding", "rereading", "rejudging", "sure"}
                            => pc[seen[w].by] \in Ended)'
                      /\ (pc[w] = "sure" => Dead(seen[w]))'
    BY DEF SuspectsEnded, SureIsDead
  <1> USE DEF Inv, TypeOK
  <1>1. CASE UNCHANGED vars  BY <1>1 DEF vars, SuspectsEnded, SureIsDead, Dead
  <1>2. CASE Next /\ pc'[w] = pc[w] /\ seen'[w] = seen[w]
    <2>1. ASSUME pc[w] \in {"guarding", "rereading", "rejudging", "sure"}
          PROVE  pc'[seen[w].by] \in Ended
      <3>1. seen[w].by \in Holders /\ pc[seen[w].by] \in Ended
        BY <2>1 DEF Judging, Record, SuspectsEnded
      <3>2. QED  BY <1>2, <3>1, EndedStays
    <2>2. ASSUME pc[w] = "sure" PROVE Dead(seen[w])'
      <3>1. seen[w] \in Record /\ Dead(seen[w])  BY <2>2 DEF Judging, SureIsDead
      <3>2. PICK r \in Record : r = seen[w]  BY <3>1
      <3>3. Dead(r)'  BY <1>2, <3>1, <3>2, DeadStays
      <3>4. QED  BY <1>2, <3>2, <3>3 DEF Dead
    <2>3. QED  BY <1>2, <2>1, <2>2
  <1>3. ASSUME NEW v \in Holders, Wait(v) \/ GiveUp(v) \/ Hold(v) \/ GroupShrinks(v) \/ Kill(v), v # w
        PROVE  pc'[w] = pc[w] /\ seen'[w] = seen[w]
    BY <1>3 DEF Goto, NextRound, Wait, Try, Read, FoundDead, FoundOccupied, TakeGuard, GuardBusy,
       Reread, StillDead, StillOccupied, Reap, GiveUp, Hold, StartGate, RecordChild, Abort, OpenGate,
       Exited, Drained, KeepLock, StartScript, FinishScript, Release, GroupShrinks, Kill
  <1>4. ASSUME FoundDead(w) \/ TakeGuard(w) \/ Reread(w) \/ StillDead(w)
        PROVE  /\ pc'[w] \in {"guarding", "rereading", "rejudging", "sure"} => pc'[seen'[w].by] \in Ended
               /\ pc'[w] = "sure" => Dead(seen[w])'
    <2>1. pc[w] \in Judging /\ seen[w] \in Record /\ seen'[w].by = seen[w].by
      BY <1>4 DEF FoundDead, TakeGuard, Reread, StillDead, Judging
    <2>2. seen[w].by \in Holders /\ pc[seen[w].by] \in Ended
      BY <1>4, <2>1 DEF FoundDead, TakeGuard, Reread, StillDead, Record, Dead, SuspectsEnded
    <2>3. seen[w].by # w  BY <1>4, <2>2 DEF FoundDead, TakeGuard, Reread, StillDead, Ended
    <2>4. pc'[seen[w].by] = pc[seen[w].by] /\ group' = group
      BY <1>4, <2>2, <2>3 DEF FoundDead, TakeGuard, Reread, StillDead, Goto
    <2>5. pc'[w] = "sure" => StillDead(w)
      BY <1>4 DEF FoundDead, TakeGuard, Reread, StillDead, Goto
    <2>6. StillDead(w) => Dead(seen[w])'
      BY <2>4 DEF StillDead, Dead
    <2>7. QED  BY <2>1, <2>2, <2>4, <2>5, <2>6
  <1>5. ASSUME Wait(w) \/ GiveUp(w) \/ Hold(w) \/ GroupShrinks(w) \/ Kill(w),
               ~(FoundDead(w) \/ TakeGuard(w) \/ Reread(w) \/ StillDead(w))
        PROVE  pc'[w] \notin {"guarding", "rereading", "rejudging", "sure"}
               \/ (pc'[w] = pc[w] /\ seen'[w] = seen[w])
    BY <1>5 DEF Goto, NextRound, Wait, Try, Read, FoundOccupied, GuardBusy,
       StillOccupied, Reap, GiveUp, Hold, StartGate, RecordChild, Abort, OpenGate,
       Exited, Drained, KeepLock, StartScript, FinishScript, Release, GroupShrinks, Kill
  <1>6. ASSUME GuardExpires \/ GuardLost PROVE pc'[w] = pc[w] /\ seen'[w] = seen[w]
    BY <1>6 DEF GuardExpires, GuardLost
  <1>7. CASE StillDead(w)
    <2>1. seen'[w] = seen[w]  BY <1>7 DEF StillDead
    <2>2. QED  BY <1>4, <1>7, <2>1 DEF Dead
  <1>8. CASE FoundDead(w) \/ TakeGuard(w) \/ Reread(w)
    <2>1. pc'[w] # "sure"  BY <1>8 DEF FoundDead, TakeGuard, Reread, Goto
    <2>2. QED  BY <1>4, <1>8, <2>1
  <1>9. QED  BY <1>1, <1>2, <1>3, <1>5, <1>6, <1>7, <1>8 DEF Next

\* The guard.
LEMMA SeenStep == Inv /\ [Next]_vars => SeenIsLock'
  <1> SUFFICES ASSUME Inv, [Next]_vars, NEW w \in Holders,
                      (pc[w] \in {"rejudging", "sure"})', (guard = w)'
               PROVE  (lock = seen[w])'
    BY DEF SeenIsLock
  <1> USE DEF Inv, TypeOK, Goto, NextRound, DropGuard
  <1>1. ASSUME NEW v \in Holders, Hold(v) PROVE (lock = seen[w])'
    <2>1. pc[w] \in {"rejudging", "sure"} /\ guard = w /\ seen'[w] = seen[w] /\ v # w
      BY <1>1 DEF Hold, StartGate, RecordChild, Abort, OpenGate, Exited, Drained, KeepLock,
         StartScript, FinishScript, Release
    <2>2. lock = seen[w] /\ seen[w] \in Record /\ pc[lock.by] \in Ended
      BY <2>1 DEF SeenIsLock, SuspectsEnded, Judging
    <2>3. pc[v] \in Holding  BY <1>1 DEF Hold, StartGate, RecordChild, Abort, OpenGate, Exited, Drained,
         KeepLock, StartScript, FinishScript, Release, Holding
    <2>4. lock.by # v  BY <2>2, <2>3 DEF Holding, Ended
    <2>5. lock' = lock
      BY <1>1, <2>4 DEF Hold, StartGate, RecordChild, Abort, OpenGate, Exited, Drained, KeepLock,
         StartScript, FinishScript, Release
    <2>6. QED  BY <2>1, <2>2, <2>5
  <1>2. ASSUME NEW v \in Holders, Wait(v) \/ GiveUp(v) PROVE (lock = seen[w])'
    <2>1. CASE Try(v)
      <3>1. pc[w] \in {"rejudging", "sure"} /\ guard = w /\ seen'[w] = seen[w]  BY <2>1 DEF Try
      <3>2. lock = seen[w] /\ seen[w] \in Record  BY <3>1 DEF SeenIsLock, Judging
      <3>3. QED  BY <2>1, <3>1, <3>2, NoRecordType DEF Try
    <2>2. CASE Read(v)           BY <2>2 DEF Read, SeenIsLock
    <2>3. CASE FoundDead(v)      BY <2>3 DEF FoundDead, SeenIsLock
    <2>4. CASE FoundOccupied(v)  BY <2>4 DEF FoundOccupied, SeenIsLock
    <2>5. CASE TakeGuard(v)      BY <2>5 DEF TakeGuard, SeenIsLock
    <2>6. CASE GuardBusy(v)      BY <2>6 DEF GuardBusy, SeenIsLock
    <2>7. CASE Reread(v)         BY <2>7, HoldersAssumption DEF Reread, SeenIsLock
    <2>8. CASE StillDead(v)      BY <2>8 DEF StillDead, SeenIsLock
    <2>9. CASE StillOccupied(v)  BY <2>9, HoldersAssumption DEF StillOccupied, SeenIsLock
    <2>10. CASE Reap(v)          BY <2>10, HoldersAssumption DEF Reap, SeenIsLock
    <2>11. CASE GiveUp(v)        BY <2>11 DEF GiveUp, SeenIsLock
    <2>12. QED
      BY <1>2, <2>1, <2>2, <2>3, <2>4, <2>5, <2>6, <2>7, <2>8, <2>9, <2>10, <2>11 DEF Wait
  <1>3. ASSUME NEW v \in Holders, GroupShrinks(v) \/ Kill(v) PROVE (lock = seen[w])'
    BY <1>3 DEF GroupShrinks, Kill, SeenIsLock
  <1>4. CASE GuardExpires \/ GuardLost
    BY <1>4, HoldersAssumption DEF GuardExpires, GuardLost
  <1>5. CASE UNCHANGED vars  BY <1>5 DEF vars, SeenIsLock
  <1>6. QED  BY <1>1, <1>2, <1>3, <1>4, <1>5 DEF Next

-----------------------------------------------------------------------------
(* What follows for every behaviour. *)

LEMMA InvAlways == Spec => []Inv
  <1>1. Init => Inv
    BY BoundsAssumption, HoldersAssumption
    DEF Init, Inv, TypeOK, HolderOwns, RunsRecorded, StageRecorded, SuspectsEnded, SeenIsLock,
        SureIsDead, Waiting, Judging, Holding, Ended, Groups, Executing
  <1>2. Inv /\ [Next]_vars => Inv'
    BY TypeStep, FileStep, SuspectStep, SeenStep DEF Inv
  <1>3. QED  BY <1>1, <1>2, PTL DEF Spec

\* The state keeps its types, and no waiter ever judges a record it has not read.
THEOREM TypeCorrect == Spec => []TypeOK
  <1>1. Inv => TypeOK  BY DEF Inv
  <1>2. QED  BY <1>1, InvAlways, PTL

\* Two deployments of wrappers, or two holders of the lock, never overlap, whichever processes are
\* killed at whichever step and however many guards are lost.
THEOREM MutualExclusion == Spec => []Exclusive
  <1>1. Inv => Exclusive
    <2> SUFFICES ASSUME Inv, NEW v \in Holders, NEW w \in Holders, Inside(v), Inside(w) PROVE v = w
      BY DEF Exclusive
    <2>1. \A x \in Holders : Inside(x) => lock.by = x
      BY DEF Inv, Inside, HolderOwns, RunsRecorded
    <2>2. QED  BY <2>1
  <1>2. QED  BY <1>1, InvAlways, PTL

\* As long as a process of a wrapper's deployment runs, the lock names that wrapper and its group.
THEOREM DeploymentRecorded == Spec => []RunsRecorded
  <1>1. Inv => RunsRecorded  BY DEF Inv
  <1>2. QED  BY <1>1, InvAlways, PTL
=============================================================================
