--------------------------- MODULE EscapeKeysProofs ---------------------------
(***************************************************************************)
(* Proofs about EscapeKeys, for any number of processes and any times with *)
(* Renew + Landing + Gap <= Stale.                                         *)
(*                                                                         *)
(* A process has a claim while its token is in the lock, or in a directory *)
(* that will be put back.  The invariant says that there is at most one    *)
(* claim, that a key is on its way only from the process whose token is in *)
(* the lock, and that a claimant's wait, and what it saw, stay true: only  *)
(* a key that lands could make them false, and it would be another's.      *)
(* The rest is about an Escape that has landed and is not noted: the lock  *)
(* of its sender stands until Gap has passed.                              *)
(***************************************************************************)
EXTENDS EscapeKeys, TLAPS

USE NamesAssumption, TimesAssumption DEF None, Old

LEMMA Times == /\ Gap \in Nat /\ Stale \in Nat /\ Renew \in Nat /\ Landing \in Nat
               /\ Renew + Landing + Gap <= Stale
  BY TimesAssumption, MarginAssumption

LEMMA NoDirType == NoDir \in Dir /\ NoDir.owner = None
  BY DEF NoDir, Dir

LEMMA DirType ==
  /\ \A d \in Dir : d.owner \in Procs \cup {None, Old} /\ d.age \in 0..(Stale + 1)
  /\ \A d \in Dir : \A n \in 0..(Stale + 1) : [d EXCEPT !.age = n] \in Dir /\ [d EXCEPT !.age = n].owner = d.owner
                                             /\ [d EXCEPT !.age = n].age = n
  /\ \A d \in Dir : [d EXCEPT !.owner = Old] \in Dir /\ [d EXCEPT !.owner = Old].owner = Old
                      /\ [d EXCEPT !.owner = Old].age = d.age
  /\ \A d \in Dir : [d EXCEPT !.age = 0] \in Dir /\ [d EXCEPT !.age = 0] = [owner |-> d.owner, age |-> 0]
  /\ \A p \in Procs : [owner |-> p, age |-> 0] \in Dir
  BY DEF Dir

\* A directory one tick later.
LEMMA AgedType ==
  ASSUME NEW d \in Dir
  PROVE  /\ Aged(d) \in Dir /\ Aged(d).owner = d.owner
         /\ d.age <= Aged(d).age /\ Aged(d).age <= d.age + 1
  BY DirType DEF Aged, More

-----------------------------------------------------------------------------
(* Types. *)

LEMMA LockingType ==
  ASSUME TypeOK, NEW p \in Procs, Locking(p)
  PROVE  TypeOK'
<1>1. CASE Request(p) \/ GiveUp(p)
  BY <1>1 DEF Request, GiveUp, TypeOK, Goto, Steps, lockVars, clocks
<1>6. CASE RenameFails(p) \/ SeeStale(p)
  <2>1. lock.owner \in Procs \cup {None, Old}
    BY DirType DEF TypeOK
  <2> QED BY <1>6, <2>1 DEF RenameFails, SeeStale, TypeOK, Goto, Steps, clocks
<1>2. CASE Acquire(p)
  <2>0. own[p] \in 0..Gap /\ shared \in 0..Gap
    BY DEF TypeOK
  <2>1. Gap - Earlier(own[p], shared) \in 0..Gap
    BY <2>0 DEF Earlier
  <2>2. lock' \in Dir
    BY <1>2, DirType DEF Acquire
  <2>3. displaced' \in BOOLEAN
    BY <1>2 DEF Acquire, PutsBack
  <2> QED BY <1>2, <2>1, <2>2, <2>3 DEF Acquire, TypeOK, Goto, Steps, Holding
<1>3. CASE Rename(p)
  BY <1>3, NoDirType DEF Rename, TypeOK, Goto, Steps, Holding, clocks
<1>4. CASE PutBack(p) \/ RemoveMoved(p)
  <2>1. lock' \in Dir
    BY <1>4 DEF PutBack, RemoveMoved, TypeOK
  <2>2. pc[p] = "verifying" /\ Verified(p)
    BY <1>4 DEF PutBack, RemoveMoved
  <2>3. /\ moved' \in [Procs -> Dir] /\ seen' \in [Procs -> Procs \cup {None, Old}] /\ pc' \in [Procs -> Steps]
        /\ \A q \in Procs : moved'[q].owner # None <=> pc'[q] = "verifying"
    BY <2>2, NoDirType DEF Verified, TypeOK, Goto, Steps
  <2> QED BY <1>4, <2>1, <2>3 DEF PutBack, RemoveMoved, TypeOK, clocks
<1>5. CASE RenewLock(p)
  <2>1. CASE lock.owner = p
    <3>1. lock' = [lock EXCEPT !.age = 0] /\ stop' = [stop EXCEPT ![p] = 0] /\ lost' = lost
      BY <1>5, <2>1 DEF RenewLock
    <3>2. lock' \in Dir
      BY <3>1, DirType DEF TypeOK
    <3>3. stop' \in [Procs -> 0..Landing]
      BY <3>1 DEF TypeOK
    <3> QED BY <1>5, <3>1, <3>2, <3>3 DEF RenewLock, TypeOK
  <2>2. CASE lock.owner # p
    BY <1>5, <2>2 DEF RenewLock, TypeOK
  <2> QED BY <2>1, <2>2
<1> QED BY <1>1, <1>2, <1>3, <1>4, <1>5, <1>6 DEF Locking

LEMMA ReleaseType ==
  ASSUME TypeOK, NEW p \in Procs, pc[p] # "verifying", Release(p)
  PROVE  /\ lock' \in Dir /\ moved' \in [Procs -> Dir] /\ seen' \in [Procs -> Procs \cup {None, Old}]
         /\ lost' \in [Procs -> BOOLEAN] /\ pc' \in [Procs -> Steps]
         /\ \A q \in Procs : moved'[q].owner # None <=> pc'[q] = "verifying"
<1>1. lock' \in Dir /\ seen' \in [Procs -> Procs \cup {None, Old}] /\ lost' \in [Procs -> BOOLEAN]
      /\ pc' = [pc EXCEPT ![p] = "idle"] /\ pc' \in [Procs -> Steps]
  BY NoDirType DEF Release, TypeOK, Goto, Steps
<1>2. ASSUME NEW q \in Procs
      PROVE  moved'[q] \in Dir /\ (moved'[q].owner # None <=> moved[q].owner # None)
  BY DirType DEF Release, TypeOK
<1>3. moved' \in [Procs -> Dir]
  BY <1>2 DEF Release
<1> QED BY <1>1, <1>2, <1>3 DEF TypeOK

LEMMA SendingType ==
  ASSUME TypeOK, NEW p \in Procs, Sending(p)
  PROVE  TypeOK'
<1>1. CASE Waited(p)
  BY <1>1 DEF Waited, TypeOK, Goto, Steps, Holding, lockVars, clocks
<1>6. CASE Look(p)
  BY <1>6 DEF Look, TypeOK, Goto, Steps, Holding, lockVars, clocks
<1>2. CASE Blocked(p) \/ NotHeld(p)
  BY <1>2, ReleaseType DEF Blocked, NotHeld, TypeOK, clocks
<1>3. CASE Send(p)
  <2>1. lock' \in Dir
    BY <1>3, DirType DEF Send, TypeOK
  <2>2. stop' \in [Procs -> 0..Landing]
    BY <1>3 DEF Send, TypeOK
  <2> QED BY <1>3, <2>1, <2>2 DEF Send, TypeOK, Goto, Steps, Holding
<1>4. CASE Land(p)
  BY <1>4 DEF Land, TypeOK, Goto, Steps, Holding, lockVars
<1>5. CASE Finish(p)
  BY <1>5, ReleaseType DEF Finish, TypeOK
<1> QED BY <1>1, <1>2, <1>3, <1>4, <1>5, <1>6 DEF Sending

LEMMA TypeStep ==
  ASSUME TypeOK, [Next]_vars
  PROVE  TypeOK'
<1>1. CASE Tick
  <2>1. lock' \in Dir /\ moved' \in [Procs -> Dir] /\ \A q \in Procs : moved'[q].owner = moved[q].owner
    BY <1>1, AgedType DEF Tick, TypeOK
  <2>2. \A n \in 0..Gap : Less(n) \in 0..Gap /\ More(n, Gap) \in 0..Gap
    BY DEF Less, More
  <2>3. \A n \in 0..Landing : More(n, Landing) \in 0..Landing
    BY DEF More
  <2>4. /\ pause' \in [Procs -> 0..Gap] /\ own' \in [Procs -> 0..Gap]
        /\ shared' \in 0..Gap /\ last' \in 0..Gap
    BY <1>1, <2>2 DEF Tick, TypeOK
  <2>5. stop' \in [Procs -> 0..Landing]
    BY <1>1, <2>3 DEF Tick, TypeOK
  <2> QED BY <1>1, <2>1, <2>4, <2>5 DEF Tick, TypeOK
<1>2. ASSUME NEW p \in Procs, Stop(p) \/ Continue(p) PROVE TypeOK'
  BY <1>2 DEF Stop, Continue, TypeOK, lockVars, clocks
<1>4. ASSUME NEW p \in Procs, Die(p) PROVE TypeOK'
  BY <1>4, NoDirType DEF Die, TypeOK, Goto, Steps, clocks
<1>3. CASE UNCHANGED vars
  BY <1>3 DEF TypeOK, vars, lockVars, clocks
<1> QED BY <1>1, <1>2, <1>3, <1>4, LockingType, SendingType DEF Next

LEMMA TypeInit == Init => TypeOK
<1>1. 0 \in 0..Gap /\ Gap \in 0..Gap /\ 0 \in 0..Landing
  OBVIOUS
<1>2. ASSUME Init PROVE TypeOK
  <2>1. lock \in Dir /\ moved \in [Procs -> Dir] /\ \A p \in Procs : moved[p].owner # None <=> pc[p] = "verifying"
    BY <1>2, NoDirType DEF Init
  <2>2. /\ up \in [Procs -> {"up", "stopped", "dead"}] /\ pc \in [Procs -> Steps] /\ kind \in [Procs -> {"esc", "key"}]
        /\ seen \in [Procs -> Procs \cup {None, Old}] /\ lost \in [Procs -> BOOLEAN]
        /\ clean \in [Procs -> BOOLEAN] /\ displaced \in BOOLEAN
    BY <1>2 DEF Init, Steps
  <2>3. pause \in [Procs -> 0..Gap] /\ own \in [Procs -> 0..Gap] /\ shared \in 0..Gap /\ last \in 0..Gap
    BY <1>1, <1>2 DEF Init
  <2>4. stop \in [Procs -> 0..Landing]
    BY <1>1, <1>2 DEF Init
  <2> QED BY <2>1, <2>2, <2>3, <2>4 DEF TypeOK
<1> QED BY <1>2

\* Every variable keeps its type; a process has a directory moved away exactly while it verifies one.
THEOREM TypeCorrect == Spec => []TypeOK
  <1> QED BY TypeInit, TypeStep, PTL DEF Spec

-----------------------------------------------------------------------------
(* Claims. *)

\* q is about to put p's lock back.
BackTo(p, q) == moved[q].owner = p /\ PutsBack(q)

Claims(p) == lock.owner = p \/ \E q \in Procs : BackTo(p, q)

\* A key is on its way only while its sender's token is in the lock, which has been renewed of late.
SenderHolds ==
  \A p \in Procs : pc[p] = "sending" => lock.owner = p /\ ~lost[p] /\ lock.age <= Renew + stop[p]

\* A lock that will be put back is the only one.
OneBack ==
  \A p, q \in Procs : BackTo(p, q) =>
    /\ lock.owner \notin Procs
    /\ \A r, s \in Procs : BackTo(r, s) => s = q

\* An Escape of less than Gap ago is in the shared file, or its sender's lock is not stale yet.
Unnoted(p) ==
  lock.owner = p /\ pc[p] = "landed" /\ kind[p] = "esc" /\ lock.age <= last + Renew + Landing
LastNoted == last >= Gap \/ shared <= last \/ \E p \in Procs : Unnoted(p)

\* Who has a claim has waited, or still waits, and what it saw is still so.
Waits(p) ==
  /\ kind[p] = "esc" /\ pc[p] = "throttled" => last + pause[p] >= Gap
  /\ kind[p] = "esc" /\ pc[p] \in {"looking", "looked", "sending"} => last >= Gap
  /\ pc[p] \in {"looked", "sending"} => clean[p]
ClaimWaits == \A p \in Procs : Claims(p) => Waits(p)

Apart == SenderHolds /\ OneBack /\ LastNoted /\ ClaimWaits
Inv == TypeOK /\ (~displaced => Apart)

LEMMA OwnerNames == NoDir.owner \notin Procs /\ None \notin Procs /\ Old \notin Procs
  BY DEF NoDir

\* Only an acquisition makes a claim where there was none.
LEMMA BackKept ==
  ASSUME TypeOK, NEW q \in Procs, NEW r \in Procs, BackTo(r, q)',
         moved'[q] = moved[q], seen'[q] = seen[q]
  PROVE  BackTo(r, q)
  BY DEF BackTo, PutsBack, IsStale

LEMMA ReleaseClaims ==
  ASSUME TypeOK, NEW p \in Procs, Release(p), NEW r \in Procs
  PROVE  /\ r # p /\ lock'.owner = r => lock' = lock /\ lock.owner = r
         /\ lock'.owner # p
         /\ \A q \in Procs : BackTo(r, q)' => r # p /\ BackTo(r, q)
<1>1. (r # p /\ lock'.owner = r => lock' = lock /\ lock.owner = r) /\ lock'.owner # p
  BY OwnerNames DEF Release
<1>2. ASSUME NEW q \in Procs, BackTo(r, q)' PROVE r # p /\ BackTo(r, q)
  <2>1. moved'[q].owner = r /\ r # Old
    BY <1>2, OwnerNames DEF BackTo
  <2>2. moved[q].owner # p
    BY <2>1, DirType DEF Release, TypeOK
  <2>3. moved'[q] = moved[q] /\ seen'[q] \in {seen[q], Old} /\ (seen'[q] # seen[q] => seen[q] = p)
    BY <2>2 DEF Release, TypeOK
  <2>4. moved[q].owner = r /\ r # p
    BY <2>1, <2>2, <2>3
  <2>5. moved'[q].owner # seen'[q] => moved[q].owner # seen[q]
    BY <2>3, <2>4
  <2> QED BY <1>2, <2>3, <2>4, <2>5 DEF BackTo, PutsBack, IsStale
<1> QED BY <1>1, <1>2

LEMMA TickClaims ==
  ASSUME TypeOK, Tick
  PROVE  /\ lock'.owner = lock.owner
         /\ \A r, q \in Procs : BackTo(r, q)' => BackTo(r, q)
<1>1. lock'.owner = lock.owner
  BY AgedType DEF Tick, TypeOK
<1>2. ASSUME NEW r \in Procs, NEW q \in Procs, BackTo(r, q)' PROVE BackTo(r, q)
  <2>1. moved'[q].owner = moved[q].owner /\ moved[q].age <= moved'[q].age /\ seen'[q] = seen[q]
        /\ moved[q].age \in Nat /\ moved'[q].age \in Nat
    BY AgedType, DirType DEF Tick, TypeOK
  <2> QED BY <1>2, <2>1 DEF BackTo, PutsBack, IsStale
<1> QED BY <1>1, <1>2

-----------------------------------------------------------------------------
(* The invariant. *)

\* A step of p that makes no claim and lets no key land.
LEMMA OwnStep ==
  ASSUME TypeOK, Apart, NEW p \in Procs,
         last' = last,
         \A r \in Procs \ {p} : /\ pc'[r] = pc[r] /\ kind'[r] = kind[r] /\ clean'[r] = clean[r]
                                /\ pause'[r] = pause[r] /\ lost'[r] = lost[r] /\ stop'[r] = stop[r],
         lock.owner # p => lock' = lock,
         lock'.owner \in Procs => lock' = lock,
         \A r, q \in Procs : BackTo(r, q)' => BackTo(r, q),
         pc'[p] = "sending" => /\ pc[p] = "sending" /\ lock' = lock
                               /\ lost'[p] = lost[p] /\ stop'[p] = stop[p],
         shared' = 0 \/ (shared' = shared /\ (Unnoted(p) => Unnoted(p)')),
         Claims(p)' => Waits(p)'
  PROVE  Apart'
<1>1. SenderHolds'
  BY DEF Apart, SenderHolds
<1>2. OneBack'
  BY DEF Apart, OneBack
<1>3. LastNoted'
  <2>1. CASE shared' = 0
    BY <2>1 DEF LastNoted, TypeOK
  <2>2. ASSUME shared' = shared, NEW r \in Procs \ {p}, Unnoted(r) PROVE Unnoted(r)'
    BY <2>2 DEF Unnoted
  <2>3. CASE shared' = shared /\ (Unnoted(p) => Unnoted(p)')
    BY <2>2, <2>3 DEF Apart, LastNoted
  <2> QED BY <2>1, <2>3
<1>4. ClaimWaits'
  <2> SUFFICES ASSUME NEW r \in Procs \ {p}, Claims(r)' PROVE Waits(r)'
    BY DEF ClaimWaits
  <2>1. Claims(r)
    BY DEF Claims
  <2>2. Waits(r)
    BY <2>1 DEF Apart, ClaimWaits
  <2> QED BY <2>2 DEF Waits
<1> QED BY <1>1, <1>2, <1>3, <1>4 DEF Apart

LEMMA QuietStep ==
  ASSUME TypeOK, Apart, NEW p \in Procs,
         Request(p) \/ GiveUp(p) \/ SeeStale(p) \/ RenameFails(p) \/ RemoveMoved(p) \/ Waited(p) \/ Look(p)
           \/ Stop(p) \/ Continue(p)
  PROVE  Apart'
<1>1. /\ last' = last /\ shared' = shared /\ lock' = lock
      /\ \A r \in Procs : pause'[r] = pause[r] /\ lost'[r] = lost[r] /\ stop'[r] = stop[r]
  BY DEF Request, GiveUp, SeeStale, RenameFails, RemoveMoved, Waited, Look, Stop, Continue, lockVars, clocks
<1>2. \A r \in Procs \ {p} : pc'[r] = pc[r] /\ kind'[r] = kind[r] /\ clean'[r] = clean[r]
  BY DEF Request, GiveUp, SeeStale, RenameFails, RemoveMoved, Verified, Waited, Look, Stop, Continue, Goto, TypeOK
<1>3. \A q \in Procs : q # p => moved'[q] = moved[q] /\ seen'[q] = seen[q]
  BY DEF Request, GiveUp, SeeStale, RenameFails, RemoveMoved, Verified, Waited, Look, Stop, Continue, lockVars, TypeOK
<1>4. moved'[p].owner \in Procs => moved'[p] = moved[p] /\ seen'[p] = seen[p]
  BY OwnerNames DEF Request, GiveUp, SeeStale, RenameFails, RemoveMoved, Verified, Waited, Look, Stop, Continue,
       lockVars, TypeOK
<1>5. \A r, q \in Procs : BackTo(r, q)' => BackTo(r, q)
  BY <1>3, <1>4, BackKept DEF BackTo
<1>6. pc'[p] = "sending" => pc[p] = "sending"
  BY DEF Request, GiveUp, SeeStale, RenameFails, RemoveMoved, Verified, Waited, Look, Stop, Continue, Goto, TypeOK
<1>7. Unnoted(p) => Unnoted(p)'
  BY DEF Unnoted, Request, GiveUp, SeeStale, RenameFails, RemoveMoved, Verified, Waited, Look, Stop, Continue,
       lockVars, clocks
<1>8. Claims(p)' => Waits(p)'
  <2> SUFFICES ASSUME Claims(p)' PROVE Waits(p)'
    OBVIOUS
  <2>1. Waits(p)
    BY <1>1, <1>5 DEF Claims, Apart, ClaimWaits
  <2>2. CASE Stop(p) \/ Continue(p)
    BY <2>1, <2>2 DEF Stop, Continue, Waits, clocks
  <2>3. CASE Waited(p)
    BY <2>1, <2>3 DEF Waited, Waits, Goto, clocks, TypeOK
  <2>4. CASE Look(p)
    BY <2>1, <2>4 DEF Look, Waits, Goto, clocks, TypeOK
  <2>5. CASE Request(p) \/ GiveUp(p) \/ SeeStale(p) \/ RenameFails(p) \/ RemoveMoved(p)
    BY <2>5 DEF Request, GiveUp, SeeStale, RenameFails, RemoveMoved, Verified, Goto, Waits, TypeOK
  <2> QED BY <2>2, <2>3, <2>4, <2>5
<1> QED BY <1>1, <1>2, <1>5, <1>6, <1>7, <1>8, OwnStep

LEMMA EndStep ==
  ASSUME TypeOK, Apart, NEW p \in Procs, Blocked(p) \/ NotHeld(p) \/ Finish(p)
  PROVE  Apart'
<1>1. /\ last' = last /\ kind' = kind /\ clean' = clean /\ pause' = pause /\ stop' = stop /\ Release(p)
      /\ shared' = 0 \/ (shared' = shared /\ ~Unnoted(p))
  BY DEF Blocked, NotHeld, Finish, Unnoted, clocks
<1>2. \A r \in Procs \ {p} : pc'[r] = pc[r] /\ lost'[r] = lost[r]
  BY <1>1 DEF Release, Goto, TypeOK
<1>3. pc'[p] = "idle"
  BY <1>1 DEF Release, Goto, TypeOK
<1>4. (lock.owner # p => lock' = lock) /\ (lock'.owner \in Procs => lock' = lock)
  BY <1>1, OwnerNames DEF Release
<1>5. \A r, q \in Procs : BackTo(r, q)' => BackTo(r, q)
  BY <1>1, ReleaseClaims
<1>6. Waits(p)'
  BY <1>3 DEF Waits
<1> QED BY <1>1, <1>2, <1>3, <1>4, <1>5, <1>6, OwnStep

LEMMA DieStep ==
  ASSUME TypeOK, Apart, NEW p \in Procs, Die(p)
  PROVE  Apart'
<1>1. /\ last' = last /\ shared' = shared /\ kind' = kind /\ clean' = clean /\ pause' = pause /\ stop' = stop
      /\ lock' = lock /\ lost' = lost
  BY DEF Die, clocks
<1>2. \A r \in Procs \ {p} : pc'[r] = pc[r]
  BY DEF Die, Goto, TypeOK
<1>3. pc'[p] = pc[p] \/ (pc'[p] = "idle" /\ pc[p] # "landed")
  BY DEF Die, Goto, TypeOK
<1>4. \A r, q \in Procs : BackTo(r, q)' => BackTo(r, q)
  <2> SUFFICES ASSUME NEW r \in Procs, NEW q \in Procs, BackTo(r, q)' PROVE BackTo(r, q)
    OBVIOUS
  <2>1. q # p
    BY OwnerNames DEF Die, BackTo, TypeOK
  <2>2. moved'[q] = moved[q] /\ seen'[q] = seen[q]
    BY <2>1 DEF Die, TypeOK
  <2> QED BY <2>2, BackKept
<1>5. Unnoted(p) => Unnoted(p)'
  BY <1>1, <1>3 DEF Unnoted
<1>6. Claims(p)' => Waits(p)'
  <2>1. Claims(p)' => Claims(p)
    BY <1>1, <1>4 DEF Claims
  <2> QED BY <2>1, <1>1, <1>3 DEF Apart, ClaimWaits, Waits
<1> QED BY <1>1, <1>2, <1>3, <1>4, <1>5, <1>6, OwnStep

\* The lock was free, and no lock is to be put back: the new claim is the only one.
LEMMA AcquireStep ==
  ASSUME TypeOK, Apart, NEW p \in Procs, Acquire(p), ~displaced'
  PROVE  Apart'
<1>1. \A r, q \in Procs : ~BackTo(r, q) /\ ~BackTo(r, q)'
  BY DEF Acquire, BackTo, PutsBack, IsStale
<1>2. lock'.owner = p /\ lock.owner \notin Procs /\ last' = last /\ shared' = shared /\ kind' = kind
  BY OwnerNames DEF Acquire
<1>3. pc'[p] \in {"throttled", "looking"} /\ \A r \in Procs \ {p} : pc'[r] = pc[r]
  BY DEF Acquire, Goto, TypeOK
<1>4. SenderHolds' /\ OneBack'
  BY <1>1, <1>2, <1>3 DEF Apart, SenderHolds, OneBack
<1>5. last >= Gap \/ shared <= last
  BY <1>2 DEF Apart, LastNoted, Unnoted
<1>6. kind[p] = "esc" => pc'[p] = "throttled" /\ last + pause'[p] >= Gap
  <2>1. own[p] \in 0..Gap /\ shared \in 0..Gap /\ last \in 0..Gap
    BY DEF TypeOK
  <2>2. kind[p] = "esc" => pc'[p] = "throttled" /\ pause'[p] = Gap - Earlier(own[p], shared)
    BY DEF Acquire, Goto, TypeOK
  <2> QED BY <1>5, <2>1, <2>2 DEF Earlier
<1>7. ClaimWaits'
  BY <1>1, <1>2, <1>3, <1>6 DEF ClaimWaits, Claims, Waits
<1> QED BY <1>2, <1>4, <1>5, <1>7 DEF Apart, LastNoted

\* A lock that is moved away while it is in use sets displaced; an unnoted Escape's is in use, or stale.
LEMMA RenameStep ==
  ASSUME TypeOK, Apart, NEW p \in Procs, Rename(p), ~displaced'
  PROVE  Apart'
<1>1. /\ last' = last /\ shared' = shared /\ kind' = kind /\ clean' = clean /\ pause' = pause
      /\ stop' = stop /\ lost' = lost /\ lock'.owner \notin Procs
  BY OwnerNames DEF Rename, clocks
<1>2. pc'[p] = "verifying" /\ \A r \in Procs \ {p} : pc'[r] = pc[r]
  BY DEF Rename, Goto, TypeOK
<1>3. \A h \in Procs : lock.owner = h /\ pc[h] \in {"sending", "landed"} => lock.age > Stale
  BY DEF Rename, IsStale
<1>4. \A h \in Procs : pc[h] # "sending"
  <2> SUFFICES ASSUME NEW h \in Procs, pc[h] = "sending" PROVE FALSE
    OBVIOUS
  <2>1. lock.owner = h /\ lock.age <= Renew + stop[h] /\ stop[h] \in 0..Landing /\ lock.age \in Nat
    BY DirType DEF Apart, SenderHolds, TypeOK
  <2> QED BY <1>3, <2>1, Times
<1>5. SenderHolds'
  BY <1>2, <1>4 DEF SenderHolds
<1>6. \A r, q \in Procs : q # p /\ BackTo(r, q)' => BackTo(r, q)
  <2> SUFFICES ASSUME NEW r \in Procs, NEW q \in Procs, q # p, BackTo(r, q)' PROVE BackTo(r, q)
    OBVIOUS
  <2>1. moved'[q] = moved[q] /\ seen'[q] = seen[q]
    BY DEF Rename, TypeOK
  <2> QED BY <2>1, BackKept
<1>7. \A r \in Procs : BackTo(r, p)' => lock.owner = r
  BY DEF Rename, BackTo, TypeOK
<1>8. OneBack'
  BY <1>1, <1>6, <1>7 DEF Apart, OneBack
<1>9. LastNoted'
  <2>1. ASSUME NEW h \in Procs, Unnoted(h) PROVE last >= Gap
    <3>1. lock.age > Stale /\ lock.age <= last + Renew + Landing /\ lock.age \in Nat /\ last \in Nat
      BY <1>3, <2>1, DirType DEF Unnoted, TypeOK
    <3> QED BY <3>1, Times
  <2> QED BY <1>1, <2>1 DEF Apart, LastNoted
<1>10. ClaimWaits'
  <2> SUFFICES ASSUME NEW r \in Procs, Claims(r)' PROVE Waits(r)'
    BY DEF ClaimWaits
  <2>1. Claims(r)
    BY <1>1, <1>6, <1>7 DEF Claims
  <2>2. Waits(r)
    BY <2>1 DEF Apart, ClaimWaits
  <2> QED BY <1>1, <1>2, <2>2 DEF Waits
<1> QED BY <1>5, <1>8, <1>9, <1>10 DEF Apart

LEMMA PutBackStep ==
  ASSUME TypeOK, Apart, NEW p \in Procs, PutBack(p)
  PROVE  Apart'
<1>1. /\ last' = last /\ shared' = shared /\ kind' = kind /\ clean' = clean /\ pause' = pause
      /\ stop' = stop /\ lost' = lost
  BY DEF PutBack, clocks
<1>2. pc'[p] = "locking" /\ pc[p] = "verifying" /\ \A r \in Procs \ {p} : pc'[r] = pc[r]
  BY DEF PutBack, Verified, Goto, TypeOK
<1>3. \A r, q \in Procs : BackTo(r, q)' => q # p /\ BackTo(r, q)
  <2> SUFFICES ASSUME NEW r \in Procs, NEW q \in Procs, BackTo(r, q)' PROVE q # p /\ BackTo(r, q)
    OBVIOUS
  <2>1. q # p
    BY OwnerNames DEF PutBack, Verified, BackTo, TypeOK
  <2>2. moved'[q] = moved[q] /\ seen'[q] = seen[q]
    BY <2>1 DEF PutBack, Verified, TypeOK
  <2> QED BY <2>1, <2>2, BackKept
<1>4. lock' = lock \/ (lock.owner = None /\ lock' = moved[p])
  BY DEF PutBack
<1>5. \A r \in Procs : lock'.owner = r => lock' = lock \/ (BackTo(r, p) /\ lock.owner = None)
  BY <1>4 DEF PutBack, BackTo
<1>6. SenderHolds'
  BY <1>1, <1>2, <1>4, OwnerNames DEF Apart, SenderHolds
<1>7. OneBack'
  <2> SUFFICES ASSUME NEW r \in Procs, NEW q \in Procs, BackTo(r, q)' PROVE lock'.owner \notin Procs
    BY <1>3 DEF Apart, OneBack
  <2>1. \A h \in Procs : ~BackTo(h, p)
    BY <1>3 DEF Apart, OneBack
  <2> QED BY <1>3, <1>5, <2>1 DEF Apart, OneBack
<1>8. LastNoted'
  <2>1. ASSUME NEW h \in Procs, Unnoted(h) PROVE Unnoted(h)'
    BY <1>1, <1>2, <1>4, <2>1, OwnerNames DEF Unnoted
  <2> QED BY <1>1, <2>1 DEF Apart, LastNoted
<1>9. ClaimWaits'
  <2> SUFFICES ASSUME NEW r \in Procs, Claims(r)' PROVE Waits(r)'
    BY DEF ClaimWaits
  <2>1. Claims(r)
    BY <1>3, <1>5 DEF Claims
  <2>2. Waits(r)
    BY <2>1 DEF Apart, ClaimWaits
  <2> QED BY <1>1, <1>2, <2>2 DEF Waits
<1> QED BY <1>6, <1>7, <1>8, <1>9 DEF Apart

\* A renewed lock, of a sender or of another holder.
LEMMA Renewed ==
  ASSUME TypeOK, Apart, NEW p \in Procs,
         last' = last, shared' = shared, kind' = kind, clean' = clean, pause' = pause,
         moved' = moved, seen' = seen,
         lock.owner = p, lock' = [lock EXCEPT !.age = 0], lost' = lost, stop' = [stop EXCEPT ![p] = 0],
         \A r \in Procs \ {p} : pc'[r] = pc[r],
         pc'[p] = pc[p] \/ (pc[p] = "looked" /\ pc'[p] = "sending" /\ ~lost[p])
  PROVE  Apart'
<1>1. lock'.owner = lock.owner /\ lock'.age = 0
  BY DirType DEF TypeOK
<1>2. \A r, q \in Procs : BackTo(r, q)' <=> BackTo(r, q)
  BY DEF BackTo, PutsBack, IsStale
<1>3. stop'[p] = 0 /\ \A r \in Procs \ {p} : stop'[r] = stop[r]
  BY DEF TypeOK
<1>4. SenderHolds'
  BY <1>1, <1>3, Times DEF Apart, SenderHolds
<1>5. OneBack'
  BY <1>1, <1>2 DEF Apart, OneBack
<1>6. LastNoted'
  <2>1. ASSUME NEW h \in Procs, Unnoted(h) PROVE Unnoted(h)'
    <3>1. pc'[h] = "landed" /\ lock'.owner = h /\ kind'[h] = "esc"
      BY <1>1, <2>1 DEF Unnoted
    <3>2. 0 <= last + Renew + Landing
      BY Times DEF TypeOK
    <3> QED BY <1>1, <3>1, <3>2 DEF Unnoted
  <2> QED BY <2>1 DEF Apart, LastNoted
<1>7. ClaimWaits'
  <2> SUFFICES ASSUME NEW r \in Procs, Claims(r)' PROVE Waits(r)'
    BY DEF ClaimWaits
  <2>1. Waits(r)
    BY <1>1, <1>2 DEF Claims, Apart, ClaimWaits
  <2> QED BY <2>1 DEF Waits
<1> QED BY <1>4, <1>5, <1>6, <1>7 DEF Apart

LEMMA RenewStep ==
  ASSUME TypeOK, Apart, NEW p \in Procs, RenewLock(p)
  PROVE  Apart'
<1>1. CASE lock.owner = p
  BY <1>1, Renewed DEF RenewLock
<1>2. CASE lock.owner # p
  <2>1. /\ lost' = [lost EXCEPT ![p] = TRUE] /\ lock' = lock /\ stop' = stop /\ last' = last /\ shared' = shared
        /\ pc' = pc /\ kind' = kind /\ clean' = clean /\ pause' = pause /\ moved' = moved /\ seen' = seen
    BY <1>2 DEF RenewLock
  <2>2. \A r, q \in Procs : BackTo(r, q)' => BackTo(r, q)
    BY <2>1 DEF BackTo, PutsBack, IsStale
  <2>3. pc[p] # "sending"
    BY <1>2 DEF Apart, SenderHolds
  <2>4. \A r \in Procs \ {p} : lost'[r] = lost[r]
    BY <2>1 DEF TypeOK
  <2>5. Unnoted(p) => Unnoted(p)'
    BY <2>1 DEF Unnoted
  <2>6. Claims(p)' => Waits(p)'
    BY <2>1, <2>2 DEF Claims, Waits, Apart, ClaimWaits
  <2> QED BY <2>1, <2>2, <2>3, <2>4, <2>5, <2>6, OwnStep
<1> QED BY <1>1, <1>2

LEMMA SendStep ==
  ASSUME TypeOK, Apart, NEW p \in Procs, Send(p)
  PROVE  Apart'
<1>1. pc[p] = "looked" /\ pc'[p] = "sending" /\ \A r \in Procs \ {p} : pc'[r] = pc[r]
  BY DEF Send, Goto, TypeOK
<1> QED BY <1>1, Renewed DEF Send

\* A key lands: its sender has the only claim.
LEMMA LandStep ==
  ASSUME TypeOK, Apart, NEW p \in Procs, Land(p)
  PROVE  Apart'
<1>1. /\ shared' = shared /\ kind' = kind /\ pause' = pause /\ stop' = stop
      /\ lock' = lock /\ moved' = moved /\ seen' = seen /\ lost' = lost
  BY DEF Land, lockVars
<1>2. pc[p] = "sending" /\ pc'[p] = "landed" /\ \A r \in Procs \ {p} : pc'[r] = pc[r]
  BY DEF Land, Goto, TypeOK
<1>3. \A r, q \in Procs : BackTo(r, q)' <=> BackTo(r, q)
  BY <1>1 DEF BackTo, PutsBack, IsStale
<1>4. lock.owner = p /\ lock.age <= Renew + stop[p] /\ stop[p] \in 0..Landing /\ lock.age \in Nat
  BY <1>2, DirType DEF Apart, SenderHolds, TypeOK
<1>5. \A r \in Procs : Claims(r)' => r = p
  BY <1>1, <1>3, <1>4 DEF Claims, Apart, OneBack
<1>6. SenderHolds' /\ OneBack'
  BY <1>1, <1>2, <1>3 DEF Apart, SenderHolds, OneBack
<1>7. LastNoted'
  <2>1. CASE kind[p] = "esc"
    <3>1. last' = 0
      BY <2>1 DEF Land
    <3>2. Unnoted(p)'
      BY <1>1, <1>2, <1>4, <2>1, <3>1, Times DEF Unnoted
    <3> QED BY <3>2 DEF LastNoted
  <2>2. CASE kind[p] # "esc"
    <3>1. last' = last
      BY <2>2 DEF Land
    <3>2. ASSUME NEW h \in Procs, Unnoted(h) PROVE FALSE
      BY <1>2, <1>4, <3>2 DEF Unnoted
    <3> QED BY <1>1, <3>1, <3>2 DEF Apart, LastNoted
  <2> QED BY <2>1, <2>2
<1>8. ClaimWaits'
  BY <1>2, <1>5 DEF ClaimWaits, Waits
<1> QED BY <1>6, <1>7, <1>8 DEF Apart

LEMMA TickStep ==
  ASSUME TypeOK, Apart, Tick
  PROVE  Apart'
<1>1. /\ pc' = pc /\ kind' = kind /\ clean' = clean /\ lost' = lost /\ seen' = seen
      /\ lock'.owner = lock.owner /\ lock'.age <= lock.age + 1 /\ lock.age \in Nat /\ lock'.age \in Nat
  BY AgedType, DirType DEF Tick, TypeOK
<1>2. \A r, q \in Procs : BackTo(r, q)' => BackTo(r, q)
  BY TickClaims
<1>3. last' = (IF last < Gap THEN last + 1 ELSE last) /\ last \in 0..Gap /\ last' \in 0..Gap
  BY DEF Tick, More, TypeOK
<1>4. shared' = (IF shared < Gap THEN shared + 1 ELSE shared) /\ shared \in 0..Gap
  BY DEF Tick, More, TypeOK
<1>5. SenderHolds'
  <2> SUFFICES ASSUME NEW p \in Procs, pc[p] = "sending" PROVE lock'.age <= Renew + stop'[p]
    BY <1>1 DEF Apart, SenderHolds
  <2>1. lock.owner = p /\ ~lost[p] /\ lock.age <= Renew + stop[p] /\ stop[p] \in 0..Landing /\ InTime(p)
    BY DEF Apart, SenderHolds, Tick, TypeOK
  <2>2. CASE Up(p)
    <3>1. lock.age < Renew
      BY <2>1, <2>2 DEF InTime, Holding
    <3>2. stop'[p] = stop[p]
      BY <2>2 DEF Tick
    <3> QED BY <1>1, <2>1, <3>1, <3>2, Times
  <2>3. CASE ~Up(p)
    <3>1. stop[p] < Landing
      BY <2>3 DEF Tick, InTime
    <3>2. stop'[p] = stop[p] + 1
      BY <2>3, <3>1 DEF Tick, More, Holding
    <3> QED BY <1>1, <2>1, <3>2, Times
  <2> QED BY <2>2, <2>3
<1>6. OneBack'
  BY <1>1, <1>2 DEF Apart, OneBack
<1>7. LastNoted'
  <2>1. CASE last >= Gap
    BY <1>3, <2>1 DEF LastNoted
  <2>2. CASE last < Gap /\ shared <= last
    BY <1>3, <1>4, <2>2 DEF LastNoted
  <2>3. ASSUME last < Gap, NEW h \in Procs, Unnoted(h) PROVE Unnoted(h)'
    BY <1>1, <1>3, <2>3, Times DEF Unnoted
  <2> QED BY <1>3, <2>1, <2>2, <2>3, Times DEF Apart, LastNoted
<1>8. ClaimWaits'
  <2> SUFFICES ASSUME NEW r \in Procs, Claims(r)' PROVE Waits(r)'
    BY DEF ClaimWaits
  <2>1. Waits(r)
    BY <1>1, <1>2 DEF Claims, Apart, ClaimWaits
  <2>2. pause'[r] = (IF pause[r] > 0 THEN pause[r] - 1 ELSE 0) /\ pause[r] \in 0..Gap
    BY DEF Tick, Less, TypeOK
  <2>3. pc'[r] = pc[r] /\ kind'[r] = kind[r] /\ clean'[r] = clean[r]
    BY <1>1
  <2>4. kind[r] = "esc" /\ pc[r] = "throttled" => last' + pause'[r] >= Gap
    BY <1>3, <2>1, <2>2, Times DEF Waits
  <2>5. last >= Gap => last' >= Gap
    BY <1>3
  <2> QED BY <2>1, <2>3, <2>4, <2>5 DEF Waits
<1> QED BY <1>5, <1>6, <1>7, <1>8 DEF Apart

-----------------------------------------------------------------------------
LEMMA InvStep ==
  ASSUME Inv, [Next]_vars
  PROVE  Inv'
<1>1. TypeOK /\ TypeOK'
  BY TypeStep DEF Inv
<1>2. ASSUME ~displaced' PROVE Apart'
  <2>1. CASE UNCHANGED vars
    <3>1. Apart
      BY <1>2, <2>1 DEF Inv, vars
    <3> QED BY <2>1, <3>1
         DEF vars, lockVars, clocks, Apart, SenderHolds, OneBack, LastNoted, ClaimWaits, Claims, BackTo, PutsBack,
             IsStale, Unnoted, Waits
  <2>2. ASSUME Next PROVE ~displaced
    BY <1>2, <2>2
       DEF Next, Tick, Locking, Sending, Request, Acquire, GiveUp, SeeStale, Rename, RenameFails, PutBack,
           RemoveMoved, RenewLock, Waited, Look, Blocked, Send, NotHeld, Land, Finish, Stop, Continue, Die
  <2>3. CASE Tick
    BY <1>1, <2>2, <2>3, TickStep DEF Inv, Next
  <2>4. ASSUME NEW p \in Procs, Locking(p) \/ Sending(p) \/ Stop(p) \/ Continue(p) \/ Die(p) PROVE Apart'
    <3>1. Apart
      BY <2>2, <2>4 DEF Inv, Next
    <3> QED BY <1>1, <1>2, <2>4, <3>1, QuietStep, EndStep, DieStep, AcquireStep, RenameStep, PutBackStep, RenewStep,
              SendStep, LandStep DEF Locking, Sending
  <2> QED BY <2>1, <2>3, <2>4 DEF Next
<1> QED BY <1>1, <1>2 DEF Inv

LEMMA Invariance == Spec => []Inv
  <1>1. Init => Inv
    <2>1. Init => TypeOK
      BY TypeInit
    <2>2. Init => Apart
      BY OwnerNames, NoDirType
         DEF Init, Apart, SenderHolds, OneBack, LastNoted, ClaimWaits, Claims, BackTo, Waits
    <2> QED BY <2>1, <2>2 DEF Inv
  <1> QED BY <1>1, InvStep, PTL DEF Spec

\* Any number of processes and any times within MarginAssumption: unless a lock in use was displaced, an
\* Escape is on its way only when the one before it landed at least Gap ago.
THEOREM EscapesApart == Spec => []EscsApart
  <1>1. Inv => EscsApart
    BY DEF Inv, Apart, EscsApart, SenderHolds, ClaimWaits, Claims, Waits
  <1> QED BY <1>1, Invariance, PTL

\* Any number of processes: unless a lock in use was displaced, no other guarded key has landed between a
\* sender's look at the screen and its own key.
THEOREM KeyFollowsLook == Spec => []AloneSinceLook
  <1>1. Inv => AloneSinceLook
    BY DEF Inv, Apart, AloneSinceLook, SenderHolds, ClaimWaits, Claims, Waits
  <1> QED BY <1>1, Invariance, PTL

=============================================================================
