----------------------------- MODULE EscapeKeys -----------------------------
(***************************************************************************)
(* The Escape keys, and the other guarded keys, that several processes of  *)
(* one machine send to one agent's window (esc-guard.ts), under a lock of  *)
(* the window that is a directory (file-lock.ts).  Two Escapes in quick    *)
(* succession open Claude Code's Rewind dialog, so a sender                *)
(*                                                                         *)
(*   - takes the lock, removing one that has not been renewed for long;    *)
(*   - waits until the last Escape is Gap ago, by what itself and the      *)
(*     shared file remember;                                               *)
(*   - looks at the screen, and sends only if the lock is still its own;   *)
(*   - notes the moment when the key was sent, and releases the lock.      *)
(*                                                                         *)
(* Processes end at any step, or are stopped for any time and go on.       *)
(* Within a process requests wait for each other (keyed-serial.ts).  Time  *)
(* is discrete and kept as the time that has passed.                       *)
(***************************************************************************)
EXTENDS Naturals

CONSTANTS
  Procs,    \* the processes that send keys: the bridge and the manager's
  Gap,      \* ESC_DOUBLE_TAP_MS
  Stale,    \* a lock that has not been renewed for longer is removed
  Renew,    \* the interval at which a holder renews its lock
  Landing   \* a key that can land does so before its sender has been stopped for longer than this

None == "none"
Old == "old"

ASSUME NamesAssumption == None \notin Procs /\ Old \notin Procs
ASSUME TimesAssumption == Gap \in Nat /\ Stale \in Nat /\ Renew \in Nat /\ Landing \in Nat
ASSUME MarginAssumption == Renew + Landing + Gap <= Stale

VARIABLES
  up,         \* each process: "up", "stopped", "dead"
  pc,         \* what its current request is at
  kind,       \* of the request: an Escape, or another key, which is not throttled
  lock,       \* the directory of the lock: whose it is and how long ago it was renewed
  seen,       \* the owner of the stale lock that a process is about to move away
  moved,      \* the directory it has moved away
  lost,       \* a holder has found that the lock is not its own
  pause,      \* how much longer a holder waits
  own,        \* how long ago a process, by its own memory, last sent an Escape
  shared,     \* how long ago the shared file says that one was sent
  stop,       \* how long a process has been stopped since it last renewed its lock
  last,       \* history: how long ago an Escape last landed
  clean,      \* history: no other key has landed since the process looked at the screen
  displaced   \* history: a lock that was in use has been displaced by mistake (see Rename and Acquire)

lockVars == <<lock, seen, moved, lost>>
clocks == <<own, shared, stop, last>>
vars == <<up, pc, kind, lockVars, pause, clocks, clean, displaced>>

-----------------------------------------------------------------------------
Holding == {"throttled", "looking", "looked", "sending", "landed"}
Steps == {"idle", "locking", "reclaiming", "verifying"} \cup Holding

\* The token in a lock is of one acquisition: Old stands for the tokens of those that are over.
Dir == [owner : Procs \cup {None, Old}, age : 0..(Stale + 1)]
NoDir == [owner |-> None, age |-> 0]

IsStale(dir) == dir.owner # None /\ dir.age > Stale

\* One more, up to a limit beyond which it makes no difference.
More(n, limit) == IF n < limit THEN n + 1 ELSE n
Less(n) == IF n > 0 THEN n - 1 ELSE 0
Earlier(m, n) == IF m < n THEN m ELSE n

Up(p) == up[p] = "up"
Goto(p, s) == pc' = [pc EXCEPT ![p] = s]

-----------------------------------------------------------------------------
(* The lock: acquireLock, renew, release. *)

\* sendEscape and locked, once it is the request's turn in its process.
Request(p) ==
  /\ Up(p) /\ pc[p] = "idle"
  /\ Goto(p, "locking")
  /\ \E k \in {"esc", "key"} : kind' = [kind EXCEPT ![p] = k]
  /\ UNCHANGED <<up, lockVars, pause, clocks, clean, displaced>>

\* What was moved is not what was seen stale, or is not stale any more: it goes back.
PutsBack(q) == moved[q].owner # seen[q] \/ ~IsStale(moved[q])

\* The lock is free: mkdir and the token.  An Escape then waits until the last one is Gap ago.
Acquire(p) ==
  /\ Up(p) /\ pc[p] = "locking" /\ lock.owner = None
  /\ lock' = [owner |-> p, age |-> 0]
  /\ lost' = [lost EXCEPT ![p] = FALSE]
  /\ stop' = [stop EXCEPT ![p] = 0]
  /\ IF kind[p] = "esc"
     THEN Goto(p, "throttled") /\ pause' = [pause EXCEPT ![p] = Gap - Earlier(own[p], shared)]
     ELSE Goto(p, "looking") /\ UNCHANGED pause
  /\ displaced' = (displaced \/ \E q \in Procs : moved[q].owner \in Procs /\ PutsBack(q))
  /\ UNCHANGED <<up, kind, seen, moved, own, shared, last, clean>>

\* The wait for the lock is over, the key is not sent.
GiveUp(p) ==
  /\ Up(p) /\ pc[p] = "locking" /\ lock.owner # None /\ ~IsStale(lock)
  /\ Goto(p, "idle")
  /\ UNCHANGED <<up, kind, lockVars, pause, clocks, clean, displaced>>

SeeStale(p) ==
  /\ Up(p) /\ pc[p] = "locking" /\ IsStale(lock)
  /\ seen' = [seen EXCEPT ![p] = lock.owner]
  /\ Goto(p, "reclaiming")
  /\ UNCHANGED <<up, kind, lock, moved, lost, pause, clocks, clean, displaced>>

\* reclaim(): whatever lock there is by now is moved away.  It may be in use.
Rename(p) ==
  /\ Up(p) /\ pc[p] = "reclaiming" /\ lock.owner # None
  /\ moved' = [moved EXCEPT ![p] = lock]
  /\ lock' = NoDir
  /\ Goto(p, "verifying")
  /\ displaced' = (displaced \/ (~IsStale(lock) /\ \E h \in Procs : lock.owner = h /\ pc[h] \in {"sending", "landed"}))
  /\ UNCHANGED <<up, kind, seen, lost, pause, clocks, clean>>

\* Another has moved it away, or it was released.
RenameFails(p) ==
  /\ Up(p) /\ pc[p] = "reclaiming" /\ lock.owner = None
  /\ seen' = [seen EXCEPT ![p] = None]
  /\ Goto(p, "locking")
  /\ UNCHANGED <<up, kind, lock, moved, lost, pause, clocks, clean, displaced>>

\* Mutant of Verified: the process goes on with the directory that it had moved away.
VerifiedKept(p) == seen' = [seen EXCEPT ![p] = None] /\ Goto(p, "locking") /\ UNCHANGED moved

Verified(p) ==
  /\ moved' = [moved EXCEPT ![p] = NoDir]
  /\ seen' = [seen EXCEPT ![p] = None]
  /\ Goto(p, "locking")

\* The lock is put back, unless another has taken its place.
PutBack(p) ==
  /\ Up(p) /\ pc[p] = "verifying" /\ PutsBack(p)
  /\ lock' = IF lock.owner = None THEN moved[p] ELSE lock
  /\ Verified(p)
  /\ UNCHANGED <<up, kind, lost, pause, clocks, clean, displaced>>

RemoveMoved(p) ==
  /\ Up(p) /\ pc[p] = "verifying" /\ ~PutsBack(p)
  /\ Verified(p)
  /\ UNCHANGED <<up, kind, lock, lost, pause, clocks, clean, displaced>>

\* The timer of a holder; one that has lost the lock stops it.
RenewLock(p) ==
  /\ Up(p) /\ pc[p] \in Holding /\ ~lost[p]
  /\ IF lock.owner = p
     THEN lock' = [lock EXCEPT !.age = 0] /\ stop' = [stop EXCEPT ![p] = 0] /\ UNCHANGED lost
     ELSE lost' = [lost EXCEPT ![p] = TRUE] /\ UNCHANGED <<lock, stop>>
  /\ UNCHANGED <<up, pc, kind, seen, moved, pause, own, shared, last, clean, displaced>>

\* Only its own lock is removed by release(); a token that is moved or seen elsewhere is of the past.
Release(p) ==
  /\ lock' = IF lock.owner = p THEN NoDir ELSE lock
  /\ moved' = [q \in Procs |-> IF moved[q].owner = p THEN [moved[q] EXCEPT !.owner = Old] ELSE moved[q]]
  /\ seen' = [q \in Procs |-> IF seen[q] = p THEN Old ELSE seen[q]]
  /\ lost' = [lost EXCEPT ![p] = FALSE]
  /\ Goto(p, "idle")

-----------------------------------------------------------------------------
(* The key: sendLocked and locked. *)

Waited(p) ==
  /\ Up(p) /\ pc[p] = "throttled" /\ pause[p] = 0
  /\ Goto(p, "looking")
  /\ UNCHANGED <<up, kind, lockVars, pause, clocks, clean, displaced>>

\* blocked() and gate() have looked at the screen and found nothing against the key.
Look(p) ==
  /\ Up(p) /\ pc[p] = "looking"
  /\ Goto(p, "looked")
  /\ clean' = [clean EXCEPT ![p] = TRUE]
  /\ UNCHANGED <<up, kind, lockVars, pause, clocks, displaced>>

\* They were against it.
Blocked(p) ==
  /\ Up(p) /\ pc[p] = "looking"
  /\ Release(p)
  /\ UNCHANGED <<up, kind, pause, clocks, clean, displaced>>

\* Mutant of Send: the lock is not looked at again before the key is sent.
SendUnheld(p) ==
  /\ Up(p) /\ pc[p] = "looked"
  /\ Goto(p, "sending")
  /\ stop' = [stop EXCEPT ![p] = 0]
  /\ UNCHANGED <<up, kind, lockVars, pause, own, shared, last, clean, displaced>>

\* held(), which renews the lock, then the key is on its way.
Send(p) ==
  /\ Up(p) /\ pc[p] = "looked" /\ ~lost[p] /\ lock.owner = p
  /\ lock' = [lock EXCEPT !.age = 0]
  /\ stop' = [stop EXCEPT ![p] = 0]
  /\ Goto(p, "sending")
  /\ UNCHANGED <<up, kind, seen, moved, lost, pause, own, shared, last, clean, displaced>>

\* The lock is not its own any more: nothing is sent.
NotHeld(p) ==
  /\ Up(p) /\ pc[p] = "looked" /\ (lost[p] \/ lock.owner # p)
  /\ Release(p)
  /\ UNCHANGED <<up, kind, pause, clocks, clean, displaced>>

\* tmux has the key and types it, whether its sender still runs or not.
Land(p) ==
  /\ pc[p] = "sending"
  /\ Goto(p, "landed")
  /\ last' = IF kind[p] = "esc" THEN 0 ELSE last
  /\ clean' = [q \in Procs |-> clean[q] /\ q = p]
  /\ UNCHANGED <<up, kind, lockVars, pause, own, shared, stop, displaced>>

\* Mutant of Finish: the Escape is noted in the memory of its sender alone.
FinishOwn(p) ==
  /\ Up(p) /\ pc[p] \in {"sending", "landed"}
  /\ own' = IF kind[p] = "esc" THEN [own EXCEPT ![p] = 0] ELSE own
  /\ Release(p)
  /\ UNCHANGED <<up, kind, pause, shared, stop, last, clean, displaced>>

\* The send has ended, or failed without a key: an Escape is noted all the same.
Finish(p) ==
  /\ Up(p) /\ pc[p] \in {"sending", "landed"}
  /\ IF kind[p] = "esc" THEN own' = [own EXCEPT ![p] = 0] /\ shared' = 0 ELSE UNCHANGED <<own, shared>>
  /\ Release(p)
  /\ UNCHANGED <<up, kind, pause, stop, last, clean, displaced>>

-----------------------------------------------------------------------------
(* Processes and time. *)

Stop(p) ==
  /\ Up(p)
  /\ up' = [up EXCEPT ![p] = "stopped"]
  /\ UNCHANGED <<pc, kind, lockVars, pause, clocks, clean, displaced>>

Continue(p) ==
  /\ up[p] = "stopped"
  /\ up' = [up EXCEPT ![p] = "up"]
  /\ UNCHANGED <<pc, kind, lockVars, pause, clocks, clean, displaced>>

\* What it has moved away is found by no one; its lock stays, and its key may still land.
Die(p) ==
  /\ up[p] # "dead"
  /\ up' = [up EXCEPT ![p] = "dead"]
  /\ moved' = [moved EXCEPT ![p] = NoDir]
  /\ seen' = [seen EXCEPT ![p] = None]
  /\ IF pc[p] \in {"sending", "landed"} THEN UNCHANGED pc ELSE Goto(p, "idle")
  /\ UNCHANGED <<kind, lock, lost, pause, clocks, clean, displaced>>

\* A running holder's timer is not late, and a key does not stay on its way for ever.
InTime(p) ==
  /\ (Up(p) /\ pc[p] \in Holding /\ ~lost[p] /\ lock.owner = p) => lock.age < Renew
  /\ (~Up(p) /\ pc[p] = "sending") => stop[p] < Landing

Aged(dir) == IF dir.owner = None THEN dir ELSE [dir EXCEPT !.age = More(@, Stale + 1)]

Tick ==
  /\ \A p \in Procs : InTime(p)
  /\ lock' = Aged(lock)
  /\ moved' = [p \in Procs |-> Aged(moved[p])]
  /\ pause' = [p \in Procs |-> Less(pause[p])]
  /\ own' = [p \in Procs |-> More(own[p], Gap)]
  /\ shared' = More(shared, Gap)
  /\ last' = More(last, Gap)
  /\ stop' = [p \in Procs |-> IF ~Up(p) /\ pc[p] \in Holding THEN More(stop[p], Landing) ELSE stop[p]]
  /\ UNCHANGED <<up, pc, kind, seen, lost, clean, displaced>>

-----------------------------------------------------------------------------
Init ==
  /\ up = [p \in Procs |-> "up"]
  /\ pc = [p \in Procs |-> "idle"]
  /\ kind = [p \in Procs |-> "esc"]
  /\ lock = NoDir
  /\ seen = [p \in Procs |-> None]
  /\ moved = [p \in Procs |-> NoDir]
  /\ lost = [p \in Procs |-> FALSE]
  /\ pause = [p \in Procs |-> 0]
  /\ own = [p \in Procs |-> Gap]
  /\ shared = Gap
  /\ stop = [p \in Procs |-> 0]
  /\ last = Gap
  /\ clean = [p \in Procs |-> FALSE]
  /\ displaced = FALSE

Locking(p) ==
  \/ Request(p) \/ Acquire(p) \/ GiveUp(p) \/ SeeStale(p)
  \/ Rename(p) \/ RenameFails(p) \/ PutBack(p) \/ RemoveMoved(p) \/ RenewLock(p)

Sending(p) ==
  \/ Waited(p) \/ Look(p) \/ Blocked(p) \/ Send(p) \/ NotHeld(p) \/ Land(p) \/ Finish(p)

Next ==
  \/ Tick
  \/ \E p \in Procs : Locking(p) \/ Sending(p) \/ Stop(p) \/ Continue(p) \/ Die(p)

Spec == Init /\ [][Next]_vars

-----------------------------------------------------------------------------
TypeOK ==
  /\ up \in [Procs -> {"up", "stopped", "dead"}]
  /\ pc \in [Procs -> Steps]
  /\ kind \in [Procs -> {"esc", "key"}]
  /\ lock \in Dir
  /\ seen \in [Procs -> Procs \cup {None, Old}]
  /\ moved \in [Procs -> Dir]
  /\ \A p \in Procs : moved[p].owner # None <=> pc[p] = "verifying"
  /\ lost \in [Procs -> BOOLEAN]
  /\ pause \in [Procs -> 0..Gap]
  /\ own \in [Procs -> 0..Gap] /\ shared \in 0..Gap /\ last \in 0..Gap
  /\ stop \in [Procs -> 0..Landing]
  /\ clean \in [Procs -> BOOLEAN]
  /\ displaced \in BOOLEAN

\* While an Escape is on its way, the one before it landed at least Gap ago, of whichever process, also
\* when its sender ended before it noted it, and when the lock was taken from a sender that was stopped.
EscsApart ==
  \A p \in Procs : (pc[p] = "sending" /\ kind[p] = "esc" /\ ~displaced) => last >= Gap

\* While a key is on its way, no other guarded key has landed since its sender looked at the screen.
AloneSinceLook ==
  \A p \in Procs : (pc[p] = "sending" /\ ~displaced) => clean[p]

=============================================================================
