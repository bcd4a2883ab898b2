---------------------------- MODULE Stage2Leases ----------------------------
(***************************************************************************)
(* The leases of one shared feature: the loop that keeps the feature's     *)
(* fence (scheduler-v2-lease.ts) over the adapter that leases the cards of *)
(* the feature one by one (scheduler-v2-wiring-lease.ts), in every process *)
(* that runs the scheduler, and the center that grants the leases.         *)
(*                                                                         *)
(* A process is identified by its boot id.  It may act on a card while the *)
(* loop exposes the feature's fence and the adapter has the card in its    *)
(* record (Exposes).  Time is discrete; every moment is kept as the time   *)
(* left until it, or since it, so that it does not grow.  The clocks of    *)
(* the processes and of the center run at the same rate.                   *)
(*                                                                         *)
(* A port that cannot be read for a moment exposes, renews and releases    *)
(* nothing and changes nothing else: it is the absence of a step.          *)
(***************************************************************************)
EXTENDS Integers

CONSTANTS
  Boots,           \* processes; a restart is another member
  Cards,           \* the feature's workflow cards; one that appears later is one not leased so far
  Lease,           \* V2_LEASE_MS: how long the center grants a card
  Renew,           \* V2_RENEW_MS: from sending a command that succeeded to the next renewal
  Margin,          \* MARGIN_MS: by how much the fence ends before the lease
  CallTimeout,     \* the longest time from sending a request to having its outcome
  CommandTimeout,  \* commandTimeoutMs: the loop gives up on a command of the adapter
  MaxBackoff,      \* BACKOFF_MAX_MS
  MaxEpoch         \* bound: moves of the feature's home

None == "none"
Other == "other"  \* a process that is not in Boots: only its leases at the center are modelled

ASSUME NamesAssumption == None \notin Boots /\ Other \notin Boots /\ None \notin Cards
ASSUME TimesAssumption == /\ Lease \in Nat /\ Renew \in Nat /\ Margin \in Nat
                          /\ CallTimeout \in Nat /\ CommandTimeout \in Nat
                          /\ MaxBackoff \in Nat \ {0} /\ MaxEpoch \in Nat
ASSUME LagAssumption == CallTimeout <= Margin /\ Margin <= Lease

VARIABLES
  up,      \* each process: "new" before it starts, "up", "stopping" after stop(), "gone"
  entry,   \* the loop's entry for the feature, in each process
  held,    \* the adapter's record: the cards of the feature it believes leased by this process
  cmd,     \* the command of the adapter under way in each process
  call,    \* the requests of that command, by card
  at,      \* how long ago the center committed each of them
  ext,     \* extend(), which leases cards that have appeared, in each process
  lease,   \* the center: who leases each card and for how much longer
  epoch,   \* the center: the epoch of the feature, a new one with every move of its home
  cover    \* history: the cards leased under the fence in force, by its grants or by extend()

vars == <<up, entry, held, cmd, call, at, ext, lease, epoch, cover>>

-----------------------------------------------------------------------------
\* "none": not discovered; "idle": no fence, waiting to acquire; "held"; "lost": for this epoch, for good.
Entry == [st : {"none", "idle", "held", "lost"}, epoch : Nat, left : 0..(Lease - Margin), wait : Nat]
NoEntry == [st |-> "none", epoch |-> 0, left |-> 0, wait |-> 0]

Cmd == [kind : {"none", "acquire", "renew"}, awaited : BOOLEAN, epoch : Nat,
        age : Nat, since : Nat, renews : SUBSET Cards]
NoCmd == [kind |-> "none", awaited |-> FALSE, epoch |-> 0, age |-> 0, since |-> 0, renews |-> {}]

\* "ok": committed, the receipt arrives; "lost": committed, the receipt does not; "busy": refused for
\* now (resource_busy, conflict, unavailable); "final": refused for good (stale_epoch, lease_expired).
CallState == {"none", "sent", "ok", "lost", "busy", "final"}
NoCalls == [c \in Cards |-> "none"]
NoTimes == [c \in Cards |-> 0]

Ext == [st : {"none", "view"}, card : {None}, epoch : Nat, since : Nat]
       \cup [st : {"sent", "ok"}, card : Cards, epoch : Nat, since : Nat]
NoExt == [st |-> "none", card |-> None, epoch |-> 0, since |-> 0]

Free == [boot |-> None, left |-> 0]
Leases == [boot : Boots \cup {None, Other}, left : 0..Lease]

Less(n) == IF n > 0 THEN n - 1 ELSE 0
\* A time that has passed is now.
Floor(n) == IF n > 0 THEN n ELSE 0

\* current(): a fence is exposed (the caller checks the feature's epoch with the center's answer).
Current(b) == up[b] = "up" /\ entry[b].st = "held" /\ entry[b].left > 0

\* fenceOfTask and the executor scope: the process may act on the card.
Exposes(b, c) == Current(b) /\ c \in held[b]

Calling(b) == \E c \in Cards : call[b][c] # "none"
Fresh(b) == {c \in Cards : call[b][c] # "none"} \ cmd[b].renews
In(b, states) == {c \in Cards : call[b][c] \in states}

Leased(b, c) == lease[c].boot = b /\ lease[c].left > 0

\* lose(): the fence of this epoch is over.
Lost(e) == [e EXCEPT !.st = "lost", !.left = 0, !.wait = 0]

-----------------------------------------------------------------------------
(* The loop: discovery, validity, requests. *)

Start(b) ==
  /\ up[b] = "new"
  /\ up' = [up EXCEPT ![b] = "up"]
  /\ UNCHANGED <<entry, held, cmd, call, at, ext, lease, epoch, cover>>

\* discover(): an entry for a feature without one, or for a newer epoch than the one lost.  The
\* epoch is what this machine knows of it.  A command of the lost entry no longer concerns the loop.
Discover(b) ==
  /\ up[b] = "up" /\ entry[b].st \in {"none", "lost"}
  /\ \E e \in 0..epoch :
       /\ entry[b].st = "none" \/ e > entry[b].epoch
       /\ entry' = [entry EXCEPT ![b] = [st |-> "idle", epoch |-> e, left |-> 0, wait |-> 0]]
  /\ cmd' = [cmd EXCEPT ![b].awaited = FALSE]
  /\ cover' = [cover EXCEPT ![b] = {}]
  /\ UNCHANGED <<up, held, call, at, ext, lease, epoch>>

\* valid(): the feature is no longer this machine's to run (mode, home, migration, epoch).
Inactive(b) ==
  /\ up[b] = "up" /\ entry[b].st \in {"idle", "held"}
  /\ entry' = [entry EXCEPT ![b] = Lost(@)]
  /\ UNCHANGED <<up, held, cmd, call, at, ext, lease, epoch, cover>>

\* valid(): the deadline has passed.
Expire(b) ==
  /\ up[b] = "up" /\ entry[b].st = "held" /\ entry[b].left = 0
  /\ entry' = [entry EXCEPT ![b] = Lost(@)]
  /\ UNCHANGED <<up, held, cmd, call, at, ext, lease, epoch, cover>>

\* step(), request() and the first line of command(): one request of the entry at a time.
Request(b) ==
  /\ up[b] = "up" /\ cmd[b].kind = "none" /\ entry[b].wait = 0
  /\ entry[b].st = "idle" \/ Current(b)
  /\ cmd' = [cmd EXCEPT ![b] = [NoCmd EXCEPT !.kind = IF entry[b].st = "idle" THEN "acquire" ELSE "renew",
                                             !.awaited = TRUE, !.epoch = entry[b].epoch]]
  /\ UNCHANGED <<up, entry, held, call, at, ext, lease, epoch, cover>>

\* The entry after a failure that is no verdict: a grant is kept until its deadline and renewed at
\* its time, a first acquire backs off.
Later(b) ==
  IF cmd[b].kind = "renew"
  THEN {[entry[b] EXCEPT !.wait = Floor(Renew - cmd[b].age)]}
  ELSE {[entry[b] EXCEPT !.wait = w] : w \in 1..MaxBackoff}

\* The entry that sent the command still awaits it.
Awaited(b) == up[b] = "up" /\ cmd[b].awaited /\ entry[b].st \in {"idle", "held"}

\* The catch of request() for "unavailable".
Unavailable(b) ==
  IF Awaited(b)
  THEN \E e \in Later(b) : entry' = [entry EXCEPT ![b] = e]
  ELSE UNCHANGED entry

\* timed(): the loop stops waiting; the command goes on in the adapter.
GiveUp(b) ==
  /\ cmd[b].awaited /\ cmd[b].age >= CommandTimeout
  /\ cmd' = [cmd EXCEPT ![b].awaited = FALSE]
  /\ Unavailable(b)
  /\ UNCHANGED <<up, held, call, at, ext, lease, epoch, cover>>

-----------------------------------------------------------------------------
(* The adapter's command: a view, then one request for each card. *)

\* Mutant of EndCmd: a command that was given up keeps its place.
EndCmdKept(b) ==
  /\ cmd' = [cmd EXCEPT ![b] = IF @.awaited THEN NoCmd ELSE @]
  /\ call' = [call EXCEPT ![b] = NoCalls]
  /\ at' = [at EXCEPT ![b] = NoTimes]

\* finally: the command is over.
EndCmd(b) ==
  /\ cmd' = [cmd EXCEPT ![b] = NoCmd]
  /\ call' = [call EXCEPT ![b] = NoCalls]
  /\ at' = [at EXCEPT ![b] = NoTimes]

\* The view arrives: every held card is renewed, every other one acquired (all, at a first acquire).
View(b) ==
  /\ cmd[b].kind # "none" /\ ~Calling(b) /\ cmd[b].epoch = epoch
  /\ call' = [call EXCEPT ![b] = [c \in Cards |-> "sent"]]
  /\ cmd' = [cmd EXCEPT ![b].since = 0, ![b].renews = IF cmd[b].kind = "renew" THEN held[b] ELSE {}]
  /\ UNCHANGED <<up, entry, held, at, ext, lease, epoch, cover>>

ViewUnavailable(b) ==
  /\ cmd[b].kind # "none" /\ ~Calling(b)
  /\ EndCmd(b) /\ Unavailable(b)
  /\ UNCHANGED <<up, held, ext, lease, epoch, cover>>

\* The verdict of the center on the whole feature: stale_epoch, wrong_home, lease_expired.
Verdict(b) == entry' = IF Awaited(b) THEN [entry EXCEPT ![b] = Lost(@)] ELSE entry

ViewStale(b) ==
  /\ cmd[b].kind # "none" /\ ~Calling(b) /\ cmd[b].epoch # epoch
  /\ EndCmd(b) /\ Verdict(b)
  /\ UNCHANGED <<up, held, ext, lease, epoch, cover>>

-----------------------------------------------------------------------------
(* The center. *)

\* Another process leases a free card, again and again, or gives it back.
Elsewhere(c) ==
  /\ lease[c].boot \in {None, Other}
  /\ \E l \in {Free, [boot |-> Other, left |-> Lease]} : l # lease[c] /\ lease' = [lease EXCEPT ![c] = l]
  /\ UNCHANGED <<up, entry, held, cmd, call, at, ext, epoch, cover>>

\* lease.acquire: a card that no other process leases.
MayAcquire(b, c, e) == e = epoch /\ (lease[c].left = 0 \/ lease[c].boot = b)

\* lease.renew: a card this process leases.
MayRenew(b, c, e) == e = epoch /\ Leased(b, c)

Grants(b, c) ==
  IF c \in cmd[b].renews THEN MayRenew(b, c, cmd[b].epoch) ELSE MayAcquire(b, c, cmd[b].epoch)

\* Every acquisition of the command has its outcome.
FreshSettled(b) == In(b, {"sent"}) \subseteq cmd[b].renews

\* A request commits; its receipt arrives ("ok") or not ("lost").
Commit(b, c, r) ==
  /\ call[b][c] = "sent" /\ Grants(b, c)
  /\ (r = "lost" /\ c \in cmd[b].renews) => FreshSettled(b)
  /\ lease' = [lease EXCEPT ![c] = [boot |-> b, left |-> Lease]]
  /\ call' = [call EXCEPT ![b][c] = r]
  /\ UNCHANGED <<up, entry, held, cmd, at, ext, epoch, cover>>

\* An acquisition is refused or not answered.
AcquireFails(b, c) ==
  /\ call[b][c] = "sent" /\ c \notin cmd[b].renews
  /\ call' = [call EXCEPT ![b][c] = IF cmd[b].epoch = epoch THEN "busy" ELSE "final"]
  /\ UNCHANGED <<up, entry, held, cmd, at, ext, lease, epoch, cover>>

RenewalAnswer(b, c) == IF MayRenew(b, c, cmd[b].epoch) THEN "busy" ELSE "final"

\* A renewal is refused or not answered after every acquisition of the command has its outcome.
RenewalFails(b, c) ==
  /\ call[b][c] = "sent" /\ c \in cmd[b].renews
  /\ FreshSettled(b)
  /\ call' = [call EXCEPT ![b][c] = RenewalAnswer(b, c)]
  /\ UNCHANGED <<up, entry, held, cmd, at, ext, lease, epoch, cover>>

Gone(b) ==
  /\ up' = [up EXCEPT ![b] = "gone"]
  /\ entry' = [entry EXCEPT ![b] = NoEntry]
  /\ held' = [held EXCEPT ![b] = {}]
  /\ ext' = [ext EXCEPT ![b] = NoExt]
  /\ cover' = [cover EXCEPT ![b] = {}]
  /\ EndCmd(b)

\* A renewal fails while an acquisition of the command is still out: command() awaits the acquisitions
\* first and no one handles the rejection, which ends the process (crash-guard.ts).
RenewalUnhandled(b, c) ==
  /\ call[b][c] = "sent" /\ c \in cmd[b].renews
  /\ Fresh(b) \cap In(b, {"sent", "ok", "lost"}) # {}
  /\ Gone(b)
  /\ UNCHANGED <<lease, epoch>>

-----------------------------------------------------------------------------
(* The end of a command. *)

RenewalFailed(b) == cmd[b].renews \cap In(b, {"lost", "busy", "final"}) # {}

\* The acquisitions are all settled, and so are the renewals, or one has failed.
Settled(b) == Calling(b) /\ FreshSettled(b) /\ (In(b, {"sent"}) # {} => RenewalFailed(b))

\* Cards enter the record; they are leased under the fence in force if it is that of the request.
Record(b, S, e) ==
  /\ held' = [held EXCEPT ![b] = @ \cup S]
  /\ cover' = [cover EXCEPT ![b] = @ \cup {c \in S : entry[b].st = "held" /\ entry[b].epoch = e}]

\* Nothing is granted: a renewal was not answered, or nothing could be acquired.
FinishUnavailable(b) ==
  /\ Settled(b)
  /\ \/ cmd[b].renews \cap In(b, {"lost", "busy"}) # {}
     \/ ~RenewalFailed(b) /\ In(b, {"ok", "final"}) = {}
  /\ EndCmd(b) /\ Unavailable(b)
  /\ UNCHANGED <<up, held, ext, lease, epoch, cover>>

\* A request was refused for good.  Acquisitions handled before the refused one are in the record.
FinishFinal(b) ==
  /\ Settled(b) /\ In(b, {"final"}) # {}
  /\ IF RenewalFailed(b)
     THEN cmd[b].renews \cap In(b, {"final"}) # {} /\ UNCHANGED <<held, cover>>
     ELSE \E S \in SUBSET (Fresh(b) \cap In(b, {"ok"})) : Record(b, S, cmd[b].epoch)
  /\ EndCmd(b) /\ Verdict(b)
  /\ UNCHANGED <<up, ext, lease, epoch>>

\* Mutant of Deadline: the fence is kept until the lease itself ends.
DeadlineNoMargin(b, i, j) == Lease - cmd[b].age - (at[b][i] - at[b][j])

\* The deadline of a grant, as the time left: sentAt + (the oldest commit + the lease) - the newest
\* commit (the center's time) - the margin.
Deadline(b, i, j) == Lease - Margin - cmd[b].age - (at[b][i] - at[b][j])

\* i and j are the oldest and the newest commit among the receipts.
Oldest(b, i) == i \in In(b, {"ok"}) /\ \A k \in In(b, {"ok"}) : at[b][k] <= at[b][i]
Newest(b, j) == j \in In(b, {"ok"}) /\ \A k \in In(b, {"ok"}) : at[b][j] <= at[b][k]

\* grant(): too late is lost; otherwise the fence stands until the deadline.
Granted(b, left) ==
  IF left <= 0
  THEN /\ entry' = [entry EXCEPT ![b] = Lost(@)]
       /\ UNCHANGED cover
  ELSE /\ entry' = [entry EXCEPT ![b].st = "held", ![b].left = left, ![b].wait = Floor(Renew - cmd[b].age)]
       /\ cover' = [cover EXCEPT ![b] = @ \cup In(b, {"ok"})]

\* All renewals and at least one request succeeded: the record, and the grant if it is still awaited.
FinishGranted(b) ==
  /\ Settled(b) /\ ~RenewalFailed(b) /\ In(b, {"final"}) = {}
  /\ \E i, j \in Cards :
       /\ Oldest(b, i) /\ Newest(b, j)
       /\ IF Awaited(b)
          THEN Granted(b, Deadline(b, i, j)) /\ held' = [held EXCEPT ![b] = @ \cup In(b, {"ok"})]
          ELSE Record(b, In(b, {"ok"}), cmd[b].epoch) /\ UNCHANGED entry
  /\ EndCmd(b)
  /\ UNCHANGED <<up, ext, lease, epoch>>

Finish(b) == FinishUnavailable(b) \/ FinishFinal(b) \/ FinishGranted(b)

-----------------------------------------------------------------------------
(* extend(): before a pass, cards that are not in the record are acquired one after the other. *)

\* The fence exposed at this moment is used to the end.
ExtStart(b) ==
  /\ Current(b) /\ held[b] # {} /\ ext[b].st = "none"
  /\ ext' = [ext EXCEPT ![b] = [NoExt EXCEPT !.st = "view", !.epoch = entry[b].epoch]]
  /\ UNCHANGED <<up, entry, held, cmd, call, at, lease, epoch, cover>>

ExtSend(b, c) ==
  /\ ext[b].st = "view" /\ c \notin held[b]
  /\ ext' = [ext EXCEPT ![b].st = "sent", ![b].card = c]
  /\ UNCHANGED <<up, entry, held, cmd, call, at, lease, epoch, cover>>

ExtNext(b) == ext' = [ext EXCEPT ![b] = [NoExt EXCEPT !.st = "view", !.epoch = ext[b].epoch]]

ExtCommit(b, r) ==
  /\ ext[b].st = "sent" /\ MayAcquire(b, ext[b].card, ext[b].epoch)
  /\ lease' = [lease EXCEPT ![ext[b].card] = [boot |-> b, left |-> Lease]]
  /\ IF r = "ok" THEN ext' = [ext EXCEPT ![b].st = "ok"] ELSE ExtNext(b)
  /\ UNCHANGED <<up, entry, held, cmd, call, at, epoch, cover>>

ExtFails(b) ==
  /\ ext[b].st = "sent"
  /\ ExtNext(b)
  /\ UNCHANGED <<up, entry, held, cmd, call, at, lease, epoch, cover>>

\* The receipt arrives and the card is in the record, whatever has become of the fence.
ExtAdd(b) ==
  /\ ext[b].st = "ok"
  /\ Record(b, {ext[b].card}, ext[b].epoch)
  /\ ExtNext(b)
  /\ UNCHANGED <<up, entry, cmd, call, at, lease, epoch>>

ExtEnd(b) ==
  /\ ext[b].st = "view"
  /\ ext' = [ext EXCEPT ![b] = NoExt]
  /\ UNCHANGED <<up, entry, held, cmd, call, at, lease, epoch, cover>>

-----------------------------------------------------------------------------
(* The end of a process, the home, and time. *)

\* stop(): no fence is exposed from here on.
Stop(b) ==
  /\ up[b] = "up"
  /\ up' = [up EXCEPT ![b] = "stopping"]
  /\ UNCHANGED <<entry, held, cmd, call, at, ext, lease, epoch, cover>>

\* release(): the cards of the record are given back, those the center can be reached for.  A request
\* under way is waited for, but not beyond its deadline.
Release(b) ==
  /\ up[b] = "stopping"
  /\ \E S \in SUBSET held[b] :
       lease' = [c \in Cards |-> IF c \in S /\ lease[c].boot = b /\ entry[b].epoch = epoch
                                 THEN Free ELSE lease[c]]
  /\ Gone(b)
  /\ UNCHANGED epoch

Crash(b) ==
  /\ up[b] \in {"up", "stopping"}
  /\ Gone(b)
  /\ UNCHANGED <<lease, epoch>>

\* home.change: a new epoch, and no lease of the old one.
MoveHome ==
  /\ epoch < MaxEpoch
  /\ epoch' = epoch + 1
  /\ lease' = [c \in Cards |-> Free]
  /\ UNCHANGED <<up, entry, held, cmd, call, at, ext, cover>>

\* No timeout is overrun.
InTime(b) ==
  /\ cmd[b].awaited => cmd[b].age < CommandTimeout
  /\ cmd[b].kind # "none" => cmd[b].since < CallTimeout
  /\ ext[b].st \in {"sent", "ok"} => ext[b].since < CallTimeout

Tick ==
  /\ \A b \in Boots : InTime(b)
  /\ entry' = [b \in Boots |-> [entry[b] EXCEPT !.left = Less(@), !.wait = Less(@)]]
  /\ cmd' = [b \in Boots |-> IF cmd[b].kind = "none" THEN cmd[b]
                             ELSE [cmd[b] EXCEPT !.age = @ + 1, !.since = @ + 1]]
  /\ at' = [b \in Boots |-> [c \in Cards |-> IF call[b][c] = "ok" THEN at[b][c] + 1 ELSE at[b][c]]]
  /\ ext' = [b \in Boots |-> IF ext[b].st \in {"sent", "ok"} THEN [ext[b] EXCEPT !.since = @ + 1] ELSE ext[b]]
  /\ lease' = [c \in Cards |-> IF lease[c].left <= 1 THEN Free ELSE [lease[c] EXCEPT !.left = @ - 1]]
  /\ UNCHANGED <<up, held, call, epoch, cover>>

-----------------------------------------------------------------------------
Init ==
  /\ up = [b \in Boots |-> "new"]
  /\ entry = [b \in Boots |-> NoEntry]
  /\ held = [b \in Boots |-> {}]
  /\ cmd = [b \in Boots |-> NoCmd]
  /\ call = [b \in Boots |-> NoCalls]
  /\ at = [b \in Boots |-> NoTimes]
  /\ ext = [b \in Boots |-> NoExt]
  /\ lease = [c \in Cards |-> Free]
  /\ epoch = 0
  /\ cover = [b \in Boots |-> {}]

Loop(b) == Start(b) \/ Discover(b) \/ Inactive(b) \/ Expire(b) \/ Request(b) \/ GiveUp(b)
           \/ Stop(b) \/ Release(b) \/ Crash(b)

Command(b) ==
  \/ View(b) \/ ViewUnavailable(b) \/ ViewStale(b) \/ Finish(b)
  \/ \E c \in Cards : \/ \E r \in {"ok", "lost"} : Commit(b, c, r)
                       \/ AcquireFails(b, c) \/ RenewalFails(b, c) \/ RenewalUnhandled(b, c)

Extend(b) ==
  \/ ExtStart(b) \/ ExtFails(b) \/ ExtAdd(b) \/ ExtEnd(b)
  \/ \E c \in Cards : ExtSend(b, c)
  \/ \E r \in {"ok", "lost"} : ExtCommit(b, r)

Next ==
  \/ Tick
  \/ MoveHome
  \/ \E c \in Cards : Elsewhere(c)
  \/ \E b \in Boots : Command(b) \/ Extend(b) \/ Loop(b)

Spec == Init /\ [][Next]_vars

\* Time passes, the loop runs, and a request and the code after it come to their end.
Fairness ==
  /\ WF_vars(Tick)
  /\ \A b \in Boots :
       /\ WF_vars(Request(b)) /\ WF_vars(Expire(b)) /\ WF_vars(GiveUp(b))
       /\ WF_vars(ViewUnavailable(b)) /\ WF_vars(Finish(b))
       /\ WF_vars(ExtFails(b) \/ ExtAdd(b))
       /\ \A c \in Cards : WF_vars(AcquireFails(b, c)) /\ WF_vars(RenewalFails(b, c))

LiveSpec == Spec /\ Fairness

-----------------------------------------------------------------------------
TypeOK ==
  /\ up \in [Boots -> {"new", "up", "stopping", "gone"}]
  /\ entry \in [Boots -> Entry]
  /\ held \in [Boots -> SUBSET Cards]
  /\ cmd \in [Boots -> Cmd]
  /\ call \in [Boots -> [Cards -> CallState]]
  /\ at \in [Boots -> [Cards -> Nat]]
  /\ ext \in [Boots -> Ext]
  /\ lease \in [Cards -> Leases]
  /\ epoch \in 0..MaxEpoch
  /\ cover \in [Boots -> SUBSET Cards]

\* A card leased under the fence in force is leased by the center to the process for at least as long
\* as the process exposes the fence, unless the feature has moved: no late or replayed receipt,
\* partly failed command, give-up or overlap with extend() lets the fence outlive a lease.
CoveredIsLeased ==
  \A b \in Boots, c \in Cards :
    (Current(b) /\ entry[b].epoch = epoch /\ c \in cover[b])
      => c \in held[b] /\ lease[c].boot = b /\ lease[c].left >= entry[b].left

\* A process that has lost the feature acts on it no more in that epoch, whatever answers are still
\* under way: only a newer epoch gets a new entry.
LostStaysLost ==
  [][\A b \in Boots : (entry[b].st = "lost" /\ entry'[b].st \in {"idle", "held"})
                        => entry'[b].epoch > entry[b].epoch]_vars

\* A first acquire is retried for ever and a grant is renewed: while a process has an entry that is not
\* lost, it comes to ask again, whatever became of its earlier requests, given up or not.
AsksAgain ==
  \A b \in Boots :
    (up[b] = "up" /\ entry[b].st \in {"idle", "held"})
      ~> (cmd[b].awaited \/ entry[b].st = "lost" \/ up[b] # "up")

-----------------------------------------------------------------------------
(* A statement of the comments that the code does not keep. *)

\* What the header of scheduler-v2-wiring-lease.ts says: a process acts only on cards whose own task
\* lease it holds.
HeldIsLeased ==
  \A b \in Boots, c \in Cards :
    (Exposes(b, c) /\ entry[b].epoch = epoch) => Leased(b, c)

=============================================================================
