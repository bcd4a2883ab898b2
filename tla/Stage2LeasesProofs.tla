------------------------- MODULE Stage2LeasesProofs -------------------------
(* What holds of Stage2Leases for any processes, cards, times and epochs.   *)
EXTENDS Stage2Leases, TLAPS

-----------------------------------------------------------------------------
(* The inductive invariant. *)

\* The center leases c to b for at least n more (nothing is said when n is no time at all).
LeasedFor(b, c, n) == n > 0 => lease[c].boot = b /\ lease[c].left >= n

\* No outcome is older than CallTimeout, and none was committed before its request was sent.
Times == \A b \in Boots :
  /\ cmd[b].since <= CallTimeout /\ ext[b].since <= CallTimeout
  /\ \A c \in Cards : at[b][c] <= cmd[b].since /\ (call[b][c] # "ok" => at[b][c] = 0)

\* Requests belong to a command; one that is awaited is that of the entry; a fence ends acquiring.
Commands == \A b \in Boots :
  /\ cmd[b].kind = "none" => ~Calling(b)
  /\ Calling(b) => \A c \in Cards : call[b][c] # "none"
  /\ cmd[b].awaited => cmd[b].epoch = entry[b].epoch
  /\ cmd[b].kind = "acquire" => entry[b].st # "held"

Epochs == \A b \in Boots :
  entry[b].epoch <= epoch /\ cmd[b].epoch <= epoch /\ ext[b].epoch <= epoch

Covers == \A b \in Boots :
  /\ cover[b] \subseteq held[b]
  /\ entry[b].st \in {"none", "idle"} => cover[b] = {}

\* What a receipt under way says holds when it arrives, less the time since its commit.
Receipts == \A b \in Boots, c \in Cards :
  (call[b][c] = "ok" /\ cmd[b].epoch = epoch) => LeasedFor(b, c, Lease - at[b][c])

ExtReceipts == \A b \in Boots :
  (ext[b].st = "ok" /\ ext[b].epoch = epoch) => LeasedFor(b, ext[b].card, Lease - ext[b].since)

CoverKept == \A b \in Boots, c \in Cards :
  (c \in cover[b] /\ entry[b].st = "held" /\ entry[b].epoch = epoch) => LeasedFor(b, c, entry[b].left)

\* A covered card that the command under way does not renew was added by extend() after the view: its
\* lease is young enough for the grant that the command may bring.
RenewCovers == \A b \in Boots, c \in Cards :
  (c \in cover[b] /\ Calling(b) /\ entry[b].st = "held" /\ entry[b].epoch = epoch /\ c \notin cmd[b].renews)
    => LeasedFor(b, c, Lease - Margin - cmd[b].age)

Inv == /\ TypeOK /\ Times /\ Commands /\ Epochs /\ Covers
       /\ Receipts /\ ExtReceipts /\ CoverKept /\ RenewCovers

-----------------------------------------------------------------------------
(* Facts about records. *)

LEMMA RecordTypes ==
  /\ NoEntry \in Entry /\ NoCmd \in Cmd /\ NoExt \in Ext /\ Free \in Leases
  /\ NoCalls \in [Cards -> CallState] /\ NoTimes \in [Cards -> Nat]
  /\ None \notin Boots /\ Other \notin Boots
  BY NamesAssumption, TimesAssumption, LagAssumption
     DEF NoEntry, Entry, NoCmd, Cmd, NoExt, Ext, Free, Leases, NoCalls, NoTimes, CallState

LEMMA LaterType ==
  ASSUME TypeOK, NEW b \in Boots, NEW e \in Later(b)
  PROVE  e \in Entry /\ e.st = entry[b].st /\ e.epoch = entry[b].epoch /\ e.left = entry[b].left
  BY TimesAssumption DEF TypeOK, Later, Entry, Cmd, Floor

LEMMA LostType ==
  ASSUME NEW e \in Entry
  PROVE  Lost(e) \in Entry /\ Lost(e).st = "lost" /\ Lost(e).epoch = e.epoch
  <1>1. 0 \in 0..(Lease - Margin)  BY TimesAssumption, LagAssumption
  <1>2. QED  BY <1>1 DEF Lost, Entry

\* What a failed command does to the entry of its process: at most it is lost.
LEMMA EntryAfter ==
  ASSUME TypeOK, NEW b \in Boots, Unavailable(b) \/ Verdict(b)
  PROVE  /\ entry' \in [Boots -> Entry]
         /\ \A o \in Boots :
              /\ entry'[o].epoch = entry[o].epoch
              /\ entry'[o].st = "lost" \/ (entry'[o].st = entry[o].st /\ entry'[o].left = entry[o].left)
              /\ entry[o].st = "lost" => entry'[o].st = "lost"
              /\ entry'[o].st = "lost" => entry[o].st \in {"lost", "idle", "held"}
  <1>1. CASE Awaited(b) /\ Unavailable(b)
    <2>1. PICK e \in Later(b) : entry' = [entry EXCEPT ![b] = e]  BY <1>1 DEF Unavailable
    <2>2. e \in Entry /\ e.st = entry[b].st /\ e.epoch = entry[b].epoch /\ e.left = entry[b].left
      BY LaterType
    <2>3. QED  BY <1>1, <2>1, <2>2 DEF TypeOK, Awaited
  <1>2. CASE Awaited(b) /\ Verdict(b)
    BY <1>2, LostType DEF Verdict, TypeOK, Entry, Awaited
  <1>3. CASE ~Awaited(b)
    BY <1>3 DEF Unavailable, Verdict, TypeOK, Entry
  <1>4. QED  BY <1>1, <1>2, <1>3

\* The grant of receipts that have all arrived: the fence ends with the oldest of them, less the margin.
LEMMA DeadlineBounds ==
  ASSUME TypeOK, Times, NEW b \in Boots, NEW i \in Cards, NEW j \in Cards, Oldest(b, i), Newest(b, j)
  PROVE  /\ Deadline(b, i, j) \in Int /\ Deadline(b, i, j) <= Lease - Margin
         /\ Deadline(b, i, j) <= Lease - Margin - cmd[b].age
         /\ \A k \in Cards : call[b][k] = "ok" => Deadline(b, i, j) <= Lease - at[b][k]
  <1>1. at[b][i] \in Nat /\ at[b][j] \in Nat /\ cmd[b].age \in Nat /\ at[b][j] <= at[b][i]
    BY DEF TypeOK, Cmd, Oldest, Newest
  <1>2. at[b][j] <= CallTimeout  BY <1>1, TimesAssumption DEF Times, TypeOK, Cmd
  <1>3. ASSUME NEW k \in Cards, call[b][k] = "ok" PROVE at[b][k] \in Nat /\ at[b][k] <= at[b][i]
    BY <1>3 DEF TypeOK, Oldest, In
  <1>4. QED  BY <1>1, <1>2, <1>3, TimesAssumption, LagAssumption DEF Deadline

-----------------------------------------------------------------------------
(* Every step keeps the invariant: types. *)

LEMMA EndCmdType ==
  ASSUME TypeOK, NEW b \in Boots, EndCmd(b)
  PROVE  cmd' \in [Boots -> Cmd] /\ call' \in [Boots -> [Cards -> CallState]]
         /\ at' \in [Boots -> [Cards -> Nat]]
  BY RecordTypes DEF EndCmd, TypeOK

LEMMA CmdUpdates ==
  ASSUME NEW m \in Cmd
  PROVE  /\ [m EXCEPT !.awaited = FALSE] \in Cmd
         /\ \A S \in SUBSET Cards : [m EXCEPT !.since = 0, !.renews = S] \in Cmd
  BY DEF Cmd

LEMMA EntryUpdate ==
  ASSUME NEW m \in Entry, NEW left \in 0..(Lease - Margin), NEW wait \in Nat
  PROVE  [m EXCEPT !.st = "held", !.left = left, !.wait = wait] \in Entry
  BY DEF Entry

LEMMA RecordType ==
  ASSUME TypeOK, NEW b \in Boots, NEW S \in SUBSET Cards, NEW e, Record(b, S, e)
  PROVE  held' \in [Boots -> SUBSET Cards] /\ cover' \in [Boots -> SUBSET Cards]
  <1>1. {c \in S : entry[b].st = "held" /\ entry[b].epoch = e} \in SUBSET Cards  OBVIOUS
  <1>2. QED  BY <1>1 DEF Record, TypeOK

LEMMA GoneType ==
  ASSUME TypeOK, NEW b \in Boots, Gone(b), lease' \in [Cards -> Leases], epoch' = epoch
  PROVE  TypeOK'
  BY EndCmdType, RecordTypes DEF Gone, TypeOK

LEMMA LoopType == ASSUME TypeOK, NEW b \in Boots, Loop(b) PROVE TypeOK'
  <1> USE DEF TypeOK
  <1>1. CASE Start(b)  BY <1>1 DEF Start
  <1>2. CASE Discover(b)
    <2>1. PICK e \in 0..epoch : entry' = [entry EXCEPT ![b] = [st |-> "idle", epoch |-> e, left |-> 0, wait |-> 0]]
      BY <1>2 DEF Discover
    <2>2. e \in Nat /\ 0 \in 0..(Lease - Margin)  BY TimesAssumption, LagAssumption
    <2>3. [st |-> "idle", epoch |-> e, left |-> 0, wait |-> 0] \in Entry  BY <2>2 DEF Entry
    <2>4. cmd' \in [Boots -> Cmd]  BY <1>2, CmdUpdates DEF Discover
    <2>5. QED  BY <1>2, <2>1, <2>3, <2>4 DEF Discover
  <1>3. CASE Inactive(b)
    <2>1. entry' \in [Boots -> Entry]  BY <1>3, LostType DEF Inactive
    <2>2. QED  BY <1>3, <2>1 DEF Inactive
  <1>4. CASE Expire(b)
    <2>1. entry' \in [Boots -> Entry]  BY <1>4, LostType DEF Expire
    <2>2. QED  BY <1>4, <2>1 DEF Expire
  <1>5. CASE Request(b)
    <2>1. cmd' \in [Boots -> Cmd]  BY <1>5, RecordTypes DEF Request, Cmd, Entry
    <2>2. QED  BY <1>5, <2>1 DEF Request
  <1>6. CASE GiveUp(b)
    <2>1. cmd' \in [Boots -> Cmd]  BY <1>6, CmdUpdates DEF GiveUp
    <2>2. entry' \in [Boots -> Entry]  BY <1>6, EntryAfter DEF GiveUp
    <2>3. QED  BY <1>6, <2>1, <2>2 DEF GiveUp
  <1>7. CASE Stop(b)  BY <1>7 DEF Stop
  <1>8. CASE Release(b)
    <2>1. lease' \in [Cards -> Leases]  BY <1>8, RecordTypes DEF Release
    <2>2. QED  BY <1>8, <2>1, GoneType DEF Release
  <1>9. CASE Crash(b)
    <2>1. lease' \in [Cards -> Leases] /\ epoch' = epoch /\ Gone(b)  BY <1>9 DEF Crash
    <2>2. QED  BY <2>1, GoneType
  <1>10. QED
    BY <1>1, <1>2, <1>3, <1>4, <1>5, <1>6, <1>7, <1>8, <1>9 DEF Loop

LEMMA GrantType ==
  ASSUME TypeOK, NEW b \in Boots, NEW left \in Int, left <= Lease - Margin, Granted(b, left)
  PROVE  entry' \in [Boots -> Entry] /\ cover' \in [Boots -> SUBSET Cards]
  <1> USE DEF TypeOK
  <1>1. CASE left <= 0
    <2>1. Lost(entry[b]) \in Entry  BY LostType
    <2>2. QED  BY <1>1, <2>1 DEF Granted
  <1>2. CASE ~(left <= 0)
    <2>1. left \in 0..(Lease - Margin)  BY <1>2, TimesAssumption
    <2>2. Floor(Renew - cmd[b].age) \in Nat  BY TimesAssumption DEF Floor, Cmd
    <2>3. [entry[b] EXCEPT !.st = "held", !.left = left, !.wait = Floor(Renew - cmd[b].age)] \in Entry
      BY <2>1, <2>2, EntryUpdate
    <2>4. entry' \in [Boots -> Entry]  BY <1>2, <2>3 DEF Granted
    <2>5. cover[b] \cup In(b, {"ok"}) \in SUBSET Cards  BY DEF In
    <2>6. QED  BY <1>2, <2>4, <2>5 DEF Granted
  <1>3. QED  BY <1>1, <1>2

LEMMA CommandType == ASSUME TypeOK, Times, NEW b \in Boots, Command(b) PROVE TypeOK'
  <1> USE DEF TypeOK
  <1>1. CASE View(b)
    <2>1. cmd' \in [Boots -> Cmd]  BY <1>1, CmdUpdates DEF View
    <2>2. call' \in [Boots -> [Cards -> CallState]]  BY <1>1 DEF View, CallState
    <2>3. QED  BY <1>1, <2>1, <2>2 DEF View
  <1>2. CASE ViewUnavailable(b) \/ ViewStale(b)
    BY <1>2, EndCmdType, EntryAfter DEF ViewUnavailable, ViewStale
  <1>3. ASSUME NEW c \in Cards, NEW r \in {"ok", "lost"}, Commit(b, c, r) PROVE TypeOK'
    <2>1. [boot |-> b, left |-> Lease] \in Leases  BY TimesAssumption DEF Leases
    <2>2. call' \in [Boots -> [Cards -> CallState]]  BY <1>3 DEF Commit, CallState
    <2>3. lease' \in [Cards -> Leases]  BY <1>3, <2>1 DEF Commit
    <2>4. QED  BY <1>3, <2>2, <2>3 DEF Commit
  <1>4. ASSUME NEW c \in Cards, AcquireFails(b, c) \/ RenewalFails(b, c) PROVE TypeOK'
    <2>1. PICK s \in {"busy", "final"} : call' = [call EXCEPT ![b][c] = s]
      BY <1>4 DEF AcquireFails, RenewalFails, RenewalAnswer
    <2>2. call' \in [Boots -> [Cards -> CallState]]  BY <2>1 DEF CallState
    <2>3. QED  BY <1>4, <2>2 DEF AcquireFails, RenewalFails
  <1>5. ASSUME NEW c \in Cards, RenewalUnhandled(b, c) PROVE TypeOK'
    BY <1>5, GoneType DEF RenewalUnhandled
  <1>6. CASE FinishUnavailable(b)
    BY <1>6, EndCmdType, EntryAfter DEF FinishUnavailable
  <1>7. CASE FinishFinal(b)
    <2>1. held' \in [Boots -> SUBSET Cards] /\ cover' \in [Boots -> SUBSET Cards]
      <3>1. CASE UNCHANGED <<held, cover>>  BY <3>1
      <3>2. ASSUME NEW S \in SUBSET (Fresh(b) \cap In(b, {"ok"})), Record(b, S, cmd[b].epoch)
            PROVE held' \in [Boots -> SUBSET Cards] /\ cover' \in [Boots -> SUBSET Cards]
        <4>1. S \in SUBSET Cards  BY DEF In
        <4>2. QED  BY <3>2, <4>1, RecordType
      <3>3. QED  BY <1>7, <3>1, <3>2 DEF FinishFinal
    <2>2. QED  BY <1>7, <2>1, EndCmdType, EntryAfter DEF FinishFinal
  <1>8. CASE FinishGranted(b)
    <2>0. In(b, {"ok"}) \in SUBSET Cards  BY DEF In
    <2>1. held' \in [Boots -> SUBSET Cards]  
      <3>1. CASE Awaited(b)
        <4>1. held' = [held EXCEPT ![b] = @ \cup In(b, {"ok"})]  BY <1>8, <3>1 DEF FinishGranted
        <4>2. held[b] \cup In(b, {"ok"}) \in SUBSET Cards  BY <2>0
        <4>3. QED  BY <4>1, <4>2
      <3>2. CASE ~Awaited(b)  BY <1>8, <2>0, <3>2, RecordType DEF FinishGranted
      <3>3. QED  BY <3>1, <3>2
    <2>2. entry' \in [Boots -> Entry] /\ cover' \in [Boots -> SUBSET Cards]
      <3>1. CASE ~Awaited(b)  BY <1>8, <2>0, <3>1, RecordType DEF FinishGranted
      <3>2. CASE Awaited(b)
        <4>1. PICK i, j \in Cards : Oldest(b, i) /\ Newest(b, j) /\ Granted(b, Deadline(b, i, j))
          BY <1>8, <3>2 DEF FinishGranted
        <4>2. QED  BY <4>1, DeadlineBounds, GrantType
      <3>3. QED  BY <3>1, <3>2
    <2>3. QED  BY <1>8, <2>1, <2>2, EndCmdType DEF FinishGranted
  <1>9. QED
    BY <1>1, <1>2, <1>3, <1>4, <1>5, <1>6, <1>7, <1>8 DEF Command, Finish

LEMMA ExtendType == ASSUME TypeOK, NEW b \in Boots, Extend(b) PROVE TypeOK'
  <1> USE RecordTypes DEF TypeOK
  <1>1. ASSUME ExtNext(b) PROVE ext' \in [Boots -> Ext]
    BY <1>1 DEF ExtNext, NoExt, Ext
  <1>2. CASE ExtStart(b)
    <2>1. ext' \in [Boots -> Ext]  BY <1>2 DEF ExtStart, NoExt, Ext, Entry
    <2>2. QED  BY <1>2, <2>1 DEF ExtStart
  <1>3. ASSUME NEW c \in Cards, ExtSend(b, c) PROVE TypeOK'
    <2>1. ext' \in [Boots -> Ext]  BY <1>3 DEF ExtSend, Ext
    <2>2. QED  BY <1>3, <2>1 DEF ExtSend
  <1>4. ASSUME NEW r \in {"ok", "lost"}, ExtCommit(b, r) PROVE TypeOK'
    <2>1. [boot |-> b, left |-> Lease] \in Leases  BY TimesAssumption DEF Leases
    <2>2. ext' \in [Boots -> Ext]
      <3>1. CASE r = "lost"  BY <1>1, <1>4, <3>1 DEF ExtCommit
      <3>2. CASE r = "ok"
        <4>1. ext[b] \in Ext /\ ext[b].st = "sent"  BY <1>4 DEF ExtCommit
        <4>2. [ext[b] EXCEPT !.st = "ok"] \in Ext  BY <4>1 DEF Ext
        <4>3. QED  BY <1>4, <3>2, <4>2 DEF ExtCommit
      <3>3. QED  BY <3>1, <3>2
    <2>3. lease' \in [Cards -> Leases]  BY <1>4, <2>1 DEF ExtCommit
    <2>4. QED  BY <1>4, <2>2, <2>3 DEF ExtCommit
  <1>5. CASE ExtFails(b)  BY <1>1, <1>5 DEF ExtFails
  <1>6. CASE ExtAdd(b)
    <2>1. {ext[b].card} \in SUBSET Cards  BY <1>6 DEF ExtAdd, Ext
    <2>2. held' \in [Boots -> SUBSET Cards] /\ cover' \in [Boots -> SUBSET Cards]
      BY <1>6, <2>1, RecordType DEF ExtAdd
    <2>3. QED  BY <1>1, <1>6, <2>2 DEF ExtAdd
  <1>7. CASE ExtEnd(b)  BY <1>7 DEF ExtEnd
  <1>8. QED  BY <1>2, <1>3, <1>4, <1>5, <1>6, <1>7 DEF Extend

LEMMA WorldType == ASSUME TypeOK, Tick \/ MoveHome \/ \E c \in Cards : Elsewhere(c) PROVE TypeOK'
  <1> USE DEF TypeOK
  <1>1. CASE Tick
    <2>1. entry' \in [Boots -> Entry]
      <3>1. ASSUME NEW m \in Entry PROVE [m EXCEPT !.left = Less(@), !.wait = Less(@)] \in Entry
        <4>1. m.left \in 0..(Lease - Margin) /\ m.wait \in Nat  BY DEF Entry
        <4>2. Less(m.left) \in 0..(Lease - Margin) /\ Less(m.wait) \in Nat
          BY <4>1, TimesAssumption DEF Less
        <4>3. \A l \in 0..(Lease - Margin), w \in Nat : [m EXCEPT !.left = l, !.wait = w] \in Entry
          BY DEF Entry
        <4>4. QED  BY <4>2, <4>3
      <3>2. QED  BY <1>1, <3>1 DEF Tick
    <2>2. cmd' \in [Boots -> Cmd]
      <3>1. ASSUME NEW m \in Cmd PROVE [m EXCEPT !.age = @ + 1, !.since = @ + 1] \in Cmd
        <4>1. m.age + 1 \in Nat /\ m.since + 1 \in Nat  BY DEF Cmd
        <4>2. \A a, n \in Nat : [m EXCEPT !.age = a, !.since = n] \in Cmd  BY DEF Cmd
        <4>3. QED  BY <4>1, <4>2
      <3>2. QED  BY <1>1, <3>1 DEF Tick
    <2>3. at' \in [Boots -> [Cards -> Nat]]
      <3>1. \A b \in Boots, c \in Cards : at[b][c] \in Nat /\ at[b][c] + 1 \in Nat  OBVIOUS
      <3>2. QED  BY <1>1, <3>1 DEF Tick
    <2>4. ext' \in [Boots -> Ext]
      <3>1. ASSUME NEW m \in Ext PROVE [m EXCEPT !.since = @ + 1] \in Ext
        <4>1. m.since + 1 \in Nat  BY DEF Ext
        <4>2. \A n \in Nat : [m EXCEPT !.since = n] \in Ext  BY DEF Ext
        <4>3. QED  BY <4>1, <4>2
      <3>2. QED  BY <1>1, <3>1 DEF Tick
    <2>5. lease' \in [Cards -> Leases]
      <3>1. ASSUME NEW m \in Leases
            PROVE  (IF m.left <= 1 THEN Free ELSE [m EXCEPT !.left = @ - 1]) \in Leases
        <4>1. m.left \in 0..Lease  BY DEF Leases
        <4>2. \A n \in 0..Lease : [m EXCEPT !.left = n] \in Leases  BY DEF Leases
        <4>3. ~(m.left <= 1) => m.left - 1 \in 0..Lease  BY <4>1, TimesAssumption
        <4>4. QED  BY <4>2, <4>3, RecordTypes
      <3>2. QED  BY <1>1, <3>1 DEF Tick
    <2>6. QED  BY <1>1, <2>1, <2>2, <2>3, <2>4, <2>5 DEF Tick
  <1>2. CASE MoveHome
    BY <1>2, RecordTypes, TimesAssumption DEF MoveHome
  <1>3. ASSUME NEW c \in Cards, Elsewhere(c) PROVE TypeOK'
    <2>1. [boot |-> Other, left |-> Lease] \in Leases  BY TimesAssumption DEF Leases
    <2>2. QED  BY <1>3, <2>1, RecordTypes DEF Elsewhere
  <1>4. QED  BY <1>1, <1>2, <1>3

LEMMA TypeStep == TypeOK /\ Times /\ [Next]_vars => TypeOK'
  <1>1. CASE UNCHANGED vars  BY <1>1 DEF vars, TypeOK
  <1>2. QED  BY <1>1, LoopType, CommandType, ExtendType, WorldType DEF Next

-----------------------------------------------------------------------------
(* Every step keeps the invariant: requests and their times. *)

\* Numbers are numbers.
LEMMA Numbers ==
  ASSUME TypeOK
  PROVE  /\ \A b \in Boots :
              /\ cmd[b].since \in Nat /\ cmd[b].age \in Nat /\ ext[b].since \in Nat
              /\ entry[b].left \in Nat /\ entry[b].left <= Lease - Margin
              /\ entry[b].epoch \in Nat /\ cmd[b].epoch \in Nat /\ ext[b].epoch \in Nat
              /\ \A c \in Cards : at[b][c] \in Nat
         /\ \A c \in Cards : lease[c].left \in Nat /\ lease[c].left <= Lease
         /\ epoch \in Nat
  <1>1. \A m \in Entry : m.left \in Nat /\ m.left <= Lease - Margin /\ m.epoch \in Nat
    BY TimesAssumption DEF Entry
  <1>2. \A m \in Leases : m.left \in Nat /\ m.left <= Lease  BY TimesAssumption DEF Leases
  <1>3. QED  BY <1>1, <1>2, TimesAssumption DEF TypeOK, Cmd, Ext

\* The end of a command and the end of a process leave no request behind.
LEMMA EndCmdClears ==
  ASSUME TypeOK, NEW b \in Boots, EndCmd(b)
  PROVE  /\ cmd'[b] = NoCmd /\ \A c \in Cards : call'[b][c] = "none" /\ at'[b][c] = 0
         /\ \A o \in Boots : o # b => cmd'[o] = cmd[o] /\ call'[o] = call[o] /\ at'[o] = at[o]
  BY DEF EndCmd, TypeOK, NoCalls, NoTimes

LEMMA TimesStep == Inv /\ [Next]_vars => Times'
  <1> SUFFICES ASSUME Inv, [Next]_vars PROVE Times'  OBVIOUS
  <1>0. TypeOK /\ Times /\ Commands  BY DEF Inv
  <1> DEFINE Young(b) ==
        /\ cmd[b].since <= CallTimeout
        /\ \A c \in Cards : at[b][c] <= cmd[b].since /\ (call[b][c] # "ok" => at[b][c] = 0)
  <1>1. \A b \in Boots : Young(b) /\ ext[b].since <= CallTimeout  BY <1>0 DEF Times
  <1>2. SUFFICES \A b \in Boots : Young(b)' /\ ext'[b].since <= CallTimeout  BY DEF Times
  <1>3. ASSUME NEW b \in Boots, EndCmd(b) PROVE \A o \in Boots : Young(o)'
    BY <1>0, <1>1, <1>3, EndCmdClears, TimesAssumption DEF NoCmd
  <1>4. ASSUME NEW b \in Boots, ExtNext(b) PROVE \A o \in Boots : ext'[o].since <= CallTimeout
    BY <1>0, <1>1, <1>4, TimesAssumption DEF ExtNext, NoExt, TypeOK
  <1>5. ASSUME NEW b \in Boots, Gone(b) PROVE \A o \in Boots : Young(o)' /\ ext'[o].since <= CallTimeout
    <2>1. \A o \in Boots : ext'[o].since <= CallTimeout
      BY <1>0, <1>1, <1>5, TimesAssumption DEF Gone, NoExt, TypeOK
    <2>2. QED  BY <1>3, <1>5, <2>1 DEF Gone
  <1>6. ASSUME NEW b \in Boots, Loop(b) PROVE \A o \in Boots : Young(o)' /\ ext'[o].since <= CallTimeout
    <2>1. CASE Start(b) \/ Inactive(b) \/ Expire(b) \/ Stop(b)
      BY <1>1, <2>1 DEF Start, Inactive, Expire, Stop
    <2>2. CASE Discover(b) \/ GiveUp(b)
      <3>1. \A o \in Boots : cmd'[o].since = cmd[o].since
        <4>1. cmd' = [cmd EXCEPT ![b].awaited = FALSE]  BY <2>2 DEF Discover, GiveUp
        <4>2. cmd \in [Boots -> Cmd]  BY <1>0 DEF TypeOK
        <4>3. \A m \in Cmd : [m EXCEPT !.awaited = FALSE].since = m.since  BY DEF Cmd
        <4>4. QED  BY <4>1, <4>2, <4>3
      <3>2. UNCHANGED <<call, at, ext>>  BY <2>2 DEF Discover, GiveUp
      <3>3. QED  BY <1>1, <3>1, <3>2
    <2>3. CASE Request(b)
      <3>1. \A c \in Cards : call[b][c] = "none"  BY <1>0, <2>3 DEF Request, Commands, Calling
      <3>2. \A c \in Cards : at[b][c] = 0  BY <1>1, <3>1
      <3>3. cmd'[b].since = 0 /\ \A o \in Boots : o # b => cmd'[o] = cmd[o]
        BY <1>0, <2>3 DEF Request, TypeOK, NoCmd
      <3>4. UNCHANGED <<call, at, ext>>  BY <2>3 DEF Request
      <3>5. QED  BY <1>1, <3>2, <3>3, <3>4, TimesAssumption
    <2>4. CASE Release(b) \/ Crash(b)  BY <1>5, <2>4 DEF Release, Crash
    <2>5. QED  BY <1>6, <2>1, <2>2, <2>3, <2>4 DEF Loop
  <1>7. ASSUME NEW b \in Boots, Command(b) PROVE \A o \in Boots : Young(o)' /\ ext'[o].since <= CallTimeout
    <2>1. CASE View(b)
      <3>1. \A c \in Cards : at[b][c] = 0  BY <1>1, <2>1 DEF View, Calling
      <3>2. cmd'[b].since = 0 /\ \A o \in Boots : o # b => cmd'[o] = cmd[o] /\ call'[o] = call[o]
        BY <1>0, <2>1 DEF View, TypeOK, Cmd
      <3>3. UNCHANGED <<at, ext>>  BY <2>1 DEF View
      <3>4. QED  BY <1>1, <3>1, <3>2, <3>3, TimesAssumption
    <2>2. CASE ViewUnavailable(b) \/ ViewStale(b) \/ FinishUnavailable(b) \/ FinishFinal(b) \/ FinishGranted(b)
      BY <1>1, <1>3, <2>2 DEF ViewUnavailable, ViewStale, FinishUnavailable, FinishFinal, FinishGranted
    <2>3. ASSUME NEW c \in Cards, NEW r \in CallState, call[b][c] = "sent", call' = [call EXCEPT ![b][c] = r],
                 UNCHANGED <<cmd, at, ext>>
          PROVE \A o \in Boots : Young(o)' /\ ext'[o].since <= CallTimeout
      <3>1. at[b][c] = 0  BY <1>1, <2>3
      <3>2. \A o \in Boots, k \in Cards : call'[o][k] = call[o][k] \/ (o = b /\ k = c)
        BY <1>0, <2>3 DEF TypeOK
      <3>3. QED  BY <1>1, <2>3, <3>1, <3>2
    <2>4. ASSUME NEW c \in Cards, NEW r \in {"ok", "lost"}, Commit(b, c, r)
          PROVE \A o \in Boots : Young(o)' /\ ext'[o].since <= CallTimeout
      BY <2>3, <2>4 DEF Commit, CallState
    <2>5. ASSUME NEW c \in Cards, AcquireFails(b, c) \/ RenewalFails(b, c)
          PROVE \A o \in Boots : Young(o)' /\ ext'[o].since <= CallTimeout
      <3>1. PICK r \in CallState : call' = [call EXCEPT ![b][c] = r]
        BY <2>5 DEF AcquireFails, RenewalFails, RenewalAnswer, CallState
      <3>2. QED  BY <2>3, <2>5, <3>1 DEF AcquireFails, RenewalFails
    <2>6. ASSUME NEW c \in Cards, RenewalUnhandled(b, c)
          PROVE \A o \in Boots : Young(o)' /\ ext'[o].since <= CallTimeout
      BY <1>5, <2>6 DEF RenewalUnhandled
    <2>7. QED  BY <1>7, <2>1, <2>2, <2>4, <2>5, <2>6 DEF Command, Finish
  <1>8. ASSUME NEW b \in Boots, Extend(b) PROVE \A o \in Boots : Young(o)' /\ ext'[o].since <= CallTimeout
    <2>1. UNCHANGED <<cmd, call, at>>
      BY <1>8 DEF Extend, ExtStart, ExtSend, ExtCommit, ExtFails, ExtAdd, ExtEnd
    <2>2. \A o \in Boots : ext'[o].since <= CallTimeout
      <3>1. CASE ExtFails(b) \/ ExtAdd(b)  BY <1>4, <3>1 DEF ExtFails, ExtAdd
      <3>2. CASE ExtStart(b) \/ ExtEnd(b)
        <4>1. ext \in [Boots -> Ext]  BY <1>0 DEF TypeOK
        <4>2. ext'[b].since = 0
          <5>1. CASE ExtStart(b)
            <6>1. ext'[b] = [NoExt EXCEPT !.st = "view", !.epoch = entry[b].epoch]  BY <4>1, <5>1 DEF ExtStart
            <6>2. QED  BY <6>1 DEF NoExt
          <5>2. CASE ExtEnd(b)  BY <4>1, <5>2 DEF ExtEnd, NoExt
          <5>3. QED  BY <3>2, <5>1, <5>2
        <4>3. \A o \in Boots : o # b => ext'[o] = ext[o]  BY <3>2, <4>1 DEF ExtStart, ExtEnd
        <4>4. QED  BY <1>1, <4>2, <4>3, TimesAssumption
      <3>3. ASSUME NEW c \in Cards, ExtSend(b, c) PROVE \A o \in Boots : ext'[o].since = ext[o].since
        BY <1>0, <3>3 DEF ExtSend, TypeOK, Ext
      <3>4. ASSUME NEW r \in {"ok", "lost"}, ExtCommit(b, r) PROVE \A o \in Boots : ext'[o].since <= CallTimeout
        <4>1. CASE r = "lost"  BY <1>4, <3>4, <4>1 DEF ExtCommit
        <4>2. CASE r = "ok"
          <5>1. ext' = [ext EXCEPT ![b].st = "ok"] /\ ext \in [Boots -> Ext]
            BY <1>0, <3>4, <4>2 DEF ExtCommit, TypeOK
          <5>2. \A m \in Ext : [m EXCEPT !.st = "ok"].since = m.since  BY DEF Ext
          <5>3. QED  BY <1>1, <5>1, <5>2
        <4>3. QED  BY <4>1, <4>2
      <3>5. QED  BY <1>1, <1>8, <3>1, <3>2, <3>3, <3>4 DEF Extend
    <2>3. QED  BY <1>1, <2>1, <2>2
  <1>9. CASE Tick
    <2> TAKE b \in Boots
    <2>1. ext'[b].since <= CallTimeout
      <3>1. ext[b].since \in Nat /\ ext[b] \in Ext  BY <1>0, Numbers DEF TypeOK
      <3>2. CASE ext[b].st \in {"sent", "ok"}
        <4>1. ext[b].since < CallTimeout  BY <1>9, <3>2 DEF Tick, InTime
        <4>2. ext'[b].since = ext[b].since + 1  BY <1>9, <3>1, <3>2 DEF Tick, Ext
        <4>3. QED  BY <3>1, <4>1, <4>2, TimesAssumption
      <3>3. CASE ext[b].st \notin {"sent", "ok"}
        BY <1>1, <1>9, <3>3 DEF Tick
      <3>4. QED  BY <3>2, <3>3
    <2>2. Young(b)'
      <3>1. CASE cmd[b].kind = "none"
        <4>1. cmd'[b] = cmd[b] /\ call' = call  BY <1>9, <3>1 DEF Tick
        <4>2. \A c \in Cards : call[b][c] = "none"  BY <1>0, <3>1 DEF Commands, Calling
        <4>3. \A c \in Cards : at'[b][c] = at[b][c]  BY <1>9, <4>2 DEF Tick
        <4>4. QED  BY <1>1, <4>1, <4>3
      <3>2. CASE cmd[b].kind # "none"
        <4>1. cmd[b].since < CallTimeout  BY <1>9, <3>2 DEF Tick, InTime
        <4>2. cmd'[b].since = cmd[b].since + 1
          <5>1. cmd'[b] = [cmd[b] EXCEPT !.age = @ + 1, !.since = @ + 1]  BY <1>9, <3>2 DEF Tick
          <5>2. cmd[b] \in Cmd  BY <1>0 DEF TypeOK
          <5>3. QED  BY <5>1, <5>2 DEF Cmd
        <4>3. call' = call /\ \A c \in Cards : at'[b][c] = IF call[b][c] = "ok" THEN at[b][c] + 1 ELSE at[b][c]
          BY <1>9 DEF Tick
        <4>4. QED  BY <1>0, <1>1, <4>1, <4>2, <4>3, Numbers, TimesAssumption
      <3>3. QED  BY <3>1, <3>2
    <2>3. QED  BY <2>1, <2>2
  <1>10. CASE MoveHome \/ (\E c \in Cards : Elsewhere(c)) \/ UNCHANGED vars
    BY <1>1, <1>10 DEF MoveHome, Elsewhere, vars
  <1>11. QED  BY <1>6, <1>7, <1>8, <1>9, <1>10 DEF Next

\* A step of one process changes nothing of another.
LEMMA OthersKept ==
  ASSUME TypeOK, NEW b \in Boots, Loop(b) \/ Command(b) \/ Extend(b), NEW o \in Boots, o # b
  PROVE  /\ up'[o] = up[o] /\ entry'[o] = entry[o] /\ held'[o] = held[o] /\ cmd'[o] = cmd[o]
         /\ call'[o] = call[o] /\ at'[o] = at[o] /\ ext'[o] = ext[o] /\ cover'[o] = cover[o]
  <1> DEFINE Kept == /\ up'[o] = up[o] /\ entry'[o] = entry[o] /\ held'[o] = held[o] /\ cmd'[o] = cmd[o]
                     /\ call'[o] = call[o] /\ at'[o] = at[o] /\ ext'[o] = ext[o] /\ cover'[o] = cover[o]
  <1> USE DEF TypeOK
  <1>1. ASSUME EndCmd(b) PROVE cmd'[o] = cmd[o] /\ call'[o] = call[o] /\ at'[o] = at[o]
    BY <1>1 DEF EndCmd
  <1>2. ASSUME Gone(b) PROVE Kept  BY <1>1, <1>2 DEF Gone
  <1>3. ASSUME Unavailable(b) \/ Verdict(b) PROVE entry'[o] = entry[o]
    BY <1>3 DEF Unavailable, Verdict
  <1>4. ASSUME NEW S, NEW e, Record(b, S, e) PROVE held'[o] = held[o] /\ cover'[o] = cover[o]
    BY <1>4 DEF Record
  <1>5. CASE Loop(b)
    <2>1. CASE Start(b) \/ Discover(b) \/ Inactive(b) \/ Expire(b) \/ Request(b) \/ Stop(b)
      BY <2>1 DEF Start, Discover, Inactive, Expire, Request, Stop
    <2>2. CASE GiveUp(b)  BY <1>3, <2>2 DEF GiveUp
    <2>3. CASE Release(b) \/ Crash(b)  BY <1>2, <2>3 DEF Release, Crash
    <2>4. QED  BY <1>5, <2>1, <2>2, <2>3 DEF Loop
  <1>6. CASE Command(b)
    <2>1. CASE View(b)  BY <2>1 DEF View
    <2>2. CASE ViewUnavailable(b) \/ ViewStale(b) \/ FinishUnavailable(b)
      BY <1>1, <1>3, <2>2 DEF ViewUnavailable, ViewStale, FinishUnavailable
    <2>3. ASSUME NEW c \in Cards, NEW r \in {"ok", "lost"}, Commit(b, c, r) PROVE Kept
      BY <2>3 DEF Commit
    <2>4. ASSUME NEW c \in Cards, AcquireFails(b, c) \/ RenewalFails(b, c) PROVE Kept
      BY <2>4 DEF AcquireFails, RenewalFails
    <2>5. ASSUME NEW c \in Cards, RenewalUnhandled(b, c) PROVE Kept
      BY <1>2, <2>5 DEF RenewalUnhandled
    <2>6. CASE FinishFinal(b)
      <3>1. held'[o] = held[o] /\ cover'[o] = cover[o]  BY <1>4, <2>6 DEF FinishFinal
      <3>2. QED  BY <1>1, <1>3, <2>6, <3>1 DEF FinishFinal
    <2>7. CASE FinishGranted(b)
      <3>1. held'[o] = held[o] /\ cover'[o] = cover[o] /\ entry'[o] = entry[o]
        BY <1>4, <2>7 DEF FinishGranted, Granted
      <3>2. QED  BY <1>1, <2>7, <3>1 DEF FinishGranted
    <2>8. QED  BY <1>6, <2>1, <2>2, <2>3, <2>4, <2>5, <2>6, <2>7 DEF Command, Finish
  <1>7. CASE Extend(b)
    <2>1. ASSUME ExtNext(b) PROVE ext'[o] = ext[o]  BY <2>1 DEF ExtNext
    <2>2. CASE ExtStart(b) \/ ExtEnd(b)  BY <2>2 DEF ExtStart, ExtEnd
    <2>3. CASE ExtFails(b)  BY <2>1, <2>3 DEF ExtFails
    <2>4. CASE ExtAdd(b)  BY <1>4, <2>1, <2>4 DEF ExtAdd
    <2>5. ASSUME NEW c \in Cards, ExtSend(b, c) PROVE Kept  BY <2>5 DEF ExtSend
    <2>6. ASSUME NEW r \in {"ok", "lost"}, ExtCommit(b, r) PROVE Kept  BY <2>1, <2>6 DEF ExtCommit
    <2>7. QED  BY <1>7, <2>2, <2>3, <2>4, <2>5, <2>6 DEF Extend
  <1>8. QED  BY <1>5, <1>6, <1>7

LEMMA ShapeStep == Inv /\ [Next]_vars => (Commands /\ Epochs /\ Covers)'
  <1> SUFFICES ASSUME Inv, [Next]_vars PROVE (Commands /\ Epochs /\ Covers)'  OBVIOUS
  <1>0. TypeOK /\ Commands /\ Epochs /\ Covers /\ epoch \in Nat  BY Numbers DEF Inv
  <1> DEFINE Com(o) == /\ cmd[o].kind = "none" => ~Calling(o)
                       /\ Calling(o) => \A c \in Cards : call[o][c] # "none"
             Aw(o) == /\ cmd[o].awaited => cmd[o].epoch = entry[o].epoch
                      /\ cmd[o].kind = "acquire" => entry[o].st # "held"
             Ep(o) == entry[o].epoch <= epoch /\ cmd[o].epoch <= epoch /\ ext[o].epoch <= epoch
             Cov(o) == /\ cover[o] \subseteq held[o]
                       /\ entry[o].st \in {"none", "idle"} => cover[o] = {}
             Good(o) == Com(o) /\ Aw(o) /\ Ep(o) /\ Cov(o)
  <1>1. \A o \in Boots : Good(o)  BY <1>0 DEF Commands, Epochs, Covers
  <1>2. SUFFICES \A o \in Boots : Good(o)'  BY DEF Commands, Epochs, Covers
  <1> HIDE DEF Good
  <1>3. ASSUME NEW b \in Boots, EndCmd(b) PROVE Com(b)' /\ ~cmd'[b].awaited /\ cmd'[b].kind = "none" /\ cmd'[b].epoch = 0
    BY <1>0, <1>3, EndCmdClears DEF Calling, NoCmd
  <1>4. ASSUME NEW b \in Boots, Loop(b) \/ Command(b) \/ Extend(b) PROVE \A o \in Boots : o # b => Good(o)'
    <2>1. epoch' = epoch
      BY <1>4 DEF Loop, Start, Discover, Inactive, Expire, Request, GiveUp, Stop, Release, Crash, Command, View,
                  ViewUnavailable, ViewStale, Commit, AcquireFails, RenewalFails, RenewalUnhandled, Finish,
                  FinishUnavailable, FinishFinal, FinishGranted, Extend, ExtStart, ExtSend, ExtCommit, ExtFails,
                  ExtAdd, ExtEnd
    <2>2. QED  BY <1>0, <1>1, <1>4, <2>1, OthersKept DEF Good, Calling
  <1>5. ASSUME NEW b \in Boots, Gone(b), epoch' = epoch PROVE Good(b)'
    <2>1. entry'[b] = NoEntry /\ ext'[b] = NoExt /\ held'[b] = {} /\ cover'[b] = {}
      BY <1>0, <1>5 DEF Gone, TypeOK
    <2>2. Com(b)' /\ ~cmd'[b].awaited /\ cmd'[b].kind = "none" /\ cmd'[b].epoch = 0  BY <1>3, <1>5 DEF Gone
    <2>3. QED  BY <1>0, <1>5, <2>1, <2>2 DEF Good, NoEntry, NoExt
  <1>6. ASSUME NEW b \in Boots, EndCmd(b), Unavailable(b) \/ Verdict(b), epoch' = epoch, ext' = ext,
               cover'[b] \subseteq held'[b], entry[b].st \in {"none", "idle"} => cover'[b] = {}
        PROVE Good(b)'
    <2>1. Com(b)' /\ ~cmd'[b].awaited /\ cmd'[b].kind = "none" /\ cmd'[b].epoch = 0  BY <1>3, <1>6
    <2>2. entry'[b].epoch = entry[b].epoch
          /\ (entry'[b].st \in {"none", "idle"} => entry[b].st \in {"none", "idle"})
      BY <1>0, <1>6, EntryAfter
    <2>0. Ep(b) /\ Cov(b)  BY <1>1 DEF Good
    <2>3. Ep(b)'
      <3>1. 0 <= epoch  BY <1>0
      <3>2. QED  BY <1>6, <2>0, <2>1, <2>2, <3>1
    <2>4. Cov(b)'  BY <1>6, <2>0, <2>2
    <2>5. QED  BY <2>1, <2>3, <2>4 DEF Good
  <1>7. ASSUME NEW b \in Boots, NEW S, NEW e, Record(b, S, e)
        PROVE  /\ cover'[b] \subseteq held'[b]
               /\ entry[b].st \in {"none", "idle"} => cover'[b] = {}
    BY <1>0, <1>1, <1>7 DEF Record, Good, TypeOK
  <1>8. ASSUME NEW b \in Boots, Loop(b) PROVE Good(b)'
    <2>1. CASE Start(b) \/ Stop(b)
      BY <1>1, <2>1 DEF Start, Stop, Good, Calling
    <2>2. CASE Inactive(b) \/ Expire(b)
      <3>1. entry'[b] = Lost(entry[b])  BY <1>0, <2>2 DEF Inactive, Expire, TypeOK
      <3>2. entry'[b].st = "lost" /\ entry'[b].epoch = entry[b].epoch
        BY <1>0, <3>1, LostType DEF TypeOK
      <3>3. UNCHANGED <<held, cmd, call, ext, epoch, cover>>  BY <2>2 DEF Inactive, Expire
      <3>4. QED  BY <1>1, <3>2, <3>3 DEF Good, Calling
    <2>3. CASE Discover(b)
      <3>1. cmd'[b] = [cmd[b] EXCEPT !.awaited = FALSE] /\ cmd[b] \in Cmd  BY <1>0, <2>3 DEF Discover, TypeOK
      <3>2. cmd'[b].epoch = cmd[b].epoch /\ cmd'[b].kind = cmd[b].kind /\ ~cmd'[b].awaited  BY <3>1 DEF Cmd
      <3>3. entry'[b].epoch <= epoch /\ entry'[b].st = "idle"  BY <1>0, <2>3 DEF Discover, TypeOK
      <3>4. cover'[b] = {} /\ UNCHANGED <<held, call, ext, epoch>>  BY <1>0, <2>3 DEF Discover, TypeOK
      <3>5. QED  BY <1>1, <3>2, <3>3, <3>4 DEF Good, Calling
    <2>4. CASE Request(b)
      <3>1. cmd'[b] = [NoCmd EXCEPT !.kind = IF entry[b].st = "idle" THEN "acquire" ELSE "renew",
                                    !.awaited = TRUE, !.epoch = entry[b].epoch]
        BY <1>0, <2>4 DEF Request, TypeOK
      <3>2. /\ cmd'[b].epoch = entry[b].epoch
            /\ cmd'[b].kind = IF entry[b].st = "idle" THEN "acquire" ELSE "renew"
        BY <3>1 DEF NoCmd
      <3>3. ~Calling(b)  BY <1>1, <2>4 DEF Good, Request
      <3>4. UNCHANGED <<entry, held, call, ext, epoch, cover>>  BY <2>4 DEF Request
      <3>5. ~Calling(b)'  BY <3>3, <3>4 DEF Calling
      <3>6. Aw(b)'   BY <3>2, <3>4
      <3>7. Ep(b)' /\ Cov(b)'  BY <1>1, <3>2, <3>4 DEF Good
      <3>8. QED  BY <3>5, <3>6, <3>7 DEF Good
    <2>5. CASE GiveUp(b)
      <3>1. cmd'[b] = [cmd[b] EXCEPT !.awaited = FALSE] /\ cmd[b] \in Cmd  BY <1>0, <2>5 DEF GiveUp, TypeOK
      <3>2. cmd'[b].epoch = cmd[b].epoch /\ cmd'[b].kind = cmd[b].kind /\ ~cmd'[b].awaited  BY <3>1 DEF Cmd
      <3>3. entry'[b].epoch = entry[b].epoch
            /\ (entry'[b].st \in {"none", "idle"} => entry[b].st \in {"none", "idle"})
            /\ (entry'[b].st = "held" => entry[b].st = "held")
        BY <1>0, <2>5, EntryAfter DEF GiveUp
      <3>4. UNCHANGED <<held, call, ext, epoch, cover>>  BY <2>5 DEF GiveUp
      <3>5. QED  BY <1>1, <3>2, <3>3, <3>4 DEF Good, Calling
    <2>6. CASE Release(b) \/ Crash(b)  BY <1>5, <2>6 DEF Release, Crash
    <2>7. QED  BY <1>8, <2>1, <2>2, <2>3, <2>4, <2>5, <2>6 DEF Loop
  <1>9. ASSUME NEW b \in Boots, Command(b) PROVE Good(b)'
    <2>1. CASE View(b)
      <3>1. cmd[b] \in Cmd /\ cmd'[b] = [cmd[b] EXCEPT !.since = 0, !.renews = IF cmd[b].kind = "renew" THEN held[b] ELSE {}]
        BY <1>0, <2>1 DEF View, TypeOK
      <3>2. cmd'[b].epoch = cmd[b].epoch /\ cmd'[b].kind = cmd[b].kind /\ cmd'[b].awaited = cmd[b].awaited
        BY <3>1 DEF Cmd
      <3>3. \A c \in Cards : call'[b][c] = "sent"  BY <1>0, <2>1 DEF View, TypeOK
      <3>4. cmd[b].kind # "none" /\ UNCHANGED <<entry, held, ext, epoch, cover>>  BY <2>1 DEF View
      <3>5. QED  BY <1>1, <3>2, <3>3, <3>4 DEF Good, Calling
    <2>2. CASE ViewUnavailable(b) \/ ViewStale(b) \/ FinishUnavailable(b)
      <3>1. /\ EndCmd(b) /\ (Unavailable(b) \/ Verdict(b)) /\ epoch' = epoch /\ ext' = ext
            /\ held' = held /\ cover' = cover
        BY <2>2 DEF ViewUnavailable, ViewStale, FinishUnavailable
      <3>2. QED  BY <1>1, <1>6, <3>1 DEF Good
    <2>3. ASSUME NEW c \in Cards, NEW r \in CallState \ {"none"}, call[b][c] = "sent",
                 call' = [call EXCEPT ![b][c] = r], UNCHANGED <<entry, held, cmd, ext, epoch, cover>>
          PROVE Good(b)'
      <3>1. \A k \in Cards : call'[b][k] = IF k = c THEN r ELSE call[b][k]  BY <1>0, <2>3 DEF TypeOK
      <3>2. Calling(b)' /\ Calling(b)  BY <2>3, <3>1 DEF Calling
      <3>3. QED  BY <1>1, <2>3, <3>1, <3>2 DEF Good
    <2>4. ASSUME NEW c \in Cards, NEW r \in {"ok", "lost"}, Commit(b, c, r) PROVE Good(b)'
      <3>1. r \in CallState \ {"none"}  BY DEF CallState
      <3>2. QED  BY <2>3, <2>4, <3>1 DEF Commit
    <2>5. ASSUME NEW c \in Cards, AcquireFails(b, c) \/ RenewalFails(b, c) PROVE Good(b)'
      <3>1. PICK r \in CallState \ {"none"} : call' = [call EXCEPT ![b][c] = r]
        BY <2>5 DEF AcquireFails, RenewalFails, RenewalAnswer, CallState
      <3>2. QED  BY <2>3, <2>5, <3>1 DEF AcquireFails, RenewalFails
    <2>6. ASSUME NEW c \in Cards, RenewalUnhandled(b, c) PROVE Good(b)'
      BY <1>5, <2>6 DEF RenewalUnhandled
    <2>7. CASE FinishFinal(b)
      <3>1. cover'[b] \subseteq held'[b] /\ (entry[b].st \in {"none", "idle"} => cover'[b] = {})
        BY <1>1, <1>7, <2>7 DEF FinishFinal, Good
      <3>2. QED  BY <1>6, <2>7, <3>1 DEF FinishFinal
    <2>8. CASE FinishGranted(b)
      <3>1. Com(b)' /\ ~cmd'[b].awaited /\ cmd'[b].kind = "none" /\ cmd'[b].epoch = 0 /\ UNCHANGED <<ext, epoch>>
        BY <1>3, <2>8 DEF FinishGranted
      <3>2. CASE ~Awaited(b)
        <4>1. Record(b, In(b, {"ok"}), cmd[b].epoch) /\ entry' = entry  BY <2>8, <3>2 DEF FinishGranted
        <4>2. QED  BY <1>0, <1>1, <1>7, <3>1, <4>1 DEF Good
      <3>3. CASE Awaited(b)
        <4>1. PICK left : Granted(b, left)  BY <2>8, <3>3 DEF FinishGranted
        <4>2. held'[b] = held[b] \cup In(b, {"ok"})
          <5>1. held' = [held EXCEPT ![b] = @ \cup In(b, {"ok"})]  BY <2>8, <3>3 DEF FinishGranted
          <5>2. QED  BY <1>0, <5>1 DEF TypeOK
        <4>3. entry'[b].epoch = entry[b].epoch /\ entry'[b].st \in {"lost", "held"}
          <5>1. entry[b] \in Entry  BY <1>0 DEF TypeOK
          <5>2. CASE left <= 0  BY <1>0, <4>1, <5>1, <5>2, LostType DEF Granted, TypeOK
          <5>3. CASE ~(left <= 0)
            <6>1. entry'[b] = [entry[b] EXCEPT !.st = "held", !.left = left, !.wait = Floor(Renew - cmd[b].age)]
              BY <1>0, <4>1, <5>3 DEF Granted, TypeOK
            <6>2. QED  BY <5>1, <6>1 DEF Entry
          <5>4. QED  BY <5>2, <5>3
        <4>4. cover'[b] \subseteq cover[b] \cup In(b, {"ok"})  BY <1>0, <4>1 DEF Granted, TypeOK
        <4>5. QED  BY <1>0, <1>1, <3>1, <4>2, <4>3, <4>4 DEF Good
      <3>4. QED  BY <3>2, <3>3
    <2>9. QED  BY <1>9, <2>1, <2>2, <2>4, <2>5, <2>6, <2>7, <2>8 DEF Command, Finish
  <1>10. ASSUME NEW b \in Boots, Extend(b) PROVE Good(b)'
    <2>1. UNCHANGED <<entry, cmd, call, epoch>>
      BY <1>10 DEF Extend, ExtStart, ExtSend, ExtCommit, ExtFails, ExtAdd, ExtEnd
    <2>2. ASSUME ExtNext(b) PROVE ext'[b].epoch = ext[b].epoch
      BY <1>0, <2>2 DEF ExtNext, NoExt, TypeOK
    <2>3. ext'[b].epoch <= epoch /\ cover'[b] \subseteq held'[b]
          /\ (entry[b].st \in {"none", "idle"} => cover'[b] = {})
      <3>1. CASE ExtStart(b)
        <4>1. ext'[b].epoch = entry[b].epoch  BY <1>0, <3>1 DEF ExtStart, NoExt, TypeOK
        <4>2. QED  BY <1>1, <3>1, <4>1 DEF ExtStart, Good
      <3>2. CASE ExtFails(b)  BY <1>1, <2>2, <3>2 DEF ExtFails, Good
      <3>3. CASE ExtAdd(b)    BY <1>1, <1>7, <2>2, <3>3 DEF ExtAdd, Good
      <3>4. CASE ExtEnd(b)    BY <1>0, <1>1, <3>4 DEF ExtEnd, Good, NoExt, TypeOK
      <3>5. ASSUME NEW c \in Cards, ExtSend(b, c)
            PROVE ext'[b].epoch = ext[b].epoch /\ held' = held /\ cover' = cover
        BY <1>0, <3>5 DEF ExtSend, TypeOK, Ext
      <3>6. ASSUME NEW r \in {"ok", "lost"}, ExtCommit(b, r)
            PROVE ext'[b].epoch = ext[b].epoch /\ held' = held /\ cover' = cover
        <4>1. CASE r = "lost"  BY <2>2, <3>6, <4>1 DEF ExtCommit
        <4>2. CASE r = "ok"    BY <1>0, <3>6, <4>2 DEF ExtCommit, TypeOK, Ext
        <4>3. QED  BY <4>1, <4>2
      <3>7. QED  BY <1>1, <1>10, <3>1, <3>2, <3>3, <3>4, <3>5, <3>6 DEF Extend, Good
    <2>4. QED  BY <1>1, <2>1, <2>3 DEF Good, Calling
  <1>11. CASE Tick
    <2> TAKE b \in Boots
    <2>1. UNCHANGED <<held, call, epoch, cover>>  BY <1>11 DEF Tick
    <2>2. entry'[b].st = entry[b].st /\ entry'[b].epoch = entry[b].epoch
      <3>1. entry'[b] = [entry[b] EXCEPT !.left = Less(@), !.wait = Less(@)]  BY <1>11 DEF Tick
      <3>2. entry[b] \in Entry  BY <1>0 DEF TypeOK
      <3>3. QED  BY <3>1, <3>2 DEF Entry
    <2>3. cmd'[b].kind = cmd[b].kind /\ cmd'[b].awaited = cmd[b].awaited /\ cmd'[b].epoch = cmd[b].epoch
      <3>1. cmd'[b] = IF cmd[b].kind = "none" THEN cmd[b] ELSE [cmd[b] EXCEPT !.age = @ + 1, !.since = @ + 1]
        BY <1>11 DEF Tick
      <3>2. cmd[b] \in Cmd  BY <1>0 DEF TypeOK
      <3>3. QED  BY <3>1, <3>2 DEF Cmd
    <2>4. ext'[b].epoch = ext[b].epoch
      <3>1. ext[b] \in Ext  BY <1>0 DEF TypeOK
      <3>2. QED  BY <1>11, <3>1 DEF Tick, Ext
    <2>5. QED  BY <1>1, <2>1, <2>2, <2>3, <2>4 DEF Good, Calling
  <1>12. CASE MoveHome
    BY <1>0, <1>1, <1>12, Numbers DEF MoveHome, Good, Calling
  <1>13. CASE (\E c \in Cards : Elsewhere(c)) \/ UNCHANGED vars
    BY <1>1, <1>13 DEF Elsewhere, vars, Good, Calling
  <1>14. QED  BY <1>4, <1>8, <1>9, <1>10, <1>11, <1>12, <1>13 DEF Next

-----------------------------------------------------------------------------
(* Every step keeps the invariant: the leases at the center. *)

\* As long as time stands still and the feature stays, only its own release ends a process's lease.
LEMMA LeaseKept ==
  ASSUME TypeOK, NEW b \in Boots, NEW c \in Cards, lease[c].boot = b, lease[c].left > 0, NEW o \in Boots,
         Command(o) \/ Extend(o) \/ (Loop(o) /\ (o # b \/ ~Release(o)))
  PROVE  lease'[c].boot = b /\ lease'[c].left >= lease[c].left
  <1>0. lease[c].left \in Nat /\ lease[c].left <= Lease /\ lease \in [Cards -> Leases]
    BY Numbers DEF TypeOK
  <1>1. CASE lease' = lease  BY <1>0, <1>1
  <1>2. ASSUME NEW k \in Cards, lease[k].left = 0 \/ lease[k].boot = o,
               lease' = [lease EXCEPT ![k] = [boot |-> o, left |-> Lease]]
        PROVE lease'[c].boot = b /\ lease'[c].left >= lease[c].left
    BY <1>0, <1>2
  <1>3. CASE Release(o) /\ o # b
    BY <1>0, <1>3 DEF Release
  <1>4. CASE Loop(o) /\ ~Release(o)
    <2>1. lease' = lease
      BY <1>4 DEF Loop, Start, Discover, Inactive, Expire, Request, GiveUp, Stop, Crash
    <2>2. QED  BY <1>1, <2>1
  <1>5. CASE Command(o)
    <2>1. ASSUME NEW k \in Cards, NEW r \in {"ok", "lost"}, Commit(o, k, r)
          PROVE lease'[c].boot = b /\ lease'[c].left >= lease[c].left
      <3>1. lease[k].left = 0 \/ lease[k].boot = o
        BY <2>1 DEF Commit, Grants, MayAcquire, MayRenew, Leased
      <3>2. QED  BY <1>2, <2>1, <3>1 DEF Commit
    <2>2. ASSUME NEW k \in Cards, AcquireFails(o, k) \/ RenewalFails(o, k) \/ RenewalUnhandled(o, k)
          PROVE lease' = lease
      BY <2>2 DEF AcquireFails, RenewalFails, RenewalUnhandled
    <2>3. CASE View(o) \/ ViewUnavailable(o) \/ ViewStale(o) \/ Finish(o)
      BY <1>1, <2>3 DEF View, ViewUnavailable, ViewStale, Finish, FinishUnavailable, FinishFinal, FinishGranted
    <2>4. QED  BY <1>1, <1>5, <2>1, <2>2, <2>3 DEF Command
  <1>6. CASE Extend(o)
    <2>1. ASSUME NEW r \in {"ok", "lost"}, ExtCommit(o, r)
          PROVE lease'[c].boot = b /\ lease'[c].left >= lease[c].left
      <3>1. ext[o].card \in Cards  BY <2>1 DEF ExtCommit, TypeOK, Ext
      <3>2. lease[ext[o].card].left = 0 \/ lease[ext[o].card].boot = o  BY <2>1 DEF ExtCommit, MayAcquire
      <3>3. QED  BY <1>2, <2>1, <3>1, <3>2 DEF ExtCommit
    <2>2. CASE ~\E r \in {"ok", "lost"} : ExtCommit(o, r)
      <3>1. lease' = lease  BY <1>6, <2>2 DEF Extend, ExtStart, ExtSend, ExtFails, ExtAdd, ExtEnd
      <3>2. QED  BY <1>1, <3>1
    <2>3. QED  BY <2>1, <2>2
  <1>7. QED  BY <1>3, <1>4, <1>5, <1>6

\* Only the center moves the feature.
LEMMA EpochKept ==
  ASSUME NEW o \in Boots, Command(o) \/ Extend(o) \/ Loop(o)
  PROVE  epoch' = epoch
  BY DEF Loop, Start, Discover, Inactive, Expire, Request, GiveUp, Stop, Release, Crash, Command, View,
         ViewUnavailable, ViewStale, Commit, AcquireFails, RenewalFails, RenewalUnhandled, Finish,
         FinishUnavailable, FinishFinal, FinishGranted, Extend, ExtStart, ExtSend, ExtCommit, ExtFails,
         ExtAdd, ExtEnd

\* The four parts of the invariant about leases, for one process.
Sound(b) ==
  /\ \A c \in Cards : (call[b][c] = "ok" /\ cmd[b].epoch = epoch) => LeasedFor(b, c, Lease - at[b][c])
  /\ (ext[b].st = "ok" /\ ext[b].epoch = epoch) => LeasedFor(b, ext[b].card, Lease - ext[b].since)
  /\ \A c \in Cards : (c \in cover[b] /\ entry[b].st = "held" /\ entry[b].epoch = epoch)
                        => LeasedFor(b, c, entry[b].left)
  /\ \A c \in Cards :
       (c \in cover[b] /\ Calling(b) /\ entry[b].st = "held" /\ entry[b].epoch = epoch /\ c \notin cmd[b].renews)
         => LeasedFor(b, c, Lease - Margin - cmd[b].age)

LEMMA SoundParts == (Receipts /\ ExtReceipts /\ CoverKept /\ RenewCovers) <=> \A b \in Boots : Sound(b)
  BY DEF Receipts, ExtReceipts, CoverKept, RenewCovers, Sound

\* A step that keeps the leases and what a process knows of them keeps the process sound.
LEMMA SoundKept ==
  ASSUME Inv, NEW b \in Boots, epoch' = epoch,
         \A c \in Cards : (lease[c].boot = b /\ lease[c].left > 0)
                            => lease'[c].boot = b /\ lease'[c].left >= lease[c].left,
         call'[b] = call[b], at'[b] = at[b], ext'[b] = ext[b],
         cmd'[b].epoch = cmd[b].epoch, cmd'[b].renews = cmd[b].renews, cmd'[b].age = cmd[b].age,
         entry'[b].epoch = entry[b].epoch,
         entry'[b].st = "held" => entry[b].st = "held" /\ entry'[b].left = entry[b].left,
         cover'[b] \subseteq cover[b],
         TypeOK'
  PROVE  Sound(b)'
  <1>0. TypeOK /\ Sound(b)  BY SoundParts DEF Inv
  <1>1. \A c \in Cards : lease[c].left \in Nat /\ lease'[c].left \in Nat
    BY <1>0, TimesAssumption DEF TypeOK, Leases
  <1>2. ASSUME NEW c \in Cards, NEW n \in Int, LeasedFor(b, c, n)
        PROVE  n > 0 => lease'[c].boot = b /\ lease'[c].left >= n
    BY <1>1, <1>2 DEF LeasedFor
  <1>3. Calling(b)' <=> Calling(b)  BY DEF Calling
  <1>4. /\ Lease \in Int /\ Margin \in Int /\ cmd[b].age \in Int /\ ext[b].since \in Int /\ entry[b].left \in Int
        /\ \A c \in Cards : at[b][c] \in Int
    BY <1>0, Numbers, TimesAssumption
  <1>5. ext[b].st = "ok" => ext[b].card \in Cards  BY <1>0 DEF TypeOK, Ext
  <1>6. QED  BY <1>0, <1>2, <1>3, <1>4, <1>5 DEF Sound, LeasedFor

LEMMA SoundOthers ==
  ASSUME Inv, TypeOK', NEW b \in Boots, NEW o \in Boots, o # b, Command(o) \/ Extend(o) \/ Loop(o)
  PROVE  Sound(b)'
  <1>1. /\ entry'[b] = entry[b] /\ cmd'[b] = cmd[b] /\ call'[b] = call[b] /\ at'[b] = at[b]
        /\ ext'[b] = ext[b] /\ cover'[b] = cover[b]
    BY OthersKept DEF Inv
  <1>2. QED  BY <1>1, EpochKept, LeaseKept, SoundKept DEF Inv

LEMMA GoneSound ==
  ASSUME TypeOK, NEW b \in Boots, Gone(b)
  PROVE  Sound(b)'
  <1>1. cover'[b] = {} /\ ext'[b] = NoExt  BY DEF Gone, TypeOK
  <1>2. \A c \in Cards : call'[b][c] = "none"  BY EndCmdClears DEF Gone
  <1>3. QED  BY <1>1, <1>2 DEF Sound, NoExt

\* A command has ended without a grant: its receipts that enter the record are young enough for the fence.
LEMMA EndedSound ==
  ASSUME Inv, TypeOK', NEW b \in Boots, EndCmd(b), lease' = lease, epoch' = epoch, ext' = ext,
         entry'[b].epoch = entry[b].epoch,
         entry'[b].st = "held" => entry[b].st = "held" /\ entry'[b].left = entry[b].left,
         \A c \in cover'[b] : c \in cover[b] \/ (call[b][c] = "ok" /\ entry[b].epoch = cmd[b].epoch)
  PROVE  Sound(b)'
  <1>0. TypeOK /\ Times /\ Sound(b)  BY SoundParts DEF Inv
  <1>1. \A c \in Cards : call'[b][c] = "none"  BY <1>0, EndCmdClears
  <1>2. ext'[b].st = "ok" /\ ext'[b].epoch = epoch' => LeasedFor(b, ext[b].card, Lease - ext[b].since)'
    BY <1>0 DEF Sound, LeasedFor
  <1>3. ASSUME NEW c \in Cards, c \in cover'[b], entry'[b].st = "held", entry'[b].epoch = epoch'
        PROVE  LeasedFor(b, c, entry[b].left)'
    <2>1. CASE c \in cover[b]  BY <1>0, <1>3, <2>1 DEF Sound, LeasedFor
    <2>2. CASE call[b][c] = "ok" /\ entry[b].epoch = cmd[b].epoch
      <3>1. LeasedFor(b, c, Lease - at[b][c])  BY <1>0, <1>3, <2>2 DEF Sound
      <3>2. entry[b].left <= Lease - at[b][c] /\ entry[b].left \in Nat /\ lease[c].left \in Nat /\ at[b][c] \in Nat
        <4>1. /\ at[b][c] <= cmd[b].since /\ cmd[b].since <= CallTimeout /\ entry[b].left <= Lease - Margin
              /\ at[b][c] \in Nat /\ cmd[b].since \in Nat /\ entry[b].left \in Nat /\ lease[c].left \in Nat
          BY <1>0, Numbers DEF Times
        <4>2. QED  BY <4>1, TimesAssumption, LagAssumption
      <3>3. QED  BY <1>3, <3>1, <3>2, TimesAssumption DEF LeasedFor
    <2>3. QED  BY <1>3, <2>1, <2>2
  <1>4. QED  BY <1>1, <1>2, <1>3 DEF Sound, Calling

LEMMA GrantSound ==
  ASSUME Inv, TypeOK', NEW b \in Boots, FinishGranted(b), Awaited(b)
  PROVE  Sound(b)'
  <1>0. TypeOK /\ Times /\ Commands /\ Covers /\ Sound(b)  BY SoundParts DEF Inv
  <1>1. UNCHANGED <<ext, lease, epoch>> /\ EndCmd(b) /\ Settled(b) /\ ~RenewalFailed(b) /\ In(b, {"final"}) = {}
    BY DEF FinishGranted
  <1>2. \A c \in Cards : call'[b][c] = "none"  BY <1>0, <1>1, EndCmdClears
  <1>3. (ext'[b].st = "ok" /\ ext'[b].epoch = epoch') => LeasedFor(b, ext[b].card, Lease - ext[b].since)'
    BY <1>0, <1>1 DEF Sound, LeasedFor
  <1>4. PICK i, j \in Cards : Oldest(b, i) /\ Newest(b, j) /\ Granted(b, Deadline(b, i, j))
    BY DEF FinishGranted
  <1> DEFINE left == Deadline(b, i, j)
  <1>5. /\ left \in Int /\ left <= Lease - Margin - cmd[b].age
        /\ \A k \in Cards : call[b][k] = "ok" => left <= Lease - at[b][k]
    BY <1>0, <1>4, DeadlineBounds
  <1> HIDE DEF left
  <1>6. CASE left <= 0
    <2>1. entry'[b] = Lost(entry[b])  BY <1>0, <1>4, <1>6 DEF Granted, TypeOK, left
    <2>2. entry'[b].st = "lost"  BY <1>0, <2>1, LostType DEF TypeOK
    <2>3. QED  BY <1>2, <1>3, <2>2 DEF Sound, Calling
  <1>7. CASE ~(left <= 0)
    <2>1. entry'[b] = [entry[b] EXCEPT !.st = "held", !.left = left, !.wait = Floor(Renew - cmd[b].age)]
          /\ cover'[b] = cover[b] \cup In(b, {"ok"})
      BY <1>0, <1>4, <1>7 DEF Granted, TypeOK, left
    <2>2. entry'[b].left = left /\ entry'[b].epoch = entry[b].epoch  BY <1>0, <2>1 DEF TypeOK, Entry
    <2>3. cmd[b].epoch = entry[b].epoch  BY <1>0 DEF Awaited, Commands
    <2>4. \A c \in Cards : lease[c].left \in Nat /\ at[b][c] \in Nat  BY <1>0, Numbers
    <2>5. ASSUME NEW c \in Cards, call[b][c] = "ok", entry[b].epoch = epoch
          PROVE  lease[c].boot = b /\ lease[c].left >= left
      <3>1. LeasedFor(b, c, Lease - at[b][c])  BY <1>0, <2>3, <2>5 DEF Sound
      <3>2. QED  BY <1>5, <1>7, <2>4, <2>5, <3>1, TimesAssumption DEF LeasedFor
    <2>6. ASSUME NEW c \in Cards, c \in cover[b], entry[b].epoch = epoch
          PROVE  lease[c].boot = b /\ lease[c].left >= left
      <3>1. entry[b].st = "held"  BY <1>0, <2>6 DEF Covers, Awaited
      <3>2. Calling(b)  BY <1>1 DEF Settled
      <3>3. CASE c \in cmd[b].renews
        <4>1. call[b][c] \in CallState \ {"none", "lost", "busy", "final"}
          BY <1>0, <1>1, <3>2, <3>3 DEF RenewalFailed, In, Commands, TypeOK
        <4>2. call[b][c] # "sent"  BY <1>1, <3>3 DEF Settled, RenewalFailed, In
        <4>3. QED  BY <2>5, <2>6, <4>1, <4>2 DEF CallState
      <3>4. CASE c \notin cmd[b].renews
        <4>1. LeasedFor(b, c, Lease - Margin - cmd[b].age)  BY <1>0, <2>6, <3>1, <3>2, <3>4 DEF Sound
        <4>2. cmd[b].age \in Nat  BY <1>0, Numbers
        <4>3. QED  BY <1>5, <1>7, <2>4, <4>1, <4>2, TimesAssumption DEF LeasedFor
      <3>5. QED  BY <3>3, <3>4
    <2>7. \A c \in cover'[b] : c \in cover[b] \/ call[b][c] = "ok"  BY <2>1 DEF In
    <2>8. QED  BY <1>1, <1>2, <1>3, <2>2, <2>5, <2>6, <2>7 DEF Sound, Calling, LeasedFor
  <1>8. QED  BY <1>6, <1>7

LEMMA LoopSound == ASSUME Inv, TypeOK', NEW b \in Boots, Loop(b) PROVE Sound(b)'
  <1>0. TypeOK /\ Commands /\ epoch' = epoch  BY EpochKept DEF Inv
  <1>1. CASE Release(b) \/ Crash(b)  BY <1>0, <1>1, GoneSound DEF Release, Crash
  <1>2. CASE ~(Release(b) \/ Crash(b))
    <2>1. /\ UNCHANGED <<call, at, ext>> /\ cover'[b] \subseteq cover[b]
      BY <1>0, <1>2 DEF Loop, Start, Discover, Inactive, Expire, Request, GiveUp, Stop, TypeOK
    <2>2. \A c \in Cards : (lease[c].boot = b /\ lease[c].left > 0)
                             => lease'[c].boot = b /\ lease'[c].left >= lease[c].left
      BY <1>0, <1>2, LeaseKept
    <2>3. ASSUME cmd' = [cmd EXCEPT ![b].awaited = FALSE]
          PROVE  cmd'[b].epoch = cmd[b].epoch /\ cmd'[b].renews = cmd[b].renews /\ cmd'[b].age = cmd[b].age
      <3>1. cmd[b] \in Cmd /\ cmd'[b] = [cmd[b] EXCEPT !.awaited = FALSE]  BY <1>0, <2>3 DEF TypeOK
      <3>2. QED  BY <3>1 DEF Cmd
    <2>4. CASE Start(b) \/ Stop(b)
      BY <1>0, <2>1, <2>2, <2>4, SoundKept DEF Start, Stop
    <2>5. CASE Inactive(b) \/ Expire(b)
      <3>1. entry'[b] = Lost(entry[b])  BY <1>0, <2>5 DEF Inactive, Expire, TypeOK
      <3>2. entry'[b].st = "lost" /\ entry'[b].epoch = entry[b].epoch
        BY <1>0, <3>1, LostType DEF TypeOK
      <3>3. cmd' = cmd  BY <2>5 DEF Inactive, Expire
      <3>4. QED  BY <1>0, <2>1, <2>2, <3>2, <3>3, SoundKept
    <2>6. CASE Discover(b)
      <3>1. cover'[b] = {} /\ lease' = lease  BY <1>0, <2>6 DEF Discover, TypeOK
      <3>2. cmd'[b].epoch = cmd[b].epoch  BY <2>3, <2>6 DEF Discover
      <3>3. Sound(b)  BY SoundParts DEF Inv
      <3>4. QED  BY <1>0, <2>1, <3>1, <3>2, <3>3 DEF Sound, LeasedFor
    <2>7. CASE Request(b)
      <3>1. \A c \in Cards : call[b][c] = "none"  BY <1>0, <2>7 DEF Request, Commands, Calling
      <3>2. UNCHANGED <<entry, lease, cover>>  BY <2>7 DEF Request
      <3>3. Sound(b)  BY SoundParts DEF Inv
      <3>4. QED  BY <1>0, <2>1, <3>1, <3>2, <3>3 DEF Sound, LeasedFor, Calling
    <2>8. CASE GiveUp(b)
      <3>1. /\ entry'[b].epoch = entry[b].epoch
            /\ entry'[b].st = "held" => entry[b].st = "held" /\ entry'[b].left = entry[b].left
        BY <1>0, <2>8, EntryAfter DEF GiveUp
      <3>2. QED  BY <1>0, <2>1, <2>2, <2>3, <2>8, <3>1, SoundKept DEF GiveUp
    <2>9. QED  BY <1>2, <2>4, <2>5, <2>6, <2>7, <2>8, Loop(b) DEF Loop
  <1>3. QED  BY <1>1, <1>2

LEMMA CommandSound == ASSUME Inv, TypeOK', NEW b \in Boots, Command(b) PROVE Sound(b)'
  <1>0. TypeOK /\ Covers /\ Commands /\ Sound(b) /\ epoch' = epoch  BY EpochKept, SoundParts DEF Inv
  <1>1. \A c \in Cards : (lease[c].boot = b /\ lease[c].left > 0)
                           => lease'[c].boot = b /\ lease'[c].left >= lease[c].left
    BY <1>0, LeaseKept
  <1>2. CASE View(b)
    <2>1. \A c \in Cards : call'[b][c] = "sent"  BY <1>0, <1>2 DEF View, TypeOK
    <2>2. UNCHANGED <<entry, held, ext, lease, cover>>  BY <1>2 DEF View
    <2>3. entry[b].st = "held" => cover[b] \subseteq cmd'[b].renews
      <3>1. cmd[b] \in Cmd /\ cmd'[b] = [cmd[b] EXCEPT !.since = 0, !.renews = IF cmd[b].kind = "renew" THEN held[b] ELSE {}]
        BY <1>0, <1>2 DEF View, TypeOK
      <3>2. cmd'[b].renews = IF cmd[b].kind = "renew" THEN held[b] ELSE {}  BY <3>1 DEF Cmd
      <3>3. entry[b].st = "held" => cmd[b].kind = "renew"
        BY <1>0, <1>2, <3>1 DEF Commands, View, Cmd
      <3>4. QED  BY <1>0, <3>2, <3>3 DEF Covers
    <2>4. QED  BY <1>0, <2>1, <2>2, <2>3 DEF Sound, LeasedFor
  <1>3. CASE ViewUnavailable(b) \/ ViewStale(b) \/ FinishUnavailable(b)
    <2>1. /\ EndCmd(b) /\ (Unavailable(b) \/ Verdict(b)) /\ UNCHANGED <<ext, lease, cover>>
      BY <1>3 DEF ViewUnavailable, ViewStale, FinishUnavailable
    <2>2. QED  BY <1>0, <2>1, EntryAfter, EndedSound
  <1>4. ASSUME NEW S \in SUBSET In(b, {"ok"}), Record(b, S, cmd[b].epoch)
        PROVE  \A c \in cover'[b] : c \in cover[b] \/ (call[b][c] = "ok" /\ entry[b].epoch = cmd[b].epoch)
    BY <1>0, <1>4 DEF Record, In, TypeOK
  <1>5. CASE FinishFinal(b)
    <2>1. /\ EndCmd(b) /\ Verdict(b) /\ UNCHANGED <<ext, lease>>  BY <1>5 DEF FinishFinal
    <2>2. \A c \in cover'[b] : c \in cover[b] \/ (call[b][c] = "ok" /\ entry[b].epoch = cmd[b].epoch)
      <3>1. CASE cover' = cover  BY <3>1
      <3>2. ASSUME NEW S \in SUBSET (Fresh(b) \cap In(b, {"ok"})), Record(b, S, cmd[b].epoch)
            PROVE  \A c \in cover'[b] : c \in cover[b] \/ (call[b][c] = "ok" /\ entry[b].epoch = cmd[b].epoch)
        <4>1. S \in SUBSET In(b, {"ok"})  OBVIOUS
        <4>2. QED  BY <1>4, <3>2, <4>1
      <3>3. QED  BY <1>5, <3>1, <3>2 DEF FinishFinal
    <2>3. QED  BY <1>0, <2>1, <2>2, EntryAfter, EndedSound
  <1>6. CASE FinishGranted(b) /\ ~Awaited(b)
    <2>1. EndCmd(b) /\ Record(b, In(b, {"ok"}), cmd[b].epoch) /\ UNCHANGED <<entry, ext, lease>>
      BY <1>6 DEF FinishGranted
    <2>2. QED  BY <1>0, <1>4, <2>1, EndedSound
  <1>7. CASE FinishGranted(b) /\ Awaited(b)  BY <1>7, GrantSound
  <1>8. ASSUME NEW c \in Cards, call[b][c] = "sent", NEW r \in CallState, call' = [call EXCEPT ![b][c] = r],
               r = "ok" => lease'[c] = [boot |-> b, left |-> Lease], UNCHANGED <<entry, cmd, at, ext, cover>>
        PROVE  Sound(b)'
    <2>1. \A k \in Cards : call'[b][k] = IF k = c THEN r ELSE call[b][k]  BY <1>0, <1>8 DEF TypeOK
    <2>2. Calling(b)  BY <1>8 DEF Calling
    <2>3. ASSUME NEW k \in Cards, NEW n \in Int, LeasedFor(b, k, n)
          PROVE  n > 0 => lease'[k].boot = b /\ lease'[k].left >= n
      <3>1. lease[k].left \in Nat /\ lease'[k].left \in Nat  BY <1>0, TimesAssumption DEF TypeOK, Leases
      <3>2. QED  BY <1>1, <2>3, <3>1 DEF LeasedFor
    <2>4. /\ Lease \in Int /\ Margin \in Int /\ cmd[b].age \in Int /\ ext[b].since \in Int /\ entry[b].left \in Int
          /\ \A k \in Cards : at[b][k] \in Int /\ at[b][k] >= 0
      BY <1>0, Numbers, TimesAssumption
    <2>5. ext[b].st = "ok" => ext[b].card \in Cards  BY <1>0 DEF TypeOK, Ext
    <2>6. r = "ok" => LeasedFor(b, c, Lease - at[b][c])'  BY <1>8, <2>4 DEF LeasedFor
    <2>7. \A k \in Cards : (call'[b][k] = "ok" /\ cmd'[b].epoch = epoch') => LeasedFor(b, k, Lease - at[b][k])'
      BY <1>0, <1>8, <2>1, <2>3, <2>4, <2>6 DEF Sound, LeasedFor
    <2>8. QED  BY <1>0, <1>8, <2>2, <2>3, <2>4, <2>5, <2>7 DEF Sound, LeasedFor
  <1>9. ASSUME NEW c \in Cards, NEW r \in {"ok", "lost"}, Commit(b, c, r) PROVE Sound(b)'
    <2>1. lease'[c] = [boot |-> b, left |-> Lease]  BY <1>0, <1>9 DEF Commit, TypeOK
    <2>2. QED  BY <1>8, <1>9, <2>1 DEF Commit, CallState
  <1>10. ASSUME NEW c \in Cards, AcquireFails(b, c) \/ RenewalFails(b, c) PROVE Sound(b)'
    <2>1. PICK r \in CallState \ {"ok"} : call' = [call EXCEPT ![b][c] = r]
      BY <1>10 DEF AcquireFails, RenewalFails, RenewalAnswer, CallState
    <2>2. QED  BY <1>8, <1>10, <2>1 DEF AcquireFails, RenewalFails
  <1>11. ASSUME NEW c \in Cards, RenewalUnhandled(b, c) PROVE Sound(b)'
    BY <1>0, <1>11, GoneSound DEF RenewalUnhandled
  <1>12. QED
    BY <1>2, <1>3, <1>5, <1>6, <1>7, <1>9, <1>10, <1>11 DEF Command, Finish

LEMMA ExtendSound == ASSUME Inv, TypeOK', NEW b \in Boots, Extend(b) PROVE Sound(b)'
  <1>0. TypeOK /\ Times /\ Sound(b) /\ epoch' = epoch  BY EpochKept, SoundParts DEF Inv
  <1>1. \A c \in Cards : (lease[c].boot = b /\ lease[c].left > 0)
                           => lease'[c].boot = b /\ lease'[c].left >= lease[c].left
    BY <1>0, LeaseKept
  <1>2. UNCHANGED <<entry, cmd, call, at>>
    BY DEF Extend, ExtStart, ExtSend, ExtCommit, ExtFails, ExtAdd, ExtEnd
  <1>3. ASSUME NEW c \in Cards, NEW n \in Int, LeasedFor(b, c, n)
        PROVE  n > 0 => lease'[c].boot = b /\ lease'[c].left >= n
    <2>1. lease[c].left \in Nat /\ lease'[c].left \in Nat  BY <1>0, TimesAssumption DEF TypeOK, Leases
    <2>2. QED  BY <1>1, <1>3, <2>1 DEF LeasedFor
  <1>4. /\ Lease \in Int /\ Margin \in Int /\ cmd[b].age \in Int /\ cmd[b].age >= 0 /\ entry[b].left \in Int
        /\ entry[b].left <= Lease - Margin /\ ext[b].since \in Int /\ ext[b].since <= Margin
        /\ \A c \in Cards : at[b][c] \in Int
    BY <1>0, Numbers, TimesAssumption, LagAssumption DEF Times
  <1>5. ASSUME ExtNext(b) PROVE ext'[b].st = "view"  BY <1>0, <1>5 DEF ExtNext, NoExt, TypeOK
  <1>6. ASSUME ext'[b].st # "ok", cover' = cover PROVE Sound(b)'
    BY <1>0, <1>2, <1>3, <1>4, <1>6 DEF Sound, LeasedFor, Calling
  <1>7. CASE ExtAdd(b)
    <2>1. ext[b].card \in Cards /\ ext[b].st = "ok" /\ lease' = lease  BY <1>0, <1>7 DEF ExtAdd, TypeOK, Ext
    <2>2. ext'[b].st = "view"  BY <1>5, <1>7 DEF ExtAdd
    <2>3. \A c \in cover'[b] : c \in cover[b] \/ (c = ext[b].card /\ entry[b].epoch = ext[b].epoch)
      BY <1>0, <1>7 DEF ExtAdd, Record, TypeOK
    <2>4. ASSUME NEW c \in cover'[b], c \in Cards, c \notin cover[b], entry[b].epoch = epoch, NEW n \in Int,
                 n <= Lease - Margin
          PROVE  LeasedFor(b, c, n)'
      <3>1. LeasedFor(b, c, Lease - ext[b].since)  BY <1>0, <2>1, <2>3, <2>4 DEF Sound
      <3>2. lease[c].left \in Nat  BY <1>0, <2>4, Numbers
      <3>3. QED  BY <1>4, <2>1, <2>4, <3>1, <3>2 DEF LeasedFor
    <2>5. Lease - Margin - cmd[b].age \in Int /\ Lease - Margin - cmd[b].age <= Lease - Margin  BY <1>4
    <2>6. ASSUME NEW c \in Cards, c \in cover'[b], entry[b].st = "held", entry[b].epoch = epoch
          PROVE  LeasedFor(b, c, entry[b].left)'
      <3>1. CASE c \in cover[b]     BY <1>0, <1>2, <2>1, <2>6, <3>1 DEF Sound, LeasedFor
      <3>2. CASE c \notin cover[b]  BY <1>2, <1>4, <2>4, <2>6, <3>2 DEF LeasedFor
      <3>3. QED  BY <3>1, <3>2
    <2>7. ASSUME NEW c \in Cards, c \in cover'[b], Calling(b), entry[b].st = "held", entry[b].epoch = epoch,
                 c \notin cmd[b].renews
          PROVE  LeasedFor(b, c, Lease - Margin - cmd[b].age)'
      <3>1. CASE c \in cover[b]     BY <1>0, <1>2, <2>1, <2>7, <3>1 DEF Sound, LeasedFor
      <3>2. CASE c \notin cover[b]  BY <1>2, <2>4, <2>5, <2>7, <3>2 DEF LeasedFor
      <3>3. QED  BY <3>1, <3>2
    <2>8. \A c \in Cards : (call'[b][c] = "ok" /\ cmd'[b].epoch = epoch') => LeasedFor(b, c, Lease - at[b][c])'
      BY <1>0, <1>2, <2>1 DEF Sound, LeasedFor
    <2>9. QED  BY <1>0, <1>2, <2>2, <2>6, <2>7, <2>8 DEF Sound, Calling, LeasedFor
  <1>8. CASE ExtStart(b) \/ ExtEnd(b)
    <2>1. ext'[b].st # "ok"
      <3>1. CASE ExtStart(b)
        <4>1. ext'[b] = [NoExt EXCEPT !.st = "view", !.epoch = entry[b].epoch]  BY <1>0, <3>1 DEF ExtStart, TypeOK
        <4>2. QED  BY <4>1 DEF NoExt
      <3>2. CASE ExtEnd(b)  BY <1>0, <3>2 DEF ExtEnd, NoExt, TypeOK
      <3>3. QED  BY <1>8, <3>1, <3>2
    <2>2. QED  BY <1>6, <1>8, <2>1 DEF ExtStart, ExtEnd
  <1>9. CASE ExtFails(b)  BY <1>5, <1>6, <1>9 DEF ExtFails
  <1>10. ASSUME NEW c \in Cards, ExtSend(b, c) PROVE Sound(b)'
    <2>1. ext'[b].st = "sent"  BY <1>0, <1>10 DEF ExtSend, TypeOK, Ext
    <2>2. QED  BY <1>6, <1>10, <2>1 DEF ExtSend
  <1>11. ASSUME NEW r \in {"ok", "lost"}, ExtCommit(b, r) PROVE Sound(b)'
    <2>1. CASE r = "lost"  BY <1>5, <1>6, <1>11, <2>1 DEF ExtCommit
    <2>2. CASE r = "ok"
      <3>1. ext[b] \in Ext /\ ext[b].st = "sent" /\ ext'[b] = [ext[b] EXCEPT !.st = "ok"] /\ cover' = cover
        BY <1>0, <1>11, <2>2 DEF ExtCommit, TypeOK
      <3>2. ext'[b].card = ext[b].card /\ ext'[b].since = ext[b].since /\ ext[b].card \in Cards /\ ext[b].since \in Nat
        BY <3>1 DEF Ext
      <3>3. lease'[ext[b].card] = [boot |-> b, left |-> Lease]  BY <1>0, <1>11, <3>2 DEF ExtCommit, TypeOK
      <3>4. LeasedFor(b, ext[b].card, Lease - ext[b].since)'
        BY <3>2, <3>3, TimesAssumption DEF LeasedFor
      <3>5. QED  BY <1>0, <1>2, <1>3, <1>4, <3>1, <3>2, <3>4 DEF Sound, LeasedFor, Calling
    <2>3. QED  BY <2>1, <2>2
  <1>12. QED  BY <1>7, <1>8, <1>9, <1>10, <1>11 DEF Extend

LEMMA TickSound == ASSUME Inv, TypeOK', NEW b \in Boots, Tick PROVE Sound(b)'
  <1>0. TypeOK /\ Sound(b) /\ UNCHANGED <<call, epoch, cover>>  BY SoundParts DEF Inv, Tick
  <1>1. ASSUME NEW c \in Cards, NEW n \in Int, LeasedFor(b, c, n)
        PROVE  n > 1 => lease'[c].boot = b /\ lease'[c].left >= n - 1
    <2>1. lease[c] \in Leases /\ lease[c].left \in Nat  BY <1>0, Numbers DEF TypeOK
    <2>2. lease'[c] = IF lease[c].left <= 1 THEN Free ELSE [lease[c] EXCEPT !.left = @ - 1]  BY DEF Tick
    <2>3. ~(lease[c].left <= 1) => lease'[c].boot = lease[c].boot /\ lease'[c].left = lease[c].left - 1
      BY <2>1, <2>2 DEF Leases
    <2>4. QED  BY <1>1, <2>1, <2>3 DEF LeasedFor
  <1>2. /\ Lease \in Int /\ Margin \in Int /\ cmd[b].age \in Int /\ ext[b].since \in Int /\ entry[b].left \in Nat
        /\ \A c \in Cards : at[b][c] \in Int
    BY <1>0, Numbers, TimesAssumption
  <1>3. entry'[b].st = entry[b].st /\ entry'[b].epoch = entry[b].epoch /\ entry'[b].left = Less(entry[b].left)
    <2>1. entry'[b] = [entry[b] EXCEPT !.left = Less(@), !.wait = Less(@)] /\ entry[b] \in Entry
      BY <1>0 DEF Tick, TypeOK
    <2>2. QED  BY <2>1 DEF Entry
  <1>4. /\ cmd'[b].epoch = cmd[b].epoch /\ cmd'[b].renews = cmd[b].renews
        /\ cmd[b].kind # "none" => cmd'[b].age = cmd[b].age + 1
    <2>1. /\ cmd'[b] = IF cmd[b].kind = "none" THEN cmd[b] ELSE [cmd[b] EXCEPT !.age = @ + 1, !.since = @ + 1]
          /\ cmd[b] \in Cmd
      BY <1>0 DEF Tick, TypeOK
    <2>2. QED  BY <2>1 DEF Cmd
  <1>5. \A c \in Cards : call[b][c] = "ok" => at'[b][c] = at[b][c] + 1  BY DEF Tick
  <1>6. \A c \in Cards : (call'[b][c] = "ok" /\ cmd'[b].epoch = epoch') => LeasedFor(b, c, Lease - at[b][c])'
    BY <1>0, <1>1, <1>2, <1>4, <1>5 DEF Sound, LeasedFor
  <1>7. (ext'[b].st = "ok" /\ ext'[b].epoch = epoch') => LeasedFor(b, ext[b].card, Lease - ext[b].since)'
    <2>1. ext[b] \in Ext /\ ext'[b] = IF ext[b].st \in {"sent", "ok"} THEN [ext[b] EXCEPT !.since = @ + 1] ELSE ext[b]
      BY <1>0 DEF Tick, TypeOK
    <2>2. /\ ext'[b].st = ext[b].st /\ ext'[b].epoch = ext[b].epoch /\ ext'[b].card = ext[b].card
          /\ ext[b].st = "ok" => ext'[b].since = ext[b].since + 1 /\ ext[b].card \in Cards
      BY <2>1 DEF Ext
    <2>3. QED  BY <1>0, <1>1, <1>2, <2>2 DEF Sound, LeasedFor
  <1>8. ASSUME NEW c \in Cards, c \in cover'[b], entry'[b].st = "held", entry'[b].epoch = epoch'
        PROVE  LeasedFor(b, c, entry[b].left)'
    <2>1. LeasedFor(b, c, entry[b].left)  BY <1>0, <1>3, <1>8 DEF Sound
    <2>2. QED  BY <1>1, <1>2, <1>3, <2>1 DEF LeasedFor, Less
  <1>9. ASSUME NEW c \in Cards, c \in cover'[b], Calling(b)', entry'[b].st = "held", entry'[b].epoch = epoch',
               c \notin cmd'[b].renews
        PROVE  LeasedFor(b, c, Lease - Margin - cmd[b].age)'
    <2>1. Calling(b)  BY <1>0, <1>9 DEF Calling
    <2>2. LeasedFor(b, c, Lease - Margin - cmd[b].age)  BY <1>0, <1>3, <1>4, <1>9, <2>1 DEF Sound
    <2>3. cmd'[b].age = cmd[b].age + 1  BY <1>4, <2>1 DEF Inv, Commands
    <2>4. QED  BY <1>1, <1>2, <2>2, <2>3 DEF LeasedFor
  <1>10. QED  BY <1>6, <1>7, <1>8, <1>9 DEF Sound, LeasedFor, Calling

LEMMA LeaseStep ==
  Inv /\ TypeOK' /\ [Next]_vars => (Receipts /\ ExtReceipts /\ CoverKept /\ RenewCovers)'
  <1> SUFFICES ASSUME Inv, TypeOK', [Next]_vars, NEW b \in Boots PROVE Sound(b)'
    BY SoundParts DEF Receipts, ExtReceipts, CoverKept, RenewCovers, Sound
  <1>0. TypeOK /\ Epochs /\ Sound(b) /\ epoch \in Nat  BY SoundParts, Numbers DEF Inv
  <1>1. ASSUME NEW o \in Boots, Command(o) \/ Extend(o) \/ Loop(o) PROVE Sound(b)'
    BY <1>1, SoundOthers, LoopSound, CommandSound, ExtendSound
  <1>2. CASE Tick  BY <1>2, TickSound
  <1>3. CASE MoveHome
    <2>1. epoch' = epoch + 1 /\ UNCHANGED <<entry, cmd, call, at, ext, cover>>  BY <1>3 DEF MoveHome
    <2>2. entry[b].epoch # epoch' /\ cmd[b].epoch # epoch' /\ ext[b].epoch # epoch'
      BY <1>0, <2>1, Numbers DEF Epochs
    <2>3. QED  BY <2>1, <2>2 DEF Sound
  <1>4. ASSUME NEW k \in Cards, Elsewhere(k) PROVE Sound(b)'
    <2>1. lease[k].boot # b /\ \A c \in Cards : c # k => lease'[c] = lease[c]
      BY <1>0, <1>4, RecordTypes DEF Elsewhere, TypeOK
    <2>2. UNCHANGED <<entry, cmd, call, at, ext, cover, epoch>>  BY <1>4 DEF Elsewhere
    <2>3. ASSUME NEW c \in Cards, NEW n \in Int, LeasedFor(b, c, n)
          PROVE  n > 0 => lease'[c].boot = b /\ lease'[c].left >= n
      BY <2>1, <2>3 DEF LeasedFor
    <2>4. /\ Lease \in Int /\ Margin \in Int /\ cmd[b].age \in Int /\ ext[b].since \in Int /\ entry[b].left \in Int
          /\ \A c \in Cards : at[b][c] \in Int
      BY <1>0, Numbers, TimesAssumption
    <2>5. ext[b].st = "ok" => ext[b].card \in Cards  BY <1>0 DEF TypeOK, Ext
    <2>6. QED  BY <1>0, <2>2, <2>3, <2>4, <2>5 DEF Sound, LeasedFor, Calling
  <1>5. CASE UNCHANGED vars
    BY <1>0, <1>5 DEF vars, Sound, LeasedFor, Calling
  <1>6. QED  BY <1>1, <1>2, <1>3, <1>4, <1>5 DEF Next

-----------------------------------------------------------------------------
LEMMA InvInit == Init => Inv
  <1> SUFFICES ASSUME Init PROVE Inv  OBVIOUS
  <1> USE RecordTypes, TimesAssumption
          DEF Init, NoEntry, NoCmd, NoCalls, NoTimes, NoExt, Free
  <1>1. TypeOK  BY DEF TypeOK
  <1>2. Times /\ Commands /\ Epochs /\ Covers  BY DEF Times, Commands, Epochs, Covers, Calling
  <1>3. Receipts /\ ExtReceipts /\ CoverKept /\ RenewCovers
    BY DEF Receipts, ExtReceipts, CoverKept, RenewCovers
  <1>4. QED  BY <1>1, <1>2, <1>3 DEF Inv

LEMMA InvStep == Inv /\ [Next]_vars => Inv'
  <1>1. Inv /\ [Next]_vars => TypeOK'  BY TypeStep DEF Inv
  <1>2. QED  BY <1>1, TimesStep, ShapeStep, LeaseStep DEF Inv

LEMMA Invariance == Spec => []Inv
  BY InvInit, InvStep, PTL DEF Spec

\* Every variable keeps its type; a fence is never exposed for longer than the lease less the margin.
THEOREM TypeCorrect == Spec => []TypeOK
  <1>1. Inv => TypeOK  BY DEF Inv
  <1>2. QED  BY <1>1, Invariance, PTL

\* Any number of processes, cards and moves, any times with CallTimeout <= Margin: the fence never
\* outlives the lease of a card it covers.
THEOREM FenceWithinLeases == Spec => []CoveredIsLeased
  <1>1. Inv => CoveredIsLeased
    BY Numbers DEF Inv, CoveredIsLeased, CoverKept, Covers, Current, LeasedFor
  <1>2. QED  BY <1>1, Invariance, PTL

\* So no two processes ever cover the same card in the feature's epoch.
OneProcessPerCard ==
  \A b, o \in Boots, c \in Cards :
    (/\ Current(b) /\ entry[b].epoch = epoch /\ c \in cover[b]
     /\ Current(o) /\ entry[o].epoch = epoch /\ c \in cover[o]) => b = o

THEOREM CoverIsExclusive == Spec => []OneProcessPerCard
  <1>1. CoveredIsLeased => OneProcessPerCard  BY DEF CoveredIsLeased, OneProcessPerCard
  <1>2. QED  BY <1>1, FenceWithinLeases, PTL

\* A process that has lost the feature gets no fence again in that epoch.
THEOREM LossIsFinal == Spec => LostStaysLost
  <1> DEFINE A == \A b \in Boots : (entry[b].st = "lost" /\ entry'[b].st \in {"idle", "held"})
                                     => entry'[b].epoch > entry[b].epoch
  <1>1. ASSUME Inv, [Next]_vars PROVE A
    <2> SUFFICES ASSUME NEW b \in Boots, entry[b].st = "lost", entry'[b].st \in {"idle", "held"}
                 PROVE  entry'[b].epoch > entry[b].epoch
      OBVIOUS
    <2>0. TypeOK  BY <1>1 DEF Inv
    <2>1. ASSUME entry' = entry PROVE FALSE  BY <2>1
    <2>2. ASSUME Gone(b) PROVE FALSE  BY <2>0, <2>2 DEF Gone, NoEntry, TypeOK
    <2>3. ASSUME Unavailable(b) \/ Verdict(b) PROVE FALSE  BY <2>0, <2>3, EntryAfter
    <2>4. CASE Discover(b)  BY <2>0, <2>4 DEF Discover, TypeOK
    <2>5. CASE Loop(b) /\ ~Discover(b)
      BY <2>1, <2>2, <2>3, <2>5 DEF Loop, Start, Inactive, Expire, Request, GiveUp, Stop, Release, Crash
    <2>6. CASE Command(b)
      <3>1. CASE FinishGranted(b)  BY <2>1, <3>1 DEF FinishGranted, Awaited
      <3>2. ASSUME NEW c \in Cards, RenewalUnhandled(b, c) PROVE FALSE  BY <2>2, <3>2 DEF RenewalUnhandled
      <3>3. QED
        BY <2>1, <2>3, <2>6, <3>1, <3>2
           DEF Command, View, ViewUnavailable, ViewStale, Commit, AcquireFails, RenewalFails, Finish,
               FinishUnavailable, FinishFinal
    <2>7. CASE Extend(b)
      BY <2>1, <2>7 DEF Extend, ExtStart, ExtSend, ExtCommit, ExtFails, ExtAdd, ExtEnd
    <2>8. ASSUME NEW o \in Boots, o # b, Loop(o) \/ Command(o) \/ Extend(o) PROVE FALSE
      BY <2>0, <2>8, OthersKept
    <2>9. CASE Tick
      <3>1. entry'[b] = [entry[b] EXCEPT !.left = Less(@), !.wait = Less(@)] /\ entry[b] \in Entry
        BY <2>0, <2>9 DEF Tick, TypeOK
      <3>2. entry'[b].st = entry[b].st  BY <3>1 DEF Entry
      <3>3. QED  BY <3>2
    <2>10. CASE MoveHome \/ (\E c \in Cards : Elsewhere(c)) \/ UNCHANGED vars
      BY <2>1, <2>10 DEF MoveHome, Elsewhere, vars
    <2>11. QED  BY <1>1, <2>4, <2>5, <2>6, <2>7, <2>8, <2>9, <2>10 DEF Next
  <1>2. Inv /\ [Next]_vars => [A]_vars  BY <1>1
  <1>3. QED  BY <1>2, Invariance, PTL DEF Spec, LostStaysLost

=============================================================================
