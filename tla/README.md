# Claudestra in TLA+

Claudestra runs coding agents (Claude Code, Codex, Pi) in tmux windows and connects them
to Discord, to each other and to agents on other machines. This directory holds TLA+
modules of its core logic, TLC configurations that check them on small instances, and
proofs checked by TLAPS. Paths are relative to the repository (`src/` is its source
directory); `PROJECT.json` maps every definition to the lines it translates.

    tlc -config MCHeldQueue.cfg MCHeldQueue      # model-check one run
    tlapm HeldQueueProofs.tla                    # check one module of proofs

## 1. The system

### Processes

* **bridge** (`src/bridge.ts`, `src/bridge/*`): one long-lived JavaScript process. It owns
  the sockets to the channel-servers, the Discord client, the held queues, the book of
  return routes and the cross-machine calls. It is single-threaded: everything between two
  `await`s that really wait is atomic, and everything across them interleaves.
* **channel-server** (`src/channel-server.ts`): one per agent, MCP on one side and a socket
  to the bridge on the other.
* **manager / launcher / cron** (`src/manager.ts`, `src/launcher.ts`, `src/cron.ts`):
  separate processes that create, kill and restart agent windows, deploy, and start
  scheduled prompts. They meet the bridge through HTTP, files and the ledger database.
* **center and peers**: the same program on other machines, reached over HTTP or a relay.

### Components

State marked (disk) survives a restart of its process.

| Component | State | Operations | Meets | What is hard | Correct when |
|---|---|---|---|---|---|
| Held queue, lane, flush, check_inbox (`bridge/held-queue.ts`, `held-flush.ts`, `inbox.ts`, `bridge.ts` deliverToLocal) | per channel: queue (disk), lane of deliveries, flush in progress, inbox leases | deliver, hold, flush, inbox take/read/ack, age, drop on kill | return routing, turn state, sockets | awaits inside a delivery, three sources of flushes, 24 h give-up, kill, restart | nothing promised vanishes; one copy per run; a session's message stays with it |
| Return routing (`bridge/agent-calls.ts`, `stop-settle.ts`, `chat-guard.ts`) | book of requests waiting for an answer (disk), trigger of the turn | track, touch, view, consume, sweep, clear | held queue ("seen?"), Stop hook | three ways of answering, each read, push, consume | an answer takes along only what was seen; a route is kept until something ends it |
| Cross-machine calls (`bridge/http-peer.ts`, `peer-call-book.ts`) | calls in flight, book of polling calls (disk), cancelled set | post, poll, resume, cancel, push back | return routing, peers | deadline, refusals, empty turns, restarts, takeovers | every call ends with a word to its caller; the book is what a restart must resume |
| PM transfers (`bridge/pm-held-transfer.ts`) | which channel is on duty | move held messages | held queue | a transfer in the middle of a flush | no message doubled or dropped between two queues |
| Turn state and interrupts (`lib/interrupt-gate.ts`, `bridge/preempt.ts`, `lib/esc-guard.ts`, `file-lock.ts`) | turn of an agent, interrupt permits; per window a lock and the time of the last Escape (disk) | classify, preempt, send a guarded key | held queue, manager | the screen is read, then keys are sent; several processes send them, and may be stopped anywhere | no two Escapes within the double-tap; no other key between the look at the screen and the key |
| Quota wall (`bridge/quota-wall.ts`) | walled runtimes, resume time (disk) | hit, hold, resume | held queue, routing | wall met in a turn that owes an answer | nothing is delivered into the wall; every held answer resumes |
| Deploy lock (`lib/pm-deploy-lock*.ts`, `file-lock.ts`) | lock file with holder and recorded child | acquire, record child, reap, release | deploy workers | liveness of processes, two reapers, a wrapper killed at any step | one deployment's process group at a time; a dead holder never blocks |
| Deploy outbox (`lib/merge-deploy-outbox.ts`) | deployments owed (disk) | enqueue, claim, finish | merge train, deploy lock | a crash between merge and deploy | every merge is deployed, none twice in parallel |
| Cron runs (`lib/cron-run-state.ts`, `cron-run-state-exec.ts`, `cron-run-recovery.ts`, `cron.ts`) | one record per job and minute (disk) | claim, dispatch, supervise, recover | bridge | several daemons; crash between claim and dispatch | one prompt per job and minute; one notice per failure |
| Stage 2 leases (`lib/scheduler-v2-lease.ts`, `scheduler-v2-wiring-lease.ts`) | entry per feature: epoch, deadline; the cards leased | discover, request, renew, lose, settle, extend | center | late and replayed grants, partly failed commands, a fence over many leases | a lease is used only before the center may give it away |
| Scheduler, merge train, stages (`lib/ledger-scheduler-write.ts`, `scheduler-merge-train.ts`, `ledger-stages.ts`) | assignments, attempts, stages in the ledger (disk) | dispatch, finish, retry, merge | leases, deploy | recovery of half-done steps | one live attempt per assignment; a merge train is never skipped |
| Lending (`lib/ledger-lend*.ts`, `lend-journal.ts`, `lend-drive.ts`) | orders on two machines, journal (disk) | offer, accept, run, return | peers, ledger | both sides restart; results repeated | an order runs at most once and its result arrives |
| Shared ledger (`lib/shared-ledger-v2-write-gate.ts`, `shared-ledger-mirror.ts`) | who may write a project, mirror position | gate, switch, mirror | center | writes in progress when the authority moves | no write of two authorities |
| Relay client (`lib/relay-client*.ts`, `relay-send-queue.ts`, `relay-stream.ts`, `relay-liveness.ts`) | runs of inbound requests, frames to send, window, probes, pong timer | answer, cancel, write, pong, heartbeat, close, reconnect | relay, local handlers | what has arrived is known from pongs only; a window that fills or shrinks behind the last probe; cancels of runs that are over; a half-open connection | no more than a window is under way; the window reopens; nothing is kept for an answer nobody waits for |
| Peer encryption (`lib/peer-e2e-*.ts`) | session keys | open, seal, rotate | relay | wire formats, cryptography | (not a subject for TLC) |
| Agent sessions, asks, pending operations, setup, Discord adapters | windows, cards, small tables | create, kill, confirm | bridge | mostly sequential input and output | |

How they interact in the part modelled here: an agent calls `send_to_agent`; the bridge
enters the request in the **book** and puts the message in the target's **lane**; the
delivery sends it on the target's socket or **holds** it; a flush or the target's own
`check_inbox` takes it from the queue later. The target answers with `reply()`, with a
`send_to_agent` back, or by ending its turn (the Stop hook); each consumes entries of the
book. If the target lives on another machine, the request is a **cross-machine call**
instead, and its answer is pushed to the caller's channel like any local message.

## 2. Modules

| Module | What it is |
|---|---|
| `HeldQueue` | one channel: lane, queue, flush, inbox, ageing, kill, reconnect, restart |
| `MessageDelivery` | the promise of delivery: new, pending, promised, and named ends |
| `RequestRoad` | the road of an agent's message as the book of return routes sees it |
| `HeldQueueRefinement` | the refinement mappings from `HeldQueue` to `MessageDelivery` and to `RequestRoad` |
| `HeldQueueProofs` | inductive invariants, safety theorems, refinement theorems |
| `ReturnRouting`, `ReturnRoutingProofs` | one target, its callers, the book, answers in progress |
| `PeerCalls`, `PeerCallsProofs` | calls to another machine and the book that survives a restart |
| `DeployLock`, `DeployLockProofs` | the machine's deploy lock: holders, their process groups, waiters that reap |
| `Stage2Leases`, `Stage2LeasesProofs` | the processes that lease the cards of one shared feature, and the center |
| `CronRuns`, `CronRunsProofs` | one due run of a cron job and the daemons that execute or recover it |
| `EscapeKeys`, `EscapeKeysProofs` | the processes that send keys to one window, and the lock of the window |
| `RelaySendQueue`, `RelaySendQueueProofs` | the answers one machine sends up to the relay: lanes, window, probes, cancels, heartbeat |
| `MC*` | instances: messages as model values, kinds and callers as functions |

### HeldQueue

`held`, `item` and `ahead` are a channel's `HeldItem[]`: the set of messages, their
age, notice mark and lease, and the order as a relation. `lane` is the chain of
`runOrdered` for the channel; `lane[1].phase` says between which awaits of `deliverToLocal` the
delivery stands. `flush` is `flushHeld`'s activation with its plan; `inbox` is the
`check_inbox` call in progress; `Claimed` is the `flushing` guard they share.

| Action | Code |
|---|---|
| `Accept`, `AcceptOffline` | a message enters `deliverToLocal` (with or without a registered socket) |
| `Probe`, `Vet`, `Gate`, `Send`, `PutBack`, `LedgerHold`, `Return`, `Withdraw`, `Expel`, `Fail` | the stretches of a delivery between its awaits, and the ways it ends; `Dequeue` is the flush's removal after it was sent |
| `FlushStart`, `FlushPlan`, `FlushNext`, `FlushStop` | `flushHeld` and its loop |
| `InboxTake`, `InboxRead`, `InboxAgain`, `InboxLease`, `InboxFail` | `check_inbox` with and without an ack, by id, again for a leased batch |
| `AgeHeld` | the minute sweep: notice after 30 minutes, give up after 24 hours |
| `Kill`, `Cleanup`, `Succeed` | the window closes, `/agent/cleanup` runs, another session takes the channel |
| `Register`, `Disconnect`, `Crash` | sockets; a restart keeps only what is on disk |

After its last look at the queue (`StillWanted`) a delivery may still wait twice: for the session of the
channel, if the message is addressed to one (`Vet`), and, before it writes to a Pi session, in
`inboundLedgerGate` (`Gate`). That one reads the registry when the bridge does not know the agent's name,
and then purges the agent's ledger; if it cannot, the message is held (`LedgerHold`), with or without
the wait. The constant `Pi` says which sessions of the channel run Pi; whether the name is known
is a choice of each delivery.

A batch of `check_inbox` is leased when its result was rendered and confirmed by the next
call's ack; until then its messages stay queued and the flush passes them by.

Abstractions: one channel; the message's text, the rendering and the inbox budget
(`MaxTake` stands for it); a socket is `current` or `closed`; ages saturate one past the
last threshold; the flush's probe is part of its plan; disk equals memory, because every
change of the queue is saved synchronously. Left out, so the component is listed as
partly modelled: the quota wall, transfers between channels, batches of messages merged
into one text and their twins, guests and peers, the chat guard's verdict on routing.

### ReturnRouting

`booked` are the entries of `AgentCallBook`, `stale` those whose two hours since delivery
are over, `trigger` and `last` the `TriggerRec` of the running and of the last turn, `answers` the handlers
between their read of the book and their consumption of it. Of the road that `HeldQueue` models in detail it keeps
`place` (in a delivery, astray in one, held, received, lost), `queued` (the request has an entry in the queue), `leased` (that entry
has a lease record of `check_inbox`) and `late` (the delivery is the flush's). A lease record counts as seen also after
its time is over (`unseenFrom` asks whether there is one), and stays while the request is queued.

| Action | Code |
|---|---|
| `Ask`, `Refuse`, `PutBack`, `Withdraw`, `Flush`, `Send`, `Land` | a request is tracked, delivered, held, called off because it left the queue, flushed |
| `TakeInbox`, `Confirm`, `GiveUp` | read with `check_inbox`, confirmed; given up, or discarded by kill, perhaps while a delivery goes on |
| `TurnStart`, `Notice` | what opened the turn |
| `Reply`, `ReplyRouted`, `AnswerCaller`, `Stop`, `Settle`, `Answered`, `AnswerFails` | the three ways of answering, each split where it waits |
| `Age`, `Sweep`, `TakeOver`, `BatchOver`, `Crash` | two hours pass; the minute sweep; the owner takes over, or kill; a restart |

A request is astray when it left the queue for good while its delivery waited in `inboundLedgerGate`, which
does not notice; this may happen to the requests in `Gated` (those whose target runs Pi). `Handlers` are the
names for answers that can be processed at the same time. `place` distinguishes the few points that `requestStillHeld` tells apart; what a delivery
does between them is `HeldQueue`'s subject. Left out: turns that end in an API error and
whose text is withheld for their resumption, insertions into a running turn, messages of
the owner that carry a transfer, the quota pause.

### PeerCalls

`step` is where a call stands in `runCall` and `pollThread`, `push` what `pushToCaller`
is telling the caller and what comes after it, `booked` the records of `PeerCallBook`,
`cancelled` the in-memory marks of `cancelHttpPeerCallsForChannel`. `Progress(c)` is one
stretch of a call; `Cancel` and `TakeOver` are the owner's `/takeover`; `Crash` loses what is
in memory and `Resume` is `resumePeerCalls`. The peer, the network and `peers.json` may
return anything the code distinguishes; the ten tries of reading `peers.json` are one
outcome of `Resume` (`parked`).

### DeployLock

Every holder is an operating-system process, and every step is one system call on what
they share: the lock file (`lock`: who, and whether the deployment's process group is
recorded), the guard directory `<lock>.reap` (`guard`), and the processes themselves.
`seen` is the record a waiter read last, `group` the state of the deployment's process group.

| Action | Code |
|---|---|
| `Try`, `Read`, `FoundDead`, `FoundOccupied`, `GiveUp` | a round of `acquireDeployLock`: link, read, judge |
| `TakeGuard`, `GuardBusy`, `Reread`, `StillDead`, `StillOccupied`, `Reap` | `reapDead` |
| `GuardExpires`, `GuardLost` | `acquireLock`'s reclaim of a guard whose owner died, or lives but was suspended or lost it to a reclaim that went wrong |
| `StartGate`, `RecordChild`, `OpenGate`, `Abort`, `Exited`, `Drained`, `KeepLock`, `Release` | `runGated` and `runLocked` of a wrapper |
| `StartScript`, `FinishScript` | `centerScriptRunner` of the scheduler's worker |
| `GroupShrinks`, `Kill` | processes of a group end; SIGKILL at any step |

A probe that gives no answer counts as an occupied lock, like a living holder
(`FoundOccupied`, `StillOccupied` need not be true of the holder). `guard.held()` and the
`unlink` after it are one step: a process suspended for three minutes between these two
consecutive calls could remove a lock that changed hands, and that is left out. A holder's
own file operations (check the token, replace or remove) are one step each: while it
lives nobody else removes its file, which `Exclusive` shows. Left out: nested deployments (they are
members of the outer group), the directory of waiters, corrupt files, observe mode.

### Stage2Leases

One shared feature and its workflow cards. `entry` is the `Entry` that `Stage2Leases` keeps per
feature (`st` says which of its fields are set), `left` the time to its deadline. `held` is the
adapter's `tasks` under `heldOf`; `cmd` its command in progress, `call` and `at` that command's
request for each card, `ext` the `extend()` in progress. `lease` and `epoch` are the center's. A
process may act on a card when the loop's fence is current and the adapter has the card (`Exposes`).

| Action | Code |
|---|---|
| `Start`, `Discover`, `Inactive`, `Expire`, `Request`, `GiveUp` | the loop: `discover`, `valid`, `step`, `timed` |
| `View`, `ViewUnavailable`, `ViewStale` | the adapter's command reads the feature and divides its cards: those it holds are renewed, the others acquired |
| `Commit`, `AcquireFails`, `RenewalFails`, `RenewalUnhandled` | one request at the center: its effect and the answer, which may be lost; the process ends when a renewal is refused while nobody awaits it yet (`lib/crash-guard.ts`) |
| `FinishGranted`, `FinishUnavailable`, `FinishFinal` | the command's end: `grant`, or back off, or lose the feature |
| `ExtStart`, `ExtSend`, `ExtCommit`, `ExtFails`, `ExtAdd`, `ExtEnd` | `extend()`: cards that appear, one after another |
| `Stop`, `Release`, `Crash` | `stop()`, the final release command, the end of the process (nothing is persisted) |
| `Elsewhere`, `MoveHome`, `Tick` | other processes lease and release cards at the center; the feature moves; time |

Times are kept as the time left or passed, and all clocks run at one rate. What the center answers is
taken from the repository's own fake of it (`tests/helpers/shared-ledger-v2-fake-center-commands.ts`)
and marked external. Abstractions: an idempotency key and the receipt replayed for it are one request
whose commit lies anywhere between its send and its answer; a process has one command at a time, as
the loop has; one step of the epoch stands for any number of moves; a port that cannot be read is the
absence of a step. `LagAssumption` (`CallTimeout <= Margin`: 5 s against 10 s) is what makes a late
receipt harmless; the transport's waits after a streak of refusals for too many requests
(`shared-ledger-client-transport.ts:89-100`) are outside it.

### CronRuns

One job and one minute. `run` is the record in `cron-runs.json`, `pc` and `mem` the execution in
each daemon (`runCronJobGuarded`, `runCronTempAgent`), `rec` the recovery in each
(`recoverCronRuns`): `saw` is the record as the round listed it, `rows` the list of agents it
read, if it has. `create` and `agent` are the manager's side: the create under way, and whose session
has the temporary agent's name. A restarted daemon is another member of `Daemons`.

| Action | Code |
|---|---|
| `Claim` | `claim`, then history and, for a temporary agent, the create |
| `NoteCreate`, `Created`, `NoteSession`, `NotePrompt`, `NoteDispatch`, `Send`, `NoteResult` | `runCronTempAgent`, or `executeOnExistingAgent`, between its awaits |
| `List`, `Kill`, `NoteStopped`, `Finish` | `cleanupTempAgent`, `finishRun` |
| `Scan`, `Skip`, `ListRows`, `ListFails` | a round of recovery: the ledger, then the agents once for the round |
| `JudgePlain`, `TooEarly`, `JudgeUnconfirmed`, `JudgeLost`, `JudgeLate`, `StillBusy`, `JudgeIdle`, `TakeCleanup` | `recoverOne` and what it calls |
| `RecList`, `RecKill`, `Write` | stopping the agent, and `settle` with its re-check of the record |
| `Crash`, `CreateEnds`, `AgentChanges`, `Passes` | a daemon stops; the create ends; the agent ends or restarts; the deadline passes |

A transaction of the ledger is one step, because it holds a lock of the file and its rename takes
effect or fails whole. Abstractions: the grace of `ownerGraceMs` is not told apart from the
deadline; the number of idle rounds is any number; an early list of a round is kept (`rows`),
so a run may be judged `cleaned` although its create ends later. `VerdictStands` allows the one
case in which a verdict is replaced, a slow owner that notes its own outcome over recovery's. Left
out, so the component is listed as partly modelled: which jobs are due, the history file
and the owner's notices, the notice of a cleanup that failed (it may go out twice), pruning of
the ledger, the loss of its lock.

### EscapeKeys

One window. `lock` is the directory that `acquireLock` makes, with the owner's token and the time since
its renewal; `moved` is what a reclaiming process has renamed away. `own` and `shared` are the
two memories of the last Escape (`lastDone`, the `.at` file); `last` is when one really landed.
A token is the process's name, and becomes `Old` when its acquisition is over.

| Action | Code |
|---|---|
| `Request` | `sendEscape`, `locked`, at their turn in the process (`keyed-serial.ts`) |
| `Acquire`, `GiveUp`, `SeeStale`, `Rename`, `RenameFails`, `PutBack`, `RemoveMoved` | `acquireLock` and `reclaim`, one system call on the lock each |
| `RenewLock` | the timer of a holder |
| `Waited`, `Look`, `Blocked`, `Send`, `NotHeld`, `Finish` | `sendLocked`, `locked`: throttle, screen, `held()`, key, note, release |
| `Land` | tmux types the key, between the send and its end, or after its sender ended |
| `Stop`, `Continue`, `Die`, `Tick` | processes are stopped for any time, go on, or end; time |

`displaced` remembers that a lock in use was taken away by mistake: a reclaimer was stopped between its
look at a stale lock and the rename, and meanwhile the lock was renewed or replaced and its
holder began to send; or a third process took the lock while a fresh one was to be put back. The code
concedes this case in a comment of `reclaim` (`lib/file-lock.ts:49`), and the properties exclude it; the guard's own
header does not. Within that, `MarginAssumption` says what the times must satisfy: the renewal
interval, the longest a key can take to land after its sender stopped, and the double-tap together
are within the 5 s after which a lock is stale (1.67 s + landing + 1.2 s). Left out: failures to write the
shared time or the token; a process stopped between `held()` and the send, two
consecutive calls; a tmux server that takes a key and types it seconds later, beyond `Landing`.
A request that cannot name its window sends nothing and is no step. The interrupt gate above
(`lib/interrupt-gate.ts`) only delays requests further, and is not modelled.

### RelaySendQueue

One machine and its WebSocket to the relay. `wire` are the frames on their way, each with the place in the
stream where it ends and, for a ping, its `ts`; `arrived` is how much the relay has taken, `pongs` what comes back. `lanes`,
`served`, `probes`, `written`, `acked`, `sinceProbe`, `win` are the fields of `RelaySendQueue` (`hasAck` says
that `lastAck` is set), and `pumping` that `pump()` runs: then nothing else of the client does. `phase` is the
run of each inbound request, `gone` the requests that were cancelled or whose connection ended.

| Action | Code |
|---|---|
| `OnReq`, `Answer`, `Emit`, `OnCancel` | `InboundRouter`: `onReq`, `run` up to its head, `pumpBody`, `onEndOrCancel` with `drop` and `onCancel` |
| `PumpFrame`, `PumpEnds`, `PumpFails` | the rounds of `pump`, its end with a probe if the window is stuck, a `put` that fails |
| `SendDirect`, `Heartbeat`, `PongTimeout`, `OnPong` | frames that do not queue; the heartbeat, its time-out with `onPongTimeout`; a pong |
| `RelayTakes`, `FallsSilent`, `Closes` | the relay takes a frame and answers a ping; it takes nothing any more; the connection closes |
| `OnClose`, `Reconnect` | `onClose` with `reset` and `abortAll`; `onWelcome` |

Abstractions: which lane goes first is any (the code takes the one that has sent the least of late, so no stream
starves; the decay of that count is arithmetic of times); the window moves to any size from three quarters of the
old one up to the limit, as the measured rate may be anything; whether a missing pong is excused may go either way until the
excuses are used up; a request's id is its own, so `onReq` never finds a duplicate; the connection is
open when the relay has welcomed it. The heartbeat's interval (25 s) is longer than the time-out of its pong
(20 s), so that none is sent while the timer runs. `AnswersAreWanted` does not speak of a connection that is being
closed: what a run puts there goes with `reset`. Left out, so the component is listed as partly modelled: the
machine's own requests and their time-outs, the bodies of inbound requests, push messages, the handshake, the back-off.

### MessageDelivery

The promise, without mechanism: once a sender is told `sent` or `queued`, its message is
promised, and leaves that state only by a named end (delivered, confirmed, given up with
notice, discarded by kill, expelled, written to a closed socket). An end is final.
`HeldQueueRefinement` computes that status from the detailed state.

### RequestRoad

What connects the two. `RequestRoad` has four variables per message (where it is, astray included, whether it is queued, whether
`check_inbox` gave it out, whether the flush delivers it) and its thirteen steps. `HeldQueue` implements it for the
messages of agents that are not addressed to one session (`FollowsRoad` of `HeldQueueRefinement`: the place is computed from
the lane, the queue and what the sender was told), and so does `ReturnRouting` (`FollowsRoad` there). Every step
of `RequestRoad` but `Store` (an answer for an agent that is offline, which is no request) is an action of
`ReturnRouting` of the same name under the same condition, so whatever lane, flush, inbox, sweep, kill and restarts do to
a request, `ReturnRouting` has answers interleave with it.

## 3. Runs

Times are on two workers.

| Run | Question | Bounds | States |
|---|---|---|---|
| `held_queue` | Does any interleaving lose, double or wrongly deliver a message, or break the promise; does a message take a step that return routing does not reckon with? | an agent's message and one of the owner, one batch of up to 2, one restart, one session, which runs Pi | 813 k, 117 s |
| `held_queue_live` | Does what ended stay away, do late card answers go out, and pinned messages stay with their session? | two sessions one after another, the first of which runs Pi, a card answer that becomes late, no inbox | 278 k, 115 s |
| `return_routing` | Does an answer consume something else than it should, or a route end before the target received its request? | two requests of one caller whose target runs Pi, two handlers at once (requests and handlers symmetric) | 2.22 M, 126 s |
| `return_routing_live` | Does every route of a received request end? | two callers, one request that may go astray, one handler, one restart | 1.06 M, 170 s |
| `peer_calls` | Does every call end with a word, and with one last word per run, through restarts and takeovers? | one call that expects an answer and one that does not, one channel, two restarts | 43 k, 7 s |
| `deploy_lock` | Do deployments overlap, or does a dead holder block the machine? | two wrappers and a worker, one guard lost, kills unbounded | 75 k, 109 s |
| `stage2_leases` | Does the fence ever outlive a lease it stands on, also after the feature was lost or moved, and does the loop go on asking? | one process, two cards, a competitor at the center, one move; Lease 3, Renew, Margin, CallTimeout 1 | 485 k, 125 s |
| `cron_runs` | Is a prompt sent twice or unnoted, a foreign session stopped, a verdict overruled or told twice, a run left open? | two daemons, one of which may stop at any step, one fault | 460 k, 140 s |
| `escape_keys` | Do two Escapes of different processes come within the double-tap, or another key between the look and the key? | two processes (symmetric), stops and ends unbounded; Gap 2, Stale 4, Renew and Landing 1 | 709 k, 25 s |
| `relay_send_queue` | Is more written than a window ahead of the relay, does the window stay closed, is anything kept for an answer nobody waits for? | two requests, one of which may stream; one connection that may fall silent or close at any step; frames of 2, control frames of 3, pings of 1, a window of 3 to 4 | 791 k, 90 s |

The bounds are the smallest with which the interesting case occurs. Two messages suffice
for order, for a batch of which one is confirmed, and for a flush that meets a direct
delivery. One batch may be leased, run out, be given again and be confirmed late, also after the restart; that the ack
of a batch older than the newest comes in is left to the theorems, which hold for any number of batches. One restart separates "before" and "after"; two are used where recovery itself can be
interrupted (`PeerCalls`). Two handlers are what a race between answers needs. Three holders are a dead
one and two that race to remove its lock. One process is enough for
`Stage2Leases`, because processes meet only at the center, where `Elsewhere` does what another one
could; two cards are what a partly failed command needs, and Lease 3 leaves the fence two units, so
that one may pass between the grant and the renewal and one more before the answer. Two daemons are the owner and
the one that recovers; one fault decides between a write that failed and the next that does not.
Two processes at a window are a sender and a reclaimer; that a third may take the place of a lock
to be put back is covered by the proof. In `relay_send_queue` a control frame alone fills the window, so that it is
full without a probe; the window may shrink below what is under way; and two requests are one whose answer waits
and one that is cancelled. `MaxProbes` is not reached there (the run has as many states with 7). The run opens one
connection, so that it sees `reset` at the close only; that a second connection starts from nothing is left to
the theorems, which hold for any number of connections.
Each bound (`MaxLives`, `MaxCrashes`, `MaxBatches`, `Handlers`, `MaxLosses`,
`MaxEpoch`, `MaxFaults`, `MaxChunks`, `MaxDirect`, `MaxConns`) only disables an action of the environment or the start of another call. Ages of one step per threshold
keep every order in which the thresholds can pass relative to other steps; `NotifyAge` and
`GiveUpAge` differ in `held_queue_live`, where it matters. The theorems of section 5 hold for
all values.

`CHECK_DEADLOCK FALSE` is set where the instance has finitely many messages, calls or runs, and
rests after the last one; `escape_keys` has no end, and is checked for deadlock.

### Disagreements between documents and code

Two runs expect a violation; each shows that something a document or comment says is not so.

| Run | Says | Does |
|---|---|---|
| `worker_killed` | `pm-deploy-lock.ts`: one deployment at a time, and what is left of one still holds the lock | the scheduler's center worker records no child; killed, it leaves its detached script running under a lock that counts as dead |
| `undone_sent` | `lib/cron-run-state-exec.ts:203-204`: recovery tells by the note before the prompt which runs were not dispatched | a round judges a run by the record listed at its start, and `settle` does not compare the note: a run whose owner notes and sends in between is recorded, and told, as not executed |

The modules state eight more, each in a section at its end. They have no run of their own; adding the
property to the configuration named shows the counterexample.

| Property | Says | Does |
|---|---|---|
| `AtLeastOnce` (`MCHeldQueue.cfg`) | `agent-messaging.md`: delivery is at least once | a delivery keeps the socket it started with over its awaits; if it closes meanwhile, the message is answered as sent, dequeued, and nobody gets it |
| `NotForSuccessor` (`MCHeldQueueLive.cfg`) | comment on `dropHeldOnKill`: messages are not delivered to a later agent on the channel | a delivery in the lane during the cleanup holds its message again afterwards |
| `WithdrawnStaysAway` (`MCHeldQueueLive.cfg`) | comment in `deliverToLocal`, `bridge.ts:884`: what kill or the 24 h give-up took out of the queue meanwhile is neither held again nor sent | the question comes before the waits of `sessionGone` (line 888) and `inboundLedgerGate` (897, for a Pi session whose name the bridge does not know); what ends in one of them is sent, or held again when the agent is busy or its ledger cannot be purged |
| `ConfirmedWasShown` (`MCHeldQueue.cfg` with `MaxBatches = 2`) | `agent-messaging.md`: an ack confirms the batch that was given | `check_inbox({read})` of one message returns the ack id of its whole batch; acking it confirms messages that were never shown |
| `AnswersOnlySeen` (`MCReturnRouting.cfg`) | `agent-messaging.md`: answers only consume requests the target has seen | a request given up after 24 hours leaves the queue but not the book; until the next sweep it counts as seen (the sweep expires the book before it ages the queue) |
| `CancelledIsQuiet` (`MCPeerCalls.cfg`) | comment in `http-peer.ts`: after a takeover nothing is pushed back | a call not yet resumed after a restart is unknown to the cancellation |
| `HeldIsLeased` (`MCStage2Leases.cfg`) | `lib/scheduler-v2-wiring-lease.ts:8-9`: a card that another boot leases gets no fence | the record of leased cards has no epoch and is cleared by a release only; when the feature is lost and comes back to the process in a newer epoch, a card it had leased before still counts as held, while another process leases it |
| `EscsApart` without its condition (`MCEscapeKeys.cfg`) | `lib/esc-guard.ts:4-8`: two Escapes at a window are at least 1200 ms apart, across processes | a reclaimer that was stopped moves away a lock that was renewed meanwhile, while its holder sends (`displaced`) |

Two were met while reading and are not stated. A renewal's transient refusal ends the process when an
acquisition of the same command is still out (`lib/scheduler-v2-wiring-lease.ts:75-79` gives the
rejection no handler until then), where `request()` in `lib/scheduler-v2-lease.ts:239` means to retry it; the model has the step
(`RenewalUnhandled`). `lib/interrupt-gate.ts:4` says that any two keys are at least `MANUAL_GAP_MS` apart, but the time
is noted before the key is awaited, so that after a late key the next may come after the guard's 1.2 s.

The properties that are checked hold together with these: `NothingVanishes`
names `lost` (written to a closed socket) as an end, `PinnedStaysHome` speaks of messages
addressed to a session, `UnreceivedIsKept` allows requests that left the queue for good,
`EndIsFinal` excepts deliveries that wait for the registry after their last look at the queue,
`QuietWithoutRestart` speaks of runs without a restart, `ToldOnce` allows one last word per run of the bridge (a
restart between the push and the removal of the record repeats it), `Exclusive` of wrappers' deployments
and of living workers, `CoveredIsLeased` of the cards leased under the fence in force, `EscsApart` and
`AloneSinceLook` of runs in which no lock in use was displaced.

## 4. Fairness

* `HeldQueue`: weak fairness of `Deliver` (an await in a delivery resolves; the lane is a
  promise chain), of the flush's steps once started, of `InboxFinish`, and of
  `AgeHeld` (an interval timer of a minute). Strong fairness of `FlushStart`: the sweep
  tries a flush every minute and finds the guard now free, now taken. Nothing is assumed
  of agents: turns may last forever and sockets stay away.
* `ReturnRouting`: weak fairness of `Sweep` (the same timer) and of `Age(r)` (time passes).
  No answer is assumed.
* `PeerCalls`: weak fairness of each call's `Progress(c)` (every request has a timeout)
  and of `DeadlinePasses(c)`. The peer need never answer.
* `DeployLock`: weak fairness of each waiter's round, of the expiry of a dead owner's guard, and
  strong fairness of the two verdicts "dead": probes may fail, but not for ever. Nothing
  makes a deployment end or a waiter stay.
* `Stage2Leases`: weak fairness of `Tick`, of the loop's `Request`, `Expire` and `GiveUp` (an interval
  timer), of `ViewUnavailable` and of `Finish` (a command ends: each of its requests has a timeout), and of the failures `AcquireFails`,
  `RenewalFails`, `ExtFails` or `ExtAdd`: a request has an outcome, not a good one. The
  center need never grant anything.
* `RelaySendQueue`: weak fairness of `Pump` (a call runs to its end), of `RelayTakes` and `OnPong` (a relay that reads
  takes what is on its way, and its pongs come in), of `Heartbeat` and `PongTimeout` (timers), and of `OnClose` (a
  connection that is being closed closes). A relay that fell silent takes nothing more, and handlers need not answer.
* `CronRuns`: weak fairness of each daemon's `Execute(d)` and `Recover(d)` (awaits that end, a tick per
  minute), of `CreateEnds` and of `Passes`. The last daemon does not stop (one is always started again); faults are bounded.

## 5. Proofs

| Module | Theorems | Assumptions |
|---|---|---|
| `HeldQueueProofs` | `TypeCorrect`, `NothingEverVanishes`, `AlwaysOneDeliverer`, `OneCopyEachRun`, `LeasedIsNotFlushed`, `PinnedNeverStrays`, `EndsAreFinal`, `ImplementsPromise`, `AgentsFollowRoad` | `KindAssumption`, `MsgsAssumption`, `AgesAssumption`, `BoundsAssumption` |
| `ReturnRoutingProofs` | `TypeCorrect`, `RoutesAreKept`, `UnreceivedAreKept`, `RequestsFollowRoad` | `CallerAssumption`, `GatedAssumption`, `BoundsAssumption` |
| `PeerCallsProofs` | `TypeCorrect`, `NoSilentEnd`, `NothingToldTwice`, `BookIsExact`, `QuietAfterTakeover` | `CallerAssumption`, `OneShotAssumption`, `CrashAssumption` |
| `DeployLockProofs` | `TypeCorrect`, `MutualExclusion`, `DeploymentRecorded` | `HoldersAssumption`, `BoundsAssumption` |
| `Stage2LeasesProofs` | `TypeCorrect`, `FenceWithinLeases`, `CoverIsExclusive`, `LossIsFinal` | `NamesAssumption`, `TimesAssumption`, `LagAssumption` |
| `CronRunsProofs` | `Safe`, `TypeCorrect`, `PromptLeavesOnce`, `StopsOwnSession`, `OneNotice`, `VerdictIsKept` | `BoundsAssumption` |
| `EscapeKeysProofs` | `TypeCorrect`, `EscapesApart`, `KeyFollowsLook` | `NamesAssumption`, `TimesAssumption`, `MarginAssumption` |
| `RelaySendQueueProofs` | `Safety`, `TypeCorrect`, `WindowKept`, `WindowReopens`, `NothingUnwanted` | `SizesAssumption`, `WindowAssumption`, `BoundsAssumption` |

The assumptions are types of the constants and the order of the thresholds; sets of
messages, requests, calls, channels, cards, daemons and processes need not be finite.

**HeldQueue.** `NothingVanishes` speaks of messages whose sender was answered; it is not
inductive, because whether a step may drop a message depends on where else it is. `Inv` adds
`LaneOK` (a direct delivery has exactly one job and its message is not answered yet; a
flush's job belongs to a message that is queued or has met its end), `HeldOK` (everything
queued was answered `queued`) and `NewOK` (a message that has not arrived is nowhere). With
these, each step that removes a message from one place is seen to put it in another.
`AlwaysOneDeliverer` is inductive by itself, beside the types: the `flushing` guard and the flush's one delivery.

The two give `OneJobPerMessage`: a message has at most one delivery in the lane, because a sender waits for a direct
delivery and was told `queued` of one of the flush. On it rest the bounds. `OneCopyPerRun` needs `CopiesOK`: a message
that may still be written in this run (`~Delivered`) has one copy less. `LeaseKeepsFlushAway` needs `LeasesOK`: nothing that
the flush has planned or is delivering is leased; only the second half of `check_inbox` leases anything, and no flush is at
work then. `PinnedStaysHome` holds because only `Send` writes, and it compares the session in the step
that sends, or, if the delivery waits in `inboundLedgerGate` after that, because the channel cannot change hands while the
delivery's socket is the registered one: `GateOK` says so, and `AwayOK` that no delivery has a socket once the agent is gone.
`EndIsFinal` needs `OverOK`: what was confirmed, given up or discarded was queued, so its sender waits for nothing, the
only delivery it can have is the flush's, and that one asks the queue again (`StillWanted`). It excepts `PastLook`, the
deliveries that wait for the registry after that question; for these the code does not keep its word (`WithdrawnStaysAway`).

`ImplementsPromise` shows that an initial state maps to an initial state of
`MessageDelivery` and every step, under `Inv`, to a step or a stutter. `AgentsFollowRoad` does the same for
`RequestRoad`, one lemma per kind of step: a delivery that begins, advances or ends (its message goes on, the others stay
where they are, `PlaceKept`), the flush that takes up what nobody delivers, the lease, a restart, and what leaves the queue
for good, which leaves a delivery that waits in the gate astray. It adds `VettedOK`: only a message addressed to a session
waits for the registry in `sessionGone`.

**ReturnRouting.** `Inv` is `TypeOK`, `PlaceOK` (where a request that is booked, queued or
received can be), `ViewsReached` (what a handler read before its push was received or gone by
then, and stays so while it waits), `FatesOK` (the same of what was consumed or expired)
and `RouteKept`. `ViewsReached` is the point: the consumption uses a set read several
steps earlier, and the invariant carries that set across the wait. `RequestsFollowRoad` adds `StopOK` (what the flush
delivers is in flight, astray or sent; what is queued and not held is in the flush's delivery).

**PeerCalls.** `EndIsTold` (a call that is over, or is about to be, has told or is telling its
caller something), `BookOK` (which steps have a record), `EmptyRemembered` (once an empty
turn was told, or is being told, the record says so), `ReplyIsLast` (after the answer or an end nothing follows in
this run, which bounds both together in `ToldOnce`) and `TakenIsCancelled` (without a restart, a call taken over is in the cancelled
set as long as it is tracked).

**DeployLock.** `HolderOwns` and `StageRecorded` tie the stage of a holder to the file. The rest is
about waiters: `SuspectsEnded` (whoever is at the guard has judged a record whose holder has
ended, and an ended holder cannot change its record), `SeenIsLock` (what was read under the
guard is what the file says, as long as the guard is one's own) and `SureIsDead` (the verdict
stays true, because a dead group never starts again). Together they show why the code
judges twice: the first verdict makes the record final, the second reads it.

**Stage2Leases.** `CoveredIsLeased` compares two deadlines that different machines counted from different
moments. `Inv` follows the lease through them: `Times` (what is under way was sent within the call's timeout),
`Receipts` and `ExtReceipts` (a committed request of a card has its lease at the center, as old as the commit, whose
age is at most that of the request), `CoverKept` (a card leased under the fence has a lease that
lasts as long, or the epoch has moved on) and `RenewCovers` (a covered card that the
command under way does not renew was added by `extend` after the fence was looked at, and its lease is
young enough to last until any deadline that command can still bring). The fence's deadline counts from the oldest
receipt and less the margin, and with `CallTimeout <= Margin` that is before any of
the leases ends. `CoverIsExclusive` follows: the center leases a card to one process.

**CronRuns.** `OneExecutor` (only the daemon that claimed the run executes it), `NotSentBefore` and `NotedBefore`
(the stage of the execution says whether the prompt has left and was noted) give `PromptedOnce`; nothing recovery does touches them.
`SawUnfinished` and `VerdictOnRunning` say what a daemon still knows when it writes: a verdict
is judged only of a record that was running, and `settle` writes it only over one that still is. So a
notice goes with the one transition out of `running` (`NoticeHasVerdict`), and a
second daemon's write is refused.

**EscapeKeys.** A process has a claim while its token is in the lock, or in a directory that will be put
back. `OneBack` says that a lock to be put back is the only claim; `SenderHolds`, that a key on its way has its
sender's token in the lock, renewed no longer ago than `Renew` plus the time its sender was stopped, which is
too fresh to be reclaimed. Hence a key that lands is the only claimant's, and cannot make another's wait or look
obsolete (`ClaimWaits`). `LastNoted` is about a sender that ended before it noted the time: its lock becomes stale only
after the double-tap has passed (`MarginAssumption`).

**RelaySendQueue.** `StreamOK` describes the bytes between the two machines: the relay has taken at least what is
acknowledged (`WireAt`), probes are ordered and `sinceProbe` counts from the last (`ProbesAt`), a ping or pong comes after all
that the probes it answers cover (`PingCoversAt`, `PongCoversAt`), and every probe has one on its way (`ComingAt`). The
first gives `WindowKept`, because what the client counts as under way is never less than what is. `Waits` says that a queue
at rest has a probe; it needs `ProbesAt`: if the window is full and nothing was written since the last probe, there is one.
`LanesOK` relates lanes to runs: a last frame in a lane means that the run is over, a lane without one belongs
to a stream that goes on, and the run of a request that is gone was aborted, so that it can only end.

`DeploymentRecorded` and `LossIsFinal` state properties that no run checks; they are proved for all instances.

**Only model-checked.** Liveness (`LateIsDelivered`, `RouteEnds`, `PollingEnds`, `AbandonedIsReaped`, `AsksAgain`,
`EveryRunEnds`, `QueuedIsSent`), which the prover does not reach. Every other property of a passing run is a theorem.

## 6. Plan

In order; each step adds its runs, mutants and proofs.

1. **Quota wall and PM transfers** as extensions of `HeldQueue` (two channels) and
   `ReturnRouting` (withheld text, resumed turns).
2. **The interrupt gate** (`lib/interrupt-gate.ts`) over `EscapeKeys`: permits, and the keys of one bridge.
3. **Merge train and deploy outbox** over `DeployLock`: a merge is deployed exactly once.
4. **Lending** (`lib/ledger-lend*.ts`, `lend-journal.ts`): two machines, both restart.
5. **Shared ledger write gate**: writes in progress while the authority moves.

Hazards that are known and that no property covers, or covers in part, are kept in `PROJECT.json` with their
reason. In part: a message that left the queue while its delivery waits for the registry; a message for an agent that is never idle
or never connected, other than a late card answer; a call that waits to be resumed when its channel is taken over; a lock
in use that a reclaimer moved away. Not at all: a request given up between two sweeps, which its next answer consumes; what a Stop
reads and clears after its awaits, the second answer of a reply that is still pushing, a push that failed, a resumed
call whose peer is gone, a waiter stopped between two consecutive calls, the record of leased cards of an earlier epoch.

The components not modelled are left out for these reasons: encryption is cryptography and
wire formats; setup, launcher, command line, channel-server and Discord adapters are sequential
input and output; asks and pending operations are small tables with one writer; agent
sessions matter here only through what a kill does to the queue.
