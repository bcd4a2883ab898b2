----------------------------- MODULE PeerCalls -----------------------------
(***************************************************************************)
(* Requests to agents of another machine (http-peer.ts) and the book that  *)
(* lets them survive a restart (peer-call-book.ts).  A call posts its      *)
(* request; when the peer accepted it without answering at once, the call  *)
(* enters the book and polls the peer until an answer, an end or its       *)
(* deadline.  Everything the caller is told goes through pushToCaller.     *)
(*                                                                         *)
(* The peer, the network and peers.json are external: what a request, a    *)
(* poll or a look-up returns is any outcome the code tells apart.          *)
(***************************************************************************)
EXTENDS Naturals, FiniteSets

CONSTANTS
  Calls,       \* calls of send_to_agent to a peer
  Callers,     \* the channels they are made from
  Caller,      \* Calls -> Callers
  OneShot,     \* calls that expect no answer
  MaxCrashes   \* bound: restarts of the bridge

ASSUME CallerAssumption == Caller \in [Calls -> Callers]
ASSUME OneShotAssumption == OneShot \subseteq Calls
ASSUME CrashAssumption == MaxCrashes \in Nat

VARIABLES
  step,       \* where each call is in runCall and pollThread
  push,       \* what it is telling its caller, and what comes next
  noticed,    \* calls whose emptyNoticed is set (in memory and in their record)
  late,       \* calls whose deadline has passed
  booked,     \* calls with a record in the book (on disk)
  cancelled,  \* cancelledCalls (in memory)
  crashes,    \* restarts of the bridge so far
  heard,      \* history: per call, how often its caller was told what
  takenOver,  \* history: calls whose channel was taken over while they were under way
  defied      \* history: calls that told their caller something after that

callVars == <<step, push, noticed, late>>
bookVars == <<booked, cancelled>>
history == <<heard, takenOver, defied>>
vars == <<callVars, bookVars, crashes, history>>

-----------------------------------------------------------------------------
Steps == {"new", "posting", "telling", "sleeping", "finding", "asking",
          "resuming", "parting", "parked", "over", "lost"}
Words == {"reply", "empty", "end"}
PushType == [word : Words \cup {"nothing"}, then : {"over", "accepted", "loop"}]
Quiet == [word |-> "nothing", then |-> "over"]

Polling == {"sleeping", "finding", "asking"}

\* track: calls that a takeover finds; a call waiting to be resumed is not among them.
Tracked == {c \in Calls : step[c] \in {"posting", "telling"} \cup Polling}
Underway == {c \in Calls : step[c] \notin {"new", "over", "lost"}}

\* The first check of pushToCaller.
Hushed(c) == c \in cancelled

\* pushToCaller, up to the delivery: a cancelled call keeps quiet.
Tell(c, word, then) ==
  /\ step' = [step EXCEPT ![c] = "telling"]
  /\ push' = [push EXCEPT ![c] = [word |-> IF Hushed(c) THEN "nothing" ELSE word, then |-> then]]
  /\ defied' = IF c \in takenOver /\ ~Hushed(c) THEN defied \cup {c} ELSE defied

\* Without anything to tell.
Go(c, to) == step' = [step EXCEPT ![c] = to] /\ UNCHANGED <<push, defied>>

\* Mutant of Over: the call stays marked as cancelled.
OverKeepsMark(c) ==
  /\ Go(c, "over")
  /\ booked' = booked \ {c}
  /\ UNCHANGED cancelled

\* The finally clauses of pollThread and track.
Over(c) ==
  /\ Go(c, "over")
  /\ booked' = booked \ {c} /\ cancelled' = cancelled \ {c}

\* Mutant of Loop: the deadline starts again with each poll.
LoopForever(c) == Go(c, "sleeping")

\* The loop of pollThread: until the deadline it sleeps, afterwards it says that it gives up.
Loop(c) == IF c \in late THEN Tell(c, "end", "over") ELSE Go(c, "sleeping")

\* Mutant of Accepted: the call is polled and never booked.
AcceptedUnsaved(c) ==
  \/ Go(c, "sleeping") /\ UNCHANGED bookVars
  \/ Tell(c, "end", "over") /\ UNCHANGED bookVars

\* The peer accepted the request: the call is booked and polled, unless the peer gave no
\* thread to ask for.
Accepted(c) ==
  \/ Go(c, "sleeping") /\ booked' = booked \cup {c} /\ UNCHANGED cancelled
  \/ Tell(c, "end", "over") /\ UNCHANGED bookVars

-----------------------------------------------------------------------------
(* One call. *)

\* routeToHttpPeer.
Call(c) ==
  /\ step[c] = "new" /\ Go(c, "posting")
  /\ UNCHANGED <<noticed, late, bookVars, crashes, heard, takenOver>>

\* The POST failed or was refused: that is told even for a call that expects no answer.
PostFails(c) == Tell(c, "end", "over") /\ UNCHANGED <<noticed, bookVars>>

PostTaken(c) == c \in OneShot /\ Over(c) /\ UNCHANGED noticed

PostAnswers(c) == c \notin OneShot /\ Tell(c, "reply", "over") /\ UNCHANGED <<noticed, bookVars>>

\* The peer's turn is over without text: told once, and the call goes on.
PostEmpty(c) ==
  /\ c \notin OneShot /\ Tell(c, "empty", "accepted")
  /\ noticed' = noticed \cup {c} /\ UNCHANGED bookVars

PostPending(c) == c \notin OneShot /\ Accepted(c) /\ UNCHANGED noticed

Post(c) ==
  /\ step[c] = "posting"
  /\ PostFails(c) \/ PostTaken(c) \/ PostAnswers(c) \/ PostEmpty(c) \/ PostPending(c)
  /\ UNCHANGED <<late, crashes, heard, takenOver>>

\* After its sleep a cancelled call ends.
Wake(c) ==
  /\ step[c] = "sleeping"
  /\ IF Hushed(c) THEN Over(c) ELSE Go(c, "finding") /\ UNCHANGED bookVars
  /\ UNCHANGED <<noticed, late, crashes, heard, takenOver>>

\* currentPeer: gone or another instance, or still the one (or peers.json cannot be read).
Find(c) ==
  /\ step[c] = "finding"
  /\ Tell(c, "end", "over") \/ Go(c, "asking")
  /\ UNCHANGED <<noticed, late, bookVars, crashes, heard, takenOver>>

\* No answer yet, or the request failed.
AskAgain(c) == Loop(c) /\ UNCHANGED <<noticed, booked>>

\* Authorization withdrawn, or the answer.
AskEnds(c) == (Tell(c, "end", "over") \/ Tell(c, "reply", "over")) /\ UNCHANGED <<noticed, booked>>

\* Mutant of AskEmpty: what was told is not remembered.
AskEmptyForgotten(c) == Tell(c, "empty", "loop") /\ UNCHANGED <<noticed, booked>>

\* The first time the turn ended without text: booked as told, then told.
AskEmpty(c) ==
  /\ c \notin noticed /\ noticed' = noticed \cup {c}
  /\ booked' = booked \cup {c}
  /\ Tell(c, "empty", "loop")

Ask(c) ==
  /\ step[c] = "asking"
  /\ AskAgain(c) \/ AskEnds(c) \/ AskEmpty(c)
  /\ UNCHANGED <<late, cancelled, crashes, heard, takenOver>>

\* Mutant of Land: a delivery that fails is not put into the held queue.
LandOrVanish(c) ==
  \/ heard' = [heard EXCEPT ![c][push[c].word] = @ + 1]
  \/ UNCHANGED heard

\* The caller's session or, when it is offline or the delivery fails, the held queue has it.
Land(c) == heard' = [heard EXCEPT ![c][push[c].word] = @ + 1]

PushLands(c) ==
  /\ step[c] \in {"telling", "parting"} /\ push[c].word # "nothing"
  /\ Land(c)
  /\ push' = [push EXCEPT ![c].word = "nothing"]
  /\ UNCHANGED <<step, noticed, late, bookVars, crashes, takenOver, defied>>

\* pushToCaller returns.
PushReturns(c) ==
  /\ step[c] \in {"telling", "parting"} /\ push[c].word = "nothing"
  /\ \/ push[c].then = "over" /\ Over(c)
     \/ push[c].then = "accepted" /\ Accepted(c)
     \/ push[c].then = "loop" /\ Loop(c) /\ UNCHANGED bookVars
  /\ UNCHANGED <<noticed, late, crashes, heard, takenOver>>

-----------------------------------------------------------------------------
(* Restarts, takeovers, time. *)

\* resumeFromBook: what is in the book is resumed, other calls under way are gone.
Revive ==
  [c \in Calls |-> IF c \in booked THEN "resuming"
                   ELSE IF c \in Underway THEN "lost" ELSE step[c]]

Crash ==
  /\ crashes < MaxCrashes /\ crashes' = crashes + 1
  /\ step' = Revive
  /\ push' = [c \in Calls |-> Quiet]
  /\ cancelled' = {}
  /\ noticed' = noticed \cap booked
  /\ UNCHANGED <<late, booked, history>>

\* resumePeerCalls: the peer is found; it is gone, and the caller is told under a fresh id,
\* whatever was cancelled; or peers.json stayed unreadable through all tries.
Resume(c) ==
  /\ step[c] = "resuming"
  /\ \/ Loop(c) /\ UNCHANGED booked
     \/ /\ booked' = booked \ {c}
        /\ step' = [step EXCEPT ![c] = "parting"]
        /\ push' = [push EXCEPT ![c] = [word |-> "end", then |-> "over"]]
        /\ defied' = IF c \in takenOver THEN defied \cup {c} ELSE defied
     \/ Go(c, "parked") /\ UNCHANGED booked
  /\ UNCHANGED <<noticed, late, cancelled, crashes, heard, takenOver>>

\* Mutant of Cancel: only the record is removed.
CancelRecordOnly(S) ==
  /\ booked' = booked \ S
  /\ UNCHANGED cancelled

\* cancelHttpPeerCallsForChannel.
Cancel(S) ==
  /\ cancelled' = cancelled \cup S
  /\ booked' = booked \ S

\* The owner types in the caller's channel, or the caller is killed.
TakeOver(ch) ==
  LET own == {c \in Calls : Caller[c] = ch}
  IN  /\ ((own \cap Underway) \ takenOver) \cup ((own \cap Tracked) \ cancelled) # {}
      /\ Cancel(own \cap Tracked)
      /\ takenOver' = takenOver \cup (own \cap Underway)
      /\ UNCHANGED <<callVars, crashes, heard, defied>>

\* Two hours are over.  The deadline is kept in the record and does not start again.
DeadlinePasses(c) ==
  /\ c \in booked \/ step[c] \in Polling
  /\ c \notin late
  /\ late' = late \cup {c}
  /\ UNCHANGED <<step, push, noticed, bookVars, crashes, history>>

-----------------------------------------------------------------------------
Init ==
  /\ step = [c \in Calls |-> "new"] /\ push = [c \in Calls |-> Quiet]
  /\ noticed = {} /\ late = {} /\ booked = {} /\ cancelled = {} /\ crashes = 0
  /\ heard = [c \in Calls |-> [word \in Words |-> 0]]
  /\ takenOver = {} /\ defied = {}

Progress(c) == Post(c) \/ Wake(c) \/ Find(c) \/ Ask(c) \/ PushLands(c) \/ PushReturns(c) \/ Resume(c)

Next ==
  \/ \E c \in Calls : Call(c) \/ Progress(c) \/ DeadlinePasses(c)
  \/ Crash
  \/ \E ch \in Callers : TakeOver(ch)

Spec == Init /\ [][Next]_vars

\* Requests, look-ups and pushes have time limits, so a call that can go on goes on; time passes.
LiveSpec == Spec /\ \A c \in Calls : WF_vars(Progress(c)) /\ WF_vars(DeadlinePasses(c))

-----------------------------------------------------------------------------
TypeOK ==
  /\ step \in [Calls -> Steps] /\ push \in [Calls -> PushType]
  /\ noticed \subseteq Calls /\ late \subseteq Calls /\ booked \subseteq Calls
  /\ cancelled \subseteq Tracked
  /\ crashes \in 0 .. MaxCrashes /\ heard \in [Calls -> [Words -> Nat]]
  /\ takenOver \subseteq Calls /\ defied \subseteq takenOver

\* A call that is over told its caller an answer or an end, unless its channel was taken over
\* or no answer was expected: no path through timeouts, refusals, deleted peers, empty turns
\* and restarts ends silently.
EndsHeard ==
  \A c \in Calls \ (OneShot \cup takenOver) :
    step[c] = "over" => heard[c]["reply"] + heard[c]["end"] > 0

\* "The peer's turn ended without text" is told at most once, across restarts too.
EmptyToldOnce == \A c \in Calls : heard[c]["empty"] <= 1

\* The last word of a call is its answer or one end, and no run of the bridge says it twice.
LastWords(c) == heard[c]["reply"] + heard[c]["end"]
LastWordOncePerRun == \A c \in Calls : LastWords(c) <= 1 + crashes

\* However the deadline, refusals, an answer after an empty turn and restarts meet: the empty turn is
\* told once ever, and one last word, answer or end, per run of the bridge.  It is told again only
\* when the bridge stops between the push and the removal of the record, and resumes the call.
ToldOnce == EmptyToldOnce /\ LastWordOncePerRun

\* Whatever polls is in the book until its outcome is told, so that a restart takes it up again.
PollingIsSaved ==
  \A c \in Calls \ cancelled :
    (step[c] \in Polling \/ (step[c] = "telling" /\ push[c].then = "loop")) => c \in booked

\* A record belongs to a call that is under way: nothing that ended comes back with a restart.
RecordHasCall == booked \subseteq {c \in Underway : step[c] \notin {"posting", "parting"}}

\* The book holds exactly what a restart must resume, at every step between two awaits.
BookMatchesCalls == PollingIsSaved /\ RecordHasCall

\* While the bridge keeps running, a call says nothing after its channel was taken over.
QuietWithoutRestart == crashes = 0 => defied = {}

\* A call in the book comes to an end, is parked until the next restart (peers.json unreadable),
\* or leaves the book with a takeover.
PollingEnds ==
  \A c \in Calls : (c \in booked) ~> (c \notin booked \/ step[c] = "parked")

-----------------------------------------------------------------------------
\* http-peer.ts on a takeover: replies that arrive afterwards are not pushed back any more.  A
\* call that waits to be resumed is not tracked yet and is not cancelled; a call still posting
\* is booked after its record was "removed", and resumed by the next restart.
CancelledIsQuiet == defied = {}
=============================================================================
