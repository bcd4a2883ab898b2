-------------------------- MODULE PeerCallsProofs --------------------------
(* What holds of PeerCalls for any calls, any callers and any number of   *)
(* restarts.                                                               *)
EXTENDS PeerCalls, TLAPS

-----------------------------------------------------------------------------
(* The inductive invariant. *)

Telling(c) == step[c] \in {"telling", "parting"}

\* A call that is to end has something to tell, or has told it.
EndIsTold ==
  /\ cancelled \subseteq takenOver
  /\ \A c \in Calls : step[c] = "parting" => push[c].then = "over"
  /\ \A c \in Calls \ takenOver :
       Telling(c) /\ push[c].then = "over" =>
         /\ push[c].word # "empty"
         /\ push[c].word = "nothing" => heard[c]["reply"] + heard[c]["end"] > 0
  /\ EndsHeard

\* The empty turn is remembered from the moment it is about to be told, for as long as the call
\* can hear of it again.
EmptyRemembered ==
  \A c \in Calls :
    /\ heard[c]["empty"] <= 1
    /\ step[c] \in {"new", "posting"} => heard[c]["empty"] = 0
    /\ step[c] \notin {"over", "lost"} /\ heard[c]["empty"] = 1 => c \in noticed
    /\ Telling(c) /\ push[c].word = "empty" => heard[c]["empty"] = 0 /\ c \in noticed

\* Only the last thing a call does in a run of the bridge is to tell the answer or its end.
Last == {"reply", "end"}
ReplyIsLast ==
  \A c \in Calls :
    /\ LastWords(c) <= 1 + crashes
    /\ step[c] \in {"over", "lost"} \/ (Telling(c) /\ push[c] = Quiet) \/ LastWords(c) <= crashes
    /\ push[c].word \in Last => push[c].then = "over"

\* What waits to be resumed is in the book, like what polls.
ResumingIsSaved == \A c \in Calls : step[c] = "resuming" => c \in booked

\* Until the first restart every call that a takeover met is cancelled, or its turn is over.
TakenIsCancelled ==
  /\ \A c \in Calls : step[c] = "new" => c \notin takenOver
  /\ crashes = 0 =>
       /\ \A c \in Calls : step[c] \notin {"resuming", "parting", "parked", "lost"}
       /\ takenOver \cap Underway \subseteq cancelled
       /\ defied = {}

BookOK == RecordHasCall /\ PollingIsSaved /\ ResumingIsSaved
Inv == TypeOK /\ EndIsTold /\ BookOK /\ EmptyRemembered /\ ReplyIsLast /\ TakenIsCancelled

-----------------------------------------------------------------------------
(* Types. *)

LEMMA TellType ==
  ASSUME TypeOK, NEW c \in Calls, NEW word \in Words, NEW then \in {"over", "accepted", "loop"},
         Tell(c, word, then)
  PROVE  /\ step' \in [Calls -> Steps] /\ push' \in [Calls -> PushType]
         /\ Tracked \subseteq Tracked' /\ step'[c] = "telling"
         /\ defied' \subseteq takenOver
  BY DEF TypeOK, Tell, Steps, Words, PushType, Tracked, Polling

LEMMA GoType ==
  ASSUME TypeOK, NEW c \in Calls, NEW to \in Steps, Go(c, to)
  PROVE  /\ step' \in [Calls -> Steps] /\ push' \in [Calls -> PushType]
         /\ Tracked \ {c} \subseteq Tracked' /\ step'[c] = to
         /\ defied' \subseteq takenOver
  BY DEF TypeOK, Go, Steps, Tracked, Polling

LEMMA LoopType ==
  ASSUME TypeOK, NEW c \in Calls, Loop(c)
  PROVE  /\ step' \in [Calls -> Steps] /\ push' \in [Calls -> PushType]
         /\ Tracked \subseteq Tracked' /\ defied' \subseteq takenOver
  <1>1. CASE Tell(c, "end", "over")
    BY <1>1, TellType DEF Words
  <1>2. CASE Go(c, "sleeping")
    <2>1. "sleeping" \in Steps  BY DEF Steps
    <2>2. step'[c] = "sleeping" /\ Tracked \ {c} \subseteq Tracked'  BY <1>2, <2>1, GoType
    <2>3. c \in Tracked'  BY <2>2 DEF Tracked, Polling
    <2>4. QED  BY <1>2, <2>1, <2>2, <2>3, GoType
  <1>3. QED  BY <1>1, <1>2 DEF Loop

LEMMA OverType ==
  ASSUME TypeOK, NEW c \in Calls, Over(c)
  PROVE  /\ step' \in [Calls -> Steps] /\ push' \in [Calls -> PushType]
         /\ booked' \subseteq Calls /\ cancelled' \subseteq Tracked'
         /\ defied' \subseteq takenOver
  <1>1. "over" \in Steps  BY DEF Steps
  <1>2. QED  BY <1>1, GoType DEF Over, TypeOK

LEMMA AcceptedType ==
  ASSUME TypeOK, NEW c \in Calls, Accepted(c)
  PROVE  /\ step' \in [Calls -> Steps] /\ push' \in [Calls -> PushType]
         /\ booked' \subseteq Calls /\ cancelled' \subseteq Tracked'
         /\ defied' \subseteq takenOver
  <1>1. CASE Go(c, "sleeping") /\ booked' = booked \cup {c} /\ UNCHANGED cancelled
    <2>1. "sleeping" \in Steps  BY DEF Steps
    <2>2. step'[c] = "sleeping" /\ Tracked \ {c} \subseteq Tracked'  BY <1>1, <2>1, GoType
    <2>3. c \in Tracked'  BY <2>2 DEF Tracked, Polling
    <2>4. QED  BY <1>1, <2>1, <2>2, <2>3, GoType DEF TypeOK
  <1>2. CASE Tell(c, "end", "over") /\ UNCHANGED bookVars
    BY <1>2, TellType DEF Words, TypeOK, bookVars
  <1>3. QED  BY <1>1, <1>2 DEF Accepted

LEMMA TypeStep == TypeOK /\ [Next]_vars => TypeOK'
  <1> SUFFICES ASSUME TypeOK, [Next]_vars PROVE TypeOK'  OBVIOUS
  <1>1. ASSUME NEW c \in Calls, Call(c) PROVE TypeOK'
    <2>1. "posting" \in Steps  BY DEF Steps
    <2>2. step'[c] = "posting" /\ c \in Tracked'  BY <1>1, <2>1, GoType DEF Call, Tracked
    <2>3. QED  BY <1>1, <2>1, <2>2, GoType DEF Call, TypeOK, bookVars
  <1>2. ASSUME NEW c \in Calls, Post(c) PROVE TypeOK'
    <2>1. CASE PostFails(c)
      BY <1>2, <2>1, TellType DEF Post, PostFails, Words, TypeOK, bookVars
    <2>2. CASE PostTaken(c)
      BY <1>2, <2>2, OverType DEF Post, PostTaken, TypeOK
    <2>3. CASE PostAnswers(c)
      BY <1>2, <2>3, TellType DEF Post, PostAnswers, Words, TypeOK, bookVars
    <2>4. CASE PostEmpty(c)
      BY <1>2, <2>4, TellType DEF Post, PostEmpty, Words, TypeOK, bookVars
    <2>5. CASE PostPending(c)
      BY <1>2, <2>5, AcceptedType DEF Post, PostPending, TypeOK
    <2>6. QED  BY <1>2, <2>1, <2>2, <2>3, <2>4, <2>5 DEF Post
  <1>3. ASSUME NEW c \in Calls, Wake(c) PROVE TypeOK'
    <2>1. CASE Over(c)
      BY <1>3, <2>1, OverType DEF Wake, TypeOK
    <2>2. CASE Go(c, "finding") /\ UNCHANGED bookVars
      <3>1. "finding" \in Steps  BY DEF Steps
      <3>2. step'[c] = "finding" /\ c \in Tracked'  BY <2>2, <3>1, GoType DEF Tracked, Polling
      <3>3. QED  BY <1>3, <2>2, <3>1, <3>2, GoType DEF Wake, TypeOK, bookVars
    <2>3. QED  BY <1>3, <2>1, <2>2 DEF Wake
  <1>4. ASSUME NEW c \in Calls, Find(c) PROVE TypeOK'
    <2>1. CASE Tell(c, "end", "over")
      BY <1>4, <2>1, TellType DEF Find, Words, TypeOK, bookVars
    <2>2. CASE Go(c, "asking")
      <3>1. "asking" \in Steps  BY DEF Steps
      <3>2. step'[c] = "asking" /\ c \in Tracked'  BY <2>2, <3>1, GoType DEF Tracked, Polling
      <3>3. QED  BY <1>4, <2>2, <3>1, <3>2, GoType DEF Find, TypeOK, bookVars
    <2>3. QED  BY <1>4, <2>1, <2>2 DEF Find
  <1>5. ASSUME NEW c \in Calls, Ask(c) PROVE TypeOK'
    <2>1. CASE AskAgain(c)
      BY <1>5, <2>1, LoopType DEF Ask, AskAgain, TypeOK
    <2>2. CASE AskEnds(c)
      BY <1>5, <2>2, TellType DEF Ask, AskEnds, Words, TypeOK
    <2>3. CASE AskEmpty(c)
      BY <1>5, <2>3, TellType DEF Ask, AskEmpty, Words, TypeOK
    <2>4. QED  BY <1>5, <2>1, <2>2, <2>3 DEF Ask
  <1>6. ASSUME NEW c \in Calls, PushLands(c) PROVE TypeOK'
    <2>1. push[c].word \in Words /\ push' \in [Calls -> PushType]
      BY <1>6 DEF PushLands, TypeOK, PushType
    <2>2. heard' \in [Calls -> [Words -> Nat]]
      BY <1>6, <2>1 DEF PushLands, Land, TypeOK
    <2>3. QED  BY <1>6, <2>1, <2>2 DEF PushLands, TypeOK, bookVars, Tracked
  <1>7. ASSUME NEW c \in Calls, PushReturns(c) PROVE TypeOK'
    <2>1. push[c].then \in {"over", "accepted", "loop"}  BY DEF TypeOK, PushType
    <2>2. CASE Over(c)
      BY <1>7, <2>2, OverType DEF PushReturns, TypeOK
    <2>3. CASE Accepted(c)
      BY <1>7, <2>3, AcceptedType DEF PushReturns, TypeOK
    <2>4. CASE Loop(c) /\ UNCHANGED bookVars
      BY <1>7, <2>4, LoopType DEF PushReturns, TypeOK, bookVars
    <2>5. QED  BY <1>7, <2>1, <2>2, <2>3, <2>4 DEF PushReturns
  <1>8. ASSUME NEW c \in Calls, Resume(c) PROVE TypeOK'
    <2>1. CASE Loop(c) /\ UNCHANGED booked
      BY <1>8, <2>1, LoopType DEF Resume, TypeOK
    <2>2. CASE /\ step' = [step EXCEPT ![c] = "parting"]
               /\ push' = [push EXCEPT ![c] = [word |-> "end", then |-> "over"]]
               /\ booked' = booked \ {c}
               /\ defied' = IF c \in takenOver THEN defied \cup {c} ELSE defied
      BY <1>8, <2>2 DEF Resume, TypeOK, Steps, PushType, Words, Tracked, Polling
    <2>3. CASE Go(c, "parked") /\ UNCHANGED booked
      <3>1. "parked" \in Steps /\ c \notin Tracked  BY <1>8 DEF Resume, Steps, Tracked, Polling
      <3>2. QED  BY <1>8, <2>3, <3>1, GoType DEF Resume, TypeOK
    <2>4. QED  BY <1>8, <2>1, <2>2, <2>3 DEF Resume
  <1>9. ASSUME NEW c \in Calls, DeadlinePasses(c) PROVE TypeOK'
    BY <1>9 DEF DeadlinePasses, TypeOK, bookVars, history, Tracked
  <1>10. CASE Crash
    <2>1. step' \in [Calls -> Steps]  BY <1>10 DEF Crash, Revive, TypeOK, Steps
    <2>2. push' \in [Calls -> PushType]  BY <1>10 DEF Crash, Quiet, PushType
    <2>3. crashes' \in 0 .. MaxCrashes  BY <1>10, CrashAssumption DEF Crash, TypeOK
    <2>4. QED  BY <1>10, <2>1, <2>2, <2>3 DEF Crash, TypeOK, history
  <1>11. ASSUME NEW ch \in Callers, TakeOver(ch) PROVE TypeOK'
    BY <1>11 DEF TakeOver, Cancel, TypeOK, Tracked, Underway, callVars
  <1>12. CASE UNCHANGED vars
    BY <1>12 DEF vars, callVars, bookVars, history, TypeOK, Tracked
  <1>13. QED
    BY <1>1, <1>2, <1>3, <1>4, <1>5, <1>6, <1>7, <1>8, <1>9, <1>10, <1>11, <1>12
    DEF Next, Progress

-----------------------------------------------------------------------------
(* No call ends in silence. *)

\* What a call says that is its last word: something, unless it was taken over.
LEMMA LastWord ==
  ASSUME TypeOK, EndIsTold, NEW c \in Calls, NEW word \in {"reply", "end"}, Tell(c, word, "over"),
         UNCHANGED <<heard, takenOver>>, cancelled' \subseteq cancelled
  PROVE  EndIsTold'
  BY DEF TypeOK, PushType, EndIsTold, EndsHeard, Telling, Tell, Hushed

\* More to come after it, or nothing is said.
LEMMA NoLastWord ==
  ASSUME TypeOK, EndIsTold, NEW c \in Calls,
         \/ \E word \in Words, then \in {"accepted", "loop"} : Tell(c, word, then)
         \/ \E to \in Steps \ {"over", "parting", "telling"} : Go(c, to),
         UNCHANGED <<heard, takenOver>>, cancelled' \subseteq cancelled
  PROVE  EndIsTold'
  BY DEF TypeOK, PushType, EndIsTold, EndsHeard, Telling, Tell, Go

LEMMA OverHeard ==
  ASSUME TypeOK, EndIsTold, NEW c \in Calls, Over(c), UNCHANGED <<heard, takenOver>>,
         c \in OneShot \cup takenOver \/ heard[c]["reply"] + heard[c]["end"] > 0
  PROVE  EndIsTold'
  BY DEF TypeOK, PushType, EndIsTold, EndsHeard, Telling, Over, Go

LEMMA LoopHeard ==
  ASSUME TypeOK, EndIsTold, NEW c \in Calls, Loop(c),
         UNCHANGED <<heard, takenOver>>, cancelled' \subseteq cancelled
  PROVE  EndIsTold'
  <1>1. "sleeping" \in Steps \ {"over", "parting", "telling"}  BY DEF Steps
  <1>2. QED  BY <1>1, LastWord, NoLastWord DEF Loop

LEMMA AcceptedHeard ==
  ASSUME TypeOK, EndIsTold, NEW c \in Calls, Accepted(c), UNCHANGED <<heard, takenOver>>
  PROVE  EndIsTold'
  <1>1. "sleeping" \in Steps \ {"over", "parting", "telling"}  BY DEF Steps
  <1>2. QED  BY <1>1, LastWord, NoLastWord DEF Accepted, bookVars

LEMMA EndStep == TypeOK /\ EndIsTold /\ [Next]_vars => EndIsTold'
  <1> SUFFICES ASSUME TypeOK, EndIsTold, [Next]_vars PROVE EndIsTold'  OBVIOUS
  <1>0. {"posting", "finding", "asking", "parked"} \subseteq Steps \ {"over", "parting", "telling"}
    BY DEF Steps
  <1>1. ASSUME NEW c \in Calls, Call(c) PROVE EndIsTold'
    BY <1>0, <1>1, NoLastWord DEF Call, bookVars
  <1>2. ASSUME NEW c \in Calls, Post(c) PROVE EndIsTold'
    <2>1. CASE PostFails(c)
      BY <1>2, <2>1, LastWord DEF Post, PostFails, bookVars
    <2>2. CASE PostTaken(c)
      BY <1>2, <2>2, OverHeard DEF Post, PostTaken
    <2>3. CASE PostAnswers(c)
      BY <1>2, <2>3, LastWord DEF Post, PostAnswers, bookVars
    <2>4. CASE PostEmpty(c)
      BY <1>2, <2>4, NoLastWord DEF Post, PostEmpty, bookVars, Words
    <2>5. CASE PostPending(c)
      BY <1>2, <2>5, AcceptedHeard DEF Post, PostPending
    <2>6. QED  BY <1>2, <2>1, <2>2, <2>3, <2>4, <2>5 DEF Post
  <1>3. ASSUME NEW c \in Calls, Wake(c) PROVE EndIsTold'
    <2>1. CASE Hushed(c)
      BY <1>3, <2>1, OverHeard DEF Wake, Hushed, EndIsTold
    <2>2. CASE ~Hushed(c)
      BY <1>0, <1>3, <2>2, NoLastWord DEF Wake, bookVars
    <2>3. QED  BY <2>1, <2>2
  <1>4. ASSUME NEW c \in Calls, Find(c) PROVE EndIsTold'
    BY <1>0, <1>4, LastWord, NoLastWord DEF Find, bookVars
  <1>5. ASSUME NEW c \in Calls, Ask(c) PROVE EndIsTold'
    <2>1. CASE AskAgain(c)
      BY <1>5, <2>1, LoopHeard DEF Ask, AskAgain
    <2>2. CASE AskEnds(c)
      BY <1>5, <2>2, LastWord DEF Ask, AskEnds
    <2>3. CASE AskEmpty(c)
      BY <1>5, <2>3, NoLastWord DEF Ask, AskEmpty, Words
    <2>4. QED  BY <1>5, <2>1, <2>2, <2>3 DEF Ask
  <1>6. ASSUME NEW c \in Calls, PushLands(c) PROVE EndIsTold'
    <2>1. push[c].word \in Words  BY <1>6 DEF PushLands, TypeOK, PushType
    <2>2. \A d \in Calls, w \in Words : heard'[d][w] >= heard[d][w]
      BY <1>6, <2>1 DEF PushLands, Land, TypeOK
    <2>3. heard'[c][push[c].word] > 0
      BY <1>6, <2>1 DEF PushLands, Land, TypeOK
    <2>4. heard' \in [Calls -> [Words -> Nat]]
      BY <1>6, <2>1 DEF PushLands, Land, TypeOK
    <2>5. \A d \in Calls : d # c => push'[d] = push[d]
      BY <1>6 DEF PushLands, TypeOK
    <2>6. push'[c].word = "nothing" /\ push'[c].then = push[c].then
      BY <1>6 DEF PushLands, TypeOK, PushType
    <2>7. EndsHeard'
      <3>1. \A d \in Calls : /\ heard[d]["reply"] \in Nat /\ heard'[d]["reply"] \in Nat
                             /\ heard[d]["end"] \in Nat /\ heard'[d]["end"] \in Nat
                             /\ heard'[d]["reply"] >= heard[d]["reply"]
                             /\ heard'[d]["end"] >= heard[d]["end"]
        BY <2>2, <2>4 DEF TypeOK, Words
      <3>2. UNCHANGED <<step, takenOver>>  BY <1>6 DEF PushLands
      <3>3. QED  BY <3>1, <3>2 DEF EndIsTold, EndsHeard
    <2>8. ASSUME NEW d \in Calls \ takenOver, Telling(d), push'[d].then = "over"
          PROVE  /\ push'[d].word # "empty"
                 /\ push'[d].word = "nothing" => heard'[d]["reply"] + heard'[d]["end"] > 0
      <3>1. CASE d = c
        BY <2>1, <2>3, <2>4, <2>6, <2>8, <3>1 DEF EndIsTold, Words
      <3>2. CASE d # c
        BY <2>2, <2>4, <2>5, <2>8, <3>2 DEF EndIsTold, Words, TypeOK
      <3>3. QED  BY <3>1, <3>2
    <2>9. QED  BY <1>6, <2>5, <2>6, <2>7, <2>8 DEF PushLands, EndIsTold, Telling, bookVars
  <1>7. ASSUME NEW c \in Calls, PushReturns(c) PROVE EndIsTold'
    <2>1. CASE push[c].then = "over" /\ Over(c)
      BY <1>7, <2>1, OverHeard DEF PushReturns, EndIsTold, Telling
    <2>2. CASE Accepted(c)
      BY <1>7, <2>2, AcceptedHeard DEF PushReturns
    <2>3. CASE Loop(c) /\ UNCHANGED bookVars
      BY <1>7, <2>3, LoopHeard DEF PushReturns, bookVars
    <2>4. QED  BY <1>7, <2>1, <2>2, <2>3 DEF PushReturns
  <1>8. ASSUME NEW c \in Calls, Resume(c) PROVE EndIsTold'
    <2>1. CASE Loop(c)
      BY <1>8, <2>1, LoopHeard DEF Resume
    <2>2. CASE /\ step' = [step EXCEPT ![c] = "parting"]
               /\ push' = [push EXCEPT ![c] = [word |-> "end", then |-> "over"]]
      BY <1>8, <2>2 DEF Resume, TypeOK, PushType, EndIsTold, EndsHeard, Telling
    <2>3. CASE Go(c, "parked")
      BY <1>0, <1>8, <2>3, NoLastWord DEF Resume
    <2>4. QED  BY <1>8, <2>1, <2>2, <2>3 DEF Resume
  <1>9. ASSUME NEW c \in Calls, DeadlinePasses(c) PROVE EndIsTold'
    BY <1>9 DEF DeadlinePasses, EndIsTold, EndsHeard, Telling, bookVars, history
  <1>10. CASE Crash
    <2>1. \A c \in Calls : step'[c] \notin {"telling", "parting"} /\ (step'[c] = "over" => step[c] = "over")
      BY <1>10 DEF Crash, Revive, Underway
    <2>2. QED  BY <1>10, <2>1 DEF Crash, EndIsTold, EndsHeard, Telling, history
  <1>11. ASSUME NEW ch \in Callers, TakeOver(ch) PROVE EndIsTold'
    <2>1. Tracked \subseteq Underway  BY DEF Tracked, Underway, Polling
    <2>2. QED  BY <1>11, <2>1 DEF TakeOver, Cancel, EndIsTold, EndsHeard, Telling, callVars
  <1>12. CASE UNCHANGED vars
    BY <1>12 DEF vars, callVars, bookVars, history, EndIsTold, EndsHeard, Telling
  <1>13. QED
    BY <1>1, <1>2, <1>3, <1>4, <1>5, <1>6, <1>7, <1>8, <1>9, <1>10, <1>11, <1>12
    DEF Next, Progress

-----------------------------------------------------------------------------
(* The book holds what a restart has to resume. *)

LEMMA TellSaved ==
  ASSUME TypeOK, BookOK, NEW c \in Calls, NEW word, NEW then, Tell(c, word, then),
         booked' = booked \/ booked' = booked \cup {c}, UNCHANGED cancelled,
         then = "loop" => c \in booked' \cup cancelled
  PROVE  BookOK'
  BY DEF TypeOK, BookOK, RecordHasCall, PollingIsSaved, ResumingIsSaved, Underway, Polling, Tell

LEMMA GoSaved ==
  ASSUME TypeOK, BookOK, NEW c \in Calls, NEW to \in {"sleeping", "finding", "asking", "parked"},
         Go(c, to), booked' = booked \/ booked' = booked \cup {c}, UNCHANGED cancelled,
         to \in Polling => c \in booked' \cup cancelled
  PROVE  BookOK'
  BY DEF TypeOK, BookOK, RecordHasCall, PollingIsSaved, ResumingIsSaved, Underway, Polling, Go

LEMMA OverSaved ==
  ASSUME TypeOK, BookOK, NEW c \in Calls, Over(c)
  PROVE  BookOK'
  BY DEF TypeOK, BookOK, RecordHasCall, PollingIsSaved, ResumingIsSaved, Underway, Polling, Over, Go

LEMMA LoopSaved ==
  ASSUME TypeOK, BookOK, NEW c \in Calls, Loop(c), UNCHANGED <<booked, cancelled>>,
         c \in booked \cup cancelled
  PROVE  BookOK'
  BY TellSaved, GoSaved DEF Loop

LEMMA AcceptedSaved ==
  ASSUME TypeOK, BookOK, NEW c \in Calls, Accepted(c)
  PROVE  BookOK'
  BY TellSaved, GoSaved DEF Accepted, bookVars

LEMMA BookStep == TypeOK /\ EndIsTold /\ BookOK /\ [Next]_vars => BookOK'
  <1> SUFFICES ASSUME TypeOK, EndIsTold, BookOK, [Next]_vars PROVE BookOK'  OBVIOUS
  <1>0. \A c \in Calls :
          step[c] \in Polling \/ (step[c] = "telling" /\ push[c].then = "loop") =>
            c \in booked \cup cancelled
    BY DEF BookOK, PollingIsSaved
  <1>1. ASSUME NEW c \in Calls, Call(c) PROVE BookOK'
    BY <1>1 DEF Call, Go, TypeOK, BookOK, RecordHasCall, PollingIsSaved, ResumingIsSaved, Underway,
                Polling, bookVars
  <1>2. ASSUME NEW c \in Calls, Post(c) PROVE BookOK'
    <2>1. CASE PostFails(c) \/ PostAnswers(c) \/ PostEmpty(c)
      BY <1>2, <2>1, TellSaved DEF Post, PostFails, PostAnswers, PostEmpty, bookVars
    <2>2. CASE PostTaken(c)
      BY <1>2, <2>2, OverSaved DEF Post, PostTaken
    <2>3. CASE PostPending(c)
      BY <1>2, <2>3, AcceptedSaved DEF Post, PostPending
    <2>4. QED  BY <1>2, <2>1, <2>2, <2>3 DEF Post
  <1>3. ASSUME NEW c \in Calls, Wake(c) PROVE BookOK'
    BY <1>0, <1>3, OverSaved, GoSaved DEF Wake, bookVars, Polling
  <1>4. ASSUME NEW c \in Calls, Find(c) PROVE BookOK'
    BY <1>0, <1>4, TellSaved, GoSaved DEF Find, bookVars, Polling
  <1>5. ASSUME NEW c \in Calls, Ask(c) PROVE BookOK'
    <2>1. c \in booked \cup cancelled /\ UNCHANGED cancelled
      BY <1>0, <1>5 DEF Ask, Polling
    <2>2. CASE AskAgain(c)
      BY <2>1, <2>2, LoopSaved DEF AskAgain
    <2>3. CASE AskEnds(c)
      BY <2>1, <2>3, TellSaved DEF AskEnds
    <2>4. CASE AskEmpty(c)
      BY <2>1, <2>4, TellSaved DEF AskEmpty
    <2>5. QED  BY <1>5, <2>2, <2>3, <2>4 DEF Ask
  <1>6. ASSUME NEW c \in Calls, PushLands(c) PROVE BookOK'
    <2>1. \A d \in Calls : push'[d].then = push[d].then
      BY <1>6 DEF PushLands, TypeOK, PushType
    <2>2. QED  BY <1>6, <2>1 DEF PushLands, BookOK, RecordHasCall, PollingIsSaved, ResumingIsSaved,
                                 Underway, bookVars
  <1>7. ASSUME NEW c \in Calls, PushReturns(c) PROVE BookOK'
    <2>1. CASE Over(c)
      BY <2>1, OverSaved
    <2>2. CASE Accepted(c)
      BY <2>2, AcceptedSaved
    <2>3. CASE push[c].then = "loop" /\ Loop(c) /\ UNCHANGED bookVars
      BY <1>0, <1>7, <2>3, LoopSaved DEF PushReturns, EndIsTold, bookVars
    <2>4. QED  BY <1>7, <2>1, <2>2, <2>3 DEF PushReturns
  <1>8. ASSUME NEW c \in Calls, Resume(c) PROVE BookOK'
    <2>1. c \in booked /\ UNCHANGED cancelled
      BY <1>8 DEF Resume, BookOK, ResumingIsSaved
    <2>2. CASE Loop(c) /\ UNCHANGED booked
      BY <2>1, <2>2, LoopSaved
    <2>3. CASE /\ booked' = booked \ {c}
               /\ step' = [step EXCEPT ![c] = "parting"]
               /\ push' = [push EXCEPT ![c] = [word |-> "end", then |-> "over"]]
      BY <2>1, <2>3 DEF TypeOK, BookOK, RecordHasCall, PollingIsSaved, ResumingIsSaved, Underway,
                        Polling
    <2>4. CASE Go(c, "parked") /\ UNCHANGED booked
      BY <2>1, <2>4, GoSaved DEF Polling
    <2>5. QED  BY <1>8, <2>2, <2>3, <2>4 DEF Resume
  <1>9. ASSUME NEW c \in Calls, DeadlinePasses(c) PROVE BookOK'
    BY <1>9 DEF DeadlinePasses, BookOK, RecordHasCall, PollingIsSaved, ResumingIsSaved, Underway,
                bookVars
  <1>10. CASE Crash
    <2>1. \A c \in Calls : /\ step'[c] \notin Polling \cup {"telling", "posting", "parting"}
                           /\ c \in booked => step'[c] = "resuming"
                           /\ step'[c] = "resuming" => c \in booked
      BY <1>10 DEF Crash, Revive, Underway, Polling, BookOK, RecordHasCall, ResumingIsSaved
    <2>2. QED  BY <1>10, <2>1 DEF Crash, TypeOK, BookOK, RecordHasCall, PollingIsSaved,
                                  ResumingIsSaved, Underway
  <1>11. ASSUME NEW ch \in Callers, TakeOver(ch) PROVE BookOK'
    BY <1>11 DEF TakeOver, Cancel, BookOK, RecordHasCall, PollingIsSaved, ResumingIsSaved, Underway,
                 Tracked, Polling, callVars
  <1>12. CASE UNCHANGED vars
    BY <1>12 DEF vars, callVars, bookVars, BookOK, RecordHasCall, PollingIsSaved, ResumingIsSaved,
                 Underway
  <1>13. QED
    BY <1>1, <1>2, <1>3, <1>4, <1>5, <1>6, <1>7, <1>8, <1>9, <1>10, <1>11, <1>12
    DEF Next, Progress

-----------------------------------------------------------------------------
(* "The turn ended without text" is told once. *)

LEMMA TellRemembered ==
  ASSUME TypeOK, EmptyRemembered, NEW c \in Calls, NEW word, NEW then, Tell(c, word, then),
         step[c] \notin {"over", "lost"}, noticed \subseteq noticed', UNCHANGED heard,
         word = "empty" => heard[c]["empty"] = 0 /\ c \in noticed'
  PROVE  EmptyRemembered'
  BY DEF TypeOK, EmptyRemembered, Telling, Tell

LEMMA GoRemembered ==
  ASSUME TypeOK, EmptyRemembered, NEW c \in Calls,
         NEW to \in {"posting", "sleeping", "finding", "asking", "parked", "over"}, Go(c, to),
         step[c] \notin {"over", "lost"}, to = "posting" => step[c] = "new",
         UNCHANGED <<noticed, heard>>
  PROVE  EmptyRemembered'
  BY DEF TypeOK, EmptyRemembered, Telling, Go

LEMMA EmptyStep == TypeOK /\ BookOK /\ EmptyRemembered /\ [Next]_vars => EmptyRemembered'
  <1> SUFFICES ASSUME TypeOK, BookOK, EmptyRemembered, [Next]_vars PROVE EmptyRemembered'  OBVIOUS
  <1>1. ASSUME NEW c \in Calls, Call(c) PROVE EmptyRemembered'
    BY <1>1, GoRemembered DEF Call
  <1>2. ASSUME NEW c \in Calls, Post(c) PROVE EmptyRemembered'
    <2>1. CASE PostFails(c) \/ PostAnswers(c)
      BY <1>2, <2>1, TellRemembered DEF Post, PostFails, PostAnswers
    <2>2. CASE PostTaken(c)
      BY <1>2, <2>2, GoRemembered DEF Post, PostTaken, Over
    <2>3. CASE PostEmpty(c)
      <3>1. heard[c]["empty"] = 0  BY <1>2 DEF Post, EmptyRemembered
      <3>2. QED  BY <1>2, <2>3, <3>1, TellRemembered DEF Post, PostEmpty
    <2>4. CASE PostPending(c)
      BY <1>2, <2>4, TellRemembered, GoRemembered DEF Post, PostPending, Accepted
    <2>5. QED  BY <1>2, <2>1, <2>2, <2>3, <2>4 DEF Post
  <1>3. ASSUME NEW c \in Calls, Wake(c) PROVE EmptyRemembered'
    BY <1>3, GoRemembered DEF Wake, Over
  <1>4. ASSUME NEW c \in Calls, Find(c) PROVE EmptyRemembered'
    BY <1>4, TellRemembered, GoRemembered DEF Find
  <1>5. ASSUME NEW c \in Calls, Ask(c) PROVE EmptyRemembered'
    <2>1. CASE AskAgain(c)
      BY <1>5, <2>1, TellRemembered, GoRemembered DEF Ask, AskAgain, Loop
    <2>2. CASE AskEnds(c)
      BY <1>5, <2>2, TellRemembered DEF Ask, AskEnds
    <2>3. CASE AskEmpty(c)
      <3>1. heard[c]["empty"] = 0
        <4>1. heard[c]["empty"] \in Nat  BY DEF TypeOK, Words
        <4>2. heard[c]["empty"] <= 1 /\ heard[c]["empty"] # 1
          BY <1>5, <2>3 DEF Ask, AskEmpty, EmptyRemembered
        <4>3. QED  BY <4>1, <4>2
      <3>2. QED  BY <1>5, <2>3, <3>1, TellRemembered DEF Ask, AskEmpty
    <2>4. QED  BY <1>5, <2>1, <2>2, <2>3 DEF Ask
  <1>6. ASSUME NEW c \in Calls, PushLands(c) PROVE EmptyRemembered'
    <2>1. push[c].word \in Words  BY <1>6 DEF PushLands, TypeOK, PushType
    <2>2. \A d \in Calls : /\ heard'[d]["empty"] = IF d = c /\ push[c].word = "empty"
                                                  THEN heard[d]["empty"] + 1
                                                  ELSE heard[d]["empty"]
      BY <1>6, <2>1 DEF PushLands, Land, TypeOK, Words
    <2>3. \A d \in Calls : /\ push'[d].word = IF d = c THEN "nothing" ELSE push[d].word
      BY <1>6 DEF PushLands, TypeOK, PushType
    <2>4. \A d \in Calls : heard[d]["empty"] \in Nat  BY DEF TypeOK, Words
    <2>5. UNCHANGED <<step, noticed>>  BY <1>6 DEF PushLands
    <2>6. step[c] \in {"telling", "parting"}  BY <1>6 DEF PushLands
    <2>7. QED  BY <2>2, <2>3, <2>4, <2>5, <2>6 DEF EmptyRemembered, Telling
  <1>7. ASSUME NEW c \in Calls, PushReturns(c) PROVE EmptyRemembered'
    BY <1>7, TellRemembered, GoRemembered DEF PushReturns, Over, Accepted, Loop
  <1>8. ASSUME NEW c \in Calls, Resume(c) PROVE EmptyRemembered'
    <2>1. CASE Loop(c) \/ Go(c, "parked")
      BY <1>8, <2>1, TellRemembered, GoRemembered DEF Resume, Loop
    <2>2. CASE /\ step' = [step EXCEPT ![c] = "parting"]
               /\ push' = [push EXCEPT ![c] = [word |-> "end", then |-> "over"]]
      BY <1>8, <2>2 DEF Resume, TypeOK, EmptyRemembered, Telling
    <2>3. QED  BY <1>8, <2>1, <2>2 DEF Resume
  <1>9. ASSUME NEW c \in Calls, DeadlinePasses(c) PROVE EmptyRemembered'
    BY <1>9 DEF DeadlinePasses, EmptyRemembered, Telling, history
  <1>10. CASE Crash
    <2>1. \A c \in Calls :
            /\ step'[c] \notin {"telling", "parting", "posting"}
            /\ step'[c] = "new" => step[c] = "new"
            /\ step'[c] \notin {"new", "over", "lost"} => c \in booked /\ step[c] \notin {"over", "lost"}
      BY <1>10 DEF Crash, Revive, Underway, BookOK, RecordHasCall
    <2>2. QED  BY <1>10, <2>1 DEF Crash, EmptyRemembered, Telling, history
  <1>11. ASSUME NEW ch \in Callers, TakeOver(ch) PROVE EmptyRemembered'
    BY <1>11 DEF TakeOver, EmptyRemembered, Telling, callVars
  <1>12. CASE UNCHANGED vars
    BY <1>12 DEF vars, callVars, bookVars, history, EmptyRemembered, Telling
  <1>13. QED
    BY <1>1, <1>2, <1>3, <1>4, <1>5, <1>6, <1>7, <1>8, <1>9, <1>10, <1>11, <1>12
    DEF Next, Progress

-----------------------------------------------------------------------------
(* An answer or an end is the last word of a run of the bridge. *)

LEMMA TellLast ==
  ASSUME TypeOK, ReplyIsLast, NEW c \in Calls, NEW word, NEW then, Tell(c, word, then),
         step[c] \notin {"over", "lost"}, ~(Telling(c) /\ push[c] = Quiet),
         UNCHANGED <<heard, crashes>>, word \in Last => then = "over"
  PROVE  ReplyIsLast'
  BY DEF TypeOK, ReplyIsLast, Telling, Tell, Quiet, LastWords, Last

LEMMA GoLast ==
  ASSUME TypeOK, ReplyIsLast, NEW c \in Calls, NEW to, Go(c, to),
         to = "over" \/ (step[c] \notin {"over", "lost"} /\ ~(Telling(c) /\ push[c] = Quiet)),
         UNCHANGED <<heard, crashes>>
  PROVE  ReplyIsLast'
  BY DEF TypeOK, ReplyIsLast, Telling, Go, LastWords

LEMMA ReplyStep == TypeOK /\ BookOK /\ ReplyIsLast /\ [Next]_vars => ReplyIsLast'
  <1> SUFFICES ASSUME TypeOK, BookOK, ReplyIsLast, [Next]_vars PROVE ReplyIsLast'  OBVIOUS
  <1>1. ASSUME NEW c \in Calls, Call(c) PROVE ReplyIsLast'
    BY <1>1, GoLast DEF Call, Telling
  <1>2. ASSUME NEW c \in Calls, Post(c) PROVE ReplyIsLast'
    <2>1. CASE PostFails(c) \/ PostAnswers(c) \/ PostEmpty(c)
      BY <1>2, <2>1, TellLast DEF Post, PostFails, PostAnswers, PostEmpty, Telling, Last
    <2>2. CASE PostTaken(c)
      BY <1>2, <2>2, GoLast DEF Post, PostTaken, Over
    <2>3. CASE PostPending(c)
      BY <1>2, <2>3, TellLast, GoLast DEF Post, PostPending, Accepted, Telling, Last
    <2>4. QED  BY <1>2, <2>1, <2>2, <2>3 DEF Post
  <1>3. ASSUME NEW c \in Calls, Wake(c) PROVE ReplyIsLast'
    BY <1>3, GoLast DEF Wake, Over, Telling
  <1>4. ASSUME NEW c \in Calls, Find(c) PROVE ReplyIsLast'
    BY <1>4, TellLast, GoLast DEF Find, Telling, Last
  <1>5. ASSUME NEW c \in Calls, Ask(c) PROVE ReplyIsLast'
    BY <1>5, TellLast, GoLast DEF Ask, AskAgain, AskEnds, AskEmpty, Loop, Telling, Last
  <1>6. ASSUME NEW c \in Calls, PushLands(c) PROVE ReplyIsLast'
    <2>1. push[c].word \in Words /\ push[c] \in PushType  BY <1>6 DEF PushLands, TypeOK, PushType
    <2>2. \A d \in Calls : LastWords(d)' = IF d = c /\ push[c].word \in Last
                                           THEN LastWords(d) + 1
                                           ELSE LastWords(d)
      BY <1>6, <2>1 DEF PushLands, Land, TypeOK, Words, LastWords, Last
    <2>3. \A d \in Calls : push'[d] = IF d = c THEN [word |-> "nothing", then |-> push[c].then]
                                      ELSE push[d]
      BY <1>6, <2>1 DEF PushLands, TypeOK, PushType
    <2>4. \A d \in Calls : LastWords(d) \in Nat  BY DEF TypeOK, Words, LastWords
    <2>5. UNCHANGED <<step, crashes>> /\ step[c] \in {"telling", "parting"} /\ push[c].word # "nothing"
      BY <1>6 DEF PushLands
    <2>6. crashes \in Nat  BY CrashAssumption DEF TypeOK
    <2>7. ASSUME NEW d \in Calls
          PROVE  /\ LastWords(d)' <= 1 + crashes
                 /\ \/ step[d] \in {"over", "lost"}
                    \/ step[d] \in {"telling", "parting"} /\ push'[d] = Quiet
                    \/ LastWords(d)' <= crashes
                 /\ push'[d].word \in Last => push'[d].then = "over"
      <3>1. CASE d = c
        BY <2>2, <2>3, <2>4, <2>5, <2>6, <3>1 DEF ReplyIsLast, Telling, Quiet, Last
      <3>2. CASE d # c
        BY <2>2, <2>3, <3>2 DEF ReplyIsLast, Telling
      <3>3. QED  BY <3>1, <3>2
    <2>8. QED  BY <2>5, <2>7 DEF ReplyIsLast, Telling, Quiet
  <1>7. ASSUME NEW c \in Calls, PushReturns(c) PROVE ReplyIsLast'
    <2>1. step[c] \notin {"over", "lost"}  BY <1>7 DEF PushReturns
    <2>2. CASE Over(c)
      BY <1>7, <2>2, GoLast DEF PushReturns, Over
    <2>3. CASE push[c].then # "over" /\ (Accepted(c) \/ Loop(c))
      <3>1. push[c] # Quiet  BY <2>3 DEF Quiet
      <3>2. QED  BY <1>7, <2>1, <2>3, <3>1, TellLast, GoLast DEF PushReturns, Accepted, Loop, Last
    <2>4. QED  BY <1>7, <2>2, <2>3 DEF PushReturns
  <1>8. ASSUME NEW c \in Calls, Resume(c) PROVE ReplyIsLast'
    <2>1. CASE Loop(c) \/ Go(c, "parked")
      BY <1>8, <2>1, TellLast, GoLast DEF Resume, Loop, Telling, Last
    <2>2. CASE /\ step' = [step EXCEPT ![c] = "parting"]
               /\ push' = [push EXCEPT ![c] = [word |-> "end", then |-> "over"]]
      BY <1>8, <2>2 DEF Resume, TypeOK, ReplyIsLast, Telling, Quiet, LastWords
    <2>3. QED  BY <1>8, <2>1, <2>2 DEF Resume
  <1>9. ASSUME NEW c \in Calls, DeadlinePasses(c) PROVE ReplyIsLast'
    BY <1>9 DEF DeadlinePasses, ReplyIsLast, Telling, Quiet, history, LastWords
  <1>10. CASE Crash
    <2>1. crashes \in Nat /\ crashes' = crashes + 1  BY <1>10, CrashAssumption DEF Crash, TypeOK
    <2>2. \A c \in Calls : LastWords(c) \in Nat  BY DEF TypeOK, Words, LastWords
    <2>3. \A c \in Calls : push'[c].word \notin Last /\ LastWords(c)' = LastWords(c)
      BY <1>10 DEF Crash, Quiet, history, LastWords, Last
    <2>4. QED  BY <2>1, <2>2, <2>3 DEF ReplyIsLast
  <1>11. ASSUME NEW ch \in Callers, TakeOver(ch) PROVE ReplyIsLast'
    BY <1>11 DEF TakeOver, ReplyIsLast, Telling, Quiet, callVars, LastWords
  <1>12. CASE UNCHANGED vars
    BY <1>12 DEF vars, callVars, bookVars, history, ReplyIsLast, Telling, Quiet, LastWords
  <1>13. QED
    BY <1>1, <1>2, <1>3, <1>4, <1>5, <1>6, <1>7, <1>8, <1>9, <1>10, <1>11, <1>12
    DEF Next, Progress

-----------------------------------------------------------------------------
(* A takeover silences what the bridge itself started. *)

LEMMA TellTaken ==
  ASSUME TypeOK, TakenIsCancelled, NEW c \in Calls, NEW word, NEW then, Tell(c, word, then),
         c \in Underway, UNCHANGED <<cancelled, crashes, takenOver>>
  PROVE  TakenIsCancelled'
  BY DEF TypeOK, TakenIsCancelled, Underway, Hushed, Tell

LEMMA GoTaken ==
  ASSUME TypeOK, TakenIsCancelled, NEW c \in Calls,
         NEW to \in {"posting", "sleeping", "finding", "asking"}, Go(c, to),
         step[c] = "new" \/ c \in Underway, UNCHANGED <<cancelled, crashes, takenOver>>
  PROVE  TakenIsCancelled'
  BY DEF TypeOK, TakenIsCancelled, Underway, Go

LEMMA OverTaken ==
  ASSUME TypeOK, TakenIsCancelled, NEW c \in Calls, Over(c), UNCHANGED <<crashes, takenOver>>
  PROVE  TakenIsCancelled'
  BY DEF TypeOK, TakenIsCancelled, Underway, Over, Go

LEMMA TakenStep == TypeOK /\ TakenIsCancelled /\ [Next]_vars => TakenIsCancelled'
  <1> SUFFICES ASSUME TypeOK, TakenIsCancelled, [Next]_vars PROVE TakenIsCancelled'  OBVIOUS
  <1>1. ASSUME NEW c \in Calls, Call(c) PROVE TakenIsCancelled'
    BY <1>1, GoTaken DEF Call, bookVars
  <1>2. ASSUME NEW c \in Calls, Post(c) PROVE TakenIsCancelled'
    <2>1. c \in Underway  BY <1>2 DEF Post, Underway
    <2>2. CASE PostFails(c) \/ PostAnswers(c) \/ PostEmpty(c)
      BY <1>2, <2>1, <2>2, TellTaken DEF Post, PostFails, PostAnswers, PostEmpty, bookVars
    <2>3. CASE PostTaken(c)
      BY <1>2, <2>3, OverTaken DEF Post, PostTaken
    <2>4. CASE PostPending(c)
      BY <1>2, <2>1, <2>4, TellTaken, GoTaken DEF Post, PostPending, Accepted, bookVars
    <2>5. QED  BY <1>2, <2>2, <2>3, <2>4 DEF Post
  <1>3. ASSUME NEW c \in Calls, Wake(c) PROVE TakenIsCancelled'
    BY <1>3, OverTaken, GoTaken DEF Wake, Underway, bookVars
  <1>4. ASSUME NEW c \in Calls, Find(c) PROVE TakenIsCancelled'
    BY <1>4, TellTaken, GoTaken DEF Find, Underway, bookVars
  <1>5. ASSUME NEW c \in Calls, Ask(c) PROVE TakenIsCancelled'
    BY <1>5, TellTaken, GoTaken DEF Ask, AskAgain, AskEnds, AskEmpty, Loop, Underway
  <1>6. ASSUME NEW c \in Calls, PushLands(c) PROVE TakenIsCancelled'
    BY <1>6 DEF PushLands, TakenIsCancelled, Underway, bookVars
  <1>7. ASSUME NEW c \in Calls, PushReturns(c) PROVE TakenIsCancelled'
    <2>1. c \in Underway  BY <1>7 DEF PushReturns, Underway
    <2>2. CASE Over(c)
      BY <1>7, <2>2, OverTaken DEF PushReturns
    <2>3. CASE Accepted(c) \/ (Loop(c) /\ UNCHANGED bookVars)
      BY <1>7, <2>1, <2>3, TellTaken, GoTaken DEF PushReturns, Accepted, Loop, bookVars
    <2>4. QED  BY <1>7, <2>2, <2>3 DEF PushReturns
  <1>8. ASSUME NEW c \in Calls, Resume(c) PROVE TakenIsCancelled'
    <2>1. crashes # 0 /\ crashes' = crashes  BY <1>8 DEF Resume, TakenIsCancelled
    <2>2. \A d \in Calls : step'[d] = "new" => step[d] = "new"
      BY <1>8 DEF Resume, Loop, Tell, Go, TypeOK
    <2>3. QED  BY <1>8, <2>1, <2>2 DEF Resume, TakenIsCancelled
  <1>9. ASSUME NEW c \in Calls, DeadlinePasses(c) PROVE TakenIsCancelled'
    BY <1>9 DEF DeadlinePasses, TakenIsCancelled, Underway, bookVars, history
  <1>10. CASE Crash
    <2>1. crashes' # 0  BY <1>10, CrashAssumption DEF Crash, TypeOK
    <2>2. \A c \in Calls : step'[c] = "new" => step[c] = "new"  BY <1>10 DEF Crash, Revive
    <2>3. QED  BY <1>10, <2>1, <2>2 DEF Crash, TakenIsCancelled, history
  <1>11. ASSUME NEW ch \in Callers, TakeOver(ch) PROVE TakenIsCancelled'
    <2>1. crashes = 0 => Underway \subseteq Tracked
      BY DEF TakenIsCancelled, Underway, Tracked, Polling, TypeOK, Steps
    <2>2. QED  BY <1>11, <2>1 DEF TakeOver, Cancel, TakenIsCancelled, Underway, callVars
  <1>12. CASE UNCHANGED vars
    BY <1>12 DEF vars, callVars, bookVars, history, TakenIsCancelled, Underway
  <1>13. QED
    BY <1>1, <1>2, <1>3, <1>4, <1>5, <1>6, <1>7, <1>8, <1>9, <1>10, <1>11, <1>12
    DEF Next, Progress

-----------------------------------------------------------------------------
(* What follows for every behaviour. *)

LEMMA InvInit == Init => Inv
  <1> SUFFICES ASSUME Init PROVE Inv  OBVIOUS
  <1>1. TypeOK
    BY CrashAssumption DEF Init, TypeOK, Steps, PushType, Quiet, Words
  <1>2. EndIsTold /\ BookOK /\ TakenIsCancelled
    BY DEF Init, EndIsTold, EndsHeard, Telling, BookOK, RecordHasCall, PollingIsSaved,
           ResumingIsSaved, Polling, TakenIsCancelled
  <1>3. EmptyRemembered /\ ReplyIsLast
    BY DEF Init, EmptyRemembered, ReplyIsLast, Telling, Quiet, Words, LastWords, Last
  <1>4. QED  BY <1>1, <1>2, <1>3 DEF Inv

LEMMA InvAlways == Spec => []Inv
  <1>1. Inv /\ [Next]_vars => Inv'
    BY TypeStep, EndStep, BookStep, EmptyStep, ReplyStep, TakenStep DEF Inv
  <1>2. QED  BY <1>1, InvInit, PTL DEF Spec

\* The variables keep their types through every handler, takeover and restart; a cancelled call is
\* always one that is tracked.
THEOREM TypeCorrect == Spec => []TypeOK
  <1>1. Inv => TypeOK  BY DEF Inv
  <1>2. QED  BY <1>1, InvAlways, PTL

\* No call that expects an answer ends in silence, whatever the peer, the network, deletions of
\* the peer, deadlines and restarts did, unless its channel was taken over.
THEOREM NoSilentEnd == Spec => []EndsHeard
  <1>1. Inv => EndsHeard  BY DEF Inv, EndIsTold
  <1>2. QED  BY <1>1, InvAlways, PTL

\* A turn of the peer that ended without text is told once, across any number of restarts, and one
\* last word, answer or end, at most once per run of the bridge: only a restart can repeat it.
THEOREM NothingToldTwice == Spec => []ToldOnce
  <1>1. Inv => EmptyToldOnce  BY DEF Inv, EmptyRemembered, EmptyToldOnce
  <1>2. Inv => LastWordOncePerRun  BY DEF Inv, ReplyIsLast, LastWordOncePerRun
  <1>3. Inv => ToldOnce  BY <1>1, <1>2 DEF ToldOnce
  <1>4. QED  BY <1>3, InvAlways, PTL

\* Whatever polls, or will poll after a push, is in the book, for a restart to resume; and a record in
\* the book belongs to a call that is under way: a restart resumes nothing that ended.
THEOREM BookIsExact == Spec => []BookMatchesCalls
  <1>1. Inv => BookMatchesCalls  BY DEF Inv, BookOK, BookMatchesCalls
  <1>2. QED  BY <1>1, InvAlways, PTL

\* Without a restart a call keeps quiet after its channel was taken over.
THEOREM QuietAfterTakeover == Spec => []QuietWithoutRestart
  <1>1. Inv => QuietWithoutRestart  BY DEF Inv, TakenIsCancelled, QuietWithoutRestart
  <1>2. QED  BY <1>1, InvAlways, PTL
=============================================================================
