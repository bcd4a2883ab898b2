--------------------------- MODULE RelaySendQueue ---------------------------
(***************************************************************************)
(* The connection of one machine to the relay, seen from the answers it    *)
(* sends up (relay-send-queue.ts, relay-client-inbound.ts, relay-client.ts, *)
(* relay-liveness.ts).  The buffer of a WebSocket cannot be observed, so    *)
(*                                                                         *)
(*   - an answer waits in a lane of its own; control frames and the        *)
(*     machine's own requests are written at once;                         *)
(*   - answers are written while the bytes that the relay has not          *)
(*     acknowledged are below a window;                                    *)
(*   - an acknowledgement is the pong of a ping written among the frames,  *)
(*     a probe: the relay takes frames in order;                           *)
(*   - a cancelled request loses its lane, and a closed connection all;    *)
(*   - a relay that answers no ping is left, after some respite.           *)
(*                                                                         *)
(* JavaScript runs a call to its end: while the queue pumps, nothing else  *)
(* happens.                                                                *)
(***************************************************************************)
EXTENDS Naturals, Sequences

CONSTANTS
  Reqs,          \* the requests that the relay passes to this machine
  Streams,       \* those whose handler may answer with a stream
  Sizes,         \* of the frames of answers, in bytes
  CtlSizes,      \* of control frames and of the machine's own requests
  PingSize,
  MinWindow, MaxWindow,
  MinProbe,      \* MIN_PROBE_BYTES
  MaxGraces,     \* how often a missing pong is excused
  MaxChunks,     \* bounds: data frames,
  MaxDirect,     \*   control frames, and heartbeats to a relay that answers,
  MaxProbes,     \*   heartbeats stop at so many unanswered pings,
  MaxConns       \*   connections

ASSUME SizesAssumption ==
  /\ Sizes \subseteq Nat \ {0} /\ CtlSizes \subseteq Nat \ {0} /\ PingSize \in Nat \ {0}
ASSUME WindowAssumption ==
  MinWindow \in Nat \ {0} /\ MaxWindow \in Nat /\ MinWindow <= MaxWindow /\ MinProbe \in Nat
ASSUME BoundsAssumption ==
  MaxGraces \in Nat /\ MaxChunks \in Nat /\ MaxDirect \in Nat /\ MaxProbes \in Nat /\ MaxConns \in Nat

VARIABLES
  conn,       \* the WebSocket: "open", "closing", "none"
  silent,     \* the relay has stopped reading this connection
  wire,       \* frames on their way to the relay: where they end in the stream, and a ping's ts
  pongs,      \* the ts of the pongs on their way back
  arrived,    \* how much of the stream the relay has taken
  lanes, served, probes, written, acked, sinceProbe, lastTs, hasAck, win,   \* RelaySendQueue
  pumping,    \* pump() runs
  phase,      \* of the run of each request
  aborted,    \* requests whose AbortController has fired
  pongTimer, graces,    \* of the heartbeat
  chunks, direct, conns,   \* counts, for the bounds
  gone        \* history: requests that were cancelled, or whose connection has ended

streamVars == <<wire, written, sinceProbe, probes, lastTs>>
queueVars == <<lanes, served>>
ackVars == <<acked, hasAck, win, pumping>>
relayVars == <<silent, pongs, arrived>>
runVars == <<phase, aborted, gone>>
beatVars == <<pongTimer, graces>>
counts == <<chunks, direct, conns>>
vars == <<conn, streamVars, queueVars, ackVars, relayVars, runVars, beatVars, counts>>

-----------------------------------------------------------------------------
Phases == {"new", "handling", "streaming", "over"}
Running == {"handling", "streaming"}
Item == [size : Sizes, fin : BOOLEAN]

\* The client's state when one of its callbacks starts.
Idle == conn = "open" /\ ~pumping

Unacked == written - acked
Queued == \E r \in Reqs : lanes[r] # <<>>
ProbeDue(n) == n >= MinProbe /\ 4 * n >= win

\* put().  No frame but a ping has a ts that counts.
Put(n) ==
  /\ wire' = Append(wire, [end |-> written + n, ts |-> 0])
  /\ written' = written + n /\ sinceProbe' = sinceProbe + n
  /\ UNCHANGED <<probes, lastTs>>

\* ping() after n more bytes: its ts is greater than any before, and it becomes a probe.
PutPing(n, busy) ==
  LET before == IF n = 0 THEN wire ELSE Append(wire, [end |-> written + n, ts |-> 0])
      end == written + n + PingSize
  IN  /\ wire' = Append(before, [end |-> end, ts |-> lastTs + 1])
      /\ written' = end /\ sinceProbe' = 0 /\ lastTs' = lastTs + 1
      /\ probes' = Append(probes, [ts |-> lastTs + 1, upTo |-> end, busy |-> busy])

-----------------------------------------------------------------------------
(* The queue: reply, send, pump, onPong, drop, reset. *)

\* reply() of a frame of an answer: it joins its lane, and the queue pumps.
Reply(r, size, fin) ==
  /\ lanes' = [lanes EXCEPT ![r] = Append(@, [size |-> size, fin |-> fin])]
  /\ pumping' = TRUE
  /\ UNCHANGED <<streamVars, served, acked, hasAck, win>>

\* The client is not connected: send() returns false.
Refused == UNCHANGED <<streamVars, queueVars, ackVars>>

Drop(r) ==
  /\ lanes' = [lanes EXCEPT ![r] = <<>>]
  /\ served' = served \ {r}

\* A round of pump().  The lane that has sent the least of late goes first: any, here.  served
\* holds the lanes that have a history.
PumpFrame(r) ==
  /\ pumping /\ Unacked < win /\ lanes[r] # <<>>
  /\ lanes' = [lanes EXCEPT ![r] = Tail(@)]
  /\ served' = IF Head(lanes[r]).fin THEN served \ {r} ELSE served \cup {r}
  /\ LET size == Head(lanes[r]).size
     IN  IF ProbeDue(sinceProbe + size)
         THEN PutPing(size, \E q \in Reqs : lanes'[q] # <<>>)
         ELSE Put(size)
  /\ UNCHANGED <<conn, ackVars, relayVars, runVars, beatVars, counts>>

\* Mutant of PumpStuck: the queue waits for the pong of a probe that may not exist.
PumpStuckUnprobed == FALSE

\* What was written last carries no probe, so nothing would open the window: one is added.
PumpStuck == Queued /\ sinceProbe > 0 /\ Unacked >= win

PumpEnds ==
  /\ pumping /\ ~(Queued /\ Unacked < win)
  /\ pumping' = FALSE
  /\ IF PumpStuck THEN PutPing(0, TRUE) ELSE UNCHANGED streamVars
  /\ UNCHANGED <<conn, queueVars, acked, hasAck, win, relayVars, runVars, beatVars, counts>>

\* put() returns false: the connection is being closed.
PumpFails ==
  /\ pumping /\ Queued /\ Unacked < win
  /\ pumping' = FALSE /\ conn' = "closing"
  /\ UNCHANGED <<streamVars, queueVars, acked, hasAck, win, relayVars, runVars, beatVars, counts>>

\* Mutant of Answered: any pong acknowledges all that was written.
AnsweredAll(ts) == DOMAIN probes

\* The probes at the front whose ts is not later than the pong's.
Answered(ts) == {i \in DOMAIN probes : \A j \in 1..i : probes[j].ts <= ts}
Adjusted == {w \in MinWindow..MaxWindow : 4 * w + 2 >= 3 * win}

\* onPong, and what onMessage does for the heartbeat.  After the first acknowledgement the
\* rate at which a busy queue was acknowledged adjusts the window.
OnPong ==
  /\ Idle /\ pongs # <<>>
  /\ pongs' = Tail(pongs)
  /\ IF Answered(Head(pongs)) = {}
     THEN UNCHANGED <<probes, ackVars>>
     ELSE \E n \in Answered(Head(pongs)) :
            /\ n + 1 \notin Answered(Head(pongs))
            /\ acked' = probes[n].upTo /\ hasAck' = TRUE
            /\ probes' = SubSeq(probes, n + 1, Len(probes))
            /\ win' \in IF probes[n].busy /\ hasAck THEN Adjusted \cup {win} ELSE {win}
            /\ pumping' = TRUE
  /\ pongTimer' = FALSE /\ graces' = 0
  /\ UNCHANGED <<conn, wire, written, sinceProbe, lastTs, queueVars, silent, arrived, runVars, counts>>

\* Mutant of Reset: the bytes acknowledged on one connection count for the next.
ResetKeepsAcked ==
  /\ lanes' = [r \in Reqs |-> <<>>] /\ served' = {}
  /\ probes' = <<>> /\ written' = 0 /\ sinceProbe' = 0
  /\ hasAck' = FALSE /\ win' = MinWindow
  /\ UNCHANGED acked

Reset ==
  /\ lanes' = [r \in Reqs |-> <<>>] /\ served' = {}
  /\ probes' = <<>> /\ written' = 0 /\ acked' = 0 /\ sinceProbe' = 0
  /\ hasAck' = FALSE /\ win' = MinWindow

\* A frame that does not queue: contacts, codes, a pong, a request of this machine.
SendDirect ==
  /\ Idle /\ direct < MaxDirect
  /\ \E n \in CtlSizes : Put(n)
  /\ direct' = direct + 1
  /\ UNCHANGED <<conn, queueVars, ackVars, relayVars, runVars, beatVars, chunks, conns>>

-----------------------------------------------------------------------------
(* The runs of the requests (InboundRouter). *)

OnReq(r) ==
  /\ Idle /\ ~silent /\ phase[r] = "new"
  /\ phase' = [phase EXCEPT ![r] = "handling"]
  /\ UNCHANGED <<conn, streamVars, queueVars, ackVars, relayVars, aborted, gone, beatVars, counts>>

\* A run continues: after an abort only to end.
Goes(r, s) == phase' = [phase EXCEPT ![r] = s]
GivenUp(r) == r \in aborted /\ Goes(r, "over") /\ Refused

\* The handler has an answer: a body that fits in the head, the head of a stream, or the
\* error frame of a handler that failed.  A head that is refused ends the run.
Answer(r) ==
  /\ ~pumping /\ phase[r] = "handling"
  /\ \/ GivenUp(r)
     \/ /\ r \notin aborted /\ conn = "open"
        /\ \/ \E n \in Sizes : Reply(r, n, TRUE) /\ Goes(r, "over")
           \/ r \in Streams /\ \E n \in Sizes : Reply(r, n, FALSE) /\ Goes(r, "streaming")
           \/ /\ \E n \in CtlSizes : Put(n)
              /\ Goes(r, "over") /\ UNCHANGED <<queueVars, ackVars>>
     \/ r \notin aborted /\ conn # "open" /\ Goes(r, "over") /\ Refused
  /\ UNCHANGED <<conn, relayVars, aborted, gone, beatVars, counts>>

\* pumpBody: a data frame, the end, or a stream that breaks: what waits of it need not be sent.
Emit(r) ==
  /\ ~pumping /\ phase[r] = "streaming"
  /\ \/ GivenUp(r) /\ UNCHANGED chunks
     \/ /\ r \notin aborted /\ chunks < MaxChunks
        /\ chunks' = chunks + 1
        /\ IF conn = "open" THEN \E n \in Sizes : Reply(r, n, FALSE) ELSE Refused
        /\ UNCHANGED phase
     \/ /\ r \notin aborted /\ Goes(r, "over")
        /\ IF conn = "open" THEN \E n \in Sizes : Reply(r, n, TRUE) ELSE Refused
        /\ UNCHANGED chunks
     \/ /\ r \notin aborted /\ Goes(r, "over")
        /\ IF conn = "open"
           THEN Drop(r) /\ (\E n \in CtlSizes : Put(n)) /\ UNCHANGED ackVars
           ELSE Refused
        /\ UNCHANGED chunks
  /\ UNCHANGED <<conn, relayVars, aborted, gone, beatVars, direct, conns>>

\* Mutant of OnCancel: a request whose run is over is not looked for in the queue.
OnCancelRunning(r) ==
  /\ Idle /\ phase[r] # "new" /\ r \notin gone
  /\ IF phase[r] \in Running
     THEN Drop(r) /\ aborted' = aborted \cup {r}
     ELSE UNCHANGED <<queueVars, aborted>>
  /\ gone' = gone \cup {r}
  /\ UNCHANGED <<conn, streamVars, ackVars, relayVars, phase, beatVars, counts>>

\* The asker or the relay cancels.  The answer may be in the queue with its run over.
OnCancel(r) ==
  /\ Idle /\ phase[r] # "new" /\ r \notin gone
  /\ Drop(r)
  /\ aborted' = IF phase[r] \in Running THEN aborted \cup {r} ELSE aborted
  /\ gone' = gone \cup {r}
  /\ UNCHANGED <<conn, streamVars, ackVars, relayVars, phase, beatVars, counts>>

-----------------------------------------------------------------------------
(* The connection. *)

\* The heartbeat.  Its interval is longer than the time-out of its pong, which is over by then.
Heartbeat ==
  /\ Idle /\ ~pongTimer
  /\ Len(probes) < MaxProbes /\ (silent \/ direct < MaxDirect)
  /\ PutPing(0, Queued)
  /\ pongTimer' = TRUE
  /\ direct' = IF silent THEN direct ELSE direct + 1
  /\ UNCHANGED <<conn, queueVars, ackVars, relayVars, runVars, graces, chunks, conns>>

\* Mutant of PongTimeout: an excuse is good for ever.
PongTimeoutExcused ==
  /\ Idle /\ pongTimer
  /\ pongTimer' = FALSE
  /\ \/ /\ graces' = IF graces < MaxGraces THEN graces + 1 ELSE graces
        /\ UNCHANGED conn
     \/ conn' = "closing" /\ UNCHANGED graces
  /\ UNCHANGED <<streamVars, queueVars, ackVars, relayVars, runVars, counts>>

\* No pong has come.  Frames that came in, or much that went out before the ping, are an
\* excuse (either may be so), but not for ever.
PongTimeout ==
  /\ Idle /\ pongTimer
  /\ pongTimer' = FALSE
  /\ \/ graces < MaxGraces /\ graces' = graces + 1 /\ UNCHANGED conn
     \/ conn' = "closing" /\ UNCHANGED graces
  /\ UNCHANGED <<streamVars, queueVars, ackVars, relayVars, runVars, counts>>

\* The relay takes the next frame, and answers a ping.
RelayTakes ==
  /\ conn = "open" /\ ~silent /\ wire # <<>>
  /\ wire' = Tail(wire)
  /\ arrived' = Head(wire).end
  /\ pongs' = IF Head(wire).ts = 0 THEN pongs ELSE Append(pongs, Head(wire).ts)
  /\ UNCHANGED <<conn, silent, written, sinceProbe, probes, lastTs, queueVars, ackVars, runVars, beatVars, counts>>

\* The connection is half open: nothing that is written arrives any more.
FallsSilent ==
  /\ conn = "open" /\ ~silent
  /\ silent' = TRUE
  /\ UNCHANGED <<conn, streamVars, queueVars, ackVars, pongs, arrived, runVars, beatVars, counts>>

Closes ==
  /\ Idle /\ conn' = "closing"
  /\ UNCHANGED <<streamVars, queueVars, ackVars, relayVars, runVars, beatVars, counts>>

\* onClose: nothing that waited is of use on another connection, and all runs are aborted.
OnClose ==
  /\ conn = "closing"
  /\ conn' = "none"
  /\ Reset
  /\ wire' = <<>> /\ pongs' = <<>> /\ arrived' = 0
  /\ aborted' = aborted \cup {r \in Reqs : phase[r] \in Running}
  /\ gone' = gone \cup {r \in Reqs : phase[r] # "new"}
  /\ pongTimer' = FALSE
  /\ UNCHANGED <<lastTs, pumping, silent, phase, graces, counts>>

\* open, and onWelcome: the heartbeat starts.
Reconnect ==
  /\ conn = "none" /\ conns < MaxConns
  /\ conn' = "open" /\ silent' = FALSE
  /\ pongTimer' = FALSE /\ graces' = 0
  /\ conns' = conns + 1
  /\ UNCHANGED <<streamVars, queueVars, ackVars, pongs, arrived, runVars, chunks, direct>>

-----------------------------------------------------------------------------
Init ==
  /\ conn = "none" /\ silent = FALSE /\ wire = <<>> /\ pongs = <<>> /\ arrived = 0
  /\ lanes = [r \in Reqs |-> <<>>] /\ served = {} /\ probes = <<>>
  /\ written = 0 /\ acked = 0 /\ sinceProbe = 0 /\ lastTs = 0 /\ hasAck = FALSE /\ win = MinWindow
  /\ pumping = FALSE
  /\ phase = [r \in Reqs |-> "new"] /\ aborted = {} /\ gone = {}
  /\ pongTimer = FALSE /\ graces = 0 /\ chunks = 0 /\ direct = 0 /\ conns = 0

Pump == (\E r \in Reqs : PumpFrame(r)) \/ PumpEnds \/ PumpFails

Next ==
  \/ Pump \/ OnPong \/ SendDirect
  \/ \E r \in Reqs : OnReq(r) \/ Answer(r) \/ Emit(r) \/ OnCancel(r)
  \/ Heartbeat \/ PongTimeout \/ RelayTakes \/ FallsSilent \/ Closes \/ OnClose \/ Reconnect

Spec == Init /\ [][Next]_vars

\* A call runs to its end; a relay that reads takes what is on its way and its pongs come in;
\* timers fire, and a connection that is being closed closes.
LiveSpec ==
  /\ Spec
  /\ WF_vars(Pump) /\ WF_vars(RelayTakes) /\ WF_vars(OnPong)
  /\ WF_vars(Heartbeat) /\ WF_vars(PongTimeout) /\ WF_vars(OnClose)

-----------------------------------------------------------------------------
Frame == [end : Nat, ts : Nat]
Probe == [ts : Nat, upTo : Nat, busy : BOOLEAN]

TypeOK ==
  /\ conn \in {"open", "closing", "none"}
  /\ silent \in BOOLEAN /\ pumping \in BOOLEAN /\ hasAck \in BOOLEAN /\ pongTimer \in BOOLEAN
  /\ wire \in Seq(Frame) /\ pongs \in Seq(Nat)
  /\ lanes \in [Reqs -> Seq(Item)] /\ served \subseteq Reqs /\ probes \in Seq(Probe)
  /\ arrived \in Nat /\ written \in Nat /\ acked \in Nat /\ sinceProbe \in Nat /\ lastTs \in Nat
  /\ acked <= written /\ win \in MinWindow..MaxWindow
  /\ phase \in [Reqs -> Phases]
  /\ aborted \subseteq gone /\ gone \subseteq Reqs
  /\ graces \in 0..MaxGraces /\ chunks \in 0..MaxChunks /\ direct \in 0..MaxDirect
  /\ conns \in 0..MaxConns

\* A frame of an answer is written only while the relay has all but a window of what was
\* written before: what delays a pong or the head of another answer is bounded, although the
\* client learns of what arrived only from the pongs.
WindowRespected ==
  [][pumping /\ written' # written /\ lanes' # lanes => written - arrived < win]_vars

\* A queue that waits has a probe out, and the ping or the pong of every probe is on its way:
\* whatever filled the window or shrank it, an acknowledgement will open it.
Coming(p) ==
  \/ \E i \in DOMAIN wire : wire[i].ts = p.ts
  \/ \E i \in DOMAIN pongs : pongs[i] = p.ts

ReopensByProbe ==
  Idle /\ Queued => probes # <<>> /\ \A i \in DOMAIN probes : Coming(probes[i])

\* Nothing is kept for an answer that nobody waits for: no frame, so that none is written
\* after a cancel or on the next connection, and no history.  (What a connection that is being
\* closed has left goes with it.)
AnswersAreWanted ==
  conn # "closing" => \A r \in Reqs : lanes[r] # <<>> \/ r \in served =>
    r \notin gone /\ (lanes[r] # <<>> \/ phase[r] = "streaming")

\* Every answer that is queued is written, or cancelled, or lost with its connection: the
\* window does not stay closed, and the queue does not wait for a relay that fell silent.
QueuedIsSent == \A r \in Reqs : (lanes[r] # <<>>) ~> (lanes[r] = <<>>)
=============================================================================
