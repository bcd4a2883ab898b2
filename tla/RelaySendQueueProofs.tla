------------------------ MODULE RelaySendQueueProofs ------------------------
(* Proofs of the safety properties of RelaySendQueue, for every set of     *)
(* requests and all sizes of frames and windows.                           *)
EXTENDS RelaySendQueue, TLAPS

-----------------------------------------------------------------------------
(* The stream and what is known of it. *)

\* What is acknowledged has arrived, and the frames on their way end after it, one after another.
WireAt(w, end, last) ==
  /\ acked <= arrived /\ arrived <= end
  /\ \A i \in DOMAIN w : arrived < w[i].end /\ w[i].end <= end /\ w[i].ts <= last
  /\ \A i, j \in DOMAIN w : i < j => w[i].end < w[j].end
  /\ \A k \in DOMAIN pongs : pongs[k] <= last

\* Probes are ordered, and sinceProbe counts from the last, or from what is acknowledged.
ProbesAt(p, end, since, last) ==
  /\ \A i \in DOMAIN p : p[i].upTo <= end /\ 0 < p[i].ts /\ p[i].ts <= last
  /\ \A i, j \in DOMAIN p : i < j => p[i].ts < p[j].ts
  /\ p = <<>> => acked + since = end
  /\ p # <<>> => p[Len(p)].upTo + since = end

\* A ping comes after all that the probes it answers cover, and its pong when that has arrived.
PingCoversAt(w, p) ==
  \A k \in DOMAIN w, i \in DOMAIN p : w[k].ts # 0 /\ p[i].ts <= w[k].ts => p[i].upTo <= w[k].end
PongCoversAt(p) ==
  \A k \in DOMAIN pongs, i \in DOMAIN p : p[i].ts <= pongs[k] => p[i].upTo <= arrived

ComingAt(w, p) ==
  \A i \in DOMAIN p : \/ \E k \in DOMAIN w : w[k].ts = p[i].ts
                      \/ \E k \in DOMAIN pongs : pongs[k] = p[i].ts

StreamAt(w, end, p, since, last) ==
  WireAt(w, end, last) /\ ProbesAt(p, end, since, last) /\ PingCoversAt(w, p) /\ PongCoversAt(p) /\ ComingAt(w, p)

ProbesOK == ProbesAt(probes, written, sinceProbe, lastTs)
StreamOK == StreamAt(wire, written, probes, sinceProbe, lastTs)

-----------------------------------------------------------------------------
(* Types. *)

LEMMA PutType ==
  ASSUME TypeOK, NEW n \in Nat, Put(n)
  PROVE  /\ wire' \in Seq(Frame) /\ probes' \in Seq(Probe)
         /\ written' \in Nat /\ sinceProbe' \in Nat /\ lastTs' \in Nat /\ acked <= written'
  BY DEF TypeOK, Put, Frame

LEMMA PutPingType ==
  ASSUME TypeOK, NEW n \in Nat, NEW b \in BOOLEAN, PutPing(n, b)
  PROVE  /\ wire' \in Seq(Frame) /\ probes' \in Seq(Probe)
         /\ written' \in Nat /\ sinceProbe' \in Nat /\ lastTs' \in Nat /\ acked <= written'
  <1> DEFINE before == IF n = 0 THEN wire ELSE Append(wire, [end |-> written + n, ts |-> 0])
  <1>0. [end |-> written + n, ts |-> 0] \in Frame  BY DEF TypeOK, Frame
  <1>1. before \in Seq(Frame)
    <2>1. wire \in Seq(Frame)  BY DEF TypeOK
    <2>2. Append(wire, [end |-> written + n, ts |-> 0]) \in Seq(Frame)  BY <1>0, <2>1
    <2>3. QED  BY <2>1, <2>2
  <1> HIDE DEF before
  <1>2. /\ wire' = Append(before, [end |-> written + n + PingSize, ts |-> lastTs + 1])
        /\ [end |-> written + n + PingSize, ts |-> lastTs + 1] \in Frame
    BY SizesAssumption DEF TypeOK, PutPing, before, Frame
  <1>3. wire' \in Seq(Frame)  BY <1>1, <1>2
  <1>4. probes' \in Seq(Probe)  BY SizesAssumption DEF TypeOK, PutPing, Probe
  <1>5. QED  BY <1>3, <1>4, SizesAssumption DEF TypeOK, PutPing

LEMMA InitType == Init => TypeOK
  <1> SUFFICES ASSUME Init PROVE TypeOK  OBVIOUS
  <1>1. lanes \in [Reqs -> Seq(Item)] /\ phase \in [Reqs -> Phases]  BY DEF Init, Phases
  <1>2. wire \in Seq(Frame) /\ pongs \in Seq(Nat) /\ probes \in Seq(Probe)
    BY DEF Init
  <1>3. win \in MinWindow..MaxWindow  BY WindowAssumption DEF Init
  <1>4. /\ graces \in 0..MaxGraces /\ chunks \in 0..MaxChunks /\ direct \in 0..MaxDirect
        /\ conns \in 0..MaxConns
    BY BoundsAssumption DEF Init
  <1>5. conn \in {"open", "closing", "none"} /\ acked <= written /\ aborted \subseteq gone
    BY DEF Init
  <1>6. QED  BY <1>1, <1>2, <1>3, <1>4, <1>5 DEF Init, TypeOK

LEMMA PumpFrameType == ASSUME TypeOK, NEW r \in Reqs, PumpFrame(r) PROVE TypeOK'
  <1> DEFINE size == Head(lanes[r]).size
  <1>a. lanes[r] \in Seq(Item) /\ lanes[r] # <<>>  BY DEF TypeOK, PumpFrame
  <1>b. Head(lanes[r]) \in Item /\ Tail(lanes[r]) \in Seq(Item)  BY <1>a
  <1>1. size \in Sizes /\ size \in Nat /\ Tail(lanes[r]) \in Seq(Item)
    BY <1>b, SizesAssumption DEF Item
  <1> DEFINE more == \E q \in Reqs : lanes'[q] # <<>>
  <1>2. more \in BOOLEAN  OBVIOUS
  <1> HIDE DEF size, more
  <1>3. Put(size) \/ PutPing(size, more)  BY DEF PumpFrame, size, more
  <1>4. /\ wire' \in Seq(Frame) /\ probes' \in Seq(Probe)
        /\ written' \in Nat /\ sinceProbe' \in Nat /\ lastTs' \in Nat /\ acked <= written'
    BY <1>1, <1>2, <1>3, PutType, PutPingType
  <1>5. lanes' \in [Reqs -> Seq(Item)] /\ served' \subseteq Reqs
    BY <1>1 DEF TypeOK, PumpFrame
  <1>6. UNCHANGED <<conn, ackVars, relayVars, runVars, beatVars, counts>>  BY DEF PumpFrame
  <1>7. QED  BY <1>4, <1>5, <1>6 DEF TypeOK, ackVars, relayVars, runVars, beatVars, counts

LEMMA PumpEndsType == ASSUME TypeOK, PumpEnds PROVE TypeOK'
  <1>1. CASE PumpStuck
    <2>1. PutPing(0, TRUE)  BY <1>1 DEF PumpEnds
    <2>2. QED
      BY <2>1, PutPingType DEF PumpEnds, TypeOK, queueVars, relayVars, runVars, beatVars, counts
  <1>2. CASE ~PumpStuck
    BY <1>2 DEF PumpEnds, TypeOK, streamVars, queueVars, relayVars, runVars, beatVars, counts
  <1>3. QED  BY <1>1, <1>2

LEMMA OnPongType == ASSUME TypeOK, ProbesOK, OnPong PROVE TypeOK'
  <1> DEFINE ts == Head(pongs)
  <1>1. CASE Answered(ts) = {}
    <2>1. UNCHANGED <<probes, ackVars>>  BY <1>1 DEF OnPong
    <2>2. pongs' \in Seq(Nat) /\ graces' \in 0..MaxGraces  BY BoundsAssumption DEF OnPong, TypeOK
    <2>3. QED  BY <2>1, <2>2 DEF OnPong, TypeOK, ackVars, queueVars, runVars, counts
  <1>2. CASE Answered(ts) # {}
    <2>1. PICK n \in Answered(ts) :
            /\ acked' = probes[n].upTo /\ hasAck' = TRUE
            /\ probes' = SubSeq(probes, n + 1, Len(probes))
            /\ win' \in IF probes[n].busy /\ hasAck THEN Adjusted \cup {win} ELSE {win}
            /\ pumping' = TRUE
      BY <1>2 DEF OnPong
    <2>2. n \in DOMAIN probes /\ n \in 1..Len(probes)  BY DEF Answered, TypeOK
    <2>a. probes \in Seq(Probe)  BY DEF TypeOK
    <2>b. probes[n] \in Probe  BY <2>2, <2>a
    <2>3. probes[n].upTo \in Nat /\ probes[n].upTo <= written  BY <2>2, <2>b DEF ProbesOK, ProbesAt, Probe
    <2>4. probes' \in Seq(Probe)  BY <2>1, <2>2 DEF TypeOK
    <2>5. win' \in MinWindow..MaxWindow  BY <2>1 DEF TypeOK, Adjusted
    <2>6. pongs' \in Seq(Nat) /\ graces' \in 0..MaxGraces  BY BoundsAssumption DEF OnPong, TypeOK
    <2>7. QED
      BY <2>1, <2>3, <2>4, <2>5, <2>6 DEF OnPong, TypeOK, queueVars, runVars, counts
  <1>3. QED  BY <1>1, <1>2

LEMMA ReplyType ==
  ASSUME TypeOK, NEW r \in Reqs, NEW n \in Sizes, NEW fin \in BOOLEAN, Reply(r, n, fin)
  PROVE  lanes' \in [Reqs -> Seq(Item)] /\ pumping' \in BOOLEAN
  <1>1. [size |-> n, fin |-> fin] \in Item  BY DEF Item
  <1>2. Append(lanes[r], [size |-> n, fin |-> fin]) \in Seq(Item)  BY <1>1 DEF TypeOK
  <1>3. QED  BY <1>2 DEF Reply, TypeOK

LEMMA DropType ==
  ASSUME TypeOK, NEW r \in Reqs, Drop(r)
  PROVE  lanes' \in [Reqs -> Seq(Item)] /\ served' \subseteq Reqs
  BY DEF TypeOK, Drop

LEMMA SendDirectType == ASSUME TypeOK, SendDirect PROVE TypeOK'
  <1>1. PICK n \in CtlSizes : Put(n)  BY DEF SendDirect
  <1>2. n \in Nat  BY SizesAssumption
  <1>3. direct' \in 0..MaxDirect  BY BoundsAssumption DEF SendDirect, TypeOK
  <1>4. QED
    BY <1>1, <1>2, <1>3, PutType DEF SendDirect, TypeOK, queueVars, ackVars, relayVars, runVars, beatVars

LEMMA AnswerType == ASSUME TypeOK, NEW r \in Reqs, Answer(r) PROVE TypeOK'
  <1>1. phase' \in [Reqs -> Phases]  BY DEF Answer, GivenUp, Goes, TypeOK, Phases
  <1>2. UNCHANGED <<conn, relayVars, aborted, gone, beatVars, counts>>  BY DEF Answer
  <1>3. CASE Refused
    BY <1>1, <1>2, <1>3
    DEF Refused, TypeOK, streamVars, queueVars, ackVars, relayVars, beatVars, counts
  <1>4. CASE \E n \in Sizes, fin \in BOOLEAN : Reply(r, n, fin)
    <2>1. PICK n \in Sizes, fin \in BOOLEAN : Reply(r, n, fin)  BY <1>4
    <2>2. lanes' \in [Reqs -> Seq(Item)] /\ pumping' \in BOOLEAN  BY <2>1, ReplyType
    <2>3. UNCHANGED <<streamVars, served, acked, hasAck, win>>  BY <2>1 DEF Reply
    <2>4. QED  BY <1>1, <1>2, <2>2, <2>3 DEF TypeOK, streamVars, relayVars, beatVars, counts
  <1>5. CASE (\E n \in CtlSizes : Put(n)) /\ UNCHANGED <<queueVars, ackVars>>
    <2>1. PICK n \in CtlSizes : Put(n)  BY <1>5
    <2>2. n \in Nat  BY SizesAssumption
    <2>3. QED
      BY <1>1, <1>2, <1>5, <2>1, <2>2, PutType DEF TypeOK, queueVars, ackVars, relayVars, beatVars, counts
  <1>6. QED  BY <1>3, <1>4, <1>5 DEF Answer, GivenUp

LEMMA EmitType == ASSUME TypeOK, NEW r \in Reqs, Emit(r) PROVE TypeOK'
  <1>1. phase' \in [Reqs -> Phases]  BY DEF Emit, GivenUp, Goes, TypeOK, Phases
  <1>2. UNCHANGED <<conn, relayVars, aborted, gone, beatVars, direct, conns>>  BY DEF Emit
  <1>3. chunks' \in 0..MaxChunks
    <2>1. CASE UNCHANGED chunks  BY <2>1 DEF TypeOK
    <2>2. CASE chunks < MaxChunks /\ chunks' = chunks + 1  BY <2>2, BoundsAssumption DEF TypeOK
    <2>3. QED  BY <2>1, <2>2 DEF Emit
  <1>4. CASE Refused
    BY <1>1, <1>2, <1>3, <1>4 DEF Refused, TypeOK, streamVars, queueVars, ackVars, relayVars, beatVars
  <1>5. CASE \E n \in Sizes, fin \in BOOLEAN : Reply(r, n, fin)
    <2>1. PICK n \in Sizes, fin \in BOOLEAN : Reply(r, n, fin)  BY <1>5
    <2>2. lanes' \in [Reqs -> Seq(Item)] /\ pumping' \in BOOLEAN  BY <2>1, ReplyType
    <2>3. UNCHANGED <<streamVars, served, acked, hasAck, win>>  BY <2>1 DEF Reply
    <2>4. QED  BY <1>1, <1>2, <1>3, <2>2, <2>3 DEF TypeOK, streamVars, relayVars, beatVars
  <1>6. CASE Drop(r) /\ (\E n \in CtlSizes : Put(n)) /\ UNCHANGED ackVars
    <2>1. PICK n \in CtlSizes : Put(n)  BY <1>6
    <2>2. n \in Nat  BY SizesAssumption
    <2>3. QED
      BY <1>1, <1>2, <1>3, <1>6, <2>1, <2>2, PutType, DropType DEF TypeOK, ackVars, relayVars, beatVars
  <1>7. QED  BY <1>4, <1>5, <1>6 DEF Emit, GivenUp

LEMMA RelayTakesType == ASSUME TypeOK, RelayTakes PROVE TypeOK'
  <1>1. wire \in Seq(Frame) /\ wire # <<>>  BY DEF TypeOK, RelayTakes
  <1>2. Head(wire) \in Frame /\ Tail(wire) \in Seq(Frame)  BY <1>1
  <1>3. pongs' \in Seq(Nat) /\ arrived' \in Nat  BY <1>2 DEF TypeOK, RelayTakes, Frame
  <1>4. QED
    BY <1>2, <1>3 DEF TypeOK, RelayTakes, queueVars, ackVars, runVars, beatVars, counts

LEMMA OnCloseType == ASSUME TypeOK, OnClose PROVE TypeOK'
  <1>1. lanes' \in [Reqs -> Seq(Item)] /\ served' \subseteq Reqs  BY DEF OnClose, Reset
  <1>2. wire' \in Seq(Frame) /\ pongs' \in Seq(Nat) /\ probes' \in Seq(Probe)
    BY DEF OnClose, Reset
  <1>3. win' \in MinWindow..MaxWindow /\ acked' <= written'  BY WindowAssumption DEF OnClose, Reset
  <1>4. aborted' \subseteq gone' /\ gone' \subseteq Reqs
    BY DEF OnClose, TypeOK, Running
  <1>5. QED  BY <1>1, <1>2, <1>3, <1>4 DEF OnClose, Reset, TypeOK, counts

LEMMA TypeStep == ASSUME TypeOK, ProbesOK, [Next]_vars PROVE TypeOK'
  <1>1. ASSUME NEW r \in Reqs, PumpFrame(r) PROVE TypeOK'  BY <1>1, PumpFrameType
  <1>2. CASE PumpEnds  BY <1>2, PumpEndsType
  <1>3. CASE PumpFails
    BY <1>3 DEF PumpFails, TypeOK, streamVars, queueVars, relayVars, runVars, beatVars, counts
  <1>4. CASE OnPong  BY <1>4, OnPongType
  <1>5. CASE SendDirect  BY <1>5, SendDirectType
  <1>6. ASSUME NEW r \in Reqs, OnReq(r) PROVE TypeOK'
    <2>1. phase' \in [Reqs -> Phases]  BY <1>6 DEF OnReq, TypeOK, Phases
    <2>2. QED
      BY <1>6, <2>1 DEF OnReq, TypeOK, streamVars, queueVars, ackVars, relayVars, beatVars, counts
  <1>7. ASSUME NEW r \in Reqs, Answer(r) PROVE TypeOK'  BY <1>7, AnswerType
  <1>8. ASSUME NEW r \in Reqs, Emit(r) PROVE TypeOK'  BY <1>8, EmitType
  <1>9. ASSUME NEW r \in Reqs, OnCancel(r) PROVE TypeOK'
    <2>1. aborted' \subseteq gone' /\ gone' \subseteq Reqs  BY <1>9 DEF OnCancel, TypeOK
    <2>2. lanes' \in [Reqs -> Seq(Item)] /\ served' \subseteq Reqs  BY <1>9, DropType DEF OnCancel
    <2>3. QED
      BY <1>9, <2>1, <2>2 DEF OnCancel, TypeOK, streamVars, ackVars, relayVars, beatVars, counts
  <1>10. CASE Heartbeat
    <2>1. PutPing(0, Queued) /\ Queued \in BOOLEAN  BY <1>10 DEF Heartbeat, Queued
    <2>2. direct' \in 0..MaxDirect  BY <1>10, BoundsAssumption DEF Heartbeat, TypeOK
    <2>3. QED
      BY <1>10, <2>1, <2>2, PutPingType
      DEF Heartbeat, TypeOK, queueVars, ackVars, relayVars, runVars
  <1>11. CASE PongTimeout
    <2>1. graces' \in 0..MaxGraces  BY <1>11, BoundsAssumption DEF PongTimeout, TypeOK
    <2>2. QED
      BY <1>11, <2>1 DEF PongTimeout, TypeOK, streamVars, queueVars, ackVars, relayVars, runVars, counts
  <1>12. CASE RelayTakes  BY <1>12, RelayTakesType
  <1>13. CASE FallsSilent
    BY <1>13 DEF FallsSilent, TypeOK, streamVars, queueVars, ackVars, runVars, beatVars, counts
  <1>14. CASE Closes
    BY <1>14 DEF Closes, TypeOK, streamVars, queueVars, ackVars, relayVars, runVars, beatVars, counts
  <1>15. CASE OnClose  BY <1>15, OnCloseType
  <1>16. CASE Reconnect
    <2>1. conns' \in 0..MaxConns /\ graces' \in 0..MaxGraces
      BY <1>16, BoundsAssumption DEF Reconnect, TypeOK
    <2>2. QED  BY <1>16, <2>1 DEF Reconnect, TypeOK, streamVars, queueVars, ackVars, runVars
  <1>17. CASE UNCHANGED vars
    BY <1>17 DEF vars, TypeOK, streamVars, queueVars, ackVars, relayVars, runVars, beatVars, counts
  <1>18. QED
    BY <1>1, <1>2, <1>3, <1>4, <1>5, <1>6, <1>7, <1>8, <1>9, <1>10, <1>11, <1>12, <1>13, <1>14, <1>15,
       <1>16, <1>17 DEF Next, Pump

-----------------------------------------------------------------------------
(* The stream. *)

LEMMA AppendFacts ==
  ASSUME NEW S, NEW s \in Seq(S), NEW e \in S
  PROVE  LET t == Append(s, e) IN
         /\ Len(s) \in Nat /\ Len(t) = Len(s) + 1 /\ t # <<>> /\ t[Len(s) + 1] = e
         /\ Len(s) + 1 \in DOMAIN t
         /\ \A i \in DOMAIN s : i \in DOMAIN t /\ t[i] = s[i] /\ s[i] \in S /\ i \in Nat /\ i <= Len(s)
         /\ \A i \in DOMAIN t : i \in DOMAIN s \/ i = Len(s) + 1
  OBVIOUS

\* A frame that is no ping leaves the probes as they are.
LEMMA FrameAdded ==
  ASSUME TypeOK, NEW w \in Seq(Frame), NEW end \in Nat, NEW p \in Seq(Probe), NEW since \in Nat,
         NEW last \in Nat, StreamAt(w, end, p, since, last), NEW n \in Nat \ {0},
         NEW v, v = Append(w, [end |-> end + n, ts |-> 0])
  PROVE  StreamAt(v, end + n, p, since + n, last)
  <1> DEFINE frame == [end |-> end + n, ts |-> 0]
  <1>1. arrived \in Nat /\ acked \in Nat  BY DEF TypeOK
  <1>2. frame \in Frame /\ frame.end = end + n /\ frame.ts = 0  BY DEF Frame
  <1>3. v = Append(w, frame)  OBVIOUS
  <1> HIDE DEF frame
  <1>4. /\ Len(w) \in Nat /\ v[Len(w) + 1] = frame /\ Len(w) + 1 \in DOMAIN v
        /\ \A i \in DOMAIN w : /\ i \in DOMAIN v /\ v[i] = w[i] /\ w[i] \in Frame
                               /\ i \in Nat /\ i <= Len(w)
        /\ \A i \in DOMAIN v : i \in DOMAIN w \/ i = Len(w) + 1
    BY <1>1, <1>2, <1>3, AppendFacts
  <1>a. \A i \in DOMAIN w : /\ w[i].end \in Nat /\ w[i].ts \in Nat /\ arrived < w[i].end
                            /\ w[i].end <= end /\ w[i].ts <= last
    BY <1>4 DEF StreamAt, WireAt, Frame
  <1>b. \A i, j \in DOMAIN w : i < j => w[i].end < w[j].end  BY DEF StreamAt, WireAt
  <1>5. WireAt(v, end + n, last)
    <2>1. ASSUME NEW i \in DOMAIN v
          PROVE  arrived < v[i].end /\ v[i].end <= (end + n) /\ v[i].ts <= last
      <3>1. CASE i \in DOMAIN w  BY <1>1, <1>3, <1>4, <1>a, <3>1
      <3>2. CASE i = Len(w) + 1
        <4>1. arrived <= end  BY DEF StreamAt, WireAt
        <4>2. QED  BY <1>1, <1>2, <1>3, <1>4, <3>2, <4>1
      <3>3. QED  BY <1>4, <3>1, <3>2
    <2>2. ASSUME NEW i \in DOMAIN v, NEW j \in DOMAIN v, i < j PROVE v[i].end < v[j].end
      <3>1. CASE j \in DOMAIN w  BY <1>1, <1>4, <1>b, <2>2, <3>1
      <3>2. CASE j = Len(w) + 1  BY <1>1, <1>2, <1>4, <1>a, <2>2, <3>2
      <3>3. QED  BY <1>4, <3>1, <3>2
    <2>3. acked <= arrived /\ arrived <= (end + n) /\ \A k \in DOMAIN pongs : pongs[k] <= last
      BY <1>1, <1>3 DEF StreamAt, WireAt
    <2>4. QED  BY <1>3, <2>1, <2>2, <2>3 DEF WireAt
  <1>6. ProbesAt(p, end + n, since + n, last)
    <2>a. \A i \in DOMAIN p : p[i] \in Probe  BY <1>1
    <2>1. \A i \in DOMAIN p : p[i].upTo \in Nat  BY <2>a DEF Probe
    <2>2. \A i \in DOMAIN p : p[i].upTo <= end + n /\ 0 < p[i].ts /\ p[i].ts <= last
      BY <1>1, <1>3, <2>1 DEF StreamAt, ProbesAt
    <2>3. p = <<>> => acked + (since + n) = (end + n)  BY <1>1, <1>3 DEF StreamAt, ProbesAt
    <2>4. p # <<>> => p[Len(p)].upTo + (since + n) = (end + n)
      <3>1. p # <<>> => Len(p) \in DOMAIN p  BY <1>1
      <3>2. p # <<>> => p[Len(p)].upTo + since = end  BY DEF StreamAt, ProbesAt
      <3>3. ASSUME p # <<>> PROVE p[Len(p)].upTo + (since + n) = end + n
        <4> DEFINE x == p[Len(p)].upTo
        <4>1. x \in Nat /\ x + since = end  BY <2>1, <3>1, <3>2, <3>3
        <4> HIDE DEF x
        <4>2. x + (since + n) = end + n  BY <4>1
        <4>3. QED  BY <4>2 DEF x
      <3>4. QED  BY <3>3
    <2>5. \A i, j \in DOMAIN p : i < j => p[i].ts < p[j].ts  BY DEF StreamAt, ProbesAt
    <2>6. QED  BY <1>3, <2>2, <2>3, <2>4, <2>5 DEF ProbesAt
  <1>7. PingCoversAt(v, p)  BY <1>2, <1>3, <1>4 DEF StreamAt, PingCoversAt
  <1>8. PongCoversAt(p)  BY <1>3 DEF StreamAt, PongCoversAt
  <1>9. ComingAt(v, p)
    <2>1. \A i \in DOMAIN p : \/ \E k \in DOMAIN v : v[k].ts = p[i].ts
                              \/ \E k \in DOMAIN pongs : pongs[k] = p[i].ts
      BY <1>4 DEF StreamAt, ComingAt
    <2>2. QED  BY <1>3, <2>1 DEF ComingAt
  <1>10. QED  BY <1>5, <1>6, <1>7, <1>8, <1>9 DEF StreamAt

\* A ping becomes the last probe, which it covers.
LEMMA PingAdded ==
  ASSUME TypeOK, NEW w \in Seq(Frame), NEW end \in Nat, NEW p \in Seq(Probe), NEW since \in Nat,
         NEW last \in Nat, StreamAt(w, end, p, since, last), NEW b \in BOOLEAN,
         NEW v, v = Append(w, [end |-> end + PingSize, ts |-> last + 1]),
         NEW q, q = Append(p, [ts |-> last + 1, upTo |-> end + PingSize, busy |-> b])
  PROVE  StreamAt(v, end + PingSize, q, 0, last + 1)
  <1> DEFINE frame == [end |-> end + PingSize, ts |-> last + 1]
             probe == [ts |-> last + 1, upTo |-> end + PingSize, busy |-> b]
  <1>1. /\ arrived \in Nat /\ acked \in Nat /\ PingSize \in Nat /\ PingSize > 0
        /\ pongs \in Seq(Nat)
    BY SizesAssumption DEF TypeOK
  <1>2. /\ frame \in Frame /\ frame.end = end + PingSize /\ frame.ts = last + 1
        /\ probe \in Probe /\ probe.upTo = end + PingSize /\ probe.ts = last + 1
    BY <1>1 DEF Frame, Probe
  <1>3. v = Append(w, frame) /\ q = Append(p, probe)  OBVIOUS
  <1> HIDE DEF frame, probe
  <1>4. /\ Len(w) \in Nat /\ v[Len(w) + 1] = frame /\ Len(w) + 1 \in DOMAIN v
        /\ \A i \in DOMAIN w : /\ i \in DOMAIN v /\ v[i] = w[i] /\ w[i] \in Frame
                               /\ i \in Nat /\ i <= Len(w)
        /\ \A i \in DOMAIN v : i \in DOMAIN w \/ i = Len(w) + 1
    BY <1>1, <1>2, <1>3, AppendFacts
  <1>5. /\ Len(p) \in Nat /\ q[Len(p) + 1] = probe /\ q # <<>>
        /\ Len(q) = Len(p) + 1
        /\ \A i \in DOMAIN p : /\ i \in DOMAIN q /\ q[i] = p[i] /\ p[i] \in Probe
                               /\ i \in Nat /\ i <= Len(p)
        /\ \A i \in DOMAIN q : i \in DOMAIN p \/ i = Len(p) + 1
    <2>1. p \in Seq(Probe) /\ probe \in Probe  BY <1>2
    <2>2. QED  BY <2>1, <1>3, AppendFacts
  <1>a. \A i \in DOMAIN w : /\ w[i].end \in Nat /\ w[i].ts \in Nat /\ arrived < w[i].end
                            /\ w[i].end <= end /\ w[i].ts <= last
    BY <1>4 DEF StreamAt, WireAt, Frame
  <1>b. \A i, j \in DOMAIN w : i < j => w[i].end < w[j].end  BY DEF StreamAt, WireAt
  <1>c. \A i \in DOMAIN p : /\ p[i].upTo \in Nat /\ p[i].ts \in Nat /\ p[i].upTo <= end
                            /\ 0 < p[i].ts /\ p[i].ts <= last
    BY <1>5 DEF StreamAt, ProbesAt, Probe
  <1>d. \A i, j \in DOMAIN p : i < j => p[i].ts < p[j].ts  BY DEF StreamAt, ProbesAt
  <1>e. acked <= arrived /\ arrived <= end /\ \A k \in DOMAIN pongs : pongs[k] <= last /\ pongs[k] \in Nat
    BY <1>1 DEF StreamAt, WireAt
  <1>6. WireAt(v, end + PingSize, last + 1)
    <2>1. ASSUME NEW i \in DOMAIN v
          PROVE  arrived < v[i].end /\ v[i].end <= (end + PingSize) /\ v[i].ts <= (last + 1)
      <3>1. CASE i \in DOMAIN w  BY <1>1, <1>3, <1>4, <1>a, <3>1
      <3>2. CASE i = Len(w) + 1  BY <1>1, <1>2, <1>3, <1>4, <1>e, <3>2
      <3>3. QED  BY <1>4, <3>1, <3>2
    <2>2. ASSUME NEW i \in DOMAIN v, NEW j \in DOMAIN v, i < j PROVE v[i].end < v[j].end
      <3>1. CASE j \in DOMAIN w  BY <1>1, <1>4, <1>b, <2>2, <3>1
      <3>2. CASE j = Len(w) + 1  BY <1>1, <1>2, <1>4, <1>a, <2>2, <3>2
      <3>3. QED  BY <1>4, <3>1, <3>2
    <2>3. acked <= arrived /\ arrived <= (end + PingSize) /\ \A k \in DOMAIN pongs : pongs[k] <= (last + 1)
      BY <1>1, <1>3, <1>e
    <2>4. QED  BY <1>3, <2>1, <2>2, <2>3 DEF WireAt
  <1>7. ProbesAt(q, end + PingSize, 0, last + 1)
    <2>1. ASSUME NEW i \in DOMAIN q
          PROVE  q[i].upTo <= (end + PingSize) /\ 0 < q[i].ts /\ q[i].ts <= (last + 1)
      <3>1. CASE i \in DOMAIN p  BY <1>1, <1>3, <1>5, <1>c, <3>1
      <3>2. CASE i = Len(p) + 1  BY <1>1, <1>2, <1>3, <1>5, <3>2
      <3>3. QED  BY <1>5, <3>1, <3>2
    <2>2. ASSUME NEW i \in DOMAIN q, NEW j \in DOMAIN q, i < j PROVE q[i].ts < q[j].ts
      <3>1. CASE j \in DOMAIN p  BY <1>1, <1>5, <1>d, <2>2, <3>1
      <3>2. CASE j = Len(p) + 1
        <4>1. i \in DOMAIN p  BY <1>5, <2>2, <3>2
        <4>2. QED  BY <1>1, <1>2, <1>5, <1>c, <3>2, <4>1
      <3>3. QED  BY <1>5, <3>1, <3>2
    <2>3. q[Len(q)].upTo + 0 = (end + PingSize)  BY <1>1, <1>2, <1>3, <1>5
    <2>4. QED  BY <1>5, <2>1, <2>2, <2>3 DEF ProbesAt
  <1>8. PingCoversAt(v, q)
    <2> SUFFICES ASSUME NEW k \in DOMAIN v, NEW i \in DOMAIN q,
                        v[k].ts # 0, q[i].ts <= v[k].ts
                 PROVE  q[i].upTo <= v[k].end
      BY DEF PingCoversAt
    <2>1. CASE k \in DOMAIN w /\ i \in DOMAIN p
      BY <1>4, <1>5, <2>1 DEF StreamAt, PingCoversAt
    <2>2. CASE k \in DOMAIN w /\ i = Len(p) + 1  BY <1>1, <1>2, <1>4, <1>5, <1>a, <2>2
    <2>3. CASE k = Len(w) + 1 /\ i \in DOMAIN p  BY <1>1, <1>2, <1>4, <1>5, <1>c, <2>3
    <2>4. CASE k = Len(w) + 1 /\ i = Len(p) + 1  BY <1>1, <1>2, <1>4, <1>5, <2>4
    <2>5. QED  BY <1>4, <1>5, <2>1, <2>2, <2>3, <2>4
  <1>9. PongCoversAt(q)
    <2> SUFFICES ASSUME NEW k \in DOMAIN pongs, NEW i \in DOMAIN q, q[i].ts <= pongs[k]
                 PROVE  q[i].upTo <= arrived
      BY <1>3 DEF PongCoversAt
    <2>1. CASE i \in DOMAIN p  BY <1>5, <2>1 DEF StreamAt, PongCoversAt
    <2>2. CASE i = Len(p) + 1  BY <1>1, <1>2, <1>5, <1>e, <2>2
    <2>3. QED  BY <1>5, <2>1, <2>2
  <1>10. ComingAt(v, q)
    <2> SUFFICES ASSUME NEW i \in DOMAIN q
                 PROVE  \/ \E k \in DOMAIN v : v[k].ts = q[i].ts
                        \/ \E k \in DOMAIN pongs : pongs[k] = q[i].ts
      BY DEF ComingAt
    <2>1. CASE i \in DOMAIN p
      <3>1. (\E k \in DOMAIN w : w[k].ts = p[i].ts) \/ (\E k \in DOMAIN pongs : pongs[k] = p[i].ts)
        BY <2>1 DEF StreamAt, ComingAt
      <3>2. QED  BY <1>3, <1>4, <1>5, <2>1, <3>1
    <2>2. CASE i = Len(p) + 1  BY <1>2, <1>4, <1>5, <2>2
    <2>3. QED  BY <1>5, <2>1, <2>2
  <1>11. QED  BY <1>6, <1>7, <1>8, <1>9, <1>10 DEF StreamAt

LEMMA PutStream ==
  ASSUME TypeOK, StreamOK, NEW n \in Nat \ {0}, Put(n), UNCHANGED <<acked, arrived, pongs>>
  PROVE  StreamOK'
  <1>1. wire \in Seq(Frame) /\ written \in Nat /\ probes \in Seq(Probe) /\ sinceProbe \in Nat /\ lastTs \in Nat
    BY DEF TypeOK
  <1>2. StreamAt(wire', written + n, probes, sinceProbe + n, lastTs)
    BY <1>1, FrameAdded DEF StreamOK, Put
  <1>3. QED
    BY <1>2 DEF Put, StreamOK, StreamAt, WireAt, ProbesAt, PingCoversAt, PongCoversAt, ComingAt

LEMMA PutPingStream ==
  ASSUME TypeOK, StreamOK, NEW n \in Nat, NEW b \in BOOLEAN, PutPing(n, b),
         UNCHANGED <<acked, arrived, pongs>>
  PROVE  StreamOK'
  <1> DEFINE w == IF n = 0 THEN wire ELSE Append(wire, [end |-> written + n, ts |-> 0])
  <1>1. wire \in Seq(Frame) /\ written \in Nat /\ probes \in Seq(Probe) /\ sinceProbe \in Nat /\ lastTs \in Nat
    BY DEF TypeOK
  <1>2. w \in Seq(Frame) /\ StreamAt(w, written + n, probes, sinceProbe + n, lastTs)
    <2>1. CASE n = 0
      <3>1. w = wire /\ written + n = written /\ sinceProbe + n = sinceProbe  BY <1>1, <2>1
      <3>2. QED  BY <1>1, <3>1 DEF StreamOK
    <2>2. CASE n # 0
      <3>1. w = Append(wire, [end |-> written + n, ts |-> 0])  BY <2>2
      <3>2. [end |-> written + n, ts |-> 0] \in Frame  BY <1>1 DEF Frame
      <3>3. w \in Seq(Frame)  BY <1>1, <3>1, <3>2
      <3> HIDE DEF w
      <3>4. QED  BY <1>1, <2>2, <3>1, <3>3, FrameAdded DEF StreamOK
    <2>3. QED  BY <2>1, <2>2
  <1>3. /\ wire' = Append(w, [end |-> (written + n) + PingSize, ts |-> lastTs + 1])
        /\ probes' = Append(probes, [ts |-> lastTs + 1, upTo |-> (written + n) + PingSize, busy |-> b])
        /\ written' = (written + n) + PingSize /\ sinceProbe' = 0 /\ lastTs' = lastTs + 1
    BY DEF PutPing
  <1> HIDE DEF w
  <1>4. written + n \in Nat /\ sinceProbe + n \in Nat  BY <1>1
  <1>5. StreamAt(wire', (written + n) + PingSize, probes', 0, lastTs + 1)
    BY <1>1, <1>2, <1>3, <1>4, PingAdded
  <1>6. QED
    BY <1>3, <1>5 DEF StreamOK, StreamAt, WireAt, ProbesAt, PingCoversAt, PongCoversAt, ComingAt

LEMMA TailFacts ==
  ASSUME NEW S, NEW s \in Seq(S), s # <<>>
  PROVE  LET t == Tail(s) IN
         /\ 1 \in DOMAIN s /\ Head(s) = s[1] /\ s[1] \in S /\ Len(s) \in Nat
         /\ \A i \in DOMAIN t : /\ i + 1 \in DOMAIN s /\ t[i] = s[i + 1] /\ t[i] \in S
                                /\ i \in Nat /\ i > 0
         /\ \A i \in DOMAIN s : i = 1 \/ (i - 1 \in DOMAIN t /\ t[i - 1] = s[i])
  OBVIOUS

\* The relay takes a frame: if it is a ping, what the probes before it cover has arrived.
LEMMA RelayTakesStream == ASSUME TypeOK, StreamOK, RelayTakes PROVE StreamOK'
  <1> DEFINE f == wire[1]
  <1>1. /\ wire \in Seq(Frame) /\ wire # <<>> /\ pongs \in Seq(Nat) /\ probes \in Seq(Probe)
        /\ arrived \in Nat /\ acked \in Nat /\ written \in Nat /\ lastTs \in Nat
    BY DEF TypeOK, RelayTakes
  <1>2. /\ 1 \in DOMAIN wire /\ f \in Frame /\ Head(wire) = f
        /\ \A i \in DOMAIN wire' : /\ i + 1 \in DOMAIN wire /\ wire'[i] = wire[i + 1] /\ wire'[i] \in Frame
                                   /\ i \in Nat /\ i > 0
        /\ \A i \in DOMAIN wire : i = 1 \/ (i - 1 \in DOMAIN wire' /\ wire'[i - 1] = wire[i])
    BY <1>1, TailFacts DEF RelayTakes
  <1>3. f.end \in Nat /\ f.ts \in Nat  BY <1>2 DEF Frame
  <1>4. /\ arrived' = f.end /\ pongs' = IF f.ts = 0 THEN pongs ELSE Append(pongs, f.ts)
        /\ UNCHANGED <<written, sinceProbe, probes, lastTs, acked>>
    BY <1>2 DEF RelayTakes, ackVars
  <1>5. arrived < f.end /\ f.end <= written /\ f.ts <= lastTs /\ acked <= arrived
    BY <1>2 DEF StreamOK, StreamAt, WireAt
  <1>6. /\ \A k \in DOMAIN pongs' : \/ k \in DOMAIN pongs /\ pongs'[k] = pongs[k]
                                    \/ f.ts # 0 /\ pongs'[k] = f.ts
        /\ \A k \in DOMAIN pongs : k \in DOMAIN pongs' /\ pongs'[k] = pongs[k]
        /\ f.ts # 0 => \E k \in DOMAIN pongs' : pongs'[k] = f.ts
    <2> DEFINE t == f.ts
    <2>a. t \in Nat /\ pongs' = IF t = 0 THEN pongs ELSE Append(pongs, t)  BY <1>3, <1>4
    <2> HIDE DEF f, t
    <2>1. CASE t = 0
      <3>1. pongs' = pongs  BY <2>a, <2>1
      <3>2. QED  BY <2>1, <3>1 DEF t
    <2>2. CASE t # 0
      <3>1. pongs' = Append(pongs, t)  BY <2>a, <2>2
      <3>2. /\ \A k \in DOMAIN pongs' : k \in DOMAIN pongs \/ k = Len(pongs) + 1
            /\ \A k \in DOMAIN pongs : k \in DOMAIN pongs' /\ pongs'[k] = pongs[k]
            /\ Len(pongs) + 1 \in DOMAIN pongs' /\ pongs'[Len(pongs) + 1] = t
        BY <1>1, <2>a, <3>1, AppendFacts
      <3>3. QED  BY <2>2, <3>2 DEF t
    <2>3. QED  BY <2>1, <2>2 DEF t
  <1> HIDE DEF f
  <1>7. WireAt(wire, written, lastTs)'
    <2>1. ASSUME NEW i \in DOMAIN wire'
          PROVE  arrived' < wire'[i].end /\ wire'[i].end <= written /\ wire'[i].ts <= lastTs
      <3>1. i + 1 \in DOMAIN wire /\ wire'[i] = wire[i + 1] /\ 1 < i + 1  BY <1>2
      <3>2. QED  BY <1>2, <1>4, <3>1 DEF StreamOK, StreamAt, WireAt, f
    <2>2. ASSUME NEW i \in DOMAIN wire', NEW j \in DOMAIN wire', i < j PROVE wire'[i].end < wire'[j].end
      <3>1. i + 1 \in DOMAIN wire /\ j + 1 \in DOMAIN wire /\ i + 1 < j + 1  BY <1>2, <2>2
      <3>2. QED  BY <1>2, <3>1 DEF StreamOK, StreamAt, WireAt
    <2>3. \A k \in DOMAIN pongs' : pongs'[k] <= lastTs  BY <1>5, <1>6 DEF StreamOK, StreamAt, WireAt
    <2>4. QED  BY <1>1, <1>3, <1>4, <1>5, <2>1, <2>2, <2>3 DEF WireAt
  <1>8. ProbesAt(probes, written, sinceProbe, lastTs)'  BY <1>4 DEF StreamOK, StreamAt, ProbesAt
  <1>9. PingCoversAt(wire, probes)'  BY <1>2, <1>4 DEF StreamOK, StreamAt, PingCoversAt
  <1>10. PongCoversAt(probes)'
    <2>1. \A i \in DOMAIN probes : probes[i] \in Probe  BY <1>1
    <2>2. \A i \in DOMAIN probes : probes[i].upTo \in Nat /\ probes[i].ts \in Nat  BY <2>1 DEF Probe
    <2> SUFFICES ASSUME NEW k \in DOMAIN pongs', NEW i \in DOMAIN probes, probes[i].ts <= pongs'[k]
                 PROVE  probes[i].upTo <= f.end
      BY <1>4 DEF PongCoversAt
    <2>3. CASE k \in DOMAIN pongs /\ pongs'[k] = pongs[k]
      <3>1. probes[i].upTo <= arrived  BY <2>3 DEF StreamOK, StreamAt, PongCoversAt
      <3>2. QED  BY <1>1, <1>3, <1>5, <2>2, <3>1
    <2>4. CASE f.ts # 0 /\ pongs'[k] = f.ts  BY <1>2, <2>4 DEF StreamOK, StreamAt, PingCoversAt, f
    <2>5. QED  BY <1>6, <2>3, <2>4
  <1>11. ComingAt(wire, probes)'
    <2> SUFFICES ASSUME NEW i \in DOMAIN probes
                 PROVE  \/ \E k \in DOMAIN wire' : wire'[k].ts = probes[i].ts
                        \/ \E k \in DOMAIN pongs' : pongs'[k] = probes[i].ts
      BY <1>4 DEF ComingAt
    <2>1. CASE \E k \in DOMAIN pongs : pongs[k] = probes[i].ts  BY <1>6, <2>1
    <2>2. CASE \E k \in DOMAIN wire : wire[k].ts = probes[i].ts
      <3>1. PICK k \in DOMAIN wire : wire[k].ts = probes[i].ts  BY <2>2
      <3>2. CASE k = 1
        <4>1. 0 < probes[i].ts  BY DEF StreamOK, StreamAt, ProbesAt
        <4>2. QED  BY <1>6, <3>1, <3>2, <4>1 DEF f
      <3>3. CASE k # 1  BY <1>2, <3>1, <3>3
      <3>4. QED  BY <3>2, <3>3
    <2>3. QED  BY <2>1, <2>2 DEF StreamOK, StreamAt, ComingAt
  <1>12. QED  BY <1>7, <1>8, <1>9, <1>10, <1>11 DEF StreamOK, StreamAt

\* A pong acknowledges the probes that are not later, all of which have arrived.
LEMMA OnPongStream == ASSUME TypeOK, StreamOK, OnPong PROVE StreamOK'
  <1> DEFINE ts == pongs[1]
  <1>1. /\ wire \in Seq(Frame) /\ pongs \in Seq(Nat) /\ pongs # <<>> /\ probes \in Seq(Probe)
        /\ arrived \in Nat /\ acked \in Nat /\ written \in Nat /\ lastTs \in Nat /\ sinceProbe \in Nat
    BY DEF TypeOK, OnPong
  <1>2. /\ 1 \in DOMAIN pongs /\ ts \in Nat /\ Head(pongs) = ts
        /\ \A k \in DOMAIN pongs' : k + 1 \in DOMAIN pongs /\ pongs'[k] = pongs[k + 1]
        /\ \A k \in DOMAIN pongs : k = 1 \/ (k - 1 \in DOMAIN pongs' /\ pongs'[k - 1] = pongs[k])
    BY <1>1, TailFacts DEF OnPong
  <1> HIDE DEF ts
  <1>3. UNCHANGED <<wire, written, sinceProbe, lastTs, arrived>>  BY DEF OnPong
  <1>4. \A i \in DOMAIN probes : probes[i] \in Probe  BY <1>1
  <1>5. \A i \in DOMAIN probes : probes[i].upTo \in Nat /\ probes[i].ts \in Nat  BY <1>4 DEF Probe
  <1>6. CASE Answered(ts) = {}
    <2>1. UNCHANGED <<probes, acked>>  BY <1>2, <1>6 DEF OnPong, ackVars
    <2>2. \A i \in DOMAIN probes : probes[i].ts # ts
      <3> SUFFICES ASSUME NEW i \in DOMAIN probes, probes[i].ts = ts PROVE FALSE  OBVIOUS
      <3>1. 1 \in DOMAIN probes /\ i \in Nat /\ 1 <= i  BY <1>1
      <3>2. probes[1].ts <= ts
        <4>1. CASE i = 1  BY <1>2, <4>1
        <4>2. CASE 1 < i
          <5>1. probes[1].ts < probes[i].ts  BY <3>1, <4>2 DEF StreamOK, StreamAt, ProbesAt
          <5>2. QED  BY <1>2, <1>5, <3>1, <5>1
        <4>3. QED  BY <3>1, <4>1, <4>2
      <3>3. 1 \in Answered(ts)  BY <3>1, <3>2 DEF Answered
      <3>4. QED  BY <1>6, <3>3
    <2>3. WireAt(wire, written, lastTs)'  BY <1>2, <1>3, <2>1 DEF StreamOK, StreamAt, WireAt
    <2>4. ProbesAt(probes, written, sinceProbe, lastTs)'
      BY <1>3, <2>1 DEF StreamOK, StreamAt, ProbesAt
    <2>5. PingCoversAt(wire, probes)'  BY <1>3, <2>1 DEF StreamOK, StreamAt, PingCoversAt
    <2>6. PongCoversAt(probes)'  BY <1>2, <1>3, <2>1 DEF StreamOK, StreamAt, PongCoversAt
    <2>7. ComingAt(wire, probes)'
      <3> SUFFICES ASSUME NEW i \in DOMAIN probes
                   PROVE  \/ \E k \in DOMAIN wire : wire[k].ts = probes[i].ts
                          \/ \E k \in DOMAIN pongs' : pongs'[k] = probes[i].ts
        BY <1>3, <2>1 DEF ComingAt
      <3>1. CASE \E k \in DOMAIN pongs : pongs[k] = probes[i].ts
        <4>1. PICK k \in DOMAIN pongs : pongs[k] = probes[i].ts  BY <3>1
        <4>2. k # 1  BY <2>2, <4>1 DEF ts
        <4>3. QED  BY <1>2, <4>1, <4>2
      <3>2. QED  BY <3>1 DEF StreamOK, StreamAt, ComingAt
    <2>8. QED  BY <2>3, <2>4, <2>5, <2>6, <2>7 DEF StreamOK, StreamAt
  <1>7. CASE Answered(ts) # {}
    <2>1. PICK n \in Answered(ts) :
            n + 1 \notin Answered(ts) /\ acked' = probes[n].upTo
            /\ probes' = SubSeq(probes, n + 1, Len(probes))
      BY <1>2, <1>7 DEF OnPong
    <2>2. /\ n \in Nat /\ 1 <= n /\ n <= Len(probes) /\ n \in DOMAIN probes /\ Len(probes) \in Nat
          /\ \A j \in 1..n : probes[j].ts <= ts
      BY <1>1 DEF Answered
    <2>3. /\ Len(probes') = Len(probes) - n
          /\ \A i \in DOMAIN probes' : /\ i \in Nat /\ 1 <= i /\ i <= Len(probes) - n
                                       /\ n + i \in DOMAIN probes /\ probes'[i] = probes[n + i]
      BY <1>1, <2>1, <2>2
    <2>4. \A i \in DOMAIN probes' : probes'[i].ts > ts
      <3> SUFFICES ASSUME NEW i \in DOMAIN probes' PROVE probes[n + i].ts > ts  BY <2>3
      <3>1. n + 1 \in DOMAIN probes /\ n + i \in DOMAIN probes  BY <1>1, <2>2, <2>3
      <3>2. ~(probes[n + 1].ts <= ts)
        <4>1. SUFFICES ASSUME probes[n + 1].ts <= ts PROVE FALSE  OBVIOUS
        <4>2. \A j \in 1..(n + 1) : probes[j].ts <= ts  BY <2>2, <4>1
        <4>3. QED  BY <2>1, <3>1, <4>2 DEF Answered
      <3>3. n + 1 = n + i \/ probes[n + 1].ts < probes[n + i].ts
        <4>1. CASE i = 1  BY <4>1
        <4>2. CASE 1 < i
          <5>1. n + 1 < n + i  BY <2>2, <2>3, <4>2
          <5>2. QED  BY <3>1, <5>1 DEF StreamOK, StreamAt, ProbesAt
        <4>3. QED  BY <2>3, <4>1, <4>2
      <3>4. QED  BY <1>2, <1>5, <3>1, <3>2, <3>3
    <2>5. probes[n].upTo <= arrived
      BY <1>2, <2>2 DEF StreamOK, StreamAt, PongCoversAt, ts
    <2>6. WireAt(wire, written, lastTs)'  BY <1>2, <1>3, <2>1, <2>5 DEF StreamOK, StreamAt, WireAt
    <2>7. ProbesAt(probes, written, sinceProbe, lastTs)'
      <3>1. \A i \in DOMAIN probes' : probes'[i].upTo <= written /\ 0 < probes'[i].ts /\ probes'[i].ts <= lastTs
        BY <2>3 DEF StreamOK, StreamAt, ProbesAt
      <3>2. ASSUME NEW i \in DOMAIN probes', NEW j \in DOMAIN probes', i < j PROVE probes'[i].ts < probes'[j].ts
        <4>1. n + i < n + j  BY <2>2, <2>3, <3>2
        <4>2. QED  BY <2>3, <4>1 DEF StreamOK, StreamAt, ProbesAt
      <3>a. probes # <<>> /\ probes[Len(probes)].upTo + sinceProbe = written
        BY <1>1, <2>2 DEF StreamOK, StreamAt, ProbesAt
      <3>3. probes' = <<>> => acked' + sinceProbe = written
        <4>1. ASSUME probes' = <<>> PROVE Len(probes) = n  BY <2>2, <2>3, <4>1
        <4>2. QED  BY <2>1, <3>a, <4>1
      <3>4. probes' # <<>> => probes'[Len(probes')].upTo + sinceProbe = written
        <4>1. ASSUME probes' # <<>> PROVE Len(probes') \in DOMAIN probes' /\ n + Len(probes') = Len(probes)
          <5>1. probes' \in Seq(Probe)  BY <1>1, <2>1, <2>2
          <5>2. Len(probes') \in DOMAIN probes'  BY <4>1, <5>1
          <5>3. QED  BY <2>2, <2>3, <5>2
        <4>2. QED  BY <2>3, <3>a, <4>1
      <3>5. QED  BY <1>3, <3>1, <3>2, <3>3, <3>4 DEF ProbesAt
    <2>8. PingCoversAt(wire, probes)'  BY <1>3, <2>3 DEF StreamOK, StreamAt, PingCoversAt
    <2>9. PongCoversAt(probes)'  BY <1>2, <1>3, <2>3 DEF StreamOK, StreamAt, PongCoversAt
    <2>10. ComingAt(wire, probes)'
      <3> SUFFICES ASSUME NEW i \in DOMAIN probes'
                   PROVE  \/ \E k \in DOMAIN wire : wire[k].ts = probes'[i].ts
                          \/ \E k \in DOMAIN pongs' : pongs'[k] = probes'[i].ts
        BY <1>3 DEF ComingAt
      <3>1. CASE \E k \in DOMAIN pongs : pongs[k] = probes'[i].ts
        <4>1. PICK k \in DOMAIN pongs : pongs[k] = probes'[i].ts  BY <3>1
        <4>2. k # 1
          <5>1. probes'[i].ts > ts /\ probes'[i].ts \in Nat  BY <1>5, <2>3, <2>4
          <5>2. QED  BY <1>2, <4>1, <5>1 DEF ts
        <4>3. QED  BY <1>2, <4>1, <4>2
      <3>2. QED  BY <2>3, <3>1 DEF StreamOK, StreamAt, ComingAt
    <2>11. QED  BY <2>6, <2>7, <2>8, <2>9, <2>10 DEF StreamOK, StreamAt
  <1>8. QED  BY <1>6, <1>7

LEMMA StreamStep == ASSUME TypeOK, StreamOK, [Next]_vars PROVE StreamOK'
  <1> DEFINE Still == UNCHANGED <<streamVars, acked, arrived, pongs>>
  <1>1. ASSUME Still PROVE StreamOK'
    BY <1>1 DEF streamVars, StreamOK, StreamAt, WireAt, ProbesAt, PingCoversAt, PongCoversAt, ComingAt
  <1>2. ASSUME NEW n \in Nat \ {0}, Put(n), UNCHANGED <<acked, arrived, pongs>> PROVE StreamOK'
    BY <1>2, PutStream
  <1>3. ASSUME NEW n \in Nat, NEW b \in BOOLEAN, PutPing(n, b), UNCHANGED <<acked, arrived, pongs>>
        PROVE  StreamOK'
    BY <1>3, PutPingStream
  <1> HIDE DEF Still
  <1>4. \A n \in CtlSizes \cup Sizes : n \in Nat \ {0}  BY SizesAssumption
  <1>5. ASSUME NEW r \in Reqs, PumpFrame(r) PROVE StreamOK'
    <2> DEFINE size == Head(lanes[r]).size
               more == \E q \in Reqs : lanes'[q] # <<>>
    <2>1. lanes[r] \in Seq(Item) /\ lanes[r] # <<>>  BY <1>5 DEF TypeOK, PumpFrame
    <2>2. Head(lanes[r]) \in Item  BY <2>1
    <2>3. size \in Nat \ {0}  BY <1>4, <2>2 DEF Item
    <2>4. more \in BOOLEAN  OBVIOUS
    <2> HIDE DEF size, more
    <2>5. Put(size) \/ PutPing(size, more)  BY <1>5 DEF PumpFrame, size, more
    <2>6. UNCHANGED <<acked, arrived, pongs>>  BY <1>5 DEF PumpFrame, ackVars, relayVars
    <2>7. QED  BY <1>2, <1>3, <2>3, <2>4, <2>5, <2>6
  <1>6. CASE PumpEnds
    <2>1. UNCHANGED <<acked, arrived, pongs>>  BY <1>6 DEF PumpEnds, relayVars
    <2>2. PutPing(0, TRUE) \/ UNCHANGED streamVars  BY <1>6 DEF PumpEnds
    <2>3. QED  BY <1>1, <1>3, <2>1, <2>2 DEF Still
  <1>7. CASE PumpFails  BY <1>1, <1>7 DEF PumpFails, Still, relayVars
  <1>8. CASE OnPong  BY <1>8, OnPongStream
  <1>9. CASE SendDirect
    <2>1. PICK n \in CtlSizes : Put(n)  BY <1>9 DEF SendDirect
    <2>2. UNCHANGED <<acked, arrived, pongs>>  BY <1>9 DEF SendDirect, ackVars, relayVars
    <2>3. QED  BY <1>2, <1>4, <2>1, <2>2
  <1>10. ASSUME NEW r \in Reqs, OnReq(r) PROVE StreamOK'
    BY <1>1, <1>10 DEF OnReq, Still, ackVars, relayVars
  <1>11. ASSUME NEW r \in Reqs, Answer(r) PROVE StreamOK'
    <2>1. UNCHANGED <<arrived, pongs>>  BY <1>11 DEF Answer, relayVars
    <2>2. UNCHANGED <<streamVars, acked>> \/ \E n \in CtlSizes : Put(n) /\ UNCHANGED acked
      BY <1>11 DEF Answer, GivenUp, Refused, Reply, ackVars
    <2>3. QED  BY <1>1, <1>2, <1>4, <2>1, <2>2 DEF Still
  <1>12. ASSUME NEW r \in Reqs, Emit(r) PROVE StreamOK'
    <2>1. UNCHANGED <<arrived, pongs>>  BY <1>12 DEF Emit, relayVars
    <2>2. UNCHANGED <<streamVars, acked>> \/ \E n \in CtlSizes : Put(n) /\ UNCHANGED acked
      BY <1>12 DEF Emit, GivenUp, Refused, Reply, ackVars
    <2>3. QED  BY <1>1, <1>2, <1>4, <2>1, <2>2 DEF Still
  <1>13. ASSUME NEW r \in Reqs, OnCancel(r) PROVE StreamOK'
    BY <1>1, <1>13 DEF OnCancel, Still, ackVars, relayVars
  <1>14. CASE Heartbeat
    <2>1. PutPing(0, Queued) /\ Queued \in BOOLEAN  BY <1>14 DEF Heartbeat, Queued
    <2>2. UNCHANGED <<acked, arrived, pongs>>  BY <1>14 DEF Heartbeat, ackVars, relayVars
    <2>3. QED  BY <1>3, <2>1, <2>2
  <1>15. CASE PongTimeout  BY <1>1, <1>15 DEF PongTimeout, Still, ackVars, relayVars
  <1>16. CASE RelayTakes  BY <1>16, RelayTakesStream
  <1>17. CASE FallsSilent  BY <1>1, <1>17 DEF FallsSilent, Still, ackVars
  <1>18. CASE Closes  BY <1>1, <1>18 DEF Closes, Still, ackVars, relayVars
  <1>19. CASE OnClose
    <2>1. /\ wire' = <<>> /\ pongs' = <<>> /\ probes' = <<>> /\ arrived' = 0 /\ written' = 0 /\ acked' = 0
          /\ sinceProbe' = 0
      BY <1>19 DEF OnClose, Reset
    <2>2. QED
      BY <2>1 DEF StreamOK, StreamAt, WireAt, ProbesAt, PingCoversAt, PongCoversAt, ComingAt
  <1>20. CASE Reconnect  BY <1>1, <1>20 DEF Reconnect, Still, ackVars
  <1>21. CASE UNCHANGED vars  BY <1>1, <1>21 DEF vars, Still, ackVars, relayVars
  <1>22. QED
    BY <1>5, <1>6, <1>7, <1>8, <1>9, <1>10, <1>11, <1>12, <1>13, <1>14, <1>15, <1>16, <1>17, <1>18, <1>19,
       <1>20, <1>21 DEF Next, Pump

-----------------------------------------------------------------------------
(* The queue waits only for a probe. *)

PumpsOpen == pumping => conn = "open"

Waits == conn # "closing" /\ ~pumping /\ Queued => probes # <<>>

LEMMA OpenStep == ASSUME PumpsOpen, [Next]_vars PROVE PumpsOpen'
  BY DEF PumpsOpen, Next, Pump, vars, PumpFrame, PumpEnds, PumpFails, OnPong, SendDirect, OnReq, Answer, Emit,
     OnCancel, Heartbeat, PongTimeout, RelayTakes, FallsSilent, Closes, OnClose, Reconnect, Idle, Refused,
     Reply, GivenUp, ackVars

LEMMA WaitStep ==
  ASSUME TypeOK, TypeOK', StreamOK, StreamOK', Waits, [Next]_vars
  PROVE  Waits'
  <1>1. ASSUME NEW r \in Reqs, PumpFrame(r) PROVE Waits'  BY <1>1 DEF PumpFrame, Waits, ackVars
  <1>2. CASE PumpEnds
    <2> SUFFICES ASSUME Queued' PROVE probes' # <<>>  BY DEF Waits
    <2>1. Queued  BY <1>2 DEF PumpEnds, queueVars, Queued
    <2>2. Unacked >= win /\ win >= 1  BY <1>2, <2>1, WindowAssumption DEF PumpEnds, TypeOK, Unacked
    <2>3. CASE PumpStuck
      <3>1. PutPing(0, TRUE)  BY <1>2, <2>3 DEF PumpEnds
      <3>2. probes \in Seq(Probe) /\ probes' \in Seq(Probe)  BY DEF TypeOK
      <3>3. probes' = Append(probes, [ts |-> lastTs + 1, upTo |-> written + 0 + PingSize, busy |-> TRUE])
        BY <3>1 DEF PutPing
      <3>4. Len(probes') = Len(probes) + 1  BY <3>2, <3>3
      <3>5. QED  BY <3>2, <3>4
    <2>4. CASE ~PumpStuck
      <3>a. UNCHANGED probes  BY <1>2, <2>4 DEF PumpEnds, streamVars
      <3>b. ~(sinceProbe > 0)  BY <2>1, <2>2, <2>4 DEF PumpStuck
      <3>1. sinceProbe = 0 /\ UNCHANGED probes  BY <3>a, <3>b DEF TypeOK
      <3>2. probes = <<>> => acked + sinceProbe = written  BY DEF StreamOK, StreamAt, ProbesAt
      <3>3. QED  BY <2>2, <3>1, <3>2 DEF TypeOK, Unacked
    <2>5. QED  BY <2>3, <2>4
  <1>3. CASE PumpFails  BY <1>3 DEF PumpFails, Waits
  <1>4. CASE OnPong
    <2>1. pumping' \/ UNCHANGED <<probes, pumping>>  BY <1>4 DEF OnPong, ackVars
    <2>2. QED  BY <1>4, <2>1 DEF OnPong, Waits, queueVars, Queued
  <1>5. CASE SendDirect  BY <1>5 DEF SendDirect, Waits, Put, queueVars, ackVars, Queued
  <1>6. ASSUME NEW r \in Reqs, OnReq(r) PROVE Waits'
    BY <1>6 DEF OnReq, Waits, streamVars, queueVars, ackVars, Queued
  <1>7. ASSUME NEW r \in Reqs, Answer(r) PROVE Waits'
    <2>1. pumping' \/ UNCHANGED <<probes, lanes, conn, pumping>>
      BY <1>7 DEF Answer, GivenUp, Refused, Reply, Put, streamVars, queueVars, ackVars
    <2>2. QED  BY <2>1 DEF Waits, Queued
  <1>8. ASSUME NEW r \in Reqs, Emit(r) PROVE Waits'
    <2>1. pumping' \/ UNCHANGED <<probes, lanes, conn, pumping>>
          \/ (Drop(r) /\ UNCHANGED <<probes, conn, pumping>>)
      BY <1>8 DEF Emit, GivenUp, Refused, Reply, Put, streamVars, queueVars, ackVars
    <2>2. QED  BY <2>1 DEF Waits, Queued, Drop, TypeOK
  <1>9. ASSUME NEW r \in Reqs, OnCancel(r) PROVE Waits'
    BY <1>9 DEF OnCancel, Drop, Waits, Queued, TypeOK, streamVars, ackVars
  <1>10. CASE Heartbeat
    <2>1. probes \in Seq(Probe) /\ probes' \in Seq(Probe)  BY DEF TypeOK
    <2>2. PutPing(0, Queued)  BY <1>10 DEF Heartbeat
    <2>3. probes' = Append(probes, [ts |-> lastTs + 1, upTo |-> written + 0 + PingSize, busy |-> Queued])
      BY <2>2 DEF PutPing
    <2>4. Len(probes') = Len(probes) + 1  BY <2>1, <2>3
    <2>5. probes' # <<>>  BY <2>1, <2>4
    <2>6. QED  BY <2>5 DEF Waits
  <1>11. CASE PongTimeout  BY <1>11 DEF PongTimeout, Waits, streamVars, queueVars, ackVars, Queued
  <1>12. CASE RelayTakes  BY <1>12 DEF RelayTakes, Waits, queueVars, ackVars, Queued
  <1>13. CASE FallsSilent  BY <1>13 DEF FallsSilent, Waits, streamVars, queueVars, ackVars, Queued
  <1>14. CASE Closes  BY <1>14 DEF Closes, Waits
  <1>15. CASE OnClose  BY <1>15 DEF OnClose, Reset, Waits, Queued
  <1>16. CASE Reconnect  BY <1>16 DEF Reconnect, Waits, streamVars, queueVars, ackVars, Queued
  <1>17. CASE UNCHANGED vars  BY <1>17 DEF vars, Waits, streamVars, queueVars, ackVars, Queued
  <1>18. QED
    BY <1>1, <1>2, <1>3, <1>4, <1>5, <1>6, <1>7, <1>8, <1>9, <1>10, <1>11, <1>12, <1>13, <1>14, <1>15,
       <1>16, <1>17 DEF Next, Pump
-----------------------------------------------------------------------------
(* The lanes: who is in them, and what of a run they hold. *)

\* Only a run that is over has put a last frame, and a lane with none belongs to a stream that
\* goes on.  A run whose request is gone will be given up.
LaneOK(q) ==
  /\ \A i \in DOMAIN lanes[q] : lanes[q][i].fin => phase[q] = "over" /\ i = Len(lanes[q])
  /\ q \in gone => phase[q] # "new" /\ (phase[q] \in Running => q \in aborted)
  /\ conn # "closing" /\ lanes[q] # <<>> => lanes[q][Len(lanes[q])].fin \/ phase[q] = "streaming"
  /\ conn = "none" => lanes[q] = <<>> /\ q \notin served
  /\ conn # "closing" /\ (lanes[q] # <<>> \/ q \in served) =>
       q \notin gone /\ (lanes[q] # <<>> \/ phase[q] = "streaming")

LanesOK == \A q \in Reqs : LaneOK(q)

\* The run and the lane of a request stay as they are, and the connection does unless it starts to close.
SameLane(q) ==
  /\ lanes'[q] = lanes[q] /\ (q \in served' <=> q \in served) /\ phase'[q] = phase[q]
  /\ (q \in gone' <=> q \in gone) /\ (q \in aborted => q \in aborted')
  /\ conn' \in {conn, "closing"}

LEMMA SameLaneOK == ASSUME NEW q \in Reqs, LaneOK(q), SameLane(q) PROVE LaneOK(q)'
  BY DEF LaneOK, SameLane

\* The lane of a run that has given no answer is empty.
LEMMA NoLaneYet ==
  ASSUME TypeOK, NEW q \in Reqs, LaneOK(q), conn # "closing", phase[q] \in {"new", "handling"}
  PROVE  lanes[q] = <<>> /\ q \notin served
  <1>1. lanes[q] \in Seq(Item)  BY DEF TypeOK
  <1>2. SUFFICES ASSUME lanes[q] # <<>> PROVE FALSE  BY DEF LaneOK
  <1>3. Len(lanes[q]) \in DOMAIN lanes[q]  BY <1>1, <1>2
  <1>4. QED  BY <1>2, <1>3 DEF LaneOK

LEMMA PumpFrameLane == ASSUME TypeOK, PumpsOpen, NEW r \in Reqs, LaneOK(r), PumpFrame(r) PROVE LaneOK(r)'
  <1>1. /\ lanes[r] \in Seq(Item) /\ lanes[r] # <<>> /\ lanes'[r] = Tail(lanes[r])
        /\ served' = IF Head(lanes[r]).fin THEN served \ {r} ELSE served \cup {r}
    BY DEF TypeOK, PumpFrame
  <1>2. UNCHANGED <<conn, phase, gone, aborted>> /\ conn = "open"  BY DEF PumpFrame, PumpsOpen, runVars
  <1> DEFINE n == Len(lanes[r])
  <1>3. n \in Nat /\ n \in DOMAIN lanes[r] /\ 1 \in DOMAIN lanes[r] /\ Head(lanes[r]) = lanes[r][1]  BY <1>1
  <1>4. /\ Len(lanes'[r]) = n - 1
        /\ \A i \in DOMAIN lanes'[r] : i \in Nat /\ i + 1 \in DOMAIN lanes[r] /\ lanes'[r][i] = lanes[r][i + 1]
    BY <1>1, TailFacts
  <1>5. lanes'[r] # <<>> => n - 1 \in DOMAIN lanes'[r]
    <2>1. lanes'[r] \in Seq(Item)  BY <1>1
    <2>2. QED  BY <1>3, <1>4, <2>1
  <1>6. lanes'[r] = <<>> => n = 1  BY <1>3, <1>4
  <1>7. lanes[r][1].fin => lanes'[r] = <<>>
    <2> SUFFICES ASSUME lanes[r][1].fin, lanes'[r] # <<>> PROVE FALSE  OBVIOUS
    <2>1. n = 1  BY <1>3 DEF LaneOK
    <2>2. QED  BY <1>4, <1>5, <2>1
  <1>8. \A i \in DOMAIN lanes'[r] : lanes'[r][i].fin => phase[r] = "over" /\ i = n - 1
    BY <1>3, <1>4 DEF LaneOK
  <1>9. lanes'[r] # <<>> => lanes'[r][n - 1].fin \/ phase[r] = "streaming"
    <2> SUFFICES ASSUME lanes'[r] # <<>> PROVE lanes'[r][n - 1].fin \/ phase[r] = "streaming"  OBVIOUS
    <2>1. lanes'[r][n - 1] = lanes[r][n]  BY <1>3, <1>4, <1>5
    <2>2. QED  BY <1>1, <1>2, <2>1 DEF LaneOK
  <1>10. r \notin gone  BY <1>1, <1>2 DEF LaneOK
  <1>11. lanes'[r] = <<>> /\ r \in served' => phase[r] = "streaming"
    <2> SUFFICES ASSUME lanes'[r] = <<>>, r \in served' PROVE phase[r] = "streaming"  OBVIOUS
    <2>1. ~lanes[r][1].fin  BY <1>1, <1>3
    <2>2. QED  BY <1>1, <1>2, <1>6, <2>1 DEF LaneOK
  <1> HIDE DEF n
  <1>12. QED  BY <1>2, <1>4, <1>8, <1>9, <1>10, <1>11 DEF LaneOK

\* A frame joins the lane of a run that was not aborted and has put no last frame.
LEMMA ReplyLane ==
  ASSUME TypeOK, NEW r \in Reqs, LaneOK(r), NEW n \in Sizes, NEW fin \in BOOLEAN, Reply(r, n, fin),
         conn = "open", UNCHANGED <<conn, aborted, gone>>, phase[r] \in Running, r \notin aborted,
         phase'[r] = IF fin THEN "over" ELSE "streaming"
  PROVE  LaneOK(r)'
  <1> DEFINE item == [size |-> n, fin |-> fin]
             s == lanes[r]
             t == lanes'[r]
  <1>1. s \in Seq(Item) /\ item \in Item /\ item.fin = fin  BY DEF TypeOK, Item
  <1>2. t = Append(s, item)  BY DEF TypeOK, Reply
  <1> HIDE DEF item
  <1>3. /\ Len(s) \in Nat /\ Len(t) = Len(s) + 1 /\ t # <<>> /\ t[Len(s) + 1] = item
        /\ \A i \in DOMAIN s : t[i] = s[i]
        /\ \A i \in DOMAIN t : i \in DOMAIN s \/ i = Len(s) + 1
    BY <1>1, <1>2, AppendFacts
  <1>4. \A i \in DOMAIN s : ~s[i].fin  BY DEF LaneOK, Running
  <1> HIDE DEF s, t
  <1>5. r \notin gone  BY DEF LaneOK
  <1>6. \A i \in DOMAIN t : t[i].fin => fin /\ i = Len(t)  BY <1>1, <1>3, <1>4
  <1>7. QED  BY <1>1, <1>3, <1>5, <1>6 DEF LaneOK, t

LEMMA DropLane ==
  ASSUME TypeOK, NEW r \in Reqs, Drop(r), conn # "none", UNCHANGED conn,
         r \in gone' => phase'[r] # "new" /\ (phase'[r] \in Running => r \in aborted')
  PROVE  LaneOK(r)'
  <1>1. lanes'[r] = <<>> /\ r \notin served'  BY DEF Drop, TypeOK
  <1>2. DOMAIN lanes'[r] = {}  BY <1>1
  <1>3. QED  BY <1>1, <1>2 DEF LaneOK

\* A run ends and puts nothing in the queue: it was aborted, or is not connected, or has queued nothing yet.
LEMMA OverLane ==
  ASSUME TypeOK, NEW r \in Reqs, LaneOK(r), UNCHANGED <<conn, lanes, served, aborted, gone>>,
         phase'[r] = "over", r \in aborted \/ conn # "open" \/ phase[r] = "handling"
  PROVE  LaneOK(r)'
  <1>1. conn = "closing" \/ (lanes[r] = <<>> /\ r \notin served)
    <2>1. CASE r \in aborted  BY <2>1 DEF TypeOK, LaneOK
    <2>2. CASE conn # "open"  BY <2>2 DEF TypeOK, LaneOK
    <2>3. CASE conn = "open" /\ phase[r] = "handling"  BY <2>3, NoLaneYet
    <2>4. QED  BY <2>1, <2>2, <2>3
  <1>2. QED  BY <1>1 DEF LaneOK, Running
LEMMA AnswerLane == ASSUME TypeOK, NEW r \in Reqs, LaneOK(r), Answer(r) PROVE LaneOK(r)'
  <1>1. UNCHANGED <<conn, aborted, gone>> /\ phase[r] = "handling"  BY DEF Answer
  <1>2. \A s \in Phases : Goes(r, s) => phase'[r] = s  BY DEF Goes, TypeOK
  <1>3. CASE \E n \in Sizes : Reply(r, n, TRUE) /\ Goes(r, "over") /\ r \notin aborted /\ conn = "open"
    <2>1. PICK n \in Sizes : Reply(r, n, TRUE)  BY <1>3
    <2>2. phase'[r] = "over"  BY <1>2, <1>3 DEF Phases
    <2>3. QED  BY <1>1, <1>3, <2>1, <2>2, ReplyLane DEF Running
  <1>4. CASE \E n \in Sizes : Reply(r, n, FALSE) /\ Goes(r, "streaming") /\ r \notin aborted /\ conn = "open"
    <2>1. PICK n \in Sizes : Reply(r, n, FALSE)  BY <1>4
    <2>2. phase'[r] = "streaming"  BY <1>2, <1>4 DEF Phases
    <2>3. QED  BY <1>1, <1>4, <2>1, <2>2, ReplyLane DEF Running
  <1>5. CASE Goes(r, "over") /\ UNCHANGED <<lanes, served>>
    BY <1>1, <1>2, <1>5, OverLane DEF Phases
  <1>6. QED  BY <1>3, <1>4, <1>5 DEF Answer, GivenUp, Refused, queueVars

LEMMA EmitLane == ASSUME TypeOK, NEW r \in Reqs, LaneOK(r), Emit(r) PROVE LaneOK(r)'
  <1>1. UNCHANGED <<conn, aborted, gone>> /\ phase[r] = "streaming"  BY DEF Emit
  <1>2. Goes(r, "over") => phase'[r] = "over"  BY DEF Goes, TypeOK
  <1>3. CASE \E n \in Sizes : Reply(r, n, FALSE) /\ UNCHANGED phase /\ r \notin aborted /\ conn = "open"
    <2>1. PICK n \in Sizes : Reply(r, n, FALSE)  BY <1>3
    <2>2. phase'[r] = "streaming"  BY <1>1, <1>3
    <2>3. QED  BY <1>1, <1>3, <2>1, <2>2, ReplyLane DEF Running
  <1>4. CASE \E n \in Sizes : Reply(r, n, TRUE) /\ Goes(r, "over") /\ r \notin aborted /\ conn = "open"
    <2>1. PICK n \in Sizes : Reply(r, n, TRUE)  BY <1>4
    <2>2. phase'[r] = "over"  BY <1>2, <1>4
    <2>3. QED  BY <1>1, <1>4, <2>1, <2>2, ReplyLane DEF Running
  <1>5. CASE UNCHANGED <<lanes, served, phase>>  BY <1>1, <1>5, SameLaneOK DEF SameLane
  <1>6. CASE Goes(r, "over") /\ UNCHANGED <<lanes, served>> /\ (r \in aborted \/ conn # "open")
    BY <1>1, <1>2, <1>6, OverLane
  <1>7. CASE Goes(r, "over") /\ Drop(r) /\ conn = "open"
    BY <1>1, <1>2, <1>7, DropLane DEF Running
  <1>8. QED  BY <1>3, <1>4, <1>5, <1>6, <1>7 DEF Emit, GivenUp, Refused, queueVars

LEMMA OnCancelLane == ASSUME TypeOK, NEW r \in Reqs, LaneOK(r), OnCancel(r) PROVE LaneOK(r)'
  <1>1. Drop(r) /\ conn # "none" /\ UNCHANGED <<conn, phase>> /\ phase[r] # "new"
    BY DEF OnCancel, Idle
  <1>2. phase[r] \in Running => r \in aborted'  BY DEF OnCancel
  <1>3. QED  BY <1>1, <1>2, DropLane

\* A step of one request leaves the lanes of the others as they are.
LEMMA OtherLanes ==
  ASSUME TypeOK, NEW r \in Reqs, NEW q \in Reqs, q # r,
         PumpFrame(r) \/ OnReq(r) \/ Answer(r) \/ Emit(r) \/ OnCancel(r)
  PROVE  SameLane(q)
  <1>1. CASE PumpFrame(r)  BY <1>1 DEF PumpFrame, TypeOK, SameLane, runVars
  <1>2. CASE OnReq(r)  BY <1>2 DEF OnReq, TypeOK, SameLane, queueVars
  <1>3. CASE Answer(r)
    <2>1. UNCHANGED <<lanes, served>> \/ \E n \in Sizes, fin \in BOOLEAN : Reply(r, n, fin)
      BY <1>3 DEF Answer, GivenUp, Refused, queueVars
    <2>2. lanes'[q] = lanes[q] /\ UNCHANGED served  BY <2>1 DEF Reply, TypeOK
    <2>3. QED  BY <1>3, <2>2 DEF Answer, GivenUp, Goes, TypeOK, SameLane
  <1>4. CASE Emit(r)
    <2>1. UNCHANGED <<lanes, served>> \/ Drop(r) \/ \E n \in Sizes, fin \in BOOLEAN : Reply(r, n, fin)
      BY <1>4 DEF Emit, GivenUp, Refused, queueVars
    <2>2. lanes'[q] = lanes[q] /\ (q \in served' <=> q \in served)  BY <2>1 DEF Drop, Reply, TypeOK
    <2>3. QED  BY <1>4, <2>2 DEF Emit, GivenUp, Goes, TypeOK, SameLane
  <1>5. CASE OnCancel(r)  BY <1>5 DEF OnCancel, Drop, TypeOK, SameLane
  <1>6. QED  BY <1>1, <1>2, <1>3, <1>4, <1>5

LEMMA LaneStep == ASSUME TypeOK, PumpsOpen, LanesOK, [Next]_vars PROVE LanesOK'
  <1>1. ASSUME NEW r \in Reqs, PumpFrame(r) \/ OnReq(r) \/ Answer(r) \/ Emit(r) \/ OnCancel(r)
        PROVE  LanesOK'
    <2> SUFFICES ASSUME NEW q \in Reqs PROVE LaneOK(q)'  BY DEF LanesOK
    <2>1. LaneOK(q) /\ LaneOK(r)  BY DEF LanesOK
    <2>2. CASE q # r  BY <1>1, <2>1, <2>2, OtherLanes, SameLaneOK
    <2>3. ASSUME OnReq(r) PROVE LaneOK(r)'
      <3>1. /\ conn = "open" /\ phase[r] = "new" /\ phase'[r] = "handling"
            /\ UNCHANGED <<conn, lanes, served, aborted, gone>>
        BY <2>3 DEF OnReq, Idle, TypeOK, queueVars
      <3>2. lanes[r] = <<>> /\ r \notin served /\ r \notin gone  BY <2>1, <3>1, NoLaneYet DEF LaneOK
      <3>3. QED  BY <3>1, <3>2 DEF LaneOK
    <2>4. CASE q = r
      BY <1>1, <2>1, <2>3, <2>4, PumpFrameLane, AnswerLane, EmitLane, OnCancelLane
    <2>5. QED  BY <2>2, <2>4
  <1>2. CASE OnClose
    <2> SUFFICES ASSUME NEW q \in Reqs PROVE LaneOK(q)'  BY DEF LanesOK
    <2>1. lanes'[q] = <<>> /\ q \notin served' /\ conn' = "none"  BY <1>2 DEF OnClose, Reset
    <2>2. DOMAIN lanes'[q] = {}  BY <2>1
    <2>3. q \in gone' => phase'[q] # "new" /\ (phase'[q] \in Running => q \in aborted')
      BY <1>2 DEF OnClose, LanesOK, LaneOK
    <2>4. QED  BY <2>1, <2>2, <2>3 DEF LaneOK
  <1>3. CASE Reconnect
    <2> SUFFICES ASSUME NEW q \in Reqs PROVE LaneOK(q)'  BY DEF LanesOK
    <2>1. LaneOK(q) /\ conn = "none" /\ conn' = "open"  BY <1>3 DEF Reconnect, LanesOK
    <2>2. UNCHANGED <<lanes, served, phase, gone, aborted>>  BY <1>3 DEF Reconnect, queueVars, runVars
    <2>3. QED  BY <2>1, <2>2 DEF LaneOK
  <1>4. ASSUME UNCHANGED <<lanes, served, phase, gone, aborted>>, conn' \in {conn, "closing"} PROVE LanesOK'
    BY <1>4, SameLaneOK DEF LanesOK, SameLane
  <1>5. CASE PumpEnds \/ PumpFails \/ OnPong \/ SendDirect
    BY <1>4, <1>5 DEF PumpEnds, PumpFails, OnPong, SendDirect, queueVars, runVars
  <1>6. CASE Heartbeat \/ PongTimeout \/ RelayTakes \/ FallsSilent \/ Closes
    BY <1>4, <1>6 DEF Heartbeat, PongTimeout, RelayTakes, FallsSilent, Closes, queueVars, runVars
  <1>7. CASE UNCHANGED vars  BY <1>4, <1>7 DEF vars, queueVars, runVars
  <1>8. QED  BY <1>1, <1>2, <1>3, <1>5, <1>6, <1>7 DEF Next, Pump

-----------------------------------------------------------------------------
(* The invariant. *)

Inv == TypeOK /\ StreamOK /\ PumpsOpen /\ Waits /\ LanesOK

LEMMA InitInv == Init => Inv
  <1> SUFFICES ASSUME Init PROVE Inv  OBVIOUS
  <1>1. TypeOK  BY InitType
  <1>2. StreamOK
    BY DEF Init, StreamOK, StreamAt, WireAt, ProbesAt, PingCoversAt, PongCoversAt, ComingAt
  <1>3. PumpsOpen /\ Waits  BY DEF Init, PumpsOpen, Waits, Queued
  <1>4. LanesOK
    <2> SUFFICES ASSUME NEW q \in Reqs PROVE LaneOK(q)  BY DEF LanesOK
    <2>1. lanes[q] = <<>> /\ q \notin served /\ q \notin gone  BY DEF Init
    <2>2. DOMAIN lanes[q] = {}  BY <2>1
    <2>3. QED  BY <2>1, <2>2 DEF LaneOK
  <1>5. QED  BY <1>1, <1>2, <1>3, <1>4 DEF Inv

LEMMA InvStep == Inv /\ [Next]_vars => Inv'
  <1> SUFFICES ASSUME Inv, [Next]_vars PROVE Inv'  OBVIOUS
  <1>1. TypeOK /\ StreamOK /\ PumpsOpen /\ Waits /\ LanesOK  BY DEF Inv
  <1>2. TypeOK'  BY <1>1, TypeStep DEF StreamOK, StreamAt, ProbesOK
  <1>3. StreamOK'  BY <1>1, StreamStep
  <1>4. PumpsOpen'  BY <1>1, OpenStep
  <1>5. Waits'  BY <1>1, <1>2, <1>3, WaitStep
  <1>6. LanesOK'  BY <1>1, LaneStep
  <1>7. QED  BY <1>2, <1>3, <1>4, <1>5, <1>6 DEF Inv

THEOREM Safety == Spec => []Inv
  BY InitInv, InvStep, PTL DEF Spec

\* Every variable keeps its type, and no more is acknowledged than was written.
THEOREM TypeCorrect == Spec => []TypeOK
  <1>1. Inv => TypeOK  BY DEF Inv
  <1>2. QED  BY <1>1, Safety, PTL

\* A waiting queue has a probe out, and every probe's ping or pong is on its way: the window
\* opens again, whatever filled it (onPong, pump).
THEOREM WindowReopens == Spec => []ReopensByProbe
  <1>1. Inv => ReopensByProbe
    BY DEF Inv, ReopensByProbe, Waits, StreamOK, StreamAt, ComingAt, Coming, Idle
  <1>2. QED  BY <1>1, Safety, PTL

\* Nothing is kept for a request that was cancelled or whose connection has ended (onCancel,
\* onClose), and no history for a run that is over.
THEOREM NothingUnwanted == Spec => []AnswersAreWanted
  <1>1. Inv => AnswersAreWanted  BY DEF Inv, LanesOK, LaneOK, AnswersAreWanted
  <1>2. QED  BY <1>1, Safety, PTL

\* A frame of an answer is written only while less than a window is on its way to the relay: what
\* the client counts, the bytes that are not acknowledged, is never less (pump).
THEOREM WindowKept == Spec => WindowRespected
  <1> DEFINE Writes == pumping /\ written' # written /\ lanes' # lanes
  <1>1. ASSUME Inv, [Next]_vars, Writes PROVE written - arrived < win
    <2>1. TypeOK /\ PumpsOpen /\ StreamOK  BY <1>1 DEF Inv
    <2>2. conn = "open"  BY <1>1, <2>1 DEF PumpsOpen
    <2>3. PICK r \in Reqs : PumpFrame(r)
      BY <1>1, <2>2 DEF Next, Pump, vars, PumpEnds, PumpFails, OnPong, SendDirect, OnReq, Answer, Emit,
         OnCancel, Heartbeat, PongTimeout, RelayTakes, FallsSilent, Closes, OnClose, Reconnect, Idle,
         queueVars, streamVars
    <2>4. Unacked < win  BY <2>3 DEF PumpFrame
    <2>5. acked <= arrived  BY <2>1 DEF StreamOK, StreamAt, WireAt
    <2>6. /\ written \in Nat /\ acked \in Nat /\ arrived \in Nat /\ win \in MinWindow..MaxWindow
          /\ acked <= written
      BY <2>1 DEF TypeOK
    <2>7. QED  BY <2>4, <2>5, <2>6, WindowAssumption DEF Unacked
  <1>2. Inv /\ [Next]_vars => [Writes => written - arrived < win]_vars  BY <1>1
  <1>3. QED  BY <1>2, Safety, PTL DEF WindowRespected, Spec
=============================================================================
