--------------------------- MODULE TCPEgressProofs ---------------------------
(***************************************************************************)
(* Proofs about TCPEgress, for any number of frames, parts, connections    *)
(* and any size of the send buffer.                                        *)
(***************************************************************************)
EXTENDS TCPEgress, TLAPS

(* Where sendTCP stands, and what its fields are there.                    *)
Control ==
  /\ at \in {"dial", "closed"} => tcpConn = 0
  /\ at \in {"deadline", "write"} => tcpConn # 0
  /\ at \in {"dial", "deadline"} => written = 0
  /\ at = "write" => written < Parts
  /\ at \in {"dial", "deadline", "write"} => frame > 0 /\ result[frame] = "none"
  /\ \A f \in Frame : f > frame => result[f] = "none"

\* The parts of the present frame that may be on connection c.
Known(c, p) ==
  /\ p.frame <= frame
  /\ at \in {"dial", "deadline"} => p.frame < frame
  /\ at = "write" /\ p.frame = frame => c = tcpConn /\ p.part <= written

(* What is on the connections: nothing of frames to come, nothing on a     *)
(* connection not dialled yet, and the current connection ends with a      *)
(* whole frame or with the parts of the present one.                       *)
Streams ==
  /\ \A c \in Conn : \A i \in 1..Len(stream[c]) : Known(c, stream[c][i])
  /\ \A c \in Conn : c > dialled => Len(stream[c]) = 0
  /\ tcpConn # 0 /\ Len(stream[tcpConn]) > 0 =>
       IF at = "write" /\ written > 0
       THEN stream[tcpConn][Len(stream[tcpConn])] = [frame |-> frame, part |-> written]
       ELSE stream[tcpConn][Len(stream[tcpConn])].part = Parts
  /\ at = "write" /\ written > 0 => Len(stream[tcpConn]) > 0

SenderInv == TypeOK /\ Control /\ NoLeak

StreamInv == Streams /\ WholeFrames /\ OneConnection /\ ResultIsTrue

-----------------------------------------------------------------------------
(* Append adds one element at the end.                                     *)
LEMMA AppendFacts ==
  ASSUME NEW S, NEW s \in Seq(S), NEW e \in S
  PROVE  /\ Append(s, e) \in Seq(S)
         /\ Len(Append(s, e)) = Len(s) + 1
         /\ \A i \in 1..Len(s) : Append(s, e)[i] = s[i]
         /\ Append(s, e)[Len(s) + 1] = e
  OBVIOUS

(* The initial state.                                                      *)
LEMMA InitInv == Init => SenderInv /\ StreamInv
<1> SUFFICES ASSUME Init PROVE SenderInv /\ StreamInv
  OBVIOUS
<1> USE SizeAssumption DEF Init
<1>1. TypeOK
  BY DEF TypeOK, Frame, Conn
<1>2. Control /\ NoLeak
  BY DEF Control, NoLeak, Frame
<1>3. Streams
  BY DEF Streams, Conn
<1>4. WholeFrames /\ OneConnection /\ ResultIsTrue
  BY DEF WholeFrames, OneConnection, ResultIsTrue, Whole, Conn, Frame
<1> QED
  BY <1>1, <1>2, <1>3, <1>4 DEF SenderInv, StreamInv

-----------------------------------------------------------------------------
(* Every step preserves the invariant of the sender's own fields.          *)
LEMMA SenderStep == SenderInv /\ [Next]_vars => SenderInv'
<1> SUFFICES ASSUME SenderInv, [Next]_vars PROVE SenderInv'
  OBVIOUS
<1> USE SizeAssumption DEF SenderInv, Return, netVars
<1>1. CASE Send
  <2>1. TypeOK'
    BY <1>1 DEF Send, TypeOK, Frame, Conn
  <2>2. Control' /\ NoLeak'
    BY <1>1 DEF Send, TypeOK, Control, NoLeak, Frame
  <2> QED
    BY <2>1, <2>2
<1>2. CASE Dial
  <2>1. TypeOK'
    BY <1>2 DEF Dial, TypeOK, Conn
  <2>2. Control' /\ NoLeak'
    BY <1>2 DEF Dial, TypeOK, Control, NoLeak
  <2> QED
    BY <2>1, <2>2
<1>3. CASE DialFails
  <2>1. TypeOK'
    BY <1>3 DEF DialFails, TypeOK
  <2>2. Control' /\ NoLeak'
    BY <1>3 DEF DialFails, TypeOK, Control, NoLeak, Frame
  <2> QED
    BY <2>1, <2>2
<1>4. CASE SetWriteDeadline
  <2>1. TypeOK'
    BY <1>4 DEF SetWriteDeadline, TypeOK
  <2>2. Control' /\ NoLeak'
    BY <1>4 DEF SetWriteDeadline, TypeOK, Control, NoLeak
  <2> QED
    BY <2>1, <2>2
<1>5. CASE SetWriteDeadlineFails
  <2>1. TypeOK'
    <3>1. tcpConn' \in 0..dialled' /\ open' \subseteq Conn
      BY <1>5 DEF SetWriteDeadlineFails, closeTCP, TypeOK
    <3>2. result' \in [Frame -> {"none", "ok", "error"}]
      BY <1>5 DEF SetWriteDeadlineFails, TypeOK
    <3> QED
      BY <1>5, <3>1, <3>2 DEF SetWriteDeadlineFails, TypeOK
  <2>2. Control' /\ NoLeak'
    BY <1>5 DEF SetWriteDeadlineFails, closeTCP, TypeOK, Control, NoLeak, Frame
  <2> QED
    BY <2>1, <2>2
<1>6. CASE Write
  <2>1. tcpConn \in Conn /\ frame \in Frame /\ written + 1 \in 1..Parts
    BY <1>6 DEF Write, TypeOK, Control, Conn, Frame
  <2>2. [frame |-> frame, part |-> written + 1] \in Part
    BY <2>1 DEF Part
  <2>3. stream' \in [Conn -> Seq(Part)]
    BY <1>6, <2>1, <2>2, AppendFacts DEF Write, TypeOK
  <2>4. TypeOK'
    BY <1>6, <2>1, <2>3 DEF Write, TypeOK
  <2>5. Control' /\ NoLeak'
    BY <1>6, <2>1 DEF Write, TypeOK, Control, NoLeak, Frame
  <2> QED
    BY <2>4, <2>5
<1>7. CASE WriteFails
  <2>1. TypeOK'
    <3>1. tcpConn' \in 0..dialled' /\ open' \subseteq Conn
      BY <1>7 DEF WriteFails, closeTCP, TypeOK
    <3>2. result' \in [Frame -> {"none", "ok", "error"}]
      BY <1>7 DEF WriteFails, TypeOK
    <3> QED
      BY <1>7, <3>1, <3>2 DEF WriteFails, TypeOK
  <2>2. Control' /\ NoLeak'
    BY <1>7 DEF WriteFails, closeTCP, TypeOK, Control, NoLeak, Frame
  <2> QED
    BY <2>1, <2>2
<1>8. CASE Close
  <2>1. TypeOK'
    BY <1>8 DEF Close, closeTCP, TypeOK
  <2>2. Control' /\ NoLeak'
    BY <1>8 DEF Close, closeTCP, TypeOK, Control, NoLeak
  <2> QED
    BY <2>1, <2>2
<1>9. CASE \E c \in attached : Read(c) \/ Detach(c)
  <2>1. read' \in [Conn -> Nat] /\ attached' \subseteq Conn
    <3>1. PICK c \in attached : Read(c) \/ Detach(c)
      BY <1>9
    <3>2. CASE Read(c)
      BY <3>2 DEF Read, TypeOK
    <3>3. CASE Detach(c)
      BY <3>3 DEF Detach, TypeOK
    <3> QED
      BY <3>1, <3>2, <3>3
  <2>2. UNCHANGED <<senderVars, dialled, stream, listening>>
    BY <1>9 DEF Read, Detach
  <2>3. TypeOK'
    BY <2>1, <2>2 DEF senderVars, TypeOK
  <2>4. Control' /\ NoLeak'
    BY <2>2 DEF senderVars, Control, NoLeak
  <2> QED
    BY <2>3, <2>4
<1>10. CASE Crash \/ Restart \/ UNCHANGED vars
  <2>1. TypeOK'
    BY <1>10 DEF Crash, Restart, senderVars, vars, TypeOK
  <2>2. Control' /\ NoLeak'
    BY <1>10 DEF Crash, Restart, senderVars, vars, Control, NoLeak
  <2> QED
    BY <2>1, <2>2
<1> QED
  BY <1>1, <1>2, <1>3, <1>4, <1>5, <1>6, <1>7, <1>8, <1>9, <1>10 DEF Next, InSend

-----------------------------------------------------------------------------
(* A step that adds nothing to the streams: what was known of the parts    *)
(* stays true because frame only grows, and the connection in use is the   *)
(* same, closed, or a new one.                                             *)
LEMMA QuietStreams ==
  ASSUME SenderInv, StreamInv, UNCHANGED stream, SenderInv',
         frame' >= frame, dialled' >= dialled,
         tcpConn' # tcpConn => tcpConn' = 0 \/ tcpConn' > dialled,
         at' \in {"dial", "deadline"} => at = at' \/ at = "dial" \/ frame' > frame,
         at' = "write" => /\ at \in {"deadline", "write"}
                          /\ UNCHANGED <<frame, written, tcpConn>>,
         tcpConn' # 0 /\ at = "write" => at' = "write"
  PROVE  Streams'
<1> USE SizeAssumption DEF SenderInv, StreamInv
<1>1. \A c \in Conn : \A i \in 1..Len(stream[c]) : Known(c, stream[c][i])'
  <2> SUFFICES ASSUME NEW c \in Conn, NEW i \in 1..Len(stream[c])
               PROVE  Known(c, stream[c][i])'
    OBVIOUS
  <2> DEFINE p == stream[c][i]
  <2>1. p.frame \in Nat /\ Known(c, p)
    <3>1. stream[c] \in Seq(Part)
      BY DEF TypeOK
    <3>2. p \in Part
      BY <3>1
    <3> QED
      BY <3>2 DEF Streams, Part, Frame
  <2>2. p.frame <= frame'
    BY <2>1 DEF Known, TypeOK
  <2>3. at' \in {"dial", "deadline"} => p.frame < frame'
    BY <2>1 DEF Known, TypeOK
  <2>4. at' = "write" /\ p.frame = frame' => c = tcpConn' /\ p.part <= written'
    BY <2>1 DEF Known, TypeOK
  <2> QED
    BY <2>2, <2>3, <2>4 DEF Known
<1>2. \A c \in Conn : c > dialled' => Len(stream[c]) = 0
  BY DEF Streams, TypeOK, Conn
<1>3. ASSUME tcpConn' # 0, Len(stream[tcpConn']) > 0
      PROVE  IF at' = "write" /\ written' > 0
             THEN stream[tcpConn'][Len(stream[tcpConn'])] = [frame |-> frame', part |-> written']
             ELSE stream[tcpConn'][Len(stream[tcpConn'])].part = Parts
  <2>1. tcpConn' = tcpConn
    <3>1. tcpConn' \in Conn
      BY <1>3 DEF TypeOK, Conn
    <3>2. ~(tcpConn' > dialled)
      BY <1>3, <3>1 DEF Streams
    <3> QED
      BY <1>3, <3>2
  <2> QED
    BY <1>3, <2>1 DEF Streams, Control, TypeOK
<1>4. at' = "write" /\ written' > 0 => Len(stream[tcpConn']) > 0
  BY DEF Streams, Control, TypeOK
<1> QED
  BY <1>1, <1>2, <1>3, <1>4 DEF Streams

(* Write appends the next part of the present frame to the current         *)
(* connection, which ends with the part before it or with a whole frame.   *)
LEMMA WriteStreams ==
  ASSUME SenderInv, StreamInv, Write, SenderInv'
  PROVE  Streams' /\ WholeFrames' /\ OneConnection' /\ ResultIsTrue'
<1> USE SizeAssumption DEF SenderInv, StreamInv
<1> DEFINE new == [frame |-> frame, part |-> written + 1]
<1>1. tcpConn \in Conn /\ frame \in Frame /\ written + 1 \in 1..Parts /\ new \in Part
  BY DEF Write, TypeOK, Control, Conn, Frame, Part
<1>2. /\ \A c \in Conn : c # tcpConn => stream'[c] = stream[c]
      /\ Len(stream'[tcpConn]) = Len(stream[tcpConn]) + 1
      /\ \A i \in 1..Len(stream[tcpConn]) : stream'[tcpConn][i] = stream[tcpConn][i]
      /\ stream'[tcpConn][Len(stream[tcpConn]) + 1] = new
  BY <1>1, AppendFacts DEF Write, TypeOK
<1>3. /\ \A c \in Conn : Len(stream[c]) \in Nat
      /\ \A c \in Conn : \A i \in 1..Len(stream[c]) : stream[c][i] \in Part
  BY DEF TypeOK
<1>4. \A c \in Conn : \A i \in 1..Len(stream'[c]) :
        \/ i \in 1..Len(stream[c]) /\ stream'[c][i] = stream[c][i]
        \/ c = tcpConn /\ i = Len(stream[c]) + 1 /\ stream'[c][i] = new
  BY <1>1, <1>2, <1>3
<1>5. UNCHANGED <<tcpConn, frame, dialled>> /\ written' = written + 1 /\ at = "write"
  BY DEF Write
<1>6. \/ at' = "write" /\ written' < Parts
      \/ at' = "outside" /\ written' = Parts
  BY <1>1 DEF Write, Return, Control, TypeOK
<1>7. Streams'
  <2>1. ASSUME NEW c \in Conn, NEW i \in 1..Len(stream'[c])
        PROVE  Known(c, stream[c][i])'
    <3>1. CASE i \in 1..Len(stream[c]) /\ stream'[c][i] = stream[c][i]
      <4> DEFINE p == stream[c][i]
      <4>1. Known(c, p) /\ p.frame \in Nat /\ p.part \in Nat
        BY <1>3, <3>1 DEF Streams, Part, Frame
      <4>2. p.frame <= frame' /\ at' \notin {"dial", "deadline"}
        BY <1>5, <1>6, <4>1 DEF Known
      <4>3. at' = "write" /\ p.frame = frame' => c = tcpConn' /\ p.part <= written'
        BY <1>5, <4>1 DEF Known, TypeOK
      <4> QED
        BY <3>1, <4>2, <4>3 DEF Known
    <3>2. CASE c = tcpConn /\ stream'[c][i] = new
      BY <1>1, <1>5, <1>6, <3>2 DEF Known, Frame
    <3> QED
      BY <1>4, <2>1, <3>1, <3>2
  <2>2. \A c \in Conn : c > dialled' => Len(stream'[c]) = 0
    <3>1. ~(tcpConn > dialled)
      BY DEF TypeOK
    <3> QED
      BY <1>2, <1>5, <3>1 DEF Streams
  <2>3. Len(stream'[tcpConn]) > 0 /\ stream'[tcpConn][Len(stream'[tcpConn])] = new
    BY <1>1, <1>2, <1>3
  <2> QED
    BY <1>1, <1>5, <1>6, <2>1, <2>2, <2>3 DEF Streams
<1>8. WholeFrames'
  <2>1. ASSUME NEW c \in Conn, NEW i \in 1..(Len(stream'[c]) - 1)
        PROVE  Follows(stream[c][i], stream[c][i + 1])'
    <3>1. CASE i + 1 \in 1..Len(stream[c])
      <4>1. i \in 1..Len(stream[c])
        BY <1>3, <3>1
      <4>2. stream'[c][i] = stream[c][i] /\ stream'[c][i + 1] = stream[c][i + 1]
        BY <1>2, <3>1, <4>1
      <4> QED
        BY <1>3, <3>1, <4>1, <4>2 DEF WholeFrames, Follows
    <3>2. CASE c = tcpConn /\ i + 1 = Len(stream[c]) + 1
      <4>1. i = Len(stream[tcpConn]) /\ i \in 1..Len(stream[tcpConn])
        BY <1>1, <1>2, <1>3, <2>1, <3>2
      <4>2. stream'[c][i] = stream[tcpConn][i] /\ stream'[c][i + 1] = new
        BY <1>1, <1>2, <3>2, <4>1
      <4>3. Known(tcpConn, stream[tcpConn][i]) /\ stream[tcpConn][i] \in Part
        BY <1>1, <1>3, <4>1 DEF Streams
      <4>4. CASE written > 0
        <5>1. stream[tcpConn][i] = [frame |-> frame, part |-> written]
          BY <1>1, <1>5, <4>1, <4>4 DEF Streams, Conn
        <5> QED
          BY <1>1, <1>5, <4>2, <5>1 DEF Follows, TypeOK
      <4>5. CASE written = 0
        <5>1. stream[tcpConn][i].part = Parts
          BY <1>1, <1>5, <4>1, <4>5 DEF Streams, Conn
        <5>2. stream[tcpConn][i].frame < frame
          BY <1>1, <1>5, <4>3, <4>5, <5>1 DEF Known, Part, Frame
        <5> QED
          BY <4>2, <4>5, <5>1, <5>2 DEF Follows
      <4> QED
        BY <4>4, <4>5 DEF TypeOK
    <3> QED
      BY <1>2, <1>3, <2>1, <3>1, <3>2
  <2>2. ASSUME NEW c \in Conn, Len(stream'[c]) > 0
        PROVE  stream'[c][1].part = 1
    <3>1. CASE Len(stream[c]) > 0
      <4>1. stream[c][1].part = 1
        BY <1>3, <3>1 DEF WholeFrames
      <4> QED
        BY <1>1, <1>2, <1>3, <3>1, <4>1
    <3>2. CASE Len(stream[c]) = 0
      <4>1. c = tcpConn /\ stream'[c][1] = new
        BY <1>2, <2>2, <3>2
      <4> QED
        BY <1>5, <3>2, <4>1 DEF Streams, TypeOK
    <3> QED
      BY <1>3, <3>1, <3>2
  <2>3. \A c \in Conn : stream'[c] # <<>> => Len(stream'[c]) > 0
    BY DEF TypeOK
  <2> QED
    BY <2>1, <2>2, <2>3 DEF WholeFrames
<1>9. OneConnection'
  <2> SUFFICES ASSUME NEW c \in Conn, NEW d \in Conn, c # d,
                      NEW i \in 1..Len(stream'[c]), NEW j \in 1..Len(stream'[d])
               PROVE  stream'[c][i].frame # stream'[d][j].frame
    BY DEF OneConnection
  <2>1. ASSUME NEW b \in Conn, b # tcpConn, NEW k \in 1..Len(stream[b])
        PROVE  stream[b][k].frame # frame
    BY <1>5, <2>1 DEF Streams, Known
  <2>2. CASE c # tcpConn /\ d # tcpConn
    BY <1>2, <2>2 DEF OneConnection
  <2>3. CASE c = tcpConn
    <3>1. j \in 1..Len(stream[d]) /\ stream'[d][j] = stream[d][j]
      BY <1>2, <2>3
    <3>2. stream[d][j].frame # frame
      BY <2>1, <2>3, <3>1
    <3>3. \/ i \in 1..Len(stream[c]) /\ stream'[c][i] = stream[c][i]
          \/ stream'[c][i].frame = frame
      BY <1>4
    <3> QED
      BY <3>1, <3>2, <3>3 DEF OneConnection
  <2>4. CASE d = tcpConn
    <3>1. i \in 1..Len(stream[c]) /\ stream'[c][i] = stream[c][i]
      BY <1>2, <2>4
    <3>2. stream[c][i].frame # frame
      BY <2>1, <2>4, <3>1
    <3>3. \/ j \in 1..Len(stream[d]) /\ stream'[d][j] = stream[d][j]
          \/ stream'[d][j].frame = frame
      BY <1>4
    <3> QED
      BY <3>1, <3>2, <3>3 DEF OneConnection
  <2> QED
    BY <2>2, <2>3, <2>4
<1>10. ResultIsTrue'
  <2> SUFFICES ASSUME NEW f \in Frame
               PROVE  /\ result'[f] = "ok" => Whole(f)'
                      /\ result'[f] # "ok" => ~Whole(f)'
    BY DEF ResultIsTrue
  <2>1. /\ result'[f] = result[f] \/ (f = frame /\ result'[f] = "ok")
        /\ f = frame /\ written + 1 = Parts => result'[f] = "ok"
        /\ result'[f] = "ok" /\ result[f] # "ok" => f = frame /\ written + 1 = Parts
    BY <1>1 DEF Write, Return, TypeOK
  <2>2. Whole(f) => Whole(f)'
    <3>1. ASSUME NEW c \in Conn, NEW i \in 1..Len(stream[c])
          PROVE  i \in 1..Len(stream'[c]) /\ stream'[c][i] = stream[c][i]
      BY <1>2, <1>3, <3>1
    <3> QED
      BY <3>1 DEF Whole
  <2>3. f = frame /\ written + 1 = Parts => Whole(f)'
    BY <1>1, <1>2, <1>3 DEF Whole
  <2>4. Whole(f)' => Whole(f) \/ (f = frame /\ written + 1 = Parts)
    BY <1>4 DEF Whole
  <2> QED
    BY <2>1, <2>2, <2>3, <2>4 DEF ResultIsTrue
<1> QED
  BY <1>7, <1>8, <1>9, <1>10

(* The other properties speak of the streams and the results; a result is  *)
(* recorded for a frame of which no last part was taken.                   *)
LEMMA QuietStep ==
  ASSUME SenderInv, StreamInv, UNCHANGED stream, Streams',
         \/ UNCHANGED result
         \/ /\ result' = [result EXCEPT ![frame] = "error"]
            /\ frame \in Frame /\ result[frame] # "ok"
  PROVE  StreamInv'
<1>1. WholeFrames' /\ OneConnection'
  BY DEF StreamInv, WholeFrames, OneConnection, Follows
<1>2. ResultIsTrue'
  BY DEF SenderInv, TypeOK, StreamInv, ResultIsTrue, Whole
<1> QED
  BY <1>1, <1>2 DEF StreamInv

(* Every step preserves the invariant of the streams.                      *)
LEMMA StreamStep ==
  ASSUME SenderInv, StreamInv, [Next]_vars, SenderInv'
  PROVE  StreamInv'
<1> USE DEF Return, netVars, senderVars
<1>1. CASE Write
  BY <1>1, WriteStreams DEF StreamInv
<1>2. CASE Send
  <2>1. Streams'
    BY <1>2, QuietStreams DEF Send, SenderInv, TypeOK, Control
  <2> QED
    BY <1>2, <2>1, QuietStep DEF Send
<1>3. CASE Dial
  <2>1. Streams'
    BY <1>3, QuietStreams DEF Dial, SenderInv, TypeOK
  <2> QED
    BY <1>3, <2>1, QuietStep DEF Dial
<1>4. CASE DialFails
  <2>1. Streams'
    BY <1>4, QuietStreams DEF DialFails, SenderInv, TypeOK
  <2>2. frame \in Frame /\ result[frame] # "ok"
    BY <1>4 DEF DialFails, SenderInv, TypeOK, Control, Frame
  <2> QED
    BY <1>4, <2>1, <2>2, QuietStep DEF DialFails
<1>5. CASE SetWriteDeadline
  <2>1. Streams'
    BY <1>5, QuietStreams DEF SetWriteDeadline, SenderInv, TypeOK
  <2> QED
    BY <1>5, <2>1, QuietStep DEF SetWriteDeadline
<1>6. CASE SetWriteDeadlineFails \/ WriteFails
  <2>1. Streams'
    BY <1>6, QuietStreams DEF SetWriteDeadlineFails, WriteFails, closeTCP, SenderInv, TypeOK
  <2>2. frame \in Frame /\ result[frame] # "ok"
    BY <1>6 DEF SetWriteDeadlineFails, WriteFails, SenderInv, TypeOK, Control, Frame
  <2> QED
    BY <1>6, <2>1, <2>2, QuietStep DEF SetWriteDeadlineFails, WriteFails
<1>7. CASE Close
  <2>1. Streams'
    BY <1>7, QuietStreams DEF Close, closeTCP, SenderInv, TypeOK
  <2> QED
    BY <1>7, <2>1, QuietStep DEF Close
<1>8. CASE (\E c \in attached : Read(c) \/ Detach(c)) \/ Crash \/ Restart \/ UNCHANGED vars
  <2>1. UNCHANGED <<senderVars, dialled, stream>>
    BY <1>8 DEF Read, Detach, Crash, Restart, vars
  <2>2. Streams'
    BY <2>1, QuietStreams DEF SenderInv, TypeOK
  <2> QED
    BY <2>1, <2>2, QuietStep
<1> QED
  BY <1>1, <1>2, <1>3, <1>4, <1>5, <1>6, <1>7, <1>8 DEF Next, InSend

(* The two invariants hold throughout.                                     *)
LEMMA Invariance == Spec => [](SenderInv /\ StreamInv)
<1>1. SenderInv /\ StreamInv /\ [Next]_vars => (SenderInv /\ StreamInv)'
  BY SenderStep, StreamStep
<1> QED
  BY <1>1, InitInv, PTL DEF Spec

-----------------------------------------------------------------------------
(* The fields of the Sender, the streams and the results keep their shape  *)
(* whatever dial, deadline or write fails.                                 *)
THEOREM TypeCorrect == Spec => []TypeOK
<1>1. SenderInv => TypeOK
  BY DEF SenderInv
<1> QED
  BY <1>1, Invariance, PTL

(* closeTCP after every failure: the process holds the descriptor of the   *)
(* current connection and no other.                                        *)
THEOREM LeakFree == Spec => []NoLeak
<1>1. SenderInv => NoLeak
  BY DEF SenderInv
<1> QED
  BY <1>1, Invariance, PTL

(* No connection ever carries anything after a frame that was cut short.   *)
THEOREM FramesWhole == Spec => []WholeFrames
<1>1. StreamInv => WholeFrames
  BY DEF StreamInv
<1> QED
  BY <1>1, Invariance, PTL

(* A frame is never continued or repeated on another connection.           *)
THEOREM FramesOnce == Spec => []OneConnection
<1>1. StreamInv => OneConnection
  BY DEF StreamInv
<1> QED
  BY <1>1, Invariance, PTL

(* sendTCP returns nil for exactly the frames that were taken whole.       *)
THEOREM ResultCorrect == Spec => []ResultIsTrue
<1>1. StreamInv => ResultIsTrue
  BY DEF StreamInv
<1> QED
  BY <1>1, Invariance, PTL
=============================================================================
