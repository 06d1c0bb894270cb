------------------------------ MODULE TCPEgress ------------------------------
(***************************************************************************)
(* The TCP half of egress.Sender: one lazily dialled connection to the     *)
(* downstream, which one worker writes frame after frame.                  *)
(*                                                                         *)
(* The frames of the worker are numbered 1, 2, ... in the order of its     *)
(* calls.  A frame is Parts parts long; the kernel takes them one by one,  *)
(* so a Write can fail after some of them.  What the kernel has taken is   *)
(* `stream', what the downstream has read of it is a prefix.  The network, *)
(* the downstream and the kernel are external: a dial or a Write may fail  *)
(* at any moment (refused, reset, its five seconds are over), and a Write  *)
(* to a downstream that has gone may still succeed, because its reset has  *)
(* not arrived yet.  A connection that the sender closes is shut down in   *)
(* order: the downstream may still read what was written to it.            *)
(***************************************************************************)
EXTENDS Integers, Sequences, FiniteSets

CONSTANTS
  MaxFrames,  \* bound of the model: frames the worker forwards
  Parts,      \* parts of a frame
  MaxDials,   \* bound of the model: connections that come about
  SendBuffer  \* parts the kernels hold before a Write blocks

ASSUME SizeAssumption ==
  /\ MaxFrames \in Nat /\ MaxDials \in Nat
  /\ Parts \in Nat \ {0} /\ SendBuffer \in Nat \ {0}

VARIABLES
  tcpConn,    \* Sender.tcpConn; 0: nil
  at,         \* where the worker is in sendTCP, or outside of it
  frame,      \* the number of the last frame passed to Send
  written,    \* parts of it that the kernel has taken in this call
  result,     \* what Send returned, per frame
  open,       \* the descriptors of connections that the process holds
  dialled,    \* connections dialled so far
  stream,     \* per connection: the parts the kernel has taken, in order
  read,       \* per connection: how many of them the downstream has read
  listening,  \* the downstream accepts connections
  attached    \* the connections that the downstream still reads

senderVars == <<tcpConn, at, frame, written, result, open>>
netVars    == <<dialled, stream, read, listening, attached>>
vars == <<tcpConn, at, frame, written, result, open, dialled, stream, read,
          listening, attached>>

Frame == 1..MaxFrames
Conn == 1..MaxDials
Part == [frame : Frame, part : 1..Parts]

Init ==
  /\ tcpConn = 0 /\ at = "outside" /\ frame = 0 /\ written = 0
  /\ result = [f \in Frame |-> "none"]
  /\ open = {}
  /\ dialled = 0
  /\ stream = [c \in Conn |-> <<>>]
  /\ read = [c \in Conn |-> 0]
  /\ listening \in BOOLEAN
  /\ attached = {}

-----------------------------------------------------------------------------
(* The sender.                                                             *)

\* The worker forwards its next frame; the connection is dialled lazily.
Send ==
  /\ at = "outside" /\ frame < MaxFrames
  /\ frame' = frame + 1
  /\ written' = 0
  /\ at' = IF tcpConn = 0 THEN "dial" ELSE "deadline"
  /\ UNCHANGED <<tcpConn, result, open, netVars>>

Return(outcome) ==
  /\ at' = "outside"
  /\ result' = [result EXCEPT ![frame] = outcome]

\* Faulty variant: the field is cleared, the connection is not closed.
ForgetTCP ==
  /\ tcpConn' = 0
  /\ UNCHANGED open

\* Faulty variant: the connection is kept for the next frame.
KeepTCP == UNCHANGED <<tcpConn, open>>

closeTCP ==
  /\ tcpConn' = 0
  /\ open' = open \ {tcpConn}

\* Dialling takes the next connection and a descriptor for it.
Dial ==
  /\ at = "dial"
  /\ listening /\ dialled < MaxDials
  /\ dialled' = dialled + 1
  /\ tcpConn' = dialled + 1
  /\ open' = open \cup {dialled + 1}
  /\ attached' = attached \cup {dialled + 1}
  /\ at' = "deadline"
  /\ UNCHANGED <<frame, written, result, stream, read, listening>>

\* Refused, unreachable, or DialTimeout is over.
DialFails ==
  /\ at = "dial"
  /\ Return("error")
  /\ UNCHANGED <<tcpConn, open, frame, written, netVars>>

SetWriteDeadline ==
  /\ at = "deadline"
  /\ at' = "write"
  /\ UNCHANGED <<tcpConn, frame, written, result, open, netVars>>

SetWriteDeadlineFails ==
  /\ at = "deadline"
  /\ closeTCP
  /\ Return("error")
  /\ UNCHANGED <<frame, written, netVars>>

\* The kernel takes the next part; Write returns when it has the last one.
Write ==
  /\ at = "write"
  /\ Len(stream[tcpConn]) - read[tcpConn] < SendBuffer
  /\ stream' = [stream EXCEPT ![tcpConn] =
                  Append(@, [frame |-> frame, part |-> written + 1])]
  /\ written' = written + 1
  /\ IF written + 1 = Parts THEN Return("ok") ELSE UNCHANGED <<at, result>>
  /\ UNCHANGED <<tcpConn, frame, open, dialled, read, listening, attached>>

\* Faulty variant: Write has no deadline and fails only on a reset.
WriteFailsOnReset ==
  /\ at = "write"
  /\ tcpConn \notin attached
  /\ closeTCP
  /\ Return("error")
  /\ UNCHANGED <<frame, written, netVars>>

\* Faulty variant: the error is dropped and the frame reported as sent.
WriteErrorDropped ==
  /\ at = "write"
  /\ closeTCP
  /\ Return("ok")
  /\ UNCHANGED <<frame, written, netVars>>

\* Faulty variant: the rest of the frame is sent on a new connection.
WriteResumes ==
  /\ at = "write"
  /\ closeTCP
  /\ at' = "dial"
  /\ UNCHANGED <<frame, written, result, netVars>>

\* The connection is reset, or the write deadline is over.
WriteFails ==
  /\ at = "write"
  /\ closeTCP
  /\ Return("error")
  /\ UNCHANGED <<frame, written, netVars>>

\* Close, which run defers until the workers have returned.
Close ==
  /\ at = "outside"
  /\ closeTCP
  /\ at' = "closed"
  /\ UNCHANGED <<frame, written, result, netVars>>

-----------------------------------------------------------------------------
(* The downstream and the network.                                         *)

Read(c) ==
  /\ c \in attached /\ read[c] < Len(stream[c])
  /\ read' = [read EXCEPT ![c] = @ + 1]
  /\ UNCHANGED <<senderVars, dialled, stream, listening, attached>>

\* The downstream closes the connection, or the network resets it.
Detach(c) ==
  /\ attached' = attached \ {c}
  /\ UNCHANGED <<senderVars, dialled, stream, read, listening>>

Crash ==
  /\ listening' = FALSE
  /\ attached' = {}
  /\ UNCHANGED <<senderVars, dialled, stream, read>>

Restart ==
  /\ listening' = TRUE
  /\ UNCHANGED <<senderVars, dialled, stream, read, attached>>

-----------------------------------------------------------------------------
InSend == Dial \/ DialFails \/ SetWriteDeadline \/ SetWriteDeadlineFails \/ Write \/ WriteFails

Next ==
  \/ Send
  \/ InSend
  \/ Close
  \/ \E c \in attached : Read(c) \/ Detach(c)
  \/ Crash
  \/ Restart

Spec == Init /\ [][Next]_vars

(* The worker's goroutine is scheduled, and the two timeouts expire: a     *)
(* call that can neither go on nor fail otherwise fails then.  Nothing is  *)
(* promised of the downstream.                                             *)
FairSpec == Spec /\ WF_vars(DialFails) /\ WF_vars(SetWriteDeadline) /\ WF_vars(WriteFails)

-----------------------------------------------------------------------------
(* The state of a Sender and of the connections it has used.               *)
TypeOK ==
  /\ tcpConn \in 0..dialled
  /\ at \in {"outside", "dial", "deadline", "write", "closed"}
  /\ frame \in 0..MaxFrames
  /\ written \in 0..Parts
  /\ result \in [Frame -> {"none", "ok", "error"}]
  /\ open \subseteq Conn
  /\ dialled \in 0..MaxDials
  /\ stream \in [Conn -> Seq(Part)]
  /\ read \in [Conn -> Nat]
  /\ listening \in BOOLEAN
  /\ attached \subseteq Conn

\* Part q may follow part p on a connection.
Follows(p, q) ==
  IF p.part < Parts
  THEN q.frame = p.frame /\ q.part = p.part + 1
  ELSE q.frame > p.frame /\ q.part = 1

(* On every connection the downstream reads whole frames, in the order in  *)
(* which they were sent: only the last one may be cut short, and nothing   *)
(* ever follows a frame that was.  sendTCP closes a connection on which a  *)
(* Write has failed, whatever the failure was.                             *)
WholeFrames ==
  \A c \in Conn :
    /\ stream[c] # <<>> => stream[c][1].part = 1
    /\ \A i \in 1..(Len(stream[c]) - 1) : Follows(stream[c][i], stream[c][i + 1])

(* No frame is spread over two connections or sent on both: a consumer     *)
(* that reconnects never sees the same frame twice.                        *)
OneConnection ==
  \A c, d \in Conn : c # d =>
    \A i \in 1..Len(stream[c]), j \in 1..Len(stream[d]) :
      stream[c][i].frame # stream[d][j].frame

Whole(f) == \E c \in Conn : \E i \in 1..Len(stream[c]) :
               stream[c][i] = [frame |-> f, part |-> Parts]

(* The worker's metrics can trust the result: Send returns nil for exactly *)
(* the frames that the kernel has taken whole, so a frame counted as an    *)
(* egress error never arrives complete afterwards.                         *)
ResultIsTrue ==
  \A f \in Frame : /\ result[f] = "ok" => Whole(f)
                   /\ result[f] # "ok" => ~Whole(f)

(* The process holds the descriptor of the current connection and no other,*)
(* however many dials and writes have failed, and none after Close.        *)
NoLeak == open = IF tcpConn = 0 THEN {} ELSE {tcpConn}

(* A worker never hangs in Send, even if the downstream neither reads nor  *)
(* closes: DialTimeout and the write deadline end every call.              *)
SendReturns == at \in {"dial", "deadline", "write"} ~> at = "outside"
=============================================================================
