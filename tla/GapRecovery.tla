----------------------------- MODULE GapRecovery -----------------------------
(***************************************************************************)
(* Recovery of lost frames end to end: the gap tracker of GapTracker       *)
(* together with the proxy that numbers the frames, the retry endpoints    *)
(* that cache them, and the networks between them.                         *)
(*                                                                         *)
(* The proxy multicasts frame after frame; each copy, to the listener and  *)
(* to every endpoint, arrives or is lost.  A sendNACK goroutine asks one   *)
(* endpoint and waits on a socket of its own; the endpoint answers MISS,   *)
(* or answers ACK and multicasts the frame again.  The proxy and the       *)
(* endpoints are other programs: they are modelled from what nack.go sends *)
(* to them and expects of them.  The listing of the endpoints does not     *)
(* change here, and the context is not cancelled.                          *)
(***************************************************************************)
EXTENDS GapTracker

CONSTANTS
  MaxLoss,  \* bound: NACKs and answers that are lost, or not even sent
  Holders   \* the sets of endpoints that a published frame may reach

ASSUME NetworkAssumption == MaxLoss \in Nat /\ Holders \subseteq SUBSET Endpoint

VARIABLES
  published,  \* the last number the proxy has given out, per flow
  inFlight,   \* the frames on their way to the listener, per flow
  cache,      \* per endpoint: the frames it holds, as <<hashKey, seqNum>>
  wire,       \* per token: what is under way between sendNACK and its endpoint
  asked,      \* per token: the endpoint that was asked, if any
  losses,     \* NACKs and answers lost so far
  dropped,    \* history: frames whose retransmission was lost after an ACK
  tried       \* history: the endpoints asked for a frame

netVars == <<published, inFlight, cache, wire, asked, losses, dropped, tried>>
allVars == <<vars, netVars>>

FrameId == HashKey \X SeqNum

RecoveryInit ==
  /\ Init
  /\ published = [h \in HashKey |-> 0]
  /\ inFlight = [h \in HashKey |-> {}]
  /\ cache = [e \in Endpoint |-> {}]
  /\ wire = [t \in Slots |-> "none"]
  /\ asked = [t \in Slots |-> {}]
  /\ losses = 0
  /\ dropped = {}
  /\ tried = [f \in FrameId |-> {}]

-----------------------------------------------------------------------------
(* The proxy and the fabric.                                               *)

\* The next frame of a flow, which reaches the listener or not, and `holders'.
Publish(h) ==
  /\ published[h] < MaxSeq
  /\ published' = [published EXCEPT ![h] = @ + 1]
  /\ \E arrives \in BOOLEAN, holders \in Holders :
       /\ inFlight' = [inFlight EXCEPT ![h] =
                         IF arrives THEN @ \cup {published[h] + 1} ELSE @]
       /\ cache' = [e \in Endpoint |->
                      IF e \in holders THEN cache[e] \cup {<<h, published[h] + 1>>}
                      ELSE cache[e]]
  /\ UNCHANGED <<vars, wire, asked, losses, dropped, tried>>

\* A worker receives a frame, the original or a retransmission.
Arrive(h, s) ==
  /\ s \in inFlight[h]
  /\ Observe(h, s)
  /\ inFlight' = [inFlight EXCEPT ![h] = @ \ {s}]
  /\ UNCHANGED <<published, cache, wire, asked, losses, dropped, tried>>

-----------------------------------------------------------------------------
(* sendNACK and the endpoint it asks.                                      *)

\* Faulty variant: the index wraps around at the end of the listing.
TargetWraps(idx) == endpoints[(idx % Len(endpoints)) + 1]

\* The index is clamped to the last endpoint of the listing.
Target(idx) == endpoints[(IF idx >= Len(endpoints) THEN Len(endpoints) - 1 ELSE idx) + 1]

Ask(t) ==
  LET job == senders[t].job
  IN  /\ SendNACK(t)
      /\ wire' = [wire EXCEPT ![t] = "NACK"]
      /\ asked' = [asked EXCEPT ![t] = {Target(job.endpointIdx)}]
      /\ tried' = [tried EXCEPT ![<<job.hashKey, job.seqNum>>] =
                     @ \cup {Target(job.endpointIdx)}]
      /\ UNCHANGED <<published, inFlight, cache, losses, dropped>>

\* Nobody is known, or the attempt fails before anything is sent.
AskNobody(t) ==
  /\ SendNoEndpoint(t)
  /\ UNCHANGED netVars

AskFails(t) ==
  LET job == senders[t].job
  IN  /\ losses < MaxLoss
      /\ SendError(t)
      /\ losses' = losses + 1
      /\ tried' = [tried EXCEPT ![<<job.hashKey, job.seqNum>>] =
                     @ \cup {Target(job.endpointIdx)}]
      /\ UNCHANGED <<published, inFlight, cache, wire, asked, dropped>>

\* The endpoint does not hold the frame.
AnswerMISS(t) ==
  /\ wire[t] = "NACK"
  /\ \A e \in asked[t] : <<senders[t].job.hashKey, senders[t].job.seqNum>> \notin cache[e]
  /\ wire' = [wire EXCEPT ![t] = "MISS"]
  /\ UNCHANGED <<vars, published, inFlight, cache, asked, losses, dropped, tried>>

\* It does: it answers and multicasts the frame again.
AnswerACK(t) ==
  LET h == senders[t].job.hashKey
      s == senders[t].job.seqNum
  IN  /\ wire[t] = "NACK"
      /\ \E e \in asked[t] : <<h, s>> \in cache[e]
      /\ wire' = [wire EXCEPT ![t] = "ACK"]
      /\ \/ /\ inFlight' = [inFlight EXCEPT ![h] = @ \cup {s}]
            /\ UNCHANGED dropped
         \/ /\ dropped' = dropped \cup {<<h, s>>}
            /\ UNCHANGED inFlight
      /\ UNCHANGED <<vars, published, cache, asked, losses, tried>>

\* A NACK or an answer is lost on its way.
Lose(t) ==
  /\ wire[t] # "none" /\ losses < MaxLoss
  /\ wire' = [wire EXCEPT ![t] = "none"]
  /\ losses' = losses + 1
  /\ UNCHANGED <<vars, published, inFlight, cache, asked, dropped, tried>>

Answered(t) ==
  /\ wire' = [wire EXCEPT ![t] = "none"]
  /\ asked' = [asked EXCEPT ![t] = {}]
  /\ UNCHANGED <<published, inFlight, cache, losses, dropped, tried>>

GetACK(t) == wire[t] = "ACK" /\ ReceiveACK(t) /\ Answered(t)

GetMISS(t) == wire[t] = "MISS" /\ ReceiveMISS(t) /\ Answered(t)

\* The answer is damaged on its way, which costs as much as a lost one.
GetGarbled(t) ==
  /\ wire[t] \in {"ACK", "MISS"} /\ losses < MaxLoss
  /\ ReceiveInvalid(t)
  /\ wire' = [wire EXCEPT ![t] = "none"]
  /\ asked' = [asked EXCEPT ![t] = {}]
  /\ losses' = losses + 1
  /\ UNCHANGED <<published, inFlight, cache, dropped, tried>>

GiveUpWaiting(t) == Timeout(t) /\ Answered(t)

-----------------------------------------------------------------------------
(* Time passes only when no goroutine and no endpoint has anything to do:  *)
(* what is shown here does not owe itself to a slow scheduler, and what is *)
(* refuted is not refuted by one.                                          *)

Busy ==
  \/ DueGaps # {}
  \/ held = <<>> /\ queue # <<>>
  \/ held # <<>> /\ Slots \ DOMAIN senders # {}
  \/ \E t \in DOMAIN senders :
       senders[t].phase = "start" \/ wire[t] # "none" \/ senders[t].wait = 0

Pass == ~Busy /\ Tick /\ UNCHANGED netVars

Asking(t) ==
  \/ Ask(t) \/ AskNobody(t) \/ AskFails(t)
  \/ AnswerMISS(t) \/ AnswerACK(t) \/ Lose(t)
  \/ GetACK(t) \/ GetMISS(t) \/ GetGarbled(t) \/ GiveUpWaiting(t)

Dispatching == (Sweep \/ Take \/ Spawn) /\ UNCHANGED netVars

RecoveryNext ==
  \/ \E h \in HashKey : Publish(h)
  \/ \E h \in HashKey, s \in SeqNum : Arrive(h, s)
  \/ Dispatching
  \/ \E t \in DOMAIN senders : Asking(t)
  \/ Pass

RecoverySpec == RecoveryInit /\ [][RecoveryNext]_allVars

(* The sweeper, the dispatcher and the goroutines run, endpoints answer    *)
(* what reaches them, and a retransmission that is not lost arrives.       *)
RecoveryFairness ==
  /\ WF_allVars(Pass)
  /\ WF_allVars(Sweep /\ UNCHANGED netVars)
  /\ WF_allVars(Take /\ UNCHANGED netVars)
  /\ WF_allVars(Spawn /\ UNCHANGED netVars)
  /\ \A t \in Slots :
       WF_allVars(t \in DOMAIN senders /\
                  (\/ Ask(t) \/ AskNobody(t) \/ AnswerMISS(t) \/ AnswerACK(t)
                   \/ GetACK(t) \/ GetMISS(t) \/ GiveUpWaiting(t)))
  /\ \A h \in HashKey, s \in SeqNum : WF_allVars(Arrive(h, s))

FairRecovery == RecoverySpec /\ RecoveryFairness

-----------------------------------------------------------------------------
(* If the last endpoint of the listing holds a missing frame, the listener *)
(* gets it: MISSes, lost NACKs and lost answers only move the gap towards  *)
(* that endpoint, where sendNACK stays.  The one exception is a            *)
(* retransmission lost after its ACK, because the ACK closes the gap.      *)
(* MaxRetries must exceed MaxLoss by the endpoints before the last one,    *)
(* and GapTTL must leave the time for that many attempts.                  *)
DeepestRecovers ==
  \A h \in HashKey, s \in SeqNum :
    s \in DOMAIN pending[h] /\ endpoints # <<>> /\ <<h, s>> \in cache[endpoints[Len(endpoints)]]
      ~> s \in seen[h] \/ <<h, s>> \in dropped

GapOf(job) == <<job.hashKey, job.seqNum>>

(* No gap is under way twice: what the sweep stamps on an entry outlasts   *)
(* the copy it queues, so that the copy has left the queue and its         *)
(* sendNACK has returned before the sweep can queue another.  This takes   *)
(* as many tokens as gaps under way (recovery_tried has fewer), and that   *)
(* no flow is reset or evicted while a gap of it is under way: its numbers *)
(* could become gaps again.                                                *)
OneCopy ==
  LET waiting == held \o queue
  IN  /\ \A i, j \in DOMAIN waiting : GapOf(waiting[i]) = GapOf(waiting[j]) => i = j
      /\ \A t, u \in DOMAIN senders :
           GapOf(senders[t].job) = GapOf(senders[u].job) => t = u
      /\ \A t \in DOMAIN senders, job \in Range(waiting) :
           GapOf(senders[t].job) # GapOf(job)

(* Gaps that the sweep gives up for their retries.                         *)
GivenUp(h) == {s \in HopelessGaps(h) : pending[h][s].deadline >= 0}

(* "set NACK_MAX_RETRIES=8 to ensure all entries are tried before          *)
(* eviction": when MaxRetries is at least the number of listed endpoints,  *)
(* a gap given up for its retries has been asked for at each of them.      *)
AllTriedBeforeEviction ==
  [][\A h \in HashKey : \A s \in GivenUp(h) :
       Sweep /\ MaxRetries >= Len(endpoints) => Range(endpoints) \subseteq tried[<<h, s>>]]_allVars

\* An attempt that ended without an answer that can be used.
InVain(t) == AskFails(t) \/ GetGarbled(t) \/ GiveUpWaiting(t)

\* 500 ms << retries is still a time.Duration.
Fits(retries) == 2^retries * BackoffBase < Modulus \div 2

(* After an attempt in vain the gap waits for its backoff: never for more  *)
(* than BackoffMax, and for at least BackoffBase unless the shift and the  *)
(* product in advanceEndpoint overflow, which MaxRetries does not prevent. *)
(* When they do, the gap may be due at once.                               *)
BacksOff ==
  [][\A t \in DOMAIN senders :
       LET h == senders[t].job.hashKey
           s == senders[t].job.seqNum
       IN  InVain(t) /\ s \in DOMAIN pending[h] =>
             /\ pending'[h][s].nextAttempt <= BackoffMax
             /\ Fits(pending'[h][s].retries) =>
                  \/ pending'[h][s].nextAttempt >= BackoffBase
                  \/ pending'[h][s].nextAttempt = BackoffMax]_allVars

(* "Out-of-order or retransmitted frames (seqNum <= lastSeqNum) are        *)
(* silently accepted; ... never regress lastSeqNum": here the proxy never  *)
(* starts again, so the frame that fills a pending gap leaves lastSeqNum   *)
(* where it is.  The restart rule of Observe takes a low enough number for *)
(* a restart all the same, and drops the flow's gaps.                      *)
FillNeverRegresses ==
  [][\A h \in HashKey : \A s \in DOMAIN pending[h] :
       Arrive(h, s) => lastSeqNum'[h] >= lastSeqNum[h]]_allVars
=============================================================================
