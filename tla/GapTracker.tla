------------------------------ MODULE GapTracker ------------------------------
(***************************************************************************)
(* The gap tracker and NACK dispatcher of nack/nack.go.                    *)
(*                                                                         *)
(* A listener worker calls Observe for every sequenced frame.  Each flow   *)
(* (a HashKey) remembers the highest sequence number it has seen and a map *)
(* `pending' of the numbers it skipped.  The sweeper goroutine (gcLoop)    *)
(* evicts hopeless gaps and copies due ones into the bounded nackQueue;    *)
(* the dispatcher goroutine takes a copy, acquires a semaphore token and   *)
(* spawns a sendNACK goroutine, which asks one retry endpoint and applies  *)
(* its answer to whatever gap then has the same (hashKey, seqNum).         *)
(*                                                                         *)
(* Time.  The code compares time.Now() with stored instants.  The model    *)
(* stores the ticks that remain until the instant (-1: now.After holds)    *)
(* and, for lastSeen, the ticks since it; Tick lets one tick pass.  The    *)
(* clock itself is therefore unbounded and the state space is finite.      *)
(* Nothing forces a goroutine to run before the next tick.                 *)
(***************************************************************************)
EXTENDS Integers, Sequences, FiniteSets, Functions

CONSTANTS
  HashKey,            \* flows: sender x group x subtree
  MaxSeq,             \* largest sequence number (2^64 - 1 in the code)
  Slots,              \* the tokens of the semaphore `sem' (64 in the code)
  QueueCap,           \* capacity of nackQueue (4096 in the code)
  Endpoint,           \* retry endpoints
  Snapshots,          \* what Registry.Snapshot may return
  SeqResetThreshold,  \* TrackerConfig.SeqResetThreshold, its default applied
  MaxRetries, JitterMax, GapTTL, TailTTL, BackoffMax,   \* TrackerConfig
  RespTimeout,        \* respTimeout (300 ms)
  SweepSlack,         \* added to respTimeout by sweepOnce (100 ms)
  BackoffBase,        \* 500 ms
  Modulus,            \* 2^64, the range of a time.Duration
  MaxGaps             \* bound of the model: gaps detected in one flow

ASSUME FlowAssumption == IsFiniteSet(HashKey)

ASSUME CountAssumption ==
  /\ MaxSeq \in Nat /\ QueueCap \in Nat /\ MaxGaps \in Nat
  /\ SeqResetThreshold \in Nat \ {0}
  /\ MaxRetries \in Int

ASSUME TimeAssumption ==
  /\ JitterMax \in Nat /\ GapTTL \in Nat /\ TailTTL \in Nat
  /\ BackoffMax \in Nat /\ BackoffBase \in Nat
  /\ RespTimeout \in Nat /\ SweepSlack \in Nat
  /\ Modulus \in Nat \ {0}

ASSUME SnapshotAssumption == \A snap \in Snapshots : snap \in Seq(Endpoint)

VARIABLES
  lastSeqNum,  \* flowState.lastSeqNum per flow; 0: no entry in Tracker.flows
  pending,     \* flowState.pending per flow: seqNum -> gapEntry
  idle,        \* ticks since flowState.lastSeen, saturating
  queue,       \* nackQueue: copies of gap entries
  held,        \* the dispatcher's local copy while it waits for a token
  senders,     \* the running sendNACK goroutines, by the token they hold
  endpoints,   \* what Registry.Snapshot returns at this moment
  ctxDone,     \* the context passed to Start is cancelled
  loops,       \* the background loops that are still running
  detected, suppressed, unrecovered,   \* the three gap metrics, per flow
  first,       \* history: number that opened the flow, or reset it
  seen,        \* history: numbers observed since then
  gone         \* history: gaps closed since then without an observation

flowVars    == <<lastSeqNum, pending, idle>>
nackVars    == <<queue, held, senders>>
loopVars    == <<ctxDone, loops>>
metricVars  == <<detected, suppressed, unrecovered>>
historyVars == <<first, seen, gone>>
vars == <<lastSeqNum, pending, idle, queue, held, senders, endpoints, ctxDone,
          loops, detected, suppressed, unrecovered, first, seen, gone>>

SeqNum == 1..MaxSeq
NoGaps == [s \in {} |-> 0]

\* gapEntry: groupIdx and subtreeID are determined by the flow.
GapEntry == [retries : Nat, endpointIdx : Nat, nextAttempt : Int, deadline : Int]

\* The shallow copy of a gapEntry that travels through nackQueue.
Job == [hashKey : HashKey, seqNum : SeqNum, endpointIdx : Nat]

Sender == [job : Job, phase : {"start", "waiting"}, numEndpoints : Nat, wait : Nat]

FlowTTL == IF TailTTL <= 0 THEN GapTTL ELSE TailTTL

Init ==
  /\ lastSeqNum = [h \in HashKey |-> 0]
  /\ pending = [h \in HashKey |-> NoGaps]
  /\ idle = [h \in HashKey |-> 0]
  /\ queue = <<>>
  /\ held = <<>>
  /\ senders = [t \in {} |-> 0]
  /\ endpoints \in Snapshots
  /\ ctxDone = FALSE
  /\ loops = {"gc", "dispatch"}
  /\ detected = [h \in HashKey |-> 0]
  /\ suppressed = [h \in HashKey |-> 0]
  /\ unrecovered = [h \in HashKey |-> 0]
  /\ first = [h \in HashKey |-> 0]
  /\ seen = [h \in HashKey |-> {}]
  /\ gone = [h \in HashKey |-> {}]

-----------------------------------------------------------------------------
(* Observe: the cases of the code, after the auto-fill step they share.    *)

\* delete(fs.pending, seqNum); a no-op when the number is not pending.
Without(gaps, s) == Restrict(gaps, DOMAIN gaps \ {s})

\* Faulty variant: counts a deletion that found nothing.
CountAlways(counter, h, s) == [counter EXCEPT ![h] = @ + 1]

\* The counting of a deletion that happens only if the number was pending.
CountFound(counter, h, s) ==
  IF s \in DOMAIN pending[h] THEN [counter EXCEPT ![h] = @ + 1] ELSE counter

NewGap(jitter) ==
  [retries |-> 0, endpointIdx |-> 0, nextAttempt |-> jitter, deadline |-> GapTTL]

\* Faulty variant: the loop starts one late.
MissingSkipsOne(last, s) == (last + 2)..(s - 1)

Missing(last, s) == (last + 1)..(s - 1)

IsRestart(last, s) == s <= SeqResetThreshold /\ last > SeqResetThreshold

AutoFill(h, s) ==
  /\ s # 0
  /\ idle' = [idle EXCEPT ![h] = 0]
  /\ suppressed' = CountFound(suppressed, h, s)
  /\ UNCHANGED <<nackVars, loopVars, endpoints>>

\* The first frame of a flow, which the code tracks from there on.
ObserveFirst(h, s) ==
  /\ AutoFill(h, s)
  /\ lastSeqNum[h] = 0
  /\ lastSeqNum' = [lastSeqNum EXCEPT ![h] = s]
  /\ first' = [first EXCEPT ![h] = s]
  /\ seen' = [seen EXCEPT ![h] = {s}]
  /\ UNCHANGED <<pending, detected, unrecovered, gone>>

\* A duplicate or a retransmission: fills a gap at most.
ObserveOld(h, s) ==
  /\ AutoFill(h, s)
  /\ lastSeqNum[h] # 0 /\ s <= lastSeqNum[h]
  /\ ~IsRestart(lastSeqNum[h], s)
  /\ pending' = [pending EXCEPT ![h] = Without(@, s)]
  /\ seen' = [seen EXCEPT ![h] = @ \cup {s}]
  /\ UNCHANGED <<lastSeqNum, detected, unrecovered, first, gone>>

\* A low number on an established flow is taken for a restart of the proxy.
ObserveRestart(h, s) ==
  /\ AutoFill(h, s)
  /\ lastSeqNum[h] # 0 /\ s <= lastSeqNum[h]
  /\ IsRestart(lastSeqNum[h], s)
  /\ unrecovered' = [unrecovered EXCEPT ![h] = @ + Cardinality(DOMAIN pending[h] \ {s})]
  /\ pending' = [pending EXCEPT ![h] = NoGaps]
  /\ lastSeqNum' = [lastSeqNum EXCEPT ![h] = s]
  /\ first' = [first EXCEPT ![h] = s]
  /\ seen' = [seen EXCEPT ![h] = {s}]
  /\ gone' = [gone EXCEPT ![h] = {}]
  /\ UNCHANGED detected

\* The stream advances; every number it skips becomes a gap.
ObserveAdvance(h, s) ==
  /\ AutoFill(h, s)
  /\ lastSeqNum[h] # 0 /\ s > lastSeqNum[h]
  /\ LET gaps == Without(pending[h], s)
         new  == Missing(lastSeqNum[h], s) \ DOMAIN gaps
     IN  /\ detected[h] + Cardinality(new) <= MaxGaps
         /\ detected' = [detected EXCEPT ![h] = @ + Cardinality(new)]
         /\ \E jitter \in [new -> 0..JitterMax] :
              pending' = [pending EXCEPT ![h] =
                [m \in DOMAIN gaps \cup new |->
                   IF m \in new THEN NewGap(jitter[m]) ELSE gaps[m]]]
  /\ lastSeqNum' = [lastSeqNum EXCEPT ![h] = s]
  /\ seen' = [seen EXCEPT ![h] = @ \cup {s}]
  /\ UNCHANGED <<unrecovered, first, gone>>

Observe(h, s) ==
  \/ ObserveFirst(h, s)
  \/ ObserveOld(h, s)
  \/ ObserveRestart(h, s)
  \/ ObserveAdvance(h, s)

-----------------------------------------------------------------------------
(* Closing a gap without a frame: Fill, and cancelGap after an ACK.        *)

CloseGap(h, s) ==
  /\ pending' = [pending EXCEPT ![h] = Without(@, s)]
  /\ suppressed' = CountFound(suppressed, h, s)
  /\ gone' = IF s \in DOMAIN pending[h] THEN [gone EXCEPT ![h] = @ \cup {s}] ELSE gone
  /\ UNCHANGED <<lastSeqNum, idle, detected, unrecovered, first, seen>>

Fill(h, s) ==
  /\ s # 0
  /\ CloseGap(h, s)
  /\ UNCHANGED <<nackVars, loopVars, endpoints>>

-----------------------------------------------------------------------------
(* sweepOnce, which holds the tracker's mutex throughout.                  *)

\* Faulty variant: the deadline is not looked at.
HopelessByRetries(e) == e.retries >= MaxRetries

Hopeless(e) == e.deadline < 0 \/ e.retries >= MaxRetries

Due(e) == ~Hopeless(e) /\ e.nextAttempt < 0

HopelessGaps(h) == {s \in DOMAIN pending[h] : Hopeless(pending[h][s])}

DueGaps ==
  {gap \in HashKey \X SeqNum :
     gap[2] \in DOMAIN pending[gap[1]] /\ Due(pending[gap[1]][gap[2]])}

\* The orders in which the map iteration can fill what is left of the queue.
Batches(gaps) ==
  LET free == QueueCap - Len(queue)
      size == IF Cardinality(gaps) <= free THEN Cardinality(gaps) ELSE free
  IN  {b \in [1..size -> gaps] : IsInjective(b)}

CopyOf(gap) ==
  [hashKey |-> gap[1], seqNum |-> gap[2],
   endpointIdx |-> pending[gap[1]][gap[2]].endpointIdx]

\* Faulty variant: a queued gap is due again at the next tick.
StampNothing(queued, e) == [e EXCEPT !.nextAttempt = 0]
\* A queued gap is stamped; one that found the queue full is due next tick.
Stamp(queued, e) ==
  [e EXCEPT !.nextAttempt = IF queued THEN RespTimeout + SweepSlack ELSE 0]

\* What remains of a flow's gaps when the gaps in `batch' were queued.
Swept(h, batch) ==
  [s \in DOMAIN pending[h] \ HopelessGaps(h) |->
     IF Due(pending[h][s])
     THEN Stamp(<<h, s>> \in Range(batch), pending[h][s])
     ELSE pending[h][s]]

\* Faulty variant: idle flows are never evicted.
NoIdleFlows == {}

\* Flows without gaps that no frame has refreshed for FlowTTL.
IdleFlows ==
  {h \in HashKey : /\ lastSeqNum[h] # 0
                   /\ DOMAIN pending[h] \subseteq HopelessGaps(h)
                   /\ idle[h] > FlowTTL}

Sweep ==
  /\ "gc" \in loops
  /\ \E batch \in Batches(DueGaps) :
       /\ queue' = queue \o [i \in 1..Len(batch) |-> CopyOf(batch[i])]
       /\ pending' = [h \in HashKey |-> Swept(h, batch)]
  /\ unrecovered' = [h \in HashKey |-> unrecovered[h] + Cardinality(HopelessGaps(h))]
  /\ lastSeqNum' = [h \in HashKey |-> IF h \in IdleFlows THEN 0 ELSE lastSeqNum[h]]
  /\ idle' = [h \in HashKey |-> IF h \in IdleFlows THEN 0 ELSE idle[h]]
  /\ first' = [h \in HashKey |-> IF h \in IdleFlows THEN 0 ELSE first[h]]
  /\ seen' = [h \in HashKey |-> IF h \in IdleFlows THEN {} ELSE seen[h]]
  /\ gone' = [h \in HashKey |-> IF h \in IdleFlows THEN {} ELSE gone[h] \cup HopelessGaps(h)]
  /\ UNCHANGED <<held, senders, endpoints, loopVars, detected, suppressed>>

-----------------------------------------------------------------------------
(* dispatchLoop.                                                           *)

Take ==
  /\ "dispatch" \in loops
  /\ held = <<>> /\ queue # <<>>
  /\ held' = <<Head(queue)>>
  /\ queue' = Tail(queue)
  /\ UNCHANGED <<flowVars, senders, endpoints, loopVars, metricVars, historyVars>>

Spawn ==
  /\ "dispatch" \in loops
  /\ held # <<>>
  /\ \E t \in Slots \ DOMAIN senders :
       senders' = [u \in DOMAIN senders \cup {t} |->
                     IF u = t
                     THEN [job |-> Head(held), phase |-> "start",
                           numEndpoints |-> 0, wait |-> 0]
                     ELSE senders[u]]
  /\ held' = <<>>
  /\ UNCHANGED <<flowVars, queue, endpoints, loopVars, metricVars, historyVars>>

-----------------------------------------------------------------------------
(* sendNACK, up to the NACK on the wire and from the answer on.            *)

\* Faulty variant: the goroutine ends and does not free its token.
ReturnKeepsToken(t) == senders' = [senders EXCEPT ![t].phase = "ended"]

\* The goroutine returns and its deferred receive frees the token.
Return(t) == senders' = Restrict(senders, DOMAIN senders \ {t})

\* A time.Duration product wraps around at Modulus.
Wrap(d) == ((d + Modulus \div 2) % Modulus) - Modulus \div 2

\* Faulty variant: shifts one place too far.
BackoffDoubled(retries) ==
  LET d == Wrap(2^(retries + 1) * BackoffBase)
  IN  IF d > BackoffMax THEN BackoffMax ELSE d

Backoff(retries) ==
  LET d == Wrap(2^retries * BackoffBase)
  IN  IF d > BackoffMax THEN BackoffMax ELSE d

\* A negative remainder is an instant in the past.
NextAttempt(retries, endpointIdx, immediate, numEndpoints) ==
  LET exhausted == numEndpoints > 0 /\ endpointIdx >= numEndpoints
  IN  IF immediate /\ ~exhausted THEN 0
      ELSE IF Backoff(retries) < 0 THEN -1 ELSE Backoff(retries)

\* Faulty variant: skips an endpoint.
AdvancedByTwo(e, immediate, numEndpoints) ==
  [retries |-> e.retries + 1, endpointIdx |-> e.endpointIdx + 2,
   nextAttempt |-> NextAttempt(e.retries + 1, e.endpointIdx + 2, immediate, numEndpoints),
   deadline |-> e.deadline]

Advanced(e, immediate, numEndpoints) ==
  [retries |-> e.retries + 1, endpointIdx |-> e.endpointIdx + 1,
   nextAttempt |-> NextAttempt(e.retries + 1, e.endpointIdx + 1, immediate, numEndpoints),
   deadline |-> e.deadline]

AdvanceEndpoint(job, immediate, numEndpoints) ==
  /\ pending' = IF job.seqNum \in DOMAIN pending[job.hashKey]
                THEN [pending EXCEPT ![job.hashKey] =
                        [pending[job.hashKey] EXCEPT ![job.seqNum] =
                           Advanced(pending[job.hashKey][job.seqNum], immediate, numEndpoints)]]
                ELSE pending
  /\ UNCHANGED <<lastSeqNum, idle, metricVars, historyVars>>

\* Snapshot is empty: the attempt ends and nothing is recorded.
SendNoEndpoint(t) ==
  /\ senders[t].phase = "start"
  /\ endpoints = <<>>
  /\ Return(t)
  /\ UNCHANGED <<flowVars, queue, held, endpoints, loopVars, metricVars, historyVars>>

\* The endpoint does not resolve, or no socket can be opened.
SendError(t) ==
  /\ senders[t].phase = "start"
  /\ endpoints # <<>>
  /\ AdvanceEndpoint(senders[t].job, FALSE, 0)
  /\ Return(t)
  /\ UNCHANGED <<queue, held, endpoints, loopVars>>

\* The NACK is on the wire and the read deadline is set.
SendNACK(t) ==
  /\ senders[t].phase = "start"
  /\ endpoints # <<>>
  /\ senders' = [senders EXCEPT ![t] =
       [job |-> senders[t].job, phase |-> "waiting",
        numEndpoints |-> Len(endpoints), wait |-> RespTimeout]]
  /\ UNCHANGED <<flowVars, queue, held, endpoints, loopVars, metricVars, historyVars>>

ReceiveACK(t) ==
  /\ senders[t].phase = "waiting"
  /\ CloseGap(senders[t].job.hashKey, senders[t].job.seqNum)
  /\ Return(t)
  /\ UNCHANGED <<queue, held, endpoints, loopVars>>

ReceiveMISS(t) ==
  /\ senders[t].phase = "waiting"
  /\ AdvanceEndpoint(senders[t].job, TRUE, senders[t].numEndpoints)
  /\ Return(t)
  /\ UNCHANGED <<queue, held, endpoints, loopVars>>

\* The read fails at its deadline.
Timeout(t) ==
  /\ senders[t].phase = "waiting" /\ senders[t].wait = 0
  /\ AdvanceEndpoint(senders[t].job, FALSE, 0)
  /\ Return(t)
  /\ UNCHANGED <<queue, held, endpoints, loopVars>>

\* A datagram that DecodeResponse rejects ends the attempt at once.
ReceiveInvalid(t) ==
  /\ senders[t].phase = "waiting"
  /\ AdvanceEndpoint(senders[t].job, FALSE, 0)
  /\ Return(t)
  /\ UNCHANGED <<queue, held, endpoints, loopVars>>

-----------------------------------------------------------------------------
(* The environment: the clock, the registry and the context.               *)

Countdown(ticks) == IF ticks < 0 THEN ticks ELSE ticks - 1

Aged(e) ==
  [retries |-> e.retries, endpointIdx |-> e.endpointIdx,
   nextAttempt |-> Countdown(e.nextAttempt), deadline |-> Countdown(e.deadline)]

Tick ==
  /\ pending' = [h \in HashKey |->
       [s \in DOMAIN pending[h] |-> Aged(pending[h][s])]]
  /\ idle' = [h \in HashKey |->
       IF lastSeqNum[h] # 0 /\ idle[h] <= FlowTTL THEN idle[h] + 1 ELSE idle[h]]
  /\ senders' = [t \in DOMAIN senders |->
       [senders[t] EXCEPT !.wait = IF @ > 0 THEN @ - 1 ELSE 0]]
  /\ UNCHANGED <<lastSeqNum, queue, held, endpoints, loopVars, metricVars, historyVars>>

RegistryChanges ==
  /\ endpoints' \in Snapshots
  /\ UNCHANGED <<flowVars, nackVars, loopVars, metricVars, historyVars>>

CancelContext ==
  /\ ctxDone' = TRUE
  /\ UNCHANGED <<flowVars, nackVars, endpoints, loops, metricVars, historyVars>>

\* A loop returns at its select; the dispatcher drops the copy it holds.
LoopReturns(loop) ==
  /\ ctxDone
  /\ loops' = loops \ {loop}
  /\ held' = IF loop = "dispatch" THEN <<>> ELSE held
  /\ UNCHANGED <<flowVars, queue, senders, endpoints, ctxDone, metricVars, historyVars>>

-----------------------------------------------------------------------------
Sending(t) ==
  \/ SendNoEndpoint(t)
  \/ SendError(t)
  \/ SendNACK(t)
  \/ ReceiveACK(t)
  \/ ReceiveMISS(t)
  \/ Timeout(t)
  \/ ReceiveInvalid(t)

Next ==
  \/ \E h \in HashKey, s \in SeqNum : Observe(h, s) \/ Fill(h, s)
  \/ Sweep
  \/ Take
  \/ Spawn
  \/ \E t \in DOMAIN senders : Sending(t)
  \/ Tick
  \/ RegistryChanges
  \/ CancelContext
  \/ \E loop \in loops : LoopReturns(loop)

Spec == Init /\ [][Next]_vars

(* The clock runs, the sweeper's ticker fires, the dispatcher is scheduled *)
(* and a sendNACK goroutine gets to its socket and back from its deadline. *)
(* No frame, answer, registry change or cancellation is ever promised.     *)
Fairness ==
  /\ WF_vars(Tick) /\ WF_vars(Sweep) /\ WF_vars(Take) /\ WF_vars(Spawn)
  /\ \A t \in Slots :
       /\ WF_vars(t \in DOMAIN senders /\ (SendNoEndpoint(t) \/ SendNACK(t)))
       /\ WF_vars(t \in DOMAIN senders /\ Timeout(t))

FairSpec == Spec /\ Fairness

-----------------------------------------------------------------------------
IsPendingMap(gaps) ==
  DOMAIN gaps \subseteq SeqNum /\ gaps \in [DOMAIN gaps -> GapEntry]

FlowType ==
  /\ lastSeqNum \in [HashKey -> 0..MaxSeq]
  /\ DOMAIN pending = HashKey
  /\ \A h \in HashKey : IsPendingMap(pending[h])
  /\ idle \in [HashKey -> Nat]

NackType ==
  /\ queue \in Seq(Job) /\ Len(queue) <= QueueCap
  /\ held \in Seq(Job) /\ Len(held) <= 1
  /\ DOMAIN senders \subseteq Slots
  /\ senders \in [DOMAIN senders -> Sender]

EnvironmentType ==
  /\ endpoints \in Snapshots
  /\ ctxDone \in BOOLEAN
  /\ loops \subseteq {"gc", "dispatch"}

MetricType ==
  /\ detected \in [HashKey -> Nat]
  /\ suppressed \in [HashKey -> Nat]
  /\ unrecovered \in [HashKey -> Nat]

HistoryType ==
  /\ first \in [HashKey -> 0..MaxSeq]
  /\ seen \in [HashKey -> SUBSET SeqNum]
  /\ gone \in [HashKey -> SUBSET SeqNum]

(* The state types of Tracker, flowState, gapEntry and the NACK pipeline,  *)
(* the capacity of nackQueue included.                                     *)
TypeOK == FlowType /\ NackType /\ EnvironmentType /\ MetricType /\ HistoryType

(* The numbers for which Observe keeps a gap lie strictly between the one  *)
(* that opened (or reset) the flow and the highest one seen.               *)
GapsInWindow ==
  \A h \in HashKey : DOMAIN pending[h] \subseteq (first[h] + 1)..(lastSeqNum[h] - 1)

(* No gap is pending for a frame that was observed since the flow was      *)
(* opened or reset, so no retry endpoint is asked for it again.            *)
NoPhantomGap == \A h \in HashKey : DOMAIN pending[h] \cap seen[h] = {}

(* No number is lost silently: each one up to lastSeqNum was observed, is  *)
(* pending, or had its gap closed (answered with ACK, expired, given up).  *)
NoSilentLoss ==
  \A h \in HashKey : lastSeqNum[h] # 0 =>
    first[h]..lastSeqNum[h] \subseteq seen[h] \cup DOMAIN pending[h] \cup gone[h]

(* The pending map is exactly the unresolved holes of the flow, however    *)
(* frames, answers, sweeps and restarts interleave: the three together.    *)
WindowExact == GapsInWindow /\ NoPhantomGap /\ NoSilentLoss

(* The inductive form of the three invariants above: besides them, a       *)
(* tracked flow was opened by a number up to lastSeqNum, and nothing       *)
(* beyond lastSeqNum was seen, so that the numbers a later frame skips     *)
(* are neither seen nor pending yet.                                       *)
FlowOpened ==
  \A h \in HashKey :
    /\ lastSeqNum[h] # 0 => first[h] \in 1..lastSeqNum[h]
    /\ seen[h] \subseteq 1..lastSeqNum[h]

WindowInv == FlowOpened /\ GapsInWindow /\ NoPhantomGap /\ NoSilentLoss

(* Every gap that GapDetected counts is, at any later moment, pending or   *)
(* counted exactly once by GapSuppressed or GapUnrecovered, whatever       *)
(* races a frame, an ACK, the sweeper and a restart run for it.            *)
GapAccounting ==
  \A h \in HashKey :
    detected[h] = suppressed[h] + unrecovered[h] + Cardinality(DOMAIN pending[h])

(* While the sweeper runs, every gap is eventually closed: by its frame,   *)
(* by an ACK, or by sweepOnce when its deadline or its retries run out.    *)
GapResolved ==
  \A h \in HashKey, s \in SeqNum :
    s \in DOMAIN pending[h] ~> (s \notin DOMAIN pending[h] \/ ctxDone)

(* Every sendNACK goroutine ends and frees its token of the semaphore.     *)
TokenReturned == \A t \in Slots : t \in DOMAIN senders ~> t \notin DOMAIN senders

(* A flow that no frame refreshes is eventually evicted by sweepOnce.      *)
FlowForgotten ==
  \A h \in HashKey :
    lastSeqNum[h] # 0 /\ idle[h] > 0 ~> lastSeqNum[h] = 0 \/ idle[h] = 0 \/ ctxDone
=============================================================================
