-------------------------- MODULE GapTrackerProofs --------------------------
(***************************************************************************)
(* Proofs about the gap tracker, for every number of flows, tokens and     *)
(* sequence numbers and every setting of the timers: type correctness, the *)
(* windows of the flows, the accounting of gaps, what may move lastSeqNum  *)
(* back, and that all of it holds in the composition with the proxy and    *)
(* the retry endpoints.  There, as long as no gap is under way twice:      *)
(* which endpoints have been asked when a gap is given up, what backoff    *)
(* follows an attempt in vain and how many attempts a gap has; and when it *)
(* is certain that no gap is under way twice.                              *)
(***************************************************************************)
EXTENDS GapRecovery, FiniteSetTheorems, TLAPS

(* Most steps are first-order: where a proof names no prover, it is Zenon. *)
(* Arithmetic, and what a sequence holds, are left to the SMT solver.      *)
USE ZenonT(20)

-----------------------------------------------------------------------------
(* Facts about numbers and sequences, free of the state.                   *)

(* Order and intervals of integers.                                        *)
LEMMA Numbers ==
  ASSUME NEW a \in Int, NEW b \in Int
  PROVE  /\ a <= b /\ b <= a => a = b
         /\ \A c \in Int : a <= b /\ c >= b => a <= c
         /\ a >= 0 /\ a # 0 => a > 0
         /\ a >= 0 /\ a < b => a + 1 \in 1..b
         /\ a >= 1 /\ a <= b => a \in 1..b
  BY SMTT(20)

(* An empty interval, a single number, and what lies in an interval.       *)
LEMMA Intervals ==
  /\ 0..(0 - 1) = {}
  /\ \A s \in Int : s..s = {s}
  /\ \A m \in Int : \A s \in 1..m : s \in Int /\ s >= 1 /\ s \in 1..s
  /\ \A m \in Int : \A s \in 0..m : s \in Int /\ s >= 0
  BY SMTT(20)

(* The elements of a sequence.                                             *)
LEMMA Elements ==
  ASSUME NEW S, NEW q \in Seq(S)
  PROVE  /\ Len(q) \in Nat /\ DOMAIN q = 1..Len(q)
         /\ \A i \in DOMAIN q : q[i] \in S
  BY SMTT(20)

(* The first element of a sequence, and what is left after it, are in it.  *)
LEMMA Ends ==
  ASSUME NEW S, NEW q \in Seq(S), q # <<>>
  PROVE  /\ Head(q) \in Range(q) /\ Range(<<Head(q)>>) \subseteq Range(q)
         /\ Range(Tail(q)) \subseteq Range(q)
  BY SMTT(20) DEF Range

(* The empty sequence has no elements.                                     *)
LEMMA NoElements == Range(<<>>) = {}
  BY SMTT(20) DEF Range

(* A sequence before another one, when it has at most one element.         *)
LEMMA OneBefore ==
  \A a, b \in Seq(Job) : a # <<>> /\ Len(a) <= 1 =>
    /\ DOMAIN b = 1..Len(b) /\ Len(b) \in Nat
    /\ DOMAIN (a \o b) = 1..(Len(b) + 1)
    /\ (a \o b)[1] = Head(a)
    /\ \A i \in DOMAIN b : (a \o b)[i + 1] = b[i]
  BY SMTT(20)

(* Jobs after jobs are jobs.                                               *)
LEMMA Appended == \A a, b \in Seq(Job) : a \o b \in Seq(Job)
  BY SMTT(20)

(* Appending is associative.                                               *)
LEMMA AppendAssociates == \A a, b, c \in Seq(Job) : a \o (b \o c) = (a \o b) \o c
  BY SMTT(20)

(* A function on 1..n is a sequence.                                       *)
LEMMA FunctionIsSeq ==
  ASSUME NEW S, NEW n \in Nat, NEW f \in [1..n -> S]
  PROVE  f \in Seq(S)
  BY SMTT(20)

(* The parts of a pair.                                                    *)
LEMMA Pairs ==
  ASSUME NEW A, NEW B, NEW g \in A \X B
  PROVE  g[1] \in A /\ g[2] \in B /\ g = <<g[1], g[2]>>
  BY SMTT(20)

-----------------------------------------------------------------------------
(* Facts about the operators of the model.                                 *)

(* Sequence numbers are integers from 1 to MaxSeq.                         *)
LEMMA SeqNums ==
  /\ SeqNum = 1..MaxSeq /\ MaxSeq \in Int
  /\ SeqNum \subseteq Int /\ 0..MaxSeq \subseteq Int
  BY CountAssumption, SMTT(20) DEF SeqNum

(* What is missing up to a number is numbered.                             *)
LEMMA MissingNumbered ==
  ASSUME NEW a \in 0..MaxSeq, NEW s \in SeqNum
  PROVE  Missing(a, s) \subseteq SeqNum
  BY CountAssumption, SMTT(20) DEF Missing, SeqNum

(* A number above a flow's highest, or the first of a flow, reaches it.    *)
LEMMA Reaches ==
  ASSUME NEW a \in Int, NEW s \in SeqNum, a = 0 \/ s > a
  PROVE  s >= a
  BY SMTT(20) DEF SeqNum

(* Aging takes one tick from a countdown that is not over.                 *)
LEMMA CountdownStep ==
  ASSUME NEW n \in Int, NEW w \in Nat, w # 0, n >= w + SweepSlack
  PROVE  Countdown(n) >= (w - 1) + SweepSlack
  BY TimeAssumption, SMTT(20) DEF Countdown

(* Any set of sequence numbers is finite, so pending maps can be counted.  *)
LEMMA SeqNumSubsetFinite ==
  ASSUME NEW S, S \subseteq SeqNum
  PROVE  IsFiniteSet(S) /\ Cardinality(S) \in Nat
<1>1. IsFiniteSet(SeqNum)
  BY FS_Interval, CountAssumption, SMTT(20) DEF SeqNum
<1>2. IsFiniteSet(S)
  BY <1>1, FS_Subset
<1> QED
  BY <1>2, FS_CardinalityType

(* The backoff of advanceEndpoint is a duration, also when it wraps.       *)
LEMMA NextAttemptType ==
  ASSUME NEW r \in Nat, NEW i \in Nat, NEW b \in BOOLEAN, NEW n \in Nat
  PROVE  NextAttempt(r, i, b, n) \in Int
<1>1. 2^r * BackoffBase \in Int
  BY TimeAssumption, SMTT(20)
<1>2. Wrap(2^r * BackoffBase) \in Int
  <2> DEFINE d == 2^r * BackoffBase
  <2>1. d \in Int
    BY <1>1
  <2> HIDE DEF d
  <2>2. Wrap(d) \in Int
    BY <2>1, TimeAssumption, SMTT(20) DEF Wrap
  <2> QED
    BY <2>2 DEF d
<1>3. Backoff(r) \in Int
  BY <1>2, TimeAssumption, SMTT(20) DEF Backoff
<1> QED
  BY <1>3, SMTT(20) DEF NextAttempt

(* advanceEndpoint turns a gap entry into a gap entry.                     *)
LEMMA AdvancedType ==
  ASSUME NEW e \in GapEntry, NEW b \in BOOLEAN, NEW n \in Nat
  PROVE  Advanced(e, b, n) \in GapEntry
<1>1. NextAttempt(e.retries + 1, e.endpointIdx + 1, b, n) \in Int
  BY NextAttemptType, SMTT(20) DEF GapEntry
<1> QED
  BY <1>1, SMTT(20) DEF Advanced, GapEntry

(* Deleting a number from a pending map.                                   *)
LEMMA WithoutFacts ==
  ASSUME NEW gaps, NEW s
  PROVE  /\ DOMAIN Without(gaps, s) = DOMAIN gaps \ {s}
         /\ \A m \in DOMAIN gaps \ {s} : Without(gaps, s)[m] = gaps[m]
  BY DEF Without, Restrict

(* Deleting a number leaves a map of pending gaps.                          *)
LEMMA WithoutType ==
  ASSUME NEW gaps, NEW s, IsPendingMap(gaps)
  PROVE  IsPendingMap(Without(gaps, s))
  BY DEF IsPendingMap, Without, Restrict

(* The empty map is a map of pending gaps.                                  *)
LEMMA NoGapsType == IsPendingMap(NoGaps) /\ DOMAIN NoGaps = {}
  BY DEF IsPendingMap, NoGaps

(* Replacing the map of one flow keeps the others.                         *)
LEMMA PendingExcept ==
  ASSUME FlowType, NEW h \in HashKey, NEW gaps, IsPendingMap(gaps),
         pending' = [pending EXCEPT ![h] = gaps]
  PROVE  /\ DOMAIN pending' = HashKey
         /\ \A k \in HashKey : IsPendingMap(pending'[k])
         /\ \A k \in HashKey \ {h} : pending'[k] = pending[k]
         /\ pending'[h] = gaps
  BY DEF FlowType

-----------------------------------------------------------------------------
(* Type correctness, action by action.                                     *)

(* Counting a found gap keeps the counters natural.                         *)
LEMMA CountFoundType ==
  ASSUME NEW h \in HashKey, NEW s, NEW counter \in [HashKey -> Nat]
  PROVE  CountFound(counter, h, s) \in [HashKey -> Nat]
  BY SMTT(20) DEF CountFound

(* Observe keeps the state types.                                           *)
LEMMA ObserveType ==
  ASSUME TypeOK, NEW h \in HashKey, NEW s \in SeqNum, Observe(h, s)
  PROVE  TypeOK'
<1> USE DEF TypeOK
<1>1. /\ idle' \in [HashKey -> Nat]
      /\ suppressed' \in [HashKey -> Nat]
      /\ UNCHANGED <<queue, held, senders, ctxDone, loops, endpoints>>
  <2>1. AutoFill(h, s)
    BY DEF Observe, ObserveFirst, ObserveOld, ObserveRestart, ObserveAdvance
  <2> QED
    BY <2>1, CountFoundType DEF AutoFill, FlowType, MetricType, nackVars, loopVars
<1>2. NackType' /\ EnvironmentType'
  BY <1>1, SMTT(30) DEF NackType, EnvironmentType
<1>3. IsPendingMap(pending[h]) /\ IsPendingMap(Without(pending[h], s))
  BY WithoutType DEF FlowType
<1>4. s \in 0..MaxSeq
  BY SMTT(20) DEF SeqNum
<1>5. CASE ObserveFirst(h, s)
  <2>1. FlowType'
    BY <1>1, <1>4, <1>5 DEF ObserveFirst, FlowType
  <2>2. MetricType' /\ HistoryType'
    BY <1>1, <1>4, <1>5 DEF ObserveFirst, MetricType, HistoryType
  <2> QED
    BY <1>2, <2>1, <2>2
<1>6. CASE ObserveOld(h, s)
  <2>1. FlowType'
    BY <1>1, <1>3, <1>6, PendingExcept DEF ObserveOld, FlowType
  <2>2. MetricType' /\ HistoryType'
    BY <1>1, <1>6 DEF ObserveOld, MetricType, HistoryType
  <2> QED
    BY <1>2, <2>1, <2>2
<1>7. CASE ObserveRestart(h, s)
  <2>1. Cardinality(DOMAIN pending[h] \ {s}) \in Nat
    BY <1>3, SeqNumSubsetFinite DEF IsPendingMap
  <2>2. FlowType'
    BY <1>1, <1>4, <1>7, NoGapsType, PendingExcept DEF ObserveRestart, FlowType
  <2>3. MetricType' /\ HistoryType'
    BY <1>1, <1>4, <1>7, <2>1, SMTT(20) DEF ObserveRestart, MetricType, HistoryType
  <2> QED
    BY <1>2, <2>2, <2>3
<1>8. CASE ObserveAdvance(h, s)
  <2> DEFINE gaps == Without(pending[h], s)
             new == Missing(lastSeqNum[h], s) \ DOMAIN gaps
             filled(jitter) == [m \in DOMAIN gaps \cup new |->
                                  IF m \in new THEN NewGap(jitter[m]) ELSE gaps[m]]
  <2>1. new \subseteq SeqNum
    BY MissingNumbered DEF FlowType
  <2>2. Cardinality(new) \in Nat
    BY <2>1, SeqNumSubsetFinite
  <2>3. PICK jitter \in [new -> 0..JitterMax] :
          pending' = [pending EXCEPT ![h] = filled(jitter)]
    BY <1>8 DEF ObserveAdvance
  <2>4. \A m \in new : NewGap(jitter[m]) \in GapEntry
    BY TimeAssumption, SMTT(20) DEF NewGap, GapEntry
  <2>5. IsPendingMap(filled(jitter))
    BY <1>3, <2>1, <2>4 DEF IsPendingMap
  <2>6. detected' = [detected EXCEPT ![h] = @ + Cardinality(new)]
    BY <1>8 DEF ObserveAdvance
  <2> HIDE DEF gaps, new, filled
  <2>7. FlowType'
    BY <1>1, <1>4, <1>8, <2>3, <2>5, PendingExcept DEF ObserveAdvance, FlowType
  <2>8. MetricType' /\ HistoryType'
    BY <1>1, <1>8, <2>2, <2>6, SMTT(20) DEF ObserveAdvance, MetricType, HistoryType
  <2> QED
    BY <1>2, <2>7, <2>8
<1> QED
  BY <1>5, <1>6, <1>7, <1>8 DEF Observe

(* Closing a gap, by Fill or cancelGap, keeps the state types.              *)
LEMMA CloseGapType ==
  ASSUME TypeOK, NEW h \in HashKey, NEW s \in SeqNum, CloseGap(h, s)
  PROVE  FlowType' /\ MetricType' /\ HistoryType'
<1>1. IsPendingMap(Without(pending[h], s))
  BY WithoutType DEF TypeOK, FlowType
<1>2. FlowType'
  BY <1>1, PendingExcept DEF CloseGap, TypeOK, FlowType
<1>3. MetricType'
  BY CountFoundType DEF CloseGap, TypeOK, MetricType
<1>4. HistoryType'
  BY DEF CloseGap, TypeOK, HistoryType
<1> QED
  BY <1>2, <1>3, <1>4

(* Moving a gap on to its next endpoint keeps the types of the gaps.        *)
LEMMA AdvanceEndpointType ==
  ASSUME TypeOK, NEW job \in Job, NEW b \in BOOLEAN, NEW n \in Nat,
         AdvanceEndpoint(job, b, n)
  PROVE  FlowType' /\ MetricType' /\ HistoryType'
<1> DEFINE h == job.hashKey
           s == job.seqNum
           new == [pending[h] EXCEPT ![s] = Advanced(pending[h][s], b, n)]
<1>1. h \in HashKey /\ s \in SeqNum
  BY DEF Job
<1>2. MetricType' /\ HistoryType'
  BY DEF AdvanceEndpoint, TypeOK, metricVars, historyVars, MetricType, HistoryType
<1>3. CASE s \in DOMAIN pending[h]
  <2>1. IsPendingMap(pending[h])
    BY <1>1 DEF TypeOK, FlowType
  <2>2. Advanced(pending[h][s], b, n) \in GapEntry
    BY <1>3, <2>1, AdvancedType DEF IsPendingMap
  <2>3. IsPendingMap(new)
    BY <2>1, <2>2 DEF IsPendingMap
  <2>4. pending' = [pending EXCEPT ![h] = new]
    BY <1>3 DEF AdvanceEndpoint
  <2> HIDE DEF h, s, new
  <2> QED
    BY <1>1, <1>2, <2>3, <2>4, PendingExcept DEF AdvanceEndpoint, TypeOK, FlowType
<1>4. CASE s \notin DOMAIN pending[h]
  BY <1>2, <1>4 DEF AdvanceEndpoint, TypeOK, FlowType
<1> QED
  BY <1>3, <1>4

(* The return of a sendNACK goroutine keeps the pipeline types.             *)
LEMMA ReturnType ==
  ASSUME NackType, NEW t \in DOMAIN senders, Return(t), UNCHANGED <<queue, held>>
  PROVE  NackType'
  BY DEF NackType, Return, Restrict

(* The answers a sendNACK goroutine applies, and its early returns.        *)
LEMMA SendingType ==
  ASSUME TypeOK, NEW t \in DOMAIN senders, Sending(t)
  PROVE  TypeOK'
<1>1. /\ senders[t].job \in Job /\ senders[t].numEndpoints \in Nat
      /\ senders[t].job.hashKey \in HashKey /\ senders[t].job.seqNum \in SeqNum
  BY SMTT(30) DEF TypeOK, NackType, Sender, Job
<1>2. ASSUME endpoints' = endpoints, UNCHANGED loopVars
      PROVE  EnvironmentType'
  BY <1>2 DEF loopVars, TypeOK, EnvironmentType
<1>3. CASE SendNoEndpoint(t)
  <2>1. FlowType' /\ MetricType' /\ HistoryType'
    BY <1>3 DEF SendNoEndpoint, flowVars, metricVars, historyVars, TypeOK, FlowType,
                MetricType, HistoryType
  <2> QED
    BY <1>2, <1>3, <2>1, ReturnType DEF SendNoEndpoint, TypeOK
<1>4. CASE SendError(t)
  BY <1>1, <1>2, <1>4, AdvanceEndpointType, ReturnType DEF SendError, TypeOK
<1>5. CASE SendNACK(t)
  <2>1. FlowType' /\ MetricType' /\ HistoryType'
    BY <1>5, SMTT(30) DEF SendNACK, flowVars, metricVars, historyVars, TypeOK, FlowType,
                          MetricType, HistoryType
  <2>2. Len(endpoints) \in Nat
    BY SnapshotAssumption, SMTT(20) DEF TypeOK, EnvironmentType
  <2>3. [job |-> senders[t].job, phase |-> "waiting",
         numEndpoints |-> Len(endpoints), wait |-> RespTimeout] \in Sender
    BY <1>1, <2>2, TimeAssumption DEF Sender
  <2>4. NackType'
    BY <1>5, <2>3, SMTT(30) DEF SendNACK, TypeOK, NackType
  <2> QED
    BY <1>2, <1>5, <2>1, <2>4 DEF SendNACK, TypeOK
<1>6. CASE ReceiveACK(t)
  BY <1>1, <1>2, <1>6, CloseGapType, ReturnType DEF ReceiveACK, TypeOK
<1>7. CASE ReceiveMISS(t)
  BY <1>1, <1>2, <1>7, AdvanceEndpointType, ReturnType DEF ReceiveMISS, TypeOK
<1>8. CASE Timeout(t)
  <2>1. AdvanceEndpoint(senders[t].job, FALSE, 0)
    BY <1>8 DEF Timeout
  <2>2. FlowType' /\ MetricType' /\ HistoryType'
    BY <1>1, <2>1, AdvanceEndpointType
  <2> QED
    BY <1>2, <1>8, <2>2, ReturnType DEF Timeout, TypeOK
<1>9. CASE ReceiveInvalid(t)
  BY <1>1, <1>2, <1>9, AdvanceEndpointType, ReturnType DEF ReceiveInvalid, TypeOK
<1> QED
  BY <1>3, <1>4, <1>5, <1>6, <1>7, <1>8, <1>9 DEF Sending

(* sweepOnce: what it queues are copies of gap entries, within capacity.   *)
LEMMA BatchFacts ==
  ASSUME TypeOK, NEW batch \in Batches(DueGaps)
  PROVE  /\ batch \in Seq(DueGaps)
         /\ Len(queue) + Len(batch) <= QueueCap
<1> DEFINE free == QueueCap - Len(queue)
           size == IF Cardinality(DueGaps) <= free THEN Cardinality(DueGaps) ELSE free
<1>1. free \in Nat
  BY CountAssumption, SMTT(20) DEF TypeOK, NackType
<1>2. batch \in [1..size -> DueGaps]
  BY DEF Batches
<1>3. Cardinality(DueGaps) \in Nat
  <2>1. IsFiniteSet(SeqNum)
    BY SeqNumSubsetFinite
  <2>2. IsFiniteSet(HashKey \X SeqNum)
    BY <2>1, FlowAssumption, FS_Product
  <2>3. DueGaps \subseteq HashKey \X SeqNum
    BY DEF DueGaps
  <2> QED
    BY <2>2, <2>3, FS_Subset, FS_CardinalityType
<1> HIDE DEF size
<1>4. size \in Nat /\ size <= free
  BY <1>1, <1>3, SMTT(20) DEF size
<1>5. batch \in Seq(DueGaps) /\ Len(batch) = size
  BY <1>2, <1>4, SMTT(20)
<1>6. Len(queue) \in Nat
  BY SMTT(20) DEF TypeOK, NackType
<1> QED
  BY <1>4, <1>5, <1>6, CountAssumption, SMTT(20)

(* What sweepOnce leaves in the map of a flow.                              *)
LEMMA SweptFacts ==
  ASSUME TypeOK, NEW h \in HashKey, NEW batch
  PROVE  /\ IsPendingMap(Swept(h, batch))
         /\ DOMAIN Swept(h, batch) = DOMAIN pending[h] \ HopelessGaps(h)
<1>1. IsPendingMap(pending[h])
  BY DEF TypeOK, FlowType
<1>2. \A e \in GapEntry : \A q : Stamp(q, e) \in GapEntry
  BY TimeAssumption, SMTT(20) DEF Stamp, GapEntry
<1>3. DOMAIN Swept(h, batch) = DOMAIN pending[h] \ HopelessGaps(h)
  BY DEF Swept
<1>4. ASSUME NEW s \in DOMAIN pending[h] \ HopelessGaps(h)
      PROVE  Swept(h, batch)[s] \in GapEntry
  <2>1. pending[h][s] \in GapEntry
    BY <1>1 DEF IsPendingMap
  <2>2. Stamp(<<h, s>> \in Range(batch), pending[h][s]) \in GapEntry
    BY <1>2, <2>1
  <2> QED
    BY <2>1, <2>2 DEF Swept
<1>5. Swept(h, batch) \in [DOMAIN Swept(h, batch) -> GapEntry]
  BY <1>3, <1>4 DEF Swept
<1> QED
  BY <1>1, <1>3, <1>5 DEF IsPendingMap

(* The gaps a sweep gives up on are numbers, finitely many.                 *)
LEMMA HopelessCount ==
  ASSUME TypeOK, NEW h \in HashKey
  PROVE  Cardinality(HopelessGaps(h)) \in Nat /\ HopelessGaps(h) \subseteq SeqNum
  BY SeqNumSubsetFinite DEF HopelessGaps, TypeOK, FlowType, IsPendingMap

(* sweepOnce keeps the state types.                                         *)
LEMMA SweepType ==
  ASSUME TypeOK, Sweep
  PROVE  TypeOK'
<1>1. PICK batch \in Batches(DueGaps) :
        /\ queue' = queue \o [i \in 1..Len(batch) |-> CopyOf(batch[i])]
        /\ pending' = [h \in HashKey |-> Swept(h, batch)]
  BY DEF Sweep
<1>2. batch \in Seq(DueGaps) /\ Len(queue) + Len(batch) <= QueueCap
  BY BatchFacts
<1>3. \A i \in 1..Len(batch) : CopyOf(batch[i]) \in Job
  <2>1. \A gap \in DueGaps : CopyOf(gap) \in Job
    BY DEF DueGaps, CopyOf, Job, TypeOK, FlowType, IsPendingMap, GapEntry
  <2> QED
    BY <1>2, <2>1, SMTT(20)
<1>4. NackType'
  <2> DEFINE copies == [i \in 1..Len(batch) |-> CopyOf(batch[i])]
  <2>1. copies \in Seq(Job) /\ Len(copies) = Len(batch)
    BY <1>2, <1>3, SMTT(20)
  <2> HIDE DEF copies
  <2>2. queue' = queue \o copies
    BY <1>1 DEF copies
  <2>3. queue' \in Seq(Job) /\ Len(queue') <= QueueCap
    BY <1>2, <2>1, <2>2, SMTT(30), CountAssumption DEF TypeOK, NackType
  <2> QED
    BY <2>3, SMTT(30) DEF Sweep, TypeOK, NackType
<1>5. FlowType'
  <2>1. DOMAIN pending' = HashKey
    BY <1>1
  <2>2. \A h \in HashKey : IsPendingMap(pending'[h])
    BY <1>1, SweptFacts
  <2>3. lastSeqNum' \in [HashKey -> 0..MaxSeq] /\ idle' \in [HashKey -> Nat]
    BY CountAssumption, SMTT(20) DEF Sweep, TypeOK, FlowType
  <2> QED
    BY <2>1, <2>2, <2>3 DEF FlowType
<1>6. MetricType'
  BY HopelessCount, SMTT(20) DEF Sweep, TypeOK, MetricType
<1>7. HistoryType'
  <2>1. first' \in [HashKey -> 0..MaxSeq] /\ seen' \in [HashKey -> SUBSET SeqNum]
    BY CountAssumption, SMTT(20) DEF Sweep, TypeOK, HistoryType
  <2>2. gone' \in [HashKey -> SUBSET SeqNum]
    BY HopelessCount DEF Sweep, TypeOK, HistoryType
  <2> QED
    BY <2>1, <2>2 DEF HistoryType
<1>8. EnvironmentType'
  BY DEF Sweep, TypeOK, EnvironmentType, loopVars
<1> QED
  BY <1>4, <1>5, <1>6, <1>7, <1>8 DEF TypeOK

(* Taking a copy off the queue keeps the state types.                       *)
LEMMA DispatchType ==
  ASSUME TypeOK, Take \/ Spawn
  PROVE  TypeOK'
<1>1. FlowType' /\ EnvironmentType' /\ MetricType' /\ HistoryType'
  BY DEF Take, Spawn, flowVars, loopVars, metricVars, historyVars,
         TypeOK, FlowType, EnvironmentType, MetricType, HistoryType
<1>2. CASE Take
  BY <1>1, <1>2, SMTT(30), CountAssumption DEF Take, TypeOK, NackType
<1>3. CASE Spawn
  <2>1. Head(held) \in Job
    BY <1>3, SMTT(20) DEF Spawn, TypeOK, NackType
  <2>2. [job |-> Head(held), phase |-> "start", numEndpoints |-> 0, wait |-> 0] \in Sender
    BY <2>1 DEF Sender
  <2> QED
    BY <1>1, <1>3, <2>2, SMTT(30) DEF Spawn, TypeOK, NackType
<1> QED
  BY <1>2, <1>3

(* Time, the endpoint registry and shutdown keep the state types.           *)
LEMMA EnvironmentStepType ==
  ASSUME TypeOK, \/ Tick \/ RegistryChanges \/ CancelContext
                 \/ \E loop \in loops : LoopReturns(loop)
  PROVE  TypeOK'
<1>1. CASE Tick
  <2>1. \A e \in GapEntry : Aged(e) \in GapEntry
    BY SMTT(20) DEF Aged, Countdown, GapEntry
  <2>2. FlowType'
    BY <1>1, <2>1, SMTT(20) DEF Tick, TypeOK, FlowType, IsPendingMap
  <2>3. NackType'
    <3>1. \A x \in Sender : [x EXCEPT !.wait = IF @ > 0 THEN @ - 1 ELSE 0] \in Sender
      BY SMTT(20) DEF Sender
    <3> QED
      BY <1>1, <3>1, SMTT(30) DEF Tick, TypeOK, NackType
  <2> QED
    BY <1>1, <2>2, <2>3 DEF Tick, loopVars, metricVars, historyVars,
       TypeOK, EnvironmentType, MetricType, HistoryType
<1>2. CASE RegistryChanges \/ CancelContext \/ \E loop \in loops : LoopReturns(loop)
  <2>1. FlowType' /\ MetricType' /\ HistoryType'
    BY <1>2 DEF RegistryChanges, CancelContext, LoopReturns, flowVars, metricVars,
       historyVars, TypeOK, FlowType, MetricType, HistoryType
  <2>2. EnvironmentType'
    BY <1>2 DEF RegistryChanges, CancelContext, LoopReturns, nackVars, loopVars,
       TypeOK, EnvironmentType
  <2>3. UNCHANGED <<queue, senders>> /\ (held' = held \/ held' = <<>>)
    BY <1>2 DEF RegistryChanges, CancelContext, LoopReturns, nackVars
  <2>4. <<>> \in Seq(Job) /\ Len(<<>>) <= 1
    BY SMTT(20)
  <2>5. NackType'
    BY <2>3, <2>4 DEF TypeOK, NackType
  <2> QED
    BY <2>1, <2>2, <2>5 DEF TypeOK
<1> QED
  BY <1>1, <1>2

(* Every step keeps the state types.                                        *)
LEMMA NextType ==
  ASSUME TypeOK, [Next]_vars
  PROVE  TypeOK'
<1>1. CASE UNCHANGED vars
  BY <1>1 DEF vars, TypeOK, FlowType, NackType, EnvironmentType, MetricType, HistoryType
<1>2. ASSUME NEW h \in HashKey, NEW s \in SeqNum, Fill(h, s)
      PROVE  TypeOK'
  BY <1>2, CloseGapType DEF Fill, nackVars, loopVars, TypeOK, NackType, EnvironmentType
<1> QED
  BY <1>1, <1>2, ObserveType, SweepType, DispatchType, SendingType, EnvironmentStepType
     DEF Next

(* Every reachable state of the tracker is well typed; in particular the   *)
(* non-blocking enqueue of sweepOnce never exceeds the queue's capacity.   *)
THEOREM TypeCorrect == Spec => []TypeOK
<1>1. Init => TypeOK
  <2> SUFFICES ASSUME Init PROVE TypeOK
    OBVIOUS
  <2>1. FlowType
    BY NoGapsType, CountAssumption, SMTT(20) DEF Init, FlowType
  <2>2. NackType
    BY CountAssumption, SMTT(20) DEF Init, NackType
  <2>3. EnvironmentType
    BY DEF Init, EnvironmentType
  <2>4. MetricType
    BY DEF Init, MetricType
  <2>5. HistoryType
    BY CountAssumption, SMTT(20) DEF Init, HistoryType
  <2> QED
    BY <2>1, <2>2, <2>3, <2>4, <2>5 DEF TypeOK
<1> QED
  BY <1>1, NextType, PTL DEF Spec

-----------------------------------------------------------------------------
(* The flow windows.                                                       *)

(* Steps that touch neither the windows nor the set of pending numbers.    *)
Quiet ==
  /\ UNCHANGED <<lastSeqNum, metricVars, historyVars>>
  /\ \A h \in HashKey : DOMAIN pending'[h] = DOMAIN pending[h]

(* Moving a gap on to its next endpoint opens and closes no gap.            *)
LEMMA AdvanceEndpointQuiet ==
  ASSUME TypeOK, NEW job \in Job, NEW b, NEW n, AdvanceEndpoint(job, b, n)
  PROVE  Quiet
  BY DEF AdvanceEndpoint, Quiet, TypeOK, FlowType

(* A step of a sender closes one gap or leaves the gaps alone.              *)
LEMMA SendingCases ==
  ASSUME TypeOK, NEW t \in DOMAIN senders, Sending(t)
  PROVE  Quiet \/ \E h \in HashKey, s \in SeqNum : CloseGap(h, s)
<1>1. /\ senders[t].job \in Job
      /\ senders[t].job.hashKey \in HashKey /\ senders[t].job.seqNum \in SeqNum
  BY SMTT(30) DEF TypeOK, NackType, Sender, Job
<1>2. CASE SendNoEndpoint(t) \/ SendNACK(t)
  BY <1>2 DEF SendNoEndpoint, SendNACK, Quiet, flowVars
<1>3. CASE SendError(t) \/ ReceiveMISS(t) \/ Timeout(t) \/ ReceiveInvalid(t)
  BY <1>1, <1>3, AdvanceEndpointQuiet DEF SendError, ReceiveMISS, Timeout, ReceiveInvalid
<1>4. CASE ReceiveACK(t)
  BY <1>1, <1>4 DEF ReceiveACK
<1> QED
  BY <1>2, <1>3, <1>4 DEF Sending

(* What a step can do to the windows.                                      *)
LEMMA StepCases ==
  ASSUME TypeOK, [Next]_vars
  PROVE  \/ Quiet
         \/ \E h \in HashKey, s \in SeqNum : Observe(h, s) \/ CloseGap(h, s)
         \/ Sweep
<1>1. CASE UNCHANGED vars
  BY <1>1 DEF vars, Quiet, metricVars, historyVars
<1>2. CASE \E h \in HashKey, s \in SeqNum : Observe(h, s) \/ Fill(h, s)
  BY <1>2 DEF Fill
<1>3. CASE Take \/ Spawn \/ RegistryChanges \/ CancelContext
  BY <1>3 DEF Take, Spawn, RegistryChanges, CancelContext, Quiet, flowVars
<1>4. CASE \E loop \in loops : LoopReturns(loop)
  BY <1>4 DEF LoopReturns, Quiet, flowVars
<1>5. CASE Tick
  BY <1>5 DEF Tick, Quiet
<1> QED
  BY <1>1, <1>2, <1>3, <1>4, <1>5, SendingCases DEF Next

(* One flow changes, and its new window satisfies the invariant.           *)
LEMMA OneWindow ==
  ASSUME TypeOK, WindowInv, NEW h \in HashKey,
         \A k \in HashKey \ {h} :
           /\ lastSeqNum'[k] = lastSeqNum[k] /\ DOMAIN pending'[k] = DOMAIN pending[k]
           /\ first'[k] = first[k] /\ seen'[k] = seen[k] /\ gone'[k] = gone[k],
         lastSeqNum'[h] # 0 => first'[h] \in 1..lastSeqNum'[h],
         seen'[h] \subseteq 1..lastSeqNum'[h],
         DOMAIN pending'[h] \subseteq (first'[h] + 1)..(lastSeqNum'[h] - 1),
         DOMAIN pending'[h] \cap seen'[h] = {},
         lastSeqNum'[h] # 0 => first'[h]..lastSeqNum'[h] \subseteq
                                 seen'[h] \cup DOMAIN pending'[h] \cup gone'[h]
  PROVE  WindowInv'
<1>1. FlowOpened'
  BY DEF WindowInv, FlowOpened
<1>2. GapsInWindow'
  BY DEF WindowInv, GapsInWindow
<1>3. NoPhantomGap'
  BY DEF WindowInv, NoPhantomGap
<1>4. NoSilentLoss'
  BY DEF WindowInv, NoSilentLoss
<1> QED
  BY <1>1, <1>2, <1>3, <1>4 DEF WindowInv

(* A step that leaves gaps and history alone keeps the window.              *)
LEMMA QuietWindow ==
  ASSUME WindowInv, Quiet
  PROVE  WindowInv'
<1>1. /\ lastSeqNum' = lastSeqNum /\ first' = first /\ seen' = seen /\ gone' = gone
      /\ \A h \in HashKey : DOMAIN pending'[h] = DOMAIN pending[h]
  BY DEF Quiet, historyVars
<1> QED
  BY <1>1 DEF WindowInv, FlowOpened, GapsInWindow, NoPhantomGap, NoSilentLoss

(* Closing a gap keeps the window.                                          *)
LEMMA CloseGapWindow ==
  ASSUME TypeOK, WindowInv, NEW h \in HashKey, NEW s \in SeqNum, CloseGap(h, s)
  PROVE  WindowInv'
<1>1. /\ DOMAIN pending'[h] = DOMAIN pending[h] \ {s}
      /\ \A k \in HashKey \ {h} : pending'[k] = pending[k]
  BY WithoutFacts DEF CloseGap, TypeOK, FlowType
<1>2. /\ lastSeqNum' = lastSeqNum /\ first' = first /\ seen' = seen
      /\ \A k \in HashKey \ {h} : gone'[k] = gone[k]
      /\ gone[h] \subseteq gone'[h]
      /\ s \in DOMAIN pending[h] => s \in gone'[h]
  BY DEF CloseGap, TypeOK, HistoryType
<1> QED
  BY <1>1, <1>2, OneWindow
     DEF WindowInv, FlowOpened, GapsInWindow, NoPhantomGap, NoSilentLoss

(* The guards of the four ways an Observe can go exclude one another.      *)
LEMMA ObserveGuards ==
  ASSUME TypeOK, NEW h \in HashKey, NEW s \in SeqNum
  PROVE  /\ ObserveFirst(h, s) => lastSeqNum[h] = 0
         /\ ObserveOld(h, s) => /\ lastSeqNum[h] # 0 /\ ~(s > lastSeqNum[h])
                                /\ ~IsRestart(lastSeqNum[h], s)
         /\ ObserveRestart(h, s) => /\ lastSeqNum[h] # 0 /\ ~(s > lastSeqNum[h])
                                    /\ IsRestart(lastSeqNum[h], s)
         /\ ObserveAdvance(h, s) => lastSeqNum[h] # 0 /\ s > lastSeqNum[h]
<1>1. lastSeqNum[h] \in Int /\ s \in Int
  BY CountAssumption, SMTT(20) DEF TypeOK, FlowType, SeqNum
<1>2. s <= lastSeqNum[h] => ~(s > lastSeqNum[h])
  BY <1>1, SMTT(20)
<1> QED
  BY <1>2 DEF ObserveFirst, ObserveOld, ObserveRestart, ObserveAdvance

(* How an Observe of flow h moves the set of its pending numbers.          *)
LEMMA ObserveDomains ==
  ASSUME TypeOK, NEW h \in HashKey, NEW s \in SeqNum, Observe(h, s)
  PROVE  /\ \A k \in HashKey \ {h} : pending'[k] = pending[k]
         /\ ObserveFirst(h, s) => DOMAIN pending'[h] = DOMAIN pending[h]
         /\ ObserveOld(h, s) => DOMAIN pending'[h] = DOMAIN pending[h] \ {s}
         /\ ObserveRestart(h, s) => DOMAIN pending'[h] = {}
         /\ ObserveAdvance(h, s) =>
              DOMAIN pending'[h] = (DOMAIN pending[h] \ {s})
                 \cup (Missing(lastSeqNum[h], s) \ (DOMAIN pending[h] \ {s}))
<1>1. CASE ObserveFirst(h, s)
  BY <1>1 DEF ObserveFirst, ObserveOld, ObserveRestart, ObserveAdvance
<1>2. CASE ObserveOld(h, s)
  <2>1. ~ObserveFirst(h, s) /\ ~ObserveRestart(h, s) /\ ~ObserveAdvance(h, s)
    BY <1>2, ObserveGuards
  <2> QED
    BY <1>2, <2>1, WithoutFacts DEF ObserveOld, TypeOK, FlowType
<1>3. CASE ObserveRestart(h, s)
  <2>1. ~ObserveFirst(h, s) /\ ~ObserveOld(h, s) /\ ~ObserveAdvance(h, s)
    BY <1>3, ObserveGuards
  <2> QED
    BY <1>3, <2>1, NoGapsType DEF ObserveRestart, TypeOK, FlowType
<1>4. CASE ObserveAdvance(h, s)
  <2>1. ~ObserveFirst(h, s) /\ ~ObserveOld(h, s) /\ ~ObserveRestart(h, s)
    BY <1>4, ObserveGuards
  <2> DEFINE gaps == Without(pending[h], s)
             new == Missing(lastSeqNum[h], s) \ DOMAIN gaps
             filled(jitter) == [m \in DOMAIN gaps \cup new |->
                                  IF m \in new THEN NewGap(jitter[m]) ELSE gaps[m]]
  <2>2. PICK jitter \in [new -> 0..JitterMax] :
          pending' = [pending EXCEPT ![h] = filled(jitter)]
    BY <1>4 DEF ObserveAdvance
  <2>3. DOMAIN filled(jitter) = DOMAIN gaps \cup new
    OBVIOUS
  <2>4. DOMAIN gaps = DOMAIN pending[h] \ {s}
    BY WithoutFacts
  <2> HIDE DEF filled, gaps
  <2>5. /\ DOMAIN pending'[h] = DOMAIN filled(jitter)
        /\ \A k \in HashKey \ {h} : pending'[k] = pending[k]
    BY <2>2 DEF TypeOK, FlowType
  <2> QED
    BY <2>1, <2>3, <2>4, <2>5
<1> QED
  BY <1>1, <1>2, <1>3, <1>4 DEF Observe

(* A number above the window is none of its gaps, and a flow without a     *)
(* highest number has no window.                                           *)
LEMMA OutOfWindow ==
  ASSUME NEW b \in Int, NEW l \in Int, NEW s \in Int
  PROVE  /\ s > l => s \notin (b + 1)..(l - 1)
         /\ l = 0 /\ b >= 0 => (b + 1)..(l - 1) = {}
  BY SMTT(20)

(* A window from b to l that grows to s, the numbers between being gaps.   *)
LEMMA WindowGrows ==
  ASSUME NEW l \in Int, NEW b \in 1..l, NEW s \in Int, l < s,
         NEW P, P \subseteq (b + 1)..(l - 1), NEW S, S \subseteq 1..l, P \cap S = {},
         NEW G, b..l \subseteq S \cup P \cup G,
         NEW Q, Q = P \cup (l + 1)..(s - 1)
  PROVE  /\ Q \subseteq (b + 1)..(s - 1)
         /\ Q \cap (S \cup {s}) = {}
         /\ b..s \subseteq (S \cup {s}) \cup Q \cup G
         /\ b \in 1..s /\ S \cup {s} \subseteq 1..s
<1>1. Q \subseteq (b + 1)..(s - 1) /\ S \cup {s} \subseteq 1..s /\ b \in 1..s
  BY SMTT(20)
<1>2. Q \cap (S \cup {s}) = {}
  <2>1. \A x \in Q : x \in P \/ x \in (l + 1)..(s - 1)
    OBVIOUS
  <2>2. \A x \in P : x \notin S /\ x # s
    BY SMTT(20)
  <2>3. \A x \in (l + 1)..(s - 1) : x \notin 1..l /\ x # s
    BY SMTT(20)
  <2> QED  BY <2>1, <2>2, <2>3
<1>3. ASSUME NEW x \in b..s
      PROVE  x \in (S \cup {s}) \cup Q \cup G
  <2>1. x \in b..l \/ x \in (l + 1)..(s - 1) \/ x = s
    BY SMTT(20)
  <2> QED  BY <2>1
<1> QED  BY <1>1, <1>2, <1>3

(* Observe keeps the window.                                                *)
LEMMA ObserveWindow ==
  ASSUME TypeOK, WindowInv, NEW h \in HashKey, NEW s \in SeqNum, Observe(h, s)
  PROVE  WindowInv'
<1>1. /\ lastSeqNum[h] \in 0..MaxSeq /\ first[h] \in 0..MaxSeq
      /\ s \in 1..MaxSeq /\ seen[h] \subseteq SeqNum
  BY DEF TypeOK, FlowType, HistoryType, SeqNum
<1>2. /\ lastSeqNum[h] # 0 => first[h] \in 1..lastSeqNum[h]
      /\ seen[h] \subseteq 1..lastSeqNum[h]
      /\ DOMAIN pending[h] \subseteq (first[h] + 1)..(lastSeqNum[h] - 1)
      /\ DOMAIN pending[h] \cap seen[h] = {}
      /\ lastSeqNum[h] # 0 => first[h]..lastSeqNum[h] \subseteq
                                 seen[h] \cup DOMAIN pending[h] \cup gone[h]
  BY DEF WindowInv, FlowOpened, GapsInWindow, NoPhantomGap, NoSilentLoss
<1>3. \A k \in HashKey \ {h} :
        /\ lastSeqNum'[k] = lastSeqNum[k] /\ DOMAIN pending'[k] = DOMAIN pending[k]
        /\ first'[k] = first[k] /\ seen'[k] = seen[k] /\ gone'[k] = gone[k]
  <2>1. \A k \in HashKey \ {h} : pending'[k] = pending[k]
    BY ObserveDomains
  <2> QED
    BY <2>1 DEF Observe, ObserveFirst, ObserveOld, ObserveRestart, ObserveAdvance,
                TypeOK, FlowType, HistoryType
<1>4. CASE ObserveFirst(h, s)
  <2>1. lastSeqNum[h] = 0 /\ lastSeqNum'[h] = s /\ first'[h] = s /\ seen'[h] = {s}
    BY <1>4 DEF ObserveFirst, TypeOK, FlowType, HistoryType
  <2>2. DOMAIN pending'[h] = {}
    <3>1. DOMAIN pending[h] = {}
      <4>1. first[h] \in Int /\ first[h] >= 0 /\ lastSeqNum[h] \in Int
        BY <1>1, Intervals, SeqNums
      <4>2. (first[h] + 1)..(lastSeqNum[h] - 1) = {}
        BY <2>1, <4>1, OutOfWindow
      <4> QED  BY <1>2, <4>2
    <3>2. DOMAIN pending'[h] = DOMAIN pending[h]
      BY <1>4, ObserveDomains
    <3> QED
      BY <3>1, <3>2
  <2>3. DOMAIN pending'[h] \subseteq (first'[h] + 1)..(lastSeqNum'[h] - 1)
    BY <2>1, <2>2
  <2>4. DOMAIN pending'[h] \cap seen'[h] = {}
    BY <2>1, <2>2
  <2>a. s..s = {s} /\ s \in 1..s
    BY <1>1, Intervals, SeqNums
  <2>5. first'[h]..lastSeqNum'[h] \subseteq seen'[h] \cup DOMAIN pending'[h] \cup gone'[h]
    BY <2>1, <2>2, <2>a
  <2>6. first'[h] \in 1..lastSeqNum'[h] /\ seen'[h] \subseteq 1..lastSeqNum'[h]
    BY <2>1, <2>a
  <2> QED
    BY <1>3, <2>3, <2>4, <2>5, <2>6, OneWindow
<1>5. CASE ObserveOld(h, s)
  <2>1. /\ lastSeqNum'[h] = lastSeqNum[h] /\ lastSeqNum[h] # 0 /\ s <= lastSeqNum[h]
        /\ first'[h] = first[h] /\ seen'[h] = seen[h] \cup {s} /\ gone'[h] = gone[h]
    BY <1>5 DEF ObserveOld, TypeOK, FlowType, HistoryType
  <2>2. DOMAIN pending'[h] = DOMAIN pending[h] \ {s}
    BY <1>5, ObserveDomains
  <2>3. DOMAIN pending'[h] \subseteq (first'[h] + 1)..(lastSeqNum'[h] - 1)
    BY <1>2, <2>1, <2>2
  <2>4. DOMAIN pending'[h] \cap seen'[h] = {}
    BY <1>2, <2>1, <2>2
  <2>5. first'[h]..lastSeqNum'[h] \subseteq seen'[h] \cup DOMAIN pending'[h] \cup gone'[h]
    BY <1>2, <2>1, <2>2
  <2>6. first'[h] \in 1..lastSeqNum'[h] /\ seen'[h] \subseteq 1..lastSeqNum'[h]
    <3>1. s \in 1..lastSeqNum[h]
      BY <1>1, <2>1, Intervals, Numbers, SeqNums
    <3> QED
      BY <1>2, <2>1, <3>1
  <2> QED
    BY <1>3, <2>3, <2>4, <2>5, <2>6, OneWindow
<1>6. CASE ObserveRestart(h, s)
  <2>1. lastSeqNum'[h] = s /\ first'[h] = s /\ seen'[h] = {s}
    BY <1>6 DEF ObserveRestart, TypeOK, FlowType, HistoryType
  <2>2. DOMAIN pending'[h] = {}
    BY <1>6, ObserveDomains
  <2>3. DOMAIN pending'[h] \subseteq (first'[h] + 1)..(lastSeqNum'[h] - 1)
    BY <2>1, <2>2
  <2>4. DOMAIN pending'[h] \cap seen'[h] = {}
    BY <2>1, <2>2
  <2>a. s..s = {s} /\ s \in 1..s
    BY <1>1, Intervals, SeqNums
  <2>5. first'[h]..lastSeqNum'[h] \subseteq seen'[h] \cup DOMAIN pending'[h] \cup gone'[h]
    BY <2>1, <2>2, <2>a
  <2>6. first'[h] \in 1..lastSeqNum'[h] /\ seen'[h] \subseteq 1..lastSeqNum'[h]
    BY <2>1, <2>a
  <2> QED
    BY <1>3, <2>3, <2>4, <2>5, <2>6, OneWindow
<1>7. CASE ObserveAdvance(h, s)
  <2>1. /\ lastSeqNum'[h] = s /\ lastSeqNum[h] # 0 /\ s > lastSeqNum[h]
        /\ first'[h] = first[h] /\ seen'[h] = seen[h] \cup {s} /\ gone'[h] = gone[h]
    BY <1>7 DEF ObserveAdvance, TypeOK, FlowType, HistoryType
  <2>2. DOMAIN pending'[h] = DOMAIN pending[h] \cup (lastSeqNum[h] + 1)..(s - 1)
    <3>1. s \notin DOMAIN pending[h]
      <4>1. s \notin (first[h] + 1)..(lastSeqNum[h] - 1)
        <5>1. first[h] \in Int /\ lastSeqNum[h] \in Int /\ s \in Int
          BY <1>1, CountAssumption, SMTT(20)
        <5> QED  BY <2>1, <5>1, OutOfWindow
      <4> QED  BY <1>2, <4>1
    <3>2. DOMAIN pending'[h] = (DOMAIN pending[h] \ {s})
             \cup (Missing(lastSeqNum[h], s) \ (DOMAIN pending[h] \ {s}))
      BY <1>7, ObserveDomains
    <3>3. Missing(lastSeqNum[h], s) = (lastSeqNum[h] + 1)..(s - 1)
      BY DEF Missing
    <3> QED
      BY <3>1, <3>2, <3>3
  <2> DEFINE b == first[h]
             l == lastSeqNum[h]
             S == seen[h]
             P == DOMAIN pending[h]
             G == gone[h]
             Q == DOMAIN pending'[h]
  <2>7. l \in Int /\ b \in 1..l /\ s \in Int /\ l < s
    <3>1. /\ l \in 0..MaxSeq /\ s \in 1..MaxSeq /\ l # 0 /\ s > l
          /\ l # 0 => b \in 1..l
      BY <1>1, <1>2, <2>1
    <3> HIDE DEF l, b
    <3> QED  BY <3>1, SMTT(20)
  <2>8. /\ P \subseteq (b + 1)..(l - 1) /\ S \subseteq 1..l /\ P \cap S = {}
        /\ b..l \subseteq S \cup P \cup G /\ Q = P \cup (l + 1)..(s - 1)
    BY <1>2, <2>1, <2>2
  <2> HIDE DEF b, l, S, P, G, Q
  <2>9. /\ Q \subseteq (b + 1)..(s - 1) /\ Q \cap (S \cup {s}) = {}
        /\ b..s \subseteq (S \cup {s}) \cup Q \cup G
        /\ b \in 1..s /\ S \cup {s} \subseteq 1..s
    BY <2>7, <2>8, WindowGrows, SMTT(20)
  <2>3. DOMAIN pending'[h] \subseteq (first'[h] + 1)..(lastSeqNum'[h] - 1)
    BY <2>1, <2>9 DEF b, Q
  <2>4. DOMAIN pending'[h] \cap seen'[h] = {}
    BY <2>1, <2>9 DEF S, Q
  <2>5. first'[h]..lastSeqNum'[h] \subseteq seen'[h] \cup DOMAIN pending'[h] \cup gone'[h]
    BY <2>1, <2>9 DEF b, S, Q, G
  <2>6. first'[h] \in 1..lastSeqNum'[h] /\ seen'[h] \subseteq 1..lastSeqNum'[h]
    BY <2>1, <2>9 DEF b, S
  <2> QED
    BY <1>3, <2>3, <2>4, <2>5, <2>6, OneWindow
<1> QED
  BY <1>4, <1>5, <1>6, <1>7 DEF Observe

(* sweepOnce keeps the window.                                              *)
LEMMA SweepWindow ==
  ASSUME TypeOK, WindowInv, Sweep
  PROVE  WindowInv'
<1>1. \A h \in HashKey : DOMAIN pending'[h] = DOMAIN pending[h] \ HopelessGaps(h)
  BY SweptFacts DEF Sweep
<1>2. ASSUME NEW h \in HashKey, h \in IdleFlows
      PROVE  /\ lastSeqNum'[h] = 0 /\ seen'[h] = {} /\ DOMAIN pending'[h] = {}
             /\ first'[h] = 0
  BY <1>1, <1>2 DEF Sweep, IdleFlows
<1>3. ASSUME NEW h \in HashKey, h \notin IdleFlows
      PROVE  /\ lastSeqNum'[h] = lastSeqNum[h] /\ first'[h] = first[h]
             /\ seen'[h] = seen[h] /\ gone'[h] = gone[h] \cup HopelessGaps(h)
  BY <1>3 DEF Sweep
<1>4. FlowOpened'
  BY <1>2, <1>3 DEF WindowInv, FlowOpened
<1>5. GapsInWindow'
  BY <1>1, <1>2, <1>3 DEF WindowInv, GapsInWindow
<1>6. NoPhantomGap'
  BY <1>1, <1>2, <1>3 DEF WindowInv, NoPhantomGap
<1>7. NoSilentLoss'
  BY <1>1, <1>2, <1>3 DEF WindowInv, NoSilentLoss
<1> QED
  BY <1>4, <1>5, <1>6, <1>7 DEF WindowInv

(* No flow has a window at the start.                                       *)
LEMMA WindowInit ==
  Init => WindowInv
<1> SUFFICES ASSUME Init PROVE WindowInv
  OBVIOUS
<1>1. \A h \in HashKey : lastSeqNum[h] = 0 /\ seen[h] = {} /\ DOMAIN pending[h] = {}
  BY NoGapsType DEF Init
<1>2. FlowOpened /\ NoSilentLoss
  BY <1>1 DEF FlowOpened, NoSilentLoss
<1>3. GapsInWindow /\ NoPhantomGap
  BY <1>1 DEF GapsInWindow, NoPhantomGap
<1> QED  BY <1>2, <1>3 DEF WindowInv

(* Every step keeps the window.                                             *)
LEMMA WindowStep ==
  ASSUME TypeOK, WindowInv, [Next]_vars
  PROVE  WindowInv'
  BY StepCases, QuietWindow, ObserveWindow, CloseGapWindow, SweepWindow

(* The window invariants hold in every reachable state: gaps lie between   *)
(* the number that opened the flow and the highest one, none of them is a  *)
(* frame that was observed, and no number in between is forgotten.         *)
THEOREM WindowCorrect == Spec => []WindowExact
<1>1. WindowInv => WindowExact
  BY DEF WindowInv, WindowExact
<1> QED
  BY <1>1, WindowInit, WindowStep, TypeCorrect, PTL DEF Spec

-----------------------------------------------------------------------------
(* The accounting of gaps.                                                 *)

(* The equation for one flow: the numbers on both sides are naturals.      *)
LEMMA CountType ==
  ASSUME TypeOK, NEW h \in HashKey
  PROVE  /\ IsFiniteSet(DOMAIN pending[h])
         /\ Cardinality(DOMAIN pending[h]) \in Nat
         /\ detected[h] \in Nat /\ suppressed[h] \in Nat /\ unrecovered[h] \in Nat
  BY SeqNumSubsetFinite DEF TypeOK, FlowType, IsPendingMap, MetricType

(* A deletion that finds its number is counted once, another one not.      *)
LEMMA FoundCount ==
  ASSUME TypeOK, NEW h \in HashKey, NEW s, NEW counter \in [HashKey -> Nat]
  PROVE  /\ CountFound(counter, h, s)[h] + Cardinality(DOMAIN pending[h] \ {s})
              = counter[h] + Cardinality(DOMAIN pending[h])
         /\ \A k \in HashKey \ {h} : CountFound(counter, h, s)[k] = counter[k]
<1>1. Cardinality(DOMAIN pending[h] \ {s}) =
        IF s \in DOMAIN pending[h] THEN Cardinality(DOMAIN pending[h]) - 1
        ELSE Cardinality(DOMAIN pending[h])
  BY CountType, FS_RemoveElement
<1> QED
  BY <1>1, CountType, SMTT(20) DEF CountFound

(* Closing a gap keeps the gap counters balanced.                           *)
LEMMA CloseGapAccounting ==
  ASSUME TypeOK, GapAccounting, NEW h \in HashKey, NEW s \in SeqNum, CloseGap(h, s)
  PROVE  GapAccounting'
<1>1. /\ DOMAIN pending'[h] = DOMAIN pending[h] \ {s}
      /\ \A k \in HashKey \ {h} : pending'[k] = pending[k]
  BY WithoutFacts DEF CloseGap, TypeOK, FlowType
<1>2. /\ suppressed'[h] + Cardinality(DOMAIN pending'[h])
           = suppressed[h] + Cardinality(DOMAIN pending[h])
      /\ \A k \in HashKey \ {h} : suppressed'[k] = suppressed[k]
  <2>1. suppressed \in [HashKey -> Nat] /\ suppressed' = CountFound(suppressed, h, s)
    BY DEF CloseGap, TypeOK, MetricType
  <2>2. /\ CountFound(suppressed, h, s)[h] + Cardinality(DOMAIN pending[h] \ {s})
             = suppressed[h] + Cardinality(DOMAIN pending[h])
        /\ \A k \in HashKey \ {h} : CountFound(suppressed, h, s)[k] = suppressed[k]
    BY <2>1, FoundCount
  <2> QED
    BY <1>1, <2>1, <2>2
<1>3. detected' = detected /\ unrecovered' = unrecovered
  BY DEF CloseGap
<1>4. suppressed'[h] \in Nat /\ Cardinality(DOMAIN pending'[h]) \in Nat
  <2>1. IsFiniteSet(DOMAIN pending'[h])
    <3>1. IsFiniteSet(DOMAIN pending[h] \ {s})
      BY CountType, FS_RemoveElement
    <3> QED  BY <1>1, <3>1
  <2>2. suppressed'[h] \in Nat
    <3>1. suppressed \in [HashKey -> Nat] /\ suppressed' = CountFound(suppressed, h, s)
      BY DEF CloseGap, TypeOK, MetricType
    <3>2. suppressed' \in [HashKey -> Nat]
      BY <3>1, CountFoundType
    <3> QED  BY <3>2
  <2> QED
    BY <2>1, <2>2, FS_CardinalityType
<1>5. detected'[h] = suppressed'[h] + unrecovered'[h] + Cardinality(DOMAIN pending'[h])
  <2> DEFINE u == unrecovered[h]
             v == suppressed[h]
             w == suppressed'[h]
             p == Cardinality(DOMAIN pending[h])
             f == Cardinality(DOMAIN pending'[h])
  <2>1. detected'[h] = v + u + p
    BY <1>3 DEF GapAccounting
  <2>2. u \in Nat /\ v \in Nat /\ w \in Nat /\ p \in Nat /\ f \in Nat /\ w + f = v + p
    BY <1>2, <1>4, CountType
  <2> HIDE DEF u, v, w, p, f
  <2>3. v + u + p = w + u + f
    BY <2>2, SMTT(20)
  <2> QED  BY <1>3, <2>1, <2>3 DEF u, w, f
<1> QED
  BY <1>1, <1>2, <1>3, <1>5 DEF GapAccounting

(* Observe keeps the gap counters balanced.                                 *)
LEMMA ObserveAccounting ==
  ASSUME TypeOK, WindowInv, GapAccounting,
         NEW h \in HashKey, NEW s \in SeqNum, Observe(h, s)
  PROVE  GapAccounting'
<1> DEFINE found == DOMAIN pending[h] \ {s}
           new == Missing(lastSeqNum[h], s) \ found
<1>1. /\ suppressed'[h] + Cardinality(found) = suppressed[h] + Cardinality(DOMAIN pending[h])
      /\ \A k \in HashKey \ {h} : suppressed'[k] = suppressed[k]
      /\ suppressed'[h] \in Nat
  <2>1. suppressed' = CountFound(suppressed, h, s)
    BY DEF Observe, ObserveFirst, ObserveOld, ObserveRestart, ObserveAdvance, AutoFill
  <2>2. suppressed \in [HashKey -> Nat]
    BY DEF TypeOK, MetricType
  <2>3. suppressed'[h] \in Nat
    BY <2>1, <2>2, CountFoundType
  <2> QED
    BY <2>1, <2>2, <2>3, FoundCount
<1>2. \A k \in HashKey \ {h} :
        /\ pending'[k] = pending[k]
        /\ detected'[k] = detected[k] /\ unrecovered'[k] = unrecovered[k]
  <2>1. \A k \in HashKey \ {h} : pending'[k] = pending[k]
    BY ObserveDomains
  <2> QED
    BY <2>1 DEF Observe, ObserveFirst, ObserveOld, ObserveRestart, ObserveAdvance,
                TypeOK, MetricType
<1>3. detected[h] = suppressed[h] + unrecovered[h] + Cardinality(DOMAIN pending[h])
  BY DEF GapAccounting
<1>4. IsFiniteSet(found) /\ Cardinality(found) \in Nat
  BY CountType, FS_RemoveElement, FS_CardinalityType
<1>a. detected[h] = suppressed'[h] + unrecovered[h] + Cardinality(found)
  <2> DEFINE u == unrecovered[h]
             v == suppressed[h]
             w == suppressed'[h]
             p == Cardinality(DOMAIN pending[h])
             f == Cardinality(found)
  <2>1. u \in Nat /\ v \in Nat /\ w \in Nat /\ p \in Nat /\ f \in Nat /\ w + f = v + p
    BY <1>1, <1>4, CountType
  <2> HIDE DEF u, v, w, p, f
  <2>2. v + u + p = w + u + f
    BY <2>1, SMTT(20)
  <2> QED  BY <1>3, <2>2 DEF u, v, w, p, f
<1> SUFFICES detected'[h] = suppressed'[h] + unrecovered'[h] + Cardinality(DOMAIN pending'[h])
  BY <1>1, <1>2 DEF GapAccounting
<1>5. CASE ObserveFirst(h, s)
  <2>1. /\ detected' = detected /\ unrecovered' = unrecovered
        /\ DOMAIN pending'[h] = DOMAIN pending[h] /\ lastSeqNum[h] = 0
    BY <1>5 DEF ObserveFirst
  <2>2. DOMAIN pending[h] = found
    <3>1. first[h] \in Int /\ first[h] >= 0 /\ lastSeqNum[h] \in Int
      BY <2>1, CountAssumption, SMTT(20) DEF TypeOK, HistoryType
    <3>2. DOMAIN pending[h] \subseteq (first[h] + 1)..(lastSeqNum[h] - 1)
      BY DEF WindowInv, GapsInWindow
    <3>3. (first[h] + 1)..(lastSeqNum[h] - 1) = {}
      BY <2>1, <3>1, OutOfWindow
    <3> QED  BY <3>2, <3>3
  <2> HIDE DEF found
  <2>3. /\ Cardinality(DOMAIN pending'[h]) = Cardinality(found)
        /\ Cardinality(DOMAIN pending[h]) = Cardinality(found)
    BY <2>1, <2>2
  <2> QED
    BY <1>a, <2>1, <2>3
<1>6. CASE ObserveOld(h, s)
  <2>1. detected' = detected /\ unrecovered' = unrecovered
    BY <1>6 DEF ObserveOld
  <2>2. DOMAIN pending'[h] = found
    BY <1>6, ObserveDomains
  <2> HIDE DEF found
  <2> QED
    BY <1>a, <2>1, <2>2
<1>7. CASE ObserveRestart(h, s)
  <2>1. detected' = detected /\ unrecovered'[h] = unrecovered[h] + Cardinality(found)
    BY <1>7 DEF ObserveRestart, TypeOK, MetricType
  <2>2. Cardinality(DOMAIN pending'[h]) = 0
    <3>1. DOMAIN pending'[h] = {}
      BY <1>7, ObserveDomains
    <3> QED  BY <3>1, FS_EmptySet
  <2> DEFINE f == Cardinality(found)
             p == Cardinality(DOMAIN pending[h])
             u == unrecovered[h]
             v == suppressed[h]
             w == suppressed'[h]
  <2>3. /\ f \in Nat /\ p \in Nat /\ u \in Nat /\ v \in Nat /\ w \in Nat
        /\ w + f = v + p /\ detected[h] = v + u + p
    BY <1>1, <1>3, <1>4, CountType
  <2>4. detected'[h] = detected[h] /\ unrecovered'[h] = u + f
    BY <2>1
  <2> HIDE DEF f, p, u, v, w
  <2>5. v + u + p = w + (u + f) + 0
    BY <2>3, SMTT(20)
  <2> QED  BY <2>2, <2>3, <2>4, <2>5 DEF w
<1>8. CASE ObserveAdvance(h, s)
  <2>1. unrecovered' = unrecovered /\ detected'[h] = detected[h] + Cardinality(new)
    BY <1>8, WithoutFacts DEF ObserveAdvance, TypeOK, MetricType
  <2>2. new \subseteq SeqNum
    BY MissingNumbered DEF TypeOK, FlowType
  <2>3. IsFiniteSet(new) /\ Cardinality(new) \in Nat
    BY <2>2, SeqNumSubsetFinite
  <2>4. DOMAIN pending'[h] = found \cup new
    BY <1>8, ObserveDomains
  <2>5. Cardinality(found \cap new) = 0
    BY FS_EmptySet
  <2> HIDE DEF found, new
  <2>6. Cardinality(found \cup new) =
          Cardinality(found) + Cardinality(new) - Cardinality(found \cap new)
    BY <1>4, <2>3, FS_Union
  <2>7. Cardinality(DOMAIN pending'[h]) = Cardinality(found) + Cardinality(new)
    BY <1>4, <2>3, <2>4, <2>5, <2>6, SMTT(20)
  <2> DEFINE f == Cardinality(found)
             n == Cardinality(new)
             p == Cardinality(DOMAIN pending[h])
             u == unrecovered[h]
             v == suppressed[h]
             w == suppressed'[h]
  <2>8. /\ f \in Nat /\ n \in Nat /\ p \in Nat /\ u \in Nat /\ v \in Nat /\ w \in Nat
        /\ w + f = v + p /\ detected[h] = v + u + p
    BY <1>1, <1>3, <1>4, <2>3, CountType
  <2>9. /\ detected'[h] = detected[h] + n /\ unrecovered'[h] = u
        /\ Cardinality(DOMAIN pending'[h]) = f + n
    BY <2>1, <2>7
  <2> HIDE DEF f, n, p, u, v, w
  <2>10. v + u + p + n = w + u + (f + n)
    BY <2>8, SMTT(20)
  <2> QED  BY <2>8, <2>9, <2>10 DEF w
<1> QED
  BY <1>5, <1>6, <1>7, <1>8 DEF Observe

(* sweepOnce keeps the gap counters balanced.                               *)
LEMMA SweepAccounting ==
  ASSUME TypeOK, GapAccounting, Sweep
  PROVE  GapAccounting'
<1> SUFFICES ASSUME NEW h \in HashKey
             PROVE  detected'[h] = suppressed'[h] + unrecovered'[h]
                                     + Cardinality(DOMAIN pending'[h])
  BY DEF GapAccounting
<1>1. DOMAIN pending'[h] = DOMAIN pending[h] \ HopelessGaps(h)
  BY SweptFacts DEF Sweep
<1>2. /\ detected'[h] = detected[h] /\ suppressed'[h] = suppressed[h]
      /\ unrecovered'[h] = unrecovered[h] + Cardinality(HopelessGaps(h))
  BY DEF Sweep
<1>3. DOMAIN pending[h] \cap HopelessGaps(h) = HopelessGaps(h)
  BY DEF HopelessGaps
<1>4. Cardinality(DOMAIN pending'[h]) =
        Cardinality(DOMAIN pending[h]) - Cardinality(HopelessGaps(h))
  BY <1>1, <1>3, CountType, FS_Difference
<1> DEFINE g == Cardinality(HopelessGaps(h))
           p == Cardinality(DOMAIN pending[h])
           u == unrecovered[h]
           v == suppressed[h]
<1>5. g \in Nat /\ p \in Nat /\ u \in Nat /\ v \in Nat
  BY CountType, HopelessCount
<1>6. detected'[h] = v + u + p /\ suppressed'[h] = v /\ unrecovered'[h] = u + g
  BY <1>2 DEF GapAccounting
<1>7. Cardinality(DOMAIN pending'[h]) = p - g
  BY <1>4
<1> HIDE DEF g, p, u, v
<1>8. v + u + p = v + (u + g) + (p - g)
  BY <1>5, SMTT(20)
<1> QED
  BY <1>6, <1>7, <1>8

(* A step that leaves gaps and counters alone keeps them balanced.          *)
LEMMA QuietAccounting ==
  ASSUME GapAccounting, Quiet
  PROVE  GapAccounting'
  BY DEF GapAccounting, Quiet, metricVars

(* Every step keeps the gap counters balanced.                              *)
LEMMA AccountingStep ==
  ASSUME TypeOK, WindowInv, GapAccounting, [Next]_vars
  PROVE  GapAccounting'
  BY StepCases, QuietAccounting, ObserveAccounting, CloseGapAccounting, SweepAccounting

(* Every detected gap is pending or counted once as suppressed or          *)
(* unrecovered, in every reachable state.                                  *)
THEOREM AccountingCorrect == Spec => []GapAccounting
<1>1. Init => GapAccounting
  <2>1. Cardinality({}) = 0 /\ 0 + 0 + 0 = 0
    BY FS_EmptySet, SMTT(20)
  <2> QED  BY <2>1, NoGapsType DEF Init, GapAccounting
<1> QED
  BY <1>1, AccountingStep, WindowInit, WindowStep, TypeCorrect, PTL DEF Spec

-----------------------------------------------------------------------------
(* The composition with the proxy, the endpoints and the networks.         *)

(* A step of the composition moves the tracker the way Next allows, or not *)
(* at all.                                                                 *)
LEMMA RecoveryStep ==
  ASSUME [RecoveryNext]_allVars
  PROVE  [Next]_vars
<1>1. CASE UNCHANGED allVars
  BY <1>1 DEF allVars
<1>2. ASSUME NEW h \in HashKey, Publish(h)
      PROVE  UNCHANGED vars
  BY <1>2 DEF Publish
<1>3. ASSUME NEW h \in HashKey, NEW s \in SeqNum, Arrive(h, s)
      PROVE  Next
  BY <1>3 DEF Arrive, Next
<1>4. CASE Dispatching \/ Pass
  BY <1>4 DEF Dispatching, Pass, Next
<1>5. ASSUME NEW t \in DOMAIN senders, Asking(t)
      PROVE  Next \/ UNCHANGED vars
  <2>1. CASE AnswerMISS(t) \/ AnswerACK(t) \/ Lose(t)
    BY <2>1 DEF AnswerMISS, AnswerACK, Lose
  <2>2. CASE \/ Ask(t) \/ AskNobody(t) \/ AskFails(t)
             \/ GetACK(t) \/ GetMISS(t) \/ GetGarbled(t) \/ GiveUpWaiting(t)
    <3>1. Sending(t)
      BY <2>2 DEF Ask, AskNobody, AskFails, GetACK, GetMISS, GetGarbled,
                         GiveUpWaiting, Sending
    <3> QED  BY <3>1 DEF Next
  <2> QED  BY <1>5, <2>1, <2>2 DEF Asking
<1> QED  BY <1>1, <1>2, <1>3, <1>4, <1>5 DEF RecoveryNext

(* The composition implements the tracker's own specification, in which    *)
(* any frame, answer, loss and delay is possible.                          *)
THEOREM Composition == RecoverySpec => Spec
<1>1. RecoveryInit => Init
  BY DEF RecoveryInit
<1>2. [RecoveryNext]_allVars => [Next]_vars
  BY RecoveryStep
<1> QED  BY <1>1, <1>2, PTL DEF RecoverySpec, Spec

(* So the windows are exact and every gap is accounted for end to end.     *)
THEOREM RecoveryCorrect == RecoverySpec => [](WindowExact /\ GapAccounting)
BY Composition, WindowCorrect, AccountingCorrect, PTL

-----------------------------------------------------------------------------
(* Attempts.  The properties of the retries hold as long as no gap is under *)
(* way twice (OneCopy): the copy then knows of as many attempts as the gap. *)

(* The copies of gap entries between a sweep and the return of sendNACK.   *)
Underway == Range(queue) \cup Range(held) \cup {senders[t].job : t \in DOMAIN senders}

(* The first n endpoints have been asked for the frame.                    *)
TriedTo(g, n) == \A k \in 0..(n - 1) : Target(k) \in tried[g]

(* The entry counts an attempt at every endpoint before its own.           *)
Backed(e, g) == e.endpointIdx = e.retries /\ TriedTo(g, e.retries)

(* The copy is at least as far as its gap, which has retries left.         *)
Ahead(job) ==
  /\ MaxRetries > 0
  /\ TriedTo(GapOf(job), job.endpointIdx)
  /\ job.seqNum \in DOMAIN pending[job.hashKey] =>
       /\ pending[job.hashKey][job.seqNum].retries <= job.endpointIdx
       /\ pending[job.hashKey][job.seqNum].retries < MaxRetries

(* A sender that waits has asked the endpoint of its copy.                 *)
Asked(t) ==
  senders[t].phase = "waiting" =>
    Target(senders[t].job.endpointIdx) \in tried[GapOf(senders[t].job)]

(* A gap has had an attempt at every endpoint before its own, and a copy   *)
(* is at least as far as its gap.                                          *)
AttemptInv ==
  /\ DOMAIN tried = FrameId
  /\ \A h \in HashKey : \A s \in DOMAIN pending[h] : Backed(pending[h][s], <<h, s>>)
  /\ \A job \in Underway : Ahead(job)
  /\ \A t \in DOMAIN senders : Asked(t)

(* What every step of the composition keeps.                               *)
TriesKept ==
  /\ endpoints' = endpoints
  /\ DOMAIN tried' = FrameId
  /\ \A g \in FrameId : tried[g] \subseteq tried'[g]

(* The gap was pending before, with the same entry.                        *)
Kept(h, s) == s \in DOMAIN pending[h] /\ pending'[h][s] = pending[h][s]

(* The gap was pending before and its counts are the same.                 *)
SameRetries(h, s) ==
  /\ s \in DOMAIN pending[h]
  /\ pending'[h][s].retries = pending[h][s].retries
  /\ pending'[h][s].endpointIdx = pending[h][s].endpointIdx

(* The gap is new.                                                         *)
Fresh(h, s) == pending'[h][s].retries = 0 /\ pending'[h][s].endpointIdx = 0

(* The step counts no attempt for any gap.                                 *)
NoAttempt ==
  \A h \in HashKey : \A s \in DOMAIN pending'[h] : SameRetries(h, s) \/ Fresh(h, s)

(* Types, spelled out for the flows, the entries and the copies.           *)
LEMMA FlowNumbers ==
  ASSUME TypeOK, NEW h \in HashKey
  PROVE  lastSeqNum[h] \in Int /\ first[h] \in Int
<1>1. lastSeqNum \in [HashKey -> 0..MaxSeq] /\ first \in [HashKey -> 0..MaxSeq]
  BY DEF TypeOK, FlowType, HistoryType
<1>2. lastSeqNum[h] \in 0..MaxSeq /\ first[h] \in 0..MaxSeq
  BY <1>1
<1> QED  BY <1>2, SMTT(20)

LEMMA EntryType ==
  ASSUME TypeOK, NEW h \in HashKey, NEW s \in DOMAIN pending[h]
  PROVE  /\ s \in SeqNum /\ <<h, s>> \in FrameId
         /\ pending[h][s].retries \in Nat /\ pending[h][s].endpointIdx \in Nat
<1>1. DOMAIN pending[h] \subseteq SeqNum /\ pending[h] \in [DOMAIN pending[h] -> GapEntry]
  BY DEF TypeOK, FlowType, IsPendingMap
<1>2. pending[h][s] \in GapEntry
  BY <1>1
<1> QED  BY <1>1, <1>2 DEF GapEntry, FrameId

(* The copy a sender works on is a job, and under way.                     *)
LEMMA SenderJob ==
  ASSUME TypeOK, NEW t \in DOMAIN senders
  PROVE  senders[t].job \in Job /\ senders[t].job \in Underway
<1>1. senders[t] \in Sender
  BY DEF TypeOK, NackType
<1> QED  BY <1>1 DEF Sender, Underway

(* The parts of a job.                                                     *)
LEMMA JobParts ==
  ASSUME NEW job \in Job
  PROVE  /\ job.hashKey \in HashKey /\ job.seqNum \in SeqNum /\ job.endpointIdx \in Nat
         /\ GapOf(job) \in FrameId
  BY DEF Job, GapOf, FrameId

(* Whatever is under way is a job.                                         *)
LEMMA UnderwayType ==
  ASSUME TypeOK, NEW job \in Underway
  PROVE  job \in Job
<1>1. queue \in Seq(Job) /\ held \in Seq(Job)
  BY DEF TypeOK, NackType
<1>2. Range(queue) \subseteq Job /\ Range(held) \subseteq Job
  BY <1>1, SMTT(20) DEF Range
<1> QED  BY <1>2, SenderJob DEF Underway

(* What has been tried stays tried.                                        *)
LEMMA TriedStays ==
  ASSUME TriesKept, NEW g \in FrameId, NEW n, TriedTo(g, n)
  PROVE  TriedTo(g, n)'
<1>1. \A k : Target(k)' = Target(k)
  BY DEF TriesKept, Target
<1> QED  BY <1>1 DEF TriesKept, TriedTo

(* The two halves of the invariant under a step that counts no attempt.    *)
LEMMA GapsStayBacked ==
  ASSUME TypeOK, AttemptInv, TriesKept, NEW h \in HashKey, NEW s \in DOMAIN pending'[h],
         SameRetries(h, s) \/ Fresh(h, s), s \in SeqNum
  PROVE  Backed(pending[h][s], <<h, s>>)'
<1>0. <<h, s>> \in FrameId
  BY DEF FrameId
<1>1. CASE SameRetries(h, s)
  <2>1. Backed(pending[h][s], <<h, s>>)
    BY <1>1 DEF AttemptInv, SameRetries
  <2>2. TriedTo(<<h, s>>, pending[h][s].retries)'
    <3>1. TriedTo(<<h, s>>, pending'[h][s].retries)
      BY <1>1, <2>1 DEF Backed, SameRetries
    <3> DEFINE n == pending'[h][s].retries
    <3> HIDE DEF n
    <3>2. \A k : Target(k)' = Target(k)
      BY DEF TriesKept, Target
    <3> QED  BY <1>0, <3>1, <3>2 DEF TriesKept, TriedTo
  <2> QED  BY <1>1, <2>1, <2>2 DEF Backed, SameRetries
<1>2. CASE Fresh(h, s)
  BY <1>2, Intervals DEF Fresh, Backed, TriedTo
<1> QED  BY <1>1, <1>2

(* A copy stays ahead of its gap when no attempt is counted.               *)
LEMMA CopyStaysAhead ==
  ASSUME TypeOK, AttemptInv, TriesKept, NoAttempt, NEW job \in Underway
  PROVE  Ahead(job)'
<1>1. Ahead(job) /\ job \in Job
  BY UnderwayType DEF AttemptInv
<1>2. job.hashKey \in HashKey /\ job.endpointIdx \in Nat /\ GapOf(job) \in FrameId
  BY <1>1, JobParts
<1>3. TriedTo(GapOf(job), job.endpointIdx)'
  BY <1>1, <1>2, TriedStays DEF Ahead
<1>4. ASSUME job.seqNum \in DOMAIN pending'[job.hashKey]
      PROVE  /\ pending'[job.hashKey][job.seqNum].retries <= job.endpointIdx
             /\ pending'[job.hashKey][job.seqNum].retries < MaxRetries
  <2>1. SameRetries(job.hashKey, job.seqNum) \/ Fresh(job.hashKey, job.seqNum)
    BY <1>2, <1>4 DEF NoAttempt
  <2>2. CASE SameRetries(job.hashKey, job.seqNum)
    BY <1>1, <2>2 DEF SameRetries, Ahead
  <2>3. CASE Fresh(job.hashKey, job.seqNum)
    <3>1. 0 <= job.endpointIdx
      BY <1>2, SMTT(20)
    <3>2. MaxRetries > 0
      BY <1>1 DEF Ahead
    <3>3. 0 < MaxRetries
      BY <3>2, CountAssumption
    <3> QED  BY <2>3, <3>1, <3>3 DEF Fresh
  <2> QED  BY <2>1, <2>2, <2>3
<1> QED  BY <1>1, <1>3, <1>4 DEF Ahead

(* A step that counts no attempt, makes no copy and asks nobody.           *)
LEMMA QuietAttempt ==
  ASSUME TypeOK, TypeOK', AttemptInv, TriesKept, NoAttempt, Underway' \subseteq Underway,
         \A t \in DOMAIN senders' : senders'[t].phase = "waiting" =>
            /\ t \in DOMAIN senders
            /\ senders[t].phase = "waiting" /\ senders'[t].job = senders[t].job
  PROVE  AttemptInv'
<1>1. \A h \in HashKey : \A s \in DOMAIN pending'[h] : Backed(pending[h][s], <<h, s>>)'
  <2> SUFFICES ASSUME NEW h \in HashKey, NEW s \in DOMAIN pending'[h]
               PROVE  Backed(pending[h][s], <<h, s>>)'
    OBVIOUS
  <2>1. s \in SeqNum
    BY DEF TypeOK, FlowType, IsPendingMap
  <2> QED  BY <2>1, GapsStayBacked DEF NoAttempt
<1>2. \A job \in Underway' : Ahead(job)'
  BY CopyStaysAhead
<1>3. ASSUME NEW t \in DOMAIN senders'
      PROVE  Asked(t)'
  <2> SUFFICES ASSUME senders'[t].phase = "waiting"
               PROVE  (Target(senders[t].job.endpointIdx) \in tried[GapOf(senders[t].job)])'
    BY DEF Asked
  <2>1. t \in DOMAIN senders /\ senders[t].phase = "waiting" /\ senders'[t].job = senders[t].job
    OBVIOUS
  <2>2. Target(senders[t].job.endpointIdx) \in tried[GapOf(senders[t].job)]
    BY <2>1 DEF AttemptInv, Asked
  <2>3. GapOf(senders[t].job) \in FrameId
    BY <2>1, SenderJob, JobParts
  <2>4. GapOf(senders'[t].job) = GapOf(senders[t].job)
    BY <2>1
  <2>5. Target(senders[t].job.endpointIdx)' = Target(senders[t].job.endpointIdx)
    BY <2>1 DEF TriesKept, Target
  <2> QED  BY <2>2, <2>3, <2>4, <2>5 DEF TriesKept
<1> QED  BY <1>1, <1>2, <1>3 DEF AttemptInv, TriesKept

(* Closing a gap keeps the entries of the others.                          *)
LEMMA CloseGapKeeps ==
  ASSUME TypeOK, NEW h \in HashKey, NEW s, CloseGap(h, s)
  PROVE  \A k \in HashKey : \A m \in DOMAIN pending'[k] : Kept(k, m)
<1>1. /\ DOMAIN pending'[h] = DOMAIN pending[h] \ {s}
      /\ \A m \in DOMAIN pending[h] \ {s} : pending'[h][m] = pending[h][m]
      /\ \A k \in HashKey \ {h} : pending'[k] = pending[k]
  <2>1. DOMAIN pending = HashKey /\ pending' = [pending EXCEPT ![h] = Without(@, s)]
    BY DEF CloseGap, TypeOK, FlowType
  <2>2. /\ pending'[h] = Without(pending[h], s)
        /\ \A k \in HashKey \ {h} : pending'[k] = pending[k]
    BY <2>1
  <2>3. /\ DOMAIN Without(pending[h], s) = DOMAIN pending[h] \ {s}
        /\ \A m \in DOMAIN pending[h] \ {s} : Without(pending[h], s)[m] = pending[h][m]
    BY WithoutFacts
  <2> QED  BY <2>2, <2>3
<1> QED  BY <1>1 DEF Kept

(* So it counts no attempt.                                                *)
LEMMA CloseGapCounts ==
  ASSUME TypeOK, NEW h \in HashKey, NEW s, CloseGap(h, s)
  PROVE  NoAttempt
  BY CloseGapKeeps DEF NoAttempt, SameRetries, Kept

(* The gap lies beyond what the flow had seen, and is new.                 *)
Opened(h, s) == s > lastSeqNum[h] /\ Fresh(h, s)

(* The numbers that a frame skips lie above the last one observed.         *)
LEMMA MissingAbove ==
  ASSUME NEW a \in Int, NEW s \in SeqNum
  PROVE  \A m \in Missing(a, s) : m > a
  BY SMTT(20) DEF Missing, SeqNum

(* Observing a frame opens gaps and closes one; it keeps the other entries.*)
LEMMA ObserveKeeps ==
  ASSUME TypeOK, NEW h \in HashKey, NEW s \in SeqNum, Observe(h, s)
  PROVE  \A k \in HashKey : \A m \in DOMAIN pending'[k] : Kept(k, m) \/ Opened(k, m)
<1>0. DOMAIN pending = HashKey /\ lastSeqNum[h] \in Nat
  BY CountAssumption, SMTT(20) DEF TypeOK, FlowType
<1>1. CASE ObserveFirst(h, s)
  BY <1>1 DEF ObserveFirst, Kept
<1>2. CASE ObserveOld(h, s)
  <2>1. pending' = [pending EXCEPT ![h] = Without(@, s)]
    BY <1>2 DEF ObserveOld
  <2>2. /\ DOMAIN pending'[h] = DOMAIN pending[h] \ {s}
        /\ \A m \in DOMAIN pending[h] \ {s} : pending'[h][m] = pending[h][m]
        /\ \A k \in HashKey \ {h} : pending'[k] = pending[k]
    <3>1. /\ pending'[h] = Without(pending[h], s)
          /\ \A k \in HashKey \ {h} : pending'[k] = pending[k]
      BY <1>0, <2>1
    <3>2. /\ DOMAIN Without(pending[h], s) = DOMAIN pending[h] \ {s}
          /\ \A m \in DOMAIN pending[h] \ {s} : Without(pending[h], s)[m] = pending[h][m]
      BY WithoutFacts
    <3> QED  BY <3>1, <3>2
  <2> QED  BY <2>2 DEF Kept
<1>3. CASE ObserveRestart(h, s)
  <2>1. pending' = [pending EXCEPT ![h] = NoGaps]
    BY <1>3 DEF ObserveRestart
  <2>2. DOMAIN pending'[h] = {} /\ \A k \in HashKey \ {h} : pending'[k] = pending[k]
    BY <1>0, <2>1, NoGapsType
  <2> QED  BY <2>2 DEF Kept
<1>4. CASE ObserveAdvance(h, s)
  <2> DEFINE gaps == Without(pending[h], s)
             new == Missing(lastSeqNum[h], s) \ DOMAIN gaps
             filled(jitter) == [m \in DOMAIN gaps \cup new |->
                                  IF m \in new THEN NewGap(jitter[m]) ELSE gaps[m]]
  <2>1. PICK jitter \in [new -> 0..JitterMax] :
          pending' = [pending EXCEPT ![h] = filled(jitter)]
    BY <1>4 DEF ObserveAdvance
  <2>2. /\ DOMAIN filled(jitter) = DOMAIN gaps \cup new
        /\ \A m \in new : filled(jitter)[m] = NewGap(jitter[m])
        /\ \A m \in DOMAIN gaps \ new : filled(jitter)[m] = gaps[m]
    OBVIOUS
  <2>3. /\ DOMAIN gaps = DOMAIN pending[h] \ {s}
        /\ \A m \in DOMAIN pending[h] \ {s} : gaps[m] = pending[h][m]
    BY WithoutFacts
  <2>a. \A m \in new : m > lastSeqNum[h]
    <3> DEFINE a == lastSeqNum[h]
    <3>1. a \in Int
      BY <1>0, FlowNumbers
    <3> HIDE DEF a
    <3>2. \A m \in Missing(a, s) : m > a
      BY <3>1, MissingAbove
    <3> QED  BY <3>2 DEF a
  <2> HIDE DEF filled, gaps, new
  <2>4. pending'[h] = filled(jitter) /\ \A k \in HashKey \ {h} : pending'[k] = pending[k]
    BY <1>0, <2>1
  <2>5. \A m \in DOMAIN pending'[h] :
          \/ m > lastSeqNum[h] /\ pending'[h][m] = NewGap(jitter[m])
          \/ m \in DOMAIN pending[h] /\ pending'[h][m] = pending[h][m]
    BY <2>a, <2>2, <2>3, <2>4
  <2>6. \A x : NewGap(x).retries = 0 /\ NewGap(x).endpointIdx = 0
    BY DEF NewGap
  <2>7. \A m \in DOMAIN pending'[h] : Kept(h, m) \/ Opened(h, m)
    BY <2>5, <2>6 DEF Kept, Opened, Fresh
  <2>8. \A k \in HashKey \ {h} : \A m \in DOMAIN pending'[k] : Kept(k, m)
    BY <2>4 DEF Kept
  <2> QED  BY <2>7, <2>8
<1> QED  BY <1>1, <1>2, <1>3, <1>4 DEF Observe

(* So it counts no attempt.                                                *)
LEMMA ObserveCounts ==
  ASSUME TypeOK, NEW h \in HashKey, NEW s \in SeqNum, Observe(h, s)
  PROVE  NoAttempt
  BY ObserveKeeps DEF NoAttempt, SameRetries, Kept, Opened

(* Time passes for the gaps; no attempt is counted.                        *)
LEMMA TickCounts ==
  ASSUME TypeOK, Tick
  PROVE  NoAttempt
<1>1. \A h \in HashKey : /\ DOMAIN pending'[h] = DOMAIN pending[h]
                         /\ \A s \in DOMAIN pending[h] : pending'[h][s] = Aged(pending[h][s])
  BY DEF Tick
<1>2. \A e : Aged(e).retries = e.retries /\ Aged(e).endpointIdx = e.endpointIdx
  BY DEF Aged
<1> QED  BY <1>1, <1>2 DEF NoAttempt, SameRetries

(* A sweep stamps and drops gaps; it counts no attempt.                    *)
LEMMA SweepCounts ==
  ASSUME TypeOK, NEW batch, pending' = [h \in HashKey |-> Swept(h, batch)]
  PROVE  /\ NoAttempt
         /\ \A h \in HashKey : \A s \in DOMAIN pending'[h] : SameRetries(h, s)
<1> SUFFICES ASSUME NEW h \in HashKey, NEW s \in DOMAIN pending'[h]
             PROVE  SameRetries(h, s)
  BY DEF NoAttempt
<1>1. /\ s \in DOMAIN pending[h]
      /\ pending'[h][s] = IF Due(pending[h][s])
                          THEN Stamp(<<h, s>> \in Range(batch), pending[h][s])
                          ELSE pending[h][s]
  BY DEF Swept
<1>2. pending[h][s] \in GapEntry
  BY <1>1 DEF TypeOK, FlowType, IsPendingMap
<1>3. \A q : /\ Stamp(q, pending[h][s]).retries = pending[h][s].retries
             /\ Stamp(q, pending[h][s]).endpointIdx = pending[h][s].endpointIdx
  BY <1>2 DEF Stamp, GapEntry
<1> QED  BY <1>1, <1>3 DEF SameRetries

(* The dispatcher and a returning sendNACK make no copies.                 *)
LEMMA DispatchUnderway ==
  ASSUME TypeOK, Take \/ Spawn
  PROVE  Underway' \subseteq Underway
<1>0. queue \in Seq(Job) /\ held \in Seq(Job)
  BY DEF TypeOK, NackType
<1>1. CASE Take
  <2>1. /\ queue # <<>> /\ held' = <<Head(queue)>> /\ queue' = Tail(queue) /\ senders' = senders
    BY <1>1 DEF Take
  <2>2. Range(held') \subseteq Range(queue) /\ Range(queue') \subseteq Range(queue)
    BY <1>0, <2>1, Ends
  <2> QED  BY <2>1, <2>2 DEF Underway
<1>2. CASE Spawn
  <2>1. PICK t \in Slots \ DOMAIN senders :
          senders' = [u \in DOMAIN senders \cup {t} |->
                        IF u = t
                        THEN [job |-> Head(held), phase |-> "start",
                              numEndpoints |-> 0, wait |-> 0]
                        ELSE senders[u]]
    BY <1>2 DEF Spawn
  <2>2. held # <<>> /\ held' = <<>> /\ queue' = queue
    BY <1>2 DEF Spawn
  <2>3. Head(held) \in Range(held) /\ Range(held') = {}
    BY <1>0, <2>2, Ends, NoElements
  <2>4. \A u \in DOMAIN senders' :
          \/ senders'[u].job = Head(held)
          \/ u \in DOMAIN senders /\ senders'[u].job = senders[u].job
    BY <2>1
  <2> QED  BY <2>2, <2>3, <2>4 DEF Underway
<1> QED  BY <1>1, <1>2

(* A returning sendNACK leaves no new copy behind.                         *)
LEMMA ReturnUnderway ==
  ASSUME TypeOK, NEW t \in DOMAIN senders, Return(t), UNCHANGED <<queue, held>>
  PROVE  /\ Underway' \subseteq Underway
         /\ \A u \in DOMAIN senders' : u \in DOMAIN senders \ {t} /\ senders'[u] = senders[u]
<1>1. \A u \in DOMAIN senders' : u \in DOMAIN senders \ {t} /\ senders'[u] = senders[u]
  BY DEF Return, Restrict
<1> QED  BY <1>1 DEF Underway

(* What waits for a token is the copy in hand and those in the queue.      *)
LEMMA WaitingFacts ==
  ASSUME TypeOK
  PROVE  /\ held \o queue \in Seq(Job)
         /\ Range(held \o queue) = Range(held) \cup Range(queue)
         /\ Range(held \o queue) \subseteq Underway
<1>0. queue \in Seq(Job) /\ held \in Seq(Job)
  BY DEF TypeOK, NackType
<1>1. held \o queue \in Seq(Job)
  BY <1>0, SMTT(20)
<1>2. ASSUME NEW i \in DOMAIN held
      PROVE  i \in DOMAIN (held \o queue) /\ (held \o queue)[i] = held[i]
  BY <1>0, SMTT(20)
<1>3. ASSUME NEW i \in DOMAIN queue
      PROVE  /\ Len(held) + i \in DOMAIN (held \o queue)
             /\ (held \o queue)[Len(held) + i] = queue[i]
  BY <1>0, SMTT(20)
<1>4. ASSUME NEW i \in DOMAIN (held \o queue)
      PROVE  \/ i \in DOMAIN held /\ (held \o queue)[i] = held[i]
             \/ i - Len(held) \in DOMAIN queue /\ (held \o queue)[i] = queue[i - Len(held)]
  BY <1>0, SMTT(20)
<1>5. Range(held \o queue) = Range(held) \cup Range(queue)
  <2>1. Range(held \o queue) \subseteq Range(held) \cup Range(queue)
    BY <1>4 DEF Range
  <2>2. Range(held) \cup Range(queue) \subseteq Range(held \o queue)
    BY <1>2, <1>3 DEF Range
  <2> QED  BY <2>1, <2>2
<1> QED  BY <1>1, <1>5 DEF Underway

(* As long as no gap is under way twice, the copy of a returning sendNACK  *)
(* is the only one of its gap.                                             *)
LEMMA OnlyCopy ==
  ASSUME TypeOK, OneCopy, NEW t \in DOMAIN senders, Return(t), UNCHANGED <<queue, held>>,
         NEW job \in Underway'
  PROVE  job \in Underway /\ GapOf(job) # GapOf(senders[t].job)
<1>1. Range(queue) \cup Range(held) \subseteq Range(held \o queue)
  BY WaitingFacts
<1>2. \/ job \in Range(queue) \cup Range(held)
      \/ \E u \in DOMAIN senders \ {t} : job = senders[u].job
  BY ReturnUnderway DEF Underway
<1>3. CASE job \in Range(queue) \cup Range(held)
  BY <1>1, <1>3 DEF OneCopy, Underway
<1>4. CASE \E u \in DOMAIN senders \ {t} : job = senders[u].job
  BY <1>4 DEF OneCopy, Underway
<1> QED  BY <1>2, <1>3, <1>4

(* The counts of an entry after an attempt, and its backoff.               *)
LEMMA AdvancedFields ==
  ASSUME NEW e, NEW b, NEW n
  PROVE  /\ Advanced(e, b, n).retries = e.retries + 1
         /\ Advanced(e, b, n).endpointIdx = e.endpointIdx + 1
         /\ Advanced(e, b, n).nextAttempt
              = NextAttempt(e.retries + 1, e.endpointIdx + 1, b, n)
  BY DEF Advanced

(* Numbers up to c, and up to the next after r.                            *)
LEMMA UpTo ==
  ASSUME NEW c \in Nat
  PROVE  /\ c <= c
         /\ \A k \in 0..c : k = c \/ k \in 0..(c - 1)
         /\ \A r \in Nat : r <= c => \A k \in 0..((r + 1) - 1) : k \in 0..c
  BY SMTT(20)

(* What advanceEndpoint does to the gap it finds.                          *)
LEMMA AdvanceFacts ==
  ASSUME TypeOK, NEW job \in Job, NEW b, NEW n, AdvanceEndpoint(job, b, n)
  PROVE  /\ \A h \in HashKey : DOMAIN pending'[h] = DOMAIN pending[h]
         /\ job.seqNum \in DOMAIN pending[job.hashKey] =>
              pending'[job.hashKey][job.seqNum]
                = Advanced(pending[job.hashKey][job.seqNum], b, n)
         /\ \A h \in HashKey : \A s \in DOMAIN pending[h] :
              <<h, s>> # GapOf(job) => Kept(h, s)
<1> DEFINE h == job.hashKey
           s == job.seqNum
           e == Advanced(pending[h][s], b, n)
<1>0. h \in HashKey /\ DOMAIN pending = HashKey /\ GapOf(job) = <<h, s>>
  <2>1. h \in HashKey
    BY JobParts
  <2> QED  BY <2>1 DEF TypeOK, FlowType, GapOf
<1>1. CASE s \in DOMAIN pending[h]
  <2>1. pending' = [pending EXCEPT ![h] = [pending[h] EXCEPT ![s] = e]]
    BY <1>1 DEF AdvanceEndpoint
  <2> HIDE DEF e, h, s
  <2>2. /\ DOMAIN pending'[h] = DOMAIN pending[h] /\ pending'[h][s] = e
        /\ \A m \in DOMAIN pending[h] \ {s} : pending'[h][m] = pending[h][m]
        /\ \A k \in HashKey \ {h} : pending'[k] = pending[k]
    BY <1>0, <1>1, <2>1
  <2>3. ASSUME NEW k \in HashKey, NEW m \in DOMAIN pending[k], <<k, m>> # <<h, s>>
        PROVE  Kept(k, m)
    BY <2>2, <2>3 DEF Kept
  <2> QED  BY <1>0, <2>2, <2>3 DEF e, h, s
<1>2. CASE s \notin DOMAIN pending[h]
  <2>1. pending' = pending
    BY <1>2 DEF AdvanceEndpoint
  <2> QED  BY <1>2, <2>1 DEF Kept
<1> QED  BY <1>1, <1>2

(* An attempt that ends without the frame moves its gap on by one.         *)
LEMMA AttemptFails ==
  ASSUME TypeOK, TypeOK', OneCopy, AttemptInv, TriesKept,
         NEW t \in DOMAIN senders, Return(t), UNCHANGED <<queue, held>>,
         NEW b, NEW n, AdvanceEndpoint(senders[t].job, b, n),
         Target(senders[t].job.endpointIdx) \in tried'[GapOf(senders[t].job)]
  PROVE  AttemptInv'
<1> DEFINE job == senders[t].job
           c == job.endpointIdx
           g == GapOf(job)
<1>1. /\ job \in Job /\ Ahead(job) /\ job.hashKey \in HashKey
      /\ c \in Nat /\ g \in FrameId /\ g = <<job.hashKey, job.seqNum>>
  BY SenderJob, JobParts DEF AttemptInv, GapOf
<1>2. \A k : Target(k)' = Target(k)
  BY DEF TriesKept, Target
<1>3. \A k \in 0..c : Target(k) \in tried'[g]
  <2>1. \A k \in 0..(c - 1) : Target(k) \in tried[g]
    BY <1>1 DEF Ahead, TriedTo
  <2>2. \A k \in 0..c : k = c \/ k \in 0..(c - 1)
    BY <1>1, UpTo
  <2> QED  BY <1>1, <2>1, <2>2 DEF TriesKept
<1> HIDE DEF c, g, job
<1>4. ASSUME NEW h \in HashKey, NEW s \in DOMAIN pending'[h]
      PROVE  Backed(pending[h][s], <<h, s>>)'
  <2>1. s \in DOMAIN pending[h] /\ s \in SeqNum
    <3>1. \A k \in HashKey : DOMAIN pending'[k] = DOMAIN pending[k]
      BY <1>1, AdvanceFacts DEF job
    <3>2. s \in DOMAIN pending[h]
      BY <3>1
    <3> QED  BY <3>2, EntryType
  <2>2. CASE <<h, s>> = g
    <3> DEFINE r == pending[h][s].retries
    <3>0. h = job.hashKey /\ s = job.seqNum
      <4>1. <<h, s>> = <<job.hashKey, job.seqNum>>
        BY <1>1, <2>2
      <4> QED  BY <4>1
    <3>1. r \in Nat /\ r <= c /\ pending[h][s].endpointIdx = r
      <4>1. r \in Nat
        BY <2>1, EntryType
      <4>2. pending[h][s].endpointIdx = r
        BY <2>1 DEF AttemptInv, Backed
      <4>3. r <= c
        BY <1>1, <2>1, <3>0 DEF Ahead, c
      <4> QED  BY <4>1, <4>2, <4>3
    <3>2. pending'[h][s].retries = r + 1 /\ pending'[h][s].endpointIdx = r + 1
      <4>1. pending'[h][s] = Advanced(pending[h][s], b, n)
        BY <1>1, <2>1, <3>0, AdvanceFacts DEF job
      <4> DEFINE e == pending[h][s]
      <4>2. /\ Advanced(e, b, n).retries = e.retries + 1
            /\ Advanced(e, b, n).endpointIdx = e.endpointIdx + 1
        <5> HIDE DEF e
        <5> QED  BY AdvancedFields
      <4> QED  BY <3>1, <4>1, <4>2
    <3>3. \A k \in 0..((r + 1) - 1) : k \in 0..c
      BY <1>1, <3>1, UpTo
    <3>4. TriedTo(<<h, s>>, pending[h][s].retries)'
      BY <1>2, <1>3, <2>2, <3>2, <3>3 DEF TriedTo
    <3> QED  BY <3>2, <3>4 DEF Backed
  <2>3. CASE <<h, s>> # g
    <3>0. Kept(h, s)
      BY <1>1, <2>1, <2>3, AdvanceFacts DEF job, g
    <3>1. SameRetries(h, s)
      BY <3>0 DEF Kept, SameRetries
    <3> QED  BY <2>1, <3>1, GapsStayBacked
  <2> QED  BY <2>2, <2>3
<1>5. ASSUME NEW j \in Underway'
      PROVE  Ahead(j)'
  <2>1. j \in Underway /\ GapOf(j) # g
    BY OnlyCopy DEF g, job
  <2>2. j \in Job /\ Ahead(j)
    BY <2>1, UnderwayType DEF AttemptInv
  <2>3. j.hashKey \in HashKey /\ j.seqNum \in SeqNum /\ GapOf(j) \in FrameId
    BY <2>2, JobParts
  <2>4. TriedTo(GapOf(j), j.endpointIdx)'
    BY <2>2, <2>3, TriedStays DEF Ahead
  <2>5. ASSUME j.seqNum \in DOMAIN pending'[j.hashKey]
        PROVE  SameRetries(j.hashKey, j.seqNum)
    <3>1. j.seqNum \in DOMAIN pending[j.hashKey]
      BY <1>1, <2>3, <2>5, AdvanceFacts DEF job
    <3>2. Kept(j.hashKey, j.seqNum)
      BY <1>1, <2>1, <2>3, <3>1, AdvanceFacts DEF job, g, GapOf
    <3> QED  BY <3>2 DEF Kept, SameRetries
  <2> QED  BY <2>2, <2>4, <2>5 DEF Ahead, SameRetries
<1>6. ASSUME NEW u \in DOMAIN senders'
      PROVE  Asked(u)'
  <2>1. u \in DOMAIN senders /\ senders'[u] = senders[u]
    BY ReturnUnderway
  <2>2. Asked(u) /\ GapOf(senders[u].job) \in FrameId
    BY <2>1, SenderJob, JobParts DEF AttemptInv
  <2>3. GapOf(senders'[u].job) = GapOf(senders[u].job)
    BY <2>1
  <2>4. Target(senders[u].job.endpointIdx)' = Target(senders[u].job.endpointIdx)
    BY <2>1 DEF TriesKept, Target
  <2> QED  BY <2>1, <2>2, <2>3, <2>4 DEF Asked, TriesKept
<1> QED  BY <1>4, <1>5, <1>6 DEF AttemptInv, TriesKept

(* Positions in a concatenation.                                           *)
LEMMA AppendAt ==
  ASSUME NEW S, NEW a \in Seq(S), NEW b \in Seq(S), NEW i \in DOMAIN (a \o b)
  PROVE  /\ i \in Nat /\ Len(a) \in Nat
         /\ \/ i \in DOMAIN a /\ (a \o b)[i] = a[i]
            \/ i - Len(a) \in DOMAIN b /\ (a \o b)[i] = b[i - Len(a)]
  BY SMTT(20)

LEMMA SameOffset ==
  ASSUME NEW m \in Nat, NEW i \in Nat, NEW j \in Nat, i - m = j - m
  PROVE  i = j
  BY SMTT(20)

(* A sweep makes copies of gaps that have retries left.                    *)
LEMMA SweepAttempt ==
  ASSUME TypeOK, TypeOK', AttemptInv, Sweep, tried' = tried
  PROVE  AttemptInv'
<1>1. PICK batch \in Batches(DueGaps) :
        /\ queue' = queue \o [i \in 1..Len(batch) |-> CopyOf(batch[i])]
        /\ pending' = [h \in HashKey |-> Swept(h, batch)]
  BY DEF Sweep
<1>2. batch \in Seq(DueGaps)
  BY BatchFacts
<1>3. /\ NoAttempt
      /\ \A h \in HashKey : \A s \in DOMAIN pending'[h] : SameRetries(h, s)
  BY <1>1, SweepCounts
<1>4. TriesKept /\ held' = held /\ senders' = senders
  BY DEF Sweep, TriesKept, AttemptInv
<1>5. \A x \in Range(queue') : x \in Range(queue) \/ \E gap \in DueGaps : x = CopyOf(gap)
  <2> DEFINE copies == [i \in 1..Len(batch) |-> CopyOf(batch[i])]
  <2>1. Len(batch) \in Nat /\ \A i \in 1..Len(batch) : batch[i] \in DueGaps
    BY <1>2, Elements
  <2>2. queue \in Seq(Job) /\ \A gap \in DueGaps : CopyOf(gap) \in Job
    BY DEF DueGaps, CopyOf, Job, TypeOK, NackType, FlowType, IsPendingMap, GapEntry
  <2>3. copies \in Seq(Job) /\ \A i \in DOMAIN copies : \E gap \in DueGaps : copies[i] = CopyOf(gap)
    <3>1. copies \in [1..Len(batch) -> Job]
      BY <2>1, <2>2
    <3> QED  BY <2>1, <3>1, FunctionIsSeq
  <2> HIDE DEF copies
  <2>4. \A i \in DOMAIN (queue \o copies) :
          \/ i \in DOMAIN queue /\ (queue \o copies)[i] = queue[i]
          \/ i - Len(queue) \in DOMAIN copies /\ (queue \o copies)[i] = copies[i - Len(queue)]
    BY <2>2, <2>3, AppendAt
  <2>5. queue' = queue \o copies
    BY <1>1 DEF copies
  <2>6. ASSUME NEW i \in DOMAIN queue'
        PROVE  queue'[i] \in Range(queue) \/ \E gap \in DueGaps : queue'[i] = CopyOf(gap)
    <3>1. CASE i \in DOMAIN queue /\ queue'[i] = queue[i]
      BY <3>1 DEF Range
    <3>2. CASE i - Len(queue) \in DOMAIN copies /\ queue'[i] = copies[i - Len(queue)]
      <4>1. PICK gap \in DueGaps : copies[i - Len(queue)] = CopyOf(gap)
        BY <2>3, <3>2
      <4> QED  BY <3>2, <4>1
    <3> QED  BY <2>4, <2>5, <3>1, <3>2
  <2> QED  BY <2>6 DEF Range
<1>6. ASSUME NEW h \in HashKey, NEW s \in DOMAIN pending'[h]
      PROVE  Backed(pending[h][s], <<h, s>>)'
  <2>1. s \in DOMAIN pending[h] /\ s \in SeqNum
    BY <1>3, EntryType DEF SameRetries
  <2> QED  BY <1>3, <1>4, <2>1, GapsStayBacked
<1>7. ASSUME NEW x, NEW gap \in DueGaps, x = CopyOf(gap)
      PROVE  Ahead(x)'
  <2> DEFINE h == gap[1]
             s == gap[2]
             r == pending[h][s].retries
  <2>1. h \in HashKey /\ s \in DOMAIN pending[h] /\ Due(pending[h][s])
    BY DEF DueGaps
  <2>2. /\ r \in Nat /\ pending[h][s].endpointIdx = r /\ <<h, s>> \in FrameId
        /\ TriedTo(<<h, s>>, r)
    BY <2>1, EntryType DEF AttemptInv, Backed
  <2>3. MaxRetries > 0 /\ r < MaxRetries
    <3>1. ~(r >= MaxRetries)
      BY <2>1 DEF Due, Hopeless
    <3>2. r \in Nat /\ MaxRetries \in Int
      BY <2>2, CountAssumption
    <3> HIDE DEF r
    <3> QED  BY <3>1, <3>2, SMTT(20)
  <2>4. x.hashKey = h /\ x.seqNum = s /\ x.endpointIdx = r /\ GapOf(x) = <<h, s>>
    BY <1>7, <2>2 DEF CopyOf, GapOf
  <2> HIDE DEF h, s
  <2>5. s \in DOMAIN pending'[h] => pending'[h][s].retries = r
    BY <1>3, <2>1 DEF SameRetries
  <2> HIDE DEF r
  <2>6. TriedTo(GapOf(x), x.endpointIdx)'
    <3>1. TriedTo(GapOf(x), x.endpointIdx) /\ GapOf(x) \in FrameId
      BY <2>2, <2>4
    <3> QED  BY <1>4, <3>1, TriedStays
  <2>7. /\ r <= r
        /\ x.hashKey' = h /\ x.seqNum' = s /\ x.endpointIdx' = r
    <3>1. r <= r
      BY <2>2, UpTo
    <3> QED  BY <2>4, <3>1
  <2> QED  BY <2>3, <2>4, <2>5, <2>6, <2>7 DEF Ahead
<1>8. ASSUME NEW x \in Underway'
      PROVE  Ahead(x)'
  <2>1. x \in Underway \/ \E gap \in DueGaps : x = CopyOf(gap)
    BY <1>4, <1>5 DEF Underway
  <2> QED  BY <1>3, <1>4, <1>7, <2>1, CopyStaysAhead
<1>9. ASSUME NEW t \in DOMAIN senders'
      PROVE  Asked(t)'
  <2>1. Asked(t)
    BY <1>4 DEF AttemptInv
  <2>2. tried' = tried /\ endpoints' = endpoints /\ senders' = senders
    BY <1>4 DEF TriesKept
  <2> QED  BY <2>1, <2>2 DEF Asked, Target
<1> QED  BY <1>4, <1>6, <1>8, <1>9 DEF AttemptInv, TriesKept

(* A NACK goes out to the endpoint the copy is at.                         *)
LEMMA AskAttempt ==
  ASSUME TypeOK, TypeOK', AttemptInv, NEW t \in DOMAIN senders, Ask(t)
  PROVE  AttemptInv'
<1> DEFINE job == senders[t].job
           x == Target(job.endpointIdx)
<1>0. job \in Job /\ GapOf(job) \in FrameId /\ GapOf(job) = <<job.hashKey, job.seqNum>>
  BY SenderJob, JobParts DEF GapOf
<1>1. /\ pending' = pending /\ queue' = queue /\ held' = held /\ endpoints' = endpoints
      /\ tried' = [tried EXCEPT ![GapOf(job)] = @ \cup {x}]
      /\ senders' = [senders EXCEPT ![t] =
            [job |-> job, phase |-> "waiting",
             numEndpoints |-> Len(endpoints), wait |-> RespTimeout]]
  BY <1>0 DEF Ask, SendNACK, flowVars
<1> HIDE DEF x
<1>2. TriesKept /\ x \in tried'[GapOf(job)]
  BY <1>0, <1>1 DEF TriesKept, AttemptInv
<1>3. NoAttempt
  BY <1>1 DEF NoAttempt, SameRetries
<1>4. /\ DOMAIN senders' = DOMAIN senders
      /\ \A u \in DOMAIN senders : senders'[u].job = senders[u].job
      /\ \A u \in DOMAIN senders \ {t} : senders'[u] = senders[u]
  BY <1>1
<1>5. Underway' = Underway
  <2>1. \A u \in DOMAIN senders : senders[u].job = senders'[u].job
    BY <1>4
  <2>2. {senders'[u].job : u \in DOMAIN senders'} = {senders[u].job : u \in DOMAIN senders}
    <3> DEFINE S == {senders[u].job : u \in DOMAIN senders}
               T == {senders'[u].job : u \in DOMAIN senders'}
    <3>1. T \subseteq S
      BY <1>4, <2>1
    <3>2. S \subseteq T
      BY <1>4, <2>1
    <3> QED  BY <3>1, <3>2
  <2>3. Range(queue') = Range(queue) /\ Range(held') = Range(held)
    BY <1>1
  <2> QED  BY <2>2, <2>3 DEF Underway
<1>6. ASSUME NEW h \in HashKey, NEW s \in DOMAIN pending'[h]
      PROVE  Backed(pending[h][s], <<h, s>>)'
  <2>1. s \in SeqNum
    BY <1>1, EntryType
  <2> QED  BY <1>2, <1>3, <2>1, GapsStayBacked DEF NoAttempt
<1>7. ASSUME NEW u \in DOMAIN senders'
      PROVE  Asked(u)'
  <2>1. u \in DOMAIN senders /\ senders'[u].job = senders[u].job
    BY <1>4
  <2>2. Target(senders[u].job.endpointIdx)' = Target(senders[u].job.endpointIdx)
    BY <1>1, <2>1 DEF Target
  <2>3. GapOf(senders'[u].job) = GapOf(senders[u].job)
    BY <2>1
  <2>4. CASE u = t
    BY <1>2, <2>2, <2>3, <2>4 DEF Asked, x
  <2>5. CASE u # t
    <3>1. senders'[u] = senders[u] /\ Asked(u)
      BY <1>4, <2>1, <2>5 DEF AttemptInv
    <3>2. GapOf(senders[u].job) \in FrameId
      BY <2>1, SenderJob, JobParts
    <3> QED  BY <1>2, <2>2, <2>3, <3>1, <3>2 DEF Asked, TriesKept
  <2> QED  BY <2>4, <2>5
<1> QED  BY <1>2, <1>3, <1>5, <1>6, <1>7, CopyStaysAhead DEF AttemptInv, TriesKept

(* Every step keeps the record of attempts, as long as no gap is under way *)
(* twice.                                                                  *)
LEMMA AttemptStep ==
  ASSUME TypeOK, TypeOK', OneCopy, AttemptInv, [RecoveryNext]_allVars
  PROVE  AttemptInv'
<1>0. ASSUME tried' = tried, endpoints' = endpoints
      PROVE  TriesKept
  BY <1>0 DEF TriesKept, AttemptInv
<1>1. ASSUME pending' = pending
      PROVE  NoAttempt
  BY <1>1 DEF NoAttempt, SameRetries
<1>2. ASSUME queue' = queue, held' = held, senders' = senders
      PROVE  /\ Underway' \subseteq Underway
             /\ \A t \in DOMAIN senders' : senders'[t].phase = "waiting" =>
                  /\ t \in DOMAIN senders
                  /\ senders[t].phase = "waiting" /\ senders'[t].job = senders[t].job
  BY <1>2 DEF Underway
<1>3. ASSUME UNCHANGED vars, tried' = tried
      PROVE  AttemptInv'
  <2>1. /\ pending' = pending /\ queue' = queue /\ held' = held /\ senders' = senders
        /\ endpoints' = endpoints
    BY <1>3 DEF vars
  <2> QED  BY <1>0, <1>1, <1>2, <1>3, <2>1, QuietAttempt
<1>4. ASSUME NEW h \in HashKey, NEW s \in SeqNum, Arrive(h, s)
      PROVE  AttemptInv'
  <2>1. Observe(h, s) /\ tried' = tried
    BY <1>4 DEF Arrive
  <2>2. queue' = queue /\ held' = held /\ senders' = senders /\ endpoints' = endpoints
    BY <2>1 DEF Observe, ObserveFirst, ObserveOld, ObserveRestart, ObserveAdvance,
                       AutoFill, nackVars
  <2> QED  BY <1>0, <1>2, <2>1, <2>2, ObserveCounts, QuietAttempt
<1>5. CASE Take /\ UNCHANGED netVars
  <2>1. /\ pending' = pending /\ senders' = senders /\ endpoints' = endpoints
        /\ tried' = tried
    BY <1>5 DEF Take, flowVars, netVars
  <2> QED  BY <1>0, <1>1, <1>5, <2>1, DispatchUnderway, QuietAttempt
<1>6. CASE Spawn /\ UNCHANGED netVars
  <2>1. pending' = pending /\ endpoints' = endpoints /\ tried' = tried
    BY <1>6 DEF Spawn, flowVars, netVars
  <2>2. \A t \in DOMAIN senders' : senders'[t].phase = "waiting" =>
          /\ t \in DOMAIN senders
          /\ senders[t].phase = "waiting" /\ senders'[t].job = senders[t].job
    <3>1. PICK n \in Slots \ DOMAIN senders :
            senders' = [u \in DOMAIN senders \cup {n} |->
                          IF u = n
                          THEN [job |-> Head(held), phase |-> "start",
                                numEndpoints |-> 0, wait |-> 0]
                          ELSE senders[u]]
      BY <1>6 DEF Spawn
    <3>2. senders'[n].phase = "start" /\ DOMAIN senders' = DOMAIN senders \cup {n}
      BY <3>1
    <3>3. \A u \in DOMAIN senders : senders'[u] = senders[u]
      BY <3>1
    <3>4. "start" # "waiting"
      OBVIOUS
    <3> QED  BY <3>2, <3>3, <3>4
  <2> QED  BY <1>0, <1>1, <1>6, <2>1, <2>2, DispatchUnderway, QuietAttempt
<1>7. CASE Sweep /\ UNCHANGED netVars
  BY <1>7, SweepAttempt DEF netVars
<1>8. CASE Pass
  <2>1. Tick /\ tried' = tried /\ queue' = queue /\ held' = held /\ endpoints' = endpoints
    BY <1>8 DEF Pass, Tick, netVars
  <2>2. /\ DOMAIN senders' = DOMAIN senders
        /\ \A t \in DOMAIN senders : /\ senders'[t].job = senders[t].job
                                     /\ senders'[t].phase = senders[t].phase
    <3>1. \A t \in DOMAIN senders : senders[t] \in Sender
      BY DEF TypeOK, NackType
    <3> QED  BY <2>1, <3>1 DEF Tick, Sender
  <2>3. Underway' \subseteq Underway
    BY <2>1, <2>2 DEF Underway
  <2> QED  BY <1>0, <2>1, <2>2, <2>3, TickCounts, QuietAttempt
<1>9. ASSUME NEW t \in DOMAIN senders, Asking(t)
      PROVE  AttemptInv'
  <2> DEFINE job == senders[t].job
  <2>0. /\ job \in Job /\ job.hashKey \in HashKey /\ GapOf(job) \in FrameId
        /\ GapOf(job) = <<job.hashKey, job.seqNum>>
    BY SenderJob, JobParts DEF GapOf
  <2>1. ASSUME Return(t), UNCHANGED <<queue, held>>
        PROVE  /\ Underway' \subseteq Underway
               /\ \A u \in DOMAIN senders' : u \in DOMAIN senders /\ senders'[u] = senders[u]
    BY <2>1, ReturnUnderway
  <2>2. CASE AnswerMISS(t) \/ AnswerACK(t) \/ Lose(t)
    BY <1>3, <2>2 DEF AnswerMISS, AnswerACK, Lose
  <2>3. CASE Ask(t)
    BY <2>3, AskAttempt
  <2>4. CASE AskNobody(t)
    <3>1. /\ Return(t) /\ queue' = queue /\ held' = held /\ endpoints' = endpoints
          /\ pending' = pending /\ tried' = tried
      BY <2>4 DEF AskNobody, SendNoEndpoint, flowVars, netVars
    <3> QED  BY <1>0, <1>1, <2>1, <3>1, QuietAttempt
  <2>5. CASE GetACK(t)
    <3>1. /\ Return(t) /\ queue' = queue /\ held' = held /\ endpoints' = endpoints
          /\ CloseGap(job.hashKey, job.seqNum) /\ tried' = tried
      BY <2>5 DEF GetACK, ReceiveACK, Answered
    <3> QED  BY <1>0, <2>0, <2>1, <3>1, CloseGapCounts, QuietAttempt
  <2>6. CASE AskFails(t)
    <3> DEFINE x == Target(job.endpointIdx)
    <3>1. /\ Return(t) /\ UNCHANGED <<queue, held>> /\ endpoints' = endpoints
          /\ AdvanceEndpoint(job, FALSE, 0)
          /\ tried' = [tried EXCEPT ![GapOf(job)] = @ \cup {x}]
      BY <2>0, <2>6 DEF AskFails, SendError
    <3> HIDE DEF x
    <3>2. TriesKept /\ x \in tried'[GapOf(job)]
      BY <2>0, <3>1 DEF TriesKept, AttemptInv
    <3> QED  BY <3>1, <3>2, AttemptFails DEF x
  <2>7. CASE GetMISS(t) \/ GetGarbled(t) \/ GiveUpWaiting(t)
    <3>1. /\ Return(t) /\ UNCHANGED <<queue, held>> /\ endpoints' = endpoints
          /\ \E b, n : AdvanceEndpoint(job, b, n)
          /\ senders[t].phase = "waiting" /\ tried' = tried
      BY <2>7 DEF GetMISS, ReceiveMISS, GetGarbled, ReceiveInvalid, GiveUpWaiting,
                         Timeout, Answered
    <3>2. Target(job.endpointIdx) \in tried'[GapOf(job)]
      BY <3>1 DEF AttemptInv, Asked
    <3> QED  BY <1>0, <3>1, <3>2, AttemptFails
  <2> QED  BY <1>9, <2>2, <2>3, <2>4, <2>5, <2>6, <2>7 DEF Asking
<1>10. ASSUME NEW h \in HashKey, Publish(h)
       PROVE  AttemptInv'
  BY <1>3, <1>10 DEF Publish
<1>11. CASE UNCHANGED allVars
  BY <1>3, <1>11 DEF allVars, netVars
<1> QED
  BY <1>4, <1>5, <1>6, <1>7, <1>8, <1>9, <1>10, <1>11 DEF RecoveryNext, Dispatching

(* At the start there is nothing to have been tried.                       *)
LEMMA AttemptInit ==
  ASSUME RecoveryInit
  PROVE  AttemptInv
<1>1. /\ tried = [f \in FrameId |-> {}] /\ queue = <<>> /\ held = <<>>
      /\ senders = [t \in {} |-> 0] /\ pending = [h \in HashKey |-> NoGaps]
  BY DEF RecoveryInit, Init
<1>2. Underway = {} /\ DOMAIN senders = {}
  BY <1>1, SMTT(20) DEF Underway, Range
<1>3. \A h \in HashKey : DOMAIN pending[h] = {}
  BY <1>1, NoGapsType
<1>4. DOMAIN tried = FrameId
  BY <1>1
<1> QED  BY <1>2, <1>3, <1>4 DEF AttemptInv

(* A gap that has no retries left was asked for at every listed endpoint.  *)
LEMMA GivenUpTried ==
  ASSUME TypeOK, AttemptInv, MaxRetries >= Len(endpoints),
         NEW h \in HashKey, NEW s \in GivenUp(h)
  PROVE  Range(endpoints) \subseteq tried[<<h, s>>]
<1> DEFINE r == pending[h][s].retries
<1>0. endpoints \in Seq(Endpoint)
  BY SnapshotAssumption DEF TypeOK, EnvironmentType
<1>1. /\ s \in DOMAIN pending[h] /\ Hopeless(pending[h][s])
      /\ pending[h][s].deadline >= 0
  BY DEF GivenUp, HopelessGaps
<1>2. r \in Nat /\ TriedTo(<<h, s>>, r)
  BY <1>1, EntryType DEF AttemptInv, Backed
<1>3. pending[h][s].deadline \in Int
  BY <1>1 DEF TypeOK, FlowType, IsPendingMap, GapEntry
<1>4. r >= MaxRetries
  <2> DEFINE d == pending[h][s].deadline
  <2>1. d < 0 \/ r >= MaxRetries
    BY <1>1 DEF Hopeless
  <2>2. d \in Int /\ d >= 0
    BY <1>1, <1>3
  <2> HIDE DEF d
  <2>3. ~(d < 0)
    BY <2>2, SMTT(20)
  <2> QED  BY <2>1, <2>3
<1> HIDE DEF r
<1>a. DOMAIN endpoints = 1..Len(endpoints)
  BY <1>0, SMTT(20)
<1> SUFFICES ASSUME NEW i \in 1..Len(endpoints)
             PROVE  endpoints[i] \in tried[<<h, s>>]
  BY <1>a DEF Range
<1>5. i - 1 \in 0..(r - 1) /\ ~(i - 1 >= Len(endpoints)) /\ (i - 1) + 1 = i
  BY <1>0, <1>2, <1>4, CountAssumption, SMTT(20)
<1>6. Target(i - 1) = endpoints[i]
  BY <1>5 DEF Target
<1> QED  BY <1>2, <1>5, <1>6 DEF TriedTo

(* "set NACK_MAX_RETRIES=8 to ensure all entries are tried before          *)
(* eviction", for any number of endpoints, flows and tokens and any timers *)
(* and losses, as long as no gap is under way twice.  The run with fewer   *)
(* tokens than gaps shows that the condition is needed.                    *)
THEOREM AllTried == RecoverySpec /\ []OneCopy => AllTriedBeforeEviction
<1>1. TypeOK /\ AttemptInv =>
        [\A h \in HashKey : \A s \in GivenUp(h) :
           Sweep /\ MaxRetries >= Len(endpoints) =>
             Range(endpoints) \subseteq tried[<<h, s>>]]_allVars
  BY GivenUpTried
<1>2. TypeOK /\ TypeOK' /\ OneCopy /\ AttemptInv /\ [RecoveryNext]_allVars => AttemptInv'
  BY AttemptStep
<1>3. RecoveryInit => AttemptInv
  BY AttemptInit
<1> QED
  BY <1>1, <1>2, <1>3, Composition, TypeCorrect, PTL DEF RecoverySpec, AllTriedBeforeEviction

-----------------------------------------------------------------------------
(* Backoff.                                                                *)

(* A power of two is positive: it counts the subsets of 1..r.              *)
LEMMA PowerPositive ==
  ASSUME NEW r \in Nat
  PROVE  2^r \in Nat \ {0}
<1>1. IsFiniteSet(1..r) /\ Cardinality(1..r) = r
  BY FS_Interval, SMTT(20)
<1>2. IsFiniteSet(SUBSET (1..r)) /\ Cardinality(SUBSET (1..r)) = 2^r
  BY <1>1, FS_SUBSET
<1>3. Cardinality(SUBSET (1..r)) \in Nat
  BY <1>2, FS_CardinalityType
<1>4. SUBSET (1..r) # {}
  OBVIOUS
<1>5. Cardinality(SUBSET (1..r)) # 0
  BY <1>2, <1>4, FS_EmptySet
<1> QED  BY <1>2, <1>3, <1>5

(* So the backoff is at least the base, or capped, if it fits, and never   *)
(* beyond the cap.                                                         *)
LEMMA BackoffBounds ==
  ASSUME NEW r \in Nat
  PROVE  /\ Backoff(r) \in Int /\ Backoff(r) <= BackoffMax
         /\ Fits(r) => Backoff(r) \in Nat /\ (Backoff(r) >= BackoffBase \/ Backoff(r) = BackoffMax)
<1> DEFINE p == 2^r
           d == p * BackoffBase
           half == Modulus \div 2
<1>1. p \in Nat \ {0} /\ BackoffBase \in Nat /\ Modulus \in Nat \ {0}
  BY PowerPositive, TimeAssumption
<1>2. Fits(r) <=> d < half
  BY DEF Fits
<1>3. Backoff(r) = IF Wrap(d) > BackoffMax THEN BackoffMax ELSE Wrap(d)
  BY DEF Backoff
<1> HIDE DEF p
<1>4. d \in Nat /\ d >= BackoffBase
  BY <1>1, SMTT(20)
<1> HIDE DEF d
<1>5. half \in Nat
  BY <1>1, SMTT(20)
<1>6. (d + half) % Modulus \in Int
  BY <1>1, <1>4, <1>5, SMTT(20)
<1>7. Wrap(d) \in Int
  BY <1>5, <1>6, SMTT(20) DEF Wrap
<1>8. Backoff(r) \in Int /\ Backoff(r) <= BackoffMax
  <2> DEFINE w == Wrap(d)
  <2>1. w \in Int
    BY <1>7
  <2> HIDE DEF w
  <2>2. LET b == IF w > BackoffMax THEN BackoffMax ELSE w IN b \in Int /\ b <= BackoffMax
    BY <2>1, TimeAssumption, SMTT(20)
  <2> QED  BY <1>3, <2>2 DEF w
<1>9. ASSUME Fits(r)
      PROVE  Backoff(r) \in Nat /\ (Backoff(r) >= BackoffBase \/ Backoff(r) = BackoffMax)
  <2>1. d < half
    BY <1>2, <1>9
  <2>2. d + half \in 0..(Modulus - 1)
    BY <1>1, <1>4, <1>5, <2>1, SMTT(20)
  <2>3. (d + half) % Modulus = d + half
    BY <1>1, <2>2, SMTT(20)
  <2>4. Wrap(d) = d
    BY <1>4, <1>5, <2>3, SMTT(20) DEF Wrap
  <2> QED  BY <1>1, <1>3, <1>4, <2>4, TimeAssumption, SMTT(20)
<1> QED  BY <1>8, <1>9

(* The gap of an attempt in vain is scheduled by its new count of retries. *)
LEMMA BackoffStep ==
  ASSUME TypeOK, NEW t \in DOMAIN senders, InVain(t),
         senders[t].job.seqNum \in DOMAIN pending[senders[t].job.hashKey]
  PROVE  LET e == pending'[senders[t].job.hashKey][senders[t].job.seqNum]
         IN  /\ e.nextAttempt <= BackoffMax
             /\ Fits(e.retries) => e.nextAttempt >= BackoffBase \/ e.nextAttempt = BackoffMax
<1> DEFINE job == senders[t].job
           h == job.hashKey
           s == job.seqNum
           r == pending[h][s].retries
<1>1. job \in Job /\ h \in HashKey
  BY SenderJob, JobParts
<1>2. r \in Nat
  BY <1>1, EntryType
<1>3. AdvanceEndpoint(job, FALSE, 0)
  BY DEF InVain, AskFails, SendError, GetGarbled, ReceiveInvalid, GiveUpWaiting, Timeout
<1>4. pending'[h][s] = Advanced(pending[h][s], FALSE, 0)
  BY <1>1, <1>3, AdvanceFacts
<1>5. /\ pending'[h][s].nextAttempt = NextAttempt(r + 1, pending[h][s].endpointIdx + 1, FALSE, 0)
      /\ pending'[h][s].retries = r + 1
  <2> DEFINE e == pending[h][s]
  <2>1. /\ Advanced(e, FALSE, 0).nextAttempt = NextAttempt(e.retries + 1, e.endpointIdx + 1, FALSE, 0)
        /\ Advanced(e, FALSE, 0).retries = e.retries + 1
    <3> HIDE DEF e
    <3> QED  BY AdvancedFields
  <2> QED  BY <1>4, <2>1
<1> HIDE DEF r, s, h
<1> DEFINE b == Backoff(r + 1)
<1>6. r + 1 \in Nat
  BY <1>2, SMTT(20)
<1>7. /\ b \in Int /\ b <= BackoffMax
      /\ Fits(r + 1) => b \in Nat /\ (b >= BackoffBase \/ b = BackoffMax)
  BY <1>6, BackoffBounds
<1>8. pending'[h][s].nextAttempt = IF b < 0 THEN -1 ELSE b
  <2>1. \A i : NextAttempt(r + 1, i, FALSE, 0) = IF b < 0 THEN -1 ELSE b
    BY DEF NextAttempt
  <2> QED  BY <1>5, <2>1
<1> HIDE DEF b
<1> DEFINE n == IF b < 0 THEN -1 ELSE b
<1>9. n <= BackoffMax /\ (b \in Nat => n = b)
  BY <1>7, TimeAssumption, SMTT(20)
<1> HIDE DEF n
<1>10. pending'[h][s].nextAttempt = n
  BY <1>8 DEF n
<1> QED  BY <1>5, <1>7, <1>9, <1>10 DEF h, s

(* An attempt in vain is followed by a wait of at most BackoffMax, for any *)
(* number of copies under way and of retries, and of at least BackoffBase  *)
(* as long as the product fits.                                            *)
THEOREM BackoffCorrect == RecoverySpec => BacksOff
<1>1. TypeOK =>
        [\A t \in DOMAIN senders :
           LET h == senders[t].job.hashKey
               s == senders[t].job.seqNum
           IN  InVain(t) /\ s \in DOMAIN pending[h] =>
                 /\ pending'[h][s].nextAttempt <= BackoffMax
                 /\ Fits(pending'[h][s].retries) =>
                      \/ pending'[h][s].nextAttempt >= BackoffBase
                      \/ pending'[h][s].nextAttempt = BackoffMax]_allVars
  BY BackoffStep
<1> QED
  BY <1>1, Composition, TypeCorrect, PTL DEF RecoverySpec, BacksOff

-----------------------------------------------------------------------------
(* Retries.                                                                *)

(* No gap counts more attempts than MaxRetries.                            *)
RetriesInv ==
  \A h \in HashKey : \A s \in DOMAIN pending[h] :
    pending[h][s].retries = 0 \/ pending[h][s].retries <= MaxRetries

(* "Max NACK attempts per gap": that, and a gap with a copy under way has  *)
(* an attempt left.                                                        *)
RetriesBounded ==
  /\ RetriesInv
  /\ \A job \in Underway :
       job.seqNum \in DOMAIN pending[job.hashKey] =>
         pending[job.hashKey][job.seqNum].retries < MaxRetries

(* A step counts no attempt, or the one that a sender has just ended.      *)
LEMMA AttemptCases ==
  ASSUME TypeOK, [RecoveryNext]_allVars
  PROVE  \/ NoAttempt
         \/ \E t \in DOMAIN senders : \E b, n : AdvanceEndpoint(senders[t].job, b, n)
<1>1. ASSUME pending' = pending
      PROVE  NoAttempt
  BY <1>1 DEF NoAttempt, SameRetries
<1>2. ASSUME NEW h \in HashKey, NEW s \in SeqNum, Arrive(h, s)
      PROVE  NoAttempt
  BY <1>2, ObserveCounts DEF Arrive
<1>3. CASE (Take \/ Spawn) /\ UNCHANGED netVars
  BY <1>1, <1>3 DEF Take, Spawn, flowVars
<1>4. CASE Sweep /\ UNCHANGED netVars
  <2>1. PICK batch : pending' = [h \in HashKey |-> Swept(h, batch)]
    BY <1>4 DEF Sweep
  <2> QED  BY <2>1, SweepCounts
<1>5. CASE Pass
  BY <1>5, TickCounts DEF Pass
<1>6. ASSUME NEW t \in DOMAIN senders, Asking(t)
      PROVE  \/ NoAttempt
             \/ \E b, n : AdvanceEndpoint(senders[t].job, b, n)
  <2>1. CASE AnswerMISS(t) \/ AnswerACK(t) \/ Lose(t)
    BY <1>1, <2>1 DEF AnswerMISS, AnswerACK, Lose, vars
  <2>2. CASE Ask(t) \/ AskNobody(t)
    BY <1>1, <2>2 DEF Ask, SendNACK, AskNobody, SendNoEndpoint, flowVars
  <2>3. CASE GetACK(t)
    <3>1. senders[t].job.hashKey \in HashKey
      BY SenderJob, JobParts
    <3>2. CloseGap(senders[t].job.hashKey, senders[t].job.seqNum)
      BY <2>3 DEF GetACK, ReceiveACK
    <3> QED  BY <3>1, <3>2, CloseGapCounts
  <2>4. CASE AskFails(t) \/ GetMISS(t) \/ GetGarbled(t) \/ GiveUpWaiting(t)
    BY <2>4 DEF AskFails, SendError, GetMISS, ReceiveMISS, GetGarbled, ReceiveInvalid,
                       GiveUpWaiting, Timeout
  <2> QED  BY <1>6, <2>1, <2>2, <2>3, <2>4 DEF Asking
<1>7. ASSUME NEW h \in HashKey, Publish(h)
      PROVE  NoAttempt
  BY <1>1, <1>7 DEF Publish, vars
<1>8. CASE UNCHANGED allVars
  BY <1>1, <1>8 DEF allVars, vars
<1> QED
  BY <1>2, <1>3, <1>4, <1>5, <1>6, <1>7, <1>8 DEF RecoveryNext, Dispatching

(* An attempt ends for a gap that had one left.                            *)
LEMMA RetriesStep ==
  ASSUME TypeOK, AttemptInv, RetriesInv, [RecoveryNext]_allVars
  PROVE  RetriesInv'
<1> SUFFICES ASSUME NEW h \in HashKey, NEW s \in DOMAIN pending'[h]
             PROVE  pending'[h][s].retries = 0 \/ pending'[h][s].retries <= MaxRetries
  BY DEF RetriesInv
<1>1. CASE NoAttempt
  <2>1. SameRetries(h, s) \/ Fresh(h, s)
    BY <1>1 DEF NoAttempt
  <2> QED  BY <2>1 DEF SameRetries, Fresh, RetriesInv
<1>2. ASSUME NEW t \in DOMAIN senders, NEW b, NEW n, AdvanceEndpoint(senders[t].job, b, n)
      PROVE  pending'[h][s].retries = 0 \/ pending'[h][s].retries <= MaxRetries
  <2> DEFINE job == senders[t].job
  <2>1. job \in Job /\ Ahead(job) /\ GapOf(job) = <<job.hashKey, job.seqNum>>
    BY SenderJob DEF AttemptInv, GapOf
  <2>2. /\ s \in DOMAIN pending[h]
        /\ job.seqNum \in DOMAIN pending[job.hashKey] =>
             pending'[job.hashKey][job.seqNum]
               = Advanced(pending[job.hashKey][job.seqNum], b, n)
        /\ <<h, s>> # GapOf(job) => Kept(h, s)
    BY <1>2, <2>1, AdvanceFacts
  <2>3. CASE <<h, s>> # GapOf(job)
    BY <2>2, <2>3 DEF Kept, RetriesInv
  <2>4. CASE <<h, s>> = GapOf(job)
    <3>1. h = job.hashKey /\ s = job.seqNum
      BY <2>1, <2>4, SMTT(20)
    <3>2. pending[h][s].retries < MaxRetries /\ pending[h][s].retries \in Nat
      BY <2>1, <2>2, <3>1, EntryType DEF Ahead
    <3>3. pending'[h][s].retries = pending[h][s].retries + 1
      <4>1. pending'[h][s] = Advanced(pending[h][s], b, n)
        BY <2>2, <3>1
      <4>2. \A e : Advanced(e, b, n).retries = e.retries + 1
        BY AdvancedFields
      <4> QED  BY <4>1, <4>2
    <3> DEFINE r == pending[h][s].retries
    <3>4. r + 1 <= MaxRetries
      <4>1. r \in Nat /\ r < MaxRetries
        BY <3>2
      <4> HIDE DEF r
      <4> QED  BY <4>1, CountAssumption, SMTT(20)
    <3> QED  BY <3>3, <3>4
  <2> QED  BY <2>3, <2>4
<1> QED  BY <1>1, <1>2, AttemptCases

(* nack-max-retries is what it says, for any number of endpoints, flows    *)
(* and tokens, as long as no gap is under way twice: each of two copies    *)
(* would count an attempt when only one is left.                           *)
THEOREM RetriesCorrect == RecoverySpec /\ []OneCopy => []RetriesBounded
<1>1. AttemptInv /\ RetriesInv => RetriesBounded
  BY DEF AttemptInv, Ahead, RetriesInv, RetriesBounded
<1>2. TypeOK /\ TypeOK' /\ OneCopy /\ AttemptInv /\ [RecoveryNext]_allVars => AttemptInv'
  BY AttemptStep
<1>3. TypeOK /\ AttemptInv /\ RetriesInv /\ [RecoveryNext]_allVars => RetriesInv'
  BY RetriesStep
<1>4. RecoveryInit => AttemptInv /\ RetriesInv
  <2>1. ASSUME RecoveryInit
        PROVE  RetriesInv
    <3>1. pending = [h \in HashKey |-> NoGaps]
      BY <2>1 DEF RecoveryInit, Init
    <3>2. \A h \in HashKey : DOMAIN pending[h] = {}
      BY <3>1, NoGapsType
    <3> QED  BY <3>2 DEF RetriesInv
  <2> QED  BY <2>1, AttemptInit
<1> QED
  BY <1>1, <1>2, <1>3, <1>4, Composition, TypeCorrect, PTL DEF RecoverySpec

-----------------------------------------------------------------------------
(* Copies.  No gap is under way twice as long as there are tokens enough   *)
(* and no flow with a copy under way is reset or evicted; without either,  *)
(* the same number can be queued again while its first copy is under way.  *)

(* At any moment there are as many tokens as gaps under way.               *)
EnoughTokens == Cardinality({GapOf(job) : job \in Underway}) <= Cardinality(Slots)

(* A step resets and evicts no flow that has a copy under way.             *)
KeepsFlow == \A job \in Underway : lastSeqNum'[job.hashKey] >= lastSeqNum[job.hashKey]

KeepsFlows == [][KeepsFlow]_allVars

(* The sweep leaves the gap of this copy alone for at least n ticks.       *)
Lasts(job, n) ==
  job.seqNum \in DOMAIN pending[job.hashKey] =>
    pending[job.hashKey][job.seqNum].nextAttempt >= n

(* The copy is of a number that the flow has passed.                       *)
Passed(job) == job.seqNum <= lastSeqNum[job.hashKey]

(* The ticks after which the sendNACK of a token has returned.             *)
Left(t) == IF senders[t].phase = "start" THEN RespTimeout ELSE senders[t].wait

(* No gap is under way twice, and the stamp of a gap outlasts its copy.    *)
CopyInv ==
  /\ OneCopy
  /\ \A job \in Range(held \o queue) :
       Lasts(job, RespTimeout + SweepSlack) /\ Passed(job)
  /\ \A t \in DOMAIN senders :
       Lasts(senders[t].job, Left(t) + SweepSlack) /\ Passed(senders[t].job)

(* The step leaves the gap of the copy as it was, or closes it.            *)
LeftAlone(job) ==
  job.seqNum \in DOMAIN pending'[job.hashKey] =>
    /\ job.seqNum \in DOMAIN pending[job.hashKey]
    /\ pending'[job.hashKey][job.seqNum] = pending[job.hashKey][job.seqNum]

(* The gap of the copy is left alone, and its flow is kept.                *)
Undisturbed(job) ==
  LeftAlone(job) /\ lastSeqNum'[job.hashKey] >= lastSeqNum[job.hashKey]

(* A step that leaves the flows alone keeps them.                          *)
LEMMA SameFlow ==
  ASSUME TypeOK, lastSeqNum' = lastSeqNum, NEW job \in Job
  PROVE  lastSeqNum'[job.hashKey] >= lastSeqNum[job.hashKey]
<1>1. lastSeqNum[job.hashKey] \in Int
  BY JobParts, FlowNumbers
<1> QED  BY <1>1, SMTT(20)

(* What holds of an undisturbed copy and its stamp still holds.            *)
LEMMA StampStays ==
  ASSUME TypeOK, TypeOK', NEW job \in Job, NEW n, Undisturbed(job), Lasts(job, n), Passed(job)
  PROVE  Lasts(job, n)' /\ Passed(job)'
<1>1. Lasts(job, n)'
  BY DEF Lasts, Undisturbed, LeftAlone
<1>2. job.hashKey \in HashKey /\ job.seqNum \in Int
  BY JobParts, SeqNums
<1> DEFINE s == job.seqNum
           h == job.hashKey
           a == lastSeqNum[h]
           b == lastSeqNum'[h]
<1>3. a \in Int /\ b \in Int
  <2>1. lastSeqNum' \in [HashKey -> 0..MaxSeq]
    BY DEF TypeOK, FlowType
  <2>2. b \in 0..MaxSeq
    BY <1>2, <2>1
  <2>3. a \in Int
    BY <1>2, FlowNumbers
  <2> QED  BY <2>2, <2>3, SeqNums
<1>4. s <= a /\ b >= a
  BY DEF Passed, Undisturbed
<1> HIDE DEF s, a, b
<1>5. s <= b
  BY <1>2, <1>3, <1>4, Numbers DEF s
<1> QED  BY <1>1, <1>5 DEF Passed, s, b

(* A step that makes no copy, hurries none and disturbs none.              *)
LEMMA QuietCopies ==
  ASSUME TypeOK, TypeOK', CopyInv, held' \o queue' = held \o queue,
         \A job \in Range(held \o queue) : Undisturbed(job),
         \A u \in DOMAIN senders' :
            /\ u \in DOMAIN senders /\ Undisturbed(senders[u].job)
            /\ senders'[u].job = senders[u].job /\ Left(u)' = Left(u)
  PROVE  CopyInv'
<1> DEFINE waiting == held \o queue
<1>0. waiting' = waiting
  OBVIOUS
<1>1. OneCopy'
  <2> HIDE DEF waiting
  <2>1. OneCopy
    BY DEF CopyInv
  <2>2. \A i, j \in DOMAIN waiting : GapOf(waiting[i]) = GapOf(waiting[j]) => i = j
    BY <2>1 DEF OneCopy, waiting
  <2>3. \A t \in DOMAIN senders, job \in Range(waiting) : GapOf(senders[t].job) # GapOf(job)
    BY <2>1 DEF OneCopy, waiting
  <2>4. \A t, u \in DOMAIN senders' : GapOf(senders'[t].job) = GapOf(senders'[u].job) => t = u
    BY <2>1 DEF OneCopy
  <2>5. \A t \in DOMAIN senders', job \in Range(waiting') : GapOf(senders'[t].job) # GapOf(job)
    BY <1>0, <2>3
  <2>6. \A i, j \in DOMAIN waiting' : GapOf(waiting'[i]) = GapOf(waiting'[j]) => i = j
    BY <1>0, <2>2
  <2> QED  BY <2>4, <2>5, <2>6 DEF OneCopy, waiting
<1>2. ASSUME NEW job \in Range(held' \o queue')
      PROVE  Lasts(job, RespTimeout + SweepSlack)' /\ Passed(job)'
  <2>1. job \in Range(held \o queue)
    BY <1>0
  <2>2. /\ job \in Job /\ Undisturbed(job)
        /\ Lasts(job, RespTimeout + SweepSlack) /\ Passed(job)
    BY <2>1, WaitingFacts, UnderwayType DEF CopyInv
  <2> QED  BY <2>2, StampStays
<1>3. ASSUME NEW u \in DOMAIN senders'
      PROVE  (Lasts(senders[u].job, Left(u) + SweepSlack) /\ Passed(senders[u].job))'
  <2>1. /\ u \in DOMAIN senders /\ Undisturbed(senders[u].job)
        /\ senders'[u].job = senders[u].job /\ Left(u)' = Left(u)
    OBVIOUS
  <2>2. PICK job : job = senders[u].job
    OBVIOUS
  <2>3. PICK n : n = Left(u) + SweepSlack
    OBVIOUS
  <2>4. job \in Job /\ Undisturbed(job) /\ Lasts(job, n) /\ Passed(job)
    BY <2>1, <2>2, <2>3, SenderJob DEF CopyInv
  <2>5. Lasts(job, n)' /\ Passed(job)'
    BY <2>4, StampStays
  <2>6. job = senders'[u].job /\ n = (Left(u) + SweepSlack)'
    BY <2>1, <2>2, <2>3
  <2> QED  BY <2>5, <2>6 DEF Lasts, Passed
<1> QED  BY <1>1, <1>2, <1>3 DEF CopyInv

(* A token other than that of a returning sendNACK, and whatever waits,    *)
(* has another gap.                                                        *)
LEMMA OtherCopies ==
  ASSUME TypeOK, OneCopy, NEW t \in DOMAIN senders, Return(t)
  PROVE  /\ \A job \in Range(held \o queue) : GapOf(job) # GapOf(senders[t].job)
         /\ \A u \in DOMAIN senders' :
              /\ u \in DOMAIN senders /\ senders'[u] = senders[u]
              /\ GapOf(senders[u].job) # GapOf(senders[t].job)
<1>1. \A u \in DOMAIN senders' : u \in DOMAIN senders \ {t} /\ senders'[u] = senders[u]
  BY DEF Return, Restrict
<1> QED  BY <1>1 DEF OneCopy

(* A step that leaves the pipeline alone disturbs no copy when it opens    *)
(* gaps beyond the flows' numbers only.                                    *)
LEMMA OpenCopies ==
  ASSUME TypeOK, TypeOK', CopyInv, KeepsFlow, UNCHANGED <<queue, held, senders>>,
         \A h \in HashKey : \A s \in DOMAIN pending'[h] : Kept(h, s) \/ s > lastSeqNum[h]
  PROVE  CopyInv'
<1>1. ASSUME NEW job \in Underway, Passed(job)
      PROVE  Undisturbed(job)
  <2>1. job \in Job /\ job.hashKey \in HashKey /\ job.seqNum \in SeqNum
    BY UnderwayType, JobParts
  <2> DEFINE s == job.seqNum
             a == lastSeqNum[job.hashKey]
  <2>2. s \in Int /\ a \in Int
    <3>1. a \in Int /\ s \in 1..MaxSeq
      BY <2>1, FlowNumbers DEF SeqNum
    <3> HIDE DEF a, s
    <3> QED  BY <3>1, SMTT(20)
  <2>3. s <= a
    BY <1>1 DEF Passed
  <2> HIDE DEF s, a
  <2>4. ~(s > a)
    BY <2>2, <2>3, SMTT(20)
  <2>5. LeftAlone(job)
    BY <2>1, <2>4 DEF LeftAlone, Kept, s, a
  <2> QED  BY <2>5 DEF Undisturbed, KeepsFlow
<1>2. \A job \in Range(held \o queue) : Undisturbed(job)
  BY <1>1, WaitingFacts DEF CopyInv
<1>3. \A u \in DOMAIN senders' :
        /\ u \in DOMAIN senders /\ Undisturbed(senders[u].job)
        /\ senders'[u].job = senders[u].job /\ Left(u)' = Left(u)
  <2>1. \A u \in DOMAIN senders : Undisturbed(senders[u].job)
    BY <1>1, SenderJob DEF CopyInv
  <2>2. senders' = senders
    OBVIOUS
  <2>3. \A u : Left(u)' = Left(u)
    BY <2>2 DEF Left
  <2> QED  BY <2>1, <2>2, <2>3
<1>4. held' \o queue' = held \o queue
  OBVIOUS
<1> QED  BY <1>2, <1>3, <1>4, QuietCopies

(* The return of a sendNACK, which touches no gap but that of its copy.    *)
LEMMA ReturnCopies ==
  ASSUME TypeOK, TypeOK', CopyInv, KeepsFlow,
         NEW t \in DOMAIN senders, Return(t), UNCHANGED <<queue, held>>,
         \A h \in HashKey : \A s \in DOMAIN pending'[h] :
            <<h, s>> # GapOf(senders[t].job) => Kept(h, s)
  PROVE  CopyInv'
<1>0. OneCopy
  BY DEF CopyInv
<1>1. ASSUME NEW job \in Underway, GapOf(job) # GapOf(senders[t].job)
      PROVE  Undisturbed(job)
  <2>1. job.hashKey \in HashKey
    BY UnderwayType, JobParts
  <2>2. LeftAlone(job)
    BY <1>1, <2>1 DEF LeftAlone, Kept, GapOf
  <2> QED  BY <2>2 DEF Undisturbed, KeepsFlow
<1>2. \A job \in Range(held \o queue) : Undisturbed(job)
  BY <1>0, <1>1, OtherCopies, WaitingFacts
<1>3. ASSUME NEW u \in DOMAIN senders'
      PROVE  /\ u \in DOMAIN senders /\ Undisturbed(senders[u].job)
             /\ senders'[u].job = senders[u].job /\ Left(u)' = Left(u)
  <2>1. /\ u \in DOMAIN senders /\ senders'[u] = senders[u]
        /\ GapOf(senders[u].job) # GapOf(senders[t].job)
    BY <1>0, OtherCopies
  <2>2. Undisturbed(senders[u].job)
    BY <1>1, <2>1, SenderJob
  <2>3. Left(u)' = Left(u)
    BY <2>1 DEF Left
  <2> QED  BY <2>1, <2>2, <2>3
<1>4. held' \o queue' = held \o queue
  OBVIOUS
<1> QED  BY <1>2, <1>3, <1>4, QuietCopies

(* A NACK goes out: the read deadline leaves the time the stamp allowed    *)
(* for.                                                                    *)
LEMMA AskCopies ==
  ASSUME TypeOK, TypeOK', CopyInv, NEW t \in DOMAIN senders, SendNACK(t)
  PROVE  CopyInv'
<1>1. /\ pending' = pending /\ lastSeqNum' = lastSeqNum /\ queue' = queue /\ held' = held
      /\ senders[t].phase = "start"
      /\ senders' = [senders EXCEPT ![t] =
            [job |-> senders[t].job, phase |-> "waiting",
             numEndpoints |-> Len(endpoints), wait |-> RespTimeout]]
  BY DEF SendNACK, flowVars
<1>2. ASSUME NEW job \in Job
      PROVE  Undisturbed(job)
  <2>1. lastSeqNum'[job.hashKey] >= lastSeqNum[job.hashKey]
    BY <1>1, SameFlow
  <2> QED  BY <1>1, <2>1 DEF Undisturbed, LeftAlone
<1>3. ASSUME NEW u \in DOMAIN senders'
      PROVE  /\ u \in DOMAIN senders /\ Undisturbed(senders[u].job)
             /\ senders'[u].job = senders[u].job /\ Left(u)' = Left(u)
  <2>1. u \in DOMAIN senders /\ senders'[u].job = senders[u].job
    BY <1>1
  <2>2. Undisturbed(senders[u].job)
    BY <1>2, <2>1, SenderJob
  <2>3. CASE u = t
    <3>1. senders'[t].phase = "waiting" /\ senders'[t].wait = RespTimeout
      BY <1>1
    <3>2. Left(t)' = RespTimeout /\ Left(t) = RespTimeout
      BY <1>1, <3>1 DEF Left
    <3> QED  BY <2>1, <2>2, <2>3, <3>2
  <2>4. CASE u # t
    <3>1. senders'[u] = senders[u]
      BY <1>1, <2>4
    <3>2. Left(u)' = Left(u)
      BY <3>1 DEF Left
    <3> QED  BY <2>1, <2>2, <3>2
  <2> QED  BY <2>3, <2>4
<1>4. held' \o queue' = held \o queue
  BY <1>1
<1>5. \A job \in Range(held \o queue) : Undisturbed(job)
  BY <1>2, WaitingFacts, UnderwayType
<1> QED  BY <1>3, <1>4, <1>5, QuietCopies

(* The dispatcher takes the copy at the head of the queue in its hand.     *)
LEMMA TakeCopies ==
  ASSUME TypeOK, TypeOK', CopyInv, Take
  PROVE  CopyInv'
<1>1. /\ held = <<>> /\ queue # <<>> /\ held' = <<Head(queue)>> /\ queue' = Tail(queue)
      /\ pending' = pending /\ lastSeqNum' = lastSeqNum /\ senders' = senders
  BY DEF Take, flowVars
<1>2. queue \in Seq(Job)
  BY DEF TypeOK, NackType
<1>3. held' \o queue' = held \o queue
  <2>1. \A q \in Seq(Job) : q # <<>> => <<Head(q)>> \o Tail(q) = <<>> \o q
    BY SMTT(20)
  <2> QED  BY <1>1, <1>2, <2>1
<1>4. ASSUME NEW job \in Job
      PROVE  Undisturbed(job)
  <2>1. lastSeqNum'[job.hashKey] >= lastSeqNum[job.hashKey]
    BY <1>1, SameFlow
  <2> QED  BY <1>1, <2>1 DEF Undisturbed, LeftAlone
<1>5. \A job \in Range(held \o queue) : Undisturbed(job)
  BY <1>4, WaitingFacts, UnderwayType
<1>6. \A u : Left(u)' = Left(u)
  BY <1>1 DEF Left
<1>7. \A u \in DOMAIN senders' :
        /\ u \in DOMAIN senders /\ Undisturbed(senders[u].job)
        /\ senders'[u].job = senders[u].job /\ Left(u)' = Left(u)
  BY <1>1, <1>4, <1>6, SenderJob
<1> QED  BY <1>3, <1>5, <1>7, QuietCopies

(* The copy in hand goes to a sendNACK of its own.                         *)
LEMMA SpawnCopies ==
  ASSUME TypeOK, CopyInv, Spawn
  PROVE  CopyInv'
<1>1. PICK t \in Slots \ DOMAIN senders :
        senders' = [u \in DOMAIN senders \cup {t} |->
                      IF u = t
                      THEN [job |-> Head(held), phase |-> "start",
                            numEndpoints |-> 0, wait |-> 0]
                      ELSE senders[u]]
  BY DEF Spawn
<1>2. /\ held # <<>> /\ held' = <<>> /\ queue' = queue
      /\ pending' = pending /\ lastSeqNum' = lastSeqNum
  BY DEF Spawn, flowVars
<1>3. queue \in Seq(Job) /\ held \in Seq(Job) /\ Len(held) <= 1
  BY DEF TypeOK, NackType
<1> DEFINE waiting == held \o queue
           x == Head(held)
<1>4. /\ DOMAIN queue = 1..Len(queue) /\ Len(queue) \in Nat
      /\ DOMAIN waiting = 1..(Len(queue) + 1)
      /\ waiting[1] = x
      /\ \A i \in DOMAIN queue : waiting[i + 1] = queue[i]
  BY <1>2, <1>3, OneBefore
<1>a. /\ 1 \in DOMAIN waiting
      /\ \A i \in DOMAIN queue : i \in Nat /\ i + 1 \in DOMAIN waiting /\ 1 # i + 1
  <2> HIDE DEF waiting
  <2> QED  BY <1>4, SMTT(20)
<1>5. held' \o queue' = queue
  <2>1. \A q \in Seq(Job) : <<>> \o q = q
    BY SMTT(20)
  <2> QED  BY <1>2, <1>3, <2>1
<1>6. x \in Range(waiting) /\ Range(queue) \subseteq Range(waiting)
  <2> HIDE DEF waiting, x
  <2> QED  BY <1>4, <1>a DEF Range
<1>7. /\ DOMAIN senders' = DOMAIN senders \cup {t}
      /\ senders'[t].job = x /\ senders'[t].phase = "start"
      /\ \A u \in DOMAIN senders : senders'[u] = senders[u]
  BY <1>1
<1>8. /\ OneCopy
      /\ \A job \in Range(waiting) : Lasts(job, RespTimeout + SweepSlack) /\ Passed(job)
      /\ \A u \in DOMAIN senders :
           Lasts(senders[u].job, Left(u) + SweepSlack) /\ Passed(senders[u].job)
  BY DEF CopyInv
<1>9. /\ \A i, j \in DOMAIN waiting : GapOf(waiting[i]) = GapOf(waiting[j]) => i = j
      /\ \A u \in DOMAIN senders, job \in Range(waiting) : GapOf(senders[u].job) # GapOf(job)
      /\ \A u, v \in DOMAIN senders : GapOf(senders[u].job) = GapOf(senders[v].job) => u = v
  BY <1>8 DEF OneCopy
<1> HIDE DEF waiting, x
<1>10. \A i, j \in DOMAIN queue : GapOf(queue[i]) = GapOf(queue[j]) => i = j
  <2> SUFFICES ASSUME NEW i \in DOMAIN queue, NEW j \in DOMAIN queue,
                      GapOf(queue[i]) = GapOf(queue[j])
               PROVE  i = j
    OBVIOUS
  <2>1. /\ i \in Nat /\ i + 1 \in DOMAIN waiting
        /\ j \in Nat /\ j + 1 \in DOMAIN waiting
    BY <1>a
  <2>2. i + 1 = j + 1
    BY <1>4, <1>9, <2>1
  <2> QED  BY <2>1, <2>2, SMTT(20)
<1>11. \A job \in Range(queue) : GapOf(x) # GapOf(job)
  <2> SUFFICES ASSUME NEW i \in DOMAIN queue
               PROVE  GapOf(x) # GapOf(queue[i])
    BY DEF Range
  <2>1. 1 \in DOMAIN waiting /\ i + 1 \in DOMAIN waiting /\ 1 # i + 1
    BY <1>a
  <2> QED  BY <1>4, <1>9, <2>1
<1>12. OneCopy'
  <2>1. \A u, v \in DOMAIN senders' : GapOf(senders'[u].job) = GapOf(senders'[v].job) => u = v
    <3>1. \A u \in DOMAIN senders : GapOf(senders[u].job) # GapOf(x)
      BY <1>6, <1>9
    <3>2. \A u, v \in DOMAIN senders :
            GapOf(senders'[u].job) = GapOf(senders'[v].job) => u = v
      BY <1>7, <1>9
    <3>3. \A u \in DOMAIN senders : GapOf(senders'[u].job) # GapOf(senders'[t].job)
      BY <1>7, <3>1
    <3> QED  BY <1>7, <3>2, <3>3
  <2>2. \A u \in DOMAIN senders', job \in Range(queue) : GapOf(senders'[u].job) # GapOf(job)
    <3>1. \A u \in DOMAIN senders, job \in Range(queue) : GapOf(senders'[u].job) # GapOf(job)
      BY <1>6, <1>7, <1>9
    <3>2. \A job \in Range(queue) : GapOf(senders'[t].job) # GapOf(job)
      BY <1>7, <1>11
    <3> QED  BY <1>7, <3>1, <3>2
  <2> QED  BY <1>5, <1>10, <2>1, <2>2 DEF OneCopy
<1>13. ASSUME NEW job
       PROVE  /\ Passed(job)' = Passed(job)
              /\ \A n : Lasts(job, n)' = Lasts(job, n)
  BY <1>2 DEF Passed, Lasts
<1>14. \A job \in Range(held' \o queue') :
         Lasts(job, RespTimeout + SweepSlack)' /\ Passed(job)'
  BY <1>5, <1>6, <1>8, <1>13
<1>15. ASSUME NEW u \in DOMAIN senders'
       PROVE  (Lasts(senders[u].job, Left(u) + SweepSlack) /\ Passed(senders[u].job))'
  <2>1. CASE u = t
    <3>1. Left(t)' = RespTimeout
      BY <1>7 DEF Left
    <3>2. Lasts(x, RespTimeout + SweepSlack) /\ Passed(x)
      BY <1>6, <1>8
    <3> QED  BY <1>2, <1>7, <2>1, <3>1, <3>2 DEF Lasts, Passed
  <2>2. CASE u # t
    <3>1. u \in DOMAIN senders /\ senders'[u] = senders[u]
      BY <1>7, <2>2
    <3>2. Left(u)' = Left(u)
      BY <3>1 DEF Left
    <3>3. Lasts(senders[u].job, Left(u) + SweepSlack) /\ Passed(senders[u].job)
      BY <1>8, <3>1
    <3> QED  BY <1>2, <3>1, <3>2, <3>3 DEF Lasts, Passed
  <2> QED  BY <2>1, <2>2
<1> QED  BY <1>12, <1>14, <1>15 DEF CopyInv

(* With a copy in hand and every token taken there would be more gaps      *)
(* under way than tokens.                                                  *)
LEMMA TokenFree ==
  ASSUME TypeOK, OneCopy, EnoughTokens, held # <<>>
  PROVE  Slots \ DOMAIN senders # {}
<1> SUFFICES ASSUME Slots \ DOMAIN senders = {}
             PROVE  FALSE
  OBVIOUS
<1> DEFINE gaps == {GapOf(job) : job \in Underway}
           f == [t \in Slots |-> GapOf(senders[t].job)]
<1>1. DOMAIN senders = Slots
  BY DEF TypeOK, NackType
<1>2. IsFiniteSet(gaps)
  <2>1. IsFiniteSet(SeqNum)
    BY SeqNumSubsetFinite
  <2>2. IsFiniteSet(FrameId)
    BY <2>1, FlowAssumption, FS_Product DEF FrameId
  <2>3. gaps \in SUBSET FrameId
    BY UnderwayType, JobParts
  <2> HIDE DEF gaps
  <2> QED  BY <2>2, <2>3, FS_Subset
<1>3. \A t \in Slots : GapOf(senders[t].job) \in gaps
  BY <1>1, SenderJob
<1>4. \A t, u \in Slots : GapOf(senders[t].job) = GapOf(senders[u].job) => t = u
  BY <1>1 DEF OneCopy
<1>5. f \in Injection(Slots, gaps)
  <2> HIDE DEF gaps
  <2> QED  BY <1>3, <1>4 DEF Injection, IsInjective
<1>6. /\ IsFiniteSet(Slots) /\ Cardinality(Slots) <= Cardinality(gaps)
      /\ Cardinality(Slots) = Cardinality(gaps) <=> f \in Surjection(Slots, gaps)
  <2> HIDE DEF gaps, f
  <2> QED  BY <1>2, <1>5, FS_Injection
<1>7. Cardinality(Slots) = Cardinality(gaps)
  <2>1. Cardinality(gaps) <= Cardinality(Slots)
    BY DEF EnoughTokens
  <2> DEFINE a == Cardinality(Slots)
             b == Cardinality(gaps)
  <2>2. a \in Nat /\ b \in Nat
    <3> HIDE DEF gaps
    <3> QED  BY <1>2, <1>6, FS_CardinalityType
  <2>3. a <= b /\ b <= a
    BY <1>6, <2>1
  <2> HIDE DEF a, b
  <2>4. a = b
    <3>1. a \in Int /\ b \in Int
      BY <2>2, SMTT(20)
    <3> QED  BY <2>3, <3>1, Numbers
  <2> QED  BY <2>4 DEF a, b
<1>8. Head(held) \in Range(held)
  BY Ends DEF TypeOK, NackType
<1>9. Head(held) \in Range(held \o queue) /\ Head(held) \in Underway
  BY <1>8, WaitingFacts
<1>10. PICK t \in Slots : f[t] = GapOf(Head(held))
  <2>1. GapOf(Head(held)) \in gaps
    BY <1>9
  <2>2. f \in Surjection(Slots, gaps)
    BY <1>6, <1>7
  <2> HIDE DEF gaps, f
  <2> QED  BY <2>1, <2>2 DEF Surjection
<1> QED  BY <1>1, <1>9, <1>10 DEF OneCopy

(* Time passes only when every copy is with a sendNACK that waits for its  *)
(* answer, so the stamp and the read deadline run down together.           *)
LEMMA PassCopies ==
  ASSUME TypeOK, TypeOK', CopyInv, EnoughTokens, Pass
  PROVE  CopyInv'
<1>0. OneCopy /\ ~Busy /\ Tick
  BY DEF CopyInv, Pass
<1>1. held = <<>> /\ queue = <<>>
  <2>1. held = <<>>
    BY <1>0, TokenFree DEF Busy
  <2> QED  BY <1>0, <2>1 DEF Busy
<1>2. /\ held' = held /\ queue' = queue /\ lastSeqNum' = lastSeqNum
      /\ \A h \in HashKey : /\ DOMAIN pending'[h] = DOMAIN pending[h]
                            /\ \A s \in DOMAIN pending[h] : pending'[h][s] = Aged(pending[h][s])
  BY <1>0 DEF Tick
<1>3. \A t \in DOMAIN senders : senders[t] \in Sender
  BY DEF TypeOK, NackType
<1>4. /\ DOMAIN senders' = DOMAIN senders
      /\ \A t \in DOMAIN senders :
           /\ senders'[t].job = senders[t].job /\ senders'[t].phase = senders[t].phase
           /\ senders'[t].wait = IF senders[t].wait > 0 THEN senders[t].wait - 1 ELSE 0
  BY <1>0, <1>3 DEF Tick, Sender
<1>5. Range(held' \o queue') = {} /\ DOMAIN (held' \o queue') = {}
  BY <1>1, <1>2, SMTT(20) DEF Range
<1>6. OneCopy'
  <2>1. \A t, u \in DOMAIN senders : GapOf(senders[t].job) = GapOf(senders[u].job) => t = u
    BY <1>0 DEF OneCopy
  <2>2. \A t, u \in DOMAIN senders' : GapOf(senders'[t].job) = GapOf(senders'[u].job) => t = u
    BY <1>4, <2>1
  <2> QED  BY <1>5, <2>2 DEF OneCopy
<1>7. ASSUME NEW t \in DOMAIN senders'
      PROVE  (Lasts(senders[t].job, Left(t) + SweepSlack) /\ Passed(senders[t].job))'
  <2> DEFINE job == senders[t].job
             h == job.hashKey
             s == job.seqNum
             w == senders[t].wait
  <2>1. t \in DOMAIN senders /\ h \in HashKey
    BY <1>4, SenderJob, JobParts
  <2>2. senders[t].phase # "start" /\ w # 0
    BY <1>0, <2>1 DEF Busy
  <2>3. w \in Nat
    BY <1>3, <2>1 DEF Sender
  <2>4. Lasts(job, w + SweepSlack) /\ Passed(job)
    BY <2>1, <2>2 DEF CopyInv, Left
  <2>5. senders'[t].job = job /\ senders'[t].phase # "start" /\ senders'[t].wait = w - 1
    <3>1. w > 0
      BY <2>2, <2>3, SMTT(20)
    <3> QED  BY <1>4, <2>1, <2>2, <3>1
  <2>6. Left(t)' = w - 1
    BY <2>5 DEF Left
  <2>7. Passed(senders[t].job)'
    BY <1>2, <2>4, <2>5 DEF Passed
  <2>8. ASSUME s \in DOMAIN pending'[h]
        PROVE  pending'[h][s].nextAttempt >= (w - 1) + SweepSlack
    <3> DEFINE n == pending[h][s].nextAttempt
    <3>1. s \in DOMAIN pending[h]
      BY <1>2, <2>1, <2>8
    <3>2. n >= w + SweepSlack
      BY <2>4, <3>1 DEF Lasts
    <3>3. n \in Int
      BY <2>1, <3>1 DEF TypeOK, FlowType, IsPendingMap, GapEntry
    <3>4. pending'[h][s].nextAttempt = Countdown(n)
      <4>1. pending'[h][s] = Aged(pending[h][s])
        BY <1>2, <2>1, <3>1
      <4>2. \A e : Aged(e).nextAttempt = Countdown(e.nextAttempt)
        BY DEF Aged
      <4> QED  BY <4>1, <4>2
    <3> HIDE DEF n, w, h, s
    <3>5. Countdown(n) >= (w - 1) + SweepSlack
      BY <2>2, <2>3, <3>2, <3>3, CountdownStep
    <3> QED  BY <3>4, <3>5
  <2>9. Lasts(senders[t].job, Left(t) + SweepSlack)'
    BY <2>5, <2>6, <2>8 DEF Lasts
  <2> QED  BY <2>7, <2>9
<1> QED  BY <1>5, <1>6, <1>7 DEF CopyInv

(* A gap whose stamp has run out is not under way.                         *)
LEMMA DueNotUnderway ==
  ASSUME TypeOK, CopyInv, NEW job \in Underway
  PROVE  /\ Passed(job)
         /\ job.seqNum \in DOMAIN pending[job.hashKey] =>
              ~Due(pending[job.hashKey][job.seqNum])
<1>1. \E n \in Nat : Lasts(job, n) /\ Passed(job)
  <2>1. CASE job \in Range(held \o queue)
    <3>1. RespTimeout + SweepSlack \in Nat
      BY TimeAssumption, SMTT(20)
    <3> QED  BY <2>1, <3>1 DEF CopyInv
  <2>2. ASSUME NEW t \in DOMAIN senders, job = senders[t].job
        PROVE  \E n \in Nat : Lasts(job, n) /\ Passed(job)
    <3>1. senders[t] \in Sender
      BY DEF TypeOK, NackType
    <3>2. Left(t) + SweepSlack \in Nat
      BY <3>1, TimeAssumption, SMTT(20) DEF Left, Sender
    <3> QED  BY <2>2, <3>2 DEF CopyInv
  <2> QED  BY <2>1, <2>2, WaitingFacts DEF Underway
<1>2. PICK n \in Nat : Lasts(job, n) /\ Passed(job)
  BY <1>1
<1>3. ASSUME job.seqNum \in DOMAIN pending[job.hashKey]
      PROVE  ~Due(pending[job.hashKey][job.seqNum])
  <2> DEFINE k == pending[job.hashKey][job.seqNum].nextAttempt
  <2>1. k >= n
    BY <1>2, <1>3 DEF Lasts
  <2>2. job.hashKey \in HashKey
    BY UnderwayType, JobParts
  <2>3. k \in Int
    BY <1>3, <2>2 DEF TypeOK, FlowType, IsPendingMap, GapEntry
  <2> HIDE DEF k
  <2>4. ~(k < 0)
    BY <1>2, <2>1, <2>3, SMTT(20)
  <2> QED  BY <2>4 DEF Due, k
<1> QED  BY <1>2, <1>3

(* Two sequences without repetitions and without a common element.         *)
LEMMA AppendDistinct ==
  ASSUME NEW S, NEW a \in Seq(S), NEW b \in Seq(S),
         \A i, j \in DOMAIN a : GapOf(a[i]) = GapOf(a[j]) => i = j,
         \A i, j \in DOMAIN b : GapOf(b[i]) = GapOf(b[j]) => i = j,
         \A i \in DOMAIN a, j \in DOMAIN b : GapOf(a[i]) # GapOf(b[j])
  PROVE  \A i, j \in DOMAIN (a \o b) : GapOf((a \o b)[i]) = GapOf((a \o b)[j]) => i = j
<1> DEFINE c == a \o b
           m == Len(a)
<1>1. \A i \in DOMAIN c : i \in Nat /\ m \in Nat
  BY AppendAt
<1>2. \A i \in DOMAIN c :
        \/ i \in DOMAIN a /\ c[i] = a[i]
        \/ i - m \in DOMAIN b /\ c[i] = b[i - m]
  BY AppendAt
<1> HIDE DEF c, m
<1>3. ASSUME NEW i \in DOMAIN c, NEW j \in DOMAIN c, GapOf(c[i]) = GapOf(c[j])
      PROVE  i = j
  <2>1. CASE i \in DOMAIN a /\ c[i] = a[i] /\ j \in DOMAIN a /\ c[j] = a[j]
    BY <1>3, <2>1
  <2>2. CASE i \in DOMAIN a /\ c[i] = a[i] /\ j - m \in DOMAIN b /\ c[j] = b[j - m]
    BY <1>3, <2>2
  <2>3. CASE i - m \in DOMAIN b /\ c[i] = b[i - m] /\ j \in DOMAIN a /\ c[j] = a[j]
    BY <1>3, <2>3
  <2>4. CASE i - m \in DOMAIN b /\ c[i] = b[i - m] /\ j - m \in DOMAIN b /\ c[j] = b[j - m]
    <3>1. i - m = j - m
      BY <1>3, <2>4
    <3>2. m \in Nat /\ i \in Nat /\ j \in Nat
      BY <1>1
    <3> QED  BY <3>1, <3>2, SameOffset
  <2> QED  BY <1>2, <2>1, <2>2, <2>3, <2>4
<1> QED  BY <1>3 DEF c

(* A copy of a gap is of that gap.                                         *)
LEMMA CopyFacts ==
  ASSUME TypeOK, NEW gap \in DueGaps
  PROVE  /\ CopyOf(gap) \in Job /\ GapOf(CopyOf(gap)) = gap
         /\ CopyOf(gap).hashKey = gap[1] /\ CopyOf(gap).seqNum = gap[2]
         /\ gap[1] \in HashKey /\ gap[2] \in DOMAIN pending[gap[1]]
         /\ Due(pending[gap[1]][gap[2]]) /\ gap = <<gap[1], gap[2]>>
<1>1. /\ gap \in HashKey \X SeqNum /\ gap[2] \in DOMAIN pending[gap[1]]
      /\ Due(pending[gap[1]][gap[2]])
  BY DEF DueGaps
<1>2. gap[1] \in HashKey /\ gap[2] \in SeqNum /\ gap = <<gap[1], gap[2]>>
  BY <1>1, Pairs
<1>3. pending[gap[1]][gap[2]].endpointIdx \in Nat
  BY <1>1, <1>2, EntryType
<1> QED  BY <1>1, <1>2, <1>3 DEF CopyOf, GapOf, Job

(* The sweep queues copies of gaps that are not under way, one of each,    *)
(* and stamps them.                                                        *)
LEMMA SweepCopies ==
  ASSUME TypeOK, TypeOK', GapsInWindow, CopyInv, KeepsFlow, Sweep
  PROVE  CopyInv'
<1>1. PICK batch \in Batches(DueGaps) :
        /\ queue' = queue \o [i \in 1..Len(batch) |-> CopyOf(batch[i])]
        /\ pending' = [h \in HashKey |-> Swept(h, batch)]
  BY DEF Sweep
<1>2. /\ held' = held /\ senders' = senders
      /\ lastSeqNum' = [h \in HashKey |-> IF h \in IdleFlows THEN 0 ELSE lastSeqNum[h]]
  BY DEF Sweep
<1>3. batch \in Seq(DueGaps) /\ IsInjective(batch)
  BY BatchFacts DEF Batches
<1>4. queue \in Seq(Job) /\ held \in Seq(Job)
  BY DEF TypeOK, NackType
<1> DEFINE copies == [i \in 1..Len(batch) |-> CopyOf(batch[i])]
           waiting == held \o queue
<1>5. /\ DOMAIN copies = DOMAIN batch
      /\ \A i \in DOMAIN batch : batch[i] \in DueGaps /\ copies[i] = CopyOf(batch[i])
  BY <1>3, Elements
<1>6. copies \in Seq(Job) /\ waiting \in Seq(Job)
  <2>1. \A i \in 1..Len(batch) : CopyOf(batch[i]) \in Job
    BY <1>3, CopyFacts, Elements
  <2>2. Len(batch) \in Nat
    BY <1>3, Elements
  <2>3. copies \in [1..Len(batch) -> Job]
    BY <2>1
  <2> QED  BY <1>4, <2>2, <2>3, FunctionIsSeq, Appended
<1>7. held' \o queue' = waiting \o copies
  <2>1. queue' = queue \o copies
    BY <1>1
  <2> HIDE DEF copies
  <2> QED  BY <1>2, <1>4, <1>6, <2>1, AppendAssociates
<1>8. \A i, j \in DOMAIN copies : GapOf(copies[i]) = GapOf(copies[j]) => i = j
  <2> HIDE DEF copies
  <2>1. \A i \in DOMAIN batch : GapOf(copies[i]) = batch[i]
    BY <1>5, CopyFacts
  <2> QED  BY <1>3, <1>5, <2>1 DEF IsInjective
<1>9. ASSUME NEW job \in Underway, NEW gap \in DueGaps
      PROVE  GapOf(job) # GapOf(CopyOf(gap))
  <2>1. job.seqNum \in DOMAIN pending[job.hashKey] => ~Due(pending[job.hashKey][job.seqNum])
    BY DueNotUnderway
  <2>2. /\ GapOf(CopyOf(gap)) = gap /\ gap[2] \in DOMAIN pending[gap[1]]
        /\ Due(pending[gap[1]][gap[2]])
    BY CopyFacts
  <2>3. GapOf(job)[1] = job.hashKey /\ GapOf(job)[2] = job.seqNum
    BY DEF GapOf
  <2> QED  BY <2>1, <2>2, <2>3
<1>10. ASSUME NEW job \in Range(held' \o queue')
       PROVE  job \in Range(waiting) \/ \E i \in DOMAIN batch : job = CopyOf(batch[i])
  <2> HIDE DEF copies, waiting
  <2>1. PICK i \in DOMAIN (waiting \o copies) : job = (waiting \o copies)[i]
    BY <1>7 DEF Range
  <2>2. \/ i \in DOMAIN waiting /\ job = waiting[i]
        \/ i - Len(waiting) \in DOMAIN copies /\ job = copies[i - Len(waiting)]
    BY <1>6, <2>1, AppendAt
  <2> QED  BY <1>5, <2>2 DEF Range
<1>11. Range(waiting) \subseteq Underway
  BY WaitingFacts
<1>12. OneCopy'
  <2>0. OneCopy
    BY DEF CopyInv
  <2>1. \A i, j \in DOMAIN waiting : GapOf(waiting[i]) = GapOf(waiting[j]) => i = j
    BY <2>0 DEF OneCopy
  <2>2. \A i \in DOMAIN waiting, j \in DOMAIN copies : GapOf(waiting[i]) # GapOf(copies[j])
    <3> HIDE DEF copies, waiting
    <3> QED  BY <1>5, <1>9, <1>11 DEF Range
  <2>3. \A t \in DOMAIN senders, job \in Range(waiting) : GapOf(senders[t].job) # GapOf(job)
    BY <2>0 DEF OneCopy
  <2>4. \A t \in DOMAIN senders, gap \in DueGaps : GapOf(senders[t].job) # GapOf(CopyOf(gap))
    BY <1>9, SenderJob
  <2> HIDE DEF copies, waiting
  <2>5. \A i, j \in DOMAIN (waiting \o copies) :
          GapOf((waiting \o copies)[i]) = GapOf((waiting \o copies)[j]) => i = j
    BY <1>6, <1>8, <2>1, <2>2, AppendDistinct
  <2>6. \A t \in DOMAIN senders, job \in Range(held' \o queue') :
          GapOf(senders[t].job) # GapOf(job)
    <3> SUFFICES ASSUME NEW t \in DOMAIN senders, NEW job \in Range(held' \o queue')
                 PROVE  GapOf(senders[t].job) # GapOf(job)
      OBVIOUS
    <3>1. CASE job \in Range(waiting)
      BY <2>3, <3>1
    <3>2. CASE \E i \in DOMAIN batch : job = CopyOf(batch[i])
      BY <1>5, <2>4, <3>2
    <3> QED  BY <1>10, <3>1, <3>2
  <2>7. \A t, u \in DOMAIN senders : GapOf(senders[t].job) = GapOf(senders[u].job) => t = u
    BY <2>0 DEF OneCopy
  <2>8. \A i, j \in DOMAIN (held' \o queue') :
          GapOf((held' \o queue')[i]) = GapOf((held' \o queue')[j]) => i = j
    BY <1>7, <2>5
  <2>9. \A t \in DOMAIN senders', job \in Range(held' \o queue') :
          GapOf(senders'[t].job) # GapOf(job)
    BY <1>2, <2>6
  <2>10. \A t, u \in DOMAIN senders' : GapOf(senders'[t].job) = GapOf(senders'[u].job) => t = u
    BY <1>2, <2>7
  <2> QED  BY <2>8, <2>9, <2>10 DEF OneCopy
<1> HIDE DEF copies, waiting
<1>13. \A h \in HashKey :
         /\ DOMAIN pending'[h] = DOMAIN pending[h] \ HopelessGaps(h)
         /\ \A s \in DOMAIN pending'[h] :
              pending'[h][s] = IF Due(pending[h][s])
                               THEN Stamp(<<h, s>> \in Range(batch), pending[h][s])
                               ELSE pending[h][s]
  BY <1>1 DEF Swept
<1>14. ASSUME NEW job \in Underway
       PROVE  Undisturbed(job)
  <2>1. job.hashKey \in HashKey
    BY UnderwayType, JobParts
  <2>2. job.seqNum \in DOMAIN pending[job.hashKey] => ~Due(pending[job.hashKey][job.seqNum])
    BY DueNotUnderway
  <2>3. LeftAlone(job)
    BY <1>13, <2>1, <2>2 DEF LeftAlone
  <2> QED  BY <2>3 DEF Undisturbed, KeepsFlow
<1>15. ASSUME NEW i \in DOMAIN batch, NEW job, job = CopyOf(batch[i])
       PROVE  Lasts(job, RespTimeout + SweepSlack)' /\ Passed(job)'
  <2> DEFINE gap == batch[i]
             h == gap[1]
             s == gap[2]
  <2>1. /\ h \in HashKey /\ s \in DOMAIN pending[h] /\ Due(pending[h][s])
        /\ job.hashKey = h /\ job.seqNum = s /\ <<h, s>> \in Range(batch)
    <3>1. gap \in DueGaps /\ gap \in Range(batch)
      BY <1>5 DEF Range
    <3> HIDE DEF gap
    <3> QED  BY <1>15, <3>1, CopyFacts DEF gap
  <2> HIDE DEF gap, h, s
  <2>2. pending[h][s] \in GapEntry
    BY <2>1 DEF TypeOK, FlowType, IsPendingMap
  <2>3. Lasts(job, RespTimeout + SweepSlack)'
    <3>1. <<h, s>> \in Range(batch) =>
            Stamp(<<h, s>> \in Range(batch), pending[h][s]).nextAttempt = RespTimeout + SweepSlack
      BY <2>2 DEF Stamp, GapEntry
    <3>3. s \in DOMAIN pending'[h] =>
            pending'[h][s] = Stamp(<<h, s>> \in Range(batch), pending[h][s])
      BY <1>13, <2>1
    <3>4. s \in DOMAIN pending'[h] => pending'[h][s].nextAttempt = RespTimeout + SweepSlack
      BY <2>1, <3>1, <3>3
    <3>5. RespTimeout + SweepSlack >= RespTimeout + SweepSlack
      BY TimeAssumption, SMTT(20)
    <3>6. s \in DOMAIN pending'[h] => pending'[h][s].nextAttempt >= RespTimeout + SweepSlack
      BY <3>4, <3>5
    <3> QED  BY <2>1, <3>6 DEF Lasts
  <2>4. lastSeqNum'[h] = lastSeqNum[h]
    <3>1. s \notin HopelessGaps(h)
      BY <2>1 DEF Due, HopelessGaps
    <3>2. h \notin IdleFlows
      BY <2>1, <3>1 DEF IdleFlows
    <3> QED  BY <1>2, <2>1, <3>2
  <2>5. s <= lastSeqNum[h]
    <3>1. s \in (first[h] + 1)..(lastSeqNum[h] - 1)
      BY <2>1 DEF GapsInWindow
    <3>2. first[h] \in Int /\ lastSeqNum[h] \in Int
      BY <2>1, FlowNumbers
    <3> QED  BY <3>1, <3>2, SMTT(20)
  <2>6. Passed(job)'
    BY <2>1, <2>4, <2>5 DEF Passed
  <2> QED  BY <2>3, <2>6
<1>16. ASSUME NEW job \in Range(held' \o queue')
       PROVE  Lasts(job, RespTimeout + SweepSlack)' /\ Passed(job)'
  <2>1. CASE job \in Range(waiting)
    <3>1. job \in Underway /\ Lasts(job, RespTimeout + SweepSlack) /\ Passed(job)
      BY <1>11, <2>1 DEF CopyInv, waiting
    <3>2. job \in Job /\ Undisturbed(job)
      BY <1>14, <3>1, UnderwayType
    <3> QED  BY <3>1, <3>2, StampStays
  <2>2. CASE \E i \in DOMAIN batch : job = CopyOf(batch[i])
    BY <1>15, <2>2
  <2> QED  BY <1>10, <2>1, <2>2
<1>17. ASSUME NEW t \in DOMAIN senders'
       PROVE  (Lasts(senders[t].job, Left(t) + SweepSlack) /\ Passed(senders[t].job))'
  <2>1. PICK job : job = senders[t].job
    OBVIOUS
  <2>2. PICK n : n = Left(t) + SweepSlack
    OBVIOUS
  <2>3. job \in Job /\ Undisturbed(job) /\ Lasts(job, n) /\ Passed(job)
    BY <1>2, <1>14, <2>1, <2>2, SenderJob DEF CopyInv
  <2>4. Lasts(job, n)' /\ Passed(job)'
    BY <2>3, StampStays
  <2>5. job = senders'[t].job /\ n = (Left(t) + SweepSlack)'
    BY <1>2, <2>1, <2>2 DEF Left
  <2> QED  BY <2>4, <2>5 DEF Lasts, Passed
<1> QED  BY <1>12, <1>16, <1>17 DEF CopyInv

(* Every step keeps the invariant, with enough tokens and kept flows.      *)
LEMMA CopyStep ==
  ASSUME TypeOK, TypeOK', GapsInWindow, CopyInv, EnoughTokens, [RecoveryNext]_allVars,
         [KeepsFlow]_allVars
  PROVE  CopyInv'
<1>0. KeepsFlow
  <2>1. CASE UNCHANGED allVars
    <3>1. lastSeqNum' = lastSeqNum
      BY <2>1 DEF allVars, vars
    <3>2. ASSUME NEW job \in Underway
          PROVE  lastSeqNum[job.hashKey] >= lastSeqNum[job.hashKey]
      <4>1. lastSeqNum[job.hashKey] \in Int
        BY UnderwayType, JobParts, FlowNumbers
      <4> QED  BY <4>1, SMTT(20)
    <3> QED  BY <3>1, <3>2 DEF KeepsFlow
  <2> QED  BY <2>1
<1>1. ASSUME UNCHANGED vars
      PROVE  CopyInv'
  <2>1. UNCHANGED <<queue, held, senders>> /\ pending' = pending
    BY <1>1 DEF vars
  <2>2. \A h \in HashKey : \A s \in DOMAIN pending'[h] : Kept(h, s)
    BY <2>1 DEF Kept
  <2> QED  BY <1>0, <2>1, <2>2, OpenCopies
<1>2. ASSUME NEW h \in HashKey, NEW s \in SeqNum, Arrive(h, s)
      PROVE  CopyInv'
  <2>1. Observe(h, s)
    BY <1>2 DEF Arrive
  <2>2. UNCHANGED <<queue, held, senders>>
    BY <2>1 DEF Observe, ObserveFirst, ObserveOld, ObserveRestart, ObserveAdvance,
                       AutoFill, nackVars
  <2>3. \A k \in HashKey : \A m \in DOMAIN pending'[k] : Kept(k, m) \/ m > lastSeqNum[k]
    BY <2>1, ObserveKeeps DEF Opened
  <2> QED  BY <1>0, <2>2, <2>3, OpenCopies
<1>3. CASE Dispatching
  BY <1>0, <1>3, SweepCopies, TakeCopies, SpawnCopies DEF Dispatching
<1>4. CASE Pass
  BY <1>4, PassCopies
<1>5. ASSUME NEW t \in DOMAIN senders, Asking(t)
      PROVE  CopyInv'
  <2> DEFINE job == senders[t].job
  <2>0. job \in Job /\ job.hashKey \in HashKey
    BY SenderJob, JobParts
  <2>1. CASE AnswerMISS(t) \/ AnswerACK(t) \/ Lose(t)
    BY <1>1, <2>1 DEF AnswerMISS, AnswerACK, Lose
  <2>2. CASE Ask(t)
    BY <2>2, AskCopies DEF Ask
  <2>3. CASE AskNobody(t)
    <3>1. Return(t) /\ UNCHANGED <<queue, held>> /\ pending' = pending
      BY <2>3 DEF AskNobody, SendNoEndpoint, flowVars
    <3>2. \A h \in HashKey : \A s \in DOMAIN pending'[h] : Kept(h, s)
      BY <3>1 DEF Kept
    <3> QED  BY <1>0, <3>1, <3>2, ReturnCopies
  <2>4. CASE GetACK(t)
    <3>1. Return(t) /\ UNCHANGED <<queue, held>> /\ CloseGap(job.hashKey, job.seqNum)
      BY <2>4 DEF GetACK, ReceiveACK
    <3>2. \A h \in HashKey : \A s \in DOMAIN pending'[h] : Kept(h, s)
      BY <2>0, <3>1, CloseGapKeeps
    <3> QED  BY <1>0, <3>1, <3>2, ReturnCopies
  <2>5. CASE AskFails(t) \/ GetMISS(t) \/ GetGarbled(t) \/ GiveUpWaiting(t)
    <3>1. /\ Return(t) /\ UNCHANGED <<queue, held>>
          /\ \E b, n : AdvanceEndpoint(job, b, n)
      BY <2>5 DEF AskFails, SendError, GetMISS, ReceiveMISS, GetGarbled, ReceiveInvalid,
                         GiveUpWaiting, Timeout
    <3>2. /\ \A h \in HashKey : DOMAIN pending'[h] = DOMAIN pending[h]
          /\ \A h \in HashKey : \A s \in DOMAIN pending[h] :
               <<h, s>> # GapOf(job) => Kept(h, s)
      BY <2>0, <3>1, AdvanceFacts
    <3>3. \A h \in HashKey : \A s \in DOMAIN pending'[h] : <<h, s>> # GapOf(job) => Kept(h, s)
      BY <3>2
    <3> QED  BY <1>0, <3>1, <3>3, ReturnCopies
  <2> QED  BY <1>5, <2>1, <2>2, <2>3, <2>4, <2>5 DEF Asking
<1>6. ASSUME NEW h \in HashKey, Publish(h)
      PROVE  CopyInv'
  BY <1>1, <1>6 DEF Publish
<1>7. CASE UNCHANGED allVars
  BY <1>1, <1>7 DEF allVars
<1> QED  BY <1>2, <1>3, <1>4, <1>5, <1>6, <1>7 DEF RecoveryNext

(* At the start nothing is under way.                                      *)
LEMMA CopyInit ==
  ASSUME RecoveryInit
  PROVE  CopyInv
<1>1. queue = <<>> /\ held = <<>> /\ senders = [t \in {} |-> 0]
  BY DEF RecoveryInit, Init
<1>2. DOMAIN (held \o queue) = {} /\ Range(held \o queue) = {} /\ DOMAIN senders = {}
  BY <1>1, SMTT(20) DEF Range
<1> QED  BY <1>2 DEF CopyInv, OneCopy

(* "Stamp nextAttempt before copying so concurrent sweeps do not           *)
(* re-enqueue the same gap while a sendNACK goroutine is in-flight":       *)
(* sweepOnce achieves that for any number of flows, tokens and endpoints   *)
(* and any timers, as long as there is a token for each gap under way and  *)
(* no flow with a copy under way is reset or evicted.                      *)
THEOREM OneCopyCorrect == RecoverySpec /\ []EnoughTokens /\ KeepsFlows => []OneCopy
<1>1. CopyInv => OneCopy
  BY DEF CopyInv
<1>2. /\ TypeOK /\ TypeOK' /\ WindowExact /\ CopyInv /\ EnoughTokens
      /\ [RecoveryNext]_allVars /\ [KeepsFlow]_allVars
      => CopyInv'
  BY CopyStep DEF WindowExact
<1>3. RecoveryInit => CopyInv
  BY CopyInit
<1> QED
  BY <1>1, <1>2, <1>3, Composition, TypeCorrect, WindowCorrect, PTL DEF RecoverySpec, KeepsFlows

(* So the endpoints are tried and the retries are bounded whenever there   *)
(* are tokens enough and the flows are kept.                               *)
THEOREM AllTriedWithTokens ==
  RecoverySpec /\ []EnoughTokens /\ KeepsFlows
    => AllTriedBeforeEviction /\ []RetriesBounded
BY OneCopyCorrect, AllTried, RetriesCorrect, PTL
=============================================================================
