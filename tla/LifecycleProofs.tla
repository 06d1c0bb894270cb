--------------------------- MODULE LifecycleProofs ---------------------------
(***************************************************************************)
(* Proofs about Lifecycle, for any number of workers and descriptors, any  *)
(* command lines, and any interleaving of signals, failures and requests.  *)
(***************************************************************************)
EXTENDS Lifecycle, FiniteSetTheorems, TLAPS

Starting == {"none", "open", "join"}

(* Who is to close a worker's socket: its start-up, then its closer, and   *)
(* nobody once the context has been cancelled and the closer has run.      *)
SocketInv ==
  /\ DescriptorsOwned
  /\ \A i \in Worker :
       /\ worker[i] \in Starting => closer[i] = "none"
       /\ worker[i] = "join" \/ closer[i] # "none" => fd[i] \in FD
       /\ worker[i] \in InLoop => closer[i] # "none"
       /\ closer[i] = "ended" => ctxDone
       /\ worker[i] = "returned" => ctxDone

(* How far run has come, and what that says about the workers.             *)
RunInv ==
  /\ main \in {"load", "services"} => started = 0 /\ wg = {} /\ probe.at = "none"
  /\ started <= cfg.numWorkers
  /\ \A i \in Worker : worker[i] # "none" => i <= started
  /\ \A i \in Worker : worker[i] \in {"open", "join"} \cup InLoop => Run(i) \in wg
  /\ main \in {"flush", "exited"} => wg = {}
  /\ main \notin {"returning", "failed", "killed", "exited"} =>
       \A i \in Worker : worker[i] # "none" => i \in egress
  /\ draining => main \notin {"load", "services", "workers", "returning", "await"}

(* What a request to /readyz has seen before it answers.                   *)
ProbeInv ==
  probe.at = "counted" =>
    /\ probe.late => draining
    /\ probe.count >= cfg.numWorkers /\ cfg.numWorkers > 0 => probe.allUp

TypeInv == TypeOK /\ CountExact

-----------------------------------------------------------------------------
(* cfg.numWorkers is a number of workers, 0 before Load has returned.      *)
LEMMA NumWorkersType == TypeOK => cfg.numWorkers \in 0..MaxWorkers
  BY LifecycleAssumption DEF TypeOK, NoConfig, Loaded

(* The initial state.                                                      *)
LEMMA InitInv == Init => TypeInv /\ SocketInv /\ RunInv /\ ProbeInv
<1> SUFFICES ASSUME Init PROVE TypeInv /\ SocketInv /\ RunInv /\ ProbeInv
  OBVIOUS
<1> USE LifecycleAssumption DEF Init
<1>1. TypeOK
  <2>1. NoProbe \in [at : {"none", "counted"}, count : 0..MaxWorkers, allUp : BOOLEAN,
                     late : BOOLEAN, answer : {"none", "ready", "draining", "starting"}]
    BY DEF NoProbe
  <2>2. /\ worker \in [Worker -> {"none", "open", "join", "returned", "failed"} \cup InLoop]
        /\ fd \in [Worker -> FD \cup {0}] /\ closer \in [Worker -> {"none", "waiting", "ended"}]
        /\ table \in [FD -> {Free, Other} \cup Worker]
    OBVIOUS
  <2>3. started \in 0..MaxWorkers /\ others \in 0..MaxOther /\ readyCount \in 0..MaxWorkers
    OBVIOUS
  <2> QED
    BY <2>1, <2>2, <2>3 DEF TypeOK
<1>2. CountExact
  <2>1. {i \in Worker : worker[i] \in InLoop} = {}
    BY DEF InLoop
  <2> QED
    BY <2>1, FS_EmptySet DEF CountExact
<1>3. SocketInv
  BY DEF SocketInv, DescriptorsOwned, Free, InLoop, Worker
<1>4. RunInv
  BY DEF RunInv, NoConfig, NoProbe, InLoop
<1>5. ProbeInv
  BY DEF ProbeInv, NoProbe
<1> QED
  BY <1>1, <1>2, <1>3, <1>4, <1>5 DEF TypeInv

-----------------------------------------------------------------------------
(* The steps of run other than StartWorker: they touch no worker and no    *)
(* socket, and never take the cancellation back.                           *)
RunStep ==
  \/ Load \/ MetricsFail \/ StartServices \/ EgressFails \/ ReturnError \/ Notify
  \/ SignalKills \/ Signal \/ ShutDown

(* The steps of the goroutines that neither receive nor close sockets.     *)
AsideStep ==
  \/ \E i \in Worker : TickerReturns(i)
  \/ AnnounceReturns \/ BeaconReturns \/ ServeReturns \/ ProbeCounts \/ ProbeAnswers

(* A worker in its loop goes on in it, or returns from it.                 *)
GoesOn(i) ==
  \E at \in InLoop : worker[i] \in InLoop /\ Continue(i, at)

Returns(i) == worker[i] \in InLoop /\ ctxDone /\ Return(i)

(* The steps of Next, grouped by what they can disturb.                     *)
LEMMA Cases ==
  ASSUME TypeInv, SocketInv, [Next]_vars
  PROVE  \/ RunStep \/ AsideStep \/ StartWorker \/ OtherOpens \/ OtherCloses \/ UNCHANGED vars
         \/ \E i \in Worker : \/ OpenSocket(i) \/ OpenFails(i) \/ JoinGroups(i) \/ JoinFails(i)
                              \/ GoesOn(i) \/ Returns(i) \/ CloseSocket(i)
<1>1. ASSUME NEW i \in Worker, Receive(i)
      PROVE  \/ OpenSocket(i) \/ OpenFails(i) \/ JoinGroups(i) \/ JoinFails(i)
             \/ GoesOn(i) \/ Returns(i)
  <2>1. ASSUME worker[i] \in InLoop, table[fd[i]] # i
        PROVE  ctxDone
    BY <2>1 DEF SocketInv, DescriptorsOwned, TypeInv, TypeOK, InLoop
  <2>2. CASE Block(i) \/ OtherDatagram(i) \/ Datagram(i) \/ Interrupted(i) \/ Processed(i)
    BY <2>2 DEF Block, OtherDatagram, Datagram, Interrupted, Processed, Continue, GoesOn, InLoop
  <2>3. CASE BadDescriptor(i) \/ Woken(i)
    BY <2>1, <2>3 DEF BadDescriptor, Woken, Returns, InLoop, Free, Worker
  <2>4. CASE OtherSocket(i)
    BY <2>4 DEF OtherSocket, GoesOn, Returns, InLoop
  <2>5. CASE ReceiveTimeout(i)
    BY <2>5 DEF ReceiveTimeout, GoesOn, Returns, InLoop
  <2> QED
    BY <1>1, <2>2, <2>3, <2>4, <2>5 DEF Receive
<1> QED
  BY <1>1 DEF Next, StartUp, Background, RunStep, AsideStep

(* What the steps of run leave alone.                                      *)
LEMMA RunStepKeeps ==
  ASSUME RunStep
  PROVE  /\ UNCHANGED <<started, workerVars, socketVars, readyCount, probe>>
         /\ ctxDone => ctxDone'
         /\ UNCHANGED cfg \/ main = "load"
         /\ draining => draining'
  BY DEF RunStep, Load, MetricsFail, StartServices, EgressFails, ReturnError, Notify,
         SignalKills, Signal, ShutDown, DrainOver, Cancel, CloseDone, Wait, Finish,
         mainVars, signalVars, readyVars

(* What the other goroutines leave alone.                                  *)
LEMMA AsideStepKeeps ==
  ASSUME AsideStep
  PROVE  /\ UNCHANGED <<runVars, workerVars, socketVars, readyCount, draining>>
         /\ wg' \subseteq wg
         /\ \A i \in Worker : Run(i) \in wg => Run(i) \in wg'
         /\ UNCHANGED probe \/ ProbeCounts \/ ProbeAnswers
  BY DEF AsideStep, TickerReturns, AnnounceReturns, BeaconReturns, ListenerReturns,
         ServeReturns, ProbeCounts, ProbeAnswers, readyVars, Run, Ticker, Serve, Announce, Beacon

-----------------------------------------------------------------------------
(* Types and the count of the workers that are in their loops.             *)

\* The workers that are in their loops, for a value of the variable worker.
Looping(w) == {i \in Worker : w[i] \in InLoop}

(* An interval from 1 has as many elements as its upper bound says.        *)
LEMMA CountTo ==
  ASSUME NEW n \in Nat
  PROVE  IsFiniteSet(1..n) /\ Cardinality(1..n) = n
  BY FS_Interval

(* There are at most MaxWorkers of them.                                   *)
LEMMA LoopingFinite ==
  ASSUME NEW w
  PROVE  IsFiniteSet(Looping(w)) /\ Cardinality(Looping(w)) \in 0..MaxWorkers
<1>1. IsFiniteSet(Worker) /\ Cardinality(Worker) = MaxWorkers
  BY LifecycleAssumption, CountTo DEF Worker
<1>2. Looping(w) \subseteq Worker
  BY DEF Looping
<1>3. IsFiniteSet(Looping(w)) /\ Cardinality(Looping(w)) <= Cardinality(Worker)
  BY <1>1, <1>2, FS_Subset
<1> QED
  BY <1>1, <1>3, FS_CardinalityType, LifecycleAssumption

(* A worker that leaves or enters its loop changes the count by one.       *)
LEMMA LoopingChanges ==
  ASSUME NEW w, NEW v, NEW i \in Worker,
         \A j \in Worker : j # i => v[j] = w[j]
  PROVE  /\ (w[i] \in InLoop <=> v[i] \in InLoop) => Looping(v) = Looping(w)
         /\ w[i] \notin InLoop /\ v[i] \in InLoop =>
              Cardinality(Looping(v)) = Cardinality(Looping(w)) + 1
         /\ w[i] \in InLoop /\ v[i] \notin InLoop =>
              Cardinality(Looping(v)) = Cardinality(Looping(w)) - 1
<1>1. (w[i] \in InLoop <=> v[i] \in InLoop) => Looping(v) = Looping(w)
  BY DEF Looping
<1>2. ASSUME w[i] \notin InLoop, v[i] \in InLoop
      PROVE  Cardinality(Looping(v)) = Cardinality(Looping(w)) + 1
  <2>1. Looping(v) = Looping(w) \cup {i} /\ i \notin Looping(w)
    BY <1>2 DEF Looping
  <2> QED
    BY <2>1, LoopingFinite, FS_AddElement
<1>3. ASSUME w[i] \in InLoop, v[i] \notin InLoop
      PROVE  Cardinality(Looping(v)) = Cardinality(Looping(w)) - 1
  <2>1. Looping(v) = Looping(w) \ {i} /\ i \in Looping(w)
    BY <1>3 DEF Looping
  <2> QED
    BY <2>1, LoopingFinite, FS_RemoveElement
<1> QED
  BY <1>1, <1>2, <1>3

(* Every step preserves TypeInv.                                           *)
LEMMA TypeStep ==
  ASSUME TypeInv, SocketInv, RunInv, [Next]_vars
  PROVE  TypeInv'
<1> USE DEF TypeInv
<1>0. /\ readyCount = Cardinality(Looping(worker))
      /\ readyCount' = Cardinality(Looping(worker')) => CountExact' /\ readyCount' \in 0..MaxWorkers
      /\ cfg.numWorkers \in 0..MaxWorkers
  BY LoopingFinite, NumWorkersType DEF CountExact, Looping
<1> USE LifecycleAssumption
<1>1. CASE RunStep
  <2>1. UNCHANGED <<started, workerVars, socketVars, readyCount, probe>>
    BY <1>1, RunStepKeeps
  <2>2. CountExact'
    BY <1>0, <2>1 DEF workerVars
  <2>3. /\ flags' \in Flags /\ cfg' \in {NoConfig, Loaded(flags')} /\ started' \in 0..MaxWorkers
        /\ egress' \subseteq Worker
    BY <1>1 DEF RunStep, Load, MetricsFail, StartServices, EgressFails, ReturnError, Notify,
                SignalKills, Signal, ShutDown, DrainOver, Cancel, CloseDone, Wait, Finish,
                mainVars, TypeOK
  <2>6. ctxDone' \in BOOLEAN /\ done' \in BOOLEAN /\ draining' \in BOOLEAN
    BY <1>1 DEF RunStep, Load, MetricsFail, StartServices, EgressFails, ReturnError, Notify,
                SignalKills, Signal, ShutDown, DrainOver, Cancel, CloseDone, Wait, Finish,
                signalVars, readyVars, TypeOK
  <2>4. main' \in {"load", "services", "workers", "returning", "await", "drain",
                   "cancel", "close", "wait", "flush"} \cup Ended
    BY <1>1 DEF RunStep, Load, MetricsFail, StartServices, EgressFails, ReturnError, Notify,
                SignalKills, Signal, ShutDown, DrainOver, Cancel, CloseDone, Wait, Finish, Ended
  <2>5. wg' \subseteq {Serve, Announce, Beacon} \cup {Run(i) : i \in Worker}
                      \cup {Ticker(i) : i \in Worker}
    BY <1>1 DEF RunStep, Load, MetricsFail, StartServices, EgressFails, ReturnError, Notify,
                SignalKills, Signal, ShutDown, DrainOver, Cancel, CloseDone, Wait, Finish, TypeOK
  <2> QED
    BY <2>1, <2>2, <2>3, <2>4, <2>5, <2>6 DEF TypeOK, workerVars, socketVars
<1>2. CASE AsideStep
  <2>1. UNCHANGED <<runVars, workerVars, socketVars, readyCount, draining>> /\ wg' \subseteq wg
    BY <1>2, AsideStepKeeps
  <2>2. CountExact'
    BY <1>0, <2>1 DEF workerVars
  <2>4. probe' \in [at : {"none", "counted"}, count : 0..MaxWorkers, allUp : BOOLEAN,
                    late : BOOLEAN, answer : {"none", "ready", "draining", "starting"}]
    <3>1. CASE ProbeCounts
      BY <3>1 DEF ProbeCounts, AllUp, TypeOK
    <3>2. CASE ProbeAnswers
      <4>1. Readyz(probe.count) \in {"none", "ready", "draining", "starting"}
        BY DEF Readyz
      <4>2. probe' = [at |-> "none", count |-> 0, allUp |-> FALSE, late |-> FALSE,
                      answer |-> Readyz(probe.count)]
        BY <3>2 DEF ProbeAnswers, NoProbe
      <4> QED
        BY <4>1, <4>2
    <3>3. CASE UNCHANGED probe
      BY <3>3 DEF TypeOK
    <3> QED
      BY <1>2, <3>1, <3>2, <3>3, AsideStepKeeps
  <2> QED
    BY <2>1, <2>2, <2>4 DEF TypeOK, runVars, mainVars, signalVars, workerVars, socketVars
<1>3. CASE StartWorker
  <2>1. started + 1 \in Worker /\ worker[started + 1] = "none"
    BY <1>0, <1>3 DEF StartWorker, RunInv, TypeOK, Worker
  <2>2. Looping(worker') = Looping(worker)
    BY <1>3, <2>1 DEF StartWorker, Looping, InLoop, TypeOK
  <2>3. worker' \in [Worker -> {"none", "open", "join", "returned", "failed"} \cup InLoop]
    BY <1>3 DEF StartWorker, TypeOK
  <2>4. started' \in 0..MaxWorkers /\ egress' \subseteq Worker
    BY <1>0, <1>3, <2>1 DEF StartWorker, TypeOK
  <2>5. wg' \subseteq {Serve, Announce, Beacon} \cup {Run(i) : i \in Worker}
                      \cup {Ticker(i) : i \in Worker}
    BY <1>3, <2>1 DEF StartWorker, TypeOK
  <2>6. CountExact' /\ readyCount' \in 0..MaxWorkers
    BY <1>0, <1>3, <2>2 DEF StartWorker, readyVars
  <2> QED
    BY <1>3, <2>3, <2>4, <2>5, <2>6 DEF StartWorker, TypeOK, signalVars, socketVars, readyVars
<1>4. CASE OtherOpens \/ OtherCloses
  <2>1. table' \in [FD -> {Free, Other} \cup Worker] /\ others' \in 0..MaxOther
    BY <1>4 DEF OtherOpens, OtherCloses, TypeOK
  <2>2. UNCHANGED <<runVars, wg, workerVars, readyVars>>
    BY <1>4 DEF OtherOpens, OtherCloses
  <2>3. CountExact'
    BY <1>0, <2>2 DEF workerVars, readyVars
  <2> QED
    BY <2>1, <2>2, <2>3 DEF TypeOK, runVars, mainVars, signalVars, workerVars, readyVars
<1>5. ASSUME NEW i \in Worker,
             \/ OpenSocket(i) \/ OpenFails(i) \/ JoinGroups(i) \/ JoinFails(i)
             \/ GoesOn(i) \/ Returns(i) \/ CloseSocket(i)
      PROVE  TypeInv'
  <2> USE DEF Leave, Continue, Return
  <2>1. UNCHANGED <<runVars, others, draining, probe>> /\ wg' \subseteq wg
    BY <1>5 DEF OpenSocket, OpenFails, JoinGroups, JoinFails, GoesOn, Returns, CloseSocket,
                socketVars, readyVars
  <2>2. /\ worker' \in [Worker -> {"none", "open", "join", "returned", "failed"} \cup InLoop]
        /\ \A j \in Worker : j # i => worker'[j] = worker[j]
    BY <1>5 DEF OpenSocket, OpenFails, JoinGroups, JoinFails, GoesOn, Returns, CloseSocket,
                TypeOK, InLoop
  <2>3. fd' \in [Worker -> FD \cup {0}] /\ closer' \in [Worker -> {"none", "waiting", "ended"}]
    BY <1>5 DEF OpenSocket, OpenFails, JoinGroups, JoinFails, GoesOn, Returns, CloseSocket, TypeOK
  <2>4. table' \in [FD -> {Free, Other} \cup Worker]
    BY <1>5 DEF OpenSocket, OpenFails, JoinGroups, JoinFails, GoesOn, Returns, CloseSocket,
                socketVars, TypeOK
  <2>5. readyCount' = Cardinality(Looping(worker'))
    <3>1. CASE JoinGroups(i)
      BY <1>0, <2>2, <3>1, LoopingChanges DEF JoinGroups, TypeOK, InLoop
    <3>2. CASE Returns(i)
      BY <1>0, <2>2, <3>2, LoopingChanges DEF Returns, TypeOK, InLoop
    <3>3. CASE OpenSocket(i) \/ OpenFails(i) \/ JoinFails(i) \/ GoesOn(i) \/ CloseSocket(i)
      BY <1>0, <2>2, <3>3, LoopingChanges
      DEF OpenSocket, OpenFails, JoinFails, GoesOn, CloseSocket, TypeOK, InLoop, readyVars
    <3> QED
      BY <1>5, <3>1, <3>2, <3>3
  <2> QED
    BY <1>0, <2>1, <2>2, <2>3, <2>4, <2>5 DEF TypeOK, runVars, mainVars, signalVars
<1>6. CASE UNCHANGED vars
  BY <1>0, <1>6 DEF vars, TypeOK
<1> QED
  BY <1>1, <1>2, <1>3, <1>4, <1>5, <1>6, Cases

-----------------------------------------------------------------------------
(* The sockets.                                                            *)
LEMMA SocketStep ==
  ASSUME TypeInv, SocketInv, RunInv, [Next]_vars
  PROVE  SocketInv'
<1> USE LifecycleAssumption DEF TypeInv
<1>0. cfg.numWorkers \in 0..MaxWorkers
  BY NumWorkersType
<1>1. CASE RunStep \/ AsideStep \/ UNCHANGED vars
  <2>1. UNCHANGED <<workerVars, table>> /\ (ctxDone => ctxDone')
    BY <1>1, RunStepKeeps, AsideStepKeeps DEF vars, runVars, signalVars, workerVars, socketVars
  <2> QED
    BY <2>1 DEF SocketInv, DescriptorsOwned, workerVars
<1>2. CASE StartWorker
  <2>1. started + 1 \in Worker /\ worker[started + 1] = "none"
    BY <1>0, <1>2 DEF StartWorker, RunInv, TypeOK, Worker
  <2>2. worker' = [worker EXCEPT ![started + 1] = "open"] /\ UNCHANGED <<fd, closer, table, ctxDone>>
    BY <1>2 DEF StartWorker, signalVars, socketVars
  <2> QED
    BY <2>1, <2>2 DEF SocketInv, DescriptorsOwned, Starting, InLoop, TypeOK
<1>3. CASE OtherOpens \/ OtherCloses
  <2>1. PICK d \in FD : \/ table[d] = Free /\ table' = [table EXCEPT ![d] = Other]
                        \/ table[d] = Other /\ table' = [table EXCEPT ![d] = Free]
    BY <1>3 DEF OtherOpens, OtherCloses, LowestFree
  <2>2. \A i \in Worker, e \in FD : table'[e] = i <=> table[e] = i
    BY <2>1 DEF TypeOK, Free, Other, Worker
  <2>3. UNCHANGED <<worker, fd, closer, ctxDone>>
    BY <1>3 DEF OtherOpens, OtherCloses, runVars, signalVars, workerVars
  <2> QED
    BY <2>2, <2>3 DEF SocketInv, DescriptorsOwned
<1>4. ASSUME NEW i \in Worker, OpenSocket(i)
      PROVE  SocketInv'
  <2>1. PICK d \in FD : /\ table[d] = Free
                        /\ table' = [table EXCEPT ![d] = i] /\ fd' = [fd EXCEPT ![i] = d]
    BY <1>4 DEF OpenSocket, LowestFree
  <2>2. /\ worker[i] = "open" /\ worker' = [worker EXCEPT ![i] = "join"]
        /\ UNCHANGED <<closer, ctxDone>>
    BY <1>4 DEF OpenSocket, runVars, signalVars
  <2>3. DescriptorsOwned'
    <3> SUFFICES ASSUME NEW j \in Worker, NEW e \in FD
                 PROVE  table'[e] = j <=> fd'[j] = e /\ (worker'[j] = "join" \/ closer'[j] = "waiting")
      BY DEF DescriptorsOwned
    <3>1. CASE j = i
      BY <2>1, <2>2, <3>1 DEF SocketInv, DescriptorsOwned, TypeOK, Starting
    <3>2. CASE j # i
      <4>1. table[d] # j
        BY <2>1 DEF Free, Worker
      <4> QED
        BY <2>1, <2>2, <3>2, <4>1 DEF SocketInv, DescriptorsOwned, TypeOK
    <3> QED
      BY <3>1, <3>2
  <2> QED
    BY <2>1, <2>2, <2>3 DEF SocketInv, Starting, InLoop, TypeOK
<1>5. ASSUME NEW i \in Worker, OpenFails(i) \/ JoinGroups(i) \/ GoesOn(i) \/ Returns(i)
      PROVE  SocketInv'
  <2>1. UNCHANGED <<table, fd, ctxDone>>
    BY <1>5 DEF OpenFails, JoinGroups, GoesOn, Returns, Continue, Return, runVars, signalVars, socketVars
  <2> QED
    BY <1>5, <2>1 DEF OpenFails, JoinGroups, GoesOn, Returns, Continue, Return, Leave,
                      SocketInv, DescriptorsOwned, Starting, InLoop, TypeOK
<1>6. ASSUME NEW i \in Worker, JoinFails(i) \/ CloseSocket(i)
      PROVE  SocketInv'
  <2>1. fd[i] \in FD /\ table[fd[i]] = i /\ table' = [table EXCEPT ![fd[i]] = Free]
    BY <1>6 DEF JoinFails, CloseSocket, SocketInv, DescriptorsOwned
  <2>2. UNCHANGED <<fd, ctxDone>>
    BY <1>6 DEF JoinFails, CloseSocket, runVars, signalVars
  <2>3. /\ \A j \in Worker : j # i => worker'[j] = worker[j] /\ closer'[j] = closer[j]
        /\ worker'[i] # "join" /\ closer'[i] # "waiting"
    BY <1>6 DEF JoinFails, CloseSocket, Leave, SocketInv, Starting, TypeOK
  <2>4. DescriptorsOwned'
    <3> SUFFICES ASSUME NEW j \in Worker, NEW e \in FD
                 PROVE  table'[e] = j <=> fd'[j] = e /\ (worker'[j] = "join" \/ closer'[j] = "waiting")
      BY DEF DescriptorsOwned
    <3>1. Free # j
      BY DEF Free, Worker
    <3> QED
      BY <2>1, <2>2, <2>3, <3>1 DEF SocketInv, DescriptorsOwned, TypeOK
  <2> QED
    BY <1>6, <2>2, <2>4 DEF JoinFails, CloseSocket, Leave, SocketInv, Starting, InLoop, TypeOK
<1> QED
  BY <1>1, <1>2, <1>3, <1>4, <1>5, <1>6, Cases

-----------------------------------------------------------------------------
(* The progress of run.                                                    *)
LEMMA RunPreserved ==
  ASSUME TypeInv, SocketInv, RunInv, [Next]_vars
  PROVE  RunInv'
<1> USE LifecycleAssumption DEF TypeInv
<1>0. cfg.numWorkers \in 0..MaxWorkers
  BY NumWorkersType
<1>1. CASE RunStep
  <2>1. UNCHANGED <<worker, probe, started>>
    BY <1>1, RunStepKeeps DEF workerVars
  <2>2. started <= cfg'.numWorkers
    <3>1. CASE Load
      <4>1. started = 0 /\ (cfg' = cfg \/ cfg' = Loaded(flags))
        BY <3>1 DEF Load, RunInv
      <4>2. Loaded(flags).numWorkers \in 1..MaxWorkers
        BY DEF Loaded, TypeOK
      <4> QED
        BY <1>0, <4>1, <4>2
    <3>2. CASE UNCHANGED cfg
      BY <3>2 DEF RunInv
    <3> QED
      BY <1>1, <3>1, <3>2 DEF RunStep, MetricsFail, StartServices, EgressFails, ReturnError, Notify,
                SignalKills, Signal, ShutDown, DrainOver, Cancel, CloseDone, Wait, Finish, mainVars
  <2>3. /\ main' \in {"load", "services"} => started = 0 /\ wg' = {} /\ probe.at = "none"
        /\ main' \in {"flush", "exited"} => wg' = {}
        /\ wg \subseteq wg'
    BY <1>1 DEF RunStep, Load, MetricsFail, StartServices, EgressFails, ReturnError, Notify,
                SignalKills, Signal, ShutDown, DrainOver, Cancel, CloseDone, Wait, Finish, RunInv
  <2>4. main' \notin {"returning", "failed", "killed", "exited"} =>
          main \notin {"returning", "failed", "killed", "exited"} /\ UNCHANGED egress
    BY <1>1 DEF RunStep, Load, MetricsFail, StartServices, EgressFails, ReturnError, Notify,
                SignalKills, Signal, ShutDown, DrainOver, Cancel, CloseDone, Wait, Finish
  <2>5. draining' => main' \notin {"load", "services", "workers", "returning", "await"}
    BY <1>1 DEF RunStep, Load, MetricsFail, StartServices, EgressFails, ReturnError, Notify,
                SignalKills, Signal, ShutDown, DrainOver, Cancel, CloseDone, Wait, Finish,
                readyVars, RunInv
  <2> QED
    BY <2>1, <2>2, <2>3, <2>4, <2>5 DEF RunInv
<1>2. CASE AsideStep \/ OtherOpens \/ OtherCloses \/ UNCHANGED vars
  <2>1. /\ UNCHANGED <<main, started, cfg, egress, worker, draining>> /\ wg' \subseteq wg
        /\ \A i \in Worker : Run(i) \in wg => Run(i) \in wg'
    BY <1>2, AsideStepKeeps DEF OtherOpens, OtherCloses, vars, runVars, mainVars, workerVars, readyVars
  <2>2. probe'.at # "none" /\ probe.at = "none" => wg # {}
    BY <1>2, AsideStepKeeps DEF OtherOpens, OtherCloses, vars, readyVars, ProbeCounts, ProbeAnswers, NoProbe
  <2> QED
    BY <2>1, <2>2 DEF RunInv
<1>3. CASE StartWorker
  <2>1. started + 1 \in Worker
    BY <1>0, <1>3 DEF StartWorker, TypeOK, Worker
  <2> QED
    BY <1>0, <1>3, <2>1 DEF StartWorker, RunInv, TypeOK, readyVars, Worker
<1>4. ASSUME NEW i \in Worker,
             \/ OpenSocket(i) \/ OpenFails(i) \/ JoinGroups(i) \/ JoinFails(i)
             \/ GoesOn(i) \/ Returns(i) \/ CloseSocket(i)
      PROVE  RunInv'
  <2>1. UNCHANGED <<main, started, cfg, egress, draining, probe>> /\ wg' \subseteq wg
    BY <1>4 DEF OpenSocket, OpenFails, JoinGroups, JoinFails, GoesOn, Returns, CloseSocket,
                Leave, Continue, Return, runVars, mainVars, readyVars
  <2>2. \A j \in Worker : /\ worker'[j] # "none" => worker[j] # "none"
                          /\ worker'[j] \in {"open", "join"} \cup InLoop =>
                               /\ worker[j] \in {"open", "join"} \cup InLoop
                               /\ Run(j) \in wg => Run(j) \in wg'
    BY <1>4 DEF OpenSocket, OpenFails, JoinGroups, JoinFails, GoesOn, Returns, CloseSocket,
                Leave, Continue, Return, TypeOK, InLoop, Run
  <2> QED
    BY <2>1, <2>2 DEF RunInv
<1> QED
  BY <1>1, <1>2, <1>3, <1>4, Cases

(* What a request has counted stays true while it is on its way: the       *)
(* configuration no longer changes and draining is never taken back.       *)
LEMMA ProbePreserved ==
  ASSUME TypeInv, SocketInv, RunInv, ProbeInv, [Next]_vars
  PROVE  ProbeInv'
<1>1. CASE ProbeCounts
  <2>1. readyCount >= cfg.numWorkers /\ cfg.numWorkers > 0 => AllUp
    <3> SUFFICES ASSUME readyCount >= cfg.numWorkers PROVE AllUp
      OBVIOUS
    <3> DEFINE n == cfg.numWorkers
    <3>1. n \in 0..MaxWorkers /\ MaxWorkers \in Nat
      BY NumWorkersType, LifecycleAssumption DEF TypeInv
    <3>2. IsFiniteSet(1..n) /\ Cardinality(1..n) = n
      BY <3>1, CountTo
    <3>3. Looping(worker) \subseteq 1..n
      BY <3>1 DEF Looping, RunInv, InLoop, TypeInv, TypeOK, Worker
    <3>4. readyCount = Cardinality(Looping(worker))
      BY DEF TypeInv, CountExact, Looping
    <3>5. Looping(worker) = 1..n
      BY <3>1, <3>2, <3>3, <3>4, LoopingFinite, FS_Subset
    <3> QED
      BY <3>5 DEF AllUp, Looping
  <2> QED
    BY <1>1, <2>1 DEF ProbeCounts, ProbeInv, runVars, mainVars
<1>2. CASE ProbeAnswers
  BY <1>2 DEF ProbeAnswers, NoProbe, ProbeInv
<1>3. CASE ~ProbeCounts /\ ~ProbeAnswers
  <2>1. /\ UNCHANGED probe
        /\ UNCHANGED cfg \/ main = "load"
        /\ draining => draining'
    <3>1. CASE RunStep \/ AsideStep
      BY <1>3, <3>1, RunStepKeeps, AsideStepKeeps DEF runVars, mainVars
    <3>2. CASE StartWorker \/ OtherOpens \/ OtherCloses \/ UNCHANGED vars
      BY <3>2 DEF StartWorker, OtherOpens, OtherCloses, runVars, mainVars, readyVars, vars
    <3>3. ASSUME NEW i \in Worker,
                 \/ OpenSocket(i) \/ OpenFails(i) \/ JoinGroups(i) \/ JoinFails(i)
                 \/ GoesOn(i) \/ Returns(i) \/ CloseSocket(i)
          PROVE  UNCHANGED <<probe, cfg, draining>>
      BY <3>3 DEF OpenSocket, OpenFails, JoinGroups, JoinFails, GoesOn, Returns, CloseSocket,
                  Continue, Return, runVars, mainVars, readyVars
    <3> QED
      BY <3>1, <3>2, <3>3, Cases
  <2>2. main = "load" => probe.at = "none"
    BY DEF RunInv
  <2> QED
    BY <2>1, <2>2 DEF ProbeInv
<1> QED
  BY <1>1, <1>2, <1>3

-----------------------------------------------------------------------------
Inv == TypeInv /\ SocketInv /\ RunInv /\ ProbeInv

(* The invariants hold throughout.                                         *)
LEMMA Invariance == Spec => []Inv
<1>1. Init => Inv
  BY InitInv DEF Inv
<1>2. Inv /\ [Next]_vars => Inv'
  BY TypeStep, SocketStep, RunPreserved, ProbePreserved DEF Inv
<1> QED
  BY <1>1, <1>2, PTL DEF Spec

(* The state of run, the workers and the readiness handler keeps its       *)
(* shape; readyCount never leaves 0..MaxWorkers.                           *)
THEOREM TypeCorrect == Spec => []TypeOK
<1>1. Inv => TypeOK
  BY DEF Inv, TypeInv
<1> QED
  BY <1>1, Invariance, PTL

(* A worker's socket is open exactly while somebody will still close it,   *)
(* and nobody closes a number that now belongs to someone else.            *)
THEOREM SocketsOwned == Spec => []DescriptorsOwned
<1>1. Inv => DescriptorsOwned
  BY DEF Inv, SocketInv
<1> QED
  BY <1>1, Invariance, PTL

(* No worker leaves its loop, or loses its socket, before cancel().        *)
THEOREM Serves == Spec => []ServesUntilCancelled
<1>1. Inv => ServesUntilCancelled
  <2> SUFFICES ASSUME Inv, ~ctxDone, NEW i \in Worker
               PROVE  worker[i] # "returned" /\ (worker[i] \in InLoop => table[fd[i]] = i)
    BY DEF ServesUntilCancelled
  <2>1. worker[i] # "returned"
    BY DEF Inv, SocketInv
  <2>2. worker[i] \in InLoop => closer[i] = "waiting" /\ fd[i] \in FD
    BY DEF Inv, SocketInv, TypeInv, TypeOK
  <2> QED
    BY <2>1, <2>2 DEF Inv, SocketInv, DescriptorsOwned
<1> QED
  BY <1>1, Invariance, PTL

(* WorkerReady and WorkerDone keep readyCount the number of workers in     *)
(* their receive loops.                                                    *)
THEOREM CountCorrect == Spec => []CountExact
<1>1. Inv => CountExact
  BY DEF Inv, TypeInv
<1> QED
  BY <1>1, Invariance, PTL

(* The deferred Close of the senders comes after wg.Wait, which waits for  *)
(* every worker.                                                           *)
THEOREM EgressCorrect == Spec => []EgressOutlivesWorker
<1>1. Inv => EgressOutlivesWorker
  BY DEF Inv, RunInv, EgressOutlivesWorker, InLoop
<1> QED
  BY <1>1, Invariance, PTL

(* handleReadyz answers 200 only if every configured worker was in its     *)
(* loop when it loaded the count, and not to a request that began while    *)
(* run drains, because it loads draining after the count.                  *)
THEOREM ReadinessTrue == Spec => ReadyIsTrue
<1>1. Inv /\ [Next]_vars =>
        [ProbeAnswers /\ probe'.answer = "ready" => probe.allUp /\ ~probe.late]_vars
  <2> SUFFICES ASSUME Inv, ProbeAnswers, probe'.answer = "ready"
               PROVE  probe.allUp /\ ~probe.late
    OBVIOUS
  <2>1. probe'.answer = Readyz(probe.count)
    BY DEF ProbeAnswers, NoProbe
  <2>2. probe.allUp
    BY <2>1 DEF ProbeAnswers, Readyz, Inv, ProbeInv
  <2>3. ~probe.late
    BY <2>1 DEF ProbeAnswers, Readyz, Inv, ProbeInv
  <2> QED
    BY <2>2, <2>3
<1> QED
  BY <1>1, Invariance, PTL DEF Spec, ReadyIsTrue
-----------------------------------------------------------------------------
(* The groups that the workers join.  The powers of two in it are counted  *)
(* as the subsets of 1..b.                                                 *)

(* Two to the b counts the subsets of a set of b elements.                  *)
LEMMA PowerOfTwo ==
  ASSUME NEW b \in Nat
  PROVE  /\ IsFiniteSet(SUBSET (1..b)) /\ Cardinality(SUBSET (1..b)) = 2^b
         /\ 2^b \in Nat
<1>1. IsFiniteSet(1..b) /\ Cardinality(1..b) = b
  BY FS_Interval
<1>2. IsFiniteSet(SUBSET (1..b)) /\ Cardinality(SUBSET (1..b)) = 2^Cardinality(1..b)
  BY <1>1, FS_SUBSET, Zenon
<1>3. Cardinality(SUBSET (1..b)) \in Nat
  BY <1>2, FS_CardinalityType
<1>4. Cardinality(SUBSET (1..b)) = 2^b
  BY <1>1, <1>2, Zenon
<1>5. 2^b \in Nat
  BY <1>3, <1>4, Zenon
<1> QED  BY <1>2, <1>4, <1>5, Zenon

(* A wider shard key has no fewer groups.                                  *)
LEMMA PowersGrow ==
  ASSUME NEW a \in Nat, NEW b \in Nat, a <= b
  PROVE  2^a <= 2^b
<1>1. 1..a \subseteq 1..b
  OBVIOUS
<1>2. SUBSET (1..a) \in SUBSET (SUBSET (1..b))
  BY <1>1, Zenon
<1>3. Cardinality(SUBSET (1..a)) <= Cardinality(SUBSET (1..b))
  BY <1>2, PowerOfTwo, FS_Subset, Zenon
<1> QED  BY <1>3, PowerOfTwo, Zenon

(* One bit more doubles them: a subset of 1..(b + 1) is one of 1..b, with  *)
(* or without b + 1.                                                       *)
LEMMA PowersDouble ==
  ASSUME NEW b \in Nat
  PROVE  2^(b + 1) = 2 * 2^b
<1> DEFINE n == b + 1
           A == SUBSET (1..b)
           f == [X \in A |-> X \cup {n}]
           B == {X \cup {n} : X \in A}
<1>1. n \in Nat /\ n \notin 1..b /\ 1..n = 1..b \cup {n}
  OBVIOUS
<1> HIDE DEF n
<1>2. SUBSET (1..n) = A \cup B
  <2>0. \A X \in A : X \cup {n} \in B
    BY Zenon
  <2>1. ASSUME NEW X \in SUBSET (1..n)
        PROVE  X \in A \cup B
    <3>1. CASE n \notin X
      BY <1>1, <3>1
    <3>2. CASE n \in X
      <4>1. X \ {n} \in A /\ X = (X \ {n}) \cup {n}
        BY <1>1, <3>2
      <4> HIDE DEF A, B
      <4> QED  BY <2>0, <4>1, Zenon
    <3> QED  BY <3>1, <3>2
  <2>2. ASSUME NEW X \in A \cup B
        PROVE  X \in SUBSET (1..n)
    BY <1>1
  <2> HIDE DEF A, B
  <2> QED  BY <2>1, <2>2, Zenon
<1>3. A \cap B = {}
  BY <1>1
<1>4. ExistsBijection(A, B)
  <2>1. f \in [A -> B]
    OBVIOUS
  <2>2. ASSUME NEW X \in A, NEW Y \in A, f[X] = f[Y]
        PROVE  X = Y
    <3>1. X \cup {n} = Y \cup {n} /\ n \notin X /\ n \notin Y
      BY <1>1, <2>2
    <3>2. \A z : z \in X <=> z \in Y
      BY <3>1
    <3> QED  BY <3>2
  <2>3. \A Z \in B : \E X \in A : f[X] = Z
    OBVIOUS
  <2>4. f \in Bijection(A, B)
    BY <2>1, <2>2, <2>3, Zenon DEF Bijection, Injection, Surjection, IsInjective
  <2> QED  BY <2>4, Zenon DEF ExistsBijection
<1>5. IsFiniteSet(A) /\ Cardinality(A) = 2^b /\ 2^b \in Nat
  BY PowerOfTwo
<1> HIDE DEF A, B
<1>6. IsFiniteSet(B) /\ Cardinality(B) = Cardinality(A)
  BY <1>4, <1>5, FS_Bijection
<1>7. Cardinality(A \cup B) = Cardinality(A) + Cardinality(B) - Cardinality(A \cap B)
  BY <1>5, <1>6, FS_Union
<1>8. Cardinality(A \cap B) = 0
  BY <1>3, FS_EmptySet
<1>9. Cardinality(SUBSET (1..n)) = 2^n
  BY <1>1, PowerOfTwo, Zenon
<1>10. 2^n = 2^b + 2^b
  <2> DEFINE p == 2^b
             q == 2^n
             c == Cardinality(A)
  <2>1. p \in Nat /\ c = p /\ Cardinality(B) = c
    BY <1>5, <1>6
  <2>2. q = Cardinality(A \cup B)
    BY <1>2, <1>9, Zenon
  <2> HIDE DEF p, q, c
  <2>3. q = p + p
    BY <1>7, <1>8, <2>1, <2>2 DEF c
  <2> QED  BY <2>3 DEF p, q
<1> QED  BY <1>5, <1>10 DEF n

(* Shard indices end below the control groups.                             *)
LEMMA ShardsBelowControl ==
  ASSUME NEW b \in 1..MaxShardBits
  PROVE  2^b \in Nat /\ IndexSpace \in Nat /\ 2^b <= IndexSpace - 6
<1> DEFINE p == 2^MaxShardBits
           q == 2^b
<1>1. MaxShardBits \in Nat /\ b \in Nat /\ b <= MaxShardBits /\ 3 <= MaxShardBits
  BY ConfigAssumption
<1>2. p \in Nat /\ q \in Nat
  BY <1>1, PowerOfTwo, Zenon
<1>3. q <= p
  BY <1>1, PowersGrow
<1>4. 2^3 <= p
  <2>1. 3 \in Nat
    OBVIOUS
  <2> QED  BY <1>1, <2>1, PowersGrow, Zenon
<1>5. IndexSpace = 2 * p
  BY <1>1, PowersDouble DEF IndexSpace
<1>6. 2^3 = 8
  OBVIOUS
<1> HIDE DEF p, q
<1>7. 8 <= p
  BY <1>4, <1>6
<1>8. IndexSpace \in Nat /\ q <= IndexSpace - 6
  BY <1>2, <1>3, <1>5, <1>7
<1> QED  BY <1>2, <1>8 DEF q

(* The elements of two sequences in a row.                                 *)
LEMMA RangeOfConcat ==
  ASSUME NEW S, NEW s \in Seq(S), NEW t \in Seq(S)
  PROVE  s \o t \in Seq(S) /\ Range(s \o t) = Range(s) \cup Range(t)
<1>1. /\ s \o t \in Seq(S) /\ Len(s) \in Nat /\ Len(t) \in Nat
      /\ DOMAIN s = 1..Len(s) /\ DOMAIN t = 1..Len(t)
      /\ DOMAIN (s \o t) = 1..(Len(s) + Len(t))
  OBVIOUS
<1>2. \A i \in DOMAIN s : i \in DOMAIN (s \o t) /\ (s \o t)[i] = s[i]
  OBVIOUS
<1>3. \A i \in DOMAIN t : /\ Len(s) + i \in DOMAIN (s \o t)
                          /\ (s \o t)[Len(s) + i] = t[i]
  OBVIOUS
<1>4. ASSUME NEW i \in DOMAIN (s \o t)
      PROVE  \/ i \in DOMAIN s
             \/ i - Len(s) \in DOMAIN t /\ i = Len(s) + (i - Len(s))
  BY <1>1
<1>5. ASSUME NEW x \in Range(s \o t)
      PROVE  x \in Range(s) \cup Range(t)
  <2>1. PICK i \in DOMAIN (s \o t) : x = (s \o t)[i]
    BY Zenon DEF Range
  <2>2. CASE i \in DOMAIN s
    BY <1>2, <2>1, <2>2, Zenon DEF Range
  <2>3. CASE i - Len(s) \in DOMAIN t /\ i = Len(s) + (i - Len(s))
    <3>1. (s \o t)[i] = t[i - Len(s)]
      BY <1>3, <2>3, Zenon
    <3> QED  BY <2>1, <2>3, <3>1, Zenon DEF Range
  <2> QED  BY <1>4, <2>2, <2>3, Zenon
<1>6. ASSUME NEW x \in Range(s) \cup Range(t)
      PROVE  x \in Range(s \o t)
  BY <1>2, <1>3, Zenon DEF Range
<1> QED  BY <1>1, <1>5, <1>6

(* The shard indices that are joined are those the filter accepts.         *)
LEMMA IndicesAccepted ==
  ASSUME NEW fl \in Flags, Valid(fl), NEW c, c = Loaded(fl)
  PROVE  /\ Indices(c) \in Seq(Nat)
         /\ Range(Indices(c)) = {x \in 0..(c.numGroups - 1) : ShardAccepted(c, x)}
<1> DEFINE n == 2^fl.shardBits
           list == fl.shardInclude
<1>1. n \in Nat /\ c.numGroups = n /\ c.shardInclude = list
  BY ShardsBelowControl DEF Valid, BitsValid, Loaded
<1>2. list \in Seq(Nat \cup {Garbled})
  BY IndexAssumption
<1>3. \A i \in DOMAIN list : list[i] # Garbled /\ list[i] < n
  BY DEF Valid, IncludeValid
<1> HIDE DEF n, list
<1>4. CASE list # <<>>
  <2>1. Indices(c) = list
    BY <1>1, <1>4 DEF Indices
  <2>2. \A x : ShardAccepted(c, x) <=> x \in Range(list)
    BY <1>1, <1>4 DEF ShardAccepted
  <2>3. \A i \in DOMAIN list : list[i] \in 0..(n - 1) /\ list[i] \in Nat
    BY <1>1, <1>2, <1>3
  <2>4. list \in Seq(Nat)
    BY <1>2, <2>3
  <2>5. Range(list) \subseteq 0..(n - 1)
    BY <2>3 DEF Range
  <2> QED  BY <1>1, <2>1, <2>2, <2>4, <2>5
<1>5. CASE list = <<>>
  <2>1. Indices(c) = [i \in 1..n |-> i - 1]
    BY <1>1, <1>5 DEF Indices
  <2>2. \A x : ShardAccepted(c, x)
    BY <1>1, <1>5 DEF ShardAccepted
  <2>3. Indices(c) \in Seq(Nat)
    BY <1>1, <2>1
  <2>4. \A i \in 1..n : i - 1 \in 0..(n - 1)
    BY <1>1
  <2>5. \A x \in 0..(n - 1) : x + 1 \in 1..n /\ (x + 1) - 1 = x
    BY <1>1
  <2>6. Range(Indices(c)) = {i - 1 : i \in 1..n}
    BY <2>1 DEF Range
  <2>7. Range(Indices(c)) = 0..(n - 1)
    BY <2>4, <2>5, <2>6
  <2> QED  BY <1>1, <2>2, <2>3, <2>7
<1> QED  BY <1>4, <1>5

(* The groups that are joined, as a set.                                   *)
LEMMA JoinedGroups ==
  ASSUME NEW c, Indices(c) \in Seq(Nat)
  PROVE  Range(BuildGroups(c)) =
           {Address(c.ingress, x) :
              x \in Range(Indices(c)) \cup {CtrlGroupControl}
                    \cup IF c.subtreeDataEnabled THEN {CtrlGroupSubtreeAnnounce} ELSE {}}
<1> DEFINE I == Indices(c)
           At(x) == Address(c.ingress, x)
           S == {At(x) : x \in Range(I) \cup {CtrlGroupControl, CtrlGroupSubtreeAnnounce}}
           s == [i \in 1..Len(I) |-> At(I[i])]
           t == <<At(CtrlGroupControl)>>
           u == IF c.subtreeDataEnabled THEN <<At(CtrlGroupSubtreeAnnounce)>> ELSE <<>>
<1>1. Len(I) \in Nat /\ DOMAIN I = 1..Len(I) /\ \A i \in DOMAIN I : I[i] \in Range(I)
  BY DEF Range
<1>2. Range(I) = {I[i] : i \in 1..Len(I)}
  BY <1>1, Zenon DEF Range
<1>3. BuildGroups(c) = s \o t \o u
  BY Zenon DEF BuildGroups
<1> HIDE DEF I, At
<1>4. s \in Seq(S) /\ t \in Seq(S) /\ u \in Seq(S)
  <2>1. s \in [1..Len(I) -> S]
    BY <1>1
  <2>2. At(CtrlGroupControl) \in S /\ At(CtrlGroupSubtreeAnnounce) \in S
    BY Zenon
  <2> HIDE DEF S
  <2> QED  BY <1>1, <2>1, <2>2
<1>5. Range(s) = {At(x) : x \in Range(I)}
  <2>1. Range(s) = {At(I[i]) : i \in 1..Len(I)}
    BY DEF Range
  <2> QED  BY <1>2, <2>1
<1>6. Range(t) = {At(CtrlGroupControl)}
  BY DEF Range
<1>7. Range(u) = IF c.subtreeDataEnabled THEN {At(CtrlGroupSubtreeAnnounce)} ELSE {}
  BY DEF Range
<1> HIDE DEF S, s, t, u
<1>8. Range(BuildGroups(c)) = Range(s) \cup Range(t) \cup Range(u)
  <2> DEFINE v == s \o t
  <2>1. v \in Seq(S) /\ Range(v) = Range(s) \cup Range(t)
    BY <1>4, RangeOfConcat
  <2>2. BuildGroups(c) = v \o u
    BY <1>3
  <2> HIDE DEF v
  <2>3. Range(v \o u) = Range(v) \cup Range(u)
    BY <1>4, <2>1, RangeOfConcat
  <2> QED  BY <2>1, <2>2, <2>3
<1>9. Range(BuildGroups(c)) =
        {At(x) : x \in Range(I) \cup {CtrlGroupControl}
                    \cup IF c.subtreeDataEnabled THEN {CtrlGroupSubtreeAnnounce} ELSE {}}
  BY <1>5, <1>6, <1>7, <1>8
<1> QED  BY <1>9 DEF I, At

(* What GroupsRight says of a configuration, for one that Load returns.    *)
LEMMA LoadedGroups ==
  ASSUME NEW fl \in Flags, Valid(fl), NEW c, c = Loaded(fl)
  PROVE  LET joined == Range(BuildGroups(c))
             shards == {a \in joined : a.index < c.numGroups}
         IN  /\ {a.index : a \in shards} =
                  {x \in 0..(c.numGroups - 1) : ShardAccepted(c, x)}
             /\ joined \ shards = {Address(c.ingress, x) :
                   x \in {CtrlGroupControl}
                         \cup IF c.subtreeDataEnabled THEN {CtrlGroupSubtreeAnnounce} ELSE {}}
             /\ Address(c.headerPlace, CtrlGroupBlockHeader) \notin joined
<1> DEFINE n == c.numGroups
           own == {x \in 0..(n - 1) : ShardAccepted(c, x)}
           ctrl == {CtrlGroupControl}
                   \cup IF c.subtreeDataEnabled THEN {CtrlGroupSubtreeAnnounce} ELSE {}
           At(x) == Address(c.ingress, x)
           joined == Range(BuildGroups(c))
           shards == {a \in joined : a.index < n}
<1>1. n \in Nat /\ IndexSpace \in Nat /\ n <= IndexSpace - 6
  BY ShardsBelowControl DEF Valid, BitsValid, Loaded
<1>2. joined = {At(x) : x \in own \cup ctrl}
  <2>1. Indices(c) \in Seq(Nat) /\ Range(Indices(c)) = own
    BY IndicesAccepted
  <2>2. joined = {At(x) : x \in Range(Indices(c)) \cup {CtrlGroupControl}
                    \cup IF c.subtreeDataEnabled THEN {CtrlGroupSubtreeAnnounce} ELSE {}}
    BY <2>1, JoinedGroups
  <2>3. Range(Indices(c)) \cup {CtrlGroupControl}
          \cup (IF c.subtreeDataEnabled THEN {CtrlGroupSubtreeAnnounce} ELSE {})
        = own \cup ctrl
    BY <2>1
  <2> HIDE DEF own, ctrl, At
  <2> QED  BY <2>2, <2>3, Zenon
<1>3. \A x \in own : x \in Int /\ x < n
  BY <1>1
<1>4. \A x \in ctrl : /\ x \in Int /\ ~(x < n) /\ x # CtrlGroupBlockHeader
  BY <1>1 DEF CtrlGroupControl, CtrlGroupSubtreeAnnounce, CtrlGroupBlockHeader
<1>5. ~(CtrlGroupBlockHeader < n)
  BY <1>1 DEF CtrlGroupBlockHeader
<1>6. \A place, x : Address(place, x).index = x
  BY DEF Address
<1> HIDE DEF n, own, ctrl, joined
<1>7. \A x : At(x).index = x
  BY <1>6
<1> HIDE DEF At
<1>8. shards = {At(x) : x \in own}
  BY <1>2, <1>3, <1>4, <1>7
<1>9. joined \ shards = {At(x) : x \in ctrl}
  BY <1>2, <1>3, <1>4, <1>7
<1>10. {a.index : a \in shards} = own
  BY <1>7, <1>8
<1>11. Address(c.headerPlace, CtrlGroupBlockHeader) \notin joined
  BY <1>2, <1>3, <1>4, <1>5, <1>6, <1>7
<1> QED  BY <1>9, <1>10, <1>11 DEF n, own, ctrl, joined, At

(* Once run is past Load its configuration is that of a valid command line. *)
LoadedInv ==
  main \notin {"load", "failed", "killed"} => Valid(flags) /\ cfg = Loaded(flags)

(* Every step keeps what run knows of its configuration.                    *)
LEMMA LoadedStep ==
  ASSUME Inv, LoadedInv, [Next]_vars
  PROVE  LoadedInv'
<1>1. CASE Load
  BY <1>1 DEF Load, LoadedInv
<1>2. CASE RunStep /\ ~Load
  <2>1. UNCHANGED <<flags, cfg>>
    BY <1>2 DEF RunStep, MetricsFail, StartServices, EgressFails, ReturnError, Notify,
            SignalKills, Signal, ShutDown, DrainOver, Cancel, CloseDone, Wait, Finish,
            mainVars
  <2>2. main = "load" => main' = "killed"
    BY <1>2 DEF RunStep, MetricsFail, StartServices, EgressFails, ReturnError, Notify,
            SignalKills, Signal, ShutDown, DrainOver, Cancel, CloseDone, Wait, Finish
  <2>3. main \in {"failed", "killed"} => FALSE
    BY <1>2 DEF RunStep, MetricsFail, StartServices, EgressFails, ReturnError, Notify,
            SignalKills, Signal, ShutDown, DrainOver, Cancel, CloseDone, Wait, Finish
  <2> QED  BY <2>1, <2>2, <2>3 DEF LoadedInv
<1>3. CASE ~RunStep
  <2>1. UNCHANGED <<flags, cfg, main>>
    BY <1>3, Cases, AsideStepKeeps
       DEF Inv, StartWorker, OtherOpens, OtherCloses, vars, OpenSocket, OpenFails,
           JoinGroups, JoinFails, GoesOn, Returns, CloseSocket, Continue, Return,
           runVars, mainVars
  <2> QED  BY <2>1 DEF LoadedInv
<1> QED  BY <1>1, <1>2, <1>3 DEF RunStep

(* For every accepted command line the workers join the shards that the    *)
(* filter accepts, the control groups they listen to, and not the group    *)
(* for stripped headers.                                                   *)
THEOREM GroupsCorrect == Spec => []GroupsRight
<1>1. Init => LoadedInv
  BY DEF Init, LoadedInv
<1>2. Inv /\ LoadedInv /\ [Next]_vars => LoadedInv'
  BY LoadedStep
<1>3. Inv /\ LoadedInv => GroupsRight
  <2> SUFFICES ASSUME Inv, LoadedInv, main \notin {"load", "failed", "killed"}
               PROVE  GroupsRight
    BY DEF GroupsRight
  <2>1. flags \in Flags /\ Valid(flags) /\ cfg = Loaded(flags)
    BY DEF Inv, TypeInv, TypeOK, LoadedInv
  <2> DEFINE joined == Range(BuildGroups(cfg))
             shards == {a \in joined : a.index < cfg.numGroups}
  <2>2. /\ {a.index : a \in shards} =
             {x \in 0..(cfg.numGroups - 1) : ShardAccepted(cfg, x)}
        /\ joined \ shards = {Address(cfg.ingress, x) :
              x \in {CtrlGroupControl}
                    \cup IF cfg.subtreeDataEnabled THEN {CtrlGroupSubtreeAnnounce} ELSE {}}
        /\ Address(cfg.headerPlace, CtrlGroupBlockHeader) \notin joined
    BY <2>1, LoadedGroups
  <2> QED  BY <2>2 DEF GroupsRight
<1> QED  BY <1>1, <1>2, <1>3, Invariance, PTL DEF Spec
==============================================================================
