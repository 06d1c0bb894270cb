------------------------------ MODULE Lifecycle ------------------------------
(***************************************************************************)
(* run in main.go with the goroutines it starts: the receive workers with  *)
(* their sockets, the reassembly tickers, the two discovery listeners, the *)
(* metrics server with /readyz, and the shutdown that waits for them.      *)
(*                                                                         *)
(* A worker's socket is known to the code by the number of its descriptor. *)
(* `table' says what a number refers to at the moment.  Other parts of the *)
(* process (a NACK's socket, an HTTP connection) open and close sockets as *)
(* well, and the kernel reuses a number.  Closing a descriptor does not    *)
(* wake a Recvfrom that is blocked on its socket: the comment in Run says  *)
(* that this differs between kernels, so the model allows both.            *)
(***************************************************************************)
EXTENDS Config, FiniteSets

CONSTANTS
  Flags,      \* the flags the program may be started with
  MaxWorkers, \* bound of the model: the largest number of workers
  FD,         \* descriptor numbers
  MaxOther    \* bound of the model: sockets that other parts open

ASSUME LifecycleAssumption ==
  /\ MaxWorkers \in Nat /\ MaxOther \in Nat
  /\ FD \subseteq Nat \ {0} /\ IsFiniteSet(FD)
  /\ \A flags \in Flags : NumWorkers(flags.workers) \in 1..MaxWorkers

\* What ParseUint accepts is not negative.
ASSUME IndexAssumption ==
  \A flags \in Flags : flags.shardInclude \in Seq(Nat \cup {Garbled})

VARIABLES
  flags,     \* the command line
  main,      \* where run is
  cfg,       \* what Load returned
  started,   \* workers started so far by the loop in run
  ctxDone,   \* the context is cancelled
  done,      \* the channel `done' is closed
  wg,        \* the goroutines that wg.Wait waits for
  egress,    \* the workers whose egress senders are open
  worker,    \* where each worker's goroutine is
  fd,        \* the variable fd of Run, per worker
  closer,    \* the goroutine that closes fd, per worker
  table,     \* what each descriptor number refers to
  others,    \* sockets other parts have opened so far
  readyCount, draining,   \* of the metrics.Recorder
  probe      \* a request to /readyz

mainVars   == <<flags, cfg, started>>
signalVars == <<ctxDone, done>>
workerVars == <<worker, fd, closer>>
socketVars == <<table, others>>
readyVars  == <<readyCount, draining, probe>>
vars == <<flags, main, cfg, started, ctxDone, done, wg, egress, worker, fd,
          closer, table, others, readyCount, draining, probe>>

Worker == 1..MaxWorkers
Free == 0           \* in table: the number is not in use
Other == -1         \* in table: a socket of another part of the process
Ended == {"exited", "failed", "killed"}
InLoop == {"call", "blocked", "process"}

Serve == <<"serve", 0>>
Announce == <<"announce", 0>>
Beacon == <<"beacon", 0>>
Run(i) == <<"run", i>>
Ticker(i) == <<"ticker", i>>

NoConfig == [numWorkers |-> 0]

NoProbe == [at |-> "none", count |-> 0, allUp |-> FALSE, late |-> FALSE, answer |-> "none"]

Init ==
  /\ flags \in Flags
  /\ main = "load" /\ cfg = NoConfig /\ started = 0
  /\ ctxDone = FALSE /\ done = FALSE
  /\ wg = {} /\ egress = {}
  /\ worker = [i \in Worker |-> "none"]
  /\ fd = [i \in Worker |-> 0]
  /\ closer = [i \in Worker |-> "none"]
  /\ table = [d \in FD |-> Free]
  /\ others = 0
  /\ readyCount = 0 /\ draining = FALSE
  /\ probe = NoProbe

-----------------------------------------------------------------------------
(* run: start-up.                                                          *)

Load ==
  /\ main = "load"
  /\ IF Valid(flags)
     THEN main' = "services" /\ cfg' = Loaded(flags)
     ELSE main' = "failed" /\ UNCHANGED cfg
  /\ UNCHANGED <<flags, started, signalVars, wg, egress, workerVars, socketVars, readyVars>>

\* metrics.New fails; nothing has been started.
MetricsFail ==
  /\ main = "services"
  /\ main' = "failed"
  /\ UNCHANGED <<mainVars, signalVars, wg, egress, workerVars, socketVars, readyVars>>

StartServices ==
  /\ main = "services"
  /\ wg' = {Serve} \cup (IF cfg.groupsSubscribed THEN {Announce} ELSE {})
                   \cup (IF cfg.beaconEnabled THEN {Beacon} ELSE {})
  /\ main' = "workers"
  /\ UNCHANGED <<mainVars, signalVars, egress, workerVars, socketVars, readyVars>>

\* Faulty variant: wg.Add is called for the ticker only.
StartWorkerUncounted ==
  /\ main = "workers" /\ started < cfg.numWorkers
  /\ started' = started + 1
  /\ egress' = egress \cup {started + 1}
  /\ worker' = [worker EXCEPT ![started + 1] = "open"]
  /\ wg' = wg \cup {Ticker(started + 1)}
  /\ UNCHANGED <<flags, main, cfg, signalVars, fd, closer, socketVars, readyVars>>

\* Faulty variant: the loop ends one worker early.
StartWorkerButLast ==
  /\ main = "workers" /\ started < cfg.numWorkers
  /\ started' = started + 1
  /\ egress' = egress \cup {started + 1}
  /\ worker' = [worker EXCEPT ![started + 1] =
                  IF started + 1 < cfg.numWorkers THEN "open" ELSE @]
  /\ wg' = IF started + 1 < cfg.numWorkers
           THEN wg \cup {Run(started + 1), Ticker(started + 1)} ELSE wg
  /\ UNCHANGED <<flags, main, cfg, signalVars, fd, closer, socketVars, readyVars>>

\* One round of the loop: senders, the worker's goroutine, its ticker.
StartWorker ==
  /\ main = "workers" /\ started < cfg.numWorkers
  /\ started' = started + 1
  /\ egress' = egress \cup {started + 1}
  /\ worker' = [worker EXCEPT ![started + 1] = "open"]
  /\ wg' = wg \cup {Run(started + 1), Ticker(started + 1)}
  /\ UNCHANGED <<flags, main, cfg, signalVars, fd, closer, socketVars, readyVars>>

\* A sender cannot be made: run returns at once, its deferred calls first
\* close the senders made so far; the process exits with the workers running.
EgressFails ==
  /\ main = "workers" /\ started < cfg.numWorkers
  /\ main' = "returning"
  /\ egress' = {}
  /\ UNCHANGED <<mainVars, signalVars, wg, workerVars, socketVars, readyVars>>

ReturnError ==
  /\ main = "returning"
  /\ ctxDone' = TRUE
  /\ main' = "failed"
  /\ UNCHANGED <<mainVars, done, wg, egress, workerVars, socketVars, readyVars>>

Notify ==
  /\ main = "workers" /\ started = cfg.numWorkers
  /\ main' = "await"
  /\ UNCHANGED <<mainVars, signalVars, wg, egress, workerVars, socketVars, readyVars>>

-----------------------------------------------------------------------------
(* run: shutdown.                                                          *)

\* Before Notify a signal ends the process.
SignalKills ==
  /\ main \in {"load", "services", "workers", "returning"}
  /\ main' = "killed"
  /\ UNCHANGED <<mainVars, signalVars, wg, egress, workerVars, socketVars, readyVars>>

\* The signal that ends the wait in run; a later one stays in sigCh.
Signal ==
  /\ main = "await"
  /\ IF cfg.drainTimeout > 0
     THEN main' = "drain" /\ draining' = TRUE
     ELSE main' = "cancel" /\ UNCHANGED draining
  /\ UNCHANGED <<mainVars, signalVars, wg, egress, workerVars, socketVars,
                 readyCount, probe>>

DrainOver ==
  /\ main = "drain"
  /\ main' = "cancel"
  /\ UNCHANGED <<mainVars, signalVars, wg, egress, workerVars, socketVars, readyVars>>

Cancel ==
  /\ main = "cancel"
  /\ ctxDone' = TRUE
  /\ main' = "close"
  /\ UNCHANGED <<mainVars, done, wg, egress, workerVars, socketVars, readyVars>>

\* Faulty variant: close(done) comes after the wait.
CloseDoneLate ==
  /\ main = "close"
  /\ main' = "wait"
  /\ UNCHANGED <<mainVars, signalVars, wg, egress, workerVars, socketVars, readyVars>>

CloseDone ==
  /\ main = "close"
  /\ done' = TRUE
  /\ main' = "wait"
  /\ UNCHANGED <<mainVars, ctxDone, wg, egress, workerVars, socketVars, readyVars>>

Wait ==
  /\ main = "wait"
  /\ wg = {}
  /\ main' = "flush"
  /\ UNCHANGED <<mainVars, signalVars, wg, egress, workerVars, socketVars, readyVars>>

\* rec.Shutdown, at most ten seconds, and the deferred closing of the senders.
Finish ==
  /\ main = "flush"
  /\ egress' = {}
  /\ main' = "exited"
  /\ UNCHANGED <<mainVars, signalVars, wg, workerVars, socketVars, readyVars>>

-----------------------------------------------------------------------------
(* Worker.Run.                                                             *)

runVars == <<mainVars, main, signalVars, egress>>

\* The kernel hands out the lowest number that is free.
LowestFree(d) == table[d] = Free /\ \A e \in FD : table[e] = Free => d <= e

Leave(i, how) ==
  /\ worker' = [worker EXCEPT ![i] = how]
  /\ wg' = wg \ {Run(i)}

OpenSocket(i) ==
  /\ worker[i] = "open"
  /\ \E d \in FD :
       /\ LowestFree(d)
       /\ table' = [table EXCEPT ![d] = i]
       /\ fd' = [fd EXCEPT ![i] = d]
  /\ worker' = [worker EXCEPT ![i] = "join"]
  /\ UNCHANGED <<runVars, wg, closer, others, readyVars>>

\* openRawSocket fails; it has closed what it opened.
OpenFails(i) ==
  /\ worker[i] = "open"
  /\ Leave(i, "failed")
  /\ UNCHANGED <<runVars, fd, closer, socketVars, readyVars>>

\* The kernel refuses to join a group that the socket has joined already.
Joinable(groups) == IsInjective(groups)

\* All groups joined: WorkerReady, the read timeout and the closer goroutine.
JoinGroups(i) ==
  /\ worker[i] = "join"
  /\ Joinable(BuildGroups(cfg))
  /\ readyCount' = readyCount + 1
  /\ worker' = [worker EXCEPT ![i] = "call"]
  /\ closer' = [closer EXCEPT ![i] = "waiting"]
  /\ UNCHANGED <<runVars, wg, fd, socketVars, draining, probe>>

JoinFails(i) ==
  /\ worker[i] = "join"
  /\ table' = [table EXCEPT ![fd[i]] = Free]
  /\ Leave(i, "failed")
  /\ UNCHANGED <<runVars, fd, closer, others, readyVars>>

\* Recvfrom on the worker's own socket blocks.
Block(i) ==
  /\ worker[i] = "call"
  /\ table[fd[i]] = i
  /\ worker' = [worker EXCEPT ![i] = "blocked"]
  /\ UNCHANGED <<runVars, wg, fd, closer, socketVars, readyVars>>

\* Faulty variant: Run also closes the descriptor when it returns.
ReturnCloses(i) ==
  /\ Leave(i, "returned")
  /\ readyCount' = readyCount - 1
  /\ table' = [table EXCEPT ![fd[i]] = Free]
  /\ UNCHANGED <<runVars, fd, closer, others, draining, probe>>

\* Run returns from its loop and the deferred WorkerDone is called.
Return(i) ==
  /\ Leave(i, "returned")
  /\ readyCount' = readyCount - 1
  /\ UNCHANGED <<runVars, fd, closer, socketVars, draining, probe>>

Continue(i, at) ==
  /\ worker' = [worker EXCEPT ![i] = at]
  /\ UNCHANGED <<runVars, wg, fd, closer, socketVars, readyVars>>

\* EBADF: the descriptor has been closed.
BadDescriptor(i) ==
  /\ worker[i] = "call"
  /\ table[fd[i]] = Free
  /\ Return(i)

\* The number refers to a socket of another part, which does not block.
OtherSocket(i) ==
  /\ worker[i] = "call"
  /\ table[fd[i]] \notin {Free, i}
  /\ IF ctxDone THEN Return(i) ELSE Continue(i, "call")

\* ... unless something has arrived for that other part.
OtherDatagram(i) ==
  /\ worker[i] = "call"
  /\ table[fd[i]] \notin {Free, i}
  /\ Continue(i, "process")

Datagram(i) ==
  /\ worker[i] = "blocked"
  /\ Continue(i, "process")

\* Faulty variant: a timeout ends the worker whatever the context says.
ReceiveTimeoutReturns(i) ==
  /\ worker[i] = "blocked"
  /\ Return(i)

\* EAGAIN after 200 ms, or an error Run logs: either way it looks at ctx.  The
\* errors that end Run whatever ctx says, EBADF and EINVAL, come of a descriptor
\* that was closed (BadDescriptor, Woken); recvfrom of an open socket into a valid
\* buffer is assumed not to return them, and SO_RCVTIMEO to have been set.
ReceiveTimeout(i) ==
  /\ worker[i] = "blocked"
  /\ IF ctxDone THEN Return(i) ELSE Continue(i, "call")

Interrupted(i) ==
  /\ worker[i] = "blocked"
  /\ Continue(i, "call")

\* A kernel that wakes a blocked Recvfrom when its descriptor is closed.
Woken(i) ==
  /\ worker[i] = "blocked"
  /\ table[fd[i]] # i
  /\ Return(i)

\* processFrame, with every Send it makes, returns.
Processed(i) ==
  /\ worker[i] = "process"
  /\ Continue(i, "call")

\* The closer: <-ctx.Done(), then unix.Close of the number it was given.
CloseSocket(i) ==
  /\ closer[i] = "waiting" /\ ctxDone
  /\ closer' = [closer EXCEPT ![i] = "ended"]
  /\ table' = [table EXCEPT ![fd[i]] = Free]
  /\ UNCHANGED <<runVars, wg, worker, fd, others, readyVars>>

-----------------------------------------------------------------------------
(* The other goroutines and the rest of the process.                       *)

OtherOpens ==
  /\ others < MaxOther
  /\ others' = others + 1
  /\ \E d \in FD : LowestFree(d) /\ table' = [table EXCEPT ![d] = Other]
  /\ UNCHANGED <<runVars, wg, workerVars, readyVars>>

OtherCloses ==
  /\ \E d \in FD : table[d] = Other /\ table' = [table EXCEPT ![d] = Free]
  /\ UNCHANGED <<runVars, wg, workerVars, others, readyVars>>

\* A reassembly ticker sees the cancelled context.
TickerReturns(i) ==
  /\ Ticker(i) \in wg /\ ctxDone
  /\ wg' = wg \ {Ticker(i)}
  /\ UNCHANGED <<runVars, workerVars, socketVars, readyVars>>

\* A discovery listener returns when cancelled, or after an error, which run logs.
ListenerReturns(listener) ==
  /\ listener \in wg
  /\ wg' = wg \ {listener}
  /\ UNCHANGED <<runVars, workerVars, socketVars, readyVars>>

AnnounceReturns == ListenerReturns(Announce)

BeaconReturns == ListenerReturns(Beacon)

\* srv.Shutdown, at most five seconds.
ServeReturns ==
  /\ Serve \in wg /\ done
  /\ wg' = wg \ {Serve}
  /\ UNCHANGED <<runVars, workerVars, socketVars, readyVars>>

AllUp == \A i \in 1..cfg.numWorkers : worker[i] \in InLoop

\* handleReadyz loads the count first, while the server may still be up;
\* `allUp' and `late' are history.
ProbeCounts ==
  /\ Serve \in wg /\ probe.at = "none"
  /\ probe' = [at |-> "counted", count |-> readyCount, allUp |-> AllUp,
               late |-> draining, answer |-> "none"]
  /\ UNCHANGED <<runVars, wg, workerVars, socketVars, readyCount, draining>>

\* Faulty variant: the count is looked at before the draining flag.
ReadyzCountFirst(count) ==
  IF count >= cfg.numWorkers /\ cfg.numWorkers > 0 THEN "ready"
  ELSE IF draining THEN "draining" ELSE "starting"

Readyz(count) ==
  IF draining THEN "draining"
  ELSE IF count >= cfg.numWorkers /\ cfg.numWorkers > 0 THEN "ready"
  ELSE "starting"

\* ... then the draining flag, and answers; the next request finds no trace.
ProbeAnswers ==
  /\ probe.at = "counted"
  /\ probe' = [NoProbe EXCEPT !.answer = Readyz(probe.count)]
  /\ UNCHANGED <<runVars, wg, workerVars, socketVars, readyCount, draining>>

-----------------------------------------------------------------------------
StartUp == Load \/ MetricsFail \/ StartServices \/ StartWorker \/ EgressFails \/ ReturnError \/ Notify

ShutDown == DrainOver \/ Cancel \/ CloseDone \/ Wait \/ Finish

Receive(i) ==
  \/ OpenSocket(i) \/ OpenFails(i) \/ JoinGroups(i) \/ JoinFails(i)
  \/ Block(i) \/ BadDescriptor(i) \/ OtherSocket(i) \/ OtherDatagram(i)
  \/ Datagram(i) \/ ReceiveTimeout(i) \/ Interrupted(i) \/ Woken(i)
  \/ Processed(i)

Background ==
  \/ \E i \in Worker : CloseSocket(i) \/ TickerReturns(i)
  \/ AnnounceReturns \/ BeaconReturns
  \/ OtherOpens \/ OtherCloses
  \/ ServeReturns \/ ProbeCounts \/ ProbeAnswers

Next ==
  /\ main \notin Ended
  /\ \/ StartUp \/ SignalKills \/ Signal \/ ShutDown
     \/ \E i \in Worker : Receive(i)
     \/ Background

Spec == Init /\ [][Next]_vars

Step(action) == main \notin Ended /\ action

(* Every goroutine is scheduled.  run goes on through start-up and         *)
(* shutdown, whose waits are bounded (the drain window, five seconds for   *)
(* the server, ten for the metrics).  A worker opens and joins or fails,   *)
(* a Recvfrom times out, a frame is processed (TCPEgress shows that Send   *)
(* returns), and a cancelled goroutine sees it.  Another part's socket     *)
(* that a worker reads by mistake runs dry.  Nothing is promised of        *)
(* signals, datagrams, requests or other sockets.                          *)
Fairness ==
  /\ WF_vars(Step(Load \/ StartServices \/ StartWorker \/ Notify))
  /\ WF_vars(Step(ShutDown))
  /\ \A i \in Worker :
       /\ WF_vars(Step(OpenSocket(i) \/ OpenFails(i)))
       /\ WF_vars(Step(JoinGroups(i) \/ JoinFails(i)))
       /\ WF_vars(Step(Block(i) \/ BadDescriptor(i) \/ Processed(i)))
       /\ WF_vars(Step(ReceiveTimeout(i)))
       /\ SF_vars(Step(OtherSocket(i)))
       /\ WF_vars(Step(CloseSocket(i)))
       /\ WF_vars(Step(TickerReturns(i)))
  /\ WF_vars(Step(ctxDone /\ AnnounceReturns))
  /\ WF_vars(Step(ctxDone /\ BeaconReturns))
  /\ WF_vars(Step(ServeReturns))

FairSpec == Spec /\ Fairness

-----------------------------------------------------------------------------
(* The state of run, of the workers and of the readiness handler.          *)
TypeOK ==
  /\ flags \in Flags
  /\ main \in {"load", "services", "workers", "returning", "await", "drain",
               "cancel", "close", "wait", "flush"} \cup Ended
  /\ cfg \in {NoConfig, Loaded(flags)}
  /\ started \in 0..MaxWorkers
  /\ ctxDone \in BOOLEAN /\ done \in BOOLEAN
  /\ wg \subseteq {Serve, Announce, Beacon} \cup {Run(i) : i \in Worker}
                  \cup {Ticker(i) : i \in Worker}
  /\ egress \subseteq Worker
  /\ worker \in [Worker -> {"none", "open", "join", "returned", "failed"} \cup InLoop]
  /\ fd \in [Worker -> FD \cup {0}]
  /\ closer \in [Worker -> {"none", "waiting", "ended"}]
  /\ table \in [FD -> {Free, Other} \cup Worker]
  /\ others \in 0..MaxOther
  /\ readyCount \in 0..MaxWorkers
  /\ draining \in BOOLEAN
  /\ probe \in [at : {"none", "counted"}, count : 0..MaxWorkers, allUp : BOOLEAN,
                late : BOOLEAN, answer : {"none", "ready", "draining", "starting"}]

(* The sockets of the workers and the goroutines that are to close them    *)
(* match at every moment: a worker's socket is open exactly while its      *)
(* start-up or its closer will still close it.  So no descriptor leaks     *)
(* when a group cannot be joined, none is closed twice, and no Close hits  *)
(* a number that has been given to somebody else in the meantime.          *)
DescriptorsOwned ==
  \A i \in Worker, d \in FD :
    table[d] = i <=> fd[i] = d /\ (worker[i] = "join" \/ closer[i] = "waiting")

(* Until the context is cancelled a worker reads its own socket, and it    *)
(* stays in its loop: no timeout or error ends it, in particular not while *)
(* run drains ("workers continue forwarding for this duration").           *)
ServesUntilCancelled ==
  ~ctxDone => \A i \in Worker : /\ worker[i] # "returned"
                                /\ worker[i] \in InLoop => table[fd[i]] = i

(* readyCount is the number of workers in their receive loop.              *)
CountExact == readyCount = Cardinality({i \in Worker : worker[i] \in InLoop})

(* /readyz answers 200 only if all configured workers were in their loops  *)
(* when the handler read the count, and never to a request that began      *)
(* while run drains: a worker that failed to start keeps the process from  *)
(* ever being reported ready, and no load balancer comes back to it.       *)
ReadyIsTrue ==
  [][ProbeAnswers /\ probe'.answer = "ready" => probe.allUp /\ ~probe.late]_vars

(* In an orderly shutdown the deferred Close of a worker's senders comes   *)
(* after the worker has returned, so no frame is sent on a closed sender.  *)
EgressOutlivesWorker ==
  main \notin {"returning", "failed", "killed"} =>
    \A i \in Worker : worker[i] \in InLoop => i \in egress

(* For every accepted command line, the shard groups that are joined are   *)
(* those the filter accepts, none of them is a control group, and the      *)
(* group for stripped headers is not among the groups joined, so that the  *)
(* program does not receive its own headers.                               *)
GroupsRight ==
  main \notin {"load", "failed", "killed"} =>
    LET joined == Range(BuildGroups(cfg))
        shards == {a \in joined : a.index < cfg.numGroups}
    IN  /\ {a.index : a \in shards} = {x \in 0..(cfg.numGroups - 1) : ShardAccepted(cfg, x)}
        /\ joined \ shards = {Address(cfg.ingress, c) :
              c \in {CtrlGroupControl}
                    \cup IF cfg.subtreeDataEnabled THEN {CtrlGroupSubtreeAnnounce} ELSE {}}
        /\ Address(cfg.headerPlace, CtrlGroupBlockHeader) \notin joined

(* Once run has received its signal, the process exits: nobody waits for   *)
(* ever on a blocked Recvfrom, a reused descriptor, the metrics server or  *)
(* a goroutine that was not told.                                          *)
ShutdownEnds == main \in {"drain", "cancel", "close", "wait", "flush"} ~> main = "exited"

(* A started program has all its workers in their loops eventually, unless *)
(* one of them failed or the process is told to stop.                      *)
ComesUp ==
  main = "await" ~> AllUp \/ (\E i \in Worker : worker[i] = "failed") \/ main # "await"
=============================================================================
