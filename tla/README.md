# A TLA+ model of bitcoin-shard-listener

The listener receives transaction frames that proxies multicast to shard groups,
filters them, removes duplicates, forwards them downstream, and asks retry
endpoints for frames it has missed. This directory models its stateful parts,
model-checks them with TLC on small instances, and proves the main safety
properties of all of them with TLAPS for every instance.

All paths below are relative to the repository root (`src/` in `PROJECT.json`).

## The system and its parts

| Part | State | Operations | Modelled by |
|---|---|---|---|
| Gap tracker, `nack/nack.go` | per flow: `lastSeqNum`, `pending`, `lastSeen`; `nackQueue`; semaphore `sem`; running `sendNACK` goroutines | `Observe`, `Fill`, `sweepOnce`, `dispatchLoop`, `sendNACK`, `advanceEndpoint`, `cancelGap` | `GapTracker` |
| Endpoint registry, `discovery/registry.go` | `entries`, `seeds`, cached `snapshot`, `dirty` | `Upsert`, `Evict`, `Seed`, `Snapshot` | `EndpointRegistry`, abstractly `LiveEndpoints` |
| Beacon listener, `discovery/beacon.go` | none of its own | receive an ADVERT, eviction ticker | `EndpointRegistry` |
| Duplicate detector, `dedup/dedup.go` | map with expiries, ring of keys, `head`, `count` | `SeenAndAdd` | `DedupSet`, abstractly `SlidingWindow` |
| Reassembly, `reassembly/reassembly.go` | map of slots, FIFO `insertOrder` | `Observe`, `Tick`, `Purge` | `Reassembly` |
| Subtree group registry, `subtreegroup/registry.go` | group to subtree to expiry | `Add`, `Remove`, `Contains`, `Evict` | `SubtreeGroups` |
| Announcement listener, `discovery/subtree_announce.go` | an `Add` in progress per listener | receive, sender filter, eviction ticker | `SubtreeGroups` |
| Filter, `filter/filter.go` | none after `New` | `Allow` | `Worker` |
| Receive worker, `listener/listener.go` | the detector and egress it owns | `processFrame`, block and subtree data handlers, three reassembly callbacks | `Worker` |
| TCP egress, `egress/egress.go` | `tcpConn` | `sendTCP`, `closeTCP`, `Close` | `TCPEgress` |
| UDP and multicast egress, `egress/*.go` | sockets | send | `Worker`, as a step that takes time |
| Recovery as a whole: tracker, proxy, retry endpoints, networks | what is published, cached, in flight | a NACK and its answer, a retransmission | `GapRecovery` |
| Configuration, `config/config.go`, and `buildGroups` | none after `Load` | `Load`, `buildGroups` | `Config` |
| Lifecycle, `main.go`, with `Worker.Run` of `listener/listener.go` | context, `done`, wait group, descriptors | start, serve, drain, cancel, wait, close | `Lifecycle` |
| Readiness, `metrics/metrics.go` | `readyCount`, `draining` | `/readyz`, `Serve` | `Lifecycle` |
| Other metrics, wire codecs | | | not modelled |

How they interact. The worker calls the filter (which asks the subtree group
registry), then the duplicate detector, then egress, then `Tracker.Observe`.
Fragments go to the reassembly buffer, which calls back into the worker. The
tracker's sweeper feeds the dispatcher through a bounded queue; each `sendNACK`
goroutine reads a snapshot of the endpoint registry, which the beacon listener
maintains. A retransmitted frame arrives by multicast like any other. `run`
starts all of them, counts them in a wait group, and on a signal drains, cancels
the context, closes `done` and waits.

What is hard to get right. Four goroutines and the receive worker race to close
the same gap. Copies of gap entries outlive the state they were taken from.
Frames and fragments are lost, duplicated, damaged and reordered. Proxies
restart their numbering. Queues, rings, slots and tokens run out. Several maps
are kept in step with a second structure (a ring, a FIFO, a cache), and most
clean-up is left to tickers. A stream breaks in the middle of a frame. A worker's
descriptor is closed by another goroutine and its number is reused. `PROJECT.json` lists each hazard with its line and
the properties that cover it.

## Modules

**Time.** The code compares `time.Now()` with stored instants. The models store
the ticks that remain until the instant, -1 meaning that it has passed, and
count up, saturating, from the last event where the code stores one. The clock
is therefore unbounded and the state space finite. Nothing forces a goroutine to
run before the next tick unless a run says so. A sweep takes the time of its
tick as the present; a ticker's value may be slightly older in the code, which
only delays the sweep's decisions.

**Atomicity.** A section under one mutex is one step. `Registry.Add` of the
subtree groups reads the clock before it locks and is two steps. `sendNACK` is
two steps, before and after the wait for an answer, because it holds no lock in
between. A worker is one goroutine and finishes a frame before it takes the
next; each of its sends may block and is a step, between which announcements
change and time passes, and so is its report to the tracker. `/readyz` is
two steps, one per atomic it loads. A TCP `Write` is one step per part of the
frame that the kernel takes.

**Faulty variants.** Operators whose comment begins "Faulty variant" are not
part of any specification. Each is a plausible mistake in the operator that
follows it, and substituting it makes TLC violate the property named beside it
under "mutants" in `PROJECT.json`.

* `GapTracker`: `lastSeqNum = 0` stands for a flow without an entry. `Observe`
  has one action per case of the code after the auto-fill they share: first
  frame, old frame, proxy restart, advance (with an empty set of missing numbers
  when the frame is contiguous). `Sweep` is one whole `sweepOnce`; Go's map
  order decides which due gaps find room in the queue, hence `Batches`. `Take`
  and `Spawn` are the two blocking points of the dispatcher. An endpoint may
  answer ACK or MISS, answer nonsense or not at all, whatever it was asked.
  `Backoff` keeps the width of `time.Duration`. The variables `first`, `seen`
  and `gone` are history.
* `EndpointRegistry`: seeds are loaded once, before the loops start, so they are
  part of `Init`. `sort.Slice` is not stable and starts from Go's map order, so
  `Snapshot` may give any listing ordered by tier and preference
  (`EndpointOrder!Listings`). `listed` is what the last caller got, and `call`
  flips at every call, so that serving the old answer again is a step too.
  `LiveEndpoints` is the promise: a listing of what is live, sorted afresh.
* `DedupSet`: the map, the ring and its indices. `since` is history.
  `SlidingWindow` is the promise: a window that forgets in insertion order and
  whose keys may lapse earlier if keys expire.
* `Reassembly`: a fragment carries its payload id, version, total, index,
  original length and whether it is intact. `LenModulus` is the range of uint32.
  Every `Observe` begins with the lazy eviction, as in the code: it finds the
  expired slots through the FIFO (`Live`) and leaves the ids of the others in it
  in their order. `Compact` defines that order by position, in a form that can
  be reasoned about; `MCReassembly` checks that it is `SelectSeq`. `last` holds
  the payload completed last, if there is one. `Purge` is
  exported and called by no part of the program; it is an action all the same.
* `SubtreeGroups`: `lease`, `due` and `oldest` are history. `lease` is the time
  for which an admitted announcement is in force, `due` that of the announcement
  which governs an entry: the one stored last or, if an earlier one was stored
  while its `Add` was under way, whichever ends first, since the lock may have
  been taken in either order. `Remove` is exported and called by no part of the
  program; it is an action all the same.
* `Worker` extends `DedupSet`, the detector it owns, and asks it by `SeenAndAdd`.
  `at` is the step that is next for the frame at hand: a duplicate is reported to
  the tracker where it is found, any other frame after its last send, so there
  are two places where it reports, as in the code. What a send returns changes
  only a counter. A reassembled frame that cannot be encoded again is dropped
  without a report (`DropReassembled`). `live` stands for the answers of
  `SubtreeGroups`; `consulted` is what they were when the filter asked, `owed`
  what the tracker has still to be told, `sent` and `accepted` are history too.
* `GapRecovery` extends `GapTracker` with the proxy, which publishes a flow's
  frames, each reaching the listener or not and any of the sets `Holders` of
  endpoints; with a wire per token for the NACK and its answer; and with
  retransmissions on their way. Every step of the tracker is one of its actions,
  tied to what is on the wire: an ACK can only be received if the endpoint that
  `Target` chose holds the frame. `losses` counts lost NACKs, lost or damaged
  answers and failed sockets. Time passes only when nothing is `Busy`. The proxy
  and the endpoints are other programs, modelled from how `nack.go` uses them.
* `TCPEgress`: the position `at` inside `sendTCP`, the connection it holds, and
  per connection what the kernel has taken and what the downstream has read. A
  dial or a write may fail at any point, the downstream may stall, crash and
  return, and a write to a downstream that has gone may still succeed. `open` is
  the set of descriptors the process really holds.
* `Config`: the checks of `Load` in their order and what it derives, and the
  groups of `buildGroups`. The control groups lie at the top of an index space
  that is one bit wider than the widest shard key, here as in the code.
* `Lifecycle`: `main` is how far `run` has come, `table` what a descriptor number
  refers to, `fd` the number a worker remembers. `OtherOpens` and `OtherCloses`
  are the sockets of the rest of the process, which take numbers that are free.
  A closed descriptor wakes a blocked `Recvfrom` or not; the comment in `Run`
  says that kernels differ. `Run` returns on `EBADF` and `EINVAL` whatever the
  context says (`listener/listener.go:189`) and ignores whether `SO_RCVTIMEO`
  could be set (`:172`); the model assumes that the kernel reports those errors
  only for a descriptor that was closed, and that the timeout is in force. Failures of start-up (`egress.New`, a socket, a
  group) and a signal before `Notify`, which kills the process, are actions of
  their own.

The `MC*` modules hold the sets and the symmetry of the configurations, and
statements taken from the repository's documents that the code does not meet.

## Runs

Every passing run explores its instance completely. Type invariants, `CacheFresh`,
`MemoryBounded` and `CountExact` are proved for every instance and not repeated
in the runs.

| Run | Shows | Instance |
|---|---|---|
| `gap_window` | pending gaps are the unresolved holes of the flow, counters balance, gaps end, tokens return, the dispatcher moves, idle flows go | 1 flow, numbers 1..4, threshold 2, 1 token, queue of 1, 0 or 1 endpoint, fair |
| `recovery_deepest` | no gap is under way twice (`OneCopy`); a frame the last endpoint holds is recovered; a gap is given up only after every endpoint was asked; the backoff is kept, until its product wraps at the third retry | 1 flow, 3 numbers, 1 gap at a time, 0 or 3 endpoints, 1 loss, 4 retries, durations modulo 16, fair |
| `registry_refine` | implements `LiveEndpoints`, so the cache is never stale; survives lost beacons; silent and draining endpoints leave | 2 instances, 2 tiers, 2 preferences, a seed, fair |
| `reassembly_buffer` | map and FIFO agree, accounting, only whole and intact payloads are delivered, eviction order; every slot ends | 3 payloads, 2 slots, 4 slot openings, fair |
| `subtree_filter` | accepts only, and as long as, announced; unannounced subtrees leave memory | 2 groups, 2 racing listeners, TTLs 0, 1, 3, fair |
| `worker_path` | every stamped frame that passed is reported before the next; nothing filtered gets out; a stamped inline frame is suppressed only after it was sent, and sent again only when the detector had to forget it; the detector leaks no key, suppresses only what is recent and implements `SlidingWindow` | a frame for every branch, changing subtree membership, 3 keys that are deduplicated, capacity 2, TTL 1 |
| `tcp_stream` | whole frames in order on every connection, no frame on two, results true, no descriptor leak, no hanging call | 4 frames of 2 parts, 3 dials, 3 parts of buffer, fair |
| `lifecycle_shutdown` | sockets closed once, workers serve until cancelled, readiness true, groups right; the program comes up, and ends after a signal | at most 2 workers, 3 descriptor numbers, 1 other socket, 3 command lines that are accepted and 9 refused, fair |

Why the bounds are enough. Flows do not share state except through queue and
tokens, and one flow with two gaps already contends for one token and a queue of
one. Four numbers with threshold 2 give numbers on both sides of the restart
rule, two-number gaps, and late frames below and above the threshold. Two
instances suffice for an order, a tie and a replacement in the registry. The
duplicate detector needs one key more than its capacity to wrap, the buffer one
payload more than its slots. Timers are one to three ticks, so that each can
elapse before or after any other event. `MaxGaps` and `MaxStarted` bound the
counters; they are large enough for a restart, or a reopened payload, to be
followed by another one. `worker_path` deduplicates one key
more than its detector has slots, with a TTL of one tick, so that keys are
evicted, lapse, and come back while their old slot is still in the ring.

`recovery_deepest` has three endpoints, so that there is one in the middle, and
sets of holders that make the frame be found at the first, only at the last, or
nowhere; `MaxRetries` exceeds `MaxLoss` by the endpoints before the last one and
`GapTTL` leaves the time for the attempts, which are the conditions under which
the code can keep the promise. The window run does not need several endpoints:
what an endpoint answers is arbitrary there. Frames of two parts can be cut in
the middle; a buffer of three parts can take a frame and a half; four frames and
three connections allow a frame to fail, the next to fail on another connection,
and a later one to succeed. Two workers, three numbers and a foreign socket are
what it takes for a number to change hands between a worker, another part and
another worker. The command lines contain one that fails each check of `Load`,
the widest shard key, an index listed twice, and a drain window of zero.
`lifecycle_shutdown` does not check for deadlock because the process ends.

### Statements the code does not meet

These runs are expected to end in a counterexample. Each checks one statement of
a comment, document or test; the quotations are in `PROJECT.json`.

| Run | Statement | What happens instead |
|---|---|---|
| `recovery_tried` | with retries for every endpoint, all are tried before eviction | with more gaps than tokens a copy outlasts its stamp, the gap is queued again with the old index, and both copies spend a retry on one endpoint |
| `recovery_reset` | a retransmission never sets `lastSeqNum` back | one that fills a gap within `SeqResetThreshold`, after the flow has gone beyond it, is taken for a restart of the proxy: `lastSeqNum` goes back and the other gaps are dropped |
| `dedup_oldest` | the oldest key is evicted | a fresh re-insertion is |
| `worker_senders` | the key identifies a frame | two senders' flows share keys |

In `recovery_tried` time passes only when nothing is `Busy`, so that the
counterexample does not rest on a slow scheduler.

Further differences were met while modelling. The models follow the code in
each of them, and no run checks the documented statement:

* `nack/nack.go:349-351` and `nack/tier_escalation_test.go:156` rule out a
  return to an endpoint that answered MISS; the second copy of `recovery_tried`
  asks it again.
* `dedup/dedup.go:4-6` suppresses the duplicate of a frame that has been
  forwarded; the key is recorded before the send (`listener/listener.go:297`), so
  that the retransmission of a frame whose send failed is suppressed as well.
* `egress/egress.go:13-15` has a sender owned by its worker. When `egress.New`
  fails for a later worker, `run` returns and its deferred calls close the senders
  of the workers that run (`main.go:203-205`), shortly before the process exits.
* A write to a downstream that has gone may be taken by the kernel and reported
  as sent; `ResultIsTrue` speaks of what the kernel has taken.
* After the cancellation a worker may read from a descriptor number that has
  been given to another socket (`listener/listener.go:174-179`). It does so at
  most until its next look at the context, and shutdown ends all the same.
* `-shard-include` with an index listed twice passes `Load`, and the second
  `IPV6_JOIN_GROUP` fails in every worker: the process runs and is never ready.
  The help text of the flag (`config/config.go:178`) also speaks of ranges, which
  do not parse.
* `docs/architecture.md:126-127` says that a timeout leaves the endpoint index
  unchanged; `advanceEndpoint` (`nack/nack.go:451`) increments it.
* `nack/nack.go:457` multiplies before it caps the backoff. The product wraps
  to a negative duration at 35 retries and is zero from 56 on, so the gap is due
  at once; the default of `-nack-max-retries` is far below. `BacksOff` promises
  the base backoff only while the product fits.
* `docs/configuration.md:280-281` has static seeds merged with discovered
  endpoints; `Snapshot` (`discovery/registry.go:119`) lists seeds only when there
  is no beacon entry.
* `reassembly/reassembly.go:169` calls more fragments than bytes impossible; the
  test before it admits one more, and `OrigPayloadLen+1` wraps for the largest
  length.
* `docs/configuration.md:374-376` describes Merkle verification of subtree data;
  `verifyMerkle` is stored and never read.
* `listener/listener.go:594-596` has reassembled frames routed exactly as inline
  ones; `DeliverReassembled` does not ask the duplicate detector.
* `docs/architecture.md:164-165` lets BRC-12 frames pass all subtree checks;
  with an include list `Allow` (`filter/filter.go:77`) drops them.

### Fairness

`GapTracker!Fairness` assumes that the clock runs, the sweeper's ticker fires,
the dispatcher is scheduled, and a `sendNACK` goroutine reaches its socket and
is woken by its read deadline. It assumes no frame, answer or registry change.
`EndpointRegistry` and `SubtreeGroups` assume the clock and the one-second
eviction tickers, `SubtreeGroups` also that a call of `Add` returns, and
`Reassembly` the clock and the one-second ticker of `main.go`. The Go runtime
provides all of it while the context is not cancelled; `GapResolved` and
`FlowForgotten` say so by mentioning `ctxDone`.

`GapRecovery` assumes the same of the tracker, that an endpoint answers a NACK
that reaches it, and that a retransmission which is not lost arrives; at most
`MaxLoss` messages are lost. `TCPEgress` assumes no success and nothing of the
downstream: `DialTimeout` and the write deadline end a call that would otherwise
wait. `Lifecycle` assumes that goroutines are scheduled and that the waits of
the code end: the receive timeout of 200 ms, the drain window, the deadlines of
the HTTP server's and the exporter's shutdown, and a `Send` (by `SendReturns`).
Strong fairness is used once, for a worker that reads another part's socket
after the cancellation: that socket is empty again and again, and at such a time
`Recvfrom` fails and the worker sees the cancellation. Signals, datagrams and
requests are never assumed.

## Proofs

| Module | Theorem | States |
|---|---|---|
| `GapTrackerProofs` | `TypeCorrect` | `[]TypeOK` |
| | `WindowCorrect` | `[]WindowExact`: `GapsInWindow`, `NoPhantomGap`, `NoSilentLoss` |
| | `AccountingCorrect` | `[]GapAccounting` |
| | `Composition` | every behaviour of `GapRecovery` is one of `GapTracker` |
| | `RecoveryCorrect` | `[]WindowExact` and `[]GapAccounting`, of `GapRecovery` |
| | `AllTried` | `AllTriedBeforeEviction`, if `[]OneCopy` |
| | `BackoffCorrect` | `BacksOff` |
| | `RetriesCorrect` | `[]RetriesBounded`, if `[]OneCopy` |
| | `OneCopyCorrect` | `[]OneCopy`, if `[]EnoughTokens` and `KeepsFlows` |
| | `AllTriedWithTokens` | `AllTriedBeforeEviction` and `[]RetriesBounded`, from `[]EnoughTokens` and `KeepsFlows` |
| `EndpointRegistryProofs` | `TypeCorrect`, `CacheCorrect` | `[]TypeOK`, `[]CacheFresh` |
| | `Refinement` | `ImplementsLiveEndpoints` |
| | `LostBeacons` | `SurvivesLostBeacons` |
| `DedupSetProofs` | `TypeCorrect`, `LeakFree`, `Bounded` | `[]TypeOK`, `[]NothingLeaks`, `[]MemoryBounded` |
| | `RecentOnly` | `SuppressesOnlyRecent` |
| | `Refinement` | `ImplementsWindow` |
| `ReassemblyProofs` | `TypeCorrect`, `OrderCorrect` | `[]TypeOK`, `[]OrderMatchesSlots` |
| | `AccountingCorrect`, `DeliveryCorrect` | `[]SlotAccounting`, `[]DeliversIntact` |
| | `EvictionCorrect` | `EvictsOldest` |
| `TCPEgressProofs` | `TypeCorrect`, `LeakFree` | `[]TypeOK`, `[]NoLeak` |
| | `FramesWhole`, `FramesOnce`, `ResultCorrect` | `[]WholeFrames`, `[]OneConnection`, `[]ResultIsTrue` |
| `LifecycleProofs` | `TypeCorrect`, `CountCorrect` | `[]TypeOK`, `[]CountExact` |
| | `SocketsOwned`, `Serves` | `[]DescriptorsOwned`, `[]ServesUntilCancelled` |
| | `EgressCorrect` | `[]EgressOutlivesWorker` |
| | `ReadinessTrue` | `ReadyIsTrue` |
| | `GroupsCorrect` | `[]GroupsRight` |
| `SubtreeGroupsProofs` | `TypeCorrect` | `[]TypeOK` |
| | `OnlyAnnounced`, `WhileAnnounced` | `[]AcceptsOnlyAnnounced`, `[]AcceptsWhileAnnounced` |
| `WorkerProofs` | `WorkerTypeCorrect`, `FilterCorrect`, `TrackerCorrect` | `[]WorkerTypeOK`, `[]FilterHolds`, `[]TrackerSeesAll` |
| | `SuppressionSound` | `[]SuppressedWasSent`, if keys tell frames apart |
| | `RepeatsCorrect` | `RepeatsOnlyForgotten` |
| | `DetectorUsed` | every behaviour of `Worker` is one of `DedupSet` |
| | `DetectorCorrect` | the results of `DedupSetProofs`, of the detector in `Worker` |

They hold for every value of the constants that satisfies the assumptions named
in the component's module: finitely many flows, instances and descriptors,
natural numbers for counts and times, a positive capacity and threshold, at
least one part to a frame, a worker count within its bound, a widest shard key
of at least three bits (it is 15 in the code) so that the control groups have
room beside the shards, and shard indices that are not negative, which is what
`ParseUint` returns. TLC evaluates each assumption on the instances of the runs.

*Gap tracker.* `TypeOK` is inductive. The window properties need each other and
`FlowOpened` (a tracked flow was opened by a number up to `lastSeqNum`, and
nothing beyond `lastSeqNum` was seen, so that the numbers a later frame skips
are neither seen nor pending): `WindowInv` is their conjunction. Lemma
`StepCases` sorts the steps into those that leave windows and pending numbers
alone, `Observe`, the closing of a gap by an answer, and the sweep; each kind
preserves `WindowInv`. The accounting follows the same cases
and needs `WindowInv` where a frame opens a flow, which then has no gap that
the frame could have filled. Every step of `GapRecovery` is a step of the tracker
or leaves its variables alone (`Composition`), so that all of this holds with the
proxy, the endpoints and the networks around it.

*Attempts.* What the retries of a gap achieve depends on the copies of its entry
that are in the queue, with the dispatcher or with a sender, because
`advanceEndpoint` counts on the entry while `sendNACK` asks by the copy.
`AttemptInv` relates the two: an entry with n retries has index n, and the first
n endpoints have been asked for it; a copy with index c has the first c endpoints
behind it, and its gap, if still pending, has at most c retries and one left.
When the sender of the only copy fails, the endpoint c has been asked, so that
the entry may count one more. A second copy would still be at c while the entry
moves on, which breaks the last clause; hence the hypothesis `OneCopy`, that no
gap is under way twice; without it the conclusion fails (`recovery_tried`).
`AttemptInv` then gives two results: a gap without retries left has had its
`MaxRetries` attempts at the first so many places of the listing (`AllTried`), and
no attempt is counted beyond `MaxRetries` (`RetriesCorrect`). `BackoffCorrect`
needs none of this: it is arithmetic on the step itself (`BackoffBounds`). A
product that fits is at least the base, and a product that wraps is negative or
anything up to the cap; with the base of 500 ms it fits up to 34 retries.

*Copies.* `OneCopy` is what the stamp of the sweep is for. `OneCopyCorrect` proves
it from two conditions. `CopyInv` says that the stamp
outlasts the copy: the gap of a copy that waits in the queue or with the dispatcher
is not due for `RespTimeout + SweepSlack`, that of a sender's copy not for what the
sender has left to wait and `SweepSlack` more, and every copy's number is at most
the `lastSeqNum` of its flow. Hence a due gap, which is all the sweep queues, has no copy
under way, and a gap opened by a later number is none that is under way. Stamp
and wait run down together, except for a copy that waits; but time passes
only when no goroutine has anything to do, and then, with a token free, nothing
waits. The two conditions are

* `EnoughTokens`: there are as many tokens as gaps under way. `TokenFree` is the
  pigeonhole: as long as something waits, the senders, whose gaps are different,
  leave a token. With fewer tokens a copy waits longer than its stamp
  (`recovery_tried`).
* `KeepsFlows`: no step moves the `lastSeqNum` of a flow back, by a reset or an
  eviction, while a gap of the flow is under way. Neither withdraws the copies, so
  that the numbers of the flow may become gaps anew and be queued beside an old
  copy. TLC finds such a behaviour of
  `GapRecovery` with five numbers and a reset threshold of one.

Both hold throughout `recovery_deepest`, where the run checks `OneCopy` without
assuming them. They are conditions on the load and on the frames and timers that end
a flow, not on the sweep, dispatcher and senders; under them `AllTriedWithTokens`
states both results without the hypothesis `OneCopy`.

*Endpoint registry.* `CacheFresh` is inductive relative to `TypeOK`, because
neither the clock nor an eviction that removes nothing changes what is live. The
refinement maps `live` to the endpoints of the entries: `Upsert` is an
announcement, `Evict` a departure, `Snapshot` a listing (through `CacheFresh`
when it is served from the cache), everything else a stutter. `LostBeacons`
rests on an invariant that ties the remaining life of an entry to the silence
since its last beacon.

*Duplicate detector.* `TypeOK` includes where the head stands while the ring
fills. `NothingLeaks` is inductive with it, and bounds the map by the number of
ring positions. `RecentOnly` rests on an invariant that ties the expiry of an
entry to the age of its key. The refinement maps the populated part of the ring,
read from its oldest slot, to the window of `SlidingWindow`: an insertion while
the ring fills is an `Append`, one into a full ring drops the head of the window,
and `WindowKnown` (without expiry, what is in the ring is in the map, and no key
is there twice) makes the answers of the map those of the window.

*Reassembly.* `BufferInv` is the conjunction of the four invariants with `Shapes`
(a slot is a record of what a fragment can carry, and the counters are natural)
and `LastClosed` (the payload completed last has no open slot, which
`EvictsOldest` needs to tell a completion from an eviction). They need each other:
the accounting needs that expiry reaches every slot, hence that every slot is in
the FIFO; that a full buffer finds a slot to evict needs the same; and the FIFO
stays in the order of opening because a new slot is younger than all others.
`CompactFacts` says what `Compact` returns: it rests on counting the kept
positions up to a position, and on the least of them. The three ways a slot can
take a fragment (it is there, it is opened, it is opened after an eviction) share
one lemma, `StoreKeeps`.

*TCP egress.* `SenderInv` says where `sendTCP` may stand with which connection,
count and result (`Control`), with `NoLeak`. Over it, `StreamInv` adds to the
three stream properties what they need to be inductive (`Streams`): nothing of a
later frame is anywhere, and the current connection ends with a whole frame or
with the parts of the present one that have been counted. A failed write leaves
a connection that ends in the middle of a frame, which is harmless only because
`closeTCP` gives it up in the same step.

*Lifecycle.* `SocketInv` ties each worker's position to its closer: start-up owns
the socket until `JoinGroups`, then the closer does, and a closer has run, or a
worker returned, only after the cancellation. From it follow the ownership of
descriptors and that workers serve until then. `RunInv` orders `run` against its
workers: those that run are in the wait group, and senders are closed only on
the paths that have left it. `ProbeInv` relates what a request has loaded to what
was true when it loaded it. The count is exact by the cardinality of a set that
gains or loses one element. `GroupsCorrect` rests on `LoadedInv`, that beyond
`Load` the configuration is that of a valid command line, and on arithmetic of
powers of two: the provers know none, but 2^n is the number of subsets of 1..n,
from which the library's facts on cardinality give that powers grow and double.
The index space of the control groups is therefore wider than any shard key.

*Subtree groups.* `Leased` bounds every entry, stored or on its way through
`Add`, by the longest valid announcement; `Behind` says that what a call of `Add`
is about to store lasts as long as `oldest` says, and `Held` that a stored entry
lasts as long as `due`. All clocks move together, so a second preserves the three.

*Worker.* `FilterHolds` is inductive: both ways to egress ask `Allow` while the
subtrees in `consulted` are those that are live. `TrackerSeesAll` needs that a busy
worker owes at most the report on the frame at hand (`OwesOne`), and rests on both
places that report. `SuppressedWasSent` is inductive with
the fact that every key the detector holds is that of a frame handed to egress or
about to be (`SentInv`), provided that keys tell frames apart; `worker_senders`
shows that it fails otherwise. `RepeatsOnlyForgotten` ties the worker's history to
the ring: a key in slot i was accepted as many acceptances ago as the slot is old,
or longer (`SlotAges`), so a key that an insertion pushes out has `Capacity`
acceptances behind it (`ForgottenLate`), also when the slot overwritten is an older
one of a key that lapsed and came back. A key still in the map that the detector
does not report has lapsed, so it was not presented for more than a TTL
(`AgeKnown` of `DedupSetProofs`). The worker uses the detector only as `DedupSet`
allows (`DetectorUsed`), which gives what is proved there for the detector inside
the worker (`DetectorCorrect`).

Only model-checked: the liveness properties of all runs, since the prover has no
fairness and no `ENABLED`. Every safety property that a passing run checks has a
theorem; `OneCopy` and what follows from it have the conditions named above,
because they are not true of every instance.

## Not modelled

* Payload bytes, address layout, encodings and log output.
* The NACK and ADVERT codecs: fixed layouts, whose results (ACK, MISS, nonsense;
  the fields of a beacon) are where the models begin. A frame or datagram that
  does not decode changes a counter and nothing else, and does not occur.
* Metrics other than the gap and reassembly counters and readiness: they are
  incremented and never read by the program. The OTLP exporter is a library.
* The text of flags and lists: `Config` distinguishes only whether it parses.
* Interfaces and socket options below success and failure.
* `Worker` with `SubtreeGroups` behind its filter: `live` changes arbitrarily in
  `Worker`, which includes every way the registry can change it.
* An endpoint listing that changes while a gap is being recovered: in
  `GapRecovery` it is stable, in `GapTracker` it changes but nothing is said of
  which endpoint is asked.
* Several workers on one group: each owns its detector and buffer, and the
  documents ask for one worker on multicast.
* The test sink of `cmd/sink-test-frames`, which is no part of the listener.
