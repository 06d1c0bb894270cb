------------------------------- MODULE Worker -------------------------------
(***************************************************************************)
(* The frame path of one receive worker, listener/listener.go, with the    *)
(* filter of filter/filter.go and the duplicate detector of DedupSet.      *)
(*                                                                         *)
(* A worker is one goroutine and the reassembly callbacks run on it: it    *)
(* verifies, filters and deduplicates a frame, sends it, and reports it to *)
(* the gap tracker before it turns to the next.  A send may block, so each *)
(* is a step of its own, between which the announced subtrees change and   *)
(* time passes.  The outcome of a send changes nothing but a counter.      *)
(*                                                                         *)
(* A frame is a record; its bytes are abstracted to whether the payload    *)
(* hashes to the TxID.  The buffer that leads to the reassembly callbacks  *)
(* is module Reassembly, the registry behind `live' module SubtreeGroups,  *)
(* the tracker that is told module GapTracker.                             *)
(***************************************************************************)
EXTENDS DedupSet

CONSTANTS
  Frames,          \* the frames that may arrive whole
  Reassembled,     \* the frames that reassembly may complete
  Subtrees,        \* subtree ids that may be announced
  ShardInclude, SubtreeInclude, SubtreeExclude,   \* {}: not configured
  GroupFilter,     \* subtree-group filtering is configured
  VerifyPayloadHash, MulticastEgress, HeaderEgress, EgressDedup   \* options

AllFrames == Frames \cup Reassembled

\* Faulty variant: the subtree is left out of the key.
KeyWithoutSubtree(f) == <<f.group, f.seq>>
\* The key processFrame builds: group, subtree and sequence number.
KeyOf(f) == <<f.group, f.subtree, f.seq>>

\* A frame: kind is "tx", "block" or "subtree" (BRC-124 and BRC-12, BRC-131,
\* BRC-132), group the index derived from the TxID, hashKey the flow the proxy
\* stamped, seq 0 for an unstamped frame, announce a block announcement.
IsFrame(f) ==
  /\ f.kind \in {"tx", "block", "subtree"} /\ f.ver \in {"V1", "V2"}
  /\ f.ver = "V1" => f.kind = "tx"
  /\ f.seq \in Nat /\ f.intact \in BOOLEAN /\ f.announce \in BOOLEAN
  /\ KeyOf(f) \in Key
ASSUME FrameAssumption == \A f \in AllFrames : IsFrame(f)

VARIABLES
  at,          \* the step that is next, "idle" between two frames
  frame,       \* the frame at hand, if any
  live,        \* subtrees for which the group registry's Contains is true
  consulted,   \* history: `live' when the filter was asked about the frame
  owed,        \* history: frames past the filter and not reported yet, as
               \* the flow and number the tracker is to be told
  sent,        \* history: frames handed to unicast egress
  accepted     \* history: how often the detector accepted a key after this
               \* one, up to Capacity; -1: it never accepted this one

frameVars == <<at, frame, consulted, owed>>
workerVars == <<vars, frameVars, live, sent, accepted>>

WorkerInit ==
  /\ Init
  /\ at = "idle" /\ frame = {}
  /\ live = {} /\ consulted = {}
  /\ owed = {} /\ sent = {}
  /\ accepted = [k \in Key |-> -1]

\* Filter.Allow
Allow(f) ==
  /\ ShardInclude # {} => f.group \in ShardInclude
  /\ f.subtree \notin SubtreeExclude
  /\ SubtreeInclude # {} \/ GroupFilter
       => f.subtree \in SubtreeInclude \/ (GroupFilter /\ f.subtree \in live)

\* Only frames that a proxy has stamped are tracked: never a BRC-12 frame.
Stamped(f) == f.seq # 0 /\ (f.kind = "tx" => f.ver = "V2")
Flow(f) == <<f.hashKey, f.seq>>

\* The worker turns to a frame that passed, and takes it to the given step.
Take(f, step) ==
  /\ at = "idle"
  /\ at' = step
  /\ frame' = {f}
  /\ consulted' = live
  /\ owed' = IF Stamped(f) THEN owed \cup {Flow(f)} ELSE owed
  /\ UNCHANGED <<live, sent>>

\* tracker.Observe, after which the worker turns to the next frame.
Report(f) ==
  /\ frame = {f}
  /\ owed' = owed \ {Flow(f)}
  /\ at' = "idle" /\ frame' = {} /\ consulted' = {}
  /\ UNCHANGED <<vars, live, sent, accepted>>

-----------------------------------------------------------------------------
(* processFrame, for a transaction.                                        *)

Verified(f) == VerifyPayloadHash /\ f.ver = "V2" => f.intact

\* A transaction that fails its hash or the filter.
DropFrame(f) ==
  /\ at = "idle" /\ f.kind = "tx"
  /\ ~Verified(f) \/ ~Allow(f)
  /\ UNCHANGED workerVars

\* Faulty variant: the wrong frame version is deduplicated.
DeduplicatedLegacy(f) == EgressDedup /\ f.ver = "V1"
\* The condition under which processFrame asks the duplicate detector.
Deduplicated(f) == EgressDedup /\ Stamped(f)

\* The detector accepts a key.  The count for that key starts anew unless the
\* ring still holds it, from before it lapsed.
CountAccepted(key) ==
  accepted' = [k \in Key |-> IF k = key /\ k \notin InRing THEN 0
                             ELSE IF accepted[k] \in 0..(Capacity - 1)
                               THEN accepted[k] + 1 ELSE accepted[k]]

\* The detector records the key before the frame is sent.
AskDetector(f) ==
  /\ SeenAndAdd(KeyOf(f))
  /\ \/ /\ reply'.dup
        /\ Take(f, "duplicate")
        /\ UNCHANGED accepted
     \/ /\ ~reply'.dup
        /\ Take(f, "unicast")
        /\ CountAccepted(KeyOf(f))

TakeFrame(f) ==
  /\ f.kind = "tx"
  /\ Verified(f) /\ Allow(f)
  /\ \/ Deduplicated(f) /\ AskDetector(f)
     \/ /\ ~Deduplicated(f) /\ Take(f, "unicast")
        /\ UNCHANGED <<vars, accepted>>

\* Faulty variant: a duplicate is dropped without a word to the tracker.
ReportDuplicateNot(f) ==
  /\ at = "duplicate" /\ frame = {f}
  /\ at' = "idle" /\ frame' = {} /\ consulted' = {}
  /\ UNCHANGED <<vars, live, sent, owed, accepted>>
\* A duplicate is reported where it is found.
ReportDuplicate(f) == at = "duplicate" /\ Report(f)

-----------------------------------------------------------------------------
(* The other ways to egress.                                               *)

\* processBlockFrame and processSubtreeDataFrame: neither filter nor detector.
TakeControl(f) ==
  /\ f.kind \in {"block", "subtree"}
  /\ Take(f, "unicast")
  /\ UNCHANGED <<vars, accepted>>

\* Faulty variant: a reassembled frame is forwarded whatever the filter says.
AllowReassembledAll(f) == TRUE
AllowReassembled(f) == Allow(f)

\* DeliverReassembled consults the filter and not the detector; the callbacks
\* for blocks and subtree data do as for a frame that arrived whole.
TakeReassembled(f) ==
  /\ f.kind = "tx" => AllowReassembled(f)
  /\ Take(f, "unicast")
  /\ UNCHANGED <<vars, accepted>>

\* The filter rejects it, or the frame cannot be encoded again: the callback
\* returns, with nothing sent and nothing reported.
DropReassembled(f) ==
  /\ at = "idle"
  /\ UNCHANGED workerVars

-----------------------------------------------------------------------------
(* Egress.                                                                 *)

Step(from, to) ==
  /\ at = from /\ at' = to
  /\ UNCHANGED <<vars, frame, consulted, live, owed, accepted>>

AfterUnicast(f) ==
  IF f.kind = "tx" /\ MulticastEgress THEN "multicast"
  ELSE IF f.kind = "block" /\ HeaderEgress /\ f.announce THEN "header"
  ELSE "report"

Unicast(f) ==
  /\ frame = {f}
  /\ Step("unicast", AfterUnicast(f))
  /\ sent' = sent \cup {f}

\* Multicast fan-out does not depend on the unicast outcome.
Multicast == Step("multicast", "report") /\ UNCHANGED sent

\* emitBlockHeader
Header == Step("header", "report") /\ UNCHANGED sent

\* Where a frame that was sent is reported.
ReportSent(f) == at = "report" /\ Report(f)

-----------------------------------------------------------------------------
\* The group registry's answers change, see SubtreeGroups.
SubtreesChange ==
  /\ GroupFilter
  /\ live' \in SUBSET Subtrees
  /\ UNCHANGED <<vars, frameVars, sent, accepted>>

Pass == Tick /\ UNCHANGED <<frameVars, live, sent, accepted>>

WorkerNext ==
  \/ \E f \in Frames : DropFrame(f) \/ TakeFrame(f) \/ TakeControl(f)
  \/ \E f \in Reassembled : TakeReassembled(f) \/ DropReassembled(f)
  \/ \E f \in AllFrames : Unicast(f) \/ ReportSent(f) \/ ReportDuplicate(f)
  \/ Multicast \/ Header
  \/ SubtreesChange
  \/ Pass

WorkerSpec == WorkerInit /\ [][WorkerNext]_workerVars
-----------------------------------------------------------------------------
\* The variables keep their shapes, and there is a frame at hand exactly while
\* the worker is not idle.  (The detector's shape is DedupSet's.)
WorkerTypeOK ==
  /\ at \in {"idle", "duplicate", "unicast", "multicast", "header", "report"}
  /\ \/ at = "idle" /\ frame = {}
     \/ at # "idle" /\ \E f \in AllFrames : frame = {f}
  /\ live \subseteq Subtrees /\ consulted \subseteq Subtrees
  /\ sent \subseteq AllFrames
  /\ owed \subseteq {Flow(f) : f \in AllFrames}
  /\ accepted \in [Key -> -1..Capacity]

\* Gap-fill bookkeeping stays accurate: before the worker turns to the next
\* frame it has reported each stamped one that passed verification and filter,
\* from whichever of the two places: a duplicate where it is found, any other
\* frame after its last send, whatever came of that.
TrackerSeesAll == at = "idle" => owed = {}

\* No transaction reaches the downstream, by unicast or multicast, inline or
\* reassembled, that is on the exclude list or outside the shards, or whose
\* subtree was neither included nor announced for a subscribed group when the
\* filter was asked, even if it has been withdrawn while a send blocked.
FilterHolds ==
  \A f \in frame :
    f.kind = "tx" /\ at \in {"unicast", "multicast"}
      => /\ ShardInclude # {} => f.group \in ShardInclude
         /\ f.subtree \notin SubtreeExclude
         /\ SubtreeInclude # {} \/ GroupFilter
              => f.subtree \in SubtreeInclude \cup consulted

\* With deduplication on, a stamped transaction that arrives whole is taken to
\* egress again only when its key has not been presented for more than a TTL,
\* or as many keys as the detector has slots have been accepted meanwhile.
RepeatsOnlyForgotten ==
  [][\A f \in Frames \ Reassembled :
       /\ EgressDedup /\ f.kind = "tx" /\ Stamped(f) /\ f \in sent
       /\ at = "idle" /\ at' = "unicast" /\ frame' = {f}
       => \/ TTL > 0 /\ since[KeyOf(f)] > TTL
          \/ accepted[KeyOf(f)] = Capacity]_workerVars

\* A frame is suppressed as a duplicate only when that very frame has been
\* handed to egress before: no frame vanishes on account of another one.
SuppressedWasSent == at = "duplicate" => frame \subseteq sent
=============================================================================
