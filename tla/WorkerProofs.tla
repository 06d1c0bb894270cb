----------------------------- MODULE WorkerProofs -----------------------------
(***************************************************************************)
(* What leaves the worker passed the filter, what passed is reported to    *)
(* the gap tracker, and what the duplicate detector lets through again is  *)
(* only what it could not remember: for any frames, filter lists, options, *)
(* capacity and TTL, and any changes of the announced subtrees.            *)
(*                                                                         *)
(* The worker's use of the detector is one that DedupSet allows, so that   *)
(* what is proved of it holds here.  The last argument relates the ring to *)
(* the count of acceptances: a slot is at least as old as its key's count  *)
(* says (SlotAges), so that a key leaves the map only when that count has  *)
(* reached the capacity (ForgottenLate), and a transaction that was sent   *)
(* has been counted (SentCounted).                                         *)
(***************************************************************************)
EXTENDS Worker, DedupSetProofs

\* The answers of the detector, and where each leads.
LEMMA TakeOutcome ==
  ASSUME NEW f \in Frames, TakeFrame(f)
  PROVE  \/ /\ Deduplicated(f) /\ Duplicate(KeyOf(f)) /\ SeenAndAdd(KeyOf(f))
            /\ Take(f, "duplicate") /\ accepted' = accepted
         \/ /\ Deduplicated(f) /\ Insert(KeyOf(f)) /\ SeenAndAdd(KeyOf(f))
            /\ Take(f, "unicast") /\ CountAccepted(KeyOf(f))
         \/ /\ ~Deduplicated(f) /\ Take(f, "unicast")
            /\ UNCHANGED <<vars, accepted>>
<1>1. CASE Deduplicated(f) /\ AskDetector(f)
  <2>1. CASE Duplicate(KeyOf(f))
    <3>1. reply' = [key |-> KeyOf(f), dup |-> TRUE]
      BY <2>1 DEF Duplicate
    <3>2. reply'.dup
      BY <3>1
    <3> QED  BY <1>1, <2>1, <3>2 DEF AskDetector
  <2>2. CASE Insert(KeyOf(f))
    <3>1. reply' = [key |-> KeyOf(f), dup |-> FALSE]
      BY <2>2 DEF Insert
    <3>2. ~reply'.dup
      BY <3>1
    <3> QED  BY <1>1, <2>2, <3>2 DEF AskDetector
  <2> QED  BY <1>1, <2>1, <2>2 DEF AskDetector, SeenAndAdd
<1> QED  BY <1>1 DEF TakeFrame

\* The steps of the worker, by what they do to the frame at hand.
LEMMA StepKinds ==
  ASSUME [WorkerNext]_workerVars
  PROVE  \/ UNCHANGED workerVars
         \/ \E f \in Frames : TakeFrame(f)
         \/ \E f \in AllFrames :
              /\ f.kind = "tx" => f \in Reassembled /\ Allow(f)
              /\ Take(f, "unicast") /\ UNCHANGED <<vars, accepted>>
         \/ \E f \in AllFrames : Unicast(f)
         \/ Multicast \/ Header
         \/ \E f \in AllFrames : at \in {"report", "duplicate"} /\ Report(f)
         \/ SubtreesChange
         \/ Pass
<1>1. ASSUME NEW f \in Frames, DropFrame(f) \/ TakeFrame(f) \/ TakeControl(f)
      PROVE  \/ UNCHANGED workerVars
             \/ TakeFrame(f)
             \/ /\ f.kind # "tx" /\ Take(f, "unicast")
                /\ UNCHANGED <<vars, accepted>>
  <2>1. CASE DropFrame(f)
    BY <2>1 DEF DropFrame
  <2>2. CASE TakeControl(f)
    BY <2>2 DEF TakeControl
  <2> QED  BY <1>1, <2>1, <2>2
<1>2. ASSUME NEW f \in Reassembled, TakeReassembled(f) \/ DropReassembled(f)
      PROVE  \/ UNCHANGED workerVars
             \/ /\ f.kind = "tx" => Allow(f)
                /\ Take(f, "unicast") /\ UNCHANGED <<vars, accepted>>
  <2>1. CASE TakeReassembled(f)
    BY <2>1 DEF TakeReassembled, AllowReassembled
  <2>2. CASE DropReassembled(f)
    BY <2>2 DEF DropReassembled
  <2> QED  BY <1>2, <2>1, <2>2
<1>3. ASSUME NEW f \in AllFrames, ReportSent(f) \/ ReportDuplicate(f)
      PROVE  at \in {"report", "duplicate"} /\ Report(f)
  BY <1>3 DEF ReportSent, ReportDuplicate
<1> QED  BY <1>1, <1>2, <1>3 DEF WorkerNext, AllFrames

-----------------------------------------------------------------------------
\* Every step keeps the shapes.
LEMMA WorkerTypeStep ==
  ASSUME WorkerTypeOK, [WorkerNext]_workerVars
  PROVE  WorkerTypeOK'
<1>1. ASSUME NEW f \in AllFrames, NEW step \in {"unicast", "duplicate"}, Take(f, step),
             accepted' \in [Key -> -1..Capacity]
      PROVE  WorkerTypeOK'
  BY <1>1 DEF Take, WorkerTypeOK
<1>2. ASSUME NEW f \in Frames, TakeFrame(f)
      PROVE  WorkerTypeOK'
  <2>1. f \in AllFrames /\ accepted \in [Key -> -1..Capacity]
    BY DEF AllFrames, WorkerTypeOK
  <2>2. CountAccepted(KeyOf(f)) => accepted' \in [Key -> -1..Capacity]
    <3>1. \A n \in 0..(Capacity - 1) : n + 1 \in -1..Capacity
      BY CapacityAssumption
    <3>2. 0 \in -1..Capacity
      BY CapacityAssumption
    <3> QED  BY <2>1, <3>1, <3>2 DEF CountAccepted
  <2> QED  BY <1>1, <1>2, <2>1, <2>2, TakeOutcome
<1>3. ASSUME NEW f \in AllFrames, Unicast(f)
      PROVE  WorkerTypeOK'
  BY <1>3 DEF Unicast, Step, AfterUnicast, WorkerTypeOK
<1>4. CASE Multicast \/ Header
  BY <1>4 DEF Multicast, Header, Step, WorkerTypeOK
<1>5. ASSUME NEW f \in AllFrames, Report(f)
      PROVE  WorkerTypeOK'
  BY <1>5 DEF Report, WorkerTypeOK
<1>6. CASE SubtreesChange \/ Pass \/ UNCHANGED workerVars
  BY <1>6 DEF SubtreesChange, Pass, workerVars, frameVars, WorkerTypeOK
<1> QED
  BY <1>1, <1>2, <1>3, <1>4, <1>5, <1>6, StepKinds DEF WorkerTypeOK

\* The worker's variables keep their shapes, and it has exactly one frame in
\* hand from taking it up to reporting it.
THEOREM WorkerTypeCorrect == WorkerSpec => []WorkerTypeOK
<1>1. WorkerInit => WorkerTypeOK
  BY CapacityAssumption DEF WorkerInit, WorkerTypeOK
<1> QED  BY <1>1, WorkerTypeStep, PTL DEF WorkerSpec

-----------------------------------------------------------------------------
\* Filter.Allow answers by the subtrees that are live at the time, and what is
\* taken to egress has been allowed; the sends do not look at them again.
LEMMA FilterStep ==
  ASSUME FilterHolds, [WorkerNext]_workerVars
  PROVE  FilterHolds'
<1>1. ASSUME NEW f, NEW step, Take(f, step), f.kind = "tx" => Allow(f)
      PROVE  FilterHolds'
  BY <1>1 DEF Take, Allow, FilterHolds
<1>2. ASSUME NEW f \in Frames, TakeFrame(f)
      PROVE  FilterHolds'
  <2>1. Allow(f)
    BY <1>2 DEF TakeFrame
  <2> QED  BY <1>1, <1>2, <2>1, TakeOutcome
<1>3. ASSUME NEW f, Unicast(f)
      PROVE  FilterHolds'
  BY <1>3 DEF Unicast, Step, FilterHolds
<1>4. CASE Multicast \/ Header
  BY <1>4 DEF Multicast, Header, Step, FilterHolds
<1>5. ASSUME NEW f, Report(f)
      PROVE  FilterHolds'
  BY <1>5 DEF Report, FilterHolds
<1>6. CASE SubtreesChange \/ Pass \/ UNCHANGED workerVars
  BY <1>6 DEF SubtreesChange, Pass, workerVars, frameVars, FilterHolds
<1> QED  BY <1>1, <1>2, <1>3, <1>4, <1>5, <1>6, StepKinds

\* Neither a whole nor a reassembled transaction reaches the downstream, by
\* unicast or multicast, that the shard list, the exclude list, the include
\* list and the subtrees announced when it arrived do not allow (listener.go,
\* processFrame and DeliverReassembled; filter.go, Allow).
THEOREM FilterCorrect == WorkerSpec => []FilterHolds
<1>1. WorkerInit => FilterHolds
  BY DEF WorkerInit, FilterHolds
<1> QED  BY <1>1, FilterStep, PTL DEF WorkerSpec

-----------------------------------------------------------------------------
\* Nothing is owed to the tracker but the frame at hand.
OwesOne ==
  /\ at = "idle" => owed = {}
  /\ owed \subseteq {Flow(f) : f \in frame}

\* Every step keeps it: a frame is owed from when it is taken to when it is
\* reported, at either of the two places.
LEMMA OwesStep ==
  ASSUME OwesOne, [WorkerNext]_workerVars
  PROVE  OwesOne'
<1>1. ASSUME NEW f, NEW step \in {"unicast", "duplicate"}, Take(f, step)
      PROVE  OwesOne'
  BY <1>1 DEF Take, OwesOne
<1>2. ASSUME NEW f \in Frames, TakeFrame(f)
      PROVE  OwesOne'
  BY <1>1, <1>2, TakeOutcome
<1>3. ASSUME NEW f, Unicast(f)
      PROVE  OwesOne'
  BY <1>3 DEF Unicast, Step, AfterUnicast, OwesOne
<1>4. CASE Multicast \/ Header
  BY <1>4 DEF Multicast, Header, Step, OwesOne
<1>5. ASSUME NEW f, Report(f)
      PROVE  OwesOne'
  BY <1>5 DEF Report, OwesOne
<1>6. CASE SubtreesChange \/ Pass \/ UNCHANGED workerVars
  BY <1>6 DEF SubtreesChange, Pass, workerVars, frameVars, OwesOne
<1> QED  BY <1>1, <1>2, <1>3, <1>4, <1>5, <1>6, StepKinds

\* Every stamped frame that passed is reported to the tracker before the worker
\* turns to the next, duplicates and frames whose sends failed included.
THEOREM TrackerCorrect == WorkerSpec => []TrackerSeesAll
<1>1. WorkerInit => OwesOne
  BY DEF WorkerInit, OwesOne
<1>2. OwesOne => TrackerSeesAll
  BY DEF OwesOne, TrackerSeesAll
<1> QED  BY <1>1, <1>2, OwesStep, PTL DEF WorkerSpec

-----------------------------------------------------------------------------
(***************************************************************************)
(* The duplicate detector in its place on the frame path.                  *)
(***************************************************************************)
\* A step of the worker is one that the detector allows, or none of it.
LEMMA DetectorStep ==
  ASSUME [WorkerNext]_workerVars
  PROVE  [Next]_vars
<1>1. ASSUME NEW f \in Frames, TakeFrame(f)
      PROVE  [Next]_vars
  <2>1. KeyOf(f) \in Key
    BY FrameAssumption DEF IsFrame, AllFrames
  <2> QED  BY <1>1, <2>1, TakeOutcome DEF Next
<1>2. ASSUME NEW f, Unicast(f) \/ Report(f)
      PROVE  UNCHANGED vars
  BY <1>2 DEF Unicast, Step, Report
<1>3. CASE Multicast \/ Header \/ SubtreesChange \/ UNCHANGED workerVars
  BY <1>3 DEF Multicast, Header, Step, SubtreesChange, workerVars
<1>4. CASE Pass
  BY <1>4 DEF Pass, Next
<1> QED  BY <1>1, <1>2, <1>3, <1>4, StepKinds

\* The worker drives its duplicate detector only through SeenAndAdd, with keys
\* it builds from frames, and time: its behaviours are behaviours of DedupSet.
THEOREM DetectorUsed == WorkerSpec => Spec
<1>1. WorkerInit => Init
  BY DEF WorkerInit
<1> QED  BY <1>1, DetectorStep, PTL DEF WorkerSpec, Spec

\* So the worker's detector keeps its promises, whatever frames arrive, repeat
\* and fail to be sent: its map leaks no key and stays within its capacity, a
\* frame is suppressed only if its key was presented at most a TTL before, and
\* what it remembers is a sliding window over the keys it accepted.
THEOREM DetectorCorrect ==
  WorkerSpec => /\ [](NothingLeaks /\ MemoryBounded)
                /\ SuppressesOnlyRecent
                /\ ImplementsWindow
BY DetectorUsed, LeakFree, Bounded, RecentOnly, Refinement, PTL

\* The frames about which processFrame may ask the detector: whatever the
\* announced subtrees, the others fail their hash or a static list before.
Candidates ==
  {f \in Frames : /\ f.kind = "tx" /\ Stamped(f)
                  /\ VerifyPayloadHash => f.intact
                  /\ ShardInclude # {} => f.group \in ShardInclude
                  /\ f.subtree \notin SubtreeExclude}

\* No two frames share a key: one sender to a group and subtree.
KeysTellApart == \A f, g \in Candidates : KeyOf(f) = KeyOf(g) => f = g

\* Only a candidate reaches the detector.
LEMMA CandidateOnly ==
  ASSUME NEW f \in Frames, TakeFrame(f), Deduplicated(f)
  PROVE  f \in Candidates
BY DEF TakeFrame, Verified, Deduplicated, Candidates, Stamped, Allow

\* Handed to egress, or about to be.
Leaving == sent \cup (IF at = "unicast" THEN frame ELSE {})

\* Every key the detector holds is that of a frame handed to egress.
SentInv ==
  /\ \A k \in DOMAIN entries : \E f \in Leaving \cap Candidates : KeyOf(f) = k
  /\ at = "idle" => frame = {}
  /\ SuppressedWasSent

\* Every step keeps the held keys those of frames sent.
LEMMA SentStep ==
  ASSUME KeysTellApart, SentInv, [WorkerNext]_workerVars
  PROVE  SentInv'
<1>1. ASSUME NEW f, NEW step \in {"unicast", "duplicate"}, Take(f, step)
      PROVE  /\ Leaving = sent
             /\ sent \subseteq Leaving' /\ (step = "unicast" => f \in Leaving')
             /\ at' = step /\ frame' = {f} /\ sent' = sent
  BY <1>1 DEF Take, Leaving
<1>2. ASSUME NEW f \in Frames, TakeFrame(f)
      PROVE  SentInv'
  <2>1. CASE Deduplicated(f) /\ Duplicate(KeyOf(f)) /\ Take(f, "duplicate")
    <3>1. f \in Candidates
      BY <1>2, <2>1, CandidateOnly
    <3>2. KeyOf(f) \in DOMAIN entries /\ DOMAIN entries' = DOMAIN entries
      BY <2>1 DEF Duplicate, Remembered
    <3>3. f \in sent
      BY <1>1, <2>1, <3>1, <3>2 DEF SentInv, KeysTellApart
    <3> QED  BY <1>1, <2>1, <3>2, <3>3 DEF SentInv, SuppressedWasSent
  <2>2. CASE Deduplicated(f) /\ Insert(KeyOf(f)) /\ Take(f, "unicast")
    <3>1. f \in Candidates
      BY <1>2, <2>2, CandidateOnly
    <3>2. DOMAIN entries' \subseteq DOMAIN entries \cup {KeyOf(f)}
      BY <2>2 DEF Insert, Kept
    <3> QED  BY <1>1, <2>2, <3>1, <3>2 DEF SentInv, SuppressedWasSent
  <2>3. CASE Take(f, "unicast") /\ UNCHANGED <<vars, accepted>>
    BY <1>1, <2>3 DEF SentInv, SuppressedWasSent, vars
  <2> QED  BY <1>2, <2>1, <2>2, <2>3, TakeOutcome
<1>3. ASSUME NEW f, Take(f, "unicast") /\ UNCHANGED <<vars, accepted>>
      PROVE  SentInv'
  BY <1>1, <1>3 DEF SentInv, SuppressedWasSent, vars
<1>4. ASSUME NEW f, Unicast(f)
      PROVE  SentInv'
  BY <1>4 DEF Unicast, Step, AfterUnicast, vars, SentInv, SuppressedWasSent, Leaving
<1>5. CASE Multicast \/ Header
  BY <1>5 DEF Multicast, Header, Step, vars, SentInv, SuppressedWasSent, Leaving
<1>6. ASSUME NEW f, at \in {"report", "duplicate"}, Report(f)
      PROVE  SentInv'
  BY <1>6 DEF Report, vars, SentInv, SuppressedWasSent, Leaving
<1>7. CASE SubtreesChange \/ UNCHANGED workerVars
  BY <1>7 DEF SubtreesChange, workerVars, frameVars, vars, SentInv, SuppressedWasSent,
              Leaving
<1>8. CASE Pass
  BY <1>8 DEF Pass, Tick, frameVars, SentInv, SuppressedWasSent, Leaving
<1> QED  BY <1>2, <1>3, <1>4, <1>5, <1>6, <1>7, <1>8, StepKinds

\* As long as no two frames share a key, whatever the detector's capacity and
\* TTL, what it suppresses has been handed to egress (the run with two senders
\* shows that the hypothesis is needed).
THEOREM SuppressionSound ==
  ASSUME KeysTellApart
  PROVE  WorkerSpec => []SuppressedWasSent
<1>1. WorkerInit => SentInv
  BY DEF WorkerInit, Init, SentInv, SuppressedWasSent
<1>2. SentInv /\ [WorkerNext]_workerVars => SentInv'
  BY SentStep
<1>3. SentInv => SuppressedWasSent
  BY DEF SentInv
<1> QED  BY <1>1, <1>2, <1>3, PTL DEF WorkerSpec

-----------------------------------------------------------------------------
(* How long the detector remembers.                                        *)

\* How many keys were accepted after the one in slot i.
Age(i) == IF i < head THEN head - 1 - i ELSE head - 1 - i + Capacity

\* A key in the ring has been counted since its slot was written, or longer.
SlotAges == \A i \in 0..(count - 1) : accepted[ring[i]] >= Age(i)

\* A key that was accepted leaves the map only after Capacity acceptances.
ForgottenLate ==
  \A k \in Key : accepted[k] >= 0 /\ k \notin DOMAIN entries => accepted[k] = Capacity

\* A stamped transaction that arrived whole and was sent has been counted.
SentCounted ==
  \A f \in (Frames \ Reassembled) \cap Leaving :
    EgressDedup /\ f.kind = "tx" /\ Stamped(f) => accepted[KeyOf(f)] >= 0

\* An insertion makes every other slot older by one, and the slot it takes is
\* the oldest of a full ring.
LEMMA AgesShift ==
  ASSUME TypeOK, NEW k \in Key, Insert(k)
  PROVE  /\ \A i \in Position : i = head => Age(i)' = 0
         /\ \A i \in 0..(count' - 1) \ {head} :
              i \in 0..(count - 1) /\ Age(i) \in 0..(Capacity - 2) /\ Age(i)' = Age(i) + 1
         /\ count = Capacity => head \in 0..(count - 1) /\ Age(head) = Capacity - 1
<1> USE CapacityAssumption
<1>1. /\ head \in Position /\ count \in 0..Capacity
      /\ count < Capacity => head = count
  BY DEF TypeOK
<1>2. head' = IF head + 1 < Capacity THEN head + 1 ELSE 0
  BY <1>1 DEF Insert, Position
<1>3. count' = IF count = Capacity THEN count ELSE count + 1
  BY DEF Insert, CountAfterInsert
<1>4. \A i \in Position : i = head => Age(i)' = 0
  BY <1>1, <1>2 DEF Age, Position
<1>5. ASSUME NEW i \in 0..(count' - 1) \ {head}
      PROVE  i \in 0..(count - 1) /\ Age(i) \in 0..(Capacity - 2) /\ Age(i)' = Age(i) + 1
  BY <1>1, <1>2, <1>3, <1>5 DEF Age, Position
<1>6. count = Capacity => head \in 0..(count - 1) /\ Age(head) = Capacity - 1
  BY <1>1 DEF Age, Position
<1> QED  BY <1>4, <1>5, <1>6

\* An insertion counts for every key that was accepted before, and for a key
\* in the ring among them.
LEMMA CountsMove ==
  ASSUME WorkerTypeOK, NEW key \in Key, CountAccepted(key)
  PROVE  \A k \in Key :
           /\ accepted[k] \in -1..Capacity /\ accepted'[k] \in -1..Capacity
           /\ accepted[k] >= 0 /\ (k # key \/ k \in InRing) =>
                accepted'[k] = IF accepted[k] < Capacity THEN accepted[k] + 1 ELSE Capacity
           /\ accepted[k] >= 0 => accepted'[k] >= 0
           /\ accepted[k] = -1 /\ k # key => accepted'[k] = -1
           /\ k = key /\ k \notin InRing => accepted'[k] = 0
<1> SUFFICES ASSUME NEW k \in Key
             PROVE  /\ accepted[k] \in -1..Capacity /\ accepted'[k] \in -1..Capacity
                    /\ accepted[k] >= 0 /\ (k # key \/ k \in InRing) =>
                         accepted'[k] = IF accepted[k] < Capacity THEN accepted[k] + 1
                                        ELSE Capacity
                    /\ accepted[k] >= 0 => accepted'[k] >= 0
                    /\ accepted[k] = -1 /\ k # key => accepted'[k] = -1
                    /\ k = key /\ k \notin InRing => accepted'[k] = 0
  OBVIOUS
<1>1. accepted[k] \in -1..Capacity
  BY DEF WorkerTypeOK
<1>2. accepted'[k] = IF k = key /\ k \notin InRing THEN 0
                     ELSE IF accepted[k] \in 0..(Capacity - 1)
                       THEN accepted[k] + 1 ELSE accepted[k]
  BY DEF CountAccepted
<1> QED  BY <1>1, <1>2, CapacityAssumption

\* An insertion keeps the ages of the slots and the time to forget.
LEMMA InsertAges ==
  ASSUME TypeOK, WorkerTypeOK, NEW k \in Key, Insert(k), CountAccepted(k),
         SlotAges, ForgottenLate
  PROVE  SlotAges' /\ ForgottenLate' /\ accepted'[k] >= 0
<1> USE CapacityAssumption
<1>1. /\ head \in Position /\ count \in 0..Capacity
      /\ \A i \in 0..(count - 1) : ring[i] \in Key
  BY DEF TypeOK
<1>2. k \in InRing => accepted[k] >= 0
  <2> SUFFICES ASSUME k \in InRing PROVE accepted[k] >= 0
    OBVIOUS
  <2>1. PICK i \in 0..(count - 1) : ring[i] = k
    BY DEF InRing
  <2>2. accepted[k] >= Age(i) /\ Age(i) \in Nat
    BY <1>1, <2>1 DEF SlotAges, Age, TypeOK, Position
  <2>3. accepted[k] \in -1..Capacity
    BY DEF WorkerTypeOK
  <2> QED  BY <2>2, <2>3
<1>3. accepted'[k] >= 0
  BY <1>2, CountsMove
<1>4. SlotAges'
  <2> SUFFICES ASSUME NEW i \in 0..(count' - 1)
               PROVE  accepted'[ring'[i]] >= Age(i)'
    BY DEF SlotAges
  <2>1. CASE i = head
    <3>1. ring'[i] = k /\ Age(i)' = 0
      BY <1>1, <2>1, InsertRing, AgesShift
    <3> QED  BY <1>3, <3>1
  <2>2. CASE i # head
    <3>1. /\ i \in 0..(count - 1) /\ ring'[i] = ring[i]
          /\ Age(i) \in 0..(Capacity - 2) /\ Age(i)' = Age(i) + 1
      BY <2>2, InsertRing, AgesShift
    <3>2. /\ ring[i] \in Key /\ ring[i] \in InRing
          /\ accepted[ring[i]] >= Age(i)
      BY <1>1, <3>1 DEF InRing, SlotAges
    <3>3. accepted[ring[i]] \in -1..Capacity
      BY <3>2 DEF WorkerTypeOK
    <3>4. accepted[ring[i]] >= 0
      BY <3>1, <3>2, <3>3
    <3>5. accepted'[ring[i]] = IF accepted[ring[i]] < Capacity
                                 THEN accepted[ring[i]] + 1 ELSE Capacity
      BY <3>2, <3>4, CountsMove
    <3> QED  BY <3>1, <3>2, <3>3, <3>5
  <2> QED  BY <2>1, <2>2
<1>5. ForgottenLate'
  <2> SUFFICES ASSUME NEW o \in Key, accepted'[o] >= 0, o \notin DOMAIN entries'
               PROVE  accepted'[o] = Capacity
    BY DEF ForgottenLate
  <2>1. DOMAIN entries' = Kept(k) \cup {k}
    BY DEF Insert
  <2>2. o # k /\ accepted[o] \in -1..Capacity /\ accepted[o] >= 0
    BY <2>1, CountsMove
  <2>3. accepted'[o] = IF accepted[o] < Capacity THEN accepted[o] + 1 ELSE Capacity
    BY <2>2, CountsMove
  <2>4. CASE o \notin DOMAIN entries
    BY <2>2, <2>3, <2>4 DEF ForgottenLate
  <2>5. CASE o \in DOMAIN entries
    <3>1. count = Capacity /\ o = ring[head]
      BY <2>1, <2>5 DEF Kept
    <3>2. head \in 0..(count - 1) /\ Age(head) = Capacity - 1
      BY <3>1, AgesShift
    <3>3. accepted[o] >= Capacity - 1
      BY <3>1, <3>2 DEF SlotAges
    <3> QED  BY <2>2, <2>3, <3>3
  <2> QED  BY <2>4, <2>5
<1> QED  BY <1>3, <1>4, <1>5

RepeatInv == /\ TypeOK /\ AgeKnown
             /\ WorkerTypeOK /\ SlotAges /\ ForgottenLate /\ SentCounted

\* Every step keeps the ages, the counts and the frames sent in agreement.
LEMMA RepeatStep ==
  ASSUME RepeatInv, [WorkerNext]_workerVars
  PROVE  RepeatInv'
<1>1. TypeOK' /\ AgeKnown' /\ WorkerTypeOK'
  BY DetectorStep, TypeStep, AgeStep, WorkerTypeStep DEF RepeatInv
<1>2. ASSUME UNCHANGED <<ring, head, count, accepted>>, DOMAIN entries' = DOMAIN entries
      PROVE  SlotAges' /\ ForgottenLate'
  BY <1>2 DEF RepeatInv, SlotAges, ForgottenLate, Age
<1>3. ASSUME UNCHANGED accepted, Leaving' \subseteq Leaving
      PROVE  SentCounted'
  BY <1>3 DEF RepeatInv, SentCounted
<1>4. ASSUME NEW f \in AllFrames, NEW step \in {"unicast", "duplicate"}, Take(f, step)
      PROVE  /\ Leaving = sent
             /\ Leaving' = sent \cup (IF step = "unicast" THEN {f} ELSE {})
  BY <1>4 DEF Take, Leaving
<1>5. ASSUME NEW f \in Frames, TakeFrame(f)
      PROVE  RepeatInv'
  <2>0. f \in AllFrames /\ KeyOf(f) \in Key
    BY FrameAssumption DEF IsFrame, AllFrames
  <2>1. CASE Duplicate(KeyOf(f)) /\ Take(f, "duplicate") /\ accepted' = accepted
    <3>1. DOMAIN entries' = DOMAIN entries /\ UNCHANGED <<ring, head, count>>
      BY <2>1 DEF Duplicate
    <3>2. Leaving' \subseteq Leaving
      BY <1>4, <2>0, <2>1
    <3> QED  BY <1>1, <1>2, <1>3, <2>1, <3>1, <3>2 DEF RepeatInv
  <2>2. CASE Insert(KeyOf(f)) /\ Take(f, "unicast") /\ CountAccepted(KeyOf(f))
    <3>1. SlotAges' /\ ForgottenLate' /\ accepted'[KeyOf(f)] >= 0
      BY <2>0, <2>2, InsertAges DEF RepeatInv
    <3>2. SentCounted'
      <4> SUFFICES ASSUME NEW g \in (Frames \ Reassembled) \cap Leaving',
                          EgressDedup, g.kind = "tx", Stamped(g)
                   PROVE  accepted'[KeyOf(g)] >= 0
        BY DEF SentCounted
      <4>1. CASE g = f
        BY <3>1, <4>1
      <4>2. CASE g # f
        <5>1. g \in Leaving /\ KeyOf(g) \in Key
          BY <1>4, <2>0, <2>2, <4>2, FrameAssumption DEF IsFrame, AllFrames
        <5>2. accepted[KeyOf(g)] >= 0
          BY <5>1 DEF RepeatInv, SentCounted
        <5> QED  BY <2>0, <2>2, <5>1, <5>2, CountsMove DEF RepeatInv
      <4> QED  BY <4>1, <4>2
    <3> QED  BY <1>1, <3>1, <3>2 DEF RepeatInv
  <2>3. CASE ~Deduplicated(f) /\ Take(f, "unicast") /\ UNCHANGED <<vars, accepted>>
    <3>1. SlotAges' /\ ForgottenLate'
      BY <1>2, <2>3 DEF vars
    <3>2. SentCounted'
      BY <1>4, <2>0, <2>3 DEF RepeatInv, SentCounted, Deduplicated
    <3> QED  BY <1>1, <3>1, <3>2 DEF RepeatInv
  <2> QED  BY <1>5, <2>1, <2>2, <2>3, TakeOutcome
<1>6. ASSUME NEW f \in AllFrames, f.kind = "tx" => f \in Reassembled,
             Take(f, "unicast"), UNCHANGED <<vars, accepted>>
      PROVE  RepeatInv'
  <2>1. SlotAges' /\ ForgottenLate'
    BY <1>2, <1>6 DEF vars
  <2>2. SentCounted'
    BY <1>4, <1>6 DEF RepeatInv, SentCounted
  <2> QED  BY <1>1, <2>1, <2>2 DEF RepeatInv
<1>7. ASSUME NEW f \in AllFrames, Unicast(f)
      PROVE  RepeatInv'
  <2>1. UNCHANGED <<ring, head, count, accepted>> /\ DOMAIN entries' = DOMAIN entries
    BY <1>7 DEF Unicast, Step, vars
  <2>2. Leaving' \subseteq Leaving
    BY <1>7 DEF Unicast, Step, AfterUnicast, Leaving
  <2> QED  BY <1>1, <1>2, <1>3, <2>1, <2>2 DEF RepeatInv
<1>8. ASSUME Multicast \/ Header \/ SubtreesChange \/ UNCHANGED workerVars
             \/ \E f \in AllFrames : at \in {"report", "duplicate"} /\ Report(f)
      PROVE  RepeatInv'
  <2>1. UNCHANGED <<ring, head, count, accepted>> /\ DOMAIN entries' = DOMAIN entries
    BY <1>8 DEF Multicast, Header, Step, SubtreesChange, Report, workerVars, vars
  <2>2. Leaving' \subseteq Leaving
    BY <1>8 DEF Multicast, Header, Step, SubtreesChange, Report, workerVars, frameVars,
                Leaving
  <2> QED  BY <1>1, <1>2, <1>3, <2>1, <2>2 DEF RepeatInv
<1>9. CASE Pass
  <2>1. UNCHANGED <<ring, head, count, accepted>> /\ DOMAIN entries' = DOMAIN entries
    BY <1>9 DEF Pass, Tick
  <2>2. Leaving' \subseteq Leaving
    BY <1>9 DEF Pass, frameVars, Leaving
  <2> QED  BY <1>1, <1>2, <1>3, <2>1, <2>2 DEF RepeatInv
<1> QED  BY <1>5, <1>6, <1>7, <1>8, <1>9, StepKinds

\* What is taken to egress although it was sent before has been forgotten.
LEMMA RepeatForgotten ==
  ASSUME RepeatInv, [WorkerNext]_workerVars, NEW f \in Frames \ Reassembled,
         EgressDedup, f.kind = "tx", Stamped(f), f \in sent,
         at = "idle", at' = "unicast", frame' = {f}
  PROVE  \/ TTL > 0 /\ since[KeyOf(f)] > TTL
         \/ accepted[KeyOf(f)] = Capacity
<1>1. KeyOf(f) \in Key /\ accepted[KeyOf(f)] >= 0
  BY FrameAssumption DEF IsFrame, AllFrames, RepeatInv, SentCounted, Leaving
<1>2. TakeFrame(f)
  <2>1. ASSUME NEW g \in AllFrames, Unicast(g) \/ Report(g)
        PROVE  FALSE
    BY <2>1 DEF Unicast, Step, Report
  <2>2. CASE Multicast \/ Header \/ SubtreesChange \/ Pass \/ UNCHANGED workerVars
    BY <2>2 DEF Multicast, Header, Step, SubtreesChange, Pass, workerVars, frameVars
  <2>3. ASSUME NEW g \in AllFrames, Take(g, "unicast")
        PROVE  g = f
    BY <2>3 DEF Take
  <2>4. ASSUME NEW g \in Frames, TakeFrame(g)
        PROVE  g = f
    BY <2>4, TakeOutcome DEF Take
  <2> QED  BY <2>1, <2>2, <2>3, <2>4, StepKinds
<1>3. Insert(KeyOf(f))
  BY <1>2, TakeOutcome DEF Take, Deduplicated
<1>4. CASE KeyOf(f) \notin DOMAIN entries
  BY <1>1, <1>4 DEF RepeatInv, ForgottenLate
<1>5. CASE KeyOf(f) \in DOMAIN entries
  <2>1. TTL # 0 /\ ~(entries[KeyOf(f)] >= 0)
    BY <1>3, <1>5 DEF Insert, Remembered
  <2>2. entries[KeyOf(f)] \in -1..TTL
    BY <1>5 DEF RepeatInv, TypeOK
  <2>3. TTL > 0 /\ entries[KeyOf(f)] < 0
    BY <2>1, <2>2, TTLAssumption
  <2> QED  BY <1>5, <2>3 DEF RepeatInv, AgeKnown
<1> QED  BY <1>4, <1>5

\* A stamped transaction that arrives whole, any number of times, is sent again
\* only when its key was last presented more than a TTL ago or as many keys as
\* the detector has slots were accepted since, for every capacity and TTL and
\* whatever else arrives, lapses and fails to be sent.
THEOREM RepeatsCorrect == WorkerSpec => RepeatsOnlyForgotten
<1>1. WorkerInit => RepeatInv
  <2> SUFFICES ASSUME WorkerInit PROVE RepeatInv
    OBVIOUS
  <2>1. TypeOK
    BY CapacityAssumption, TTLAssumption DEF WorkerInit, Init, TypeOK, Position
  <2>2. AgeKnown
    BY DEF WorkerInit, Init, AgeKnown
  <2>3. WorkerTypeOK
    BY CapacityAssumption DEF WorkerInit, WorkerTypeOK
  <2>4. SlotAges
    BY DEF WorkerInit, Init, SlotAges
  <2>5. ForgottenLate /\ SentCounted
    BY DEF WorkerInit, ForgottenLate, SentCounted, Leaving
  <2> QED  BY <2>1, <2>2, <2>3, <2>4, <2>5 DEF RepeatInv
<1>2. RepeatInv /\ [WorkerNext]_workerVars
        => [\A f \in Frames \ Reassembled :
              /\ EgressDedup /\ f.kind = "tx" /\ Stamped(f) /\ f \in sent
              /\ at = "idle" /\ at' = "unicast" /\ frame' = {f}
              => \/ TTL > 0 /\ since[KeyOf(f)] > TTL
                 \/ accepted[KeyOf(f)] = Capacity]_workerVars
  BY RepeatForgotten
<1> QED  BY <1>1, <1>2, RepeatStep, PTL DEF WorkerSpec, RepeatsOnlyForgotten
=============================================================================
