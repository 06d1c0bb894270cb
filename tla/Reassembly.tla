----------------------------- MODULE Reassembly -----------------------------
(***************************************************************************)
(* The fragment reassembly buffer of reassembly/reassembly.go.             *)
(*                                                                         *)
(* A worker calls Observe for every BRC-130 fragment; main.go calls Tick   *)
(* once a second from a goroutine of its own.  Each call holds the         *)
(* buffer's mutex, the completion callbacks included, so each is one       *)
(* action.  `slots' is the map of incomplete payloads, `insertOrder' the   *)
(* FIFO of their ids from which expiry and eviction work.  A completed     *)
(* slot leaves the map at once and the FIFO only when it is next compacted.*)
(*                                                                         *)
(* The bytes of a fragment are abstracted to whether they are the right    *)
(* ones: a payload hashes to its id iff every fragment is intact.          *)
(*                                                                         *)
(* Time.  A slot stores the ticks left until its deadline; -1 means that   *)
(* now.After(deadline) holds.                                              *)
(***************************************************************************)
EXTENDS Integers, Sequences, SequencesExt, FiniteSets, Functions

CONSTANTS
  TxID,           \* the TxID field: the id of a transaction, block or subtree
  Fragments,      \* the fragments that may arrive
  LenModulus,     \* 2^32, the range of OrigPayloadLen
  MaxSlots, TTL,
  VerifyHash, VerifyMerkle,
  MaxStarted      \* bound of the model: slots opened

\* The versions of the frame a fragment is a part of; V2 stands for every
\* value of OrigFrameVer other than 4 and 5.
Version == {"V2", "V4", "V5"}

ASSUME BufferAssumption ==
  /\ MaxSlots \in Nat \ {0} /\ TTL \in Nat \ {0}
  /\ VerifyHash \in BOOLEAN /\ VerifyMerkle \in BOOLEAN
  /\ MaxStarted \in Nat
ASSUME FragmentAssumption ==
  \A f \in Fragments :
    /\ f.txID \in TxID /\ f.ver \in Version /\ f.intact \in BOOLEAN
    /\ f.total \in Nat /\ f.index \in Nat /\ f.len \in 0..(LenModulus - 1)

VARIABLES
  slots,         \* Buffer.slots, by TxID
  insertOrder,   \* Buffer.insertOrder
  started, abandoned, mismatched,   \* the metrics hooks
  delivered,     \* calls of the three completion callbacks
  last           \* history: the slot completed last, if any, as a set

vars == <<slots, insertOrder, started, abandoned, mismatched, delivered, last>>

Init ==
  /\ slots = [t \in {} |-> 0]
  /\ insertOrder = <<>>
  /\ started = 0 /\ abandoned = 0 /\ mismatched = 0 /\ delivered = 0
  /\ last = {}

\* A map with one more entry, or with another one for the key.
Put(map, key, value) ==
  [k \in DOMAIN map \cup {key} |-> IF k = key THEN value ELSE map[k]]

\* The ids of `order' that are in `keep', in their order: the k-th of them is
\* the one at the position up to which there are k.
Compact(order, keep) ==
  LET upTo(i) == {j \in 1..i : order[j] \in keep}
      at(k) == CHOOSE i \in 1..Len(order) :
                 order[i] \in keep /\ Cardinality(upTo(i)) = k
  IN [k \in 1..Cardinality(upTo(Len(order))) |-> order[at(k)]]

Expired(t) == slots[t].deadline < 0

\* Faulty variant: no slot ever expires.
LiveForever == DOMAIN slots
\* The ids evictExpired, which finds the slots through the FIFO, leaves in the
\* map ...
Live == {t \in DOMAIN slots : Expired(t) => t \notin ToSet(insertOrder)}

\* Faulty variant: the FIFO is not compacted, so completed ids stay in it.
OrderKept == insertOrder
\* ... and the FIFO it leaves.
Compacted == Compact(insertOrder, Live)

\* Faulty variant: expiry is not counted.
ExpiredUncounted == 0
NumExpired == Cardinality(DOMAIN slots \ Live)

\* Faulty variant: eviction takes the youngest slot.
YoungestInOrder(order) == IF order = <<>> THEN {} ELSE {order[Len(order)]}
\* evictOldest: the first id of the FIFO that is still in the map.
OldestInOrder(order) ==
  LET i == SelectInSeq(order, LAMBDA t : t \in Live)
  IN IF i = 0 THEN {} ELSE {order[i]}

Full == Cardinality(Live) >= MaxSlots

\* The metadata on which Observe refuses to open a slot.
Pathological(f) ==
  \/ f.total = 0 \/ f.index >= f.total
  \/ f.len = 0 \/ f.total > (f.len + 1) % LenModulus

\* Faulty variant: the payload is delivered without being hashed.
NeverCorrupt(slot) == FALSE
\* complete: a V2 payload that does not hash to its id.
Corrupt(slot) ==
  /\ slot.ver = "V2" /\ VerifyHash
  /\ \E i \in DOMAIN slot.frags : ~slot.frags[i]

Complete(slot) == Cardinality(DOMAIN slot.frags) = slot.total

\* The tail of Observe: the fragment goes into slot.frags, which maps the
\* indices received so far to whether their bytes are intact, and a slot that is then
\* complete is delivered, or dropped if its hash is wrong, and leaves the map.
\* base is the map without the slot.
Store(base, slot, f) ==
  LET new == [slot EXCEPT !.frags = Put(@, f.index, f.intact)]
  IN IF Complete(new)
       THEN /\ slots' = base
            /\ last' = {[slot |-> new, ok |-> ~Corrupt(new)]}
            /\ mismatched' = mismatched + (IF Corrupt(new) THEN 1 ELSE 0)
            /\ delivered' = delivered + (IF Corrupt(new) THEN 0 ELSE 1)
       ELSE /\ slots' = Put(base, f.txID, new)
            /\ UNCHANGED <<last, mismatched, delivered>>

\* A fragment that opens no slot, that disagrees with its slot, or that its
\* slot already has: only the eviction of expired slots takes effect.
ObserveIgnored(f) ==
  /\ IF f.txID \in Live
       THEN \/ f.total # slots[f.txID].total
            \/ f.index >= slots[f.txID].total
            \/ f.index \in DOMAIN slots[f.txID].frags
       ELSE Pathological(f)
  /\ slots' = Restrict(slots, Live)
  /\ insertOrder' = Compacted
  /\ abandoned' = abandoned + NumExpired
  /\ UNCHANGED <<started, mismatched, delivered, last>>

\* A new fragment of a payload that has a slot.
ObserveNext(f) ==
  /\ f.txID \in Live
  /\ f.total = slots[f.txID].total
  /\ f.index < slots[f.txID].total
  /\ f.index \notin DOMAIN slots[f.txID].frags
  /\ Store(Restrict(slots, Live \ {f.txID}), slots[f.txID], f)
  /\ insertOrder' = Compacted
  /\ abandoned' = abandoned + NumExpired
  /\ UNCHANGED started

\* The first fragment of a payload opens a slot, at the cost of the oldest one
\* when the buffer is full.
ObserveFirst(f) ==
  LET victim == IF Full THEN OldestInOrder(Compacted) ELSE {}
      slot == [ver |-> f.ver, total |-> f.total, len |-> f.len,
               deadline |-> TTL,
               born |-> started + 1,   \* history: its place among all slots
               frags |-> [i \in {} |-> TRUE]]
  IN /\ started < MaxStarted
     /\ f.txID \notin Live /\ ~Pathological(f)
     /\ Store(Restrict(slots, Live \ victim), slot, f)
     /\ insertOrder' = Append(
          RemoveFirstMatch(Compacted, LAMBDA t : t \in victim), f.txID)
     /\ abandoned' = abandoned + NumExpired + Cardinality(victim)
     /\ started' = started + 1

Observe == \E f \in Fragments :
             ObserveIgnored(f) \/ ObserveNext(f) \/ ObserveFirst(f)

\* Buffer.Tick
BackgroundTick ==
  /\ slots' = Restrict(slots, Live)
  /\ insertOrder' = Compacted
  /\ abandoned' = abandoned + NumExpired
  /\ UNCHANGED <<started, mismatched, delivered, last>>

Purge ==
  /\ slots' = [t \in {} |-> 0]
  /\ insertOrder' = <<>>
  /\ abandoned' = abandoned + Cardinality(DOMAIN slots)
  /\ UNCHANGED <<started, mismatched, delivered, last>>

TimePasses ==
  /\ slots' = [t \in DOMAIN slots |->
                 [slots[t] EXCEPT !.deadline = IF Expired(t) THEN -1 ELSE @ - 1]]
  /\ UNCHANGED <<insertOrder, started, abandoned, mismatched, delivered, last>>

Next == Observe \/ BackgroundTick \/ Purge \/ TimePasses

Spec == Init /\ [][Next]_vars

\* The goroutine of main.go keeps calling Tick, and time passes.
FairSpec == Spec /\ WF_vars(BackgroundTick) /\ WF_vars(TimePasses)
-----------------------------------------------------------------------------
\* The variables keep their shapes; a slot in the map is incomplete and holds
\* fragments of its own numbering only.
TypeOK ==
  /\ DOMAIN slots \subseteq TxID
  /\ \A t \in DOMAIN slots :
       /\ slots[t].ver \in Version /\ slots[t].len \in Nat
       /\ slots[t].deadline \in -1..TTL
       /\ slots[t].born \in 1..started
       /\ DOMAIN slots[t].frags \subseteq 0..(slots[t].total - 1)
       /\ Cardinality(DOMAIN slots[t].frags) \in 1..(slots[t].total - 1)
  /\ insertOrder \in Seq(TxID)
  /\ started \in 0..MaxStarted

\* The FIFO and the map stay in step: every slot is in the FIFO exactly once,
\* in the order the slots were opened, and the FIFO carries at most one id that
\* is no longer in the map, however slots complete, expire and reopen.  So a
\* slot opened at capacity finds one to evict, and the map stays within maxSlots.
OrderMatchesSlots ==
  /\ Cardinality(DOMAIN slots) <= MaxSlots
  /\ IsInjective(insertOrder)
  /\ DOMAIN slots \subseteq ToSet(insertOrder)
  /\ Cardinality(ToSet(insertOrder) \ DOMAIN slots) <= 1
  /\ \A i, j \in DOMAIN insertOrder :
       i < j /\ {insertOrder[i], insertOrder[j]} \subseteq DOMAIN slots
         => slots[insertOrder[i]].born < slots[insertOrder[j]].born

\* No payload is lost from the metrics: every slot that was opened has been
\* delivered, counted as abandoned or as a hash mismatch, or is still open.
SlotAccounting ==
  started = delivered + abandoned + mismatched + Cardinality(DOMAIN slots)

\* A payload is delivered only with every one of its fragments and nothing
\* else, and with verification on a V2 payload that fails its hash is not
\* delivered, even when an intact fragment followed a corrupt one of its index.
DeliversIntact ==
  \A c \in last : c.ok =>
    /\ DOMAIN c.slot.frags = 0..(c.slot.total - 1)
    /\ VerifyHash /\ c.slot.ver = "V2"
         => \A i \in DOMAIN c.slot.frags : c.slot.frags[i]

\* A slot that is given up before its deadline is given up for lack of room,
\* and no slot that survives is older (Purge leaves no survivor).
EvictsOldest ==
  [][\A t \in DOMAIN slots :
       LET completed == \E c \in last' \ last : c.slot.born = slots[t].born
       IN  ~Expired(t) /\ t \notin DOMAIN slots' /\ ~completed
             => /\ \A u \in DOMAIN slots \cap DOMAIN slots' :
                     slots[t].born < slots[u].born
                /\ Cardinality(Live) >= MaxSlots \/ DOMAIN slots' = {}]_vars

\* Every slot is eventually delivered or given up, so an incomplete payload
\* does not hold its memory for ever even if no fragment arrives again.
SlotResolved ==
  \A b \in 1..MaxStarted :
    (\E t \in DOMAIN slots : slots[t].born = b)
      ~> ~(\E t \in DOMAIN slots : slots[t].born = b)
=============================================================================
