------------------------------ MODULE DedupSet ------------------------------
(***************************************************************************)
(* The egress duplicate detector of dedup/dedup.go: a map from keys to     *)
(* expiry times and a ring of the keys in the order they were inserted.    *)
(*                                                                         *)
(* A worker calls SeenAndAdd for every stamped frame it is about to        *)
(* forward; the call holds the set's mutex, so it is one action.  The      *)
(* worker creates no set for a capacity of zero (main.go).                 *)
(*                                                                         *)
(* Time.  An entry stores the ticks left until its expiry; -1 means that   *)
(* the expiry lies in the past.  Tick lets one tick pass.                  *)
(***************************************************************************)
EXTENDS Integers, FiniteSets, Functions

CONSTANTS
  Key,        \* (groupIdx, subtreeID, seqNum)
  Capacity,
  TTL,        \* in ticks; 0 disables expiry
  NoKey       \* a ring slot that has not been written

ASSUME CapacityAssumption == Capacity \in Nat \ {0}
ASSUME TTLAssumption == TTL \in Nat
ASSUME KeyAssumption == NoKey \notin Key

VARIABLES
  entries,   \* Set.entries: key -> ticks until expiry
  ring,      \* Set.ring
  head,      \* Set.head, the next insert position
  count,     \* Set.count, the populated slots
  reply,     \* the last call: its key, and what it returned
  since      \* history: ticks since the last call for a key, with a TTL;
             \* -1: none

vars == <<entries, ring, head, count, reply, since>>

Position == 0..(Capacity - 1)

\* New
Init ==
  /\ entries = [k \in {} |-> 0]
  /\ ring = [i \in Position |-> NoKey]
  /\ head = 0
  /\ count = 0
  /\ reply = NoKey
  /\ since = [k \in Key |-> -1]

\* Faulty variant: an expired entry still hits.
RememberedForever(k) == k \in DOMAIN entries
\* The key is in the map, and is not stale.
Remembered(k) == k \in DOMAIN entries /\ (TTL = 0 \/ entries[k] >= 0)

\* Faulty variant: the evicted key stays in the map.
KeptNone(k) == DOMAIN entries
\* The keys that stay in the map when a key is inserted.
Kept(k) == IF count = Capacity THEN DOMAIN entries \ {ring[head]}
           ELSE DOMAIN entries

CountAfterInsert == IF count = Capacity THEN count ELSE count + 1

\* SeenAndAdd returns true and refreshes the expiry.
Duplicate(k) ==
  /\ Remembered(k)
  /\ entries' = [entries EXCEPT ![k] = TTL]
  /\ reply' = [key |-> k, dup |-> TRUE]
  /\ UNCHANGED <<ring, head, count>>

\* SeenAndAdd returns false.  The key of the slot that is overwritten is
\* deleted from the map whether or not it has been inserted again since.
Insert(k) ==
  /\ ~Remembered(k)
  /\ entries' = [i \in Kept(k) \cup {k} |-> IF i = k THEN TTL ELSE entries[i]]
  /\ count' = CountAfterInsert
  /\ ring' = [ring EXCEPT ![head] = k]
  /\ head' = (head + 1) % Capacity
  /\ reply' = [key |-> k, dup |-> FALSE]

SeenAndAdd(k) == /\ Duplicate(k) \/ Insert(k)
                 /\ since' = [since EXCEPT ![k] = 0]

Tick ==
  /\ entries' = [k \in DOMAIN entries |->
                   IF TTL = 0 \/ entries[k] < 0 THEN entries[k]
                   ELSE entries[k] - 1]
  /\ since' = [k \in Key |-> IF TTL # 0 /\ since[k] \in 0..TTL
                               THEN since[k] + 1 ELSE since[k]]
  /\ UNCHANGED <<ring, head, count, reply>>

Next == (\E k \in Key : SeenAndAdd(k)) \/ Tick

Spec == Init /\ [][Next]_vars
-----------------------------------------------------------------------------
\* The variables keep their shapes, the ring is filled from slot 0, and no
\* entry expires later than a TTL from now.
TypeOK ==
  /\ entries \in [DOMAIN entries -> -1..TTL]
  /\ ring \in [Position -> Key \cup {NoKey}]
  /\ head \in Position
  /\ count \in 0..Capacity
  /\ count < Capacity => head = count
  /\ \A i \in 0..(count - 1) : ring[i] \in Key
  /\ since \in [Key -> -1..(TTL + 1)]

\* The keys in the populated slots of the ring.
InRing == {ring[i] : i \in 0..(count - 1)}

\* Every key of the map sits in the ring, from where it will be evicted: the
\* map never leaks a key, whatever expires, is refreshed or is inserted again.
NothingLeaks == DOMAIN entries \subseteq InRing

\* The map therefore stays within the configured capacity.
MemoryBounded == Cardinality(DOMAIN entries) <= Capacity

\* A frame is suppressed only when the same key was presented at most a TTL
\* earlier: nothing is dropped on the word of an entry that has expired.
SuppressesOnlyRecent ==
  [][\A k \in Key :
       reply' = [key |-> k, dup |-> TRUE] /\ since'[k] = 0
         => since[k] >= 0 /\ (TTL = 0 \/ since[k] <= TTL)]_vars

\* Slot i of the ring, counted from the oldest one.
FromOldest(i) == IF count < Capacity THEN ring[i - 1]
                 ELSE ring[(head + i - 1) % Capacity]

Abstract == INSTANCE SlidingWindow
              WITH window <- [i \in 1..count |-> FromOldest(i)],
                   Expires <- TTL > 0

\* The map and the ring implement a window over the last Capacity keys that
\* were accepted: the ring forgets in the order of insertion, and only a key
\* it holds is reported as a duplicate.
ImplementsWindow == Abstract!Spec
=============================================================================
