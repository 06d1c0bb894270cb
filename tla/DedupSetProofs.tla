--------------------------- MODULE DedupSetProofs ---------------------------
(***************************************************************************)
(* Proofs about the duplicate detector, for every set of keys, capacity    *)
(* and TTL.                                                                *)
(***************************************************************************)
EXTENDS DedupSet, Sequences, FiniteSetTheorems, TLAPS

\* The head stays a position of the ring as it advances.
LEMMA HeadAdvances ==
  ASSUME NEW h \in Position
  PROVE  /\ (h + 1) % Capacity \in Position
         /\ h + 1 < Capacity => (h + 1) % Capacity = h + 1
BY CapacityAssumption DEF Position

\* What an insertion does to the ring: slot `head' holds the new key, every
\* other populated slot keeps its own.
LEMMA InsertRing ==
  ASSUME TypeOK, NEW k \in Key, Insert(k)
  PROVE  /\ head \in 0..(count' - 1)
         /\ 0..(count' - 1) = 0..(count - 1) \cup {head}
         /\ ring'[head] = k
         /\ \A i \in 0..(count' - 1) \ {head} :
              i \in 0..(count - 1) /\ ring'[i] = ring[i]
<1> USE CapacityAssumption
<1>1. /\ count \in 0..Capacity /\ head \in Position
      /\ count < Capacity => head = count
      /\ ring \in [Position -> Key \cup {NoKey}]
  BY DEF TypeOK
<1>2. count' = IF count = Capacity THEN count ELSE count + 1
  BY DEF Insert, CountAfterInsert
<1>3. ring' = [ring EXCEPT ![head] = k]
  BY DEF Insert
<1>4. 0..(count' - 1) \subseteq Position /\ head \in 0..(count' - 1)
  BY <1>1, <1>2 DEF Position
<1>5. 0..(count' - 1) = 0..(count - 1) \cup {head}
  BY <1>1, <1>2 DEF Position
<1>6. ring'[head] = k
  BY <1>1, <1>3
<1>7. \A i \in 0..(count' - 1) \ {head} :
        i \in 0..(count - 1) /\ ring'[i] = ring[i]
  BY <1>1, <1>3, <1>4, <1>5
<1> QED  BY <1>4, <1>5, <1>6, <1>7

\* Every step keeps the state types.
LEMMA TypeStep ==
  ASSUME TypeOK, [Next]_vars
  PROVE  TypeOK'
<1> USE CapacityAssumption, TTLAssumption
<1>1. ASSUME NEW k \in Key, SeenAndAdd(k), Duplicate(k)
      PROVE  TypeOK'
  <2>1. entries' \in [DOMAIN entries' -> -1..TTL]
    <3>1. TTL \in -1..TTL
      OBVIOUS
    <3> QED  BY <1>1, <3>1 DEF TypeOK, Duplicate
  <2>2. since' \in [Key -> -1..(TTL + 1)]
    BY <1>1 DEF TypeOK, SeenAndAdd
  <2> QED  BY <1>1, <2>1, <2>2 DEF TypeOK, Duplicate
<1>2. ASSUME NEW k \in Key, SeenAndAdd(k), Insert(k)
      PROVE  TypeOK'
  <2>1. Kept(k) \subseteq DOMAIN entries
    BY DEF Kept
  <2>2. entries' \in [DOMAIN entries' -> -1..TTL]
    BY <1>2, <2>1 DEF TypeOK, Insert
  <2>3. ring' \in [Position -> Key \cup {NoKey}]
    BY <1>2 DEF TypeOK, Insert
  <2>4. head' = (head + 1) % Capacity /\ head \in Position
    BY <1>2 DEF TypeOK, Insert
  <2>5. head' \in Position
    BY <2>4, HeadAdvances
  <2>6. /\ count' \in 0..Capacity
        /\ count' < Capacity => count' = head + 1
    BY <1>2 DEF TypeOK, Insert, CountAfterInsert
  <2>7. count' < Capacity => head' = count'
    BY <2>4, <2>6, HeadAdvances
  <2>8. \A i \in 0..(count' - 1) : ring'[i] \in Key
    BY <1>2, InsertRing DEF TypeOK
  <2>9. since' \in [Key -> -1..(TTL + 1)]
    BY <1>2 DEF TypeOK, SeenAndAdd
  <2> QED  BY <2>2, <2>3, <2>5, <2>6, <2>7, <2>8, <2>9 DEF TypeOK
<1>3. CASE Tick
  <2>1. entries' \in [DOMAIN entries' -> -1..TTL]
    BY <1>3 DEF TypeOK, Tick
  <2>2. since' \in [Key -> -1..(TTL + 1)]
    BY <1>3 DEF TypeOK, Tick
  <2> QED  BY <1>3, <2>1, <2>2 DEF TypeOK, Tick
<1>4. CASE UNCHANGED vars
  BY <1>4 DEF TypeOK, vars
<1> QED  BY <1>1, <1>2, <1>3, <1>4 DEF Next, SeenAndAdd

\* The types of the set, with the ring filled from slot 0 and the head just
\* behind the last populated slot.
THEOREM TypeCorrect == Spec => []TypeOK
<1>1. Init => TypeOK
  BY CapacityAssumption, TTLAssumption DEF Init, TypeOK, Position
<1> QED  BY <1>1, TypeStep, PTL DEF Spec
-----------------------------------------------------------------------------
\* Every step keeps ring and map in agreement.
LEMMA LeakStep ==
  ASSUME TypeOK, NothingLeaks, [Next]_vars
  PROVE  NothingLeaks'
<1>1. ASSUME NEW k \in Key, Duplicate(k)
      PROVE  NothingLeaks'
  BY <1>1 DEF Duplicate, Remembered, NothingLeaks, InRing
<1>2. ASSUME NEW k \in Key, Insert(k)
      PROVE  NothingLeaks'
  <2>1. DOMAIN entries' = Kept(k) \cup {k}
    BY <1>2 DEF Insert
  <2>2. k \in InRing'
    BY <1>2, InsertRing DEF InRing
  <2>3. ASSUME NEW old \in Kept(k)
        PROVE  old \in InRing'
    <3>1. PICK i \in 0..(count - 1) : ring[i] = old
      BY DEF Kept, NothingLeaks, InRing
    <3>2. CASE i = head
      <4>1. count = Capacity
        BY <3>2, CapacityAssumption DEF TypeOK
      <4> QED  BY <3>1, <3>2, <4>1 DEF Kept
    <3>3. CASE i # head
      BY <1>2, <3>1, <3>3, InsertRing DEF InRing
    <3> QED  BY <3>2, <3>3
  <2> QED  BY <2>1, <2>2, <2>3 DEF NothingLeaks
<1>3. CASE Tick
  BY <1>3 DEF Tick, NothingLeaks, InRing
<1>4. CASE UNCHANGED vars
  BY <1>4 DEF vars, NothingLeaks, InRing
<1> QED  BY <1>1, <1>2, <1>3, <1>4 DEF Next, SeenAndAdd

\* No sequence of insertions, refreshes, expiries and re-insertions leaves a
\* key in the map that the ring will not evict.
THEOREM LeakFree == Spec => []NothingLeaks
<1>1. Init => NothingLeaks
  BY DEF Init, NothingLeaks
<1>2. TypeOK /\ NothingLeaks /\ [Next]_vars => NothingLeaks'
  BY LeakStep
<1> QED  BY <1>1, <1>2, TypeCorrect, PTL DEF Spec

\* The populated slots of the ring hold at most Capacity different keys.
LEMMA RingBounded ==
  ASSUME TypeOK
  PROVE  IsFiniteSet(InRing) /\ Cardinality(InRing) <= Capacity
<1>1. count \in 0..Capacity
  BY DEF TypeOK
<1>2. /\ IsFiniteSet(0..(count - 1))
      /\ Cardinality(0..(count - 1)) = count
  BY <1>1, FS_Interval, CapacityAssumption
<1> DEFINE f == [i \in 0..(count - 1) |-> ring[i]]
<1>3. f \in Surjection(0..(count - 1), InRing)
  BY DEF InRing, Surjection
<1>4. /\ IsFiniteSet(InRing)
      /\ Cardinality(InRing) <= Cardinality(0..(count - 1))
  BY <1>2, <1>3, FS_Surjection
<1>5. Cardinality(InRing) \in Nat
  BY <1>4, FS_CardinalityType
<1> QED  BY <1>1, <1>2, <1>4, <1>5, CapacityAssumption

\* The map of the duplicate detector never outgrows the configured capacity.
THEOREM Bounded == Spec => []MemoryBounded
<1>1. TypeOK /\ NothingLeaks => MemoryBounded
  <2> SUFFICES ASSUME TypeOK, NothingLeaks
               PROVE  Cardinality(DOMAIN entries) <= Capacity
    BY DEF MemoryBounded
  <2>1. IsFiniteSet(InRing) /\ Cardinality(InRing) <= Capacity
    BY RingBounded
  <2>2. /\ IsFiniteSet(DOMAIN entries)
        /\ Cardinality(DOMAIN entries) <= Cardinality(InRing)
    BY <2>1, FS_Subset DEF NothingLeaks
  <2>3. Cardinality(InRing) \in Nat /\ Cardinality(DOMAIN entries) \in Nat
    BY <2>1, <2>2, FS_CardinalityType
  <2> QED  BY <2>1, <2>2, <2>3, CapacityAssumption
<1> QED  BY <1>1, TypeCorrect, LeakFree, PTL
-----------------------------------------------------------------------------
\* A key in the map has been presented; while it has not expired the time since
\* then is what its entry says, and after that it is more than a TTL.
AgeKnown ==
  \A k \in DOMAIN entries :
    /\ k \in Key
    /\ since[k] >= 0
    /\ TTL > 0 /\ entries[k] >= 0 => since[k] = TTL - entries[k]
    /\ TTL > 0 /\ entries[k] < 0 => since[k] > TTL

\* Every step keeps the age of every held key known.
LEMMA AgeStep ==
  ASSUME TypeOK, AgeKnown, [Next]_vars
  PROVE  AgeKnown'
<1> USE TTLAssumption
<1>1. ASSUME NEW k \in Key, SeenAndAdd(k)
      PROVE  AgeKnown'
  <2>1. /\ since'[k] = 0
        /\ \A i \in Key \ {k} : since'[i] = since[i]
    BY <1>1 DEF SeenAndAdd, TypeOK
  <2>2. entries'[k] = TTL
    BY <1>1 DEF SeenAndAdd, Duplicate, Insert, Remembered
  <2>3. \A i \in DOMAIN entries' \ {k} :
          i \in DOMAIN entries /\ entries'[i] = entries[i]
    BY <1>1 DEF SeenAndAdd, Duplicate, Insert, Kept
  <2> QED  BY <2>1, <2>2, <2>3 DEF AgeKnown
<1>2. CASE Tick
  <2> SUFFICES ASSUME NEW k \in DOMAIN entries
               PROVE  /\ since'[k] >= 0
                      /\ TTL > 0 /\ entries'[k] >= 0
                           => since'[k] = TTL - entries'[k]
                      /\ TTL > 0 /\ entries'[k] < 0 => since'[k] > TTL
    BY <1>2 DEF Tick, AgeKnown
  <2>1. /\ k \in Key /\ since[k] \in -1..(TTL + 1) /\ since[k] >= 0
        /\ entries[k] \in -1..TTL
        /\ TTL > 0 /\ entries[k] >= 0 => since[k] = TTL - entries[k]
        /\ TTL > 0 /\ entries[k] < 0 => since[k] > TTL
    BY DEF TypeOK, AgeKnown
  <2>2. /\ since'[k] = IF TTL # 0 /\ since[k] \in 0..TTL
                         THEN since[k] + 1 ELSE since[k]
        /\ entries'[k] = IF TTL = 0 \/ entries[k] < 0 THEN entries[k]
                         ELSE entries[k] - 1
    BY <1>2, <2>1 DEF Tick
  <2> QED  BY <2>1, <2>2
<1>3. CASE UNCHANGED vars
  BY <1>3 DEF vars, AgeKnown
<1> QED  BY <1>1, <1>2, <1>3 DEF Next

\* A key reported as a duplicate was met before, within the TTL.
LEMMA SuppressedIsRecent ==
  ASSUME TypeOK, AgeKnown, [Next]_vars, NEW k \in Key,
         reply' = [key |-> k, dup |-> TRUE], since'[k] = 0
  PROVE  since[k] >= 0 /\ (TTL = 0 \/ since[k] <= TTL)
<1> USE TTLAssumption
<1>t. since[k] \in -1..(TTL + 1)
  BY DEF TypeOK
<1>1. ASSUME NEW i \in Key, SeenAndAdd(i)
      PROVE  since[k] >= 0 /\ (TTL = 0 \/ since[k] <= TTL)
  <2>1. [key |-> k, dup |-> TRUE] # [key |-> i, dup |-> FALSE]
    OBVIOUS
  <2>2. Duplicate(i) /\ i = k
    BY <1>1, <2>1 DEF SeenAndAdd, Duplicate, Insert
  <2>3. k \in DOMAIN entries /\ (TTL = 0 \/ entries[k] >= 0)
    BY <2>2 DEF Duplicate, Remembered
  <2>4. entries[k] \in -1..TTL
    BY <2>3 DEF TypeOK
  <2> QED  BY <2>3, <2>4, <1>t DEF AgeKnown
<1>2. CASE Tick \/ UNCHANGED vars
  BY <1>2, <1>t DEF Tick, vars
<1> QED  BY <1>1, <1>2 DEF Next

\* SeenAndAdd reports a duplicate only for a key presented at most a TTL ago.
THEOREM RecentOnly == Spec => SuppressesOnlyRecent
<1>1. Init => AgeKnown
  BY DEF Init, AgeKnown
<1>2. TypeOK /\ AgeKnown /\ [Next]_vars => AgeKnown'
  BY AgeStep
<1>3. TypeOK /\ AgeKnown /\ [Next]_vars
        => [\A k \in Key :
              reply' = [key |-> k, dup |-> TRUE] /\ since'[k] = 0
                => since[k] >= 0 /\ (TTL = 0 \/ since[k] <= TTL)]_vars
  BY SuppressedIsRecent
<1> QED  BY <1>1, <1>2, <1>3, TypeCorrect, PTL
         DEF Spec, SuppressesOnlyRecent
-----------------------------------------------------------------------------
\* While nothing expires, the populated slots of the ring hold different keys
\* and each of them is in the map.
WindowKnown ==
  TTL = 0 => \A i \in 0..(count - 1) :
               /\ ring[i] \in DOMAIN entries
               /\ \A j \in 0..(count - 1) : ring[i] = ring[j] => i = j

\* Every step keeps the ring the last keys, each held and held once.
LEMMA WindowStep ==
  ASSUME TypeOK, NothingLeaks, WindowKnown, [Next]_vars
  PROVE  WindowKnown'
<1> SUFFICES ASSUME TTL = 0,
                    NEW i \in 0..(count' - 1), NEW j \in 0..(count' - 1)
             PROVE  /\ ring'[i] \in DOMAIN entries'
                    /\ ring'[i] = ring'[j] => i = j
  BY DEF WindowKnown
<1>1. ASSUME NEW k \in Key, Duplicate(k)
      PROVE  /\ ring'[i] \in DOMAIN entries'
             /\ ring'[i] = ring'[j] => i = j
  BY <1>1 DEF Duplicate, WindowKnown
<1>2. ASSUME NEW k \in Key, Insert(k)
      PROVE  /\ ring'[i] \in DOMAIN entries'
             /\ ring'[i] = ring'[j] => i = j
  <2>1. DOMAIN entries' = Kept(k) \cup {k} /\ k \notin DOMAIN entries
    BY <1>2 DEF Insert, Remembered
  <2>2. \A n \in 0..(count - 1) : ring[n] # k
    BY <2>1 DEF WindowKnown
  <2>3. ring'[i] = ring'[j] => i = j
    BY <1>2, <2>2, InsertRing DEF WindowKnown
  <2>4. CASE i = head
    BY <1>2, <2>1, <2>3, <2>4, InsertRing
  <2>5. CASE i # head
    <3>1. i \in 0..(count - 1) /\ ring'[i] = ring[i]
      BY <1>2, <2>5, InsertRing
    <3>2. count = Capacity => head \in 0..(count - 1)
      BY CapacityAssumption DEF TypeOK, Position
    <3>3. count = Capacity => ring[i] # ring[head]
      BY <2>5, <3>1, <3>2 DEF WindowKnown
    <3> QED  BY <2>1, <2>3, <3>1, <3>3 DEF WindowKnown, Kept
  <2> QED  BY <2>3, <2>4, <2>5
<1>3. CASE Tick
  BY <1>3 DEF Tick, WindowKnown
<1>4. CASE UNCHANGED vars
  BY <1>4 DEF vars, WindowKnown
<1> QED  BY <1>1, <1>2, <1>3, <1>4 DEF Next, SeenAndAdd

\* Going round the ring from slot h: where position i of the window lies.
LEMMA Round ==
  ASSUME NEW h \in Position, NEW i \in 1..Capacity
  PROVE  (h + i - 1) % Capacity =
           IF h + i - 1 < Capacity THEN h + i - 1 ELSE h + i - 1 - Capacity
BY CapacityAssumption DEF Position

\* The ring as SlidingWindow's window.
Window == [i \in 1..count |-> FromOldest(i)]

\* The keys of the window are those of the populated slots.
LEMMA WindowKeys ==
  ASSUME TypeOK
  PROVE  /\ Window \in Seq(Key) /\ Len(Window) = count
         /\ Range(Window) = InRing
<1> USE CapacityAssumption
<1>1. count \in 0..Capacity /\ head \in Position
  BY DEF TypeOK
<1> DEFINE slot(i) == IF count < Capacity THEN i - 1
                      ELSE IF head + i - 1 < Capacity THEN head + i - 1
                      ELSE head + i - 1 - Capacity
<1>2. ASSUME NEW i \in 1..count
      PROVE  slot(i) \in 0..(count - 1) /\ Window[i] = ring[slot(i)]
  BY <1>1, Round DEF Window, FromOldest, Position
<1>3. ASSUME NEW n \in 0..(count - 1)
      PROVE  \E i \in 1..count : slot(i) = n
  <2> DEFINE i == IF count < Capacity THEN n + 1
                  ELSE IF n >= head THEN n - head + 1
                  ELSE n - head + 1 + Capacity
  <2>1. i \in 1..count /\ slot(i) = n
    BY <1>1 DEF Position
  <2> QED  BY <2>1
<1> HIDE DEF slot
<1>4. DOMAIN Window = 1..count
  BY DEF Window
<1>5. \A i \in 1..count : Window[i] \in Key
  BY <1>2 DEF TypeOK
<1>6. Window \in [1..count -> Key]
  BY <1>5 DEF Window
<1>7. Window \in Seq(Key) /\ Len(Window) = count
  BY <1>1, <1>6
<1>8. Range(Window) = InRing
  BY <1>2, <1>3, <1>4 DEF Range, InRing
<1> QED  BY <1>7, <1>8

\* An insertion drops the oldest position of a full window and appends the key.
LEMMA WindowShifts ==
  ASSUME TypeOK, TypeOK', NEW k \in Key, Insert(k)
  PROVE  Window' = Append(IF Len(Window) < Capacity THEN Window
                          ELSE Tail(Window), k)
<1> USE CapacityAssumption
<1>1. /\ count \in 0..Capacity /\ head \in Position
      /\ count < Capacity => head = count
      /\ ring \in [Position -> Key \cup {NoKey}]
      /\ head' = (head + 1) % Capacity
      /\ ring' = [ring EXCEPT ![head] = k]
      /\ count' = IF count = Capacity THEN count ELSE count + 1
  BY DEF TypeOK, Insert, CountAfterInsert
<1>2. Window \in Seq(Key) /\ Len(Window) = count
  BY WindowKeys
<1>3. /\ DOMAIN Window = 1..count /\ DOMAIN Window' = 1..count'
      /\ \A i \in 1..count : Window[i] = FromOldest(i)
      /\ \A i \in 1..count' : Window'[i] = FromOldest(i)'
  BY DEF Window
<1>4. \A i \in Position \ {head} : ring'[i] = ring[i]
  BY <1>1
<1>5. ring'[head] = k
  BY <1>1
<1>6. CASE count < Capacity
  <2>1. count' = count + 1 /\ head = count /\ count' \in 1..Capacity
    BY <1>1, <1>6
  <2>2. ASSUME NEW i \in 1..count'
        PROVE  Window'[i] = IF i <= count THEN Window[i] ELSE k
    <3>1. Window'[i] = ring'[i - 1]
      <4>1. CASE count' < Capacity
        BY <1>3, <4>1 DEF FromOldest
      <4>2. CASE count' = Capacity
        <5>1. head' = 0
          BY <1>1, <2>1, <4>2
        <5>2. (0 + i - 1) % Capacity = i - 1
          BY <2>1, Round DEF Position
        <5> QED  BY <1>3, <4>2, <5>1, <5>2 DEF FromOldest
      <4> QED  BY <2>1, <4>1, <4>2
    <3>2. i <= count => i - 1 \in Position \ {head} /\ Window[i] = ring[i - 1]
      BY <1>1, <1>3, <1>6, <2>1 DEF FromOldest, Position
    <3>3. ~(i <= count) => i - 1 = head
      BY <1>1, <2>1
    <3> QED  BY <1>4, <1>5, <3>1, <3>2, <3>3
  <2> DEFINE new == Append(Window, k)
  <2>3. /\ new \in Seq(Key) /\ Len(new) = count'
        /\ \A i \in 1..count' : new[i] = IF i <= count THEN Window[i] ELSE k
    BY <1>1, <1>2, <2>1
  <2>4. Window' = [i \in 1..count' |-> Window'[i]]
    BY DEF Window
  <2>5. Window' = new
    BY <2>1, <2>2, <2>3, <2>4
  <2> QED  BY <1>2, <1>6, <2>5
<1>7. CASE count = Capacity
  <2>1. count' = Capacity /\ count = Capacity
    BY <1>1, <1>7
  <2>2. ASSUME NEW i \in 1..Capacity
        PROVE  Window'[i] = IF i < Capacity THEN Window[i + 1] ELSE k
    <3> DEFINE at(h, n) == IF h + n - 1 < Capacity THEN h + n - 1
                           ELSE h + n - 1 - Capacity
    <3>1. head' = IF head + 1 < Capacity THEN head + 1 ELSE 0
      BY <1>1, HeadAdvances DEF Position
    <3>2. head' \in Position
      BY <1>1, <3>1 DEF Position
    <3>3. Window'[i] = ring'[at(head', i)]
      <4>1. Window'[i] = ring'[(head' + i - 1) % Capacity]
        BY <1>3, <2>1 DEF FromOldest
      <4> QED  BY <3>2, <4>1, Round
    <3>4. CASE i < Capacity
      <4>1. Window[i + 1] = ring[(head + (i + 1) - 1) % Capacity]
        BY <1>3, <2>1, <3>4 DEF FromOldest
      <4>2. Window[i + 1] = ring[at(head, i + 1)]
        BY <1>1, <3>4, <4>1, Round, i + 1 \in 1..Capacity
      <4>3. at(head', i) = at(head, i + 1) /\ at(head, i + 1) \in Position \ {head}
        BY <1>1, <3>1, <3>4 DEF Position
      <4> QED  BY <1>4, <3>3, <3>4, <4>2, <4>3
    <3>5. CASE i = Capacity
      <4>1. at(head', i) = head
        BY <1>1, <3>1, <3>5 DEF Position
      <4> QED  BY <1>5, <3>3, <3>5, <4>1
    <3> QED  BY <3>4, <3>5
  <2> DEFINE new == Append(Tail(Window), k)
  <2>3. Window # <<>>
    BY <1>2, <2>1
  <2>4. /\ Tail(Window) \in Seq(Key) /\ Len(Tail(Window)) = Capacity - 1
        /\ \A i \in 1..(Capacity - 1) : Tail(Window)[i] = Window[i + 1]
    BY <1>2, <2>1, <2>3
  <2>5. /\ new \in Seq(Key) /\ Len(new) = Capacity
        /\ \A i \in 1..Capacity :
             new[i] = IF i < Capacity THEN Window[i + 1] ELSE k
    BY <2>4
  <2>6. Window' = [i \in 1..Capacity |-> Window'[i]]
    BY <2>1 DEF Window
  <2>7. Window' = new
    BY <2>2, <2>5, <2>6
  <2> QED  BY <1>2, <2>1, <2>7
<1> QED  BY <1>1, <1>6, <1>7

\* The duplicate detector implements the window its package comment promises:
\* a call that reports a duplicate finds its key among the last Capacity keys
\* accepted, one that accepts a key moves the window on by that key, and while
\* nothing expires no key of the window is accepted again.
THEOREM Refinement == Spec => ImplementsWindow
<1>1. Init => Abstract!Init
  BY DEF Init, Abstract!Init
<1>2. Init => WindowKnown
  BY DEF Init, WindowKnown
<1>3. ASSUME TypeOK, TypeOK', NothingLeaks, WindowKnown, [Next]_vars
      PROVE  [Abstract!Next]_(Abstract!vars)
  <2>1. ASSUME NEW k \in Key, Duplicate(k)
        PROVE  Abstract!Suppress(k)
    <3>1. k \in Range(Window)
      BY <1>3, <2>1, WindowKeys DEF Duplicate, Remembered, NothingLeaks
    <3>2. UNCHANGED Window
      BY <2>1 DEF Duplicate, Window, FromOldest
    <3> QED  BY <2>1, <3>1, <3>2 DEF Abstract!Suppress, Abstract!Range, Range, Duplicate, Window
  <2>2. ASSUME NEW k \in Key, Insert(k)
        PROVE  Abstract!Accept(k)
    <3>1. TTL > 0 \/ k \notin Range(Window)
      BY <1>3, <2>2, TTLAssumption, WindowKeys
      DEF Insert, Remembered, WindowKnown, InRing
    <3>2. Window' = Append(IF Len(Window) < Capacity THEN Window
                           ELSE Tail(Window), k)
      BY <1>3, <2>2, WindowShifts
    <3> QED  BY <2>2, <3>1, <3>2 
             DEF Abstract!Accept, Abstract!Range, Range, Insert, Window
  <2>3. CASE Tick \/ UNCHANGED vars
    BY <2>3 DEF Tick, vars, Abstract!vars, FromOldest
  <2> QED  BY <1>3, <2>1, <2>2, <2>3 DEF Next, SeenAndAdd, Abstract!Next
<1>4. TypeOK /\ NothingLeaks /\ WindowKnown /\ [Next]_vars => WindowKnown'
  BY WindowStep
<1> QED
  BY <1>1, <1>2, <1>3, <1>4, TypeCorrect, LeakFree, PTL
  DEF Spec, ImplementsWindow, Abstract!Spec
=============================================================================
