-------------------------- MODULE ReassemblyProofs --------------------------
(***************************************************************************)
(* Proofs about the reassembly buffer, for any payloads, fragments, buffer *)
(* size and TTL.                                                           *)
(***************************************************************************)
EXTENDS Reassembly, FiniteSetTheorems, WellFoundedInduction, TLAPS

-----------------------------------------------------------------------------
(* Compaction of the FIFO.                                                 *)

\* A set of natural numbers that is not empty has a least element.
LEMMA Least ==
  ASSUME NEW T, T \subseteq Nat, T # {}
  PROVE  \E m \in T : \A n \in T : m <= n
<1> DEFINE R == OpToRel(<, Nat)
<1>1. IsWellFoundedOn(R, Nat)
  BY NatLessThanWellFounded, Zenon
<1>2. \A n, m \in Nat :
        <<n, m>> \in Nat \X Nat /\ <<n, m>>[1] = n /\ <<n, m>>[2] = m
  OBVIOUS
<1>3. ASSUME NEW n \in Nat, NEW m \in Nat, n < m
      PROVE  <<n, m>> \in R
  BY <1>2, <1>3, Zenon DEF OpToRel
<1> HIDE DEF R
<1>4. PICK m \in T : \A n \in T : ~(<<n, m>> \in R)
  BY <1>1, WFMin
<1>5. \A n \in T : ~(n < m)
  BY <1>3, <1>4
<1> QED  BY <1>5

\* Compact keeps exactly the ids it is told to, in the order they had.
LEMMA CompactFacts ==
  ASSUME NEW S, NEW order \in Seq(S), NEW keep
  PROVE  /\ Compact(order, keep) \in Seq(S)
         /\ ToSet(Compact(order, keep)) = ToSet(order) \cap keep
         /\ \A i, j \in DOMAIN Compact(order, keep) :
              i < j => \E p, q \in DOMAIN order :
                         /\ p < q
                         /\ order[p] = Compact(order, keep)[i]
                         /\ order[q] = Compact(order, keep)[j]
<1> DEFINE N == Len(order)
           upTo(i) == {j \in 1..i : order[j] \in keep}
           rank(i) == Cardinality(upTo(i))
           at(k) == CHOOSE i \in 1..N : order[i] \in keep /\ rank(i) = k
           C == Compact(order, keep)
<1>1. N \in Nat /\ DOMAIN order = 1..N /\ \A i \in 1..N : order[i] \in S
  OBVIOUS
<1>2. C = [k \in 1..rank(N) |-> order[at(k)]]
  BY DEF Compact
<1>3. ASSUME NEW i \in 0..N
      PROVE  IsFiniteSet(upTo(i)) /\ rank(i) \in Nat
  <2>1. IsFiniteSet(1..i) /\ upTo(i) \subseteq 1..i
    BY <1>1, FS_Interval
  <2> QED  BY <2>1, FS_Subset, FS_CardinalityType
<1>4. rank(0) = 0
  <2>1. upTo(0) = {}
    OBVIOUS
  <2> QED  BY <2>1, FS_EmptySet
<1>5. ASSUME NEW i \in 1..N
      PROVE  rank(i) = rank(i - 1) + IF order[i] \in keep THEN 1 ELSE 0
  <2>1. i - 1 \in 0..N /\ i \notin upTo(i - 1)
    BY <1>1
  <2>2. CASE order[i] \in keep
    <3>1. upTo(i) = upTo(i - 1) \cup {i}
      BY <1>1, <2>2
    <3> QED  BY <1>3, <2>1, <2>2, <3>1, FS_AddElement
  <2>3. CASE order[i] \notin keep
    <3>1. upTo(i) = upTo(i - 1)
      BY <1>1, <2>3
    <3>2. rank(i) = rank(i - 1) /\ rank(i - 1) \in Nat
      BY <1>3, <2>1, <3>1
    <3> HIDE DEF rank
    <3> QED  BY <2>3, <3>2
  <2> QED  BY <2>2, <2>3
<1>6. ASSUME NEW i \in 0..N, NEW j \in 0..N, i <= j
      PROVE  rank(i) <= rank(j)
  <2>1. upTo(i) \subseteq upTo(j)
    BY <1>1, <1>6
  <2> QED  BY <1>3, <2>1, FS_Subset
<1> HIDE DEF upTo
<1>7. ASSUME NEW i \in 0..N, NEW j \in 1..N, i < j, order[j] \in keep
      PROVE  rank(i) < rank(j)
  <2>1. j - 1 \in 0..N /\ i <= j - 1 /\ j \in 0..N
    BY <1>1, <1>7
  <2> QED  BY <1>3, <1>5, <1>6, <1>7, <2>1
<1>8. ASSUME NEW k \in 1..rank(N)
      PROVE  \E i \in 1..N : order[i] \in keep /\ rank(i) = k
  <2> DEFINE T == {i \in 0..N : rank(i) >= k}
  <2>1. T \subseteq Nat /\ N \in T
    BY <1>1, <1>3
  <2>2. PICK m \in T : \A n \in T : m <= n
    BY <2>1, Least
  <2>3. m # 0 /\ m \in 1..N /\ m - 1 \in 0..N
    BY <1>1, <1>4
  <2>4. ~(rank(m - 1) >= k)
    BY <1>1, <2>2, <2>3
  <2>5. rank(m) >= k /\ rank(m) \in Nat /\ rank(m - 1) \in Nat
    BY <1>1, <1>3, <2>3
  <2>6. rank(m) = rank(m - 1) + IF order[m] \in keep THEN 1 ELSE 0
    BY <1>5, <2>3
  <2>7. order[m] \in keep /\ rank(m) = k
    BY <1>1, <1>3, <2>4, <2>5, <2>6
  <2> QED  BY <2>3, <2>7
<1>9. ASSUME NEW k \in 1..rank(N)
      PROVE  at(k) \in 1..N /\ order[at(k)] \in keep /\ rank(at(k)) = k
  BY <1>8
<1> HIDE DEF at, rank
<1>10. rank(N) \in Nat /\ DOMAIN C = 1..rank(N)
  BY <1>1, <1>2, <1>3
<1>11. C \in Seq(S)
  <2>1. C \in [1..rank(N) -> S]
    BY <1>1, <1>2, <1>9
  <2> QED  BY <1>10, <2>1
<1>12. ToSet(C) = ToSet(order) \cap keep
  <2>1. ASSUME NEW k \in 1..rank(N)
        PROVE  C[k] \in ToSet(order) \cap keep
    BY <1>1, <1>2, <1>9 DEF ToSet
  <2>2. ASSUME NEW i \in 1..N, order[i] \in keep
        PROVE  order[i] \in ToSet(C)
    <3>1. rank(i) \in 1..rank(N)
      <4>1. rank(0) < rank(i) /\ rank(i) <= rank(N)
        BY <1>1, <1>6, <1>7, <2>2
      <4> QED  BY <1>1, <1>3, <1>4, <4>1
    <3>2. at(rank(i)) \in 1..N /\ order[at(rank(i))] \in keep
          /\ rank(at(rank(i))) = rank(i)
      BY <1>9, <3>1
    <3>3. at(rank(i)) = i
      <4>1. ~(at(rank(i)) < i) /\ ~(i < at(rank(i)))
        BY <1>1, <1>3, <1>7, <2>2, <3>2
      <4> QED  BY <1>1, <3>2, <4>1
    <3> QED  BY <1>2, <1>10, <3>1, <3>3 DEF ToSet
  <2> QED  BY <1>1, <1>10, <2>1, <2>2 DEF ToSet
<1>13. ASSUME NEW i \in DOMAIN C, NEW j \in DOMAIN C, i < j
       PROVE  \E p, q \in DOMAIN order :
                p < q /\ order[p] = C[i] /\ order[q] = C[j]
  <2>1. /\ at(i) \in 1..N /\ at(j) \in 1..N
        /\ rank(at(i)) = i /\ rank(at(j)) = j
    BY <1>9, <1>10
  <2>2. at(i) < at(j)
    BY <1>1, <1>6, <1>10, <1>13, <2>1
  <2> QED  BY <1>1, <1>2, <1>10, <2>1, <2>2
<1> HIDE DEF C
<1>14. /\ C \in Seq(S) /\ ToSet(C) = ToSet(order) \cap keep
       /\ \A i, j \in DOMAIN C :
            i < j => \E p, q \in DOMAIN order :
                       p < q /\ order[p] = C[i] /\ order[q] = C[j]
  BY <1>11, <1>12, <1>13
<1> QED  BY <1>14 DEF C
-----------------------------------------------------------------------------
(***************************************************************************)
(* The inductive invariant.  Eviction and compaction keep the FIFO in step *)
(* with the map only because the ids in the FIFO differ, every slot is     *)
(* among them, and the slots were numbered in that order; and no step      *)
(* confuses a slot with the one completed last because each has a number   *)
(* of its own.                                                             *)
(***************************************************************************)
IsSlot(s) ==
  /\ s = [ver |-> s.ver, total |-> s.total, len |-> s.len,
          deadline |-> s.deadline, born |-> s.born, frags |-> s.frags]
  /\ s.total \in Nat

Shapes ==
  /\ \A t \in DOMAIN slots : IsSlot(slots[t])
  /\ IsFiniteSet(DOMAIN slots)
  /\ delivered \in Nat /\ abandoned \in Nat /\ mismatched \in Nat

\* The slot completed last is not one that is open.
LastClosed ==
  \A c \in last : /\ c.slot.born \in 1..started
                  /\ \A t \in DOMAIN slots : slots[t].born # c.slot.born

BufferInv ==
  /\ TypeOK /\ Shapes /\ OrderMatchesSlots
  /\ SlotAccounting /\ DeliversIntact /\ LastClosed

\* There are n indices below n.
LEMMA IndexRange ==
  ASSUME NEW n \in Nat
  PROVE  IsFiniteSet(0..(n - 1)) /\ Cardinality(0..(n - 1)) = n
<1>1. 0 \in Int /\ n - 1 \in Int
  OBVIOUS
<1>2. /\ IsFiniteSet(0..(n - 1))
      /\ Cardinality(0..(n - 1)) = IF 0 > n - 1 THEN 0 ELSE (n - 1) - 0 + 1
  BY <1>1, FS_Interval, Zenon
<1> DEFINE c == Cardinality(0..(n - 1))
<1>3. c = IF 0 > n - 1 THEN 0 ELSE (n - 1) - 0 + 1
  BY <1>2
<1> HIDE DEF c
<1>4. c = n
  BY <1>3
<1> QED  BY <1>2, <1>4 DEF c

USE BufferAssumption

\* Every id the buffer holds is one a fragment carries, and so is its type.
LEMMA FragmentType ==
  ASSUME NEW f \in Fragments
  PROVE  /\ f.txID \in TxID /\ f.ver \in Version /\ f.total \in Nat
         /\ f.index \in Nat /\ f.len \in Nat
BY FragmentAssumption

\* Whether the ids of `order' that are in `map' come in the order of their slots.
InOrder(order, map) ==
  \A i, j \in DOMAIN order :
    i < j /\ {order[i], order[j]} \subseteq DOMAIN map
      => map[order[i]].born < map[order[j]].born

\* What expiry leaves: a map that can be counted and a FIFO of just its ids.
LEMMA ExpiryFacts ==
  ASSUME BufferInv
  PROVE  /\ Live \subseteq DOMAIN slots /\ IsFiniteSet(Live)
         /\ Cardinality(Live) \in Nat /\ NumExpired \in Nat
         /\ Cardinality(DOMAIN slots) = Cardinality(Live) + NumExpired
         /\ Cardinality(Live) <= MaxSlots
         /\ Compacted \in Seq(TxID) /\ ToSet(Compacted) = Live
         /\ IsInjective(Compacted) /\ InOrder(Compacted, slots)
<1>1. Live \subseteq DOMAIN slots /\ IsFiniteSet(DOMAIN slots)
  BY DEF Live, BufferInv, Shapes
<1>2. /\ IsFiniteSet(Live) /\ Cardinality(Live) <= Cardinality(DOMAIN slots)
      /\ Cardinality(Live) \in Nat /\ Cardinality(DOMAIN slots) \in Nat
  BY <1>1, FS_Subset, FS_CardinalityType
<1>3. /\ IsFiniteSet(DOMAIN slots \ Live) /\ NumExpired \in Nat
      /\ Cardinality(DOMAIN slots) = Cardinality(Live) + NumExpired
  <2>1. /\ IsFiniteSet(DOMAIN slots \ Live)
        /\ Cardinality(DOMAIN slots \ Live)
             = Cardinality(DOMAIN slots) - Cardinality(DOMAIN slots \cap Live)
    BY <1>1, FS_Difference
  <2>2. Cardinality(DOMAIN slots \cap Live) = Cardinality(Live)
    <3>1. DOMAIN slots \cap Live = Live
      BY <1>1
    <3> QED  BY <3>1
  <2>3. Cardinality(DOMAIN slots \ Live) \in Nat
    BY <2>1, FS_CardinalityType
  <2> QED  BY <1>2, <2>1, <2>2, <2>3 DEF NumExpired
<1>4. Cardinality(Live) <= MaxSlots
  BY <1>2 DEF BufferInv, OrderMatchesSlots
<1>5. insertOrder \in Seq(TxID) /\ DOMAIN slots \subseteq ToSet(insertOrder)
  BY DEF BufferInv, TypeOK, OrderMatchesSlots
<1>6. /\ Compacted \in Seq(TxID) /\ ToSet(Compacted) = ToSet(insertOrder) \cap Live
      /\ \A i, j \in DOMAIN Compacted :
           i < j => \E p, q \in DOMAIN insertOrder :
                      /\ p < q
                      /\ insertOrder[p] = Compacted[i]
                      /\ insertOrder[q] = Compacted[j]
  BY <1>5, CompactFacts DEF Compacted
<1>7. ToSet(Compacted) = Live
  BY <1>1, <1>5, <1>6
<1>8. IsInjective(insertOrder) /\ InOrder(insertOrder, slots)
  BY DEF BufferInv, OrderMatchesSlots, InOrder
<1>9. DOMAIN Compacted \subseteq Nat /\ DOMAIN insertOrder \subseteq Nat
  BY <1>5, <1>6
<1>10. IsInjective(Compacted)
  BY <1>6, <1>8, <1>9 DEF IsInjective
<1>11. InOrder(Compacted, slots)
  <2> SUFFICES ASSUME NEW i \in DOMAIN Compacted, NEW j \in DOMAIN Compacted,
                      i < j, {Compacted[i], Compacted[j]} \subseteq DOMAIN slots
               PROVE  slots[Compacted[i]].born < slots[Compacted[j]].born
    BY DEF InOrder
  <2>1. PICK p \in DOMAIN insertOrder, q \in DOMAIN insertOrder :
          p < q /\ insertOrder[p] = Compacted[i] /\ insertOrder[q] = Compacted[j]
    BY <1>6
  <2> QED  BY <1>8, <2>1 DEF InOrder
<1> QED  BY <1>1, <1>2, <1>3, <1>4, <1>6, <1>7, <1>10, <1>11

\* The least of a set of positions that has the first one.
LEMMA MinIsOne ==
  ASSUME NEW n \in Nat, NEW I, I \subseteq 1..n, 1 \in I
  PROVE  Min(I) = 1
<1>1. \A x \in I : 1 <= x
  OBVIOUS
<1>2. \A x \in I : (\A y \in I : x <= y) => x = 1
  OBVIOUS
<1> QED  BY <1>1, <1>2 DEF Min

\* The slot that is given up for a new one, and the FIFO without it.
Victim == IF Full THEN OldestInOrder(Compacted) ELSE {}
Rest == RemoveFirstMatch(Compacted, LAMBDA t : t \in Victim)

\* A full buffer has a slot to give up; it is the oldest one, and the FIFO
\* loses just its id.
LEMMA EvictionFacts ==
  ASSUME BufferInv
  PROVE  /\ Victim \subseteq Live /\ IsFiniteSet(Live \ Victim)
         /\ Cardinality(Victim) \in Nat
         /\ Cardinality(Live) = Cardinality(Live \ Victim) + Cardinality(Victim)
         /\ Cardinality(Live \ Victim) < MaxSlots
         /\ Rest \in Seq(TxID) /\ ToSet(Rest) = Live \ Victim
         /\ IsInjective(Rest) /\ InOrder(Rest, slots)
         /\ \A t \in Victim : Full /\ \A u \in Live \ Victim :
                                slots[t].born < slots[u].born
<1> DEFINE C == Compacted
           n == Len(C)
<1>1. /\ Live \subseteq DOMAIN slots /\ IsFiniteSet(Live)
      /\ Cardinality(Live) \in Nat /\ Cardinality(Live) <= MaxSlots
      /\ C \in Seq(TxID) /\ ToSet(C) = Live
      /\ IsInjective(C) /\ InOrder(C, slots)
  BY ExpiryFacts
<1> HIDE DEF C
<1>2. n \in Nat /\ DOMAIN C = 1..n /\ \A i \in 1..n : C[i] \in TxID
  BY <1>1
<1>3. CASE ~Full
  <2>1. Victim = {} /\ Cardinality(Live) < MaxSlots
    BY <1>1, <1>3 DEF Victim, Full
  <2>2. Rest = C
    BY <2>1 DEF Rest, RemoveFirstMatch, C
  <2>3. Live \ Victim = Live
    BY <2>1
  <2> QED  BY <1>1, <2>1, <2>2, <2>3, FS_EmptySet
<1>4. CASE Full
  <2>1. Cardinality(Live) >= 1
    BY <1>1, <1>4 DEF Full
  <2>2. n >= 1 /\ 1 \in 1..n
    <3>1. Live # {}
      BY <2>1, FS_EmptySet
    <3>2. DOMAIN C # {}
      BY <1>1, <3>1 DEF ToSet
    <3> QED  BY <1>2, <3>2
  <2>3. C[1] \in Live
    BY <1>1, <1>2, <2>2 DEF ToSet
  <2>4. Victim = {C[1]}
    <3> DEFINE I == {i \in 1..n : C[i] \in Live}
    <3>1. I # {} /\ Min(I) = 1
      BY <1>2, <2>2, <2>3, MinIsOne
    <3>2. Victim = IF (IF I # {} THEN Min(I) ELSE 0) = 0 THEN {}
                   ELSE {C[IF I # {} THEN Min(I) ELSE 0]}
      BY <1>4, Zenon DEF Victim, OldestInOrder, SelectInSeq, C
    <3> HIDE DEF I
    <3> QED  BY <3>1, <3>2
  <2>5. Rest = SubSeq(C, 1, 0) \o SubSeq(C, 2, n)
    <3> DEFINE I == {i \in 1..n : C[i] \in Victim}
    <3>1. I # {} /\ Min(I) = 1
      BY <1>2, <2>2, <2>4, MinIsOne
    <3>2. \E i \in 1..n : C[i] \in Victim
      BY <2>2, <2>4
    <3>3. Rest = SubSeq(C, 1, Min(I) - 1) \o SubSeq(C, Min(I) + 1, n)
      BY <3>1, <3>2, Zenon DEF Rest, RemoveFirstMatch, RemoveAt, SelectInSeq, C
    <3> HIDE DEF I
    <3> QED  BY <3>1, <3>3
  <2>6. /\ Rest \in Seq(TxID) /\ Len(Rest) = n - 1
        /\ \A i \in 1..(n - 1) : Rest[i] = C[i + 1]
    BY <1>1, <1>2, <2>2, <2>5
  <2>7. DOMAIN Rest = 1..(n - 1)
    BY <1>2, <2>6
  <2>8. ToSet(Rest) = Live \ Victim
    <3>1. \A i \in 1..(n - 1) : C[i + 1] \in Live /\ C[i + 1] # C[1]
      BY <1>1, <1>2, <2>2 DEF ToSet, IsInjective
    <3>2. ASSUME NEW u \in Live, u # C[1]
          PROVE  \E i \in 1..(n - 1) : C[i + 1] = u
      <4>1. PICK j \in 1..n : C[j] = u
        BY <1>1, <1>2 DEF ToSet
      <4>2. j - 1 \in 1..(n - 1) /\ (j - 1) + 1 = j
        BY <1>2, <3>2, <4>1
      <4> QED  BY <4>1, <4>2
    <3>3. ToSet(Rest) = {C[i + 1] : i \in 1..(n - 1)}
      BY <2>6, <2>7 DEF ToSet
    <3> QED  BY <2>4, <3>1, <3>2, <3>3
  <2>9. IsInjective(Rest)
    <3> SUFFICES ASSUME NEW i \in 1..(n - 1), NEW j \in 1..(n - 1),
                        Rest[i] = Rest[j]
                 PROVE  i = j
      BY <2>7 DEF IsInjective
    <3>1. i + 1 \in 1..n /\ j + 1 \in 1..n /\ C[i + 1] = C[j + 1]
      BY <1>2, <2>6
    <3> QED  BY <1>1, <1>2, <3>1 DEF IsInjective
  <2>10. InOrder(Rest, slots)
    <3> SUFFICES ASSUME NEW i \in 1..(n - 1), NEW j \in 1..(n - 1), i < j,
                        {Rest[i], Rest[j]} \subseteq DOMAIN slots
                 PROVE  slots[Rest[i]].born < slots[Rest[j]].born
      BY <2>7 DEF InOrder
    <3>1. /\ i + 1 \in 1..n /\ j + 1 \in 1..n /\ i + 1 < j + 1
          /\ Rest[i] = C[i + 1] /\ Rest[j] = C[j + 1]
      BY <1>2, <2>6
    <3> QED  BY <1>1, <1>2, <3>1 DEF InOrder
  <2>11. ASSUME NEW u \in Live \ Victim
         PROVE  slots[C[1]].born < slots[u].born
    <3>1. PICK j \in 1..n : C[j] = u
      BY <1>1, <1>2 DEF ToSet
    <3>2. 1 < j
      BY <1>2, <2>4, <3>1
    <3> QED  BY <1>1, <1>2, <2>2, <2>3, <3>1, <3>2 DEF InOrder
  <2>12. /\ IsFiniteSet(Live \ Victim) /\ Cardinality(Victim) = 1
         /\ Cardinality(Live \ Victim) = Cardinality(Live) - 1
    BY <1>1, <2>3, <2>4, FS_Singleton, FS_RemoveElement
  <2> QED
    BY <1>1, <1>4, <2>1, <2>3, <2>4, <2>6, <2>8, <2>9, <2>10, <2>11, <2>12
<1> QED  BY <1>3, <1>4

-----------------------------------------------------------------------------
(* The steps.                                                              *)

\* A slot that may take one more fragment.
Accepts(slot, f) ==
  /\ IsSlot(slot)
  /\ slot.ver \in Version /\ slot.len \in Nat /\ slot.deadline \in -1..TTL
  /\ DOMAIN slot.frags \subseteq 0..(slot.total - 1)
  /\ f.index < slot.total /\ f.index \notin DOMAIN slot.frags

\* What the fragment makes of it; a complete slot has every fragment.
LEMMA FilledFacts ==
  ASSUME NEW slot, NEW f \in Fragments, Accepts(slot, f),
         NEW new, new = [slot EXCEPT !.frags = Put(@, f.index, f.intact)]
  PROVE  /\ IsSlot(new) /\ new.ver = slot.ver /\ new.total = slot.total
         /\ new.len = slot.len /\ new.deadline = slot.deadline
         /\ new.born = slot.born
         /\ DOMAIN new.frags \subseteq 0..(new.total - 1)
         /\ Cardinality(DOMAIN new.frags) \in 1..new.total
         /\ Complete(new) => DOMAIN new.frags = 0..(new.total - 1)
<1> DEFINE map == Put(slot.frags, f.index, f.intact)
<1>1. /\ slot = [ver |-> slot.ver, total |-> slot.total, len |-> slot.len,
                 deadline |-> slot.deadline, born |-> slot.born,
                 frags |-> slot.frags]
      /\ slot.total \in Nat
  BY DEF Accepts, IsSlot
<1>2. new = [ver |-> slot.ver, total |-> slot.total, len |-> slot.len,
             deadline |-> slot.deadline, born |-> slot.born, frags |-> map]
  <2> HIDE DEF map
  <2>1. new = [slot EXCEPT !.frags = map]
    BY DEF map
  <2> QED  BY <1>1, <2>1
<1>3. DOMAIN map = DOMAIN slot.frags \cup {f.index}
  BY DEF Put
<1> HIDE DEF map
<1>4. /\ new.ver = slot.ver /\ new.total = slot.total /\ new.len = slot.len
      /\ new.deadline = slot.deadline /\ new.born = slot.born /\ new.frags = map
  BY <1>2
<1>5. IsSlot(new)
  BY <1>1, <1>2, <1>4 DEF IsSlot
<1> DEFINE D == DOMAIN new.frags
           all == 0..(slot.total - 1)
<1>6. D \subseteq all /\ f.index \in D
  BY <1>1, <1>3, <1>4, FragmentType DEF Accepts
<1>7. IsFiniteSet(all) /\ Cardinality(all) = slot.total
  BY <1>1, IndexRange
<1> HIDE DEF D, all
<1>8. /\ IsFiniteSet(D) /\ Cardinality(D) \in Nat /\ Cardinality(D) <= slot.total
      /\ Cardinality(D) = slot.total => D = all
  BY <1>1, <1>6, <1>7, FS_Subset, FS_CardinalityType
<1>9. Cardinality(D) # 0
  BY <1>6, <1>8, FS_EmptySet
<1> QED  BY <1>1, <1>4, <1>5, <1>6, <1>8, <1>9 DEF D, all, Complete

\* The metrics stay in balance when one slot completes, or none.
LEMMA Balance ==
  ASSUME NEW delivers \in Nat, NEW fails \in Nat, NEW gone \in Nat,
         NEW open \in Nat, NEW one \in Nat, NEW delivers2 \in Nat, NEW fails2 \in Nat,
         delivers2 + fails2 = delivers + fails + one
  PROVE  delivers + fails + gone + open + 1 = delivers2 + gone + fails2 + (open + 1 - one)
OBVIOUS

\* Storing a fragment in a slot that the rest of the map, K, does not know.
StoreCase(f, slot, K) ==
  /\ Accepts(slot, f)
  /\ K \subseteq Live /\ f.txID \notin K
  /\ IsFiniteSet(K) /\ Cardinality(K) < MaxSlots
  /\ Store(Restrict(slots, K), slot, f)
  /\ started' \in started..MaxStarted /\ abandoned' \in Nat
  /\ started' = delivered + mismatched + abandoned' + Cardinality(K) + 1
  /\ slot.born \in 1..started'
  /\ \A t \in K : slots[t].born # slot.born
  /\ \A c \in last : c.slot.born # slot.born
  /\ insertOrder' \in Seq(TxID) /\ IsInjective(insertOrder')
  /\ ToSet(insertOrder') = K \cup {f.txID}
  /\ InOrder(insertOrder', Put(Restrict(slots, K), f.txID, slot))

(* Storing a fragment, in a slot of its own, keeps the invariant.           *)
LEMMA StoreKeeps ==
  ASSUME BufferInv, NEW f \in Fragments, NEW slot, NEW K, StoreCase(f, slot, K)
  PROVE  BufferInv'
<1> DEFINE x == f.txID
           new == [slot EXCEPT !.frags = Put(@, f.index, f.intact)]
           base == Restrict(slots, K)
<1>a. Accepts(slot, f) /\ Store(base, slot, f)
  BY DEF StoreCase
<1>b. K \subseteq Live /\ x \notin K /\ IsFiniteSet(K) /\ Cardinality(K) < MaxSlots
  BY DEF StoreCase
<1>c. /\ started' \in started..MaxStarted /\ abandoned' \in Nat
      /\ started' = delivered + mismatched + abandoned' + Cardinality(K) + 1
  BY DEF StoreCase
<1>d. /\ slot.born \in 1..started'
      /\ \A t \in K : slots[t].born # slot.born
      /\ \A c \in last : c.slot.born # slot.born
  BY DEF StoreCase
<1>e. /\ insertOrder' \in Seq(TxID) /\ IsInjective(insertOrder')
      /\ ToSet(insertOrder') = K \cup {x}
      /\ InOrder(insertOrder', Put(base, x, slot))
  BY DEF StoreCase
<1>1. /\ IsSlot(new) /\ new.ver = slot.ver /\ new.total = slot.total
      /\ new.len = slot.len /\ new.deadline = slot.deadline
      /\ new.born = slot.born
      /\ DOMAIN new.frags \subseteq 0..(new.total - 1)
      /\ Cardinality(DOMAIN new.frags) \in 1..new.total
      /\ Complete(new) => DOMAIN new.frags = 0..(new.total - 1)
  BY <1>a, FilledFacts
<1>2. /\ Complete(new) =>
           /\ slots' = base /\ last' = {[slot |-> new, ok |-> ~Corrupt(new)]}
           /\ mismatched' = mismatched + (IF Corrupt(new) THEN 1 ELSE 0)
           /\ delivered' = delivered + (IF Corrupt(new) THEN 0 ELSE 1)
      /\ ~Complete(new) =>
           /\ slots' = Put(base, x, new)
           /\ last' = last /\ mismatched' = mismatched /\ delivered' = delivered
  BY <1>a DEF Store
<1>3. DOMAIN base = K /\ \A t \in K : base[t] = slots[t]
  BY DEF Restrict
<1>4. x \in TxID /\ x \notin K /\ K \subseteq DOMAIN slots /\ K \subseteq TxID
  BY <1>b, FragmentType DEF Live, BufferInv, TypeOK
<1> HIDE DEF new, base
<1>5. /\ \A t \in DOMAIN Put(base, x, slot) :
           Put(base, x, slot)[t] = IF t = x THEN slot ELSE slots[t]
      /\ DOMAIN Put(base, x, slot) = K \cup {x}
  BY <1>3 DEF Put
<1>6. /\ DOMAIN slots' = IF Complete(new) THEN K ELSE K \cup {x}
      /\ \A t \in K : slots'[t] = slots[t]
      /\ ~Complete(new) => slots'[x] = new
  BY <1>2, <1>3, <1>4 DEF Put
<1>7. /\ IsFiniteSet(K \cup {x}) /\ Cardinality(K) \in Nat
      /\ Cardinality(K \cup {x}) = Cardinality(K) + 1
  BY <1>4, <1>b, FS_AddElement, FS_CardinalityType
<1>8. started' \in Nat /\ started \in Nat /\ started <= started'
  BY <1>c DEF BufferInv, TypeOK
<1>9. TypeOK'
  <2>1. ASSUME NEW t \in K
        PROVE  /\ slots[t].ver \in Version /\ slots[t].len \in Nat
               /\ slots[t].deadline \in -1..TTL
               /\ slots[t].born \in 1..started'
               /\ DOMAIN slots[t].frags \subseteq 0..(slots[t].total - 1)
               /\ Cardinality(DOMAIN slots[t].frags) \in 1..(slots[t].total - 1)
    BY <1>4, <1>8 DEF BufferInv, TypeOK
  <2>2. ASSUME ~Complete(new)
        PROVE  /\ new.ver \in Version /\ new.len \in Nat
               /\ new.deadline \in -1..TTL
               /\ new.born \in 1..started'
               /\ DOMAIN new.frags \subseteq 0..(new.total - 1)
               /\ Cardinality(DOMAIN new.frags) \in 1..(new.total - 1)
    BY <1>1, <1>a, <1>d, <2>2 DEF Accepts, IsSlot, Complete
  <2>3. started' \in 0..MaxStarted /\ DOMAIN slots' \subseteq TxID
    BY <1>4, <1>6, <1>8, <1>c
  <2> QED  BY <1>6, <1>e, <2>1, <2>2, <2>3 DEF TypeOK
<1>10. Shapes'
  <2>1. \A t \in DOMAIN slots' : IsSlot(slots'[t])
    BY <1>1, <1>4, <1>6 DEF BufferInv, Shapes
  <2>2. IsFiniteSet(DOMAIN slots')
    BY <1>6, <1>7, <1>b
  <2>3. delivered' \in Nat /\ mismatched' \in Nat
    BY <1>2 DEF BufferInv, Shapes
  <2> QED  BY <1>c, <2>1, <2>2, <2>3 DEF Shapes
<1>11. OrderMatchesSlots'
  <2>1. Cardinality(DOMAIN slots') <= MaxSlots
    BY <1>6, <1>7, <1>b
  <2>2. DOMAIN slots' \subseteq ToSet(insertOrder')
    BY <1>6, <1>e
  <2>3. Cardinality(ToSet(insertOrder') \ DOMAIN slots') <= 1
    <3> DEFINE stale == ToSet(insertOrder') \ DOMAIN slots'
    <3>1. Complete(new) => stale = {x}
      BY <1>4, <1>6, <1>e
    <3>2. ~Complete(new) => stale = {}
      BY <1>4, <1>6, <1>e
    <3> HIDE DEF stale
    <3>3. Cardinality(stale) \in {0, 1}
      BY <3>1, <3>2, FS_Singleton, FS_EmptySet
    <3>4. Cardinality(stale) <= 1
      BY <3>3
    <3> QED  BY <3>4 DEF stale
  <2>4. InOrder(insertOrder', slots')
    <3> SUFFICES ASSUME NEW i \in DOMAIN insertOrder', NEW j \in DOMAIN insertOrder',
                        i < j,
                        {insertOrder'[i], insertOrder'[j]} \subseteq DOMAIN slots'
                 PROVE  slots'[insertOrder'[i]].born < slots'[insertOrder'[j]].born
      BY DEF InOrder
    <3>1. \A t \in DOMAIN slots' :
            /\ t \in DOMAIN Put(base, x, slot)
            /\ slots'[t].born = Put(base, x, slot)[t].born
      BY <1>1, <1>4, <1>5, <1>6
    <3>2. InOrder(insertOrder', Put(base, x, slot))
      BY <1>e
    <3> QED  BY <3>1, <3>2 DEF InOrder
  <2> QED  BY <1>e, <2>1, <2>2, <2>3, <2>4 DEF OrderMatchesSlots, InOrder
<1>12. SlotAccounting'
  <2>1. delivered \in Nat /\ mismatched \in Nat
    BY DEF BufferInv, Shapes
  <2>2. Cardinality(DOMAIN slots') = Cardinality(K) + IF Complete(new) THEN 0 ELSE 1
    <3>1. CASE Complete(new)
      BY <1>6, <1>7, <3>1
    <3>2. CASE ~Complete(new)
      BY <1>6, <1>7, <3>2
    <3> QED  BY <3>1, <3>2
  <2>3. delivered' + mismatched'
          = delivered + mismatched + IF Complete(new) THEN 1 ELSE 0
    BY <1>2, <2>1
  <2>4. delivered' \in Nat /\ mismatched' \in Nat /\ abandoned' \in Nat
    BY <1>c, <1>10 DEF Shapes
  <2> DEFINE k == Cardinality(K)
             one == IF Complete(new) THEN 1 ELSE 0
             d == delivered
             w == mismatched
             d2 == delivered'
             w2 == mismatched'
             a2 == abandoned'
  <2>0. one \in Nat
    OBVIOUS
  <2>5. /\ k \in Nat /\ one \in Nat /\ d \in Nat /\ w \in Nat /\ d2 \in Nat
        /\ w2 \in Nat /\ a2 \in Nat /\ d2 + w2 = d + w + one
    BY <1>7, <2>0, <2>1, <2>3, <2>4, Zenon
  <2>6. started' = d + w + a2 + k + 1 /\ Cardinality(DOMAIN slots') = k + 1 - one
    BY <1>7, <1>c, <2>2
  <2> HIDE DEF k, one, d, w, d2, w2, a2
  <2>7. d + w + a2 + k + 1 = d2 + a2 + w2 + (k + 1 - one)
    BY <2>5, Balance
  <2>8. started' = d2 + a2 + w2 + Cardinality(DOMAIN slots')
    BY <2>6, <2>7, Zenon
  <2> QED  BY <2>8 DEF SlotAccounting, d2, w2, a2
<1>13. DeliversIntact'
  <2>1. CASE Complete(new)
    <3> DEFINE c == [slot |-> new, ok |-> ~Corrupt(new)]
    <3>1. last' = {c} /\ c.slot = new /\ (c.ok <=> ~Corrupt(new))
      BY <1>2, <2>1
    <3>2. ASSUME c.ok, VerifyHash, new.ver = "V2", NEW i \in DOMAIN new.frags
          PROVE  new.frags[i]
      BY <3>1, <3>2 DEF Corrupt
    <3>3. DOMAIN new.frags = 0..(new.total - 1)
      BY <1>1, <2>1
    <3> HIDE DEF c
    <3> QED  BY <3>1, <3>2, <3>3 DEF DeliversIntact
  <2>2. CASE ~Complete(new)
    BY <1>2, <2>2 DEF BufferInv, DeliversIntact
  <2> QED  BY <2>1, <2>2
<1>14. LastClosed'
  <2>1. CASE Complete(new)
    <3> DEFINE c == [slot |-> new, ok |-> ~Corrupt(new)]
    <3>1. last' = {c} /\ c.slot = new
      BY <1>2, <2>1
    <3>2. new.born = slot.born /\ slot.born \in 1..started'
      BY <1>1, <1>d
    <3>3. \A t \in DOMAIN slots' : slots'[t].born # slot.born
      BY <1>6, <1>d, <2>1
    <3> HIDE DEF c
    <3> QED  BY <3>1, <3>2, <3>3 DEF LastClosed
  <2>2. CASE ~Complete(new)
    <3>1. last' = last
      BY <1>2, <2>2
    <3>2. ASSUME NEW c \in last
          PROVE  /\ c.slot.born \in 1..started' /\ c.slot.born # slot.born
                 /\ \A t \in K : slots[t].born # c.slot.born
      BY <1>4, <1>8, <1>d DEF BufferInv, LastClosed
    <3>3. /\ DOMAIN slots' = K \cup {x} /\ slots'[x].born = slot.born
          /\ \A t \in K : slots'[t].born = slots[t].born
      BY <1>1, <1>6, <2>2
    <3> QED  BY <1>d, <3>1, <3>2, <3>3 DEF LastClosed
  <2> QED  BY <2>1, <2>2
<1> QED  BY <1>9, <1>10, <1>11, <1>12, <1>13, <1>14 DEF BufferInv

\* Dropping all slots but those of K, in the order of the FIFO.
LEMMA DropKeeps ==
  ASSUME BufferInv, NEW K, K \subseteq DOMAIN slots,
         DOMAIN slots' = K, \A t \in K : slots'[t] = slots[t],
         insertOrder' \in Seq(TxID), IsInjective(insertOrder'),
         ToSet(insertOrder') = K, InOrder(insertOrder', slots),
         abandoned' = abandoned + Cardinality(DOMAIN slots \ K),
         UNCHANGED <<started, mismatched, delivered, last>>
  PROVE  BufferInv'
<1>1. /\ started' = started /\ mismatched' = mismatched
      /\ delivered' = delivered /\ last' = last
  OBVIOUS
<1>2. /\ IsFiniteSet(DOMAIN slots) /\ delivered \in Nat /\ mismatched \in Nat
      /\ abandoned \in Nat
  BY DEF BufferInv, Shapes
<1>3. /\ IsFiniteSet(K) /\ Cardinality(K) \in Nat
      /\ Cardinality(DOMAIN slots) \in Nat
      /\ Cardinality(K) <= Cardinality(DOMAIN slots)
  BY <1>2, FS_Subset, FS_CardinalityType
<1>4. /\ Cardinality(DOMAIN slots \ K) \in Nat
      /\ Cardinality(DOMAIN slots) = Cardinality(K) + Cardinality(DOMAIN slots \ K)
  <2>1. /\ IsFiniteSet(DOMAIN slots \ K)
        /\ Cardinality(DOMAIN slots \ K)
             = Cardinality(DOMAIN slots) - Cardinality(DOMAIN slots \cap K)
    BY <1>2, FS_Difference
  <2>2. DOMAIN slots \cap K = K
    OBVIOUS
  <2>3. Cardinality(DOMAIN slots \ K) \in Nat
    BY <2>1, FS_CardinalityType
  <2>4. Cardinality(DOMAIN slots \cap K) = Cardinality(K)
    BY <2>2
  <2> QED  BY <1>3, <2>1, <2>3, <2>4
<1>5. TypeOK'
  BY <1>1 DEF BufferInv, TypeOK
<1>6. Shapes'
  BY <1>1, <1>2, <1>3, <1>4 DEF BufferInv, Shapes
<1>7. OrderMatchesSlots'
  <2>1. Cardinality(DOMAIN slots') <= MaxSlots
    BY <1>3 DEF BufferInv, OrderMatchesSlots
  <2>2. Cardinality(ToSet(insertOrder') \ DOMAIN slots') <= 1
    <3>1. ToSet(insertOrder') \ DOMAIN slots' = {}
      OBVIOUS
    <3>2. Cardinality(ToSet(insertOrder') \ DOMAIN slots') = 0
      BY <3>1, FS_EmptySet
    <3> QED  BY <3>2
  <2>3. InOrder(insertOrder', slots')
    BY DEF InOrder
  <2> QED  BY <2>1, <2>2, <2>3 DEF OrderMatchesSlots, InOrder
<1>8. SlotAccounting'
  <2>1. started = delivered + abandoned + mismatched + Cardinality(DOMAIN slots)
    BY DEF BufferInv, SlotAccounting
  <2>2. started' = delivered' + abandoned' + mismatched' + Cardinality(DOMAIN slots')
    <3> DEFINE k == Cardinality(K)
               d == Cardinality(DOMAIN slots \ K)
               all == Cardinality(DOMAIN slots)
    <3>1. /\ k \in Nat /\ d \in Nat /\ all = k + d /\ abandoned' = abandoned + d
          /\ Cardinality(DOMAIN slots') = k
          /\ started = delivered + abandoned + mismatched + all
      BY <1>3, <1>4, <2>1
    <3> HIDE DEF k, d, all
    <3> QED  BY <1>1, <1>2, <3>1
  <2> QED  BY <2>2 DEF SlotAccounting
<1>9. DeliversIntact'
  BY <1>1 DEF BufferInv, DeliversIntact
<1>10. LastClosed'
  BY <1>1 DEF BufferInv, LastClosed
<1> QED  BY <1>5, <1>6, <1>7, <1>8, <1>9, <1>10 DEF BufferInv

\* Expiry alone: a fragment that is ignored, and the background Tick.
LEMMA ExpiryKeeps ==
  ASSUME BufferInv, slots' = Restrict(slots, Live), insertOrder' = Compacted,
         abandoned' = abandoned + NumExpired,
         UNCHANGED <<started, mismatched, delivered, last>>
  PROVE  BufferInv'
<1>1. DOMAIN slots' = Live /\ \A t \in Live : slots'[t] = slots[t]
  BY DEF Restrict
<1>2. abandoned' = abandoned + Cardinality(DOMAIN slots \ Live)
  BY DEF NumExpired
<1> QED  BY <1>1, <1>2, ExpiryFacts, DropKeeps

\* Purge empties the map and the FIFO together.
LEMMA PurgeKeeps ==
  ASSUME BufferInv, Purge
  PROVE  BufferInv'
<1>1. DOMAIN slots' = {} /\ insertOrder' = <<>>
  BY DEF Purge
<1>2. /\ insertOrder' \in Seq(TxID) /\ IsInjective(insertOrder')
      /\ ToSet(insertOrder') = {} /\ InOrder(insertOrder', slots)
  BY <1>1 DEF IsInjective, ToSet, InOrder
<1>3. abandoned' = abandoned + Cardinality(DOMAIN slots \ {})
  <2>1. DOMAIN slots \ {} = DOMAIN slots
    OBVIOUS
  <2> QED  BY <2>1 DEF Purge
<1>4. UNCHANGED <<started, mismatched, delivered, last>>
  BY DEF Purge
<1> QED  BY <1>1, <1>2, <1>3, <1>4, DropKeeps

\* The clock moves deadlines only.
LEMMA TimeKeeps ==
  ASSUME BufferInv, TimePasses
  PROVE  BufferInv'
<1>1. DOMAIN slots' = DOMAIN slots
  BY DEF TimePasses
<1>2. ASSUME NEW t \in DOMAIN slots
      PROVE  /\ IsSlot(slots'[t])
             /\ slots'[t].ver = slots[t].ver /\ slots'[t].total = slots[t].total
             /\ slots'[t].len = slots[t].len /\ slots'[t].born = slots[t].born
             /\ slots'[t].frags = slots[t].frags
             /\ slots'[t].deadline \in -1..TTL
  <2> DEFINE d == IF Expired(t) THEN -1 ELSE slots[t].deadline - 1
             s == slots[t]
  <2>1. slots'[t] = [s EXCEPT !.deadline = d]
    BY DEF TimePasses
  <2>2. d \in -1..TTL
    BY DEF BufferInv, TypeOK, Expired
  <2>3. IsSlot(s)
    BY DEF BufferInv, Shapes
  <2> HIDE DEF d, s
  <2>4. slots'[t] = [ver |-> s.ver, total |-> s.total, len |-> s.len,
                     deadline |-> d, born |-> s.born, frags |-> s.frags]
    BY <2>1, <2>3 DEF IsSlot
  <2> QED  BY <2>2, <2>3, <2>4 DEF IsSlot, s
<1>3. /\ insertOrder' = insertOrder /\ started' = started /\ abandoned' = abandoned
      /\ mismatched' = mismatched /\ delivered' = delivered /\ last' = last
  BY DEF TimePasses
<1>4. TypeOK'
  BY <1>1, <1>2, <1>3 DEF BufferInv, TypeOK
<1>5. Shapes'
  BY <1>1, <1>2, <1>3 DEF BufferInv, Shapes
<1>6. OrderMatchesSlots'
  BY <1>1, <1>2, <1>3 DEF BufferInv, OrderMatchesSlots
<1>7. SlotAccounting' /\ DeliversIntact'
  BY <1>1, <1>3 DEF BufferInv, SlotAccounting, DeliversIntact
<1>8. LastClosed'
  BY <1>1, <1>2, <1>3 DEF BufferInv, LastClosed
<1> QED  BY <1>4, <1>5, <1>6, <1>7, <1>8 DEF BufferInv

\* No two open slots have the same number.
LEMMA BornApart ==
  ASSUME BufferInv, NEW t \in DOMAIN slots, NEW u \in DOMAIN slots, t # u
  PROVE  slots[t].born # slots[u].born
<1>1. /\ insertOrder \in Seq(TxID) /\ {t, u} \subseteq ToSet(insertOrder)
      /\ InOrder(insertOrder, slots)
      /\ slots[t].born \in Int /\ slots[u].born \in Int
  BY DEF BufferInv, TypeOK, OrderMatchesSlots, InOrder
<1>2. PICK i \in DOMAIN insertOrder, j \in DOMAIN insertOrder :
        insertOrder[i] = t /\ insertOrder[j] = u
  BY <1>1 DEF ToSet
<1>3. i # j /\ i \in Int /\ j \in Int
  BY <1>1, <1>2
<1>4. CASE i < j
  BY <1>1, <1>2, <1>4 DEF InOrder
<1>5. CASE j < i
  BY <1>1, <1>2, <1>5 DEF InOrder
<1> QED  BY <1>3, <1>4, <1>5

\* A further fragment of a payload that has a slot.
LEMMA NextKeeps ==
  ASSUME BufferInv, NEW f \in Fragments, ObserveNext(f)
  PROVE  BufferInv'
<1> DEFINE x == f.txID
           slot == slots[x]
           K == Live \ {x}
<1>1. /\ x \in Live /\ f.index < slot.total /\ f.index \notin DOMAIN slot.frags
      /\ Store(Restrict(slots, K), slot, f)
      /\ insertOrder' = Compacted /\ abandoned' = abandoned + NumExpired
      /\ started' = started
  BY DEF ObserveNext
<1>2. /\ Live \subseteq DOMAIN slots /\ IsFiniteSet(Live)
      /\ Cardinality(Live) \in Nat /\ NumExpired \in Nat
      /\ Cardinality(DOMAIN slots) = Cardinality(Live) + NumExpired
      /\ Cardinality(Live) <= MaxSlots
      /\ Compacted \in Seq(TxID) /\ ToSet(Compacted) = Live
      /\ IsInjective(Compacted) /\ InOrder(Compacted, slots)
  BY ExpiryFacts
<1>3. /\ K \subseteq Live /\ x \notin K /\ K \cup {x} = Live
      /\ K \subseteq DOMAIN slots /\ x \in DOMAIN slots
  BY <1>1, <1>2
<1>4. IsFiniteSet(K) /\ Cardinality(K) = Cardinality(Live) - 1
  BY <1>1, <1>2, FS_RemoveElement
<1>5. Accepts(slot, f)
  BY <1>1, <1>3 DEF Accepts, BufferInv, TypeOK, Shapes
<1>6. slot.born \in 1..started /\ started \in 0..MaxStarted
  BY <1>3 DEF BufferInv, TypeOK
<1>7. \A t \in K : slots[t].born # slot.born
  BY <1>3, BornApart
<1>8. \A c \in last : c.slot.born # slot.born
  BY <1>3 DEF BufferInv, LastClosed
<1>9. InOrder(Compacted, Put(Restrict(slots, K), x, slot))
  <2>1. /\ DOMAIN Put(Restrict(slots, K), x, slot) = Live
        /\ \A t \in Live : Put(Restrict(slots, K), x, slot)[t] = slots[t]
    BY <1>3 DEF Put, Restrict
  <2> QED  BY <1>2, <2>1 DEF InOrder
<1>10. /\ started = delivered + abandoned + mismatched + Cardinality(DOMAIN slots)
       /\ delivered \in Nat /\ abandoned \in Nat /\ mismatched \in Nat
  BY DEF BufferInv, SlotAccounting, Shapes
<1>11. /\ Cardinality(K) < MaxSlots
       /\ started' \in started..MaxStarted /\ abandoned' \in Nat
       /\ started' = delivered + mismatched + abandoned' + Cardinality(K) + 1
       /\ slot.born \in 1..started'
  BY <1>1, <1>2, <1>4, <1>6, <1>10
<1>12. /\ insertOrder' \in Seq(TxID) /\ IsInjective(insertOrder')
       /\ ToSet(insertOrder') = K \cup {x}
       /\ InOrder(insertOrder', Put(Restrict(slots, K), x, slot))
  BY <1>1, <1>2, <1>3, <1>9
<1> HIDE DEF K, slot
<1> QED
  <2>1. StoreCase(f, slot, K)
    BY <1>1, <1>3, <1>4, <1>5, <1>7, <1>8, <1>11, <1>12 DEF StoreCase
  <2> QED  BY <2>1, StoreKeeps

\* The first fragment of a payload, at the cost of the oldest slot if need be.
LEMMA FirstKeeps ==
  ASSUME BufferInv, NEW f \in Fragments, ObserveFirst(f)
  PROVE  BufferInv'
<1> DEFINE x == f.txID
           slot == [ver |-> f.ver, total |-> f.total, len |-> f.len,
                    deadline |-> TTL, born |-> started + 1,
                    frags |-> [i \in {} |-> TRUE]]
           K == Live \ Victim
<1>1. /\ x \notin Live /\ ~Pathological(f) /\ started < MaxStarted
      /\ Store(Restrict(slots, K), slot, f)
      /\ insertOrder' = Append(Rest, x)
      /\ abandoned' = abandoned + NumExpired + Cardinality(Victim)
      /\ started' = started + 1
  BY Zenon DEF ObserveFirst, Victim, Rest
<1>2. /\ Victim \subseteq Live /\ IsFiniteSet(K) /\ Cardinality(Victim) \in Nat
      /\ Cardinality(Live) = Cardinality(K) + Cardinality(Victim)
      /\ Cardinality(K) < MaxSlots
      /\ Rest \in Seq(TxID) /\ ToSet(Rest) = K
      /\ IsInjective(Rest) /\ InOrder(Rest, slots)
  BY EvictionFacts
<1>3. /\ Live \subseteq DOMAIN slots /\ NumExpired \in Nat
      /\ Cardinality(DOMAIN slots) = Cardinality(Live) + NumExpired
  BY ExpiryFacts
<1>4. Cardinality(K) \in Nat /\ K \subseteq Live /\ K \subseteq DOMAIN slots
      /\ x \notin K
  BY <1>1, <1>2, <1>3, FS_CardinalityType
<1>5. /\ x \in TxID /\ f.ver \in Version /\ f.total \in Nat /\ f.index \in Nat
      /\ f.len \in Nat /\ f.index < f.total
  BY <1>1, FragmentType DEF Pathological
<1>6. Accepts(slot, f)
  <2>1. /\ slot.ver = f.ver /\ slot.total = f.total /\ slot.len = f.len
        /\ slot.deadline = TTL /\ slot.born = started + 1 /\ DOMAIN slot.frags = {}
    OBVIOUS
  <2>2. slot = [ver |-> slot.ver, total |-> slot.total, len |-> slot.len,
                deadline |-> slot.deadline, born |-> slot.born, frags |-> slot.frags]
    OBVIOUS
  <2>3. TTL \in -1..TTL
    OBVIOUS
  <2> HIDE DEF slot
  <2> QED  BY <1>5, <2>1, <2>2, <2>3 DEF Accepts, IsSlot
<1>7. started \in 0..MaxStarted /\ slot.born = started + 1
  BY DEF BufferInv, TypeOK
<1>8. ASSUME NEW t \in K
      PROVE  slots[t].born \in Int /\ slots[t].born < started + 1
  BY <1>4, <1>7 DEF BufferInv, TypeOK
<1>9. \A c \in last : c.slot.born # started + 1
  BY <1>7 DEF BufferInv, LastClosed
<1>10. /\ started = delivered + abandoned + mismatched + Cardinality(DOMAIN slots)
       /\ delivered \in Nat /\ abandoned \in Nat /\ mismatched \in Nat
  BY DEF BufferInv, SlotAccounting, Shapes
<1> DEFINE n == Len(Rest)
           order == Append(Rest, x)
           map == Put(Restrict(slots, K), x, slot)
<1>11. /\ order \in Seq(TxID) /\ n \in Nat /\ DOMAIN order = 1..(n + 1)
       /\ DOMAIN Rest = 1..n
       /\ \A i \in 1..n : order[i] = Rest[i] /\ Rest[i] \in K
       /\ order[n + 1] = x
  <2>1. Rest \in Seq(TxID) /\ x \in TxID
    BY <1>2, <1>5
  <2>2. n \in Nat /\ DOMAIN Rest = 1..n
    BY <2>1
  <2>3. order \in Seq(TxID) /\ Len(order) = n + 1
    BY <2>1
  <2>4. DOMAIN order = 1..(n + 1)
    BY <2>2, <2>3
  <2>5. (\A i \in 1..n : order[i] = Rest[i]) /\ order[n + 1] = x
    BY <2>1
  <2>6. \A i \in 1..n : Rest[i] \in K
    BY <1>2, <2>2 DEF ToSet
  <2> QED  BY <2>2, <2>3, <2>4, <2>5, <2>6
<1>12. /\ DOMAIN map = K \cup {x} /\ map[x] = slot
       /\ \A t \in K : map[t] = slots[t]
  BY <1>4 DEF Put, Restrict
<1> HIDE DEF order, map, slot, K, n
<1>13. ToSet(order) = K \cup {x}
  <2>1. \A t \in K : \E i \in 1..n : order[i] = t
    BY <1>2, <1>11 DEF ToSet
  <2>2. \A i \in 1..(n + 1) : i \in 1..n \/ i = n + 1
    BY <1>11
  <2>3. 1..n \subseteq 1..(n + 1) /\ n + 1 \in 1..(n + 1)
    BY <1>11
  <2>4. \A i \in 1..(n + 1) : order[i] \in K \cup {x}
    BY <1>11, <2>2
  <2>5. \A t \in K \cup {x} : \E i \in 1..(n + 1) : order[i] = t
    BY <1>11, <2>1, <2>3
  <2>6. ToSet(order) = {order[i] : i \in 1..(n + 1)}
    BY <1>11, Zenon DEF ToSet
  <2> QED  BY <2>4, <2>5, <2>6
<1>14. IsInjective(order)
  <2> SUFFICES ASSUME NEW i \in 1..(n + 1), NEW j \in 1..(n + 1),
                      order[i] = order[j]
               PROVE  i = j
    BY <1>11 DEF IsInjective
  <2>1. CASE i \in 1..n /\ j \in 1..n
    BY <1>2, <1>11, <2>1 DEF IsInjective
  <2>2. CASE i = n + 1 /\ j = n + 1
    BY <2>2
  <2>3. CASE (i \in 1..n /\ j = n + 1) \/ (i = n + 1 /\ j \in 1..n)
    BY <1>4, <1>11, <2>3
  <2> QED  BY <1>11, <2>1, <2>2, <2>3
<1>15. InOrder(order, map)
  <2> SUFFICES ASSUME NEW i \in 1..(n + 1), NEW j \in 1..(n + 1), i < j
               PROVE  map[order[i]].born < map[order[j]].born
    BY <1>11 DEF InOrder
  <2>1. i \in 1..n /\ (j \in 1..n \/ j = n + 1)
    BY <1>11
  <2>2. CASE j \in 1..n
    BY <1>2, <1>4, <1>11, <1>12, <2>1, <2>2 DEF InOrder
  <2>3. CASE j = n + 1
    BY <1>7, <1>8, <1>11, <1>12, <2>1, <2>3
  <2> QED  BY <2>1, <2>2, <2>3
<1>16. /\ started' \in started..MaxStarted /\ abandoned' \in Nat
       /\ started' = delivered + mismatched + abandoned' + Cardinality(K) + 1
       /\ slot.born \in 1..started'
  <2>1. started' \in started..MaxStarted /\ slot.born \in 1..started'
    BY <1>1, <1>7
  <2>2. abandoned' \in Nat
    BY <1>1, <1>2, <1>3, <1>10
  <2>3. Cardinality(DOMAIN slots)
          = Cardinality(K) + Cardinality(Victim) + NumExpired
    BY <1>2, <1>3, <1>4
  <2>4. started' = delivered + mismatched + abandoned' + Cardinality(K) + 1
    BY <1>1, <1>2, <1>3, <1>4, <1>10, <2>3
  <2> QED  BY <2>1, <2>2, <2>4
<1>17. /\ \A t \in K : slots[t].born # slot.born
       /\ \A c \in last : c.slot.born # slot.born
  BY <1>7, <1>8, <1>9
<1>18. /\ insertOrder' \in Seq(TxID) /\ IsInjective(insertOrder')
       /\ ToSet(insertOrder') = K \cup {x}
       /\ InOrder(insertOrder', Put(Restrict(slots, K), x, slot))
  BY <1>1, <1>11, <1>13, <1>14, <1>15 DEF order, map
<1> QED
  <2>1. StoreCase(f, slot, K)
    BY <1>1, <1>2, <1>4, <1>6, <1>16, <1>17, <1>18 DEF StoreCase
  <2> QED  BY <2>1, StoreKeeps
-----------------------------------------------------------------------------
\* The empty buffer.
LEMMA BufferInit ==
  ASSUME Init
  PROVE  BufferInv
<1>1. /\ DOMAIN slots = {} /\ insertOrder = <<>> /\ last = {}
      /\ started = 0 /\ abandoned = 0 /\ mismatched = 0 /\ delivered = 0
  BY DEF Init
<1>2. insertOrder \in Seq(TxID) /\ ToSet(insertOrder) = {} /\ IsInjective(insertOrder)
      /\ DOMAIN insertOrder = {}
  BY <1>1 DEF ToSet, IsInjective
<1>3. /\ IsFiniteSet(DOMAIN slots) /\ Cardinality(DOMAIN slots) = 0
      /\ Cardinality(ToSet(insertOrder) \ DOMAIN slots) = 0
  <2>1. ToSet(insertOrder) \ DOMAIN slots = {}
    BY <1>2
  <2> QED  BY <1>1, <2>1, FS_EmptySet
<1>4. TypeOK /\ Shapes
  BY <1>1, <1>2, <1>3 DEF TypeOK, Shapes
<1>5. OrderMatchesSlots
  BY <1>1, <1>2, <1>3 DEF OrderMatchesSlots
<1>6. SlotAccounting /\ DeliversIntact /\ LastClosed
  BY <1>1, <1>3 DEF SlotAccounting, DeliversIntact, LastClosed
<1> QED  BY <1>4, <1>5, <1>6 DEF BufferInv

\* Every step keeps the inductive invariant.
LEMMA BufferStep ==
  ASSUME BufferInv, [Next]_vars
  PROVE  BufferInv'
<1>1. CASE UNCHANGED vars
  BY <1>1 DEF vars, BufferInv, TypeOK, Shapes, OrderMatchesSlots, SlotAccounting,
       DeliversIntact, LastClosed
<1>2. ASSUME NEW f \in Fragments, ObserveIgnored(f)
      PROVE  BufferInv'
  BY <1>2, ExpiryKeeps DEF ObserveIgnored
<1>3. ASSUME NEW f \in Fragments, ObserveNext(f)
      PROVE  BufferInv'
  BY <1>3, NextKeeps
<1>4. ASSUME NEW f \in Fragments, ObserveFirst(f)
      PROVE  BufferInv'
  BY <1>4, FirstKeeps
<1>5. CASE BackgroundTick
  BY <1>5, ExpiryKeeps DEF BackgroundTick
<1>6. CASE Purge
  BY <1>6, PurgeKeeps
<1>7. CASE TimePasses
  BY <1>7, TimeKeeps
<1> QED  BY <1>1, <1>2, <1>3, <1>4, <1>5, <1>6, <1>7 DEF Next, Observe

\* The invariant holds throughout.
LEMMA Invariance == Spec => []BufferInv
<1>1. Init => BufferInv
  BY BufferInit
<1>2. BufferInv /\ [Next]_vars => BufferInv'
  BY BufferStep
<1> QED  BY <1>1, <1>2, PTL DEF Spec

\* The variables keep their shapes and a slot that is complete has left the
\* map, whatever fragments arrive.
THEOREM TypeCorrect == Spec => []TypeOK
<1>1. BufferInv => TypeOK
  BY DEF BufferInv
<1> QED  BY <1>1, Invariance, PTL

\* The FIFO from which expiry and eviction work stays in step with the map, and
\* the map within maxSlots, for a buffer of any size.
THEOREM OrderCorrect == Spec => []OrderMatchesSlots
<1>1. BufferInv => OrderMatchesSlots
  BY DEF BufferInv
<1> QED  BY <1>1, Invariance, PTL

\* Every slot that was opened is delivered, counted as given up or as a hash
\* mismatch, or still open.
THEOREM AccountingCorrect == Spec => []SlotAccounting
<1>1. BufferInv => SlotAccounting
  BY DEF BufferInv
<1> QED  BY <1>1, Invariance, PTL

\* A payload is delivered only with all its fragments, and, with verification
\* on, a V2 payload only with all of them intact.
THEOREM DeliveryCorrect == Spec => []DeliversIntact
<1>1. BufferInv => DeliversIntact
  BY DEF BufferInv
<1> QED  BY <1>1, Invariance, PTL

\* What a step does to a slot that neither expired nor completed and is gone.
GivesUp(t) ==
  /\ ~Expired(t) /\ t \notin DOMAIN slots'
  /\ ~(\E c \in last' \ last : c.slot.born = slots[t].born)

\* Only an eviction for room, or Purge, gives up a slot before its time.
LEMMA OnlyEvictionGivesUp ==
  ASSUME BufferInv, [Next]_vars, NEW t \in DOMAIN slots, GivesUp(t)
  PROVE  /\ \A u \in DOMAIN slots \cap DOMAIN slots' :
              slots[t].born < slots[u].born
         /\ Cardinality(Live) >= MaxSlots \/ DOMAIN slots' = {}
<1>1. t \in Live /\ t \notin DOMAIN slots'
  BY DEF GivesUp, Live
<1>2. CASE UNCHANGED vars
  BY <1>1, <1>2 DEF vars
<1>3. CASE slots' = Restrict(slots, Live)
  BY <1>1, <1>3 DEF Restrict
<1>4. ASSUME NEW f \in Fragments, ObserveNext(f)
      PROVE  FALSE
  <2> DEFINE x == f.txID
             new == [slots[x] EXCEPT !.frags = Put(@, f.index, f.intact)]
             c == [slot |-> new, ok |-> ~Corrupt(new)]
  <2>1. x \in DOMAIN slots /\ Accepts(slots[x], f)
    BY <1>4 DEF ObserveNext, Live, Accepts, BufferInv, TypeOK, Shapes
  <2>2. new.born = slots[x].born
    BY <2>1, FilledFacts
  <2>3. IF Complete(new) THEN slots' = Restrict(slots, Live \ {x}) /\ last' = {c}
        ELSE slots' = Put(Restrict(slots, Live \ {x}), x, new)
    BY <1>4 DEF ObserveNext, Store
  <2> HIDE DEF new
  <2>4. c.slot = new
    OBVIOUS
  <2> HIDE DEF c
  <2>5. CASE ~Complete(new)
    BY <1>1, <2>3, <2>5 DEF Put, Restrict
  <2>6. CASE Complete(new)
    <3>1. t = x /\ last' = {c}
      BY <1>1, <2>3, <2>6 DEF Restrict
    <3>2. c \notin last
      BY <2>1, <2>2, <2>4 DEF BufferInv, LastClosed
    <3> QED  BY <2>2, <2>4, <3>1, <3>2 DEF GivesUp
  <2> QED  BY <2>5, <2>6
<1>5. ASSUME NEW f \in Fragments, ObserveFirst(f)
      PROVE  /\ \A u \in DOMAIN slots \cap DOMAIN slots' :
                  slots[t].born < slots[u].born
             /\ Cardinality(Live) >= MaxSlots
  <2> DEFINE x == f.txID
             K == Live \ Victim
  <2>1. x \notin Live
    BY <1>5 DEF ObserveFirst
  <2>2. PICK slot : Store(Restrict(slots, K), slot, f)
    BY <1>5, Zenon DEF ObserveFirst, Victim
  <2> HIDE DEF K
  <2>3. K \subseteq DOMAIN slots' /\ DOMAIN slots' \subseteq K \cup {x}
    BY <2>2 DEF Store, Put, Restrict
  <2>4. t \in Victim
    BY <1>1, <2>3 DEF K
  <2>5. Full /\ \A u \in K : slots[t].born < slots[u].born
    BY <2>4, EvictionFacts DEF K
  <2>6. Live = DOMAIN slots
    <3>1. /\ IsFiniteSet(DOMAIN slots) /\ Live \subseteq DOMAIN slots
          /\ Cardinality(DOMAIN slots) <= MaxSlots /\ Cardinality(Live) >= MaxSlots
      BY <2>5 DEF BufferInv, Shapes, OrderMatchesSlots, Live, Full
    <3>2. /\ Cardinality(Live) <= Cardinality(DOMAIN slots)
          /\ Cardinality(Live) = Cardinality(DOMAIN slots) => Live = DOMAIN slots
          /\ Cardinality(Live) \in Nat /\ Cardinality(DOMAIN slots) \in Nat
      BY <3>1, FS_Subset, FS_CardinalityType
    <3> QED  BY <3>1, <3>2
  <2> QED  BY <2>1, <2>3, <2>5, <2>6 DEF Full
<1>6. CASE Purge
  BY <1>6 DEF Purge
<1>7. CASE TimePasses
  BY <1>1, <1>7 DEF TimePasses, Live
<1> QED
  BY <1>2, <1>3, <1>4, <1>5, <1>6, <1>7
     DEF Next, Observe, ObserveIgnored, BackgroundTick

\* A slot that neither expires nor completes is given up only for lack of room,
\* or by Purge, and is then the oldest of all.
THEOREM EvictionCorrect == Spec => EvictsOldest
<1>1. ASSUME BufferInv, [Next]_vars
      PROVE  [\A t \in DOMAIN slots :
                LET completed == \E c \in last' \ last : c.slot.born = slots[t].born
                IN  ~Expired(t) /\ t \notin DOMAIN slots' /\ ~completed
                      => /\ \A u \in DOMAIN slots \cap DOMAIN slots' :
                              slots[t].born < slots[u].born
                         /\ Cardinality(Live) >= MaxSlots \/ DOMAIN slots' = {}]_vars
  BY <1>1, OnlyEvictionGivesUp DEF GivesUp
<1> QED  BY <1>1, Invariance, PTL DEF Spec, EvictsOldest
=============================================================================
