------------------------- MODULE SubtreeGroupsProofs -------------------------
(***************************************************************************)
(* The frame filter's two promises about announced subtrees, for any number *)
(* of groups, subtrees, senders and listener goroutines and any TTLs.      *)
(*                                                                         *)
(* The inductive invariant compares clocks: no entry, stored or about to   *)
(* be stored by an Add that waits for the lock, outlives the longest valid *)
(* announcement of its subtree (Leased); an Add that waits for the lock    *)
(* brings an expiry no earlier than the oldest of the announcements that   *)
(* its call overlapped (Behind); and what governs an entry and is not due  *)
(* yet is covered by what the registry holds (Held).  All survive a second *)
(* passing because the clocks move together, and the floors only ever      *)
(* shorten an entry's lead.                                                *)
(***************************************************************************)
EXTENDS SubtreeGroups, TLAPS

\* The shapes that the theorems need of the variables.
Shapes ==
  /\ TypeOK
  /\ entries = [g \in Subscribed |-> entries[g]]
  /\ \A g \in Subscribed : entries[g] = [s \in DOMAIN entries[g] |-> entries[g][s]]
  /\ adding = [l \in Listener |-> adding[l]]
  /\ \A l \in Listener : adding[l] # Idle =>
       adding[l] \in [group : Subscribed, subtree : SubtreeID, expiry : -1..MaxTTL]
  /\ oldest \in [Listener -> -1..MaxTTL]
  /\ due \in [Subscribed -> [SubtreeID -> -1..MaxTTL]]

\* No entry outlives the longest valid announcement of its subtree.
Leased ==
  /\ \A g \in Subscribed : \A s \in DOMAIN entries[g] : entries[g][s] <= lease[s]
  /\ \A l \in Listener :
       adding[l] # Idle => adding[l].expiry <= lease[adding[l].subtree]

\* No announcement that overlaps a call of Add is older than `oldest' says.
Behind ==
  \A l \in Listener : adding[l] # Idle => oldest[l] <= adding[l].expiry

\* What governs an entry and is not due yet is covered by the entry.
Held ==
  \A g \in Subscribed, s \in SubtreeID :
    due[g][s] > 0 => s \in DOMAIN entries[g] /\ entries[g][s] >= due[g][s]

RegistryInv == Shapes /\ Leased /\ Behind /\ Held

(* The registry invariant holds at the start.                               *)
LEMMA InitInv == Init => RegistryInv
BY TTLAssumption DEF Init, RegistryInv, Shapes, TypeOK, Leased, Behind, Held, Nobody

\* listenGroup: only an announcement that the rules admit reaches Add, and its
\* lease is at least as long as the entry it is about to store.
LEMMA ReceiveStep ==
  ASSUME RegistryInv,
         NEW l \in Listener, NEW src \in Source, NEW s \in SubtreeID,
         NEW g \in Subscribed \cup OtherGroup, NEW ttl \in AnnouncedTTL,
         ReceiveAnnouncement(l, src, g, s, ttl)
  PROVE  RegistryInv'
<1> DEFINE e == EffectiveTTL(ttl)
<1>1. e \in 1..MaxTTL
  BY TTLAssumption DEF EffectiveTTL
<1>2. Valid(src, g) /\ g \in Subscribed
  BY DEF ReceiveAnnouncement, SenderAllowed, Subscribes, Valid
<1>3. /\ adding' = [adding EXCEPT ![l] = [group |-> g, subtree |-> s, expiry |-> e]]
      /\ lease' = [lease EXCEPT ![s] = IF e > @ THEN e ELSE @]
      /\ oldest' = [oldest EXCEPT ![l] = e]
      /\ entries' = entries /\ due' = due
  BY <1>2 DEF ReceiveAnnouncement
<1> HIDE DEF e
<1>4. /\ lease \in [SubtreeID -> 0..MaxTTL]
      /\ lease' \in [SubtreeID -> 0..MaxTTL]
      /\ \A t \in SubtreeID : lease[t] <= lease'[t]
      /\ e <= lease'[s]
  BY <1>1, <1>3, TTLAssumption DEF RegistryInv, Shapes, TypeOK
<1>5. \A k \in Listener : adding'[k] =
        IF k = l THEN [group |-> g, subtree |-> s, expiry |-> e] ELSE adding[k]
  BY <1>3 DEF RegistryInv, Shapes
<1>6. /\ adding' = [k \in Listener |-> adding'[k]]
      /\ \A k \in Listener : adding'[k] # Idle =>
           /\ adding'[k] \in [group : Subscribed, subtree : SubtreeID,
                              expiry : -1..MaxTTL]
           /\ adding'[k].group \in Subscribed
           /\ adding'[k].expiry \in -1..MaxTTL
  <2>1. adding' = [k \in Listener |-> adding'[k]]
    BY <1>3 DEF RegistryInv, Shapes
  <2>2. ASSUME NEW k \in Listener, adding'[k] # Idle
        PROVE  adding'[k] \in [group : Subscribed, subtree : SubtreeID,
                               expiry : -1..MaxTTL]
    <3>1. e \in -1..MaxTTL
      BY <1>1, TTLAssumption
    <3>2. CASE k = l
      BY <1>2, <1>5, <3>1, <3>2
    <3>3. CASE k # l
      BY <1>5, <2>2, <3>3 DEF RegistryInv, Shapes
    <3> QED BY <3>2, <3>3
  <2> QED BY <2>1, <2>2
<1>7. Shapes'
  <2>1. oldest' \in [Listener -> -1..MaxTTL]
    <3>1. e \in -1..MaxTTL
      BY <1>1, TTLAssumption
    <3> QED BY <1>3, <3>1 DEF RegistryInv, Shapes
  <2> QED BY <1>3, <1>4, <1>6, <2>1 DEF RegistryInv, Shapes, TypeOK
<1>8. Leased'
  <2>1. ASSUME NEW h \in Subscribed, NEW t \in DOMAIN entries[h]
        PROVE  entries'[h][t] <= lease'[t]
    BY <1>3, <1>4, TTLAssumption DEF RegistryInv, Shapes, TypeOK, Leased
  <2>2. ASSUME NEW k \in Listener, adding'[k] # Idle
        PROVE  adding'[k].expiry <= lease'[adding'[k].subtree]
    <3>1. CASE k = l
      BY <3>1, <1>4, <1>5
    <3>2. CASE k # l
      <4>1. /\ adding'[k] = adding[k] /\ adding[k] # Idle
            /\ adding[k].subtree \in SubtreeID /\ adding[k].expiry \in -1..MaxTTL
        BY <2>2, <3>2, <1>5 DEF RegistryInv, Shapes
      <4>2. adding[k].expiry <= lease[adding[k].subtree]
        BY <4>1 DEF RegistryInv, Leased
      <4> QED BY <4>1, <4>2, <1>4, TTLAssumption
    <3> QED BY <3>1, <3>2
  <2> QED BY <2>1, <2>2, <1>3 DEF Leased
<1>9. Held'
  BY <1>3 DEF RegistryInv, Held
<1>10. Behind'
  <2> SUFFICES ASSUME NEW k \in Listener, adding'[k] # Idle
               PROVE  oldest'[k] <= adding'[k].expiry
    BY DEF Behind
  <2>1. CASE k = l
    <3>1. oldest'[k] = e /\ adding'[k].expiry = e
      BY <2>1, <1>3, <1>5 DEF RegistryInv, Shapes
    <3> QED BY <3>1, <1>1, TTLAssumption
  <2>2. CASE k # l
    <3>1. oldest'[k] = oldest[k] /\ adding'[k] = adding[k]
      BY <2>2, <1>3, <1>5 DEF RegistryInv, Shapes
    <3> QED BY <3>1 DEF RegistryInv, Behind
  <2> QED BY <2>1, <2>2
<1> QED BY <1>7, <1>8, <1>9, <1>10 DEF RegistryInv

\* The locked part of Add: the entry it stores is leased, and lasts as long as
\* the oldest announcement that the call overlapped.
LEMMA StoreStep ==
  ASSUME RegistryInv, NEW l \in Listener, StoreEntry(l)
  PROVE  RegistryInv'
<1> DEFINE a == adding[l]
<1>1. /\ a # Idle
      /\ a.group \in Subscribed /\ a.subtree \in SubtreeID
      /\ a.expiry \in -1..MaxTTL /\ a.expiry <= lease[a.subtree]
      /\ oldest[l] \in -1..MaxTTL /\ oldest[l] <= a.expiry
  BY DEF StoreEntry, RegistryInv, Shapes, Leased, Behind
<1>2. /\ entries' = [entries EXCEPT ![a.group] =
           [i \in DOMAIN entries[a.group] \cup {a.subtree} |->
              IF i = a.subtree THEN a.expiry ELSE entries[a.group][i]]]
      /\ due' = [due EXCEPT ![a.group][a.subtree] = oldest[l]]
      /\ oldest' = [k \in Listener |->
           IF k = l THEN 0
           ELSE IF k \in Overlapping(l) THEN Least(oldest[k], a.expiry) ELSE oldest[k]]
      /\ adding' = [adding EXCEPT ![l] = Idle]
      /\ lease' = lease
  BY DEF StoreEntry
<1> HIDE DEF a
<1>3. \A k \in Listener : adding'[k] = IF k = l THEN Idle ELSE adding[k]
  BY <1>2 DEF RegistryInv, Shapes
<1>4. \A g \in Subscribed : entries'[g] =
        IF g = a.group
          THEN [i \in DOMAIN entries[g] \cup {a.subtree} |->
                  IF i = a.subtree THEN a.expiry ELSE entries[g][i]]
          ELSE entries[g]
  BY <1>2 DEF RegistryInv, Shapes, TypeOK
<1>5. \A g \in Subscribed, s \in SubtreeID : due'[g][s] =
        IF g = a.group /\ s = a.subtree THEN oldest[l] ELSE due[g][s]
  BY <1>1, <1>2 DEF RegistryInv, Shapes
<1>6. ASSUME NEW g \in Subscribed
      PROVE  /\ DOMAIN entries[g] \subseteq DOMAIN entries'[g]
             /\ g = a.group => /\ a.subtree \in DOMAIN entries'[g]
                               /\ entries'[g][a.subtree] = a.expiry
             /\ \A s \in DOMAIN entries'[g] :
                  \/ g = a.group /\ s = a.subtree
                  \/ s \in DOMAIN entries[g] /\ entries'[g][s] = entries[g][s]
             /\ entries'[g] = [s \in DOMAIN entries'[g] |-> entries'[g][s]]
  <2>1. CASE g = a.group
    <3> DEFINE stored == [i \in DOMAIN entries[g] \cup {a.subtree} |->
                            IF i = a.subtree THEN a.expiry ELSE entries[g][i]]
    <3>1. entries'[g] = stored
      BY <1>4, <2>1
    <3>2. DOMAIN stored = DOMAIN entries[g] \cup {a.subtree}
      OBVIOUS
    <3>3. stored = [s \in DOMAIN stored |-> stored[s]]
      OBVIOUS
    <3>4. \A s \in DOMAIN stored :
            stored[s] = IF s = a.subtree THEN a.expiry ELSE entries[g][s]
      OBVIOUS
    <3> HIDE DEF stored
    <3> QED BY <2>1, <3>1, <3>2, <3>3, <3>4
  <2>2. CASE g # a.group
    <3>1. entries'[g] = entries[g]
      BY <1>4, <2>2
    <3>2. entries[g] = [s \in DOMAIN entries[g] |-> entries[g][s]]
      BY DEF RegistryInv, Shapes
    <3> QED BY <2>2, <3>1, <3>2
  <2> QED BY <2>1, <2>2
<1>7. Shapes'
  <2>1. DOMAIN entries' = Subscribed /\ entries' = [g \in Subscribed |-> entries'[g]]
    BY <1>2 DEF RegistryInv, Shapes, TypeOK
  <2>2. ASSUME NEW g \in Subscribed
        PROVE  /\ DOMAIN entries'[g] \subseteq SubtreeID
               /\ \A s \in DOMAIN entries'[g] : entries'[g][s] \in -1..MaxTTL
    <3>1. /\ DOMAIN entries[g] \subseteq SubtreeID
          /\ \A s \in DOMAIN entries[g] : entries[g][s] \in -1..MaxTTL
      BY DEF RegistryInv, Shapes, TypeOK
    <3> QED BY <3>1, <1>1, <1>6
  <2>3. /\ adding' = [k \in Listener |-> adding'[k]]
        /\ \A k \in Listener : adding'[k] # Idle =>
             adding'[k] = adding[k] /\ adding[k] # Idle
    BY <1>2, <1>3, SMTT(20) DEF RegistryInv, Shapes
  <2>4. due' \in [Subscribed -> [SubtreeID -> -1..MaxTTL]]
    BY <1>1, <1>2 DEF RegistryInv, Shapes
  <2>5. oldest' \in [Listener -> -1..MaxTTL]
    <3>1. \A k \in Listener : Least(oldest[k], a.expiry) \in -1..MaxTTL
      BY <1>1 DEF RegistryInv, Shapes, Least
    <3>2. 0 \in -1..MaxTTL
      BY TTLAssumption
    <3> QED BY <1>2, <3>1, <3>2 DEF RegistryInv, Shapes
  <2> QED BY <1>2, <1>6, <2>1, <2>2, <2>3, <2>4, <2>5 DEF RegistryInv, Shapes, TypeOK
<1>8. Leased'
  <2>1. ASSUME NEW g \in Subscribed, NEW s \in DOMAIN entries'[g]
        PROVE  entries'[g][s] <= lease[s]
    <3>1. CASE g = a.group /\ s = a.subtree
      BY <3>1, <1>1, <1>6
    <3>2. CASE s \in DOMAIN entries[g] /\ entries'[g][s] = entries[g][s]
      BY <3>2 DEF RegistryInv, Leased
    <3> QED BY <3>1, <3>2, <1>6
  <2> QED BY <2>1, <1>2, <1>3 DEF RegistryInv, Leased
<1>9. Held'
  <2> SUFFICES ASSUME NEW g \in Subscribed, NEW s \in SubtreeID, due'[g][s] > 0
               PROVE  s \in DOMAIN entries'[g] /\ entries'[g][s] >= due'[g][s]
    BY DEF Held
  <2>1. CASE g = a.group /\ s = a.subtree
    BY <2>1, <1>1, <1>5, <1>6, TTLAssumption
  <2>2. CASE ~(g = a.group /\ s = a.subtree)
    <3>1. due'[g][s] = due[g][s]
      BY <2>2, <1>5
    <3>2. s \in DOMAIN entries[g] /\ entries[g][s] >= due[g][s]
      BY <3>1 DEF RegistryInv, Held
    <3> QED BY <2>2, <3>1, <3>2, <1>6
  <2> QED BY <2>1, <2>2
<1>10. Behind'
  <2> SUFFICES ASSUME NEW k \in Listener, adding'[k] # Idle
               PROVE  oldest'[k] <= adding'[k].expiry
    BY DEF Behind
  <2>1. k # l /\ adding'[k] = adding[k] /\ adding[k] # Idle
    BY <1>3
  <2>2. /\ oldest[k] \in -1..MaxTTL /\ adding[k].expiry \in -1..MaxTTL
        /\ oldest[k] <= adding[k].expiry
    BY <2>1 DEF RegistryInv, Shapes, Behind
  <2>3. oldest'[k] = oldest[k] \/ oldest'[k] = Least(oldest[k], a.expiry)
    BY <1>2, <2>1
  <2>4. Least(oldest[k], a.expiry) <= oldest[k] /\ Least(oldest[k], a.expiry) \in -1..MaxTTL
    BY <1>1, <2>2 DEF Least
  <2> QED BY <2>1, <2>2, <2>3, <2>4
<1> QED BY <1>7, <1>8, <1>9, <1>10 DEF RegistryInv

\* Remove takes one entry and what was due for it, and no other.
LEMMA RemoveStep ==
  ASSUME RegistryInv, NEW g \in Subscribed, NEW s \in SubtreeID, Remove(g, s)
  PROVE  RegistryInv'
<1>1. /\ due' = [due EXCEPT ![g][s] = 0]
      /\ adding' = adding /\ lease' = lease /\ oldest' = oldest
      /\ entries' = [entries EXCEPT ![g] =
           [i \in DOMAIN entries[g] \ {s} |-> entries[g][i]]]
  BY DEF Remove, Restrict
<1>2. \A h \in Subscribed :
        /\ DOMAIN entries'[h] = IF h = g THEN DOMAIN entries[h] \ {s} ELSE DOMAIN entries[h]
        /\ entries'[h] = [t \in DOMAIN entries'[h] |-> entries'[h][t]]
        /\ \A t \in DOMAIN entries'[h] : entries'[h][t] = entries[h][t]
  BY <1>1 DEF RegistryInv, Shapes, TypeOK
<1>3. \A h \in Subscribed, t \in SubtreeID :
        due'[h][t] = IF h = g /\ t = s THEN 0 ELSE due[h][t]
  BY <1>1 DEF RegistryInv, Shapes
<1>4. /\ DOMAIN entries' = Subscribed
      /\ entries' = [h \in Subscribed |-> entries'[h]]
  <2>1. entries = [h \in Subscribed |-> entries[h]]
    BY DEF RegistryInv, Shapes
  <2>2. DOMAIN entries' = DOMAIN entries
    BY <1>1
  <2> QED BY <1>1, <2>1, <2>2
<1>5. due' \in [Subscribed -> [SubtreeID -> -1..MaxTTL]]
  <2>1. 0 \in -1..MaxTTL /\ due \in [Subscribed -> [SubtreeID -> -1..MaxTTL]]
    BY TTLAssumption DEF RegistryInv, Shapes
  <2> QED BY <1>1, <2>1
<1>6. Shapes'
  BY <1>1, <1>2, <1>4, <1>5, ZenonT(30) DEF RegistryInv, Shapes, TypeOK
<1>7. Leased'
  BY <1>1, <1>2 DEF RegistryInv, Leased
<1>8. Held'
  <2> SUFFICES ASSUME NEW h \in Subscribed, NEW t \in SubtreeID, due'[h][t] > 0
               PROVE  t \in DOMAIN entries'[h] /\ entries'[h][t] >= due'[h][t]
    BY DEF Held
  <2>1. ~(h = g /\ t = s) /\ due'[h][t] = due[h][t]
    BY <1>3
  <2>2. t \in DOMAIN entries[h] /\ entries[h][t] >= due[h][t]
    BY <2>1 DEF RegistryInv, Held
  <2> QED BY <2>1, <2>2, <1>2
<1>9. Behind'
  BY <1>1 DEF RegistryInv, Behind
<1> QED BY <1>6, <1>7, <1>8, <1>9 DEF RegistryInv

\* Evict takes only entries whose expiry has passed, and those are not due.
LEMMA EvictStep ==
  ASSUME RegistryInv, Evict
  PROVE  RegistryInv'
<1>1. /\ adding' = adding /\ lease' = lease /\ oldest' = oldest /\ due' = due
      /\ entries' = [g \in Subscribed |->
           [s \in {t \in DOMAIN entries[g] : ~(entries[g][t] < 0)} |-> entries[g][s]]]
  BY DEF Evict, Restrict, Lapsed
<1>2. \A g \in Subscribed :
        /\ DOMAIN entries'[g] = {t \in DOMAIN entries[g] : ~(entries[g][t] < 0)}
        /\ entries'[g] = [s \in DOMAIN entries'[g] |-> entries'[g][s]]
        /\ \A s \in DOMAIN entries'[g] : entries'[g][s] = entries[g][s]
  BY <1>1
<1>3. /\ DOMAIN entries' = Subscribed
      /\ entries' = [g \in Subscribed |-> entries'[g]]
  BY <1>1
<1>4. Shapes'
  BY <1>1, <1>2, <1>3 DEF RegistryInv, Shapes, TypeOK
<1>5. Leased'
  BY <1>1, <1>2 DEF RegistryInv, Leased
<1>6. Held'
  <2> SUFFICES ASSUME NEW g \in Subscribed, NEW s \in SubtreeID, due'[g][s] > 0
               PROVE  s \in DOMAIN entries'[g] /\ entries'[g][s] >= due'[g][s]
    BY DEF Held
  <2>1. due[g][s] \in -1..MaxTTL /\ due[g][s] > 0 /\ due'[g][s] = due[g][s]
    BY <1>1 DEF RegistryInv, Shapes
  <2>2. s \in DOMAIN entries[g] /\ entries[g][s] >= due[g][s]
    BY <2>1 DEF RegistryInv, Held
  <2>3. ~(entries[g][s] < 0)
    <3>1. entries[g][s] \in -1..MaxTTL
      BY <2>2 DEF RegistryInv, Shapes, TypeOK
    <3> QED BY <2>1, <2>2, <3>1, TTLAssumption
  <2> QED BY <2>1, <2>2, <2>3, <1>2
<1>7. Behind'
  BY <1>1 DEF RegistryInv, Behind
<1> QED BY <1>4, <1>5, <1>6, <1>7 DEF RegistryInv

\* A second passes for every clock at once.
LEMMA TickStep ==
  ASSUME RegistryInv, Tick
  PROVE  RegistryInv'
<1>1. \A g \in Subscribed :
        /\ DOMAIN entries'[g] = DOMAIN entries[g]
        /\ entries'[g] = [s \in DOMAIN entries'[g] |-> entries'[g][s]]
        /\ \A s \in DOMAIN entries[g] : entries'[g][s] = Less(entries[g][s], -1)
  BY DEF Tick
<1>2. /\ DOMAIN entries' = Subscribed
      /\ entries' = [g \in Subscribed |-> entries'[g]]
      /\ adding' = [l \in Listener |-> adding'[l]]
  BY DEF Tick
<1>3. ASSUME NEW l \in Listener, adding'[l] # Idle
      PROVE  /\ adding[l] # Idle
             /\ adding'[l] = [adding[l] EXCEPT !.expiry = Less(@, -1)]
  BY <1>3 DEF Tick
<1>4. \A s \in SubtreeID : lease'[s] = Less(lease[s], 0)
  BY DEF Tick
<1>5. \A g \in Subscribed, s \in SubtreeID : due'[g][s] = Less(due[g][s], 0)
  BY DEF Tick
<1>6. \A n \in -1..MaxTTL : Less(n, -1) \in -1..MaxTTL /\ Less(n, 0) \in -1..MaxTTL
  BY TTLAssumption DEF Less
<1>7. \A n \in 0..MaxTTL : Less(n, 0) \in 0..MaxTTL
  BY TTLAssumption DEF Less
<1>8. \A m \in -1..MaxTTL, n \in 0..MaxTTL : m <= n => Less(m, -1) <= Less(n, 0)
  BY TTLAssumption DEF Less
<1>9. ASSUME NEW l \in Listener, adding'[l] # Idle
      PROVE  /\ adding[l] # Idle
             /\ adding'[l] \in [group : Subscribed, subtree : SubtreeID,
                                expiry : -1..MaxTTL]
             /\ adding'[l].group \in Subscribed
             /\ adding'[l].subtree = adding[l].subtree
             /\ adding[l].subtree \in SubtreeID
             /\ adding[l].expiry \in -1..MaxTTL
             /\ adding'[l].expiry = Less(adding[l].expiry, -1)
             /\ adding'[l].expiry \in -1..MaxTTL
  <2>1. adding[l] # Idle /\ adding'[l] = [adding[l] EXCEPT !.expiry = Less(@, -1)]
    BY <1>3, <1>9
  <2>2. adding[l] \in [group : Subscribed, subtree : SubtreeID, expiry : -1..MaxTTL]
    BY <2>1 DEF RegistryInv, Shapes
  <2> HIDE DEF Less
  <2> QED BY <2>1, <2>2, <1>6
<1>10. lease' \in [SubtreeID -> 0..MaxTTL]
  BY <1>7 DEF Tick, RegistryInv, Shapes, TypeOK
<1>11. due' \in [Subscribed -> [SubtreeID -> -1..MaxTTL]]
  BY <1>6 DEF Tick, RegistryInv, Shapes
<1>12. oldest' \in [Listener -> -1..MaxTTL]
  <2>1. 0 \in -1..MaxTTL
    BY TTLAssumption
  <2>2. \A l \in Listener : Less(oldest[l], -1) \in -1..MaxTTL
    BY <1>6 DEF RegistryInv, Shapes
  <2> QED BY <2>1, <2>2 DEF Tick
<1>13. Behind'
  <2> SUFFICES ASSUME NEW l \in Listener, adding'[l] # Idle
               PROVE  oldest'[l] <= adding'[l].expiry
    BY DEF Behind
  <2>1. oldest[l] \in -1..MaxTTL /\ oldest[l] <= adding[l].expiry
    BY <1>9 DEF RegistryInv, Shapes, Behind
  <2>2. oldest'[l] = Less(oldest[l], -1)
    BY <1>9 DEF Tick
  <2>3. \A m, n \in -1..MaxTTL : m <= n => Less(m, -1) <= Less(n, -1)
    BY TTLAssumption DEF Less
  <2> QED BY <1>9, <2>1, <2>2, <2>3
<1>14. Shapes'
  <2>1. ASSUME NEW g \in Subscribed
        PROVE  /\ DOMAIN entries'[g] \subseteq SubtreeID
               /\ \A s \in DOMAIN entries'[g] : entries'[g][s] \in -1..MaxTTL
    <3>1. /\ DOMAIN entries[g] \subseteq SubtreeID
          /\ \A s \in DOMAIN entries[g] : entries[g][s] \in -1..MaxTTL
      BY DEF RegistryInv, Shapes, TypeOK
    <3> QED BY <3>1, <1>1, <1>6
  <2> QED BY <1>1, <1>2, <1>9, <1>10, <1>11, <1>12, <2>1 DEF Shapes, TypeOK
<1>15. Leased'
  <2>1. ASSUME NEW g \in Subscribed, NEW s \in DOMAIN entries'[g]
        PROVE  entries'[g][s] <= lease'[s]
    <3>1. /\ s \in SubtreeID /\ s \in DOMAIN entries[g]
          /\ entries[g][s] \in -1..MaxTTL /\ lease[s] \in 0..MaxTTL
          /\ entries[g][s] <= lease[s]
      BY <1>1 DEF RegistryInv, Shapes, TypeOK, Leased
    <3> QED BY <3>1, <1>1, <1>4, <1>8
  <2>2. ASSUME NEW l \in Listener, adding'[l] # Idle
        PROVE  adding'[l].expiry <= lease'[adding'[l].subtree]
    <3>1. lease[adding[l].subtree] \in 0..MaxTTL
          /\ adding[l].expiry <= lease[adding[l].subtree]
      BY <2>2, <1>9 DEF RegistryInv, Shapes, TypeOK, Leased
    <3> QED BY <2>2, <3>1, <1>4, <1>8, <1>9
  <2> QED BY <2>1, <2>2 DEF Leased
<1>16. Held'
  <2> SUFFICES ASSUME NEW g \in Subscribed, NEW s \in SubtreeID, due'[g][s] > 0
               PROVE  s \in DOMAIN entries'[g] /\ entries'[g][s] >= due'[g][s]
    BY DEF Held
  <2>1. due[g][s] \in -1..MaxTTL /\ due'[g][s] = Less(due[g][s], 0)
    BY <1>5 DEF RegistryInv, Shapes
  <2>2. due[g][s] > 0 /\ due'[g][s] = due[g][s] - 1
    <3>1. due[g][s] \in Int /\ 0 \in Int
      BY <2>1, TTLAssumption
    <3> QED BY <2>1, <3>1 DEF Less
  <2>3. s \in DOMAIN entries[g] /\ entries[g][s] >= due[g][s]
    BY <2>2 DEF RegistryInv, Held
  <2>4. entries[g][s] \in -1..MaxTTL
    BY <2>3 DEF RegistryInv, Shapes, TypeOK
  <2>5. Less(entries[g][s], -1) >= due[g][s] - 1
    BY <2>1, <2>2, <2>3, <2>4, TTLAssumption DEF Less
  <2> QED BY <2>2, <2>3, <2>5, <1>1
<1> QED BY <1>14, <1>15, <1>16, <1>13 DEF RegistryInv

(* The registry invariant holds in every reachable state.                   *)
LEMMA Invariance == Spec => []RegistryInv
<1>1. RegistryInv /\ [Next]_vars => RegistryInv'
  <2> SUFFICES ASSUME RegistryInv, [Next]_vars PROVE RegistryInv'
    OBVIOUS
  <2>1. CASE Listen
    BY <2>1, ReceiveStep, StoreStep DEF Listen
  <2>2. CASE \E g \in Subscribed, s \in SubtreeID : Remove(g, s)
    BY <2>2, RemoveStep
  <2>3. CASE Evict
    BY <2>3, EvictStep
  <2>4. CASE Tick
    BY <2>4, TickStep
  <2>5. CASE UNCHANGED vars
    BY <2>5 DEF vars, RegistryInv, Shapes, TypeOK, Leased, Behind, Held
  <2> QED BY <2>1, <2>2, <2>3, <2>4, <2>5 DEF Next
<1> QED BY <1>1, InitInv, PTL DEF Spec

\* Only subscribed groups ever have entries, whatever is announced
\* (subtreegroup/registry.go, Add).
THEOREM TypeCorrect == Spec => []TypeOK
<1>1. RegistryInv => TypeOK
  BY DEF RegistryInv, Shapes
<1> QED BY <1>1, Invariance, PTL

\* Contains never accepts a subtree without a valid announcement within its
\* TTL, in whatever order the listeners get the lock and however late Evict is.
THEOREM OnlyAnnounced == Spec => []AcceptsOnlyAnnounced
<1>1. RegistryInv => AcceptsOnlyAnnounced
  <2> SUFFICES ASSUME RegistryInv, NEW s \in SubtreeID, Contains(s)
               PROVE  lease[s] > 0
    BY DEF AcceptsOnlyAnnounced
  <2>1. PICK g \in Subscribed : s \in DOMAIN entries[g] /\ entries[g][s] > 0
    BY DEF Contains
  <2>2. /\ entries[g][s] \in -1..MaxTTL /\ lease[s] \in 0..MaxTTL
        /\ entries[g][s] <= lease[s]
    BY <2>1 DEF RegistryInv, Shapes, TypeOK, Leased
  <2> QED BY <2>1, <2>2, TTLAssumption
<1> QED BY <1>1, Invariance, PTL

\* Contains accepts a subtree as long as the latest announcement for one of its
\* groups lasts, and each that overlapped it: in whatever order the listeners
\* get the lock, neither Evict nor another group's expiry hides it.
THEOREM WhileAnnounced == Spec => []AcceptsWhileAnnounced
<1>1. RegistryInv => AcceptsWhileAnnounced
  <2> SUFFICES ASSUME RegistryInv, NEW g \in Subscribed, NEW s \in SubtreeID, due[g][s] > 0
               PROVE  Contains(s)
    BY DEF AcceptsWhileAnnounced
  <2>1. /\ s \in DOMAIN entries[g] /\ entries[g][s] >= due[g][s]
        /\ due[g][s] \in -1..MaxTTL /\ entries[g][s] \in -1..MaxTTL
    BY DEF RegistryInv, Held, Shapes, TypeOK
  <2>2. entries[g][s] > 0
    BY <2>1, TTLAssumption
  <2> QED BY <2>1, <2>2 DEF Contains
<1> QED BY <1>1, Invariance, PTL
=============================================================================
