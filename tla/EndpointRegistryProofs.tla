----------------------- MODULE EndpointRegistryProofs -----------------------
(***************************************************************************)
(* Proofs about the endpoint registry, for every set of endpoints and      *)
(* every list of seeds: its types, the freshness of its cache, and that it *)
(* implements the registry without a cache.                                *)
(***************************************************************************)
EXTENDS EndpointRegistry, TLAPS

\* What one call of Upsert leaves behind.
LEMMA UpsertType ==
  ASSUME TypeOK, NEW id \in InstanceID,
         NEW advert \in [addr : Addr, tier : Tiers, pref : Preferences,
                         interval : Intervals],
         Upsert(id, advert)
  PROVE  TypeOK'
<1> USE AdvertAssumption
<1>1. Lifetime(advert.interval) \in -1..(3 * MaxInterval)
  <2>1. advert.interval \in 0..MaxInterval
    OBVIOUS
  <2> QED  BY <2>1 DEF Lifetime
<1>2. [addr |-> advert.addr, tier |-> advert.tier, pref |-> advert.pref,
       interval |-> advert.interval, expires |-> Lifetime(advert.interval)]
        \in Entry
  BY <1>1 DEF Entry
<1>3. /\ DOMAIN entries' \subseteq InstanceID
      /\ entries' \in [DOMAIN entries' -> Entry]
  BY <1>2 DEF TypeOK, Upsert
<1>4. /\ seeds' = SeedEndpoints' /\ dirty' \in BOOLEAN /\ call' \in {0, 1}
      /\ draining' \subseteq InstanceID /\ silence' \in [InstanceID -> Nat]
  BY DEF TypeOK, Upsert, DirtyAfterUpsert, SeedEndpoints
<1> QED  BY <1>3, <1>4 DEF TypeOK

\* A second passes: every entry keeps its fields, none expires twice.
LEMMA TickType ==
  ASSUME TypeOK, Tick
  PROVE  TypeOK'
<1> USE AdvertAssumption
<1>1. ASSUME NEW id \in DOMAIN entries
      PROVE  /\ entries[id] \in Entry
             /\ entries'[id] \in Entry
  <2>1. entries[id] \in Entry
    BY DEF TypeOK
  <2>2. (IF Expired(id) THEN -1 ELSE entries[id].expires - 1)
          \in -1..(3 * MaxInterval)
    BY <2>1 DEF Expired, Entry
  <2> QED  BY <2>1, <2>2 DEF Tick, Entry
<1>2. /\ DOMAIN entries' \subseteq InstanceID
      /\ entries' \in [DOMAIN entries' -> Entry]
  BY <1>1 DEF TypeOK, Tick
<1>3. silence' \in [InstanceID -> Nat]
  BY DEF TypeOK, Tick
<1>4. /\ seeds' = SeedEndpoints' /\ dirty' \in BOOLEAN /\ call' \in {0, 1}
      /\ draining' \subseteq InstanceID
  BY DEF TypeOK, Tick, SeedEndpoints
<1> QED  BY <1>2, <1>3, <1>4 DEF TypeOK

\* Every step keeps the state types.
LEMMA TypeStep ==
  ASSUME TypeOK, [Next]_vars
  PROVE  TypeOK'
<1>1. CASE ReceiveAdvert
  BY <1>1, UpsertType DEF ReceiveAdvert
<1>2. CASE Evict
  <2>1. /\ DOMAIN entries' \subseteq InstanceID
        /\ entries' \in [DOMAIN entries' -> Entry]
    BY <1>2 DEF TypeOK, Evict, Restrict
  <2>2. dirty' \in BOOLEAN
    BY <1>2 DEF TypeOK, Evict, DirtyAfterEvict
  <2> QED  BY <1>2, <2>1, <2>2 DEF TypeOK, Evict, SeedEndpoints
<1>3. CASE Snapshot
  <2>1. dirty' \in BOOLEAN
    BY <1>3 DEF TypeOK, Snapshot
  <2>2. call' \in {0, 1}
    BY <1>3 DEF TypeOK, Snapshot
  <2> QED  BY <1>3, <2>1, <2>2 DEF TypeOK, Snapshot, SeedEndpoints
<1>4. CASE StartDraining
  BY <1>4 DEF TypeOK, StartDraining, SeedEndpoints
<1>5. CASE Tick
  BY <1>5, TickType
<1>6. CASE UNCHANGED vars
  BY <1>6 DEF TypeOK, vars, SeedEndpoints
<1> QED  BY <1>1, <1>2, <1>3, <1>4, <1>5, <1>6 DEF Next

\* The registry of discovery/registry.go keeps its types: in particular an
\* entry never outlives three of the largest beacon intervals.
THEOREM TypeCorrect == Spec => []TypeOK
<1>1. Init => TypeOK
  BY DEF Init, TypeOK
<1> QED  BY <1>1, TypeStep, PTL DEF Spec
-----------------------------------------------------------------------------
\* Time changes no endpoint that a listing could show.
LEMMA TickKeepsLive ==
  ASSUME Tick
  PROVE  DOMAIN entries' = DOMAIN entries /\ Live' = Live
<1>1. DOMAIN entries' = DOMAIN entries
  BY DEF Tick
<1>2. ASSUME NEW id \in DOMAIN entries
      PROVE  EndpointOf(id)' = EndpointOf(id)
  BY DEF Tick, EndpointOf
<1> QED  BY <1>1, <1>2 DEF Live

\* A call of Evict that finds nothing to evict changes nothing.
LEMMA IdleEvict ==
  ASSUME TypeOK, Evict, ~dirty'
  PROVE  entries' = entries /\ ~dirty
<1>1. ~dirty /\ \A id \in DOMAIN entries : ~Expired(id)
  BY DEF Evict, DirtyAfterEvict
<1>2. {id \in DOMAIN entries : ~Expired(id)} = DOMAIN entries
  BY <1>1
<1>3. entries = [id \in DOMAIN entries |-> entries[id]]
  BY DEF TypeOK
<1> QED  BY <1>1, <1>2, <1>3 DEF Evict, Restrict

\* Every step keeps the cached snapshot in agreement with the entries.
LEMMA CacheStep ==
  ASSUME TypeOK, CacheFresh, [Next]_vars
  PROVE  CacheFresh'
<1>1. CASE ReceiveAdvert
  BY <1>1 DEF ReceiveAdvert, Upsert, DirtyAfterUpsert, CacheFresh
<1>2. CASE Evict
  <2> SUFFICES ASSUME ~dirty' PROVE CacheFresh'
    BY DEF CacheFresh
  <2>1. entries' = entries /\ ~dirty
    BY <1>2, IdleEvict
  <2>2. Merged' = Merged /\ snapshot' = snapshot
    BY <1>2, <2>1 DEF Evict, Merged, Live, EndpointOf
  <2> QED  BY <2>1, <2>2 DEF CacheFresh
<1>3. CASE Snapshot
  <2>1. Merged' = Merged
    BY <1>3 DEF Snapshot, Merged, Live, EndpointOf
  <2> QED  BY <1>3, <2>1 DEF Snapshot, CacheFresh
<1>4. CASE StartDraining
  BY <1>4 DEF StartDraining, CacheFresh, Merged, Live, EndpointOf
<1>5. CASE Tick
  <2>1. Merged' = Merged
    BY <1>5, TickKeepsLive DEF Merged, Tick
  <2> QED  BY <1>5, <2>1 DEF Tick, CacheFresh
<1>6. CASE UNCHANGED vars
  BY <1>6 DEF vars, CacheFresh, Merged, Live, EndpointOf
<1> QED  BY <1>1, <1>2, <1>3, <1>4, <1>5, <1>6 DEF Next

\* However Upsert, Evict, Snapshot and the clock interleave, a snapshot that
\* would be returned from the cache lists what is registered at that moment.
THEOREM CacheCorrect == Spec => []CacheFresh
<1>1. Init => CacheFresh
  BY DEF Init, CacheFresh
<1>2. TypeOK /\ CacheFresh /\ [Next]_vars => CacheFresh'
  BY CacheStep
<1> QED  BY <1>1, <1>2, TypeCorrect, PTL DEF Spec
-----------------------------------------------------------------------------
\* An ADVERT replaces what was known of its instance and nothing else.
LEMMA UpsertAnnounces ==
  ASSUME NEW id \in InstanceID,
         NEW advert \in [addr : Addr, tier : Tiers, pref : Preferences,
                         interval : Intervals],
         Upsert(id, advert)
  PROVE  Abstract!Announce
<1> DEFINE e == EndpointOf(id)'
<1>1. DOMAIN entries' = DOMAIN entries \cup {id}
  BY DEF Upsert
<1>2. \A i \in DOMAIN entries \ {id} : EndpointOf(i)' = EndpointOf(i)
  BY <1>1 DEF Upsert, EndpointOf
<1>3. \A i \in DOMAIN entries : EndpointOf(i).id = i
  BY DEF EndpointOf
<1>4. e.id = id
  BY DEF EndpointOf
<1>5. e \in Live'
  BY <1>1 DEF Live
<1>6. Live' = {o \in Live : o.id # id} \cup {e}
  BY <1>1, <1>2, <1>3 DEF Live
<1>7. UNCHANGED <<seeds, listed, call>>
  BY DEF Upsert
<1> QED  BY <1>4, <1>5, <1>6, <1>7 DEF Abstract!Announce

\* Every step is a step of the abstract registry, or stutters.
LEMMA RefinesStep ==
  ASSUME TypeOK, CacheFresh, [Next]_vars
  PROVE  [Abstract!Next]_(Abstract!vars)
<1> USE DEF Abstract!Next, Abstract!vars
<1>1. CASE ReceiveAdvert
  BY <1>1, UpsertAnnounces DEF ReceiveAdvert
<1>2. CASE Evict
  <2>1. Live' \subseteq Live
    BY <1>2 DEF Evict, Restrict, Live, EndpointOf
  <2> QED  BY <1>2, <2>1 DEF Evict, Abstract!Depart
<1>3. CASE Snapshot
  <2>1. (Live = {}) <=> (DOMAIN entries = {})
    BY DEF Live
  <2>2. listed' \in Listings(Merged)
    BY <1>3 DEF Snapshot, CacheFresh
  <2>3. UNCHANGED <<Live, seeds>> /\ call' = 1 - call
    BY <1>3 DEF Snapshot, Live, EndpointOf
  <2>4. listed' \in Listings(IF Live = {} THEN seeds ELSE Live)
    BY <2>1, <2>2 DEF Merged
  <2> QED  BY <2>3, <2>4
           DEF Abstract!List, Abstract!Listings, Abstract!Precedes,
               Abstract!Cardinality, Listings, Precedes, Cardinality
<1>4. CASE StartDraining
  BY <1>4 DEF StartDraining, Live, EndpointOf
<1>5. CASE Tick
  BY <1>5, TickKeepsLive DEF Tick
<1>6. CASE UNCHANGED vars
  BY <1>6 DEF vars, Live, EndpointOf
<1> QED  BY <1>1, <1>2, <1>3, <1>4, <1>5, <1>6 DEF Next

\* Every behaviour of the cached registry is one of the registry without a
\* cache: NACK dispatch cannot tell that Snapshot caches.
THEOREM Refinement == Spec => ImplementsLiveEndpoints
<1>1. Init => Abstract!Init
  BY DEF Init, Abstract!Init, Live
<1>2. TypeOK /\ CacheFresh /\ [Next]_vars => [Abstract!Next]_(Abstract!vars)
  BY RefinesStep
<1> QED  BY <1>1, <1>2, TypeCorrect, CacheCorrect, PTL
         DEF Spec, ImplementsLiveEndpoints, Abstract!Spec
-----------------------------------------------------------------------------
\* The seconds an entry has left and the seconds since its last ADVERT never
\* add up to less than its lifetime.
SilenceCounted ==
  \A id \in DOMAIN entries :
    silence[id] + entries[id].expires >= 3 * entries[id].interval

\* Every step keeps the record of silence per endpoint.
LEMMA SilenceStep ==
  ASSUME TypeOK, SilenceCounted, [Next]_vars
  PROVE  SilenceCounted'
<1> USE AdvertAssumption
<1>t. \A id \in DOMAIN entries :
        /\ id \in InstanceID /\ silence[id] \in Nat
        /\ entries[id] \in Entry
        /\ entries[id].interval \in 0..MaxInterval
        /\ entries[id].expires \in -1..(3 * MaxInterval)
  BY DEF TypeOK, Entry
<1>1. CASE ReceiveAdvert
  <2>1. PICK id \in InstanceID,
             advert \in [addr : Addr, tier : Tiers, pref : Preferences,
                         interval : Intervals] :
               Upsert(id, advert)
    BY <1>1 DEF ReceiveAdvert
  <2>2. advert.interval \in 0..MaxInterval
    OBVIOUS
  <2>3. /\ entries'[id].interval = advert.interval
        /\ entries'[id].expires = 3 * advert.interval
        /\ silence'[id] = 0
    BY <2>1 DEF Upsert, Lifetime, TypeOK
  <2>4. \A i \in DOMAIN entries' \ {id} :
          /\ i \in DOMAIN entries
          /\ entries'[i] = entries[i] /\ silence'[i] = silence[i]
    BY <2>1, <1>t DEF Upsert, TypeOK
  <2> QED  BY <2>2, <2>3, <2>4 DEF SilenceCounted
<1>2. CASE Evict
  BY <1>2 DEF Evict, Restrict, SilenceCounted
<1>3. CASE Snapshot
  BY <1>3 DEF Snapshot, SilenceCounted
<1>4. CASE StartDraining
  BY <1>4 DEF StartDraining, SilenceCounted
<1>5. CASE Tick
  <2> SUFFICES ASSUME NEW id \in DOMAIN entries
               PROVE  silence'[id] + entries'[id].expires
                        >= 3 * entries'[id].interval
    BY <1>5 DEF Tick, SilenceCounted
  <2>1. /\ entries'[id].interval = entries[id].interval
        /\ entries'[id].expires = IF entries[id].expires < 0 THEN -1
                                  ELSE entries[id].expires - 1
    BY <1>5 DEF Tick, Expired
  <2>2. silence'[id] = IF silence[id] < 3 * MaxInterval + 1
                         THEN silence[id] + 1 ELSE silence[id]
    BY <1>5, <1>t DEF Tick, MaxSilence, Lifetime
  <2>3. silence[id] + entries[id].expires >= 3 * entries[id].interval
    BY DEF SilenceCounted
  <2> QED  BY <2>1, <2>2, <2>3, <1>t
<1>6. CASE UNCHANGED vars
  BY <1>6 DEF vars, SilenceCounted
<1> QED  BY <1>1, <1>2, <1>3, <1>4, <1>5, <1>6 DEF Next

\* An entry that goes was silent for more than three of its intervals.
LEMMA NoEarlyEviction ==
  ASSUME TypeOK, SilenceCounted, [Next]_vars,
         NEW id \in DOMAIN entries \ DOMAIN entries'
  PROVE  silence[id] > 3 * entries[id].interval
<1>1. Evict
  BY DEF Next, vars, ReceiveAdvert, Upsert, Snapshot, StartDraining, Tick
<1>2. Expired(id)
  BY <1>1 DEF Evict, Restrict
<1>3. /\ silence[id] \in Nat
      /\ entries[id].interval \in Nat /\ entries[id].expires \in Int
  BY AdvertAssumption DEF TypeOK, Entry
<1>4. silence[id] + entries[id].expires >= 3 * entries[id].interval
  BY DEF SilenceCounted
<1> QED  BY <1>2, <1>3, <1>4 DEF Expired

\* Evict never drops an endpoint that has been heard within three of its
\* beacon intervals, so it takes three beacons lost in a row to lose one.
THEOREM LostBeacons == Spec => SurvivesLostBeacons
<1>1. Init => SilenceCounted
  BY DEF Init, SilenceCounted
<1>2. TypeOK /\ SilenceCounted /\ [Next]_vars => SilenceCounted'
  BY SilenceStep
<1>3. TypeOK /\ SilenceCounted /\ [Next]_vars
        => [\A id \in DOMAIN entries \ DOMAIN entries' :
              silence[id] > 3 * entries[id].interval]_vars
  BY NoEarlyEviction
<1> QED  BY <1>1, <1>2, <1>3, TypeCorrect, PTL
         DEF Spec, SurvivesLostBeacons
=============================================================================
