-------------------------- MODULE EndpointRegistry --------------------------
(***************************************************************************)
(* The retry-endpoint registry of discovery/registry.go and the beacon     *)
(* listener of discovery/beacon.go that feeds it.                          *)
(*                                                                         *)
(* listenGroup upserts an entry for every ADVERT that is not draining;     *)
(* evictLoop drops the entries whose time is up once a second; sendNACK    *)
(* calls Snapshot, which returns a cached sorted list and rebuilds it only *)
(* after a change (`dirty') or when there is none yet.  Every operation    *)
(* holds the registry's mutex throughout, so each is one action.           *)
(*                                                                         *)
(* Time.  An entry stores the seconds left until Expires; -1 means that    *)
(* now.After(Expires) holds.  Tick lets one second pass.                   *)
(***************************************************************************)
EXTENDS EndpointOrder, Integers, Sequences, Functions

CONSTANTS
  InstanceID,   \* the retry endpoints that may advertise themselves
  Addr,         \* NACK addresses, with the flags an ADVERT carries
  Tiers, Preferences,
  Intervals,    \* the values of ADVERT.BeaconInterval, in seconds
  MaxInterval,  \* the largest of them (65535 in the code)
  SeedAddrs,    \* RetryEndpoints of the configuration
  SeedTier,     \* 0xFF
  Nil           \* a slice that has not been made yet

ASSUME InstanceAssumption == IsFiniteSet(InstanceID)
ASSUME AdvertAssumption ==
  /\ Tiers \subseteq Nat /\ Preferences \subseteq Nat /\ SeedTier \in Nat
  /\ MaxInterval \in Nat /\ Intervals \subseteq 0..MaxInterval
ASSUME SeedAssumption == SeedAddrs \in Seq(Addr)

VARIABLES
  entries,    \* Registry.entries, by InstanceID
  seeds,      \* Registry.seeds
  snapshot,   \* Registry.snapshot
  dirty,      \* Registry.dirty
  listed,     \* the slice the last call of Snapshot returned
  call,       \* history: flips at every call, so that an answer that is
              \* the same as the one before is a step all the same
  draining,   \* environment: the endpoints that now advertise FlagDraining
  silence     \* history: seconds since the last ADVERT that was used

vars == <<entries, seeds, snapshot, dirty, listed, call, draining, silence>>

\* Expires is lastSeen + 3 x BeaconInterval.
Lifetime(interval) == 3 * interval

\* EndpointEntry; `interval' is history, the interval of the last ADVERT.
Entry == [addr : Addr, tier : Tiers, pref : Preferences,
          interval : Intervals, expires : -1..(3 * MaxInterval)]

\* Registry.Seed.  The synthetic instance ids keep two equal addresses apart.
SeedEndpoints ==
  {[id |-> <<"seed", i>>, addr |-> SeedAddrs[i], tier |-> SeedTier, pref |-> 0] :
     i \in DOMAIN SeedAddrs}

\* What a listing shows of an entry; Expires is not read by any caller.
EndpointOf(id) ==
  [id |-> id, addr |-> entries[id].addr, tier |-> entries[id].tier,
   pref |-> entries[id].pref]

Live == {EndpointOf(id) : id \in DOMAIN entries}

\* NewRegistry, then nack.New, which seeds the registry before any goroutine
\* runs and does not call Seed for an empty list.
Init ==
  /\ entries = [id \in {} |-> 0]
  /\ seeds = SeedEndpoints
  /\ snapshot = Nil
  /\ dirty = (SeedAddrs # <<>>)
  /\ listed = Nil
  /\ call = 0
  /\ draining = {}
  /\ silence = [id \in InstanceID |-> 0]

\* Faulty variant: a refresh of a known instance is not seen as a change.
DirtyIfNew(id) == dirty \/ id \notin DOMAIN entries
\* Registry.Upsert invalidates the cache whatever the ADVERT says.
DirtyAfterUpsert(id) == TRUE

Upsert(id, advert) ==
  /\ entries' =
       [i \in DOMAIN entries \cup {id} |->
          IF i = id
            THEN [addr |-> advert.addr, tier |-> advert.tier,
                  pref |-> advert.pref, interval |-> advert.interval,
                  expires |-> Lifetime(advert.interval)]
            ELSE entries[i]]
  /\ dirty' = DirtyAfterUpsert(id)
  /\ silence' = [silence EXCEPT ![id] = 0]
  /\ UNCHANGED <<seeds, snapshot, listed, call, draining>>

\* Faulty variant: the flags of an ADVERT are not looked at.
IgnoredNever(id) == FALSE
\* listenGroup skips an ADVERT with FlagDraining.
Ignored(id) == id \in draining

\* listenGroup: one ADVERT that decodes.  Others leave no trace.
ReceiveAdvert ==
  \E id \in InstanceID :
    \E advert \in [addr : Addr, tier : Tiers, pref : Preferences,
                   interval : Intervals] :
      ~Ignored(id) /\ Upsert(id, advert)

\* Faulty variant: one interval of silence is taken for death.
ExpiredEarly(id) == entries[id].expires < 2 * entries[id].interval
\* now.After(e.Expires)
Expired(id) == entries[id].expires < 0

DirtyAfterEvict == dirty \/ \E id \in DOMAIN entries : Expired(id)

\* Faulty variant: the last entries are kept rather than fall back on the seeds.
EvictUnlessLast ==
  LET kept == {id \in DOMAIN entries : ~Expired(id)}
  IN /\ kept # {}
     /\ dirty' = DirtyAfterEvict
     /\ entries' = Restrict(entries, kept)
     /\ UNCHANGED <<seeds, snapshot, listed, call, draining, silence>>
\* Registry.Evict, called by evictLoop.
Evict ==
  /\ dirty' = DirtyAfterEvict
  /\ entries' = Restrict(entries, {id \in DOMAIN entries : ~Expired(id)})
  /\ UNCHANGED <<seeds, snapshot, listed, call, draining, silence>>

\* The endpoints a rebuilt snapshot holds: seeds only when nothing is live.
Merged == IF DOMAIN entries = {} THEN seeds ELSE Live

\* Registry.Snapshot, called by sendNACK.  Both copies are deep.
Snapshot ==
  /\ IF dirty \/ snapshot = Nil
       THEN snapshot' \in Listings(Merged) /\ dirty' = FALSE
       ELSE UNCHANGED <<snapshot, dirty>>
  /\ listed' = snapshot'
  /\ call' = 1 - call
  /\ UNCHANGED <<entries, seeds, draining, silence>>

\* Environment: an endpoint begins to shut down and sets FlagDraining.
StartDraining ==
  /\ \E id \in InstanceID \ draining : draining' = draining \cup {id}
  /\ UNCHANGED <<entries, seeds, snapshot, dirty, listed, call, silence>>

\* The largest silence the model tells apart.
MaxSilence == Lifetime(MaxInterval) + 1

Tick ==
  /\ entries' = [id \in DOMAIN entries |->
                   [addr |-> entries[id].addr, tier |-> entries[id].tier,
                    pref |-> entries[id].pref,
                    interval |-> entries[id].interval,
                    expires |-> IF Expired(id) THEN -1
                                ELSE entries[id].expires - 1]]
  /\ silence' = [id \in InstanceID |->
                   IF id \in DOMAIN entries /\ silence[id] < MaxSilence
                     THEN silence[id] + 1 ELSE silence[id]]
  /\ UNCHANGED <<seeds, snapshot, dirty, listed, call, draining>>

Next == ReceiveAdvert \/ Evict \/ Snapshot \/ StartDraining \/ Tick

Spec == Init /\ [][Next]_vars

\* Time passes, and evictLoop's ticker keeps firing until the context ends.
FairSpec == Spec /\ WF_vars(Tick) /\ WF_vars(Evict)
-----------------------------------------------------------------------------
\* The registry's variables keep their shapes.
TypeOK ==
  /\ DOMAIN entries \subseteq InstanceID
  /\ entries \in [DOMAIN entries -> Entry]
  /\ seeds = SeedEndpoints
  /\ dirty \in BOOLEAN
  /\ call \in {0, 1}
  /\ draining \subseteq InstanceID
  /\ silence \in [InstanceID -> Nat]

\* A cached snapshot that Snapshot would return as it is lists exactly the
\* endpoints that are registered now, best first, or exactly the seeds when
\* none is: no mutation of the registry forgets to invalidate the cache, and
\* the passing of time alone never needs to.
CacheFresh == ~dirty /\ snapshot # Nil => snapshot \in Listings(Merged)

\* An endpoint that is registered survives two lost beacons: eviction removes
\* it only after more than three of its announced intervals of silence.
SurvivesLostBeacons ==
  [][\A id \in DOMAIN entries \ DOMAIN entries' :
        silence[id] > 3 * entries[id].interval]_vars

Abstract == INSTANCE LiveEndpoints WITH live <- Live

\* The cached registry behaves like one that sorts the live endpoints anew at
\* every call of Snapshot.
ImplementsLiveEndpoints == Abstract!Spec

\* An endpoint that has begun to drain is dropped and never comes back, however
\* often it goes on advertising itself.
DrainingLeaves ==
  \A id \in InstanceID : (id \in draining) ~> [](id \notin DOMAIN entries)

\* An endpoint that stays silent, without a last ADVERT that says so, is dropped:
\* as long as it is registered it is heard from again and again.
SilentLeaves ==
  \A id \in InstanceID : []<>(id \notin DOMAIN entries \/ silence[id] = 0)
=============================================================================
