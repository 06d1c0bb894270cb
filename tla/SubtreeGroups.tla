---------------------------- MODULE SubtreeGroups ----------------------------
(***************************************************************************)
(* The subtree-group registry of subtreegroup/registry.go and the BRC-127  *)
(* announcement listener of discovery/subtree_announce.go that feeds it.   *)
(*                                                                         *)
(* There is one listenGroup goroutine per announcement scope.  Each checks *)
(* the sender and calls Add, which computes the expiry BEFORE it takes the *)
(* lock, so two goroutines may store their expiries in the other order:    *)
(* Add is therefore two actions.  evictLoop calls Evict once a second, and *)
(* the frame filter calls Contains for every transaction frame.            *)
(*                                                                         *)
(* Time.  An entry stores the seconds left until its expiry: Contains      *)
(* needs more than 0, Evict removes what is below 0.                       *)
(***************************************************************************)
EXTENDS Integers, FiniteSets, Functions

CONSTANTS
  Subscribed,     \* the group ids of the configuration
  OtherGroup,     \* group ids that are announced and not subscribed
  SubtreeID,
  Source,         \* senders of announcements
  SenderInclude, SenderExclude,   \* the sources the configured CIDRs contain
  Listener,       \* the listenGroup goroutines
  AnnouncedTTL,   \* the TTLs announcements carry; 0 asks for the default
  DefaultTTL,
  MaxTTL,         \* the largest TTL
  Idle            \* a listener that is not inside Add

ASSUME TTLAssumption ==
  /\ MaxTTL \in Nat /\ AnnouncedTTL \subseteq 0..MaxTTL
  /\ DefaultTTL \in 1..MaxTTL
ASSUME GroupAssumption == Subscribed \cap OtherGroup = {}

VARIABLES
  entries,   \* Registry.entries: group -> subtree -> seconds left
  adding,    \* per listener: the entry its call of Add is about to store
  lease,     \* history: seconds left of the longest valid announcement
  oldest,    \* history, per listener inside Add: the least seconds left of its
             \* announcement and of those whose Add returned meanwhile
  due        \* history: seconds left of the announcement that governs an entry,
             \* the least of them where calls of Add overlapped

vars == <<entries, adding, lease, oldest, due>>

Nobody == [s \in {} |-> 0]

\* New
Init ==
  /\ entries = [g \in Subscribed |-> Nobody]
  /\ adding = [l \in Listener |-> Idle]
  /\ lease = [s \in SubtreeID |-> 0]
  /\ oldest = [l \in Listener |-> 0]
  /\ due = [g \in Subscribed |-> [s \in SubtreeID |-> 0]]

\* Faulty variant: the include list is consulted first and wins.
SenderAllowedIncludeFirst(src) ==
  SenderInclude = {} \/ src \in SenderInclude
\* senderAllowed: exclude before include; an empty include list admits all.
SenderAllowed(src) ==
  /\ src \notin SenderExclude
  /\ SenderInclude = {} \/ src \in SenderInclude

\* The TTL that listenGroup passes to Add, and Add uses.
EffectiveTTL(ttl) == IF ttl > 0 THEN ttl ELSE DefaultTTL

\* Add is a no-op for a group that is not in the subscribed set.
Subscribes(g) == g \in Subscribed

\* An announcement that the operator's rules admit.
Valid(src, g) == /\ src \notin SenderExclude
                 /\ SenderInclude = {} \/ src \in SenderInclude
                 /\ g \in Subscribed

\* listenGroup up to the lock of Add, for an announcement that is used.
ReceiveAnnouncement(l, src, g, s, ttl) ==
  /\ adding[l] = Idle
  /\ SenderAllowed(src)
  /\ Subscribes(g)
  /\ adding' = [adding EXCEPT ![l] =
                  [group |-> g, subtree |-> s, expiry |-> EffectiveTTL(ttl)]]
  /\ lease' = [lease EXCEPT ![s] =
                 IF Valid(src, g) /\ EffectiveTTL(ttl) > @
                   THEN EffectiveTTL(ttl) ELSE @]
  /\ oldest' = [oldest EXCEPT ![l] = EffectiveTTL(ttl)]
  /\ UNCHANGED <<entries, due>>

Least(m, n) == IF m < n THEN m ELSE n

\* The listeners, other than l, that are inside Add for the same entry.
Overlapping(l) ==
  {k \in Listener \ {l} :
     /\ adding[k] # Idle
     /\ adding[k].group = adding[l].group /\ adding[k].subtree = adding[l].subtree}

\* The locked part of Add.
StoreEntry(l) ==
  /\ adding[l] # Idle
  /\ LET a == adding[l]
     IN /\ entries' = [entries EXCEPT ![a.group] =
             [i \in DOMAIN @ \cup {a.subtree} |->
                IF i = a.subtree THEN a.expiry ELSE @[i]]]
        /\ due' = [due EXCEPT ![a.group][a.subtree] = oldest[l]]
        /\ oldest' = [k \in Listener |->
             IF k = l THEN 0
             ELSE IF k \in Overlapping(l) THEN Least(oldest[k], a.expiry)
             ELSE oldest[k]]
  /\ adding' = [adding EXCEPT ![l] = Idle]
  /\ UNCHANGED lease

Remove(g, s) ==
  /\ entries' = [entries EXCEPT ![g] = Restrict(@, DOMAIN @ \ {s})]
  /\ due' = [due EXCEPT ![g][s] = 0]
  /\ UNCHANGED <<adding, lease, oldest>>

\* Faulty variant: the expiry of an entry is left to Evict.
ContainsEntry(s) == \E g \in Subscribed : s \in DOMAIN entries[g]
\* Registry.Contains
Contains(s) ==
  \E g \in Subscribed : s \in DOMAIN entries[g] /\ entries[g][s] > 0

\* Faulty variant: an entry that has a second to live is evicted.
LapsedEarly(g, s) == entries[g][s] <= 1
\* Faulty variant: nothing ever lapses.
LapsedNever(g, s) == FALSE
\* now.After(expiry)
Lapsed(g, s) == entries[g][s] < 0

\* Registry.Evict.  It reads the clock before it takes the lock, which at worst
\* leaves an entry for the next sweep.
Evict ==
  /\ entries' = [g \in Subscribed |->
                   Restrict(entries[g],
                            {s \in DOMAIN entries[g] : ~Lapsed(g, s)})]
  /\ UNCHANGED <<adding, lease, oldest, due>>

\* A second less, down to the floor.
Less(n, floor) == IF n > floor THEN n - 1 ELSE n

Tick ==
  /\ entries' = [g \in Subscribed |->
                   [s \in DOMAIN entries[g] |-> Less(entries[g][s], -1)]]
  /\ adding' = [l \in Listener |->
                  IF adding[l] = Idle THEN Idle
                  ELSE [adding[l] EXCEPT !.expiry = Less(@, -1)]]
  /\ lease' = [s \in SubtreeID |-> Less(lease[s], 0)]
  /\ oldest' = [l \in Listener |-> IF adding[l] = Idle THEN 0 ELSE Less(oldest[l], -1)]
  /\ due' = [g \in Subscribed |-> [s \in SubtreeID |-> Less(due[g][s], 0)]]

Listen ==
  \E l \in Listener, s \in SubtreeID :
    \/ \E src \in Source, g \in Subscribed \cup OtherGroup, ttl \in AnnouncedTTL :
         ReceiveAnnouncement(l, src, g, s, ttl)
    \/ StoreEntry(l)

Next == \/ Listen
        \/ \E g \in Subscribed, s \in SubtreeID : Remove(g, s)
        \/ Evict
        \/ Tick

Spec == Init /\ [][Next]_vars

\* Time passes, evictLoop's ticker keeps firing, and a call of Add returns.
FairSpec == /\ Spec
            /\ WF_vars(Tick) /\ WF_vars(Evict)
            /\ \A l \in Listener : WF_vars(StoreEntry(l))
-----------------------------------------------------------------------------
\* The variables keep their shapes; only subscribed groups have entries.
TypeOK ==
  /\ DOMAIN entries = Subscribed
  /\ \A g \in Subscribed :
       /\ DOMAIN entries[g] \subseteq SubtreeID
       /\ \A s \in DOMAIN entries[g] : entries[g][s] \in -1..MaxTTL
  /\ \A l \in Listener :
       adding[l] # Idle => /\ adding[l].group \in Subscribed
                           /\ adding[l].expiry \in -1..MaxTTL
  /\ lease \in [SubtreeID -> 0..MaxTTL]

\* The filter accepts a subtree only while an announcement of it by an allowed
\* sender, for a subscribed group, is within its TTL, whichever listener stored
\* its entry last and however late Evict runs.
AcceptsOnlyAnnounced == \A s \in SubtreeID : Contains(s) => lease[s] > 0

\* And it does accept the subtree as long as the latest announcement of it for
\* one of its groups is within its TTL.  Where calls of Add overlap, an older
\* announcement may replace a newer one: then it is as long as each of those is.
\* Neither Evict nor the expiry of another group's entry cuts that short.
AcceptsWhileAnnounced ==
  \A g \in Subscribed, s \in SubtreeID : due[g][s] > 0 => Contains(s)

\* A subtree that is no longer announced is eventually forgotten, so the
\* registry does not grow with every subtree there ever was.
UnannouncedForgotten ==
  \A s \in SubtreeID :
    (lease[s] = 0)
      ~> (lease[s] > 0 \/ \A g \in Subscribed : s \notin DOMAIN entries[g])
=============================================================================
