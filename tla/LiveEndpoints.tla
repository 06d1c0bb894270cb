--------------------------- MODULE LiveEndpoints ---------------------------
(***************************************************************************)
(* What the endpoint registry promises its one reader, NACK dispatch:      *)
(* every listing it hands out is the list of the endpoints that are live   *)
(* at that moment, best first, or of the static seeds when none is live.   *)
(* There is no cache here, and no clock.                                   *)
(***************************************************************************)
EXTENDS EndpointOrder

VARIABLES live,     \* the endpoints known from beacons, one per instance
          seeds,    \* the endpoints of the configuration
          listed,   \* the listing handed out last
          call      \* flips when a listing is handed out
vars == <<live, seeds, listed, call>>

Init == live = {} /\ call = 0

\* A beacon adds an endpoint, or replaces what was known of that instance.
Announce == /\ \E e \in live' : live' = {o \in live : o.id # e.id} \cup {e}
            /\ UNCHANGED <<seeds, listed, call>>

\* Endpoints that have gone silent are dropped.
Depart == live' \subseteq live /\ UNCHANGED <<seeds, listed, call>>

List == /\ listed' \in Listings(IF live = {} THEN seeds ELSE live)
        /\ call' = 1 - call
        /\ UNCHANGED <<live, seeds>>

Next == Announce \/ Depart \/ List

Spec == Init /\ [][Next]_vars
=============================================================================
