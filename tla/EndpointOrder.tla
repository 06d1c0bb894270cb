--------------------------- MODULE EndpointOrder ---------------------------
(***************************************************************************)
(* The order in which NACK dispatch walks the retry endpoints: the sort of *)
(* discovery/registry.go, Snapshot.                                        *)
(***************************************************************************)
EXTENDS Naturals, FiniteSets

\* The comparison of sort.Slice: lower tier first, then higher preference.
Precedes(e, f) == \/ e.tier < f.tier
                  \/ e.tier = f.tier /\ e.pref >= f.pref

\* sort.Slice is not stable and the entries come out of a map, so endpoints
\* that tie on both keys may be listed either way round.
Listings(endpoints) ==
    {l \in [1..Cardinality(endpoints) -> endpoints] :
        \A i, j \in 1..Cardinality(endpoints) :
            i < j => l[i] # l[j] /\ Precedes(l[i], l[j])}
=============================================================================
