----------------------------- MODULE MCDedupSet -----------------------------
(***************************************************************************)
(* Instances of DedupSet for TLC.                                          *)
(***************************************************************************)
EXTENDS DedupSet

CONSTANTS k1, k2, k3, k4

\* dedup.go says "on insert past capacity, the oldest key is evicted" and that
\* the capacity is the number of distinct keys the set can remember: a key
\* among the last Capacity insertions is still in the map.
LastInsertionsKept == InRing \subseteq DOMAIN entries
=============================================================================
