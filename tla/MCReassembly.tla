---------------------------- MODULE MCReassembly ----------------------------
(***************************************************************************)
(* Instances of Reassembly for TLC.                                        *)
(***************************************************************************)
EXTENDS Reassembly, TLC

CONSTANTS x1, x2, x3

Fragment(t, v, n, i, length, good) ==
  [txID |-> t, ver |-> v, total |-> n, index |-> i, len |-> length,
   intact |-> good]

\* Three payloads of two fragments, one of which may also arrive damaged, cut
\* differently, or in a single fragment; two refused fragments, one for an
\* index beyond its total and one because OrigPayloadLen + 1 wraps to zero.
Mixed ==
  {Fragment(t, "V2", 2, i, 4, TRUE) : t \in {x1, x2, x3}, i \in {0, 1}}
  \cup {Fragment(x1, "V2", 2, 1, 4, FALSE), Fragment(x1, "V5", 3, 2, 4, TRUE),
        Fragment(x2, "V4", 1, 0, 4, TRUE), Fragment(x3, "V2", 2, 2, 4, TRUE),
        Fragment(x3, "V2", 2, 0, LenModulus - 1, TRUE)}

\* Compact is the selection the loop of evictExpired makes.
ASSUME CompactSelects ==
  \A order \in UNION {[1..n -> TxID] : n \in 0..4}, keep \in SUBSET TxID :
    Compact(order, keep) = SelectSeq(order, LAMBDA t : t \in keep)
=============================================================================
