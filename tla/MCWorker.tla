------------------------------ MODULE MCWorker ------------------------------
(***************************************************************************)
(* Instances of Worker for TLC.                                            *)
(***************************************************************************)
EXTENDS Worker, TLC

CONSTANTS s0, s1, s2, s3, h1, h2, h3

Frame(k, v, g, st, h, n, good) ==
  [kind |-> k, ver |-> v, group |-> g, subtree |-> st, hashKey |-> h,
   seq |-> n, intact |-> good, announce |-> k = "block"]

Tx(g, st, h, n) == Frame("tx", "V2", g, st, h, n, TRUE)

\* Frames for every branch of the transaction path, and a block: two that are
\* statically included, one in an announced subtree, one on both lists, in
\* another shard, damaged, legacy.  s0 is the zero subtree.
OneOfEach ==
  {Tx(0, s1, h1, 1), Tx(0, s1, h1, 2), Tx(0, s2, h2, 1), Tx(0, s3, h3, 1),
   Tx(1, s1, h1, 2),
   Frame("tx", "V2", 0, s1, h1, 3, FALSE),
   Frame("tx", "V1", 0, s0, h1, 0, TRUE),
   Frame("block", "V2", 9, s0, h3, 2, TRUE)}

\* Reassembled payloads: one that may also arrive whole, one on the exclude
\* list, and subtree data that no proxy has stamped.
SomeReassembled ==
  {Tx(0, s2, h2, 1), Tx(0, s3, h3, 1),
   Frame("subtree", "V2", 8, s2, h2, 0, TRUE)}

\* Two senders that publish to the same group and subtree: two flows, each
\* with a sequence of its own.
TwoSenders == {Tx(0, s1, h1, 1), Tx(0, s1, h2, 1)}

FrameKeys == {KeyOf(f) : f \in AllFrames}
=============================================================================
