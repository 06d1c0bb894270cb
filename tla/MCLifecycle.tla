---------------------------- MODULE MCLifecycle ----------------------------
(***************************************************************************)
(* Lifecycle for TLC: up to two workers and command lines that cover each  *)
(* check of Load, an index listed twice, and the widest shard key.         *)
(***************************************************************************)
EXTENDS Lifecycle

CONSTANTS site, eth, gid, port, grp

Ingress == [scope |-> site, groupID |-> gid, port |-> port, iface |-> eth]
NoPlace == [p \in Place |-> Unset]
Disabled == [enabled |-> FALSE, place |-> NoPlace]
Enabled == [enabled |-> TRUE, place |-> NoPlace]

Usual ==
  [shardBits |-> 1, ingress |-> Ingress, egressProto |-> "udp",
   mcEgress |-> Disabled, headerProto |-> Unset, headerMCEgress |-> Enabled,
   shardInclude |-> <<>>, subtreeGroups |-> <<>>, lists |-> <<>>,
   subtreeDataEnabled |-> FALSE, beaconEnabled |-> FALSE,
   workers |-> 0, drainTimeout |-> 1]

\* Command lines that are accepted.
Good ==
  {Usual,
   [Usual EXCEPT !.shardBits = MaxShardBits, !.shardInclude = <<2, 1>>, !.workers = 1,
                 !.drainTimeout = 0, !.subtreeDataEnabled = TRUE],
   [Usual EXCEPT !.shardInclude = <<1, 1>>, !.workers = 1, !.subtreeGroups = <<grp>>,
                 !.beaconEnabled = TRUE]}

\* One that is refused by each check.
Bad ==
  {[Usual EXCEPT !.shardBits = 0],
   [Usual EXCEPT !.shardBits = MaxShardBits + 1],
   [Usual EXCEPT !.ingress["scope"] = Unset],
   [Usual EXCEPT !.egressProto = "sctp"],
   [Usual EXCEPT !.mcEgress = [enabled |-> TRUE, place |-> [NoPlace EXCEPT !["iface"] = Garbled]]],
   [Usual EXCEPT !.headerProto = "sctp"],
   [Usual EXCEPT !.shardInclude = <<2>>],
   [Usual EXCEPT !.shardInclude = <<0, Garbled>>],
   [Usual EXCEPT !.lists = <<Garbled>>]}

CommandLines == Good \cup Bad
=============================================================================
