-------------------------------- MODULE Config --------------------------------
(***************************************************************************)
(* What config.Load makes of the flags, and the multicast groups that      *)
(* buildGroups derives from the result.                                    *)
(*                                                                         *)
(* A flag's value is already the one that wins over its environment        *)
(* variable and its default.  Names of scopes, interfaces, group-ids and   *)
(* ports are opaque values; `Unset' is the empty string or the port 0.  A  *)
(* list value that does not parse is Garbled; `lists' stands for the lists *)
(* of which only that matters here (subtrees, scopes, senders).  A group   *)
(* address is the triple of scope, group-id and index, as shard.Engine     *)
(* lays it out.                                                            *)
(***************************************************************************)
EXTENDS Integers, Sequences, Functions

CONSTANTS
  MaxShardBits,  \* 15: the widest shard key
  Scopes,        \* the names of config.Scopes
  GroupIDs,      \* what parseGroupID accepts
  Interfaces,    \* the interfaces of the host
  NumCPU,        \* runtime.NumCPU()
  Unset, Garbled

ASSUME ConfigAssumption ==
  /\ MaxShardBits \in Nat /\ MaxShardBits >= 3  \* the control groups have room
  /\ NumCPU \in Nat \ {0}
  /\ Unset \notin Scopes \cup GroupIDs \cup Interfaces

Place == {"scope", "groupID", "port", "iface"}

-----------------------------------------------------------------------------
(* The control groups of bitcoin-shard-common, at the top of the index     *)
(* space, which is one bit wider than the widest shard key.                *)

IndexSpace == 2^(MaxShardBits + 1)

CtrlGroupControl == IndexSpace - 2          \* 0xFFFE
CtrlGroupSubtreeAnnounce == IndexSpace - 5  \* 0xFFFB
CtrlGroupBlockHeader == IndexSpace - 6      \* 0xFFFA

Address(place, index) ==
  [scope |-> place["scope"], groupID |-> place["groupID"], index |-> index]

-----------------------------------------------------------------------------
(* Load.                                                                   *)

\* Where a multicast egress sends to: what is not set is as for the ingress.
EgressPlace(ingress, option) ==
  [p \in Place |-> IF option.place[p] = Unset THEN ingress[p] ELSE option.place[p]]

PlaceKnown(place) ==
  /\ place["scope"] \in Scopes
  /\ place["groupID"] \in GroupIDs
  /\ place["iface"] \in Interfaces

\* The options of a multicast egress are looked at only when it is enabled.
EgressValid(ingress, option) ==
  option.enabled => PlaceKnown(EgressPlace(ingress, option))

\* Faulty variant: the top of the index space is not kept free.
BitsValidTooWide(bits) == bits \in 1..(MaxShardBits + 1)

BitsValid(bits) == bits \in 1..MaxShardBits

ProtoValid(proto) == proto \in {"udp", "tcp"}

\* Every index of -shard-include parses and is below NumGroups.
IncludeValid(include, bits) ==
  \A i \in DOMAIN include : include[i] # Garbled /\ include[i] < 2^bits

Valid(flags) ==
  /\ BitsValid(flags.shardBits)
  /\ PlaceKnown(flags.ingress)
  /\ ProtoValid(flags.egressProto)
  /\ EgressValid(flags.ingress, flags.mcEgress)
  /\ flags.headerProto # Unset => ProtoValid(flags.headerProto)
  /\ EgressValid(flags.ingress, flags.headerMCEgress)
  /\ IncludeValid(flags.shardInclude, flags.shardBits)
  /\ Garbled \notin Range(flags.subtreeGroups)
  /\ Garbled \notin Range(flags.lists)

NumWorkers(workers) == IF workers <= 0 THEN NumCPU ELSE workers

Loaded(flags) ==
  [numGroups |-> 2^flags.shardBits,
   ingress |-> flags.ingress,
   shardInclude |-> flags.shardInclude,
   mcEgressPlace |-> EgressPlace(flags.ingress, flags.mcEgress),
   headerPlace |-> EgressPlace(flags.ingress, flags.headerMCEgress),
   subtreeDataEnabled |-> flags.subtreeDataEnabled,
   beaconEnabled |-> flags.beaconEnabled,
   groupsSubscribed |-> flags.subtreeGroups # <<>>,
   numWorkers |-> NumWorkers(flags.workers),
   drainTimeout |-> flags.drainTimeout]

-----------------------------------------------------------------------------
(* buildGroups and the shard rule of the filter.                           *)

\* The shard indices to join, in order and with the list's repetitions.
Indices(cfg) ==
  IF cfg.shardInclude # <<>>
  THEN cfg.shardInclude
  ELSE [i \in 1..cfg.numGroups |-> i - 1]

BuildGroups(cfg) ==
  [i \in 1..Len(Indices(cfg)) |-> Address(cfg.ingress, Indices(cfg)[i])]
    \o <<Address(cfg.ingress, CtrlGroupControl)>>
    \o (IF cfg.subtreeDataEnabled
        THEN <<Address(cfg.ingress, CtrlGroupSubtreeAnnounce)>>
        ELSE <<>>)

\* filter.New with this list: an empty one accepts every shard.
ShardAccepted(cfg, index) ==
  cfg.shardInclude # <<>> => index \in Range(cfg.shardInclude)
=============================================================================
