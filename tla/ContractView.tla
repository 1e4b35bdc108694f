---------------------------- MODULE ContractView ----------------------------
(***************************************************************************)
(* The two contracts and what a validator node knows of them:              *)
(* ValidatorContractState reads the block parameters and the nodes,        *)
(* StorageContractState the shards of the storage nodes, each by several   *)
(* calls, and both then follow the events of their contract.               *)
(*                                                                         *)
(* startServer connects ValidatorContractState a second time, with a new   *)
(* client, before the node serves any call: the first client is left out.  *)
(***************************************************************************)
EXTENDS Naturals, Sequences, FiniteSets

CONSTANTS
  VNodes, SNodes, ANodes,
  \* ARCHIVAL_NODES_ON
  ArchivalNodesOn,
  Statuses,
  \* What the storage contract may assign, as node -> set of shards.
  ShardMaps,
  \* Bound of the model: the changes of the contracts.
  MaxChanges

Nodes == VNodes \cup SNodes \cup ANodes
Enabled == {"OK", "Reported", "Slashed"}
Absent == "absent"

ASSUME ViewAssumption ==
  /\ IsFiniteSet(Nodes)
  /\ VNodes \cap SNodes = {} /\ VNodes \cap ANodes = {} /\ SNodes \cap ANodes = {}
  /\ "params" \notin Nodes
  /\ ArchivalNodesOn \in BOOLEAN
  /\ "OK" \in Statuses /\ Absent \notin Statuses
  /\ MaxChanges \in Nat

VARIABLES
  \* The contracts: [params, status, shards], how often they have changed,
  \* and the nodes that a change was about.
  chain, changes, disturbed,
  \* Events that are subscribed to and on their way, by kind: each kind is
  \* polled for by itself.
  events,
  \* The progress of connect: [params, type, listed, left].
  load,
  \* valPerBlock, and vnodes, snodes and anodes in one map.
  valPerBlock, view,
  \* nodeShardMap, shardToNodesMap as pairs, and the runs of
  \* reloadEveryAddressAndNotifyListeners: [left, read].
  nodeShardMap, shardToNodes, reloads,
  \* History: what the view has missed, and whether reloads have overlapped.
  lost, overlapped

chainVars == <<chain, changes, disturbed>>
nodeVars == <<load, valPerBlock, view>>
shardVars == <<nodeShardMap, shardToNodes, reloads>>
history == <<lost, overlapped>>
viewVars == <<chainVars, events, nodeVars, shardVars, history>>

EventsOf ==
  [BlockParamsUpdated |-> 0..MaxChanges, NodeAdded |-> Nodes,
   NodeStatusChanged |-> Nodes \X Statuses, SNodeMappingChanged |-> SUBSET SNodes]

Kinds == DOMAIN EventsOf

\* The types of nodes, in the order in which their nodes are read.
Types == IF ArchivalNodesOn THEN <<VNodes, SNodes, ANodes>> ELSE <<VNodes, SNodes>>

NoReload == [left |-> {}, read |-> {}]
Running(r) == reloads[r] # NoReload
Reloads == 0..MaxChanges
AllShards == UNION {m[s] : s \in SNodes, m \in ShardMaps}

ViewTypeOK ==
  /\ chain \in [params : 0..MaxChanges, status : [Nodes -> Statuses \cup {Absent}], shards : ShardMaps]
  /\ changes \in 0..MaxChanges
  /\ disturbed \subseteq Nodes
  /\ events = [k \in Kinds |-> events[k]]
  /\ \A k \in Kinds : events[k] \in Seq(EventsOf[k])
  /\ load \in [params : 0..2, type : 1..Len(Types) + 1, listed : BOOLEAN, left : SUBSET Nodes]
  /\ valPerBlock \in 0..MaxChanges
  /\ view \in [Nodes -> Statuses \cup {Absent}]
  /\ nodeShardMap \in [SNodes -> SUBSET AllShards]
  /\ shardToNodes \in SUBSET (AllShards \X SNodes)
  /\ reloads \in [Reloads -> [left : SUBSET SNodes, read : SUBSET (SNodes \X SUBSET AllShards)]]
  /\ lost \subseteq Nodes \cup {"params"}
  /\ overlapped \in BOOLEAN

\* The first reload is the one of readContractState.
ViewInit ==
  /\ chain \in [params : {0}, status : [Nodes -> {"OK", Absent}], shards : ShardMaps]
  /\ changes = 0 /\ disturbed = {}
  /\ events = [k \in Kinds |-> <<>>]
  /\ load = [params |-> 0, type |-> 1, listed |-> FALSE, left |-> {}]
  /\ valPerBlock = 0
  /\ view = [n \in Nodes |-> Absent]
  /\ nodeShardMap = [s \in SNodes |-> {}] /\ shardToNodes = {}
  /\ reloads = [r \in Reloads |-> IF r = 0 THEN [left |-> SNodes, read |-> {}] ELSE NoReload]
  /\ lost = {} /\ overlapped = FALSE

-----------------------------------------------------------------------------
(* The contracts. *)

ShardsSubscribed == load.params > 0 \/ ~Running(0)
ParamsSubscribed == load.params = 2
NodesSubscribed == load.type > Len(Types)

Subscribed ==
  [BlockParamsUpdated |-> ParamsSubscribed, NodeAdded |-> NodesSubscribed,
   NodeStatusChanged |-> NodesSubscribed, SNodeMappingChanged |-> ShardsSubscribed]

\* What was read of n before it changes is not read again.
AlreadyRead(n) ==
  \/ \E t \in 1..Len(Types) : t < load.type /\ n \in Types[t]
  \/ ~NodesSubscribed /\ n \in Types[load.type] /\ load.listed /\ n \notin load.left

Emit(kind, event, about) ==
  /\ changes < MaxChanges
  /\ changes' = changes + 1
  /\ disturbed' = disturbed \cup about
  /\ events' = IF Subscribed[kind] THEN [events EXCEPT ![kind] = Append(@, event)] ELSE events
  /\ UNCHANGED <<nodeVars, shardVars, overlapped>>

Misses(missed) == lost' = lost \cup missed

UpdateBlockParams ==
  /\ chain' = [chain EXCEPT !.params = @ + 1]
  /\ Emit("BlockParamsUpdated", chain'.params, {})
  /\ Misses(IF load.params = 1 THEN {"params"} ELSE {})

AddNode(n) ==
  /\ chain.status[n] = Absent
  /\ chain' = [chain EXCEPT !.status[n] = "OK"]
  /\ Emit("NodeAdded", n, {n})
  /\ Misses(IF AlreadyRead(n) /\ ~NodesSubscribed THEN {n} ELSE {})

ChangeNodeStatus(n, status) ==
  /\ chain.status[n] \notin {Absent, status}
  /\ chain' = [chain EXCEPT !.status[n] = status]
  /\ Emit("NodeStatusChanged", <<n, status>>, {n})
  /\ Misses(IF AlreadyRead(n) /\ ~NodesSubscribed THEN {n} ELSE {})

Reshard(shards) ==
  LET moved == {s \in SNodes : shards[s] # chain.shards[s]}
  IN /\ moved # {}
     /\ chain' = [chain EXCEPT !.shards = shards]
     /\ Emit("SNodeMappingChanged", moved, moved)
     /\ Misses(IF ShardsSubscribed THEN {} ELSE moved \ reloads[0].left)

ContractChanges ==
  \/ UpdateBlockParams
  \/ \E n \in Nodes : AddNode(n) \/ \E status \in Statuses : ChangeNodeStatus(n, status)
  \/ \E shards \in ShardMaps : Reshard(shards)

-----------------------------------------------------------------------------
(* StorageContractState *)

\* Mutant: the map is emptied before the nodes are read.
MutStartReload(r, nodeAddrList) ==
  /\ reloads' = [reloads EXCEPT ![r] = [left |-> nodeAddrList, read |-> {}]]
  /\ shardToNodes' = {}
  /\ UNCHANGED nodeShardMap

StartReload(r, nodeAddrList) ==
  /\ reloads' = [reloads EXCEPT ![r] = [left |-> nodeAddrList, read |-> {}]]
  /\ UNCHANGED <<nodeShardMap, shardToNodes>>

\* The contract answers the next getNodeShardsByAddr of the reload.
GetNodeShards(r) ==
  /\ reloads[r].left # {} /\ reloads[r].read = {}
  /\ \E s \in reloads[r].left :
       reloads' = [reloads EXCEPT ![r] = [left |-> @.left \ {s}, read |-> {<<s, chain.shards[s]>>}]]
  /\ UNCHANGED <<chainVars, events, nodeVars, nodeShardMap, shardToNodes, history>>

\* The answer arrives; after the last one the map of the shards is built anew.
SetNodeShards(r) ==
  \E answer \in reloads[r].read :
    /\ nodeShardMap' = [nodeShardMap EXCEPT ![answer[1]] = answer[2]]
    /\ reloads' = [reloads EXCEPT ![r].read = {}]
    /\ shardToNodes' =
         IF reloads[r].left = {}
           THEN UNION {{<<shard, s>> : shard \in nodeShardMap'[s]} : s \in SNodes}
           ELSE shardToNodes
    /\ UNCHANGED <<chainVars, events, nodeVars, history>>

OnSNodeMappingChanged ==
  /\ events["SNodeMappingChanged"] # <<>>
  /\ \E r \in Reloads \ {0} :
       /\ ~Running(r) /\ \A q \in 1..(r - 1) : Running(q)
       /\ StartReload(r, Head(events["SNodeMappingChanged"]))
  /\ events' = [events EXCEPT !["SNodeMappingChanged"] = Tail(@)]
  /\ overlapped' = (overlapped \/ \E r \in Reloads : Running(r))
  /\ UNCHANGED <<chainVars, nodeVars, lost>>

-----------------------------------------------------------------------------
(* ValidatorContractState *)

Loads == UNCHANGED <<chainVars, events, shardVars, history>>

\* valPerBlock and valPerBlockTarget are read; BlockParamsUpdated is
\* subscribed to after the second of the two answers.
LoadConstants ==
  /\ ~Running(0)
  /\ load.params < 2
  /\ load' = [load EXCEPT !.params = @ + 1]
  /\ valPerBlock' = IF load.params = 0 THEN chain.params ELSE valPerBlock
  /\ UNCHANGED view
  /\ Loads

NextType == [load EXCEPT !.type = @ + 1, !.listed = FALSE, !.left = {}]

\* getVNodes, getSNodes, getANodes
GetNodes ==
  LET present == {n \in Types[load.type] : chain.status[n] # Absent}
  IN /\ ParamsSubscribed /\ ~NodesSubscribed /\ ~load.listed
     /\ load' = IF present = {} THEN NextType ELSE [load EXCEPT !.listed = TRUE, !.left = present]
     /\ UNCHANGED <<valPerBlock, view>>
     /\ Loads

GetNodeInfo(n) ==
  /\ n \in load.left
  /\ view' = [view EXCEPT ![n] = chain.status[n]]
  /\ load' = IF load.left = {n} THEN NextType ELSE [load EXCEPT !.left = @ \ {n}]
  /\ UNCHANGED valPerBlock
  /\ Loads

TakeEvent(kind) ==
  /\ events[kind] # <<>>
  /\ events' = [events EXCEPT ![kind] = Tail(@)]
  /\ UNCHANGED <<chainVars, load, shardVars, overlapped>>

OnBlockParamsUpdated ==
  /\ TakeEvent("BlockParamsUpdated")
  /\ valPerBlock' = Head(events["BlockParamsUpdated"])
  /\ UNCHANGED <<view, lost>>

OnNodeAdded ==
  /\ TakeEvent("NodeAdded")
  /\ view' = [view EXCEPT ![Head(events["NodeAdded"])] = "OK"]
  /\ UNCHANGED <<valPerBlock, lost>>

\* Mutant: the archival nodes are not looked up.
MutOnNodeStatusChanged ==
  LET event == Head(events["NodeStatusChanged"])
  IN /\ TakeEvent("NodeStatusChanged")
     /\ view' = IF event[1] \in ANodes THEN view ELSE [view EXCEPT ![event[1]] = event[2]]
     /\ UNCHANGED <<valPerBlock, lost>>

\* A status that comes before the node itself is of an unknown node.
OnNodeStatusChanged ==
  LET n == Head(events["NodeStatusChanged"])[1]
      status == Head(events["NodeStatusChanged"])[2]
  IN /\ TakeEvent("NodeStatusChanged")
     /\ \/ view[n] # Absent /\ view' = [view EXCEPT ![n] = status] /\ UNCHANGED lost
        \/ view[n] = Absent /\ Misses({n}) /\ UNCHANGED view
     /\ UNCHANGED valPerBlock

Load == LoadConstants \/ GetNodes \/ \E n \in Nodes : GetNodeInfo(n)
Reload == \E r \in Reloads : GetNodeShards(r) \/ SetNodeShards(r)
Handle ==
  OnSNodeMappingChanged \/ OnBlockParamsUpdated \/ OnNodeAdded \/ OnNodeStatusChanged

ViewStep == Load \/ Reload \/ Handle

\* A node serves calls once both contracts are loaded.
Serving == NodesSubscribed

-----------------------------------------------------------------------------
(* Properties. *)

Quiet ==
  /\ NodesSubscribed
  /\ \A k \in Kinds : events[k] = <<>>
  /\ \A r \in Reloads : ~Running(r)

\* Once the node is connected and has handled all events, it knows the
\* parameters, every node and every shard as the contracts have them, except
\* what was changed between being read and being subscribed to, a status that
\* overtook its node, and shards that two reloads have read at a time
\* (loadVSDNodesAndSubscribeToUpdates, reloadEveryAddressAndNotifyListeners).
ViewFollowsContract ==
  Quiet =>
    /\ "params" \notin lost => valPerBlock = chain.params
    /\ \A n \in Nodes \ lost : (n \in ANodes => ArchivalNodesOn) => view[n] = chain.status[n]
    /\ ~overlapped => \A s \in SNodes \ lost :
         \A shard \in AllShards : <<shard, s>> \in shardToNodes <=> shard \in chain.shards[s]
=============================================================================
