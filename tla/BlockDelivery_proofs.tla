------------------------- MODULE BlockDelivery_proofs ------------------------
(***************************************************************************)
(* Proofs about ContractView and BlockDelivery, for any nodes, shards,     *)
(* numbers of changes and numbers of retries.                              *)
(***************************************************************************)
EXTENDS BlockDelivery, SequenceTheorems, TLAPS

\* Parameters: unless a change was missed, the last event on its way, or the
\* view if there is none, has what the contract has.
ParamsFollow ==
  LET q == events["BlockParamsUpdated"]
  IN /\ chain.params <= changes
     /\ load.params < 2 => q = <<>>
     /\ load.params > 0 /\ "params" \notin lost =>
          IF q = <<>> THEN valPerBlock = chain.params ELSE q[Len(q)] = chain.params

\* The loading goes type by type, and events come after it.
LoadInOrder ==
  /\ load.params < 2 => load.type = 1 /\ ~load.listed
  /\ load.listed => ~NodesSubscribed /\ load.left \subseteq Types[load.type]
  /\ ~load.listed => load.left = {}
  /\ ~NodesSubscribed => events["NodeAdded"] = <<>> /\ events["NodeStatusChanged"] = <<>>

\* A node is added once, and known only afterwards.
NodesAreAddedOnce ==
  LET added == events["NodeAdded"]
  IN /\ \A n \in Nodes : view[n] # Absent => chain.status[n] # Absent
     /\ \A n \in Nodes : ~NodesSubscribed /\ ~AlreadyRead(n) => view[n] = Absent
     /\ \A i \in 1..Len(added) :
          /\ view[added[i]] = Absent /\ chain.status[added[i]] # Absent
          /\ \A j \in 1..Len(added) : added[i] = added[j] => i = j

\* Nodes: unless a change was missed, the last status on its way, or else the
\* status it is added with, or else the view, is the one of the contract.
NodesFollow ==
  LET added == events["NodeAdded"]
      changed == events["NodeStatusChanged"]
  IN \A n \in Nodes \ lost : AlreadyRead(n) =>
       /\ \A i \in 1..Len(changed) :
            changed[i][1] = n /\ (\A j \in i + 1..Len(changed) : changed[j][1] # n) =>
              changed[i][2] = chain.status[n]
       /\ (\A i \in 1..Len(changed) : changed[i][1] # n) =>
            IF \E i \in 1..Len(added) : added[i] = n
              THEN chain.status[n] = "OK"
              ELSE view[n] = chain.status[n]

\* Reload 0 is over before events arrive, and answers are taken one by one.
ReloadsInOrder ==
  /\ load.params > 0 => ~Running(0)
  /\ Running(0) =>
       /\ events["SNodeMappingChanged"] = <<>>
       /\ \A r \in Reloads \ {0} : ~Running(r)
  /\ \A r \in Reloads : \A answer, other \in reloads[r].read : answer = other

Derived == UNION {{<<shard, s>> : shard \in nodeShardMap[s]} : s \in SNodes}

\* Shards, as long as reloads do not overlap: what will not be read again was
\* read as the contract has it.
ShardsFollow ==
  LET q == events["SNodeMappingChanged"]
  IN ~overlapped =>
       /\ \A r, p \in Reloads : Running(r) /\ Running(p) => r = p
       /\ (\A r \in Reloads : ~Running(r)) => shardToNodes = Derived
       /\ \A s \in SNodes \ lost :
            /\ \A i \in 1..Len(q) : s \notin q[i]
            /\ \A r \in Reloads : s \notin reloads[r].left
            => /\ \A r \in Reloads : \A answer \in reloads[r].read :
                    answer[1] = s => answer[2] = chain.shards[s]
               /\ (\A r \in Reloads : \A answer \in reloads[r].read : answer[1] # s) =>
                    nodeShardMap[s] = chain.shards[s]

\* What the contracts never changed is right from when it is read.
UndisturbedNodes ==
  /\ lost \subseteq disturbed \cup {"params"}
  /\ \A n \in Nodes \ disturbed :
       /\ \A i \in 1..Len(events["NodeAdded"]) : events["NodeAdded"][i] # n
       /\ \A i \in 1..Len(events["NodeStatusChanged"]) : events["NodeStatusChanged"][i][1] # n

UndisturbedShards ==
  \A s \in SNodes \ disturbed :
    /\ \A i \in 1..Len(events["SNodeMappingChanged"]) : s \notin events["SNodeMappingChanged"][i]
    /\ \A r \in Reloads \ {0} :
         s \notin reloads[r].left /\ \A answer \in reloads[r].read : answer[1] # s
    /\ \A answer \in reloads[0].read : answer[1] = s => answer[2] = chain.shards[s]
    /\ s \notin reloads[0].left /\ (\A answer \in reloads[0].read : answer[1] # s) =>
         nodeShardMap[s] = chain.shards[s]
    /\ ~Running(0) =>
         \A shard \in AllShards : <<shard, s>> \in shardToNodes <=> shard \in chain.shards[s]

ViewInv ==
  /\ ViewTypeOK
  /\ ParamsFollow
  /\ LoadInOrder /\ NodesAreAddedOnce /\ NodesFollow
  /\ ReloadsInOrder /\ ShardsFollow
  /\ UndisturbedNodes /\ UndisturbedShards

-----------------------------------------------------------------------------

\* Each failed call takes a retry.
RetriesAreCounted ==
  \A n \in Nodes :
    LET send == sends[n]
        failed == IF send.state \in {"timer", "ERROR_CAN_RETRY"} THEN 1 ELSE 0
    IN /\ failures[n] + send.retriesLeft <= RetryCount + failed
       /\ send.state = "none" => failures[n] = 0
       /\ send.state = "timer" => send.retriesLeft > 0
       /\ send.state = "ERROR_CAN_RETRY" => send.retriesLeft = 0
       /\ n \in SNodes /\ send.state # "none" =>
            failures[n] + send.retriesLeft = RetryCount + failed

\* Where the sending to the nodes that have to get the block may stand.
SendsReach ==
  /\ publication \in {"idle", "failed"} => \A n \in Nodes : sends[n].state = "none"
  /\ publication # "idle" => Serving
  /\ publication \in {"sending", "queued"} => \A s \in SNodes : Serves(s) =>
       /\ sends[s].state \notin {"none", "thrown"}
       /\ sends[s].state \in {"SENT", "DO_NOT_RETRY"} => s \in stored \cup rejected

-----------------------------------------------------------------------------
(* Sequences, and the types of nodes. *)

LEMMA Appending ==
  ASSUME NEW S, NEW q \in Seq(S), NEW e \in S
  PROVE  /\ Append(q, e) \in Seq(S) /\ Append(q, e) # <<>>
         /\ Len(q) \in Nat /\ Len(Append(q, e)) = Len(q) + 1
         /\ Append(q, e)[Len(q) + 1] = e
         /\ \A i \in 1..Len(q) : Append(q, e)[i] = q[i]
         /\ \A i \in 1..Len(q) + 1 : i \in 1..Len(q) \/ i = Len(q) + 1
<1>1. /\ Append(q, e) \in Seq(S) /\ Append(q, e) # <<>>
      /\ Len(Append(q, e)) = Len(q) + 1
      /\ \A i \in 1..Len(q) : Append(q, e)[i] = q[i]
      /\ Append(q, e)[Len(q) + 1] = e
  BY AppendProperties
<1>2. Len(q) \in Nat
  BY LenProperties
<1> QED
  BY <1>1, <1>2

LEMMA Taking ==
  ASSUME NEW S, NEW q \in Seq(S), q # <<>>
  PROVE  /\ Len(q) \in Nat \ {0}
         /\ Head(q) = q[1] /\ Head(q) \in S
         /\ Tail(q) \in Seq(S)
         /\ Len(Tail(q)) = Len(q) - 1
         /\ \A i \in 1..Len(q) - 1 : Tail(q)[i] = q[i + 1]
<1>1. Len(q) \in Nat \ {0}
  BY EmptySeq
<1> QED
  BY <1>1, HeadTailProperties

LEMMA NoEvents == Len(<<>>) = 0 /\ \A S : <<>> \in Seq(S)
BY EmptySeq

LEMMA KindsOfEvents ==
  /\ Kinds = {"BlockParamsUpdated", "NodeAdded", "NodeStatusChanged", "SNodeMappingChanged"}
  /\ EventsOf["BlockParamsUpdated"] = 0..MaxChanges
  /\ EventsOf["NodeAdded"] = Nodes
  /\ EventsOf["NodeStatusChanged"] = Nodes \X Statuses
  /\ EventsOf["SNodeMappingChanged"] = SUBSET SNodes
BY DEF Kinds, EventsOf

LEMMA TypesOfNodes ==
  /\ Len(Types) \in {2, 3} /\ 2 \in 1..Len(Types)
  /\ \A t \in 1..Len(Types) : Types[t] \subseteq Nodes
  /\ \A t, u \in 1..Len(Types) : t # u => Types[t] \cap Types[u] = {}
  /\ Types[2] = SNodes
  /\ \A n \in Nodes : (n \in ANodes => ArchivalNodesOn) => \E t \in 1..Len(Types) : n \in Types[t]
<1>1. CASE ArchivalNodesOn
  <2>1. Types = <<VNodes, SNodes, ANodes>> /\ Len(Types) = 3
    BY <1>1 DEF Types
  <2>2. Types[1] = VNodes /\ Types[2] = SNodes /\ Types[3] = ANodes
    BY <2>1
  <2>3. \A t \in 1..3 : t = 1 \/ t = 2 \/ t = 3
    OBVIOUS
  <2> QED
    BY <2>1, <2>2, <2>3, ViewAssumption DEF Nodes
<1>2. CASE ~ArchivalNodesOn
  <2>1. Types = <<VNodes, SNodes>> /\ Len(Types) = 2
    BY <1>2 DEF Types
  <2>2. Types[1] = VNodes /\ Types[2] = SNodes
    BY <2>1
  <2>3. \A t \in 1..2 : t = 1 \/ t = 2
    OBVIOUS
  <2> QED
    BY <1>2, <2>1, <2>2, <2>3, ViewAssumption DEF Nodes
<1> QED
  BY <1>1, <1>2

LEMMA EventTypes ==
  ASSUME ViewTypeOK
  PROVE  /\ events = [k \in Kinds |-> events[k]]
         /\ events["BlockParamsUpdated"] \in Seq(0..MaxChanges)
         /\ events["NodeAdded"] \in Seq(Nodes)
         /\ events["NodeStatusChanged"] \in Seq(Nodes \X Statuses)
         /\ events["SNodeMappingChanged"] \in Seq(SUBSET SNodes)
BY KindsOfEvents DEF ViewTypeOK

-----------------------------------------------------------------------------
(* What a step leaves alone. *)

LEMMA ParamsFrame ==
  ASSUME ViewInv,
         chain'.params = chain.params, changes' \in Nat, changes <= changes',
         load'.params = load.params, valPerBlock' = valPerBlock,
         events'["BlockParamsUpdated"] = events["BlockParamsUpdated"],
         lost \subseteq lost'
  PROVE  ParamsFollow'
BY EventTypes DEF ViewInv, ViewTypeOK, ParamsFollow

LEMMA NodesFrame ==
  ASSUME ViewInv,
         chain'.status = chain.status, view' = view,
         load'.type = load.type, load'.listed = load.listed, load'.left = load.left,
         events'["NodeAdded"] = events["NodeAdded"],
         events'["NodeStatusChanged"] = events["NodeStatusChanged"],
         lost \subseteq lost'
  PROVE  /\ NodesAreAddedOnce' /\ NodesFollow'
         /\ (load'.params = load.params => LoadInOrder')
<1>1. (NodesSubscribed' <=> NodesSubscribed) /\ \A n : AlreadyRead(n)' <=> AlreadyRead(n)
  BY DEF NodesSubscribed, AlreadyRead
<1>2. NodesAreAddedOnce'
  BY <1>1 DEF ViewInv, NodesAreAddedOnce
<1>3. NodesFollow'
  BY <1>1 DEF ViewInv, NodesFollow
<1>4. load'.params = load.params => LoadInOrder'
  BY <1>1 DEF ViewInv, LoadInOrder
<1> QED
  BY <1>2, <1>3, <1>4

LEMMA ShardsFrame ==
  ASSUME ViewInv,
         chain'.shards = chain.shards, reloads' = reloads,
         nodeShardMap' = nodeShardMap, shardToNodes' = shardToNodes,
         events'["SNodeMappingChanged"] = events["SNodeMappingChanged"],
         lost \subseteq lost', overlapped' = overlapped
  PROVE  /\ ShardsFollow'
         /\ (load'.params = load.params => ReloadsInOrder')
<1>1. (\A r : Running(r)' <=> Running(r)) /\ Derived' = Derived
  BY DEF Running, Derived
<1>2. ShardsFollow'
  BY <1>1 DEF ViewInv, ShardsFollow
<1>3. load'.params = load.params => ReloadsInOrder'
  BY <1>1 DEF ViewInv, ReloadsInOrder
<1> QED
  BY <1>2, <1>3

LEMMA UndisturbedFrame ==
  ASSUME ViewInv, disturbed \subseteq disturbed'
  PROVE  /\ /\ lost' \subseteq disturbed' \cup {"params"}
            /\ events'["NodeAdded"] = events["NodeAdded"]
            /\ events'["NodeStatusChanged"] = events["NodeStatusChanged"]
            => UndisturbedNodes'
         /\ /\ chain'.shards = chain.shards /\ reloads' = reloads
            /\ nodeShardMap' = nodeShardMap /\ shardToNodes' = shardToNodes
            /\ events'["SNodeMappingChanged"] = events["SNodeMappingChanged"]
            => UndisturbedShards'
BY DEF ViewInv, UndisturbedNodes, UndisturbedShards, Running

-----------------------------------------------------------------------------
(* The contracts change. *)

\* An event is at the end of its queue, if it is subscribed to.
LEMMA EmitFacts ==
  ASSUME ViewInv, NEW kind \in Kinds, NEW event \in EventsOf[kind], NEW about \in SUBSET Nodes,
         Emit(kind, event, about)
  PROVE  /\ changes \in Nat /\ changes' = changes + 1 /\ changes' \in 0..MaxChanges
         /\ disturbed' = disturbed \cup about /\ disturbed' \subseteq Nodes
         /\ UNCHANGED <<load, valPerBlock, view, nodeShardMap, shardToNodes, reloads, overlapped>>
         /\ events' = [k \in Kinds |-> events'[k]]
         /\ \A k \in Kinds : events'[k] \in Seq(EventsOf[k])
         /\ \A k \in Kinds \ {kind} : events'[k] = events[k]
         /\ ~Subscribed[kind] => events'[kind] = events[kind]
         /\ Subscribed[kind] => events'[kind] = Append(events[kind], event)
<1>1. /\ changes < MaxChanges /\ changes' = changes + 1
      /\ disturbed' = disturbed \cup about
      /\ events' = IF Subscribed[kind] THEN [events EXCEPT ![kind] = Append(@, event)] ELSE events
      /\ UNCHANGED <<load, valPerBlock, view, nodeShardMap, shardToNodes, reloads, overlapped>>
  BY DEF Emit, nodeVars, shardVars
<1>2. /\ changes \in 0..MaxChanges /\ disturbed \subseteq Nodes
      /\ events = [k \in Kinds |-> events[k]] /\ \A k \in Kinds : events[k] \in Seq(EventsOf[k])
  BY DEF ViewInv, ViewTypeOK
<1>3. changes \in Nat /\ changes' \in 0..MaxChanges /\ disturbed' \subseteq Nodes
  BY <1>1, <1>2, ViewAssumption
<1>4. Append(events[kind], event) \in Seq(EventsOf[kind])
  BY <1>2, Appending
<1>5. CASE Subscribed[kind]
  <2>1. events' = [events EXCEPT ![kind] = Append(events[kind], event)]
    BY <1>1, <1>5
  <2>2. events' = [k \in Kinds |-> IF k = kind THEN Append(events[kind], event) ELSE events[k]]
    BY <1>2, <2>1
  <2>3. /\ events' = [k \in Kinds |-> events'[k]]
        /\ \A k \in Kinds \ {kind} : events'[k] = events[k]
        /\ events'[kind] = Append(events[kind], event)
    BY <2>2
  <2> QED
    BY <1>1, <1>2, <1>3, <1>4, <1>5, <2>3
<1>6. CASE ~Subscribed[kind]
  <2>1. events' = events
    BY <1>1, <1>6
  <2> QED
    BY <1>1, <1>2, <1>3, <1>6, <2>1
<1> QED
  BY <1>5, <1>6

LEMMA UpdateBlockParamsKeeps ==
  ASSUME ViewInv, UpdateBlockParams
  PROVE  ViewInv'
<1> DEFINE kind == "BlockParamsUpdated"
<1>1. /\ chain' = [chain EXCEPT !.params = @ + 1]
      /\ Emit(kind, chain'.params, {})
      /\ lost' = lost \cup (IF load.params = 1 THEN {"params"} ELSE {})
  BY DEF UpdateBlockParams, Misses
<1>2. /\ chain \in [params : 0..MaxChanges, status : [Nodes -> Statuses \cup {Absent}], shards : ShardMaps]
      /\ chain.params <= changes /\ load.params \in 0..2
  BY DEF ViewInv, ViewTypeOK, ParamsFollow
<1>3. /\ changes' = changes + 1 /\ changes < MaxChanges /\ changes \in Nat
  BY <1>1 DEF Emit, ViewInv, ViewTypeOK
<1>4. chain'.params = chain.params + 1 /\ chain'.params \in 0..MaxChanges
  BY <1>1, <1>2, <1>3, ViewAssumption
<1>5. /\ chain' \in [params : 0..MaxChanges, status : [Nodes -> Statuses \cup {Absent}], shards : ShardMaps]
      /\ chain'.status = chain.status /\ chain'.shards = chain.shards
  BY <1>1, <1>2, <1>4
<1>6. kind \in Kinds /\ chain'.params \in EventsOf[kind]
  BY <1>4, KindsOfEvents
<1>7. /\ changes' \in 0..MaxChanges /\ disturbed' = disturbed
      /\ UNCHANGED <<load, valPerBlock, view, nodeShardMap, shardToNodes, reloads, overlapped>>
      /\ events' = [k \in Kinds |-> events'[k]]
      /\ \A k \in Kinds : events'[k] \in Seq(EventsOf[k])
      /\ events'["NodeAdded"] = events["NodeAdded"]
      /\ events'["NodeStatusChanged"] = events["NodeStatusChanged"]
      /\ events'["SNodeMappingChanged"] = events["SNodeMappingChanged"]
      /\ ~ParamsSubscribed => events'[kind] = events[kind]
      /\ ParamsSubscribed => events'[kind] = Append(events[kind], chain'.params)
  <2>1. {} \in SUBSET Nodes
    OBVIOUS
  <2>2. Subscribed[kind] <=> ParamsSubscribed
    BY DEF Subscribed
  <2> HIDE DEF kind
  <2>3. /\ changes' \in 0..MaxChanges /\ disturbed' = disturbed \cup {}
        /\ UNCHANGED <<load, valPerBlock, view, nodeShardMap, shardToNodes, reloads, overlapped>>
        /\ events' = [k \in Kinds |-> events'[k]]
        /\ \A k \in Kinds : events'[k] \in Seq(EventsOf[k])
        /\ \A k \in Kinds \ {kind} : events'[k] = events[k]
        /\ ~Subscribed[kind] => events'[kind] = events[kind]
        /\ Subscribed[kind] => events'[kind] = Append(events[kind], chain'.params)
    BY <1>1, <1>6, <2>1, EmitFacts
  <2> QED
    BY <2>2, <2>3, KindsOfEvents DEF kind
<1>8. ViewTypeOK'
  BY <1>1, <1>5, <1>7 DEF ViewInv, ViewTypeOK
<1>9. ParamsFollow'
  <2>1. chain'.params <= changes'
    BY <1>2, <1>3, <1>4
  <2>2. CASE load.params = 2
    <3>1. events'[kind] = Append(events[kind], chain'.params)
      BY <1>7, <2>2 DEF ParamsSubscribed
    <3>2. events'[kind] # <<>> /\ events'[kind][Len(events'[kind])] = chain'.params
      <4>1. events[kind] \in Seq(0..MaxChanges)
        BY EventTypes DEF ViewInv
      <4>2. LET q == Append(events[kind], chain'.params) IN q # <<>> /\ q[Len(q)] = chain'.params
        BY <1>4, <4>1, Appending
      <4> QED
        BY <3>1, <4>2
    <3> QED
      BY <1>7, <2>1, <2>2, <3>2 DEF ParamsFollow
  <2>3. CASE load.params # 2
    BY <1>1, <1>2, <1>7, <2>1, <2>3 DEF ViewInv, ParamsFollow, ParamsSubscribed
  <2> QED
    BY <2>2, <2>3
<1>10. LoadInOrder' /\ NodesAreAddedOnce' /\ NodesFollow'
  BY <1>1, <1>5, <1>7, NodesFrame
<1>11. ReloadsInOrder' /\ ShardsFollow'
  BY <1>1, <1>5, <1>7, ShardsFrame
<1>12. UndisturbedNodes' /\ UndisturbedShards'
  BY <1>1, <1>5, <1>7, UndisturbedFrame DEF ViewInv, UndisturbedNodes
<1> QED
  BY <1>8, <1>9, <1>10, <1>11, <1>12 DEF ViewInv

LEMMA ReadIfSubscribed ==
  ASSUME ViewTypeOK, NodesSubscribed, NEW n \in Nodes
  PROVE  AlreadyRead(n) <=> (n \in ANodes => ArchivalNodesOn)
<1>1. load.type \in 1..Len(Types) + 1 /\ load.type > Len(Types)
  BY DEF ViewTypeOK, NodesSubscribed
<1>2. AlreadyRead(n) <=> \E t \in 1..Len(Types) : n \in Types[t]
  BY <1>1, TypesOfNodes DEF AlreadyRead, NodesSubscribed
<1>3. n \in ANodes /\ ~ArchivalNodesOn => ~\E t \in 1..Len(Types) : n \in Types[t]
  <2> SUFFICES ASSUME n \in ANodes, ~ArchivalNodesOn, NEW t \in 1..Len(Types), n \in Types[t]
               PROVE  FALSE
    OBVIOUS
  <2>1. Types = <<VNodes, SNodes>>
    BY DEF Types
  <2>2. n \in VNodes \/ n \in SNodes
    BY <2>1
  <2> QED
    BY <2>2, ViewAssumption
<1> QED
  BY <1>2, <1>3, TypesOfNodes

\* A change of a node, whose event is of one of two kinds.
LEMMA NodeEventFacts ==
  ASSUME ViewInv, NEW kind \in {"NodeAdded", "NodeStatusChanged"}, NEW event \in EventsOf[kind],
         NEW n \in Nodes, NEW status \in Statuses,
         chain' = [chain EXCEPT !.status[n] = status],
         Emit(kind, event, {n}),
         lost' = lost \cup (IF AlreadyRead(n) /\ ~NodesSubscribed THEN {n} ELSE {})
  PROVE  /\ ViewTypeOK' /\ ParamsFollow'
         /\ ReloadsInOrder' /\ ShardsFollow' /\ UndisturbedShards'
         /\ UNCHANGED <<load, view>>
         /\ chain'.status \in [Nodes -> Statuses \cup {Absent}]
         /\ chain'.status = [chain.status EXCEPT ![n] = status]
         /\ disturbed' = disturbed \cup {n} /\ lost' \subseteq disturbed' \cup {"params"}
         /\ \A k \in Kinds \ {kind} : events'[k] = events[k]
         /\ ~NodesSubscribed => events'[kind] = events[kind]
         /\ NodesSubscribed => events'[kind] = Append(events[kind], event)
<1>1. /\ kind \in Kinds /\ (Subscribed[kind] <=> NodesSubscribed)
      /\ "BlockParamsUpdated" \in Kinds \ {kind} /\ "SNodeMappingChanged" \in Kinds \ {kind}
  BY KindsOfEvents DEF Subscribed
<1>2. {n} \in SUBSET Nodes
  OBVIOUS
<1>3. /\ changes \in Nat /\ changes' = changes + 1 /\ changes' \in 0..MaxChanges
      /\ disturbed' = disturbed \cup {n} /\ disturbed' \subseteq Nodes
      /\ UNCHANGED <<load, valPerBlock, view, nodeShardMap, shardToNodes, reloads, overlapped>>
      /\ events' = [k \in Kinds |-> events'[k]]
      /\ \A k \in Kinds : events'[k] \in Seq(EventsOf[k])
      /\ \A k \in Kinds \ {kind} : events'[k] = events[k]
      /\ ~Subscribed[kind] => events'[kind] = events[kind]
      /\ Subscribed[kind] => events'[kind] = Append(events[kind], event)
  BY <1>1, <1>2, EmitFacts
<1>4. /\ chain \in [params : 0..MaxChanges, status : [Nodes -> Statuses \cup {Absent}], shards : ShardMaps]
      /\ lost \subseteq Nodes \cup {"params"}
  BY DEF ViewInv, ViewTypeOK
<1>5. /\ chain' \in [params : 0..MaxChanges, status : [Nodes -> Statuses \cup {Absent}], shards : ShardMaps]
      /\ chain'.params = chain.params /\ chain'.shards = chain.shards
      /\ chain'.status = [chain.status EXCEPT ![n] = status]
  BY <1>4
<1>6. lost \subseteq lost' /\ lost' \subseteq lost \cup {n}
  OBVIOUS
<1>7. ViewTypeOK'
  BY <1>3, <1>4, <1>5, <1>6 DEF ViewInv, ViewTypeOK
<1>8. ParamsFollow'
  <2>1. changes <= changes' /\ changes' \in Nat
    BY <1>3
  <2> QED
    BY <1>1, <1>3, <1>5, <1>6, <2>1, ParamsFrame
<1>9. ReloadsInOrder' /\ ShardsFollow'
  BY <1>1, <1>3, <1>5, <1>6, ShardsFrame
<1>10. UndisturbedShards'
  BY <1>1, <1>3, <1>5, UndisturbedFrame
<1>11. lost' \subseteq disturbed' \cup {"params"}
  BY <1>3, <1>6 DEF ViewInv, UndisturbedNodes
<1> QED
  BY <1>1, <1>3, <1>5, <1>7, <1>8, <1>9, <1>10, <1>11

LEMMA AddNodeKeeps ==
  ASSUME ViewInv, NEW n \in Nodes, AddNode(n)
  PROVE  ViewInv'
<1> DEFINE added == events["NodeAdded"]
           changed == events["NodeStatusChanged"]
<1>1. /\ chain.status[n] = Absent
      /\ chain' = [chain EXCEPT !.status[n] = "OK"]
      /\ Emit("NodeAdded", n, {n})
      /\ lost' = lost \cup (IF AlreadyRead(n) /\ ~NodesSubscribed THEN {n} ELSE {})
  BY DEF AddNode, Misses
<1>2. n \in EventsOf["NodeAdded"] /\ "OK" \in Statuses /\ Absent \notin Statuses
  BY KindsOfEvents, ViewAssumption
<1>3. /\ ViewTypeOK' /\ ParamsFollow'
      /\ ReloadsInOrder' /\ ShardsFollow' /\ UndisturbedShards'
      /\ UNCHANGED <<load, view>>
      /\ chain'.status \in [Nodes -> Statuses \cup {Absent}]
      /\ chain'.status = [chain.status EXCEPT ![n] = "OK"]
      /\ disturbed' = disturbed \cup {n} /\ lost' \subseteq disturbed' \cup {"params"}
      /\ \A k \in Kinds \ {"NodeAdded"} : events'[k] = events[k]
      /\ ~NodesSubscribed => events'["NodeAdded"] = events["NodeAdded"]
      /\ NodesSubscribed => events'["NodeAdded"] = Append(events["NodeAdded"], n)
  BY <1>1, <1>2, NodeEventFacts
<1>4. /\ added \in Seq(Nodes) /\ changed \in Seq(Nodes \X Statuses)
      /\ Len(added) \in Nat
      /\ events'["NodeStatusChanged"] = changed
      /\ chain.status \in [Nodes -> Statuses \cup {Absent}]
  BY <1>3, EventTypes, KindsOfEvents, LenProperties DEF ViewInv, ViewTypeOK
<1>5. /\ events'["NodeAdded"] \in {added, Append(added, n)}
      /\ \A i \in 1..Len(added) : added[i] # n
      /\ view[n] = Absent
  BY <1>1, <1>3 DEF ViewInv, NodesAreAddedOnce
<1>6. \A m \in Nodes : (AlreadyRead(m)' <=> AlreadyRead(m)) /\ (NodesSubscribed' <=> NodesSubscribed)
  BY <1>3 DEF AlreadyRead, NodesSubscribed
<1>7. LET q == Append(added, n)
      IN /\ Len(q) = Len(added) + 1 /\ q[Len(added) + 1] = n
         /\ \A i \in 1..Len(added) : q[i] = added[i]
         /\ \A i \in 1..Len(added) + 1 : i \in 1..Len(added) \/ i = Len(added) + 1
  BY <1>4, Appending
<1> HIDE DEF added, changed
<1>8. LoadInOrder'
  BY <1>3, <1>4, <1>6 DEF ViewInv, LoadInOrder, NodesSubscribed, added, changed
<1>9. NodesAreAddedOnce'
  <2>1. \A m \in Nodes : chain.status[m] # Absent => chain'.status[m] # Absent
    BY <1>2, <1>3, <1>4
  <2>2. /\ \A i \in 1..Len(added) :
             /\ view[added[i]] = Absent /\ chain'.status[added[i]] # Absent
             /\ \A j \in 1..Len(added) : added[i] = added[j] => i = j
        /\ view[n] = Absent /\ chain'.status[n] # Absent
    <3>1. \A i \in 1..Len(added) : added[i] \in Nodes
      BY <1>4, ElementOfSeq
    <3> QED
      BY <1>2, <1>3, <1>4, <1>5, <2>1, <3>1 DEF ViewInv, NodesAreAddedOnce, added
  <2>3. LET q == events'["NodeAdded"]
        IN \A i \in 1..Len(q) :
             /\ view[q[i]] = Absent /\ chain'.status[q[i]] # Absent
             /\ \A j \in 1..Len(q) : q[i] = q[j] => i = j
    <3>1. CASE events'["NodeAdded"] = added
      BY <2>2, <3>1
    <3>2. CASE events'["NodeAdded"] = Append(added, n)
      BY <1>5, <1>7, <2>2, <3>2
    <3> QED
      BY <1>5, <3>1, <3>2
  <2> QED
    BY <1>3, <1>6, <2>1, <2>3 DEF ViewInv, NodesAreAddedOnce
<1>10. NodesFollow'
  <2> SUFFICES ASSUME NEW m \in Nodes \ lost', AlreadyRead(m)
               PROVE  /\ \A i \in 1..Len(changed) :
                           changed[i][1] = m /\ (\A j \in i + 1..Len(changed) : changed[j][1] # m) =>
                             changed[i][2] = chain'.status[m]
                      /\ (\A i \in 1..Len(changed) : changed[i][1] # m) =>
                           IF \E i \in 1..Len(events'["NodeAdded"]) : events'["NodeAdded"][i] = m
                             THEN chain'.status[m] = "OK"
                             ELSE view[m] = chain'.status[m]
    BY <1>3, <1>4, <1>6 DEF NodesFollow
  <2>1. /\ m \in Nodes \ lost
        /\ \A i \in 1..Len(changed) :
             changed[i][1] = m /\ (\A j \in i + 1..Len(changed) : changed[j][1] # m) =>
               changed[i][2] = chain.status[m]
        /\ (\A i \in 1..Len(changed) : changed[i][1] # m) =>
             IF \E i \in 1..Len(added) : added[i] = m
               THEN chain.status[m] = "OK" ELSE view[m] = chain.status[m]
    BY <1>1 DEF ViewInv, NodesFollow, added, changed
  <2>2. CASE m = n
    <3>1. \A i \in 1..Len(changed) : changed[i][2] # Absent
      <4>1. \A i \in 1..Len(changed) : changed[i] \in Nodes \X Statuses
        BY <1>4, ElementOfSeq
      <4> QED
        BY <1>2, <4>1
    <3>2. NodesSubscribed
      BY <1>1, <2>2
    <3>3. \E i \in 1..Len(events'["NodeAdded"]) : events'["NodeAdded"][i] = m
      BY <1>3, <1>4, <1>7, <2>2, <3>2 DEF added
    <3>4. chain'.status[m] = "OK"
      BY <1>3, <1>4, <2>2
    <3> QED
      BY <1>1, <2>1, <2>2, <3>1, <3>3, <3>4
  <2>3. CASE m # n
    <3>1. chain'.status[m] = chain.status[m]
      BY <1>3, <1>4, <2>3
    <3>2. (\E i \in 1..Len(events'["NodeAdded"]) : events'["NodeAdded"][i] = m)
            <=> (\E i \in 1..Len(added) : added[i] = m)
      <4>1. CASE events'["NodeAdded"] = added
        BY <4>1
      <4>2. CASE events'["NodeAdded"] = Append(added, n)
        BY <1>4, <1>7, <2>3, <4>2
      <4> QED
        BY <1>5, <4>1, <4>2
    <3> QED
      BY <2>1, <3>1, <3>2
  <2> QED
    BY <2>2, <2>3
<1>11. UndisturbedNodes'
  <2>1. \A m \in Nodes \ disturbed' : \A i \in 1..Len(events'["NodeAdded"]) : events'["NodeAdded"][i] # m
    <3>1. \A m \in Nodes \ disturbed' : m # n /\ \A i \in 1..Len(added) : added[i] # m
      BY <1>3 DEF ViewInv, UndisturbedNodes, added
    <3> QED
      BY <1>5, <1>7, <3>1
  <2> QED
    BY <1>3, <1>4, <2>1 DEF ViewInv, UndisturbedNodes, changed
<1> QED
  BY <1>3, <1>8, <1>9, <1>10, <1>11 DEF ViewInv

LEMMA ChangeNodeStatusKeeps ==
  ASSUME ViewInv, NEW n \in Nodes, NEW status \in Statuses, ChangeNodeStatus(n, status)
  PROVE  ViewInv'
<1> DEFINE added == events["NodeAdded"]
           changed == events["NodeStatusChanged"]
           new == events'["NodeStatusChanged"]
<1>1. /\ chain.status[n] # Absent
      /\ chain' = [chain EXCEPT !.status[n] = status]
      /\ Emit("NodeStatusChanged", <<n, status>>, {n})
      /\ lost' = lost \cup (IF AlreadyRead(n) /\ ~NodesSubscribed THEN {n} ELSE {})
  BY DEF ChangeNodeStatus, Misses
<1>2. <<n, status>> \in EventsOf["NodeStatusChanged"] /\ Absent \notin Statuses
  BY KindsOfEvents, ViewAssumption
<1>3. /\ ViewTypeOK' /\ ParamsFollow'
      /\ ReloadsInOrder' /\ ShardsFollow' /\ UndisturbedShards'
      /\ UNCHANGED <<load, view>>
      /\ chain'.status \in [Nodes -> Statuses \cup {Absent}]
      /\ chain'.status = [chain.status EXCEPT ![n] = status]
      /\ disturbed' = disturbed \cup {n} /\ lost' \subseteq disturbed' \cup {"params"}
      /\ \A k \in Kinds \ {"NodeStatusChanged"} : events'[k] = events[k]
      /\ ~NodesSubscribed => new = changed
      /\ NodesSubscribed => new = Append(changed, <<n, status>>)
  BY <1>1, <1>2, NodeEventFacts
<1>4. /\ changed \in Seq(Nodes \X Statuses)
      /\ Len(changed) \in Nat
      /\ events'["NodeAdded"] = added
      /\ chain.status \in [Nodes -> Statuses \cup {Absent}]
  BY <1>3, EventTypes, KindsOfEvents, LenProperties DEF ViewInv, ViewTypeOK
<1>5. new \in {changed, Append(changed, <<n, status>>)}
  BY <1>3
<1>6. \A m \in Nodes : (AlreadyRead(m)' <=> AlreadyRead(m)) /\ (NodesSubscribed' <=> NodesSubscribed)
  BY <1>3 DEF AlreadyRead, NodesSubscribed
<1>7. LET q == Append(changed, <<n, status>>)
      IN /\ Len(q) = Len(changed) + 1 /\ q[Len(changed) + 1] = <<n, status>>
         /\ \A i \in 1..Len(changed) : q[i] = changed[i]
         /\ \A i \in 1..Len(changed) + 1 : i \in 1..Len(changed) \/ i = Len(changed) + 1
  <2>1. <<n, status>> \in Nodes \X Statuses
    OBVIOUS
  <2> QED
    BY <1>4, <2>1, Appending
<1> HIDE DEF added, changed, new
<1>8. LoadInOrder'
  BY <1>3, <1>4, <1>6 DEF ViewInv, LoadInOrder, NodesSubscribed, added, changed, new
<1>9. NodesAreAddedOnce'
  <2>1. \A m \in Nodes : chain.status[m] # Absent => chain'.status[m] # Absent
    BY <1>2, <1>3, <1>4
  <2>2. \A i \in 1..Len(added) : added[i] \in Nodes
    BY EventTypes, ElementOfSeq DEF added, ViewInv
  <2> QED
    BY <1>3, <1>4, <1>6, <2>1, <2>2 DEF ViewInv, NodesAreAddedOnce, added
<1>10. NodesFollow'
  <2> SUFFICES ASSUME NEW m \in Nodes \ lost', AlreadyRead(m)
               PROVE  /\ \A i \in 1..Len(new) :
                           new[i][1] = m /\ (\A j \in i + 1..Len(new) : new[j][1] # m) =>
                             new[i][2] = chain'.status[m]
                      /\ (\A i \in 1..Len(new) : new[i][1] # m) =>
                           IF \E i \in 1..Len(added) : added[i] = m
                             THEN chain'.status[m] = "OK"
                             ELSE view[m] = chain'.status[m]
    BY <1>3, <1>4, <1>6 DEF NodesFollow, new
  <2>1. /\ m \in Nodes \ lost
        /\ \A i \in 1..Len(changed) :
             changed[i][1] = m /\ (\A j \in i + 1..Len(changed) : changed[j][1] # m) =>
               changed[i][2] = chain.status[m]
        /\ (\A i \in 1..Len(changed) : changed[i][1] # m) =>
             IF \E i \in 1..Len(added) : added[i] = m
               THEN chain.status[m] = "OK" ELSE view[m] = chain.status[m]
    BY <1>1 DEF ViewInv, NodesFollow, added, changed
  <2>2. CASE m = n
    <3>1. NodesSubscribed /\ new = Append(changed, <<n, status>>)
      BY <1>1, <1>3, <2>2
    <3>2. /\ Len(new) = Len(changed) + 1
          /\ new[Len(changed) + 1][1] = m /\ new[Len(changed) + 1][2] = chain'.status[m]
      BY <1>3, <1>4, <1>7, <2>2, <3>1
    <3>3. \A i \in 1..Len(new) : i # Len(changed) + 1 => Len(changed) + 1 \in i + 1..Len(new)
      BY <1>4, <3>2
    <3>4. Len(changed) + 1 \in 1..Len(new)
      BY <1>4, <3>2
    <3> QED
      BY <3>2, <3>3, <3>4
  <2>3. CASE m # n
    <3>1. chain'.status[m] = chain.status[m]
      BY <1>3, <1>4, <2>3
    <3>2. CASE new = changed
      BY <2>1, <3>1, <3>2
    <3>3. CASE new = Append(changed, <<n, status>>)
      <4>1. /\ Len(new) = Len(changed) + 1
            /\ \A i \in 1..Len(new) : new[i][1] = m => i \in 1..Len(changed)
            /\ \A i \in 1..Len(changed) : i \in 1..Len(new) /\ new[i] = changed[i]
        BY <1>4, <1>7, <2>3, <3>3
      <4>2. ASSUME NEW i \in 1..Len(changed), \A j \in i + 1..Len(new) : new[j][1] # m
            PROVE  \A j \in i + 1..Len(changed) : changed[j][1] # m
        BY <1>4, <4>1, <4>2
      <4>3. \A i \in 1..Len(new) :
              new[i][1] = m /\ (\A j \in i + 1..Len(new) : new[j][1] # m) =>
                new[i][2] = chain'.status[m]
        BY <2>1, <3>1, <4>1, <4>2
      <4>4. (\A i \in 1..Len(new) : new[i][1] # m) => \A i \in 1..Len(changed) : changed[i][1] # m
        BY <4>1
      <4> QED
        BY <2>1, <3>1, <4>3, <4>4
    <3> QED
      BY <1>5, <3>2, <3>3
  <2> QED
    BY <2>2, <2>3
<1>11. UndisturbedNodes'
  <2>1. \A m \in Nodes \ disturbed' : \A i \in 1..Len(new) : new[i][1] # m
    <3>1. \A m \in Nodes \ disturbed' : m # n /\ \A i \in 1..Len(changed) : changed[i][1] # m
      BY <1>3 DEF ViewInv, UndisturbedNodes, changed
    <3> QED
      BY <1>5, <1>7, <3>1
  <2> QED
    BY <1>3, <1>4, <2>1 DEF ViewInv, UndisturbedNodes, added, new
<1> QED
  BY <1>3, <1>8, <1>9, <1>10, <1>11 DEF ViewInv

LEMMA ReshardKeeps ==
  ASSUME ViewInv, NEW shards \in ShardMaps, Reshard(shards)
  PROVE  ViewInv'
<1> DEFINE kind == "SNodeMappingChanged"
           moved == {s \in SNodes : shards[s] # chain.shards[s]}
           q == events[kind]
           new == events'[kind]
<1>1. /\ chain' = [chain EXCEPT !.shards = shards]
      /\ Emit(kind, moved, moved)
      /\ lost' = lost \cup (IF ShardsSubscribed THEN {} ELSE moved \ reloads[0].left)
  BY DEF Reshard, Misses
<1>2. /\ kind \in Kinds /\ moved \in EventsOf[kind] /\ moved \in SUBSET Nodes
      /\ (Subscribed[kind] <=> ShardsSubscribed)
  BY KindsOfEvents DEF Nodes, Subscribed
<1>3. /\ changes \in Nat /\ changes' = changes + 1 /\ changes' \in 0..MaxChanges
      /\ disturbed' = disturbed \cup moved /\ disturbed' \subseteq Nodes
      /\ UNCHANGED <<load, valPerBlock, view, nodeShardMap, shardToNodes, reloads, overlapped>>
      /\ events' = [k \in Kinds |-> events'[k]]
      /\ \A k \in Kinds : events'[k] \in Seq(EventsOf[k])
      /\ \A k \in Kinds \ {kind} : events'[k] = events[k]
      /\ ~ShardsSubscribed => new = q
      /\ ShardsSubscribed => new = Append(q, moved)
  <2> HIDE DEF kind, moved
  <2> QED
    BY <1>1, <1>2, EmitFacts
<1>4. /\ chain \in [params : 0..MaxChanges, status : [Nodes -> Statuses \cup {Absent}], shards : ShardMaps]
      /\ lost \subseteq Nodes \cup {"params"}
  BY DEF ViewInv, ViewTypeOK
<1>5. /\ chain' \in [params : 0..MaxChanges, status : [Nodes -> Statuses \cup {Absent}], shards : ShardMaps]
      /\ chain'.params = chain.params /\ chain'.status = chain.status /\ chain'.shards = shards
      /\ \A s \in SNodes \ moved : chain'.shards[s] = chain.shards[s]
  BY <1>1, <1>4
<1>6. /\ "BlockParamsUpdated" \in Kinds \ {kind} /\ "NodeAdded" \in Kinds \ {kind}
      /\ "NodeStatusChanged" \in Kinds \ {kind}
  BY KindsOfEvents
<1>7. /\ q \in Seq(SUBSET SNodes) /\ Len(q) \in Nat
      /\ Len(Append(q, moved)) = Len(q) + 1 /\ Append(q, moved)[Len(q) + 1] = moved
      /\ \A i \in 1..Len(q) : Append(q, moved)[i] = q[i]
      /\ \A i \in 1..Len(q) + 1 : i \in 1..Len(q) \/ i = Len(q) + 1
  <2>1. q \in Seq(SUBSET SNodes) /\ moved \in SUBSET SNodes
    BY EventTypes DEF ViewInv
  <2> QED
    BY <2>1, Appending
<1> HIDE DEF kind, moved, q, new
<1>8. /\ lost \subseteq lost' /\ lost' \subseteq lost \cup moved
      /\ moved \subseteq SNodes /\ SNodes \subseteq Nodes
  BY <1>1 DEF moved, Nodes
<1>9. ViewTypeOK'
  BY <1>3, <1>4, <1>5, <1>8 DEF ViewInv, ViewTypeOK
<1>10. ParamsFollow'
  <2>1. changes <= changes' /\ changes' \in Nat
    BY <1>3
  <2> QED
    BY <1>3, <1>5, <1>6, <1>8, <2>1, ParamsFrame
<1>11. LoadInOrder' /\ NodesAreAddedOnce' /\ NodesFollow'
  BY <1>3, <1>5, <1>6, <1>8, NodesFrame
<1>12. ReloadsInOrder'
  BY <1>3 DEF ViewInv, ReloadsInOrder, Running, ShardsSubscribed, kind, q, new
<1>13. \A s \in SNodes : (\A i \in 1..Len(new) : s \notin new[i]) =>
         /\ \A i \in 1..Len(q) : s \notin q[i]
         /\ s \in moved => ~ShardsSubscribed
  <2>1. CASE ShardsSubscribed
    BY <1>3, <1>7, <2>1
  <2>2. CASE ~ShardsSubscribed
    BY <1>3, <2>2
  <2> QED
    BY <2>1, <2>2
<1>14. ShardsFollow'
  <2> SUFFICES ASSUME ~overlapped
               PROVE  /\ \A r, p \in Reloads : Running(r) /\ Running(p) => r = p
                      /\ (\A r \in Reloads : ~Running(r)) => shardToNodes = Derived
                      /\ \A s \in SNodes \ lost' :
                           /\ \A i \in 1..Len(new) : s \notin new[i]
                           /\ \A r \in Reloads : s \notin reloads[r].left
                           => /\ \A r \in Reloads : \A answer \in reloads[r].read :
                                   answer[1] = s => answer[2] = chain'.shards[s]
                              /\ (\A r \in Reloads : \A answer \in reloads[r].read : answer[1] # s) =>
                                   nodeShardMap[s] = chain'.shards[s]
    BY <1>3 DEF ShardsFollow, Running, Derived, kind, new
  <2>1. /\ \A r, p \in Reloads : Running(r) /\ Running(p) => r = p
        /\ (\A r \in Reloads : ~Running(r)) => shardToNodes = Derived
        /\ \A s \in SNodes \ lost :
             /\ \A i \in 1..Len(q) : s \notin q[i]
             /\ \A r \in Reloads : s \notin reloads[r].left
             => /\ \A r \in Reloads : \A answer \in reloads[r].read :
                     answer[1] = s => answer[2] = chain.shards[s]
                /\ (\A r \in Reloads : \A answer \in reloads[r].read : answer[1] # s) =>
                     nodeShardMap[s] = chain.shards[s]
    BY DEF ViewInv, ShardsFollow, kind, q
  <2>2. ASSUME NEW s \in SNodes \ lost', \A i \in 1..Len(new) : s \notin new[i],
               \A r \in Reloads : s \notin reloads[r].left
        PROVE  s \notin moved /\ s \in SNodes \ lost /\ \A i \in 1..Len(q) : s \notin q[i]
    <3>1. 0 \in Reloads
      BY ViewAssumption DEF Reloads
    <3> QED
      BY <1>1, <1>8, <1>13, <2>2, <3>1
  <2> QED
    BY <1>5, <2>1, <2>2
<1>15. UndisturbedNodes'
  BY <1>3, <1>6, <1>8, UndisturbedFrame DEF ViewInv, UndisturbedNodes
<1>16. UndisturbedShards'
  <2> SUFFICES ASSUME NEW s \in SNodes \ disturbed'
               PROVE  /\ \A i \in 1..Len(new) : s \notin new[i]
                      /\ \A r \in Reloads \ {0} :
                           s \notin reloads[r].left /\ \A answer \in reloads[r].read : answer[1] # s
                      /\ \A answer \in reloads[0].read : answer[1] = s => answer[2] = chain'.shards[s]
                      /\ s \notin reloads[0].left /\ (\A answer \in reloads[0].read : answer[1] # s) =>
                           nodeShardMap[s] = chain'.shards[s]
                      /\ ~Running(0) =>
                           \A shard \in AllShards :
                             <<shard, s>> \in shardToNodes <=> shard \in chain'.shards[s]
    BY <1>3 DEF UndisturbedShards, Running, kind, new
  <2>1. s \in SNodes \ disturbed /\ s \notin moved
    BY <1>3
  <2>2. \A i \in 1..Len(q) : s \notin q[i]
    BY <2>1 DEF ViewInv, UndisturbedShards, kind, q
  <2>3. \A i \in 1..Len(new) : s \notin new[i]
    BY <1>3, <1>7, <2>1, <2>2
  <2> QED
    BY <1>5, <2>1, <2>3 DEF ViewInv, UndisturbedShards
<1> QED
  BY <1>9, <1>10, <1>11, <1>12, <1>14, <1>15, <1>16 DEF ViewInv

-----------------------------------------------------------------------------
(* The reloads of the shards. *)

LEMMA ReloadTypes ==
  ASSUME ViewInv, NEW r \in Reloads
  PROVE  /\ reloads \in [Reloads -> [left : SUBSET SNodes, read : SUBSET (SNodes \X SUBSET AllShards)]]
         /\ reloads[r].left \subseteq SNodes
         /\ reloads[r].read \subseteq SNodes \X SUBSET AllShards
         /\ reloads[r] = [left |-> reloads[r].left, read |-> reloads[r].read]
         /\ (Running(r) <=> reloads[r].left # {} \/ reloads[r].read # {})
         /\ 0 \in Reloads
<1>1. reloads \in [Reloads -> [left : SUBSET SNodes, read : SUBSET (SNodes \X SUBSET AllShards)]]
  BY DEF ViewInv, ViewTypeOK
<1>2. reloads[r] \in [left : SUBSET SNodes, read : SUBSET (SNodes \X SUBSET AllShards)]
  BY <1>1
<1>3. Running(r) <=> reloads[r].left # {} \/ reloads[r].read # {}
  BY <1>2 DEF Running, NoReload
<1>4. 0 \in Reloads
  BY ViewAssumption DEF Reloads
<1> QED
  BY <1>1, <1>2, <1>3, <1>4

\* Reloading changes nothing of the parameters and of the nodes.
LEMMA ReloadFrame ==
  ASSUME ViewInv, UNCHANGED <<chainVars, nodeVars>>, lost' = lost,
         \A k \in Kinds \ {"SNodeMappingChanged"} : events'[k] = events[k]
  PROVE  /\ ParamsFollow' /\ LoadInOrder' /\ NodesAreAddedOnce' /\ NodesFollow'
         /\ UndisturbedNodes'
<1>1. UNCHANGED <<chain, changes, disturbed, load, valPerBlock, view>>
  BY DEF chainVars, nodeVars
<1>2. /\ events'["BlockParamsUpdated"] = events["BlockParamsUpdated"]
      /\ events'["NodeAdded"] = events["NodeAdded"]
      /\ events'["NodeStatusChanged"] = events["NodeStatusChanged"]
  BY KindsOfEvents
<1>3. changes \in Nat /\ changes <= changes
  BY DEF ViewInv, ViewTypeOK
<1>4. ParamsFollow'
  BY <1>1, <1>2, <1>3, ParamsFrame
<1>5. LoadInOrder' /\ NodesAreAddedOnce' /\ NodesFollow'
  BY <1>1, <1>2, NodesFrame
<1>6. UndisturbedNodes'
  BY <1>1, <1>2, UndisturbedFrame DEF ViewInv, UndisturbedNodes
<1> QED
  BY <1>4, <1>5, <1>6

LEMMA GetNodeShardsKeeps ==
  ASSUME ViewInv, NEW r \in Reloads, GetNodeShards(r)
  PROVE  ViewInv'
<1>1. /\ reloads[r].left # {} /\ reloads[r].read = {}
      /\ UNCHANGED <<chainVars, events, nodeVars, nodeShardMap, shardToNodes, history>>
  BY DEF GetNodeShards
<1>2. PICK s \in reloads[r].left :
        reloads' = [reloads EXCEPT ![r] =
          [left |-> reloads[r].left \ {s}, read |-> {<<s, chain.shards[s]>>}]]
  BY DEF GetNodeShards
<1>3. /\ UNCHANGED <<chain, changes, disturbed, load, valPerBlock, view, lost, overlapped>>
  BY <1>1 DEF chainVars, nodeVars, history
<1>4. s \in SNodes /\ chain.shards[s] \subseteq AllShards /\ <<s, chain.shards[s]>> \in SNodes \X SUBSET AllShards
  <2>1. s \in SNodes /\ chain.shards \in ShardMaps
    BY ReloadTypes DEF ViewInv, ViewTypeOK
  <2> QED
    BY <2>1 DEF AllShards
<1>5. /\ reloads' \in [Reloads -> [left : SUBSET SNodes, read : SUBSET (SNodes \X SUBSET AllShards)]]
      /\ reloads'[r].left = reloads[r].left \ {s}
      /\ reloads'[r].read = {<<s, chain.shards[s]>>}
      /\ \A p \in Reloads \ {r} : reloads'[p] = reloads[p]
  BY <1>2, <1>4, ReloadTypes
<1>6. \A p \in Reloads : Running(p)' <=> Running(p)
  <2>1. reloads'[r] # NoReload
    <3>1. reloads'[r].read # {} /\ NoReload.read = {}
      BY <1>5 DEF NoReload
    <3> QED
      BY <3>1
  <2>2. reloads[r] # NoReload
    BY <1>1 DEF NoReload
  <2> QED
    BY <1>5, <2>1, <2>2 DEF Running
<1>7. ViewTypeOK'
  BY <1>1, <1>3, <1>5 DEF ViewInv, ViewTypeOK
<1>8. ParamsFollow' /\ LoadInOrder' /\ NodesAreAddedOnce' /\ NodesFollow' /\ UndisturbedNodes'
  BY <1>1, <1>3, ReloadFrame
<1>9. ReloadsInOrder'
  <2>1. \A p \in Reloads : \A answer, other \in reloads'[p].read : answer = other
    BY <1>5 DEF ViewInv, ReloadsInOrder
  <2>2. 0 \in Reloads
    BY ReloadTypes
  <2> QED
    BY <1>1, <1>3, <1>6, <2>1, <2>2 DEF ViewInv, ReloadsInOrder
<1>10. ShardsFollow'
  <2> SUFFICES ASSUME ~overlapped
               PROVE  /\ \A p, o \in Reloads : Running(p) /\ Running(o) => p = o
                      /\ (\A p \in Reloads : ~Running(p)) => shardToNodes = Derived
                      /\ \A t \in SNodes \ lost :
                           /\ \A i \in 1..Len(events["SNodeMappingChanged"]) :
                                t \notin events["SNodeMappingChanged"][i]
                           /\ \A p \in Reloads : t \notin reloads'[p].left
                           => /\ \A p \in Reloads : \A answer \in reloads'[p].read :
                                   answer[1] = t => answer[2] = chain.shards[t]
                              /\ (\A p \in Reloads : \A answer \in reloads'[p].read : answer[1] # t) =>
                                   nodeShardMap[t] = chain.shards[t]
    <3>1. Derived' = Derived
      BY <1>1 DEF Derived
    <3> QED
      BY <1>1, <1>3, <1>6, <3>1 DEF ShardsFollow
  <2>1. ASSUME NEW t \in SNodes \ lost, t # s,
               \A p \in Reloads : t \notin reloads'[p].left
        PROVE  \A p \in Reloads : t \notin reloads[p].left
    BY <1>5, <2>1
  <2>2. \A answer \in reloads'[r].read : answer[1] = s /\ answer[2] = chain.shards[s]
    BY <1>5
  <2>3. \A answer \in reloads'[r].read : answer[1] = s
    BY <1>5
  <2>4. \E answer \in reloads'[r].read : answer[1] = s
    BY <1>5
  <2>5. ASSUME NEW t \in SNodes \ lost,
               \A i \in 1..Len(events["SNodeMappingChanged"]) : t \notin events["SNodeMappingChanged"][i],
               \A p \in Reloads : t \notin reloads'[p].left
        PROVE  /\ \A p \in Reloads : \A answer \in reloads'[p].read :
                    answer[1] = t => answer[2] = chain.shards[t]
               /\ (\A p \in Reloads : \A answer \in reloads'[p].read : answer[1] # t) =>
                    nodeShardMap[t] = chain.shards[t]
    <3>1. CASE t = s
      <4>1. \A p \in Reloads \ {r} : reloads'[p].read = {}
        BY <1>5, <1>1, ReloadTypes DEF ViewInv, ShardsFollow
      <4> QED
        BY <2>2, <2>4, <3>1, <4>1
    <3>2. CASE t # s
      <4>1. /\ \A p \in Reloads : \A answer \in reloads[p].read :
                 answer[1] = t => answer[2] = chain.shards[t]
            /\ (\A p \in Reloads : \A answer \in reloads[p].read : answer[1] # t) =>
                 nodeShardMap[t] = chain.shards[t]
        BY <2>1, <2>5, <3>2 DEF ViewInv, ShardsFollow
      <4> QED
        BY <1>1, <1>5, <2>3, <3>2, <4>1
    <3> QED
      BY <3>1, <3>2
  <2>6. /\ \A p, o \in Reloads : Running(p) /\ Running(o) => p = o
        /\ (\A p \in Reloads : ~Running(p)) => shardToNodes = Derived
    BY DEF ViewInv, ShardsFollow
  <2> QED
    BY <2>5, <2>6
<1>11. UndisturbedShards'
  <2> SUFFICES ASSUME NEW t \in SNodes \ disturbed
               PROVE  /\ \A p \in Reloads \ {0} :
                           t \notin reloads'[p].left /\ \A answer \in reloads'[p].read : answer[1] # t
                      /\ \A answer \in reloads'[0].read : answer[1] = t => answer[2] = chain.shards[t]
                      /\ t \notin reloads'[0].left /\ (\A answer \in reloads'[0].read : answer[1] # t) =>
                           nodeShardMap[t] = chain.shards[t]
    <3>1. \A t \in SNodes \ disturbed :
            /\ \A i \in 1..Len(events["SNodeMappingChanged"]) : t \notin events["SNodeMappingChanged"][i]
            /\ ~Running(0) =>
                 \A shard \in AllShards : <<shard, t>> \in shardToNodes <=> shard \in chain.shards[t]
      BY DEF ViewInv, UndisturbedShards
    <3>2. Running(0)' <=> Running(0)
      BY <1>6, ReloadTypes
    <3>3. UNCHANGED <<events, chain, disturbed, shardToNodes, nodeShardMap>>
      BY <1>1, <1>3
    <3> QED
      BY <3>1, <3>2, <3>3 DEF UndisturbedShards
  <2>1. /\ \A p \in Reloads \ {0} :
             t \notin reloads[p].left /\ \A answer \in reloads[p].read : answer[1] # t
        /\ \A answer \in reloads[0].read : answer[1] = t => answer[2] = chain.shards[t]
        /\ t \notin reloads[0].left /\ (\A answer \in reloads[0].read : answer[1] # t) =>
             nodeShardMap[t] = chain.shards[t]
    BY DEF ViewInv, UndisturbedShards
  <2>2. \A answer \in reloads'[r].read : answer[1] = s /\ answer[2] = chain.shards[s]
    BY <1>5
  <2>3. CASE r = 0
    <3>1. \A p \in Reloads \ {0} : reloads'[p] = reloads[p]
      BY <1>5, <2>3
    <3>2. t \notin reloads'[0].left => t \notin reloads[0].left \/ t = s
      BY <1>5, <2>3
    <3>3. \A answer \in reloads[0].read : FALSE
      BY <1>1, <2>3
    <3>4. (\A answer \in reloads'[0].read : answer[1] # t) => t # s
      <4>1. \E answer \in reloads'[r].read : TRUE
        BY <1>5
      <4> QED
        BY <2>2, <2>3, <4>1
    <3>5. \A p \in Reloads \ {0} :
            t \notin reloads'[p].left /\ \A answer \in reloads'[p].read : answer[1] # t
      BY <2>1, <3>1
    <3>6. \A answer \in reloads'[0].read : answer[1] = t => answer[2] = chain.shards[t]
      BY <2>2, <2>3
    <3>7. t \notin reloads'[0].left /\ (\A answer \in reloads'[0].read : answer[1] # t) =>
            nodeShardMap[t] = chain.shards[t]
      BY <2>1, <3>2, <3>3, <3>4
    <3> QED
      BY <3>5, <3>6, <3>7
  <2>4. CASE r # 0
    <3>1. t # s
      BY <2>1, <2>4
    <3>2. reloads'[0] = reloads[0]
      BY <1>5, <2>4, ReloadTypes
    <3>3. t \notin reloads'[r].left
      BY <1>5, <2>1, <2>4
    <3> QED
      BY <1>5, <2>1, <2>2, <2>4, <3>1, <3>2, <3>3
  <2> QED
    BY <2>3, <2>4
<1> QED
  BY <1>7, <1>8, <1>9, <1>10, <1>11 DEF ViewInv

LEMMA SetNodeShardsKeeps ==
  ASSUME ViewInv, NEW r \in Reloads, SetNodeShards(r)
  PROVE  ViewInv'
<1>1. PICK answer \in reloads[r].read :
        /\ nodeShardMap' = [nodeShardMap EXCEPT ![answer[1]] = answer[2]]
        /\ reloads' = [reloads EXCEPT ![r].read = {}]
        /\ shardToNodes' = IF reloads[r].left = {} THEN Derived' ELSE shardToNodes
        /\ UNCHANGED <<chainVars, events, nodeVars, history>>
  BY DEF SetNodeShards, Derived
<1> DEFINE s == answer[1]
<1>2. UNCHANGED <<chain, changes, disturbed, load, valPerBlock, view, lost, overlapped>>
  BY <1>1 DEF chainVars, nodeVars, history
<1>3. /\ s \in SNodes /\ answer[2] \in SUBSET AllShards
      /\ \A other \in reloads[r].read : other = answer
  <2>1. answer \in SNodes \X SUBSET AllShards
    <3>1. reloads[r].read \subseteq SNodes \X SUBSET AllShards
      BY ReloadTypes
    <3> QED
      BY <3>1
  <2>2. \A other \in reloads[r].read : other = answer
    BY DEF ViewInv, ReloadsInOrder
  <2> QED
    BY <2>1, <2>2
<1>4. /\ reloads' \in [Reloads -> [left : SUBSET SNodes, read : SUBSET (SNodes \X SUBSET AllShards)]]
      /\ reloads'[r].left = reloads[r].left
      /\ reloads'[r].read = {}
      /\ \A p \in Reloads \ {r} : reloads'[p] = reloads[p]
      /\ \A p \in Reloads : reloads'[p].left = reloads[p].left
  <2>1. reloads \in [Reloads -> [left : SUBSET SNodes, read : SUBSET (SNodes \X SUBSET AllShards)]]
    BY ReloadTypes
  <2>2. /\ reloads' = [reloads EXCEPT ![r] = [reloads[r] EXCEPT !.read = {}]]
        /\ [reloads[r] EXCEPT !.read = {}]
             \in [left : SUBSET SNodes, read : SUBSET (SNodes \X SUBSET AllShards)]
        /\ [reloads[r] EXCEPT !.read = {}].left = reloads[r].left
        /\ [reloads[r] EXCEPT !.read = {}].read = {}
    BY <1>1, <2>1
  <2>3. reloads' \in [Reloads -> [left : SUBSET SNodes, read : SUBSET (SNodes \X SUBSET AllShards)]]
    BY <2>1, <2>2
  <2>4. /\ reloads'[r].left = reloads[r].left /\ reloads'[r].read = {}
        /\ \A p \in Reloads \ {r} : reloads'[p] = reloads[p]
    BY <2>1, <2>2
  <2> QED
    BY <2>3, <2>4
<1>5. /\ nodeShardMap \in [SNodes -> SUBSET AllShards] /\ nodeShardMap' \in [SNodes -> SUBSET AllShards]
      /\ nodeShardMap'[s] = answer[2]
      /\ \A t \in SNodes \ {s} : nodeShardMap'[t] = nodeShardMap[t]
  BY <1>1, <1>3 DEF ViewInv, ViewTypeOK
<1>6. /\ Running(r) /\ (Running(r)' <=> reloads[r].left # {})
      /\ \A p \in Reloads \ {r} : Running(p)' <=> Running(p)
  <2>1. Running(r)
    BY <1>1, ReloadTypes
  <2>2. reloads'[r] \in [left : SUBSET SNodes, read : SUBSET (SNodes \X SUBSET AllShards)]
    BY <1>4
  <2>3. Running(r)' <=> reloads[r].left # {}
    BY <1>4, <2>2 DEF Running, NoReload
  <2> QED
    BY <1>4, <2>1, <2>3 DEF Running
<1>7. \A t \in SNodes : \A shard : <<shard, t>> \in Derived' <=> shard \in nodeShardMap'[t]
  BY DEF Derived
<1> HIDE DEF s
<1>8. ViewTypeOK'
  <2>1. shardToNodes' \in SUBSET (AllShards \X SNodes)
    <3>1. Derived' \subseteq AllShards \X SNodes
      BY <1>5 DEF Derived
    <3> QED
      BY <1>1, <3>1 DEF ViewInv, ViewTypeOK
  <2> QED
    BY <1>1, <1>2, <1>4, <1>5, <2>1 DEF ViewInv, ViewTypeOK
<1>9. ParamsFollow' /\ LoadInOrder' /\ NodesAreAddedOnce' /\ NodesFollow' /\ UndisturbedNodes'
  BY <1>1, <1>2, ReloadFrame
<1>10. ReloadsInOrder'
  <2>1. \A p \in Reloads : \A a, b \in reloads'[p].read : a = b
    BY <1>4 DEF ViewInv, ReloadsInOrder
  <2>2. 0 \in Reloads /\ \A p \in Reloads : Running(p)' => Running(p)
    BY <1>6, ReloadTypes
  <2> QED
    BY <1>1, <1>2, <2>1, <2>2 DEF ViewInv, ReloadsInOrder
<1>11. ShardsFollow'
  <2> SUFFICES ASSUME ~overlapped
               PROVE  /\ \A p, o \in Reloads : Running(p)' /\ Running(o)' => p = o
                      /\ (\A p \in Reloads : ~Running(p)') => shardToNodes' = Derived'
                      /\ \A t \in SNodes \ lost :
                           /\ \A i \in 1..Len(events["SNodeMappingChanged"]) :
                                t \notin events["SNodeMappingChanged"][i]
                           /\ \A p \in Reloads : t \notin reloads'[p].left
                           => /\ \A p \in Reloads : \A a \in reloads'[p].read :
                                   a[1] = t => a[2] = chain.shards[t]
                              /\ (\A p \in Reloads : \A a \in reloads'[p].read : a[1] # t) =>
                                   nodeShardMap'[t] = chain.shards[t]
    BY <1>1, <1>2 DEF ShardsFollow
  <2>1. \A p, o \in Reloads : Running(p)' /\ Running(o)' => p = o
    BY <1>6 DEF ViewInv, ShardsFollow
  <2>2. (\A p \in Reloads : ~Running(p)') => shardToNodes' = Derived'
    BY <1>1, <1>6
  <2>3. \A p \in Reloads : reloads'[p].read = {}
    BY <1>4, <1>6, ReloadTypes DEF ViewInv, ShardsFollow
  <2>4. ASSUME NEW t \in SNodes \ lost,
               \A i \in 1..Len(events["SNodeMappingChanged"]) : t \notin events["SNodeMappingChanged"][i],
               \A p \in Reloads : t \notin reloads'[p].left
        PROVE  nodeShardMap'[t] = chain.shards[t]
    <3>1. /\ \A p \in Reloads : \A a \in reloads[p].read : a[1] = t => a[2] = chain.shards[t]
          /\ (\A p \in Reloads : \A a \in reloads[p].read : a[1] # t) =>
               nodeShardMap[t] = chain.shards[t]
      BY <1>4, <2>4 DEF ViewInv, ShardsFollow
    <3>2. CASE t = s
      BY <1>1, <1>5, <3>1, <3>2 DEF s
    <3>3. CASE t # s
      <4>1. \A a \in reloads[r].read : a[1] # t
        BY <1>3, <3>3 DEF s
      <4>2. \A p \in Reloads \ {r} : \A a \in reloads[p].read : a[1] # t
        BY <1>4, <2>3
      <4> QED
        BY <1>5, <3>1, <3>3, <4>1, <4>2
    <3> QED
      BY <3>2, <3>3
  <2> QED
    BY <2>1, <2>2, <2>3, <2>4
<1>12. UndisturbedShards'
  <2> SUFFICES ASSUME NEW t \in SNodes \ disturbed
               PROVE  /\ \A p \in Reloads \ {0} :
                           t \notin reloads'[p].left /\ \A a \in reloads'[p].read : a[1] # t
                      /\ \A a \in reloads'[0].read : a[1] = t => a[2] = chain.shards[t]
                      /\ t \notin reloads'[0].left /\ (\A a \in reloads'[0].read : a[1] # t) =>
                           nodeShardMap'[t] = chain.shards[t]
                      /\ ~Running(0)' =>
                           \A shard \in AllShards : <<shard, t>> \in shardToNodes' <=> shard \in chain.shards[t]
    BY <1>1, <1>2 DEF ViewInv, UndisturbedShards
  <2>1. /\ \A p \in Reloads \ {0} :
             t \notin reloads[p].left /\ \A a \in reloads[p].read : a[1] # t
        /\ \A a \in reloads[0].read : a[1] = t => a[2] = chain.shards[t]
        /\ t \notin reloads[0].left /\ (\A a \in reloads[0].read : a[1] # t) =>
             nodeShardMap[t] = chain.shards[t]
        /\ ~Running(0) =>
             \A shard \in AllShards : <<shard, t>> \in shardToNodes <=> shard \in chain.shards[t]
    BY DEF ViewInv, UndisturbedShards
  <2>2. \A p \in Reloads \ {0} :
          t \notin reloads'[p].left /\ \A a \in reloads'[p].read : a[1] # t
    BY <1>4, <2>1
  <2>3. \A a \in reloads'[0].read : a[1] = t => a[2] = chain.shards[t]
    BY <1>4, <2>1, ReloadTypes
  <2>4. t \notin reloads'[0].left /\ (\A a \in reloads'[0].read : a[1] # t) =>
          nodeShardMap'[t] = chain.shards[t]
    <3>1. CASE t = s
      <4>1. r = 0
        BY <1>1, <2>1, <3>1 DEF s
      <4> QED
        BY <1>1, <1>5, <2>1, <3>1, <4>1 DEF s
    <3>2. CASE t # s
      <4>1. \A a \in reloads[r].read : a[1] # t
        BY <1>3, <3>2 DEF s
      <4>2. (\A a \in reloads'[0].read : a[1] # t) => \A a \in reloads[0].read : a[1] # t
        BY <1>4, <4>1, ReloadTypes
      <4> QED
        BY <1>4, <1>5, <2>1, <3>2, <4>2, ReloadTypes
    <3> QED
      BY <3>1, <3>2
  <2>5. ~Running(0)' =>
          \A shard \in AllShards : <<shard, t>> \in shardToNodes' <=> shard \in chain.shards[t]
    <3>1. SUFFICES ASSUME ~Running(0)'
                   PROVE  \A shard \in AllShards :
                            <<shard, t>> \in shardToNodes' <=> shard \in chain.shards[t]
      OBVIOUS
    <3>2. 0 \in Reloads /\ reloads'[0].left = {} /\ reloads'[0].read = {}
      <4>1. 0 \in Reloads
        BY ReloadTypes
      <4>2. reloads'[0] = NoReload
        BY <3>1 DEF Running
      <4> QED
        BY <4>1, <4>2 DEF NoReload
    <3>3. nodeShardMap'[t] = chain.shards[t]
      BY <2>4, <3>2
    <3>4. CASE reloads[r].left = {}
      BY <1>1, <1>7, <3>3, <3>4
    <3>5. CASE reloads[r].left # {}
      <4>1. shardToNodes' = shardToNodes /\ r # 0
        BY <1>1, <1>6, <3>1, <3>5
      <4>2. ~Running(0)
        BY <1>6, <3>1, <3>2, <4>1
      <4> QED
        BY <2>1, <4>1, <4>2
    <3> QED
      BY <3>4, <3>5
  <2> QED
    BY <2>2, <2>3, <2>4, <2>5
<1> QED
  BY <1>8, <1>9, <1>10, <1>11, <1>12 DEF ViewInv

\* The first event of a queue is taken.
LEMMA TakeFacts ==
  ASSUME ViewInv, NEW kind \in Kinds, events[kind] # <<>>,
         events' = [events EXCEPT ![kind] = Tail(@)]
  PROVE  /\ events' = [k \in Kinds |-> events'[k]]
         /\ \A k \in Kinds : events'[k] \in Seq(EventsOf[k])
         /\ \A k \in Kinds \ {kind} : events'[k] = events[k]
         /\ Head(events[kind]) \in EventsOf[kind]
         /\ Head(events[kind]) = events[kind][1]
         /\ events[kind] \in Seq(EventsOf[kind])
         /\ Len(events[kind]) \in Nat \ {0}
         /\ events'[kind] = Tail(events[kind])
         /\ Len(events'[kind]) = Len(events[kind]) - 1
         /\ \A i \in 1..Len(events'[kind]) :
              i + 1 \in 1..Len(events[kind]) /\ events'[kind][i] = events[kind][i + 1]
         /\ \A i \in 1..Len(events[kind]) :
              i # 1 => i - 1 \in 1..Len(events'[kind]) /\ events[kind][i] = events'[kind][i - 1]
<1>1. /\ events = [k \in Kinds |-> events[k]]
      /\ \A k \in Kinds : events[k] \in Seq(EventsOf[k])
  BY DEF ViewInv, ViewTypeOK
<1>2. /\ events[kind] \in Seq(EventsOf[kind])
      /\ Len(events[kind]) \in Nat \ {0}
      /\ Head(events[kind]) = events[kind][1] /\ Head(events[kind]) \in EventsOf[kind]
      /\ Tail(events[kind]) \in Seq(EventsOf[kind])
      /\ Len(Tail(events[kind])) = Len(events[kind]) - 1
      /\ \A i \in 1..Len(events[kind]) - 1 : Tail(events[kind])[i] = events[kind][i + 1]
  BY <1>1, Taking
<1>3. events' = [k \in Kinds |-> IF k = kind THEN Tail(events[kind]) ELSE events[k]]
  BY <1>1
<1>4. events' = [k \in Kinds |-> events'[k]] /\ events'[kind] = Tail(events[kind])
  BY <1>3
<1>5. \A k \in Kinds : events'[k] \in Seq(EventsOf[k])
  BY <1>1, <1>2, <1>3
<1>6. \A k \in Kinds \ {kind} : events'[k] = events[k]
  BY <1>3
<1>7. \A i \in 1..Len(events[kind]) - 1 : i + 1 \in 1..Len(events[kind])
  BY <1>2
<1>8. \A i \in 1..Len(events[kind]) :
        i = 1 \/ (i - 1 \in 1..Len(events[kind]) - 1 /\ (i - 1) + 1 = i)
  BY <1>2
<1>9. events'[kind] = Tail(events[kind]) /\ Len(events'[kind]) = Len(events[kind]) - 1
  BY <1>2, <1>4
<1>10. \A i \in 1..Len(events'[kind]) :
         i + 1 \in 1..Len(events[kind]) /\ events'[kind][i] = events[kind][i + 1]
  BY <1>2, <1>7, <1>9
<1>11. \A i \in 1..Len(events[kind]) :
         i # 1 => i - 1 \in 1..Len(events'[kind]) /\ events[kind][i] = events'[kind][i - 1]
  <2>1. ASSUME NEW i \in 1..Len(events[kind]), i # 1
        PROVE  i - 1 \in 1..Len(events'[kind]) /\ events[kind][i] = events'[kind][i - 1]
    <3>1. i - 1 \in 1..Len(events'[kind]) /\ (i - 1) + 1 = i
      BY <1>8, <1>9, <2>1
    <3>2. events'[kind][i - 1] = events[kind][(i - 1) + 1]
      BY <1>10, <3>1
    <3> QED
      BY <3>1, <3>2
  <2> QED
    BY <2>1
<1> QED
  BY <1>2, <1>4, <1>5, <1>6, <1>9, <1>10, <1>11

LEMMA OnSNodeMappingChangedKeeps ==
  ASSUME ViewInv, OnSNodeMappingChanged
  PROVE  ViewInv'
<1> DEFINE kind == "SNodeMappingChanged"
           q == events[kind]
           new == events'[kind]
<1>1. /\ q # <<>>
      /\ events' = [events EXCEPT ![kind] = Tail(@)]
      /\ overlapped' = (overlapped \/ \E p \in Reloads : Running(p))
      /\ UNCHANGED <<chainVars, nodeVars, lost>>
      /\ \E r \in Reloads \ {0} : ~Running(r) /\ StartReload(r, Head(q))
  BY DEF OnSNodeMappingChanged
<1>2. PICK r \in Reloads \ {0} : ~Running(r) /\ StartReload(r, Head(q))
  BY <1>1
<1>3. /\ reloads' = [reloads EXCEPT ![r] = [left |-> Head(q), read |-> {}]]
      /\ UNCHANGED <<chain, changes, disturbed, load, valPerBlock, view, nodeShardMap, shardToNodes, lost>>
  BY <1>1, <1>2 DEF chainVars, nodeVars, StartReload
<1>4. kind \in Kinds /\ EventsOf[kind] = SUBSET SNodes
  BY KindsOfEvents
<1>5. /\ events' = [k \in Kinds |-> events'[k]]
      /\ \A k \in Kinds : events'[k] \in Seq(EventsOf[k])
      /\ \A k \in Kinds \ {kind} : events'[k] = events[k]
      /\ Head(q) \subseteq SNodes /\ Head(q) = q[1] /\ Len(q) \in Nat \ {0}
      /\ \A i \in 1..Len(new) : i + 1 \in 1..Len(q) /\ new[i] = q[i + 1]
      /\ \A i \in 1..Len(q) : i # 1 => i - 1 \in 1..Len(new) /\ q[i] = new[i - 1]
  <2> HIDE DEF kind
  <2> QED
    BY <1>1, <1>4, TakeFacts
<1> HIDE DEF kind, q, new
<1>6. /\ reloads' \in [Reloads -> [left : SUBSET SNodes, read : SUBSET (SNodes \X SUBSET AllShards)]]
      /\ reloads'[r].left = Head(q) /\ reloads'[r].read = {}
      /\ \A p \in Reloads \ {r} : reloads'[p] = reloads[p]
      /\ 0 \in Reloads /\ reloads'[0] = reloads[0]
  BY <1>3, <1>5, ReloadTypes
<1>7. /\ ~Running(0)
      /\ \A p \in Reloads \ {r} : Running(p)' <=> Running(p)
  <2>1. ~Running(0)
    BY <1>1 DEF ViewInv, ReloadsInOrder, kind, q
  <2>2. \A p \in Reloads \ {r} : Running(p)' <=> Running(p)
    BY <1>6 DEF Running
  <2> QED
    BY <2>1, <2>2
<1>8. ViewTypeOK'
  <2>1. overlapped' \in BOOLEAN
    BY <1>1 DEF ViewInv, ViewTypeOK
  <2> QED
    BY <1>3, <1>5, <1>6, <2>1 DEF ViewInv, ViewTypeOK
<1>9. ParamsFollow' /\ LoadInOrder' /\ NodesAreAddedOnce' /\ NodesFollow' /\ UndisturbedNodes'
  BY <1>1, <1>5, ReloadFrame DEF kind
<1>10. ReloadsInOrder'
  <2>1. \A p \in Reloads : \A a, b \in reloads'[p].read : a = b
    BY <1>6 DEF ViewInv, ReloadsInOrder
  <2>2. ~Running(0)'
    BY <1>6, <1>7 DEF Running
  <2> QED
    BY <2>1, <2>2 DEF ReloadsInOrder
<1>11. ShardsFollow'
  <2> SUFFICES ASSUME ~overlapped'
               PROVE  /\ \A p, o \in Reloads : Running(p)' /\ Running(o)' => p = o
                      /\ (\A p \in Reloads : ~Running(p)') => shardToNodes = Derived
                      /\ \A t \in SNodes \ lost :
                           /\ \A i \in 1..Len(new) : t \notin new[i]
                           /\ \A p \in Reloads : t \notin reloads'[p].left
                           => /\ \A p \in Reloads : \A a \in reloads'[p].read :
                                   a[1] = t => a[2] = chain.shards[t]
                              /\ (\A p \in Reloads : \A a \in reloads'[p].read : a[1] # t) =>
                                   nodeShardMap[t] = chain.shards[t]
    <3>1. Derived' = Derived
      BY <1>3 DEF Derived
    <3> QED
      BY <1>3, <3>1 DEF ShardsFollow, new, kind
  <2>1. ~overlapped /\ \A p \in Reloads : ~Running(p)
    BY <1>1
  <2>2. \A p \in Reloads : reloads[p].left = {} /\ reloads[p].read = {} /\ reloads'[p].read = {}
    BY <1>6, <2>1, ReloadTypes
  <2>3. \A p, o \in Reloads : Running(p)' /\ Running(o)' => p = o
    BY <1>7, <2>1
  <2>4. shardToNodes = Derived
    BY <2>1 DEF ViewInv, ShardsFollow
  <2>5. ASSUME NEW t \in SNodes \ lost, \A i \in 1..Len(new) : t \notin new[i],
               \A p \in Reloads : t \notin reloads'[p].left
        PROVE  nodeShardMap[t] = chain.shards[t]
    <3>1. t \notin q[1]
      BY <1>5, <1>6, <2>5
    <3>2. \A i \in 1..Len(q) : t \notin q[i]
      BY <1>5, <2>5, <3>1
    <3> QED
      BY <2>1, <2>2, <3>2 DEF ViewInv, ShardsFollow, q, kind
  <2> QED
    BY <2>2, <2>3, <2>4, <2>5
<1>12. UndisturbedShards'
  <2>1. \A t \in SNodes \ disturbed : \A i \in 1..Len(q) : t \notin q[i]
    BY DEF ViewInv, UndisturbedShards, q, kind
  <2>2. 1 \in 1..Len(q)
    BY <1>5
  <2>3. \A t \in SNodes \ disturbed : t \notin Head(q) /\ \A i \in 1..Len(new) : t \notin new[i]
    <3>1. Head(q) = q[1]
      BY <1>5
    <3>2. \A i \in 1..Len(new) : i + 1 \in 1..Len(q) /\ new[i] = q[i + 1]
      BY <1>5
    <3> QED
      BY <2>1, <2>2, <3>1, <3>2
  <2>4. Running(0)' <=> Running(0)
    BY <1>6, <1>7
  <2> QED
    BY <1>3, <1>6, <2>3, <2>4 DEF ViewInv, UndisturbedShards, new, kind
<1> QED
  BY <1>8, <1>9, <1>10, <1>11, <1>12 DEF ViewInv

-----------------------------------------------------------------------------
(* The nodes are loaded. *)

LEMMA LoadTypes ==
  ASSUME ViewInv
  PROVE  /\ load \in [params : 0..2, type : 1..Len(Types) + 1, listed : BOOLEAN, left : SUBSET Nodes]
         /\ load.params \in 0..2 /\ load.type \in 1..Len(Types) + 1 /\ load.left \subseteq Nodes
         /\ Len(Types) \in Nat
         /\ (~NodesSubscribed => load.type \in 1..Len(Types) /\ Types[load.type] \subseteq Nodes)
         /\ chain.status \in [Nodes -> Statuses \cup {Absent}]
         /\ view \in [Nodes -> Statuses \cup {Absent}]
         /\ chain.params \in 0..MaxChanges /\ valPerBlock \in 0..MaxChanges
BY TypesOfNodes DEF ViewInv, ViewTypeOK, NodesSubscribed

LEMMA LoadFrame ==
  ASSUME ViewInv, Loads
  PROVE  /\ UndisturbedNodes' /\ UndisturbedShards' /\ ShardsFollow'
         /\ (load'.params = load.params => ReloadsInOrder')
         /\ (load'.params = load.params /\ valPerBlock' = valPerBlock => ParamsFollow')
         /\ UNCHANGED <<chain, changes, disturbed, events, nodeShardMap, shardToNodes, reloads, lost, overlapped>>
<1>1. UNCHANGED <<chain, changes, disturbed, events, nodeShardMap, shardToNodes, reloads, lost, overlapped>>
  BY DEF Loads, chainVars, shardVars, history
<1>2. ShardsFollow' /\ (load'.params = load.params => ReloadsInOrder')
  BY <1>1, ShardsFrame
<1>3. UndisturbedNodes' /\ UndisturbedShards'
  BY <1>1, UndisturbedFrame DEF ViewInv, UndisturbedNodes
<1>4. changes \in Nat /\ changes <= changes
  BY DEF ViewInv, ViewTypeOK
<1>5. load'.params = load.params /\ valPerBlock' = valPerBlock => ParamsFollow'
  BY <1>1, <1>4, ParamsFrame
<1> QED
  BY <1>1, <1>2, <1>3, <1>5

LEMMA LoadConstantsKeeps ==
  ASSUME ViewInv, LoadConstants
  PROVE  ViewInv'
<1>1. /\ ~Running(0) /\ load.params < 2
      /\ load' = [load EXCEPT !.params = @ + 1]
      /\ valPerBlock' = IF load.params = 0 THEN chain.params ELSE valPerBlock
      /\ view' = view /\ Loads
  BY DEF LoadConstants
<1>2. UNCHANGED <<chain, changes, disturbed, events, nodeShardMap, shardToNodes, reloads, lost, overlapped>>
  BY <1>1, LoadFrame
<1>3. /\ load' \in [params : 0..2, type : 1..Len(Types) + 1, listed : BOOLEAN, left : SUBSET Nodes]
      /\ load'.params = load.params + 1 /\ load.params \in 0..2
      /\ load'.type = load.type /\ load'.listed = load.listed /\ load'.left = load.left
      /\ valPerBlock' \in 0..MaxChanges
  BY <1>1, LoadTypes
<1>4. ViewTypeOK'
  BY <1>1, <1>2, <1>3 DEF ViewInv, ViewTypeOK
<1>5. ParamsFollow'
  BY <1>1, <1>2, <1>3 DEF ViewInv, ParamsFollow
<1>6. NodesAreAddedOnce' /\ NodesFollow'
  BY <1>1, <1>2, <1>3, NodesFrame
<1>7. LoadInOrder'
  BY <1>1, <1>2, <1>3 DEF ViewInv, LoadInOrder, NodesSubscribed
<1>8. ReloadsInOrder'
  BY <1>1, <1>2, <1>3 DEF ViewInv, ReloadsInOrder, Running
<1> QED
  BY <1>1, <1>4, <1>5, <1>6, <1>7, <1>8, LoadFrame DEF ViewInv

\* While nodes are loaded, what is not read is unknown, and there are no events.
LEMMA BeforeEvents ==
  ASSUME ViewInv, ~NodesSubscribed
  PROVE  /\ events["NodeAdded"] = <<>> /\ events["NodeStatusChanged"] = <<>>
         /\ Len(events["NodeAdded"]) = 0 /\ Len(events["NodeStatusChanged"]) = 0
         /\ \A n \in Nodes \ lost : AlreadyRead(n) => view[n] = chain.status[n]
         /\ \A n \in Nodes : ~AlreadyRead(n) => view[n] = Absent
<1>1. /\ events["NodeAdded"] = <<>> /\ events["NodeStatusChanged"] = <<>>
      /\ Len(events["NodeAdded"]) = 0 /\ Len(events["NodeStatusChanged"]) = 0
  BY NoEvents DEF ViewInv, LoadInOrder
<1>2. \A n \in Nodes \ lost : AlreadyRead(n) => view[n] = chain.status[n]
  BY <1>1 DEF ViewInv, NodesFollow
<1> QED
  BY <1>1, <1>2 DEF ViewInv, NodesAreAddedOnce

LEMMA NextTypeFacts ==
  ASSUME ViewInv, ~NodesSubscribed, load' = NextType
  PROVE  /\ load' \in [params : 0..2, type : 1..Len(Types) + 1, listed : BOOLEAN, left : SUBSET Nodes]
         /\ load'.params = load.params /\ ~load'.listed /\ load'.left = {}
         /\ load'.type = load.type + 1
         /\ \A n \in Nodes : AlreadyRead(n)' <=>
              (\E t \in 1..Len(Types) : t < load.type /\ n \in Types[t]) \/ n \in Types[load.type]
<1>1. /\ load.type \in 1..Len(Types) /\ Len(Types) \in Nat
      /\ load \in [params : 0..2, type : 1..Len(Types) + 1, listed : BOOLEAN, left : SUBSET Nodes]
  BY LoadTypes
<1>2. /\ load' \in [params : 0..2, type : 1..Len(Types) + 1, listed : BOOLEAN, left : SUBSET Nodes]
      /\ load'.params = load.params /\ load'.listed = FALSE /\ load'.left = {}
      /\ load'.type = load.type + 1
  <2>1. load.type + 1 \in 1..Len(Types) + 1
    BY <1>1
  <2>2. load' = [load EXCEPT !.type = load.type + 1, !.listed = FALSE, !.left = {}]
    BY DEF NextType
  <2> QED
    BY <1>1, <2>1, <2>2
<1>3. \A n \in Nodes : AlreadyRead(n)' <=> \E t \in 1..Len(Types) : t < load.type + 1 /\ n \in Types[t]
  BY <1>2 DEF AlreadyRead
<1>4. \A t \in 1..Len(Types) : t < load.type + 1 <=> t < load.type \/ t = load.type
  BY <1>1
<1>5. \A n \in Nodes : AlreadyRead(n)' <=>
        (\E t \in 1..Len(Types) : t < load.type /\ n \in Types[t]) \/ n \in Types[load.type]
  BY <1>1, <1>3, <1>4
<1> QED
  BY <1>2, <1>5

LEMMA GetNodesKeeps ==
  ASSUME ViewInv, GetNodes
  PROVE  ViewInv'
<1> DEFINE present == {n \in Types[load.type] : chain.status[n] # Absent}
           before(n) == \E t \in 1..Len(Types) : t < load.type /\ n \in Types[t]
<1>1. /\ ParamsSubscribed /\ ~NodesSubscribed /\ ~load.listed
      /\ load' = IF present = {} THEN NextType ELSE [load EXCEPT !.listed = TRUE, !.left = present]
      /\ valPerBlock' = valPerBlock /\ view' = view /\ Loads
  BY DEF GetNodes
<1>2. UNCHANGED <<chain, changes, disturbed, events, nodeShardMap, shardToNodes, reloads, lost, overlapped>>
  BY <1>1, LoadFrame
<1>3. /\ load.type \in 1..Len(Types) /\ Types[load.type] \subseteq Nodes /\ Len(Types) \in Nat
      /\ load \in [params : 0..2, type : 1..Len(Types) + 1, listed : BOOLEAN, left : SUBSET Nodes]
  BY <1>1, LoadTypes
<1>4. \A n \in Nodes : AlreadyRead(n) <=> before(n)
  BY <1>1 DEF AlreadyRead
<1>5. \A n \in Types[load.type] : ~before(n)
  <2>1. \A t \in 1..Len(Types) : t < load.type => Types[t] \cap Types[load.type] = {}
    BY <1>3, TypesOfNodes
  <2> QED
    BY <2>1
<1>6. /\ load' \in [params : 0..2, type : 1..Len(Types) + 1, listed : BOOLEAN, left : SUBSET Nodes]
      /\ load'.params = load.params
      /\ \A n \in Nodes : AlreadyRead(n)' <=> before(n) \/ n \in Types[load.type] \ present
      /\ LoadInOrder'
  <2>1. CASE present = {}
    <3>1. load' = NextType
      BY <1>1, <2>1
    <3>2. LoadInOrder'
      BY <1>1, <1>2, <3>1, NextTypeFacts, BeforeEvents DEF LoadInOrder, ParamsSubscribed
    <3> QED
      BY <1>1, <2>1, <3>1, <3>2, NextTypeFacts
  <2>2. CASE present # {}
    <3>1. load' = [load EXCEPT !.listed = TRUE, !.left = present]
      BY <1>1, <2>2
    <3>2. present \subseteq Types[load.type] /\ present \subseteq Nodes
      BY <1>3
    <3> HIDE DEF present
    <3>3. /\ load' \in [params : 0..2, type : 1..Len(Types) + 1, listed : BOOLEAN, left : SUBSET Nodes]
          /\ load'.params = load.params /\ load'.type = load.type
          /\ load'.listed = TRUE /\ load'.left = present
      BY <1>3, <3>1, <3>2
    <3>4. ~NodesSubscribed'
      BY <1>1, <3>3 DEF NodesSubscribed
    <3>5. \A n \in Nodes : AlreadyRead(n)' <=> before(n) \/ n \in Types[load.type] \ present
      BY <3>3, <3>4 DEF AlreadyRead
    <3>6. LoadInOrder'
      BY <1>1, <1>2, <3>2, <3>3, <3>4, BeforeEvents DEF LoadInOrder, ParamsSubscribed
    <3> QED
      BY <3>3, <3>5, <3>6
  <2> QED
    BY <2>1, <2>2
<1>7. \A n \in Types[load.type] \ present : chain.status[n] = Absent /\ view[n] = Absent
  BY <1>1, <1>3, <1>4, <1>5, BeforeEvents
<1> HIDE DEF before
<1>8. ViewTypeOK'
  BY <1>1, <1>2, <1>6 DEF ViewInv, ViewTypeOK
<1>9. ParamsFollow'
  BY <1>1, <1>6, LoadFrame
<1>10. NodesAreAddedOnce'
  <2>1. \A n \in Nodes : ~AlreadyRead(n)' => view[n] = Absent
    BY <1>1, <1>4, <1>6, BeforeEvents
  <2>2. Len(events["NodeAdded"]) = 0
    BY <1>1, BeforeEvents
  <2>3. \A n \in Nodes : view[n] # Absent => chain.status[n] # Absent
    BY DEF ViewInv, NodesAreAddedOnce
  <2> QED
    BY <1>1, <1>2, <2>1, <2>2, <2>3 DEF NodesAreAddedOnce
<1>11. NodesFollow'
  <2>1. \A n \in Nodes \ lost : AlreadyRead(n)' => view'[n] = chain.status[n]
    <3>1. \A n \in Nodes : AlreadyRead(n)' => AlreadyRead(n) \/ n \in Types[load.type] \ present
      BY <1>4, <1>6
    <3> QED
      BY <1>1, <1>7, <3>1, BeforeEvents
  <2>2. Len(events["NodeAdded"]) = 0 /\ Len(events["NodeStatusChanged"]) = 0
    BY <1>1, BeforeEvents
  <2> QED
    BY <1>2, <2>1, <2>2 DEF NodesFollow
<1> QED
  BY <1>1, <1>6, <1>8, <1>9, <1>10, <1>11, LoadFrame DEF ViewInv

LEMMA GetNodeInfoKeeps ==
  ASSUME ViewInv, NEW n \in Nodes, GetNodeInfo(n)
  PROVE  ViewInv'
<1> DEFINE before(m) == \E t \in 1..Len(Types) : t < load.type /\ m \in Types[t]
<1>1. /\ n \in load.left
      /\ view' = [view EXCEPT ![n] = chain.status[n]]
      /\ load' = IF load.left = {n} THEN NextType ELSE [load EXCEPT !.left = @ \ {n}]
      /\ valPerBlock' = valPerBlock /\ Loads
  BY DEF GetNodeInfo
<1>2. UNCHANGED <<chain, changes, disturbed, events, nodeShardMap, shardToNodes, reloads, lost, overlapped>>
  BY <1>1, LoadFrame
<1>3. load.listed /\ ~NodesSubscribed /\ load.left \subseteq Types[load.type] /\ load.params = 2
  BY <1>1, LoadTypes DEF ViewInv, LoadInOrder
<1>4. /\ load.type \in 1..Len(Types) /\ Types[load.type] \subseteq Nodes /\ Len(Types) \in Nat
      /\ load \in [params : 0..2, type : 1..Len(Types) + 1, listed : BOOLEAN, left : SUBSET Nodes]
  BY <1>3, LoadTypes
<1>5. \A m \in Nodes : AlreadyRead(m) <=> before(m) \/ m \in Types[load.type] \ load.left
  BY <1>3 DEF AlreadyRead
<1>6. /\ load' \in [params : 0..2, type : 1..Len(Types) + 1, listed : BOOLEAN, left : SUBSET Nodes]
      /\ load'.params = load.params
      /\ \A m \in Nodes : AlreadyRead(m)' <=> AlreadyRead(m) \/ m = n
      /\ LoadInOrder'
  <2>1. CASE load.left = {n}
    <3>1. load' = NextType
      BY <1>1, <2>1
    <3>2. LoadInOrder'
      BY <1>2, <1>3, <3>1, NextTypeFacts, BeforeEvents DEF LoadInOrder
    <3>3. \A m \in Nodes : AlreadyRead(m)' <=> before(m) \/ m \in Types[load.type]
      BY <1>3, <3>1, NextTypeFacts
    <3>4. \A m \in Nodes : AlreadyRead(m)' <=> AlreadyRead(m) \/ m = n
      BY <1>3, <1>5, <2>1, <3>3
    <3> QED
      BY <1>3, <3>1, <3>2, <3>4, NextTypeFacts
  <2>2. CASE load.left # {n}
    <3>1. load' = [load EXCEPT !.left = load.left \ {n}]
      BY <1>1, <2>2
    <3>2. /\ load' \in [params : 0..2, type : 1..Len(Types) + 1, listed : BOOLEAN, left : SUBSET Nodes]
          /\ load'.params = load.params /\ load'.type = load.type
          /\ load'.listed = load.listed /\ load'.left = load.left \ {n}
      BY <1>4, <3>1
    <3>3. ~NodesSubscribed'
      BY <1>3, <3>2 DEF NodesSubscribed
    <3>4. \A m \in Nodes : AlreadyRead(m)' <=> before(m) \/ m \in Types[load.type] \ (load.left \ {n})
      BY <1>3, <3>2, <3>3 DEF AlreadyRead
    <3>5. \A m \in Nodes : AlreadyRead(m)' <=> AlreadyRead(m) \/ m = n
      BY <1>1, <1>3, <1>5, <3>4
    <3>6. LoadInOrder'
      BY <1>2, <1>3, <3>2, <3>3, BeforeEvents DEF LoadInOrder
    <3> QED
      BY <3>2, <3>5, <3>6
  <2> QED
    BY <2>1, <2>2
<1> HIDE DEF before
<1>7. /\ view' \in [Nodes -> Statuses \cup {Absent}]
      /\ view'[n] = chain.status[n] /\ \A m \in Nodes \ {n} : view'[m] = view[m]
  BY <1>1, LoadTypes
<1>8. ViewTypeOK'
  BY <1>1, <1>2, <1>6, <1>7 DEF ViewInv, ViewTypeOK
<1>9. ParamsFollow'
  BY <1>1, <1>6, LoadFrame
<1>10. NodesAreAddedOnce'
  <2>1. \A m \in Nodes : ~AlreadyRead(m)' => view'[m] = Absent
    BY <1>3, <1>6, <1>7, BeforeEvents
  <2>2. \A m \in Nodes : view'[m] # Absent => chain.status[m] # Absent
    BY <1>7 DEF ViewInv, NodesAreAddedOnce
  <2>3. Len(events["NodeAdded"]) = 0
    BY <1>3, BeforeEvents
  <2> QED
    BY <1>2, <2>1, <2>2, <2>3 DEF NodesAreAddedOnce
<1>11. NodesFollow'
  <2>1. \A m \in Nodes \ lost : AlreadyRead(m)' => view'[m] = chain.status[m]
    BY <1>3, <1>6, <1>7, BeforeEvents
  <2>2. Len(events["NodeAdded"]) = 0 /\ Len(events["NodeStatusChanged"]) = 0
    BY <1>3, BeforeEvents
  <2> QED
    BY <1>2, <2>1, <2>2 DEF NodesFollow
<1> QED
  BY <1>1, <1>6, <1>8, <1>9, <1>10, <1>11, LoadFrame DEF ViewInv

-----------------------------------------------------------------------------
(* Events are handled. *)

LEMMA HandlerFrame ==
  ASSUME ViewInv, NEW kind \in Kinds \ {"SNodeMappingChanged"}, TakeEvent(kind), lost \subseteq lost'
  PROVE  /\ UNCHANGED <<chain, changes, disturbed, load, nodeShardMap, shardToNodes, reloads, overlapped>>
         /\ events[kind] # <<>>
         /\ events' = [events EXCEPT ![kind] = Tail(@)]
         /\ events'["SNodeMappingChanged"] = events["SNodeMappingChanged"]
         /\ ReloadsInOrder' /\ ShardsFollow' /\ UndisturbedShards'
         /\ (\A n : AlreadyRead(n)' <=> AlreadyRead(n)) /\ (NodesSubscribed' <=> NodesSubscribed)
<1>1. /\ UNCHANGED <<chain, changes, disturbed, load, nodeShardMap, shardToNodes, reloads, overlapped>>
      /\ events[kind] # <<>>
      /\ events' = [events EXCEPT ![kind] = Tail(@)]
  BY DEF TakeEvent, chainVars, shardVars
<1>2. events'["SNodeMappingChanged"] = events["SNodeMappingChanged"]
  BY <1>1, TakeFacts, KindsOfEvents
<1>3. ReloadsInOrder' /\ ShardsFollow'
  BY <1>1, <1>2, ShardsFrame
<1>4. UndisturbedShards'
  BY <1>1, <1>2, UndisturbedFrame
<1>5. (\A n : AlreadyRead(n)' <=> AlreadyRead(n)) /\ (NodesSubscribed' <=> NodesSubscribed)
  BY <1>1 DEF AlreadyRead, NodesSubscribed
<1> QED
  BY <1>1, <1>2, <1>3, <1>4, <1>5

LEMMA OnBlockParamsUpdatedKeeps ==
  ASSUME ViewInv, OnBlockParamsUpdated
  PROVE  ViewInv'
<1> DEFINE kind == "BlockParamsUpdated"
           q == events[kind]
           new == events'[kind]
<1>1. TakeEvent(kind) /\ valPerBlock' = Head(q) /\ view' = view /\ lost' = lost
  BY DEF OnBlockParamsUpdated
<1>2. /\ kind \in Kinds \ {"SNodeMappingChanged"} /\ kind \in Kinds /\ EventsOf[kind] = 0..MaxChanges
      /\ "NodeAdded" \in Kinds \ {kind} /\ "NodeStatusChanged" \in Kinds \ {kind}
  BY KindsOfEvents
<1> HIDE DEF kind
<1>3. /\ UNCHANGED <<chain, changes, disturbed, load, nodeShardMap, shardToNodes, reloads, overlapped>>
      /\ events[kind] # <<>>
      /\ events' = [events EXCEPT ![kind] = Tail(@)]
      /\ ReloadsInOrder' /\ ShardsFollow' /\ UndisturbedShards'
  BY <1>1, <1>2, HandlerFrame
<1>4. /\ events' = [k \in Kinds |-> events'[k]]
      /\ \A k \in Kinds : events'[k] \in Seq(EventsOf[k])
      /\ \A k \in Kinds \ {kind} : events'[k] = events[k]
      /\ Head(q) \in 0..MaxChanges /\ Head(q) = q[1] /\ Len(q) \in Nat \ {0}
      /\ Len(new) = Len(q) - 1
      /\ \A i \in 1..Len(new) : new[i] = q[i + 1]
  BY <1>2, <1>3, TakeFacts
<1>5. ViewTypeOK'
  BY <1>1, <1>3, <1>4 DEF ViewInv, ViewTypeOK
<1>6. ParamsFollow'
  <2>1. load.params = 2 /\ chain.params <= changes
    BY <1>3, LoadTypes DEF ViewInv, ParamsFollow, kind
  <2>2. "params" \notin lost => q[Len(q)] = chain.params
    BY <1>3, <2>1 DEF ViewInv, ParamsFollow, kind
  <2>3. CASE new = <<>>
    <3>1. Len(q) = 1
      BY <1>4, <2>3, NoEvents
    <3> QED
      BY <1>1, <1>3, <1>4, <2>1, <2>2, <2>3, <3>1 DEF ParamsFollow, kind
  <2>4. CASE new # <<>>
    <3>1. new \in Seq(0..MaxChanges)
      BY <1>2, <1>4
    <3>2. Len(new) \in Nat \ {0}
      BY <2>4, <3>1, EmptySeq
    <3>3. Len(new) \in 1..Len(new) /\ Len(new) + 1 = Len(q)
      <4>1. Len(q) \in Nat /\ Len(new) = Len(q) - 1
        BY <1>4
      <4> HIDE DEF q, new
      <4> QED
        BY <3>2, <4>1
    <3>4. new[Len(new)] = q[Len(q)]
      BY <1>4, <3>3
    <3> QED
      BY <1>1, <1>3, <2>1, <2>2, <2>4, <3>4 DEF ParamsFollow, kind
  <2> QED
    BY <2>3, <2>4
<1>7. LoadInOrder' /\ NodesAreAddedOnce' /\ NodesFollow'
  BY <1>1, <1>2, <1>3, <1>4, NodesFrame
<1>8. UndisturbedNodes'
  BY <1>1, <1>2, <1>3, <1>4, UndisturbedFrame DEF ViewInv, UndisturbedNodes
<1> QED
  BY <1>3, <1>5, <1>6, <1>7, <1>8 DEF ViewInv

LEMMA OnNodeAddedKeeps ==
  ASSUME ViewInv, OnNodeAdded
  PROVE  ViewInv'
<1> DEFINE kind == "NodeAdded"
           added == events[kind]
           changed == events["NodeStatusChanged"]
           new == events'[kind]
           m == Head(added)
<1>1. TakeEvent(kind) /\ view' = [view EXCEPT ![m] = "OK"] /\ valPerBlock' = valPerBlock /\ lost' = lost
  BY DEF OnNodeAdded
<1>2. /\ kind \in Kinds \ {"SNodeMappingChanged"} /\ kind \in Kinds /\ EventsOf[kind] = Nodes
      /\ "BlockParamsUpdated" \in Kinds \ {kind} /\ "NodeStatusChanged" \in Kinds \ {kind}
  BY KindsOfEvents
<1> HIDE DEF kind
<1>3. /\ UNCHANGED <<chain, changes, disturbed, load, nodeShardMap, shardToNodes, reloads, overlapped>>
      /\ events[kind] # <<>>
      /\ events' = [events EXCEPT ![kind] = Tail(@)]
      /\ ReloadsInOrder' /\ ShardsFollow' /\ UndisturbedShards'
      /\ (\A n : AlreadyRead(n)' <=> AlreadyRead(n)) /\ (NodesSubscribed' <=> NodesSubscribed)
  BY <1>1, <1>2, HandlerFrame
<1>4. /\ events' = [k \in Kinds |-> events'[k]]
      /\ \A k \in Kinds : events'[k] \in Seq(EventsOf[k])
      /\ \A k \in Kinds \ {kind} : events'[k] = events[k]
      /\ m \in Nodes /\ m = added[1] /\ Len(added) \in Nat \ {0}
      /\ \A i \in 1..Len(new) : i + 1 \in 1..Len(added) /\ new[i] = added[i + 1]
      /\ \A i \in 1..Len(added) : i # 1 => i - 1 \in 1..Len(new) /\ added[i] = new[i - 1]
  BY <1>2, <1>3, TakeFacts
<1> HIDE DEF m
<1>5. /\ view' \in [Nodes -> Statuses \cup {Absent}]
      /\ view'[m] = "OK" /\ "OK" # Absent /\ \A n \in Nodes \ {m} : view'[n] = view[n]
  BY <1>1, <1>4, LoadTypes, ViewAssumption
<1>6. /\ view[m] = Absent /\ chain.status[m] # Absent
      /\ \A i \in 1..Len(new) : new[i] # m
      /\ \A i \in 1..Len(new) :
           /\ view[new[i]] = Absent /\ chain.status[new[i]] # Absent
           /\ \A j \in 1..Len(new) : new[i] = new[j] => i = j
  <2>1. \A i \in 1..Len(added) :
          /\ view[added[i]] = Absent /\ chain.status[added[i]] # Absent
          /\ \A j \in 1..Len(added) : added[i] = added[j] => i = j
    BY DEF ViewInv, NodesAreAddedOnce, kind
  <2>2. 1 \in 1..Len(added) /\ Len(new) \in Nat
    <3>1. Len(added) \in Nat \ {0}
      BY <1>4
    <3>2. new \in Seq(Nodes)
      BY <1>2, <1>4
    <3> QED
      BY <3>1, <3>2, LenProperties
  <2>3. view[m] = Absent /\ chain.status[m] # Absent
    BY <1>4, <2>1, <2>2
  <2>4. \A i \in 1..Len(new) : new[i] # m
    <3>1. ASSUME NEW i \in 1..Len(new)
          PROVE  i + 1 # 1 /\ i + 1 \in 1..Len(added) /\ new[i] = added[i + 1]
      <4>1. i \in Nat /\ i # 0
        BY <2>2
      <4> QED
        BY <1>4, <4>1
    <3>2. ASSUME NEW i \in 1..Len(new), new[i] = m
          PROVE  FALSE
      <4>1. added[i + 1] = added[1]
        BY <1>4, <3>1, <3>2
      <4>2. i + 1 = 1
        BY <2>1, <2>2, <3>1, <4>1
      <4> QED
        BY <3>1, <4>2
    <3> QED
      BY <3>2
  <2>5. ASSUME NEW i \in 1..Len(new)
        PROVE  /\ view[new[i]] = Absent /\ chain.status[new[i]] # Absent
               /\ \A j \in 1..Len(new) : new[i] = new[j] => i = j
    <3>1. view[new[i]] = Absent /\ chain.status[new[i]] # Absent
      BY <1>4, <2>1
    <3>2. ASSUME NEW j \in 1..Len(new), new[i] = new[j]
          PROVE  i = j
      <4>1. i \in Nat /\ j \in Nat
        BY <2>2
      <4>2. i + 1 \in 1..Len(added) /\ j + 1 \in 1..Len(added)
        BY <1>4
      <4>3. added[i + 1] = new[i] /\ added[j + 1] = new[j]
        BY <1>4
      <4>4. added[i + 1] = added[j + 1]
        BY <3>2, <4>3
      <4>5. \A a, b \in 1..Len(added) : added[a] = added[b] => a = b
        BY <2>1
      <4> HIDE DEF added, new
      <4>6. i + 1 = j + 1
        BY <4>2, <4>4, <4>5
      <4> QED
        BY <4>1, <4>6
    <3> QED
      BY <3>1, <3>2
  <2> QED
    BY <2>3, <2>4, <2>5
<1>7. ViewTypeOK'
  BY <1>1, <1>3, <1>4, <1>5 DEF ViewInv, ViewTypeOK
<1>8. ParamsFollow'
  <2>1. changes \in Nat /\ changes <= changes
    BY DEF ViewInv, ViewTypeOK
  <2> QED
    BY <1>1, <1>2, <1>3, <1>4, <2>1, ParamsFrame
<1>9. NodesSubscribed
  BY <1>3 DEF ViewInv, LoadInOrder, kind
<1>10. LoadInOrder'
  BY <1>3, <1>9 DEF ViewInv, LoadInOrder
<1>11. NodesAreAddedOnce'
  <2>1. \A n \in Nodes : view'[n] # Absent => chain.status[n] # Absent
    BY <1>5, <1>6 DEF ViewInv, NodesAreAddedOnce
  <2>2. \A i \in 1..Len(new) : view'[new[i]] = Absent
    <3>1. \A i \in 1..Len(new) : new[i] \in Nodes
      BY <1>2, <1>4, ElementOfSeq
    <3> QED
      BY <1>5, <1>6, <3>1
  <2> QED
    BY <1>3, <1>6, <1>9, <2>1, <2>2 DEF NodesAreAddedOnce, kind
<1>12. NodesFollow'
  <2> SUFFICES ASSUME NEW t \in Nodes \ lost, AlreadyRead(t)
               PROVE  /\ \A i \in 1..Len(changed) :
                           changed[i][1] = t /\ (\A j \in i + 1..Len(changed) : changed[j][1] # t) =>
                             changed[i][2] = chain.status[t]
                      /\ (\A i \in 1..Len(changed) : changed[i][1] # t) =>
                           IF \E i \in 1..Len(new) : new[i] = t
                             THEN chain.status[t] = "OK"
                             ELSE view'[t] = chain.status[t]
    BY <1>1, <1>2, <1>3, <1>4 DEF NodesFollow, kind
  <2>1. /\ \A i \in 1..Len(changed) :
             changed[i][1] = t /\ (\A j \in i + 1..Len(changed) : changed[j][1] # t) =>
               changed[i][2] = chain.status[t]
        /\ (\A i \in 1..Len(changed) : changed[i][1] # t) =>
             IF \E i \in 1..Len(added) : added[i] = t
               THEN chain.status[t] = "OK" ELSE view[t] = chain.status[t]
    BY DEF ViewInv, NodesFollow, kind
  <2>2. 1 \in 1..Len(added)
    BY <1>4
  <2>3. CASE t = m
    BY <1>4, <1>5, <1>6, <2>1, <2>2, <2>3
  <2>4. CASE t # m
    <3>1. (\E i \in 1..Len(new) : new[i] = t) <=> (\E i \in 1..Len(added) : added[i] = t)
      BY <1>4, <2>4
    <3> QED
      BY <1>5, <2>1, <2>4, <3>1
  <2> QED
    BY <2>3, <2>4
<1>13. UndisturbedNodes'
  <2>1. \A n \in Nodes \ disturbed : \A i \in 1..Len(new) : new[i] # n
    BY <1>4 DEF ViewInv, UndisturbedNodes, kind
  <2> QED
    BY <1>1, <1>2, <1>3, <1>4, <2>1 DEF ViewInv, UndisturbedNodes, kind
<1> QED
  BY <1>3, <1>7, <1>8, <1>10, <1>11, <1>12, <1>13 DEF ViewInv

LEMMA OnNodeStatusChangedKeeps ==
  ASSUME ViewInv, OnNodeStatusChanged
  PROVE  ViewInv'
<1> DEFINE kind == "NodeStatusChanged"
           added == events["NodeAdded"]
           changed == events[kind]
           new == events'[kind]
           n == Head(changed)[1]
           status == Head(changed)[2]
<1>1. /\ TakeEvent(kind) /\ valPerBlock' = valPerBlock
      /\ \/ view[n] # Absent /\ view' = [view EXCEPT ![n] = status] /\ lost' = lost
         \/ view[n] = Absent /\ lost' = lost \cup {n} /\ view' = view
  BY DEF OnNodeStatusChanged, Misses
<1>2. /\ kind \in Kinds \ {"SNodeMappingChanged"} /\ kind \in Kinds /\ EventsOf[kind] = Nodes \X Statuses
      /\ "BlockParamsUpdated" \in Kinds \ {kind} /\ "NodeAdded" \in Kinds \ {kind}
  BY KindsOfEvents
<1> HIDE DEF kind
<1>3. /\ lost \subseteq lost' /\ lost' \subseteq lost \cup {n}
  BY <1>1
<1>4. /\ UNCHANGED <<chain, changes, disturbed, load, nodeShardMap, shardToNodes, reloads, overlapped>>
      /\ events[kind] # <<>>
      /\ events' = [events EXCEPT ![kind] = Tail(@)]
      /\ ReloadsInOrder' /\ ShardsFollow' /\ UndisturbedShards'
      /\ (\A t : AlreadyRead(t)' <=> AlreadyRead(t)) /\ (NodesSubscribed' <=> NodesSubscribed)
  BY <1>1, <1>2, <1>3, HandlerFrame
<1>5. /\ events' = [k \in Kinds |-> events'[k]]
      /\ \A k \in Kinds : events'[k] \in Seq(EventsOf[k])
      /\ \A k \in Kinds \ {kind} : events'[k] = events[k]
      /\ Head(changed) \in Nodes \X Statuses /\ Head(changed) = changed[1] /\ Len(changed) \in Nat \ {0}
      /\ Len(new) = Len(changed) - 1
      /\ \A i \in 1..Len(new) : i + 1 \in 1..Len(changed) /\ new[i] = changed[i + 1]
      /\ \A i \in 1..Len(changed) : i # 1 => i - 1 \in 1..Len(new) /\ changed[i] = new[i - 1]
  BY <1>2, <1>4, TakeFacts
<1>6. /\ n \in Nodes /\ status \in Statuses
      /\ 1 \in 1..Len(changed) /\ changed[1][1] = n /\ changed[1][2] = status
  BY <1>5
<1> HIDE DEF n, status
<1>7. /\ view' \in [Nodes -> Statuses \cup {Absent}]
      /\ \A t \in Nodes \ {n} : view'[t] = view[t]
      /\ \A t \in Nodes : view'[t] = Absent <=> view[t] = Absent
      /\ n \notin lost' => view[n] # Absent /\ view'[n] = status
  <2>1. view \in [Nodes -> Statuses \cup {Absent}] /\ status # Absent
    BY <1>6, LoadTypes, ViewAssumption
  <2> QED
    BY <1>1, <1>6, <2>1
<1>8. n \in disturbed
  <2>1. \A t \in Nodes \ disturbed : changed[1][1] # t
    BY <1>6 DEF ViewInv, UndisturbedNodes, kind
  <2> QED
    BY <1>6, <2>1
<1>9. ViewTypeOK'
  <2>1. lost' \subseteq Nodes \cup {"params"}
    BY <1>3, <1>6 DEF ViewInv, ViewTypeOK
  <2> QED
    BY <1>1, <1>4, <1>5, <1>7, <2>1 DEF ViewInv, ViewTypeOK
<1>10. ParamsFollow'
  <2>1. changes \in Nat /\ changes <= changes
    BY DEF ViewInv, ViewTypeOK
  <2> QED
    BY <1>1, <1>2, <1>3, <1>4, <1>5, <2>1, ParamsFrame
<1>11. NodesSubscribed
  BY <1>4 DEF ViewInv, LoadInOrder, kind
<1>12. LoadInOrder'
  BY <1>4, <1>11 DEF ViewInv, LoadInOrder
<1>13. NodesAreAddedOnce'
  <2>1. \A t \in Nodes : view'[t] # Absent => chain.status[t] # Absent
    BY <1>7 DEF ViewInv, NodesAreAddedOnce
  <2>2. \A i \in 1..Len(added) : view'[added[i]] = Absent
    <3>1. \A i \in 1..Len(added) : added[i] \in Nodes
      BY EventTypes, ElementOfSeq DEF ViewInv
    <3> QED
      BY <1>7, <3>1 DEF ViewInv, NodesAreAddedOnce
  <2>3. \A i \in 1..Len(added) :
          /\ chain.status[added[i]] # Absent
          /\ \A j \in 1..Len(added) : added[i] = added[j] => i = j
    BY DEF ViewInv, NodesAreAddedOnce
  <2>4. events'["NodeAdded"] = added /\ chain' = chain /\ NodesSubscribed'
    BY <1>2, <1>4, <1>5, <1>11
  <2> QED
    BY <2>1, <2>2, <2>3, <2>4 DEF NodesAreAddedOnce
<1>14. NodesFollow'
  <2> SUFFICES ASSUME NEW t \in Nodes \ lost', AlreadyRead(t)
               PROVE  /\ \A i \in 1..Len(new) :
                           new[i][1] = t /\ (\A j \in i + 1..Len(new) : new[j][1] # t) =>
                             new[i][2] = chain.status[t]
                      /\ (\A i \in 1..Len(new) : new[i][1] # t) =>
                           IF \E i \in 1..Len(added) : added[i] = t
                             THEN chain.status[t] = "OK"
                             ELSE view'[t] = chain.status[t]
    <3>1. events'["NodeAdded"] = added /\ chain' = chain /\ \A t \in Nodes : AlreadyRead(t)' <=> AlreadyRead(t)
      BY <1>2, <1>4, <1>5
    <3> QED
      BY <3>1 DEF NodesFollow, kind
  <2>1. /\ t \in Nodes \ lost
        /\ \A i \in 1..Len(changed) :
             changed[i][1] = t /\ (\A j \in i + 1..Len(changed) : changed[j][1] # t) =>
               changed[i][2] = chain.status[t]
        /\ (\A i \in 1..Len(changed) : changed[i][1] # t) =>
             IF \E i \in 1..Len(added) : added[i] = t
               THEN chain.status[t] = "OK" ELSE view[t] = chain.status[t]
    BY <1>3 DEF ViewInv, NodesFollow, kind
  <2> HIDE DEF new, changed, added
  <2>2. ASSUME NEW i \in 1..Len(new), new[i][1] = t, \A j \in i + 1..Len(new) : new[j][1] # t
        PROVE  new[i][2] = chain.status[t]
    <3>1. i + 1 \in 1..Len(changed) /\ new[i] = changed[i + 1]
      BY <1>5
    <3>2. ASSUME NEW j \in (i + 1) + 1..Len(changed)
          PROVE  changed[j][1] # t
      <4>1. j \in 1..Len(changed) /\ j # 1 /\ j - 1 \in i + 1..Len(new)
        BY <1>5
      <4>2. changed[j] = new[j - 1]
        BY <1>5, <4>1
      <4> QED
        BY <2>2, <4>1, <4>2
    <3> QED
      BY <2>1, <2>2, <3>1, <3>2
  <2>3. ASSUME \A i \in 1..Len(new) : new[i][1] # t
        PROVE  IF \E i \in 1..Len(added) : added[i] = t
                 THEN chain.status[t] = "OK" ELSE view'[t] = chain.status[t]
    <3>1. \A i \in 1..Len(changed) : i # 1 => changed[i][1] # t
      BY <1>5, <2>3
    <3>2. CASE t = n
      <4>1. view[t] # Absent /\ view'[t] = status
        BY <1>7, <3>2
      <4>2. \A j \in 1 + 1..Len(changed) : changed[j][1] # t
        BY <1>5, <3>1
      <4>3. status = chain.status[t]
        BY <1>6, <2>1, <3>2, <4>2
      <4>4. \A i \in 1..Len(added) : added[i] # t
        BY <4>1 DEF ViewInv, NodesAreAddedOnce, added
      <4> QED
        BY <4>1, <4>3, <4>4
    <3>3. CASE t # n
      <4>1. \A i \in 1..Len(changed) : changed[i][1] # t
        BY <1>6, <3>1, <3>3
      <4> QED
        BY <1>7, <2>1, <3>3, <4>1
    <3> QED
      BY <3>2, <3>3
  <2> QED
    BY <2>2, <2>3
<1>15. UndisturbedNodes'
  <2>1. \A t \in Nodes \ disturbed : \A i \in 1..Len(new) : new[i][1] # t
    <3>1. \A t \in Nodes \ disturbed : \A i \in 1..Len(changed) : changed[i][1] # t
      BY DEF ViewInv, UndisturbedNodes, kind
    <3>2. \A i \in 1..Len(new) : i + 1 \in 1..Len(changed) /\ new[i] = changed[i + 1]
      BY <1>5
    <3> HIDE DEF new, changed
    <3> QED
      BY <3>1, <3>2
  <2>2. lost' \subseteq disturbed \cup {"params"}
    BY <1>3, <1>8 DEF ViewInv, UndisturbedNodes
  <2> QED
    BY <1>2, <1>4, <1>5, <2>1, <2>2 DEF ViewInv, UndisturbedNodes, kind
<1> QED
  BY <1>4, <1>9, <1>10, <1>12, <1>13, <1>14, <1>15 DEF ViewInv

-----------------------------------------------------------------------------
(* The view. *)

LEMMA ViewInitially == ViewInit => ViewInv
<1> SUFFICES ASSUME ViewInit PROVE ViewInv
  OBVIOUS
<1>1. /\ chain \in [params : {0}, status : [Nodes -> {"OK", Absent}], shards : ShardMaps]
      /\ changes = 0 /\ disturbed = {} /\ lost = {} /\ overlapped = FALSE
      /\ events = [k \in Kinds |-> <<>>]
      /\ load = [params |-> 0, type |-> 1, listed |-> FALSE, left |-> {}]
      /\ valPerBlock = 0
      /\ view = [n \in Nodes |-> Absent]
      /\ nodeShardMap = [s \in SNodes |-> {}] /\ shardToNodes = {}
      /\ reloads = [r \in Reloads |-> IF r = 0 THEN [left |-> SNodes, read |-> {}] ELSE NoReload]
  BY DEF ViewInit
<1>2. /\ events = [k \in Kinds |-> events[k]] /\ \A k \in Kinds : events[k] = <<>> /\ events[k] \in Seq(EventsOf[k])
      /\ events["BlockParamsUpdated"] = <<>> /\ events["NodeAdded"] = <<>>
      /\ events["NodeStatusChanged"] = <<>> /\ events["SNodeMappingChanged"] = <<>>
  BY <1>1, NoEvents, KindsOfEvents
<1>3. /\ MaxChanges \in Nat /\ 0 \in 0..MaxChanges /\ 0 \in Reloads /\ "OK" \in Statuses
  BY ViewAssumption DEF Reloads
<1>4. /\ reloads[0] = [left |-> SNodes, read |-> {}]
      /\ \A r \in Reloads \ {0} : reloads[r] = [left |-> {}, read |-> {}]
      /\ \A r \in Reloads : reloads[r].read = {}
  BY <1>1, <1>3 DEF NoReload
<1>5. reloads \in [Reloads -> [left : SUBSET SNodes, read : SUBSET (SNodes \X SUBSET AllShards)]]
  BY <1>1 DEF NoReload
<1>6. load \in [params : 0..2, type : 1..Len(Types) + 1, listed : BOOLEAN, left : SUBSET Nodes]
  BY <1>1, TypesOfNodes
<1>7. ViewTypeOK
  <2>1. chain \in [params : 0..MaxChanges, status : [Nodes -> Statuses \cup {Absent}], shards : ShardMaps]
    BY <1>1, <1>3
  <2>2. view \in [Nodes -> Statuses \cup {Absent}] /\ nodeShardMap \in [SNodes -> SUBSET AllShards]
    BY <1>1
  <2> QED
    BY <1>1, <1>2, <1>3, <1>5, <1>6, <2>1, <2>2 DEF ViewTypeOK
<1>8. ParamsFollow
  BY <1>1, <1>2 DEF ParamsFollow
<1>9. ~NodesSubscribed /\ \A n \in Nodes : ~AlreadyRead(n)
  BY <1>1, TypesOfNodes DEF NodesSubscribed, AlreadyRead
<1>10. LoadInOrder
  BY <1>1, <1>2, <1>9 DEF LoadInOrder
<1>11. NodesAreAddedOnce
  BY <1>1, <1>2, <1>9, NoEvents DEF NodesAreAddedOnce
<1>12. NodesFollow
  BY <1>9 DEF NodesFollow
<1>13. ReloadsInOrder
  BY <1>1, <1>2, <1>4 DEF ReloadsInOrder, Running, NoReload
<1>14. ShardsFollow
  <2>1. \A r \in Reloads : Running(r) => r = 0
    BY <1>4 DEF Running, NoReload
  <2>2. ASSUME \A r \in Reloads : ~Running(r)
        PROVE  shardToNodes = Derived
    <3>1. SNodes = {}
      BY <1>3, <1>4, <2>2 DEF Running, NoReload
    <3> QED
      BY <1>1, <3>1 DEF Derived
  <2>3. \A s \in SNodes : s \in reloads[0].left
    BY <1>4
  <2> QED
    BY <1>3, <2>1, <2>2, <2>3 DEF ShardsFollow
<1>15. UndisturbedNodes
  BY <1>1, <1>2, NoEvents DEF UndisturbedNodes
<1>16. UndisturbedShards
  <2>1. SNodes # {} => Running(0)
    BY <1>4 DEF Running, NoReload
  <2> QED
    BY <1>2, <1>4, <2>1, NoEvents DEF UndisturbedShards
<1> QED
  BY <1>7, <1>8, <1>10, <1>11, <1>12, <1>13, <1>14, <1>15, <1>16 DEF ViewInv

LEMMA ViewStays ==
  ASSUME ViewInv, UNCHANGED viewVars
  PROVE  ViewInv'
<1>1. UNCHANGED <<chain, changes, disturbed, events, load, valPerBlock, view,
                  nodeShardMap, shardToNodes, reloads, lost, overlapped>>
  BY DEF viewVars, chainVars, nodeVars, shardVars, history
<1>2. (NodesSubscribed' <=> NodesSubscribed) /\ (\A n : AlreadyRead(n)' <=> AlreadyRead(n))
      /\ (\A r : Running(r)' <=> Running(r)) /\ Derived' = Derived
  BY <1>1 DEF NodesSubscribed, AlreadyRead, Running, Derived
<1>3. ViewTypeOK' /\ ParamsFollow'
  BY <1>1 DEF ViewInv, ViewTypeOK, ParamsFollow
<1>4. LoadInOrder' /\ NodesAreAddedOnce' /\ NodesFollow'
  BY <1>1, NodesFrame
<1>5. ReloadsInOrder' /\ ShardsFollow'
  BY <1>1, ShardsFrame
<1>6. UndisturbedNodes' /\ UndisturbedShards'
  BY <1>1, UndisturbedFrame DEF ViewInv, UndisturbedNodes
<1> QED
  BY <1>3, <1>4, <1>5, <1>6 DEF ViewInv

LEMMA ViewKeeps ==
  ASSUME ViewInv, ContractChanges \/ ViewStep
  PROVE  ViewInv'
<1>1. CASE ContractChanges
  BY <1>1, UpdateBlockParamsKeeps, AddNodeKeeps, ChangeNodeStatusKeeps, ReshardKeeps DEF ContractChanges
<1>2. CASE Load
  BY <1>2, LoadConstantsKeeps, GetNodesKeeps, GetNodeInfoKeeps DEF Load
<1>3. CASE Reload
  BY <1>3, GetNodeShardsKeeps, SetNodeShardsKeeps DEF Reload
<1>4. CASE Handle
  BY <1>4, OnSNodeMappingChangedKeeps, OnBlockParamsUpdatedKeeps, OnNodeAddedKeeps,
     OnNodeStatusChangedKeeps DEF Handle
<1> QED
  BY <1>1, <1>2, <1>3, <1>4 DEF ViewStep

\* What the parts of the invariant come to once everything is handled.
LEMMA QuietIsRight == ViewInv => ViewFollowsContract
<1> SUFFICES ASSUME ViewInv, Quiet
             PROVE  /\ "params" \notin lost => valPerBlock = chain.params
                    /\ \A n \in Nodes \ lost : (n \in ANodes => ArchivalNodesOn) => view[n] = chain.status[n]
                    /\ ~overlapped => \A s \in SNodes \ lost :
                         \A shard \in AllShards : <<shard, s>> \in shardToNodes <=> shard \in chain.shards[s]
  BY DEF ViewFollowsContract
<1>1. /\ NodesSubscribed /\ \A r \in Reloads : ~Running(r)
      /\ events["BlockParamsUpdated"] = <<>> /\ events["NodeAdded"] = <<>>
      /\ events["NodeStatusChanged"] = <<>> /\ events["SNodeMappingChanged"] = <<>>
  BY KindsOfEvents DEF Quiet
<1>2. load.params = 2
  <2>1. load.type # 1
    BY <1>1, TypesOfNodes DEF NodesSubscribed
  <2> QED
    BY <2>1, LoadTypes DEF ViewInv, LoadInOrder
<1>3. "params" \notin lost => valPerBlock = chain.params
  BY <1>1, <1>2 DEF ViewInv, ParamsFollow
<1>4. ASSUME NEW n \in Nodes \ lost, n \in ANodes => ArchivalNodesOn
      PROVE  view[n] = chain.status[n]
  <2>1. AlreadyRead(n)
    BY <1>1, <1>4, ReadIfSubscribed DEF ViewInv
  <2> QED
    BY <1>1, <2>1, NoEvents DEF ViewInv, NodesFollow
<1>5. ASSUME ~overlapped, NEW s \in SNodes \ lost, NEW shard \in AllShards
      PROVE  <<shard, s>> \in shardToNodes <=> shard \in chain.shards[s]
  <2>1. shardToNodes = Derived
    BY <1>1, <1>5 DEF ViewInv, ShardsFollow
  <2>2. \A r \in Reloads : reloads[r].left = {} /\ reloads[r].read = {}
    BY <1>1, ReloadTypes
  <2>3. nodeShardMap[s] = chain.shards[s]
    BY <1>1, <1>5, <2>2, NoEvents DEF ViewInv, ShardsFollow
  <2> QED
    BY <2>1, <2>3 DEF Derived
<1> QED
  BY <1>3, <1>4, <1>5

-----------------------------------------------------------------------------
(* The delivery, beside the view. *)

\* Steps of the view disturb what the contracts change, and nothing else.
LEMMA ViewStepFacts ==
  ASSUME ViewInv, ContractChanges \/ ViewStep \/ UNCHANGED viewVars
  PROVE  /\ NodesSubscribed => NodesSubscribed'
         /\ disturbed \subseteq disturbed'
         /\ \A n \in Nodes \ disturbed' : chain'.status[n] = chain.status[n]
         /\ \A s \in SNodes \ disturbed' : chain'.shards[s] = chain.shards[s]
<1>1. chain \in [params : 0..MaxChanges, status : [Nodes -> Statuses \cup {Absent}], shards : ShardMaps]
  BY DEF ViewInv, ViewTypeOK
<1>2. CASE UpdateBlockParams
  BY <1>1, <1>2 DEF UpdateBlockParams, Emit, nodeVars, NodesSubscribed
<1>3. ASSUME NEW n \in Nodes, AddNode(n) \/ \E status \in Statuses : ChangeNodeStatus(n, status)
      PROVE  /\ NodesSubscribed => NodesSubscribed'
             /\ disturbed \subseteq disturbed'
             /\ \A m \in Nodes \ disturbed' : chain'.status[m] = chain.status[m]
             /\ \A s \in SNodes \ disturbed' : chain'.shards[s] = chain.shards[s]
  <2>1. load' = load /\ disturbed' = disturbed \cup {n}
    BY <1>3 DEF AddNode, ChangeNodeStatus, Emit, nodeVars
  <2>2. \E status : chain' = [chain EXCEPT !.status[n] = status]
    BY <1>3 DEF AddNode, ChangeNodeStatus
  <2> QED
    BY <1>1, <2>1, <2>2 DEF NodesSubscribed
<1>4. ASSUME NEW shards \in ShardMaps, Reshard(shards)
      PROVE  /\ NodesSubscribed => NodesSubscribed'
             /\ disturbed \subseteq disturbed'
             /\ \A m \in Nodes \ disturbed' : chain'.status[m] = chain.status[m]
             /\ \A s \in SNodes \ disturbed' : chain'.shards[s] = chain.shards[s]
  <2>1. load' = load /\ disturbed' = disturbed \cup {s \in SNodes : shards[s] # chain.shards[s]}
    BY <1>4 DEF Reshard, Emit, nodeVars
  <2>2. chain' = [chain EXCEPT !.shards = shards]
    BY <1>4 DEF Reshard
  <2>3. chain'.shards = shards /\ chain'.status = chain.status
    BY <1>1, <2>2
  <2> QED
    BY <2>1, <2>3 DEF NodesSubscribed
<1>5. CASE LoadConstants
  BY <1>5, LoadTypes DEF LoadConstants, Loads, chainVars, NodesSubscribed
<1>6. CASE GetNodes \/ \E n \in Nodes : GetNodeInfo(n)
  <2>1. ~NodesSubscribed
    BY <1>6 DEF GetNodes, GetNodeInfo, ViewInv, LoadInOrder
  <2>2. UNCHANGED <<chain, disturbed>>
    BY <1>6 DEF GetNodes, GetNodeInfo, Loads, chainVars
  <2> QED
    BY <2>1, <2>2
<1>7. CASE Reload \/ Handle \/ UNCHANGED viewVars
  <2>1. UNCHANGED <<chain, disturbed, load>>
    BY <1>7 DEF Reload, Handle, GetNodeShards, SetNodeShards, OnSNodeMappingChanged, OnBlockParamsUpdated,
                OnNodeAdded, OnNodeStatusChanged, TakeEvent, viewVars, chainVars, nodeVars
  <2> QED
    BY <2>1 DEF NodesSubscribed
<1> QED
  BY <1>2, <1>3, <1>4, <1>5, <1>6, <1>7 DEF ContractChanges, ViewStep, Load

\* A node that serves calls knows the nodes and shards that never changed.
LEMMA ServingKnows ==
  ASSUME ViewInv, NodesSubscribed, NEW s \in SNodes \ disturbed
  PROVE  /\ view[s] = chain.status[s]
         /\ \A shard \in AllShards : <<shard, s>> \in shardToNodes <=> shard \in chain.shards[s]
<1>1. load.params = 2
  <2>1. load.type # 1
    BY TypesOfNodes DEF NodesSubscribed
  <2> QED
    BY <2>1, LoadTypes DEF ViewInv, LoadInOrder
<1>2. ~Running(0)
  BY <1>1 DEF ViewInv, ReloadsInOrder
<1>3. view[s] = chain.status[s]
  <2>1. s \in Nodes \ lost /\ s \notin ANodes
    BY ViewAssumption DEF ViewInv, UndisturbedNodes, Nodes
  <2>2. AlreadyRead(s)
    BY <2>1, ReadIfSubscribed DEF ViewInv
  <2>3. /\ \A i \in 1..Len(events["NodeAdded"]) : events["NodeAdded"][i] # s
        /\ \A i \in 1..Len(events["NodeStatusChanged"]) : events["NodeStatusChanged"][i][1] # s
    BY <2>1 DEF ViewInv, UndisturbedNodes
  <2> QED
    BY <2>1, <2>2, <2>3 DEF ViewInv, NodesFollow
<1> QED
  BY <1>2, <1>3 DEF ViewInv, UndisturbedShards

LEMMA FirstTries ==
  ASSUME NEW n \in Nodes
  PROVE  /\ FirstState(n) \in {"thrown", "hash", "DO_NOT_RETRY"}
         /\ view[n] \in Enabled /\ n \in WithUrl => FirstState(n) = "hash"
BY DEF FirstState, Enabled, HasUrl, Absent

DeliveryTypeOK ==
  /\ publication \in {"idle", "sending", "queued", "failed"}
  /\ sends \in [Nodes -> [state : States, retriesLeft : 0..RetryCount]]
  /\ stored \subseteq Nodes /\ rejected \subseteq Nodes
  /\ failures \in [Nodes -> 0..RetryCount + 1]

\* A publication fails if no node is known for a shard.
FailsRightly ==
  publication = "failed" => \E shard \in AffectedShards :
    ~\E s \in SNodes : s \notin disturbed /\ shard \in chain.shards[s]

DeliveryInv == DeliveryTypeOK /\ RetriesAreCounted /\ SendsReach /\ FailsRightly

LEMMA DeliveryFrame ==
  ASSUME ViewInv, DeliveryInv, UNCHANGED deliveryVars,
         ContractChanges \/ ViewStep \/ UNCHANGED viewVars
  PROVE  DeliveryInv'
<1>1. UNCHANGED <<publication, sends, stored, rejected, failures>>
  BY DEF deliveryVars
<1>2. DeliveryTypeOK' /\ RetriesAreCounted'
  BY <1>1 DEF DeliveryInv, DeliveryTypeOK, RetriesAreCounted
<1>3. \A s \in SNodes : Serves(s)' => Serves(s)
  <2>1. SNodes \subseteq Nodes
    BY DEF Nodes
  <2> QED
    BY <2>1, ViewStepFacts DEF Serves
<1>4. SendsReach'
  BY <1>1, <1>3, ViewStepFacts DEF DeliveryInv, SendsReach, Serving
<1>5. FailsRightly'
  BY <1>1, ViewStepFacts DEF DeliveryInv, FailsRightly
<1> QED
  BY <1>2, <1>4, <1>5 DEF DeliveryInv

LEMMA PublishKeeps ==
  ASSUME ViewInv, DeliveryInv, PublishFinalizedBlock
  PROVE  DeliveryInv'
<1> DEFINE affectedSNodes == UNION {GetStorageNodesForShard(shard) : shard \in AffectedShards}
           affectedANodes == {n \in ANodes : view[n] # Absent}
<1>1. /\ NodesSubscribed /\ publication = "idle"
      /\ UNCHANGED <<chain, disturbed, load, view, stored, rejected, failures>>
  BY DEF PublishFinalizedBlock, Serving, viewVars, chainVars, nodeVars
<1>2. NodesSubscribed' /\ (\A s \in SNodes : Serves(s)' <=> Serves(s))
  BY <1>1 DEF NodesSubscribed, Serves
<1>3. \A n \in Nodes : sends[n].state = "none" /\ failures[n] = 0
  BY <1>1 DEF DeliveryInv, SendsReach, RetriesAreCounted
<1>4. CASE publication' = "failed" /\ sends' = sends
           /\ \E shard \in AffectedShards : GetStorageNodesForShard(shard) = {}
  <2>1. FailsRightly'
    <3>1. PICK shard \in AffectedShards : GetStorageNodesForShard(shard) = {}
      BY <1>4
    <3>2. \A s \in SNodes \ disturbed : shard \notin chain.shards[s]
      BY <1>1, <3>1, ServingKnows, DeliveryAssumption DEF GetStorageNodesForShard
    <3> QED
      BY <1>1, <3>2 DEF FailsRightly
  <2>2. DeliveryTypeOK' /\ RetriesAreCounted'
    BY <1>1, <1>4 DEF DeliveryInv, DeliveryTypeOK, RetriesAreCounted
  <2>3. SendsReach'
    BY <1>2, <1>3, <1>4 DEF SendsReach, Serving
  <2> QED
    BY <2>1, <2>2, <2>3 DEF DeliveryInv
<1>5. CASE /\ publication' = "sending"
           /\ sends' = [n \in Nodes |->
                CASE n \in affectedSNodes -> SendBlockToSNode(n)
                  [] n \in affectedANodes -> SendBlockToANode(n)
                  [] OTHER -> sends[n]]
  <2>1. affectedSNodes \subseteq SNodes /\ affectedANodes \subseteq ANodes /\ SNodes \cap ANodes = {}
    BY ViewAssumption DEF GetStorageNodesForShard
  <2> HIDE DEF affectedSNodes, affectedANodes
  <2>2. ASSUME NEW n \in Nodes
        PROVE  \/ n \in affectedSNodes /\ sends'[n] = [state |-> FirstState(n), retriesLeft |-> RetryCount]
               \/ n \in affectedANodes /\ sends'[n] = [state |-> FirstState(n), retriesLeft |-> 0]
               \/ n \notin affectedSNodes /\ sends'[n] = sends[n]
    <3>1. CASE n \in affectedSNodes
      BY <1>5, <2>1, <3>1 DEF SendBlockToSNode
    <3>2. CASE n \notin affectedSNodes /\ n \in affectedANodes
      BY <1>5, <3>2 DEF SendBlockToANode
    <3>3. CASE n \notin affectedSNodes /\ n \notin affectedANodes
      BY <1>5, <3>3
    <3> QED
      BY <3>1, <3>2, <3>3
  <2>3. \A n \in Nodes : sends'[n] \in [state : States, retriesLeft : 0..RetryCount]
    <3>1. RetryCount \in 0..RetryCount /\ 0 \in 0..RetryCount
      BY DeliveryAssumption
    <3>2. \A n \in Nodes : FirstState(n) \in States
      BY FirstTries DEF States
    <3>3. \A n \in Nodes : sends[n] \in [state : States, retriesLeft : 0..RetryCount]
      BY DEF DeliveryInv, DeliveryTypeOK
    <3>4. \A state \in States, left \in 0..RetryCount :
             [state |-> state, retriesLeft |-> left] \in [state : States, retriesLeft : 0..RetryCount]
      OBVIOUS
    <3>5. \A n \in Nodes :
            /\ [state |-> FirstState(n), retriesLeft |-> RetryCount] \in [state : States, retriesLeft : 0..RetryCount]
            /\ [state |-> FirstState(n), retriesLeft |-> 0] \in [state : States, retriesLeft : 0..RetryCount]
      BY <3>1, <3>2, <3>4
    <3> QED
      BY <2>2, <3>3, <3>5
  <2>4. DeliveryTypeOK'
    BY <1>1, <1>5, <2>3 DEF DeliveryInv, DeliveryTypeOK
  <2>5. RetriesAreCounted'
    <3> SUFFICES ASSUME NEW n \in Nodes
                 PROVE  LET send == sends'[n]
                            failed == IF send.state \in {"timer", "ERROR_CAN_RETRY"} THEN 1 ELSE 0
                        IN /\ failures[n] + send.retriesLeft <= RetryCount + failed
                           /\ send.state = "none" => failures[n] = 0
                           /\ send.state = "timer" => send.retriesLeft > 0
                           /\ send.state = "ERROR_CAN_RETRY" => send.retriesLeft = 0
                           /\ n \in SNodes /\ send.state # "none" =>
                                failures[n] + send.retriesLeft = RetryCount + failed
      BY <1>1 DEF RetriesAreCounted
    <3>1. CASE n \in affectedSNodes /\ sends'[n] = [state |-> FirstState(n), retriesLeft |-> RetryCount]
      BY <1>3, <3>1, FirstTries, DeliveryAssumption
    <3>2. CASE n \in affectedANodes /\ sends'[n] = [state |-> FirstState(n), retriesLeft |-> 0]
      BY <1>3, <2>1, <3>2, FirstTries, DeliveryAssumption
    <3>3. CASE sends'[n] = sends[n]
      BY <1>3, <3>3 DEF DeliveryInv, RetriesAreCounted
    <3> QED
      BY <2>2, <3>1, <3>2, <3>3
  <2>6. ASSUME NEW s \in SNodes, Serves(s)
        PROVE  sends'[s].state = "hash"
    <3>1. s \in SNodes \ disturbed /\ s \in Nodes
      BY <2>6 DEF Serves, Nodes
    <3>2. PICK shard \in AffectedShards : shard \in chain.shards[s]
      BY <2>6 DEF Serves
    <3>3. view[s] = chain.status[s] /\ <<shard, s>> \in shardToNodes
      BY <1>1, <3>1, <3>2, ServingKnows, DeliveryAssumption
    <3>4. s \in affectedSNodes
      BY <3>3 DEF affectedSNodes, GetStorageNodesForShard
    <3>5. FirstState(s) = "hash"
      BY <2>6, <3>1, <3>3, FirstTries DEF Serves
    <3> QED
      BY <1>5, <2>1, <3>1, <3>4, <3>5 DEF SendBlockToSNode
  <2>7. SendsReach'
    BY <1>2, <1>5, <2>6 DEF SendsReach, Serving
  <2>8. FailsRightly'
    BY <1>5 DEF FailsRightly
  <2> QED
    BY <2>4, <2>5, <2>7, <2>8 DEF DeliveryInv
<1> QED
  BY <1>4, <1>5 DEF PublishFinalizedBlock

\* What the sending to a node may be, after so many failed calls.
Counted(n, send, failed) ==
  LET failing == IF send.state \in {"timer", "ERROR_CAN_RETRY"} THEN 1 ELSE 0
  IN /\ failed + send.retriesLeft <= RetryCount + failing
     /\ send.state = "timer" => send.retriesLeft > 0
     /\ send.state = "ERROR_CAN_RETRY" => send.retriesLeft = 0
     /\ n \in SNodes => failed + send.retriesLeft = RetryCount + failing

LEMMA SendKeeps ==
  ASSUME ViewInv, DeliveryInv, UNCHANGED <<viewVars, publication>>,
         NEW n \in Nodes, NEW state \in States, NEW left \in 0..RetryCount, NEW failed \in 0..RetryCount + 1,
         sends[n].state # "none", state # "none",
         sends' = [sends EXCEPT ![n] = [state |-> state, retriesLeft |-> left]],
         failures' = [failures EXCEPT ![n] = failed],
         stored \subseteq stored', stored' \subseteq Nodes, rejected \subseteq rejected', rejected' \subseteq Nodes,
         Counted(n, [state |-> state, retriesLeft |-> left], failed),
         Serves(n) /\ n \in SNodes =>
           /\ state # "thrown"
           /\ state \in {"SENT", "DO_NOT_RETRY"} => n \in stored' \cup rejected'
  PROVE  DeliveryInv'
<1>1. /\ UNCHANGED <<chain, disturbed, load, publication>>
      /\ SNodes \subseteq Nodes
  BY DEF viewVars, chainVars, nodeVars, Nodes
<1>2. /\ sends'[n] = [state |-> state, retriesLeft |-> left]
      /\ \A m \in Nodes \ {n} : sends'[m] = sends[m]
  BY DEF DeliveryInv, DeliveryTypeOK
<1>3. failures'[n] = failed /\ \A m \in Nodes \ {n} : failures'[m] = failures[m]
  BY DEF DeliveryInv, DeliveryTypeOK
<1>4. DeliveryTypeOK'
  <2>1. sends' \in [Nodes -> [state : States, retriesLeft : 0..RetryCount]]
    BY DEF DeliveryInv, DeliveryTypeOK
  <2>2. failures' \in [Nodes -> 0..RetryCount + 1]
    BY DEF DeliveryInv, DeliveryTypeOK
  <2> QED
    BY <1>1, <2>1, <2>2 DEF DeliveryInv, DeliveryTypeOK
<1>5. RetriesAreCounted'
  <2> DEFINE Holds(m, send, count) ==
        LET failing == IF send.state \in {"timer", "ERROR_CAN_RETRY"} THEN 1 ELSE 0
        IN /\ count + send.retriesLeft <= RetryCount + failing
           /\ send.state = "none" => count = 0
           /\ send.state = "timer" => send.retriesLeft > 0
           /\ send.state = "ERROR_CAN_RETRY" => send.retriesLeft = 0
           /\ m \in SNodes /\ send.state # "none" => count + send.retriesLeft = RetryCount + failing
  <2>1. \A m \in Nodes : Holds(m, sends[m], failures[m])
    BY DEF DeliveryInv, RetriesAreCounted
  <2>2. Holds(n, sends'[n], failures'[n])
    BY <1>2, <1>3 DEF Counted
  <2>3. \A m \in Nodes \ {n} : Holds(m, sends'[m], failures'[m])
    BY <1>2, <1>3, <2>1
  <2>4. \A m \in Nodes : Holds(m, sends'[m], failures'[m])
    BY <2>2, <2>3
  <2> QED
    BY <2>4 DEF RetriesAreCounted
<1>6. SendsReach'
  <2>1. publication \notin {"idle", "failed"} /\ (NodesSubscribed' <=> NodesSubscribed)
    BY <1>1 DEF DeliveryInv, SendsReach, NodesSubscribed
  <2>2. \A s \in SNodes : Serves(s)' <=> Serves(s)
    BY <1>1 DEF Serves
  <2>3. ASSUME NEW s \in SNodes, Serves(s), publication \in {"sending", "queued"}
        PROVE  /\ sends'[s].state \notin {"none", "thrown"}
               /\ sends'[s].state \in {"SENT", "DO_NOT_RETRY"} => s \in stored' \cup rejected'
    <3>1. CASE s = n
      <4>1. Serves(n) /\ n \in SNodes
        BY <2>3, <3>1 DEF Serves
      <4>2. /\ state # "thrown"
            /\ state \in {"SENT", "DO_NOT_RETRY"} => n \in stored' \cup rejected'
        BY <4>1
      <4>3. sends'[n].state = state
        BY <1>2
      <4> QED
        BY <3>1, <4>2, <4>3
    <3>2. CASE s # n
      <4>1. s \in Nodes \ {n}
        BY <1>1, <3>2
      <4>2. sends'[s] = sends[s] /\ stored \cup rejected \subseteq stored' \cup rejected'
        BY <1>2, <4>1
      <4>3. /\ sends[s].state \notin {"none", "thrown"}
            /\ sends[s].state \in {"SENT", "DO_NOT_RETRY"} => s \in stored \cup rejected
        BY <2>3 DEF DeliveryInv, SendsReach
      <4> QED
        BY <4>2, <4>3
    <3> QED
      BY <3>1, <3>2
  <2> QED
    BY <1>1, <2>1, <2>2, <2>3 DEF DeliveryInv, SendsReach, Serving
<1>7. FailsRightly'
  BY <1>1 DEF DeliveryInv, FailsRightly
<1> QED
  BY <1>4, <1>5, <1>6, <1>7 DEF DeliveryInv

LEMMA SettingState ==
  ASSUME DeliveryTypeOK, NEW n \in Nodes, NEW state
  PROVE  /\ sends[n].retriesLeft \in 0..RetryCount /\ failures[n] \in 0..RetryCount + 1
         /\ [sends EXCEPT ![n].state = state] =
              [sends EXCEPT ![n] = [state |-> state, retriesLeft |-> sends[n].retriesLeft]]
         /\ failures = [failures EXCEPT ![n] = failures[n]]
<1>1. /\ sends \in [Nodes -> [state : States, retriesLeft : 0..RetryCount]]
      /\ failures \in [Nodes -> 0..RetryCount + 1]
  BY DEF DeliveryTypeOK
<1>2. sends[n].retriesLeft \in 0..RetryCount /\ failures[n] \in 0..RetryCount + 1
  BY <1>1
<1>3. [sends[n] EXCEPT !.state = state] = [state |-> state, retriesLeft |-> sends[n].retriesLeft]
  BY <1>1
<1>4. [sends EXCEPT ![n].state = state] = [sends EXCEPT ![n] = [sends[n] EXCEPT !.state = state]]
  OBVIOUS
<1>5. failures = [failures EXCEPT ![n] = failures[n]]
  BY <1>1
<1> QED
  BY <1>2, <1>3, <1>4, <1>5

LEMMA HashReplyKeeps ==
  ASSUME ViewInv, DeliveryInv, NEW n \in Nodes, HashReply(n)
  PROVE  DeliveryInv'
<1> DEFINE state == IF n \in stored THEN "DO_NOT_RETRY" ELSE "block"
           left == sends[n].retriesLeft
<1>1. /\ UNCHANGED <<viewVars, publication, stored, rejected, failures>>
      /\ sends[n].state = "hash" /\ sends' = [sends EXCEPT ![n].state = state]
  BY DEF HashReply, Becomes
<1>2. /\ left \in 0..RetryCount /\ failures[n] \in 0..RetryCount + 1
      /\ sends' = [sends EXCEPT ![n] = [state |-> state, retriesLeft |-> left]]
      /\ failures' = [failures EXCEPT ![n] = failures[n]]
      /\ stored \subseteq Nodes /\ rejected \subseteq Nodes
  BY <1>1, SettingState DEF DeliveryInv, DeliveryTypeOK
<1>3. state \in States \ {"none", "thrown", "timer", "ERROR_CAN_RETRY", "SENT"}
      /\ (state = "DO_NOT_RETRY" => n \in stored)
  BY DEF States
<1> HIDE DEF state, left
<1>4. Counted(n, [state |-> state, retriesLeft |-> left], failures[n])
  <2>1. /\ failures[n] + left <= RetryCount
        /\ n \in SNodes => failures[n] + left = RetryCount
    BY <1>1, DeliveryAssumption DEF DeliveryInv, RetriesAreCounted, left
  <2> QED
    BY <1>2, <1>3, <2>1, DeliveryAssumption DEF Counted
<1> QED
  BY <1>1, <1>2, <1>3, <1>4, SendKeeps

LEMMA BlockReplyKeeps ==
  ASSUME ViewInv, DeliveryInv, NEW n \in Nodes, BlockReply(n)
  PROVE  DeliveryInv'
<1> DEFINE left == sends[n].retriesLeft
<1>1. /\ UNCHANGED <<viewVars, publication, failures>>
      /\ sends[n].state = "block" /\ sends' = [sends EXCEPT ![n].state = "SENT"]
  BY DEF BlockReply, Becomes
<1>2. /\ left \in 0..RetryCount /\ failures[n] \in 0..RetryCount + 1
      /\ sends' = [sends EXCEPT ![n] = [state |-> "SENT", retriesLeft |-> left]]
      /\ failures' = [failures EXCEPT ![n] = failures[n]]
  BY <1>1, SettingState DEF DeliveryInv
<1>3. /\ stored \subseteq stored' /\ stored' \subseteq Nodes
      /\ rejected \subseteq rejected' /\ rejected' \subseteq Nodes
      /\ n \in stored' \cup rejected'
  BY DEF BlockReply, DeliveryInv, DeliveryTypeOK
<1> HIDE DEF left
<1>4. Counted(n, [state |-> "SENT", retriesLeft |-> left], failures[n])
  <2>1. /\ failures[n] + left <= RetryCount
        /\ n \in SNodes => failures[n] + left = RetryCount
    BY <1>1, DeliveryAssumption DEF DeliveryInv, RetriesAreCounted, left
  <2> QED
    BY <1>2, <2>1, DeliveryAssumption DEF Counted
<1> QED
  BY <1>1, <1>2, <1>3, <1>4, SendKeeps DEF States

LEMMA CallFailsKeeps ==
  ASSUME ViewInv, DeliveryInv, NEW n \in Nodes, CallFails(n)
  PROVE  DeliveryInv'
<1> DEFINE left == sends[n].retriesLeft
           state == IF left > 0 THEN "timer" ELSE "ERROR_CAN_RETRY"
<1>1. /\ UNCHANGED <<viewVars, publication, rejected>>
      /\ sends[n].state \in {"hash", "block"}
      /\ sends' = [sends EXCEPT ![n].state = state]
      /\ failures' = [failures EXCEPT ![n] = failures[n] + 1]
      /\ stored \subseteq stored' /\ stored' \subseteq stored \cup {n}
  BY DEF CallFails, Retry
<1>2. /\ left \in 0..RetryCount /\ failures[n] \in 0..RetryCount + 1
      /\ sends' = [sends EXCEPT ![n] = [state |-> state, retriesLeft |-> left]]
      /\ stored \subseteq Nodes /\ rejected \subseteq Nodes
  BY <1>1, SettingState DEF DeliveryInv, DeliveryTypeOK
<1>3. /\ failures[n] + left <= RetryCount
      /\ n \in SNodes => failures[n] + left = RetryCount
  BY <1>1, DeliveryAssumption DEF DeliveryInv, RetriesAreCounted
<1>4. /\ failures[n] + 1 \in 0..RetryCount + 1
      /\ failures[n] + 1 + left <= RetryCount + 1
      /\ n \in SNodes => failures[n] + 1 + left = RetryCount + 1
  BY <1>2, <1>3, DeliveryAssumption
<1>5. state \in {"timer", "ERROR_CAN_RETRY"} /\ (state = "timer" => left > 0)
      /\ (state = "ERROR_CAN_RETRY" => left = 0)
  BY <1>2
<1> HIDE DEF state, left
<1>6. Counted(n, [state |-> state, retriesLeft |-> left], failures[n] + 1)
  BY <1>4, <1>5 DEF Counted
<1>7. state \in States \ {"none", "thrown", "SENT", "DO_NOT_RETRY"}
  BY <1>5 DEF States
<1>8. rejected \subseteq rejected' /\ rejected' \subseteq Nodes /\ stored' \subseteq Nodes
      /\ sends[n].state # "none" /\ UNCHANGED <<viewVars, publication>>
  BY <1>1, <1>2
<1> QED
  BY <1>1, <1>2, <1>4, <1>6, <1>7, <1>8, SendKeeps

LEMMA RetryTimerKeeps ==
  ASSUME ViewInv, DeliveryInv, NEW n \in Nodes, RetryTimer(n)
  PROVE  DeliveryInv'
<1> DEFINE left == sends[n].retriesLeft
           state == FirstState(n)
<1>1. /\ UNCHANGED <<viewVars, publication, stored, rejected, failures>>
      /\ sends[n].state = "timer"
      /\ sends' = [sends EXCEPT ![n] = [state |-> state, retriesLeft |-> left - 1]]
  BY DEF RetryTimer, DeliveryInv, DeliveryTypeOK
<1>2. /\ left \in 0..RetryCount /\ failures[n] \in 0..RetryCount + 1
      /\ failures' = [failures EXCEPT ![n] = failures[n]]
      /\ stored \subseteq Nodes /\ rejected \subseteq Nodes
  BY <1>1 DEF DeliveryInv, DeliveryTypeOK
<1>3. /\ failures[n] + left <= RetryCount + 1 /\ left > 0
      /\ n \in SNodes => failures[n] + left = RetryCount + 1
  BY <1>1, DeliveryAssumption DEF DeliveryInv, RetriesAreCounted
<1>4. state \in {"thrown", "hash", "DO_NOT_RETRY"} /\ state \in States
  BY FirstTries DEF States
<1>5. ASSUME Serves(n), n \in SNodes
      PROVE  state = "hash"
  <2>1. NodesSubscribed
    BY <1>1 DEF DeliveryInv, SendsReach, Serving
  <2>2. view[n] = chain.status[n]
    BY <1>5, <2>1, ServingKnows DEF Serves
  <2> QED
    BY <1>5, <2>2, FirstTries DEF Serves
<1> HIDE DEF state, left
<1>6. left - 1 \in 0..RetryCount /\ Counted(n, [state |-> state, retriesLeft |-> left - 1], failures[n])
  <2>1. left - 1 \in 0..RetryCount
    BY <1>2, <1>3, DeliveryAssumption
  <2>2. /\ failures[n] + (left - 1) <= RetryCount
        /\ n \in SNodes => failures[n] + (left - 1) = RetryCount
    BY <1>2, <1>3, DeliveryAssumption
  <2> QED
    BY <1>4, <2>1, <2>2, DeliveryAssumption DEF Counted
<1> QED
  BY <1>1, <1>2, <1>4, <1>5, <1>6, SendKeeps

LEMMA QueueAcceptKeeps ==
  ASSUME ViewInv, DeliveryInv, QueueAccept
  PROVE  DeliveryInv'
<1>1. /\ publication = "sending" /\ publication' = "queued"
      /\ UNCHANGED <<chain, disturbed, load, sends, stored, rejected, failures>>
  BY DEF QueueAccept, viewVars, chainVars, nodeVars
<1>2. DeliveryTypeOK' /\ RetriesAreCounted' /\ FailsRightly'
  BY <1>1 DEF DeliveryInv, DeliveryTypeOK, RetriesAreCounted, FailsRightly
<1>3. SendsReach'
  BY <1>1 DEF DeliveryInv, SendsReach, Serving, NodesSubscribed, Serves
<1> QED
  BY <1>2, <1>3 DEF DeliveryInv

\* The invariant, and what it comes to for the runs.
IInv == ViewInv /\ DeliveryInv

\* A send that has ended without the block at the node has used up its calls.
LEMMA EndsAreRight == IInv => TypeOK /\ ViewFollowsContract /\ ShardsAreServed
<1> SUFFICES ASSUME IInv
             PROVE  TypeOK /\ ViewFollowsContract /\ ShardsAreServed
  OBVIOUS
<1>1. TypeOK
  BY DEF IInv, ViewInv, DeliveryInv, DeliveryTypeOK, TypeOK
<1>2. ViewFollowsContract
  BY QuietIsRight DEF IInv
<1>3. ASSUME publication = "queued", NEW s \in SNodes, Serves(s), sends[s].state \in Ended
      PROVE  s \in stored \cup rejected \/ failures[s] = RetryCount + 1
  <2>1. s \in Nodes
    BY DEF Nodes
  <2>2. sends[s].state \in {"SENT", "DO_NOT_RETRY", "ERROR_CAN_RETRY"}
        /\ (sends[s].state \in {"SENT", "DO_NOT_RETRY"} => s \in stored \cup rejected)
    BY <1>3 DEF IInv, DeliveryInv, SendsReach, Ended, States
  <2>3. CASE sends[s].state = "ERROR_CAN_RETRY"
    <3>1. sends[s].retriesLeft = 0 /\ failures[s] + sends[s].retriesLeft = RetryCount + 1
      BY <2>1, <2>3 DEF IInv, DeliveryInv, RetriesAreCounted
    <3>2. failures[s] \in 0..RetryCount + 1
      BY <2>1 DEF IInv, DeliveryInv, DeliveryTypeOK
    <3> QED
      BY <3>1, <3>2, DeliveryAssumption
  <2> QED
    BY <2>2, <2>3
<1>4. ShardsAreServed
  BY <1>3 DEF ShardsAreServed, IInv, DeliveryInv, FailsRightly
<1> QED
  BY <1>1, <1>2, <1>4

LEMMA Initially == Init => IInv
<1> SUFFICES ASSUME Init
             PROVE  IInv
  OBVIOUS
<1>1. /\ publication = "idle"
      /\ sends = [n \in Nodes |-> [state |-> "none", retriesLeft |-> 0]]
      /\ stored = {} /\ rejected = {} /\ failures = [n \in Nodes |-> 0]
  BY DEF Init
<1>2. 0 \in 0..RetryCount /\ 0 \in 0..RetryCount + 1
  BY DeliveryAssumption
<1>3. DeliveryTypeOK
  <2>1. sends \in [Nodes -> [state : States, retriesLeft : 0..RetryCount]]
    BY <1>1, <1>2 DEF States
  <2> QED
    BY <1>1, <1>2, <2>1 DEF DeliveryTypeOK
<1>4. RetriesAreCounted
  <2>1. SNodes \subseteq Nodes
    BY DEF Nodes
  <2> QED
    BY <1>1, <2>1, DeliveryAssumption DEF RetriesAreCounted
<1>5. SendsReach /\ FailsRightly
  BY <1>1 DEF SendsReach, FailsRightly
<1> QED
  BY <1>3, <1>4, <1>5, ViewInitially DEF Init, IInv, DeliveryInv

LEMMA StepKeeps == IInv /\ [Next]_vars => IInv'
<1> SUFFICES ASSUME IInv, [Next]_vars
             PROVE  IInv'
  OBVIOUS
<1>1. ViewInv /\ DeliveryInv
  BY DEF IInv
<1>2. CASE (ContractChanges \/ ViewStep) /\ UNCHANGED deliveryVars
  BY <1>1, <1>2, ViewKeeps, DeliveryFrame DEF IInv
<1>3. CASE Deliver
  <2>1. UNCHANGED viewVars
    BY <1>3 DEF Deliver, PublishFinalizedBlock, QueueAccept, HashReply, BlockReply, CallFails, RetryTimer
  <2>2. DeliveryInv'
    BY <1>1, <1>3, PublishKeeps, QueueAcceptKeeps, HashReplyKeeps, BlockReplyKeeps, CallFailsKeeps,
       RetryTimerKeeps DEF Deliver
  <2> QED
    BY <1>1, <2>1, <2>2, ViewStays DEF IInv
<1>4. CASE UNCHANGED vars
  <2>1. UNCHANGED viewVars /\ UNCHANGED deliveryVars
    BY <1>4 DEF vars
  <2> QED
    BY <1>1, <2>1, ViewStays, DeliveryFrame DEF IInv
<1> QED
  BY <1>2, <1>3, <1>4 DEF Next

LEMMA Invariance == Spec => []IInv
<1> QED
  BY Initially, StepKeeps, PTL DEF Spec

\* The variables have their types, whatever the contracts do and the nodes
\* answer (BlockDelivery, ContractView).
THEOREM TypeCorrect == Spec => []TypeOK
<1>1. IInv => TypeOK
  BY EndsAreRight
<1> QED
  BY <1>1, Invariance, PTL

\* For any number of nodes, shards and changes: once a node is connected and
\* has handled all events, it knows the parameters, the nodes and the shards
\* as the contracts have them, but for what was changed between being read
\* and being subscribed to, a status that overtook its node, and shards read
\* by two reloads at a time (loadVSDNodesAndSubscribeToUpdates,
\* reloadEveryAddressAndNotifyListeners).
THEOREM ViewFollows == Spec => []ViewFollowsContract
<1>1. IInv => ViewFollowsContract
  BY EndsAreRight
<1> QED
  BY <1>1, Invariance, PTL

\* For any number of retries: a storage node that the contracts left alone
\* gets the block of each of its shards, rejects it, or fails each of the
\* calls; and a publication fails only if no such node has a shard of the
\* block (publishFinalizedBlock, sendBlockToSNodeWithRetries).
THEOREM ShardsServed == Spec => []ShardsAreServed
<1>1. IInv => ShardsAreServed
  BY EndsAreRight
<1> QED
  BY <1>1, Invariance, PTL
=============================================================================
