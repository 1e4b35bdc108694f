-------------------------- MODULE ArchiveDiscovery --------------------------
(***************************************************************************)
(* DiscoveryService (WebSockets/DiscoverService.ts): which archive nodes   *)
(* answer a health check, asked once at the start and again at every       *)
(* refresh, and the events minimumNodesConnected and minimumNodesLost.     *)
(*                                                                         *)
(* A health check is one step: whether a node answers within the timeout   *)
(* is whether it is up then.  The contract's map of archive nodes keeps    *)
(* its members here; their status may change.                              *)
(***************************************************************************)
EXTENDS Naturals, FiniteSets

CONSTANTS
  \* The archive nodes of the contract.
  ANodes,
  \* DISCOVERY_MIN_ARCHIVE_NODES
  MinArchiveNodes,
  \* Bound of the model: how often a node fails or is banned.
  MaxFaults

ASSUME DiscoveryAssumption ==
  /\ IsFiniteSet(ANodes)
  /\ MinArchiveNodes \in Nat \ {0}
  /\ MaxFaults \in Nat

VARIABLES
  \* The nodes that can be reached.
  up,
  \* The nodes whose status in the contract is not OK.
  banned,
  faults,
  \* archiveNodes: "object" is the contract's own NodeInfo, whose status
  \* follows the contract; "copy" was made by a refresh with nodeStatus 0.
  archiveNodes,
  \* How far initialize or a refresh has come.
  discovery,
  \* The nodes this pass has not checked yet.
  unchecked,
  \* updatedNodes
  healthy,
  previousState,
  \* The event that was emitted and not handled yet.
  event

environmentVars == <<up, banned, faults>>
discoveryVars == <<archiveNodes, discovery, unchecked, healthy, previousState, event>>

Known == {n \in ANodes : archiveNodes[n] # "absent"}

EnoughKnown(known) == Cardinality(known) >= MinArchiveNodes

\* getActiveArchiveNodes
ActiveArchiveNodes ==
  {n \in Known : archiveNodes[n] = "copy" \/ n \notin banned}

DiscoveryTypeOK ==
  /\ up \subseteq ANodes
  /\ banned \subseteq ANodes
  /\ faults \in 0..MaxFaults
  /\ archiveNodes \in [ANodes -> {"absent", "object", "copy"}]
  /\ discovery \in {"initialize", "idle", "recheck", "ensure"}
  /\ unchecked \subseteq ANodes
  /\ healthy \subseteq ANodes
  /\ previousState \in {"connected", "disconnected"}
  /\ event \in {"none", "minimumNodesConnected", "minimumNodesLost"}

DiscoveryInit ==
  /\ up \in SUBSET ANodes
  /\ banned = {}
  /\ faults = 0
  /\ archiveNodes = [n \in ANodes |-> "absent"]
  /\ discovery = "initialize"
  /\ unchecked = ANodes
  /\ healthy = {}
  /\ previousState = "disconnected"
  /\ event = "none"

-----------------------------------------------------------------------------
(* The environment. *)

Fault == faults < MaxFaults /\ faults' = faults + 1

NodeRecovers(n) ==
  /\ n \notin up
  /\ up' = up \cup {n}
  /\ UNCHANGED <<banned, faults>>

\* The contract's NodeStatusChanged, to a status other than OK.
NodeStatusChanged(n) ==
  /\ Fault
  /\ n \notin banned
  /\ banned' = banned \cup {n}
  /\ UNCHANGED up

-----------------------------------------------------------------------------
(* The service. *)

\* The end of initialize, which always emits.
EmitInitial(known) ==
  /\ previousState' = IF EnoughKnown(known) THEN "connected" ELSE "disconnected"
  /\ event' = IF EnoughKnown(known) THEN "minimumNodesConnected" ELSE "minimumNodesLost"
  /\ discovery' = "idle"

\* The end of the interval's callback, which emits changes.
EmitChange(known) ==
  LET current == IF EnoughKnown(known) THEN "connected" ELSE "disconnected"
  IN /\ previousState' = current
     /\ event' = IF current = previousState
                   THEN event
                   ELSE IF current = "connected" THEN "minimumNodesConnected" ELSE "minimumNodesLost"
     /\ discovery' = "idle"

\* One turn of the loop of ensureMinimumConnections, over shuffled nodes: a
\* node that is known already may be checked and stored again.
AddNode(n) ==
  /\ discovery \in {"initialize", "ensure"}
  /\ n \in unchecked
  /\ ~EnoughKnown(Known)
  /\ unchecked' = unchecked \ {n}
  /\ archiveNodes' = IF n \in up THEN [archiveNodes EXCEPT ![n] = "object"] ELSE archiveNodes
  /\ UNCHANGED <<discovery, healthy, previousState, event>>

EnsureMinimumConnectionsReturns ==
  /\ discovery \in {"initialize", "ensure"}
  /\ EnoughKnown(Known) \/ unchecked = {}
  /\ unchecked' = {}
  /\ IF discovery = "initialize" THEN EmitInitial(Known) ELSE EmitChange(Known)
  /\ UNCHANGED <<archiveNodes, healthy>>

RefreshNodeStatus ==
  /\ discovery = "idle"
  /\ discovery' = "recheck"
  /\ unchecked' = Known
  /\ healthy' = {}
  /\ UNCHANGED <<archiveNodes, previousState, event>>

CheckNodeHealth(n) ==
  /\ discovery = "recheck"
  /\ n \in unchecked
  /\ unchecked' = unchecked \ {n}
  /\ healthy' = healthy \cup ({n} \cap up)
  /\ UNCHANGED <<archiveNodes, discovery, previousState, event>>

ReplaceArchiveNodes ==
  /\ discovery = "recheck"
  /\ unchecked = {}
  /\ archiveNodes' = [n \in ANodes |-> IF n \in healthy THEN "copy" ELSE "absent"]
  /\ healthy' = {}
  /\ \/ /\ EnoughKnown(healthy)
        /\ EmitChange(healthy)
        /\ UNCHANGED unchecked
     \/ /\ ~EnoughKnown(healthy)
        /\ discovery' = "ensure"
        /\ unchecked' = ANodes
        /\ UNCHANGED <<previousState, event>>

DiscoveryStep ==
  \/ \E n \in ANodes : AddNode(n) \/ CheckNodeHealth(n)
  \/ EnsureMinimumConnectionsReturns
  \/ ReplaceArchiveNodes
=============================================================================
