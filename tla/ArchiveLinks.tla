---------------------------- MODULE ArchiveLinks ----------------------------
(***************************************************************************)
(* The connections of a validator to archive nodes: WebSocketClient keeps  *)
(* them, WebSocketManager starts and stops it on the events of             *)
(* ArchiveDiscovery.                                                       *)
(*                                                                         *)
(* The client is a set of asynchronous tasks, one per socket: a handshake, *)
(* then the socket, then the delay before the reconnect that follows its   *)
(* close.  The variable links has a record per task.  The map              *)
(* archiveConnections is kept by node id, and knows at most one of them.   *)
(*                                                                         *)
(* Time is counted in monitor intervals (30 s).  A handshake ends within   *)
(* 65 s and meets at most three of them, a delay or a closing handshake    *)
(* one; a ping is sent every second interval, and a connection is stale in *)
(* the third interval after its last pong.                                 *)
(***************************************************************************)
EXTENDS ArchiveDiscovery

CONSTANTS
  \* maxReconnectAttempts
  MaxReconnectAttempts,
  \* Bound of the model: the tasks that exist at once.
  MaxLinks

ASSUME LinksAssumption ==
  /\ MaxReconnectAttempts \in Nat \ {0}
  /\ MaxLinks \in Nat \ {0}

VARIABLES
  \* The tasks.
  links,
  \* archiveConnections: the task whose socket is stored, 0 for none.
  archiveConnections,
  reconnectAttempts,
  \* connectionStates: intervals since the last pong; NeverPonged without one.
  sincePong,
  \* The number of monitor timers that run.
  timers,
  \* Whether the one that reconnectTimer holds is among them.
  reconnectTimer,
  \* How far the handler of minimumNodesLost has come.  Those of
  \* minimumNodesConnected are the tasks by "postConstruct".
  manager,
  \* The sockets whose close event shutdown waits for.
  awaited,
  wsServerInitialized,
  wsClientInitialized,
  \* History: whether an event was handled while the handler of an earlier
  \* one still ran, and whether the last one was.
  overlap

clientVars == <<links, archiveConnections, reconnectAttempts, sincePong, timers,
                reconnectTimer>>
managerVars == <<manager, awaited, wsServerInitialized, wsClientInitialized, overlap>>
vars == <<environmentVars, discoveryVars, clientVars, managerVars>>

Slots == 1..MaxLinks
NoLink == 0
StaleAfter == 3
NeverPonged == StaleAfter + 1

Free == [st |-> "free"]
Handshake(n, by, rest, attempts) ==
  [st |-> "handshake", node |-> n, by |-> by, rest |-> rest, attempts |-> attempts, age |-> 0]
Open(n) == [st |-> "open", node |-> n, alive |-> TRUE, age |-> 0]
Closing(n) == [st |-> "closing", node |-> n, age |-> 0]
Delay(n, attempts) == [st |-> "delay", node |-> n, attempts |-> attempts, age |-> 0]

LinkState ==
  {Free}
    \cup [st : {"handshake"}, node : ANodes,
          by : {"postConstruct", "monitor", "reconnect", "alternative"},
          rest : SUBSET ANodes, attempts : 0..MaxReconnectAttempts, age : 0..3]
    \cup [st : {"open"}, node : ANodes, alive : BOOLEAN, age : 0..2]
    \cup [st : {"closing"}, node : ANodes, age : 0..1]
    \cup [st : {"delay"}, node : ANodes, attempts : 0..MaxReconnectAttempts, age : 0..1]

Is(s, st) == links[s].st = st

Connected(map) == {n \in ANodes : map[n] # NoLink}

TypeOK ==
  /\ DiscoveryTypeOK
  /\ links \in [Slots -> LinkState]
  /\ archiveConnections \in [ANodes -> Slots \cup {NoLink}]
  /\ reconnectAttempts \in [ANodes -> 0..MaxReconnectAttempts]
  /\ sincePong \in [ANodes -> 0..NeverPonged]
  /\ timers \in Nat
  /\ reconnectTimer \in BOOLEAN
  /\ manager \in {"idle", "serverDown", "clientDown"}
  /\ awaited \subseteq Slots
  /\ wsServerInitialized \in BOOLEAN
  /\ wsClientInitialized \in BOOLEAN
  /\ overlap \in {"never", "before", "now"}

Init ==
  /\ DiscoveryInit
  /\ links = [s \in Slots |-> Free]
  /\ archiveConnections = [n \in ANodes |-> NoLink]
  /\ reconnectAttempts = [n \in ANodes |-> 0]
  /\ sincePong = [n \in ANodes |-> NeverPonged]
  /\ timers = 0
  /\ reconnectTimer = FALSE
  /\ manager = "idle"
  /\ awaited = {}
  /\ wsServerInitialized = FALSE
  /\ wsClientInitialized = FALSE
  /\ overlap = "never"

-----------------------------------------------------------------------------
(* connectToArchiveNode and the loops that call it. *)

FreeSlots(ls) == {s \in Slots : ls[s].st = "free"}
NextSlot(ls) == CHOOSE s \in FreeSlots(ls) : \A t \in FreeSlots(ls) : s <= t

\* The loop of initializeConnections is over when the map is full or each
\* node of the rest is in it.
LoopIsOver(map, rest) ==
  \/ Cardinality(Connected(map)) >= MinArchiveNodes
  \/ rest \subseteq Connected(map)

\* The loop of initializeConnections goes on over the rest of the active
\* nodes, in the order of the map, with the tasks ls: it ends or opens the
\* next socket.
LoopGoesOn(ls, map, by, rest) ==
  \/ LoopIsOver(map, rest) /\ links' = ls
  \/ /\ ~LoopIsOver(map, rest)
     /\ FreeSlots(ls) # {}
     /\ \E n \in rest \ Connected(map) :
          links' = [ls EXCEPT ![NextSlot(ls)] = Handshake(n, by, rest \ {n}, 0)]

\* findAlternativeNode, run by task s: the first active node that is unused.
FindAlternativeNode(ls, map, s) ==
  LET unused == ActiveArchiveNodes \ Connected(map)
  IN \/ unused = {} /\ links' = [ls EXCEPT ![s] = Free]
     \/ \E n \in unused : links' = [ls EXCEPT ![s] = Handshake(n, "alternative", {}, 0)]

\* The catch of handleDisconnect.
ReconnectFails(s) ==
  LET n == links[s].node
      failed == links[s].attempts + 1
  IN /\ reconnectAttempts' = [reconnectAttempts EXCEPT ![n] = failed]
     /\ IF failed >= MaxReconnectAttempts
          THEN FindAlternativeNode(links, archiveConnections, s)
          ELSE links' = [links EXCEPT ![s] = Free]

\* wsClient.postConstruct sets reconnectTimer, whatever it held, and returns
\* to the manager's handler.
ClientStarts ==
  /\ timers' = timers + 1
  /\ reconnectTimer' = TRUE
  /\ wsClientInitialized' = TRUE

ClientUnchanged == UNCHANGED <<timers, reconnectTimer, wsClientInitialized>>

PostConstructReturns(by) == IF by = "postConstruct" THEN ClientStarts ELSE ClientUnchanged

\* AUTH_SUCCESS: the socket is stored, whatever is stored for the node.
AuthSuccess(s) ==
  /\ Is(s, "handshake")
  /\ links[s].node \in up
  /\ LET n == links[s].node
         map == [archiveConnections EXCEPT ![n] = s]
         opened == [links EXCEPT ![s] = Open(n)]
     IN /\ archiveConnections' = map
        /\ reconnectAttempts' = [reconnectAttempts EXCEPT ![n] = 0]
        /\ IF links[s].by \in {"postConstruct", "monitor"}
             THEN /\ LoopGoesOn(opened, map, links[s].by, links[s].rest)
                  /\ IF LoopIsOver(map, links[s].rest)
                       THEN PostConstructReturns(links[s].by)
                       ELSE ClientUnchanged
             ELSE links' = opened /\ ClientUnchanged
  /\ UNCHANGED <<environmentVars, discoveryVars, sincePong, manager, awaited,
                 wsServerInitialized, overlap>>

\* Error, timeout or a failed authentication: the promise is rejected, and
\* with it the loop that awaits it.
HandshakeFails(s) ==
  /\ Is(s, "handshake")
  /\ \/ links[s].node \notin up /\ UNCHANGED environmentVars
     \/ links[s].node \in up /\ Fault /\ UNCHANGED <<up, banned>>
  /\ IF links[s].by = "reconnect"
       THEN ReconnectFails(s)
       ELSE links' = [links EXCEPT ![s] = Free] /\ UNCHANGED reconnectAttempts
  /\ UNCHANGED <<discoveryVars, archiveConnections, sincePong, timers, reconnectTimer, managerVars>>

-----------------------------------------------------------------------------
(* setupWebSocketHandlers and handleDisconnect. *)

\* Mutant: the close event leaves the map alone.
MutCloseHandler(s) ==
  LET n == links[s].node
  IN /\ awaited' = awaited \ {s}
     /\ links' = [links EXCEPT ![s] = Delay(n, reconnectAttempts[n])]
     /\ UNCHANGED <<archiveConnections, reconnectAttempts>>

\* Mutant: the attempts are not bounded.
MutUnboundedAttempts(s) ==
  LET n == links[s].node
  IN /\ awaited' = awaited \ {s}
     /\ archiveConnections' = [archiveConnections EXCEPT ![n] = NoLink]
     /\ links' = [links EXCEPT ![s] = Delay(n, reconnectAttempts[n])]
     /\ UNCHANGED reconnectAttempts

\* The event's first argument is the code, a number without a field code:
\* event.code is undefined and every close leads to handleDisconnect.
CloseHandler(s) ==
  LET n == links[s].node
      map == [archiveConnections EXCEPT ![n] = NoLink]
  IN /\ awaited' = awaited \ {s}
     /\ archiveConnections' = map
     /\ \/ /\ reconnectAttempts[n] < MaxReconnectAttempts
           /\ links' = [links EXCEPT ![s] = Delay(n, reconnectAttempts[n])]
           /\ UNCHANGED reconnectAttempts
        \/ /\ reconnectAttempts[n] >= MaxReconnectAttempts
           /\ reconnectAttempts' = [reconnectAttempts EXCEPT ![n] = 0]
           /\ FindAlternativeNode(links, map, s)

\* The close event of a socket that was closed here, or whose peer is gone.
LinkCloses(s) ==
  /\ \/ Is(s, "closing")
     \/ Is(s, "open") /\ ~links[s].alive
  /\ CloseHandler(s)
  /\ UNCHANGED <<environmentVars, discoveryVars, sincePong, timers, reconnectTimer, manager,
                 wsServerInitialized, wsClientInitialized, overlap>>

\* The delay of handleDisconnect is over.
Reconnect(s) ==
  /\ Is(s, "delay")
  /\ LET n == links[s].node
     IN \/ /\ n \in ActiveArchiveNodes
           /\ links' = [links EXCEPT ![s] =
                IF n \in Connected(archiveConnections)
                  THEN Free
                  ELSE Handshake(n, "reconnect", {}, links[s].attempts)]
           /\ UNCHANGED reconnectAttempts
        \/ n \notin ActiveArchiveNodes /\ ReconnectFails(s)
  /\ UNCHANGED <<environmentVars, discoveryVars, archiveConnections, sincePong, timers, reconnectTimer,
                 managerVars>>

-----------------------------------------------------------------------------
(* checkAndRestoreConnections, and the time that passes. *)

\* The timers that must fire before another interval can have passed.
MayOutlast(link) ==
  CASE link.st = "handshake" -> link.age < 3
    [] link.st \in {"delay", "closing"} -> link.age < 1
    [] OTHER -> TRUE

Pings(link) == link.st = "open" /\ link.age = 2

Older(link) ==
  CASE link.st = "free" -> link
    [] link.st = "open" -> [link EXCEPT !.age = IF Pings(link) THEN 1 ELSE @ + 1]
    [] OTHER -> [link EXCEPT !.age = @ + 1]

\* connectionStates after the interval: the nodes pinged in it have answered.
NextSincePong(n) ==
  IF \E s \in Slots : Pings(links[s]) /\ links[s].alive /\ links[s].node = n
    THEN 1
    ELSE IF sincePong[n] < StaleAfter THEN sincePong[n] + 1 ELSE sincePong[n]

\* validateConnections: the nodes whose connection is closed and forgotten.
Invalid(pongs) ==
  {n \in Connected(archiveConnections) :
    pongs[n] = StaleAfter \/ ~Is(archiveConnections[n], "open")}

\* Mutant: the connections are validated and never restored.
MutRestore(pongs, ls) ==
  /\ archiveConnections' = [n \in ANodes |-> IF n \in Invalid(pongs) THEN NoLink ELSE archiveConnections[n]]
  /\ links' = [s \in Slots |->
       IF \E n \in Invalid(pongs) : archiveConnections[n] = s
         THEN Closing(links[s].node) ELSE ls[s]]

CheckAndRestoreConnections(pongs, ls) ==
  LET map == [n \in ANodes |-> IF n \in Invalid(pongs) THEN NoLink ELSE archiveConnections[n]]
      validated == [s \in Slots |->
        IF \E n \in Invalid(pongs) : archiveConnections[n] = s
          THEN Closing(links[s].node)
          ELSE ls[s]]
      enough == \/ Cardinality(Connected(map)) >= MinArchiveNodes
                \/ Cardinality(ActiveArchiveNodes) < MinArchiveNodes
  IN /\ archiveConnections' = map
     /\ \/ enough /\ links' = validated
        \/ ~enough /\ LoopGoesOn(validated, map, "monitor", ActiveArchiveNodes)

IntervalPasses ==
  /\ \A s \in Slots : MayOutlast(links[s])
  /\ LET pongs == [n \in ANodes |-> NextSincePong(n)]
         older == [s \in Slots |-> Older(links[s])]
     IN /\ sincePong' = pongs
        /\ \/ timers > 0 /\ CheckAndRestoreConnections(pongs, older)
           \/ timers = 0 /\ links' = older /\ UNCHANGED archiveConnections
  /\ UNCHANGED <<environmentVars, discoveryVars, reconnectAttempts, timers, reconnectTimer, managerVars>>

\* A second timer fires between the intervals of the first.
SecondTimerFires ==
  /\ timers > 1
  /\ CheckAndRestoreConnections(sincePong, links)
  /\ UNCHANGED <<environmentVars, discoveryVars, reconnectAttempts, sincePong, timers,
                 reconnectTimer, managerVars>>

-----------------------------------------------------------------------------
(* WebSocketManager. *)

\* The handlers of minimumNodesConnected that await wsClient.postConstruct.
Starting == {s \in Slots : Is(s, "handshake") /\ links[s].by = "postConstruct"}

\* An event is handled at once, whichever handlers still run.
RecordOverlap ==
  overlap' = IF Starting # {} \/ manager # "idle"
               THEN "now"
               ELSE IF overlap = "never" THEN "never" ELSE "before"

\* minimumNodesConnected: the server starts; then initializeConnections,
\* which throws without enough active nodes, and opens the first socket.
OnMinimumNodesConnected ==
  /\ event = "minimumNodesConnected"
  /\ event' = "none"
  /\ wsServerInitialized' = TRUE
  /\ LET active == ActiveArchiveNodes
     IN \/ /\ wsClientInitialized \/ Cardinality(active) < MinArchiveNodes
           /\ UNCHANGED links
           /\ ClientUnchanged
        \/ /\ ~wsClientInitialized
           /\ Cardinality(active) >= MinArchiveNodes
           /\ LoopGoesOn(links, archiveConnections, "postConstruct", active)
           /\ IF LoopIsOver(archiveConnections, active) THEN ClientStarts ELSE ClientUnchanged
  /\ RecordOverlap
  /\ UNCHANGED <<environmentVars, archiveNodes, discovery, unchecked, healthy, previousState,
                 archiveConnections, reconnectAttempts, sincePong, manager, awaited>>

\* Mutant: the handler tests the client's flag only.
MutOnMinimumNodesLost ==
  /\ event = "minimumNodesLost"
  /\ manager = "idle"
  /\ event' = "none"
  /\ manager' = IF wsClientInitialized THEN "serverDown" ELSE "idle"
  /\ RecordOverlap
  /\ UNCHANGED <<environmentVars, archiveNodes, discovery, unchecked, healthy, previousState,
                 clientVars, awaited, wsServerInitialized, wsClientInitialized>>

(* Bound of the model: one such handler at a time.  If the last shutdown   *)
(* takes longer than the two refreshes that lead to the next one, the      *)
(* health checks of the second refresh last until it is over.              *)
OnMinimumNodesLost ==
  /\ event = "minimumNodesLost"
  /\ manager = "idle"
  /\ event' = "none"
  /\ manager' = IF wsServerInitialized \/ wsClientInitialized THEN "serverDown" ELSE "idle"
  /\ RecordOverlap
  /\ UNCHANGED <<environmentVars, archiveNodes, discovery, unchecked, healthy, previousState,
                 clientVars, awaited, wsServerInitialized, wsClientInitialized>>

\* wsServer.shutdown returns; then wsClient.shutdown stops the timer it
\* knows of and closes what is in the map.
ServerIsDown ==
  /\ manager = "serverDown"
  /\ wsServerInitialized' = FALSE
  /\ \/ /\ ~wsClientInitialized
        /\ manager' = "idle"
        /\ UNCHANGED <<clientVars, awaited>>
     \/ /\ wsClientInitialized
        /\ manager' = "clientDown"
        /\ timers' = IF reconnectTimer THEN timers - 1 ELSE timers
        /\ reconnectTimer' = FALSE
        /\ awaited' = {archiveConnections[n] : n \in Connected(archiveConnections)}
        /\ links' = [s \in Slots |-> IF s \in awaited' THEN Closing(links[s].node) ELSE links[s]]
        /\ UNCHANGED <<archiveConnections, reconnectAttempts, sincePong>>
  /\ UNCHANGED <<environmentVars, discoveryVars, wsClientInitialized, overlap>>

\* wsClient.shutdown returns.
ClientIsDown ==
  /\ manager = "clientDown"
  /\ awaited = {}
  /\ archiveConnections' = [n \in ANodes |-> NoLink]
  /\ reconnectAttempts' = [n \in ANodes |-> 0]
  /\ wsClientInitialized' = FALSE
  /\ manager' = "idle"
  /\ UNCHANGED <<environmentVars, discoveryVars, links, sincePong, timers, reconnectTimer, awaited,
                 wsServerInitialized, overlap>>

-----------------------------------------------------------------------------

NodeFails(n) ==
  /\ Fault
  /\ n \in up
  /\ up' = up \ {n}
  /\ links' = [s \in Slots |->
       IF Is(s, "open") /\ links[s].node = n
         THEN [links[s] EXCEPT !.alive = FALSE]
         ELSE links[s]]
  /\ UNCHANGED <<banned, discoveryVars, archiveConnections, reconnectAttempts, sincePong, timers,
                 reconnectTimer, managerVars>>

Environment ==
  \E n \in ANodes :
    \/ NodeFails(n)
    \/ /\ NodeRecovers(n) \/ NodeStatusChanged(n)
       /\ UNCHANGED <<discoveryVars, clientVars, managerVars>>

\* A refresh waits for no handler; only an event is handled as it is emitted.
Discovery ==
  /\ \/ DiscoveryStep
     \/ RefreshNodeStatus /\ event = "none"
  /\ UNCHANGED <<environmentVars, clientVars, managerVars>>

Manager ==
  \/ OnMinimumNodesConnected
  \/ OnMinimumNodesLost
  \/ ServerIsDown
  \/ ClientIsDown

Link(s) ==
  \/ AuthSuccess(s)
  \/ HandshakeFails(s)
  \/ LinkCloses(s)
  \/ Reconnect(s)

Next ==
  \/ Environment
  \/ Discovery
  \/ Manager
  \/ \E s \in Slots : Link(s)
  \/ IntervalPasses
  \/ SecondTimerFires

Spec == Init /\ [][Next]_vars

\* Timers fire, awaited calls return, a health check and a handshake end by
\* their timeout at the latest, and a dead TCP connection is noticed.
Fairness ==
  /\ WF_vars(Discovery)
  /\ WF_vars(Manager)
  /\ \A s \in Slots : WF_vars(Link(s))
  /\ WF_vars(IntervalPasses)

FairSpec == Spec /\ Fairness

-----------------------------------------------------------------------------
(* Properties. *)

\* What archiveConnections stores for a node is a socket to that node whose
\* close event has not been handled, whichever of the node's sockets, of two
\* overlapping handshakes, closes first (connectToArchiveNode, closeHandler,
\* validateConnections, shutdown).
ConnectionsAreOpen ==
  \A n \in Connected(archiveConnections) :
    LET link == links[archiveConnections[n]]
    IN link.st \in {"open", "closing"} /\ link.node = n

\* The client never counts as started without its monitor.  Whenever the last
\* event has been handled, its shutdown is over, and no other handler ran
\* beside the one for that event, the server runs exactly if discovery counts
\* enough nodes, and the client only together with it: what overlapping
\* handlers left behind is mended by the next event that is handled alone.
\* Without any overlap one timer runs at most, and only for the client
\* (postConstruct and both handlers of WebSocketManager).
ManagerFollowsDiscovery ==
  /\ wsClientInitialized => reconnectTimer \/ manager = "clientDown"
  /\ manager = "idle" /\ event = "none" /\ overlap # "now" =>
       /\ wsServerInitialized <=> previousState = "connected"
       /\ wsClientInitialized => wsServerInitialized
  /\ overlap = "never" => timers = 0 \/ (timers = 1 /\ wsClientInitialized)

EnoughConnections ==
  Cardinality({n \in Connected(archiveConnections) : Is(archiveConnections[n], "open")})
    >= MinArchiveNodes

AllIsWell == timers > 0 /\ up = ANodes

\* Once every node can be reached for good and a monitor keeps running, it
\* has enough connections again and again: neither the close of a socket,
\* nor a reconnect that fails, nor overlapping restores leave it without
\* (handleDisconnect, checkAndRestoreConnections).
RestoresConnections ==
  <>[]AllIsWell /\ []<>(FreeSlots(links) # {}) => []<>EnoughConnections

\* What the comment on WebSocketClient claims: the client "ensures minimum
\* required connections are available", from some time on for good.
KeepsConnections == <>[]AllIsWell => <>[]EnoughConnections

\* What the comment in closeHandler claims: a close with code 1000, which
\* shutdown sends and a node that is up answers, is not followed by a
\* reconnect.
NormalCloseIsFinal ==
  [][\A s \in awaited :
       Is(s, "closing") /\ links[s].node \in up => links'[s].st # "delay"]_vars
=============================================================================
