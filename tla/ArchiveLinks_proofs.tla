------------------------- MODULE ArchiveLinks_proofs ------------------------
(***************************************************************************)
(* Proofs about ArchiveDiscovery and ArchiveLinks, for any archive nodes,  *)
(* number of tasks and number of attempts.                                 *)
(***************************************************************************)
EXTENDS ArchiveLinks, NaturalsInduction, WellFoundedInduction, TLAPS

\* The tasks and the map that stores them: what is stored for a node is an
\* open or closing socket to it, and who tries again has attempts left.
Tasks(ls, map) ==
  /\ ls \in [Slots -> LinkState]
  /\ map \in [ANodes -> Slots \cup {NoLink}]
  /\ \A n \in Connected(map) : ls[map[n]].st \in {"open", "closing"} /\ ls[map[n]].node = n
  /\ \A s \in Slots : ls[s].st \in {"handshake", "delay"} => ls[s].attempts < MaxReconnectAttempts

\* The handshakes of the manager's own start of the client.
Own(ls) == {s \in Slots : ls[s].st = "handshake" /\ ls[s].by = "postConstruct"}

\* As long as events are handled one at a time, there is one of them at most,
\* the server runs already and the client does not.
OneConnects(ls) ==
  overlap # "now" =>
    /\ \A s, t \in Own(ls) : s = t
    /\ Own(ls) # {} =>
         /\ manager = "idle"
         /\ wsServerInitialized
         /\ ~wsClientInitialized
         /\ event = "none" => previousState = "connected"

CountsTypeOK ==
  /\ reconnectAttempts \in [ANodes -> 0..MaxReconnectAttempts]
  /\ sincePong \in [ANodes -> 0..NeverPonged]
  /\ awaited \subseteq Slots

\* What was emitted is what discovery has found last.
EventFits ==
  /\ discovery # "idle" => event = "none"
  /\ event = "minimumNodesConnected" => previousState = "connected"
  /\ event = "minimumNodesLost" => previousState = "disconnected"

ManagerTypeOK ==
  /\ timers \in Nat /\ reconnectTimer \in BOOLEAN
  /\ manager \in {"idle", "serverDown", "clientDown"}
  /\ wsServerInitialized \in BOOLEAN /\ wsClientInitialized \in BOOLEAN
  /\ overlap \in {"never", "before", "now"}

\* The client has its monitor, until shutdown has cleared it.
Monitored ==
  /\ wsClientInitialized => reconnectTimer \/ manager = "clientDown"
  /\ reconnectTimer => timers > 0

\* What the handler of the last event, if it runs alone, makes of the flags.
Follows ==
  overlap # "now" =>
    /\ manager = "idle" /\ event = "none" =>
         /\ wsServerInitialized <=> previousState = "connected"
         /\ wsClientInitialized => wsServerInitialized
    /\ manager # "idle" /\ event = "none" => previousState = "disconnected"
    /\ manager = "clientDown" => ~wsServerInitialized

\* While no handlers have overlapped, no timer is forgotten.
OneTimer ==
  overlap = "never" =>
    /\ timers = 0 \/ (timers = 1 /\ reconnectTimer)
    /\ reconnectTimer => wsClientInitialized
    /\ manager = "clientDown" => timers = 0

ManagerIsExact == ManagerTypeOK /\ Monitored /\ Follows /\ OneTimer

IInv ==
  /\ DiscoveryTypeOK
  /\ Tasks(links, archiveConnections) /\ OneConnects(links)
  /\ CountsTypeOK
  /\ EventFits /\ ManagerIsExact

-----------------------------------------------------------------------------
(* The tasks. *)

LEMMA Shapes ==
  ASSUME NEW link \in LinkState
  PROVE  /\ link.st \in {"free", "handshake", "open", "closing", "delay"}
         /\ link.st = "free" => link = Free
         /\ link.st = "handshake" =>
              link \in [st : {"handshake"}, node : ANodes,
                        by : {"postConstruct", "monitor", "reconnect", "alternative"},
                        rest : SUBSET ANodes, attempts : 0..MaxReconnectAttempts, age : 0..3]
         /\ link.st = "open" => link \in [st : {"open"}, node : ANodes, alive : BOOLEAN, age : 0..2]
         /\ link.st = "closing" => link \in [st : {"closing"}, node : ANodes, age : 0..1]
         /\ link.st = "delay" =>
              link \in [st : {"delay"}, node : ANodes, attempts : 0..MaxReconnectAttempts, age : 0..1]
         /\ link.st # "free" => link.node \in ANodes
<1>1. CASE link = Free
  BY <1>1 DEF Free
<1>2. CASE link \in [st : {"handshake"}, node : ANodes,
                     by : {"postConstruct", "monitor", "reconnect", "alternative"},
                     rest : SUBSET ANodes, attempts : 0..MaxReconnectAttempts, age : 0..3]
  BY <1>2
<1>3. CASE link \in [st : {"open"}, node : ANodes, alive : BOOLEAN, age : 0..2]
  BY <1>3
<1>4. CASE link \in [st : {"closing"}, node : ANodes, age : 0..1]
  BY <1>4
<1>5. CASE link \in [st : {"delay"}, node : ANodes, attempts : 0..MaxReconnectAttempts, age : 0..1]
  BY <1>5
<1> QED
  BY <1>1, <1>2, <1>3, <1>4, <1>5 DEF LinkState

LEMMA NothingMade == Free \in LinkState /\ Free.st = "free"
BY DEF Free, LinkState

LEMMA HandshakeMade ==
  ASSUME NEW n \in ANodes, NEW rest \in SUBSET ANodes, NEW attempts \in 0..MaxReconnectAttempts,
         NEW by \in {"postConstruct", "monitor", "reconnect", "alternative"}
  PROVE  LET link == Handshake(n, by, rest, attempts)
         IN link \in LinkState /\ link.st = "handshake" /\ link.attempts = attempts /\ link.by = by
BY DEF Handshake, LinkState

LEMMA SocketsMade ==
  ASSUME NEW n \in ANodes
  PROVE  /\ Open(n) \in LinkState /\ Open(n).st = "open" /\ Open(n).node = n
         /\ Closing(n) \in LinkState /\ Closing(n).st = "closing" /\ Closing(n).node = n
BY DEF Open, Closing, LinkState

LEMMA DelayMade ==
  ASSUME NEW n \in ANodes, NEW attempts \in 0..MaxReconnectAttempts
  PROVE  LET link == Delay(n, attempts)
         IN link \in LinkState /\ link.st = "delay" /\ link.attempts = attempts
BY DEF Delay, LinkState

LEMMA Ageing ==
  ASSUME NEW link \in LinkState, MayOutlast(link)
  PROVE  /\ Older(link) \in LinkState /\ Older(link).st = link.st
         /\ link.st # "free" => Older(link).node = link.node
         /\ link.st \in {"handshake", "delay"} => Older(link).attempts = link.attempts
         /\ link.st = "handshake" => Older(link).by = link.by
<1>1. CASE link.st = "free"
  BY <1>1, Shapes DEF Older, LinkState, Free
<1>2. CASE link.st = "handshake"
  BY <1>2, Shapes DEF Older, MayOutlast, LinkState
<1>3. CASE link.st = "open"
  BY <1>3, Shapes DEF Older, Pings, LinkState
<1>4. CASE link.st = "closing"
  BY <1>4, Shapes DEF Older, MayOutlast, LinkState
<1>5. CASE link.st = "delay"
  BY <1>5, Shapes DEF Older, MayOutlast, LinkState
<1> QED
  BY <1>1, <1>2, <1>3, <1>4, <1>5, Shapes

\* The slot that is taken is free.
LEMMA TakenSlot ==
  ASSUME NEW ls, FreeSlots(ls) # {}
  PROVE  NextSlot(ls) \in Slots /\ ls[NextSlot(ls)].st = "free"
<1> DEFINE R == OpToRel(<, Nat)
<1>1. FreeSlots(ls) \subseteq Nat
  BY DEF FreeSlots, Slots
<1>2. \A s, t \in Nat : s < t => <<s, t>> \in R
  BY DEF OpToRel
<1>3. IsWellFoundedOn(R, Nat)
  BY NatLessThanWellFounded
<1> HIDE DEF R
<1>4. \E s \in FreeSlots(ls) : \A t \in FreeSlots(ls) : <<t, s>> \notin R
  BY <1>1, <1>3, WFMin
<1>5. \E s \in FreeSlots(ls) : \A t \in FreeSlots(ls) : s <= t
  <2>1. PICK s \in FreeSlots(ls) : \A t \in FreeSlots(ls) : <<t, s>> \notin R
    BY <1>4
  <2>2. ASSUME NEW t \in FreeSlots(ls)
        PROVE  s <= t
    <3>1. s \in Nat /\ t \in Nat /\ ~(t < s)
      BY <1>1, <1>2, <2>1
    <3> QED
      BY <3>1
  <2> QED
    BY <2>2
<1>6. NextSlot(ls) \in FreeSlots(ls)
  BY <1>5 DEF NextSlot
<1> QED
  BY <1>6 DEF FreeSlots

-----------------------------------------------------------------------------
(* Steps of the tasks and of the map. *)

LEMMA Replaced ==
  ASSUME NEW ls, NEW map, Tasks(ls, map), NEW s \in Slots, NEW link \in LinkState,
         link.st \in {"handshake", "delay"} => link.attempts < MaxReconnectAttempts,
         \/ ls[s].st \notin {"open", "closing"}
         \/ link.st \in {"open", "closing"} /\ link.node = ls[s].node
  PROVE  Tasks([ls EXCEPT ![s] = link], map)
<1> DEFINE new == [ls EXCEPT ![s] = link]
<1>1. /\ new \in [Slots -> LinkState] /\ new[s] = link
      /\ \A t \in Slots \ {s} : new[t] = ls[t]
  BY DEF Tasks
<1> HIDE DEF new
<1>2. \A n \in Connected(map) : new[map[n]].st \in {"open", "closing"} /\ new[map[n]].node = n
  <2> SUFFICES ASSUME NEW n \in Connected(map)
               PROVE  new[map[n]].st \in {"open", "closing"} /\ new[map[n]].node = n
    OBVIOUS
  <2>1. map[n] \in Slots /\ ls[map[n]].st \in {"open", "closing"} /\ ls[map[n]].node = n
    BY DEF Tasks, Connected
  <2>2. CASE map[n] = s
    BY <1>1, <2>1, <2>2
  <2>3. CASE map[n] # s
    BY <1>1, <2>1, <2>3
  <2> QED
    BY <2>2, <2>3
<1>3. \A t \in Slots : new[t].st \in {"handshake", "delay"} => new[t].attempts < MaxReconnectAttempts
  BY <1>1 DEF Tasks
<1>4. Tasks(new, map)
  BY <1>1, <1>2, <1>3 DEF Tasks
<1> QED
  BY <1>4 DEF new

LEMMA StoredAnew ==
  ASSUME NEW ls, NEW map, Tasks(ls, map), NEW s \in Slots, ls[s].st = "handshake"
  PROVE  Tasks([ls EXCEPT ![s] = Open(ls[s].node)], [map EXCEPT ![ls[s].node] = s])
<1> DEFINE n == ls[s].node
           link == Open(n)
           new == [ls EXCEPT ![s] = link]
           newMap == [map EXCEPT ![n] = s]
<1>1. n \in ANodes /\ s # NoLink
  BY Shapes DEF Tasks, Slots, NoLink
<1>2. link \in LinkState /\ link.st = "open" /\ link.node = n
  BY <1>1, SocketsMade
<1> HIDE DEF link
<1>3. Tasks(new, map)
  BY <1>2, Replaced
<1>4. /\ newMap \in [ANodes -> Slots \cup {NoLink}] /\ newMap[n] = s
      /\ \A m \in ANodes \ {n} : newMap[m] = map[m]
  BY <1>1 DEF Tasks
<1>5. new[s] = link
  BY DEF Tasks
<1> HIDE DEF new, newMap, n
<1>6. \A m \in Connected(newMap) : new[newMap[m]].st \in {"open", "closing"} /\ new[newMap[m]].node = m
  <2> SUFFICES ASSUME NEW m \in Connected(newMap)
               PROVE  new[newMap[m]].st \in {"open", "closing"} /\ new[newMap[m]].node = m
    OBVIOUS
  <2>1. CASE m = n
    BY <1>2, <1>4, <1>5, <2>1
  <2>2. CASE m # n
    <3>1. m \in Connected(map) /\ newMap[m] = map[m]
      BY <1>4, <2>2 DEF Connected
    <3> QED
      BY <1>3, <3>1 DEF Tasks
  <2> QED
    BY <2>1, <2>2
<1>7. Tasks(new, newMap)
  BY <1>3, <1>4, <1>6 DEF Tasks
<1> QED
  BY <1>7 DEF new, newMap, link, n

LEMMA Forgotten ==
  ASSUME NEW ls, NEW map, Tasks(ls, map), NEW s \in Slots, ls[s].st \in {"open", "closing"},
         NEW link \in LinkState, link.st \in {"handshake", "delay"} => link.attempts < MaxReconnectAttempts
  PROVE  Tasks([ls EXCEPT ![s] = link], [map EXCEPT ![ls[s].node] = NoLink])
<1> DEFINE n == ls[s].node
           new == [ls EXCEPT ![s] = link]
           newMap == [map EXCEPT ![n] = NoLink]
<1>1. n \in ANodes
  BY Shapes DEF Tasks
<1>2. /\ new \in [Slots -> LinkState] /\ new[s] = link
      /\ \A t \in Slots \ {s} : new[t] = ls[t]
  BY DEF Tasks
<1>3. /\ newMap \in [ANodes -> Slots \cup {NoLink}] /\ newMap[n] = NoLink
      /\ \A m \in ANodes \ {n} : newMap[m] = map[m]
  BY <1>1 DEF Tasks
<1> HIDE DEF new, newMap
<1>4. ASSUME NEW m \in Connected(newMap)
      PROVE  new[newMap[m]].st \in {"open", "closing"} /\ new[newMap[m]].node = m
  <2>1. m # n /\ m \in ANodes /\ newMap[m] = map[m] /\ m \in Connected(map)
    BY <1>3, <1>4 DEF Connected
  <2>2. map[m] \in Slots /\ ls[map[m]].st \in {"open", "closing"} /\ ls[map[m]].node = m
    BY <2>1 DEF Tasks, Connected
  <2>3. map[m] # s
    BY <2>1, <2>2
  <2> QED
    BY <1>2, <2>1, <2>2, <2>3
<1>5. \A t \in Slots : new[t].st \in {"handshake", "delay"} => new[t].attempts < MaxReconnectAttempts
  BY <1>2 DEF Tasks
<1>6. Tasks(new, newMap)
  BY <1>2, <1>3, <1>4, <1>5 DEF Tasks
<1> QED
  BY <1>6 DEF new, newMap

LEMMA OwnReplaced ==
  ASSUME NEW ls, DOMAIN ls = Slots, NEW s \in Slots, NEW link
  PROVE  /\ link.st # "handshake" \/ link.by # "postConstruct" =>
              Own([ls EXCEPT ![s] = link]) = Own(ls) \ {s}
         /\ Own([ls EXCEPT ![s] = link]) \subseteq Own(ls) \cup {s}
BY DEF Own

\* A loop takes at most one slot, for a handshake.
LEMMA LoopKeeps ==
  ASSUME NEW ls, NEW map, Tasks(ls, map), NEW rest \in SUBSET ANodes,
         NEW by \in {"postConstruct", "monitor"}, LoopGoesOn(ls, map, by, rest)
  PROVE  /\ Tasks(links', map)
         /\ by # "postConstruct" => Own(links') = Own(ls)
         /\ LoopIsOver(map, rest) => links' = ls
         /\ \E t \in Slots : Own(links') \subseteq Own(ls) \cup {t}
<1>1. CASE LoopIsOver(map, rest)
  <2>1. links' = ls
    BY <1>1 DEF LoopGoesOn
  <2>2. 1 \in Slots
    BY LinksAssumption DEF Slots
  <2> QED
    BY <2>1, <2>2
<1>2. CASE ~LoopIsOver(map, rest)
  <2>1. PICK n \in ANodes : /\ FreeSlots(ls) # {}
                            /\ links' = [ls EXCEPT ![NextSlot(ls)] = Handshake(n, by, rest \ {n}, 0)]
    BY <1>2 DEF LoopGoesOn
  <2> DEFINE t == NextSlot(ls)
             link == Handshake(n, by, rest \ {n}, 0)
  <2>2. t \in Slots /\ ls[t].st = "free"
    BY <2>1, TakenSlot
  <2>3. 0 \in 0..MaxReconnectAttempts /\ 0 < MaxReconnectAttempts
    BY LinksAssumption
  <2>4. link \in LinkState /\ link.st = "handshake" /\ link.attempts = 0 /\ link.by = by
    BY <2>3, HandshakeMade
  <2>5. links' = [ls EXCEPT ![t] = link]
    BY <2>1
  <2> HIDE DEF t, link
  <2>6. Tasks(links', map)
    BY <2>2, <2>3, <2>4, <2>5, Replaced
  <2>7. DOMAIN ls = Slots /\ t \notin Own(ls)
    BY <2>2 DEF Tasks, Own
  <2>8. /\ by # "postConstruct" => Own(links') = Own(ls) \ {t}
        /\ Own(links') \subseteq Own(ls) \cup {t}
    BY <2>2, <2>4, <2>5, <2>7, OwnReplaced
  <2> QED
    BY <1>2, <2>2, <2>6, <2>7, <2>8
<1> QED
  BY <1>1, <1>2

\* What a task may become without being the manager's own.
Allowed(link) ==
  /\ link \in LinkState
  /\ link.st \in {"handshake", "delay"} => link.attempts < MaxReconnectAttempts
  /\ link.st # "handshake" \/ link.by # "postConstruct"

LEMMA OthersAllowed ==
  /\ Allowed(Free)
  /\ \A n \in ANodes : Allowed(Open(n)) /\ Allowed(Closing(n))
  /\ \A n \in ANodes, attempts \in 0..MaxReconnectAttempts : attempts < MaxReconnectAttempts =>
       /\ Allowed(Delay(n, attempts))
       /\ Allowed(Handshake(n, "reconnect", {}, attempts))
       /\ Allowed(Handshake(n, "alternative", {}, attempts))
<1>1. Allowed(Free)
  BY NothingMade DEF Allowed
<1>2. \A n \in ANodes : Allowed(Open(n)) /\ Allowed(Closing(n))
  BY SocketsMade DEF Allowed
<1>3. ASSUME NEW n \in ANodes, NEW attempts \in 0..MaxReconnectAttempts, attempts < MaxReconnectAttempts
      PROVE  /\ Allowed(Delay(n, attempts))
             /\ Allowed(Handshake(n, "reconnect", {}, attempts))
             /\ Allowed(Handshake(n, "alternative", {}, attempts))
  <2>1. Allowed(Delay(n, attempts))
    BY <1>3, DelayMade DEF Allowed
  <2>2. Allowed(Handshake(n, "reconnect", {}, attempts))
    BY <1>3, HandshakeMade DEF Allowed
  <2>3. Allowed(Handshake(n, "alternative", {}, attempts))
    BY <1>3, HandshakeMade DEF Allowed
  <2> QED
    BY <2>1, <2>2, <2>3
<1> QED
  BY <1>1, <1>2, <1>3

LEMMA OneStays ==
  ASSUME OneConnects(links), Own(links') \subseteq Own(links),
         UNCHANGED <<previousState, event, manager, wsServerInitialized, wsClientInitialized, overlap>>
  PROVE  OneConnects(links)'
BY DEF OneConnects

LEMMA LinkReplaced ==
  ASSUME IInv, NEW s \in Slots, NEW link, Allowed(link), links' = [links EXCEPT ![s] = link],
         UNCHANGED <<archiveConnections, discoveryVars, managerVars>>,
         \/ links[s].st \notin {"open", "closing"}
         \/ link.st \in {"open", "closing"} /\ link.node = links[s].node
  PROVE  Tasks(links', archiveConnections') /\ OneConnects(links)'
<1>1. Tasks(links, archiveConnections) /\ OneConnects(links)
  BY DEF IInv
<1>2. Tasks(links', archiveConnections)
  BY <1>1, Replaced DEF Allowed
<1>3. DOMAIN links = Slots
  BY <1>1 DEF Tasks
<1>4. Own(links') \subseteq Own(links)
  <2>1. Own([links EXCEPT ![s] = link]) = Own(links) \ {s}
    BY <1>3, OwnReplaced DEF Allowed
  <2> QED
    BY <2>1
<1>5. UNCHANGED <<previousState, event, manager, wsServerInitialized, wsClientInitialized, overlap>>
  BY DEF discoveryVars, managerVars
<1> QED
  BY <1>1, <1>2, <1>4, <1>5, OneStays

\* What does not concern the tasks.
LEMMA ManagerStays ==
  ASSUME IInv, UNCHANGED <<discovery, previousState, event, timers, reconnectTimer, manager,
                           wsServerInitialized, wsClientInitialized, overlap>>
  PROVE  EventFits' /\ ManagerIsExact'
<1>1. EventFits'
  BY DEF IInv, EventFits
<1>2. ManagerIsExact'
  BY DEF IInv, ManagerIsExact, ManagerTypeOK, Monitored, Follows, OneTimer
<1> QED
  BY <1>1, <1>2

LEMMA RestStays ==
  ASSUME IInv, UNCHANGED <<environmentVars, discoveryVars, timers, reconnectTimer, manager,
                           wsServerInitialized, wsClientInitialized, overlap>>
  PROVE  DiscoveryTypeOK' /\ EventFits' /\ ManagerIsExact'
<1>1. UNCHANGED <<up, banned, faults, archiveNodes, discovery, unchecked, healthy, previousState, event,
                  timers, reconnectTimer, manager, wsServerInitialized, wsClientInitialized, overlap>>
  BY DEF environmentVars, discoveryVars
<1>2. DiscoveryTypeOK'
  BY <1>1 DEF IInv, DiscoveryTypeOK
<1> QED
  BY <1>1, <1>2, ManagerStays

LEMMA AlternativeAllowed ==
  ASSUME NEW ls, NEW map, NEW s, FindAlternativeNode(ls, map, s)
  PROVE  \E link : Allowed(link) /\ links' = [ls EXCEPT ![s] = link]
<1>1. 0 \in 0..MaxReconnectAttempts /\ 0 < MaxReconnectAttempts
  BY LinksAssumption
<1>2. ActiveArchiveNodes \subseteq ANodes
  BY DEF ActiveArchiveNodes, Known
<1>3. CASE links' = [ls EXCEPT ![s] = Free]
  BY <1>3, OthersAllowed
<1>4. CASE \E n \in ActiveArchiveNodes : links' = [ls EXCEPT ![s] = Handshake(n, "alternative", {}, 0)]
  BY <1>1, <1>2, <1>4, OthersAllowed
<1> QED
  BY <1>3, <1>4 DEF FindAlternativeNode

\* A reconnect that fails.
LEMMA FailuresKeep ==
  ASSUME IInv, NEW s \in Slots, links[s].st \in {"handshake", "delay"}, ReconnectFails(s)
  PROVE  /\ reconnectAttempts' \in [ANodes -> 0..MaxReconnectAttempts]
         /\ \E link : Allowed(link) /\ links' = [links EXCEPT ![s] = link]
<1>1. /\ links[s] \in LinkState /\ links[s].attempts < MaxReconnectAttempts
      /\ reconnectAttempts \in [ANodes -> 0..MaxReconnectAttempts]
  BY DEF IInv, Tasks, CountsTypeOK
<1>2. links[s].node \in ANodes /\ links[s].attempts \in 0..MaxReconnectAttempts
  BY <1>1, Shapes
<1>3. links[s].attempts + 1 \in 0..MaxReconnectAttempts
  BY <1>1, <1>2, LinksAssumption
<1>4. reconnectAttempts' \in [ANodes -> 0..MaxReconnectAttempts]
  BY <1>1, <1>2, <1>3 DEF ReconnectFails
<1>5. \E link : Allowed(link) /\ links' = [links EXCEPT ![s] = link]
  <2>1. CASE FindAlternativeNode(links, archiveConnections, s)
    BY <2>1, AlternativeAllowed
  <2>2. CASE links' = [links EXCEPT ![s] = Free]
    BY <2>2, OthersAllowed
  <2> QED
    BY <2>1, <2>2 DEF ReconnectFails
<1> QED
  BY <1>4, <1>5

LEMMA ReconnectKeeps ==
  ASSUME IInv, NEW s \in Slots, Reconnect(s)
  PROVE  IInv'
<1>1. /\ links[s].st = "delay"
      /\ UNCHANGED <<environmentVars, discoveryVars, archiveConnections, sincePong, timers, reconnectTimer,
                     managerVars>>
  BY DEF Reconnect, Is
<1>2. UNCHANGED <<manager, awaited, wsServerInitialized, wsClientInitialized, overlap>>
  BY <1>1 DEF managerVars
<1>3. /\ reconnectAttempts' \in [ANodes -> 0..MaxReconnectAttempts]
      /\ \E link : Allowed(link) /\ links' = [links EXCEPT ![s] = link]
  <2>1. CASE ReconnectFails(s)
    BY <1>1, <2>1, FailuresKeep
  <2>2. CASE links' = [links EXCEPT ![s] = Free] /\ UNCHANGED reconnectAttempts
    BY <2>2, OthersAllowed DEF IInv, CountsTypeOK
  <2>3. CASE /\ links' = [links EXCEPT ![s] = Handshake(links[s].node, "reconnect", {}, links[s].attempts)]
             /\ UNCHANGED reconnectAttempts
    <3>1. /\ links[s].node \in ANodes /\ links[s].attempts \in 0..MaxReconnectAttempts
          /\ links[s].attempts < MaxReconnectAttempts
      BY <1>1, Shapes DEF IInv, Tasks
    <3> QED
      BY <2>3, <3>1, OthersAllowed DEF IInv, CountsTypeOK
  <2> QED
    BY <2>1, <2>2, <2>3 DEF Reconnect
<1>4. Tasks(links', archiveConnections') /\ OneConnects(links)'
  <2>1. PICK link : Allowed(link) /\ links' = [links EXCEPT ![s] = link]
    BY <1>3
  <2> QED
    BY <1>1, <1>2, <2>1, LinkReplaced
<1>5. DiscoveryTypeOK' /\ EventFits' /\ ManagerIsExact'
  BY <1>1, <1>2, RestStays
<1>6. CountsTypeOK'
  BY <1>1, <1>2, <1>3 DEF IInv, CountsTypeOK
<1> QED
  BY <1>4, <1>5, <1>6 DEF IInv

LEMMA LinkClosesKeeps ==
  ASSUME IInv, NEW s \in Slots, LinkCloses(s)
  PROVE  IInv'
<1> DEFINE n == links[s].node
           map == [archiveConnections EXCEPT ![n] = NoLink]
<1>1. /\ links[s].st \in {"open", "closing"} /\ CloseHandler(s)
      /\ UNCHANGED <<environmentVars, discoveryVars, sincePong, timers, reconnectTimer, manager,
                     wsServerInitialized, wsClientInitialized, overlap>>
  BY DEF LinkCloses, Is
<1>2. archiveConnections' = map /\ awaited' = awaited \ {s}
  BY <1>1 DEF CloseHandler
<1>3. n \in ANodes /\ reconnectAttempts \in [ANodes -> 0..MaxReconnectAttempts]
  BY <1>1, Shapes DEF IInv, Tasks, CountsTypeOK
<1>4. /\ reconnectAttempts' \in [ANodes -> 0..MaxReconnectAttempts]
      /\ \E link : Allowed(link) /\ links' = [links EXCEPT ![s] = link]
  <2>1. CASE /\ reconnectAttempts[n] < MaxReconnectAttempts
             /\ links' = [links EXCEPT ![s] = Delay(n, reconnectAttempts[n])]
             /\ UNCHANGED reconnectAttempts
    BY <1>3, <2>1, OthersAllowed
  <2>2. CASE /\ reconnectAttempts' = [reconnectAttempts EXCEPT ![n] = 0]
             /\ FindAlternativeNode(links, map, s)
    <3>1. reconnectAttempts' \in [ANodes -> 0..MaxReconnectAttempts]
      BY <1>3, <2>2, LinksAssumption
    <3> QED
      BY <2>2, <3>1, AlternativeAllowed
  <2> QED
    BY <1>1, <2>1, <2>2 DEF CloseHandler
<1>5. PICK link : Allowed(link) /\ links' = [links EXCEPT ![s] = link]
  BY <1>4
<1>6. Tasks(links', archiveConnections')
  <2>1. Tasks([links EXCEPT ![s] = link], [archiveConnections EXCEPT ![links[s].node] = NoLink])
    BY <1>1, <1>5, Forgotten DEF IInv, Allowed
  <2> QED
    BY <1>2, <1>5, <2>1
<1>7. OneConnects(links)'
  <2>1. DOMAIN links = Slots
    BY DEF IInv, Tasks
  <2>2. Own([links EXCEPT ![s] = link]) = Own(links) \ {s}
    BY <1>5, <2>1, OwnReplaced DEF Allowed
  <2>3. UNCHANGED <<previousState, event, manager, wsServerInitialized, wsClientInitialized, overlap>>
    BY <1>1 DEF discoveryVars
  <2> QED
    BY <1>5, <2>2, <2>3, OneStays DEF IInv
<1>8. DiscoveryTypeOK' /\ EventFits' /\ ManagerIsExact'
  BY <1>1, RestStays
<1>9. CountsTypeOK'
  BY <1>1, <1>2, <1>4 DEF IInv, CountsTypeOK
<1> QED
  BY <1>6, <1>7, <1>8, <1>9 DEF IInv

\* The manager's own handshake: as long as events are handled one at a time,
\* the only one.
LEMMA OwnIsAwaited ==
  ASSUME IInv, NEW s \in Slots, links[s].st = "handshake", links[s].by = "postConstruct", overlap # "now"
  PROVE  /\ Own(links) = {s} /\ manager = "idle" /\ wsServerInitialized /\ ~wsClientInitialized
         /\ event = "none" => previousState = "connected"
<1>1. s \in Own(links)
  BY DEF Own
<1> QED
  BY <1>1 DEF IInv, OneConnects

\* The client starts for the one handler, or beside others.
LEMMA ClientStartsKeeps ==
  ASSUME IInv, ClientStarts,
         overlap # "now" =>
           /\ manager = "idle" /\ wsServerInitialized /\ ~wsClientInitialized
           /\ event = "none" => previousState = "connected",
         UNCHANGED <<discovery, previousState, event, manager, wsServerInitialized, overlap>>
  PROVE  EventFits' /\ ManagerIsExact'
<1>1. timers' = timers + 1 /\ reconnectTimer' = TRUE /\ wsClientInitialized' = TRUE
  BY DEF ClientStarts
<1>2. EventFits'
  BY DEF IInv, EventFits
<1>3. ManagerTypeOK' /\ timers \in Nat
  BY <1>1 DEF IInv, ManagerIsExact, ManagerTypeOK
<1>4. Monitored'
  BY <1>1, <1>3 DEF Monitored
<1>5. Follows'
  BY <1>1 DEF Follows
<1>6. OneTimer'
  <2> SUFFICES ASSUME overlap = "never"
               PROVE  timers' = 1 /\ manager' = "idle"
    BY <1>1 DEF OneTimer
  <2>1. timers = 0
    BY DEF IInv, ManagerIsExact, OneTimer
  <2> QED
    BY <1>1, <2>1
<1> QED
  BY <1>2, <1>3, <1>4, <1>5, <1>6 DEF ManagerIsExact

LEMMA HandshakeFailsKeeps ==
  ASSUME IInv, NEW s \in Slots, HandshakeFails(s)
  PROVE  IInv'
<1>1. /\ links[s].st = "handshake"
      /\ UNCHANGED <<discoveryVars, archiveConnections, sincePong, timers, reconnectTimer, managerVars>>
      /\ UNCHANGED environmentVars \/ (Fault /\ UNCHANGED <<up, banned>>)
  BY DEF HandshakeFails, Is
<1>2. UNCHANGED <<archiveNodes, discovery, unchecked, healthy, previousState, event, manager, awaited,
                  wsServerInitialized, wsClientInitialized, overlap>>
  BY <1>1 DEF discoveryVars, managerVars
<1>3. /\ reconnectAttempts' \in [ANodes -> 0..MaxReconnectAttempts]
      /\ \E link : Allowed(link) /\ links' = [links EXCEPT ![s] = link]
  <2>1. CASE ReconnectFails(s)
    BY <1>1, <2>1, FailuresKeep
  <2>2. CASE links' = [links EXCEPT ![s] = Free] /\ UNCHANGED reconnectAttempts
    BY <2>2, OthersAllowed DEF IInv, CountsTypeOK
  <2> QED
    BY <2>1, <2>2 DEF HandshakeFails
<1>4. Tasks(links', archiveConnections') /\ OneConnects(links)'
  <2>1. PICK link : Allowed(link) /\ links' = [links EXCEPT ![s] = link]
    BY <1>3
  <2> QED
    BY <1>1, <2>1, LinkReplaced
<1>5. DiscoveryTypeOK'
  <2>1. up' \subseteq ANodes /\ banned' \subseteq ANodes /\ faults' \in 0..MaxFaults
    BY <1>1, DiscoveryAssumption DEF IInv, DiscoveryTypeOK, Fault, environmentVars
  <2> QED
    BY <1>2, <2>1 DEF IInv, DiscoveryTypeOK
<1>6. EventFits' /\ ManagerIsExact'
  BY <1>1, <1>2, ManagerStays
<1>7. CountsTypeOK'
  BY <1>1, <1>2, <1>3 DEF IInv, CountsTypeOK
<1> QED
  BY <1>4, <1>5, <1>6, <1>7 DEF IInv

LEMMA AuthSuccessKeeps ==
  ASSUME IInv, NEW s \in Slots, AuthSuccess(s)
  PROVE  IInv'
<1> DEFINE n == links[s].node
           by == links[s].by
           rest == links[s].rest
           map == [archiveConnections EXCEPT ![n] = s]
           opened == [links EXCEPT ![s] = Open(n)]
<1>1. /\ links[s].st = "handshake"
      /\ archiveConnections' = map /\ reconnectAttempts' = [reconnectAttempts EXCEPT ![n] = 0]
      /\ UNCHANGED <<environmentVars, discoveryVars, sincePong, manager, awaited,
                     wsServerInitialized, overlap>>
  BY DEF AuthSuccess, Is
<1>2. n \in ANodes /\ rest \in SUBSET ANodes
  BY <1>1, Shapes DEF IInv, Tasks
<1>3. reconnectAttempts' \in [ANodes -> 0..MaxReconnectAttempts]
  BY <1>1, <1>2, LinksAssumption DEF IInv, CountsTypeOK
<1>4. Tasks(opened, map)
  BY <1>1, StoredAnew DEF IInv
<1>5. Own(opened) = Own(links) \ {s}
  <2>1. DOMAIN links = Slots
    BY DEF IInv, Tasks
  <2> DEFINE link == Open(n)
  <2>2. link.st # "handshake"
    BY DEF Open
  <2> HIDE DEF link
  <2>3. Own([links EXCEPT ![s] = link]) = Own(links) \ {s}
    BY <2>1, <2>2, OwnReplaced
  <2> QED
    BY <2>3 DEF link
<1>6. \/ /\ by \in {"postConstruct", "monitor"}
         /\ LoopGoesOn(opened, map, by, rest)
         /\ IF LoopIsOver(map, rest) THEN PostConstructReturns(by) ELSE ClientUnchanged
      \/ /\ by \notin {"postConstruct", "monitor"}
         /\ links' = opened /\ ClientUnchanged
  BY DEF AuthSuccess
<1> HIDE DEF map, opened
<1>7. CountsTypeOK'
  BY <1>1, <1>3 DEF IInv, CountsTypeOK
<1>8. UNCHANGED <<up, banned, faults, archiveNodes, discovery, unchecked, healthy, previousState, event>>
  BY <1>1 DEF environmentVars, discoveryVars
<1>9. DiscoveryTypeOK'
  BY <1>8 DEF IInv, DiscoveryTypeOK
<1>10. ASSUME ClientUnchanged
       PROVE  /\ EventFits' /\ ManagerIsExact'
              /\ UNCHANGED <<previousState, event, manager, wsServerInitialized, wsClientInitialized, overlap>>
  <2>1. UNCHANGED <<timers, reconnectTimer, wsClientInitialized>>
    BY <1>10 DEF ClientUnchanged
  <2> QED
    BY <1>1, <1>8, <2>1, ManagerStays
<1>11. ASSUME by = "postConstruct"
       PROVE  /\ overlap # "now" =>
                   /\ Own(opened) = {} /\ manager = "idle" /\ wsServerInitialized /\ ~wsClientInitialized
                   /\ event = "none" => previousState = "connected"
              /\ Tasks(links', map)
              /\ LoopIsOver(map, rest) => links' = opened
              /\ \E t \in Slots : Own(links') \subseteq Own(opened) \cup {t}
  <2>1. overlap # "now" =>
          /\ Own(links) = {s} /\ manager = "idle" /\ wsServerInitialized /\ ~wsClientInitialized
          /\ event = "none" => previousState = "connected"
    BY <1>1, <1>11, OwnIsAwaited
  <2>2. LoopGoesOn(opened, map, "postConstruct", rest)
    BY <1>6, <1>11
  <2>3. /\ Tasks(links', map)
        /\ LoopIsOver(map, rest) => links' = opened
        /\ \E t \in Slots : Own(links') \subseteq Own(opened) \cup {t}
    BY <1>2, <1>4, <2>2, LoopKeeps
  <2> QED
    BY <1>5, <2>1, <2>3
<1>12. CASE by = "postConstruct" /\ LoopIsOver(map, rest)
  <2>1. ClientStarts
    BY <1>6, <1>12 DEF PostConstructReturns
  <2>2. EventFits' /\ ManagerIsExact'
    BY <1>1, <1>8, <1>11, <1>12, <2>1, ClientStartsKeeps
  <2>3. OneConnects(links)'
    BY <1>1, <1>11, <1>12 DEF OneConnects
  <2> QED
    BY <1>1, <1>7, <1>9, <1>11, <1>12, <2>2, <2>3 DEF IInv
<1>13. CASE by = "postConstruct" /\ ~LoopIsOver(map, rest)
  <2>1. ClientUnchanged
    BY <1>6, <1>13
  <2>2. OneConnects(links)'
    <3>1. UNCHANGED <<previousState, event, manager, wsServerInitialized, wsClientInitialized, overlap>>
      BY <1>10, <2>1
    <3> QED
      BY <1>11, <1>13, <3>1 DEF OneConnects
  <2> QED
    BY <1>1, <1>7, <1>9, <1>10, <1>11, <1>13, <2>1, <2>2 DEF IInv
<1>14. CASE by # "postConstruct"
  <2>1. ClientUnchanged
    BY <1>6, <1>14 DEF PostConstructReturns
  <2>2. Tasks(links', map) /\ Own(links') = Own(opened)
    <3>1. CASE by = "monitor"
      BY <1>2, <1>4, <1>6, <3>1, LoopKeeps
    <3>2. CASE by \notin {"postConstruct", "monitor"}
      BY <1>4, <1>6, <3>2
    <3> QED
      BY <1>14, <3>1, <3>2
  <2>3. OneConnects(links)'
    BY <1>5, <1>10, <2>1, <2>2, OneStays DEF IInv
  <2> QED
    BY <1>1, <1>7, <1>9, <1>10, <2>1, <2>2, <2>3 DEF IInv
<1> QED
  BY <1>12, <1>13, <1>14

\* What ageing leaves of a task.
GrowsTo(link, older) ==
  /\ older \in LinkState
  /\ older.st = link.st
  /\ link.st # "free" => older.node = link.node
  /\ link.st \in {"handshake", "delay"} => older.attempts = link.attempts
  /\ link.st = "handshake" => older.by = link.by

AllGrowTo(ls, older) == \A s \in Slots : GrowsTo(ls[s], older[s])

\* validateConnections, for the nodes whose connections it gives up.
Validated(ls, map, older, gone, new, newMap) ==
  /\ gone \in SUBSET Connected(map)
  /\ new = [s \in Slots |-> IF \E n \in gone : map[n] = s THEN Closing(ls[s].node) ELSE older[s]]
  /\ newMap = [n \in ANodes |-> IF n \in gone THEN NoLink ELSE map[n]]

\* Every task grows older, or stays, but for those of the nodes that are closed.
LEMMA AllOlder ==
  ASSUME NEW ls, NEW map, Tasks(ls, map), NEW older, AllGrowTo(ls, older),
         NEW gone, NEW new, NEW newMap, Validated(ls, map, older, gone, new, newMap)
  PROVE  Tasks(new, newMap) /\ Own(new) \subseteq Own(ls)
<1> USE DEF AllGrowTo, Validated
<1>1. ASSUME NEW s \in Slots
      PROVE  /\ new[s] \in LinkState
             /\ (\E n \in gone : map[n] = s) => ls[s].st \in {"open", "closing"} /\ new[s].st = "closing"
             /\ (\A n \in gone : map[n] # s) =>
                  /\ new[s].st = ls[s].st
                  /\ ls[s].st # "free" => new[s].node = ls[s].node
                  /\ ls[s].st \in {"handshake", "delay"} => new[s].attempts = ls[s].attempts
                  /\ ls[s].st = "handshake" => new[s].by = ls[s].by
  <2>1. CASE \E n \in gone : map[n] = s
    <3>1. ls[s].st \in {"open", "closing"} /\ ls[s].node \in ANodes
      BY <2>1 DEF Tasks, Connected
    <3>2. new[s] = Closing(ls[s].node)
      BY <2>1
    <3> QED
      BY <2>1, <3>1, <3>2, SocketsMade
  <2>2. CASE \A n \in gone : map[n] # s
    <3>1. new[s] = older[s] /\ GrowsTo(ls[s], older[s])
      BY <2>2
    <3> QED
      BY <2>2, <3>1 DEF GrowsTo
  <2> QED
    BY <2>1, <2>2
<1>2. new \in [Slots -> LinkState]
  BY <1>1
<1>3. newMap \in [ANodes -> Slots \cup {NoLink}]
  BY DEF Tasks
<1>4. ASSUME NEW n \in Connected(newMap)
      PROVE  new[newMap[n]].st \in {"open", "closing"} /\ new[newMap[n]].node = n
  <2>1. n \notin gone /\ n \in Connected(map) /\ newMap[n] = map[n]
    BY <1>4 DEF Connected
  <2>2. map[n] \in Slots /\ ls[map[n]].st \in {"open", "closing"} /\ ls[map[n]].node = n
    BY <2>1 DEF Tasks, Connected
  <2>3. \A m \in gone : map[m] # map[n]
    BY <2>1, <2>2 DEF Tasks
  <2> QED
    BY <1>1, <2>1, <2>2, <2>3
<1>5. \A s \in Slots : new[s].st \in {"handshake", "delay"} => new[s].attempts < MaxReconnectAttempts
  BY <1>1 DEF Tasks
<1>6. Own(new) \subseteq Own(ls)
  BY <1>1 DEF Own
<1> QED
  BY <1>2, <1>3, <1>4, <1>5, <1>6 DEF Tasks

LEMMA RestoreKeeps ==
  ASSUME IInv, NEW pongs, NEW older, AllGrowTo(links, older),
         CheckAndRestoreConnections(pongs, older)
  PROVE  Tasks(links', archiveConnections') /\ Own(links') \subseteq Own(links)
<1> DEFINE gone == Invalid(pongs)
           map == [n \in ANodes |-> IF n \in gone THEN NoLink ELSE archiveConnections[n]]
           validated == [s \in Slots |->
             IF \E n \in gone : archiveConnections[n] = s THEN Closing(links[s].node) ELSE older[s]]
<1>1. Validated(links, archiveConnections, older, gone, validated, map)
  BY DEF Validated, Invalid
<1>2. /\ archiveConnections' = map
      /\ \/ links' = validated
         \/ LoopGoesOn(validated, map, "monitor", ActiveArchiveNodes)
  BY DEF CheckAndRestoreConnections
<1> HIDE DEF gone, map, validated
<1>3. Tasks(validated, map) /\ Own(validated) \subseteq Own(links)
  BY <1>1, AllOlder DEF IInv
<1>4. ActiveArchiveNodes \in SUBSET ANodes
  BY DEF ActiveArchiveNodes, Known
<1>5. CASE LoopGoesOn(validated, map, "monitor", ActiveArchiveNodes)
  BY <1>2, <1>3, <1>4, <1>5, LoopKeeps
<1> QED
  BY <1>2, <1>3, <1>5

LEMMA IntervalPassesKeeps ==
  ASSUME IInv, IntervalPasses
  PROVE  IInv'
<1> DEFINE pongs == [n \in ANodes |-> NextSincePong(n)]
           older == [s \in Slots |-> Older(links[s])]
<1>1. /\ sincePong' = pongs /\ \A s \in Slots : MayOutlast(links[s])
      /\ UNCHANGED <<environmentVars, discoveryVars, reconnectAttempts, timers, reconnectTimer,
                     managerVars>>
  BY DEF IntervalPasses
<1>2. UNCHANGED <<previousState, event, manager, awaited, wsServerInitialized, wsClientInitialized, overlap>>
  BY <1>1 DEF discoveryVars, managerVars
<1>3. pongs \in [ANodes -> 0..NeverPonged]
  BY DEF NextSincePong, IInv, CountsTypeOK, NeverPonged, StaleAfter
<1>4. AllGrowTo(links, older)
  BY <1>1, Ageing DEF AllGrowTo, GrowsTo, IInv, Tasks
<1>5. \/ CheckAndRestoreConnections(pongs, older)
      \/ links' = older /\ UNCHANGED archiveConnections
  BY DEF IntervalPasses
<1>6. DOMAIN older = Slots /\ older = [s \in Slots |-> older[s]]
  OBVIOUS
<1> HIDE DEF pongs, older
<1>7. Tasks(links', archiveConnections') /\ Own(links') \subseteq Own(links)
  <2>1. CASE CheckAndRestoreConnections(pongs, older)
    BY <1>4, <2>1, RestoreKeeps
  <2>2. CASE links' = older /\ UNCHANGED archiveConnections
    <3>1. PICK none : none = {}
      OBVIOUS
    <3>2. archiveConnections' = [n \in ANodes |-> IF n \in none THEN NoLink ELSE archiveConnections[n]]
      BY <2>2, <3>1 DEF IInv, Tasks
    <3>3. links' = [s \in Slots |-> IF \E n \in none : archiveConnections[n] = s
                                      THEN Closing(links[s].node) ELSE older[s]]
      BY <1>6, <2>2, <3>1
    <3>4. Validated(links, archiveConnections, older, none, links', archiveConnections')
      BY <3>1, <3>2, <3>3 DEF Validated
    <3> QED
      BY <1>4, <3>4, AllOlder DEF IInv
  <2> QED
    BY <1>5, <2>1, <2>2
<1>8. OneConnects(links)'
  BY <1>2, <1>7, OneStays DEF IInv
<1>9. DiscoveryTypeOK' /\ EventFits' /\ ManagerIsExact'
  BY <1>1, <1>2, RestStays
<1>10. CountsTypeOK'
  BY <1>1, <1>2, <1>3 DEF IInv, CountsTypeOK
<1> QED
  BY <1>7, <1>8, <1>9, <1>10 DEF IInv

LEMMA SecondTimerFiresKeeps ==
  ASSUME IInv, SecondTimerFires
  PROVE  IInv'
<1>1. /\ CheckAndRestoreConnections(sincePong, links)
      /\ UNCHANGED <<environmentVars, discoveryVars, reconnectAttempts, sincePong, timers,
                     reconnectTimer, managerVars>>
  BY DEF SecondTimerFires
<1>2. UNCHANGED <<previousState, event, manager, awaited, wsServerInitialized, wsClientInitialized, overlap>>
  BY <1>1 DEF discoveryVars, managerVars
<1>3. AllGrowTo(links, links)
  BY DEF AllGrowTo, GrowsTo, IInv, Tasks
<1>4. Tasks(links', archiveConnections') /\ Own(links') \subseteq Own(links)
  BY <1>1, <1>3, RestoreKeeps
<1>5. OneConnects(links)'
  BY <1>2, <1>4, OneStays DEF IInv
<1>6. DiscoveryTypeOK' /\ EventFits' /\ ManagerIsExact'
  BY <1>1, <1>2, RestStays
<1>7. CountsTypeOK'
  BY <1>1, <1>2 DEF IInv, CountsTypeOK
<1> QED
  BY <1>4, <1>5, <1>6, <1>7 DEF IInv

LEMMA NodeFailsKeeps ==
  ASSUME IInv, NEW n \in ANodes, NodeFails(n)
  PROVE  IInv'
<1> DEFINE down == [s \in Slots |-> IF Is(s, "open") /\ links[s].node = n
                                      THEN [links[s] EXCEPT !.alive = FALSE] ELSE links[s]]
<1>1. /\ links' = down /\ Fault /\ up' = up \ {n}
      /\ UNCHANGED <<banned, discoveryVars, archiveConnections, reconnectAttempts, sincePong, timers, reconnectTimer,
                     managerVars>>
  BY DEF NodeFails
<1>2. UNCHANGED <<archiveNodes, discovery, unchecked, healthy, previousState, event, manager, awaited,
                  wsServerInitialized, wsClientInitialized, overlap>>
  BY <1>1 DEF discoveryVars, managerVars
<1>3. ASSUME NEW s \in Slots
      PROVE  /\ down[s] \in LinkState /\ down[s].st = links[s].st
             /\ links[s].st # "free" => down[s].node = links[s].node
             /\ links[s].st \in {"handshake", "delay"} => down[s] = links[s]
  <2>1. links[s] \in LinkState
    BY DEF IInv, Tasks
  <2>2. CASE Is(s, "open") /\ links[s].node = n
    <3>1. links[s] \in [st : {"open"}, node : ANodes, alive : BOOLEAN, age : 0..2]
      BY <2>1, <2>2, Shapes DEF Is
    <3>2. down[s] = [links[s] EXCEPT !.alive = FALSE]
      BY <2>2
    <3> QED
      BY <3>1, <3>2 DEF LinkState
  <2>3. CASE ~(Is(s, "open") /\ links[s].node = n)
    BY <2>1, <2>3
  <2> QED
    BY <2>2, <2>3
<1> HIDE DEF down
<1>4. Tasks(links', archiveConnections')
  <2>1. links' \in [Slots -> LinkState]
    BY <1>1, <1>3 DEF down
  <2>2. \A m \in Connected(archiveConnections) :
           /\ archiveConnections[m] \in Slots
           /\ links[archiveConnections[m]].st \in {"open", "closing"} /\ links[archiveConnections[m]].node = m
    BY DEF IInv, Tasks, Connected
  <2>3. \A m \in Connected(archiveConnections) :
           down[archiveConnections[m]].st \in {"open", "closing"} /\ down[archiveConnections[m]].node = m
    BY <1>3, <2>2
  <2>4. \A s \in Slots : down[s].st \in {"handshake", "delay"} => down[s].attempts < MaxReconnectAttempts
    BY <1>3 DEF IInv, Tasks
  <2> QED
    BY <1>1, <2>1, <2>3, <2>4 DEF IInv, Tasks
<1>5. OneConnects(links)'
  <2>1. Own(links') \subseteq Own(links)
    BY <1>1, <1>3 DEF Own
  <2> QED
    BY <1>2, <2>1, OneStays DEF IInv
<1>6. DiscoveryTypeOK'
  BY <1>1, <1>2, DiscoveryAssumption DEF IInv, DiscoveryTypeOK, Fault
<1>7. EventFits' /\ ManagerIsExact'
  BY <1>1, <1>2, ManagerStays
<1>8. CountsTypeOK'
  BY <1>1, <1>2 DEF IInv, CountsTypeOK
<1> QED
  BY <1>4, <1>5, <1>6, <1>7, <1>8 DEF IInv

-----------------------------------------------------------------------------
(* Steps of the manager. *)

\* The handlers that a new one overlaps with are those of OneConnects.
LEMMA Overlapping ==
  ASSUME IInv, RecordOverlap
  PROVE  /\ overlap' \in {"never", "before", "now"}
         /\ overlap' # "now" => manager = "idle" /\ Own(links) = {}
         /\ overlap' = "never" => overlap = "never"
<1>1. Starting = Own(links)
  BY DEF Starting, Own, Is
<1>2. overlap \in {"never", "before", "now"}
  BY DEF IInv, ManagerIsExact, ManagerTypeOK
<1> QED
  BY <1>1, <1>2 DEF RecordOverlap

LEMMA OnMinimumNodesConnectedKeeps ==
  ASSUME IInv, OnMinimumNodesConnected
  PROVE  IInv'
<1> DEFINE active == ActiveArchiveNodes
<1>1. /\ event = "minimumNodesConnected" /\ event' = "none" /\ wsServerInitialized' = TRUE
      /\ UNCHANGED <<environmentVars, archiveNodes, discovery, unchecked, healthy, previousState,
                     archiveConnections, reconnectAttempts, sincePong, manager, awaited>>
  BY DEF OnMinimumNodesConnected
<1>2. /\ UNCHANGED <<up, banned, faults>>
      /\ previousState = "connected" /\ previousState' = "connected" /\ discovery' = "idle"
  BY <1>1 DEF environmentVars, IInv, EventFits
<1>3. DiscoveryTypeOK' /\ CountsTypeOK' /\ EventFits'
  BY <1>1, <1>2 DEF IInv, DiscoveryTypeOK, CountsTypeOK, EventFits
<1>4. /\ overlap' \in {"never", "before", "now"}
      /\ overlap' # "now" => manager = "idle" /\ Own(links) = {}
      /\ overlap' = "never" => overlap = "never"
  BY Overlapping DEF OnMinimumNodesConnected
<1>5. \/ UNCHANGED links /\ ClientUnchanged
      \/ /\ ~wsClientInitialized
         /\ LoopGoesOn(links, archiveConnections, "postConstruct", active)
         /\ IF LoopIsOver(archiveConnections, active) THEN ClientStarts ELSE ClientUnchanged
  BY DEF OnMinimumNodesConnected
<1>6. active \in SUBSET ANodes
  BY DEF ActiveArchiveNodes, Known
<1> HIDE DEF active
<1>7. manager \in {"idle", "serverDown", "clientDown"} /\ timers \in Nat
      /\ reconnectTimer \in BOOLEAN /\ wsClientInitialized \in BOOLEAN
  BY DEF IInv, ManagerIsExact, ManagerTypeOK
<1>8. ASSUME ClientUnchanged
      PROVE  ManagerIsExact'
  <2>1. UNCHANGED <<timers, reconnectTimer, wsClientInitialized>>
    BY <1>8 DEF ClientUnchanged
  <2>2. ManagerTypeOK'
    BY <1>1, <1>4, <1>7, <2>1 DEF ManagerTypeOK
  <2>3. Monitored'
    BY <1>1, <2>1 DEF IInv, ManagerIsExact, Monitored
  <2>4. Follows'
    BY <1>1, <1>2, <1>4 DEF Follows
  <2>5. OneTimer'
    BY <1>1, <1>4, <2>1 DEF IInv, ManagerIsExact, OneTimer
  <2> QED
    BY <2>2, <2>3, <2>4, <2>5 DEF ManagerIsExact
<1>9. CASE UNCHANGED links /\ ClientUnchanged
  <2>1. Tasks(links', archiveConnections')
    BY <1>1, <1>9 DEF IInv
  <2>2. OneConnects(links)'
    BY <1>4, <1>9 DEF OneConnects
  <2> QED
    BY <1>3, <1>8, <1>9, <2>1, <2>2 DEF IInv
<1>10. CASE /\ ~wsClientInitialized
            /\ LoopGoesOn(links, archiveConnections, "postConstruct", active)
            /\ IF LoopIsOver(archiveConnections, active) THEN ClientStarts ELSE ClientUnchanged
  <2>1. /\ Tasks(links', archiveConnections)
        /\ LoopIsOver(archiveConnections, active) => links' = links
        /\ \E t \in Slots : Own(links') \subseteq Own(links) \cup {t}
    BY <1>6, <1>10, LoopKeeps DEF IInv
  <2>2. CASE LoopIsOver(archiveConnections, active)
    <3>1. timers' = timers + 1 /\ reconnectTimer' = TRUE /\ wsClientInitialized' = TRUE
      BY <1>10, <2>2 DEF ClientStarts
    <3>2. ManagerTypeOK'
      BY <1>1, <1>4, <1>7, <3>1 DEF ManagerTypeOK
    <3>3. Monitored'
      BY <1>7, <3>1 DEF Monitored
    <3>4. Follows'
      BY <1>1, <1>2, <1>4 DEF Follows
    <3>5. OneTimer'
      <4> SUFFICES ASSUME overlap' = "never"
                   PROVE  timers' = 1 /\ manager' = "idle"
        BY <3>1 DEF OneTimer
      <4>1. timers = 0
        BY <1>4, <1>10 DEF IInv, ManagerIsExact, OneTimer
      <4> QED
        BY <1>1, <1>4, <3>1, <4>1
    <3>6. OneConnects(links)'
      BY <1>4, <2>1, <2>2 DEF OneConnects
    <3> QED
      BY <1>1, <1>3, <2>1, <3>2, <3>3, <3>4, <3>5, <3>6 DEF IInv, ManagerIsExact
  <2>3. CASE ~LoopIsOver(archiveConnections, active)
    <3>1. ClientUnchanged
      BY <1>10, <2>3
    <3>2. wsClientInitialized' = FALSE
      BY <1>7, <1>10, <3>1 DEF ClientUnchanged
    <3>3. OneConnects(links)'
      BY <1>1, <1>2, <1>4, <2>1, <3>2 DEF OneConnects
    <3> QED
      BY <1>1, <1>3, <1>8, <2>1, <3>1, <3>3 DEF IInv
  <2> QED
    BY <2>2, <2>3
<1> QED
  BY <1>5, <1>9, <1>10

LEMMA OnMinimumNodesLostKeeps ==
  ASSUME IInv, OnMinimumNodesLost
  PROVE  IInv'
<1>1. /\ event = "minimumNodesLost" /\ manager = "idle" /\ event' = "none"
      /\ manager' = IF wsServerInitialized \/ wsClientInitialized THEN "serverDown" ELSE "idle"
      /\ UNCHANGED <<environmentVars, archiveNodes, discovery, unchecked, healthy, previousState,
                     clientVars, awaited, wsServerInitialized, wsClientInitialized>>
  BY DEF OnMinimumNodesLost
<1>2. UNCHANGED <<up, banned, faults, links, archiveConnections, reconnectAttempts, sincePong, timers,
                  reconnectTimer>>
  BY <1>1 DEF environmentVars, clientVars
<1>3. previousState = "disconnected" /\ discovery = "idle"
  BY <1>1 DEF IInv, EventFits
<1>4. /\ overlap' \in {"never", "before", "now"}
      /\ overlap' # "now" => manager = "idle" /\ Own(links) = {}
      /\ overlap' = "never" => overlap = "never"
  BY Overlapping DEF OnMinimumNodesLost
<1>5. DiscoveryTypeOK' /\ CountsTypeOK' /\ EventFits'
  BY <1>1, <1>2, <1>3 DEF IInv, DiscoveryTypeOK, CountsTypeOK, EventFits
<1>6. Tasks(links', archiveConnections') /\ OneConnects(links)'
  BY <1>2, <1>4 DEF IInv, OneConnects
<1>7. ManagerTypeOK'
  BY <1>1, <1>2, <1>4 DEF IInv, ManagerIsExact, ManagerTypeOK
<1>8. Monitored'
  BY <1>1, <1>2 DEF IInv, ManagerIsExact, Monitored
<1>9. Follows'
  BY <1>1, <1>3 DEF Follows, IInv, ManagerIsExact, ManagerTypeOK
<1>10. OneTimer'
  BY <1>1, <1>2, <1>4 DEF IInv, ManagerIsExact, OneTimer
<1> QED
  BY <1>5, <1>6, <1>7, <1>8, <1>9, <1>10 DEF IInv, ManagerIsExact

LEMMA ServerIsDownKeeps ==
  ASSUME IInv, ServerIsDown
  PROVE  IInv'
<1>1. /\ manager = "serverDown" /\ wsServerInitialized' = FALSE
      /\ UNCHANGED <<up, banned, faults, archiveNodes, discovery, unchecked, healthy, previousState, event,
                     wsClientInitialized, overlap>>
  BY DEF ServerIsDown, environmentVars, discoveryVars
<1>2. /\ timers \in Nat /\ reconnectTimer \in BOOLEAN
      /\ wsClientInitialized \in BOOLEAN /\ overlap \in {"never", "before", "now"}
      /\ wsClientInitialized => reconnectTimer
      /\ reconnectTimer => timers > 0
  BY <1>1 DEF IInv, ManagerIsExact, ManagerTypeOK, Monitored
<1>3. overlap # "now" => Own(links) = {} /\ (event = "none" => previousState = "disconnected")
  BY <1>1 DEF IInv, ManagerIsExact, Follows, OneConnects
<1>4. DiscoveryTypeOK' /\ EventFits'
  BY <1>1 DEF IInv, DiscoveryTypeOK, EventFits
<1>5. CASE ~wsClientInitialized /\ manager' = "idle" /\ UNCHANGED <<clientVars, awaited>>
  <2>1. UNCHANGED <<links, archiveConnections, reconnectAttempts, sincePong, timers, reconnectTimer, awaited>>
    BY <1>5 DEF clientVars
  <2>2. ManagerTypeOK'
    BY <1>1, <1>2, <1>5, <2>1 DEF ManagerTypeOK
  <2>3. Monitored'
    BY <1>1, <1>2, <1>5, <2>1 DEF Monitored
  <2>4. Follows'
    BY <1>1, <1>3, <1>5 DEF Follows
  <2>5. OneTimer'
    BY <1>1, <1>5, <2>1 DEF IInv, ManagerIsExact, OneTimer
  <2>6. Tasks(links', archiveConnections') /\ OneConnects(links)' /\ CountsTypeOK'
    BY <1>1, <1>3, <2>1 DEF IInv, OneConnects, CountsTypeOK
  <2> QED
    BY <1>4, <2>2, <2>3, <2>4, <2>5, <2>6 DEF IInv, ManagerIsExact
<1>6. CASE /\ wsClientInitialized /\ manager' = "clientDown"
           /\ timers' = IF reconnectTimer THEN timers - 1 ELSE timers
           /\ reconnectTimer' = FALSE
           /\ awaited' = {archiveConnections[n] : n \in Connected(archiveConnections)}
           /\ links' = [s \in Slots |-> IF s \in awaited' THEN Closing(links[s].node) ELSE links[s]]
           /\ UNCHANGED <<archiveConnections, reconnectAttempts, sincePong>>
  <2>1. \A n \in Connected(archiveConnections) :
           /\ archiveConnections[n] \in Slots
           /\ links[archiveConnections[n]].st \in {"open", "closing"} /\ links[archiveConnections[n]].node = n
    BY DEF IInv, Tasks, Connected
  <2>2. awaited' \subseteq Slots /\ \A s \in awaited' : links[s].node \in ANodes
    BY <1>6, <2>1 DEF Connected
  <2>3. CountsTypeOK'
    BY <1>6, <2>2 DEF IInv, CountsTypeOK
  <2>4. ASSUME NEW s \in Slots
        PROVE  /\ links'[s] \in LinkState
               /\ s \in awaited' => links'[s].st = "closing" /\ links'[s].node = links[s].node
               /\ s \notin awaited' => links'[s] = links[s]
    <3>1. links[s] \in LinkState
      BY DEF IInv, Tasks
    <3>2. CASE s \in awaited'
      <4>1. links'[s] = Closing(links[s].node)
        BY <1>6, <3>2
      <4> QED
        BY <2>2, <3>2, <4>1, SocketsMade
    <3>3. CASE s \notin awaited'
      BY <1>6, <3>1, <3>3
    <3> QED
      BY <3>2, <3>3
  <2>5. Tasks(links', archiveConnections')
    <3>1. links' \in [Slots -> LinkState]
      BY <1>6, <2>4
    <3>2. \A n \in Connected(archiveConnections) :
             links'[archiveConnections[n]].st \in {"open", "closing"} /\ links'[archiveConnections[n]].node = n
      BY <2>1, <2>4
    <3>3. \A s \in Slots : links'[s].st \in {"handshake", "delay"} => links'[s].attempts < MaxReconnectAttempts
      BY <2>4 DEF IInv, Tasks
    <3> QED
      BY <1>6, <3>1, <3>2, <3>3 DEF IInv, Tasks
  <2>6. OneConnects(links)'
    <3>1. Own(links') \subseteq Own(links)
      BY <2>4 DEF Own
    <3> QED
      BY <1>1, <1>3, <3>1 DEF OneConnects
  <2>7. timers' \in Nat /\ timers' = timers - 1
    BY <1>2, <1>6
  <2>8. ManagerTypeOK'
    BY <1>1, <1>2, <1>6, <2>7 DEF ManagerTypeOK
  <2>9. Monitored'
    BY <1>6 DEF Monitored
  <2>10. Follows'
    BY <1>1, <1>3, <1>6 DEF Follows
  <2>11. OneTimer'
    <3> SUFFICES ASSUME overlap = "never"
                 PROVE  timers' = 0 /\ reconnectTimer' = FALSE
      BY <1>1 DEF OneTimer
    <3>1. timers = 1
      BY <1>2, <1>6 DEF IInv, ManagerIsExact, OneTimer
    <3> QED
      BY <1>6, <2>7, <3>1
  <2> QED
    BY <1>4, <2>3, <2>5, <2>6, <2>8, <2>9, <2>10, <2>11 DEF IInv, ManagerIsExact
<1> QED
  BY <1>5, <1>6 DEF ServerIsDown

LEMMA ClientIsDownKeeps ==
  ASSUME IInv, ClientIsDown
  PROVE  IInv'
<1>1. /\ manager = "clientDown" /\ manager' = "idle" /\ wsClientInitialized' = FALSE
      /\ archiveConnections' = [n \in ANodes |-> NoLink]
      /\ reconnectAttempts' = [n \in ANodes |-> 0]
      /\ UNCHANGED <<up, banned, faults, archiveNodes, discovery, unchecked, healthy, previousState, event,
                     links, sincePong, timers, reconnectTimer, awaited, wsServerInitialized, overlap>>
  BY DEF ClientIsDown, environmentVars, discoveryVars
<1>2. overlap # "now" =>
        Own(links) = {} /\ ~wsServerInitialized /\ (event = "none" => previousState = "disconnected")
  BY <1>1 DEF IInv, ManagerIsExact, Follows, OneConnects
<1>3. overlap = "never" => timers = 0 /\ ~reconnectTimer
  BY <1>1 DEF IInv, ManagerIsExact, OneTimer, Monitored
<1>4. DiscoveryTypeOK' /\ EventFits'
  BY <1>1 DEF IInv, DiscoveryTypeOK, EventFits
<1>5. CountsTypeOK'
  BY <1>1, LinksAssumption DEF IInv, CountsTypeOK
<1>6. Tasks(links', archiveConnections')
  BY <1>1 DEF IInv, Tasks, Connected
<1>7. OneConnects(links)'
  BY <1>1, <1>2 DEF OneConnects
<1>8. ManagerTypeOK'
  BY <1>1 DEF IInv, ManagerIsExact, ManagerTypeOK
<1>9. Monitored'
  BY <1>1 DEF IInv, ManagerIsExact, Monitored
<1>10. Follows'
  BY <1>1, <1>2 DEF Follows
<1>11. OneTimer'
  BY <1>1, <1>3 DEF OneTimer
<1> QED
  BY <1>4, <1>5, <1>6, <1>7, <1>8, <1>9, <1>10, <1>11 DEF IInv, ManagerIsExact

-----------------------------------------------------------------------------
(* Steps of discovery and of the environment. *)

\* What a step of discovery leaves alone.
LEMMA ClientStays ==
  ASSUME IInv, UNCHANGED <<clientVars, managerVars>>,
         (event = "none" /\ event' # "none") \/ UNCHANGED <<previousState, event>>
  PROVE  /\ Tasks(links', archiveConnections') /\ OneConnects(links)' /\ CountsTypeOK'
         /\ ManagerIsExact'
<1>1. UNCHANGED <<links, archiveConnections, reconnectAttempts, sincePong, timers, reconnectTimer,
                  manager, awaited, wsServerInitialized, wsClientInitialized, overlap>>
  BY DEF clientVars, managerVars
<1>2. Tasks(links', archiveConnections') /\ CountsTypeOK'
  BY <1>1 DEF IInv, CountsTypeOK
<1>3. OneConnects(links)'
  BY <1>1 DEF IInv, OneConnects
<1>4. ManagerTypeOK' /\ Monitored' /\ OneTimer'
  BY <1>1 DEF IInv, ManagerIsExact, ManagerTypeOK, Monitored, OneTimer
<1>5. Follows'
  BY <1>1 DEF IInv, ManagerIsExact, Follows
<1> QED
  BY <1>2, <1>3, <1>4, <1>5 DEF ManagerIsExact

\* The end of a pass: what was emitted is what has changed.
LEMMA Emitting ==
  ASSUME IInv, discovery # "idle", NEW known, EmitInitial(known) \/ EmitChange(known)
  PROVE  /\ previousState' \in {"connected", "disconnected"} /\ discovery' = "idle"
         /\ event' \in {"none", "minimumNodesConnected", "minimumNodesLost"}
         /\ EventFits'
         /\ (event = "none" /\ event' # "none") \/ UNCHANGED <<previousState, event>>
<1>1. event = "none" /\ previousState \in {"connected", "disconnected"}
  BY DEF IInv, EventFits, DiscoveryTypeOK
<1>2. /\ previousState' \in {"connected", "disconnected"} /\ discovery' = "idle"
      /\ \/ event' = "none" /\ previousState' = previousState
         \/ event' = "minimumNodesConnected" /\ previousState' = "connected"
         \/ event' = "minimumNodesLost" /\ previousState' = "disconnected"
  <2>1. CASE EmitInitial(known)
    BY <2>1 DEF EmitInitial
  <2>2. CASE EmitChange(known)
    BY <1>1, <2>2 DEF EmitChange
  <2> QED
    BY <2>1, <2>2
<1>3. EventFits'
  BY <1>1, <1>2 DEF EventFits
<1> QED
  BY <1>1, <1>2, <1>3

LEMMA Passing ==
  ASSUME IInv, discovery # "idle" \/ event = "none", UNCHANGED <<previousState, event>>
  PROVE  /\ EventFits'
         /\ (event = "none" /\ event' # "none") \/ UNCHANGED <<previousState, event>>
BY DEF IInv, EventFits

LEMMA DiscoveryKeeps ==
  ASSUME IInv, Discovery
  PROVE  IInv'
<1> DEFINE Emitted == (event = "none" /\ event' # "none") \/ UNCHANGED <<previousState, event>>
<1>1. UNCHANGED <<environmentVars, clientVars, managerVars>>
  BY DEF Discovery
<1>2. UNCHANGED <<up, banned, faults>>
  BY <1>1 DEF environmentVars
<1>3. ASSUME NEW n \in ANodes, AddNode(n)
      PROVE  DiscoveryTypeOK' /\ EventFits' /\ Emitted
  <2>1. /\ discovery # "idle" /\ unchecked' = unchecked \ {n}
        /\ archiveNodes' = IF n \in up THEN [archiveNodes EXCEPT ![n] = "object"] ELSE archiveNodes
        /\ UNCHANGED <<discovery, healthy, previousState, event>>
    BY <1>3 DEF AddNode
  <2>2. DiscoveryTypeOK'
    BY <1>2, <2>1 DEF IInv, DiscoveryTypeOK
  <2> QED
    BY <2>1, <2>2, Passing
<1>4. ASSUME NEW n \in ANodes, CheckNodeHealth(n)
      PROVE  DiscoveryTypeOK' /\ EventFits' /\ Emitted
  <2>1. /\ discovery # "idle" /\ unchecked' = unchecked \ {n} /\ healthy' = healthy \cup ({n} \cap up)
        /\ UNCHANGED <<archiveNodes, discovery, previousState, event>>
    BY <1>4 DEF CheckNodeHealth
  <2>2. DiscoveryTypeOK'
    BY <1>2, <2>1 DEF IInv, DiscoveryTypeOK
  <2> QED
    BY <2>1, <2>2, Passing
<1>5. ASSUME EnsureMinimumConnectionsReturns
      PROVE  DiscoveryTypeOK' /\ EventFits' /\ Emitted
  <2>1. /\ discovery # "idle" /\ unchecked' = {} /\ UNCHANGED <<archiveNodes, healthy>>
        /\ EmitInitial(Known) \/ EmitChange(Known)
    BY <1>5 DEF EnsureMinimumConnectionsReturns
  <2>2. /\ previousState' \in {"connected", "disconnected"} /\ discovery' = "idle"
        /\ event' \in {"none", "minimumNodesConnected", "minimumNodesLost"}
        /\ EventFits' /\ Emitted
    BY <2>1, Emitting
  <2>3. DiscoveryTypeOK'
    BY <1>2, <2>1, <2>2 DEF IInv, DiscoveryTypeOK
  <2> QED
    BY <2>2, <2>3
<1>6. ASSUME ReplaceArchiveNodes
      PROVE  DiscoveryTypeOK' /\ EventFits' /\ Emitted
  <2>1. /\ discovery # "idle" /\ unchecked = {} /\ healthy' = {}
        /\ archiveNodes' = [n \in ANodes |-> IF n \in healthy THEN "copy" ELSE "absent"]
    BY <1>6 DEF ReplaceArchiveNodes
  <2>2. archiveNodes' \in [ANodes -> {"absent", "object", "copy"}]
    BY <2>1
  <2>3. CASE EmitChange(healthy) /\ UNCHANGED unchecked
    <3>1. /\ previousState' \in {"connected", "disconnected"} /\ discovery' = "idle"
          /\ event' \in {"none", "minimumNodesConnected", "minimumNodesLost"}
          /\ EventFits' /\ Emitted
      BY <2>1, <2>3, Emitting
    <3>2. DiscoveryTypeOK'
      BY <1>2, <2>1, <2>2, <2>3, <3>1 DEF IInv, DiscoveryTypeOK
    <3> QED
      BY <3>1, <3>2
  <2>4. CASE discovery' = "ensure" /\ unchecked' = ANodes /\ UNCHANGED <<previousState, event>>
    <3>1. DiscoveryTypeOK'
      BY <1>2, <2>1, <2>2, <2>4 DEF IInv, DiscoveryTypeOK
    <3> QED
      BY <2>1, <2>4, <3>1, Passing
  <2> QED
    BY <1>6, <2>3, <2>4 DEF ReplaceArchiveNodes
<1>7. ASSUME RefreshNodeStatus, event = "none"
      PROVE  DiscoveryTypeOK' /\ EventFits' /\ Emitted
  <2>1. /\ discovery' = "recheck" /\ unchecked' = Known /\ healthy' = {}
        /\ UNCHANGED <<archiveNodes, previousState, event>>
    BY <1>7 DEF RefreshNodeStatus
  <2>2. DiscoveryTypeOK'
    BY <1>2, <2>1 DEF IInv, DiscoveryTypeOK, Known
  <2> QED
    BY <1>7, <2>1, <2>2, Passing
<1>8. DiscoveryTypeOK' /\ EventFits' /\ Emitted
  BY <1>3, <1>4, <1>5, <1>6, <1>7 DEF Discovery, DiscoveryStep
<1>9. /\ Tasks(links', archiveConnections') /\ OneConnects(links)' /\ CountsTypeOK'
      /\ ManagerIsExact'
  BY <1>1, <1>8, ClientStays
<1> QED
  BY <1>8, <1>9 DEF IInv

LEMMA EnvironmentKeeps ==
  ASSUME IInv, Environment
  PROVE  IInv'
<1>1. PICK n \in ANodes :
        \/ NodeFails(n)
        \/ /\ NodeRecovers(n) \/ NodeStatusChanged(n)
           /\ UNCHANGED <<discoveryVars, clientVars, managerVars>>
  BY DEF Environment
<1>2. CASE NodeFails(n)
  BY <1>2, NodeFailsKeeps
<1>3. CASE /\ NodeRecovers(n) \/ NodeStatusChanged(n)
           /\ UNCHANGED <<discoveryVars, clientVars, managerVars>>
  <2>1. UNCHANGED <<archiveNodes, discovery, unchecked, healthy, previousState, event>>
    BY <1>3 DEF discoveryVars
  <2>2. /\ Tasks(links', archiveConnections') /\ OneConnects(links)' /\ CountsTypeOK'
        /\ ManagerIsExact'
    BY <1>3, <2>1, ClientStays
  <2>3. up' \subseteq ANodes /\ banned' \subseteq ANodes /\ faults' \in 0..MaxFaults
    BY <1>3, DiscoveryAssumption DEF IInv, DiscoveryTypeOK, NodeRecovers, NodeStatusChanged, Fault
  <2>4. DiscoveryTypeOK'
    BY <2>1, <2>3 DEF IInv, DiscoveryTypeOK
  <2>5. EventFits'
    BY <2>1 DEF IInv, EventFits
  <2> QED
    BY <2>2, <2>4, <2>5 DEF IInv
<1> QED
  BY <1>1, <1>2, <1>3

-----------------------------------------------------------------------------
(* The theorems. *)

LEMMA Initially == Init => IInv
<1> SUFFICES ASSUME Init
             PROVE  IInv
  OBVIOUS
<1>1. DiscoveryTypeOK
  BY DiscoveryAssumption DEF Init, DiscoveryInit, DiscoveryTypeOK
<1>2. Tasks(links, archiveConnections) /\ Own(links) = {}
  <2>1. /\ links = [s \in Slots |-> Free] /\ archiveConnections = [n \in ANodes |-> NoLink]
    BY DEF Init
  <2> QED
    BY <2>1, NothingMade DEF Tasks, Connected, Own
<1>3. OneConnects(links)
  BY <1>2 DEF OneConnects
<1>4. CountsTypeOK
  BY LinksAssumption DEF Init, CountsTypeOK, NeverPonged, StaleAfter
<1>5. EventFits
  BY DEF Init, DiscoveryInit, EventFits
<1>6. ManagerIsExact
  <2>1. /\ timers = 0 /\ reconnectTimer = FALSE /\ manager = "idle" /\ overlap = "never"
        /\ previousState = "disconnected"
    BY DEF Init, DiscoveryInit
  <2>2. wsServerInitialized = FALSE /\ wsClientInitialized = FALSE
    BY DEF Init
  <2>3. ManagerTypeOK
    BY <2>1, <2>2 DEF ManagerTypeOK
  <2>4. Monitored
    BY <2>1, <2>2 DEF Monitored
  <2>5. Follows
    BY <2>1, <2>2 DEF Follows
  <2>6. OneTimer
    BY <2>1 DEF OneTimer
  <2> QED
    BY <2>3, <2>4, <2>5, <2>6 DEF ManagerIsExact
<1> QED
  BY <1>1, <1>2, <1>3, <1>4, <1>5, <1>6 DEF IInv

LEMMA StepKeeps == IInv /\ [Next]_vars => IInv'
<1> SUFFICES ASSUME IInv, [Next]_vars
             PROVE  IInv'
  OBVIOUS
<1>1. CASE Environment
  BY <1>1, EnvironmentKeeps
<1>2. CASE Discovery
  BY <1>2, DiscoveryKeeps
<1>3. CASE Manager
  BY <1>3, OnMinimumNodesConnectedKeeps, OnMinimumNodesLostKeeps, ServerIsDownKeeps, ClientIsDownKeeps
     DEF Manager
<1>4. CASE \E s \in Slots : Link(s)
  BY <1>4, AuthSuccessKeeps, HandshakeFailsKeeps, LinkClosesKeeps, ReconnectKeeps DEF Link
<1>5. CASE IntervalPasses
  BY <1>5, IntervalPassesKeeps
<1>6. CASE UNCHANGED vars
  <2>1. UNCHANGED <<environmentVars, discoveryVars>> /\ UNCHANGED <<clientVars, managerVars>>
    BY <1>6 DEF vars
  <2>2. UNCHANGED <<previousState, event, timers, reconnectTimer, manager, wsServerInitialized,
                    wsClientInitialized, overlap>>
    BY <2>1 DEF discoveryVars, clientVars, managerVars
  <2>3. /\ Tasks(links', archiveConnections') /\ OneConnects(links)' /\ CountsTypeOK'
        /\ ManagerIsExact'
    BY <2>1, <2>2, ClientStays
  <2>4. DiscoveryTypeOK' /\ EventFits'
    BY <2>1, <2>2, RestStays
  <2> QED
    BY <2>3, <2>4 DEF IInv
<1>7. CASE SecondTimerFires
  BY <1>7, SecondTimerFiresKeeps
<1> QED
  BY <1>1, <1>2, <1>3, <1>4, <1>5, <1>6, <1>7 DEF Next

LEMMA Invariance == Spec => []IInv
<1> QED
  BY Initially, StepKeeps, PTL DEF Spec

\* The variables have their types: among others, no node is tried again more
\* than MaxReconnectAttempts times, and shutdown clears no timer that does
\* not run.
THEOREM TypeCorrect == Spec => []TypeOK
<1>1. IInv => TypeOK
  BY DEF IInv, Tasks, CountsTypeOK, ManagerIsExact, ManagerTypeOK, TypeOK
<1> QED
  BY <1>1, Invariance, PTL

\* For any number of nodes and of tasks that overlap: what the map stores for
\* a node is a socket to this node that is open, or whose close event is
\* still to come (connectToArchiveNode, closeHandler, validateConnections).
THEOREM ConnectionsOpen == Spec => []ConnectionsAreOpen
<1>1. IInv => ConnectionsAreOpen
  BY DEF IInv, Tasks, ConnectionsAreOpen
<1> QED
  BY <1>1, Invariance, PTL

\* The client never runs without its monitor.  Once the manager has handled
\* the last event, and no other handler ran beside that one, the server runs
\* exactly if discovery counts enough nodes, and the client only with it,
\* whatever earlier handlers that overlapped have left behind; without any
\* overlap one timer runs at most (postConstruct and both handlers).
THEOREM ManagerFollows == Spec => []ManagerFollowsDiscovery
<1>1. IInv => ManagerFollowsDiscovery
  BY DEF IInv, ManagerIsExact, Monitored, Follows, OneTimer, ManagerFollowsDiscovery
<1> QED
  BY <1>1, Invariance, PTL
=============================================================================
