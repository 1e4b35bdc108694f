---------------------------- MODULE BlockEvents -----------------------------
(***************************************************************************)
(* Blocks that archive nodes have stored, on their way to subscribers:     *)
(* BlockStatusManager counts the nodes that report a block and hands it to *)
(* WebSocketServer, which keeps the clients, their handshakes and their    *)
(* subscriptions and sends each of them the transactions it asked for.     *)
(*                                                                         *)
(* A client here is one connection: a client that connects again gets      *)
(* another id.                                                             *)
(***************************************************************************)
EXTENDS Naturals, Sequences, FiniteSets

CONSTANTS
  Clients,
  ANodes,
  MinArchiveNodes,
  \* blockData by blockHash: the transactions of each block.
  TxsOf,
  \* The filter lists clients subscribe with.
  FilterLists,
  \* toLowerCase on addresses.
  Lower(_),
  \* Bounds of the model: the reports of each block, and the subscriptions
  \* a client makes.
  MaxReports,
  MaxSubscriptions

Blocks == DOMAIN TxsOf

ASSUME EventsAssumption ==
  /\ IsFiniteSet(Clients)
  /\ IsFiniteSet(ANodes)
  /\ MinArchiveNodes \in Nat \ {0}
  /\ MaxReports \in Nat
  /\ MaxSubscriptions \in Nat

VARIABLES
  \* BlockStatusManager.confirmations: no entry is the empty set of nodes.
  confirmations,
  \* The cleanups an entry has seen.
  age,
  \* History: the nodes that reported a block, how many reports there were,
  \* how often it was broadcast, the blocks whose broadcast threw, and those
  \* whose entry was cleaned up or went with the process.
  reportedBy,
  reports,
  broadcasts,
  thrown,
  forgotten,
  \* The WebSocket.Server is attached to the HTTP server.
  listening,
  \* WebSocketServer.clients, and the state of each socket and its timers.
  clients,
  \* The updates the last step has sent.
  sent

statusVars == <<confirmations, age, reportedBy, reports, broadcasts, thrown, forgotten>>
vars == <<statusVars, listening, clients, sent>>

Wildcard == [type |-> "WILDCARD", value |-> <<"*">>]

\* What a client may have subscribed to: the lists by subscription id.
Subscriptions ==
  UNION {[ids -> FilterLists \cup {<<Wildcard>>}] : ids \in SUBSET (1..MaxSubscriptions)}

ClientState ==
  {client \in [ws : {"new", "open", "closing", "closed"}, known : BOOLEAN, clientInfo : BOOLEAN,
               subscriptions : Subscriptions, made : 0..MaxSubscriptions,
               recent : BOOLEAN, handshakeTimer : BOOLEAN, deleteTimer : BOOLEAN] :
    /\ DOMAIN client.subscriptions \subseteq 1..client.made
    /\ DOMAIN client.subscriptions # {} => client.clientInfo /\ client.known
    /\ client.handshakeTimer \/ client.deleteTimer => client.known}

NewClient ==
  [ws |-> "new", known |-> FALSE, clientInfo |-> FALSE, subscriptions |-> <<>>, made |-> 0,
   recent |-> FALSE, handshakeTimer |-> FALSE, deleteTimer |-> FALSE]

Gone == [NewClient EXCEPT !.ws = "closed"]

Is(c, ws) == clients[c].ws = ws

TypeOK ==
  /\ confirmations \in [Blocks -> SUBSET ANodes]
  /\ age \in [Blocks -> 0..2]
  /\ reportedBy \in [Blocks -> SUBSET ANodes]
  /\ reports \in [Blocks -> 0..MaxReports]
  /\ broadcasts \in [Blocks -> 0..MaxReports]
  /\ thrown \subseteq Blocks
  /\ forgotten \subseteq Blocks
  /\ listening \in BOOLEAN
  /\ clients \in [Clients -> ClientState]

Init ==
  /\ confirmations = [b \in Blocks |-> {}]
  /\ age = [b \in Blocks |-> 0]
  /\ reportedBy = [b \in Blocks |-> {}]
  /\ reports = [b \in Blocks |-> 0]
  /\ broadcasts = [b \in Blocks |-> 0]
  /\ thrown = {}
  /\ forgotten = {}
  /\ listening = TRUE
  /\ clients = [c \in Clients |-> NewClient]
  /\ sent = {}

-----------------------------------------------------------------------------
(* broadcastBlockUpdate *)

Values(filter) == {filter.value[i] : i \in DOMAIN filter.value}

IsWildcard(filter) ==
  filter.type = "WILDCARD" /\ filter.value # <<>> /\ filter.value[1] = "*"

\* Mutant: the filter is applied to the whole block.
MutMatchesFilter(tx, filter) ==
  \E b \in Blocks : tx \in TxsOf[b] /\ \E t \in TxsOf[b] :
    \/ IsWildcard(filter)
    \/ filter.type = "CATEGORY" /\ t.category \in Values(filter)
    \/ filter.type = "FROM" /\ Lower(t.from) \in {Lower(v) : v \in Values(filter)}

\* The empty category and the empty sender match nothing.
MatchesFilter(tx, filter) ==
  LET addresses == {Lower(v) : v \in Values(filter)}
  IN  \/ IsWildcard(filter)
      \/ filter.type = "CATEGORY" /\ tx.category # "" /\ tx.category \in Values(filter)
      \/ filter.type = "FROM" /\ tx.from # "" /\ Lower(tx.from) \in addresses
      \/ filter.type = "RECIPIENTS" /\ \E r \in tx.recipients : Lower(r) \in addresses

Filters(list) == {list[i] : i \in DOMAIN list}

GetMatchingTransactions(b, list) ==
  {tx \in TxsOf[b] : \E filter \in Filters(list) : MatchesFilter(tx, filter)}

\* sendBlockUpdate: the message for subscription s of client c.
BlockUpdate(c, s, b) ==
  LET list == clients[c].subscriptions[s]
      txs == GetMatchingTransactions(b, list)
  IN [client |-> c, subscriptionId |-> s, block |-> b, txs |-> txs,
      matchedFilter |-> {f \in Filters(list) : \E tx \in txs : MatchesFilter(tx, f)}]

BroadcastBlockUpdate(b) ==
  {update \in UNION {{BlockUpdate(c, s, b) : s \in DOMAIN clients[c].subscriptions} :
                       c \in {x \in Clients : Is(x, "open")}} :
     update.txs # {}}

-----------------------------------------------------------------------------
(* BlockStatusManager *)

\* Mutant: the entry is not deleted after the broadcast.
MutHandleBlockConfirmation(b, nodeId) ==
  /\ reports[b] < MaxReports
  /\ reports' = [reports EXCEPT ![b] = @ + 1]
  /\ reportedBy' = [reportedBy EXCEPT ![b] = @ \cup {nodeId}]
  /\ confirmations' = [confirmations EXCEPT ![b] = @ \cup {nodeId}]
  /\ \/ /\ Cardinality(confirmations'[b]) >= MinArchiveNodes
        /\ broadcasts' = [broadcasts EXCEPT ![b] = @ + 1]
        /\ sent' = BroadcastBlockUpdate(b)
     \/ /\ Cardinality(confirmations'[b]) < MinArchiveNodes
        /\ sent' = {} /\ UNCHANGED broadcasts
  /\ UNCHANGED <<age, thrown, forgotten, listening, clients>>

\* The matching of transactions for some subscription is reached, where block
\* data without transactions makes it throw.
HasListeners == \E c \in Clients : Is(c, "open") /\ DOMAIN clients[c].subscriptions # {}

\* When the broadcast throws, the entry is not deleted: the next report of the
\* block broadcasts it again.
HandleBlockConfirmation(b, nodeId) ==
  LET nodes == confirmations[b] \cup {nodeId}
  IN /\ reports[b] < MaxReports
     /\ reports' = [reports EXCEPT ![b] = @ + 1]
     /\ reportedBy' = [reportedBy EXCEPT ![b] = @ \cup {nodeId}]
     /\ \/ /\ Cardinality(nodes) >= MinArchiveNodes
           /\ confirmations' = [confirmations EXCEPT ![b] = {}]
           /\ age' = [age EXCEPT ![b] = 0]
           /\ broadcasts' = [broadcasts EXCEPT ![b] = @ + 1]
           /\ sent' = BroadcastBlockUpdate(b)
           /\ UNCHANGED thrown
        \/ /\ Cardinality(nodes) >= MinArchiveNodes
           /\ HasListeners
           /\ confirmations' = [confirmations EXCEPT ![b] = nodes]
           /\ thrown' = thrown \cup {b}
           /\ sent' = {}
           /\ UNCHANGED <<age, broadcasts>>
        \/ /\ Cardinality(nodes) < MinArchiveNodes
           /\ confirmations' = [confirmations EXCEPT ![b] = nodes]
           /\ sent' = {}
           /\ UNCHANGED <<age, broadcasts, thrown>>
     /\ UNCHANGED <<forgotten, listening, clients>>

\* Every 15 minutes: an entry older than 30 minutes is in its third cleanup.
PerformCleanup ==
  LET old == {b \in Blocks : confirmations[b] # {} /\ age[b] = 2}
  IN /\ confirmations' = [b \in Blocks |-> IF b \in old THEN {} ELSE confirmations[b]]
     /\ age' = [b \in Blocks |->
          IF b \in old \/ confirmations[b] = {} THEN 0 ELSE age[b] + 1]
     /\ forgotten' = forgotten \cup old
     /\ sent' = {}
     /\ UNCHANGED <<reportedBy, reports, broadcasts, thrown, listening, clients>>

-----------------------------------------------------------------------------
(* WebSocketServer *)

Update(c, client) ==
  /\ clients' = [clients EXCEPT ![c] = client]
  /\ sent' = {}
  /\ UNCHANGED <<statusVars, listening>>

HandleClientConnection(c) ==
  /\ listening
  /\ Is(c, "new")
  /\ Update(c, [clients[c] EXCEPT !.ws = "open", !.known = TRUE, !.handshakeTimer = TRUE])

HandshakeTimeout(c) ==
  /\ clients[c].handshakeTimer
  /\ Update(c, [clients[c] EXCEPT
       !.handshakeTimer = FALSE,
       !.ws = IF ~clients[c].clientInfo /\ @ = "open" THEN "closing" ELSE @])

\* A socket that closes still delivers the messages sent before.
Receives(c) == clients[c].known /\ clients[c].ws \in {"open", "closing"}

\* A handshake with the id of the welcome message, or with another one.
HandleHandshake(c, ownId) ==
  /\ Receives(c)
  /\ Update(c, IF ownId THEN [clients[c] EXCEPT !.clientInfo = TRUE]
                       ELSE [clients[c] EXCEPT !.ws = "closing"])

CreateSubscription(c, list) ==
  LET id == clients[c].made + 1
  IN [clients[c] EXCEPT
       !.made = id,
       !.subscriptions = [s \in DOMAIN @ \cup {id} |-> IF s = id THEN list ELSE @[s]]]

HasSimilarSubscription(c, list) ==
  \E s \in DOMAIN clients[c].subscriptions : clients[c].subscriptions[s] = list

AreValidFilters(list) ==
  /\ list # <<>>
  /\ \A filter \in Filters(list) :
       filter.type \in {"CATEGORY", "RECIPIENTS", "FROM"} /\ filter.value # <<>>

HasWildcard(list) == \E filter \in Filters(list) : IsWildcard(filter)

\* Mutant: handleClientMessage does not ask for the handshake first.
MutUnshakenSubscribe(c, list) ==
  /\ Receives(c)
  /\ clients[c].made < MaxSubscriptions
  /\ ~HasSimilarSubscription(c, list) /\ ~clients[c].recent /\ AreValidFilters(list)
  /\ Update(c, [CreateSubscription(c, list) EXCEPT !.recent = TRUE])

HandleSubscribe(c, list) ==
  /\ Receives(c)
  /\ clients[c].clientInfo
  /\ clients[c].made < MaxSubscriptions
  /\ \/ /\ Len(list) = 1 /\ HasWildcard(list)
        /\ Update(c, CreateSubscription(c, <<Wildcard>>))
     \/ /\ ~HasWildcard(list)
        /\ ~HasSimilarSubscription(c, list)
        /\ ~clients[c].recent
        /\ LET client == IF AreValidFilters(list) THEN CreateSubscription(c, list) ELSE clients[c]
           IN Update(c, [client EXCEPT !.recent = TRUE])

\* SUBSCRIPTION_RATE_LIMIT after the last subscription.
RateLimitPasses(c) ==
  /\ clients[c].recent
  /\ Update(c, [clients[c] EXCEPT !.recent = FALSE])

HandleUnsubscribe(c, s) ==
  /\ Receives(c)
  /\ s \in DOMAIN clients[c].subscriptions
  /\ Update(c, [clients[c] EXCEPT
       !.subscriptions = [t \in DOMAIN @ \ {s} |-> @[t]]])

\* Mutant: the entry is kept for the reconnect window and never deleted.
MutHandleClientDisconnection(c, code) ==
  IF code \in {1001, 1006} THEN clients[c] ELSE Gone

\* handleClientDisconnection: the client after its socket has gone.
HandleClientDisconnection(c, code) ==
  IF code \in {1001, 1006} THEN [clients[c] EXCEPT !.deleteTimer = TRUE] ELSE Gone

CloseCodes == {1000, 1001, 1006}

OnClose(c, code) ==
  /\ clients[c].ws \in {"open", "closing"}
  /\ Update(c,
       IF clients[c].known
         THEN [HandleClientDisconnection(c, code) EXCEPT !.ws = "closed", !.handshakeTimer = FALSE]
         ELSE Gone)

\* The error of a socket, whose close event follows.
OnError(c) ==
  /\ Is(c, "open")
  /\ clients[c].known
  /\ Update(c, [HandleClientDisconnection(c, 1006) EXCEPT !.ws = "closing"])

\* RECONNECT_WINDOW after the disconnection.
DeleteClient(c) ==
  /\ clients[c].deleteTimer
  /\ Update(c, [Gone EXCEPT !.ws = clients[c].ws])

Shutdown ==
  /\ listening
  /\ listening' = FALSE
  /\ clients' = [c \in Clients |->
       IF clients[c].known /\ Is(c, "open") THEN [clients[c] EXCEPT !.ws = "closing"] ELSE clients[c]]
  /\ sent' = {}
  /\ UNCHANGED statusVars

PostConstruct ==
  /\ ~listening
  /\ listening' = TRUE
  /\ sent' = {}
  /\ UNCHANGED <<statusVars, clients>>

\* The process ends, as it does when nobody catches what a broadcast throws,
\* and is started again: it keeps nothing.
Restart ==
  /\ confirmations' = [b \in Blocks |-> {}]
  /\ age' = [b \in Blocks |-> 0]
  /\ forgotten' = forgotten \cup {b \in Blocks : confirmations[b] # {}}
  /\ listening' = TRUE
  /\ clients' = [c \in Clients |-> IF Is(c, "new") THEN clients[c] ELSE Gone]
  /\ sent' = {}
  /\ UNCHANGED <<reportedBy, reports, broadcasts, thrown>>

Message(c) ==
  \/ \E ownId \in BOOLEAN : HandleHandshake(c, ownId)
  \/ \E list \in FilterLists : HandleSubscribe(c, list)
  \/ \E s \in 1..MaxSubscriptions : HandleUnsubscribe(c, s)

Timer(c) ==
  \/ HandshakeTimeout(c)
  \/ RateLimitPasses(c)
  \/ DeleteClient(c)

Close(c) == \E code \in CloseCodes : OnClose(c, code)

Next ==
  \/ \E b \in Blocks, a \in ANodes : HandleBlockConfirmation(b, a)
  \/ PerformCleanup
  \/ \E c \in Clients : HandleClientConnection(c) \/ Message(c) \/ Timer(c) \/ Close(c) \/ OnError(c)
  \/ Shutdown
  \/ PostConstruct
  \/ Restart

Spec == Init /\ [][Next]_vars

\* Timers fire, and a socket that closes is closed at last.
Fairness ==
  \A c \in Clients :
    /\ WF_vars(HandshakeTimeout(c))
    /\ WF_vars(DeleteClient(c))
    /\ WF_vars(Is(c, "closing") /\ Close(c))

FairSpec == Spec /\ Fairness

-----------------------------------------------------------------------------
(* Properties. *)

\* Each broadcast of a block has MinArchiveNodes reports of its own, from
\* different nodes: late and repeated reports, cleanups and earlier
\* broadcasts lend it none.  And a block that enough nodes reported was
\* broadcast, unless 30 minutes passed or the process ended in between; one
\* whose broadcast threw keeps an entry that the next report completes again
\* (handleBlockConfirmation, handleBlockConfirmed, cleanupOldConfirmations).
BroadcastsAreConfirmed ==
  \A b \in Blocks :
    LET enough == Cardinality(reportedBy[b]) >= MinArchiveNodes
    IN  /\ broadcasts[b] * MinArchiveNodes + Cardinality(confirmations[b]) <= reports[b]
        /\ broadcasts[b] > 0 => enough
        /\ enough /\ b \notin forgotten =>
             \/ broadcasts[b] > 0
             \/ b \in thrown /\ Cardinality(confirmations[b]) >= MinArchiveNodes

\* What a filter asks for and what a transaction offers, as sets of keys:
\* the reference for the matching of the code.
FilterKeys(filter) ==
  {<<filter.type, IF filter.type = "CATEGORY" THEN v ELSE Lower(v)>> : v \in Values(filter)}
TxKeys(tx) ==
  {<<"CATEGORY", category>> : category \in {tx.category} \ {""}}
    \cup {<<"FROM", Lower(from)>> : from \in {tx.from} \ {""}}
    \cup {<<"RECIPIENTS", Lower(r)>> : r \in tx.recipients}
    \cup {<<"WILDCARD", Lower("*")>>}
Asks(filter, tx) == FilterKeys(filter) \cap TxKeys(tx) # {}

\* Each update goes to a subscription of an open client that has shaken
\* hands, no subscription gets two of one broadcast, no two subscriptions of
\* a client ask for the same unless it is everything, and the update has
\* exactly the transactions its filters ask for and the filters that do
\* (handleSubscribe, getMatchingTransactions, sendBlockUpdate).
UpdatesAreExact ==
  \A u \in sent :
    LET list == clients[u.client].subscriptions[u.subscriptionId]
    IN /\ Is(u.client, "open") /\ clients[u.client].clientInfo
       /\ u.txs = {tx \in TxsOf[u.block] : \E f \in Filters(list) : Asks(f, tx)}
       /\ u.matchedFilter = {f \in Filters(list) : \E tx \in TxsOf[u.block] : Asks(f, tx)}
       /\ \A v \in sent \ {u} :
            v.client = u.client =>
              \/ v.subscriptionId # u.subscriptionId /\ list = <<Wildcard>>
              \/ clients[v.client].subscriptions[v.subscriptionId] # list

\* The entry of a client whose socket has closed is deleted, whatever the
\* code, and whichever timers of it are pending (handleClientDisconnection).
ClientsAreForgotten ==
  \A c \in Clients : Is(c, "closed") ~> ~clients[c].known
=============================================================================
