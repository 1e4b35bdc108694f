------------------------- MODULE BlockEvents_proofs -------------------------
(***************************************************************************)
(* Proofs about BlockEvents, for any numbers of clients, archive nodes,    *)
(* blocks, reports and subscriptions, and any filters.                     *)
(***************************************************************************)
EXTENDS BlockEvents, FiniteSetTheorems, TLAPS

\* The nodes an entry counts have reported the block, and an entry is complete
\* only when its broadcast threw; as long as the block was neither broadcast nor
\* forgotten, it counts them all.
Counts ==
  \A b \in Blocks :
    /\ confirmations[b] \subseteq reportedBy[b]
    /\ Cardinality(confirmations[b]) < MinArchiveNodes \/ b \in thrown
    /\ broadcasts[b] = 0 /\ b \notin forgotten => confirmations[b] = reportedBy[b]

\* BroadcastsAreConfirmed, of one block.
Confirmed(b) ==
  /\ broadcasts[b] * MinArchiveNodes + Cardinality(confirmations[b]) <= reports[b]
  /\ broadcasts[b] > 0 => Cardinality(reportedBy[b]) >= MinArchiveNodes
  /\ Cardinality(reportedBy[b]) >= MinArchiveNodes /\ b \notin forgotten =>
       \/ broadcasts[b] > 0
       \/ b \in thrown /\ Cardinality(confirmations[b]) >= MinArchiveNodes

\* Subscriptions are to everything or valid, and only those to everything repeat.
ProperLists(subscriptions) ==
  \A s \in DOMAIN subscriptions :
    /\ subscriptions[s] = <<Wildcard>> \/ AreValidFilters(subscriptions[s])
    /\ \A t \in DOMAIN subscriptions \ {s} :
         subscriptions[t] = subscriptions[s] => subscriptions[s] = <<Wildcard>>

IInv ==
  /\ TypeOK
  /\ Counts
  /\ BroadcastsAreConfirmed
  /\ \A c \in Clients : ProperLists(clients[c].subscriptions)
  /\ UpdatesAreExact

-----------------------------------------------------------------------------
(* The reports. *)

LEMMA FiniteReports ==
  ASSUME NEW S \in SUBSET ANodes, NEW a \in ANodes
  PROVE  /\ Cardinality(S) \in Nat
         /\ Cardinality(S \cup {a}) \in Nat
         /\ Cardinality(S \cup {a}) <= Cardinality(S) + 1
         /\ \A T \in SUBSET S : Cardinality(T) <= Cardinality(S)
<1>1. IsFiniteSet(S)
  BY FS_Subset, EventsAssumption
<1>2. Cardinality(S) \in Nat
  BY <1>1, FS_CardinalityType
<1>3. Cardinality(S \cup {a}) = IF a \in S THEN Cardinality(S) ELSE Cardinality(S) + 1
  BY <1>1, FS_AddElement
<1>4. \A T \in SUBSET S : Cardinality(T) <= Cardinality(S)
  BY <1>1, FS_Subset
<1> QED
  BY <1>2, <1>3, <1>4

LEMMA NoReports == Cardinality({}) = 0
BY FS_EmptySet

\* Broadcasts need reports, so there are no more of them.
LEMMA Products ==
  ASSUME NEW m \in Nat \ {0}, NEW n \in Nat
  PROVE  /\ n * m \in Nat /\ n <= n * m
         /\ (n + 1) * m = n * m + m
         /\ 0 * m = 0
<1>1. n * m \in Nat /\ (n + 1) * m = n * m + m /\ 0 * m = 0
  OBVIOUS
<1>2. n <= n * m
  OBVIOUS
<1> QED
  BY <1>1, <1>2

-----------------------------------------------------------------------------
(* BlockStatusManager *)

Key(f, v) == <<f.type, IF f.type = "CATEGORY" THEN v ELSE Lower(v)>>

LEMMA AskingIsByKey ==
  ASSUME NEW f, NEW tx
  PROVE  Asks(f, tx) <=> \E v \in Values(f) : Key(f, v) \in TxKeys(tx)
<1>1. FilterKeys(f) = {Key(f, v) : v \in Values(f)}
  BY DEF FilterKeys, Key
<1> QED
  BY <1>1 DEF Asks

\* On the lists that are subscribed to, the code matches what is asked for.
LEMMA MatchingIsAsking ==
  ASSUME NEW tx, NEW list, list = <<Wildcard>> \/ AreValidFilters(list), NEW f \in Filters(list)
  PROVE  MatchesFilter(tx, f) <=> Asks(f, tx)
<1>1. CASE list = <<Wildcard>>
  <2>1. f = Wildcard
    BY <1>1 DEF Filters
  <2>2. f.type = "WILDCARD" /\ f.value = <<"*">> /\ DOMAIN f.value = {1} /\ f.value[1] = "*"
    BY <2>1 DEF Wildcard
  <2>3. MatchesFilter(tx, f)
    BY <2>2 DEF MatchesFilter, IsWildcard
  <2>4. <<"WILDCARD", Lower("*")>> \in FilterKeys(f) \cap TxKeys(tx)
    BY <2>2 DEF FilterKeys, TxKeys, Values
  <2> QED
    BY <2>3, <2>4 DEF Asks
<1>2. CASE AreValidFilters(list)
  <2>1. f.type \in {"CATEGORY", "RECIPIENTS", "FROM"}
    BY <1>2 DEF AreValidFilters
  <2>2. CASE f.type = "CATEGORY"
    <3>1. \A v : Key(f, v) \in TxKeys(tx) <=> v = tx.category /\ tx.category # ""
      BY <2>2 DEF TxKeys, Key
    <3>2. Asks(f, tx) <=> tx.category # "" /\ tx.category \in Values(f)
      <4>1. Asks(f, tx) <=> \E v \in Values(f) : Key(f, v) \in TxKeys(tx)
        BY AskingIsByKey
      <4>2. Asks(f, tx) <=> \E v \in Values(f) : v = tx.category /\ tx.category # ""
        BY <3>1, <4>1
      <4> QED
        BY <4>2
    <3>3. MatchesFilter(tx, f) <=> tx.category # "" /\ tx.category \in Values(f)
      BY <2>2 DEF MatchesFilter, IsWildcard
    <3> QED
      BY <3>2, <3>3
  <2>3. CASE f.type = "FROM"
    <3>1. \A v : Key(f, v) \in TxKeys(tx) <=> Lower(v) = Lower(tx.from) /\ tx.from # ""
      BY <2>3 DEF TxKeys, Key
    <3> QED
      BY <2>3, <3>1, AskingIsByKey DEF MatchesFilter, IsWildcard
  <2>4. CASE f.type = "RECIPIENTS"
    <3>1. \A v : Key(f, v) \in TxKeys(tx) <=> \E r \in tx.recipients : Lower(v) = Lower(r)
      BY <2>4 DEF TxKeys, Key
    <3> QED
      BY <2>4, <3>1, AskingIsByKey DEF MatchesFilter, IsWildcard
  <2> QED
    BY <2>1, <2>2, <2>3, <2>4
<1> QED
  BY <1>1, <1>2

\* The updates of one broadcast are what the subscriptions ask for.
LEMMA BroadcastIsExact ==
  ASSUME IInv, NEW b \in Blocks, sent' = BroadcastBlockUpdate(b), clients' = clients
  PROVE  UpdatesAreExact'
<1>1. SUFFICES ASSUME NEW u \in sent'
               PROVE  LET list == clients[u.client].subscriptions[u.subscriptionId]
                      IN /\ Is(u.client, "open") /\ clients[u.client].clientInfo
                         /\ u.txs = {tx \in TxsOf[u.block] : \E f \in Filters(list) : Asks(f, tx)}
                         /\ u.matchedFilter =
                              {f \in Filters(list) : \E tx \in TxsOf[u.block] : Asks(f, tx)}
                         /\ \A v \in sent' \ {u} :
                              v.client = u.client =>
                                \/ v.subscriptionId # u.subscriptionId /\ list = <<Wildcard>>
                                \/ clients[v.client].subscriptions[v.subscriptionId] # list
  BY DEF UpdatesAreExact, Is
<1>2. \A v \in sent' : \E c \in Clients : \E s \in DOMAIN clients[c].subscriptions :
        Is(c, "open") /\ v = BlockUpdate(c, s, b)
  BY DEF BroadcastBlockUpdate
<1>3. PICK c \in Clients : \E s \in DOMAIN clients[c].subscriptions :
        Is(c, "open") /\ u = BlockUpdate(c, s, b)
  BY <1>2
<1>4. PICK s \in DOMAIN clients[c].subscriptions : Is(c, "open") /\ u = BlockUpdate(c, s, b)
  BY <1>3
<1> DEFINE list == clients[c].subscriptions[s]
           txs == {tx \in TxsOf[b] : \E f \in Filters(list) : MatchesFilter(tx, f)}
<1>5. /\ u.client = c /\ u.subscriptionId = s /\ u.block = b
      /\ u.txs = txs
      /\ u.matchedFilter = {f \in Filters(list) : \E tx \in txs : MatchesFilter(tx, f)}
  BY <1>4 DEF BlockUpdate, GetMatchingTransactions
<1>6. /\ clients[c].clientInfo
      /\ ProperLists(clients[c].subscriptions)
  BY <1>4 DEF IInv, TypeOK, ClientState
<1>7. \A tx \in TxsOf[b], f \in Filters(list) : MatchesFilter(tx, f) <=> Asks(f, tx)
  BY <1>6, MatchingIsAsking DEF ProperLists
<1>8. \A v \in sent' \ {u} : v.client = c =>
        /\ v.subscriptionId \in DOMAIN clients[c].subscriptions
        /\ v.subscriptionId # s
  BY <1>2, <1>4, <1>5 DEF BlockUpdate
<1>9. \A v \in sent' \ {u} : v.client = c =>
        \/ list = <<Wildcard>>
        \/ clients[c].subscriptions[v.subscriptionId] # list
  BY <1>6, <1>8 DEF ProperLists
<1>10. txs = {tx \in TxsOf[b] : \E f \in Filters(list) : Asks(f, tx)}
  BY <1>7
<1>11. {f \in Filters(list) : \E tx \in txs : MatchesFilter(tx, f)}
        = {f \in Filters(list) : \E tx \in TxsOf[b] : Asks(f, tx)}
  BY <1>7
<1> HIDE DEF txs
<1> QED
  BY <1>4, <1>5, <1>6, <1>8, <1>9, <1>10, <1>11

LEMMA ConfirmationIsCounted ==
  ASSUME IInv, NEW b \in Blocks, NEW a \in ANodes, HandleBlockConfirmation(b, a)
  PROVE  IInv'
<1> DEFINE nodes == confirmations[b] \cup {a}
<1>1. /\ reports[b] < MaxReports
      /\ reports' = [reports EXCEPT ![b] = @ + 1]
      /\ reportedBy' = [reportedBy EXCEPT ![b] = @ \cup {a}]
      /\ UNCHANGED <<forgotten, listening, clients>>
  BY DEF HandleBlockConfirmation
<1>2. /\ Cardinality(confirmations[b]) \in Nat /\ Cardinality(nodes) \in Nat
      /\ Cardinality(nodes) <= Cardinality(confirmations[b]) + 1
      /\ Cardinality(reportedBy[b]) <= Cardinality(reportedBy'[b])
      /\ Cardinality(nodes) <= Cardinality(reportedBy'[b])
      /\ Cardinality(reportedBy[b]) \in Nat /\ Cardinality(reportedBy'[b]) \in Nat
  <2>1. /\ confirmations[b] \in SUBSET ANodes /\ reportedBy[b] \in SUBSET ANodes
        /\ reportedBy'[b] = reportedBy[b] \cup {a}
        /\ confirmations[b] \subseteq reportedBy[b]
    BY <1>1 DEF IInv, TypeOK, Counts
  <2>2. /\ reportedBy[b] \cup {a} \in SUBSET ANodes
        /\ reportedBy[b] \in SUBSET (reportedBy[b] \cup {a})
        /\ nodes \in SUBSET (reportedBy[b] \cup {a})
    BY <2>1
  <2> QED
    BY <2>1, <2>2, FiniteReports
<1>3. MinArchiveNodes \in Nat \ {0} /\ MaxReports \in Nat
  BY EventsAssumption
<1>4. CASE /\ Cardinality(nodes) >= MinArchiveNodes
           /\ confirmations' = [confirmations EXCEPT ![b] = {}]
           /\ age' = [age EXCEPT ![b] = 0]
           /\ broadcasts' = [broadcasts EXCEPT ![b] = @ + 1]
           /\ sent' = BroadcastBlockUpdate(b)
           /\ UNCHANGED thrown
  <2>2. (broadcasts[b] + 1) * MinArchiveNodes <= reports[b] + 1
    BY <1>2, <1>3, <1>4, Products DEF IInv, TypeOK, BroadcastsAreConfirmed
  <2>3. broadcasts[b] + 1 \in 0..MaxReports
    BY <1>1, <1>3, <2>2, Products DEF IInv, TypeOK
  <2>4. TypeOK'
    BY <1>1, <1>3, <1>4, <2>3 DEF IInv, TypeOK
  <2>5. Counts'
    BY <1>1, <1>3, <1>4, NoReports DEF IInv, TypeOK, Counts
  <2>6. BroadcastsAreConfirmed'
    BY <1>1, <1>2, <1>3, <1>4, <2>2, NoReports DEF IInv, TypeOK, BroadcastsAreConfirmed
  <2>7. UpdatesAreExact'
    BY <1>1, <1>4, BroadcastIsExact
  <2> QED
    BY <1>1, <2>4, <2>5, <2>6, <2>7 DEF IInv
<1>5. CASE /\ confirmations' = [confirmations EXCEPT ![b] = nodes]
           /\ sent' = {}
           /\ UNCHANGED <<age, broadcasts>>
           /\ \/ Cardinality(nodes) < MinArchiveNodes /\ thrown' = thrown
              \/ Cardinality(nodes) >= MinArchiveNodes /\ thrown' = thrown \cup {b}
  <2>1. thrown \subseteq thrown' /\ thrown' \subseteq Blocks
    BY <1>5 DEF IInv, TypeOK
  <2>2. TypeOK'
    BY <1>1, <1>3, <1>5, <2>1 DEF IInv, TypeOK
  <2>3. Counts'
    BY <1>1, <1>5, <2>1 DEF IInv, TypeOK, Counts
  <2>4. BroadcastsAreConfirmed'
    <3>1. ASSUME NEW q \in Blocks, q # b
          PROVE  /\ broadcasts'[q] = broadcasts[q] /\ confirmations'[q] = confirmations[q]
                 /\ reports'[q] = reports[q] /\ reportedBy'[q] = reportedBy[q]
      BY <1>1, <1>5, <3>1 DEF IInv, TypeOK
    <3>2. broadcasts'[b] * MinArchiveNodes + Cardinality(confirmations'[b]) <= reports'[b]
      <4>1. broadcasts[b] * MinArchiveNodes \in Nat
        BY <1>3, Products DEF IInv, TypeOK
      <4>2. /\ broadcasts'[b] = broadcasts[b] /\ confirmations'[b] = nodes
            /\ reports'[b] = reports[b] + 1 /\ reports[b] \in Nat
        BY <1>1, <1>5 DEF IInv, TypeOK
      <4> QED
        BY <1>2, <4>1, <4>2 DEF IInv, BroadcastsAreConfirmed
    <3>3. broadcasts'[b] > 0 => Cardinality(reportedBy'[b]) >= MinArchiveNodes
      BY <1>2, <1>3, <1>5 DEF IInv, TypeOK, BroadcastsAreConfirmed
    <3>4. ASSUME Cardinality(reportedBy'[b]) >= MinArchiveNodes, b \notin forgotten',
                 broadcasts'[b] = 0
          PROVE  b \in thrown' /\ Cardinality(confirmations'[b]) >= MinArchiveNodes
      <4>1. broadcasts[b] = 0 /\ b \notin forgotten
        <5>1. broadcasts' = broadcasts /\ forgotten' = forgotten
          BY <1>1, <1>5
        <5> QED
          BY <3>4, <5>1
      <4>2. confirmations[b] = reportedBy[b]
        BY <4>1 DEF IInv, Counts
      <4>3. confirmations'[b] = nodes /\ reportedBy'[b] = reportedBy[b] \cup {a}
        BY <1>1, <1>5 DEF IInv, TypeOK
      <4>4. Cardinality(nodes) >= MinArchiveNodes
        BY <3>4, <4>2, <4>3
      <4>5. ~(Cardinality(nodes) < MinArchiveNodes)
        BY <1>2, <1>3, <4>4
      <4>6. b \in thrown'
        BY <1>5, <4>5
      <4> QED
        BY <4>3, <4>4, <4>6
    <3>5. broadcasts'[b] \in Nat
      BY <2>2 DEF TypeOK
    <3>6. forgotten' = forgotten /\ \A q \in Blocks : q \in thrown => q \in thrown'
      BY <1>1, <2>1
    <3>7. Confirmed(b)'
      BY <3>2, <3>3, <3>4, <3>5 DEF Confirmed
    <3>8. ASSUME NEW q \in Blocks, q # b PROVE Confirmed(q)'
      <4>1. Confirmed(q)
        BY DEF IInv, BroadcastsAreConfirmed, Confirmed
      <4> QED
        BY <3>1, <3>6, <3>8, <4>1 DEF Confirmed
    <3> QED
      BY <3>7, <3>8 DEF BroadcastsAreConfirmed, Confirmed
  <2>5. UpdatesAreExact'
    BY <1>5 DEF UpdatesAreExact
  <2> QED
    BY <1>1, <2>2, <2>3, <2>4, <2>5 DEF IInv
<1> QED
  BY <1>2, <1>3, <1>4, <1>5 DEF HandleBlockConfirmation

LEMMA CleanupForgets ==
  ASSUME IInv, PerformCleanup
  PROVE  IInv'
<1> DEFINE old == {b \in Blocks : confirmations[b] # {} /\ age[b] = 2}
<1>1. /\ confirmations' = [b \in Blocks |-> IF b \in old THEN {} ELSE confirmations[b]]
      /\ age' = [b \in Blocks |-> IF b \in old \/ confirmations[b] = {} THEN 0 ELSE age[b] + 1]
      /\ forgotten' = forgotten \cup old
      /\ sent' = {}
      /\ UNCHANGED <<reportedBy, reports, broadcasts, thrown, listening, clients>>
  BY DEF PerformCleanup
<1>2. TypeOK'
  BY <1>1 DEF IInv, TypeOK
<1>3. Counts'
  BY <1>1, NoReports, EventsAssumption DEF IInv, TypeOK, Counts
<1>4. BroadcastsAreConfirmed'
  <2>1. ASSUME NEW b \in Blocks
        PROVE  /\ Cardinality(confirmations'[b]) <= Cardinality(confirmations[b])
               /\ Cardinality(confirmations[b]) \in Nat /\ Cardinality(confirmations'[b]) \in Nat
               /\ broadcasts[b] * MinArchiveNodes \in Nat
    <3>1. confirmations[b] \in SUBSET ANodes
      BY DEF IInv, TypeOK
    <3>2. Cardinality(confirmations[b]) \in Nat
      BY <3>1, FS_CardinalityType, FS_Subset, EventsAssumption
    <3> QED
      BY <1>1, <3>2, NoReports, Products, EventsAssumption DEF IInv, TypeOK
  <2> QED
    BY <1>1, <2>1, EventsAssumption DEF IInv, TypeOK, BroadcastsAreConfirmed
<1>5. UpdatesAreExact'
  BY <1>1 DEF UpdatesAreExact
<1> QED
  BY <1>1, <1>2, <1>3, <1>4, <1>5 DEF IInv

-----------------------------------------------------------------------------
(* WebSocketServer *)

\* An action of one client leaves the others and the reports alone.
LEMMA UpdateKeeps ==
  ASSUME IInv, NEW c \in Clients, NEW client \in ClientState,
         ProperLists(client.subscriptions), Update(c, client)
  PROVE  IInv'
<1>1. /\ clients' = [clients EXCEPT ![c] = client]
      /\ sent' = {}
      /\ UNCHANGED <<confirmations, age, reportedBy, reports, broadcasts, thrown, forgotten, listening>>
  BY DEF Update, statusVars
<1>2. TypeOK'
  BY <1>1 DEF IInv, TypeOK
<1>3. Counts' /\ BroadcastsAreConfirmed'
  BY <1>1 DEF IInv, Counts, BroadcastsAreConfirmed
<1>4. \A d \in Clients : ProperLists(clients'[d].subscriptions)
  BY <1>1 DEF IInv, TypeOK
<1>5. UpdatesAreExact'
  BY <1>1 DEF UpdatesAreExact
<1> QED
  BY <1>2, <1>3, <1>4, <1>5 DEF IInv

\* What the handlers of a client start from.
LEMMA ClientFacts ==
  ASSUME IInv, NEW c \in Clients
  PROVE  /\ clients[c] \in ClientState
         /\ ProperLists(clients[c].subscriptions)
         /\ clients[c].made \in 0..MaxSubscriptions
         /\ clients[c].subscriptions \in Subscriptions
BY DEF IInv, TypeOK, ClientState

LEMMA GoneIsClean ==
  ASSUME NEW ws \in {"new", "open", "closing", "closed"}
  PROVE  /\ [Gone EXCEPT !.ws = ws] \in ClientState
         /\ ProperLists([Gone EXCEPT !.ws = ws].subscriptions)
         /\ NewClient \in ClientState
         /\ ProperLists(NewClient.subscriptions)
<1>1. <<>> \in [{} -> FilterLists \cup {<<Wildcard>>}] /\ DOMAIN <<>> = {}
  OBVIOUS
<1>2. <<>> \in Subscriptions
  BY <1>1 DEF Subscriptions
<1>3. 0 \in 0..MaxSubscriptions
  BY EventsAssumption
<1> QED
  BY <1>1, <1>2, <1>3 DEF Gone, NewClient, ClientState, ProperLists

\* A new subscription has an id of its own.
LEMMA CreationKeeps ==
  ASSUME IInv, NEW c \in Clients, clients[c].made < MaxSubscriptions,
         clients[c].known, clients[c].clientInfo,
         NEW list \in FilterLists \cup {<<Wildcard>>},
         \/ list = <<Wildcard>>
         \/ AreValidFilters(list) /\ ~HasSimilarSubscription(c, list)
  PROVE  /\ CreateSubscription(c, list) \in ClientState
         /\ ProperLists(CreateSubscription(c, list).subscriptions)
<1> DEFINE id == clients[c].made + 1
           old == clients[c].subscriptions
           new == [s \in DOMAIN old \cup {id} |-> IF s = id THEN list ELSE old[s]]
<1>1. /\ clients[c] \in ClientState /\ ProperLists(old)
      /\ clients[c].made \in 0..MaxSubscriptions /\ old \in Subscriptions
      /\ DOMAIN old \subseteq 1..clients[c].made
  BY ClientFacts DEF ClientState
<1>2. id \in 1..MaxSubscriptions /\ id \in 0..MaxSubscriptions /\ id \notin DOMAIN old
  BY <1>1, EventsAssumption
<1>3. PICK ids \in SUBSET (1..MaxSubscriptions) :
        old \in [ids -> FilterLists \cup {<<Wildcard>>}]
  BY <1>1 DEF Subscriptions
<1>4. new \in [ids \cup {id} -> FilterLists \cup {<<Wildcard>>}]
  BY <1>3
<1>5. new \in Subscriptions
  <2>1. ids \cup {id} \in SUBSET (1..MaxSubscriptions)
    BY <1>2
  <2> QED
    BY <1>4, <2>1 DEF Subscriptions
<1>6. DOMAIN new \subseteq 1..id
  BY <1>1
<1>7. ProperLists(new)
  BY <1>1, <1>2, <1>3 DEF ProperLists, HasSimilarSubscription
<1>8. CreateSubscription(c, list) = [clients[c] EXCEPT !.made = id, !.subscriptions = new]
  BY DEF CreateSubscription
<1> HIDE DEF id, new
<1> QED
  BY <1>1, <1>2, <1>5, <1>6, <1>7, <1>8 DEF ClientState

LEMMA ConnectionKeeps ==
  ASSUME IInv, NEW c \in Clients, HandleClientConnection(c)
  PROVE  IInv'
<1> DEFINE client == [clients[c] EXCEPT !.ws = "open", !.known = TRUE, !.handshakeTimer = TRUE]
<1>1. client \in ClientState /\ ProperLists(client.subscriptions)
  BY ClientFacts DEF ClientState
<1>2. Update(c, client)
  BY DEF HandleClientConnection
<1> QED
  BY <1>1, <1>2, UpdateKeeps

LEMMA MessageKeeps ==
  ASSUME IInv, NEW c \in Clients, Message(c)
  PROVE  IInv'
<1>1. Receives(c) /\ clients[c].known
  BY DEF Message, HandleHandshake, HandleSubscribe, HandleUnsubscribe, Receives
<1>2. ASSUME NEW ownId \in BOOLEAN, HandleHandshake(c, ownId)
      PROVE  IInv'
  <2> DEFINE client == IF ownId THEN [clients[c] EXCEPT !.clientInfo = TRUE]
                                ELSE [clients[c] EXCEPT !.ws = "closing"]
  <2>1. client \in ClientState /\ ProperLists(client.subscriptions)
    BY ClientFacts DEF ClientState
  <2>2. Update(c, client)
    BY <1>2 DEF HandleHandshake
  <2> QED
    BY <2>1, <2>2, UpdateKeeps
<1>3. ASSUME NEW list \in FilterLists, HandleSubscribe(c, list)
      PROVE  IInv'
  <2>1. clients[c].clientInfo /\ clients[c].made < MaxSubscriptions
    BY <1>3 DEF HandleSubscribe
  <2>2. CASE Update(c, CreateSubscription(c, <<Wildcard>>))
    BY <1>1, <2>1, <2>2, CreationKeeps, UpdateKeeps
  <2>3. CASE /\ ~HasSimilarSubscription(c, list) /\ AreValidFilters(list)
             /\ Update(c, [CreateSubscription(c, list) EXCEPT !.recent = TRUE])
    <3>1. /\ CreateSubscription(c, list) \in ClientState
          /\ ProperLists(CreateSubscription(c, list).subscriptions)
      BY <1>1, <2>1, <2>3, CreationKeeps
    <3>2. /\ [CreateSubscription(c, list) EXCEPT !.recent = TRUE] \in ClientState
          /\ ProperLists([CreateSubscription(c, list) EXCEPT !.recent = TRUE].subscriptions)
      BY <3>1 DEF ClientState
    <3> QED
      BY <2>3, <3>2, UpdateKeeps
  <2>4. CASE Update(c, [clients[c] EXCEPT !.recent = TRUE])
    <3>1. /\ [clients[c] EXCEPT !.recent = TRUE] \in ClientState
          /\ ProperLists([clients[c] EXCEPT !.recent = TRUE].subscriptions)
      BY ClientFacts DEF ClientState
    <3> QED
      BY <2>4, <3>1, UpdateKeeps
  <2> QED
    BY <1>3, <2>2, <2>3, <2>4 DEF HandleSubscribe
<1>4. ASSUME NEW s \in 1..MaxSubscriptions, HandleUnsubscribe(c, s)
      PROVE  IInv'
  <2> DEFINE old == clients[c].subscriptions
             new == [t \in DOMAIN old \ {s} |-> old[t]]
             client == [clients[c] EXCEPT !.subscriptions = new]
  <2>1. /\ clients[c] \in ClientState /\ ProperLists(old) /\ old \in Subscriptions
    BY ClientFacts
  <2>2. PICK ids \in SUBSET (1..MaxSubscriptions) :
          old \in [ids -> FilterLists \cup {<<Wildcard>>}]
    BY <2>1 DEF Subscriptions
  <2>3. /\ new \in [ids \ {s} -> FilterLists \cup {<<Wildcard>>}]
        /\ ids \ {s} \in SUBSET (1..MaxSubscriptions)
    BY <2>2
  <2>4. new \in Subscriptions
    BY <2>3 DEF Subscriptions
  <2>5. ProperLists(new)
    BY <2>1 DEF ProperLists
  <2>6. DOMAIN new \subseteq DOMAIN old
    OBVIOUS
  <2> HIDE DEF new
  <2>7. client \in ClientState /\ ProperLists(client.subscriptions)
    BY <2>1, <2>4, <2>5, <2>6 DEF ClientState
  <2>8. Update(c, client)
    BY <1>4 DEF HandleUnsubscribe, new
  <2> QED
    BY <2>7, <2>8, UpdateKeeps
<1> QED
  BY <1>2, <1>3, <1>4 DEF Message

LEMMA TimerKeeps ==
  ASSUME IInv, NEW c \in Clients, Timer(c)
  PROVE  IInv'
<1>1. CASE HandshakeTimeout(c)
  <2> DEFINE ws == IF ~clients[c].clientInfo /\ clients[c].ws = "open" THEN "closing" ELSE clients[c].ws
             client == [clients[c] EXCEPT !.handshakeTimer = FALSE, !.ws = ws]
  <2>1. client \in ClientState /\ ProperLists(client.subscriptions)
    BY ClientFacts DEF ClientState
  <2>2. Update(c, client)
    BY <1>1 DEF HandshakeTimeout
  <2> QED
    BY <2>1, <2>2, UpdateKeeps
<1>2. CASE RateLimitPasses(c)
  <2> DEFINE client == [clients[c] EXCEPT !.recent = FALSE]
  <2>1. client \in ClientState /\ ProperLists(client.subscriptions)
    BY ClientFacts DEF ClientState
  <2>2. Update(c, client)
    BY <1>2 DEF RateLimitPasses
  <2> QED
    BY <2>1, <2>2, UpdateKeeps
<1>3. CASE DeleteClient(c)
  <2>1. clients[c].ws \in {"new", "open", "closing", "closed"}
    BY ClientFacts DEF ClientState
  <2> QED
    BY <1>3, <2>1, GoneIsClean, UpdateKeeps DEF DeleteClient
<1> QED
  BY <1>1, <1>2, <1>3 DEF Timer

LEMMA DisconnectionKeeps ==
  ASSUME IInv, NEW c \in Clients, Close(c) \/ OnError(c)
  PROVE  IInv'
<1>1. Gone \in ClientState /\ ProperLists(Gone.subscriptions) /\ Gone = [Gone EXCEPT !.ws = "closed"]
  BY GoneIsClean DEF Gone, NewClient
<1>2. ASSUME NEW code, clients[c].known
      PROVE  /\ HandleClientDisconnection(c, code) \in ClientState
             /\ ProperLists(HandleClientDisconnection(c, code).subscriptions)
  <2>1. CASE code \in {1001, 1006}
    <3>1. /\ [clients[c] EXCEPT !.deleteTimer = TRUE] \in ClientState
          /\ ProperLists([clients[c] EXCEPT !.deleteTimer = TRUE].subscriptions)
      BY <1>2, ClientFacts DEF ClientState
    <3> QED
      BY <2>1, <3>1 DEF HandleClientDisconnection
  <2>2. CASE code \notin {1001, 1006}
    BY <1>1, <2>2 DEF HandleClientDisconnection
  <2> QED
    BY <2>1, <2>2
<1>3. ASSUME NEW code, OnClose(c, code)
      PROVE  IInv'
  <2>1. CASE clients[c].known
    <3> DEFINE client == [HandleClientDisconnection(c, code) EXCEPT !.ws = "closed", !.handshakeTimer = FALSE]
    <3>1. client \in ClientState /\ ProperLists(client.subscriptions)
      BY <1>2, <2>1 DEF ClientState
    <3> QED
      BY <1>3, <2>1, <3>1, UpdateKeeps DEF OnClose
  <2>2. CASE ~clients[c].known
    BY <1>1, <1>3, <2>2, UpdateKeeps DEF OnClose
  <2> QED
    BY <2>1, <2>2
<1>4. CASE OnError(c)
  <2> DEFINE client == [HandleClientDisconnection(c, 1006) EXCEPT !.ws = "closing"]
  <2>1. clients[c].known
    BY <1>4 DEF OnError
  <2>2. client \in ClientState /\ ProperLists(client.subscriptions)
    BY <1>2, <2>1 DEF ClientState
  <2>3. Update(c, client)
    BY <1>4 DEF OnError
  <2> HIDE DEF client
  <2> QED
    BY <2>2, <2>3, UpdateKeeps
<1> QED
  BY <1>3, <1>4 DEF Close

\* What a process that has just started knows is consistent.
LEMMA RestartKeeps ==
  ASSUME IInv, Restart
  PROVE  IInv'
<1>1. /\ confirmations' = [b \in Blocks |-> {}]
      /\ age' = [b \in Blocks |-> 0]
      /\ forgotten' = forgotten \cup {b \in Blocks : confirmations[b] # {}}
      /\ listening' = TRUE
      /\ clients' = [c \in Clients |-> IF Is(c, "new") THEN clients[c] ELSE Gone]
      /\ sent' = {}
      /\ UNCHANGED <<reportedBy, reports, broadcasts, thrown>>
  BY DEF Restart
<1>2. \A c \in Clients : clients'[c] \in ClientState /\ ProperLists(clients'[c].subscriptions)
  <2>1. Gone \in ClientState /\ ProperLists(Gone.subscriptions)
    <3>1. [Gone EXCEPT !.ws = "closed"] = Gone
      BY DEF Gone, NewClient
    <3> QED
      BY <3>1, GoneIsClean
  <2> QED
    BY <1>1, <2>1, ClientFacts
<1>3. TypeOK'
  BY <1>1, <1>2 DEF IInv, TypeOK
<1>4. Counts'
  BY <1>1, NoReports, EventsAssumption DEF IInv, TypeOK, Counts
<1>5. BroadcastsAreConfirmed'
  <2>1. ASSUME NEW b \in Blocks
        PROVE  /\ Cardinality(confirmations[b]) \in Nat /\ Cardinality(confirmations'[b]) = 0
               /\ broadcasts[b] * MinArchiveNodes \in Nat
    <3>1. confirmations[b] \in SUBSET ANodes
      BY DEF IInv, TypeOK
    <3>2. Cardinality(confirmations[b]) \in Nat
      BY <3>1, FS_CardinalityType, FS_Subset, EventsAssumption
    <3>3. Cardinality(confirmations'[b]) = 0
      BY <1>1, NoReports
    <3>4. broadcasts[b] * MinArchiveNodes \in Nat
      BY Products, EventsAssumption DEF IInv, TypeOK
    <3> QED
      BY <3>2, <3>3, <3>4
  <2>2. ASSUME NEW b \in Blocks, b \notin forgotten'
        PROVE  confirmations[b] = {} /\ b \notin forgotten
    BY <1>1, <2>2
  <2>3. ASSUME NEW b \in Blocks, b \notin forgotten',
               Cardinality(reportedBy[b]) >= MinArchiveNodes
        PROVE  broadcasts[b] > 0
    <3>1. confirmations[b] = {} /\ b \notin forgotten
      BY <2>2, <2>3
    <3>2. ~(Cardinality(confirmations[b]) >= MinArchiveNodes)
      BY <3>1, NoReports, EventsAssumption
    <3> QED
      BY <2>3, <3>1, <3>2 DEF IInv, BroadcastsAreConfirmed
  <2>4. ASSUME NEW b \in Blocks
        PROVE  broadcasts[b] * MinArchiveNodes + Cardinality(confirmations'[b]) <= reports[b]
    BY <2>1 DEF IInv, TypeOK, BroadcastsAreConfirmed
  <2>5. reportedBy' = reportedBy /\ reports' = reports /\ broadcasts' = broadcasts
    BY <1>1
  <2> QED
    BY <2>3, <2>4, <2>5 DEF IInv, BroadcastsAreConfirmed
<1>6. UpdatesAreExact'
  BY <1>1 DEF UpdatesAreExact
<1> QED
  BY <1>1, <1>2, <1>3, <1>4, <1>5, <1>6 DEF IInv

LEMMA ShutdownKeeps ==
  ASSUME IInv, Shutdown
  PROVE  IInv'
<1>1. /\ listening' = FALSE
      /\ clients' = [c \in Clients |->
           IF clients[c].known /\ Is(c, "open") THEN [clients[c] EXCEPT !.ws = "closing"] ELSE clients[c]]
      /\ sent' = {}
      /\ UNCHANGED <<confirmations, age, reportedBy, reports, broadcasts, thrown, forgotten>>
  BY DEF Shutdown, statusVars
<1>2. \A c \in Clients : clients'[c] \in ClientState /\ ProperLists(clients'[c].subscriptions)
  BY <1>1, ClientFacts DEF ClientState
<1>3. TypeOK'
  BY <1>1, <1>2 DEF IInv, TypeOK
<1>4. Counts' /\ BroadcastsAreConfirmed' /\ UpdatesAreExact'
  BY <1>1 DEF IInv, Counts, BroadcastsAreConfirmed, UpdatesAreExact
<1> QED
  BY <1>2, <1>3, <1>4 DEF IInv

-----------------------------------------------------------------------------
(* The invariant. *)

LEMMA InitIInv == Init => IInv
<1> SUFFICES ASSUME Init PROVE IInv
  OBVIOUS
<1>1. NewClient \in ClientState /\ ProperLists(NewClient.subscriptions)
  BY GoneIsClean
<1>2. TypeOK
  BY <1>1, EventsAssumption DEF Init, TypeOK
<1>3. \A c \in Clients : ProperLists(clients[c].subscriptions)
  BY <1>1 DEF Init
<1>4. Counts /\ BroadcastsAreConfirmed /\ UpdatesAreExact
  BY NoReports, Products, EventsAssumption DEF Init, Counts, BroadcastsAreConfirmed, UpdatesAreExact
<1> QED
  BY <1>2, <1>3, <1>4 DEF IInv

LEMMA NextIInv == IInv /\ [Next]_vars => IInv'
<1> SUFFICES ASSUME IInv, [Next]_vars PROVE IInv'
  OBVIOUS
<1>1. ASSUME NEW b \in Blocks, NEW a \in ANodes, HandleBlockConfirmation(b, a)
      PROVE  IInv'
  BY <1>1, ConfirmationIsCounted
<1>2. CASE PerformCleanup
  BY <1>2, CleanupForgets
<1>3. ASSUME NEW c \in Clients,
             HandleClientConnection(c) \/ Message(c) \/ Timer(c) \/ Close(c) \/ OnError(c)
      PROVE  IInv'
  BY <1>3, ConnectionKeeps, MessageKeeps, TimerKeeps, DisconnectionKeeps
<1>4. CASE Shutdown
  BY <1>4, ShutdownKeeps
<1>5. CASE PostConstruct
  <2>1. /\ listening' = TRUE /\ sent' = {}
        /\ UNCHANGED <<confirmations, age, reportedBy, reports, broadcasts, thrown, forgotten, clients>>
    BY <1>5 DEF PostConstruct, statusVars
  <2> QED
    BY <2>1 DEF IInv, TypeOK, Counts, BroadcastsAreConfirmed, UpdatesAreExact
<1>6. CASE Restart
  BY <1>6, RestartKeeps
<1>7. CASE UNCHANGED vars
  <2>1. UNCHANGED <<confirmations, age, reportedBy, reports, broadcasts, thrown, forgotten, listening, clients, sent>>
    BY <1>7 DEF vars, statusVars
  <2> QED
    BY <2>1 DEF IInv, TypeOK, Counts, BroadcastsAreConfirmed, UpdatesAreExact, Is
<1> QED
  BY <1>1, <1>2, <1>3, <1>4, <1>5, <1>6, <1>7 DEF Next

LEMMA Invariance == Spec => []IInv
BY InitIInv, NextIInv, PTL DEF Spec

\* Each client's subscriptions are those it made after its handshake, and its
\* timers run only while the server knows it (WebSocketServer).
THEOREM TypeCorrect == Spec => []TypeOK
<1>1. IInv => TypeOK
  BY DEF IInv
<1> QED
  BY <1>1, Invariance, PTL

\* Each broadcast of a block has its own MinArchiveNodes reports by different
\* nodes, and a block that enough nodes reported was broadcast unless a cleanup
\* or a restart came in between or its broadcast threw (handleBlockConfirmation, cleanupOldConfirmations).
THEOREM BroadcastsConfirmed == Spec => []BroadcastsAreConfirmed
<1>1. IInv => BroadcastsAreConfirmed
  BY DEF IInv
<1> QED
  BY <1>1, Invariance, PTL

\* A subscription gets each broadcast at most once, with exactly the
\* transactions its filters ask for, after the handshake (handleSubscribe,
\* getMatchingTransactions, sendBlockUpdate).
THEOREM UpdatesExact == Spec => []UpdatesAreExact
<1>1. IInv => UpdatesAreExact
  BY DEF IInv
<1> QED
  BY <1>1, Invariance, PTL
=============================================================================
