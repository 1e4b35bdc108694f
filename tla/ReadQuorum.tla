----------------------------- MODULE ReadQuorum -----------------------------
(***************************************************************************)
(* The reads of a validator: accountInfo asks the storage nodes for the    *)
(* key of an account, getTransactions asks archival nodes and the storage  *)
(* nodes of the account's shard for its transactions                       *)
(* (messaging/validatorNode.ts).  ReplyMerger puts the replies together.   *)
(*                                                                         *)
(* The nodes that are asked are external: each has for each key of the     *)
(* account the version that has reached it so far, and answers with what   *)
(* it has when the request arrives.  Replies of equal hash are replies of  *)
(* equal version.  A read is one await between two pieces of code, and     *)
(* while it waits nodes are written to and the contract changes.           *)
(***************************************************************************)
EXTENDS Integers, FiniteSets

CONSTANTS
  \* Keys of snodes and of anodes in ValidatorContractState, in any status.
  StorageNodes, ArchivalNodes,
  \* getStorageNodesForShard of the account's shard.
  ShardNodes,
  \* The key (skey) of the account's KeyInfo, and those of its transactions.
  AccountKey, TxKeys,
  \* Bound of the model: the versions of each key.
  MaxVersion,
  \* Bounds of the model: how many changes of status, and how many reads.
  MaxChanges, MaxReads

Nodes == StorageNodes \cup ArchivalNodes
Keys == {AccountKey} \cup TxKeys

ASSUME ReadAssumption ==
  /\ IsFiniteSet(StorageNodes) /\ IsFiniteSet(ArchivalNodes)
  /\ StorageNodes \cap ArchivalNodes = {}
  /\ ShardNodes \subseteq StorageNodes /\ ShardNodes # {}
  /\ AccountKey \notin TxKeys
  /\ MaxVersion \in [Keys -> Nat]
  /\ MaxChanges \in Nat /\ MaxReads \in Nat

VARIABLES
  \* The version of each key each node has, 0 for none.
  held,
  \* The nodes that are enabled and have a url, as this validator knows.
  active,
  \* Which read this behaviour follows: they have no state in common.
  kind,
  \* A read is running.
  reading,
  \* The nodes it counts the quorum from.
  pool,
  \* quorumNodeCount, nodesRequiredToPoll
  threshold,
  \* The nodes that are asked, and those of them that have answered well.
  asked, good,
  \* What they have answered.
  answer,
  \* History: the keys so many nodes of the pool had when the read started
  \* that every quorum has one of them.
  widely,
  \* The result of the last read, and of the one before.
  reply, previous,
  \* Numbers of changes and of reads.
  changes, reads

readVars == <<reading, pool, threshold, asked, good, answer, widely, reply, previous, reads>>
vars == <<held, active, kind, readVars, changes>>

Kinds == {"accountInfo", "getTransactions"}
Summary == {"QUORUM_OK", "QUORUM_OK_PARTIAL", "QUORUM_FAILED_NODE_REPLIES",
            "QUORUM_FAILED_BY_MIN_ITEMS", "threw", "none"}
Nothing == [k \in Keys |-> 0]
Replies == [pool : SUBSET Nodes, threshold : Nat, summary : Summary,
            items : [Keys -> Nat], keysWithoutQuorum : SUBSET Keys]
NoReply == [pool |-> {}, threshold |-> 0, summary |-> "none",
            items |-> Nothing, keysWithoutQuorum |-> {}]

\* The keys that are read; a behaviour follows only these.
KeysRead == IF kind = "accountInfo" THEN {AccountKey} ELSE TxKeys

-----------------------------------------------------------------------------
(* How many nodes.                                                         *)

\* Math.round(0.51 * n)
AccountThreshold(n) == (51 * n + 50) \div 100

\* Math.ceil(0.6 * n)
TransactionsThreshold(n) == (6 * n + 9) \div 10

\* nodesToPoll, with a redundancy of one.
NodesToPoll(n) ==
  IF TransactionsThreshold(n) + 1 < n THEN TransactionsThreshold(n) + 1 ELSE n

\* sNodesToQueryCnt: the archival nodes that are not asked are subtracted too.
StorageNodesToPoll(n) == NodesToPoll(n) - Cardinality(ArchivalNodes)

-----------------------------------------------------------------------------
(* ReplyMerger.group: the replies of the nodes that answered with 200.     *)

Holders(k, v) == {n \in good : answer[n][k] = v}
Versions(k) == {answer[n][k] : n \in good} \ {0}

\* Mutant: the most frequent version wins with any count.
MutMostFrequent(k, v) ==
  /\ v \in Versions(k)
  /\ \A w \in Versions(k) : Cardinality(Holders(k, w)) <= Cardinality(Holders(k, v))

\* The most frequent version of k, when enough nodes gave it.
IsItem(k, v) ==
  /\ v \in Versions(k)
  /\ \A w \in Versions(k) : Cardinality(Holders(k, w)) <= Cardinality(Holders(k, v))
  /\ Cardinality(Holders(k, v)) >= threshold

\* items is a possible list of items: ties go to the version that the node
\* with the first reply has, which may be any.
IsItems(items) ==
  \A k \in Keys :
    \/ IsItem(k, items[k])
    \/ items[k] = 0 /\ \A v \in Versions(k) : ~IsItem(k, v)

\* Mutant: a key whose only version is too rare is left out.
MutRunnersUp(items) == {k \in Keys : Cardinality(Versions(k)) > 1}

\* The keys that have a version which is not the item.
KeysWithoutQuorum(items) == {k \in Keys : Versions(k) \ {items[k]} # {}}

\* Mutant: all replies are counted, whatever their code.
MutCountAllReplies == Cardinality(asked) >= threshold

EnoughReplies == Cardinality(good) >= threshold

QuorumResult(items) ==
  IF ~EnoughReplies THEN "QUORUM_FAILED_NODE_REPLIES"
  ELSE IF KeysWithoutQuorum(items) = {} THEN "QUORUM_OK"
  ELSE IF items = Nothing THEN "QUORUM_FAILED_BY_MIN_ITEMS"
  ELSE "QUORUM_OK_PARTIAL"

-----------------------------------------------------------------------------
Init ==
  /\ held = [n \in Nodes |-> Nothing]
  /\ active \in SUBSET Nodes
  /\ kind \in Kinds
  /\ reading = FALSE
  /\ pool = {}
  /\ threshold = 0
  /\ asked = {}
  /\ good = {}
  /\ answer = [n \in Nodes |-> Nothing]
  /\ widely = {}
  /\ reply = NoReply
  /\ previous = NoReply
  /\ changes = 0
  /\ reads = 0

\* A block reaches node n, or the node works it off.
StoreRecord(n, k) ==
  /\ held[n][k] < MaxVersion[k]
  /\ held' = [held EXCEPT ![n][k] = @ + 1]
  /\ UNCHANGED <<active, kind, readVars, changes>>

\* NodeStatusChanged
NodeStatusChanged(n) ==
  /\ changes < MaxChanges
  /\ changes' = changes + 1
  /\ active' = (active \cup {n}) \ (active \cap {n})
  /\ UNCHANGED <<held, kind, readVars>>

\* A read starts that asks some nodes; the quorum is t of the nodes of p.
Ask(nodes, p, t) ==
  /\ ~reading
  /\ reads < MaxReads
  /\ reading' = TRUE
  /\ asked' = nodes
  /\ pool' = p
  /\ threshold' = t
  /\ widely' = {k \in Keys :
                  Cardinality({n \in p : held[n][k] > 0}) + t > Cardinality(p)}
  /\ previous' = reply
  /\ reads' = reads + 1
  /\ UNCHANGED <<held, active, kind, good, answer, reply, changes>>

\* accountInfo up to its await.  Nodes that are not enabled are not asked.
AccountInfo ==
  /\ kind = "accountInfo"
  /\ Ask(StorageNodes \cap active, StorageNodes,
         AccountThreshold(Cardinality(StorageNodes)))

ActiveNodes == (ArchivalNodes \cup ShardNodes) \cap active

\* Mutant: the storage nodes are drawn from all of the shard.
MutAskInactive ==
  /\ kind = "getTransactions"
  /\ \E s \in SUBSET ShardNodes :
       /\ Cardinality(s) = StorageNodesToPoll(Cardinality(ActiveNodes))
       /\ Ask((ArchivalNodes \cap active) \cup s, ActiveNodes,
              TransactionsThreshold(Cardinality(ActiveNodes)))

\* getTransactions up to its await.
GetTransactions ==
  /\ kind = "getTransactions"
  /\ \E s \in SUBSET (ShardNodes \cap active) :
       /\ Cardinality(s) = StorageNodesToPoll(Cardinality(ActiveNodes))
       /\ Ask((ArchivalNodes \cap active) \cup s, ActiveNodes,
              TransactionsThreshold(Cardinality(ActiveNodes)))

\* An array of negative length: getRandomSubArray throws a RangeError.
GetTransactionsThrows ==
  /\ kind = "getTransactions"
  /\ ~reading
  /\ reads < MaxReads
  /\ StorageNodesToPoll(Cardinality(ActiveNodes)) < 0
  /\ reply' = [NoReply EXCEPT !.summary = "threw"]
  /\ previous' = reply
  /\ reads' = reads + 1
  /\ UNCHANGED <<held, active, kind, reading, pool, threshold, asked, good,
                 answer, widely, changes>>

\* The request arrives at node n, and its answer comes back.
NodeAnswers(n) ==
  /\ n \in asked \ good
  /\ good' = good \cup {n}
  /\ answer' = [answer EXCEPT ![n] = held[n]]
  /\ UNCHANGED <<held, active, kind, reading, pool, threshold, asked, widely,
                 reply, previous, changes, reads>>

\* ReplyMerger.group
Group ==
  \E items \in [Keys -> {0} \cup UNION {Versions(k) : k \in Keys}] :
    /\ IsItems(items)
    /\ reply' = [pool |-> pool, threshold |-> threshold,
                 summary |-> QuorumResult(items), items |-> items,
                 keysWithoutQuorum |-> KeysWithoutQuorum(items)]

\* Every request has ended: those without a good answer by now have failed
\* or timed out.
EndRead ==
  /\ reading
  /\ reading' = FALSE
  /\ pool' = {}
  /\ threshold' = 0
  /\ asked' = {}
  /\ good' = {}
  /\ answer' = [n \in Nodes |-> Nothing]
  /\ UNCHANGED <<held, active, kind, widely, previous, changes, reads>>

(* The rest of accountInfo.  It looks for a reply of every storage node,   *)
(* those it has not asked included, and throws when there is none.         *)
MergeAccountInfo ==
  /\ kind = "accountInfo"
  /\ EndRead
  /\ \/ asked = pool /\ Group
     \/ asked # pool /\ reply' = [NoReply EXCEPT !.summary = "threw"]

\* The rest of getTransactions.
MergeTransactions ==
  /\ kind = "getTransactions"
  /\ EndRead
  /\ Group

MergeReplies == MergeAccountInfo \/ MergeTransactions

ReadStep ==
  \/ AccountInfo \/ GetTransactions \/ GetTransactionsThrows
  \/ \E n \in Nodes : NodeAnswers(n)
  \/ MergeReplies

Next ==
  \/ ReadStep
  \/ \E n \in Nodes : NodeStatusChanged(n) \/ \E k \in KeysRead : StoreRecord(n, k)

Spec == Init /\ [][Next]_vars

-----------------------------------------------------------------------------
\* Types of the variables; only nodes of the pool are asked, and no more have
\* to agree than there are.
TypeOK ==
  /\ held \in [Nodes -> [Keys -> Nat]]
  /\ active \in SUBSET Nodes
  /\ kind \in Kinds
  /\ reading \in BOOLEAN
  /\ pool \in SUBSET Nodes
  /\ threshold \in 0..Cardinality(pool)
  /\ asked \in SUBSET pool
  /\ good \in SUBSET asked
  /\ answer \in [Nodes -> [Keys -> Nat]]
  /\ widely \in SUBSET Keys
  /\ reply \in Replies /\ previous \in Replies
  /\ changes \in 0..MaxChanges
  /\ reads \in 0..MaxReads

(* What a read returns is the state of a quorum of nodes and not of one    *)
(* that is ahead of the others: that many nodes have this version or a     *)
(* later one, however replies and writes overlap.                          *)
ItemsAreSupported ==
  \A k \in Keys :
    reply.items[k] > 0 =>
      Cardinality({n \in reply.pool : held[n][k] >= reply.items[k]}) >= reply.threshold

(* A read that does not fail misses nothing that enough nodes had when it  *)
(* started: a key is returned, or named as one without quorum.             *)
NothingIsMissed ==
  ~reading /\ reply.summary \notin {"none", "threw", "QUORUM_FAILED_NODE_REPLIES"}
    => \A k \in widely : reply.items[k] > 0 \/ k \in reply.keysWithoutQuorum

\* More than half of the pool has to agree.
ByMajority(r) == 2 * r.threshold > Cardinality(r.pool)

(* Reads do not go back: what one read returned, the next one from the     *)
(* same nodes does not return in an earlier version, nor does it drop it   *)
(* without a word.  This needs a majority; 0.51 of two or four nodes,      *)
(* rounded, is none.                                                       *)
ReadsAreMonotone ==
  /\ reply.pool = previous.pool
  /\ ByMajority(reply)
  /\ reply.summary # "QUORUM_FAILED_NODE_REPLIES"
  => \A k \in Keys :
       previous.items[k] > 0 =>
         \/ reply.items[k] >= previous.items[k]
         \/ reply.items[k] = 0 /\ k \in reply.keysWithoutQuorum
=============================================================================
