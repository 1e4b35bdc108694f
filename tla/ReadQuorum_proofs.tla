------------------------- MODULE ReadQuorum_proofs -------------------------
(***************************************************************************)
(* Proofs about ReadQuorum, for any numbers of storage and archival nodes, *)
(* versions, changes of status and reads.                                  *)
(*                                                                         *)
(* The idea is that of every quorum: two sets of nodes that are too large  *)
(* to be apart have a node in common.  What makes it work while nodes are  *)
(* written to is that what a node has only grows, so that a node that had  *)
(* a version when a read started answers with it or with a later one.      *)
(***************************************************************************)
EXTENDS ReadQuorum, FiniteSetTheorems, TLAPS

\* The nodes of S have version v of k, and have not answered with less.
Has(S, k, v) == \A n \in S : held[n][k] >= v /\ (n \in good => answer[n][k] >= v)

ReadThreshold(n) ==
  IF kind = "accountInfo" THEN AccountThreshold(n) ELSE TransactionsThreshold(n)

\* The threshold is a function of the number of nodes of the pool.
Thresholds ==
  /\ threshold = ReadThreshold(Cardinality(pool))
  /\ reply.threshold = ReadThreshold(Cardinality(reply.pool))

Phases == IF reading THEN previous = reply ELSE asked = {} /\ good = {}

AnswersAreHeld == \A n \in good, k \in Keys : answer[n][k] <= held[n][k]

\* Each item of the last reply has a quorum.
ItemsAreHeld ==
  \A k \in Keys : reply.items[k] > 0 =>
    \E S \in SUBSET reply.pool :
      Cardinality(S) >= reply.threshold /\ Has(S, k, reply.items[k])

\* Keys that were widely held when the read started are found by every quorum.
WidelyIsHeld ==
  reading => \A k \in widely :
    \E S \in SUBSET pool :
      Cardinality(S) + threshold > Cardinality(pool) /\ Has(S, k, 1)

IInv ==
  /\ TypeOK
  /\ Thresholds
  /\ Phases
  /\ AnswersAreHeld
  /\ ItemsAreHeld
  /\ WidelyIsHeld
  /\ NothingIsMissed
  /\ ReadsAreMonotone

-----------------------------------------------------------------------------
(* The sets of nodes are finite, and so is every part of them.             *)
LEMMA FiniteNodes ==
  ASSUME NEW S \in SUBSET Nodes
  PROVE  /\ IsFiniteSet(S) /\ Cardinality(S) \in Nat
         /\ \A T \in SUBSET S : /\ Cardinality(T) \in Nat
                                /\ Cardinality(T) <= Cardinality(S)
<1>1. IsFiniteSet(Nodes)
  BY FS_Union, ReadAssumption DEF Nodes
<1>2. IsFiniteSet(S)
  BY <1>1, FS_Subset
<1>3. ASSUME NEW T \in SUBSET S
      PROVE  IsFiniteSet(T) /\ Cardinality(T) <= Cardinality(S)
  BY <1>2, FS_Subset
<1> QED
  BY <1>2, <1>3, FS_CardinalityType

(* Two parts of a set of nodes that are too large to be apart.             *)
LEMMA Meet ==
  ASSUME NEW P \in SUBSET Nodes, NEW S \in SUBSET P, NEW T \in SUBSET P,
         Cardinality(S) + Cardinality(T) > Cardinality(P)
  PROVE  \E n \in P : n \in S /\ n \in T
<1>1. IsFiniteSet(P)
  BY FiniteNodes
<1>2. S \cap T # {}
  BY <1>1, FS_MajoritiesIntersect
<1> QED
  BY <1>2

(* Both thresholds lie between zero and the number of nodes.               *)
LEMMA ThresholdInRange ==
  ASSUME NEW n \in Nat
  PROVE  AccountThreshold(n) \in 0..n /\ TransactionsThreshold(n) \in 0..n
<1>1. AccountThreshold(n) \in 0..n
  BY DEF AccountThreshold
<1>2. TransactionsThreshold(n) \in 0..n
  BY DEF TransactionsThreshold
<1> QED
  BY <1>1, <1>2

(* What nodes have, and have answered, is not undone.                      *)
LEMMA HasIsStable ==
  ASSUME TypeOK, [Next]_vars, NEW S \in SUBSET Nodes, NEW k \in Keys, NEW v \in Nat,
         Has(S, k, v), reading \/ good = {}
  PROVE  Has(S, k, v)'
<1> USE DEF Has
<1>1. CASE UNCHANGED vars
  BY <1>1 DEF vars, readVars
<1>2. ASSUME NEW n \in Nodes, NEW j \in Keys, StoreRecord(n, j)
      PROVE  Has(S, k, v)'
  <2>1. ASSUME NEW m \in S PROVE held'[m][k] >= v
    <3>1. held[m][k] \in Nat /\ m \in Nodes
      BY DEF TypeOK
    <3>2. held'[m][k] = held[m][k] \/ held'[m][k] = held[m][k] + 1
      BY <1>2, <3>1 DEF StoreRecord, TypeOK
    <3> QED
      BY <3>1, <3>2
  <2>2. good' = good /\ answer' = answer
    BY <1>2 DEF StoreRecord, readVars
  <2> QED
    BY <2>1, <2>2
<1>3. ASSUME NEW n \in Nodes, NodeStatusChanged(n) PROVE Has(S, k, v)'
  BY <1>3 DEF NodeStatusChanged, readVars
<1>4. CASE AccountInfo
  BY <1>4 DEF AccountInfo, Ask
<1>5. CASE GetTransactions
  BY <1>5 DEF GetTransactions, Ask
<1>6. CASE GetTransactionsThrows
  BY <1>6 DEF GetTransactionsThrows
<1>7. ASSUME NEW n \in Nodes, NodeAnswers(n) PROVE Has(S, k, v)'
  BY <1>7 DEF NodeAnswers, TypeOK
<1>8. CASE MergeReplies
  BY <1>8 DEF MergeReplies,
              MergeAccountInfo, MergeTransactions, EndRead
<1> QED
  BY <1>1, <1>2, <1>3, <1>4, <1>5, <1>6, <1>7, <1>8 DEF Next, ReadStep, KeysRead, Keys

(* TypeOK is kept by every step.                                           *)
LEMMA TypeIsKept ==
  ASSUME TypeOK, Phases, [Next]_vars
  PROVE  TypeOK'
<1> USE ReadAssumption DEF TypeOK
<1>1. CASE UNCHANGED vars
  BY <1>1 DEF vars, readVars
<1>2. ASSUME NEW n \in Nodes, NEW k \in Keys, StoreRecord(n, k)
      PROVE  TypeOK'
  <2>1. held' \in [Nodes -> [Keys -> Nat]]
    BY <1>2 DEF StoreRecord
  <2> QED
    BY <1>2, <2>1 DEF StoreRecord, readVars
<1>3. ASSUME NEW n \in Nodes, NodeStatusChanged(n) PROVE TypeOK'
  <2>1. active' \in SUBSET Nodes
    BY <1>3 DEF NodeStatusChanged
  <2>2. changes' \in 0..MaxChanges
    BY <1>3 DEF NodeStatusChanged
  <2> QED
    BY <1>3, <2>1, <2>2 DEF NodeStatusChanged, readVars
<1>4. ASSUME NEW p \in SUBSET Nodes, NEW nodes \in SUBSET p,
             NEW t \in 0..Cardinality(p), Ask(nodes, p, t)
      PROVE  TypeOK'
  <2>1. good = {} /\ good' = {}
    BY <1>4 DEF Ask, Phases
  <2>2. reads' \in 0..MaxReads
    BY <1>4 DEF Ask
  <2>3. widely' \in SUBSET Keys
    BY <1>4 DEF Ask
  <2> QED
    BY <1>4, <2>1, <2>2, <2>3 DEF Ask
<1>5. CASE AccountInfo
  <2>1. StorageNodes \in SUBSET Nodes
    BY DEF Nodes
  <2>2. AccountThreshold(Cardinality(StorageNodes)) \in 0..Cardinality(StorageNodes)
    BY <2>1, FiniteNodes, ThresholdInRange
  <2> QED
    BY <1>4, <1>5, <2>1, <2>2 DEF AccountInfo
<1>6. CASE GetTransactions
  <2>1. ActiveNodes \in SUBSET Nodes
    BY DEF Nodes, ActiveNodes
  <2>2. TransactionsThreshold(Cardinality(ActiveNodes)) \in 0..Cardinality(ActiveNodes)
    BY <2>1, FiniteNodes, ThresholdInRange
  <2>3. PICK s \in SUBSET (ShardNodes \cap active) :
          Ask((ArchivalNodes \cap active) \cup s, ActiveNodes,
              TransactionsThreshold(Cardinality(ActiveNodes)))
    BY <1>6 DEF GetTransactions
  <2>4. (ArchivalNodes \cap active) \cup s \in SUBSET ActiveNodes
    BY DEF ActiveNodes
  <2> QED
    BY <1>4, <2>1, <2>2, <2>3, <2>4
<1>7. CASE GetTransactionsThrows
  <2>1. reply' \in Replies /\ previous' \in Replies
    BY <1>7 DEF GetTransactionsThrows, Replies, NoReply, Nothing, Summary
  <2>2. reads' \in 0..MaxReads
    BY <1>7 DEF GetTransactionsThrows
  <2> QED
    BY <1>7, <2>1, <2>2 DEF GetTransactionsThrows
<1>8. ASSUME NEW n \in Nodes, NodeAnswers(n) PROVE TypeOK'
  <2>1. good' \in SUBSET asked /\ answer' \in [Nodes -> [Keys -> Nat]]
    BY <1>8 DEF NodeAnswers
  <2> QED
    BY <1>8, <2>1 DEF NodeAnswers
<1>9. CASE MergeReplies
  <2>1. reply' \in Replies
    <3>1. [NoReply EXCEPT !.summary = "threw"] \in Replies
      BY DEF Replies, NoReply, Nothing, Summary
    <3>2. ASSUME NEW items \in [Keys -> {0} \cup UNION {Versions(k) : k \in Keys}]
          PROVE  [pool |-> pool, threshold |-> threshold,
                  summary |-> QuorumResult(items), items |-> items,
                  keysWithoutQuorum |-> KeysWithoutQuorum(items)] \in Replies
      <4>1. \A k \in Keys : Versions(k) \subseteq Nat
        BY DEF Versions
      <4>2. {0} \cup UNION {Versions(k) : k \in Keys} \subseteq Nat
        BY <4>1
      <4>3. items \in [Keys -> Nat]
        BY <4>2
      <4>4. QuorumResult(items) \in Summary
        BY DEF QuorumResult, Summary
      <4>5. KeysWithoutQuorum(items) \in SUBSET Keys
        BY DEF KeysWithoutQuorum
      <4>6. threshold \in Nat
        OBVIOUS
      <4> QED
        BY <4>3, <4>4, <4>5, <4>6 DEF Replies
    <3> QED
      BY <1>9, <3>1, <3>2 DEF MergeReplies,
                              MergeAccountInfo, MergeTransactions, EndRead, Group
  <2>2. Cardinality({}) = 0
    BY FS_EmptySet
  <2>3. answer' \in [Nodes -> [Keys -> Nat]]
    BY <1>9 DEF MergeReplies, Nothing,
                MergeAccountInfo, MergeTransactions, EndRead
  <2>4. /\ pool' = {} /\ threshold' = 0 /\ asked' = {} /\ good' = {} /\ reading' = FALSE
        /\ UNCHANGED <<held, active, kind, widely, previous, changes, reads>>
    BY <1>9 DEF MergeReplies,
                MergeAccountInfo, MergeTransactions, EndRead
  <2>5. threshold' \in 0..Cardinality(pool')
    BY <2>2, <2>4
  <2>6. asked' \in SUBSET pool' /\ good' \in SUBSET asked' /\ pool' \in SUBSET Nodes
    BY <2>4
  <2> QED
    BY <2>1, <2>3, <2>4, <2>5, <2>6
<1>10. ASSUME NEW n \in Nodes, NEW k \in KeysRead, StoreRecord(n, k)
       PROVE  TypeOK'
  <2>1. k \in Keys
    BY DEF KeysRead, Keys
  <2> QED
    BY <1>2, <1>10, <2>1
<1> HIDE ReadAssumption DEF TypeOK
<1> QED
  BY <1>1, <1>3, <1>5, <1>6, <1>7, <1>8, <1>9, <1>10 DEF Next, ReadStep

(* Thresholds, Phases and AnswersAreHeld are kept by every step.           *)
LEMMA AnswersAreKept ==
  ASSUME TypeOK, Phases, Thresholds, AnswersAreHeld, [Next]_vars
  PROVE  Thresholds' /\ Phases' /\ AnswersAreHeld'
<1> USE DEF Thresholds, Phases, AnswersAreHeld, ReadThreshold
<1>1. CASE UNCHANGED vars
  BY <1>1 DEF vars, readVars
<1>2. ASSUME NEW n \in Nodes, NEW k \in KeysRead, StoreRecord(n, k)
      PROVE  Thresholds' /\ Phases' /\ AnswersAreHeld'
  <2>1. AnswersAreHeld'
    <3>1. SUFFICES ASSUME NEW m \in good, NEW j \in Keys
                   PROVE  answer[m][j] <= held'[m][j]
      BY <1>2 DEF StoreRecord, readVars
    <3>2. m \in Nodes /\ held[m][j] \in Nat /\ answer[m][j] \in Nat
      BY DEF TypeOK
    <3>3. held'[m][j] = held[m][j] \/ held'[m][j] = held[m][j] + 1
      BY <1>2, <3>2 DEF StoreRecord, TypeOK
    <3>4. answer[m][j] <= held[m][j]
      OBVIOUS
    <3> QED
      BY <3>2, <3>3, <3>4
  <2> QED
    BY <1>2, <2>1 DEF StoreRecord, readVars
<1>3. ASSUME NEW n \in Nodes, NodeStatusChanged(n)
      PROVE  Thresholds' /\ Phases' /\ AnswersAreHeld'
  BY <1>3 DEF NodeStatusChanged, readVars
<1>4. CASE AccountInfo
  BY <1>4 DEF AccountInfo, Ask
<1>5. CASE GetTransactions
  BY <1>5 DEF GetTransactions, Ask, Kinds, TypeOK
<1>6. Cardinality({}) = 0 /\ AccountThreshold(0) = 0 /\ TransactionsThreshold(0) = 0
  BY FS_EmptySet DEF AccountThreshold, TransactionsThreshold
<1>7. CASE GetTransactionsThrows
  BY <1>6, <1>7 DEF GetTransactionsThrows, NoReply
<1>8. ASSUME NEW n \in Nodes, NodeAnswers(n)
      PROVE  Thresholds' /\ Phases' /\ AnswersAreHeld'
  <2>1. reading
    BY <1>8 DEF NodeAnswers
  <2> QED
    BY <1>8, <2>1 DEF NodeAnswers, TypeOK
<1>9. CASE MergeReplies
  <2>1. /\ asked' = {} /\ good' = {} /\ pool' = {} /\ threshold' = 0
        /\ kind' = kind /\ reading' = FALSE
    BY <1>9 DEF MergeReplies,
                MergeAccountInfo, MergeTransactions, EndRead
  <2>2. reply'.threshold = ReadThreshold(Cardinality(reply'.pool))
    BY <1>6, <1>9 DEF MergeReplies, NoReply,
                      MergeAccountInfo, MergeTransactions, Group, EndRead
  <2> QED
    BY <1>6, <2>1, <2>2
<1> QED
  BY <1>1, <1>2, <1>3, <1>4, <1>5, <1>7, <1>8, <1>9 DEF Next, ReadStep

-----------------------------------------------------------------------------
(* What a read that ends returns: the good case of MergeReplies.           *)
Merged(items) ==
  /\ IsItems(items)
  /\ reply' = [pool |-> pool, threshold |-> threshold,
                summary |-> QuorumResult(items), items |-> items,
                keysWithoutQuorum |-> KeysWithoutQuorum(items)]

(* Each item has a quorum of nodes that gave it, and still have it.        *)
LEMMA ItemsHaveHolders ==
  ASSUME TypeOK, AnswersAreHeld, NEW items \in [Keys -> Nat], IsItems(items),
         NEW k \in Keys, items[k] > 0
  PROVE  /\ Holders(k, items[k]) \in SUBSET pool
         /\ Cardinality(Holders(k, items[k])) >= threshold
         /\ \A n \in Holders(k, items[k]) : n \in good /\ held[n][k] >= items[k]
<1>1. IsItem(k, items[k])
  BY DEF IsItems
<1>2. Cardinality(Holders(k, items[k])) >= threshold
  BY <1>1 DEF IsItem
<1>3. \A n \in Holders(k, items[k]) :
        n \in good /\ n \in pool /\ answer[n][k] = items[k]
  BY DEF Holders, TypeOK
<1> QED
  BY <1>2, <1>3 DEF AnswersAreHeld

(* A read that has enough replies, and nodes that no quorum can avoid and  *)
(* that had version v of k: the item for k is no earlier, or is missing    *)
(* and named so.                                                           *)
LEMMA NoQuorumAvoids ==
  ASSUME TypeOK, NEW items \in [Keys -> Nat], IsItems(items),
         NEW k \in Keys, NEW v \in Nat, v > 0,
         NEW S \in SUBSET pool, Cardinality(S) + threshold > Cardinality(pool),
         Has(S, k, v), QuorumResult(items) # "QUORUM_FAILED_NODE_REPLIES"
  PROVE  items[k] >= v \/ (items[k] = 0 /\ k \in KeysWithoutQuorum(items))
<1>1. pool \in SUBSET Nodes /\ good \in SUBSET pool /\ threshold \in Nat
  BY FiniteNodes DEF TypeOK
<1>2. /\ Cardinality(S) \in Nat /\ Cardinality(pool) \in Nat
      /\ \A T \in SUBSET pool : Cardinality(T) \in Nat
  BY <1>1, FiniteNodes
<1>3. ASSUME NEW T \in SUBSET pool, Cardinality(T) >= threshold
      PROVE  \E n \in pool : n \in S /\ n \in T
  <2>1. Cardinality(S) + Cardinality(T) > Cardinality(pool)
    BY <1>1, <1>2, <1>3
  <2> QED
    BY <1>1, <2>1, Meet
<1>4. CASE items[k] = 0
  <2>1. Cardinality(good) >= threshold
    BY <1>1, <1>2 DEF QuorumResult, EnoughReplies
  <2>2. PICK n \in S : n \in good
    BY <1>1, <1>3, <2>1
  <2>3. answer[n][k] \in Nat /\ answer[n][k] >= v
    BY <1>1, <2>2 DEF Has, TypeOK
  <2>4. answer[n][k] \in Versions(k) \ {0}
    BY <2>2, <2>3 DEF Versions
  <2> QED
    BY <1>4, <2>4 DEF KeysWithoutQuorum
<1>5. CASE items[k] # 0
  <2>1. Cardinality(Holders(k, items[k])) >= threshold
    BY <1>5 DEF IsItems, IsItem
  <2>2. Holders(k, items[k]) \in SUBSET pool
    BY <1>1 DEF Holders
  <2>3. PICK n \in S : n \in Holders(k, items[k])
    BY <1>3, <2>1, <2>2
  <2>4. n \in good /\ answer[n][k] = items[k] /\ answer[n][k] \in Nat
    BY <2>3 DEF Holders
  <2>5. answer[n][k] >= v
    BY <2>3, <2>4 DEF Has
  <2>6. items[k] >= v
    BY <2>4, <2>5
  <2> QED
    BY <2>6
<1> QED
  BY <1>4, <1>5

(* MergeReplies ends a read with a reply of the good case, or throws.      *)
LEMMA MergeCases ==
  ASSUME TypeOK, MergeReplies
  PROVE  \/ reply' = [NoReply EXCEPT !.summary = "threw"]
         \/ \E items \in [Keys -> Nat] : Merged(items)
<1>1. {0} \cup UNION {Versions(k) : k \in Keys} \subseteq Nat
  <2>1. \A k \in Keys : Versions(k) \subseteq Nat
    BY DEF Versions, TypeOK
  <2> QED
    BY <2>1
<1>2. ASSUME NEW items \in [Keys -> {0} \cup UNION {Versions(k) : k \in Keys}]
      PROVE  items \in [Keys -> Nat]
  BY <1>1
<1> QED
  BY <1>2 DEF MergeReplies, Merged,
              MergeAccountInfo, MergeTransactions, EndRead, Group

-----------------------------------------------------------------------------
(* The items of the last reply stay where they are.                        *)
LEMMA ItemsAreKept ==
  ASSUME TypeOK, TypeOK', Phases, AnswersAreHeld, ItemsAreHeld, [Next]_vars
  PROVE  ItemsAreHeld'
<1>1. ASSUME reply' = reply PROVE ItemsAreHeld'
  <2>1. SUFFICES ASSUME NEW k \in Keys, reply.items[k] > 0
                 PROVE  \E S \in SUBSET reply.pool :
                          /\ Cardinality(S) >= reply.threshold
                          /\ Has(S, k, reply.items[k])'
    BY <1>1 DEF ItemsAreHeld
  <2>2. PICK v \in Nat : v = reply.items[k]
    BY DEF TypeOK, Replies
  <2>3. PICK S \in SUBSET reply.pool :
          Cardinality(S) >= reply.threshold /\ Has(S, k, v)
    BY <2>1, <2>2 DEF ItemsAreHeld
  <2>4. S \in SUBSET Nodes /\ (reading \/ good = {})
    BY DEF TypeOK, Replies, Phases
  <2>5. Has(S, k, v)'
    BY <2>3, <2>4, HasIsStable
  <2>6. Has(S, k, reply.items[k])'
    BY <1>1, <2>2, <2>5 DEF Has
  <2> QED
    BY <2>3, <2>6
<1>2. ASSUME reply' = [NoReply EXCEPT !.summary = "threw"] PROVE ItemsAreHeld'
  BY <1>2 DEF ItemsAreHeld, NoReply, Nothing
<1>3. CASE MergeReplies
  <2>1. ASSUME NEW items \in [Keys -> Nat], Merged(items)
        PROVE  ItemsAreHeld'
    <3>1. /\ IsItems(items) /\ good' = {} /\ held' = held
          /\ reply'.pool = pool /\ reply'.threshold = threshold /\ reply'.items = items
      BY <1>3, <2>1 DEF Merged, MergeReplies,
                        MergeAccountInfo, MergeTransactions, EndRead
    <3>2. ASSUME NEW k \in Keys, items[k] > 0
          PROVE  /\ Holders(k, items[k]) \in SUBSET pool
                 /\ Cardinality(Holders(k, items[k])) >= threshold
                 /\ \A n \in Holders(k, items[k]) : held[n][k] >= items[k]
      BY <3>1, <3>2, ItemsHaveHolders
    <3>3. ASSUME NEW k \in Keys, items[k] > 0
          PROVE  \E S \in SUBSET pool :
                   /\ Cardinality(S) >= threshold
                   /\ \A n \in S : held[n][k] >= items[k]
      BY <3>2, <3>3
    <3> QED
      BY <3>1, <3>3 DEF ItemsAreHeld, Has
  <2> QED
    BY <1>2, <1>3, <2>1, MergeCases
<1>4. CASE GetTransactionsThrows
  BY <1>2, <1>4 DEF GetTransactionsThrows
<1>5. CASE ~MergeReplies /\ ~GetTransactionsThrows
  <2>1. reply' = reply
    BY <1>5 DEF Next, ReadStep, vars, readVars, StoreRecord, NodeStatusChanged,
                AccountInfo, GetTransactions, Ask, NodeAnswers
  <2> QED
    BY <1>1, <2>1
<1> QED
  BY <1>3, <1>4, <1>5

(* The keys that were widely held when the read started stay so.           *)
LEMMA WidelyIsKept ==
  ASSUME TypeOK, TypeOK', Phases, WidelyIsHeld, [Next]_vars
  PROVE  WidelyIsHeld'
<1>1. ASSUME reading, UNCHANGED <<pool, threshold, widely>> PROVE WidelyIsHeld'
  <2>1. SUFFICES ASSUME NEW k \in widely
                 PROVE  \E S \in SUBSET pool :
                          /\ Cardinality(S) + threshold > Cardinality(pool)
                          /\ Has(S, k, 1)'
    BY <1>1 DEF WidelyIsHeld
  <2>2. PICK S \in SUBSET pool :
          Cardinality(S) + threshold > Cardinality(pool) /\ Has(S, k, 1)
    BY <1>1 DEF WidelyIsHeld
  <2>3. S \in SUBSET Nodes /\ k \in Keys
    BY DEF TypeOK
  <2>4. Has(S, k, 1)'
    BY <1>1, <2>2, <2>3, HasIsStable
  <2> QED
    BY <2>2, <2>4
<1>2. ASSUME NEW p \in SUBSET Nodes, NEW nodes, NEW t, Ask(nodes, p, t)
      PROVE  WidelyIsHeld'
  <2>1. good' = {} /\ held' = held /\ pool' = p /\ threshold' = t
    BY <1>2 DEF Ask, Phases
  <2>2. SUFFICES ASSUME NEW k \in widely'
                 PROVE  \E S \in SUBSET p :
                          /\ Cardinality(S) + t > Cardinality(p)
                          /\ \A n \in S : held[n][k] >= 1
    BY <2>1 DEF WidelyIsHeld, Has
  <2>3. k \in Keys /\ Cardinality({n \in p : held[n][k] > 0}) + t > Cardinality(p)
    BY <1>2 DEF Ask
  <2>4. \A n \in {m \in p : held[m][k] > 0} : held[n][k] >= 1
    BY <2>3 DEF TypeOK
  <2> QED
    BY <2>3, <2>4
<1>3. CASE AccountInfo
  <2>1. StorageNodes \in SUBSET Nodes
    BY DEF Nodes
  <2>2. Ask(StorageNodes \cap active, StorageNodes,
            AccountThreshold(Cardinality(StorageNodes)))
    BY <1>3 DEF AccountInfo
  <2> QED
    BY <1>2, <2>1, <2>2
<1>4. CASE GetTransactions
  <2>1. ActiveNodes \in SUBSET Nodes
    BY ReadAssumption DEF ActiveNodes, Nodes
  <2>2. PICK s : Ask((ArchivalNodes \cap active) \cup s, ActiveNodes,
                     TransactionsThreshold(Cardinality(ActiveNodes)))
    BY <1>4 DEF GetTransactions
  <2> QED
    BY <1>2, <2>1, <2>2
<1>5. CASE GetTransactionsThrows \/ MergeReplies
  BY <1>5 DEF GetTransactionsThrows, MergeReplies, WidelyIsHeld,
              MergeAccountInfo, MergeTransactions, EndRead
<1>6. CASE ~(AccountInfo \/ GetTransactions \/ GetTransactionsThrows \/ MergeReplies)
  <2>1. UNCHANGED <<reading, pool, threshold, widely>>
    BY <1>6 DEF Next, ReadStep, vars, readVars, StoreRecord, NodeStatusChanged,
                NodeAnswers
  <2> QED
    BY <1>1, <2>1 DEF WidelyIsHeld
<1> QED
  BY <1>3, <1>4, <1>5, <1>6

-----------------------------------------------------------------------------
(* NothingIsMissed is kept: a quorum of replies has one of the nodes that  *)
(* had a widely held key.                                                  *)
LEMMA MissedNothing ==
  ASSUME TypeOK, WidelyIsHeld, NothingIsMissed, [Next]_vars
  PROVE  NothingIsMissed'
<1>1. ASSUME ~reading, UNCHANGED <<widely, reply>> PROVE NothingIsMissed'
  BY <1>1 DEF NothingIsMissed
<1>2. ASSUME reply' = [NoReply EXCEPT !.summary = "threw"] PROVE NothingIsMissed'
  BY <1>2 DEF NothingIsMissed, NoReply
<1>3. ASSUME reading' PROVE NothingIsMissed'
  BY <1>3 DEF NothingIsMissed
<1>4. CASE MergeReplies
  <2>1. ASSUME NEW items \in [Keys -> Nat], Merged(items)
        PROVE  NothingIsMissed'
    <3>1. /\ IsItems(items) /\ reading /\ widely' = widely
          /\ reply'.summary = QuorumResult(items) /\ reply'.items = items
          /\ reply'.keysWithoutQuorum = KeysWithoutQuorum(items)
      BY <1>4, <2>1 DEF Merged, MergeReplies,
                        MergeAccountInfo, MergeTransactions, EndRead
    <3>2. SUFFICES ASSUME QuorumResult(items) # "QUORUM_FAILED_NODE_REPLIES",
                          NEW k \in widely
                   PROVE  items[k] > 0 \/ k \in KeysWithoutQuorum(items)
      BY <3>1 DEF NothingIsMissed
    <3>3. PICK S \in SUBSET pool :
            Cardinality(S) + threshold > Cardinality(pool) /\ Has(S, k, 1)
      BY <3>1 DEF WidelyIsHeld
    <3>4. k \in Keys /\ items[k] \in Nat
      BY DEF TypeOK
    <3>5. items[k] >= 1 \/ k \in KeysWithoutQuorum(items)
      BY <3>1, <3>2, <3>3, <3>4, NoQuorumAvoids
    <3> QED
      BY <3>4, <3>5
  <2> QED
    BY <1>2, <1>4, <2>1, MergeCases
<1>5. CASE GetTransactionsThrows
  BY <1>2, <1>5 DEF GetTransactionsThrows
<1>6. CASE ~MergeReplies /\ ~GetTransactionsThrows
  <2>1. reading' \/ (~reading /\ UNCHANGED <<widely, reply>>)
    BY <1>6 DEF Next, ReadStep, vars, readVars, StoreRecord, NodeStatusChanged,
                AccountInfo, GetTransactions, Ask, NodeAnswers, TypeOK
  <2> QED
    BY <1>1, <1>3, <2>1
<1> QED
  BY <1>4, <1>5, <1>6

(* ReadsAreMonotone is kept: two majorities of the same nodes meet.        *)
LEMMA WentNotBack ==
  ASSUME TypeOK, Thresholds, Phases, ItemsAreHeld, ReadsAreMonotone, [Next]_vars
  PROVE  ReadsAreMonotone'
<1>1. CASE UNCHANGED <<reply, previous>>
  BY <1>1 DEF ReadsAreMonotone, ByMajority
<1>2. ASSUME reply' = reply, previous' = reply PROVE ReadsAreMonotone'
  BY <1>2 DEF ReadsAreMonotone, TypeOK, Replies
<1>3. ASSUME reply' = [NoReply EXCEPT !.summary = "threw"] PROVE ReadsAreMonotone'
  <2>1. reply'.pool = {} /\ reply'.threshold = 0 /\ Cardinality({}) = 0
    BY <1>3, FS_EmptySet DEF NoReply
  <2>2. ~ByMajority(reply')
    BY <2>1 DEF ByMajority
  <2> QED
    BY <2>2 DEF ReadsAreMonotone
<1>4. CASE MergeReplies
  <2>1. ASSUME NEW items \in [Keys -> Nat], Merged(items)
        PROVE  ReadsAreMonotone'
    <3>1. /\ IsItems(items) /\ previous = reply /\ previous' = reply
          /\ reply'.pool = pool /\ reply'.threshold = threshold
          /\ reply'.summary = QuorumResult(items) /\ reply'.items = items
          /\ reply'.keysWithoutQuorum = KeysWithoutQuorum(items)
      BY <1>4, <2>1 DEF Merged, MergeReplies, Phases,
                        MergeAccountInfo, MergeTransactions, EndRead
    <3>2. SUFFICES ASSUME QuorumResult(items) # "QUORUM_FAILED_NODE_REPLIES",
                          reply.pool = pool, 2 * threshold > Cardinality(pool),
                          NEW k \in Keys, reply.items[k] > 0
                   PROVE  \/ items[k] >= reply.items[k]
                          \/ items[k] = 0 /\ k \in KeysWithoutQuorum(items)
      BY <3>1 DEF ReadsAreMonotone, ByMajority
    <3>3. PICK v \in Nat : v = reply.items[k]
      BY DEF TypeOK, Replies
    <3>4. PICK S \in SUBSET pool : Cardinality(S) >= threshold /\ Has(S, k, v)
      BY <3>2, <3>3 DEF ItemsAreHeld, Thresholds
    <3>5. /\ Cardinality(S) \in Nat /\ threshold \in Nat
          /\ Cardinality(pool) \in Nat
      BY FiniteNodes DEF TypeOK
    <3>6. Cardinality(S) + threshold > Cardinality(pool)
      BY <3>2, <3>4, <3>5
    <3>7. v > 0
      BY <3>2, <3>3
    <3>8. items[k] >= v \/ (items[k] = 0 /\ k \in KeysWithoutQuorum(items))
      BY <3>1, <3>2, <3>4, <3>6, <3>7, NoQuorumAvoids
    <3> QED
      BY <3>3, <3>8
  <2> QED
    BY <1>3, <1>4, <2>1, MergeCases
<1>5. CASE GetTransactionsThrows
  BY <1>3, <1>5 DEF GetTransactionsThrows
<1>6. CASE ~MergeReplies /\ ~GetTransactionsThrows
  <2>1. UNCHANGED <<reply, previous>> \/ (reply' = reply /\ previous' = reply)
    BY <1>6 DEF Next, ReadStep, vars, readVars, StoreRecord, NodeStatusChanged,
                AccountInfo, GetTransactions, Ask, NodeAnswers
  <2> QED
    BY <1>1, <1>2, <2>1
<1> QED
  BY <1>4, <1>5, <1>6

-----------------------------------------------------------------------------
LEMMA Initially == Init => IInv
<1> SUFFICES ASSUME Init PROVE IInv
  OBVIOUS
<1>1. Cardinality({}) = 0
  BY FS_EmptySet
<1>2. TypeOK
  <2>1. Nothing \in [Keys -> Nat]
    BY DEF Nothing
  <2>2. NoReply \in Replies
    BY <2>1 DEF Replies, NoReply, Summary
  <2>3. threshold \in 0..Cardinality(pool)
    BY <1>1 DEF Init
  <2>4. changes \in 0..MaxChanges /\ reads \in 0..MaxReads
    BY ReadAssumption DEF Init
  <2> QED
    BY <2>1, <2>2, <2>3, <2>4 DEF Init, TypeOK
<1>3. Thresholds
  BY <1>1 DEF Init, Thresholds, ReadThreshold, NoReply, AccountThreshold,
              TransactionsThreshold
<1>4. Phases /\ AnswersAreHeld /\ WidelyIsHeld
  BY DEF Init, Phases, AnswersAreHeld, WidelyIsHeld
<1>5. ItemsAreHeld /\ NothingIsMissed /\ ReadsAreMonotone
  BY DEF Init, ItemsAreHeld, NothingIsMissed, ReadsAreMonotone, NoReply, Nothing
<1> QED
  BY <1>2, <1>3, <1>4, <1>5 DEF IInv

THEOREM Invariance == Spec => []IInv
<1>1. IInv /\ [Next]_vars => IInv'
  <2> SUFFICES ASSUME IInv, [Next]_vars PROVE IInv'
    OBVIOUS
  <2>1. TypeOK'
    BY TypeIsKept DEF IInv
  <2> QED
    BY <2>1, AnswersAreKept, ItemsAreKept, WidelyIsKept, MissedNothing, WentNotBack
       DEF IInv
<1> QED
  BY Initially, <1>1, PTL DEF Spec

(* The variables have their types; only nodes of the pool are asked, and   *)
(* the threshold is no more than their number.                             *)
THEOREM TypeCorrect == Spec => []TypeOK
<1>1. IInv => TypeOK
  BY DEF IInv
<1> QED
  BY Invariance, <1>1, PTL

(* What a read returned, a quorum of its nodes has in this or a later      *)
(* version, from then on.                                                  *)
THEOREM QuorumHasItems == Spec => []ItemsAreSupported
<1>1. IInv => ItemsAreSupported
  <2> SUFFICES ASSUME IInv, NEW k \in Keys, reply.items[k] > 0
               PROVE  Cardinality({n \in reply.pool : held[n][k] >= reply.items[k]})
                        >= reply.threshold
    BY DEF ItemsAreSupported
  <2> DEFINE Q == {n \in reply.pool : held[n][k] >= reply.items[k]}
  <2>1. PICK S \in SUBSET reply.pool :
          Cardinality(S) >= reply.threshold /\ Has(S, k, reply.items[k])
    BY DEF IInv, ItemsAreHeld
  <2>2. S \in SUBSET Q /\ Q \in SUBSET Nodes /\ reply.threshold \in Nat
    BY <2>1 DEF Has, IInv, TypeOK, Replies
  <2>3. Cardinality(S) \in Nat /\ Cardinality(Q) \in Nat /\ Cardinality(S) <= Cardinality(Q)
    BY <2>2, FiniteNodes
  <2> QED
    BY <2>1, <2>2, <2>3
<1> QED
  BY Invariance, <1>1, PTL

(* A read that does not fail returns or names every key that every quorum  *)
(* had to meet when it started.                                            *)
THEOREM Completeness == Spec => []NothingIsMissed
<1>1. IInv => NothingIsMissed
  BY DEF IInv
<1> QED
  BY Invariance, <1>1, PTL

(* Reads by majority from the same nodes do not go back.                   *)
THEOREM Monotonicity == Spec => []ReadsAreMonotone
<1>1. IInv => ReadsAreMonotone
  BY DEF IInv
<1> QED
  BY Invariance, <1>1, PTL
=============================================================================
