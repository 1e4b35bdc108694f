---------------------------- MODULE BlockDelivery ---------------------------
(***************************************************************************)
(* publishFinalizedBlock: a block is sent to the storage nodes of the      *)
(* shards it affects and to all archival nodes, first its hash and then,   *)
(* if the node wants it, the block, and put into the queue once each node  *)
(* was tried once. Storage nodes are tried again by timers.                *)
(***************************************************************************)
EXTENDS ContractView

CONSTANTS
  \* The shards of the addresses of a block, and the nodes whose URL is fit
  \* for a call (fixNodeUrl).
  AffectedShards,
  WithUrl,
  \* SEND_BLOCK_RETRY_COUNT
  RetryCount,
  \* Bound of the model: the nodes that calls may fail to.
  Flaky

ASSUME DeliveryAssumption ==
  /\ AffectedShards \subseteq AllShards
  /\ WithUrl \subseteq Nodes
  /\ RetryCount \in Nat
  /\ Flaky \subseteq Nodes

VARIABLES
  \* publishFinalizedBlock: idle, sending, queued, or failed.
  publication,
  \* The sending of the block to each node, [state, retriesLeft].
  sends,
  \* The nodes: those that have stored the block, those that have rejected
  \* it, and the failed calls of each.
  stored, rejected, failures

deliveryVars == <<publication, sends, stored, rejected, failures>>
vars == <<viewVars, deliveryVars>>

States == {"none", "hash", "block", "timer", "SENT", "DO_NOT_RETRY", "ERROR_CAN_RETRY", "thrown"}
Ended == States \ {"hash", "block", "timer"}

TypeOK ==
  /\ ViewTypeOK
  /\ publication \in {"idle", "sending", "queued", "failed"}
  /\ sends \in [Nodes -> [state : States, retriesLeft : 0..RetryCount]]
  /\ stored \subseteq Nodes /\ rejected \subseteq Nodes
  /\ failures \in [Nodes -> 0..RetryCount + 1]

Init ==
  /\ ViewInit
  /\ publication = "idle"
  /\ sends = [n \in Nodes |-> [state |-> "none", retriesLeft |-> 0]]
  /\ stored = {} /\ rejected = {}
  /\ failures = [n \in Nodes |-> 0]

-----------------------------------------------------------------------------
GetStorageNodesForShard(shard) == {s \in SNodes : <<shard, s>> \in shardToNodes}

HasUrl(n) == n \in WithUrl

\* sendBlockToSNode and sendBlockToANode up to their first call.
FirstState(n) ==
  CASE view[n] = Absent -> "thrown"
    [] view[n] \in Enabled /\ HasUrl(n) -> "hash"
    [] OTHER -> "DO_NOT_RETRY"

\* The two functions differ in the retries only, of which archival nodes get
\* none.
SendBlockToSNode(n) == [state |-> FirstState(n), retriesLeft |-> RetryCount]
SendBlockToANode(n) == [state |-> FirstState(n), retriesLeft |-> 0]

\* Iterating over the nodes of a shard without any throws.
PublishFinalizedBlock ==
  /\ Serving
  /\ publication = "idle"
  /\ LET affectedSNodes == UNION {GetStorageNodesForShard(shard) : shard \in AffectedShards}
         affectedANodes == {n \in ANodes : view[n] # Absent}
     IN IF \E shard \in AffectedShards : GetStorageNodesForShard(shard) = {}
          THEN publication' = "failed" /\ UNCHANGED sends
          ELSE /\ publication' = "sending"
               /\ sends' = [n \in Nodes |->
                    CASE n \in affectedSNodes -> SendBlockToSNode(n)
                      [] n \in affectedANodes -> SendBlockToANode(n)
                      [] OTHER -> sends[n]]
  /\ UNCHANGED <<viewVars, stored, rejected, failures>>

Becomes(n, state) == sends' = [sends EXCEPT ![n].state = state]

\* The node answers push_putBlockHash.
HashReply(n) ==
  /\ sends[n].state = "hash"
  /\ Becomes(n, IF n \in stored THEN "DO_NOT_RETRY" ELSE "block")
  /\ UNCHANGED <<viewVars, publication, stored, rejected, failures>>

\* The node answers push_putBlock: whether it took the block is not looked at.
BlockReply(n) ==
  /\ sends[n].state = "block"
  /\ Becomes(n, "SENT")
  /\ \/ stored' = stored \cup {n} /\ UNCHANGED rejected
     \/ rejected' = rejected \cup {n} /\ UNCHANGED stored
  /\ UNCHANGED <<viewVars, publication, failures>>

\* Mutant: one retry too many.
MutRetry(n) ==
  sends' = [sends EXCEPT ![n].state = IF sends[n].retriesLeft >= 0 THEN "timer" ELSE "ERROR_CAN_RETRY"]

\* sendBlockToSNodeWithRetries after ERROR_CAN_RETRY
Retry(n) ==
  sends' = [sends EXCEPT ![n].state = IF sends[n].retriesLeft > 0 THEN "timer" ELSE "ERROR_CAN_RETRY"]

\* A call fails or times out, before or after the node has handled it.
CallFails(n) ==
  /\ sends[n].state \in {"hash", "block"}
  /\ n \in Flaky
  /\ failures' = [failures EXCEPT ![n] = @ + 1]
  /\ Retry(n)
  /\ \/ UNCHANGED stored
     \/ sends[n].state = "block" /\ stored' = stored \cup {n}
  /\ UNCHANGED <<viewVars, publication, rejected>>

\* retryDelay has passed: the node is looked up again.
RetryTimer(n) ==
  /\ sends[n].state = "timer"
  /\ sends' = [sends EXCEPT ![n] = [state |-> FirstState(n), retriesLeft |-> @.retriesLeft - 1]]
  /\ UNCHANGED <<viewVars, publication, stored, rejected, failures>>

\* Mutant: Promise.all, which a try that throws or fails does not settle.
MutTriedOnce(n) == sends[n].state \in {"none", "SENT", "DO_NOT_RETRY"}

\* The first try of n has ended, its retries may be under way.
TriedOnce(n) ==
  \/ sends[n].state \in Ended \cup {"timer"}
  \/ n \in SNodes /\ sends[n].retriesLeft < RetryCount

QueueAccept ==
  /\ publication = "sending"
  /\ \A n \in Nodes : TriedOnce(n)
  /\ publication' = "queued"
  /\ UNCHANGED <<viewVars, sends, stored, rejected, failures>>

Deliver ==
  \/ PublishFinalizedBlock
  \/ QueueAccept
  \/ \E n \in Nodes : HashReply(n) \/ BlockReply(n) \/ CallFails(n) \/ RetryTimer(n)

Next ==
  \/ (ContractChanges \/ ViewStep) /\ UNCHANGED deliveryVars
  \/ Deliver

Spec == Init /\ [][Next]_vars

\* The contract and the nodes answer, calls end by their timeouts, events are
\* polled for and timers fire.
Fairness ==
  /\ WF_vars(ViewStep /\ UNCHANGED deliveryVars)
  /\ WF_vars(QueueAccept)
  /\ \A n \in Nodes :
       /\ WF_vars(HashReply(n) \/ BlockReply(n) \/ CallFails(n))
       /\ WF_vars(RetryTimer(n))

FairSpec == Spec /\ Fairness

-----------------------------------------------------------------------------
(* Properties. *)

\* A node about which the contracts have not changed.
Serves(s) ==
  /\ s \notin disturbed
  /\ chain.shards[s] \cap AffectedShards # {}
  /\ chain.status[s] \in Enabled /\ s \in WithUrl

\* Whatever happens to the other nodes, a storage node that serves a shard
\* of the block and is left alone by the contracts gets the block, unless it
\* rejects it or all of the calls to it fail; and a publication fails only
\* if no such node serves one of its shards (publishFinalizedBlock,
\* sendBlockToSNodeWithRetries, reloadEveryAddressAndNotifyListeners).
ShardsAreServed ==
  /\ publication = "queued" => \A s \in SNodes :
       Serves(s) /\ sends[s].state \in Ended =>
         s \in stored \cup rejected \/ failures[s] = RetryCount + 1
  /\ publication = "failed" => \E shard \in AffectedShards :
       ~\E s \in SNodes : s \notin disturbed /\ shard \in chain.shards[s]

\* A publication that does not fail puts the block into the queue, and its
\* sends and retries end (publishFinalizedBlock, allSettled).
PublicationEnds ==
  publication = "sending" ~>
    publication = "queued" /\ \A n \in Nodes : sends[n].state \in Ended
=============================================================================
