--------------------------- MODULE BlockAssembly ---------------------------
(***************************************************************************)
(* The mempool of one validator and the life of the blocks it assembles    *)
(* (src/src/services/messaging/validatorNode.ts).                          *)
(*                                                                         *)
(* Node.js runs one piece of code at a time, and switches only at an       *)
(* await.  An action is therefore the code between two awaits that touch   *)
(* shared state:                                                           *)
(*                                                                         *)
(*   sendTransaction     limits and validator token | await checkTx | push *)
(*   batchProcessBlock   splice, token, signature   | await round 1        *)
(*                       collect patches, round 2   | await round 2        *)
(*                       validate the final block   | await publish        *)
(*                                                                         *)
(* Nothing serialises the calls: several sendTransaction calls can wait in *)
(* checkTx, and the timer starts a batchProcessBlock every 300 ms whether  *)
(* the one before has ended or not.                                        *)
(***************************************************************************)
EXTENDS Naturals, FiniteSets, Sequences, SequencesExt

CONSTANTS
  \* Calls of push_sendTransaction; a client that retries makes another call.
  Calls,
  \* Serialised length of the transaction each call carries.
  Size,
  \* BlockUtil.MAX_TRANSACTIONS_PER_BLOCK
  MaxTxs,
  \* BlockUtil.MAX_TOTAL_TRANSACTION_SIZE_BYTES
  MaxBytes,
  \* Bound of the model: how often the process may crash and restart.
  MaxCrashes

ASSUME ConstantsAssumption ==
  /\ Size \in [Calls -> Nat \ {0}]
  /\ MaxTxs \in Nat \ {0}
  /\ MaxBytes \in Nat \ {0}
  /\ MaxCrashes \in Nat

VARIABLES
  \* How far each call of sendTransaction has come.
  call,
  \* The field currentBlockTxs: transactions waiting for the next block.
  currentBlockTxs,
  \* The field totalTransactionBytes, the watermark of the waiting bytes.
  totalTransactionBytes,
  \* Every batch of transactions that left currentBlockTxs, oldest first: one
  \* running or finished batchProcessBlock each, or what a crash wiped out.
  blocks,
  \* History: the calls in the order sendTransaction accepted them.
  accepted,
  \* Number of crashes so far.
  crashes

vars == <<call, currentBlockTxs, totalTransactionBytes, blocks, accepted, crashes>>

CallState == {"idle", "checking", "accepted", "rejected", "aborted"}
BlockState == {"round1", "round2", "publishing", "published", "dropped"}
InFlight == {"round1", "round2", "publishing"}

TxBytes(txs) == FoldLeft(LAMBDA sum, c : sum + Size[c], 0, txs)

-----------------------------------------------------------------------------
(* The limits.  The validator compares what it already holds, before the   *)
(* new transaction; the attestors compare the block that results.          *)

BlockIsFull ==
  \/ Len(currentBlockTxs) >= MaxTxs
  \/ totalTransactionBytes >= MaxBytes

\* Mutant: the attestors forget the checks of count and size.
MutNoAttestorLimits(txs) == txs # <<>>

\* The count and size checks of checkBlockAsAttestor.
WithinAttestorLimits(txs) ==
  /\ Len(txs) < MaxTxs
  /\ TxBytes(txs) <= MaxBytes

Init ==
  /\ call = [c \in Calls |-> "idle"]
  /\ currentBlockTxs = <<>>
  /\ totalTransactionBytes = 0
  /\ blocks = <<>>
  /\ accepted = <<>>
  /\ crashes = 0

(* sendTransaction up to its await.  A full block is refused outright; a   *)
(* transaction that does not parse or whose validator token names another  *)
(* node is refused too; the rest wait for checkTx.                         *)
SendTransaction(c) ==
  /\ call[c] = "idle"
  /\ \/ call' = [call EXCEPT ![c] = "rejected"]
     \/ /\ ~BlockIsFull
        /\ call' = [call EXCEPT ![c] = "checking"]
  /\ UNCHANGED <<currentBlockTxs, totalTransactionBytes, blocks, accepted, crashes>>

\* checkTx found the transaction invalid.
CheckTxFails(c) ==
  /\ call[c] = "checking"
  /\ call' = [call EXCEPT ![c] = "rejected"]
  /\ UNCHANGED <<currentBlockTxs, totalTransactionBytes, blocks, accepted, crashes>>

(* checkTx succeeded: the transaction is appended and its size added.  The *)
(* limits are not compared again after the await.                          *)
AppendTransaction(c) ==
  /\ call[c] = "checking"
  /\ call' = [call EXCEPT ![c] = "accepted"]
  /\ currentBlockTxs' = Append(currentBlockTxs, c)
  /\ totalTransactionBytes' = totalTransactionBytes + Size[c]
  /\ accepted' = Append(accepted, c)
  /\ UNCHANGED <<blocks, crashes>>

-----------------------------------------------------------------------------
(* The block is built from a copy of the waiting transactions.  Creating   *)
(* the attest token throws when the network random is not synced or too    *)
(* small: the transactions are out of the mempool and go nowhere.          *)
TakeBlock ==
  /\ \E state \in {"round1", "dropped"} :
       blocks' = Append(blocks, [txs |-> currentBlockTxs, state |-> state])
  /\ UNCHANGED <<call, accepted, crashes>>

(* Mutants of batchProcessBlock: the emptiness check left out; slice(0) in *)
(* place of splice(0); the watermark not reset; a block only from two      *)
(* transactions up.                                                        *)
MutNoEmptyCheck ==
  /\ Len(blocks) < Cardinality(Calls)
  /\ currentBlockTxs' = <<>>
  /\ totalTransactionBytes' = 0
  /\ TakeBlock

MutSlice ==
  /\ currentBlockTxs # <<>>
  /\ Len(blocks) < Cardinality(Calls)
  /\ totalTransactionBytes' = 0
  /\ TakeBlock
  /\ UNCHANGED currentBlockTxs

MutWaitForTwo ==
  /\ Len(currentBlockTxs) >= 2
  /\ currentBlockTxs' = <<>>
  /\ totalTransactionBytes' = 0
  /\ TakeBlock

(* batchProcessBlock up to its first await on the network: splice(0), the  *)
(* reset of the watermark and the new block come in one piece.             *)
BatchProcessBlock ==
  /\ currentBlockTxs # <<>>
  /\ currentBlockTxs' = <<>>
  /\ totalTransactionBytes' = 0
  /\ TakeBlock

SetState(i, state) ==
  /\ blocks' = [blocks EXCEPT ![i].state = state]
  /\ UNCHANGED <<call, currentBlockTxs, totalTransactionBytes, accepted, crashes>>

\* All attestors returned a patch: every one applied its limits to the block.
CollectPatches(i) ==
  /\ blocks[i].state = "round1"
  /\ WithinAttestorLimits(blocks[i].txs)
  /\ SetState(i, "round2")

\* All attestors accepted the signatures, and the validator's own check of
\* the finalized block, which repeats the attestors' limits, succeeds.
CollectSignatures(i) ==
  /\ blocks[i].state = "round2"
  /\ WithinAttestorLimits(blocks[i].txs)
  /\ SetState(i, "publishing")

\* publishFinalizedBlock: the sends have settled and the queue insert returned.
PublishFinalizedBlock(i) ==
  /\ blocks[i].state = "publishing"
  /\ SetState(i, "published")

\* Mutant: an error after publishing drops the block as well.
MutDropPublished(i) ==
  /\ blocks[i].state # "dropped"
  /\ SetState(i, "dropped")

\* Any check or attestor fails, or publishing throws: batchProcessBlock
\* throws, the timer logs it, and nothing puts the transactions back.
DropBlock(i) ==
  /\ blocks[i].state \in InFlight
  /\ SetState(i, "dropped")

\* The blocks after a crash: no batchProcessBlock is left running.
EndedBlocks ==
  [i \in DOMAIN blocks |->
    IF blocks[i].state \in InFlight
      THEN [txs |-> blocks[i].txs, state |-> "dropped"]
      ELSE blocks[i]]

(* The process dies and starts again: the fields and the running calls are *)
(* memory only.  A call in checkTx ends with a broken connection.          *)
Crash ==
  /\ crashes < MaxCrashes
  /\ crashes' = crashes + 1
  /\ call' = [c \in Calls |-> IF call[c] = "checking" THEN "aborted" ELSE call[c]]
  /\ currentBlockTxs' = <<>>
  /\ totalTransactionBytes' = 0
  /\ blocks' = IF currentBlockTxs = <<>>
                 THEN EndedBlocks
                 ELSE Append(EndedBlocks, [txs |-> currentBlockTxs, state |-> "dropped"])
  /\ UNCHANGED accepted

BlockStep(i) ==
  \/ CollectPatches(i)
  \/ CollectSignatures(i)
  \/ PublishFinalizedBlock(i)
  \/ DropBlock(i)

Next ==
  \/ \E c \in Calls : SendTransaction(c) \/ CheckTxFails(c) \/ AppendTransaction(c)
  \/ BatchProcessBlock
  \/ \E i \in DOMAIN blocks : BlockStep(i)
  \/ Crash

Spec == Init /\ [][Next]_vars

(* The timer keeps firing, checkTx returns, RPC calls have a timeout and   *)
(* the database answers: every step that can be taken is taken in the end. *)
(* There are never more blocks than calls.                                 *)
Fairness ==
  /\ WF_vars(BatchProcessBlock)
  /\ \A c \in Calls : WF_vars(CheckTxFails(c) \/ AppendTransaction(c))
  /\ \A i \in 1..Cardinality(Calls) : WF_vars(i \in DOMAIN blocks /\ BlockStep(i))

FairSpec == Spec /\ Fairness

-----------------------------------------------------------------------------
\* Types of the variables; blocks are never empty.
TypeOK ==
  /\ call \in [Calls -> CallState]
  /\ currentBlockTxs \in Seq(Calls)
  /\ totalTransactionBytes \in Nat
  /\ blocks \in Seq([txs : Seq(Calls) \ {<<>>}, state : BlockState])
  /\ accepted \in Seq(Calls)
  /\ crashes \in 0..MaxCrashes

(* sendTransaction appends each call once and answers with a hash exactly  *)
(* when it has done so.                                                    *)
AcceptedOnce ==
  /\ \A i, j \in DOMAIN accepted : accepted[i] = accepted[j] => i = j
  /\ \A c \in Calls : call[c] = "accepted" <=> \E i \in DOMAIN accepted : accepted[i] = c

\* cut[i] is the number of accepted transactions the first i blocks hold.
IsPartition(cut) ==
  /\ cut[0] = 0
  /\ \A i \in DOMAIN blocks :
       /\ cut[i - 1] <= cut[i]
       /\ blocks[i].txs = SubSeq(accepted, cut[i - 1] + 1, cut[i])
  /\ currentBlockTxs = SubSeq(accepted, cut[Len(blocks)] + 1, Len(accepted))

(* However many batchProcessBlock calls overlap, and whatever arrives      *)
(* while they wait, the blocks and the mempool cut the accepted            *)
(* transactions into consecutive pieces: none is lost on the way out of    *)
(* currentBlockTxs, none is in two blocks, and they keep their order.      *)
ExactlyOnceInOrder ==
  /\ AcceptedOnce
  /\ \E cut \in [0..Len(blocks) -> 0..Len(accepted)] : IsPartition(cut)

(* sendTransaction lets the mempool grow past its limits; no block beyond  *)
(* them is ever published, because every attestor refuses it.              *)
PublishedWithinLimits ==
  \A i \in DOMAIN blocks :
    blocks[i].state = "published" =>
      /\ Len(blocks[i].txs) <= MaxTxs
      /\ TxBytes(blocks[i].txs) <= MaxBytes

(* A block only moves forward: the transactions it took stay as they are,  *)
(* and one that is published or dropped is never taken up again, not even  *)
(* by a restart.                                                           *)
BlocksAreFinal ==
  [][/\ Len(blocks) <= Len(blocks')
     /\ \A i \in DOMAIN blocks :
          /\ blocks'[i].txs = blocks[i].txs
          /\ blocks[i].state \notin InFlight => blocks'[i] = blocks[i]]_vars

\* The block that holds call c was published or dropped.
Settled(c) ==
  \E i \in DOMAIN blocks :
    /\ \E k \in DOMAIN blocks[i].txs : blocks[i].txs[k] = c
    /\ blocks[i].state \notin InFlight

(* Every transaction sendTransaction accepted leaves the mempool in a      *)
(* block, and that block ends, published or dropped; no call hangs.        *)
AcceptedTxSettles ==
  \A c \in Calls :
    /\ call[c] = "checking" ~> call[c] # "checking"
    /\ call[c] = "accepted" ~> Settled(c)

(* blockUtil.ts:38-39: "max total tx count / when reached block would stop *)
(* accepting transactions".  A block of at most the maximum count and size *)
(* should then be one the attestors take, but checkBlockAsAttestor refuses *)
(* the maximum count itself, and its transactions are dropped.             *)
FullBlockIsAttestable ==
  \A i \in DOMAIN blocks :
    /\ Len(blocks[i].txs) <= MaxTxs
    /\ TxBytes(blocks[i].txs) <= MaxBytes
    => WithinAttestorLimits(blocks[i].txs)
=============================================================================
