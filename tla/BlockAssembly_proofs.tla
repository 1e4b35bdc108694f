------------------------ MODULE BlockAssembly_proofs ------------------------
(***************************************************************************)
(* Proofs about BlockAssembly, for every set of calls and all limits.      *)
(***************************************************************************)
EXTENDS BlockAssembly, TLAPS, SequenceTheorems

\* A piece of a sequence that ends before its end does not change on Append.
LEMMA SubSeqOfAppend ==
  ASSUME NEW S, NEW s \in Seq(S), NEW c \in S,
         NEW m \in Nat \ {0}, NEW n \in 0..Len(s)
  PROVE  SubSeq(Append(s, c), m, n) = SubSeq(s, m, n)
BY SMT

\* The piece up to the end grows by the appended element.
LEMMA AppendToSubSeq ==
  ASSUME NEW S, NEW s \in Seq(S), NEW c \in S, NEW m \in 1..(Len(s) + 1)
  PROVE  SubSeq(Append(s, c), m, Len(s) + 1) = Append(SubSeq(s, m, Len(s)), c)
BY SMT

LEMMA EmptySubSeq ==
  ASSUME NEW S, NEW s \in Seq(S)
  PROVE  SubSeq(s, Len(s) + 1, Len(s)) = <<>>
BY SMT

\* The records that stand for blocks.
Block == [txs : Seq(Calls) \ {<<>>}, state : BlockState]

(* Whatever batchProcessBlock awaits, its next step moves one block to     *)
(* another state and changes nothing else; forward only within the limits. *)
LEMMA BlockStepMovesOne ==
  ASSUME blocks \in Seq(Block), NEW i \in DOMAIN blocks, BlockStep(i)
  PROVE  \E state \in BlockState :
           /\ blocks' = [blocks EXCEPT ![i] = [txs |-> blocks[i].txs, state |-> state]]
           /\ blocks[i].state \in InFlight
           /\ state # "dropped" => WithinAttestorLimits(blocks[i].txs)
                                  \/ blocks[i].state = "publishing"
           /\ UNCHANGED <<call, currentBlockTxs, totalTransactionBytes, accepted, crashes>>
<1>1. blocks[i] \in Block
  OBVIOUS
<1>2. ASSUME NEW state \in BlockState, SetState(i, state)
      PROVE  blocks' = [blocks EXCEPT ![i] = [txs |-> blocks[i].txs, state |-> state]]
  <2>1. [blocks[i] EXCEPT !.state = state] = [txs |-> blocks[i].txs, state |-> state]
    BY <1>1 DEF Block
  <2>2. QED
    BY <1>2, <2>1 DEF SetState
<1>3. CASE CollectPatches(i)
  BY <1>3, <1>2 DEF CollectPatches, SetState, BlockState, InFlight
<1>4. CASE CollectSignatures(i)
  BY <1>4, <1>2 DEF CollectSignatures, SetState, BlockState, InFlight
<1>5. CASE PublishFinalizedBlock(i)
  BY <1>5, <1>2 DEF PublishFinalizedBlock, SetState, BlockState, InFlight
<1>6. CASE DropBlock(i)
  BY <1>6, <1>2 DEF DropBlock, SetState, BlockState, InFlight
<1>7. QED
  BY <1>3, <1>4, <1>5, <1>6 DEF BlockStep

LEMMA EndedBlocksType ==
  ASSUME blocks \in Seq(Block)
  PROVE  /\ EndedBlocks \in Seq(Block)
         /\ Len(EndedBlocks) = Len(blocks)
         /\ DOMAIN EndedBlocks = DOMAIN blocks
<1>1. ASSUME NEW i \in 1..Len(blocks)
      PROVE  (IF blocks[i].state \in InFlight
                THEN [txs |-> blocks[i].txs, state |-> "dropped"]
                ELSE blocks[i]) \in Block
  <2>1. blocks[i] \in Block
    BY <1>1
  <2>2. QED
    BY <2>1 DEF Block, BlockState
<1>2. EndedBlocks \in [1..Len(blocks) -> Block]
  BY <1>1 DEF EndedBlocks
<1>3. Len(blocks) \in Nat
  OBVIOUS
<1>4. EndedBlocks \in Seq(Block)
  <2>1. EndedBlocks \in UNION {[1..n -> Block] : n \in Nat}
    BY <1>2, <1>3, Zenon
  <2>2. QED
    BY <2>1, SeqDef, Zenon
<1>5. QED
  BY <1>2, <1>3, <1>4

\* All variables keep to their types.
THEOREM TypeCorrect == Spec => []TypeOK
<1>1. Init => TypeOK
  BY ConstantsAssumption, SMT DEF Init, TypeOK, CallState
<1>2. TypeOK /\ [Next]_vars => TypeOK'
  <2> SUFFICES ASSUME TypeOK, [Next]_vars PROVE TypeOK'
    OBVIOUS
  <2> USE ConstantsAssumption DEF TypeOK, CallState
  <2> blocks \in Seq(Block)
    BY DEF Block
  <2>1. ASSUME NEW c \in Calls, SendTransaction(c) PROVE TypeOK'
    BY <2>1 DEF SendTransaction
  <2>2. ASSUME NEW c \in Calls, CheckTxFails(c) PROVE TypeOK'
    BY <2>2 DEF CheckTxFails
  <2>3. ASSUME NEW c \in Calls, AppendTransaction(c) PROVE TypeOK'
    BY <2>3 DEF AppendTransaction
  <2>4. CASE BatchProcessBlock
    <3>1. PICK state \in {"round1", "dropped"} :
            blocks' = Append(blocks, [txs |-> currentBlockTxs, state |-> state])
      BY <2>4 DEF BatchProcessBlock, TakeBlock
    <3>2. [txs |-> currentBlockTxs, state |-> state] \in Block
      BY <2>4 DEF BatchProcessBlock, Block, BlockState
    <3>3. blocks' \in Seq(Block)
      BY <3>1, <3>2
    <3>4. QED
      BY <2>4, <3>3 DEF BatchProcessBlock, TakeBlock, Block
  <2>5. ASSUME NEW i \in DOMAIN blocks, BlockStep(i) PROVE TypeOK'
    <3>1. PICK state \in BlockState :
            /\ blocks' = [blocks EXCEPT ![i] = [txs |-> blocks[i].txs, state |-> state]]
            /\ UNCHANGED <<call, currentBlockTxs, totalTransactionBytes, accepted, crashes>>
      BY <2>5, BlockStepMovesOne
    <3>2. [txs |-> blocks[i].txs, state |-> state] \in Block
      <4>1. blocks[i] \in Block
        OBVIOUS
      <4>2. QED
        BY <4>1 DEF Block
    <3>3. blocks' \in Seq(Block)
      <4> DEFINE moved == [txs |-> blocks[i].txs, state |-> state]
      <4>1. blocks \in Seq(Block) /\ i \in 1..Len(blocks) /\ moved \in Block
        BY <3>2
      <4>2. blocks' = [blocks EXCEPT ![i] = moved]
        BY <3>1
      <4> HIDE DEF moved
      <4>3. QED
        BY <4>1, <4>2, ExceptSeq
    <3>4. QED
      BY <3>1, <3>3 DEF Block
  <2>6. CASE Crash
    <3>1. blocks' \in Seq(Block)
      <4>1. EndedBlocks \in Seq(Block)
        BY EndedBlocksType
      <4>2. currentBlockTxs # <<>> =>
              [txs |-> currentBlockTxs, state |-> "dropped"] \in Block
        BY DEF Block, BlockState
      <4>3. QED
        BY <2>6, <4>1, <4>2 DEF Crash
    <3>2. call' \in [Calls -> CallState]
      BY <2>6 DEF Crash
    <3>3. QED
      BY <2>6, <3>1, <3>2 DEF Crash, Block
  <2>7. CASE UNCHANGED vars
    BY <2>7 DEF vars
  <2>8. QED
    BY <2>1, <2>2, <2>3, <2>4, <2>5, <2>6, <2>7 DEF Next
<1>3. QED
  BY <1>1, <1>2, PTL DEF Spec

-----------------------------------------------------------------------------
(* The accepted transactions and the pieces they are cut into.             *)

LEMMA AcceptedOnceStep ==
  TypeOK /\ AcceptedOnce /\ [Next]_vars => AcceptedOnce'
<1> SUFFICES ASSUME TypeOK, AcceptedOnce, [Next]_vars PROVE AcceptedOnce'
  OBVIOUS
<1> USE DEF TypeOK, AcceptedOnce, CallState
<1>1. ASSUME NEW c \in Calls, SendTransaction(c) PROVE AcceptedOnce'
  BY <1>1 DEF SendTransaction
<1>2. ASSUME NEW c \in Calls, CheckTxFails(c) PROVE AcceptedOnce'
  BY <1>2 DEF CheckTxFails
<1>3. ASSUME NEW c \in Calls, AppendTransaction(c) PROVE AcceptedOnce'
  <2>1. \A i \in DOMAIN accepted : accepted[i] # c
    BY <1>3 DEF AppendTransaction
  <2>2. /\ DOMAIN accepted' = 1..(Len(accepted) + 1)
        /\ \A i \in DOMAIN accepted : accepted'[i] = accepted[i]
        /\ accepted'[Len(accepted) + 1] = c
    BY <1>3 DEF AppendTransaction
  <2>3. \A d \in Calls : call'[d] = IF d = c THEN "accepted" ELSE call[d]
    BY <1>3 DEF AppendTransaction
  <2> DOMAIN accepted = 1..Len(accepted) /\ Len(accepted) \in Nat
    OBVIOUS
  <2> HIDE DEF TypeOK
  <2>4. \A i, j \in DOMAIN accepted' : accepted'[i] = accepted'[j] => i = j
    BY <2>1, <2>2
  <2>5. ASSUME NEW d \in Calls
        PROVE  call'[d] = "accepted" <=> \E i \in DOMAIN accepted' : accepted'[i] = d
    <3>1. CASE d = c
      BY <2>2, <2>3, <3>1
    <3>2. CASE d # c
      BY <2>2, <2>3, <3>2
    <3>3. QED
      BY <3>1, <3>2
  <2>6. QED
    BY <2>4, <2>5
<1>4. CASE BatchProcessBlock
  BY <1>4 DEF BatchProcessBlock, TakeBlock
<1>5. ASSUME NEW i \in DOMAIN blocks, BlockStep(i) PROVE AcceptedOnce'
  BY <1>5 DEF BlockStep, CollectPatches, CollectSignatures, PublishFinalizedBlock,
              DropBlock, SetState
<1>6. CASE Crash
  BY <1>6 DEF Crash
<1>7. CASE UNCHANGED vars
  BY <1>7 DEF vars
<1>8. QED
  BY <1>1, <1>2, <1>3, <1>4, <1>5, <1>6, <1>7 DEF Next

\* The set of functions a cut is taken from.
Cuts == [0..Len(blocks) -> 0..Len(accepted)]

\* A new block that takes all of the mempool is the next piece.
LEMMA TakingAllKeepsPartition ==
  ASSUME TypeOK, NEW cut \in Cuts, IsPartition(cut),
         NEW old \in Seq(Block), Len(old) = Len(blocks),
         \A i \in 1..Len(blocks) : old[i].txs = blocks[i].txs,
         NEW state \in BlockState,
         blocks' = Append(old, [txs |-> currentBlockTxs, state |-> state]),
         currentBlockTxs' = <<>>, currentBlockTxs # <<>>,
         accepted' = accepted
  PROVE  \E next \in Cuts' : IsPartition(next)'
<1> PICK next : next = [i \in 0..(Len(blocks) + 1) |->
                          IF i <= Len(blocks) THEN cut[i] ELSE Len(accepted)]
  OBVIOUS
<1>1. /\ blocks \in Seq(Block)
      /\ Len(blocks) \in Nat
      /\ accepted \in Seq(Calls)
      /\ Len(accepted) \in Nat
      /\ [txs |-> currentBlockTxs, state |-> state] \in Block
  BY DEF TypeOK, Block
<1>2. /\ Len(blocks') = Len(blocks) + 1
      /\ \A i \in 1..Len(blocks) : blocks'[i].txs = blocks[i].txs
      /\ blocks'[Len(blocks) + 1].txs = currentBlockTxs
  BY <1>1
<1>3. next \in Cuts'
  BY <1>1, <1>2 DEF Cuts
<1>4. next[0] = 0
  BY <1>1 DEF IsPartition
<1>5. ASSUME NEW i \in DOMAIN blocks'
      PROVE  /\ next[i - 1] <= next[i]
             /\ blocks'[i].txs = SubSeq(accepted', next[i - 1] + 1, next[i])
  <2>1. DOMAIN blocks = 1..Len(blocks) /\ DOMAIN blocks' = 1..(Len(blocks) + 1)
    BY <1>1, <1>2
  <2>2. CASE i = Len(blocks) + 1
    <3>1. next[i - 1] = cut[Len(blocks)] /\ next[i] = Len(accepted)
      BY <1>1, <2>2
    <3>2. cut[Len(blocks)] \in 0..Len(accepted)
      BY <1>1 DEF Cuts
    <3>3. currentBlockTxs = SubSeq(accepted, cut[Len(blocks)] + 1, Len(accepted))
      BY DEF IsPartition
    <3>4. blocks'[i].txs = currentBlockTxs
      BY <1>2, <2>2
    <3>5. next[i - 1] <= next[i]
      BY <1>1, <3>1, <3>2
    <3>6. QED
      BY <3>1, <3>3, <3>4, <3>5
  <2>3. CASE i # Len(blocks) + 1
    <3>1. i \in 1..Len(blocks)
      BY <1>1, <2>1, <2>3
    <3>2. next[i - 1] = cut[i - 1] /\ next[i] = cut[i]
      BY <1>1, <3>1
    <3>3. /\ cut[i - 1] <= cut[i]
          /\ blocks[i].txs = SubSeq(accepted, cut[i - 1] + 1, cut[i])
      BY <2>1, <3>1 DEF IsPartition
    <3>4. QED
      BY <1>2, <3>1, <3>2, <3>3
  <2>4. QED
    BY <2>2, <2>3
<1>6. currentBlockTxs' = SubSeq(accepted', next[Len(blocks')] + 1, Len(accepted'))
  BY <1>1, <1>2, EmptySubSeq
<1>7. IsPartition(next)'
  BY <1>4, <1>5, <1>6 DEF IsPartition
<1>8. QED
  BY <1>3, <1>7

\* Nothing changes but the states of blocks, and an empty mempool may be reset.
LEMMA SamePiecesKeepPartition ==
  ASSUME TypeOK, NEW cut \in Cuts, IsPartition(cut),
         DOMAIN blocks' = DOMAIN blocks, Len(blocks') = Len(blocks),
         \A i \in DOMAIN blocks : blocks'[i].txs = blocks[i].txs,
         currentBlockTxs' = currentBlockTxs,
         accepted' = accepted
  PROVE  \E next \in Cuts' : IsPartition(next)'
<1>1. cut \in Cuts'
  BY DEF Cuts
<1>2. IsPartition(cut)'
  BY DEF IsPartition
<1>3. QED
  BY <1>1, <1>2

LEMMA PartitionStep ==
  ASSUME TypeOK, [Next]_vars, \E cut \in Cuts : IsPartition(cut)
  PROVE  \E next \in Cuts' : IsPartition(next)'
<1> PICK cut \in Cuts : IsPartition(cut)
  OBVIOUS
<1>1. /\ blocks \in Seq(Block)
      /\ DOMAIN blocks = 1..Len(blocks)
      /\ Len(blocks) \in Nat
      /\ accepted \in Seq(Calls)
      /\ Len(accepted) \in Nat
  BY DEF TypeOK, Block
<1>2. ASSUME NEW c \in Calls, SendTransaction(c) \/ CheckTxFails(c)
      PROVE  \E next \in Cuts' : IsPartition(next)'
  BY <1>2, SamePiecesKeepPartition DEF SendTransaction, CheckTxFails
<1>3. ASSUME NEW c \in Calls, AppendTransaction(c)
      PROVE  \E next \in Cuts' : IsPartition(next)'
  <2>1. /\ accepted' = Append(accepted, c)
        /\ currentBlockTxs' = Append(currentBlockTxs, c)
        /\ blocks' = blocks
    BY <1>3 DEF AppendTransaction
  <2>2. Len(accepted') = Len(accepted) + 1
    BY <1>1, <2>1
  <2>3. cut \in Cuts'
    BY <1>1, <2>1, <2>2 DEF Cuts
  <2>4. ASSUME NEW i \in DOMAIN blocks
        PROVE  SubSeq(accepted', cut[i - 1] + 1, cut[i])
                 = SubSeq(accepted, cut[i - 1] + 1, cut[i])
    <3> DEFINE first == cut[i - 1] + 1
               last == cut[i]
    <3>1. first \in Nat \ {0} /\ last \in 0..Len(accepted)
      BY <1>1 DEF Cuts
    <3>2. accepted \in Seq(Calls)
      BY <1>1
    <3> HIDE DEF first, last
    <3>3. SubSeq(Append(accepted, c), first, last) = SubSeq(accepted, first, last)
      BY <3>1, <3>2, SubSeqOfAppend
    <3>4. SubSeq(accepted', first, last) = SubSeq(accepted, first, last)
      BY <2>1, <3>3
    <3>5. QED
      BY <3>4 DEF first, last
  <2>5. currentBlockTxs' = SubSeq(accepted', cut[Len(blocks)] + 1, Len(accepted'))
    <3> DEFINE first == cut[Len(blocks)] + 1
    <3>1. first \in 1..(Len(accepted) + 1) /\ accepted \in Seq(Calls)
      <4>1. Len(blocks) \in 0..Len(blocks) /\ Len(accepted) \in Nat /\ accepted \in Seq(Calls)
        BY <1>1
      <4>2. cut[Len(blocks)] \in 0..Len(accepted)
        BY <4>1 DEF Cuts
      <4>3. QED
        BY <4>1, <4>2
    <3>2. currentBlockTxs = SubSeq(accepted, first, Len(accepted))
      BY DEF IsPartition
    <3> HIDE DEF first
    <3>3. SubSeq(Append(accepted, c), first, Len(accepted) + 1)
            = Append(SubSeq(accepted, first, Len(accepted)), c)
      BY <3>1, AppendToSubSeq
    <3>4. currentBlockTxs' = SubSeq(accepted', first, Len(accepted'))
      BY <2>1, <2>2, <3>2, <3>3
    <3>5. QED
      BY <3>4 DEF first
  <2>6. IsPartition(cut)'
    BY <2>1, <2>4, <2>5 DEF IsPartition
  <2>7. QED
    BY <2>3, <2>6
<1>4. CASE BatchProcessBlock
  <2>1. PICK state \in {"round1", "dropped"} :
          blocks' = Append(blocks, [txs |-> currentBlockTxs, state |-> state])
    BY <1>4 DEF BatchProcessBlock, TakeBlock
  <2>2. state \in BlockState
    BY DEF BlockState
  <2>3. QED
    BY <1>1, <1>4, <2>1, <2>2, TakingAllKeepsPartition DEF BatchProcessBlock, TakeBlock
<1>5. ASSUME NEW i \in DOMAIN blocks, BlockStep(i)
      PROVE  \E next \in Cuts' : IsPartition(next)'
  <2>1. PICK state \in BlockState :
          /\ blocks' = [blocks EXCEPT ![i] = [txs |-> blocks[i].txs, state |-> state]]
          /\ UNCHANGED <<currentBlockTxs, accepted>>
    BY <1>1, <1>5, BlockStepMovesOne
  <2>2. /\ DOMAIN blocks' = DOMAIN blocks
        /\ Len(blocks') = Len(blocks)
        /\ \A j \in DOMAIN blocks : blocks'[j].txs = blocks[j].txs
    BY <1>1, <2>1
  <2>3. QED
    BY <2>1, <2>2, SamePiecesKeepPartition
<1>6. CASE Crash
  <2>1. /\ EndedBlocks \in Seq(Block)
        /\ Len(EndedBlocks) = Len(blocks)
        /\ DOMAIN EndedBlocks = DOMAIN blocks
    BY <1>1, EndedBlocksType
  <2>2. \A i \in 1..Len(blocks) : EndedBlocks[i].txs = blocks[i].txs
    BY <1>1 DEF EndedBlocks
  <2>3. accepted' = accepted /\ currentBlockTxs' = <<>>
    BY <1>6 DEF Crash
  <2>4. CASE currentBlockTxs = <<>>
    <3>1. blocks' = EndedBlocks
      BY <1>6, <2>4 DEF Crash
    <3>2. QED
      BY <1>1, <2>1, <2>2, <2>3, <2>4, <3>1, SamePiecesKeepPartition
  <2>5. CASE currentBlockTxs # <<>>
    <3>1. blocks' = Append(EndedBlocks, [txs |-> currentBlockTxs, state |-> "dropped"])
      BY <1>6, <2>5 DEF Crash
    <3>2. "dropped" \in BlockState
      BY DEF BlockState
    <3>3. QED
      BY <2>1, <2>2, <2>3, <2>5, <3>1, <3>2, TakingAllKeepsPartition
  <2>6. QED
    BY <2>4, <2>5
<1>7. CASE UNCHANGED vars
  BY <1>7, SamePiecesKeepPartition DEF vars
<1>8. QED
  BY <1>2, <1>3, <1>4, <1>5, <1>6, <1>7 DEF Next

(* The blocks and the mempool cut the accepted transactions into pieces:   *)
(* overlapping calls of sendTransaction and batchProcessBlock neither lose *)
(* nor repeat nor reorder a transaction.                                   *)
THEOREM ExactlyOnce == Spec => []ExactlyOnceInOrder
<1>1. Init => ExactlyOnceInOrder
  <2> SUFFICES ASSUME Init PROVE ExactlyOnceInOrder
    OBVIOUS
  <2> DEFINE cut == [i \in 0..0 |-> 0]
  <2>1. AcceptedOnce
    BY DEF Init, AcceptedOnce
  <2>2. cut \in [0..Len(blocks) -> 0..Len(accepted)]
    BY DEF Init
  <2>3. IsPartition(cut)
    BY DEF Init, IsPartition
  <2>4. QED
    BY <2>1, <2>2, <2>3 DEF ExactlyOnceInOrder
<1>2. TypeOK /\ ExactlyOnceInOrder /\ [Next]_vars => ExactlyOnceInOrder'
  BY AcceptedOnceStep, PartitionStep DEF ExactlyOnceInOrder, Cuts
<1>3. QED
  BY <1>1, <1>2, TypeCorrect, PTL DEF Spec

-----------------------------------------------------------------------------
(* The limits of published blocks.  PublishedWithinLimits alone is not     *)
(* inductive: a block enters "published" from "publishing", so every state *)
(* after round 1 has to carry the fact.                                    *)
PastRound1 == {"round2", "publishing", "published"}

AttestedWithinLimits ==
  \A i \in DOMAIN blocks :
    blocks[i].state \in PastRound1 => WithinAttestorLimits(blocks[i].txs)

\* A block whose record is old, dropped or freshly taken carries the fact on.
LEMMA AttestedWithinLimitsStep ==
  TypeOK /\ AttestedWithinLimits /\ [Next]_vars => AttestedWithinLimits'
<1> SUFFICES ASSUME TypeOK, AttestedWithinLimits, [Next]_vars
             PROVE  AttestedWithinLimits'
  OBVIOUS
<1>1. /\ blocks \in Seq(Block)
      /\ DOMAIN blocks = 1..Len(blocks)
      /\ Len(blocks) \in Nat
  BY DEF TypeOK, Block
<1>2. ASSUME blocks' = blocks PROVE AttestedWithinLimits'
  BY <1>2 DEF AttestedWithinLimits, WithinAttestorLimits
<1>3. ASSUME NEW old \in Seq(Block), NEW block \in Block,
             DOMAIN old = DOMAIN blocks,
             \A i \in DOMAIN blocks : old[i].state \in PastRound1 =>
                                        WithinAttestorLimits(old[i].txs),
             block.state \notin PastRound1,
             blocks' = Append(old, block)
      PROVE  AttestedWithinLimits'
  <2>1. DOMAIN blocks' = 1..(Len(old) + 1) /\ DOMAIN old = 1..Len(old) /\ Len(old) \in Nat
    BY <1>3
  <2>2. /\ \A i \in DOMAIN old : blocks'[i] = old[i]
        /\ blocks'[Len(old) + 1] = block
    BY <1>3
  <2>3. \A i \in DOMAIN blocks' : i \in DOMAIN old \/ i = Len(old) + 1
    BY <2>1
  <2>4. QED
    BY <1>3, <2>2, <2>3 DEF AttestedWithinLimits, WithinAttestorLimits
<1>4. CASE BatchProcessBlock
  <2>1. PICK state \in {"round1", "dropped"} :
          blocks' = Append(blocks, [txs |-> currentBlockTxs, state |-> state])
    BY <1>4 DEF BatchProcessBlock, TakeBlock
  <2>2. [txs |-> currentBlockTxs, state |-> state] \in Block
    BY <1>4 DEF BatchProcessBlock, Block, BlockState, TypeOK
  <2>3. QED
    BY <1>1, <1>3, <2>1, <2>2 DEF AttestedWithinLimits, PastRound1
<1>5. ASSUME NEW i \in DOMAIN blocks, BlockStep(i) PROVE AttestedWithinLimits'
  <2>1. PICK state \in BlockState :
          /\ blocks' = [blocks EXCEPT ![i] = [txs |-> blocks[i].txs, state |-> state]]
          /\ state # "dropped" => WithinAttestorLimits(blocks[i].txs)
                                 \/ blocks[i].state = "publishing"
    BY <1>1, <1>5, BlockStepMovesOne
  <2>2. /\ DOMAIN blocks' = DOMAIN blocks
        /\ \A j \in DOMAIN blocks : j # i => blocks'[j] = blocks[j]
        /\ blocks'[i].txs = blocks[i].txs
        /\ blocks'[i].state = state
    BY <1>1, <2>1
  <2>3. QED
    BY <2>1, <2>2 DEF AttestedWithinLimits, PastRound1, WithinAttestorLimits
<1>6. CASE Crash
  <2>1. EndedBlocks \in Seq(Block) /\ DOMAIN EndedBlocks = DOMAIN blocks
    BY <1>1, EndedBlocksType
  <2>2. \A i \in DOMAIN blocks : EndedBlocks[i].state \in PastRound1 =>
                                   WithinAttestorLimits(EndedBlocks[i].txs)
    BY DEF EndedBlocks, AttestedWithinLimits, PastRound1, InFlight
  <2>3. CASE currentBlockTxs = <<>>
    <3>1. blocks' = EndedBlocks
      BY <1>6, <2>3 DEF Crash
    <3>2. QED
      BY <2>1, <2>2, <3>1 DEF AttestedWithinLimits, WithinAttestorLimits
  <2>4. CASE currentBlockTxs # <<>>
    <3>1. blocks' = Append(EndedBlocks, [txs |-> currentBlockTxs, state |-> "dropped"])
      BY <1>6, <2>4 DEF Crash
    <3>2. [txs |-> currentBlockTxs, state |-> "dropped"] \in Block
      BY <2>4 DEF Block, BlockState, TypeOK
    <3>3. QED
      BY <1>3, <2>1, <2>2, <3>1, <3>2 DEF PastRound1
  <2>5. QED
    BY <2>3, <2>4
<1>7. QED
  BY <1>2, <1>4, <1>5, <1>6
  DEF Next, vars, SendTransaction, CheckTxFails, AppendTransaction

(* No block beyond the limits is ever published, although sendTransaction  *)
(* lets the mempool grow past them.                                        *)
THEOREM LimitsOfPublished == Spec => []PublishedWithinLimits
<1>1. Init => AttestedWithinLimits
  BY DEF Init, AttestedWithinLimits
<1>2. AttestedWithinLimits /\ TypeOK => PublishedWithinLimits
  <2> SUFFICES ASSUME AttestedWithinLimits, TypeOK,
                      NEW i \in DOMAIN blocks, blocks[i].state = "published"
               PROVE  Len(blocks[i].txs) <= MaxTxs /\ TxBytes(blocks[i].txs) <= MaxBytes
    BY DEF PublishedWithinLimits
  <2>1. WithinAttestorLimits(blocks[i].txs)
    BY DEF AttestedWithinLimits, PastRound1
  <2>2. Len(blocks[i].txs) \in Nat
    BY DEF TypeOK
  <2>3. QED
    BY <2>1, <2>2, ConstantsAssumption DEF WithinAttestorLimits
<1>3. QED
  BY <1>1, <1>2, AttestedWithinLimitsStep, TypeCorrect, PTL DEF Spec

(* The transactions of a block never change, and a published or dropped    *)
(* block is never taken up again, not even after a crash.                  *)
THEOREM FinalBlocks == Spec => BlocksAreFinal
<1> DEFINE Keeps == /\ Len(blocks) <= Len(blocks')
                    /\ \A i \in DOMAIN blocks :
                         /\ blocks'[i].txs = blocks[i].txs
                         /\ blocks[i].state \notin InFlight => blocks'[i] = blocks[i]
<1>1. ASSUME TypeOK, [Next]_vars PROVE [Keeps]_vars
  <2>1. /\ blocks \in Seq(Block)
        /\ DOMAIN blocks = 1..Len(blocks)
        /\ Len(blocks) \in Nat
    BY <1>1 DEF TypeOK, Block
  <2>2. ASSUME blocks' = blocks PROVE Keeps
    BY <2>1, <2>2
  <2>3. ASSUME NEW block \in Block, NEW old \in Seq(Block), blocks' = Append(old, block),
               Len(old) = Len(blocks),
               \A i \in DOMAIN blocks :
                 /\ old[i].txs = blocks[i].txs
                 /\ blocks[i].state \notin InFlight => old[i] = blocks[i]
        PROVE  Keeps
    BY <2>1, <2>3
  <2>4. CASE BatchProcessBlock
    <3>1. PICK state \in {"round1", "dropped"} :
            blocks' = Append(blocks, [txs |-> currentBlockTxs, state |-> state])
      BY <2>4 DEF BatchProcessBlock, TakeBlock
    <3>2. [txs |-> currentBlockTxs, state |-> state] \in Block
      BY <1>1, <2>4 DEF BatchProcessBlock, Block, BlockState, TypeOK
    <3>3. QED
      BY <2>1, <2>3, <3>1, <3>2
  <2>5. ASSUME NEW i \in DOMAIN blocks, BlockStep(i) PROVE Keeps
    <3>1. PICK state \in BlockState :
            /\ blocks' = [blocks EXCEPT ![i] = [txs |-> blocks[i].txs, state |-> state]]
            /\ blocks[i].state \in InFlight
      BY <2>1, <2>5, BlockStepMovesOne
    <3>2. QED
      BY <2>1, <3>1
  <2>6. CASE Crash
    <3>1. EndedBlocks \in Seq(Block) /\ Len(EndedBlocks) = Len(blocks)
      BY <2>1, EndedBlocksType
    <3>2. \A i \in DOMAIN blocks :
            /\ EndedBlocks[i].txs = blocks[i].txs
            /\ blocks[i].state \notin InFlight => EndedBlocks[i] = blocks[i]
      BY DEF EndedBlocks
    <3>3. CASE currentBlockTxs = <<>>
      BY <2>1, <2>6, <3>1, <3>2, <3>3 DEF Crash
    <3>4. CASE currentBlockTxs # <<>>
      <4>1. blocks' = Append(EndedBlocks, [txs |-> currentBlockTxs, state |-> "dropped"])
        BY <2>6, <3>4 DEF Crash
      <4>2. [txs |-> currentBlockTxs, state |-> "dropped"] \in Block
        BY <1>1, <3>4 DEF Block, BlockState, TypeOK
      <4>3. QED
        BY <2>3, <3>1, <3>2, <4>1, <4>2
    <3>5. QED
      BY <3>3, <3>4
  <2>7. QED
    BY <1>1, <2>2, <2>4, <2>5, <2>6
    DEF Next, vars, SendTransaction, CheckTxFails, AppendTransaction
<1>2. QED
  BY <1>1, TypeCorrect, PTL DEF Spec, BlocksAreFinal
=============================================================================
