--------------------------- MODULE BlockSignatures ---------------------------
(***************************************************************************)
(* Over which bytes the signatures of a block are made and verified, from  *)
(* the transaction a client sends to the copies of the block that the      *)
(* proposer and its attestors publish (validatorNode.ts, blockUtil.ts).    *)
(*                                                                         *)
(* No signature covers the block that is published.  The client signs its  *)
(* transaction without the signature; the proposer signs the block before  *)
(* any attestation; an attestor signs that block with its own votes only.  *)
(* Each verifier has to take apart what it holds and write the signed      *)
(* bytes again, and the attestors put the final block together themselves. *)
(*                                                                         *)
(* Module Attestation has the failures of the two rounds and the choice of *)
(* the attestors; here every node is honest and the rounds of several      *)
(* blocks overlap.  A call that throws is recorded in "refused".           *)
(***************************************************************************)
EXTENDS WireFormat, Integers, FiniteSets

CONSTANTS
  Proposer,
  \* The attest vector: the nodes that have to sign, in order.
  Attestors,
  \* The bytes clients may send to push_sendTransaction.
  Requests,
  \* The address that is recovered from a signature over other bytes.
  Stranger,
  \* The attest token of a block.
  Token,
  \* Bounds of the model: transactions in a block, blocks produced.
  MaxTransactions, MaxBlocks

ASSUME BlockSignaturesAssumption ==
  /\ Attestors \in Seq(Range(Attestors))
  /\ Attestors # <<>>
  /\ \A raw \in Requests : raw \in Seq(Range(raw))
  /\ Proposer \notin Range(Attestors)
  /\ Stranger \notin {Proposer} \cup Range(Attestors)
  /\ MaxTransactions \in Nat \ {0}
  /\ MaxBlocks \in Nat \ {0}

VARIABLES
  \* The transactions waiting for the next block (currentBlockTxs).
  pool,
  \* How far batchProcessBlock has come with each block.
  stage,
  \* The proposer's block object.
  block,
  \* The bytes blockSignedByVBytes sent to the attestors in round 1.
  sent,
  \* The answers of round 1, as bytes.
  replies,
  \* The blocks in the Redis cache of each attestor, as bytes.
  cached,
  \* The AttestSignaturesRequest sent in round 2, as bytes.
  request,
  \* The answers of round 2, as bytes.
  answers,
  \* The bytes of the block each node publishes; node 0 is the proposer.
  copies,
  \* The calls, as block and attestor (0 for the proposer), that threw.
  refused

vars == <<pool, stage, block, sent, replies, cached, request, answers, copies, refused>>

Blocks == 1..MaxBlocks
Positions == DOMAIN Attestors
Validators == {Proposer} \cup Range(Attestors)
Accepted == 1
Rejected == 2
-----------------------------------------------------------------------------
(***************************************************************************)
(* Signatures and hashes: a signature tells who made it if the verifier    *)
(* has the same bytes, and a stranger otherwise; hashes do not collide.    *)
(***************************************************************************)
Sign(node, bytes) == [by |-> node, of |-> bytes]
RecoverAddress(bytes, sig) ==
  IF sig # Null /\ sig.of = bytes THEN sig.by ELSE Stranger
Hash(bytes) == <<"sha256", bytes>>

\* The text a wallet signs to be connected to a master key: no message.
ConnectAccountString(masterPubKey) == << <<0, masterPubKey>> >>

\* What a wallet of any chain signed; its address stands for its key.
CheckPushNetworkSignature(address, bytes, sig) == RecoverAddress(bytes, sig) = address

\* The master key signed the transaction, and its address is the sender.
CheckPushInitDidSignature(masterPubKey, bytes, sig) == RecoverAddress(bytes, sig) = masterPubKey
CheckPushInitDidSender(address, masterPubKey) == address = masterPubKey

\* Each wallet of the mapping signed that it belongs to the master key.
CheckPushInitDidWalletMapping(address, masterPubKey, sig) ==
  CheckPushNetworkSignature(address, ConnectAccountString(masterPubKey), sig)

CheckInitDid(tx, bytes) ==
  LET initDid == DeserializeInitDid(tx.data)
      masterKey == initDid.masterpubkey
      wallets == initDid.wallettoencderivedkey
  IN  /\ CheckPushInitDidSignature(masterKey, bytes, tx.signature)
      /\ CheckPushInitDidSender(tx.sender, masterKey)
      /\ \A wallet \in DOMAIN wallets :
           CheckPushInitDidWalletMapping(wallet, masterKey, wallets[wallet].signature)

\* The signature covers the transaction as this node writes it.
CheckTxSignature(tx) ==
  LET copy == DeserializeTransaction(SerializeTransaction(tx))
      bytes == SerializeTransaction([copy EXCEPT !.signature = Null])
  IN  /\ tx.signature # Null
      /\ \/ tx.category = "INIT_DID" /\ CheckInitDid(tx, bytes)
         \/ /\ tx.category # "INIT_DID"
            /\ CheckPushNetworkSignature(tx.sender, bytes, tx.signature)

\* The failures this function finds are not returned: it always succeeds.
CheckTxPayload(tx) == TRUE

CheckTx(tx) ==
  /\ tx.apitoken # Empty
  /\ tx.type = 0
  /\ tx.sender # Empty
  /\ tx.salt # Empty
  /\ CheckTxPayload(tx)
  /\ CheckTxSignature(tx)

\* A block with these attestations on its transactions.
WithAttestations(b, attestations) ==
  [b EXCEPT !.txobj = [k \in DOMAIN b.txobj |->
                        [b.txobj[k] EXCEPT !.attestordata = attestations[k]]]]

SignBlockAsValidator(b) ==
  LET vote == [vote |-> Accepted, didmapping |-> Null]
      voted == [b EXCEPT !.txobj = [k \in DOMAIN b.txobj |->
                 [tx |-> b.txobj[k].tx, validatordata |-> vote, attestordata |-> <<>>]]]
  IN  [voted EXCEPT !.signers = << [sig |-> Sign(Proposer, SerializeBlock(voted))] >>]

\* Mutant: the votes of the patch are not put into the block.
MutRecoverPatchAddress(b, patch) == RecoverAddress(SerializeBlock(b), patch.signer.sig)

\* The signer of a patch to a block that carries only the proposer's signature.
RecoverPatchAddress(b, patch) ==
  LET copy == DeserializeBlock(SerializeBlock(b))
      OnlyPatch == [k \in DOMAIN b.txobj |-> << patch.attestordata[k] >>]
  IN  RecoverAddress(SerializeBlock(WithAttestations(copy, OnlyPatch)), patch.signer.sig)

\* The votes on transaction k and the signatures of some patches.
VotesOn(k, patches) == [j \in DOMAIN patches |-> patches[j].attestordata[k]]
SignersOf(patches) == [j \in DOMAIN patches |-> patches[j].signer]

\* Mutant: new signatures are put in front of the earlier attestors'.
MutAppendPatches(b, patches) ==
  LET Votes == [k \in DOMAIN b.txobj |-> b.txobj[k].attestordata \o VotesOn(k, patches)]
  IN  [WithAttestations(b, Votes) EXCEPT !.signers = @ \o Reverse(SignersOf(patches))]

\* appendPatchAsValidator, for one patch after the other.
AppendPatches(b, patches) ==
  LET Votes == [k \in DOMAIN b.txobj |-> b.txobj[k].attestordata \o VotesOn(k, patches)]
  IN  [WithAttestations(b, Votes) EXCEPT !.signers = @ \o SignersOf(patches)]

\* Signer 0 is the proposer; signer i made attestation i - 1 of each transaction.
RecoverSignerAddress(b, i) ==
  LET copy == DeserializeBlock(SerializeBlock(b))
      None == [k \in DOMAIN b.txobj |-> <<>>]
      OnlyOne == [k \in DOMAIN b.txobj |-> << b.txobj[k].attestordata[i] >>]
      signed == IF i = 0
                THEN [WithAttestations(copy, None) EXCEPT !.signers = <<>>]
                ELSE [WithAttestations(copy, OnlyOne) EXCEPT !.signers = << b.signers[1] >>]
  IN  RecoverAddress(SerializeBlock(signed), b.signers[i + 1].sig)

CheckBlockAsAttestor(b) ==
  /\ \A k \in DOMAIN b.txobj :
       /\ b.txobj[k].tx # Null
       /\ b.txobj[k].validatordata # Null
       /\ b.txobj[k].validatordata.vote = Accepted
       /\ CheckTx(b.txobj[k].tx)
  /\ b.signers # <<>>
  /\ \A k \in DOMAIN b.txobj : Len(b.txobj[k].attestordata) = Len(b.signers) - 1
  /\ RecoverSignerAddress(b, 0) \in Validators

CheckBlockFinalized(b) ==
  /\ CheckBlockAsAttestor(b)
  /\ Len(b.signers) = Len(Attestors) + 1
  /\ \A k \in DOMAIN b.txobj :
       \A i \in DOMAIN b.txobj[k].attestordata :
         b.txobj[k].attestordata[i].vote \in {Accepted, Rejected}
  /\ \A i \in 1..Len(b.signers) - 1 : RecoverSignerAddress(b, i) \in Validators

CheckBlockAsSNode(b) ==
  /\ Len(b.signers) = Len(Attestors) + 1
  /\ \A i \in 0..Len(b.signers) - 1 : RecoverSignerAddress(b, i) \in Validators
-----------------------------------------------------------------------------
Init ==
  /\ pool = <<>>
  /\ stage = [b \in Blocks |-> "waiting"]
  /\ block = [b \in Blocks |-> Null]
  /\ sent = [b \in Blocks |-> NoBytes]
  /\ replies = [b \in Blocks |-> [i \in Positions |-> NoBytes]]
  /\ cached = [i \in Positions |-> {}]
  /\ request = [b \in Blocks |-> NoBytes]
  /\ answers = [b \in Blocks |-> [i \in Positions |-> NoBytes]]
  /\ copies = [b \in Blocks |-> [i \in Positions \cup {0} |-> NoBytes]]
  /\ refused = {}

\* A call of attestor i fails; the proposer itself fails, which drops the block.
Throw(b, i) == refused' = refused \cup {<<b, i>>}
ThrowAndDrop(b) == Throw(b, 0) /\ stage' = [stage EXCEPT ![b] = "dropped"]

\* sendTransaction keeps the transaction it read, not the bytes it read it from.
SendTransaction(raw) ==
  LET tx == DeserializeTransaction(raw)
  IN  /\ Len(pool) < MaxTransactions
      /\ CheckTx(tx)
      /\ pool' = Append(pool, [tx |-> tx, validatordata |-> Null, attestordata |-> <<>>])
      /\ UNCHANGED <<stage, block, sent, replies, cached, request, answers, copies, refused>>

\* batchProcessBlock up to the calls of round 1; the block number is its time.
SendBlock(b) ==
  LET new == [ts |-> b, attesttoken |-> Token, txobj |-> pool, signers |-> <<>>]
      signed == SignBlockAsValidator(new)
      copy == DeserializeBlock(SerializeBlock(signed))
  IN  /\ stage[b] = "waiting"
      /\ \A earlier \in 1..b - 1 : stage[earlier] # "waiting"
      /\ pool # <<>>
      /\ pool' = <<>>
      /\ stage' = [stage EXCEPT ![b] = "round1"]
      /\ block' = [block EXCEPT ![b] = signed]
      /\ sent' = [sent EXCEPT ![b] = SerializeBlock(copy)]
      /\ UNCHANGED <<replies, cached, request, answers, copies, refused>>

AttestorVoteOnTransaction(txobj) == [vote |-> IF CheckTx(txobj.tx) THEN Accepted ELSE Rejected]

\* The result an attestor returns for a block: its votes and its signature.
Patch(i, b) ==
  LET votes == [k \in DOMAIN b.txobj |-> AttestorVoteOnTransaction(b.txobj[k])]
      OnlyMine == [k \in DOMAIN b.txobj |-> << votes[k] >>]
      bytes == SerializeBlock(WithAttestations(b, OnlyMine))
  IN  [attestordata |-> votes, signer |-> [sig |-> Sign(Attestors[i], bytes)]]

\* The call is carried out even when the proposer has given up meanwhile.
AttestBlock(b, i) ==
  LET received == DeserializeBlock(sent[b])
      unattested == /\ Len(received.signers) = 1
                    /\ \A k \in DOMAIN received.txobj : received.txobj[k].attestordata = <<>>
  IN  /\ sent[b] # NoBytes
      /\ replies[b][i] = NoBytes
      /\ <<b, i>> \notin refused
      /\ IF CheckBlockAsAttestor(received) /\ unattested
         THEN /\ cached' = [cached EXCEPT ![i] = @ \cup {sent[b]}]
              /\ replies' = [replies EXCEPT ![b][i] = SerializeAttestBlockResult(Patch(i, received))]
              /\ UNCHANGED refused
         ELSE Throw(b, i) /\ UNCHANGED <<cached, replies>>
      /\ UNCHANGED <<pool, stage, block, sent, request, answers, copies>>

\* The proposer assembles the block and sends the patches to all.  It takes any
\* signer: the check of the recovered address is not awaited.
SendPatches(b) ==
  LET patches == [i \in Positions |-> DeserializeAttestBlockResult(replies[b][i])]
      assembled == AppendPatches(block[b], patches)
      asr == [attestations |-> patches, initialblockhash |-> Hash(sent[b]),
              finalblockhash |-> Hash(SerializeBlock(assembled))]
  IN  /\ stage[b] = "round1"
      /\ \A i \in Positions : replies[b][i] # NoBytes
      /\ stage' = [stage EXCEPT ![b] = "round2"]
      /\ block' = [block EXCEPT ![b] = assembled]
      /\ request' = [request EXCEPT ![b] = SerializeAttestSignaturesRequest(asr)]
      /\ UNCHANGED <<pool, sent, replies, cached, answers, copies, refused>>

\* Mutant: an attestor applies the patches in another order.
MutAssembleBlock(original, patches) ==
  AppendPatches(original, Reverse(patches))

\* The block an attestor assembles from its cached copy and the patches.
AssembleBlock(original, patches) == AppendPatches(original, patches)

\* A hash that differs from the proposer's is logged, no more.
AttestSignatures(b, i) ==
  LET asr == DeserializeAttestSignaturesRequest(request[b])
      hits == {bytes \in cached[i] : Hash(bytes) = asr.initialblockhash}
      original == DeserializeBlock(CHOOSE bytes \in hits : TRUE)
      signers == {RecoverPatchAddress(original, asr.attestations[j]) :
                    j \in DOMAIN asr.attestations}
      assembled == AssembleBlock(original, asr.attestations)
      valid == /\ hits # {}
               /\ signers \subseteq Validators
               /\ Attestors[i] \in signers
               /\ CheckBlockFinalized(assembled)
      report == [nodeid |-> Empty, transactionhash |-> Empty, vote |-> 0,
                 dataforsc |-> "aa", datasigforsc |-> Empty]
  IN  /\ request[b] # NoBytes
      /\ answers[b][i] = NoBytes
      /\ <<b, i>> \notin refused
      /\ IF valid
         THEN /\ copies' = [copies EXCEPT ![b][i] = SerializeBlock(assembled)]
              /\ answers' = [answers EXCEPT ![b][i] =
                               SerializeAttestSignaturesResponse([attestations |-> <<report>>])]
              /\ UNCHANGED refused
         ELSE Throw(b, i) /\ UNCHANGED <<copies, answers>>
      /\ UNCHANGED <<pool, stage, block, sent, replies, cached, request>>

\* The proposer checks the block as a storage node would and publishes it.
PublishBlock(b) ==
  /\ stage[b] = "round2"
  /\ \A i \in Positions : answers[b][i] # NoBytes
  /\ IF CheckBlockFinalized(block[b]) /\ CheckBlockAsSNode(block[b])
     THEN /\ stage' = [stage EXCEPT ![b] = "published"]
          /\ copies' = [copies EXCEPT ![b][0] = SerializeBlock(block[b])]
          /\ UNCHANGED refused
     ELSE ThrowAndDrop(b) /\ UNCHANGED copies
  /\ UNCHANGED <<pool, block, sent, replies, cached, request, answers>>

\* A call of either round fails or times out: the block is dropped.
DropBlock(b) ==
  /\ stage[b] \in {"round1", "round2"}
  /\ stage' = [stage EXCEPT ![b] = "dropped"]
  /\ UNCHANGED <<pool, block, sent, replies, cached, request, answers, copies, refused>>

Next ==
  \/ \E raw \in Requests : SendTransaction(raw)
  \/ \E b \in Blocks :
       \/ SendBlock(b)
       \/ SendPatches(b)
       \/ PublishBlock(b)
       \/ DropBlock(b)
       \/ \E i \in Positions : AttestBlock(b, i) \/ AttestSignatures(b, i)

Spec == Init /\ [][Next]_vars
-----------------------------------------------------------------------------
(***************************************************************************)
(* TypeOK: the variables keep their types, and whatever a node sends or    *)
(* publishes reads back as the same message: writing what was read gives   *)
(* the same bytes, as blockUtil.ts relies on wherever it copies a block.   *)
(***************************************************************************)
Canonical(bytes, Serialize(_), Deserialize(_)) ==
  Serialize(Deserialize(bytes)) = bytes

TypeOK ==
  /\ Len(pool) <= MaxTransactions
  /\ \A k \in DOMAIN pool : pool[k].validatordata = Null /\ pool[k].attestordata = <<>>
  /\ stage \in [Blocks -> {"waiting", "round1", "round2", "published", "dropped"}]
  /\ refused \subseteq Blocks \X (Positions \cup {0})
  /\ \A b \in Blocks :
       /\ (block[b] = Null) <=> (stage[b] = "waiting")
       /\ Canonical(sent[b], SerializeBlock, DeserializeBlock)
       /\ Canonical(request[b], SerializeAttestSignaturesRequest,
                                 DeserializeAttestSignaturesRequest)
       /\ \A i \in Positions :
            /\ Canonical(replies[b][i], SerializeAttestBlockResult, DeserializeAttestBlockResult)
            /\ Canonical(answers[b][i], SerializeAttestSignaturesResponse,
                                        DeserializeAttestSignaturesResponse)
       /\ \A n \in Positions \cup {0} : Canonical(copies[b][n], SerializeBlock, DeserializeBlock)
  /\ \A i \in Positions : cached[i] \subseteq {sent[b] : b \in Blocks}

(***************************************************************************)
(* SignaturesVerify: in every copy of a block that a node publishes, the   *)
(* signature at each position is the one of the node the attest vector     *)
(* names there, the proposer's first, and every transaction is one its     *)
(* sender signed (recoverSignerAddress, checkTxSignature).  The checks of  *)
(* the code only ask whether each signer is some registered validator.     *)
(***************************************************************************)
SignaturesVerify ==
  \A b \in Blocks, n \in Positions \cup {0} :
    copies[b][n] # NoBytes =>
      LET copy == DeserializeBlock(copies[b][n])
      IN  /\ Len(copy.signers) = Len(Attestors) + 1
          /\ RecoverSignerAddress(copy, 0) = Proposer
          /\ \A i \in Positions : RecoverSignerAddress(copy, i) = Attestors[i]
          /\ \A k \in DOMAIN copy.txobj :
               /\ CheckTxSignature(copy.txobj[k].tx)
               /\ copy.txobj[k].tx \in {DeserializeTransaction(raw) : raw \in Requests}

(***************************************************************************)
(* CopiesAreIdentical: the proposer and the attestors publish the same     *)
(* bytes for a block, the ones whose hash the proposer announced in round  *)
(* 2 ("it should be bit-to-bit exact as on the validator side",            *)
(* validatorNode.ts:674).  The code logs a difference and goes on.         *)
(***************************************************************************)
CopiesAreIdentical ==
  \A b \in Blocks, n \in Positions \cup {0} :
    copies[b][n] # NoBytes =>
      Hash(copies[b][n]) = DeserializeAttestSignaturesRequest(request[b]).finalblockhash

(***************************************************************************)
(* NothingRefused: among honest nodes no check on signatures ever fails.   *)
(* What the proposer took from a client, every attestor accepts after it   *)
(* has been written and read again, whatever form the client sent it in;   *)
(* and every signature made is verified over the bytes it was made over.   *)
(***************************************************************************)
NothingRefused == refused = {}

(***************************************************************************)
(* PayloadsAreChecked: a transaction that waits for a block is of a        *)
(* supported category and carries the keys of its category, as the errors  *)
(* of checkTxPayload say (blockUtil.ts:345-363).                           *)
(***************************************************************************)
PayloadsAreChecked ==
  \A k \in DOMAIN pool :
    LET tx == pool[k].tx
        initDid == DeserializeInitDid(tx.data)
    IN  \/ tx.category = "CUSTOM:CORE"
        \/ /\ tx.category = "INIT_DID"
           /\ initDid.masterpubkey # Empty
           /\ initDid.derivedpubkey # Empty
           /\ initDid.wallettoencderivedkey # <<>>
=============================================================================
