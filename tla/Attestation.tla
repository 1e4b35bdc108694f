---------------------------- MODULE Attestation ----------------------------
(***************************************************************************)
(* How one block collects its signatures: the two rounds of                *)
(* batchProcessBlock on the validator that assembled it, and attestBlock,  *)
(* attestSignatures and the delayed delivery on the nodes that attest it   *)
(* (src/src/services/messaging/validatorNode.ts).  Blocks share nothing    *)
(* but the views of the contract, so one block stands for all.             *)
(*                                                                         *)
(* Calls between nodes are HTTP requests that are sent once.  The caller   *)
(* gets the answer or, after a timeout, an error; an error says nothing    *)
(* of the request, which may still be carried out, much later.             *)
(*                                                                         *)
(* Every node reads the contract for itself, so two nodes may hold         *)
(* different numbers of required signatures and different nodes.           *)
(***************************************************************************)
EXTENDS Integers, FiniteSets, Sequences, SequencesExt, ValidationVector

CONSTANTS
  \* The validator nodes, registered or not.
  Validators,
  \* The validator whose block this is.
  Proposer,
  (* The successive states of the contract as far as the nodes read it:     *)
  (* valPerBlock, nodeRandomMinCount, the registered validators (the keys   *)
  (* of getValidatorNodesMap, banned ones included) and the enabled ones    *)
  (* (getActiveValidators).                                                 *)
  Configs,
  \* Bound of the model: how many nodes may crash.
  MaxCrashes

ASSUME AttestationAssumption ==
  /\ Proposer \in Validators
  /\ IsFiniteSet(Validators)
  /\ Configs \in Seq([valPerBlock : Nat, nodeRandomMinCount : Nat,
                      registered : SUBSET Validators, enabled : SUBSET Validators])
  /\ Configs # <<>>
  /\ MaxCrashes \in Nat

VARIABLES
  \* The state of the contract each node has read last.
  seen,
  \* How far batchProcessBlock has come.
  state,
  \* The nodes whose random values are in the attest token of the block.
  online,
  \* The field attestVector of the attest token: who has to sign, in order.
  vector,
  \* What the proposer knows of the calls of the present round.
  reply,
  \* How far attestBlock has come on each node.
  attest,
  \* The block in each node's Redis: with or without an expiry time, or gone.
  cache,
  \* The attestations of the AttestSignaturesRequest sent in round 2.
  asr,
  \* How far attestSignatures has come on each node.
  accept,
  \* The signers of the block each node's delayed delivery waits with; <<>>
  \* when none is scheduled.
  timer,
  \* The signers in the copy each node gave to publishFinalizedBlock.
  copy,
  \* The nodes that have crashed and restarted.
  crashed

vars == <<seen, state, online, vector, reply, attest, cache, asr, accept,
          timer, copy, crashed>>

ProposerState == {"new", "round1", "round2", "publishing", "published", "dropped"}
InFlight == {"round1", "round2", "publishing"}
ReplyState == {"none", "wait", "ok", "err"}
AttestState == {"idle", "sent", "stored", "signed", "failed"}
AcceptState == {"idle", "sent", "loaded", "accepted", "failed"}
CacheState == {"none", "kept", "expiring"}

Config(n) == Configs[seen[n]]

-----------------------------------------------------------------------------
(* Attest vectors.                                                         *)

\* Mutant: the vector is drawn from all registered nodes.
MutAllRegistered(n, nodes, skip) ==
  IF Cardinality(nodes) < Config(n).nodeRandomMinCount THEN {}
  ELSE PossibleVectors(Config(n).registered, Config(n).valPerBlock - 1, skip)

\* The vectors node n can draw from a token with the randoms of nodes: those
\* of unknown nodes are ignored, too few are an error.
DrawnVectors(n, nodes, skip) ==
  LET good == nodes \cap Config(n).registered
  IN  IF Cardinality(good) < Config(n).nodeRandomMinCount THEN {}
      ELSE PossibleVectors(good, Config(n).valPerBlock - 1, skip)

-----------------------------------------------------------------------------
(* The finalized block.                                                    *)

\* appendPatchAsValidator for every patch, on the proposer and, from the
\* request it gets, on each attestor: the signers of the block.
Assemble(patches) == <<Proposer>> \o patches

\* Mutant: any number of signatures will do.
MutNoSignatureCount(n, signers) ==
  ToSet(signers) \subseteq Config(n).registered

\* checkBlockFinalized as node n sees the contract.
BlockFinalized(n, signers) ==
  /\ Len(signers) = Config(n).valPerBlock
  /\ ToSet(signers) \subseteq Config(n).registered

-----------------------------------------------------------------------------
Init ==
  /\ seen = [n \in Validators |-> 1]
  /\ state = "new"
  /\ online = {}
  /\ vector = <<>>
  /\ reply = [n \in Validators |-> "none"]
  /\ attest = [n \in Validators |-> "idle"]
  /\ cache = [n \in Validators |-> "none"]
  /\ asr = <<>>
  /\ accept = [n \in Validators |-> "idle"]
  /\ timer = [n \in Validators |-> <<>>]
  /\ copy = [n \in Validators |-> <<>>]
  /\ crashed = {}

\* A contract event reaches node n: NodeAdded, NodeStatusChanged,
\* BlockParamsUpdated or RandomParamsUpdated.
ContractEvent(n) ==
  /\ seen[n] < Len(Configs)
  /\ seen' = [seen EXCEPT ![n] = @ + 1]
  /\ UNCHANGED <<state, online, vector, reply, attest, cache, asr, accept,
                 timer, copy, crashed>>

-----------------------------------------------------------------------------
(* The proposer.                                                           *)

\* The same call to every attestor of v.
CallAll(v) == [n \in Validators |-> IF n \in ToSet(v) THEN "wait" ELSE "none"]
SendAll(handlers, v) ==
  [n \in Validators |-> IF n \in ToSet(v) THEN "sent" ELSE handlers[n]]
NoCalls == [n \in Validators |-> "none"]

AllSettled == \A a \in ToSet(vector) : reply[a] # "wait"

\* Mutant: failed calls are logged and passed over.
MutPassOverErrors == AllSettled

AllSucceeded == \A a \in ToSet(vector) : reply[a] = "ok"

\* createAttestToken, the proposer's signature and the calls of round 1.
SendBlock ==
  /\ state = "new"
  /\ \E nodes \in SUBSET Config(Proposer).registered :
     \E v \in DrawnVectors(Proposer, nodes, Proposer) :
       /\ online' = nodes
       /\ vector' = v
       /\ reply' = CallAll(v)
       /\ attest' = SendAll(attest, v)
  /\ state' = "round1"
  /\ UNCHANGED <<seen, cache, asr, accept, timer, copy, crashed>>

\* createAttestToken throws: the network random is not synced or too small.
CannotDrawVector ==
  /\ state = "new"
  /\ state' = "dropped"
  /\ UNCHANGED <<seen, online, vector, reply, attest, cache, asr, accept,
                 timer, copy, crashed>>

\* The handler of the present round has succeeded on a.
HandledBy(a) ==
  \/ state = "round1" /\ attest[a] = "signed"
  \/ state = "round2" /\ accept[a] = "accepted"

ReceiveReply(a) ==
  /\ reply[a] = "wait"
  /\ HandledBy(a)
  /\ reply' = [reply EXCEPT ![a] = "ok"]
  /\ UNCHANGED <<seen, state, online, vector, attest, cache, asr, accept,
                 timer, copy, crashed>>

\* Mutant: no timeout; a call fails only when its handler throws.
MutNoTimeout(a) ==
  /\ reply[a] = "wait"
  /\ \/ state = "round1" /\ attest[a] = "failed"
     \/ state = "round2" /\ accept[a] = "failed"
  /\ reply' = [reply EXCEPT ![a] = "err"]
  /\ UNCHANGED <<seen, state, online, vector, attest, cache, asr, accept,
                 timer, copy, crashed>>

\* The call ends with an error: no connection, no answer in time, or the
\* handler threw.  The request may be lost, waiting, running or done.
CallFails(a) ==
  /\ reply[a] = "wait"
  /\ reply' = [reply EXCEPT ![a] = "err"]
  /\ UNCHANGED <<seen, state, online, vector, attest, cache, asr, accept,
                 timer, copy, crashed>>

\* Every attestor signed: round 2 sends all patches to all of them.
CollectPatches ==
  /\ state = "round1"
  /\ AllSucceeded
  /\ asr' = vector
  /\ reply' = CallAll(vector)
  /\ accept' = SendAll(accept, vector)
  /\ state' = "round2"
  /\ UNCHANGED <<seen, online, vector, attest, cache, timer, copy, crashed>>

\* One failed call is enough to throw, once all calls have ended.
AbandonBlock ==
  /\ state \in {"round1", "round2"}
  /\ AllSettled
  /\ ~AllSucceeded
  /\ state' = "dropped"
  /\ reply' = NoCalls
  /\ UNCHANGED <<seen, online, vector, attest, cache, asr, accept, timer,
                 copy, crashed>>

\* Mutant: the block is published while round 2 is still under way.
MutPublishEarly ==
  /\ state = "round2"
  /\ BlockFinalized(Proposer, Assemble(asr))
  /\ state' = "publishing"
  /\ copy' = [copy EXCEPT ![Proposer] = Assemble(asr)]
  /\ reply' = NoCalls
  /\ UNCHANGED <<seen, online, vector, attest, cache, asr, accept, timer, crashed>>

(* Every attestor accepted the signatures.  The proposer checks the block  *)
(* against what it knows of the contract now, and publishes it; the check  *)
(* fails also when the block has become too old.                           *)
CollectSignatures ==
  /\ state = "round2"
  /\ AllSucceeded
  /\ \/ /\ BlockFinalized(Proposer, Assemble(asr))
        /\ state' = "publishing"
        /\ copy' = [copy EXCEPT ![Proposer] = Assemble(asr)]
     \/ /\ state' = "dropped"
        /\ UNCHANGED copy
  /\ reply' = NoCalls
  /\ UNCHANGED <<seen, online, vector, attest, cache, asr, accept, timer, crashed>>

\* publishFinalizedBlock returns, or throws: no nodes for a shard, no database.
PublishFinalizedBlock ==
  /\ state = "publishing"
  /\ state' \in {"published", "dropped"}
  /\ UNCHANGED <<seen, online, vector, reply, attest, cache, asr, accept,
                 timer, copy, crashed>>

-----------------------------------------------------------------------------
(* The attestors.  A handler that throws leaves "failed".                  *)

(* attestBlock up to the first await of Redis: the proposer has to be      *)
(* enabled; limits, transactions and tokens are checked too.  Then the     *)
(* block is stored, as yet without an expiry time.                         *)
AttestBlock(a) ==
  /\ attest[a] = "sent"
  /\ \/ /\ Proposer \in Config(a).enabled
        /\ attest' = [attest EXCEPT ![a] = "stored"]
        /\ cache' = [cache EXCEPT ![a] = "kept"]
     \/ /\ attest' = [attest EXCEPT ![a] = "failed"]
        /\ UNCHANGED cache
  /\ UNCHANGED <<seen, state, online, vector, reply, asr, accept, timer, copy, crashed>>

\* The rest of attestBlock: the expiry time, the votes and the signature.
\* Redis may fail to set the expiry time.
SignBlock(a) ==
  /\ attest[a] = "stored"
  /\ \/ /\ cache' = [cache EXCEPT ![a] = "expiring"]
        /\ attest' = [attest EXCEPT ![a] = "signed"]
     \/ /\ attest' = [attest EXCEPT ![a] = "failed"]
        /\ UNCHANGED cache
  /\ UNCHANGED <<seen, state, online, vector, reply, asr, accept, timer, copy, crashed>>

\* MAX_BLOCK_ASSEMBLY_TIME_SECONDS have passed.
ExpireCache(a) ==
  /\ cache[a] = "expiring"
  /\ cache' = [cache EXCEPT ![a] = "none"]
  /\ UNCHANGED <<seen, state, online, vector, reply, attest, asr, accept,
                 timer, copy, crashed>>

\* attestSignatures up to its await of Redis: getCachedBlock.
GetCachedBlock(a) ==
  /\ accept[a] = "sent"
  /\ \/ /\ cache[a] # "none"
        /\ accept' = [accept EXCEPT ![a] = "loaded"]
     \/ accept' = [accept EXCEPT ![a] = "failed"]
  /\ UNCHANGED <<seen, state, online, vector, reply, attest, cache, asr,
                 timer, copy, crashed>>

(* checkAttestToken: the vector is drawn again, from this node's view of   *)
(* the contract, and skipping the first attestor in place of the proposer. *)
(* The comparison with the vector is always true; only a draw that fails   *)
(* refuses the signatures.                                                 *)
CheckAttestToken(a) ==
  Len(asr) > 1 => DrawnVectors(a, online, Head(asr)) # {}

(* The rest of attestSignatures: every attestation is of a registered      *)
(* node, one is this node's own, the token and the block that is put       *)
(* together here check out.  Its delivery is scheduled for 20 to 60        *)
(* seconds later, with this block.                                         *)
AttestSignatures(a) ==
  /\ accept[a] = "loaded"
  /\ \/ /\ a \in ToSet(asr)
        /\ ToSet(asr) \subseteq Config(a).registered
        /\ CheckAttestToken(a)
        /\ BlockFinalized(a, Assemble(asr))
        /\ accept' = [accept EXCEPT ![a] = "accepted"]
        /\ timer' = [timer EXCEPT ![a] = Assemble(asr)]
     \/ /\ accept' = [accept EXCEPT ![a] = "failed"]
        /\ UNCHANGED timer
  /\ UNCHANGED <<seen, state, online, vector, reply, attest, cache, asr, copy, crashed>>

\* The timer of the delayed delivery fires: publishFinalizedBlock.
DeliverBlock(a) ==
  /\ timer[a] # <<>>
  /\ timer' = [timer EXCEPT ![a] = <<>>]
  /\ copy' = [copy EXCEPT ![a] = timer[a]]
  /\ UNCHANGED <<seen, state, online, vector, reply, attest, cache, asr, accept, crashed>>

-----------------------------------------------------------------------------
(* Node n dies and starts again.  The running batchProcessBlock, running   *)
(* handlers and scheduled deliveries are memory only; Redis is not, and a  *)
(* request under way may still arrive.                                     *)
Crash(n) ==
  /\ Cardinality(crashed \cup {n}) <= MaxCrashes
  /\ crashed' = crashed \cup {n}
  /\ timer' = [timer EXCEPT ![n] = <<>>]
  /\ attest' = [attest EXCEPT ![n] = IF @ = "stored" THEN "failed" ELSE @]
  /\ accept' = [accept EXCEPT ![n] = IF @ = "loaded" THEN "failed" ELSE @]
  /\ IF n = Proposer /\ state \in InFlight
       THEN state' = "dropped" /\ reply' = NoCalls
       ELSE UNCHANGED <<state, reply>>
  /\ UNCHANGED <<seen, online, vector, cache, asr, copy>>

ProposerStep ==
  \/ SendBlock \/ CannotDrawVector
  \/ CollectPatches \/ AbandonBlock \/ CollectSignatures \/ PublishFinalizedBlock

AttestorStep(a) ==
  \/ AttestBlock(a) \/ SignBlock(a)
  \/ GetCachedBlock(a) \/ AttestSignatures(a) \/ DeliverBlock(a)

Next ==
  \/ ProposerStep
  \/ \E n \in Validators :
       \/ ReceiveReply(n) \/ CallFails(n)
       \/ AttestorStep(n)
       \/ ContractEvent(n) \/ ExpireCache(n) \/ Crash(n)

Spec == Init /\ [][Next]_vars

(* Code that runs goes on, calls have a timeout, timers fire and Redis     *)
(* drops what has expired.  Nothing makes contract events arrive, nodes    *)
(* crash, or a request that is under way reach its node.                   *)
Fairness ==
  /\ WF_vars(ProposerStep)
  /\ \A n \in Validators :
       /\ WF_vars(ReceiveReply(n) \/ CallFails(n))
       /\ WF_vars(SignBlock(n))
       /\ WF_vars(AttestSignatures(n))
       /\ WF_vars(DeliverBlock(n))
       /\ WF_vars(ExpireCache(n))

FairSpec == Spec /\ Fairness

-----------------------------------------------------------------------------
\* Types of the variables; a vector names only nodes of its token.
TypeOK ==
  /\ seen \in [Validators -> 1..Len(Configs)]
  /\ state \in ProposerState
  /\ online \in SUBSET Validators
  /\ vector \in Seq(online)
  /\ reply \in [Validators -> ReplyState]
  /\ attest \in [Validators -> AttestState]
  /\ cache \in [Validators -> CacheState]
  /\ asr \in Seq(Validators)
  /\ accept \in [Validators -> AcceptState]
  /\ timer \in [Validators -> Seq(Validators)]
  /\ copy \in [Validators -> Seq(Validators)]
  /\ crashed \in SUBSET Validators

(* A copy that is published, even a minute after the checks, carries as    *)
(* many signatures as the contract asked for at some time its publisher    *)
(* knows of, all of them by nodes registered then.                         *)
CopiesWereValid ==
  \A n \in Validators :
    copy[n] # <<>> =>
      \E i \in 1..seen[n] :
        /\ Len(copy[n]) = Configs[i].valPerBlock
        /\ ToSet(copy[n]) \subseteq Configs[i].registered

(* When the proposer publishes, every attestor has accepted the signatures *)
(* and has delivered its copy or is about to, unless it crashed: losing    *)
(* the proposer's copy does not lose the block.                            *)
PublishedIsBackedUp ==
  state \in {"publishing", "published"} =>
    \A a \in ToSet(vector) : timer[a] # <<>> \/ copy[a] # <<>> \/ a \in crashed

(* The rounds implement BlockCertificate: nobody publishes before all      *)
(* attestors of the vector have signed, and then only a node that signed,  *)
(* with the one list of signatures, whatever is lost, late or down.        *)
Signatures ==
  {n \in Validators : attest[n] = "signed" \/ (n = Proposer /\ vector # <<>>)}

Certificate == IF asr = <<>> THEN <<>> ELSE <<Proposer>> \o asr

Cert == INSTANCE BlockCertificate WITH
          signatures <- Signatures, certificate <- Certificate, delivered <- copy

ImplementsCertificate == Cert!Spec

(* A block that batchProcessBlock took up ends, published or dropped, and  *)
(* no delivery stays scheduled, whichever answers are lost.                *)
BlockSettles ==
  /\ state = "new" ~> state \in {"published", "dropped"}
  /\ \A a \in Validators : timer[a] # <<>> ~> timer[a] = <<>>
=============================================================================
