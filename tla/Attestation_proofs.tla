------------------------- MODULE Attestation_proofs -------------------------
(***************************************************************************)
(* Proofs about Attestation, for every set of validators, every history of *)
(* the contract and any number of crashes.                                 *)
(***************************************************************************)
EXTENDS Attestation, TLAPS, SequenceTheorems, FiniteSetTheorems, NaturalsInduction, WellFoundedInduction

ConfigType == [valPerBlock : Nat, nodeRandomMinCount : Nat,
               registered : SUBSET Validators, enabled : SUBSET Validators]

\* What a node has read of the contract is one of the states of the contract.
LEMMA ConfigOfView ==
  ASSUME NEW view \in [Validators -> 1..Len(Configs)], NEW n \in Validators
  PROVE  Configs[view[n]] \in ConfigType
<1>1. Configs \in Seq(ConfigType)
  BY AttestationAssumption DEF ConfigType
<1>2. view[n] \in 1..Len(Configs)
  OBVIOUS
<1> HIDE DEF ConfigType
<1>3. QED
  BY <1>1, <1>2, ElementOfSeq

\* A drawn vector is a nonempty sequence of the nodes it is drawn from.
LEMMA PossibleVectorsType ==
  ASSUME NEW nodes, IsFiniteSet(nodes), NEW required \in Int, NEW skip,
         NEW v \in PossibleVectors(nodes, required, skip)
  PROVE  v \in Seq(nodes) /\ v # <<>>
<1>1. Cardinality(nodes) \in Nat
  BY FS_CardinalityType
<1>2. PICK k \in Nat \ {0} : v \in [1..k -> nodes]
  <2>1. required \in 1..Cardinality(nodes)
    <3>1. required \in 1..MaxRequired /\ ~(required > Cardinality(nodes))
      BY DEF PossibleVectors
    <3>2. MaxRequired \in Nat
      BY DEF MaxRequired
    <3>3. QED
      BY <1>1, <3>1, <3>2
  <2>2. CASE Cardinality(nodes) = 1
    <3>1. v \in [1..1 -> nodes]
      BY <2>2 DEF PossibleVectors
    <3>2. QED
      BY <3>1
  <2>3. CASE Cardinality(nodes) # 1
    <3>1. v \in [1..required -> nodes \ {skip}]
      BY <2>1, <2>3 DEF PossibleVectors
    <3>2. required \in Nat \ {0}
      BY <1>1, <2>1
    <3>3. v \in [1..required -> nodes]
      BY <3>1
    <3>4. QED
      BY <3>2, <3>3
  <2>4. QED
    BY <2>2, <2>3
<1>3. v \in Seq(nodes) /\ Len(v) = k
  BY <1>2
<1>4. QED
  BY <1>2, <1>3

LEMMA DrawnVectorsType ==
  ASSUME seen \in [Validators -> 1..Len(Configs)], NEW n \in Validators,
         NEW nodes \in SUBSET Validators, NEW skip,
         NEW v \in DrawnVectors(n, nodes, skip)
  PROVE  v \in Seq(nodes) /\ v # <<>>
<1>1. PICK good \in SUBSET nodes :
        v \in PossibleVectors(good, Config(n).valPerBlock - 1, skip)
  BY DEF DrawnVectors
<1>2. IsFiniteSet(good)
  BY <1>1, AttestationAssumption, FS_Subset
<1>3. Config(n).valPerBlock - 1 \in Int
  BY ConfigOfView DEF Config, ConfigType
<1>4. v \in Seq(good) /\ v # <<>>
  BY <1>1, <1>2, <1>3, PossibleVectorsType
<1>5. QED
  BY <1>4

\* What the proposer's signature in front does to a list of attestors.
LEMMA FullList ==
  ASSUME NEW s \in Seq(Validators)
  PROVE  /\ <<Proposer>> \o s \in Seq(Validators)
         /\ <<Proposer>> \o s # <<>>
         /\ Head(<<Proposer>> \o s) = Proposer
         /\ ToSet(<<Proposer>> \o s) = {Proposer} \cup ToSet(s)
<1>1. <<Proposer>> \in Seq(Validators)
  BY AttestationAssumption
<1> DEFINE t == <<Proposer>> \o s
<1>2. /\ t \in Seq(Validators)
      /\ Len(t) = Len(s) + 1
      /\ t[1] = Proposer
      /\ \A i \in 1..Len(s) : t[i + 1] = s[i]
  BY <1>1
<1>3. ToSet(t) = {Proposer} \cup ToSet(s)
  <2>1. DOMAIN t = 1..(Len(s) + 1) /\ DOMAIN s = 1..Len(s) /\ Len(s) \in Nat
    BY <1>2
  <2>2. \A i \in DOMAIN t : i = 1 \/ (i - 1 \in DOMAIN s /\ t[i] = s[i - 1])
    BY <1>2, <2>1
  <2>3. \A i \in DOMAIN s : i + 1 \in DOMAIN t /\ t[i + 1] = s[i]
    BY <1>2, <2>1
  <2>4. 1 \in DOMAIN t
    BY <2>1
  <2> HIDE DEF t
  <2>5. ToSet(t) \subseteq {Proposer} \cup ToSet(s)
    BY <1>2, <2>2 DEF ToSet
  <2>6. {Proposer} \cup ToSet(s) \subseteq ToSet(t)
    BY <1>2, <2>3, <2>4 DEF ToSet
  <2>7. QED
    BY <2>5, <2>6
<1>4. QED
  BY <1>2, <1>3

LEMMA SeqOfItsElements ==
  ASSUME NEW S, NEW seq \in Seq(S), NEW T, ToSet(seq) \subseteq T
  PROVE  seq \in Seq(T)
BY DEF ToSet

(* The variables keep their types.                                         *)
THEOREM TypeCorrect == Spec => []TypeOK
<1>1. Init => TypeOK
  BY AttestationAssumption
  DEF Init, TypeOK, ProposerState, ReplyState, AttestState, CacheState, AcceptState
<1>2. ASSUME TypeOK, [Next]_vars PROVE TypeOK'
  <2> USE <1>2 DEF TypeOK, ReplyState, AttestState, CacheState, AcceptState, ProposerState
  <2>0. Proposer \in Validators
    BY AttestationAssumption
  <2>1. CASE SendBlock
    <3>0. PICK nodes \in SUBSET Config(Proposer).registered :
            \E v \in DrawnVectors(Proposer, nodes, Proposer) :
              /\ online' = nodes
              /\ vector' = v
              /\ reply' = CallAll(v)
              /\ attest' = SendAll(attest, v)
      BY <2>1 DEF SendBlock
    <3>1. PICK v \in DrawnVectors(Proposer, nodes, Proposer) :
            /\ online' = nodes
            /\ vector' = v
            /\ reply' = CallAll(v)
            /\ attest' = SendAll(attest, v)
      BY <3>0
    <3>2. nodes \in SUBSET Validators
      BY <2>0, <3>1, ConfigOfView DEF Config, ConfigType
    <3>3. v \in Seq(nodes)
      BY <2>0, <3>1, <3>2, DrawnVectorsType
    <3>4. QED
      BY <2>1, <3>1, <3>2, <3>3 DEF SendBlock, CallAll, SendAll
  <2>2. CASE CannotDrawVector
    BY <2>2 DEF CannotDrawVector
  <2>3. CASE CollectPatches
    <3>1. vector \in Seq(Validators)
      OBVIOUS
    <3>2. QED
      BY <2>3, <3>1 DEF CollectPatches, CallAll, SendAll
  <2>4. CASE AbandonBlock
    BY <2>4 DEF AbandonBlock, NoCalls
  <2>5. CASE CollectSignatures
    <3>1. Assemble(asr) \in Seq(Validators)
      BY FullList DEF Assemble
    <3>2. QED
      BY <2>0, <2>5, <3>1 DEF CollectSignatures, NoCalls
  <2>6. CASE PublishFinalizedBlock
    BY <2>6 DEF PublishFinalizedBlock
  <2>7. ASSUME NEW n \in Validators, ReceiveReply(n) \/ CallFails(n) PROVE TypeOK'
    BY <2>7 DEF ReceiveReply, CallFails
  <2>8. ASSUME NEW n \in Validators, AttestBlock(n) \/ SignBlock(n) \/ ExpireCache(n)
        PROVE  TypeOK'
    BY <2>8 DEF AttestBlock, SignBlock, ExpireCache
  <2>9. ASSUME NEW n \in Validators, GetCachedBlock(n) \/ AttestSignatures(n)
        PROVE  TypeOK'
    <3>1. Assemble(asr) \in Seq(Validators)
      BY FullList DEF Assemble
    <3>2. QED
      BY <2>9, <3>1 DEF GetCachedBlock, AttestSignatures
  <2>10. ASSUME NEW n \in Validators, DeliverBlock(n) PROVE TypeOK'
    BY <2>10 DEF DeliverBlock
  <2>11. ASSUME NEW n \in Validators, ContractEvent(n) PROVE TypeOK'
    <3>1. Len(Configs) \in Nat
      BY AttestationAssumption
    <3>2. QED
      BY <2>11, <3>1 DEF ContractEvent
  <2>12. ASSUME NEW n \in Validators, Crash(n) PROVE TypeOK'
    BY <2>12 DEF Crash, NoCalls, InFlight
  <2>13. CASE UNCHANGED vars
    BY <2>13 DEF vars
  <2>14. QED
    BY <2>1, <2>2, <2>3, <2>4, <2>5, <2>6, <2>7, <2>8, <2>9, <2>10, <2>11, <2>12, <2>13
    DEF Next, ProposerStep, AttestorStep
<1>3. QED
  BY <1>1, <1>2, PTL DEF Spec

-----------------------------------------------------------------------------
(* The invariant behind the safety properties.                             *)

\* Before round 2 there are no attestations to send, from round 2 on they
\* are those of the whole vector, and a call that succeeded was handled.
RoundsInv ==
  /\ state = "new" => vector = <<>> /\ \A n \in Validators : attest[n] = "idle"
  /\ state \in {"new", "round1"} => asr = <<>>
  /\ state = "round1" => vector # <<>>
  /\ state \in {"round2", "publishing", "published"} => asr = vector /\ asr # <<>>
  /\ \A n \in Validators :
       /\ state = "round1" /\ reply[n] = "ok" => attest[n] = "signed"
       /\ state = "round2" /\ reply[n] = "ok" => accept[n] = "accepted"
  /\ state \in {"publishing", "published"} =>
       \A n \in ToSet(vector) : accept[n] = "accepted"

\* The node has the block with the signatures that were sent in round 2.
Has(block) == block # <<>> => asr # <<>> /\ block = <<Proposer>> \o asr

\* Only nodes of the vector have a delivery scheduled, and every block that is
\* scheduled or published has the signatures that were sent in round 2.
CopiesInv ==
  \A n \in Validators :
    /\ timer[n] # <<>> => n \in ToSet(asr)
    /\ Has(timer[n])
    /\ Has(copy[n])

\* The signatures were right for a state of the contract that node n has read.
WasValidFor(n) ==
  \E i \in 1..seen[n] :
    /\ Len(<<Proposer>> \o asr) = Configs[i].valPerBlock
    /\ ToSet(<<Proposer>> \o asr) \subseteq Configs[i].registered

ValidInv ==
  \A n \in Validators : timer[n] # <<>> \/ copy[n] # <<>> => WasValidFor(n)

BackupInv ==
  \A n \in Validators :
    accept[n] = "accepted" => timer[n] # <<>> \/ copy[n] # <<>> \/ n \in crashed

LEMMA RoundsInvStep ==
  TypeOK /\ RoundsInv /\ [Next]_vars => RoundsInv'
<1> SUFFICES ASSUME TypeOK, RoundsInv, [Next]_vars PROVE RoundsInv'
  OBVIOUS
<1> USE DEF RoundsInv
<1>1. CASE SendBlock
  <2>1. PICK nodes \in SUBSET Config(Proposer).registered :
          \E v \in DrawnVectors(Proposer, nodes, Proposer) :
            vector' = v /\ reply' = CallAll(v)
    BY <1>1 DEF SendBlock
  <2>2. PICK v \in DrawnVectors(Proposer, nodes, Proposer) :
          vector' = v /\ reply' = CallAll(v)
    BY <2>1
  <2>3. nodes \in SUBSET Validators /\ Proposer \in Validators
    BY AttestationAssumption, ConfigOfView DEF TypeOK, Config, ConfigType
  <2>4. vector' # <<>>
    BY <2>2, <2>3, DrawnVectorsType DEF TypeOK
  <2>5. \A n \in Validators : reply'[n] # "ok"
    BY <2>2 DEF CallAll
  <2>6. QED
    BY <1>1, <2>4, <2>5 DEF SendBlock
<1>2. CASE CannotDrawVector
  BY <1>2 DEF CannotDrawVector
<1>3. CASE CollectPatches
  <2>1. \A n \in Validators : reply'[n] # "ok"
    BY <1>3 DEF CollectPatches, CallAll
  <2>2. QED
    BY <1>3, <2>1 DEF CollectPatches
<1>4. CASE AbandonBlock
  BY <1>4 DEF AbandonBlock
<1>5. CASE CollectSignatures
  <2>1. \A n \in ToSet(vector) : n \in Validators
    BY DEF TypeOK, ToSet
  <2>2. \A n \in ToSet(vector) : accept[n] = "accepted"
    BY <1>5, <2>1 DEF CollectSignatures, AllSucceeded
  <2>3. QED
    BY <1>5, <2>2 DEF CollectSignatures
<1>6. CASE PublishFinalizedBlock
  BY <1>6 DEF PublishFinalizedBlock
<1>7. ASSUME NEW n \in Validators, ReceiveReply(n) PROVE RoundsInv'
  BY <1>7 DEF ReceiveReply, HandledBy, TypeOK
<1>8. ASSUME NEW n \in Validators, CallFails(n) PROVE RoundsInv'
  BY <1>8 DEF CallFails, TypeOK
<1>9. ASSUME NEW n \in Validators, AttestBlock(n) \/ SignBlock(n) PROVE RoundsInv'
  <2>1. /\ attest[n] \in {"sent", "stored"}
        /\ \A m \in Validators : attest[m] = "signed" => attest'[m] = "signed"
        /\ UNCHANGED <<state, vector, reply, asr, accept>>
    BY <1>9 DEF AttestBlock, SignBlock, TypeOK
  <2>2. state # "new"
    BY <1>9, <2>1
  <2>3. QED
    BY <2>1, <2>2
<1>10. ASSUME NEW n \in Validators, GetCachedBlock(n) \/ AttestSignatures(n)
       PROVE  RoundsInv'
  <2>1. /\ \A m \in Validators : accept[m] = "accepted" => accept'[m] = "accepted"
        /\ UNCHANGED <<state, vector, reply, asr, attest>>
    BY <1>10 DEF GetCachedBlock, AttestSignatures, TypeOK
  <2>2. \A m \in ToSet(vector) : m \in Validators
    BY DEF TypeOK, ToSet
  <2>3. ToSet(vector)' = ToSet(vector)
    BY <2>1
  <2>4. QED
    BY <2>1, <2>2, <2>3
<1>11. ASSUME NEW n \in Validators,
              DeliverBlock(n) \/ ContractEvent(n) \/ ExpireCache(n)
       PROVE  RoundsInv'
  BY <1>11 DEF DeliverBlock, ContractEvent, ExpireCache
<1>12. ASSUME NEW n \in Validators, Crash(n) PROVE RoundsInv'
  <2>1. /\ \A m \in Validators : attest[m] \in {"idle", "signed"} => attest'[m] = attest[m]
        /\ \A m \in Validators : accept[m] = "accepted" => accept'[m] = "accepted"
        /\ UNCHANGED <<vector, asr>>
    BY <1>12 DEF Crash, TypeOK
  <2>2. ToSet(vector)' = ToSet(vector) /\ ToSet(vector) \subseteq Validators
    BY <2>1 DEF TypeOK, ToSet
  <2>3. CASE n = Proposer /\ state \in InFlight
    <3>1. state' = "dropped"
      BY <1>12, <2>3 DEF Crash
    <3>2. state # "new"
      BY <2>3 DEF InFlight
    <3> QED
      BY <3>1
  <2>4. CASE ~(n = Proposer /\ state \in InFlight)
    <3>1. UNCHANGED <<state, reply>>
      BY <1>12, <2>4 DEF Crash
    <3> QED
      BY <2>1, <2>2, <3>1
  <2> QED
    BY <2>3, <2>4
<1>13. CASE UNCHANGED vars
  BY <1>13 DEF vars
<1>14. QED
  BY <1>1, <1>2, <1>3, <1>4, <1>5, <1>6, <1>7, <1>8, <1>9, <1>10, <1>11, <1>12, <1>13
  DEF Next, ProposerStep, AttestorStep

LEMMA CopiesInvStep ==
  TypeOK /\ RoundsInv /\ CopiesInv /\ [Next]_vars => CopiesInv'
<1> SUFFICES ASSUME TypeOK, RoundsInv, CopiesInv, [Next]_vars PROVE CopiesInv'
  OBVIOUS
<1>1. ASSUME UNCHANGED asr,
             \A n \in Validators : timer'[n] # <<>> => n \in ToSet(asr) /\ Has(timer'[n]),
             \A n \in Validators : Has(copy'[n])
      PROVE  CopiesInv'
  BY <1>1 DEF CopiesInv, Has, ToSet
<1>2. ASSUME UNCHANGED <<timer, copy, asr>> PROVE CopiesInv'
  BY <1>1, <1>2 DEF CopiesInv
<1>3. CASE CollectPatches
  <2>1. asr = <<>> /\ UNCHANGED <<timer, copy>>
    BY <1>3 DEF CollectPatches, RoundsInv
  <2>2. \A n \in Validators : timer'[n] = <<>> /\ copy'[n] = <<>>
    BY <2>1 DEF CopiesInv, Has
  <2>3. QED
    BY <2>2 DEF CopiesInv, Has
<1>4. CASE CollectSignatures
  <2>1. asr # <<>> /\ UNCHANGED <<timer, asr>>
    BY <1>4 DEF CollectSignatures, RoundsInv
  <2>2. copy' = copy \/ copy' = [copy EXCEPT ![Proposer] = <<Proposer>> \o asr]
    BY <1>4 DEF CollectSignatures, Assemble
  <2>3. \A n \in Validators : Has(copy'[n])
    BY <2>1, <2>2 DEF CopiesInv, Has, TypeOK
  <2>4. QED
    BY <1>1, <2>1, <2>3 DEF CopiesInv
<1>5. ASSUME NEW n \in Validators, AttestSignatures(n) PROVE CopiesInv'
  <2>1. UNCHANGED <<asr, copy>>
    BY <1>5 DEF AttestSignatures
  <2>2. CASE UNCHANGED timer
    BY <1>2, <2>1, <2>2
  <2>3. CASE n \in ToSet(asr) /\ timer' = [timer EXCEPT ![n] = <<Proposer>> \o asr]
    <3>1. asr # <<>>
      BY <2>3 DEF ToSet
    <3>2. \A m \in Validators : timer'[m] # <<>> => m \in ToSet(asr) /\ Has(timer'[m])
      BY <2>3, <3>1 DEF CopiesInv, Has, TypeOK
    <3>3. QED
      BY <1>1, <2>1, <3>2 DEF CopiesInv
  <2>4. QED
    BY <1>5, <2>2, <2>3 DEF AttestSignatures, Assemble
<1>6. ASSUME NEW n \in Validators, DeliverBlock(n) PROVE CopiesInv'
  <2>1. /\ timer' = [timer EXCEPT ![n] = <<>>] /\ copy' = [copy EXCEPT ![n] = timer[n]]
        /\ UNCHANGED asr
    BY <1>6 DEF DeliverBlock
  <2>2. QED
    BY <1>1, <2>1 DEF CopiesInv, TypeOK
<1>7. ASSUME NEW n \in Validators, Crash(n) PROVE CopiesInv'
  <2>1. timer' = [timer EXCEPT ![n] = <<>>] /\ UNCHANGED <<asr, copy>>
    BY <1>7 DEF Crash
  <2>2. QED
    BY <1>1, <2>1 DEF CopiesInv, TypeOK
<1>8. QED
  BY <1>2, <1>3, <1>4, <1>5, <1>6, <1>7
  DEF Next, vars, ProposerStep, AttestorStep, SendBlock, CannotDrawVector,
      AbandonBlock, PublishFinalizedBlock, ReceiveReply, CallFails, AttestBlock,
      SignBlock, GetCachedBlock, ContractEvent, ExpireCache

LEMMA RoundsAndCopies == Spec => [](TypeOK /\ RoundsInv /\ CopiesInv)
<1>1. Init => RoundsInv /\ CopiesInv
  BY DEF Init, RoundsInv, CopiesInv, Has
<1>2. QED
  BY <1>1, TypeCorrect, RoundsInvStep, CopiesInvStep, PTL DEF Spec

-----------------------------------------------------------------------------
(* Each step of the rounds is a step of BlockCertificate or none.          *)
LEMMA StepImplementsCertificate ==
  TypeOK /\ RoundsInv /\ CopiesInv /\ TypeOK' /\ RoundsInv' /\ [Next]_vars
    => [Cert!Next]_(Cert!certVars)
<1> SUFFICES ASSUME TypeOK, RoundsInv, CopiesInv, TypeOK', RoundsInv', [Next]_vars
             PROVE  [Cert!Next]_(Cert!certVars)
  OBVIOUS
<1> DEFINE Stutter == /\ Signatures' = Signatures
                      /\ Certificate' = Certificate
                      /\ copy' = copy
<1>1. Proposer \in Validators
  BY AttestationAssumption
<1>2. Stutter => [Cert!Next]_(Cert!certVars)
  BY DEF Cert!certVars
<1>3. ASSUME UNCHANGED <<vector, asr, copy>>,
             \A n \in Validators : attest'[n] = "signed" <=> attest[n] = "signed"
      PROVE  Stutter
  BY <1>3 DEF Signatures, Certificate
<1>4. CASE SendBlock
  <2>1. vector = <<>> /\ vector' # <<>> /\ asr' = asr /\ copy' = copy
    BY <1>4 DEF SendBlock, RoundsInv
  <2>2. \A n \in Validators : attest[n] # "signed" /\ attest'[n] # "signed"
    BY <1>4 DEF SendBlock, SendAll, RoundsInv
  <2>3. Signatures' = Signatures \cup {Proposer}
    BY <1>1, <2>1, <2>2 DEF Signatures
  <2>4. Cert!Sign(Proposer)
    BY <2>1, <2>3 DEF Cert!Sign, Certificate
  <2>5. QED
    BY <1>1, <2>4 DEF Cert!Next
<1>5. CASE CollectPatches
  <2>1. /\ asr = <<>> /\ asr' = vector /\ vector # <<>>
        /\ UNCHANGED <<vector, attest, copy>>
    BY <1>5 DEF CollectPatches, RoundsInv
  <2>2. \A n \in ToSet(vector) : n \in Validators /\ attest[n] = "signed"
    BY <1>5 DEF CollectPatches, AllSucceeded, RoundsInv, TypeOK, ToSet
  <2>3. ToSet(vector) \cup {Proposer} \subseteq Signatures
    BY <1>1, <2>1, <2>2 DEF Signatures
  <2>4. Certificate = <<>> /\ Certificate' = <<Proposer>> \o vector
    BY <2>1 DEF Certificate
  <2>5. vector \in Seq(Validators)
    BY DEF TypeOK
  <2>6. /\ Certificate' \in Seq(Validators)
        /\ Certificate' # <<>>
        /\ Head(Certificate') = Proposer
        /\ ToSet(Certificate') \subseteq Signatures
    BY <2>3, <2>4, <2>5, FullList
  <2>7. Certificate' \in Seq(Signatures)
    BY <2>6, SeqOfItsElements
  <2>8. Signatures' = Signatures
    BY <2>1 DEF Signatures
  <2>9. Cert!Certify
    BY <2>1, <2>4, <2>6, <2>7, <2>8 DEF Cert!Certify
  <2>10. QED
    BY <2>9 DEF Cert!Next
<1>6. ASSUME NEW n \in Validators, asr # <<>>, n \in {Proposer} \cup ToSet(asr),
             copy' = [copy EXCEPT ![n] = <<Proposer>> \o asr],
             UNCHANGED <<vector, asr, attest>>
      PROVE  Cert!Next
  <2>1. Certificate = <<Proposer>> \o asr /\ Certificate' = Certificate
    BY <1>6 DEF Certificate
  <2>2. n \in ToSet(Certificate)
    BY <1>6, <2>1, FullList DEF TypeOK
  <2>3. Signatures' = Signatures
    BY <1>6 DEF Signatures
  <2>4. Cert!ToSet(Certificate) = ToSet(Certificate)
    BY DEF ToSet, Cert!ToSet
  <2>5. Cert!Deliver(n)
    BY <1>6, <2>1, <2>2, <2>3, <2>4 DEF Cert!Deliver
  <2>6. QED
    BY <2>5 DEF Cert!Next
<1>7. CASE CollectSignatures
  <2>1. asr # <<>> /\ UNCHANGED <<vector, asr, attest>>
    BY <1>7 DEF CollectSignatures, RoundsInv
  <2>2. CASE copy' = copy
    BY <1>2, <1>3, <2>1, <2>2
  <2>3. CASE copy' = [copy EXCEPT ![Proposer] = <<Proposer>> \o asr]
    BY <1>1, <1>6, <2>1, <2>3
  <2>4. QED
    BY <1>7, <2>2, <2>3 DEF CollectSignatures, Assemble
<1>8. ASSUME NEW n \in Validators, DeliverBlock(n) PROVE Cert!Next
  <2>1. n \in ToSet(asr) /\ asr # <<>> /\ timer[n] = <<Proposer>> \o asr
    BY <1>8 DEF DeliverBlock, CopiesInv, Has
  <2>2. QED
    BY <1>6, <1>8, <2>1 DEF DeliverBlock
<1>9. ASSUME NEW n \in Validators, SignBlock(n) PROVE [Cert!Next]_(Cert!certVars)
  <2>1. UNCHANGED <<vector, asr, copy>>
    BY <1>9 DEF SignBlock
  <2>2. CASE attest' = [attest EXCEPT ![n] = "failed"]
    BY <1>2, <1>3, <1>9, <2>1, <2>2 DEF SignBlock, TypeOK
  <2>3. CASE attest' = [attest EXCEPT ![n] = "signed"]
    <3>1. Signatures' = Signatures \cup {n}
      BY <2>1, <2>3 DEF Signatures, TypeOK
    <3>2. Cert!Sign(n)
      BY <2>1, <3>1 DEF Cert!Sign, Certificate
    <3>3. QED
      BY <3>2 DEF Cert!Next
  <2>4. QED
    BY <1>9, <2>2, <2>3 DEF SignBlock
<1>10. ASSUME NEW n \in Validators, AttestBlock(n) \/ Crash(n)
       PROVE  [Cert!Next]_(Cert!certVars)
  BY <1>2, <1>3, <1>10 DEF AttestBlock, Crash, TypeOK
<1>11. ASSUME UNCHANGED <<vector, asr, copy, attest>>
       PROVE  [Cert!Next]_(Cert!certVars)
  BY <1>2, <1>3, <1>11
<1>12. QED
  BY <1>4, <1>5, <1>7, <1>8, <1>9, <1>10, <1>11
  DEF Next, vars, ProposerStep, AttestorStep, CannotDrawVector, AbandonBlock,
      PublishFinalizedBlock, ReceiveReply, CallFails, GetCachedBlock,
      AttestSignatures, ContractEvent, ExpireCache

(* Nobody publishes a block before every attestor of its vector signed it, *)
(* and then only nodes that signed, with all the signatures.               *)
THEOREM Implementation == Spec => ImplementsCertificate
<1>1. Init => Cert!Init
  BY DEF Init, Cert!Init, Signatures, Certificate
<1>2. QED
  BY <1>1, RoundsAndCopies, StepImplementsCertificate, PTL
  DEF Spec, ImplementsCertificate, Cert!Spec

-----------------------------------------------------------------------------
(* What a publisher knew of the contract.                                  *)
LEMMA ValidInvStep ==
  TypeOK /\ TypeOK' /\ RoundsInv /\ CopiesInv /\ ValidInv /\ [Next]_vars => ValidInv'
<1> SUFFICES ASSUME TypeOK, TypeOK', RoundsInv, CopiesInv, ValidInv, [Next]_vars
             PROVE  ValidInv'
  OBVIOUS
<1>1. ASSUME NEW n \in Validators, BlockFinalized(n, Assemble(asr)) PROVE WasValidFor(n)
  <2>1. seen[n] \in 1..seen[n]
    BY DEF TypeOK
  <2>2. QED
    BY <1>1, <2>1 DEF BlockFinalized, Assemble, Config, WasValidFor
<1>2. ASSUME NEW n \in Validators, WasValidFor(n), asr' = asr, seen[n] <= seen'[n]
      PROVE  WasValidFor(n)'
  <2>1. PICK i \in 1..seen[n] :
          /\ Len(<<Proposer>> \o asr) = Configs[i].valPerBlock
          /\ ToSet(<<Proposer>> \o asr) \subseteq Configs[i].registered
    BY <1>2 DEF WasValidFor
  <2>2. i \in 1..seen'[n]
    BY <1>2 DEF TypeOK
  <2>3. (<<Proposer>> \o asr)' = <<Proposer>> \o asr
    BY <1>2
  <2>4. QED
    BY <2>1, <2>2, <2>3 DEF WasValidFor, ToSet
<1>3. ASSUME UNCHANGED <<asr, copy>>, \A n \in Validators : timer'[n] # <<>> => timer[n] # <<>>,
             \A n \in Validators : seen[n] <= seen'[n]
      PROVE  ValidInv'
  BY <1>2, <1>3 DEF ValidInv
<1>4. ASSUME UNCHANGED seen PROVE \A n \in Validators : seen[n] <= seen'[n]
  BY <1>4 DEF TypeOK
<1>5. CASE CollectPatches
  <2>1. \A n \in Validators : timer[n] = <<>> /\ copy[n] = <<>>
    BY <1>5 DEF CollectPatches, RoundsInv, CopiesInv, Has
  <2>2. QED
    BY <1>5, <2>1 DEF CollectPatches, ValidInv
<1>6. CASE CollectSignatures
  <2>1. CASE copy' = copy
    BY <1>3, <1>4, <1>6, <2>1 DEF CollectSignatures
  <2>2. CASE /\ BlockFinalized(Proposer, Assemble(asr))
             /\ copy' = [copy EXCEPT ![Proposer] = Assemble(asr)]
    <3>1. WasValidFor(Proposer)
      BY <1>1, <2>2, AttestationAssumption
    <3>2. \A n \in Validators : timer'[n] # <<>> \/ copy'[n] # <<>> => WasValidFor(n)
      BY <1>6, <2>2, <3>1 DEF CollectSignatures, ValidInv, TypeOK
    <3>3. QED
      BY <1>2, <1>4, <1>6, <3>2 DEF CollectSignatures, ValidInv
  <2>3. QED
    BY <1>6, <2>1, <2>2 DEF CollectSignatures
<1>7. ASSUME NEW a \in Validators, AttestSignatures(a) PROVE ValidInv'
  <2>1. CASE timer' = timer
    BY <1>3, <1>4, <1>7, <2>1 DEF AttestSignatures
  <2>2. CASE BlockFinalized(a, Assemble(asr)) /\ timer' = [timer EXCEPT ![a] = Assemble(asr)]
    <3>1. \A n \in Validators : timer'[n] # <<>> \/ copy'[n] # <<>> => WasValidFor(n)
      BY <1>1, <1>7, <2>2 DEF AttestSignatures, ValidInv, TypeOK
    <3>2. QED
      BY <1>2, <1>4, <1>7, <3>1 DEF AttestSignatures, ValidInv
  <2>3. QED
    BY <1>7, <2>1, <2>2 DEF AttestSignatures
<1>8. ASSUME NEW a \in Validators, DeliverBlock(a) PROVE ValidInv'
  <2>1. \A n \in Validators : timer'[n] # <<>> \/ copy'[n] # <<>> => WasValidFor(n)
    BY <1>8 DEF DeliverBlock, ValidInv, TypeOK
  <2>2. QED
    BY <1>2, <1>4, <1>8, <2>1 DEF DeliverBlock, ValidInv
<1>9. ASSUME NEW a \in Validators, ContractEvent(a) PROVE ValidInv'
  <2>1. \A n \in Validators : seen[n] \in Nat
    BY DEF TypeOK
  <2>2. \A n \in Validators : seen[n] <= seen'[n]
    BY <1>9, <2>1 DEF ContractEvent, TypeOK
  <2>3. QED
    BY <1>3, <1>9, <2>2 DEF ContractEvent
<1>10. ASSUME NEW a \in Validators, Crash(a) PROVE ValidInv'
  BY <1>3, <1>4, <1>10 DEF Crash, TypeOK
<1>11. ASSUME UNCHANGED <<seen, asr, copy, timer>> PROVE ValidInv'
  BY <1>3, <1>4, <1>11
<1>12. QED
  BY <1>5, <1>6, <1>7, <1>8, <1>9, <1>10, <1>11
  DEF Next, vars, ProposerStep, AttestorStep, SendBlock, CannotDrawVector,
      AbandonBlock, PublishFinalizedBlock, ReceiveReply, CallFails, AttestBlock,
      SignBlock, GetCachedBlock, ExpireCache

(* A published copy carries the signatures the contract asked for at some  *)
(* time its publisher knows of, by nodes that were registered then.        *)
THEOREM Validity == Spec => []CopiesWereValid
<1>1. Init => ValidInv
  BY DEF Init, ValidInv
<1>2. CopiesInv /\ ValidInv => CopiesWereValid
  <2> SUFFICES ASSUME CopiesInv, ValidInv, NEW n \in Validators, copy[n] # <<>>
               PROVE  \E i \in 1..seen[n] :
                        /\ Len(copy[n]) = Configs[i].valPerBlock
                        /\ ToSet(copy[n]) \subseteq Configs[i].registered
    BY DEF CopiesWereValid
  <2>1. copy[n] = <<Proposer>> \o asr
    BY DEF CopiesInv, Has
  <2>2. WasValidFor(n)
    BY DEF ValidInv
  <2>3. QED
    BY <2>1, <2>2 DEF WasValidFor
<1>3. QED
  BY <1>1, <1>2, RoundsAndCopies, ValidInvStep, PTL DEF Spec

-----------------------------------------------------------------------------
(* What is left when the proposer's copy is lost.                          *)
LEMMA BackupInvStep ==
  TypeOK /\ TypeOK' /\ BackupInv /\ [Next]_vars => BackupInv'
<1> SUFFICES ASSUME TypeOK, TypeOK', BackupInv, [Next]_vars PROVE BackupInv'
  OBVIOUS
<1>1. ASSUME UNCHANGED <<timer, crashed>>,
             \A n \in Validators : accept'[n] = "accepted" => accept[n] = "accepted",
             \A n \in Validators : copy[n] # <<>> => copy'[n] # <<>>
      PROVE  BackupInv'
  BY <1>1 DEF BackupInv
<1>2. Assemble(asr) # <<>>
  BY FullList DEF Assemble, TypeOK
<1>3. CASE CollectPatches
  BY <1>1, <1>3 DEF CollectPatches, SendAll
<1>4. CASE CollectSignatures
  <2>1. \A n \in Validators : copy[n] # <<>> => copy'[n] # <<>>
    BY <1>2, <1>4 DEF CollectSignatures, TypeOK
  <2>2. QED
    BY <1>1, <1>4, <2>1 DEF CollectSignatures
<1>5. ASSUME NEW n \in Validators, GetCachedBlock(n) PROVE BackupInv'
  BY <1>1, <1>5 DEF GetCachedBlock, TypeOK
<1>6. ASSUME NEW n \in Validators, AttestSignatures(n) PROVE BackupInv'
  BY <1>2, <1>6 DEF AttestSignatures, BackupInv, TypeOK
<1>7. ASSUME NEW n \in Validators, DeliverBlock(n) PROVE BackupInv'
  <2>1. /\ copy'[n] # <<>> /\ \A m \in Validators : copy[m] # <<>> => copy'[m] # <<>>
        /\ \A m \in Validators \ {n} : timer'[m] = timer[m]
    BY <1>7 DEF DeliverBlock, TypeOK
  <2>2. QED
    BY <1>7, <2>1 DEF DeliverBlock, BackupInv
<1>8. ASSUME NEW n \in Validators, Crash(n) PROVE BackupInv'
  <2>1. \A m \in Validators : accept'[m] = "accepted" => accept[m] = "accepted"
    BY <1>8 DEF Crash, TypeOK
  <2>2. \A m \in Validators \ {n} : timer'[m] = timer[m]
    BY <1>8 DEF Crash, TypeOK
  <2>3. QED
    BY <1>8, <2>1, <2>2 DEF Crash, BackupInv
<1>9. ASSUME UNCHANGED <<accept, timer, copy, crashed>> PROVE BackupInv'
  BY <1>1, <1>9
<1>10. QED
  BY <1>3, <1>4, <1>5, <1>6, <1>7, <1>8, <1>9
  DEF Next, vars, ProposerStep, AttestorStep, SendBlock, CannotDrawVector,
      AbandonBlock, PublishFinalizedBlock, ReceiveReply, CallFails, AttestBlock,
      SignBlock, ContractEvent, ExpireCache

(* When the proposer publishes, every attestor of the vector has delivered *)
(* its own copy or has it scheduled, unless it crashed.                    *)
THEOREM Backup == Spec => []PublishedIsBackedUp
<1>1. Init => BackupInv
  BY DEF Init, BackupInv
<1>2. TypeOK /\ RoundsInv /\ BackupInv => PublishedIsBackedUp
  <2> SUFFICES ASSUME TypeOK, RoundsInv, BackupInv,
                      state \in {"publishing", "published"}, NEW a \in ToSet(vector)
               PROVE  timer[a] # <<>> \/ copy[a] # <<>> \/ a \in crashed
    BY DEF PublishedIsBackedUp
  <2>1. a \in Validators
    BY DEF TypeOK, ToSet
  <2>2. QED
    BY <2>1 DEF RoundsInv, BackupInv
<1>3. QED
  BY <1>1, <1>2, RoundsAndCopies, BackupInvStep, PTL DEF Spec

-----------------------------------------------------------------------------
(* The draw of a vector.                                                   *)

\* Induction, for a set of numbers.
LEMMA AllNumbers ==
  ASSUME NEW S, 0 \in S, \A n \in Nat : n \in S => n + 1 \in S
  PROVE  Nat \subseteq S
<1> DEFINE R == OpToRel(<, Nat)
<1>1. \A m, n \in Nat : m < n => <<m, n>> \in R
  BY DEF OpToRel
<1>2. IsWellFoundedOn(R, Nat)
  BY NatLessThanWellFounded
<1> HIDE DEF R
<1>3. ASSUME Nat \ S # {} PROVE FALSE
  <2>1. \E n \in Nat \ S : \A m \in Nat \ S : <<m, n>> \notin R
    BY <1>2, <1>3, WFMin
  <2>2. PICK n \in Nat \ S : \A m \in Nat \ S : <<m, n>> \notin R
    BY <2>1
  <2>3. n # 0 /\ n - 1 \in Nat /\ n - 1 < n
    BY <2>2
  <2>4. n - 1 \in S
    BY <1>1, <2>2, <2>3
  <2>5. (n - 1) + 1 \in S
    BY <2>3, <2>4
  <2>6. (n - 1) + 1 = n
    BY <2>2
  <2>7. QED
    BY <2>2, <2>5, <2>6
<1>4. QED
  BY <1>3

AreTurns(turns, nodeArr, required, hash, skip) ==
  /\ turns[0] = [nodeArr |-> nodeArr, resultSet |-> <<>>]
  /\ \A i \in 1..HashSize : turns[i] = Turn(turns[i - 1], hash[i], required, skip)

\* The recursive definition of Turns has a solution.
LEMMA TurnsUnfold ==
  ASSUME NEW nodeArr, NEW required, NEW hash, NEW skip
  PROVE  AreTurns(Turns(nodeArr, required, hash, skip), nodeArr, required, hash, skip)
<1> DEFINE start == [nodeArr |-> nodeArr, resultSet |-> <<>>]
           Following(s, i) == Turn(s, hash[i], required, skip)
           IsPart(f, n) == f = [i \in 0..n |-> IF i = 0 THEN start ELSE Following(f[i - 1], i)]
           Parts == {n \in Nat : \E f : IsPart(f, n)}
<1> HIDE DEF start, Following
<1>1. 0 \in Parts
  <2> DEFINE f == [i \in 0..0 |-> start]
  <2>1. \A i \in 0..0 : i = 0
    OBVIOUS
  <2>2. [i \in 0..0 |-> IF i = 0 THEN start ELSE Following(f[i - 1], i)] = [i \in 0..0 |-> start]
    BY <2>1
  <2>3. IsPart(f, 0)
    BY <2>2
  <2>4. QED
    BY <2>3
<1>2. ASSUME NEW n \in Nat, n \in Parts PROVE n + 1 \in Parts
  <2>1. PICK f : IsPart(f, n)
    BY <1>2
  <2> DEFINE g == [i \in 0..(n + 1) |-> IF i = n + 1 THEN Following(f[n], n + 1) ELSE f[i]]
  <2>2. \A i \in 0..n : f[i] = IF i = 0 THEN start ELSE Following(f[i - 1], i)
    BY <2>1
  <2>3. \A i \in 0..n : g[i] = f[i]
    OBVIOUS
  <2>4. g[n + 1] = Following(f[n], n + 1)
    OBVIOUS
  <2>5. ASSUME NEW i \in 0..(n + 1)
        PROVE  g[i] = IF i = 0 THEN start ELSE Following(g[i - 1], i)
    <3>1. CASE i = n + 1
      <4>1. i # 0 /\ i - 1 = n /\ n \in 0..n
        BY <3>1
      <4>2. g[i - 1] = f[n]
        BY <4>1, <2>3
      <4>3. QED
        BY <3>1, <4>1, <4>2, <2>4
    <3>2. CASE i # n + 1
      <4>1. i \in 0..n
        BY <3>2
      <4>2. i # 0 => i - 1 \in 0..n
        BY <4>1
      <4>3. g[i] = f[i] /\ (i # 0 => g[i - 1] = f[i - 1])
        BY <4>1, <4>2, <2>3
      <4>4. QED
        BY <4>1, <4>3, <2>2
    <3>3. QED
      BY <3>1, <3>2
  <2>6. g = [i \in 0..(n + 1) |-> g[i]]
    OBVIOUS
  <2> HIDE DEF g
  <2>7. IsPart(g, n + 1)
    BY <2>5, <2>6
  <2>8. QED
    BY <2>7
<1>3. Nat \subseteq Parts
  <2> HIDE DEF Parts
  <2>1. \A n \in Nat : n \in Parts => n + 1 \in Parts
    BY <1>2
  <2>2. QED
    BY <1>1, <2>1, AllNumbers
<1>4. HashSize \in Nat
  BY DEF HashSize
<1>5. \E f : IsPart(f, HashSize)
  BY <1>3, <1>4
<1>6. Turns(nodeArr, required, hash, skip) = CHOOSE f : IsPart(f, HashSize)
  BY DEF Turns, start, Following
<1>7. IsPart(Turns(nodeArr, required, hash, skip), HashSize)
  BY <1>5, <1>6
<1>8. PICK turns : turns = Turns(nodeArr, required, hash, skip)
  OBVIOUS
<1>9. turns = [i \in 0..HashSize |-> IF i = 0 THEN start ELSE Following(turns[i - 1], i)]
  BY <1>7, <1>8
<1>10. turns[0] = start
  BY <1>4, <1>9
<1>11. \A i \in 1..HashSize : turns[i] = Following(turns[i - 1], i)
  BY <1>4, <1>9
<1>12. QED
  BY <1>8, <1>10, <1>11 DEF AreTurns, start, Following

\* RemoveAt takes one element out of a list without repetition.
LEMMA RemovedAt ==
  ASSUME NEW S, NEW q \in Seq(S), IsInjective(q), NEW i \in 1..Len(q)
  PROVE  /\ RemoveAt(q, i) \in Seq(S)
         /\ IsInjective(RemoveAt(q, i))
         /\ ToSet(RemoveAt(q, i)) = ToSet(q) \ {q[i]}
<1> DEFINE r == RemoveAt(q, i)
           front == SubSeq(q, 1, i - 1)
           back == SubSeq(q, i + 1, Len(q))
<1>1. front \in Seq(S) /\ Len(front) = i - 1 /\ \A j \in 1..(i - 1) : front[j] = q[j]
  OBVIOUS
<1>2. back \in Seq(S) /\ Len(back) = Len(q) - i /\ \A j \in 1..(Len(q) - i) : back[j] = q[i + j]
  OBVIOUS
<1>3. r = front \o back
  BY DEF RemoveAt
<1> HIDE DEF r, front, back
<1>4. r \in Seq(S) /\ Len(r) = Len(q) - 1
  BY <1>1, <1>2, <1>3
<1>5. \A j \in 1..(i - 1) : r[j] = q[j]
  BY <1>1, <1>2, <1>3
<1>6. \A j \in i..(Len(q) - 1) : r[j] = q[j + 1]
  <2>1. ASSUME NEW j \in i..(Len(q) - 1) PROVE r[j] = q[j + 1]
    <3>1. r[j] = back[j - (i - 1)]
      BY <1>1, <1>2, <1>3
    <3>2. j - (i - 1) \in 1..(Len(q) - i) /\ i + (j - (i - 1)) = j + 1
      OBVIOUS
    <3>3. QED
      BY <1>2, <3>1, <3>2
  <2>2. QED
    BY <2>1
<1> DEFINE old(j) == IF j < i THEN j ELSE j + 1
<1>7. \A j \in 1..Len(r) : old(j) \in 1..Len(q) /\ old(j) # i /\ r[j] = q[old(j)]
  <2>1. ASSUME NEW j \in 1..Len(r)
        PROVE  old(j) \in 1..Len(q) /\ old(j) # i /\ r[j] = q[old(j)]
    <3>1. CASE j < i
      BY <1>4, <1>5, <3>1
    <3>2. CASE ~(j < i)
      BY <1>4, <1>6, <3>2
    <3>3. QED
      BY <3>1, <3>2
  <2>2. QED
    BY <2>1
<1>8. \A k \in 1..Len(q) : k # i => \E j \in 1..Len(r) : old(j) = k
  <2>1. ASSUME NEW k \in 1..Len(q), k # i PROVE \E j \in 1..Len(r) : old(j) = k
    <3>1. CASE k < i
      <4>1. k \in 1..Len(r) /\ old(k) = k
        BY <1>4, <3>1
      <4>2. QED
        BY <4>1
    <3>2. CASE k > i
      <4>1. k - 1 \in 1..Len(r) /\ old(k - 1) = k
        BY <1>4, <3>2
      <4>2. QED
        BY <4>1
    <3>3. QED
      BY <2>1, <3>1, <3>2
  <2>2. QED
    BY <2>1
<1>9. \A j, k \in 1..Len(r) : old(j) = old(k) => j = k
  BY <1>4
<1> HIDE DEF old
<1>10. DOMAIN r = 1..Len(r) /\ DOMAIN q = 1..Len(q)
  BY <1>4
<1>11. \A j, k \in 1..Len(q) : q[j] = q[k] => j = k
  BY <1>10 DEF IsInjective
<1>12. IsInjective(r)
  BY <1>7, <1>9, <1>10, <1>11 DEF IsInjective
<1>13. ToSet(r) = ToSet(q) \ {q[i]}
  <2>1. ASSUME NEW x \in ToSet(r) PROVE x \in ToSet(q) \ {q[i]}
    <3>1. PICK j \in 1..Len(r) : x = r[j]
      BY <1>10 DEF ToSet
    <3>2. x = q[old(j)] /\ old(j) \in 1..Len(q) /\ old(j) # i
      BY <1>7, <3>1
    <3>3. q[old(j)] # q[i]
      BY <1>11, <3>2
    <3>4. QED
      BY <1>10, <3>2, <3>3 DEF ToSet
  <2>2. ASSUME NEW x \in ToSet(q) \ {q[i]} PROVE x \in ToSet(r)
    <3>1. PICK k \in 1..Len(q) : x = q[k]
      BY <1>10 DEF ToSet
    <3>2. k # i
      BY <3>1
    <3>3. PICK j \in 1..Len(r) : old(j) = k
      BY <1>8, <3>2
    <3>4. x = r[j]
      BY <1>7, <3>1, <3>3
    <3>5. QED
      BY <1>10, <3>4 DEF ToSet
  <2>3. QED
    BY <2>1, <2>2
<1>14. QED
  BY <1>4, <1>12, <1>13 DEF r

\* Append adds a new element to a list without repetition.
LEMMA Appended ==
  ASSUME NEW S, NEW q \in Seq(S), IsInjective(q), NEW x \in S, x \notin ToSet(q)
  PROVE  /\ Append(q, x) \in Seq(S)
         /\ Len(Append(q, x)) = Len(q) + 1
         /\ IsInjective(Append(q, x))
         /\ ToSet(Append(q, x)) = ToSet(q) \cup {x}
<1> DEFINE r == Append(q, x)
<1>1. r \in Seq(S) /\ Len(r) = Len(q) + 1 /\ r[Len(q) + 1] = x
  OBVIOUS
<1>2. \A j \in 1..Len(q) : r[j] = q[j]
  OBVIOUS
<1> HIDE DEF r
<1>3. DOMAIN r = 1..(Len(q) + 1) /\ DOMAIN q = 1..Len(q) /\ Len(q) \in Nat
  BY <1>1
<1>4. \A j \in 1..Len(q) : q[j] # x
  BY <1>3 DEF ToSet
<1>5. \A j, k \in 1..Len(q) : q[j] = q[k] => j = k
  BY <1>3 DEF IsInjective
<1>6. \A j \in 1..(Len(q) + 1) : j \in 1..Len(q) \/ j = Len(q) + 1
  BY <1>3
<1>7. IsInjective(r)
  BY <1>1, <1>2, <1>3, <1>4, <1>5, <1>6 DEF IsInjective
<1>8. ToSet(r) = ToSet(q) \cup {x}
  <2>1. ASSUME NEW y \in ToSet(r) PROVE y \in ToSet(q) \cup {x}
    <3>1. PICK j \in 1..(Len(q) + 1) : y = r[j]
      BY <1>3 DEF ToSet
    <3>2. QED
      BY <1>1, <1>2, <1>3, <1>6, <3>1 DEF ToSet
  <2>2. ASSUME NEW y \in ToSet(q) PROVE y \in ToSet(r)
    <3>1. PICK j \in 1..Len(q) : y = q[j]
      BY <1>3 DEF ToSet
    <3>2. j \in 1..(Len(q) + 1) /\ y = r[j]
      BY <1>2, <1>3, <3>1
    <3>3. QED
      BY <1>3, <3>2 DEF ToSet
  <2>3. x \in ToSet(r)
    <3>1. Len(q) + 1 \in 1..(Len(q) + 1)
      BY <1>3
    <3>2. QED
      BY <1>1, <1>3, <3>1 DEF ToSet
  <2>4. QED
    BY <2>1, <2>2, <2>3
<1>9. QED
  BY <1>1, <1>7, <1>8 DEF r

\* The loop after i turns: both lists without repetition, no node in both or
\* in neither, and as many nodes taken, one skipped at most, as there were turns.
DrawInv(s, i, nodes, required, skip) ==
  /\ s.nodeArr \in Seq(nodes) /\ IsInjective(s.nodeArr)
  /\ s.resultSet \in Seq(nodes \ {skip}) /\ IsInjective(s.resultSet)
  /\ ToSet(s.nodeArr) \cap ToSet(s.resultSet) = {}
  /\ nodes \ {skip} \subseteq ToSet(s.nodeArr) \cup ToSet(s.resultSet)
  /\ Len(s.resultSet) <= required
  /\ \/ Len(s.resultSet) = required
     \/ s.nodeArr = <<>>
     \/ Len(s.resultSet) >= i
     \/ skip \notin ToSet(s.nodeArr) /\ Len(s.resultSet) + 1 >= i

LEMMA TurnKeepsDrawInv ==
  ASSUME NEW s, NEW i \in Nat, NEW nodes, NEW required \in Nat, NEW skip, NEW byte \in Nat,
         DrawInv(s, i, nodes, required, skip)
  PROVE  DrawInv(Turn(s, byte, required, skip), i + 1, nodes, required, skip)
<1>1. CASE Len(s.resultSet) = required \/ s.nodeArr = <<>>
  <2>1. Turn(s, byte, required, skip) = s
    BY <1>1 DEF Turn
  <2>2. QED
    BY <1>1, <2>1 DEF DrawInv
<1>2. CASE ~(Len(s.resultSet) = required \/ s.nodeArr = <<>>)
  <2> DEFINE q == s.nodeArr
             d == s.resultSet
             k == (byte % Len(s.nodeArr)) + 1
             x == s.nodeArr[k]
             e == IF x = skip THEN d ELSE Append(d, x)
             rest == RemoveAt(q, k)
  <2>1. Turn(s, byte, required, skip) = [nodeArr |-> rest, resultSet |-> e]
    BY <1>2 DEF Turn
  <2>2. q \in Seq(nodes) /\ IsInjective(q) /\ Len(q) \in Nat /\ Len(q) # 0
    BY <1>2 DEF DrawInv
  <2>3. d \in Seq(nodes \ {skip}) /\ IsInjective(d) /\ Len(d) \in Nat /\ Len(d) < required
    BY <1>2 DEF DrawInv
  <2>4. ToSet(q) \cap ToSet(d) = {} /\ nodes \ {skip} \subseteq ToSet(q) \cup ToSet(d)
    BY DEF DrawInv
  <2>5. Len(d) >= i \/ (skip \notin ToSet(q) /\ Len(d) + 1 >= i)
    BY <1>2 DEF DrawInv
  <2>6. k \in 1..Len(q)
    <3>1. PICK n : n = Len(q)
      OBVIOUS
    <3>2. n \in Nat /\ n > 0
      BY <2>2, <3>1
    <3>3. byte % n \in 0..(n - 1)
      BY <3>2
    <3>4. k = (byte % n) + 1
      BY <3>1
    <3> HIDE DEF k
    <3>5. k \in 1..n
      BY <3>2, <3>3, <3>4
    <3>6. QED
      BY <3>1, <3>5
  <2> HIDE DEF k
  <2>7. x \in nodes /\ x \in ToSet(q)
    BY <2>2, <2>6 DEF ToSet
  <2> HIDE DEF q, x
  <2>8. q[k] = x
    BY DEF q, x
  <2> HIDE DEF rest
  <2>9. rest \in Seq(nodes) /\ IsInjective(rest) /\ ToSet(rest) = ToSet(q) \ {x}
    BY <2>2, <2>6, <2>8, RemovedAt DEF rest
  <2>10. x \notin ToSet(d)
    BY <2>4, <2>7
  <2> HIDE DEF d
  <2>11. CASE x = skip
    <3>1. e = d
      BY <2>11
    <3>2. Len(d) + 1 >= i + 1 /\ skip \notin ToSet(rest)
      <4>1. skip \in ToSet(q)
        BY <2>7, <2>11
      <4>2. QED
        BY <2>3, <2>5, <2>9, <2>11, <4>1
    <3>3. ToSet(rest) \cap ToSet(d) = {} /\ nodes \ {skip} \subseteq ToSet(rest) \cup ToSet(d)
      BY <2>4, <2>9, <2>11
    <3> HIDE DEF e
    <3>4. QED
      BY <2>1, <2>3, <2>9, <3>1, <3>2, <3>3 DEF DrawInv
  <2>12. CASE x # skip
    <3>1. e = Append(d, x)
      BY <2>12
    <3> HIDE DEF e
    <3>2. x \in nodes \ {skip}
      BY <2>7, <2>12
    <3>3. /\ Append(d, x) \in Seq(nodes \ {skip})
          /\ Len(Append(d, x)) = Len(d) + 1
          /\ IsInjective(Append(d, x))
          /\ ToSet(Append(d, x)) = ToSet(d) \cup {x}
      BY <2>3, <2>10, <3>2, Appended
    <3>4. ToSet(rest) \cap ToSet(e) = {} /\ nodes \ {skip} \subseteq ToSet(rest) \cup ToSet(e)
      BY <2>4, <2>9, <3>1, <3>3
    <3>5. Len(e) <= required
      BY <2>3, <3>1, <3>3
    <3>6. Len(e) >= i + 1 \/ (skip \notin ToSet(rest) /\ Len(e) + 1 >= i + 1)
      <4>1. skip \notin ToSet(q) => skip \notin ToSet(rest)
        BY <2>9
      <4>2. QED
        BY <2>3, <2>5, <3>1, <3>3, <4>1
    <3>7. e \in Seq(nodes \ {skip}) /\ IsInjective(e)
      BY <3>1, <3>3
    <3>8. QED
      BY <2>1, <2>9, <3>4, <3>5, <3>6, <3>7 DEF DrawInv
  <2>13. QED
    BY <2>11, <2>12
<1>3. QED
  BY <1>1, <1>2

LEMMA TurnsKeepDrawInv ==
  ASSUME NEW nodes, NEW nodeArr \in Seq(nodes), IsInjective(nodeArr), ToSet(nodeArr) = nodes,
         NEW required \in Nat, NEW hash \in [1..HashSize -> Nat], NEW skip
  PROVE  DrawInv(Turns(nodeArr, required, hash, skip)[HashSize], HashSize, nodes, required, skip)
<1> DEFINE turns == Turns(nodeArr, required, hash, skip)
<1>1. /\ turns[0] = [nodeArr |-> nodeArr, resultSet |-> <<>>]
      /\ \A i \in 1..HashSize : turns[i] = Turn(turns[i - 1], hash[i], required, skip)
  <2>1. AreTurns(Turns(nodeArr, required, hash, skip), nodeArr, required, hash, skip)
    BY TurnsUnfold
  <2> HIDE DEF turns
  <2>2. AreTurns(turns, nodeArr, required, hash, skip)
    BY <2>1 DEF turns
  <2>3. QED
    BY <2>2 DEF AreTurns
<1> HIDE DEF turns
<1> DEFINE Good == {i \in Nat : i <= HashSize => DrawInv(turns[i], i, nodes, required, skip)}
<1>2. 0 \in Good
  <2>1. ToSet(<<>>) = {} /\ IsInjective(<<>>) /\ <<>> \in Seq(nodes \ {skip}) /\ Len(<<>>) = 0
    BY DEF ToSet, IsInjective
  <2>2. turns[0].nodeArr = nodeArr /\ turns[0].resultSet = <<>>
    BY <1>1
  <2>3. DrawInv(turns[0], 0, nodes, required, skip)
    BY <2>1, <2>2 DEF DrawInv
  <2>4. QED
    BY <2>3
<1>3. HashSize \in Nat
  BY DEF HashSize
<1>4. ASSUME NEW i \in Nat, i \in Good PROVE i + 1 \in Good
  <2>1. CASE i + 1 <= HashSize
    <3>1. DrawInv(turns[i], i, nodes, required, skip)
      BY <1>3, <1>4, <2>1
    <3>2. i + 1 \in 1..HashSize /\ (i + 1) - 1 = i
      BY <1>3, <2>1
    <3>3. turns[i + 1] = Turn(turns[i], hash[i + 1], required, skip)
      BY <1>1, <3>2
    <3>4. hash[i + 1] \in Nat
      BY <3>2
    <3>5. DrawInv(turns[i + 1], i + 1, nodes, required, skip)
      BY <3>1, <3>3, <3>4, TurnKeepsDrawInv
    <3>6. QED
      BY <3>5
  <2>2. QED
    BY <2>1
<1>5. Nat \subseteq Good
  <2> HIDE DEF Good
  <2>1. \A i \in Nat : i \in Good => i + 1 \in Good
    BY <1>4
  <2>2. QED
    BY <1>2, <2>1, AllNumbers
<1>6. QED
  BY <1>3, <1>5 DEF turns

\* A list without repetition has as many elements as there are in its set.
LEMMA ListSize ==
  ASSUME NEW S, NEW q \in Seq(S), IsInjective(q)
  PROVE  IsFiniteSet(ToSet(q)) /\ Cardinality(ToSet(q)) = Len(q)
<1>1. Len(q) \in Nat /\ DOMAIN q = 1..Len(q)
  OBVIOUS
<1>2. IsFiniteSet(1..Len(q)) /\ Cardinality(1..Len(q)) = Len(q)
  <2>1. IsFiniteSet(1..Len(q)) /\ Cardinality(1..Len(q)) = IF 1 > Len(q) THEN 0 ELSE Len(q) - 1 + 1
    BY <1>1, FS_Interval
  <2>2. QED
    BY <1>1, <2>1
<1>3. q \in [1..Len(q) -> ToSet(q)]
  BY <1>1 DEF ToSet
<1>4. q \in Bijection(1..Len(q), ToSet(q))
  BY <1>1, <1>3 DEF Bijection, Injection, Surjection, IsInjective, ToSet
<1>5. ExistsBijection(1..Len(q), ToSet(q))
  BY <1>4 DEF ExistsBijection
<1>6. QED
  BY <1>2, <1>5, FS_Bijection

\* A possible vector is no longer than there are nodes to take.
LEMMA EnoughNodes ==
  ASSUME NEW nodes, IsFiniteSet(nodes), NEW required \in Nat, NEW skip,
         Cardinality(nodes) # 1, PossibleVectors(nodes, required, skip) # {}
  PROVE  required <= Cardinality(nodes \ {skip})
<1>1. PICK w : w \in [1..required -> nodes \ {skip}] /\ IsInjective(w)
  BY DEF PossibleVectors
<1>2. IsFiniteSet(nodes \ {skip})
  BY FS_RemoveElement
<1>3. w \in Injection(1..required, nodes \ {skip})
  BY <1>1 DEF Injection, IsInjective
<1>4. Cardinality(1..required) <= Cardinality(nodes \ {skip})
  BY <1>2, <1>3, FS_Injection
<1>5. Cardinality(1..required) = IF 1 > required THEN 0 ELSE required - 1 + 1
  BY FS_Interval
<1>6. required >= 1
  BY DEF PossibleVectors
<1>7. Cardinality(1..required) = required
  BY <1>5, <1>6
<1>8. QED
  BY <1>4, <1>7

(* calculateValidationVector gives a vector of the required number of      *)
(* different nodes, none of them to be skipped, whenever there is one, and *)
(* throws only when there is none: whatever the random values, the 64      *)
(* bytes of the hash are enough.  (A single node is returned as it is, see *)
(* PossibleVectors.)                                                       *)
THEOREM DrawsAreVectors ==
  ASSUME NEW nodes, IsFiniteSet(nodes),
         NEW nodeArr \in Seq(nodes), IsInjective(nodeArr), ToSet(nodeArr) = nodes,
         NEW required \in Int, NEW hash \in [1..HashSize -> 0..255], NEW skip
  PROVE  LET v == CalculateValidationVector(nodeArr, required, hash, skip)
         IN  IF PossibleVectors(nodes, required, skip) = {} THEN v = <<>>
             ELSE v \in PossibleVectors(nodes, required, skip)
<1> DEFINE possible == PossibleVectors(nodes, required, skip)
           v == CalculateValidationVector(nodeArr, required, hash, skip)
           s == Turns(nodeArr, required, hash, skip)[HashSize]
           d == s.resultSet
           q == s.nodeArr
<1>1. Cardinality(nodes) = Len(nodeArr) /\ Len(nodeArr) \in Nat
  BY ListSize
<1>2. CASE required \notin 1..MaxRequired \/ required > Len(nodeArr)
  BY <1>1, <1>2 DEF PossibleVectors, CalculateValidationVector
<1>3. CASE ~(required \notin 1..MaxRequired \/ required > Len(nodeArr)) /\ Len(nodeArr) = 1
  <2>1. possible = [1..1 -> nodes]
    BY <1>1, <1>3 DEF PossibleVectors
  <2>2. v = nodeArr
    BY <1>3 DEF CalculateValidationVector
  <2>3. nodeArr \in [1..1 -> nodes]
    BY <1>3
  <2> HIDE DEF possible, v
  <2>4. v \in possible /\ possible # {}
    BY <2>1, <2>2, <2>3
  <2>5. QED
    BY <2>4 DEF possible, v
<1>4. CASE ~(required \notin 1..MaxRequired \/ required > Len(nodeArr)) /\ Len(nodeArr) # 1
  <2>1. required \in Nat /\ required >= 1 /\ required <= 50
    BY <1>1, <1>4 DEF MaxRequired
  <2>2. possible = {w \in [1..required -> nodes \ {skip}] : IsInjective(w)}
    BY <1>1, <1>4 DEF PossibleVectors
  <2>3. v = IF Len(d) = required THEN d ELSE <<>>
    BY <1>4 DEF CalculateValidationVector
  <2>4. hash \in [1..HashSize -> Nat]
    <3>1. 0..255 \subseteq Nat
      OBVIOUS
    <3>2. QED
      BY <3>1
  <2>5. DrawInv(s, HashSize, nodes, required, skip)
    BY <2>1, <2>4, TurnsKeepDrawInv
  <2> HIDE DEF s
  <2>6. q \in Seq(nodes) /\ IsInjective(q)
    BY <2>5 DEF DrawInv
  <2>7. d \in Seq(nodes \ {skip}) /\ IsInjective(d) /\ Len(d) \in Nat /\ Len(d) <= required
    BY <2>5 DEF DrawInv
  <2>8. nodes \ {skip} \subseteq ToSet(q) \cup ToSet(d)
    BY <2>5 DEF DrawInv
  <2>9. \/ Len(d) = required
        \/ q = <<>>
        \/ Len(d) >= HashSize
        \/ Len(d) + 1 >= HashSize
    BY <2>5 DEF DrawInv
  <2> HIDE DEF d, q
  <2>10. Len(d) = required \/ q = <<>>
    <3>1. PICK n : n = Len(d)
      OBVIOUS
    <3>2. n \in Nat /\ n <= 50
      BY <2>1, <2>7, <3>1
    <3>3. HashSize = 64
      BY DEF HashSize
    <3>4. ~(n >= 64) /\ ~(n + 1 >= 64)
      BY <3>2
    <3>5. ~(Len(d) >= HashSize) /\ ~(Len(d) + 1 >= HashSize)
      BY <3>1, <3>3, <3>4
    <3>6. QED
      BY <2>9, <3>5
  <2>11. CASE Len(d) = required
    <3>1. d \in [1..required -> nodes \ {skip}]
      BY <2>7, <2>11
    <3>2. d \in possible
      BY <2>2, <2>7, <3>1
    <3>3. v = d
      BY <2>3, <2>11
    <3> HIDE DEF possible, v
    <3>4. v \in possible /\ possible # {}
      BY <3>2, <3>3
    <3>5. QED
      BY <3>4 DEF possible, v
  <2>12. CASE Len(d) # required
    <3>1. nodes \ {skip} \subseteq ToSet(d)
      <4>1. ToSet(q) = {}
        BY <2>10, <2>12 DEF ToSet
      <4>2. QED
        BY <2>8, <4>1
    <3>2. IsFiniteSet(ToSet(d)) /\ Cardinality(ToSet(d)) = Len(d)
      BY <2>7, ListSize
    <3>3. Cardinality(nodes \ {skip}) <= Len(d)
      BY <3>1, <3>2, FS_Subset
    <3>4. Cardinality(nodes \ {skip}) \in Nat
      BY FS_RemoveElement, FS_CardinalityType
    <3>5. ~(required <= Cardinality(nodes \ {skip}))
      BY <2>1, <2>7, <2>12, <3>3, <3>4
    <3>6. Cardinality(nodes) # 1
      BY <1>1, <1>4
    <3>7. PossibleVectors(nodes, required, skip) = {}
      BY <2>1, <3>5, <3>6, EnoughNodes
    <3>8. v = <<>>
      BY <2>3, <2>12
    <3> HIDE DEF v
    <3>9. QED
      BY <3>7, <3>8 DEF v
  <2>13. QED
    BY <2>11, <2>12
<1>5. QED
  BY <1>2, <1>3, <1>4
=============================================================================
