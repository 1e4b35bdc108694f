-------------------------- MODULE BlockCertificate --------------------------
(***************************************************************************)
(* What attestation promises about one block, without the two rounds that  *)
(* bring it about.  Nodes sign the block, each for itself.  At most once,  *)
(* a list of nodes that have all signed becomes the certificate of the     *)
(* block.  From then on any node of the certificate may hand the block,    *)
(* with exactly this certificate, to the storage nodes and its own queue.  *)
(* Which signatures are enough is left to the implementation.              *)
(***************************************************************************)
EXTENDS Sequences, SequencesExt

CONSTANTS
  \* The validator nodes.
  Validators,
  \* The validator that assembled the block; its signature comes first.
  Proposer

VARIABLES
  \* The nodes whose signature of the block exists.
  signatures,
  \* The signers of the finalized block, in order; <<>> before there is one.
  certificate,
  \* The copy each node handed to publishFinalizedBlock, <<>> for none.
  delivered

certVars == <<signatures, certificate, delivered>>

Init ==
  /\ signatures = {}
  /\ certificate = <<>>
  /\ delivered = [n \in Validators |-> <<>>]

Sign(n) ==
  /\ signatures' = signatures \cup {n}
  /\ UNCHANGED <<certificate, delivered>>

Certify ==
  /\ certificate = <<>>
  /\ certificate' \in Seq(signatures) \ {<<>>}
  /\ Head(certificate') = Proposer
  /\ UNCHANGED <<signatures, delivered>>

Deliver(n) ==
  /\ n \in ToSet(certificate)
  /\ delivered' = [delivered EXCEPT ![n] = certificate]
  /\ UNCHANGED <<signatures, certificate>>

Next ==
  \/ \E n \in Validators : Sign(n) \/ Deliver(n)
  \/ Certify

Spec == Init /\ [][Next]_certVars
=============================================================================
