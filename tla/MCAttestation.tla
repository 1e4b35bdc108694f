--------------------------- MODULE MCAttestation ---------------------------
(* Instances of Attestation for TLC.                                       *)
EXTENDS Attestation

CONSTANTS v1, v2, v3

\* Two validators that both have to sign, where the random of one is enough;
\* then a third one joins; then three signatures are needed, and one of the
\* first two is banned.
MCConfigs == <<
  [valPerBlock |-> 2, nodeRandomMinCount |-> 1,
   registered |-> {v1, v2}, enabled |-> {v1, v2}],
  [valPerBlock |-> 2, nodeRandomMinCount |-> 1,
   registered |-> {v1, v2, v3}, enabled |-> {v1, v2, v3}],
  [valPerBlock |-> 3, nodeRandomMinCount |-> 2,
   registered |-> {v1, v2, v3}, enabled |-> {v1, v3}] >>

-----------------------------------------------------------------------------
(* The draw of a vector, against what it is for: over all bytes that make  *)
(* a difference it gives exactly the possible vectors, and fails exactly   *)
(* when there are none.                                                    *)
DrawsOf(nodes, required, skip) ==
  {CalculateValidationVector(SetToSeq(nodes), required,
                             [i \in 1..HashSize |-> IF i <= 3 THEN bytes[i] ELSE 0], skip) :
     bytes \in [1..3 -> 0..5]}

ASSUME DrawsArePossibleVectors ==
  \A nodes \in SUBSET Validators, required \in 0..4, skip \in {v1, v2} :
    LET possible == PossibleVectors(nodes, required, skip)
    IN  DrawsOf(nodes, required, skip) = IF possible = {} THEN {<<>>} ELSE possible
=============================================================================
