-------------------------- MODULE ValidationVector --------------------------
(***************************************************************************)
(* How an attest vector is drawn: calculateValidationVector of             *)
(* src/src/services/messaging/validatorRandom.ts.  The random values of    *)
(* all nodes are hashed, and each byte of the hash picks one of the nodes  *)
(* that are left.                                                          *)
(***************************************************************************)
EXTENDS Naturals, FiniteSets, Sequences, SequencesExt

\* A vector has at most so many nodes.
MaxRequired == 50

\* sha512 gives so many bytes, one for a turn.
HashSize == 64

\* What the draw is for, over all random values: a list of nodes without
\* repetition.  A single node is returned as it is, to be skipped or not.
PossibleVectors(nodes, required, skip) ==
  IF required \notin 1..MaxRequired \/ required > Cardinality(nodes) THEN {}
  ELSE IF Cardinality(nodes) = 1 THEN [1..1 -> nodes]
  ELSE {v \in [1..required -> nodes \ {skip}] : IsInjective(v)}

-----------------------------------------------------------------------------
\* A turn: a byte picks one of the nodes left, which is used only once, and
\* only if it is not to be skipped.  No turn is taken when there are enough
\* nodes, or when none are left, which the code takes as an error.
Turn(s, byte, required, skip) ==
  LET i == (byte % Len(s.nodeArr)) + 1
      node == s.nodeArr[i]
  IN  IF Len(s.resultSet) = required \/ s.nodeArr = <<>> THEN s
      ELSE [nodeArr |-> RemoveAt(s.nodeArr, i),
            resultSet |-> IF node = skip THEN s.resultSet ELSE Append(s.resultSet, node)]

\* The lists after each turn.  nodeArr and hash count from 1.
Turns(nodeArr, required, hash, skip) ==
  LET turns[i \in 0..HashSize] ==
        IF i = 0 THEN [nodeArr |-> nodeArr, resultSet |-> <<>>]
        ELSE Turn(turns[i - 1], hash[i], required, skip)
  IN  turns

\* The vector for the sorted list of the nodes, <<>> if the draw throws.
CalculateValidationVector(nodeArr, required, hash, skip) ==
  LET resultSet == Turns(nodeArr, required, hash, skip)[HashSize].resultSet
  IN  IF required \notin 1..MaxRequired \/ required > Len(nodeArr) THEN <<>>
      ELSE IF Len(nodeArr) = 1 THEN nodeArr
      ELSE IF Len(resultSet) = required THEN resultSet
      ELSE <<>>
=============================================================================
