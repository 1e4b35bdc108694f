---------------------------- MODULE MCReadQuorum ----------------------------
(* Instance of ReadQuorum for TLC: nodes of a kind are interchangeable.    *)
EXTENDS ReadQuorum, TLC

CONSTANTS s1, s2, s3, a1, a2, key, tx

MCVersions == [k \in {key, tx} |-> IF k = key THEN 2 ELSE 1]
Symmetry == Permutations({s1, s2, s3}) \cup Permutations({a1, a2})
=============================================================================
