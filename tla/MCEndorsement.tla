--------------------------- MODULE MCEndorsement ---------------------------
(* An instance of Endorsement for TLC: lengths at their bounds, and byte    *)
(* strings of a legal and of an illegal length that are no signature.       *)
(* Keys and times are only ever compared for equality.                      *)
EXTENDS Endorsement, TLC

CONSTANT NoKey

MCMalformed == {[key |-> NoKey, digest |-> NoDigest, length |-> n] : n \in {72, 73}}

StatementSymmetry == Permutations(Keys) \cup Permutations(Times)
=============================================================================
