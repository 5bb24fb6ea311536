---------------------------- MODULE MCProjection ----------------------------
(* Instances of Projection for TLC. *)
EXTENDS Projection, TLC

(* Public keys are interchangeable, and so are projectors with graphs of    *)
(* their own.                                                               *)
ProjectionSymmetry == Permutations(Identities) \cup Permutations(Projectors)
=============================================================================
