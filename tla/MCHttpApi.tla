----------------------------- MODULE MCHttpApi -----------------------------
(* Instances of HttpApi for TLC. *)
EXTENDS HttpApi, TLC

(* Requests are interchangeable in the safety properties. *)
RequestSymmetry == Permutations(Requests)
(* One disturbance from outside the database in a behaviour: a client that  *)
(* goes away, or a restart.                                                 *)
OneDisturbance == Cardinality(cancelled) + key <= 1
=============================================================================
