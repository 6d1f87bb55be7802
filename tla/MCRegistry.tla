----------------------------- MODULE MCRegistry -----------------------------
(* Instances of Registry for TLC: names and streams are model values. *)
EXTENDS Registry, TLC

StreamSymmetry == Permutations(Streams)
=============================================================================
