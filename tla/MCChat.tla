------------------------------- MODULE MCChat -------------------------------
EXTENDS ChatProperties

(* The devices are alike: every action treats them in the same way. *)
Symmetry == Permutations(Device)
=============================================================================
