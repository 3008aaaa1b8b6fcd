----------------------------- MODULE MCLiveGate -----------------------------
(* LiveGate with symmetric trade ids. *)
EXTENDS LiveGate, TLC

Symmetry == Permutations(Ids)
=============================================================================
