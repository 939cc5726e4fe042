-------------------------------- MODULE MCDevice --------------------------------
(* Three processes; which is which does not matter, nor which user is which. *)
EXTENDS Device, TLC
Symmetry == Permutations(Process) \cup Permutations(User)
=============================================================================
