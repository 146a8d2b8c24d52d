---------------------------- MODULE MCLiveCache ----------------------------
(* LiveCache on small instances: the goroutines and the lists are           *)
(* interchangeable, the clients too where no liveness is checked.           *)
EXTENDS LiveCache, TLC

Symmetry == Permutations(Cacher) \cup Permutations(ListId) \cup Permutations(Client)
=============================================================================
