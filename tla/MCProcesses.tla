---------------------------- MODULE MCProcesses ----------------------------
(* Processes on small instances: requests and names are interchangeable.    *)
EXTENDS Processes, TLC

Symmetry == Permutations(Worker) \cup Permutations(Camera)
=============================================================================
