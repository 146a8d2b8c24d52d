--------------------------- MODULE MCDeviceEvents ---------------------------
(* DeviceEvents on small instances: the goroutines are interchangeable.     *)
EXTENDS DeviceEvents, TLC

Symmetry == Permutations(Check)
=============================================================================
