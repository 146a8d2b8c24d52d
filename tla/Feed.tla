-------------------------------- MODULE Feed --------------------------------
(***************************************************************************)
(* What the live video promises a viewer: it is sent frames that the       *)
(* camera has produced, each newer than the one before.  Frames may be     *)
(* missed, but none is sent twice, and none after a newer one.  The stream *)
(* of redis, the lists, the batches and what drops frames are left to      *)
(* LiveCache, which implements this.                                       *)
(***************************************************************************)
EXTENDS Naturals

CONSTANT Viewer

VARIABLES
    newest,  \* the last frame the camera has produced
    sent     \* the last frame each viewer was sent, 0 before the first

vars == <<newest, sent>>

Init == newest \in Nat /\ sent = [v \in Viewer |-> 0]

Produce ==
    /\ newest' = newest + 1
    /\ UNCHANGED sent

Send(v) ==
    /\ \E frame \in (sent[v] + 1)..newest : sent' = [sent EXCEPT ![v] = frame]
    /\ UNCHANGED newest

Next == Produce \/ \E v \in Viewer : Send(v)

Spec == Init /\ [][Next]_vars
=============================================================================
