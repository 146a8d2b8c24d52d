------------------------------- MODULE Outbox -------------------------------
(***************************************************************************)
(* What Annotate promises its clients: an annotation that was accepted     *)
(* waits until it is delivered with others in one call of the cloud that   *)
(* is answered, or is given up; while it waits, calls that are not         *)
(* answered may deliver it as well.  Only how often each payload is where  *)
(* is told; queues, batches and retries are left to AnnotationQueue, which *)
(* implements this.                                                        *)
(***************************************************************************)
EXTENDS Naturals

CONSTANTS
    Payload,    \* what is sent
    MaxBatch,   \* how many may be delivered by one call
    MayGiveUp   \* whether any may be given up

VARIABLES accepted, waiting, sent, dropped  \* how often each payload is there

vars == <<accepted, waiting, sent, dropped>>

None == [p \in Payload |-> 0]

Init == accepted = None /\ waiting = None /\ sent = None /\ dropped = None

\* What one call takes: some of those that wait.
Batch == [Payload -> 0..MaxBatch]
Waits(b) == \A p \in Payload : b[p] <= waiting[p]

More(counts, b) == [p \in Payload |-> counts[p] + b[p]]
Fewer(counts, b) == [p \in Payload |-> counts[p] - b[p]]

Accept(p) ==
    /\ accepted' = [accepted EXCEPT ![p] = @ + 1]
    /\ waiting' = [waiting EXCEPT ![p] = @ + 1]
    /\ UNCHANGED <<sent, dropped>>

Deliver ==
    /\ \E b \in Batch :
         /\ b # None /\ Waits(b)
         /\ waiting' = Fewer(waiting, b)
         /\ sent' = More(sent, b)
    /\ UNCHANGED <<accepted, dropped>>

\* The cloud has them and nobody knows: they go on waiting.
DeliverUnheard ==
    /\ \E b \in Batch :
         /\ b # None /\ Waits(b)
         /\ sent' = More(sent, b)
    /\ UNCHANGED <<accepted, waiting, dropped>>

GiveUp ==
    /\ MayGiveUp
    /\ \E b \in Batch :
         /\ b # None /\ Waits(b)
         /\ waiting' = Fewer(waiting, b)
         /\ dropped' = More(dropped, b)
    /\ UNCHANGED <<accepted, sent>>

Next == (\E p \in Payload : Accept(p)) \/ Deliver \/ DeliverUnheard \/ GiveUp

Safety == Init /\ [][Next]_vars

\* What waits does not wait for ever: it is delivered and heard of, or given up.
Spec == Safety /\ WF_vars(Deliver \/ GiveUp)
=============================================================================
