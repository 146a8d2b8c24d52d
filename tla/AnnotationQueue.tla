-------------------------- MODULE AnnotationQueue --------------------------
(***************************************************************************)
(* Annotations on their way to the cloud: Annotate of                      *)
(* grpc_annotation_api.go queues them, AnnotationConsumer of               *)
(* batch/annotation_consumer.go posts them in batches and, from a ticker,  *)
(* queues the rejected ones again.  Between the two is the rmq library,    *)
(* modelled from its use here: three redis lists, whose left end is the    *)
(* head of a sequence, a goroutine that fetches deliveries into a channel, *)
(* and one that collects batches from it.  Equal annotations are one       *)
(* payload, and rmq tells its deliveries apart by nothing else.  A post    *)
(* that fails need not have failed at the cloud: the answer may be lost,   *)
(* and the batch is then posted again.                                     *)
(***************************************************************************)
EXTENDS Naturals, SequencesExt

CONSTANTS
    Payload,      \* the annotations clients send
    MaxAccepted,  \* bound: annotations accepted in all
    UnackedLimit, \* 1000: capacity of the channel of deliveries
    MaxBatchSize, \* 299: deliveries in one batch
    MayLackKey,   \* whether the edge key can be missing when a batch is sent
    MaxAgain      \* bound: no answer is lost once an annotation was repeated so often

ASSUME QueueAssumption ==
    /\ IsFiniteSet(Payload)
    /\ {MaxAccepted, UnackedLimit, MaxBatchSize} \subseteq Nat \ {0}
    /\ MayLackKey \in BOOLEAN
    /\ MaxAgain \in Nat

VARIABLES
    ready, unacked, rejected, \* the lists of rmq in redis
    deliveries,               \* the channel of deliveries
    batch, next,              \* the batch under way, and how much of it is settled
    consumer,                 \* what AnnotationConsumer is doing with it
    redo, left,               \* the ticker's goroutine, and what it has yet to return
    tick,                     \* whether the ticker's channel holds a tick
    accepted, sent, dropped,  \* history: how often each was accepted, stored by the
                              \* cloud, given up
    again                     \* history: how often it was stored and the answer lost

lists == <<ready, unacked, rejected>>
history == <<accepted, sent, dropped, again>>
ticker == <<redo, left, tick>>
vars == <<lists, deliveries, batch, next, consumer, ticker, history>>

TypeOK ==
    /\ {ready, unacked, rejected, deliveries, batch} \subseteq Seq(Payload)
    /\ Len(deliveries) <= UnackedLimit /\ Len(batch) <= MaxBatchSize
    /\ next \in 0..Len(batch)
    /\ consumer \in {"collect", "post", "reject", "ack"}
    /\ redo \in {"first", "second", "redo"}
    /\ left \in 0..Len(rejected)
    /\ tick \in BOOLEAN
    /\ {accepted, dropped} \subseteq [Payload -> 0..MaxAccepted]
    /\ {sent, again} \subseteq [Payload -> Nat]

Zero == [p \in Payload |-> 0]

Init ==
    /\ ready = <<>> /\ unacked = <<>> /\ rejected = <<>>
    /\ deliveries = <<>> /\ batch = <<>> /\ next = 0
    /\ consumer = "collect" /\ redo = "first" /\ left = 0
    /\ tick = FALSE
    /\ accepted = Zero /\ sent = Zero /\ dropped = Zero /\ again = Zero

Count(list, p) == Cardinality({i \in DOMAIN list : list[i] = p})
Plus(counts, list) == [p \in Payload |-> counts[p] + Count(list, p)]

\* The sum of counts that are at most MaxAccepted.
Total(counts) == Cardinality({x \in Payload \X (1..MaxAccepted) : x[2] <= counts[x[1]]})

-----------------------------------------------------------------------------
\* Annotate, once the request has been found valid: LPUSH.
Annotate(p) ==
    /\ Total(accepted) < MaxAccepted
    /\ accepted' = Plus(accepted, <<p>>)
    /\ ready' = Cons(p, ready)
    /\ UNCHANGED <<unacked, rejected, deliveries, batch, next, consumer, ticker, sent, dropped, again>>

-----------------------------------------------------------------------------
(* The goroutines of rmq. *)

\* Mutated: one delivery too many is fetched.
HasPlace == Len(deliveries) <= UnackedLimit

\* What a batch has taken from the channel no longer counts.
HasRoom == Len(deliveries) < UnackedLimit

\* StartConsuming: RPOPLPUSH from ready to unacked.
Fetch ==
    /\ ready # <<>> /\ HasRoom
    /\ ready' = Front(ready)
    /\ unacked' = Cons(Last(ready), unacked)
    /\ deliveries' = Append(deliveries, Last(ready))
    /\ UNCHANGED <<rejected, batch, next, consumer, ticker, history>>

\* AddBatchConsumerWithTimeout: Consume is called with a full batch, or with
\* what there is when the time is up.
Collect ==
    /\ consumer = "collect"
    /\ deliveries # <<>> /\ Len(batch) < MaxBatchSize
    /\ batch' = Append(batch, Head(deliveries))
    /\ deliveries' = Tail(deliveries)
    /\ UNCHANGED <<lists, next, consumer, ticker, history>>

-----------------------------------------------------------------------------
(* Consume *)

\* Without an endpoint or a key the batch is neither acked nor rejected.
ConsumeReturns ==
    /\ consumer = "collect" /\ batch # <<>> /\ MayLackKey
    /\ dropped' = Plus(dropped, batch)
    /\ batch' = <<>>
    /\ UNCHANGED <<lists, deliveries, next, consumer, ticker, accepted, sent, again>>

\* A batch is posted, by Consume or once more by resty.
Posting == consumer \in {"collect", "post"} /\ batch # <<>>

Send ==
    /\ Posting
    /\ sent' = Plus(sent, batch)
    /\ consumer' = "ack"
    /\ UNCHANGED <<lists, deliveries, batch, next, ticker, accepted, dropped, again>>

\* Mutated: the batch is not rejected when the call fails.
SendIgnored ==
    /\ Posting
    /\ consumer' = "ack"
    /\ UNCHANGED <<lists, deliveries, batch, next, ticker, history>>

\* The cloud has nothing of the batch: it was not reached, or refused it.
SendFails ==
    /\ Posting
    /\ consumer' = "reject"
    /\ UNCHANGED <<lists, deliveries, batch, next, ticker, history>>

\* The cloud has the batch and its answer is lost, late or an error: resty
\* posts it again (SetRetryCount), or the call fails.
SendUnanswered ==
    /\ Posting /\ \A p \in Payload : again[p] < MaxAgain
    /\ sent' = Plus(sent, batch) /\ again' = Plus(again, batch)
    /\ consumer' \in {"post", "reject"}
    /\ UNCHANGED <<lists, deliveries, batch, next, ticker, accepted, dropped>>

\* LPUSH rejected, LREM unacked 1.
Rejected(p) == rejected' = Cons(p, rejected) /\ unacked' = RemoveFirst(unacked, p)

Reject ==
    /\ consumer = "reject" /\ next < Len(batch)
    /\ Rejected(batch[next + 1])
    /\ next' = next + 1
    /\ UNCHANGED <<ready, deliveries, batch, consumer, ticker, history>>

\* Mutated: the batch is collected on once it is rejected.
RejectsKept ==
    /\ consumer = "reject" /\ next = Len(batch)
    /\ consumer' = "collect" /\ next' = 0
    /\ UNCHANGED <<lists, deliveries, batch, ticker, history>>

\* The consumer does not return after Reject: all is acked as well.
RejectsDone ==
    /\ consumer = "reject" /\ next = Len(batch)
    /\ consumer' = "ack" /\ next' = 0
    /\ UNCHANGED <<lists, deliveries, batch, ticker, history>>

\* LREM unacked 1, which may meet an equal payload fetched meanwhile.
Ack ==
    /\ consumer = "ack" /\ next < Len(batch)
    /\ unacked' = RemoveFirst(unacked, batch[next + 1])
    /\ next' = next + 1
    /\ UNCHANGED <<ready, rejected, deliveries, batch, consumer, ticker, history>>

AcksDone ==
    /\ consumer = "ack" /\ next = Len(batch)
    /\ consumer' = "collect" /\ next' = 0 /\ batch' = <<>>
    /\ UNCHANGED <<lists, deliveries, ticker, history>>

-----------------------------------------------------------------------------
(* The ticker, and the loop that receives from it twice a round. *)

Tick ==
    /\ ~tick
    /\ tick' = TRUE
    /\ UNCHANGED <<lists, deliveries, batch, next, consumer, redo, left, history>>

ReceiveFirst ==
    /\ redo = "first" /\ tick
    /\ tick' = FALSE /\ redo' = "second"
    /\ UNCHANGED <<lists, deliveries, batch, next, consumer, left, history>>

\* ReturnAllRejected returns as many as it finds at first.
AllRejected == Len(rejected)

\* Mutated: the second tick is received and nothing is done.
ReceiveOnly ==
    /\ redo = "second" /\ tick
    /\ tick' = FALSE /\ redo' = "first"
    /\ UNCHANGED <<lists, deliveries, batch, next, consumer, left, history>>

ReceiveSecond ==
    /\ redo = "second" /\ tick
    /\ tick' = FALSE /\ redo' = "redo"
    /\ left' = AllRejected
    /\ UNCHANGED <<lists, deliveries, batch, next, consumer, history>>

\* RPOPLPUSH from rejected to ready.
ReturnRejected ==
    /\ redo = "redo" /\ left > 0
    /\ ready' = Cons(Last(rejected), ready)
    /\ rejected' = Front(rejected)
    /\ left' = left - 1
    /\ UNCHANGED <<unacked, deliveries, batch, next, consumer, redo, tick, history>>

RedoDone ==
    /\ redo = "redo" /\ left = 0
    /\ redo' = "first"
    /\ UNCHANGED <<lists, deliveries, batch, next, consumer, left, tick, history>>

Consumer == \/ ConsumeReturns \/ Send \/ SendFails \/ SendUnanswered
            \/ Reject \/ RejectsDone \/ Ack \/ AcksDone
Redo == ReceiveFirst \/ ReceiveSecond \/ ReturnRejected \/ RedoDone

Next == \/ \E p \in Payload : Annotate(p)
        \/ Fetch \/ Collect \/ Consumer \/ Tick \/ Redo

Spec == Init /\ [][Next]_vars

\* Goroutines are scheduled, time passes, and the cloud is reached, takes the
\* batch and is heard again and again.
LiveSpec == /\ Spec
            /\ WF_vars(Fetch) /\ WF_vars(Collect) /\ WF_vars(Consumer)
            /\ WF_vars(Tick) /\ WF_vars(Redo)
            /\ SF_vars(Send)

-----------------------------------------------------------------------------
\* What of the batch has been neither acknowledged by the cloud nor rejected.
Unsettled == CASE consumer \in {"collect", "post"} -> batch
               [] consumer = "reject"  -> SubSeq(batch, next + 1, Len(batch))
               [] consumer = "ack"     -> <<>>

\* As long as the server runs, an accepted annotation is in exactly one place:
\* taken by the cloud with an answer, given up for want of a key, queued,
\* rejected, or in the memory of a goroutine.  None is lost by a batch that is
\* rejected and acked while equal annotations are fetched and rejected ones are
\* returned, and the cloud has it twice only when an answer was lost.
Conserved == \A p \in Payload :
    accepted[p] + again[p]
      = sent[p] + dropped[p] + Count(ready \o rejected \o deliveries \o Unsettled, p)

\* Every annotation is sent in the end, however long the cloud could not be
\* reached ("in case of internet outage on the edge"), or was given up when
\* the key was missing; a copy whose answer was lost is not the last one.
AllSent == <>[](\A p \in Payload : sent[p] + dropped[p] = accepted[p] + again[p])

\* The abstract outbox: what waits is anywhere between the client and the cloud.
Waiting == [p \in Payload |-> Count(ready \o rejected \o deliveries \o Unsettled, p)]

Promise == INSTANCE Outbox WITH
    MaxBatch <- MaxBatchSize, MayGiveUp <- MayLackKey, waiting <- Waiting

\* Fetching, rejecting, acknowledging twice and queueing again are invisible:
\* to the client it is an outbox that delivers at least once.  Each step accepts
\* one annotation, delivers a batch of those that wait, delivers one that goes
\* on waiting, or gives one up for want of a key, and nothing waits for ever.
IsOutbox == Promise!Spec
=============================================================================
