---------------------------- MODULE DeviceEvents ----------------------------
(***************************************************************************)
(* How the state of a container reaches the cloud: the docker events that  *)
(* mqtt_communications.go receives, and changedDeviceState and             *)
(* reportDeviceStateChange of mqtt_impl.go.  Each event of a device starts *)
(* a goroutine that sleeps Delay, then looks at the newest event.  All of  *)
(* it is kept by the device's name, so one device is modelled.  A history  *)
(* of up to 11 events is stored, of which only the newest is ever read.    *)
(* No name is one of Gateway's, the other part of the session: MqttProofs  *)
(* extends both.                                                           *)
(***************************************************************************)
EXTENDS Naturals, Sequences

CONSTANTS
    Check,     \* bound: the goroutines past their sleep at a time
    Delay,     \* 5 s: the sleep before a goroutine looks
    MayFail,   \* whether Info, the settings or publishing may fail in this instance
    NoEvent,   \* no event, and no status, yet
    MaxEvents, \* bound: docker events
    MaxTime    \* bound: the clock stops here

ASSUME EventsAssumption ==
    /\ {Delay, MaxEvents, MaxTime} \subseteq Nat /\ Delay > 0
    /\ MayFail \in BOOLEAN

Action == {"create", "start", "die", "kill", "stop", "destroy"}
Event  == [action : Action, id : 1..MaxEvents]
Status == (Action \ {"die", "start"}) \cup {"restarting", "running"}

ASSUME NoEventAssumption == NoEvent \notin Event \cup Status

VARIABLES
    now,       \* time.Now()
    container, \* the device's container in docker
    messages,  \* docker events that are not received yet
    emitted,   \* how many there have been
    last,      \* processEvents: the newest event received
    waiting,   \* when the sleeping goroutines wake
    check,     \* the goroutines that are awake
    notified,  \* lastProcessEventNotified
    cloud,     \* the last status published
    failed     \* history: the last attempt was given up though the container is there

events == <<now, container, messages, emitted, last, waiting, check, notified, cloud, failed>>

Asleep == [pc |-> "off", seen |-> NoEvent]

EventsTypeOK ==
    /\ now \in 0..MaxTime
    /\ container \in [state : {"none", "running", "dead"}, id : 0..MaxEvents]
    /\ messages \in Seq(Event)
    /\ emitted \in 0..MaxEvents
    /\ {last, notified} \subseteq Event \cup {NoEvent}
    /\ waiting \in Seq(Delay..(MaxTime + Delay))
    /\ check \in [Check -> [pc : {"off", "compare", "first", "info", "publish"},
                            seen : Event \cup {NoEvent}]]
    /\ cloud \in Status \cup {NoEvent} /\ failed \in BOOLEAN

EventsInit ==
    /\ now = 0
    /\ container = [state |-> "none", id |-> 0]
    /\ messages = <<>> /\ emitted = 0
    /\ last = NoEvent /\ notified = NoEvent /\ cloud = NoEvent /\ failed = FALSE
    /\ waiting = <<>>
    /\ check = [g \in Check |-> Asleep]

-----------------------------------------------------------------------------
(* Docker, a container that restarts always, and the process manager that   *)
(* starts and stops it.                                                     *)

Emit(from, to, id, actions) ==
    /\ container.state = from /\ emitted + Len(actions) <= MaxEvents
    /\ container' = [state |-> to, id |-> id]
    /\ emitted' = emitted + Len(actions)
    /\ messages' = messages \o [i \in 1..Len(actions) |-> [action |-> actions[i], id |-> id]]
    /\ UNCHANGED <<now, last, waiting, check, notified, cloud, failed>>

Docker == \/ Emit("none", "running", container.id + 1, <<"create", "start">>)
          \/ Emit("running", "dead", container.id, <<"die">>)
          \/ Emit("dead", "running", container.id, <<"start">>)
          \/ Emit("running", "none", container.id, <<"kill", "die", "stop", "destroy">>)

\* Assumed: a second is long for all that is not a sleep.
Settled == /\ messages = <<>>
           /\ \A g \in Check : check[g].pc = "off"
           /\ \A i \in 1..Len(waiting) : now < waiting[i]

Tick == /\ now < MaxTime
        /\ Settled
        /\ now' = now + 1
        /\ UNCHANGED <<container, messages, emitted, last, waiting, check, notified, cloud, failed>>

-----------------------------------------------------------------------------
(* changedDeviceState and the goroutine it starts *)

changedDeviceState ==
    /\ messages # <<>>
    /\ last' = Head(messages)
    /\ messages' = Tail(messages)
    /\ waiting' = Append(waiting, now + Delay)
    /\ UNCHANGED <<now, container, emitted, check, notified, cloud, failed>>

\* The goroutine reads the history without the lock.
Wake(g) ==
    /\ check[g].pc = "off"
    /\ waiting # <<>> /\ Head(waiting) <= now
    /\ waiting' = Tail(waiting)
    /\ check' = [check EXCEPT ![g] = [pc |-> "compare", seen |-> last]]
    /\ UNCHANGED <<now, container, messages, emitted, last, notified, cloud, failed>>

\* Mutated: the comparison is inverted.
hasSameDevice(stored, current) == stored = current

\* The signature of an event is its action and the container's id.
hasDeviceDifferences(stored, current) == stored # current

Compare(g) ==
    /\ check[g].pc = "compare"
    /\ check' = [check EXCEPT ![g] =
          IF notified = NoEvent THEN [@ EXCEPT !.pc = "first"]
          ELSE IF hasDeviceDifferences(notified, check[g].seen) THEN [@ EXCEPT !.pc = "info"]
          ELSE Asleep]
    /\ UNCHANGED <<now, container, messages, emitted, last, waiting, notified, cloud, failed>>

\* Only the first event is ever stored, before it has been reported.
StoreFirst(g) ==
    /\ check[g].pc = "first"
    /\ notified' = check[g].seen
    /\ check' = [check EXCEPT ![g].pc = "info"]
    /\ UNCHANGED <<now, container, messages, emitted, last, waiting, cloud, failed>>

\* A process that docker does not know is not reported.
Info(g) ==
    /\ check[g].pc = "info"
    /\ check' = [check EXCEPT ![g] = IF container.state = "none" THEN Asleep
                                     ELSE [@ EXCEPT !.pc = "publish"]]
    /\ UNCHANGED <<now, container, messages, emitted, last, waiting, notified, cloud, failed>>

\* Neither is one without a record, which is no error, nor one of which docker,
\* the datastore or the settings cannot be read.
InfoFails(g) ==
    /\ check[g].pc = "info" /\ container.state # "none" /\ MayFail
    /\ failed' = TRUE
    /\ check' = [check EXCEPT ![g] = Asleep]
    /\ UNCHANGED <<now, container, messages, emitted, last, waiting, notified, cloud>>

\* Mutated: docker's names are passed on.
sameActionAndStatus(action) == action

deviceActionToStatus(action) ==
    CASE action = "die" -> "restarting" [] action = "start" -> "running" [] OTHER -> action

Report(g) ==
    /\ check[g].pc = "publish"
    /\ cloud' = deviceActionToStatus(check[g].seen.action) /\ failed' = FALSE
    /\ check' = [check EXCEPT ![g] = Asleep]
    /\ UNCHANGED <<now, container, messages, emitted, last, waiting, notified>>

ReportFails(g) ==
    /\ check[g].pc = "publish" /\ MayFail
    /\ failed' = TRUE
    /\ check' = [check EXCEPT ![g] = Asleep]
    /\ UNCHANGED <<now, container, messages, emitted, last, waiting, notified, cloud>>

EventsNext ==
    \/ Docker \/ Tick \/ changedDeviceState
    \/ \E g \in Check : \/ Wake(g) \/ Compare(g) \/ StoreFirst(g) \/ Info(g) \/ InfoFails(g)
                        \/ Report(g) \/ ReportFails(g)

EventsSpec == EventsInit /\ [][EventsNext]_events

-----------------------------------------------------------------------------
Quiet == Settled /\ waiting = <<>>

\* When nothing has happened for a while, a running or restarting device has
\* been reported, and its newest event too unless it is like the first one,
\* or else the last attempt was given up, for want of a record or at an error:
\* whatever the order in which the goroutines of a burst of events run.
NewsReported ==
    Quiet /\ container.state # "none" /\ ~failed =>
        /\ cloud # NoEvent
        /\ last = notified \/ cloud = deviceActionToStatus(last.action)
=============================================================================
