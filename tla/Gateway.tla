------------------------------ MODULE Gateway ------------------------------
(***************************************************************************)
(* The MQTT gateway: which cameras the cloud takes to be bound to this     *)
(* edge, against the ones installed here.  REST handlers install and       *)
(* remove cameras and publish the change on a redis channel; so does       *)
(* onMessage with the commands of the cloud.  The listener of run carries  *)
(* the changes and commands out, one at a time, and reports them over      *)
(* MQTT.  The session is opened once and, whenever its token is about to   *)
(* expire, closed and opened again; each time all cameras are reported     *)
(* (mqtt_communications.go, mqtt_impl.go, mqtt_process_operations.go).     *)
(*                                                                         *)
(* Installing, removing and upgrading a camera are one step each here, with*)
(* the outcomes their callers can tell apart and those they cannot:        *)
(* Processes is about what they do.                                        *)
(***************************************************************************)
EXTENDS Naturals, SequencesExt

CONSTANTS
    Camera,    \* names of cameras
    Handler,   \* bound: REST requests in progress
    MaxCalls,  \* bound: requests, commands and restarts of the server in all
    MaxOut,    \* bound: reports waiting when the list is started again
    None       \* no camera

ASSUME GatewayAssumption == {MaxCalls, MaxOut} \subseteq Nat

VARIABLES
    installed, \* the cameras Info knows
    handler,   \* the REST handlers
    channel,   \* changes on the way to the listener
    listener,  \* what the listener is doing, "off" before it subscribes
    link,      \* how far connecting is
    todo,      \* cameras bindAllDevices has yet to report
    client,    \* the MQTT client: none, up, or down and reconnecting
    out,       \* what the client has yet to deliver to the cloud
    bound,     \* the cameras bound in the cloud
    calls,     \* calls so far
    excused    \* history: cameras that went while nobody, or a lost message, told it

vars == <<installed, handler, channel, listener, link, todo, client, out, bound,
          calls, excused>>

Change == [op : {"add", "remove"}, name : Camera]
Local  == [op : {"add", "remove", "start", "delete"}, name : Camera]
Idle   == [op |-> "none", name |-> None, pc |-> "idle"]
Off    == [op |-> "none", name |-> None, pc |-> "off"]

TypeOK ==
    /\ installed \in SUBSET Camera /\ bound \in SUBSET Camera
    /\ handler \in [Handler -> {Idle} \cup
                     [op : {"add", "remove", "upgrade"}, name : Camera, pc : {"call", "publish"}]]
    /\ channel \in Seq(Local) /\ out \in Seq(Change)
    /\ listener \in {Idle, Off} \cup
         [op : {"add", "remove", "start", "delete"}, name : Camera,
          pc : {"bind", "attach", "detach", "look", "create", "info", "stop"}]
    /\ link \in {"settings", "connect", "sleep", "attach", "subscribe", "run", "up", "over"}
    /\ todo \in SUBSET Camera
    /\ client \in {"none", "up", "down"}
    /\ calls \in 0..MaxCalls
    /\ excused \in SUBSET Camera

Init ==
    /\ installed = {} /\ bound = {} /\ todo = {} /\ excused = {}
    /\ handler = [h \in Handler |-> Idle]
    /\ listener = Off
    /\ channel = <<>> /\ out = <<>>
    /\ link = "settings" /\ client = "none"
    /\ calls = 0

Counted == calls < MaxCalls /\ calls' = calls + 1

Install(n) == installed' = installed \cup {n} /\ UNCHANGED excused

\* A camera removed while bindAllDevices has it on its list may be bound anew.
Uninstall(n) ==
    /\ installed' = installed \ {n}
    /\ excused' = IF n \in todo THEN excused \cup {n} ELSE excused

\* The camera is gone and the caller gets an error all the same: the pruning at
\* the end of Stop failed, or an upgrade lost the container it replaces.
GoneUntold(n) == installed' = installed \ {n} /\ excused' = excused \cup {n}

\* PublishToRedis: pub/sub keeps nothing for a listener that is not there.
PublishToRedis(op, n) ==
    \/ /\ listener # Off
       /\ channel' = Append(channel, [op |-> op, name |-> n])
       /\ UNCHANGED excused
    \/ /\ excused' = IF op = "remove" THEN excused \cup {n} ELSE excused
       /\ UNCHANGED channel

\* publishTelemetry: at least once while the client is connected or comes
\* back; an error is logged and nothing more.
Publish(op, n) ==
    IF client = "none"
    THEN /\ excused' = IF op = "remove" THEN excused \cup {n} ELSE excused
         /\ UNCHANGED out
    ELSE out' = Append(out, [op |-> op, name |-> n]) /\ UNCHANGED excused

-----------------------------------------------------------------------------
(* REST: StartRTSP, Stop and UpgradeContainer *)

Request(h) ==
    /\ handler[h] = Idle /\ Counted
    /\ \E op \in {"add", "remove", "upgrade"}, n \in Camera :
          handler' = [handler EXCEPT ![h] = [op |-> op, name |-> n, pc |-> "call"]]
    /\ UNCHANGED <<installed, channel, listener, link, todo, client, out, bound, excused>>

HandlerIdle(h) == handler' = [handler EXCEPT ![h] = Idle]
HandlerGoesOn(h) == handler' = [handler EXCEPT ![h].pc = "publish"]

\* Starting what is there fails.  What Info does not know may be stopped: a
\* container without a record, or one that another request has just stopped.
\* After an error nothing is published, whatever was done before it.
HandlerCalls(h) ==
    /\ handler[h].pc = "call"
    /\ LET n == handler[h].name
           op == handler[h].op
       IN  \/ op = "add" /\ n \notin installed /\ Install(n) /\ HandlerGoesOn(h)
           \/ op = "remove" /\ Uninstall(n) /\ HandlerGoesOn(h)
           \/ /\ op = "upgrade" /\ n \in installed /\ HandlerGoesOn(h)
              /\ UNCHANGED <<installed, excused>>
           \/ op # "add" /\ n \in installed /\ GoneUntold(n) /\ HandlerIdle(h)
           \/ HandlerIdle(h) /\ UNCHANGED <<installed, excused>>
    /\ UNCHANGED <<channel, listener, link, todo, client, out, bound, calls>>

HandlerPublishes(h) ==
    /\ handler[h].pc = "publish"
    /\ PublishToRedis(IF handler[h].op = "remove" THEN "remove" ELSE "add", handler[h].name)
    /\ HandlerIdle(h)
    /\ UNCHANGED <<installed, listener, link, todo, client, out, bound, calls>>

\* onMessage: the session keeps commands for a client that is away, so they
\* come as soon as it is connected.
OnMessage ==
    /\ client = "up" /\ Counted
    /\ \E op \in {"start", "delete"}, n \in Camera : PublishToRedis(op, n)
    /\ UNCHANGED <<installed, handler, listener, link, todo, client, out, bound>>

-----------------------------------------------------------------------------
(* The listener: bindDevice, unbindDevice, StartCamera and StopCamera.      *)

ListenerAt(pc) == listener.pc = pc
ListenerTo(pc) == listener' = [listener EXCEPT !.pc = pc]

\* Mutated: an operation is not told from the step it asks for.
SameStep(op) == op

FirstStep(op) == CASE op = "add" -> "bind" [] op = "remove" -> "detach"
                   [] op = "start" -> "look" [] op = "delete" -> "info"

Receive ==
    /\ listener = Idle /\ channel # <<>>
    /\ LET m == Head(channel) IN
       listener' = [op |-> m.op, name |-> m.name, pc |-> FirstStep(m.op)]
    /\ channel' = Tail(channel)
    /\ UNCHANGED <<installed, handler, link, todo, client, out, bound, calls, excused>>

\* bindDevice asks for the camera, which may fail, and then reports it.
Bind ==
    /\ ListenerAt("bind")
    /\ (listener.name \in installed /\ ListenerTo("attach")) \/ listener' = Idle
    /\ UNCHANGED <<installed, handler, channel, link, todo, client, out, bound, calls, excused>>

\* StartCamera goes on after it has reported a camera that was there already,
\* and then fails on the name unless the camera has gone meanwhile.
Attach ==
    /\ ListenerAt("attach")
    /\ Publish("add", listener.name)
    /\ IF listener.op = "start" THEN ListenerTo("create") ELSE listener' = Idle
    /\ UNCHANGED <<installed, handler, channel, link, todo, client, bound, calls>>

\* Mutated: nothing is reported.
DetachNothing ==
    /\ ListenerAt("detach")
    /\ listener' = Idle
    /\ UNCHANGED <<installed, handler, channel, link, todo, client, out, bound, calls, excused>>

\* unbindDevice reads the settings first, and does not report without them.
Detach ==
    /\ ListenerAt("detach")
    /\ \/ Publish("remove", listener.name)
       \/ excused' = excused \cup {listener.name} /\ UNCHANGED out
    /\ listener' = Idle
    /\ UNCHANGED <<installed, handler, channel, link, todo, client, bound, calls>>

\* StartCamera takes any error of Info for a camera that is not there.
LookFirst ==
    /\ ListenerAt("look")
    /\ (listener.name \in installed /\ ListenerTo("bind")) \/ ListenerTo("create")
    /\ UNCHANGED <<installed, handler, channel, link, todo, client, out, bound, calls, excused>>

\* Start may fail for want of an image.  A camera it has started is bound.
Create ==
    /\ ListenerAt("create")
    /\ \/ /\ listener.name \notin installed /\ Install(listener.name)
          /\ listener' = [listener EXCEPT !.op = "add", !.pc = "bind"]
       \/ listener' = Idle /\ UNCHANGED <<installed, excused>>
    /\ UNCHANGED <<handler, channel, link, todo, client, out, bound, calls>>

\* StopCamera reports a camera that docker does not know as well, and gives up
\* at any other error of Info: docker's, or a container without a record.
InfoFirst ==
    /\ ListenerAt("info")
    /\ \/ ListenerTo(IF listener.name \in installed THEN "stop" ELSE "detach")
       \/ listener' = Idle
    /\ UNCHANGED <<installed, handler, channel, link, todo, client, out, bound, calls, excused>>

\* As the request does, StopCamera returns at any error of Stop.
StopCamera ==
    /\ ListenerAt("stop")
    /\ \/ Uninstall(listener.name) /\ ListenerTo("detach")
       \/ listener.name \in installed /\ GoneUntold(listener.name) /\ listener' = Idle
       \/ listener' = Idle /\ UNCHANGED <<installed, excused>>
    /\ UNCHANGED <<handler, channel, link, todo, client, out, bound, calls>>

Listen == Receive \/ Bind \/ Attach \/ Detach \/ LookFirst \/ Create \/ InfoFirst \/ StopCamera

-----------------------------------------------------------------------------
(* StartGatewayListener, gatewayInit, connectClient, monitorTokenExpiration *)

LinkTo(from, to) == link = from /\ link' = to

SettingsFound ==
    /\ LinkTo("settings", "connect")
    /\ UNCHANGED <<installed, handler, channel, listener, todo, client, out, bound, calls, excused>>

Connect ==
    /\ LinkTo("connect", "sleep")
    /\ client' = "up"
    /\ UNCHANGED <<installed, handler, channel, listener, todo, out, bound, calls, excused>>

\* The goroutine that was connecting ends, and nothing tries again.
ConnectFails ==
    /\ LinkTo("connect", "over")
    /\ UNCHANGED <<installed, handler, channel, listener, todo, client, out, bound, calls, excused>>

\* bindAllDevices takes the list, and reports each camera on it.
ListAll ==
    /\ LinkTo("sleep", "attach")
    /\ todo' = installed
    /\ UNCHANGED <<installed, handler, channel, listener, client, out, bound, calls, excused>>

\* Mutated: the cameras on the list are not reported.
AttachNone ==
    /\ link = "attach"
    /\ todo' = {}
    /\ UNCHANGED <<installed, handler, channel, listener, link, client, out, bound, calls, excused>>

AttachNext ==
    /\ link = "attach"
    /\ \E n \in todo : Publish("add", n) /\ todo' = todo \ {n}
    /\ UNCHANGED <<installed, handler, channel, listener, link, client, bound, calls>>

AttachedAll ==
    /\ todo = {} /\ LinkTo("attach", "subscribe")
    /\ UNCHANGED <<installed, handler, channel, listener, todo, client, out, bound, calls, excused>>

\* A failing subscription starts the list again five seconds later.
Subscribe ==
    /\ \/ Len(out) < MaxOut /\ LinkTo("subscribe", "sleep")
       \/ client = "up" /\ LinkTo("subscribe", IF listener = Off THEN "run" ELSE "up")
    /\ UNCHANGED <<installed, handler, channel, listener, todo, client, out, bound, calls, excused>>

\* run subscribes to the channel once, after the first session is there.
StartListener ==
    /\ LinkTo("run", "up")
    /\ listener' = Idle
    /\ UNCHANGED <<installed, handler, channel, todo, client, out, bound, calls, excused>>

\* The token is about to expire: Disconnect, and a new client, which does not
\* have what the old one had yet to deliver.
Expire ==
    /\ LinkTo("up", "connect")
    /\ client' = "none" /\ out' = <<>>
    /\ excused' = excused \cup {m.name : m \in {k \in ToSet(out) : k.op = "remove"}}
    /\ UNCHANGED <<installed, handler, channel, listener, todo, bound, calls>>

\* onConnectionLost, and the reconnection of the client itself.
Lose ==
    /\ client = "up" /\ client' = "down"
    /\ UNCHANGED <<installed, handler, channel, listener, link, todo, out, bound, calls, excused>>

Reconnect ==
    /\ client = "down" /\ client' = "up"
    /\ UNCHANGED <<installed, handler, channel, listener, link, todo, out, bound, calls, excused>>

\* Quality of service 1: delivered again when the acknowledgement is lost.
Deliver ==
    /\ client = "up" /\ out # <<>>
    /\ LET m == Head(out) IN
       bound' = IF m.op = "add" THEN bound \cup {m.name} ELSE bound \ {m.name}
    /\ \/ out' = Tail(out) /\ UNCHANGED client
       \/ client' = "down" /\ UNCHANGED out
    /\ UNCHANGED <<installed, handler, channel, listener, link, todo, calls, excused>>

Mentioned(n) ==
    \/ \E h \in Handler : handler[h].name = n
    \/ listener.name = n
    \/ \E m \in ToSet(channel) \cup ToSet(out) : m.name = n

\* The server ends with all it has in memory and is started again.
Restart ==
    /\ Counted
    /\ handler' = [h \in Handler |-> Idle]
    /\ listener' = Off
    /\ channel' = <<>> /\ out' = <<>> /\ todo' = {}
    /\ link' = "settings" /\ client' = "none"
    /\ excused' = excused \cup {n \in Camera : Mentioned(n)}
    /\ UNCHANGED <<installed, bound>>

Handle(h) == HandlerCalls(h) \/ HandlerPublishes(h)
Link == SettingsFound \/ Connect \/ ListAll \/ AttachNext \/ AttachedAll \/ StartListener \/ Expire

Next == \/ \E h \in Handler : Request(h) \/ Handle(h)
        \/ OnMessage \/ Listen
        \/ Link \/ ConnectFails \/ Subscribe
        \/ Lose \/ Reconnect \/ Deliver \/ Restart

Spec == Init /\ [][Next]_vars

\* Goroutines run, tokens expire, and subscribing and delivering succeed
\* again and again.
LiveSpec ==
    /\ Spec
    /\ \A h \in Handler : WF_vars(Handle(h))
    /\ WF_vars(Listen) /\ WF_vars(Link) /\ WF_vars(Reconnect)
    /\ SF_vars(Subscribe /\ link' # "sleep")
    /\ SF_vars(Deliver /\ out' # out)

-----------------------------------------------------------------------------
\* Once nothing about a camera is under way, the cloud has it bound only if it
\* is installed, in whatever order requests, commands and the reports of a new
\* session met.  Nothing repairs what is missed, so the exceptions stay: Stop or
\* an upgrade failed after the camera was gone, the news of the removal was lost
\* (no listener, no client, no settings, a session closed, a restart), or it was
\* removed while bindAllDevices had it on its list.
BoundIsInstalled == \A n \in bound : n \in installed \/ n \in excused \/ Mentioned(n)

\* A camera that stays installed is bound in the cloud in the end, whatever
\* was lost on the way, if no attempt to connect fails and the connection stops
\* breaking down at last.
InstalledIsBound ==
    [](link # "over") /\ <>[](client # "down") =>
        \A n \in Camera : <>[](n \in installed) => <>[](n \in bound)
=============================================================================
