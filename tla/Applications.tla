---------------------------- MODULE Applications ----------------------------
(***************************************************************************)
(* Applications are installed and removed by commands of the cloud and by  *)
(* requests.  Commands reach the listener of mqtt_communications.go over a *)
(* channel of redis; it handles one after the other with PullApplication,  *)
(* StartApplication and StopApplication of mqtt_process_operations.go and  *)
(* tells the cloud what became of them (notifyMqtt).  The requests of      *)
(* app_process.go use the same Install (app_process_manager.go) and Stop   *)
(* (process_manager.go) at the same time and tell nothing.                 *)
(*                                                                         *)
(* The session with the cloud is modelled in Gateway, Info and ListApps in *)
(* Processes, the reports of docker's own events in DeviceEvents.          *)
(***************************************************************************)
EXTENDS Naturals, SequencesExt

CONSTANTS
    App,          \* the names of applications
    Request,      \* goroutines of requests
    MaxCommands,  \* bound: commands that arrive
    MaxCalls,     \* bound: requests
    MaxId,        \* bound: containers created
    None          \* no name: the removal that a request publishes has none

Listener == "listener"

ASSUME ApplicationsAssumption ==
    /\ {MaxCommands, MaxCalls, MaxId} \subseteq Nat
    /\ Listener \notin Request /\ None \notin App

VARIABLES
    docker,    \* the container of each name
    images,    \* the applications whose image is there
    record,    \* the applications with a record in the datastore
    worker,    \* the goroutines: of requests and, under Listener, the listener
    channel,   \* the messages for the listener
    cloud,     \* what the cloud was told last of each application
    stale,     \* whether that may have changed, or a report was not made
    last,      \* the last command put into the channel
    created,   \* counts the containers, whose ids are these numbers
    commands,  \* counts the commands
    calls      \* counts the requests

vars == <<docker, images, record, worker, channel, cloud, stale, last,
          created, commands, calls>>
host == <<docker, created>>
told == <<cloud, stale>>
asked == <<last, commands, calls>>

Worker == Request \cup {Listener}
Command == [op : {"add", "remove"}, name : App \cup {None}]
NoContainer == [state |-> "none", id |-> 0]

\* say: what the listener is to tell; doubt: whether others have changed the
\* container since it began, or an error of docker was ignored.
Idle == [op |-> "none", pc |-> "idle", name |-> None, id |-> 0, say |-> "none",
         doubt |-> FALSE]

TypeOK ==
    /\ docker \in
         [App -> [state : {"none", "created", "running", "exited"}, id : 0..MaxId]]
    /\ images \subseteq App /\ record \subseteq App
    /\ worker \in [Worker ->
         [op : {"none", "add", "remove"},
          pc : {"idle", "images", "pull", "prune", "create", "run", "put", "get", "stop",
                "del", "clean", "publish", "tell"},
          name : App \cup {None}, id : 0..MaxId,
          say : {"none", "in-progress", "failed", "running", "exited"}, doubt : BOOLEAN]]
    /\ \A r \in Request : worker[r].pc \notin {"images", "tell"}
    /\ channel \in Seq(Command)
    /\ cloud \in [App -> {"none", "in-progress", "failed", "running", "exited"}]
    /\ stale \in [App -> BOOLEAN]
    /\ last \in [App -> {"none", "add", "remove"}]
    /\ created \in 0..MaxId /\ commands \in 0..MaxCommands /\ calls \in 0..MaxCalls

Init ==
    /\ docker = [a \in App |-> NoContainer]
    /\ images = {} /\ record = {}
    /\ worker = [w \in Worker |-> Idle]
    /\ channel = <<>>
    /\ cloud = [a \in App |-> "none"] /\ stale = [a \in App |-> FALSE]
    /\ last = [a \in App |-> "none"]
    /\ created = 0 /\ commands = 0 /\ calls = 0

At(w, pc) == worker[w].pc = pc
Goto(w, pc) == [worker EXCEPT ![w].pc = pc]
Tells(w, state) == [worker EXCEPT ![w].pc = "tell", ![w].say = state]
Return(w) == [worker EXCEPT ![w] = Idle]

\* What others do to a container is not what the listener tells of it.
Touch(w, a, f) ==
    IF w = Listener THEN worker' = f /\ UNCHANGED stale
    ELSE /\ stale' = [stale EXCEPT ![a] = TRUE]
         /\ worker' = [f EXCEPT ![Listener].doubt = @ \/ worker[Listener].name = a]

\* Mutated: requests tell it as well.
FailedTold(w) == Tells(w, "failed")

\* An operation fails: the listener tells the cloud.
Failed(w) == IF w = Listener THEN Tells(w, "failed") ELSE Return(w)

-----------------------------------------------------------------------------
(* Commands and requests *)

\* onMessage: a command of the cloud, possibly one that arrives again, is
\* published to the channel.
Arrive ==
    /\ commands < MaxCommands
    /\ \E c \in Command :
         /\ c.name # None
         /\ channel' = Append(channel, c)
         /\ last' = [last EXCEPT ![c.name] = c.op]
    /\ commands' = commands + 1
    /\ UNCHANGED <<host, images, record, worker, told, calls>>

\* Mutated: the newest first.
NextNewest == Len(channel)

\* One message after the other.
NextMessage == 1

\* The listener takes a message.  One without a payload is reported as the
\* failure of an application without a name.
Take ==
    /\ channel # <<>> /\ At(Listener, "idle")
    /\ LET c == channel[NextMessage] IN
         worker' = IF c.name = None THEN worker
                   ELSE [worker EXCEPT ![Listener] =
                          [Idle EXCEPT !.op = c.op, !.name = c.name,
                                       !.pc = IF c.op = "add" THEN "images" ELSE "get"]]
    /\ channel' = RemoveAt(channel, NextMessage)
    /\ UNCHANGED <<host, images, record, told, asked>>

\* InstallApp, which always pulls, and RemoveApp.
Call(r) ==
    /\ At(r, "idle") /\ calls < MaxCalls
    /\ \E a \in App, op \in {"add", "remove"} :
         worker' = [worker EXCEPT ![r] =
           [Idle EXCEPT !.op = op, !.name = a,
                        !.pc = IF op = "add" THEN "pull" ELSE "get"]]
    /\ calls' = calls + 1
    /\ UNCHANGED <<host, images, record, channel, told, last, commands>>

-----------------------------------------------------------------------------
(* PullApplication, and the pull of InstallApp *)

Images(w) ==
    /\ At(w, "images")
    /\ worker' = IF worker[w].name \in images THEN Goto(w, "prune")
                                              ELSE Tells(w, "in-progress")
    /\ UNCHANGED <<host, images, record, channel, told, asked>>

\* The list of images cannot be had: nothing is told.
ImagesFail(w) ==
    /\ At(w, "images")
    /\ worker' = Return(w)
    /\ stale' = [stale EXCEPT ![worker[w].name] = TRUE]
    /\ UNCHANGED <<host, images, record, channel, cloud, asked>>

Pull(w) ==
    /\ At(w, "pull")
    /\ images' = images \cup {worker[w].name}
    /\ worker' = Goto(w, "prune")
    /\ UNCHANGED <<host, record, channel, told, asked>>

\* Mutated: the failure is not told.
PullEnds(w) ==
    /\ At(w, "pull")
    /\ worker' = Return(w)
    /\ UNCHANGED <<host, images, record, channel, told, asked>>

\* The image is not pulled, or its tag cannot be split.
PullFails(w) ==
    /\ At(w, "pull")
    /\ worker' = Failed(w)
    /\ UNCHANGED <<host, images, record, channel, told, asked>>

-----------------------------------------------------------------------------
(* Install *)

\* ContainersPrune removes what does not run, whoever it belongs to.
Pruned == [a \in App |-> IF docker[a].state = "running" THEN docker[a] ELSE NoContainer]

Prune(w) ==
    /\ At(w, "prune")
    /\ docker' = Pruned
    /\ worker' = Goto(w, "create")
    /\ UNCHANGED <<created, images, record, channel, told, asked>>

Create(w) ==
    /\ At(w, "create") /\ created < MaxId
    /\ LET a == worker[w].name IN
         /\ docker[a].state = "none"
         /\ created' = created + 1
         /\ docker' = [docker EXCEPT ![a] = [state |-> "created", id |-> created']]
    /\ worker' = Goto(w, "run")
    /\ UNCHANGED <<images, record, channel, told, asked>>

\* The name is in use, or anything else keeps docker from it: all of it is
\* told as a conflict of names.
Conflict(w) ==
    /\ At(w, "create")
    /\ worker' = Failed(w)
    /\ UNCHANGED <<host, images, record, channel, told, asked>>

\* ContainerStart goes by name.
Run(w) ==
    /\ At(w, "run")
    /\ LET a == worker[w].name IN
         /\ docker[a].state # "none"
         /\ docker' = [docker EXCEPT ![a].state = "running"]
         /\ Touch(w, a, Goto(w, "put"))
    /\ UNCHANGED <<created, images, record, channel, cloud, asked>>

\* Mutated: under the prefix of cameras.
PutElsewhere(w) ==
    /\ At(w, "put")
    /\ Touch(w, worker[w].name, IF w = Listener THEN Tells(w, "running") ELSE Return(w))
    /\ UNCHANGED <<host, images, record, channel, cloud, asked>>

Put(w) ==
    /\ At(w, "put")
    /\ record' = record \cup {worker[w].name}
    /\ Touch(w, worker[w].name, IF w = Listener THEN Tells(w, "running") ELSE Return(w))
    /\ UNCHANGED <<host, images, channel, cloud, asked>>

\* Pruning, starting or storing fails: what was done is left as it is.
InstallFails(w) ==
    /\ worker[w].pc \in {"prune", "run", "put"}
    /\ worker' = Failed(w)
    /\ UNCHANGED <<host, images, record, channel, told, asked>>

-----------------------------------------------------------------------------
(* Stop *)

\* After Stop: the listener tells, RemoveApp publishes.
Stopped(w) == IF w = Listener THEN Tells(w, "exited") ELSE Goto(w, "publish")

\* An application that docker does not know is not stopped; the listener
\* takes that for success and RemoveApp for failure.
Get(w) ==
    /\ At(w, "get")
    /\ LET c == docker[worker[w].name] IN
         worker' = IF c.state # "none"
                   THEN [worker EXCEPT ![w].pc = "stop", ![w].id = c.id]
                   ELSE IF w = Listener THEN Tells(w, "exited") ELSE Return(w)
    /\ UNCHANGED <<host, images, record, channel, told, asked>>

\* Any error but that one is dropped, and the container it did not return is
\* used: a request panics and ends, the listener takes the server down, see
\* Restart.
GetFails(r) ==
    /\ At(r, "get")
    /\ worker' = Return(r)
    /\ UNCHANGED <<host, images, record, channel, told, asked>>

Ended(a) == [docker EXCEPT ![a].state = "exited"]

\* ContainerStop goes by id; a container that is gone is success.
Stop(w) ==
    /\ At(w, "stop")
    /\ LET a == worker[w].name IN
       IF docker[a].id = worker[w].id
       THEN docker' = Ended(a) /\ Touch(w, a, Goto(w, "del"))
       ELSE worker' = Stopped(w) /\ UNCHANGED <<docker, stale>>
    /\ UNCHANGED <<created, images, record, channel, cloud, asked>>

\* Any other error is ignored, and the record is deleted all the same.
StopFails(w) ==
    /\ At(w, "stop")
    /\ Touch(w, worker[w].name, [Goto(w, "del") EXCEPT ![w].doubt = TRUE])
    /\ UNCHANGED <<host, images, record, channel, cloud, asked>>

Del(w) ==
    /\ At(w, "del")
    /\ record' = record \ {worker[w].name}
    /\ Touch(w, worker[w].name, Goto(w, "clean"))
    /\ UNCHANGED <<host, images, channel, cloud, asked>>

Clean(w) ==
    /\ At(w, "clean")
    /\ docker' = Pruned
    /\ worker' = Stopped(w)
    /\ UNCHANGED <<created, images, record, channel, told, asked>>

DelFails(w) ==
    /\ worker[w].pc \in {"del", "clean"}
    /\ worker' = Failed(w)
    /\ UNCHANGED <<host, images, record, channel, told, asked>>

\* RemoveApp publishes the removal, with neither name nor image.
Publish(r) ==
    /\ At(r, "publish")
    /\ worker' = Return(r)
    /\ \/ channel' = Append(channel, [op |-> "remove", name |-> None])
       \/ UNCHANGED channel
    /\ UNCHANGED <<host, images, record, told, asked>>

-----------------------------------------------------------------------------
(* notifyMqtt: the settings are read and the state is published.            *)

\* "in-progress" is told before the pull, everything else last.
AfterTelling ==
    IF worker[Listener].say = "in-progress" THEN Goto(Listener, "pull")
                                             ELSE Return(Listener)

Tell ==
    /\ At(Listener, "tell")
    /\ LET l == worker[Listener] IN
         /\ cloud' = [cloud EXCEPT ![l.name] = l.say]
         /\ stale' = [stale EXCEPT ![l.name] = l.doubt]
    /\ worker' = AfterTelling
    /\ UNCHANGED <<host, images, record, channel, asked>>

\* An error is logged, and the operation goes on.
TellFails ==
    /\ At(Listener, "tell")
    /\ stale' = [stale EXCEPT ![worker[Listener].name] = TRUE]
    /\ worker' = AfterTelling
    /\ UNCHANGED <<host, images, record, channel, cloud, asked>>

-----------------------------------------------------------------------------
(* What happens besides *)

\* An application ends.
Exit(a) ==
    /\ docker[a].state = "running"
    /\ docker' = Ended(a)
    /\ stale' = [stale EXCEPT ![a] = TRUE]
    /\ worker' = [worker EXCEPT ![Listener].doubt = @ \/ worker[Listener].name = a]
    /\ UNCHANGED <<created, images, record, channel, cloud, asked>>

\* Starting and stopping cameras prunes as well.
PruneElsewhere ==
    /\ docker' = Pruned
    /\ UNCHANGED <<created, images, record, worker, channel, told, asked>>

\* The server is restarted or crashes: the channel of redis keeps nothing.
Restart ==
    /\ worker' = [w \in Worker |-> Idle]
    /\ channel' = <<>>
    /\ stale' = [a \in App |-> \/ stale[a] \/ worker[Listener].name = a
                               \/ \E n \in 1..Len(channel) : channel[n].name = a]
    /\ UNCHANGED <<host, images, record, cloud, asked>>

-----------------------------------------------------------------------------
Steps(w) ==
    \/ Images(w) \/ ImagesFail(w) \/ Pull(w) \/ PullFails(w)
    \/ Prune(w) \/ Create(w) \/ Conflict(w) \/ Run(w) \/ Put(w) \/ InstallFails(w)
    \/ Get(w) \/ Stop(w) \/ StopFails(w) \/ Del(w) \/ Clean(w) \/ DelFails(w)

Listens == Take \/ Steps(Listener) \/ Tell \/ TellFails

Next ==
    \/ Arrive \/ Listens
    \/ \E r \in Request : Call(r) \/ Steps(r) \/ GetFails(r) \/ Publish(r)
    \/ \E a \in App : Exit(a)
    \/ PruneElsewhere \/ Restart

Spec == Init /\ [][Next]_vars

\* The listener goes on: docker answers, and a pull ends.
LiveSpec == Spec /\ WF_vars(Listens)

-----------------------------------------------------------------------------
\* The listener works on the application, or has a message for it.
Pending(a) ==
    \/ worker[Listener].name = a
    \/ \E n \in 1..Len(channel) : channel[n].name = a

\* An application that the cloud was told runs does run and has a record, and
\* one that it was told has exited does not run, whatever requests, prunes and
\* failures came in between: unless a request, the application itself or an
\* ignored error of docker has changed it since, or a report was lost
\* (mqtt_process_operations.go, lines 218-300).
ReportsAreTrue ==
    \A a \in App : ~stale[a] /\ ~Pending(a) =>
      /\ cloud[a] = "running" => docker[a].state = "running" /\ a \in record
      /\ cloud[a] = "exited" => docker[a].state # "running"

\* What the cloud was told last answers its last command, not an earlier one
\* (mqtt_communications.go, lines 152-220).
LastAnswered ==
    \A a \in App : ~stale[a] /\ ~Pending(a) =>
      cloud[a] \in (CASE last[a] = "none"   -> {"none"}
                      [] last[a] = "add"    -> {"running", "failed"}
                      [] last[a] = "remove" -> {"exited", "failed"})

\* An installation that the cloud was told is in progress does not stay so:
\* it is told the end of it on every path, unless the report is lost or the
\* server restarted (mqtt_process_operations.go, lines 197-275).
ProgressEnds ==
    \A a \in App : cloud[a] = "in-progress" ~> cloud[a] # "in-progress" \/ stale[a]
=============================================================================
