----------------------------- MODULE Processes -----------------------------
(***************************************************************************)
(* The process managers of the server: ProcessManager for cameras (kind    *)
(* "rtsp") and AppProcessManager for applications (kind "app"), with the   *)
(* handlers that call them (REST, gRPC Proxy and Storage).  Nothing in the *)
(* code serialises the handlers, so each runs in a worker of its own and   *)
(* interleaves with the others between any two calls to docker, badger,    *)
(* redis or the cloud.  The names of cameras and applications share one    *)
(* docker name space and are in lower case.                                *)
(***************************************************************************)
EXTENDS Naturals, FiniteSets

CONSTANTS
    Worker,   \* bound: the requests in progress at a time
    Camera,   \* names used for cameras
    App,      \* names used for applications
    Ops,      \* the operations called: Start Stop Info Set List Stream Upgrade
    Faults,   \* what may fail in this instance: docker redis cloud store crash
    MaxId,    \* bound: containers ever created
    None      \* the absence of a record in the datastore, or of a name

ASSUME ProcessesAssumption ==
    /\ None \notin [{"streaming", "storing"} -> BOOLEAN]
    /\ MaxId \in Nat /\ IsFiniteSet(Worker)

VARIABLES
    docker,   \* name -> the container of that name
    store,    \* kind -> name -> the record under the kind's prefix in badger
    outside,  \* name -> proxy_rtmp in redis, and the storage switch in the cloud
    worker,   \* the requests in progress
    created,  \* containers created so far
    up        \* history: cameras started or upgraded, and neither stopped nor
              \* taken down by an upgrade since

vars == <<docker, store, outside, worker, created, up>>

Kind == {"rtsp", "app"}
Name == Camera \cup App
NamesOf(k) == IF k = "rtsp" THEN Camera ELSE App
Flag == {"streaming", "storing"}
Rec  == [Flag -> BOOLEAN]

\* Mutated: only one of the switches is set in a new record.
StreamingRec == [f \in {"streaming"} |-> TRUE]

NoContainer == [state |-> "none", id |-> 0, kind |-> "rtsp"]
FreshRec    == [f \in Flag |-> f = "streaming"]
IdleWorker  == [op |-> "none", pc |-> "idle", kind |-> "rtsp", name |-> None, id |-> 0,
                rec |-> None, flag |-> "streaming", want |-> FALSE,
                todo |-> {}, gone |-> {}, alone |-> TRUE]

TypeOK ==
    /\ docker \in [Name -> [state : {"none", "created", "running", "exited"},
                            id : 0..MaxId, kind : Kind]]
    /\ store \in [Kind -> [Name -> Rec \cup {None}]]
    /\ outside \in [Name -> Rec]
    /\ worker \in [Worker ->
         [op : Ops \cup {"none"}, kind : Kind, name : Name \cup {None}, id : 0..MaxId,
          pc : {"idle", "prune", "create", "run", "hset", "put", "get", "stop", "del",
                "load", "save", "call", "find", "halt", "remove", "next"},
          rec : Rec \cup {None}, flag : Flag, want : BOOLEAN,
          todo : SUBSET Name, gone : SUBSET Name, alone : BOOLEAN]]
    /\ created \in 0..MaxId
    /\ up \in SUBSET Camera

Init ==
    /\ docker = [n \in Name |-> NoContainer]
    /\ store = [k \in Kind |-> [n \in Name |-> None]]
    /\ outside = [n \in Name |-> [f \in Flag |-> FALSE]]
    /\ worker = [w \in Worker |-> IdleWorker]
    /\ created = 0
    /\ up = {}

At(w, pc) == worker[w].pc = pc
Goto(w, pc) == worker' = [worker EXCEPT ![w].pc = pc]
Return(w) == worker' = [worker EXCEPT ![w] = IdleWorker]

-----------------------------------------------------------------------------
(* The requests.  A Start, a Stop and an upgrade of one name that overlap   *)
(* are not alone, nor are two upgrades.                                     *)

Opposite(a, b) == {a, b} \subseteq {"Start", "Stop", "Upgrade"} /\ (a # b \/ a = "Upgrade")
Opposed(v, op, n) == Opposite(worker[v].op, op) /\ worker[v].name = n
Creating == {v \in Worker : worker[v].op \in {"Start", "Upgrade"}}

Begin(w, op, request) ==
    /\ op \in Ops /\ At(w, "idle")
    /\ op \in {"Start", "Upgrade"} => created + Cardinality(Creating) < MaxId
    /\ LET n == request.name IN
       /\ worker' = [v \in Worker |->
             IF v = w THEN [request EXCEPT !.op = op,
                              !.alone = \A u \in Worker : ~Opposed(u, op, n)]
             ELSE IF Opposed(v, op, n) THEN [worker[v] EXCEPT !.alone = FALSE]
             ELSE worker[v]]
       /\ up' = IF op = "Stop" THEN up \ {n} ELSE up
    /\ UNCHANGED <<docker, store, outside, created>>

For(pc, k, n) == [IdleWorker EXCEPT !.pc = pc, !.kind = k, !.name = n]

Call(w) ==
    \/ \E k \in Kind : \E n \in NamesOf(k) :
          \/ Begin(w, "Start", For("prune", k, n))
          \/ Begin(w, "Stop", For("get", k, n))
    \/ \E n \in Camera :
          \/ Begin(w, "Upgrade", For("find", "rtsp", n))
          \* Proxy sets the streaming flag, Storage the storing flag.
          \/ \E f \in Flag, b \in BOOLEAN :
                Begin(w, "Set", [For("get", "rtsp", n) EXCEPT !.flag = f, !.want = b])

\* Info of a camera and of an application: ContainerGet, then a read and a
\* write under the prefix of the kind.
Info(w) == \E n \in Camera : Begin(w, "Info", For("get", "rtsp", n))
InfoApp(w) == \E n \in App : Begin(w, "Info", For("get", "app", n))

\* The lists take the recorded names first, then the Info of each.
CallList(w, op, k) ==
    Begin(w, op, [For("next", k, None) EXCEPT
                    !.todo = {n \in NamesOf(k) : store[k][n] # None}])

List(w) == CallList(w, "List", "rtsp")
ListApps(w) == CallList(w, "List", "app")
ListStream(w) == CallList(w, "Stream", "rtsp")

-----------------------------------------------------------------------------
(* Start and Install; an upgrade creates and starts the new container.      *)

\* ContainersPrune removes every container that is not running.
Pruned == [n \in Name |-> IF docker[n].state = "running" THEN docker[n] ELSE NoContainer]

Prune(w) ==
    /\ At(w, "prune")
    /\ docker' = Pruned
    /\ IF worker[w].op = "Start" THEN Goto(w, "create") ELSE Return(w)
    /\ UNCHANGED <<store, outside, created, up>>

Create(w) ==
    /\ At(w, "create")
    /\ LET n == worker[w].name IN
       \/ /\ docker[n].state # "none"                 \* the name is in use
          /\ Return(w) /\ UNCHANGED <<docker, created>>
       \/ /\ docker[n].state = "none"
          /\ created' = created + 1
          /\ docker' = [docker EXCEPT ![n] = [state |-> "created", id |-> created',
                                              kind |-> worker[w].kind]]
          /\ Goto(w, "run")
    /\ UNCHANGED <<store, outside, up>>

\* The request once the container runs: a Start makes the record anew.
Started(w) ==
    LET v == worker[w] IN
    IF v.op = "Upgrade" THEN [v EXCEPT !.pc = "put"]
    ELSE [v EXCEPT !.rec = FreshRec, !.pc = IF v.kind = "rtsp" THEN "hset" ELSE "put"]

\* Mutated: the container is created and never started.
RunNothing(w) ==
    /\ At(w, "run")
    /\ worker' = [worker EXCEPT ![w] = Started(w)]
    /\ UNCHANGED <<docker, store, outside, created, up>>

\* ContainerStart goes by name, so it may start the container of another.
RunContainer(w) ==
    /\ At(w, "run")
    /\ LET n == worker[w].name IN
       IF docker[n].state = "none"
       THEN Return(w) /\ UNCHANGED docker
       ELSE /\ docker' = [docker EXCEPT ![n].state = "running"]
            /\ worker' = [worker EXCEPT ![w] = Started(w)]
    /\ UNCHANGED <<store, outside, created, up>>

\* The default in redis: cameras are given an RTMP endpoint in this model.
HSet(w) ==
    /\ At(w, "hset")
    /\ outside' = [outside EXCEPT ![worker[w].name]["streaming"] = TRUE]
    /\ Goto(w, "put")
    /\ UNCHANGED <<docker, store, created, up>>

\* A List in progress has found that docker does not know the name.
Missed(n) == \E v \in Worker : worker[v].op = "List" /\ n \in worker[v].gone

\* The last write of Start, Install, Proxy, Storage and UpgradeRunningContainer.
Put(w) ==
    /\ At(w, "put")
    /\ LET k == worker[w].kind  n == worker[w].name IN
       /\ store' = [store EXCEPT ![k][n] = worker[w].rec]
       /\ up' = IF /\ k = "rtsp" /\ worker[w].op \in {"Start", "Upgrade"}
                   /\ worker[w].alone /\ ~Missed(n)
                THEN up \cup {n} ELSE up
    /\ Return(w)
    /\ UNCHANGED <<docker, outside, created>>

-----------------------------------------------------------------------------
(* ContainerGet, for Stop and for Info and what is built on it.  List keeps *)
(* the names that docker does not know for deletion.                        *)

InfoOf(w) == IF worker[w].op = "Stop" THEN "stop" ELSE "load"

Get(w) ==
    /\ At(w, "get")
    /\ LET n == worker[w].name IN
       IF docker[n].state # "none"
       THEN worker' = [worker EXCEPT ![w].id = docker[n].id, ![w].pc = InfoOf(w)]
       ELSE IF worker[w].op \in {"List", "Stream"}
            THEN worker' = [worker EXCEPT ![w].gone = @ \cup {n}, ![w].pc = "next"]
            ELSE Return(w)
    /\ UNCHANGED <<docker, store, outside, created, up>>

\* Mutated: the record is deleted and the container left alone.
StopNothing(w) ==
    /\ At(w, "stop") /\ Goto(w, "del")
    /\ UNCHANGED <<docker, store, outside, created, up>>

\* By id: a container replaced meanwhile is not found, and Stop returns.
Stop(w) ==
    /\ At(w, "stop")
    /\ LET n == worker[w].name IN
       IF docker[n].state # "none" /\ docker[n].id = worker[w].id
       THEN /\ docker' = [docker EXCEPT ![n].state = "exited"]
            /\ Goto(w, "del")
       ELSE Return(w) /\ UNCHANGED docker
    /\ UNCHANGED <<store, outside, created, up>>

\* Any error of ContainerStop but NotFound is not looked at.
StopFails(w) ==
    /\ At(w, "stop") /\ "docker" \in Faults
    /\ worker' = [worker EXCEPT ![w].pc = "del", ![w].alone = FALSE]
    /\ UNCHANGED <<docker, store, outside, created, up>>

\* storage.Del under the name of the stopped process.
Del(w) ==
    /\ At(w, "del")
    /\ store' = [store EXCEPT ![worker[w].kind][worker[w].name] = None]
    /\ Goto(w, "prune")
    /\ UNCHANGED <<docker, outside, created, up>>

\* storage.Get: Info and List return ErrProcessNotFoundDatastore without it.
Load(w) ==
    /\ At(w, "load")
    /\ LET r == store[worker[w].kind][worker[w].name] IN
       IF r = None THEN Return(w)
       ELSE worker' = [worker EXCEPT ![w].rec = r,
               ![w].pc = IF worker[w].op = "Upgrade" THEN "halt" ELSE "save"]
    /\ UNCHANGED <<docker, store, outside, created, up>>

\* Info writes back the record it read, with the state of the container.
Save(w) ==
    /\ At(w, "save")
    /\ store' = [store EXCEPT ![worker[w].kind][worker[w].name] = worker[w].rec]
    /\ CASE worker[w].op = "Info" -> Return(w)
         [] worker[w].op = "Set"  -> Goto(w, "call")
         [] OTHER                 -> Goto(w, "next")
    /\ UNCHANGED <<docker, outside, created, up>>

\* Proxy: HSET proxy_rtmp.  Storage: PUT to the cloud.
CallOut(w) ==
    /\ At(w, "call")
    /\ LET v == worker[w] IN
       /\ outside' = [outside EXCEPT ![v.name][v.flag] = v.want]
       /\ worker' = [worker EXCEPT ![w].rec[v.flag] = v.want, ![w].pc = "put"]
    /\ UNCHANGED <<docker, store, created, up>>

-----------------------------------------------------------------------------
(* List, ListApps and ListStream.  Whatever is deleted at the end was found *)
(* missing earlier; ListApps deletes it under the prefix of the cameras.    *)

\* Mutated: the prefixes are swapped.
SwappedPrefix(k) == "app"

DeletePrefix(k) == "rtsp"

NextProcess(w) ==
    /\ At(w, "next")
    /\ \E n \in worker[w].todo :
          worker' = [worker EXCEPT ![w].todo = @ \ {n}, ![w].name = n, ![w].pc = "get"]
    /\ UNCHANGED <<docker, store, outside, created, up>>

DeleteGone(w) ==
    /\ At(w, "next") /\ worker[w].todo = {} /\ worker[w].op = "List"
    /\ \E n \in worker[w].gone :
          /\ store' = [store EXCEPT ![DeletePrefix(worker[w].kind)][n] = None]
          /\ worker' = [worker EXCEPT ![w].gone = @ \ {n}]
    /\ UNCHANGED <<docker, outside, created, up>>

\* ListStream deletes nothing, and may return early: its context ends, or
\* its caller does not take the process found.
ListReturns(w) ==
    /\ At(w, "next")
    /\ worker[w].op = "List" => worker[w].todo = {} /\ worker[w].gone = {}
    /\ Return(w)
    /\ UNCHANGED <<docker, store, outside, created, up>>

-----------------------------------------------------------------------------
(* UpgradeRunningContainer.  ContainerReplace is four calls of docker: it   *)
(* stops the old container and removes it, both by id, and creates and      *)
(* starts the new one.  What ends it between two of them leaves the camera  *)
(* without a container.                                                     *)

\* A running container of the name; without the new image it goes no further.
Find(w) ==
    /\ At(w, "find")
    /\ LET c == docker[worker[w].name] IN
       \/ /\ c.state = "running"
          /\ worker' = [worker EXCEPT ![w].id = c.id, ![w].pc = "load"]
       \/ Return(w)
    /\ UNCHANGED <<docker, store, outside, created, up>>

\* The container that was found is still there.
IsHere(w) ==
    docker[worker[w].name].state # "none" /\ docker[worker[w].name].id = worker[w].id

Halt(w) ==
    /\ At(w, "halt")
    /\ LET n == worker[w].name IN
       IF IsHere(w)
       THEN /\ docker' = [docker EXCEPT ![n].state = "exited"]
            /\ up' = up \ {n}
            /\ Goto(w, "remove")
       ELSE Return(w) /\ UNCHANGED <<docker, up>>
    /\ UNCHANGED <<store, outside, created>>

\* Pruned meanwhile, it is not found.
Remove(w) ==
    /\ At(w, "remove")
    /\ IF IsHere(w)
         THEN /\ docker' = [docker EXCEPT ![worker[w].name] = NoContainer]
              /\ Goto(w, "create")
         ELSE Return(w) /\ UNCHANGED docker
    /\ UNCHANGED <<store, outside, created, up>>

-----------------------------------------------------------------------------
(* Containers of applications may end; the server may crash. *)

Exit(n) ==
    /\ docker[n].state = "running" /\ docker[n].kind = "app"
    /\ docker' = [docker EXCEPT ![n].state = "exited"]
    /\ UNCHANGED <<store, outside, worker, created, up>>

Restart ==
    /\ worker' = [w \in Worker |-> IdleWorker]
    /\ UNCHANGED <<docker, store, outside, created, up>>

Crash == "crash" \in Faults /\ Restart

\* Proxy and Storage report a failing HSET or Put with the text of another,
\* nil error: the handler panics and takes the server down.
Errors(w) ==
    LET v == worker[w]
        needs == CASE v.pc \in {"prune", "create", "run", "get", "find", "halt", "remove"}
                     -> "docker"
                   [] v.pc = "call" /\ v.flag = "storing" -> "cloud"
                   [] v.pc \in {"hset", "call"} -> "redis"
                   [] v.pc \in {"put", "del", "load", "save"} -> "store"
                   [] OTHER -> "none" IN
    /\ needs \in Faults
    /\ IF v.op = "Set" /\ (v.pc = "put" \/ needs = "redis") THEN Restart
       ELSE Return(w) /\ UNCHANGED <<docker, store, outside, created, up>>

Step(w) == \/ Prune(w) \/ Create(w) \/ RunContainer(w) \/ HSet(w) \/ Put(w) \/ Get(w)
           \/ Stop(w) \/ StopFails(w) \/ Del(w) \/ Load(w) \/ Save(w) \/ CallOut(w)
           \/ NextProcess(w) \/ DeleteGone(w) \/ ListReturns(w)
           \/ Find(w) \/ Halt(w) \/ Remove(w)

Next == \/ \E w \in Worker : \/ Call(w) \/ Info(w) \/ InfoApp(w)
                               \/ List(w) \/ ListApps(w) \/ ListStream(w)
                               \/ Step(w) \/ Errors(w)
        \/ \E n \in App : Exit(n)
        \/ Crash

Spec == Init /\ [][Next]_vars

\* Requests are executed to their end, and the portal and the statistics
\* ticker ask for the lists again and again.
LiveSpec ==
    /\ Spec
    /\ \A w \in Worker : WF_vars(Step(w))
    /\ SF_vars(\E w \in Worker : List(w))
    /\ SF_vars(\E w \in Worker : ListApps(w))

-----------------------------------------------------------------------------
\* A camera whose Start or upgrade returned without an error keeps a running
\* container and a record in the datastore until somebody asks to stop it or
\* an upgrade takes the container down: no Info, Proxy, Storage, List, prune or
\* crash on the way loses either.  Two races of the code are excepted: the
\* request overlapped a Stop or an upgrade of the camera, and a List that was
\* under way had found the name missing, and so deletes the new record
\* (process_manager.go, lines 60-237, 326-402 and process_manager_upgrade.go, 132).
StartedIsKept ==
    \A n \in up : docker[n].state = "running" /\ store["rtsp"][n] # None

\* Stop "stops the docker container by the name of deviceID": when it finds
\* the container and returns without an error, no container of the name is
\* running.  Two exceptions are of the code: a Start or an upgrade of the
\* name overlapped it, whose container Stop does not know, or docker refused
\* to stop the container: Stop does not look at that, though its comment has
\* no such exception (process_manager.go, lines 240-275).
StopStops == [][\A w \in Worker :
    (/\ worker[w].op = "Stop" /\ worker[w].alone
     /\ Stop(w) \/ Prune(w)
     /\ worker'[w].pc = "idle") => docker'[worker[w].name].state # "running"]_vars

\* A record without a container is removed, or its container comes back:
\* List cleans what a slow Info, or an upgrade that ended half-way, left behind.
Stale(k, n) == store[k][n] # None /\ docker[n].state = "none"
CameraRecordsCleaned == \A n \in Camera : Stale("rtsp", n) ~> ~Stale("rtsp", n)
=============================================================================
