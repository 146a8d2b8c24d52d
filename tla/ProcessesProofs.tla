--------------------------- MODULE ProcessesProofs ---------------------------
(***************************************************************************)
(* Theorems about Processes, for any requests and names, and any faults:   *)
(* its type invariant, that a camera that was started or upgraded is kept, *)
(* and that a Stop that no Start and no upgrade met, and that docker did   *)
(* not refuse, has stopped the container.                                  *)
(***************************************************************************)
EXTENDS Processes, TLAPS, FiniteSetTheorems

ContainerRec == [state : {"none", "created", "running", "exited"}, id : 0..MaxId, kind : Kind]

WorkerRec ==
    [op : Ops \cup {"none"}, kind : Kind, name : Name \cup {None}, id : 0..MaxId,
     pc : {"idle", "prune", "create", "run", "hset", "put", "get", "stop", "del",
           "load", "save", "call", "find", "halt", "remove", "next"},
     rec : Rec \cup {None}, flag : Flag, want : BOOLEAN,
     todo : SUBSET Name, gone : SUBSET Name, alone : BOOLEAN]

\* Where a request of each kind may be.
Doing(op, pc) ==
    \/ op = "none" /\ pc = "idle"
    \/ op = "Start" /\ pc \in {"prune", "create", "run", "hset", "put"}
    \/ op = "Stop" /\ pc \in {"get", "stop", "del", "prune"}
    \/ op = "Info" /\ pc \in {"get", "load", "save"}
    \/ op = "Set" /\ pc \in {"get", "load", "save", "call", "put"}
    \/ op = "Upgrade" /\ pc \in {"find", "load", "halt", "remove", "create", "run", "put"}
    \/ op \in {"List", "Stream"} /\ pc \in {"next", "get", "load", "save"}

\* What holds of a request whatever the others do.
Sound(s) ==
    /\ s \in WorkerRec
    /\ Doing(s.op, s.pc)
    /\ s.pc \notin {"idle", "next"} => s.name \in NamesOf(s.kind)
    /\ \/ s.pc \in {"save", "call", "put", "hset"}
       \/ s.op = "Upgrade" /\ s.pc \in {"halt", "remove", "create", "run"}
       => s.rec \in Rec
    /\ s.todo \subseteq NamesOf(s.kind)

\* A request that is going to create a container.
Yet(s) == \/ s.op = "Start" /\ s.pc \in {"prune", "create"}
          \/ s.op = "Upgrade" /\ s.pc \in {"find", "load", "halt", "remove", "create"}

\* Requests of one name that get in each other's way both know.
NeverMeetAlone ==
    \A v, w \in Worker :
        v # w /\ Opposite(worker[v].op, worker[w].op) /\ worker[v].name = worker[w].name
            => ~worker[v].alone

\* A Stop takes the name out of up before it does anything, and an upgrade
\* when it stops the container that it removes.
UpIsNotStopped ==
    \A n \in up : \A w \in Worker :
        worker[w].name = n => worker[w].op # "Stop" /\ worker[w].pc # "remove"

Stored ==
    /\ docker \in [Name -> ContainerRec]
    /\ store \in [Kind -> [Name -> Rec \cup {None}]]
    /\ outside \in [Name -> Rec]
    /\ up \in SUBSET Camera

\* The inductive invariant that the others rest on.
Inv ==
    /\ Stored
    /\ worker = [w \in Worker |-> worker[w]]
    /\ \A w \in Worker : Sound(worker[w])
    /\ created \in Nat /\ created + Cardinality({w \in Worker : Yet(worker[w])}) <= MaxId
    /\ NeverMeetAlone
    /\ UpIsNotStopped

\* A Start or an upgrade that nothing met has its container running once it
\* has started it.
StartRuns ==
    \A w \in Worker :
        /\ worker[w].op \in {"Start", "Upgrade"} /\ worker[w].kind = "rtsp" /\ worker[w].alone
        /\ worker[w].pc \in {"hset", "put"}
        => docker[worker[w].name].state = "running"

\* The containers of cameras do not end by themselves.
CamerasAreCameras == \A n \in Camera : docker[n].kind = "rtsp"

\* No List is about to delete the record of a camera that is up.
UpIsNotMissed == \A n \in up : ~Missed(n)

KeptInv == Inv /\ StartRuns /\ CamerasAreCameras /\ UpIsNotMissed /\ StartedIsKept

\* A Stop that nothing met and docker did not refuse has found the container there is.
StopFound ==
    \A w \in Worker : worker[w].op = "Stop" /\ worker[w].alone =>
        LET c == docker[worker[w].name] IN
        /\ worker[w].pc = "stop" => c.state = "none" \/ c.id = worker[w].id
        /\ worker[w].pc \in {"del", "prune"} => c.state # "running"

StopInv == Inv /\ StopFound

-----------------------------------------------------------------------------
(* Lemmas on requests. *)

LEMMA Facts == None \notin Rec /\ MaxId \in Nat /\ IsFiniteSet(Worker)
    BY ProcessesAssumption DEF ProcessesAssumption, Rec, Flag

LEMMA NamesAreNames == \A k \in Kind : NamesOf(k) \subseteq Name
    BY DEF NamesOf, Name

LEMMA IdleSound ==
    /\ Sound(IdleWorker) /\ ~Yet(IdleWorker)
    /\ IdleWorker.op = "none" /\ IdleWorker.pc = "idle"
<1>1. IdleWorker \in WorkerRec
    BY Facts DEF IdleWorker, WorkerRec, Kind, Flag
<1>2. QED
    BY <1>1 DEF IdleWorker, Sound, Yet, Doing

\* A request that goes on, or returns.
Goes(w, s) ==
    /\ worker' = [worker EXCEPT ![w] = s]
    /\ Sound(s)
    /\ \/ s.op = "none"
       \/ /\ s.op = worker[w].op /\ (s.alone => worker[w].alone) /\ s.kind = worker[w].kind
          /\ s.op \in {"Start", "Stop", "Upgrade"} => s.name = worker[w].name
    /\ Yet(s) => Yet(worker[w])

LEMMA ReturnGoes ==
    ASSUME Inv, NEW w \in Worker, Return(w)
    PROVE  Goes(w, IdleWorker)
    BY IdleSound DEF Return, Goes

LEMMA GotoGoes ==
    ASSUME Inv, NEW w \in Worker, NEW pc, Goto(w, pc),
           Doing(worker[w].op, pc), worker[w].pc \notin {"idle", "next"},
           pc \in {"save", "call", "put", "hset"} \/ worker[w].op = "Upgrade"
               => worker[w].rec \in Rec,
           pc \in {"find", "load", "halt", "remove", "prune", "create"} => Yet(worker[w]) \/ worker[w].op = "Stop"
    PROVE  Goes(w, [worker[w] EXCEPT !.pc = pc])
<1> DEFINE r == worker[w]
<1> DEFINE s == [r EXCEPT !.pc = pc]
<1>1. r \in WorkerRec /\ Sound(r)
    BY DEF Inv, Sound
<1>2. /\ s.pc = pc /\ s.op = r.op /\ s.kind = r.kind /\ s.name = r.name /\ s.rec = r.rec
      /\ s.todo = r.todo /\ s.alone = r.alone
    BY <1>1 DEF WorkerRec
<1>3. s \in WorkerRec
    BY <1>1 DEF WorkerRec, Doing
<1> HIDE DEF s
<1>4. Sound(s)
    BY <1>1, <1>2, <1>3 DEF Sound
<1>5. Yet(s) => Yet(r)
    BY <1>2 DEF Yet
<1>6. worker' = [worker EXCEPT ![w] = s]
    BY DEF Goto, s
<1>7. Goes(w, s)
    BY <1>2, <1>4, <1>5, <1>6 DEF Goes
<1>8. QED
    BY <1>7 DEF s

\* The state after a step of one request.
LEMMA WorkerAfter ==
    ASSUME Inv, NEW w \in Worker, NEW s, worker' = [worker EXCEPT ![w] = s]
    PROVE  /\ worker' = [v \in Worker |-> worker'[v]] /\ worker'[w] = s
           /\ \A v \in Worker : v # w => worker'[v] = worker[v]
    BY DEF Inv

\* A step of one request keeps the invariant if it keeps the books.
LEMMA GoesInv ==
    ASSUME Inv, NEW w \in Worker, NEW s, Goes(w, s), Stored',
           \/ created' = created
           \/ created' = created + 1 /\ Yet(worker[w]) /\ ~Yet(s),
           \/ up' \subseteq up
           \/ /\ up' = up \cup {worker[w].name} /\ worker[w].alone
              /\ worker[w].op \in {"Start", "Upgrade"},
           s.pc = "remove" => s.name \notin up'
    PROVE  Inv'
<1>1. /\ worker' = [v \in Worker |-> worker'[v]] /\ worker'[w] = s
      /\ \A v \in Worker : v # w => worker'[v] = worker[v]
    BY WorkerAfter DEF Goes
<1>2. \A v \in Worker : Sound(worker'[v])
    BY <1>1 DEF Inv, Goes
<1>3. created' \in Nat /\ created' + Cardinality({v \in Worker : Yet(worker'[v])}) <= MaxId
  <2> DEFINE Y == {v \in Worker : Yet(worker[v])}
  <2> DEFINE Z == {v \in Worker : Yet(worker'[v])}
  <2>1. IsFiniteSet(Y) /\ Cardinality(Y) \in Nat
    BY Facts, FS_Subset, FS_CardinalityType
  <2>2. created \in Nat /\ created + Cardinality(Y) <= MaxId
    BY DEF Inv
  <2>3. CASE created' = created
    <3>1. Z \subseteq Y
      BY <1>1 DEF Goes
    <3>2. Cardinality(Z) \in Nat /\ Cardinality(Z) <= Cardinality(Y)
      BY <2>1, <3>1, FS_Subset, FS_CardinalityType
    <3>3. QED
      BY <2>1, <2>2, <2>3, <3>2, Facts
  <2>4. CASE created' = created + 1 /\ Yet(worker[w]) /\ ~Yet(s)
    <3>1. Z \subseteq Y \ {w} /\ w \in Y
      BY <1>1, <2>4
    <3>2. IsFiniteSet(Y \ {w}) /\ Cardinality(Y \ {w}) = Cardinality(Y) - 1
      BY <2>1, <3>1, FS_RemoveElement
    <3>3. Cardinality(Z) \in Nat /\ Cardinality(Z) <= Cardinality(Y) - 1
      BY <3>1, <3>2, FS_Subset, FS_CardinalityType
    <3>4. QED
      BY <2>1, <2>2, <2>4, <3>3, Facts
  <2>5. QED
    BY <2>3, <2>4
<1>4. NeverMeetAlone'
  <2> SUFFICES ASSUME NEW u \in Worker, NEW v \in Worker, u # v,
                      Opposite(worker'[u].op, worker'[v].op), worker'[u].name = worker'[v].name
               PROVE  ~worker'[u].alone
      BY DEF NeverMeetAlone
  <2>1. \A x \in {u, v} : worker'[x].op \in {"Start", "Stop", "Upgrade"}
    BY DEF Opposite
  <2>2. \A x \in {u, v} : /\ worker'[x].op = worker[x].op /\ worker'[x].name = worker[x].name
                          /\ worker'[x].alone => worker[x].alone
    BY <1>1, <2>1 DEF Goes
  <2>3. QED
    BY <2>2 DEF Inv, NeverMeetAlone
<1>5. UpIsNotStopped'
  <2> SUFFICES ASSUME NEW n \in up', NEW v \in Worker, worker'[v].name = n,
                      worker'[v].op = "Stop" \/ worker'[v].pc = "remove"
               PROVE  FALSE
      BY DEF UpIsNotStopped
  <2>1. v = w => worker'[v].op = "Stop"
    BY <1>1
  <2>2. worker'[v].op = "Stop" => worker[v].op = "Stop"
    BY <1>1 DEF Goes
  <2>3. worker[v].name = n /\ (worker[v].op = "Stop" \/ worker[v].pc = "remove")
    BY <1>1, <2>1, <2>2 DEF Goes
  <2>4. CASE n \in up
    BY <2>3, <2>4 DEF Inv, UpIsNotStopped
  <2>5. CASE n = worker[w].name /\ worker[w].alone /\ worker[w].op \in {"Start", "Upgrade"}
    <3>1. v # w
      BY <2>1, <2>2, <2>5
    <3>2. worker[v].op \in {"Stop", "Upgrade"}
      BY <2>3 DEF Inv, Sound, Doing
    <3>3. Opposite(worker[w].op, worker[v].op)
      <4>1. worker[v].op = "Upgrade" => worker[w].op = "Start" \/ worker[w].op = "Upgrade"
        BY <2>5
      <4>2. QED
        BY <2>5, <3>2, <4>1 DEF Opposite
    <3>4. QED
      BY <2>3, <2>5, <3>1, <3>3 DEF Inv, NeverMeetAlone
  <2>6. QED
    BY <2>4, <2>5
<1>6. QED
    BY <1>1, <1>2, <1>3, <1>4, <1>5 DEF Inv

-----------------------------------------------------------------------------
(* A request begins. *)

\* A request as its handler makes it, before it is known which one it is.
Asked(r, op) ==
    /\ r \in WorkerRec /\ Doing(op, r.pc)
    /\ r.pc \in {"prune", "get", "find", "next"} /\ (r.pc = "prune" => op = "Start")
    /\ r.pc # "next" => r.name \in NamesOf(r.kind)
    /\ r.todo \subseteq NamesOf(r.kind) /\ r.gone = {}

Asking(r, op, b) == [r EXCEPT !.op = op, !.alone = b]

LEMMA AskedSound ==
    ASSUME NEW op \in Ops, NEW r, Asked(r, op), NEW b \in BOOLEAN
    PROVE  /\ Sound(Asking(r, op, b))
           /\ Asking(r, op, b).op = op /\ Asking(r, op, b).name = r.name
           /\ Asking(r, op, b).alone = b /\ Asking(r, op, b).pc = r.pc
           /\ Asking(r, op, b).kind = r.kind /\ Asking(r, op, b).gone = {}
<1> DEFINE s == Asking(r, op, b)
<1>1. /\ s.pc = r.pc /\ s.op = op /\ s.kind = r.kind /\ s.name = r.name
      /\ s.todo = r.todo /\ s.alone = b /\ s.gone = {}
    BY DEF Asked, WorkerRec, Asking
<1>2. s \in WorkerRec
    BY DEF Asked, WorkerRec, Asking
<1> HIDE DEF s
<1>3. Sound(s)
    BY <1>1, <1>2 DEF Sound, Asked
<1>4. QED
    BY <1>1, <1>3 DEF s

LEMMA ForAsked ==
    ASSUME NEW pc \in {"prune", "get", "find"}, NEW k \in Kind, NEW n \in NamesOf(k)
    PROVE  /\ For(pc, k, n) \in WorkerRec
           /\ For(pc, k, n).pc = pc /\ For(pc, k, n).name = n /\ For(pc, k, n).kind = k
           /\ For(pc, k, n).todo = {} /\ For(pc, k, n).gone = {}
<1>1. n \in Name /\ IdleWorker \in WorkerRec /\ IdleWorker.todo = {} /\ IdleWorker.gone = {}
    BY NamesAreNames, IdleSound DEF Sound, IdleWorker
<1>2. QED
    BY <1>1 DEF For, WorkerRec

\* The requests in progress after one more has begun.
LEMMA BeginAfter ==
    ASSUME Inv, NEW w \in Worker, NEW op, NEW r, Begin(w, op, r), Asked(r, op)
    PROVE  /\ worker[w].op = "none"
           /\ worker' = [v \in Worker |-> worker'[v]]
           /\ \E b \in BOOLEAN : worker'[w] = Asking(r, op, b)
           /\ worker'[w].alone =>
                \A v \in Worker : ~(Opposite(worker[v].op, op) /\ worker[v].name = r.name)
           /\ \A v \in Worker : v # w =>
                IF Opposite(worker[v].op, op) /\ worker[v].name = r.name
                THEN worker'[v] = [worker[v] EXCEPT !.alone = FALSE]
                ELSE worker'[v] = worker[v]
<1>0. op \in Ops /\ worker[w].pc = "idle"
    BY DEF Begin, At
<1>1. worker[w].op = "none"
    BY <1>0 DEF Inv, Sound, Doing
<1> DEFINE b == \A u \in Worker : ~Opposed(u, op, r.name)
<1>2. worker' = [v \in Worker |->
             IF v = w THEN [r EXCEPT !.op = op, !.alone = b]
             ELSE IF Opposed(v, op, r.name) THEN [worker[v] EXCEPT !.alone = FALSE]
             ELSE worker[v]]
    BY DEF Begin
<1>3. b \in BOOLEAN
    BY Zenon
<1>4. worker'[w] = Asking(r, op, b)
    BY <1>2, Zenon DEF Asking
<1>5. Asking(r, op, b).alone = b
    BY <1>0, <1>3, AskedSound, Zenon
<1>6. \A v \in Worker : Opposed(v, op, r.name) <=> Opposite(worker[v].op, op) /\ worker[v].name = r.name
    BY DEF Opposed
<1>7. worker'[w].alone =>
        \A v \in Worker : ~(Opposite(worker[v].op, op) /\ worker[v].name = r.name)
    BY <1>4, <1>5, <1>6, Zenon
<1>8. \A v \in Worker : v # w =>
                IF Opposite(worker[v].op, op) /\ worker[v].name = r.name
                THEN worker'[v] = [worker[v] EXCEPT !.alone = FALSE]
                ELSE worker'[v] = worker[v]
    BY <1>2, <1>6, Zenon
<1>9. worker' = [v \in Worker |-> worker'[v]]
    BY <1>2
<1>10. QED
    BY <1>1, <1>3, <1>4, <1>7, <1>8, <1>9

LEMMA BeginOthers ==
    ASSUME Inv, NEW w \in Worker, NEW op, NEW r, Begin(w, op, r), Asked(r, op),
           NEW v \in Worker, v # w
    PROVE  /\ Sound(worker'[v]) /\ (Yet(worker'[v]) <=> Yet(worker[v]))
           /\ worker'[v].op = worker[v].op /\ worker'[v].name = worker[v].name
           /\ worker'[v].pc = worker[v].pc /\ worker'[v].kind = worker[v].kind
           /\ worker'[v].id = worker[v].id /\ worker'[v].gone = worker[v].gone
           /\ worker'[v].alone =>
                /\ worker[v].alone
                /\ ~(Opposite(worker[v].op, op) /\ worker[v].name = r.name)
<1> DEFINE s == [worker[v] EXCEPT !.alone = FALSE]
<1>1. Sound(worker[v]) /\ worker[v] \in WorkerRec
    BY DEF Inv, Sound
<1>2. s \in WorkerRec /\ s.pc = worker[v].pc /\ s.op = worker[v].op
      /\ s.name = worker[v].name /\ s.kind = worker[v].kind /\ s.rec = worker[v].rec
      /\ s.todo = worker[v].todo /\ s.id = worker[v].id /\ s.gone = worker[v].gone
      /\ s.alone = FALSE
    BY <1>1 DEF WorkerRec
<1> HIDE DEF s
<1>3. Sound(s) /\ (Yet(s) <=> Yet(worker[v]))
    BY <1>1, <1>2 DEF Sound, Yet
<1>0. IF Opposite(worker[v].op, op) /\ worker[v].name = r.name
      THEN worker'[v] = [worker[v] EXCEPT !.alone = FALSE] ELSE worker'[v] = worker[v]
  <2>1. \A u \in Worker : u # w =>
                IF Opposite(worker[u].op, op) /\ worker[u].name = r.name
                THEN worker'[u] = [worker[u] EXCEPT !.alone = FALSE]
                ELSE worker'[u] = worker[u]
    BY BeginAfter
  <2>2. QED
    BY <2>1, Zenon
<1>4. CASE Opposite(worker[v].op, op) /\ worker[v].name = r.name
  <2>1. worker'[v] = s
    BY <1>0, <1>4 DEF s
  <2>2. QED
    BY <1>2, <1>3, <2>1
<1>5. CASE ~(Opposite(worker[v].op, op) /\ worker[v].name = r.name)
  <2>1. worker'[v] = worker[v]
    BY <1>0, <1>5
  <2>2. QED
    BY <1>1, <1>5, <2>1
<1>6. QED
    BY <1>4, <1>5

LEMMA BeginInv ==
    ASSUME Inv, NEW w \in Worker, NEW op, NEW r, Begin(w, op, r), Asked(r, op)
    PROVE  Inv'
<1>1. /\ worker[w].op = "none"
      /\ worker' = [v \in Worker |-> worker'[v]]
      /\ \E b \in BOOLEAN : worker'[w] = Asking(r, op, b)
      /\ worker'[w].alone =>
                \A v \in Worker : ~(Opposite(worker[v].op, op) /\ worker[v].name = r.name)
      /\ \A v \in Worker : v # w =>
                IF Opposite(worker[v].op, op) /\ worker[v].name = r.name
                THEN worker'[v] = [worker[v] EXCEPT !.alone = FALSE]
                ELSE worker'[v] = worker[v]
    BY BeginAfter
<1>2. /\ op \in Ops /\ UNCHANGED <<docker, store, outside, created>>
      /\ op \in {"Start", "Upgrade"} => created + Cardinality(Creating) < MaxId
      /\ up' = IF op = "Stop" THEN up \ {r.name} ELSE up
    BY DEF Begin
<1>3. /\ Sound(worker'[w]) /\ worker'[w].op = op /\ worker'[w].name = r.name
      /\ worker'[w].pc = r.pc /\ r.pc # "remove"
    BY <1>1, <1>2, AskedSound DEF Asked
<1>4. ASSUME NEW v \in Worker, v # w
      PROVE  /\ Sound(worker'[v]) /\ (Yet(worker'[v]) <=> Yet(worker[v]))
             /\ worker'[v].op = worker[v].op /\ worker'[v].name = worker[v].name
             /\ worker'[v].pc = worker[v].pc
             /\ worker'[v].alone =>
                  /\ worker[v].alone
                  /\ ~(Opposite(worker[v].op, op) /\ worker[v].name = r.name)
    BY <1>4, BeginOthers
<1>5. \A v \in Worker : Sound(worker'[v])
    BY <1>3, <1>4
<1>6. created' \in Nat /\ created' + Cardinality({v \in Worker : Yet(worker'[v])}) <= MaxId
  <2> DEFINE Y == {v \in Worker : Yet(worker[v])}
  <2> DEFINE Z == {v \in Worker : Yet(worker'[v])}
  <2>1. IsFiniteSet(Y) /\ Cardinality(Y) \in Nat
    BY Facts, FS_Subset, FS_CardinalityType
  <2>2. created \in Nat /\ created + Cardinality(Y) <= MaxId
    BY DEF Inv
  <2>3. CASE op \in {"Start", "Upgrade"}
    <3>1. Z \subseteq Y \cup {w} /\ w \notin Y
      BY <1>1, <1>4 DEF Yet
    <3>2. /\ IsFiniteSet(Y \cup {w}) /\ Cardinality(Y \cup {w}) = Cardinality(Y) + 1
      BY <2>1, <3>1, FS_AddElement
    <3>3. Cardinality(Z) \in Nat /\ Cardinality(Z) <= Cardinality(Y) + 1
      BY <3>1, <3>2, FS_Subset, FS_CardinalityType
    <3>4. Y \subseteq Creating /\ IsFiniteSet(Creating) /\ Cardinality(Creating) \in Nat
      BY Facts, FS_Subset, FS_CardinalityType DEF Creating, Yet
    <3>5. Cardinality(Y) <= Cardinality(Creating)
      BY <3>4, FS_Subset
    <3>6. QED
      BY <1>2, <2>1, <2>2, <2>3, <3>3, <3>4, <3>5, Facts
  <2>4. CASE op \notin {"Start", "Upgrade"}
    <3>1. Z \subseteq Y
      BY <1>3, <1>4, <2>4 DEF Yet
    <3>2. Cardinality(Z) \in Nat /\ Cardinality(Z) <= Cardinality(Y)
      BY <2>1, <3>1, FS_Subset, FS_CardinalityType
    <3>3. QED
      BY <1>2, <2>1, <2>2, <3>2, Facts
  <2>5. QED
    BY <2>3, <2>4
<1>7. NeverMeetAlone'
  <2> SUFFICES ASSUME NEW u \in Worker, NEW v \in Worker, u # v,
                      Opposite(worker'[u].op, worker'[v].op), worker'[u].name = worker'[v].name
               PROVE  ~worker'[u].alone
      BY DEF NeverMeetAlone
  <2>1. CASE u = w
    <3>1. v # w
      BY <2>1
    <3>2. Opposite(worker[v].op, op) /\ worker[v].name = r.name
      BY <1>3, <1>4, <2>1, <3>1 DEF Opposite
    <3>3. QED
      BY <1>1, <2>1, <3>2
  <2>2. CASE u # w /\ v = w
    BY <1>3, <1>4, <2>2
  <2>3. CASE u # w /\ v # w
    BY <1>4, <2>3 DEF Inv, NeverMeetAlone
  <2>4. QED
    BY <2>1, <2>2, <2>3
<1>8. UpIsNotStopped'
    BY <1>2, <1>3, <1>4 DEF Inv, UpIsNotStopped
<1>9. Stored'
    BY <1>2 DEF Inv, Stored
<1>10. QED
    BY <1>1, <1>5, <1>6, <1>7, <1>8, <1>9 DEF Inv

\* The requests that there are.
Begins == \E w \in Worker : \/ Call(w) \/ Info(w) \/ InfoApp(w)
                            \/ List(w) \/ ListApps(w) \/ ListStream(w)

LEMMA Requests ==
    ASSUME Begins
    PROVE  \E w \in Worker : \E op, r : Begin(w, op, r) /\ Asked(r, op)
<1>1. PICK w \in Worker : \/ Call(w) \/ Info(w) \/ InfoApp(w)
                          \/ List(w) \/ ListApps(w) \/ ListStream(w)
    BY DEF Begins
<1>2. ASSUME NEW k \in Kind, NEW n \in NamesOf(k), NEW pc \in {"prune", "get", "find"},
             NEW op, Doing(op, pc), pc = "prune" => op = "Start", Begin(w, op, For(pc, k, n))
      PROVE  \E o, r : Begin(w, o, r) /\ Asked(r, o)
  <2>1. Asked(For(pc, k, n), op)
    BY <1>2, ForAsked DEF Asked
  <2>2. QED
    BY <1>2, <2>1
<1>3. ASSUME NEW k \in Kind, NEW op, Doing(op, "next"), CallList(w, op, k)
      PROVE  \E o, r : Begin(w, o, r) /\ Asked(r, o)
  <2> DEFINE r == [For("next", k, None) EXCEPT !.todo = {n \in NamesOf(k) : store[k][n] # None}]
  <2>1. IdleWorker \in WorkerRec
    BY IdleSound DEF Sound
  <2>2. /\ r \in WorkerRec /\ r.pc = "next" /\ r.kind = k /\ r.todo \subseteq NamesOf(k)
        /\ r.gone = {}
    BY <2>1, NamesAreNames DEF WorkerRec, For, IdleWorker
  <2>3. Begin(w, op, r)
    BY <1>3 DEF CallList
  <2> HIDE DEF r
  <2>4. QED
    BY <1>3, <2>2, <2>3 DEF Asked
<1>4. "rtsp" \in Kind /\ "app" \in Kind /\ NamesOf("rtsp") = Camera /\ NamesOf("app") = App
    BY DEF Kind, NamesOf
<1>5. CASE Call(w)
  <2>1. CASE \E k \in Kind : \E n \in NamesOf(k) :
               \/ Begin(w, "Start", For("prune", k, n)) \/ Begin(w, "Stop", For("get", k, n))
    <3>1. Doing("Start", "prune") /\ Doing("Stop", "get")
      BY DEF Doing
    <3>2. QED
      BY <1>2, <2>1, <3>1
  <2>2. CASE \E n \in Camera : Begin(w, "Upgrade", For("find", "rtsp", n))
    <3>1. Doing("Upgrade", "find")
      BY DEF Doing
    <3>2. QED
      BY <1>2, <1>4, <2>2, <3>1
  <2>3. CASE \E n \in Camera : \E f \in Flag, b \in BOOLEAN :
               Begin(w, "Set", [For("get", "rtsp", n) EXCEPT !.flag = f, !.want = b])
    <3>1. PICK n \in Camera, f \in Flag, b \in BOOLEAN :
               Begin(w, "Set", [For("get", "rtsp", n) EXCEPT !.flag = f, !.want = b])
      BY <2>3
    <3> DEFINE q == For("get", "rtsp", n)
    <3> DEFINE r == [q EXCEPT !.flag = f, !.want = b]
    <3>2. q \in WorkerRec /\ q.pc = "get" /\ q.name = n /\ q.kind = "rtsp" /\ q.todo = {}
          /\ q.gone = {}
      BY <1>4, ForAsked
    <3> HIDE DEF q
    <3>3. r \in WorkerRec /\ r.pc = "get" /\ r.name = n /\ r.kind = "rtsp" /\ r.todo = {}
          /\ r.gone = {}
      BY <3>2 DEF WorkerRec
    <3> HIDE DEF r
    <3>4. Asked(r, "Set")
      BY <1>4, <3>3 DEF Asked, Doing
    <3>5. QED
      BY <3>1, <3>4 DEF r, q
  <2>4. QED
    BY <1>5, <2>1, <2>2, <2>3 DEF Call
<1>6. CASE Info(w) \/ InfoApp(w)
  <2>1. Doing("Info", "get")
    BY DEF Doing
  <2>2. QED
    BY <1>2, <1>4, <1>6, <2>1 DEF Info, InfoApp
<1>7. CASE List(w) \/ ListApps(w) \/ ListStream(w)
  <2>1. Doing("List", "next") /\ Doing("Stream", "next")
    BY DEF Doing
  <2>2. QED
    BY <1>3, <1>4, <1>7, <2>1 DEF List, ListApps, ListStream
<1>8. QED
    BY <1>1, <1>5, <1>6, <1>7

-----------------------------------------------------------------------------
(* The steps that leave the containers alone. *)

\* Only List and Stop remove records, and only Start and upgrades add to up.
Records(w) ==
    /\ Stored'
    /\ \A n \in Camera : store["rtsp"][n] # None /\ store'["rtsp"][n] = None =>
         \/ worker[w].op = "List" /\ n \in worker[w].gone
         \/ worker[w].op = "Stop" /\ worker[w].name = n
    /\ \/ up' = up
       \/ /\ up' = up \cup {worker[w].name} /\ worker[w].pc = "put"
          /\ worker[w].op \in {"Start", "Upgrade"} /\ worker[w].kind = "rtsp"
          /\ worker[w].alone /\ ~Missed(worker[w].name)
          /\ store'["rtsp"][worker[w].name] # None

\* Where Start, Stop, an upgrade and a List go on to without touching a
\* container.
Quietly(w, s) ==
    /\ Goes(w, s) /\ UNCHANGED <<docker, created>> /\ Records(w)
    /\ s.op = "Start" => s.pc = "put" /\ worker[w].pc = "hset"
    /\ s.op = "Upgrade" => s.pc \in {"load", "halt"}
    /\ s.op = "Stop" /\ s.alone =>
         \/ s.pc = "stop" /\ s.id = docker[s.name].id
         \/ s.pc = "prune" /\ worker[w].pc = "del"
    /\ s.op = "List" => \A n \in s.gone : n \in worker[w].gone \/ docker[n].state = "none"

LEMMA SameRecords ==
    ASSUME Inv, NEW w, UNCHANGED <<docker, store, outside, up>>
    PROVE  Records(w)
    BY DEF Inv, Stored, Records

LEMMA ReturnQuietly ==
    ASSUME Inv, NEW w \in Worker, Return(w), UNCHANGED <<docker, created>>, Records(w)
    PROVE  \E s : Quietly(w, s)
<1>1. Quietly(w, IdleWorker)
    BY ReturnGoes, IdleSound DEF Quietly
<1>2. QED
    BY <1>1

LEMMA GotoQuietly ==
    ASSUME Inv, NEW w \in Worker, NEW pc, Goto(w, pc), UNCHANGED <<docker, created>>, Records(w),
           Doing(worker[w].op, pc), worker[w].pc \notin {"idle", "next"},
           worker[w].op # "Upgrade", pc \in {"put", "prune", "call", "next"},
           pc \in {"put", "call"} => worker[w].rec \in Rec,
           pc = "put" => worker[w].pc = "hset",
           pc = "prune" => worker[w].pc = "del" /\ worker[w].op = "Stop"
    PROVE  \E s : Quietly(w, s)
<1> DEFINE s == [worker[w] EXCEPT !.pc = pc]
<1>1. Goes(w, s)
    BY GotoGoes
<1>2. worker[w] \in WorkerRec
    BY DEF Inv, Sound
<1>3. s.pc = pc /\ s.op = worker[w].op /\ s.gone = worker[w].gone
    BY <1>2 DEF WorkerRec
<1> HIDE DEF s
<1>4. s.op = "Start" => pc = "put"
    BY <1>3 DEF Doing
<1>5. s.op = "Stop" => pc = "prune"
    BY <1>3 DEF Doing
<1>6. Quietly(w, s)
    BY <1>1, <1>3, <1>4, <1>5 DEF Quietly
<1>7. QED
    BY <1>6

\* What the request in progress is.
LEMMA Here ==
    ASSUME Inv, NEW w \in Worker
    PROVE  /\ worker[w] \in WorkerRec /\ Sound(worker[w]) /\ Doing(worker[w].op, worker[w].pc)
           /\ worker[w].pc \notin {"idle", "next"} =>
                worker[w].name \in NamesOf(worker[w].kind) /\ worker[w].name \in Name
           /\ worker[w].kind \in Kind
<1>1. Sound(worker[w]) /\ worker[w] \in WorkerRec
    BY DEF Inv, Sound
<1>2. worker[w].kind \in Kind
    BY <1>1 DEF WorkerRec
<1>3. QED
    BY <1>1, <1>2, NamesAreNames DEF Sound

\* A record that is written is one.
LEMMA Written ==
    ASSUME Inv, NEW w \in Worker, worker[w].pc \notin {"idle", "next"},
           worker[w].rec \in Rec, UNCHANGED <<docker, outside>>,
           store' = [store EXCEPT ![worker[w].kind][worker[w].name] = worker[w].rec],
           \/ up' = up
           \/ /\ up' = up \cup {worker[w].name} /\ worker[w].pc = "put"
              /\ worker[w].op \in {"Start", "Upgrade"} /\ worker[w].kind = "rtsp"
              /\ worker[w].alone /\ ~Missed(worker[w].name)
    PROVE  Records(w)
<1> DEFINE k == worker[w].kind
<1> DEFINE n == worker[w].name
<1>1. k \in Kind /\ n \in NamesOf(k) /\ n \in Name /\ worker[w].rec # None
    BY Here, Facts
<1>2. store \in [Kind -> [Name -> Rec \cup {None}]]
    BY DEF Inv, Stored
<1>3. store' \in [Kind -> [Name -> Rec \cup {None}]]
    BY <1>1, <1>2
<1>4. \A m \in Name : store'["rtsp"][m] = store["rtsp"][m] \/ store'["rtsp"][m] = worker[w].rec
    BY <1>1, <1>2 DEF Kind
<1>5. k = "rtsp" => store'["rtsp"][n] = worker[w].rec /\ n \in Camera
    BY <1>1, <1>2 DEF Kind, NamesOf
<1>6. up' \in SUBSET Camera
    BY <1>5 DEF Inv, Stored
<1>7. Stored'
    BY <1>3, <1>6 DEF Inv, Stored
<1>8. QED
    BY <1>1, <1>4, <1>5, <1>7 DEF Records, Name

LEMMA HSetQuietly ==
    ASSUME Inv, NEW w \in Worker, HSet(w)
    PROVE  \E s : Quietly(w, s)
<1>1. /\ worker[w].pc = "hset" /\ Goto(w, "put") /\ UNCHANGED <<docker, store, created, up>>
      /\ outside' = [outside EXCEPT ![worker[w].name]["streaming"] = TRUE]
    BY DEF HSet, At
<1>2. worker[w].op = "Start" /\ worker[w].rec \in Rec /\ worker[w].name \in Name
    BY <1>1, Here DEF Doing, Sound
<1>3. outside' \in [Name -> Rec]
    BY <1>1, <1>2 DEF Inv, Stored, Rec, Flag
<1>4. Records(w)
    BY <1>1, <1>3 DEF Inv, Stored, Records
<1>5. QED
    BY <1>1, <1>2, <1>4, GotoQuietly DEF Doing

LEMMA PutQuietly ==
    ASSUME Inv, NEW w \in Worker, Put(w)
    PROVE  \E s : Quietly(w, s)
<1>1. /\ worker[w].pc = "put" /\ Return(w) /\ UNCHANGED <<docker, outside, created>>
      /\ store' = [store EXCEPT ![worker[w].kind][worker[w].name] = worker[w].rec]
      /\ \/ up' = up
         \/ /\ up' = up \cup {worker[w].name}
            /\ worker[w].op \in {"Start", "Upgrade"} /\ worker[w].kind = "rtsp"
            /\ worker[w].alone /\ ~Missed(worker[w].name)
    BY DEF Put, At
<1>2. worker[w].rec \in Rec
    BY <1>1, Here DEF Sound
<1>3. Records(w)
    BY <1>1, <1>2, Written
<1>4. QED
    BY <1>1, <1>3, ReturnQuietly

LEMMA GetQuietly ==
    ASSUME Inv, NEW w \in Worker, Get(w)
    PROVE  \E s : Quietly(w, s)
<1> DEFINE r == worker[w]
<1> DEFINE n == worker[w].name
<1>1. /\ r.pc = "get" /\ UNCHANGED <<docker, store, outside, created, up>> /\ Records(w)
    BY SameRecords DEF Get, At
<1>2. /\ r \in WorkerRec /\ Sound(r) /\ Doing(r.op, "get") /\ n \in Name /\ n \in NamesOf(r.kind)
      /\ docker[n] \in ContainerRec /\ r.op \notin {"Start", "Upgrade", "none"}
    BY <1>1, Here DEF Inv, Stored, Doing
<1>3. CASE docker[n].state # "none"
  <2> DEFINE s == [r EXCEPT !.id = docker[n].id, !.pc = InfoOf(w)]
  <2>1. worker' = [worker EXCEPT ![w] = s]
    BY <1>3 DEF Get
  <2>2. /\ s \in WorkerRec /\ s.pc = InfoOf(w) /\ s.id = docker[n].id /\ s.op = r.op
        /\ s.name = n /\ s.kind = r.kind /\ s.alone = r.alone /\ s.todo = r.todo
        /\ s.gone = r.gone
    BY <1>2 DEF WorkerRec, ContainerRec, InfoOf
  <2> HIDE DEF s
  <2>3. Sound(s) /\ ~Yet(s) /\ (s.op = "Stop" => s.pc = "stop")
    BY <1>2, <2>2 DEF Sound, Doing, InfoOf, Yet
  <2>4. Goes(w, s)
    BY <1>2, <2>1, <2>2, <2>3 DEF Goes
  <2>5. s.op = "Stop" => s.pc = "stop" /\ s.id = docker[s.name].id
    BY <2>2, <2>3
  <2>6. s.op = "List" => \A m \in s.gone : m \in r.gone
    BY <2>2
  <2>7. s.op \notin {"Start", "Upgrade"}
    BY <1>2, <2>2
  <2>8. Quietly(w, s)
    BY <1>1, <2>4, <2>5, <2>6, <2>7 DEF Quietly
  <2>9. QED
    BY <2>8
<1>4. CASE docker[n].state = "none" /\ r.op \in {"List", "Stream"}
  <2> DEFINE s == [r EXCEPT !.gone = @ \cup {n}, !.pc = "next"]
  <2>1. worker' = [worker EXCEPT ![w] = s]
    BY <1>4 DEF Get
  <2>2. /\ s \in WorkerRec /\ s.pc = "next" /\ s.op = r.op
        /\ s.kind = r.kind /\ s.alone = r.alone /\ s.todo = r.todo
        /\ s.gone = r.gone \cup {n}
    BY <1>2 DEF WorkerRec
  <2> HIDE DEF s
  <2>3. Sound(s) /\ ~Yet(s) /\ s.op \notin {"Start", "Stop", "Upgrade"}
    BY <1>2, <1>4, <2>2 DEF Sound, Doing, Yet
  <2>4. Quietly(w, s)
    BY <1>1, <1>2, <1>4, <2>1, <2>2, <2>3 DEF Quietly, Goes
  <2>5. QED
    BY <2>4
<1>5. CASE docker[n].state = "none" /\ r.op \notin {"List", "Stream"}
  <2>1. Return(w)
    BY <1>5 DEF Get
  <2>2. QED
    BY <1>1, <2>1, ReturnQuietly
<1>6. QED
    BY <1>3, <1>4, <1>5

LEMMA StopFailsQuietly ==
    ASSUME Inv, NEW w \in Worker, StopFails(w)
    PROVE  \E s : Quietly(w, s)
<1> DEFINE r == worker[w]
<1> DEFINE s == [r EXCEPT !.pc = "del", !.alone = FALSE]
<1>1. /\ r.pc = "stop" /\ worker' = [worker EXCEPT ![w] = s]
      /\ UNCHANGED <<docker, store, outside, created, up>> /\ Records(w)
    BY SameRecords DEF StopFails, At
<1>2. r \in WorkerRec /\ Sound(r) /\ r.op = "Stop" /\ r.name \in NamesOf(r.kind)
    BY <1>1, Here DEF Doing
<1>3. /\ s \in WorkerRec /\ s.pc = "del" /\ s.op = "Stop" /\ s.name = r.name
      /\ s.kind = r.kind /\ s.alone = FALSE /\ s.todo = r.todo
    BY <1>2 DEF WorkerRec
<1> HIDE DEF s
<1>4. Sound(s) /\ ~Yet(s)
    BY <1>2, <1>3 DEF Sound, Doing, Yet
<1>5. Quietly(w, s)
    BY <1>1, <1>2, <1>3, <1>4 DEF Quietly, Goes
<1>6. QED
    BY <1>5

LEMMA DelQuietly ==
    ASSUME Inv, NEW w \in Worker, Del(w)
    PROVE  \E s : Quietly(w, s)
<1> DEFINE k == worker[w].kind
<1> DEFINE n == worker[w].name
<1>1. /\ worker[w].pc = "del" /\ Goto(w, "prune") /\ UNCHANGED <<docker, outside, created, up>>
      /\ store' = [store EXCEPT ![k][n] = None]
    BY DEF Del, At
<1>2. worker[w].op = "Stop" /\ k \in Kind /\ n \in Name
    BY <1>1, Here DEF Doing
<1>3. store' \in [Kind -> [Name -> Rec \cup {None}]]
    BY <1>1, <1>2 DEF Inv, Stored
<1>4. \A m \in Name : m # n => store'["rtsp"][m] = store["rtsp"][m]
    BY <1>1, <1>2 DEF Inv, Stored, Kind
<1>5. Records(w)
    BY <1>1, <1>2, <1>3, <1>4 DEF Inv, Stored, Records, Name
<1>6. QED
    BY <1>1, <1>2, <1>5, GotoQuietly DEF Doing

LEMMA LoadQuietly ==
    ASSUME Inv, NEW w \in Worker, Load(w)
    PROVE  \E s : Quietly(w, s)
<1> DEFINE r == worker[w]
<1> DEFINE q == store[worker[w].kind][worker[w].name]
<1>1. /\ r.pc = "load" /\ UNCHANGED <<docker, store, outside, created, up>> /\ Records(w)
    BY SameRecords DEF Load, At
<1>2. /\ r \in WorkerRec /\ Sound(r) /\ Doing(r.op, "load") /\ q \in Rec \cup {None}
      /\ r.op \in {"Info", "Set", "Upgrade", "List", "Stream"}
      /\ r.name \in NamesOf(r.kind)
    BY <1>1, Here DEF Inv, Stored, Doing
<1>3. CASE q = None
    BY <1>1, <1>3, ReturnQuietly DEF Load
<1>4. CASE q # None
  <2> DEFINE pc == IF r.op = "Upgrade" THEN "halt" ELSE "save"
  <2> DEFINE s == [r EXCEPT !.rec = q, !.pc = pc]
  <2>1. worker' = [worker EXCEPT ![w] = s]
    BY <1>4 DEF Load
  <2> HIDE DEF q
  <2>2. /\ s \in WorkerRec /\ s.pc = pc /\ s.op = r.op /\ s.rec = q
        /\ s.name = r.name /\ s.kind = r.kind /\ s.alone = r.alone /\ s.todo = r.todo
        /\ s.gone = r.gone
    BY <1>2 DEF WorkerRec
  <2> HIDE DEF s
  <2>3. Sound(s) /\ (Yet(s) => Yet(r)) /\ s.op \notin {"Start", "Stop"}
    BY <1>1, <1>2, <1>4, <2>2 DEF Sound, Doing, Yet
  <2>4. Quietly(w, s)
    BY <1>1, <1>2, <2>1, <2>2, <2>3 DEF Quietly, Goes
  <2>5. QED
    BY <2>4
<1>5. QED
    BY <1>3, <1>4

LEMMA SaveQuietly ==
    ASSUME Inv, NEW w \in Worker, Save(w)
    PROVE  \E s : Quietly(w, s)
<1>1. /\ worker[w].pc = "save" /\ UNCHANGED <<docker, outside, created, up>>
      /\ store' = [store EXCEPT ![worker[w].kind][worker[w].name] = worker[w].rec]
    BY DEF Save, At
<1>2. worker[w].rec \in Rec /\ worker[w].op \in {"Info", "Set", "List", "Stream"}
    BY <1>1, Here DEF Sound, Doing
<1>3. Records(w)
    BY <1>1, <1>2, Written
<1>4. \/ Return(w)
      \/ Goto(w, "call") /\ worker[w].op = "Set"
      \/ Goto(w, "next") /\ worker[w].op \in {"List", "Stream"}
    BY <1>2 DEF Save
<1>5. QED
    BY <1>1, <1>2, <1>3, <1>4, ReturnQuietly, GotoQuietly DEF Doing

LEMMA CallOutQuietly ==
    ASSUME Inv, NEW w \in Worker, CallOut(w)
    PROVE  \E s : Quietly(w, s)
<1> DEFINE r == worker[w]
<1> DEFINE s == [r EXCEPT !.rec[r.flag] = r.want, !.pc = "put"]
<1>1. /\ r.pc = "call" /\ UNCHANGED <<docker, store, created, up>>
      /\ outside' = [outside EXCEPT ![r.name][r.flag] = r.want]
      /\ worker' = [worker EXCEPT ![w] = s]
    BY DEF CallOut, At
<1>2. /\ r \in WorkerRec /\ Sound(r) /\ r.op = "Set" /\ r.rec \in Rec /\ r.name \in Name
      /\ r.name \in NamesOf(r.kind)
    BY <1>1, Here DEF Sound, Doing
<1>3. r.flag \in Flag /\ r.want \in BOOLEAN
    BY <1>2 DEF WorkerRec
<1>4. outside' \in [Name -> Rec]
    BY <1>1, <1>2, <1>3 DEF Inv, Stored, Rec
<1>5. Records(w)
    BY <1>1, <1>4 DEF Inv, Stored, Records
<1>6. [r.rec EXCEPT ![r.flag] = r.want] \in Rec
    BY <1>2, <1>3 DEF Rec
<1>7. /\ s \in WorkerRec /\ s.pc = "put" /\ s.op = r.op /\ s.rec \in Rec
      /\ s.name = r.name /\ s.kind = r.kind /\ s.alone = r.alone /\ s.todo = r.todo
    BY <1>2, <1>6 DEF WorkerRec
<1> HIDE DEF s
<1>8. Sound(s) /\ ~Yet(s)
    BY <1>2, <1>7 DEF Sound, Doing, Yet
<1>9. Quietly(w, s)
    BY <1>1, <1>2, <1>5, <1>7, <1>8 DEF Quietly, Goes
<1>10. QED
    BY <1>9

LEMMA NextProcessQuietly ==
    ASSUME Inv, NEW w \in Worker, NextProcess(w)
    PROVE  \E s : Quietly(w, s)
<1> DEFINE r == worker[w]
<1>1. /\ r.pc = "next" /\ UNCHANGED <<docker, store, outside, created, up>> /\ Records(w)
    BY SameRecords DEF NextProcess, At
<1>2. PICK n \in r.todo :
          worker' = [worker EXCEPT ![w] = [r EXCEPT !.todo = @ \ {n}, !.name = n, !.pc = "get"]]
    BY DEF NextProcess
<1> DEFINE s == [r EXCEPT !.todo = @ \ {n}, !.name = n, !.pc = "get"]
<1>3. /\ r \in WorkerRec /\ r.op \in {"List", "Stream"} /\ r.todo \subseteq NamesOf(r.kind)
      /\ r.todo \subseteq Name
    BY <1>1, Here DEF Sound, Doing, WorkerRec
<1>4. /\ s \in WorkerRec /\ s.pc = "get" /\ s.op = r.op /\ s.name = n
      /\ s.kind = r.kind /\ s.alone = r.alone /\ s.todo \subseteq r.todo
      /\ s.gone = r.gone
    BY <1>2, <1>3 DEF WorkerRec
<1>5. worker' = [worker EXCEPT ![w] = s]
    BY <1>2
<1> HIDE DEF s
<1>6. Sound(s) /\ ~Yet(s) /\ s.op \notin {"Start", "Stop", "Upgrade"}
    BY <1>2, <1>3, <1>4 DEF Sound, Doing, Yet
<1>7. Quietly(w, s)
    BY <1>1, <1>3, <1>4, <1>5, <1>6 DEF Quietly, Goes
<1>8. QED
    BY <1>7

LEMMA DeleteGoneQuietly ==
    ASSUME Inv, NEW w \in Worker, DeleteGone(w)
    PROVE  \E s : Quietly(w, s)
<1> DEFINE r == worker[w]
<1>1. r.pc = "next" /\ r.op = "List" /\ UNCHANGED <<docker, outside, created, up>>
    BY DEF DeleteGone, At
<1>2. PICK n \in r.gone :
          /\ store' = [store EXCEPT !["rtsp"][n] = None]
          /\ worker' = [worker EXCEPT ![w] = [r EXCEPT !.gone = @ \ {n}]]
    BY DEF DeleteGone, DeletePrefix
<1> DEFINE s == [r EXCEPT !.gone = @ \ {n}]
<1>3. r \in WorkerRec /\ Sound(r) /\ n \in Name
    BY <1>2, Here DEF WorkerRec
<1>4. /\ s \in WorkerRec /\ s.pc = r.pc /\ s.op = r.op
      /\ s.kind = r.kind /\ s.alone = r.alone /\ s.todo = r.todo
      /\ s.gone \subseteq r.gone
    BY <1>3 DEF WorkerRec
<1>5. worker' = [worker EXCEPT ![w] = s]
    BY <1>2
<1> HIDE DEF s
<1>6. Sound(s) /\ ~Yet(s)
    BY <1>1, <1>3, <1>4 DEF Sound, Yet
<1>7. store' \in [Kind -> [Name -> Rec \cup {None}]]
    BY <1>2, <1>3 DEF Inv, Stored, Kind
<1>8. Records(w)
  <2>1. \A m \in Name : m # n => store'["rtsp"][m] = store["rtsp"][m]
    BY <1>2, <1>3 DEF Inv, Stored, Kind
  <2>2. QED
    BY <1>1, <1>2, <1>7, <2>1 DEF Inv, Stored, Records, Name
<1>9. Quietly(w, s)
    BY <1>1, <1>4, <1>5, <1>6, <1>8 DEF Quietly, Goes
<1>10. QED
    BY <1>9

LEMMA ListReturnsQuietly ==
    ASSUME Inv, NEW w \in Worker, ListReturns(w)
    PROVE  \E s : Quietly(w, s)
    BY SameRecords, ReturnQuietly DEF ListReturns

LEMMA FindQuietly ==
    ASSUME Inv, NEW w \in Worker, Find(w)
    PROVE  \E s : Quietly(w, s)
<1> DEFINE r == worker[w]
<1> DEFINE c == docker[worker[w].name]
<1>1. /\ r.pc = "find" /\ UNCHANGED <<docker, store, outside, created, up>> /\ Records(w)
    BY SameRecords DEF Find, At
<1>2. /\ r \in WorkerRec /\ Sound(r) /\ r.op = "Upgrade" /\ c \in ContainerRec
      /\ r.name \in NamesOf(r.kind)
    BY <1>1, Here DEF Inv, Stored, Doing
<1>3. CASE worker' = [worker EXCEPT ![w] = [r EXCEPT !.id = c.id, !.pc = "load"]]
  <2> DEFINE s == [r EXCEPT !.id = c.id, !.pc = "load"]
  <2>1. worker' = [worker EXCEPT ![w] = s]
    BY <1>3
  <2> HIDE DEF c
  <2>2. /\ s \in WorkerRec /\ s.pc = "load" /\ s.op = r.op
        /\ s.name = r.name /\ s.kind = r.kind /\ s.alone = r.alone /\ s.todo = r.todo
    BY <1>2 DEF WorkerRec, ContainerRec
  <2> HIDE DEF s
  <2>3. Sound(s) /\ Yet(r)
    BY <1>1, <1>2, <2>2 DEF Sound, Doing, Yet
  <2>4. Quietly(w, s)
    BY <1>1, <1>2, <2>1, <2>2, <2>3 DEF Quietly, Goes
  <2>5. QED
    BY <2>4
<1>4. CASE Return(w)
    BY <1>1, <1>4, ReturnQuietly
<1>5. QED
    BY <1>3, <1>4 DEF Find

LEMMA QuietSteps ==
    ASSUME Inv, NEW w \in Worker,
           \/ HSet(w) \/ Put(w) \/ Get(w) \/ StopFails(w) \/ Del(w) \/ Load(w) \/ Save(w)
           \/ CallOut(w) \/ NextProcess(w) \/ DeleteGone(w) \/ ListReturns(w) \/ Find(w)
           \/ (Return(w) /\ UNCHANGED <<docker, store, outside, created, up>>)
    PROVE  \E s : Quietly(w, s)
<1>1. CASE Return(w) /\ UNCHANGED <<docker, store, outside, created, up>>
    BY <1>1, SameRecords, ReturnQuietly
<1>2. CASE \/ HSet(w) \/ Put(w) \/ Get(w) \/ StopFails(w) \/ Del(w) \/ Load(w)
    BY <1>2, HSetQuietly, PutQuietly, GetQuietly, StopFailsQuietly, DelQuietly, LoadQuietly
<1>3. CASE \/ Save(w) \/ CallOut(w) \/ NextProcess(w) \/ DeleteGone(w) \/ ListReturns(w)
           \/ Find(w)
    BY <1>3, SaveQuietly, CallOutQuietly, NextProcessQuietly, DeleteGoneQuietly,
       ListReturnsQuietly, FindQuietly
<1>4. QED
    BY <1>1, <1>2, <1>3

-----------------------------------------------------------------------------
(* The steps on containers. *)

\* A step on the containers stops one only for a Stop or an upgrade of its
\* name, which takes the name out of up; makes one run, or gives a name a new
\* one, only for a Start or an upgrade of it; and takes the requests to where
\* they have done so.
Docking(w, s) ==
    /\ Goes(w, s) /\ UNCHANGED <<store, outside>> /\ up' \subseteq up
    /\ docker' \in [Name -> ContainerRec]
    /\ \/ created' = created
       \/ created' = created + 1 /\ Yet(worker[w]) /\ ~Yet(s)
    /\ \A n \in Name :
         /\ docker[n].state = "running" =>
              \/ docker'[n].state = "running"
              \/ /\ worker[w].name = n
                 /\ \/ worker[w].op = "Stop"
                    \/ worker[w].op = "Upgrade" /\ (n \notin up' \/ worker[w].pc = "remove")
         /\ docker'[n].kind \in {docker[n].kind, "rtsp"}
            \/ (n = worker[w].name /\ docker'[n].kind = worker[w].kind
                /\ n \in NamesOf(worker[w].kind))
         /\ \/ docker'[n] = docker[n]
            \/ docker'[n].state = "none"
            \/ docker[n].state # "none" /\ docker'[n].id = docker[n].id /\ docker'[n].state = "exited"
            \/ worker[w].op \in {"Start", "Upgrade"} /\ worker[w].name = n
    /\ s.op \in {"Start", "Upgrade"} /\ s.pc \in {"hset", "put"}
         => docker'[s.name].state = "running"
    /\ s.op = "Stop" => s.pc = "del" /\ docker'[s.name].state = "exited"
    /\ s.pc = "remove" => s.name \notin up'
    /\ s.op # "List"

\* A step that changes nothing but the request, and does not go on with a Stop.
LEMMA ReturnDocking ==
    ASSUME Inv, NEW w \in Worker, Return(w), UNCHANGED <<docker, created, store, outside, up>>
    PROVE  \E s : Docking(w, s)
<1>1. Docking(w, IdleWorker)
    BY ReturnGoes, IdleSound DEF Docking, Inv, Stored
<1>2. QED
    BY <1>1

LEMMA PruneDocking ==
    ASSUME Inv, NEW w \in Worker, Prune(w)
    PROVE  \E s : Docking(w, s)
<1>1. /\ worker[w].pc = "prune" /\ docker' = Pruned
      /\ IF worker[w].op = "Start" THEN Goto(w, "create") ELSE Return(w)
      /\ UNCHANGED <<store, outside, created, up>>
    BY DEF Prune, At
<1>2. docker \in [Name -> ContainerRec] /\ NoContainer \in ContainerRec
      /\ NoContainer.state = "none" /\ NoContainer.kind = "rtsp"
    BY Facts DEF Inv, Stored, NoContainer, ContainerRec, Kind
<1>3. /\ docker' \in [Name -> ContainerRec]
      /\ \A n \in Name : docker'[n] = IF docker[n].state = "running" THEN docker[n] ELSE NoContainer
    BY <1>1, <1>2 DEF Pruned
<1>4. CASE worker[w].op = "Start"
  <2> DEFINE s == [worker[w] EXCEPT !.pc = "create"]
  <2>1. worker[w] \in WorkerRec /\ Yet(worker[w])
    BY <1>1, <1>4, Here DEF Yet
  <2>2. Goes(w, s)
    BY <1>1, <1>4, <2>1, GotoGoes DEF Doing
  <2>3. s.op = "Start" /\ s.pc = "create"
    BY <1>4, <2>1 DEF WorkerRec
  <2> HIDE DEF s
  <2>4. Docking(w, s)
    BY <1>1, <1>2, <1>3, <2>2, <2>3 DEF Docking
  <2>5. QED
    BY <2>4
<1>5. CASE worker[w].op # "Start"
  <2>1. Goes(w, IdleWorker)
    BY <1>1, <1>5, ReturnGoes
  <2>2. Docking(w, IdleWorker)
    BY <1>1, <1>2, <1>3, <2>1, IdleSound DEF Docking
  <2>3. QED
    BY <2>2
<1>6. QED
    BY <1>4, <1>5

\* The books of a request that is going to create a container.
LEMMA RoomForOne ==
    ASSUME Inv, NEW w \in Worker, Yet(worker[w])
    PROVE  created \in Nat /\ created + 1 \in 0..MaxId
<1> DEFINE Y == {v \in Worker : Yet(worker[v])}
<1>1. IsFiniteSet(Y) /\ Cardinality(Y) \in Nat
    BY Facts, FS_Subset, FS_CardinalityType
<1>2. {w} \subseteq Y /\ Cardinality({w}) = 1
    BY FS_Singleton
<1>3. 1 <= Cardinality(Y)
    BY <1>1, <1>2, FS_Subset
<1>4. QED
    BY <1>1, <1>3, Facts DEF Inv

LEMMA CreateDocking ==
    ASSUME Inv, NEW w \in Worker, Create(w)
    PROVE  \E s : Docking(w, s)
<1> DEFINE n == worker[w].name
<1>1. worker[w].pc = "create" /\ UNCHANGED <<store, outside, up>>
    BY DEF Create, At
<1>2. /\ worker[w] \in WorkerRec /\ worker[w].op \in {"Start", "Upgrade"} /\ n \in Name
      /\ n \in NamesOf(worker[w].kind) /\ Yet(worker[w]) /\ worker[w].kind \in Kind
      /\ worker[w].op = "Upgrade" => worker[w].rec \in Rec
    BY <1>1, Here DEF Doing, Yet, Sound
<1>3. CASE Return(w) /\ UNCHANGED <<docker, created>>
    BY <1>1, <1>3, ReturnDocking
<1>4. CASE /\ docker[n].state = "none" /\ created' = created + 1
           /\ docker' = [docker EXCEPT ![n] = [state |-> "created", id |-> created',
                                               kind |-> worker[w].kind]]
           /\ Goto(w, "run")
  <2> DEFINE s == [worker[w] EXCEPT !.pc = "run"]
  <2>1. Goes(w, s)
    BY <1>1, <1>2, <1>4, GotoGoes DEF Doing
  <2>2. s.op \in {"Start", "Upgrade"} /\ s.pc = "run" /\ ~Yet(s)
    BY <1>2 DEF WorkerRec, Yet
  <2> HIDE DEF s
  <2> DEFINE c == [state |-> "created", id |-> created', kind |-> worker[w].kind]
  <2>3. c \in ContainerRec /\ c.kind = worker[w].kind
    BY <1>2, <1>4, RoomForOne DEF ContainerRec
  <2> HIDE DEF c
  <2>4. docker' = [docker EXCEPT ![n] = c]
    BY <1>4 DEF c
  <2>5. /\ docker' \in [Name -> ContainerRec] /\ docker'[n] = c
        /\ \A m \in Name : m # n => docker'[m] = docker[m]
    BY <1>2, <2>3, <2>4 DEF Inv, Stored
  <2>6. Docking(w, s)
    BY <1>1, <1>2, <1>4, <2>1, <2>2, <2>3, <2>5 DEF Docking
  <2>7. QED
    BY <2>6
<1>5. QED
    BY <1>3, <1>4 DEF Create

LEMMA RunDocking ==
    ASSUME Inv, NEW w \in Worker, RunContainer(w)
    PROVE  \E s : Docking(w, s)
<1> DEFINE r == worker[w]
<1> DEFINE n == worker[w].name
<1>1. worker[w].pc = "run" /\ UNCHANGED <<store, outside, created, up>>
    BY DEF RunContainer, At
<1>2. /\ r \in WorkerRec /\ Sound(r) /\ r.op \in {"Start", "Upgrade"}
      /\ n \in Name /\ n \in NamesOf(r.kind) /\ docker \in [Name -> ContainerRec]
      /\ r.op = "Upgrade" => r.rec \in Rec
    BY <1>1, Here DEF Doing, Inv, Stored, Sound
<1>3. CASE docker[n].state = "none"
    BY <1>1, <1>3, ReturnDocking DEF RunContainer
<1>4. CASE docker[n].state # "none"
  <2> DEFINE s == Started(w)
  <2>1. /\ worker' = [worker EXCEPT ![w] = s]
        /\ docker' = [docker EXCEPT ![n].state = "running"]
    BY <1>4 DEF RunContainer
  <2>2. FreshRec \in Rec
    BY DEF FreshRec, Rec
  <2>3. /\ s \in WorkerRec /\ s.pc \in {"hset", "put"} /\ s.op = r.op /\ s.rec \in Rec
        /\ s.name = r.name /\ s.kind = r.kind /\ s.alone = r.alone /\ s.todo = r.todo
        /\ s.op = "Upgrade" => s.pc = "put"
    BY <1>2, <2>2 DEF WorkerRec, Started
  <2> HIDE DEF s
  <2>4. Sound(s) /\ ~Yet(s)
    BY <1>2, <2>3 DEF Sound, Doing, Yet
  <2>5. /\ docker' \in [Name -> ContainerRec]
        /\ docker'[n].state = "running" /\ docker'[n].kind = docker[n].kind
        /\ \A m \in Name : m # n => docker'[m] = docker[m]
    BY <1>2, <2>1 DEF ContainerRec
  <2>6. Docking(w, s)
    BY <1>1, <1>2, <2>1, <2>3, <2>4, <2>5 DEF Docking, Goes
  <2>7. QED
    BY <2>6
<1>5. QED
    BY <1>3, <1>4

LEMMA StopDocking ==
    ASSUME Inv, NEW w \in Worker, Stop(w)
    PROVE  \E s : Docking(w, s)
<1> DEFINE n == worker[w].name
<1>1. worker[w].pc = "stop" /\ UNCHANGED <<store, outside, created, up>>
    BY DEF Stop, At
<1>2. /\ worker[w] \in WorkerRec /\ worker[w].op = "Stop" /\ n \in Name
      /\ docker \in [Name -> ContainerRec]
    BY <1>1, Here DEF Doing, Inv, Stored
<1>3. CASE Return(w) /\ UNCHANGED docker
    BY <1>1, <1>3, ReturnDocking
<1>4. CASE /\ docker[n].state # "none" /\ docker' = [docker EXCEPT ![n].state = "exited"]
           /\ Goto(w, "del")
  <2> DEFINE s == [worker[w] EXCEPT !.pc = "del"]
  <2>1. Goes(w, s)
    BY <1>1, <1>2, <1>4, GotoGoes DEF Doing
  <2>2. s.op = "Stop" /\ s.pc = "del" /\ s.name = n
    BY <1>2 DEF WorkerRec
  <2> HIDE DEF s
  <2>3. /\ docker' \in [Name -> ContainerRec]
        /\ docker'[n].state = "exited" /\ docker'[n].kind = docker[n].kind
        /\ docker'[n].id = docker[n].id
        /\ \A m \in Name : m # n => docker'[m] = docker[m]
    BY <1>2, <1>4 DEF ContainerRec
  <2>4. Docking(w, s)
    BY <1>1, <1>2, <1>4, <2>1, <2>2, <2>3 DEF Docking
  <2>5. QED
    BY <2>4
<1>5. QED
    BY <1>3, <1>4 DEF Stop

LEMMA HaltDocking ==
    ASSUME Inv, NEW w \in Worker, Halt(w)
    PROVE  \E s : Docking(w, s)
<1> DEFINE n == worker[w].name
<1>1. worker[w].pc = "halt" /\ UNCHANGED <<store, outside, created>>
    BY DEF Halt, At
<1>2. /\ worker[w] \in WorkerRec /\ worker[w].op = "Upgrade" /\ n \in Name
      /\ worker[w].rec \in Rec /\ Yet(worker[w]) /\ docker \in [Name -> ContainerRec]
    BY <1>1, Here DEF Doing, Sound, Yet, Inv, Stored
<1>3. CASE Return(w) /\ UNCHANGED <<docker, up>>
    BY <1>1, <1>3, ReturnDocking
<1>4. CASE /\ docker[n].state # "none" /\ docker' = [docker EXCEPT ![n].state = "exited"]
           /\ up' = up \ {n} /\ Goto(w, "remove")
  <2> DEFINE s == [worker[w] EXCEPT !.pc = "remove"]
  <2>1. Goes(w, s)
    BY <1>1, <1>2, <1>4, GotoGoes DEF Doing
  <2>2. s.op = "Upgrade" /\ s.pc = "remove" /\ s.name = n
    BY <1>2 DEF WorkerRec
  <2> HIDE DEF s
  <2>3. /\ docker' \in [Name -> ContainerRec]
        /\ docker'[n].state = "exited" /\ docker'[n].kind = docker[n].kind
        /\ docker'[n].id = docker[n].id
        /\ \A m \in Name : m # n => docker'[m] = docker[m]
    BY <1>2, <1>4 DEF ContainerRec
  <2>4. Docking(w, s)
    BY <1>1, <1>2, <1>4, <2>1, <2>2, <2>3 DEF Docking
  <2>5. QED
    BY <2>4
<1>5. QED
    BY <1>3, <1>4 DEF Halt, IsHere

LEMMA RemoveDocking ==
    ASSUME Inv, NEW w \in Worker, Remove(w)
    PROVE  \E s : Docking(w, s)
<1> DEFINE n == worker[w].name
<1>1. worker[w].pc = "remove" /\ UNCHANGED <<store, outside, created, up>>
    BY DEF Remove, At
<1>2. /\ worker[w] \in WorkerRec /\ worker[w].op = "Upgrade" /\ n \in Name
      /\ worker[w].rec \in Rec /\ Yet(worker[w]) /\ docker \in [Name -> ContainerRec]
    BY <1>1, Here DEF Doing, Sound, Yet, Inv, Stored
<1>3. CASE Return(w) /\ UNCHANGED docker
    BY <1>1, <1>3, ReturnDocking
<1>4. CASE docker' = [docker EXCEPT ![n] = NoContainer] /\ Goto(w, "create")
  <2> DEFINE s == [worker[w] EXCEPT !.pc = "create"]
  <2>1. Goes(w, s)
    BY <1>1, <1>2, <1>4, GotoGoes DEF Doing
  <2>2. s.op = "Upgrade" /\ s.pc = "create"
    BY <1>2 DEF WorkerRec
  <2> HIDE DEF s
  <2>3. NoContainer \in ContainerRec /\ NoContainer.state = "none" /\ NoContainer.kind = "rtsp"
    BY Facts DEF NoContainer, ContainerRec, Kind
  <2>4. /\ docker' \in [Name -> ContainerRec] /\ docker'[n] = NoContainer
        /\ \A m \in Name : m # n => docker'[m] = docker[m]
    BY <1>2, <1>4, <2>3
  <2>5. Docking(w, s)
    BY <1>1, <1>2, <2>1, <2>2, <2>3, <2>4 DEF Docking
  <2>6. QED
    BY <2>5
<1>5. QED
    BY <1>3, <1>4 DEF Remove

LEMMA DockingSteps ==
    ASSUME Inv, NEW w \in Worker,
           Prune(w) \/ Create(w) \/ RunContainer(w) \/ Stop(w) \/ Halt(w) \/ Remove(w)
    PROVE  \E s : Docking(w, s)
    BY PruneDocking, CreateDocking, RunDocking, StopDocking, HaltDocking, RemoveDocking

-----------------------------------------------------------------------------
(* Every step is one of these. *)

LEMMA Steps ==
    ASSUME Inv, [Next]_vars
    PROVE  \/ \E w \in Worker : \E op, r : Begin(w, op, r) /\ Asked(r, op)
           \/ \E w \in Worker : \E s : Quietly(w, s) \/ Docking(w, s)
           \/ \E n \in App : Exit(n)
           \/ Restart
           \/ UNCHANGED vars
<1>1. CASE Begins
    BY <1>1, Requests
<1>2. CASE \E w \in Worker : Step(w)
    BY <1>2, QuietSteps, DockingSteps DEF Step
<1>3. CASE \E w \in Worker : Errors(w)
  <2>1. PICK w \in Worker : Errors(w)
    BY <1>3
  <2>2. Restart \/ (Return(w) /\ UNCHANGED <<docker, store, outside, created, up>>)
    BY <2>1, Zenon DEF Errors
  <2>3. QED
    BY <2>2, QuietSteps
<1>4. QED
    BY <1>1, <1>2, <1>3 DEF Next, Begins, Crash

LEMMA InitInv == Init => Inv
<1> SUFFICES ASSUME Init PROVE Inv
    OBVIOUS
<1>1. /\ docker = [n \in Name |-> NoContainer]
      /\ store = [k \in Kind |-> [n \in Name |-> None]]
      /\ outside = [n \in Name |-> [f \in Flag |-> FALSE]]
      /\ worker = [w \in Worker |-> IdleWorker]
      /\ created = 0 /\ up = {}
    BY DEF Init
<1>2. NoContainer \in ContainerRec
    BY Facts DEF NoContainer, ContainerRec, Kind
<1>3. Stored
    BY <1>1, <1>2 DEF Stored, Rec
<1>4. \A w \in Worker : Sound(worker[w]) /\ ~Yet(worker[w]) /\ worker[w].op = "none"
    BY <1>1, IdleSound
<1>5. Cardinality({w \in Worker : Yet(worker[w])}) = 0
  <2>1. {w \in Worker : Yet(worker[w])} = {}
    BY <1>4
  <2>2. QED
    BY <2>1, FS_EmptySet
<1>6. created \in Nat /\ created + Cardinality({w \in Worker : Yet(worker[w])}) <= MaxId
    BY <1>1, <1>5, Facts
<1>7. NeverMeetAlone /\ UpIsNotStopped
    BY <1>1, <1>4 DEF NeverMeetAlone, Opposite, UpIsNotStopped
<1>8. QED
    BY <1>1, <1>3, <1>4, <1>6, <1>7 DEF Inv

\* The server ends, and the requests with it.
LEMMA RestartInv ==
    ASSUME Inv, Restart
    PROVE  Inv'
<1>1. /\ worker' = [w \in Worker |-> IdleWorker]
      /\ UNCHANGED <<docker, store, outside, created, up>>
    BY DEF Restart
<1>2. \A w \in Worker : Sound(worker'[w]) /\ ~Yet(worker'[w]) /\ worker'[w].op = "none"
    BY <1>1, IdleSound
<1>3. Cardinality({w \in Worker : Yet(worker'[w])}) = 0
  <2>1. {w \in Worker : Yet(worker'[w])} = {}
    BY <1>2
  <2>2. QED
    BY <2>1, FS_EmptySet
<1>4. created \in Nat /\ Cardinality({w \in Worker : Yet(worker[w])}) \in Nat
    BY Facts, FS_Subset, FS_CardinalityType DEF Inv
<1>5. created' \in Nat /\ created' + Cardinality({w \in Worker : Yet(worker'[w])}) <= MaxId
    BY <1>1, <1>3, <1>4, Facts DEF Inv
<1>6. NeverMeetAlone' /\ UpIsNotStopped' /\ Stored'
  <2>1. \A w \in Worker : worker'[w].pc # "remove"
    BY <1>1, <1>2, IdleSound
  <2>2. NeverMeetAlone'
    BY <1>2 DEF NeverMeetAlone, Opposite
  <2>3. QED
    BY <1>1, <1>2, <2>1, <2>2 DEF Inv, UpIsNotStopped, Stored
<1>7. QED
    BY <1>1, <1>2, <1>5, <1>6 DEF Inv

LEMMA NextInv == Inv /\ [Next]_vars => Inv'
<1> SUFFICES ASSUME Inv, [Next]_vars PROVE Inv'
    OBVIOUS
<1>1. CASE \E w \in Worker : \E op, r : Begin(w, op, r) /\ Asked(r, op)
    BY <1>1, BeginInv
<1>2. CASE \E w \in Worker : \E s : Quietly(w, s)
  <2>0. PICK w \in Worker : \E s : Quietly(w, s)
    BY <1>2
  <2>1. PICK s : Quietly(w, s)
    BY <2>0
  <2>2. s.pc # "remove"
    <3>1. s.pc = "remove" => s.op = "Upgrade"
      BY <2>1 DEF Quietly, Goes, Sound, Doing
    <3>2. QED
      BY <2>1, <3>1 DEF Quietly
  <2>3. QED
    BY <2>1, <2>2, GoesInv DEF Quietly, Records
<1>3. CASE \E w \in Worker : \E s : Docking(w, s)
  <2>0. PICK w \in Worker : \E s : Docking(w, s)
    BY <1>3
  <2>1. PICK s : Docking(w, s)
    BY <2>0
  <2>2. Stored'
    BY <2>1 DEF Docking, Inv, Stored
  <2>3. QED
    BY <2>1, <2>2, GoesInv DEF Docking
<1>4. CASE \E n \in App : Exit(n)
  <2>1. PICK n \in App : Exit(n)
    BY <1>4
  <2>2. /\ docker' = [docker EXCEPT ![n].state = "exited"]
        /\ UNCHANGED <<store, outside, worker, created, up>>
    BY <2>1 DEF Exit
  <2>3. docker' \in [Name -> ContainerRec]
    BY <2>2 DEF Inv, Stored, ContainerRec
  <2>4. QED
    BY <2>2, <2>3 DEF Inv, Stored, NeverMeetAlone, UpIsNotStopped
<1>5. CASE Restart
    BY <1>5, RestartInv
<1>6. CASE UNCHANGED vars
    BY <1>6 DEF vars, Inv, Stored, NeverMeetAlone, UpIsNotStopped
<1>7. QED
    BY <1>1, <1>2, <1>3, <1>4, <1>5, <1>6, Steps

LEMMA InvTypes == Inv => TypeOK
<1> SUFFICES ASSUME Inv PROVE TypeOK
    OBVIOUS
<1>1. worker \in [Worker -> WorkerRec]
    BY DEF Inv, Sound
<1>2. created \in Nat /\ Cardinality({w \in Worker : Yet(worker[w])}) \in Nat
    BY Facts, FS_Subset, FS_CardinalityType DEF Inv
<1>3. created \in 0..MaxId
    BY <1>2, Facts DEF Inv
<1>4. QED
    BY <1>1, <1>3 DEF Inv, Stored, TypeOK, WorkerRec, ContainerRec

\* Every reachable state is of the declared types, and no more containers are
\* created than there are ids.
THEOREM TypeCorrect == Spec => []TypeOK
<1>1. QED
    BY InitInv, NextInv, InvTypes, PTL DEF Spec

-----------------------------------------------------------------------------
(* A camera that was started is kept. *)

LEMMA KeptInit == Init => KeptInv
<1> SUFFICES ASSUME Init PROVE KeptInv
    OBVIOUS
<1>1. \A w \in Worker : worker[w].op = "none"
    BY IdleSound DEF Init
<1>2. \A n \in Camera : docker[n].kind = "rtsp"
    BY DEF Init, NoContainer, Name
<1>3. QED
    BY <1>1, <1>2, InitInv
    DEF Init, KeptInv, StartRuns, CamerasAreCameras, UpIsNotMissed, StartedIsKept

\* A step of one request, whether it is about containers or not.
LEMMA KeptGoes ==
    ASSUME KeptInv, Inv', Camera \cap App = {},
           NEW w \in Worker, NEW s, Quietly(w, s) \/ Docking(w, s)
    PROVE  KeptInv'
<1>1. Inv /\ StartRuns /\ CamerasAreCameras /\ UpIsNotMissed /\ StartedIsKept /\ Goes(w, s)
    BY DEF KeptInv, Quietly, Docking
<1>2. /\ worker'[w] = s /\ \A v \in Worker : v # w => worker'[v] = worker[v]
    BY <1>1, WorkerAfter DEF Goes
<1>3. worker[w].kind \in Kind /\ (worker[w].pc = "remove" => worker[w].op = "Upgrade")
    BY <1>1, Here DEF Doing
<1>4. ASSUME NEW n \in Camera, docker[n].state = "running",
             ~(worker[w].op = "Stop" /\ worker[w].name = n),
             ~(worker[w].op = "Upgrade" /\ worker[w].name = n
                 /\ (n \notin up' \/ worker[w].pc = "remove"))
      PROVE  docker'[n].state = "running"
    BY <1>4 DEF Quietly, Docking, Name
<1>5. CamerasAreCameras'
  <2> SUFFICES ASSUME NEW n \in Camera PROVE docker'[n].kind = "rtsp"
      BY DEF CamerasAreCameras
  <2>1. docker[n].kind = "rtsp" /\ n \in Name
    BY <1>1 DEF CamerasAreCameras, Name
  <2>2. n \in NamesOf(worker[w].kind) => worker[w].kind = "rtsp"
    BY <1>3 DEF NamesOf, Kind
  <2>3. QED
    BY <2>1, <2>2 DEF Quietly, Docking
<1>6. StartRuns'
  <2> SUFFICES ASSUME NEW v \in Worker, worker'[v].op \in {"Start", "Upgrade"},
                      worker'[v].kind = "rtsp",
                      worker'[v].alone, worker'[v].pc \in {"hset", "put"}
               PROVE  docker'[worker'[v].name].state = "running"
      BY DEF StartRuns
  <2>1. /\ worker'[v].name = worker[v].name /\ worker[v].alone
        /\ worker'[v].op = worker[v].op /\ worker[v].kind = "rtsp"
    BY <1>1, <1>2 DEF Goes
  <2>2. worker'[v].name \in Camera
    BY DEF Inv, Sound, NamesOf
  <2>3. CASE v = w
    <3>1. CASE Docking(w, s)
      BY <1>2, <2>3, <3>1 DEF Docking
    <3>2. CASE Quietly(w, s)
      <4>1. worker[w].op = "Start" /\ worker[w].pc = "hset" /\ docker' = docker
        BY <1>2, <2>1, <2>3, <3>2 DEF Quietly
      <4>2. QED
        BY <1>1, <2>1, <2>3, <4>1 DEF StartRuns
    <3>3. QED
      BY <3>1, <3>2
  <2>4. CASE v # w
    <3>1. docker[worker[v].name].state = "running"
      BY <1>1, <1>2, <2>1, <2>4 DEF StartRuns
    <3>2. ~(worker[w].op \in {"Stop", "Upgrade"} /\ worker[w].name = worker[v].name)
      <4>1. worker[w].op \in {"Stop", "Upgrade"} => Opposite(worker[v].op, worker[w].op)
        BY <2>1 DEF Opposite
      <4>2. QED
        BY <1>1, <2>1, <2>4, <4>1 DEF Inv, NeverMeetAlone
    <3>3. QED
      BY <1>4, <2>1, <2>2, <3>1, <3>2
  <2>5. QED
    BY <2>3, <2>4
<1>7. ASSUME NEW n \in up, n \in up'
      PROVE  /\ docker'[n].state = "running" /\ store'["rtsp"][n] # None
             /\ docker[n].state = "running" /\ ~Missed(n)
  <2>1. n \in Camera /\ docker[n].state = "running" /\ store["rtsp"][n] # None /\ ~Missed(n)
    BY <1>1 DEF StartedIsKept, UpIsNotMissed, Inv, Stored
  <2>2. worker[w].name = n => worker[w].op # "Stop" /\ worker[w].pc # "remove"
    BY <1>1 DEF Inv, UpIsNotStopped
  <2>3. ~(worker[w].op = "List" /\ n \in worker[w].gone)
    BY <2>1 DEF Missed
  <2>4. store'["rtsp"][n] # None
    BY <2>1, <2>2, <2>3 DEF Quietly, Records, Docking
  <2>5. docker'[n].state = "running"
    BY <1>4, <1>7, <2>1, <2>2
  <2>6. QED
    BY <2>1, <2>4, <2>5
<1>8. ASSUME NEW n \in up', n \notin up
      PROVE  /\ docker'[n].state = "running" /\ store'["rtsp"][n] # None
             /\ docker[n].state = "running" /\ ~Missed(n)
  <2>1. /\ Quietly(w, s) /\ n = worker[w].name /\ worker[w].pc = "put"
        /\ worker[w].op \in {"Start", "Upgrade"} /\ worker[w].kind = "rtsp" /\ worker[w].alone
        /\ store'["rtsp"][n] # None /\ ~Missed(n)
    BY <1>8 DEF Quietly, Docking, Records
  <2>2. docker[n].state = "running" /\ docker' = docker
    BY <1>1, <2>1 DEF StartRuns, Quietly
  <2>3. QED
    BY <2>1, <2>2
<1>9. StartedIsKept'
    BY <1>7, <1>8 DEF StartedIsKept
<1>10. UpIsNotMissed'
  <2> SUFFICES ASSUME NEW n \in up', NEW v \in Worker,
                      worker'[v].op = "List", n \in worker'[v].gone
               PROVE  FALSE
      BY DEF UpIsNotMissed, Missed
  <2>1. docker[n].state = "running" /\ ~Missed(n)
    BY <1>7, <1>8
  <2>2. worker[v].op = "List"
    BY <1>1, <1>2 DEF Goes
  <2>3. n \in worker[v].gone
    BY <1>2, <2>1 DEF Quietly, Docking
  <2>4. QED
    BY <2>1, <2>2, <2>3 DEF Missed
<1>11. QED
    BY <1>5, <1>6, <1>9, <1>10 DEF KeptInv

LEMMA KeptNext ==
    ASSUME Camera \cap App = {}
    PROVE  KeptInv /\ [Next]_vars => KeptInv'
<1> SUFFICES ASSUME KeptInv, [Next]_vars PROVE KeptInv'
    OBVIOUS
<1>1. Inv /\ Inv' /\ StartRuns /\ CamerasAreCameras /\ UpIsNotMissed /\ StartedIsKept
    BY NextInv DEF KeptInv
<1>2. CASE \E w \in Worker : \E op, r : Begin(w, op, r) /\ Asked(r, op)
  <2>0. PICK w \in Worker : \E op, r : Begin(w, op, r) /\ Asked(r, op)
    BY <1>2
  <2>1. PICK op, r : Begin(w, op, r) /\ Asked(r, op)
    BY <2>0
  <2>2. /\ UNCHANGED <<docker, store>> /\ up' \subseteq up /\ op \in Ops
    BY <2>1 DEF Begin
  <2>3. worker'[w].pc \notin {"hset", "put"} /\ worker'[w].gone = {}
    <3>1. PICK b \in BOOLEAN : worker'[w] = Asking(r, op, b)
      BY <1>1, <2>1, BeginAfter
    <3>2. QED
      BY <2>1, <2>2, <3>1, AskedSound DEF Asked
  <2>4. StartRuns'
    <3> SUFFICES ASSUME NEW v \in Worker, worker'[v].op \in {"Start", "Upgrade"},
                        worker'[v].kind = "rtsp", worker'[v].alone, worker'[v].pc \in {"hset", "put"}
                 PROVE  docker'[worker'[v].name].state = "running"
        BY DEF StartRuns
    <3>1. v # w
      BY <2>3
    <3>2. /\ worker'[v].op = worker[v].op /\ worker'[v].name = worker[v].name
          /\ worker'[v].pc = worker[v].pc /\ worker'[v].kind = worker[v].kind
          /\ worker[v].alone
      BY <1>1, <2>1, <3>1, BeginOthers
    <3>3. QED
      BY <1>1, <2>2, <3>2 DEF StartRuns
  <2>5. UpIsNotMissed'
    <3> SUFFICES ASSUME NEW n \in up', NEW v \in Worker,
                        worker'[v].op = "List", n \in worker'[v].gone
                 PROVE  FALSE
        BY DEF UpIsNotMissed, Missed
    <3>1. v # w
      BY <2>3
    <3>2. worker'[v].op = worker[v].op /\ worker'[v].gone = worker[v].gone
      BY <1>1, <2>1, <3>1, BeginOthers
    <3>3. QED
      BY <1>1, <2>2, <3>2 DEF UpIsNotMissed, Missed
  <2>6. QED
    BY <1>1, <2>2, <2>4, <2>5 DEF KeptInv, CamerasAreCameras, StartedIsKept
<1>3. CASE \E w \in Worker : \E s : Quietly(w, s) \/ Docking(w, s)
    BY <1>1, <1>3, KeptGoes
<1>4. CASE \E n \in App : Exit(n)
  <2>1. PICK n \in App : Exit(n)
    BY <1>4
  <2>2. /\ docker' = [docker EXCEPT ![n].state = "exited"]
        /\ UNCHANGED <<store, outside, worker, created, up>>
    BY <2>1 DEF Exit
  <2>3. \A m \in Camera : docker'[m] = docker[m]
    BY <1>1, <2>2 DEF Inv, Stored, Name
  <2>4. \A w \in Worker : worker[w].pc \in {"hset", "put"} /\ worker[w].kind = "rtsp"
                            => worker[w].name \in Camera
    BY <1>1, Here DEF NamesOf
  <2>5. up \subseteq Camera
    BY <1>1 DEF Inv, Stored
  <2>6. QED
    BY <1>1, <2>2, <2>3, <2>4, <2>5
    DEF KeptInv, CamerasAreCameras, StartRuns, StartedIsKept, UpIsNotMissed, Missed
<1>5. CASE Restart
  <2>1. /\ UNCHANGED <<docker, store, up>> /\ \A w \in Worker : worker'[w].op = "none"
    BY <1>5, IdleSound DEF Restart
  <2>2. QED
    BY <1>1, <2>1
    DEF KeptInv, CamerasAreCameras, StartRuns, StartedIsKept, UpIsNotMissed, Missed
<1>6. CASE UNCHANGED vars
    BY <1>1, <1>6
    DEF vars, KeptInv, CamerasAreCameras, StartRuns, StartedIsKept, UpIsNotMissed, Missed
<1>7. QED
    BY <1>1, <1>2, <1>3, <1>4, <1>5, <1>6, Steps

\* Whatever is called and fails, a camera whose Start or upgrade returned
\* without an error, and that nobody asked to stop and no upgrade took down,
\* has its container running and its record, if the request met no Stop and
\* no upgrade of the camera, no List had found the name missing, and no
\* application has the name of a camera.
THEOREM StartedKept ==
    ASSUME Camera \cap App = {}
    PROVE  Spec => []StartedIsKept
<1>1. KeptInv => StartedIsKept
    BY DEF KeptInv
<1>2. QED
    BY <1>1, KeptInit, KeptNext, PTL DEF Spec

-----------------------------------------------------------------------------
(* A Stop that nothing met. *)

LEMMA StopInit == Init => StopInv
<1> SUFFICES ASSUME Init PROVE StopInv
    OBVIOUS
<1>1. \A w \in Worker : worker[w].op = "none"
    BY IdleSound DEF Init
<1>2. QED
    BY <1>1, InitInv DEF StopInv, StopFound

\* A step of one request.
LEMMA StopGoes ==
    ASSUME StopInv, Inv',
           NEW w \in Worker, NEW s, Quietly(w, s) \/ Docking(w, s)
    PROVE  StopInv'
<1>1. Inv /\ StopFound /\ Goes(w, s)
    BY DEF StopInv, Quietly, Docking
<1>2. /\ worker'[w] = s /\ \A v \in Worker : v # w => worker'[v] = worker[v]
    BY <1>1, WorkerAfter DEF Goes
<1> SUFFICES ASSUME NEW v \in Worker, worker'[v].op = "Stop", worker'[v].alone
             PROVE  LET c == docker'[worker'[v].name] IN
                    /\ worker'[v].pc = "stop" => c.state = "none" \/ c.id = worker'[v].id
                    /\ worker'[v].pc \in {"del", "prune"} => c.state # "running"
    BY DEF StopInv, StopFound
<1> DEFINE n == worker[v].name
<1>4. /\ worker'[v].name = n /\ worker[v].op = "Stop" /\ worker[v].alone
    BY <1>1, <1>2 DEF Goes
<1>5. n \in Name
    BY <1>1, <1>4, Here DEF Doing
<1>6. /\ worker[v].pc = "stop" => docker[n].state = "none" \/ docker[n].id = worker[v].id
      /\ worker[v].pc \in {"del", "prune"} => docker[n].state # "running"
    BY <1>1, <1>4 DEF StopFound
<1>7. CASE v = w /\ Quietly(w, s)
    BY <1>2, <1>4, <1>6, <1>7 DEF Quietly
<1>8. CASE v = w /\ Docking(w, s)
    BY <1>2, <1>8 DEF Docking
<1>9. CASE v # w
  <2>1. ~(worker[w].op \in {"Start", "Upgrade"} /\ worker[w].name = n)
    BY <1>1, <1>4, <1>9 DEF Inv, NeverMeetAlone, Opposite
  <2>2. \/ docker'[n] = docker[n]
        \/ docker'[n].state = "none"
        \/ docker[n].state # "none" /\ docker'[n].id = docker[n].id /\ docker'[n].state = "exited"
    BY <1>5, <2>1 DEF Quietly, Docking
  <2>3. worker'[v] = worker[v]
    BY <1>2, <1>9
  <2>4. QED
    BY <1>6, <2>2, <2>3
<1>10. QED
    BY <1>7, <1>8, <1>9

LEMMA StopNext == StopInv /\ [Next]_vars => StopInv'
<1> SUFFICES ASSUME StopInv, [Next]_vars PROVE StopInv'
    OBVIOUS
<1>1. Inv /\ Inv' /\ StopFound
    BY NextInv DEF StopInv
<1>2. CASE \E w \in Worker : \E op, r : Begin(w, op, r) /\ Asked(r, op)
  <2>0. PICK w \in Worker : \E op, r : Begin(w, op, r) /\ Asked(r, op)
    BY <1>2
  <2>1. PICK op, r : Begin(w, op, r) /\ Asked(r, op)
    BY <2>0
  <2>2. UNCHANGED docker /\ op \in Ops
    BY <2>1 DEF Begin
  <2>3. worker'[w].op = "Stop" => worker'[w].pc = "get"
    <3>1. PICK b \in BOOLEAN : worker'[w] = Asking(r, op, b)
      BY <1>1, <2>1, BeginAfter
    <3>2. worker'[w].pc = r.pc /\ worker'[w].op = op
      BY <2>1, <2>2, <3>1, AskedSound
    <3>3. op = "Stop" => r.pc = "get"
      BY <2>1 DEF Asked, Doing
    <3>4. QED
      BY <3>2, <3>3
  <2>4. ASSUME NEW v \in Worker, v # w, worker'[v].op = "Stop", worker'[v].alone
        PROVE  LET c == docker'[worker'[v].name] IN
               /\ worker'[v].pc = "stop" => c.state = "none" \/ c.id = worker'[v].id
               /\ worker'[v].pc \in {"del", "prune"} => c.state # "running"
    <3>1. /\ worker'[v].op = worker[v].op /\ worker'[v].name = worker[v].name
          /\ worker'[v].pc = worker[v].pc /\ worker'[v].id = worker[v].id
          /\ worker[v].alone
      BY <1>1, <2>1, <2>4, BeginOthers
    <3>2. QED
      BY <1>1, <2>2, <2>4, <3>1 DEF StopFound
  <2>5. StopFound'
    BY <2>3, <2>4 DEF StopFound
  <2>6. QED
    BY <1>1, <2>5 DEF StopInv
<1>3. CASE \E w \in Worker : \E s : Quietly(w, s) \/ Docking(w, s)
    BY <1>1, <1>3, StopGoes
<1>4. CASE \E n \in App : Exit(n)
  <2>1. PICK n \in App : Exit(n)
    BY <1>4
  <2>2. /\ docker' = [docker EXCEPT ![n].state = "exited"] /\ UNCHANGED worker
        /\ docker[n].state = "running" /\ docker \in [Name -> ContainerRec]
    BY <1>1, <2>1 DEF Exit, Inv, Stored
  <2>3. \A m \in Name : docker'[m] = docker[m]
                       \/ (docker[m].state # "none" /\ docker'[m].id = docker[m].id
                           /\ docker'[m].state = "exited")
    BY <2>2 DEF ContainerRec
  <2>4. StopFound'
    <3> SUFFICES ASSUME NEW w \in Worker, worker[w].op = "Stop", worker[w].alone
                 PROVE  LET c == docker'[worker[w].name] IN
                        /\ worker[w].pc = "stop" => c.state = "none" \/ c.id = worker[w].id
                        /\ worker[w].pc \in {"del", "prune"} => c.state # "running"
        BY <2>2 DEF StopFound
    <3>1. worker[w].name \in Name
      BY <1>1, Here DEF Doing
    <3>2. QED
      BY <1>1, <2>3, <3>1 DEF StopFound
  <2>5. QED
    BY <1>1, <2>4 DEF StopInv
<1>5. CASE Restart
  <2>1. \A w \in Worker : worker'[w].op = "none"
    BY <1>5, IdleSound DEF Restart
  <2>2. QED
    BY <1>1, <2>1 DEF StopInv, StopFound
<1>6. CASE UNCHANGED vars
    BY <1>1, <1>6 DEF vars, StopInv, StopFound
<1>7. QED
    BY <1>1, <1>2, <1>3, <1>4, <1>5, <1>6, Steps

\* What the step that ends a Stop does, when it has found the container.
LEMMA StopEnds ==
    ASSUME StopInv, NEW w \in Worker, worker[w].op = "Stop", worker[w].alone,
           Stop(w) \/ Prune(w), worker'[w].pc = "idle"
    PROVE  docker'[worker[w].name].state # "running"
<1> DEFINE n == worker[w].name
<1>1. Inv /\ StopFound /\ worker = [v \in Worker |-> worker[v]] /\ worker[w] \in WorkerRec
    BY Here DEF StopInv, Inv
<1>2. worker[w].pc \in {"stop", "prune"} /\ n \in Name
    BY <1>1, Here DEF Stop, Prune, At, Doing
<1>3. CASE Stop(w)
  <2>1. ~Goto(w, "del")
    BY <1>1 DEF Goto, WorkerRec
  <2>2. docker' = docker /\ ~(docker[n].state # "none" /\ docker[n].id = worker[w].id)
    BY <1>3, <2>1 DEF Stop
  <2>3. docker[n].state = "none"
    BY <1>1, <1>3, <2>2 DEF StopFound, Stop, At
  <2>4. QED
    BY <2>2, <2>3
<1>4. CASE Prune(w)
  <2>1. docker[n].state # "running"
    BY <1>1, <1>4 DEF StopFound, Prune, At
  <2>2. QED
    BY <1>2, <1>4, <2>1 DEF Prune, Pruned, NoContainer
<1>5. QED
    BY <1>3, <1>4

\* A Stop that finds the container and returns without an error leaves none
\* of the name running, whatever the other requests do, unless a Start or an
\* upgrade of the name met it or docker refused to stop the container.
THEOREM StopCorrect == Spec => StopStops
<1> DEFINE Ends == \A w \in Worker :
        (/\ worker[w].op = "Stop" /\ worker[w].alone
         /\ Stop(w) \/ Prune(w)
         /\ worker'[w].pc = "idle") => docker'[worker[w].name].state # "running"
<1>1. StopInv /\ [Next]_vars => [Ends]_vars
    BY StopEnds
<1>2. QED
    BY <1>1, StopInit, StopNext, PTL DEF Spec, StopStops
=============================================================================
