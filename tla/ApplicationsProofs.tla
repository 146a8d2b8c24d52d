-------------------------- MODULE ApplicationsProofs --------------------------
(***************************************************************************)
(* Theorems about Applications, for any number of applications, requests   *)
(* and commands: its type invariant, that what the cloud was told of an    *)
(* application is true, and that it answers the last command.              *)
(***************************************************************************)
EXTENDS Applications, TLAPS, SequenceTheorems

ContainerRec == [state : {"none", "created", "running", "exited"}, id : 0..MaxId]

WorkerRec ==
    [op : {"none", "add", "remove"},
     pc : {"idle", "images", "pull", "prune", "create", "run", "put", "get", "stop",
           "del", "clean", "publish", "tell"},
     name : App \cup {None}, id : 0..MaxId,
     say : {"none", "in-progress", "failed", "running", "exited"}, doubt : BOOLEAN]

Adding   == {"images", "pull", "prune", "create", "run", "put"}
Removing == {"get", "stop", "del", "clean", "publish"}

\* What a goroutine is about fits the place it is at.
WorkerFits(w, s) ==
    /\ s \in WorkerRec
    /\ IF s.pc = "idle" THEN s = Idle ELSE s.name \in App
    /\ s.pc \in Adding => s.op = "add"
    /\ s.pc \in Removing => s.op = "remove"
    /\ s.pc = "tell" =>
         \/ s.op = "add" /\ s.say \in {"in-progress", "running", "failed"}
         \/ s.op = "remove" /\ s.say \in {"exited", "failed"}
    /\ IF w = Listener THEN s.pc # "publish" ELSE s.pc \notin {"images", "tell"}

Types ==
    /\ docker \in [App -> ContainerRec]
    /\ images \subseteq App /\ record \subseteq App
    /\ worker \in [Worker -> WorkerRec]
    /\ channel \in Seq(Command)
    /\ cloud \in [App -> {"none", "in-progress", "failed", "running", "exited"}]
    /\ stale \in [App -> BOOLEAN]
    /\ last \in [App -> {"none", "add", "remove"}]
    /\ created \in 0..MaxId /\ commands \in 0..MaxCommands /\ calls \in 0..MaxCalls

Fits == \A w \in Worker : WorkerFits(w, worker[w])

Runs(a) == docker[a].state = "running"

\* What the listener knows of the container, unless it is in doubt.
Known(l) ==
    ~l.doubt =>
      /\ l.pc = "put" => Runs(l.name)
      /\ l.pc = "stop" => docker[l.name].id = l.id \/ ~Runs(l.name)
      /\ l.pc \in {"del", "clean"} => ~Runs(l.name)
      /\ l.pc = "tell" /\ l.say = "running" => Runs(l.name) /\ l.name \in record
      /\ l.pc = "tell" /\ l.say = "exited" => ~Runs(l.name)

ToldTrue(a) ==
    /\ cloud[a] = "running" => Runs(a) /\ a \in record
    /\ cloud[a] = "exited" => ~Runs(a)

Truth ==
    /\ \A a \in App : ~stale[a] /\ worker[Listener].name # a => ToldTrue(a)
    /\ Known(worker[Listener])

InLine(a) == \E n \in 1..Len(channel) : channel[n].name = a

\* The last message of a in the channel.
Final(n, a) ==
    /\ channel[n].name = a
    /\ \A m \in 1..Len(channel) : n < m => channel[m].name # a

LastInLine(a) == \A n \in 1..Len(channel) : Final(n, a) => channel[n].op = last[a]

Answer(op) ==
    CASE op = "none"   -> {"none"}
      [] op = "add"    -> {"running", "failed"}
      [] op = "remove" -> {"exited", "failed"}

\* The last command for a is in the channel, or what the listener works on, or
\* it has been answered.
Answering(a) ==
    /\ LastInLine(a)
    /\ worker[Listener].name = a /\ ~InLine(a) => worker[Listener].op = last[a]
    /\ ~stale[a] /\ worker[Listener].name # a /\ ~InLine(a) => cloud[a] \in Answer(last[a])

Answers == \A a \in App : Answering(a)

\* The inductive invariant.
Inv == Types /\ Fits /\ Truth /\ Answers

-----------------------------------------------------------------------------
(* What a step does to the containers, the goroutines and the channel. *)

\* Nothing that the cloud is told of b changes.
Same(b) ==
    /\ docker'[b].state = "running" <=> Runs(b)
    /\ Runs(b) => docker'[b].id = docker[b].id
    /\ b \in record => b \in record'

Stored ==
    /\ docker' \in [App -> ContainerRec] /\ images' \subseteq App /\ record' \subseteq App
    /\ created' \in 0..MaxId

\* Others than the listener change containers: it is in doubt, or learns of it
\* when it gets there.
Disturbed(b) ==
    stale'[b] /\ (worker[Listener].name = b => worker'[Listener].doubt)

\* The messages about applications stay.
Lined ==
    /\ channel' \in Seq(Command)
    /\ \A a \in App : (InLine(a)' <=> InLine(a)) /\ (LastInLine(a) => LastInLine(a)')

\* A step of others than the listener.
Others ==
    /\ worker' \in [Worker -> WorkerRec]
    /\ \A r \in Request : WorkerFits(r, worker'[r])
    /\ \/ worker'[Listener] = worker[Listener]
       \/ /\ worker[Listener].name \in App
          /\ worker'[Listener] = [worker[Listener] EXCEPT !.doubt = TRUE]
    /\ \A b \in App : (Same(b) /\ stale'[b] = stale[b]) \/ Disturbed(b)
    /\ Stored /\ stale' \in [App -> BOOLEAN] /\ calls' \in 0..MaxCalls
    /\ Lined
    /\ UNCHANGED <<cloud, last, commands>>

\* A step of w in an operation, which is at s afterwards.
Acts(w, s) ==
    /\ w \in Worker /\ worker[w].pc # "idle" /\ WorkerFits(w, s)
    /\ \/ s.name = worker[w].name /\ s.op = worker[w].op
       \/ w # Listener /\ s = Idle
    /\ IF w = Listener
       THEN worker' = [worker EXCEPT ![w] = s] /\ stale' = stale /\ Known(s)'
       ELSE \/ /\ worker' = [worker EXCEPT ![w] = s] /\ stale' = stale
               /\ \A b \in App : Same(b)
            \/ /\ worker' = [[worker EXCEPT ![w] = s] EXCEPT
                               ![Listener].doubt = @ \/ worker[Listener].name = worker[w].name]
               /\ stale' = [stale EXCEPT ![worker[w].name] = TRUE]
    /\ \A b \in App : b # worker[w].name => Same(b)
    /\ Stored
    /\ UNCHANGED <<channel, cloud, asked>>

LEMMA Names ==
    /\ {MaxCommands, MaxCalls, MaxId} \subseteq Nat /\ Listener \notin Request /\ None \notin App
    /\ Listener \in Worker /\ Request \subseteq Worker
    BY ApplicationsAssumption DEF ApplicationsAssumption, Worker

LEMMA IdleFits ==
    ASSUME NEW w PROVE WorkerFits(w, Idle)
<1>1. FALSE \in BOOLEAN
    BY Zenon
<1>2. 0 \in 0..MaxId
    BY Names
<1>3. Idle \in WorkerRec
    BY <1>1, <1>2 DEF Idle, WorkerRec
<1>4. Idle.pc = "idle"
    BY DEF Idle
<1>5. QED
    BY <1>3, <1>4 DEF WorkerFits, Adding, Removing

LEMMA Unlined ==
    ASSUME UNCHANGED <<channel, last>>, Types
    PROVE  Lined
    BY DEF Lined, InLine, LastInLine, Final, Types

LEMMA OthersInv ==
    ASSUME Inv, Others
    PROVE  Inv'
<1> DEFINE l == worker[Listener]
<1> DEFINE k == worker'[Listener]
<1>1. Types'
    BY DEF Inv, Types, Others, Stored, Lined
<1>2. WorkerFits(Listener, l) /\ l \in WorkerRec /\ (l.name \in App <=> l.pc # "idle")
  <2>1. WorkerFits(Listener, l)
    BY Names DEF Inv, Fits
  <2>2. l = Idle => l.name = None
    BY DEF Idle
  <2>3. QED
    BY <2>1, <2>2, Names DEF WorkerFits
<1>3. /\ k \in WorkerRec
      /\ k.op = l.op /\ k.pc = l.pc /\ k.name = l.name /\ k.id = l.id /\ k.say = l.say
      /\ l.doubt => k.doubt
      /\ k = l \/ l.pc # "idle"
  <2>1. CASE k = l
    BY <1>2, <2>1
  <2>2. CASE l.name \in App /\ k = [l EXCEPT !.doubt = TRUE]
    BY <1>2, <2>2 DEF WorkerRec
  <2>3. QED
    BY <2>1, <2>2 DEF Others
<1>4. WorkerFits(Listener, k)
    BY <1>2, <1>3 DEF WorkerFits
<1>5. Fits'
  <2>1. ASSUME NEW w \in Worker PROVE WorkerFits(w, worker'[w])
    BY <1>4 DEF Others, Worker
  <2>2. QED
    BY <2>1 DEF Fits, WorkerFits
<1>6. Truth'
  <2>1. ASSUME NEW a \in App, ~stale'[a], k.name # a PROVE ToldTrue(a)'
    <3>1. Same(a) /\ ~stale[a] /\ cloud'[a] = cloud[a]
      BY <2>1 DEF Others, Disturbed
    <3>2. ToldTrue(a)
      BY <1>3, <2>1, <3>1 DEF Inv, Truth
    <3>3. QED
      BY <3>1, <3>2 DEF ToldTrue, Same, Runs
  <2>2. Known(l)'
    <3>1. CASE k.pc = "idle"
      BY <3>1 DEF Known
    <3>2. CASE k.pc # "idle" /\ ~k.doubt
      <4>1. l.name \in App /\ ~l.doubt /\ Known(l)
        BY <1>2, <1>3, <3>2 DEF Inv, Truth
      <4>2. Same(l.name)
        BY <1>2, <1>3, <3>2, <4>1 DEF Others, Disturbed
      <4>3. QED
        BY <1>3, <4>1, <4>2 DEF Known, Same, Runs
    <3>3. CASE k.doubt
      BY <3>3 DEF Known
    <3>4. QED
      BY <3>1, <3>2, <3>3
  <2>3. QED
    BY <2>1, <2>2 DEF Truth
<1>7. Answers'
  <2> SUFFICES ASSUME NEW a \in App PROVE Answering(a)'
      BY DEF Answers
  <2>1. Answering(a) /\ (InLine(a)' <=> InLine(a)) /\ (LastInLine(a) => LastInLine(a)')
        /\ cloud' = cloud /\ last' = last
    BY DEF Inv, Answers, Others, Lined
  <2>2. ~stale'[a] => ~stale[a]
    BY DEF Others, Disturbed
  <2>3. QED
    BY <1>3, <2>1, <2>2 DEF Answering
<1>8. QED
    BY <1>1, <1>5, <1>6, <1>7 DEF Inv

LEMMA RequestActs ==
    ASSUME Inv, NEW w \in Request, NEW s, Acts(w, s)
    PROVE  Others
<1> DEFINE l == worker[Listener]
<1> DEFINE a == worker[w].name
<1>1. /\ worker \in [Worker -> WorkerRec] /\ w # Listener /\ w \in Worker /\ Listener \in Worker
      /\ s \in WorkerRec /\ a \in App /\ l \in WorkerRec
      /\ \A r \in Worker : WorkerFits(r, worker[r])
  <2>1. worker \in [Worker -> WorkerRec] /\ w # Listener /\ w \in Worker /\ Listener \in Worker
        /\ \A r \in Worker : WorkerFits(r, worker[r])
    BY Names DEF Inv, Types, Fits
  <2>2. WorkerFits(w, worker[w]) /\ WorkerFits(w, s) /\ worker[w].pc # "idle"
    BY <2>1 DEF Acts
  <2>3. QED
    BY <2>1, <2>2 DEF WorkerFits
<1>2. Stored /\ Lined /\ UNCHANGED <<cloud, last, commands, calls>>
    BY Unlined DEF Acts, asked, Inv
<1>3. stale \in [App -> BOOLEAN] /\ calls' \in 0..MaxCalls
    BY <1>2 DEF Inv, Types
<1>4. CASE worker' = [worker EXCEPT ![w] = s] /\ stale' = stale /\ \A b \in App : Same(b)
  <2>1. worker' \in [Worker -> WorkerRec] /\ worker'[Listener] = l
    BY <1>1, <1>4
  <2>2. \A r \in Request : WorkerFits(r, worker'[r])
    BY <1>1, <1>4 DEF Acts, Worker
  <2>3. QED
    BY <1>2, <1>3, <1>4, <2>1, <2>2 DEF Others
<1>5. CASE /\ worker' = [[worker EXCEPT ![w] = s] EXCEPT ![Listener].doubt = @ \/ l.name = a]
           /\ stale' = [stale EXCEPT ![a] = TRUE]
  <2> DEFINE d == l.doubt \/ l.name = a
  <2>1. worker' = [worker EXCEPT ![w] = s, ![Listener] = [l EXCEPT !.doubt = d]]
    BY <1>1, <1>5
  <2>2. d \in BOOLEAN /\ (l.name = a => d = TRUE) /\ (l.name # a => d = l.doubt)
    BY <1>1, Zenon DEF WorkerRec
  <2> HIDE DEF d
  <2>3. [l EXCEPT !.doubt = d] \in WorkerRec /\ (l.name # a => [l EXCEPT !.doubt = d] = l)
    BY <1>1, <2>2 DEF WorkerRec
  <2>4. worker' \in [Worker -> WorkerRec] /\ worker'[Listener] = [l EXCEPT !.doubt = d]
    BY <1>1, <2>1, <2>3
  <2>5. \A r \in Request : WorkerFits(r, worker'[r])
    <3>1. ASSUME NEW r \in Request PROVE worker'[r] = IF r = w THEN s ELSE worker[r]
      BY <1>1, <2>1, <2>3, Names
    <3>2. QED
      BY <1>1, <3>1 DEF Acts, Worker
  <2>6. stale' \in [App -> BOOLEAN] /\ stale'[a]
        /\ \A b \in App : b # a => stale'[b] = stale[b]
    <3>1. TRUE \in BOOLEAN
      BY Zenon
    <3>2. stale' \in [App -> BOOLEAN]
      BY <1>1, <1>3, <1>5, <3>1
    <3>3. stale'[a] = TRUE /\ \A b \in App : b # a => stale'[b] = stale[b]
      BY <1>1, <1>3, <1>5
    <3>4. QED
      BY <3>2, <3>3
  <2>7. l.name = a => worker'[Listener] = [l EXCEPT !.doubt = TRUE] /\ worker'[Listener].doubt
    BY <1>1, <2>2, <2>4 DEF WorkerRec
  <2>8. Disturbed(a) /\ \A b \in App : b # a => Same(b) /\ stale'[b] = stale[b]
    BY <2>6, <2>7 DEF Disturbed, Acts
  <2>9. \/ worker'[Listener] = l
        \/ l.name \in App /\ worker'[Listener] = [l EXCEPT !.doubt = TRUE]
    BY <1>1, <2>3, <2>4, <2>7
  <2>10. QED
    BY <1>2, <1>3, <2>4, <2>5, <2>6, <2>8, <2>9 DEF Others
<1>6. QED
    BY <1>1, <1>4, <1>5 DEF Acts

LEMMA ListenerActs ==
    ASSUME Inv, NEW s, Acts(Listener, s)
    PROVE  Inv'
<1> DEFINE l == worker[Listener]
<1>1. /\ worker \in [Worker -> WorkerRec] /\ Listener \in Worker
      /\ s \in WorkerRec /\ WorkerFits(Listener, s) /\ s.name = l.name /\ s.op = l.op
      /\ worker' = [worker EXCEPT ![Listener] = s] /\ stale' = stale
      /\ UNCHANGED <<channel, cloud, last, commands, calls>>
      /\ \A b \in App : b # l.name => Same(b)
      /\ Stored
  <2>1. worker \in [Worker -> WorkerRec] /\ Listener \in Worker /\ WorkerFits(Listener, s)
    BY Names DEF Inv, Types, Acts
  <2>2. QED
    BY <2>1 DEF Acts, WorkerFits, asked
<1>2. worker' \in [Worker -> WorkerRec] /\ l' = s
      /\ \A w \in Worker : w # Listener => worker'[w] = worker[w]
    BY <1>1
<1>3. Types'
    BY <1>1, <1>2 DEF Inv, Types, Stored
<1>4. Fits'
  <2>1. ASSUME NEW w \in Worker PROVE WorkerFits(w, worker'[w])
    BY <1>1, <1>2 DEF Inv, Fits
  <2>2. QED
    BY <2>1 DEF Fits, WorkerFits
<1>5. Truth'
  <2>1. ASSUME NEW a \in App, ~stale'[a], l'.name # a PROVE ToldTrue(a)'
    <3>1. Same(a) /\ ~stale[a] /\ cloud' = cloud /\ l.name # a
      BY <1>1, <1>2, <2>1
    <3>2. ToldTrue(a)
      BY <3>1 DEF Inv, Truth
    <3>3. QED
      BY <3>1, <3>2 DEF ToldTrue, Same, Runs
  <2>2. Known(l)'
    BY <1>2 DEF Acts, Known, Runs
  <2>3. QED
    BY <2>1, <2>2 DEF Truth
<1>6. Answers'
  <2> SUFFICES ASSUME NEW a \in App PROVE Answering(a)'
      BY DEF Answers
  <2>1. Answering(a) /\ (InLine(a)' <=> InLine(a)) /\ (LastInLine(a)' <=> LastInLine(a))
    BY <1>1 DEF Inv, Answers, InLine, LastInLine, Final
  <2>2. QED
    BY <1>1, <1>2, <2>1 DEF Answering
<1>7. QED
    BY <1>3, <1>4, <1>5, <1>6 DEF Inv

LEMMA ActsInv ==
    ASSUME Inv, NEW w \in Worker, NEW s, Acts(w, s)
    PROVE  Inv'
    BY RequestActs, OthersInv, ListenerActs DEF Worker

-----------------------------------------------------------------------------
(* Where a goroutine goes. *)

LEMMA Busy ==
    ASSUME Inv, NEW w \in Worker, worker[w].pc # "idle"
    PROVE  /\ worker \in [Worker -> WorkerRec] /\ worker[w] \in WorkerRec
           /\ worker[w].name \in App /\ WorkerFits(w, worker[w])
           /\ w = Listener => Known(worker[w])
    BY DEF Inv, Types, Fits, WorkerFits, Truth

LEMMA GotoFits ==
    ASSUME Inv, NEW w \in Worker, worker[w].pc # "idle", NEW s \in WorkerRec,
           s.name = worker[w].name, s.op = worker[w].op,
           s.pc \in Adding \cup Removing,
           s.pc \in Adding => s.op = "add", s.pc \in Removing => s.op = "remove",
           IF w = Listener THEN s.pc # "publish" ELSE s.pc # "images"
    PROVE  WorkerFits(w, s)
<1>1. s.pc # "idle" /\ s.pc # "tell"
    BY DEF Adding, Removing
<1>2. QED
    BY <1>1, Busy DEF WorkerFits

LEMMA GotoIs ==
    ASSUME Inv, NEW w \in Worker, worker[w].pc # "idle", NEW pc \in Adding \cup Removing
    PROVE  \E s \in WorkerRec :
             /\ Goto(w, pc) = [worker EXCEPT ![w] = s]
             /\ s = [worker[w] EXCEPT !.pc = pc]
             /\ s.pc = pc /\ s.name = worker[w].name /\ s.op = worker[w].op
             /\ s.id = worker[w].id /\ s.doubt = worker[w].doubt
<1> DEFINE s == [worker[w] EXCEPT !.pc = pc]
<1>1. Goto(w, pc) = [worker EXCEPT ![w] = s]
    BY DEF Goto
<1>2. s \in WorkerRec /\ s.pc = pc /\ s.name = worker[w].name /\ s.op = worker[w].op
      /\ s.id = worker[w].id /\ s.doubt = worker[w].doubt
    BY Busy DEF WorkerRec, Adding, Removing
<1>3. QED
    BY <1>1, <1>2

LEMMA TellsFits ==
    ASSUME Inv, worker[Listener].pc # "idle",
           NEW say \in {"in-progress", "failed", "running", "exited"},
           IF worker[Listener].op = "add" THEN say # "exited"
           ELSE worker[Listener].op = "remove" /\ say \in {"failed", "exited"}
    PROVE  \E s : /\ Tells(Listener, say) = [worker EXCEPT ![Listener] = s]
                  /\ WorkerFits(Listener, s) /\ s.pc = "tell" /\ s.say = say
                  /\ s.doubt = worker[Listener].doubt
                  /\ s.name = worker[Listener].name /\ s.op = worker[Listener].op
<1> DEFINE l == worker[Listener]
<1> DEFINE s == [worker[Listener] EXCEPT !.pc = "tell", !.say = say]
<1>1. l \in WorkerRec /\ worker \in [Worker -> WorkerRec] /\ Listener \in Worker
      /\ WorkerFits(Listener, l)
    BY Busy, Names
<1>2. Tells(Listener, say) = [worker EXCEPT ![Listener] = s]
    BY <1>1 DEF Tells
<1>3. s \in WorkerRec /\ s.pc = "tell" /\ s.say = say /\ s.doubt = l.doubt
      /\ s.name = l.name /\ s.op = l.op
    BY <1>1 DEF WorkerRec
<1>4. l.name \in App
    BY <1>1 DEF WorkerFits
<1>5. WorkerFits(Listener, s)
    BY <1>1, <1>3, <1>4 DEF WorkerFits, Adding, Removing
<1>6. QED
    BY <1>2, <1>3, <1>5

\* A step that changes no container and no record.
LEMMA QuietActs ==
    ASSUME Inv, NEW w \in Worker, worker[w].pc # "idle", NEW s, WorkerFits(w, s),
           \/ s.name = worker[w].name /\ s.op = worker[w].op
           \/ w # Listener /\ s = Idle,
           worker' = [worker EXCEPT ![w] = s],
           images' \subseteq App, UNCHANGED <<host, record, channel, told, asked>>,
           w = Listener => Known(s)
    PROVE  Acts(w, s)
<1>1. \A b \in App : Same(b)
    BY DEF Same, Runs, host
<1>2. Stored
    BY DEF Stored, Inv, Types, host
<1>3. Known(s)' <=> Known(s)
    BY DEF Known, Runs, host
<1>4. QED
    BY <1>1, <1>2, <1>3 DEF Acts, told

LEMMA FailedInv ==
    ASSUME Inv, NEW w \in Worker, worker[w].pc \in Adding \cup Removing,
           worker' = Failed(w), UNCHANGED <<host, images, record, channel, told, asked>>
    PROVE  Inv'
<1>1. /\ worker[w].pc # "idle" /\ images' \subseteq App
      /\ UNCHANGED <<host, record, channel, told, asked>>
    BY DEF Adding, Removing, Inv, Types, host, told, asked
<1>2. CASE w = Listener
  <2>1. worker[w].op \in {"add", "remove"}
    BY <1>1, Busy DEF WorkerFits
  <2>2. PICK s : /\ Tells(Listener, "failed") = [worker EXCEPT ![Listener] = s]
                 /\ WorkerFits(Listener, s) /\ s.pc = "tell" /\ s.say = "failed"
                 /\ s.name = worker[Listener].name /\ s.op = worker[Listener].op
    BY <1>1, <1>2, <2>1, TellsFits
  <2>3. Known(s)
    BY <2>2 DEF Known
  <2>4. worker' = [worker EXCEPT ![w] = s]
    BY <1>2, <2>2 DEF Failed
  <2>5. WorkerFits(w, s) /\ s.name = worker[w].name /\ s.op = worker[w].op
    BY <1>2, <2>2
  <2>6. Acts(w, s)
    BY <1>1, <2>3, <2>4, <2>5, QuietActs
  <2>7. QED
    BY <2>6, ActsInv
<1>3. CASE w # Listener
  <2>1. worker' = [worker EXCEPT ![w] = Idle]
    BY <1>3 DEF Failed, Return
  <2>2. Acts(w, Idle)
    BY <1>1, <1>3, <2>1, QuietActs, IdleFits
  <2>3. QED
    BY <2>2, ActsInv
<1>4. QED
    BY <1>2, <1>3

-----------------------------------------------------------------------------
(* The operations, step by step. *)

\* A step that leaves what runs and what is recorded.
LEMMA GoesInv ==
    ASSUME Inv, NEW w \in Worker, worker[w].pc # "idle",
           NEW pc \in (Adding \cup Removing),
           pc \in Adding => worker[w].op = "add", pc \in Removing => worker[w].op = "remove",
           IF w = Listener THEN pc # "publish" ELSE pc # "images",
           pc \notin {"put", "stop", "del", "clean"},
           worker' = Goto(w, pc), Stored, \A b \in App : Same(b),
           UNCHANGED <<channel, told, asked>>
    PROVE  Inv'
<1>1. PICK s \in WorkerRec :
             /\ Goto(w, pc) = [worker EXCEPT ![w] = s]
             /\ s = [worker[w] EXCEPT !.pc = pc]
             /\ s.pc = pc /\ s.name = worker[w].name /\ s.op = worker[w].op
             /\ s.id = worker[w].id /\ s.doubt = worker[w].doubt
    BY GotoIs
<1>2. WorkerFits(w, s)
    BY <1>1, GotoFits
<1>3. pc # "tell"
    BY DEF Adding, Removing
<1>4. Known(s)'
    BY <1>1, <1>3 DEF Known
<1>5. Acts(w, s)
    BY <1>1, <1>2, <1>4 DEF Acts, told
<1>6. QED
    BY <1>5, ActsInv

LEMMA SameKept ==
    ASSUME Inv, UNCHANGED <<host, record>>, images' \subseteq App
    PROVE  Stored /\ \A b \in App : Same(b)
    BY DEF Inv, Types, Stored, Same, Runs, host

LEMMA SamePruned ==
    ASSUME Inv, docker' = Pruned, UNCHANGED <<created, images, record>>
    PROVE  Stored /\ \A b \in App : Same(b)
<1>1. NoContainer \in ContainerRec
  <2>1. 0 \in 0..MaxId
    BY Names
  <2>2. QED
    BY <2>1 DEF NoContainer, ContainerRec
<1>2. \A b \in App : docker'[b] = IF docker[b].state = "running" THEN docker[b] ELSE NoContainer
    BY DEF Pruned
<1>3. docker' \in [App -> ContainerRec]
    BY <1>1 DEF Pruned, Inv, Types
<1>4. NoContainer.state = "none"
    BY DEF NoContainer
<1>5. \A b \in App : Same(b)
    BY <1>2, <1>4 DEF Same, Runs
<1>6. QED
    BY <1>3, <1>5 DEF Stored, Inv, Types

LEMMA ImagesInv ==
    ASSUME Inv, NEW w \in Worker, Images(w)
    PROVE  Inv'
<1>1. /\ worker[w].pc = "images" /\ UNCHANGED <<host, images, record, channel, told, asked>>
      /\ worker' = IF worker[w].name \in images THEN Goto(w, "prune")
                                                ELSE Tells(w, "in-progress")
    BY DEF Images, At
<1>2. worker[w].pc # "idle" /\ worker[w].op = "add" /\ w = Listener
    BY <1>1, Busy DEF WorkerFits, Adding
<1>3. images' \subseteq App /\ UNCHANGED <<host, record, channel, told, asked>>
    BY <1>1 DEF Inv, Types, host, told, asked
<1>4. CASE worker[w].name \in images
  <2>1. worker' = Goto(w, "prune") /\ Stored /\ \A b \in App : Same(b)
    BY <1>1, <1>3, <1>4, SameKept
  <2>2. QED
    BY <1>2, <1>3, <2>1, GoesInv DEF Adding, Removing
<1>5. CASE worker[w].name \notin images
  <2>1. PICK s : /\ Tells(Listener, "in-progress") = [worker EXCEPT ![Listener] = s]
                 /\ WorkerFits(Listener, s) /\ s.pc = "tell" /\ s.say = "in-progress"
                 /\ s.name = worker[Listener].name /\ s.op = worker[Listener].op
    BY <1>2, TellsFits
  <2>2. Known(s)
    BY <2>1 DEF Known
  <2>3. worker' = [worker EXCEPT ![w] = s] /\ WorkerFits(w, s)
        /\ s.name = worker[w].name /\ s.op = worker[w].op
    BY <1>1, <1>2, <1>5, <2>1
  <2>4. Acts(w, s)
    BY <1>2, <1>3, <2>2, <2>3, QuietActs
  <2>5. QED
    BY <2>4, ActsInv
<1>6. QED
    BY <1>4, <1>5

\* PullApplication ends, or Install goes on.
LEMMA PrepareInv ==
    ASSUME Inv, NEW w \in Worker, Pull(w) \/ Prune(w) \/ Create(w)
    PROVE  Inv'
<1>1. worker[w].pc \in {"pull", "prune", "create"} /\ worker[w].op = "add"
      /\ worker[w].pc # "idle" /\ worker[w].name \in App
  <2>1. worker[w].pc \in {"pull", "prune", "create"}
    BY DEF Pull, Prune, Create, At
  <2>2. QED
    BY <2>1, Busy DEF WorkerFits, Adding
<1>2. UNCHANGED <<channel, told, asked>>
    BY DEF Pull, Prune, Create
<1>3. CASE Pull(w)
  <2>1. worker' = Goto(w, "prune") /\ images' \subseteq App /\ UNCHANGED <<host, record>>
    BY <1>1, <1>3 DEF Pull, Inv, Types
  <2>2. Stored /\ \A b \in App : Same(b)
    BY <2>1, SameKept
  <2>3. QED
    BY <1>1, <1>2, <2>1, <2>2, GoesInv DEF Adding, Removing
<1>4. CASE Prune(w)
  <2>1. worker' = Goto(w, "create") /\ docker' = Pruned /\ UNCHANGED <<created, images, record>>
    BY <1>4 DEF Prune
  <2>2. Stored /\ \A b \in App : Same(b)
    BY <2>1, SamePruned
  <2>3. QED
    BY <1>1, <1>2, <2>1, <2>2, GoesInv DEF Adding, Removing
<1>5. CASE Create(w)
  <2> DEFINE a == worker[w].name
  <2>1. /\ worker' = Goto(w, "run") /\ created < MaxId /\ docker[a].state = "none"
        /\ created' = created + 1
        /\ docker' = [docker EXCEPT ![a] = [state |-> "created", id |-> created']]
        /\ UNCHANGED <<images, record>>
    BY <1>5 DEF Create
  <2>2. created' \in 0..MaxId /\ docker \in [App -> ContainerRec]
    BY <2>1, Names DEF Inv, Types
  <2>3. docker' \in [App -> ContainerRec]
    BY <1>1, <2>1, <2>2 DEF ContainerRec
  <2>4. \A b \in App : Same(b)
    BY <1>1, <2>1, <2>2 DEF Same, Runs
  <2>5. Stored
    BY <2>1, <2>2, <2>3 DEF Stored, Inv, Types
  <2>6. QED
    BY <1>1, <1>2, <2>1, <2>4, <2>5, GoesInv DEF Adding, Removing
<1>6. QED
    BY <1>3, <1>4, <1>5

LEMMA FailsInv ==
    ASSUME Inv, NEW w \in Worker, PullFails(w) \/ Conflict(w) \/ InstallFails(w) \/ DelFails(w)
    PROVE  Inv'
<1>1. worker[w].pc \in Adding \cup Removing
    BY DEF PullFails, Conflict, InstallFails, DelFails, At, Adding, Removing
<1>2. worker' = Failed(w) /\ UNCHANGED <<host, images, record, channel, told, asked>>
    BY DEF PullFails, Conflict, InstallFails, DelFails
<1>3. QED
    BY <1>1, <1>2, FailedInv

\* A step that changes the container of w, or its record.
LEMMA TouchActs ==
    ASSUME Inv, NEW w \in Worker, worker[w].pc # "idle", NEW s, WorkerFits(w, s),
           \/ s.name = worker[w].name /\ s.op = worker[w].op
           \/ w # Listener /\ s = Idle,
           Touch(w, worker[w].name, [worker EXCEPT ![w] = s]),
           w = Listener => Known(s)',
           \A b \in App : b # worker[w].name => Same(b),
           Stored, UNCHANGED <<channel, cloud, asked>>
    PROVE  Inv'
<1>1. Acts(w, s)
  <2>1. CASE w = Listener
    BY <2>1 DEF Acts, Touch
  <2>2. CASE w # Listener
    <3>1. [worker EXCEPT ![w] = s][Listener] = worker[Listener]
      BY <2>2, Busy, Names
    <3>2. QED
      BY <2>2 DEF Acts, Touch
  <2>3. QED
    BY <2>1, <2>2
<1>2. QED
    BY <1>1, ActsInv

LEMMA TouchTo ==
    ASSUME Inv, NEW w \in Worker, worker[w].pc # "idle", NEW pc \in Adding \cup Removing,
           pc \in Adding => worker[w].op = "add", pc \in Removing => worker[w].op = "remove",
           IF w = Listener THEN pc # "publish" ELSE pc # "images",
           Touch(w, worker[w].name, Goto(w, pc)),
           pc = "put" => docker'[worker[w].name].state = "running",
           pc \in {"del", "clean"} => docker'[worker[w].name].state # "running" \/ worker[w].doubt,
           pc # "stop",
           \A b \in App : b # worker[w].name => Same(b),
           Stored, UNCHANGED <<channel, cloud, asked>>
    PROVE  Inv'
<1>1. PICK s \in WorkerRec :
             /\ Goto(w, pc) = [worker EXCEPT ![w] = s]
             /\ s = [worker[w] EXCEPT !.pc = pc]
             /\ s.pc = pc /\ s.name = worker[w].name /\ s.op = worker[w].op
             /\ s.id = worker[w].id /\ s.doubt = worker[w].doubt
    BY GotoIs
<1>2. WorkerFits(w, s)
  <2>1. /\ s.pc \in Adding => s.op = "add"
        /\ s.pc \in Removing => s.op = "remove"
        /\ IF w = Listener THEN s.pc # "publish" ELSE s.pc # "images"
    BY <1>1
  <2>2. QED
    BY <1>1, <2>1, GotoFits
<1>3. pc # "tell"
    BY DEF Adding, Removing
<1>4. Known(s)'
    BY <1>1, <1>3 DEF Known, Runs
<1>5. Touch(w, worker[w].name, [worker EXCEPT ![w] = s])
    BY <1>1
<1>6. QED
    BY <1>1, <1>2, <1>4, <1>5, TouchActs

\* The container is started.
LEMMA RunInv ==
    ASSUME Inv, NEW w \in Worker, Run(w)
    PROVE  Inv'
<1> DEFINE a == worker[w].name
<1>1. /\ worker[w].pc = "run" /\ docker[a].state # "none"
      /\ docker' = [docker EXCEPT ![a].state = "running"]
      /\ Touch(w, a, Goto(w, "put"))
      /\ UNCHANGED <<created, images, record, channel, cloud, asked>>
    BY DEF Run, At
<1>2. worker[w].pc # "idle" /\ worker[w].op = "add" /\ a \in App
    BY <1>1, Busy DEF WorkerFits, Adding
<1>3. docker \in [App -> ContainerRec]
    BY DEF Inv, Types
<1>4. docker' \in [App -> ContainerRec] /\ docker'[a].state = "running"
      /\ \A b \in App : b # a => Same(b)
    BY <1>1, <1>2, <1>3 DEF ContainerRec, Runs, Same
<1>5. Stored
    BY <1>1, <1>4 DEF Stored, Inv, Types
<1>6. QED
    BY <1>1, <1>2, <1>4, <1>5, TouchTo DEF Adding, Removing

LEMMA PutInv ==
    ASSUME Inv, NEW w \in Worker, Put(w)
    PROVE  Inv'
<1> DEFINE a == worker[w].name
<1>1. /\ worker[w].pc = "put" /\ record' = record \cup {a}
      /\ Touch(w, a, IF w = Listener THEN Tells(w, "running") ELSE Return(w))
      /\ UNCHANGED <<host, images, channel, cloud, asked>>
    BY DEF Put, At
<1>2. worker[w].pc # "idle" /\ worker[w].op = "add" /\ a \in App
    BY <1>1, Busy DEF WorkerFits, Adding
<1>3. \A b \in App : Same(b)
    BY <1>1 DEF Same, Runs, host
<1>4. Stored /\ a \in record'
    BY <1>1, <1>2 DEF Stored, Inv, Types, host
<1>5. CASE w = Listener
  <2>1. PICK s : /\ Tells(Listener, "running") = [worker EXCEPT ![Listener] = s]
                 /\ WorkerFits(Listener, s) /\ s.pc = "tell" /\ s.say = "running"
                 /\ s.doubt = worker[Listener].doubt
                 /\ s.name = worker[Listener].name /\ s.op = worker[Listener].op
    BY <1>2, <1>5, TellsFits
  <2>2. Touch(w, a, [worker EXCEPT ![w] = s]) /\ WorkerFits(w, s)
        /\ s.name = a /\ s.op = worker[w].op /\ s.doubt = worker[w].doubt
    BY <1>1, <1>5, <2>1
  <2>3. ~s.doubt => docker'[a].state = "running"
    <3>1. Known(worker[w]) /\ Same(a)
      BY <1>2, <1>3, <1>5, Busy
    <3>2. QED
      BY <1>1, <2>2, <3>1 DEF Known, Same
  <2>4. Known(s)'
    BY <1>4, <2>1, <2>2, <2>3 DEF Known, Runs
  <2>5. QED
    BY <1>1, <1>2, <1>3, <1>4, <2>2, <2>4, TouchActs
<1>6. CASE w # Listener
  <2>1. Touch(w, a, [worker EXCEPT ![w] = Idle])
    BY <1>1, <1>6 DEF Return
  <2>2. QED
    BY <1>1, <1>2, <1>3, <1>4, <1>6, <2>1, IdleFits, TouchActs
<1>7. QED
    BY <1>5, <1>6

\* The listener is to tell that the application has exited, and knows it.
LEMMA ExitedTold ==
    ASSUME Inv, worker[Listener].pc \in Removing, worker' = Tells(Listener, "exited"),
           ~worker[Listener].doubt => docker'[worker[Listener].name].state # "running",
           Stored, \A b \in App : Same(b), UNCHANGED <<channel, told, asked>>
    PROVE  Inv'
<1> DEFINE l == worker[Listener]
<1>1. l.pc # "idle" /\ Listener \in Worker
    BY Names DEF Removing
<1>2. l.op = "remove"
    BY <1>1, Busy DEF WorkerFits
<1>3. PICK s : /\ Tells(Listener, "exited") = [worker EXCEPT ![Listener] = s]
               /\ WorkerFits(Listener, s) /\ s.pc = "tell" /\ s.say = "exited"
               /\ s.doubt = l.doubt /\ s.name = l.name /\ s.op = l.op
    BY <1>1, <1>2, TellsFits
<1>4. Known(s)'
    BY <1>3 DEF Known, Runs
<1>5. Acts(Listener, s)
    BY <1>1, <1>3, <1>4 DEF Acts, told
<1>6. QED
    BY <1>5, ListenerActs

LEMMA StoppedInv ==
    ASSUME Inv, NEW w \in Worker, worker[w].pc \in Removing, worker' = Stopped(w),
           w = Listener /\ ~worker[w].doubt => docker'[worker[w].name].state # "running",
           Stored, \A b \in App : Same(b), UNCHANGED <<channel, told, asked>>
    PROVE  Inv'
<1>1. CASE w = Listener
    BY <1>1, ExitedTold DEF Stopped
<1>2. CASE w # Listener
  <2>1. worker[w].pc # "idle" /\ worker' = Goto(w, "publish")
    BY <1>2 DEF Removing, Stopped
  <2>2. worker[w].op = "remove"
    BY <2>1, Busy DEF WorkerFits
  <2>3. QED
    BY <1>2, <2>1, <2>2, GoesInv DEF Adding, Removing
<1>3. QED
    BY <1>1, <1>2

\* The container is looked up.
LEMMA GetInv ==
    ASSUME Inv, NEW w \in Worker, Get(w)
    PROVE  Inv'
<1> DEFINE a == worker[w].name
<1> DEFINE c == docker[worker[w].name]
<1>1. /\ worker[w].pc = "get" /\ UNCHANGED <<host, images, record, channel, told, asked>>
      /\ worker' = IF c.state # "none"
                   THEN [worker EXCEPT ![w].pc = "stop", ![w].id = c.id]
                   ELSE IF w = Listener THEN Tells(w, "exited") ELSE Return(w)
    BY DEF Get, At
<1>2. worker[w].pc # "idle" /\ worker[w].pc \in Removing /\ worker[w].op = "remove" /\ a \in App
      /\ worker \in [Worker -> WorkerRec] /\ worker[w] \in WorkerRec
    BY <1>1, Busy DEF WorkerFits, Removing
<1>3. images' \subseteq App /\ UNCHANGED <<host, record, channel, told, asked>>
    BY <1>1 DEF Inv, Types, host, told, asked
<1>4. c \in ContainerRec /\ docker' = docker
    BY <1>1, <1>2 DEF Inv, Types, host
<1>5. CASE c.state # "none"
  <2> DEFINE s == [worker[w] EXCEPT !.pc = "stop", !.id = c.id]
  <2>1. worker' = [worker EXCEPT ![w] = s]
    BY <1>1, <1>2, <1>5
  <2>2. c.id \in 0..MaxId
    BY <1>4 DEF ContainerRec
  <2>3. /\ s \in WorkerRec /\ s.pc = "stop" /\ s.id = c.id /\ s.name = a /\ s.op = worker[w].op
    BY <1>2, <2>2 DEF WorkerRec
  <2> HIDE DEF s
  <2>4. WorkerFits(w, s)
    BY <1>2, <2>3, GotoFits DEF Adding, Removing
  <2>5. Known(s)
    BY <2>3 DEF Known
  <2>6. Acts(w, s)
    BY <1>2, <1>3, <2>1, <2>3, <2>4, <2>5, QuietActs
  <2>7. QED
    BY <2>6, ActsInv
<1>6. CASE c.state = "none" /\ w = Listener
  <2>1. Stored /\ \A b \in App : Same(b)
    BY <1>3, SameKept
  <2>2. docker'[a].state # "running" /\ worker' = Tells(w, "exited")
    BY <1>1, <1>4, <1>6
  <2>3. QED
    BY <1>2, <1>3, <1>6, <2>1, <2>2, ExitedTold
<1>7. CASE c.state = "none" /\ w # Listener
  <2>1. worker' = [worker EXCEPT ![w] = Idle]
    BY <1>1, <1>7 DEF Return
  <2>2. Acts(w, Idle)
    BY <1>2, <1>3, <1>7, <2>1, QuietActs, IdleFits
  <2>3. QED
    BY <2>2, ActsInv
<1>8. QED
    BY <1>5, <1>6, <1>7

LEMMA StopInv ==
    ASSUME Inv, NEW w \in Worker, Stop(w)
    PROVE  Inv'
<1> DEFINE a == worker[w].name
<1>1. /\ worker[w].pc = "stop"
      /\ IF docker[a].id = worker[w].id
         THEN docker' = Ended(a) /\ Touch(w, a, Goto(w, "del"))
         ELSE worker' = Stopped(w) /\ UNCHANGED <<docker, stale>>
      /\ UNCHANGED <<created, images, record, channel, cloud, asked>>
    BY DEF Stop, At
<1>2. worker[w].pc # "idle" /\ worker[w].pc \in Removing /\ worker[w].op = "remove" /\ a \in App
    BY <1>1, Busy DEF WorkerFits, Removing
<1>3. docker \in [App -> ContainerRec]
    BY DEF Inv, Types
<1>4. CASE docker[a].id = worker[w].id
  <2>1. docker' = [docker EXCEPT ![a].state = "exited"] /\ Touch(w, a, Goto(w, "del"))
    BY <1>1, <1>4 DEF Ended
  <2>2. docker' \in [App -> ContainerRec] /\ docker'[a].state # "running"
        /\ \A b \in App : b # a => Same(b)
    BY <1>1, <1>2, <1>3, <2>1 DEF ContainerRec, Runs, Same
  <2>3. Stored
    BY <1>1, <2>2 DEF Stored, Inv, Types
  <2>4. QED
    BY <1>1, <1>2, <2>1, <2>2, <2>3, TouchTo DEF Adding, Removing
<1>5. CASE docker[a].id # worker[w].id
  <2>1. worker' = Stopped(w) /\ UNCHANGED <<host, record, channel, told, asked>>
    BY <1>1, <1>5 DEF host, told
  <2>2. Stored /\ \A b \in App : Same(b)
    BY <1>1, <2>1, SameKept DEF Inv, Types
  <2>3. w = Listener /\ ~worker[w].doubt => docker'[a].state # "running"
    BY <1>1, <1>2, <1>5, <2>1, Busy DEF Known, Runs, host
  <2>4. QED
    BY <1>2, <2>1, <2>2, <2>3, StoppedInv
<1>6. QED
    BY <1>4, <1>5

\* Docker's error is ignored: from here on the listener is in doubt.
LEMMA StopFailsInv ==
    ASSUME Inv, NEW w \in Worker, StopFails(w)
    PROVE  Inv'
<1> DEFINE a == worker[w].name
<1> PICK s : s = [worker[w] EXCEPT !.pc = "del", !.doubt = TRUE]
    OBVIOUS
<1>1. /\ worker[w].pc = "stop" /\ UNCHANGED <<host, images, record, channel, cloud, asked>>
      /\ Touch(w, a, [Goto(w, "del") EXCEPT ![w].doubt = TRUE])
    BY DEF StopFails, At
<1>2. worker[w].pc # "idle" /\ worker[w].op = "remove" /\ a \in App
      /\ worker \in [Worker -> WorkerRec] /\ worker[w] \in WorkerRec
    BY <1>1, Busy DEF WorkerFits, Removing
<1>3. Stored /\ \A b \in App : Same(b)
  <2>1. UNCHANGED <<host, record>> /\ images' \subseteq App
    BY <1>1 DEF Inv, Types, host
  <2>2. QED
    BY <2>1, SameKept
<1>4. [Goto(w, "del") EXCEPT ![w].doubt = TRUE] = [worker EXCEPT ![w] = s]
    BY <1>2 DEF Goto
<1>5. s \in WorkerRec /\ s.pc = "del" /\ s.doubt /\ s.name = a /\ s.op = worker[w].op
  <2>1. TRUE \in BOOLEAN
    BY Zenon
  <2>2. s \in WorkerRec /\ s.pc = "del" /\ s.name = a /\ s.op = worker[w].op
    BY <1>2, <2>1 DEF WorkerRec
  <2>3. s.doubt = TRUE
    BY <1>2 DEF WorkerRec
  <2>4. QED
    BY <2>2, <2>3
<1>6. WorkerFits(w, s)
    BY <1>2, <1>5, GotoFits DEF Adding, Removing
<1>7. Known(s)'
    BY <1>5 DEF Known
<1>8. Touch(w, a, [worker EXCEPT ![w] = s])
    BY <1>1, <1>4
<1>9. QED
    BY <1>1, <1>2, <1>3, <1>5, <1>6, <1>7, <1>8, TouchActs

\* The record is deleted, then the containers are pruned.
LEMMA DelInv ==
    ASSUME Inv, NEW w \in Worker, Del(w) \/ Clean(w)
    PROVE  Inv'
<1> DEFINE a == worker[w].name
<1>1. worker[w].pc \in {"del", "clean"} /\ worker[w].pc # "idle" /\ worker[w].pc \in Removing
    BY DEF Del, Clean, At, Removing
<1>2. worker[w].op = "remove" /\ a \in App
    BY <1>1, Busy DEF WorkerFits
<1>3. w = Listener /\ ~worker[w].doubt => ~Runs(a)
    BY <1>1, Busy DEF Known
<1>4. CASE Del(w)
  <2>1. /\ record' = record \ {a} /\ Touch(w, a, Goto(w, "clean"))
        /\ UNCHANGED <<host, images, channel, cloud, asked>>
    BY <1>4 DEF Del
  <2>2. Stored /\ \A b \in App : b # a => Same(b)
    BY <2>1 DEF Stored, Same, Runs, host, Inv, Types
  <2>3. PICK s \in WorkerRec :
               /\ Goto(w, "clean") = [worker EXCEPT ![w] = s]
               /\ s = [worker[w] EXCEPT !.pc = "clean"]
               /\ s.pc = "clean" /\ s.name = worker[w].name /\ s.op = worker[w].op
               /\ s.id = worker[w].id /\ s.doubt = worker[w].doubt
    BY <1>1, GotoIs DEF Removing
  <2>4. WorkerFits(w, s) /\ Touch(w, a, [worker EXCEPT ![w] = s])
    BY <1>1, <1>2, <2>1, <2>3, GotoFits DEF Adding, Removing
  <2>5. w = Listener => Known(s)'
    BY <1>3, <2>1, <2>3 DEF Known, Runs, host
  <2>6. QED
    BY <1>1, <2>1, <2>2, <2>3, <2>4, <2>5, TouchActs
<1>5. CASE Clean(w)
  <2>1. /\ docker' = Pruned /\ worker' = Stopped(w)
        /\ UNCHANGED <<created, images, record, channel, told, asked>>
    BY <1>5 DEF Clean
  <2>2. Stored /\ \A b \in App : Same(b)
    BY <2>1, SamePruned
  <2>3. w = Listener /\ ~worker[w].doubt => docker'[a].state # "running"
    BY <1>2, <1>3, <2>2 DEF Same
  <2>4. QED
    BY <1>1, <2>1, <2>2, <2>3, StoppedInv
<1>6. QED
    BY <1>4, <1>5

LEMMA StepsInv ==
    ASSUME Inv, NEW w \in Worker, Steps(w), ~ImagesFail(w)
    PROVE  Inv'
    BY ImagesInv, PrepareInv, FailsInv, RunInv, PutInv, GetInv, StopInv, StopFailsInv, DelInv
       DEF Steps

-----------------------------------------------------------------------------
(* The listener tells, and takes the next message. *)

\* The listener is done with a, which it has told the truth of, or is stale.
LEMMA EndsInv ==
    ASSUME Inv, worker[Listener].pc # "idle",
           NEW s, s = Idle \/ s = [worker[Listener] EXCEPT !.pc = "pull"],
           worker[Listener].op = "add" \/ s = Idle,
           worker' = [worker EXCEPT ![Listener] = s],
           UNCHANGED <<host, images, record, channel, asked>>,
           NEW a \in App, a = worker[Listener].name,
           NEW t, cloud' = [cloud EXCEPT ![a] = t],
           t \in {"none", "in-progress", "failed", "running", "exited"},
           NEW d \in BOOLEAN, stale' = [stale EXCEPT ![a] = d],
           ~d /\ s = Idle => /\ t = "running" => Runs(a) /\ a \in record
                             /\ t = "exited" => ~Runs(a)
                             /\ t \in Answer(worker[Listener].op)
    PROVE  Inv'
<1> DEFINE l == worker[Listener]
<1>1. l \in WorkerRec /\ worker \in [Worker -> WorkerRec] /\ Listener \in Worker
      /\ WorkerFits(Listener, l)
    BY Busy, Names
<1>2. /\ UNCHANGED <<docker, created, images, record, channel, last, commands, calls>>
      /\ cloud \in [App -> {"none", "in-progress", "failed", "running", "exited"}]
      /\ stale \in [App -> BOOLEAN]
    BY DEF host, asked, Inv, Types
<1>3. /\ s = Idle \/ (s \in WorkerRec /\ s.pc = "pull" /\ s.name = a /\ s.op = l.op)
      /\ s \in WorkerRec /\ WorkerFits(Listener, s)
  <2>1. CASE s = Idle
    BY <2>1, IdleFits DEF WorkerFits
  <2>2. CASE s # Idle
    <3>1. s \in WorkerRec /\ s.pc = "pull" /\ s.name = l.name /\ s.op = l.op
      BY <1>1, <2>2 DEF WorkerRec
    <3>2. WorkerFits(Listener, s)
      BY <1>1, <2>2, <3>1, GotoFits DEF Adding, Removing
    <3>3. QED
      BY <3>1, <3>2
  <2>3. QED
    BY <2>1, <2>2
<1>4. worker' \in [Worker -> WorkerRec] /\ l' = s
      /\ \A w \in Worker : w # Listener => worker'[w] = worker[w]
    BY <1>1, <1>3
<1>5. /\ cloud' \in [App -> {"none", "in-progress", "failed", "running", "exited"}]
      /\ stale' \in [App -> BOOLEAN]
      /\ cloud'[a] = t /\ stale'[a] = d
      /\ \A b \in App : b # a => cloud'[b] = cloud[b] /\ stale'[b] = stale[b]
    BY <1>2
<1>6. Types'
    BY <1>2, <1>4, <1>5 DEF Inv, Types
<1>7. Fits'
  <2>1. ASSUME NEW w \in Worker PROVE WorkerFits(w, worker'[w])
    BY <1>3, <1>4 DEF Inv, Fits
  <2>2. QED
    BY <2>1 DEF Fits, WorkerFits
<1>8. Idle.name = None /\ Idle.pc = "idle"
    BY DEF Idle
<1>9. Truth'
  <2>1. ASSUME NEW b \in App, ~stale'[b], l'.name # b PROVE ToldTrue(b)'
    <3>1. CASE b # a
      <4>1. ToldTrue(b) /\ cloud'[b] = cloud[b]
        BY <1>5, <2>1, <3>1 DEF Inv, Truth
      <4>2. QED
        BY <1>2, <4>1 DEF ToldTrue, Runs
    <3>2. CASE b = a
      <4>1. s = Idle /\ ~d
        BY <1>3, <1>4, <1>5, <2>1, <3>2
      <4>2. QED
        BY <1>2, <1>5, <3>2, <4>1 DEF ToldTrue, Runs
    <3>3. QED
      BY <3>1, <3>2
  <2>2. Known(l)'
    BY <1>3, <1>4, <1>8 DEF Known
  <2>3. QED
    BY <2>1, <2>2 DEF Truth
<1>10. Answers'
  <2> SUFFICES ASSUME NEW b \in App PROVE Answering(b)'
      BY DEF Answers
  <2>1. Answering(b) /\ (InLine(b)' <=> InLine(b)) /\ (LastInLine(b)' <=> LastInLine(b))
    BY <1>2 DEF Inv, Answers, InLine, LastInLine, Final
  <2>2. CASE b # a
    BY <1>2, <1>3, <1>4, <1>5, <1>8, <2>1, <2>2, Names DEF Answering
  <2>3. CASE b = a
    BY <1>2, <1>3, <1>4, <1>5, <1>8, <2>1, <2>3, Names DEF Answering
  <2>4. QED
    BY <2>2, <2>3
<1>11. QED
    BY <1>6, <1>7, <1>9, <1>10 DEF Inv

LEMMA ImagesFailInv ==
    ASSUME Inv, NEW w \in Worker, ImagesFail(w)
    PROVE  Inv'
<1> DEFINE a == worker[w].name
<1>1. /\ worker[w].pc = "images" /\ worker' = Return(w)
      /\ stale' = [stale EXCEPT ![a] = TRUE]
      /\ UNCHANGED <<host, images, record, channel, cloud, asked>>
    BY DEF ImagesFail, At
<1>2. w = Listener /\ a \in App /\ worker[w].pc # "idle" /\ TRUE \in BOOLEAN
  <2>1. TRUE \in BOOLEAN
    BY Zenon
  <2>2. QED
    BY <1>1, <2>1, Busy DEF WorkerFits
<1>3. worker' = [worker EXCEPT ![Listener] = Idle]
    BY <1>1, <1>2 DEF Return
<1>4. cloud \in [App -> {"none", "in-progress", "failed", "running", "exited"}]
    BY DEF Inv, Types
<1>5. cloud' = [cloud EXCEPT ![a] = cloud[a]]
      /\ cloud[a] \in {"none", "in-progress", "failed", "running", "exited"}
    BY <1>1, <1>2, <1>4
<1>6. QED
    BY <1>1, <1>2, <1>3, <1>5, EndsInv

LEMMA TellInv ==
    ASSUME Inv, Tell \/ TellFails
    PROVE  Inv'
<1> DEFINE l == worker[Listener]
<1> DEFINE a == worker[Listener].name
<1>1. /\ l.pc = "tell" /\ worker' = AfterTelling
      /\ UNCHANGED <<host, images, record, channel, asked>>
    BY DEF Tell, TellFails, At
<1>2. l.pc # "idle" /\ Listener \in Worker
    BY <1>1, Names
<1>3. l \in WorkerRec /\ a \in App /\ WorkerFits(Listener, l) /\ Known(l)
    BY <1>2, Busy
<1>4. \/ l.op = "add" /\ l.say \in {"in-progress", "running", "failed"}
      \/ l.op = "remove" /\ l.say \in {"exited", "failed"}
    BY <1>1, <1>3 DEF WorkerFits
<1>5. cloud \in [App -> {"none", "in-progress", "failed", "running", "exited"}]
    BY DEF Inv, Types
<1>6. PICK s : s = IF l.say = "in-progress" THEN [l EXCEPT !.pc = "pull"] ELSE Idle
    OBVIOUS
<1>7. /\ worker' = [worker EXCEPT ![Listener] = s]
      /\ s = Idle \/ s = [worker[Listener] EXCEPT !.pc = "pull"]
      /\ l.op = "add" \/ s = Idle
      /\ s = Idle => l.say # "in-progress"
  <2>1. worker' = [worker EXCEPT ![Listener] = s]
    BY <1>1, <1>6 DEF AfterTelling, Goto, Return
  <2>2. [l EXCEPT !.pc = "pull"].pc = "pull" /\ Idle.pc = "idle"
    BY <1>3 DEF WorkerRec, Idle
  <2>3. QED
    BY <1>4, <1>6, <2>1, <2>2
<1>8. CASE Tell
  <2>1. cloud' = [cloud EXCEPT ![a] = l.say] /\ stale' = [stale EXCEPT ![a] = l.doubt]
    BY <1>8 DEF Tell
  <2>2. l.doubt \in BOOLEAN /\ l.say \in {"none", "in-progress", "failed", "running", "exited"}
    BY <1>3 DEF WorkerRec
  <2>3. ~l.doubt /\ s = Idle => /\ l.say = "running" => Runs(a) /\ a \in record
                                /\ l.say = "exited" => ~Runs(a)
                                /\ l.say \in Answer(l.op)
    BY <1>1, <1>3, <1>4, <1>7 DEF Known, Answer
  <2> DEFINE t == l.say
  <2> DEFINE d == l.doubt
  <2> DEFINE op == l.op
  <2>4. /\ cloud' = [cloud EXCEPT ![a] = t] /\ stale' = [stale EXCEPT ![a] = d]
        /\ d \in BOOLEAN /\ t \in {"none", "in-progress", "failed", "running", "exited"}
        /\ ~d /\ s = Idle => /\ t = "running" => Runs(a) /\ a \in record
                             /\ t = "exited" => ~Runs(a)
                             /\ t \in Answer(worker[Listener].op)
    BY <2>1, <2>2, <2>3
  <2> HIDE DEF t, d
  <2>5. QED
    BY <1>1, <1>2, <1>3, <1>7, <2>4, EndsInv
<1>9. CASE TellFails
  <2>1. stale' = [stale EXCEPT ![a] = TRUE] /\ cloud' = cloud
    BY <1>9 DEF TellFails
  <2>2. cloud' = [cloud EXCEPT ![a] = cloud[a]]
        /\ cloud[a] \in {"none", "in-progress", "failed", "running", "exited"}
    BY <1>3, <1>5, <2>1
  <2>3. TRUE \in BOOLEAN
    BY Zenon
  <2>4. QED
    BY <1>1, <1>2, <1>3, <1>7, <2>1, <2>2, <2>3, EndsInv
<1>10. QED
    BY <1>8, <1>9

\* The first message is taken: the rest stays in its order.
LEMMA FirstTaken ==
    ASSUME Types, channel # <<>>, channel' = RemoveAt(channel, 1), UNCHANGED last
    PROVE  /\ channel[1] \in Command /\ channel' \in Seq(Command)
           /\ \A a \in App :
                /\ InLine(a) <=> (channel[1].name = a \/ InLine(a)')
                /\ LastInLine(a) => LastInLine(a)'
                /\ channel[1].name = a /\ ~InLine(a)' => Final(1, a)
<1>1. channel \in Seq(Command) /\ Len(channel) \in Nat \ {0}
    BY EmptySeq DEF Types
<1>2. channel' = Tail(channel)
  <2> DEFINE s == channel
  <2>1. RemoveAt(s, 1) = SubSeq(s, 1, 0) \o SubSeq(s, 2, Len(s))
    BY DEF RemoveAt
  <2>2. SubSeq(s, 1, 0) = <<>> /\ SubSeq(s, 2, Len(s)) = Tail(s) /\ Tail(s) \in Seq(Command)
    BY <1>1, TailIsSubSeq, SubSeqProperties
  <2>3. <<>> \o Tail(s) = Tail(s)
    BY <2>2, ConcatEmptySeq
  <2>4. QED
    BY <2>1, <2>2, <2>3
<1>3. /\ channel' \in Seq(Command) /\ Len(channel') = Len(channel) - 1
      /\ \A i \in 1..Len(channel') : channel'[i] = channel[i + 1]
  <2>1. /\ Tail(channel) \in Seq(Command) /\ Len(Tail(channel)) = Len(channel) - 1
        /\ \A i \in 1..Len(Tail(channel)) : Tail(channel)[i] = channel[i + 1]
    BY <1>1, HeadTailProperties, Zenon
  <2>2. QED
    BY <1>2, <2>1
<1>4. channel[1] \in Command
    BY <1>1
<1>5. \A n \in 2..Len(channel) : n - 1 \in 1..Len(channel') /\ channel'[n - 1] = channel[n]
    BY <1>1, <1>3
<1>6. \A n \in 1..Len(channel') : n + 1 \in 2..Len(channel) /\ channel[n + 1] = channel'[n]
    BY <1>1, <1>3
<1>7. ASSUME NEW a \in App
      PROVE  /\ InLine(a) <=> (channel[1].name = a \/ InLine(a)')
             /\ channel[1].name = a /\ ~InLine(a)' => Final(1, a)
  <2>1. \A n \in 1..Len(channel) : n = 1 \/ n \in 2..Len(channel)
    BY <1>1
  <2>2. InLine(a)' => InLine(a)
    BY <1>1, <1>6 DEF InLine
  <2>3. \A n \in 2..Len(channel) : channel[n].name = a => InLine(a)'
    BY <1>5 DEF InLine
  <2>4. 1 \in 1..Len(channel)
    BY <1>1
  <2>5. QED
    BY <2>1, <2>2, <2>3, <2>4 DEF InLine, Final
<1>8. ASSUME NEW a \in App, LastInLine(a) PROVE LastInLine(a)'
  <2> SUFFICES ASSUME NEW n \in 1..Len(channel'), Final(n, a)'
               PROVE  channel'[n].op = last[a]
      BY DEF LastInLine
  <2>1. n + 1 \in 1..Len(channel) /\ channel[n + 1] = channel'[n]
    BY <1>1, <1>6
  <2>2. Final(n + 1, a)
    <3>1. channel[n + 1].name = a
      BY <2>1 DEF Final
    <3>2. ASSUME NEW m \in 1..Len(channel), n + 1 < m PROVE channel[m].name # a
      <4>1. m - 1 \in 1..Len(channel') /\ channel'[m - 1] = channel[m] /\ n < m - 1
        BY <1>1, <1>3, <1>5, <3>2
      <4>2. QED
        BY <4>1 DEF Final
    <3>3. QED
      BY <3>1, <3>2 DEF Final
  <2>3. QED
    BY <1>8, <2>1, <2>2 DEF LastInLine
<1>9. QED
    BY <1>3, <1>4, <1>7, <1>8

LEMMA TakeInv ==
    ASSUME Inv, Take
    PROVE  Inv'
<1> DEFINE c == channel[1]
<1> DEFINE l == worker[Listener]
<1>1. /\ channel # <<>> /\ l.pc = "idle" /\ channel' = RemoveAt(channel, 1)
      /\ worker' = IF c.name = None THEN worker
                   ELSE [worker EXCEPT ![Listener] =
                          [Idle EXCEPT !.op = c.op, !.name = c.name,
                                       !.pc = IF c.op = "add" THEN "images" ELSE "get"]]
      /\ UNCHANGED <<docker, created, images, record, cloud, stale, last, commands, calls>>
    BY DEF Take, NextMessage, At, host, told, asked
<1>2. /\ c \in Command /\ channel' \in Seq(Command)
      /\ \A b \in App :
           /\ InLine(b) <=> (c.name = b \/ InLine(b)')
           /\ LastInLine(b) => LastInLine(b)'
           /\ c.name = b /\ ~InLine(b)' => Final(1, b)
    BY <1>1, FirstTaken DEF Inv
<1>3. worker \in [Worker -> WorkerRec] /\ Listener \in Worker /\ l = Idle /\ l.name = None
  <2>1. worker \in [Worker -> WorkerRec] /\ Listener \in Worker /\ WorkerFits(Listener, l)
    BY Names DEF Inv, Types, Fits
  <2>2. Idle.name = None
    BY DEF Idle
  <2>3. l = Idle
    BY <1>1, <2>1 DEF WorkerFits
  <2>4. QED
    BY <2>1, <2>2, <2>3
<1>4. CASE c.name = None
  <2>1. \A b \in App : (InLine(b)' <=> InLine(b)) /\ (LastInLine(b) => LastInLine(b)')
    BY <1>2, <1>4, Names
  <2>2. worker' = worker
    BY <1>1, <1>4
  <2>3. Others
    BY <1>1, <1>2, <2>1, <2>2, Names
       DEF Others, Stored, Same, Runs, Lined, Inv, Types, Fits
  <2>4. QED
    BY <2>3, OthersInv
<1>5. CASE c.name # None
  <2> DEFINE a == c.name
  <2>1. PICK s : s = [Idle EXCEPT !.op = c.op, !.name = c.name,
                                  !.pc = IF c.op = "add" THEN "images" ELSE "get"]
    OBVIOUS
  <2>2. a \in App /\ c.op \in {"add", "remove"}
    BY <1>2, <1>5 DEF Command
  <2>3. /\ s \in WorkerRec /\ s.name = a /\ s.op = c.op
        /\ s.pc = IF c.op = "add" THEN "images" ELSE "get"
    <3>1. Idle \in WorkerRec
      BY IdleFits DEF WorkerFits
    <3>2. QED
      BY <2>1, <2>2, <3>1 DEF WorkerRec
  <2>4. WorkerFits(Listener, s)
    BY <2>2, <2>3 DEF WorkerFits, Adding, Removing
  <2>5. worker' = [worker EXCEPT ![Listener] = s]
    BY <1>1, <1>5, <2>1
  <2>6. worker' \in [Worker -> WorkerRec] /\ l' = s
        /\ \A w \in Worker : w # Listener => worker'[w] = worker[w]
    BY <1>3, <2>3, <2>5
  <2>7. Types'
    BY <1>1, <1>2, <2>6 DEF Inv, Types
  <2>8. Fits'
    <3>1. ASSUME NEW w \in Worker PROVE WorkerFits(w, worker'[w])
      BY <2>4, <2>6 DEF Inv, Fits
    <3>2. QED
      BY <3>1 DEF Fits, WorkerFits
  <2>9. Truth'
    <3>1. ASSUME NEW b \in App, ~stale'[b], l'.name # b PROVE ToldTrue(b)'
      <4>1. ToldTrue(b)
        BY <1>1, <1>3, <3>1, Names DEF Inv, Truth
      <4>2. QED
        BY <1>1, <4>1 DEF ToldTrue, Runs
    <3>2. Known(l)'
      BY <2>3, <2>6 DEF Known
    <3>3. QED
      BY <3>1, <3>2 DEF Truth
  <2>10. Answers'
    <3> SUFFICES ASSUME NEW b \in App PROVE Answering(b)'
        BY DEF Answers
    <3>1. Answering(b) /\ l.name # b
      BY <1>3, Names DEF Inv, Answers
    <3>2. LastInLine(b)'
      BY <1>2, <3>1 DEF Answering
    <3>3. CASE b # a
      BY <1>1, <1>2, <2>3, <2>6, <3>1, <3>2, <3>3 DEF Answering
    <3>4. CASE b = a
      <4>1. ~InLine(b)' => c.op = last[b]
        <5>1. 1 \in 1..Len(channel)
          BY <1>1, EmptySeq DEF Inv, Types
        <5>2. QED
          BY <1>2, <3>1, <3>4, <5>1 DEF Answering, LastInLine
      <4>2. QED
        BY <1>1, <2>3, <2>6, <3>2, <3>4, <4>1 DEF Answering
    <3>5. QED
      BY <3>3, <3>4
  <2>11. QED
    BY <2>7, <2>8, <2>9, <2>10 DEF Inv
<1>6. QED
  BY <1>4, <1>5

-----------------------------------------------------------------------------
(* Commands arrive, requests come and go, and the server restarts. *)

LEMMA Added ==
    ASSUME Types, NEW c \in Command, channel' = Append(channel, c)
    PROVE  /\ channel' \in Seq(Command)
           /\ \A a \in App : InLine(a)' <=> (InLine(a) \/ c.name = a)
           /\ \A a \in App : c.name # a /\ last'[a] = last[a] /\ LastInLine(a) => LastInLine(a)'
           /\ \A a \in App : c.name = a /\ last'[a] = c.op => LastInLine(a)'
<1>1. channel \in Seq(Command) /\ Len(channel) \in Nat
    BY LenProperties DEF Types
<1> DEFINE n == Len(channel) + 1
<1>2. /\ channel' \in Seq(Command) /\ Len(channel') = n
      /\ channel'[n] = c
      /\ \A i \in 1..Len(channel) : channel'[i] = channel[i]
    BY <1>1, AppendProperties
<1>3. 1..n = 1..Len(channel) \cup {n} /\ n \in Nat /\ \A i \in 1..Len(channel) : i < n
    BY <1>1
<1> HIDE DEF n
<1>4. \A a \in App : InLine(a)' <=> (InLine(a) \/ c.name = a)
    BY <1>2, <1>3 DEF InLine
<1>5. ASSUME NEW a \in App, c.name # a, last'[a] = last[a], LastInLine(a) PROVE LastInLine(a)'
  <2> SUFFICES ASSUME NEW i \in 1..n, Final(i, a)' PROVE channel'[i].op = last'[a]
      BY <1>2 DEF LastInLine
  <2>1. i \in 1..Len(channel)
    BY <1>2, <1>3, <1>5 DEF Final
  <2>2. Final(i, a)
    BY <1>2, <1>3, <2>1 DEF Final
  <2>3. QED
    BY <1>2, <1>5, <2>1, <2>2 DEF LastInLine
<1>6. ASSUME NEW a \in App, c.name = a, last'[a] = c.op PROVE LastInLine(a)'
  <2> SUFFICES ASSUME NEW i \in 1..n, Final(i, a)' PROVE channel'[i].op = last'[a]
      BY <1>2 DEF LastInLine
  <2>1. n \in 1..n
    BY <1>3
  <2>2. i = n
    BY <1>2, <1>3, <1>6, <2>1 DEF Final
  <2>3. QED
    BY <1>2, <1>6, <2>2
<1>7. QED
    BY <1>2, <1>4, <1>5, <1>6

LEMMA ArriveInv ==
    ASSUME Inv, Arrive
    PROVE  Inv'
<1>1. PICK c \in Command : /\ c.name # None
                           /\ channel' = Append(channel, c)
                           /\ last' = [last EXCEPT ![c.name] = c.op]
    BY DEF Arrive
<1>2. /\ commands < MaxCommands /\ commands' = commands + 1
      /\ UNCHANGED <<docker, created, images, record, worker, cloud, stale, calls>>
    BY DEF Arrive, host, told
<1>3. c.name \in App /\ c.op \in {"add", "remove"} /\ last \in [App -> {"none", "add", "remove"}]
    BY <1>1 DEF Command, Inv, Types
<1>4. /\ last' \in [App -> {"none", "add", "remove"}]
      /\ \A a \in App : last'[a] = IF a = c.name THEN c.op ELSE last[a]
    BY <1>1, <1>3
<1>5. /\ channel' \in Seq(Command)
      /\ \A a \in App : InLine(a)' <=> (InLine(a) \/ c.name = a)
      /\ \A a \in App : c.name # a /\ last'[a] = last[a] /\ LastInLine(a) => LastInLine(a)'
      /\ \A a \in App : c.name = a /\ last'[a] = c.op => LastInLine(a)'
    BY <1>1, Added DEF Inv
<1>6. Types'
  <2>1. commands' \in 0..MaxCommands
    BY <1>2, Names DEF Inv, Types
  <2>2. QED
    BY <1>2, <1>4, <1>5, <2>1 DEF Inv, Types
<1>7. Fits' /\ Truth'
    BY <1>2 DEF Inv, Fits, Truth, ToldTrue, Known, Runs, WorkerFits
<1>8. Answers'
  <2> SUFFICES ASSUME NEW a \in App PROVE Answering(a)'
      BY DEF Answers
  <2>1. Answering(a)
    BY DEF Inv, Answers
  <2>2. QED
    BY <1>2, <1>4, <1>5, <2>1 DEF Answering
<1>9. QED
    BY <1>6, <1>7, <1>8 DEF Inv

\* A request is at s: no container and no record changes.
LEMMA RequestTo ==
    ASSUME Inv, NEW r \in Request, NEW s, WorkerFits(r, s), worker' = [worker EXCEPT ![r] = s],
           UNCHANGED <<host, images, record, told, last, commands>>, calls' \in 0..MaxCalls, Lined
    PROVE  Inv'
<1>1. worker \in [Worker -> WorkerRec] /\ r \in Worker /\ r # Listener /\ s \in WorkerRec
      /\ Listener \in Worker
    BY Names DEF Inv, Types, WorkerFits
<1>2. worker' \in [Worker -> WorkerRec] /\ worker'[Listener] = worker[Listener]
    BY <1>1
<1>3. \A q \in Request : WorkerFits(q, worker'[q])
  <2>1. ASSUME NEW q \in Request PROVE worker'[q] = IF q = r THEN s ELSE worker[q]
    BY <1>1, Names
  <2>2. QED
    BY <2>1, Names DEF Inv, Fits
<1>4. \A b \in App : Same(b) /\ stale'[b] = stale[b]
    BY DEF Same, Runs, host, told
<1>5. Stored /\ stale' \in [App -> BOOLEAN]
    BY DEF Stored, Inv, Types, host, told
<1>6. Others
    BY <1>2, <1>3, <1>4, <1>5 DEF Others, told
<1>7. QED
    BY <1>6, OthersInv

LEMMA CallInv ==
    ASSUME Inv, NEW r \in Request, Call(r)
    PROVE  Inv'
<1>1. PICK a \in App, op \in {"add", "remove"} :
         worker' = [worker EXCEPT ![r] =
           [Idle EXCEPT !.op = op, !.name = a, !.pc = IF op = "add" THEN "pull" ELSE "get"]]
    BY DEF Call
<1>2. PICK s : s = [Idle EXCEPT !.op = op, !.name = a, !.pc = IF op = "add" THEN "pull" ELSE "get"]
    OBVIOUS
<1>3. /\ s \in WorkerRec /\ s.name = a /\ s.op = op
      /\ s.pc = IF op = "add" THEN "pull" ELSE "get"
  <2>1. Idle \in WorkerRec
    BY IdleFits DEF WorkerFits
  <2>2. QED
    BY <1>2, <2>1 DEF WorkerRec
<1>4. WorkerFits(r, s)
  <2>1. op = "add" \/ op = "remove"
    OBVIOUS
  <2>2. QED
    BY <1>3, <2>1, Names DEF WorkerFits, Adding, Removing
<1>5. calls' \in 0..MaxCalls
    BY Names DEF Call, Inv, Types
<1>6. UNCHANGED <<host, images, record, told, last, commands>> /\ Lined
    BY Unlined DEF Call, Inv
<1>7. QED
    BY <1>1, <1>2, <1>4, <1>5, <1>6, RequestTo

LEMMA ReturnsInv ==
    ASSUME Inv, NEW r \in Request, GetFails(r) \/ Publish(r)
    PROVE  Inv'
<1>1. worker' = [worker EXCEPT ![r] = Idle] /\ UNCHANGED <<host, images, record, told, asked>>
    BY DEF GetFails, Publish, Return
<1>2. UNCHANGED <<last, commands, calls>> /\ calls' \in 0..MaxCalls
    BY <1>1 DEF asked, Inv, Types
<1>3. Lined
  <2>1. CASE channel' = channel
    BY <1>2, <2>1, Unlined DEF Inv
  <2>2. CASE channel' # channel
    <3> DEFINE c == [op |-> "remove", name |-> None]
    <3>1. channel' = Append(channel, c)
      BY <2>2 DEF GetFails, Publish
    <3>2. c \in Command /\ c.name = None
      BY DEF Command
    <3> HIDE DEF c
    <3>3. \A a \in App : c.name # a
      BY <3>2, Names
    <3>4. /\ channel' \in Seq(Command)
          /\ \A a \in App : InLine(a)' <=> (InLine(a) \/ c.name = a)
          /\ \A a \in App : c.name # a /\ last'[a] = last[a] /\ LastInLine(a) => LastInLine(a)'
      BY <3>1, <3>2, Added DEF Inv
    <3>5. QED
      BY <1>2, <3>3, <3>4 DEF Lined
  <2>3. QED
    BY <2>1, <2>2
<1>4. QED
    BY <1>1, <1>2, <1>3, IdleFits, RequestTo

\* An application ends.
LEMMA ExitInv ==
    ASSUME Inv, NEW a \in App, Exit(a)
    PROVE  Inv'
<1> DEFINE l == worker[Listener]
<1>1. /\ docker' = [docker EXCEPT ![a].state = "exited"]
      /\ stale' = [stale EXCEPT ![a] = TRUE]
      /\ worker' = [worker EXCEPT ![Listener].doubt = @ \/ worker[Listener].name = a]
      /\ UNCHANGED <<created, images, record, channel, cloud, last, commands, calls>>
    BY DEF Exit, Ended, asked
<1>2. /\ worker \in [Worker -> WorkerRec] /\ Listener \in Worker /\ l \in WorkerRec
      /\ docker \in [App -> ContainerRec] /\ stale \in [App -> BOOLEAN]
    BY Names DEF Inv, Types
<1> DEFINE d == l.doubt \/ l.name = a
<1>3. worker' = [worker EXCEPT ![Listener] = [l EXCEPT !.doubt = d]]
    BY <1>1, <1>2
<1>4. d \in BOOLEAN /\ (l.name = a => d = TRUE) /\ (l.name # a => d = l.doubt)
    BY <1>2, Zenon DEF WorkerRec
<1> HIDE DEF d
<1>5. [l EXCEPT !.doubt = d] \in WorkerRec /\ (l.name # a => [l EXCEPT !.doubt = d] = l)
    BY <1>2, <1>4 DEF WorkerRec
<1>6. worker' \in [Worker -> WorkerRec] /\ worker'[Listener] = [l EXCEPT !.doubt = d]
      /\ \A w \in Worker : w # Listener => worker'[w] = worker[w]
    BY <1>2, <1>3, <1>5
<1>7. l.name = a => worker'[Listener] = [l EXCEPT !.doubt = TRUE] /\ worker'[Listener].doubt
    BY <1>2, <1>4, <1>6 DEF WorkerRec
<1>8. stale' \in [App -> BOOLEAN] /\ stale'[a] /\ \A b \in App : b # a => stale'[b] = stale[b]
  <2>1. TRUE \in BOOLEAN
    BY Zenon
  <2>2. stale' \in [App -> BOOLEAN]
    BY <1>1, <1>2, <2>1
  <2>3. stale'[a] = TRUE /\ \A b \in App : b # a => stale'[b] = stale[b]
    BY <1>1, <1>2
  <2>4. QED
    BY <2>2, <2>3
<1>9. docker' \in [App -> ContainerRec] /\ \A b \in App : b # a => Same(b)
    BY <1>1, <1>2 DEF ContainerRec, Same, Runs
<1>10. Disturbed(a)
    BY <1>7, <1>8 DEF Disturbed
<1>11. \A r \in Request : WorkerFits(r, worker'[r])
    BY <1>6, Names DEF Inv, Fits
<1>12. \/ worker'[Listener] = l
       \/ l.name \in App /\ worker'[Listener] = [l EXCEPT !.doubt = TRUE]
    BY <1>5, <1>6, <1>7
<1>13. Stored /\ calls' \in 0..MaxCalls /\ Lined
    BY <1>1, <1>9, Unlined DEF Stored, Inv, Types
<1>14. Others
    BY <1>1, <1>6, <1>8, <1>9, <1>10, <1>11, <1>12, <1>13 DEF Others
<1>15. QED
    BY <1>14, OthersInv

LEMMA PruneElsewhereInv ==
    ASSUME Inv, PruneElsewhere
    PROVE  Inv'
<1>1. /\ docker' = Pruned
      /\ UNCHANGED <<created, images, record, worker, channel, cloud, stale, last, commands, calls>>
    BY DEF PruneElsewhere, told, asked
<1>2. Stored /\ \A b \in App : Same(b)
    BY <1>1, SamePruned
<1>3. worker \in [Worker -> WorkerRec] /\ (\A r \in Request : WorkerFits(r, worker[r]))
      /\ stale \in [App -> BOOLEAN] /\ calls \in 0..MaxCalls
    BY Names DEF Inv, Types, Fits
<1>4. Lined
    BY <1>1, Unlined DEF Inv
<1>5. Others
    BY <1>1, <1>2, <1>3, <1>4 DEF Others
<1>6. QED
    BY <1>5, OthersInv

LEMMA AllIdle ==
    ASSUME worker = [w \in Worker |-> Idle], channel = <<>>
    PROVE  /\ worker \in [Worker -> WorkerRec] /\ Fits /\ channel \in Seq(Command)
           /\ worker[Listener].name = None /\ Known(worker[Listener])
           /\ \A a \in App : ~InLine(a) /\ LastInLine(a)
<1>1. Idle \in WorkerRec /\ Idle.name = None /\ Idle.pc = "idle"
    BY IdleFits DEF WorkerFits, Idle
<1>2. worker \in [Worker -> WorkerRec] /\ worker[Listener] = Idle
    BY <1>1, Names
<1>3. Fits
    BY IdleFits DEF Fits
<1>4. <<>> \in Seq(Command) /\ Len(<<>>) = 0 /\ 1..0 = {}
    BY EmptySeq
<1>5. \A a \in App : ~InLine(a) /\ LastInLine(a)
    BY <1>4 DEF InLine, LastInLine
<1>6. QED
    BY <1>1, <1>2, <1>3, <1>4, <1>5 DEF Known

LEMMA RestartInv ==
    ASSUME Inv, Restart
    PROVE  Inv'
<1>1. /\ worker' = [w \in Worker |-> Idle] /\ channel' = <<>>
      /\ stale' = [a \in App |-> stale[a] \/ worker[Listener].name = a
                                          \/ \E n \in 1..Len(channel) : channel[n].name = a]
      /\ UNCHANGED <<docker, created, images, record, cloud, last, commands, calls>>
    BY DEF Restart, host, asked
<1>2. (worker = [w \in Worker |-> Idle] /\ channel = <<>>)' =>
        (/\ worker \in [Worker -> WorkerRec] /\ Fits /\ channel \in Seq(Command)
         /\ worker[Listener].name = None /\ Known(worker[Listener])
         /\ \A a \in App : ~InLine(a) /\ LastInLine(a))'
    BY AllIdle, PTL
<1>3. /\ worker' \in [Worker -> WorkerRec] /\ Fits' /\ channel' \in Seq(Command)
      /\ worker'[Listener].name = None /\ Known(worker[Listener])'
      /\ \A a \in App : ~InLine(a)' /\ LastInLine(a)'
    BY <1>1, <1>2
<1>4. /\ stale' \in [App -> BOOLEAN]
      /\ \A a \in App : ~stale'[a] => ~stale[a] /\ worker[Listener].name # a /\ ~InLine(a)
  <2>1. stale' = [a \in App |-> stale[a] \/ worker[Listener].name = a \/ InLine(a)]
    BY <1>1 DEF InLine
  <2>2. \A a \in App : (stale[a] \/ worker[Listener].name = a \/ InLine(a)) \in BOOLEAN
    BY Zenon
  <2>3. stale' \in [App -> BOOLEAN]
    BY <2>1, <2>2
  <2>4. \A a \in App : stale'[a] = (stale[a] \/ worker[Listener].name = a \/ InLine(a))
    BY <2>1
  <2>5. QED
    BY <2>3, <2>4
<1>5. Types'
    BY <1>1, <1>3, <1>4 DEF Inv, Types
<1>6. Truth'
  <2>1. ASSUME NEW a \in App, ~stale'[a] PROVE ToldTrue(a)'
    <3>1. ToldTrue(a)
      BY <1>4, <2>1 DEF Inv, Truth
    <3>2. QED
      BY <1>1, <3>1 DEF ToldTrue, Runs
  <2>2. QED
    BY <1>3, <2>1 DEF Truth
<1>7. Answers'
  <2> SUFFICES ASSUME NEW a \in App PROVE Answering(a)'
      BY DEF Answers
  <2>1. Answering(a)
    BY DEF Inv, Answers
  <2>2. QED
    BY <1>1, <1>3, <1>4, <2>1, Names DEF Answering
<1>8. QED
    BY <1>3, <1>5, <1>6, <1>7 DEF Inv

LEMMA InitInv ==
    ASSUME Init
    PROVE  Inv
<1>1. /\ worker \in [Worker -> WorkerRec] /\ Fits /\ channel \in Seq(Command)
      /\ worker[Listener].name = None /\ Known(worker[Listener])
      /\ \A a \in App : ~InLine(a) /\ LastInLine(a)
    BY AllIdle DEF Init
<1>2. NoContainer \in ContainerRec
  <2>1. 0 \in 0..MaxId
    BY Names
  <2>2. QED
    BY <2>1 DEF NoContainer, ContainerRec
<1>3. Types
  <2>1. docker \in [App -> ContainerRec]
    BY <1>2 DEF Init
  <2>2. FALSE \in BOOLEAN
    BY Zenon
  <2>3. stale \in [App -> BOOLEAN]
    BY <2>2 DEF Init
  <2>4. created \in 0..MaxId /\ commands \in 0..MaxCommands /\ calls \in 0..MaxCalls
    BY Names DEF Init
  <2>5. images \subseteq App /\ record \subseteq App
    BY DEF Init
  <2>6. /\ cloud \in [App -> {"none", "in-progress", "failed", "running", "exited"}]
        /\ last \in [App -> {"none", "add", "remove"}]
    BY DEF Init
  <2>7. QED
    BY <1>1, <2>1, <2>3, <2>4, <2>5, <2>6 DEF Types
<1>4. \A a \in App : cloud[a] = "none" /\ last[a] = "none"
    BY DEF Init
<1>5. Truth
    BY <1>1, <1>4 DEF Truth, ToldTrue
<1>6. Answers
    BY <1>1, <1>4, Names DEF Answers, Answering, Answer
<1>7. QED
    BY <1>1, <1>3, <1>5, <1>6 DEF Inv

LEMMA NextInv ==
    ASSUME Inv, [Next]_vars
    PROVE  Inv'
<1>1. ASSUME NEW w \in Worker, Steps(w) PROVE Inv'
    BY <1>1, StepsInv, ImagesFailInv
<1>2. CASE Arrive
    BY <1>2, ArriveInv
<1>3. CASE Listens
    BY <1>1, <1>3, Names, TakeInv, TellInv DEF Listens
<1>4. CASE \E r \in Request : Call(r) \/ Steps(r) \/ GetFails(r) \/ Publish(r)
    BY <1>1, <1>4, Names, CallInv, ReturnsInv
<1>5. CASE \E a \in App : Exit(a)
    BY <1>5, ExitInv
<1>6. CASE PruneElsewhere \/ Restart
    BY <1>6, PruneElsewhereInv, RestartInv
<1>7. CASE UNCHANGED vars
  <2>1. Types' /\ Fits' /\ Truth'
    BY <1>7 DEF vars, Inv, Types, Fits, WorkerFits, Truth, ToldTrue, Known, Runs
  <2>2. Answers'
    BY <1>7 DEF vars, Inv, Answers, Answering, InLine, LastInLine, Final
  <2>3. QED
    BY <2>1, <2>2 DEF Inv
<1>8. QED
    BY <1>2, <1>3, <1>4, <1>5, <1>6, <1>7 DEF Next

-----------------------------------------------------------------------------
(* The theorems. *)

\* The type invariant of the installation of applications: a request, in
\* particular, is never at the steps of a listener that tells
\* (mqtt_process_operations.go, app_process.go).
THEOREM TypeCorrect == Spec => []TypeOK
<1>1. Inv => TypeOK
  <2> SUFFICES ASSUME Inv PROVE TypeOK
      OBVIOUS
  <2>1. \A r \in Request : worker[r].pc \notin {"images", "tell"}
    BY Names DEF Inv, Fits, WorkerFits
  <2>2. QED
    BY <2>1 DEF Inv, Types, TypeOK, ContainerRec, WorkerRec
<1>2. QED
    BY <1>1, InitInv, NextInv, PTL DEF Spec

\* What the cloud was told of an application is true of its container and its
\* record, whatever requests and failures came in between
\* (mqtt_process_operations.go, lines 218-300).
THEOREM ReportsTrue == Spec => []ReportsAreTrue
<1>1. Inv => ReportsAreTrue
    BY DEF Inv, Truth, ToldTrue, Runs, ReportsAreTrue, Pending
<1>2. QED
    BY <1>1, InitInv, NextInv, PTL DEF Spec

\* What the cloud was told last of an application answers its last command
\* (mqtt_communications.go, lines 152-220).
THEOREM LastIsAnswered == Spec => []LastAnswered
<1>1. Inv => LastAnswered
    BY DEF Inv, Answers, Answering, Answer, InLine, LastAnswered, Pending
<1>2. QED
    BY <1>1, InitInv, NextInv, PTL DEF Spec
=============================================================================
