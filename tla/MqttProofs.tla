------------------------------ MODULE MqttProofs ------------------------------
(***************************************************************************)
(* Theorems about the two parts of the MQTT session.  Gateway, for any     *)
(* cameras, handlers and bounds: its type invariant, and that a camera     *)
(* that is bound in the cloud is installed, unless something about it is   *)
(* under way, or it went while nobody or a lost message told it.           *)
(* DeviceEvents, for any goroutines, delay and bounds: its type invariant, *)
(* and that the news of a device is reported when nothing has happened for *)
(* a while.                                                                *)
(***************************************************************************)
EXTENDS Gateway, DeviceEvents, TLAPS, SequenceTheorems

IsRemove(c, n) == c.op = "remove" /\ c.name = n
HasRemove(s, n) == \E i \in 1..Len(s) : IsRemove(s[i], n)

\* With s on the way to the cloud, and b bound there, n is not bound at last.
Retracted(s, b, n) ==
    /\ \A i \in 1..Len(s) : s[i].op = "add" /\ s[i].name = n =>
         \E j \in (i + 1)..Len(s) : IsRemove(s[j], n)
    /\ n \in b => HasRemove(s, n)

\* The removal of n is on its way to the listener.
Announced(n) ==
    \/ \E h \in Handler : handler[h].pc = "publish" /\ IsRemove(handler[h], n)
    \/ HasRemove(channel, n)

Detaching(n) == listener.pc = "detach" /\ listener.name = n

\* What holds of a camera that is gone and whose removal was not missed.
GoneWell(n) ==
    /\ listener.pc = "attach" /\ listener.name = n => Announced(n)
    /\ Announced(n) \/ Detaching(n) \/ Retracted(out, bound, n)

\* The inductive invariant.
Inv ==
    /\ TypeOK
    /\ todo \ installed \subseteq excused
    /\ link = "run" => listener = Off
    /\ \A n \in Camera \ (installed \cup excused) : GoneWell(n)

-----------------------------------------------------------------------------
(* Lemmas on what is on the way. *)

LEMMA Bounds == MaxCalls \in Nat /\ MaxOut \in Nat
    BY GatewayAssumption DEF GatewayAssumption

LEMMA AppendHas ==
    ASSUME NEW S, NEW s \in Seq(S), NEW c \in S, NEW n
    PROVE  HasRemove(Append(s, c), n) <=> HasRemove(s, n) \/ IsRemove(c, n)
<1> DEFINE t == Append(s, c)
<1>1. /\ Len(t) = Len(s) + 1 /\ t[Len(s) + 1] = c
      /\ \A i \in 1..Len(s) : t[i] = s[i]
    BY AppendProperties
<1>2. Len(s) \in Nat
    BY LenProperties
<1> HIDE DEF t
<1>3. ASSUME NEW i \in 1..Len(t) PROVE i \in 1..Len(s) \/ i = Len(s) + 1
    BY <1>1, <1>2
<1>4. ASSUME NEW i \in 1..Len(s) PROVE i \in 1..Len(t) /\ t[i] = s[i]
    BY <1>1, <1>2
<1>5. Len(s) + 1 \in 1..Len(t)
    BY <1>1, <1>2
<1>6. HasRemove(t, n) <=> HasRemove(s, n) \/ IsRemove(c, n)
    BY <1>1, <1>3, <1>4, <1>5, Zenon DEF HasRemove
<1>7. QED
    BY <1>6 DEF t

LEMMA TailHas ==
    ASSUME NEW S, NEW s \in Seq(S), s # <<>>, NEW n
    PROVE  HasRemove(s, n) <=> IsRemove(Head(s), n) \/ HasRemove(Tail(s), n)
<1> DEFINE t == Tail(s)
<1>1. Len(t) = Len(s) - 1 /\ \A i \in 1..Len(t) : t[i] = s[i + 1]
    BY HeadTailProperties, Zenon
<1>2. Len(s) \in Nat /\ Len(s) > 0 /\ Head(s) = s[1]
    BY EmptySeq
<1> HIDE DEF t
<1>3. ASSUME NEW i \in 1..Len(s), IsRemove(s[i], n)
      PROVE  IsRemove(Head(s), n) \/ HasRemove(t, n)
  <2>1. CASE i = 1
    BY <1>2, <1>3, <2>1
  <2>2. CASE i # 1
    <3>1. i - 1 \in 1..Len(t) /\ (i - 1) + 1 = i
      BY <1>1, <1>2, <2>2
    <3>2. t[i - 1] = s[i]
      BY <1>1, <3>1
    <3>3. QED
      BY <1>3, <3>1, <3>2 DEF HasRemove
  <2>3. QED
    BY <2>1, <2>2
<1>4. ASSUME NEW i \in 1..Len(t), IsRemove(t[i], n)
      PROVE  HasRemove(s, n)
  <2>1. i + 1 \in 1..Len(s) /\ t[i] = s[i + 1]
    BY <1>1, <1>2
  <2>2. QED
    BY <1>4, <2>1 DEF HasRemove
<1>5. IsRemove(Head(s), n) => HasRemove(s, n)
  <2>1. 1 \in 1..Len(s)
    BY <1>2
  <2>2. QED
    BY <1>2, <2>1 DEF HasRemove
<1>6. HasRemove(s, n) <=> IsRemove(Head(s), n) \/ HasRemove(t, n)
    BY <1>3, <1>4, <1>5, Zenon DEF HasRemove
<1>7. QED
    BY <1>6 DEF t

\* What is reported last decides.
LEMMA AppendRetracted ==
    ASSUME NEW s \in Seq(Change), NEW c \in Change, NEW b, NEW n,
           IsRemove(c, n) \/ (Retracted(s, b, n) /\ ~(c.op = "add" /\ c.name = n))
    PROVE  Retracted(Append(s, c), b, n)
<1> DEFINE t == Append(s, c)
<1>1. /\ Len(t) = Len(s) + 1 /\ t[Len(s) + 1] = c
      /\ \A i \in 1..Len(s) : t[i] = s[i]
    BY AppendProperties
<1>2. Len(s) \in Nat
    BY LenProperties
<1>3. HasRemove(t, n) <=> HasRemove(s, n) \/ IsRemove(c, n)
    BY AppendHas, Zenon
<1> HIDE DEF t
<1>4. ~(c.op = "add" /\ c.name = n)
    BY DEF IsRemove
<1>5. ASSUME NEW i \in 1..Len(t), t[i].op = "add", t[i].name = n
      PROVE  \E j \in (i + 1)..Len(t) : IsRemove(t[j], n)
  <2>1. i \in 1..Len(s) /\ t[i] = s[i] /\ Len(t) \in (i + 1)..Len(t)
    BY <1>1, <1>2, <1>4, <1>5
  <2>2. CASE IsRemove(c, n)
    BY <1>1, <2>1, <2>2
  <2>3. CASE Retracted(s, b, n)
    <3>1. PICK j \in (i + 1)..Len(s) : IsRemove(s[j], n)
      BY <1>5, <2>1, <2>3 DEF Retracted
    <3>2. j \in 1..Len(s) /\ j \in (i + 1)..Len(t)
      BY <1>1, <1>2, <2>1
    <3>3. QED
      BY <1>1, <3>1, <3>2
  <2>4. QED
    BY <2>2, <2>3
<1>6. n \in b => HasRemove(t, n)
    BY <1>3 DEF Retracted
<1>7. Retracted(t, b, n)
    BY <1>5, <1>6 DEF Retracted
<1>8. QED
    BY <1>7 DEF t

\* Delivering the first report, once or twice, comes to the same in the end.
LEMMA DeliverRetracted ==
    ASSUME NEW s \in Seq(Change), s # <<>>, NEW b, NEW n, Retracted(s, b, n), NEW d,
           d = IF Head(s).op = "add" THEN b \cup {Head(s).name} ELSE b \ {Head(s).name}
    PROVE  Retracted(s, d, n) /\ Retracted(Tail(s), d, n)
<1> DEFINE t == Tail(s)
<1>1. Len(t) = Len(s) - 1 /\ \A i \in 1..Len(t) : t[i] = s[i + 1]
    BY HeadTailProperties, Zenon
<1>2. Len(s) \in Nat /\ Len(s) > 0 /\ Head(s) = s[1] /\ s[1] \in Change
    BY EmptySeq, ElementOfSeq
<1>3. HasRemove(s, n) <=> IsRemove(Head(s), n) \/ HasRemove(t, n)
    BY TailHas, Zenon
<1> HIDE DEF t
<1>4. ASSUME NEW i \in 1..Len(t), t[i].op = "add", t[i].name = n
      PROVE  \E j \in (i + 1)..Len(t) : IsRemove(t[j], n)
  <2>1. i + 1 \in 1..Len(s) /\ s[i + 1] = t[i]
    BY <1>1, <1>2
  <2>2. PICK j \in (i + 1 + 1)..Len(s) : IsRemove(s[j], n)
    BY <1>4, <2>1 DEF Retracted
  <2>3. j - 1 \in (i + 1)..Len(t) /\ j - 1 \in 1..Len(t) /\ (j - 1) + 1 = j
    BY <1>1, <1>2, <2>2
  <2>4. t[j - 1] = s[j]
    BY <1>1, <2>3
  <2>5. QED
    BY <2>2, <2>3, <2>4
<1>5. ASSUME n \in d PROVE HasRemove(t, n)
  <2>1. CASE s[1].op = "add" /\ s[1].name = n
    <3>1. 1 \in 1..Len(s)
      BY <1>2
    <3>2. PICK j \in (1 + 1)..Len(s) : IsRemove(s[j], n)
      BY <2>1, <3>1 DEF Retracted
    <3>3. j - 1 \in 1..Len(t) /\ (j - 1) + 1 = j
      BY <1>1, <1>2, <3>2
    <3>4. t[j - 1] = s[j]
      BY <1>1, <3>3
    <3>5. QED
      BY <3>2, <3>3, <3>4 DEF HasRemove
  <2>2. CASE ~(s[1].op = "add" /\ s[1].name = n)
    <3>1. n \in b /\ ~IsRemove(Head(s), n)
      BY <1>2, <1>5, <2>2 DEF IsRemove
    <3>2. QED
      BY <1>3, <3>1 DEF Retracted
  <2>3. QED
    BY <2>1, <2>2
<1>6. Retracted(t, d, n)
    BY <1>4, <1>5 DEF Retracted
<1>7. Retracted(s, d, n)
    BY <1>3, <1>5 DEF Retracted
<1>8. QED
    BY <1>6, <1>7 DEF t

-----------------------------------------------------------------------------
(* Lemmas on steps. *)

HandlerRec == {Idle} \cup [op : {"add", "remove", "upgrade"}, name : Camera, pc : {"call", "publish"}]
ListenerRec ==
    {Idle, Off} \cup [op : {"add", "remove", "start", "delete"}, name : Camera,
                      pc : {"bind", "attach", "detach", "look", "create", "info", "stop"}]

LEMMA Types ==
    TypeOK <=> /\ installed \in SUBSET Camera /\ bound \in SUBSET Camera
               /\ handler \in [Handler -> HandlerRec]
               /\ channel \in Seq(Local) /\ out \in Seq(Change)
               /\ listener \in ListenerRec
               /\ link \in {"settings", "connect", "sleep", "attach", "subscribe", "run",
                            "up", "over"}
               /\ todo \in SUBSET Camera
               /\ client \in {"none", "up", "down"}
               /\ calls \in 0..MaxCalls
               /\ excused \in SUBSET Camera
    BY DEF TypeOK, HandlerRec, ListenerRec

LEMMA Working ==
    ASSUME NEW l \in ListenerRec, l.pc \notin {"idle", "off"}
    PROVE  /\ l \in [op : {"add", "remove", "start", "delete"}, name : Camera,
                     pc : {"bind", "attach", "detach", "look", "create", "info", "stop"}]
           /\ l # Off /\ l # Idle
    BY DEF ListenerRec, Idle, Off

\* A step that removes no camera, and after which a camera that is gone is as
\* it was.
LEMMA KeptInv ==
    ASSUME Inv, TypeOK', todo' \ installed' \subseteq excused',
           link' = "run" => listener' = Off,
           excused \subseteq excused', installed \subseteq installed',
           \A n \in Camera \ (installed \cup excused') : GoneWell(n) => GoneWell(n)'
    PROVE  Inv'
    BY DEF Inv

\* PublishToRedis takes the removal to the listener, or it is missed.
LEMMA Announcing ==
    ASSUME TypeOK, NEW op \in {"add", "remove", "start", "delete"}, NEW n \in Camera,
           PublishToRedis(op, n)
    PROVE  /\ channel' \in Seq(Local) /\ excused' \in SUBSET Camera
           /\ excused \subseteq excused'
           /\ \A m : HasRemove(channel, m) => HasRemove(channel', m)
           /\ op = "remove" => n \in excused' \/ HasRemove(channel', n)
<1> DEFINE c == [op |-> op, name |-> n]
<1>1. channel \in Seq(Local) /\ excused \in SUBSET Camera /\ c \in Local
    BY DEF TypeOK, Local
<1>2. CASE channel' = Append(channel, c) /\ excused' = excused
  <2>1. Append(channel, c) \in Seq(Local)
    BY <1>1, AppendProperties
  <2>2. op = "remove" => IsRemove(c, n)
    BY DEF IsRemove
  <2> HIDE DEF c
  <2>3. \A m : HasRemove(Append(channel, c), m) <=> HasRemove(channel, m) \/ IsRemove(c, m)
    BY <1>1, AppendHas, Zenon
  <2>4. QED
    BY <1>1, <1>2, <2>1, <2>2, <2>3, Zenon
<1>3. CASE channel' = channel /\ excused' = IF op = "remove" THEN excused \cup {n} ELSE excused
    BY <1>1, <1>3
<1>4. QED
    BY <1>2, <1>3 DEF PublishToRedis

\* Publish takes a report on its way to the cloud, or it is missed.
LEMMA Publishing ==
    ASSUME TypeOK, NEW op \in {"add", "remove"}, NEW n \in Camera, Publish(op, n)
    PROVE  /\ out' \in Seq(Change) /\ excused' \in SUBSET Camera
           /\ excused \subseteq excused'
           /\ \A m : \/ op = "remove" /\ m = n
                     \/ Retracted(out, bound, m) /\ ~(op = "add" /\ m = n)
                     => m \in excused' \/ Retracted(out', bound, m)
<1> DEFINE c == [op |-> op, name |-> n]
<1>1. out \in Seq(Change) /\ excused \in SUBSET Camera /\ c \in Change
      /\ c.op = op /\ c.name = n
    BY DEF TypeOK, Change
<1>2. CASE client = "none"
    BY <1>1, <1>2 DEF Publish
<1>3. CASE client # "none"
  <2>1. out' = Append(out, c) /\ excused' = excused
    BY <1>3 DEF Publish
  <2> HIDE DEF c
  <2>2. Append(out, c) \in Seq(Change)
    BY <1>1, AppendProperties
  <2>3. ASSUME NEW m, \/ op = "remove" /\ m = n
                      \/ Retracted(out, bound, m) /\ ~(op = "add" /\ m = n)
        PROVE  Retracted(Append(out, c), bound, m)
    <3>1. IsRemove(c, m) \/ (Retracted(out, bound, m) /\ ~(c.op = "add" /\ c.name = m))
      BY <1>1, <2>3 DEF IsRemove
    <3>2. QED
      BY <1>1, <3>1, AppendRetracted
  <2>4. QED
    BY <1>1, <2>1, <2>2, <2>3
<1>4. QED
    BY <1>2, <1>3

LEMMA InitInv == Init => Inv
<1> SUFFICES ASSUME Init PROVE Inv
    OBVIOUS
<1>1. channel \in Seq(Local) /\ out \in Seq(Change) /\ Len(out) = 0
    BY EmptySeq DEF Init
<1>2. handler \in [Handler -> HandlerRec] /\ listener \in ListenerRec
    BY DEF Init, HandlerRec, ListenerRec
<1>3. TypeOK
    BY <1>1, <1>2, Bounds, Types DEF Init
<1>4. \A n \in Camera : GoneWell(n)
    BY <1>1 DEF Init, GoneWell, Retracted, HasRemove, Off
<1>5. QED
    BY <1>3, <1>4 DEF Init, Inv

-----------------------------------------------------------------------------
(* The REST handlers and the commands of the cloud *)

LEMMA RequestInv ==
    ASSUME Inv, NEW h \in Handler, Request(h)
    PROVE  Inv'
<1>1. PICK op \in {"add", "remove", "upgrade"}, n \in Camera :
        handler' = [handler EXCEPT ![h] = [op |-> op, name |-> n, pc |-> "call"]]
    BY DEF Request
<1>2. /\ handler[h] = Idle /\ calls' = calls + 1 /\ calls < MaxCalls
      /\ UNCHANGED <<installed, channel, listener, link, todo, client, out, bound, excused>>
    BY DEF Request, Counted
<1>3. handler \in [Handler -> HandlerRec] /\ calls \in 0..MaxCalls
    BY Types DEF Inv
<1>4. handler' \in [Handler -> HandlerRec] /\ \A g \in Handler : g # h => handler'[g] = handler[g]
    BY <1>1, <1>3 DEF HandlerRec
<1>5. calls' \in 0..MaxCalls
    BY <1>2, <1>3, Bounds
<1>6. TypeOK'
    BY <1>2, <1>4, <1>5, Types DEF Inv, TypeOK, HandlerRec
<1>7. handler[h].pc # "publish"
    BY <1>2 DEF Idle
<1>8. ASSUME NEW n_1 \in Camera, GoneWell(n_1) PROVE GoneWell(n_1)'
    BY <1>2, <1>4, <1>7, <1>8, Zenon DEF GoneWell, Announced, Detaching
<1>9. QED
    BY <1>2, <1>6, <1>8, KeptInv DEF Inv

LEMMA HandlerCallsInv ==
    ASSUME Inv, NEW h \in Handler, HandlerCalls(h)
    PROVE  Inv'
<1>0. PICK n : n = handler[h].name
    OBVIOUS
<1> DEFINE c == [handler[h] EXCEPT !.pc = "publish"]
<1>1. /\ handler[h].pc = "call"
      /\ UNCHANGED <<channel, listener, link, todo, client, out, bound, calls>>
    BY DEF HandlerCalls
<1>2. /\ handler \in [Handler -> HandlerRec] /\ installed \in SUBSET Camera
      /\ excused \in SUBSET Camera /\ todo \in SUBSET Camera
    BY Types DEF Inv
<1>3. handler[h] \in [op : {"add", "remove", "upgrade"}, name : Camera, pc : {"call", "publish"}]
    BY <1>1, <1>2 DEF HandlerRec, Idle
<1>4. /\ c \in HandlerRec /\ c.op = handler[h].op /\ c.name = n /\ c.pc = "publish"
      /\ n \in Camera
    BY <1>0, <1>3 DEF HandlerRec
<1>5. Idle \in HandlerRec
    BY DEF HandlerRec
<1> HIDE DEF c
<1>6. CASE /\ handler[h].op = "add" /\ n \notin installed /\ Install(n)
           /\ handler' = [handler EXCEPT ![h] = c]
  <2>1. installed' = installed \cup {n} /\ excused' = excused
    BY <1>6 DEF Install
  <2>2. /\ handler' \in [Handler -> HandlerRec]
        /\ \A g \in Handler : g # h => handler'[g] = handler[g]
    BY <1>2, <1>4, <1>6
  <2>3. TypeOK'
    BY <1>1, <1>2, <1>4, <2>1, <2>2, Types DEF Inv, TypeOK, HandlerRec
  <2>4. ASSUME NEW m \in Camera, GoneWell(m) PROVE GoneWell(m)'
    BY <1>1, <2>2, <2>4, Zenon DEF GoneWell, Announced, Detaching
  <2>5. QED
    BY <1>1, <2>1, <2>3, <2>4, KeptInv DEF Inv
<1>7. CASE /\ handler[h].op = "remove" /\ Uninstall(n)
           /\ handler' = [handler EXCEPT ![h] = c]
  <2>1. /\ installed' = installed \ {n}
        /\ excused' = IF n \in todo THEN excused \cup {n} ELSE excused
    BY <1>7 DEF Uninstall
  <2>2. /\ handler' \in [Handler -> HandlerRec] /\ handler'[h] = c
        /\ \A g \in Handler : g # h => handler'[g] = handler[g]
    BY <1>2, <1>4, <1>7
  <2>3. TypeOK'
    BY <1>1, <1>2, <1>4, <2>1, <2>2, Types DEF Inv, TypeOK, HandlerRec
  <2>4. ASSUME NEW m \in Camera, GoneWell(m) PROVE GoneWell(m)'
    BY <1>1, <2>2, <2>4, Zenon DEF GoneWell, Announced, Detaching
  <2>5. GoneWell(n)'
    BY <1>0, <1>4, <1>7, <2>2 DEF GoneWell, Announced, IsRemove
  <2>6. QED
    <3>1. todo' \ installed' \subseteq excused'
      BY <1>1, <2>1 DEF Inv
    <3>2. ASSUME NEW m \in Camera \ (installed' \cup excused') PROVE GoneWell(m)'
      <4>1. m # n => m \in Camera \ (installed \cup excused)
        BY <2>1, <3>2
      <4>2. m # n => GoneWell(m)
        BY <4>1 DEF Inv
      <4>3. QED
        BY <2>4, <2>5, <3>2, <4>2
    <3>3. link' = "run" => listener' = Off
      BY <1>1 DEF Inv
    <3>4. QED
      BY <2>3, <3>1, <3>2, <3>3 DEF Inv
<1>8. CASE /\ handler' \in {[handler EXCEPT ![h] = Idle], [handler EXCEPT ![h] = c]}
           /\ UNCHANGED <<installed, excused>>
  <2>1. /\ handler' \in [Handler -> HandlerRec]
        /\ \A g \in Handler : g # h => handler'[g] = handler[g]
    BY <1>2, <1>4, <1>5, <1>8
  <2>2. TypeOK'
    BY <1>1, <1>8, <2>1, Types DEF Inv, TypeOK, HandlerRec
  <2>3. ASSUME NEW m \in Camera, GoneWell(m) PROVE GoneWell(m)'
    BY <1>1, <2>1, <2>3, Zenon DEF GoneWell, Announced, Detaching
  <2>4. QED
    BY <1>1, <1>8, <2>2, <2>3, KeptInv DEF Inv
<1>9. CASE GoneUntold(n) /\ handler' = [handler EXCEPT ![h] = Idle]
  <2>1. installed' = installed \ {n} /\ excused' = excused \cup {n}
    BY <1>9 DEF GoneUntold
  <2>2. /\ handler' \in [Handler -> HandlerRec]
        /\ \A g \in Handler : g # h => handler'[g] = handler[g]
    BY <1>2, <1>5, <1>9
  <2>3. TypeOK'
    BY <1>1, <1>2, <1>4, <2>1, <2>2, Types DEF Inv, TypeOK, HandlerRec
  <2>4. ASSUME NEW m \in Camera \ (installed' \cup excused') PROVE GoneWell(m)'
    <3>1. GoneWell(m)
      BY <2>1, <2>4 DEF Inv
    <3>2. QED
      BY <1>1, <2>2, <3>1, Zenon DEF GoneWell, Announced, Detaching
  <2>5. todo' \ installed' \subseteq excused'
    BY <1>1, <2>1 DEF Inv
  <2>6. link' = "run" => listener' = Off
    BY <1>1 DEF Inv
  <2>7. QED
    BY <2>3, <2>4, <2>5, <2>6 DEF Inv
<1>10. QED
    BY <1>0, <1>6, <1>7, <1>8, <1>9 DEF HandlerCalls, HandlerIdle, HandlerGoesOn, c

LEMMA HandlerPublishesInv ==
    ASSUME Inv, NEW h \in Handler, HandlerPublishes(h)
    PROVE  Inv'
<1> DEFINE n == handler[h].name
<1> DEFINE op == IF handler[h].op = "remove" THEN "remove" ELSE "add"
<1>1. /\ handler[h].pc = "publish" /\ PublishToRedis(op, n)
      /\ handler' = [handler EXCEPT ![h] = Idle]
      /\ UNCHANGED <<installed, listener, link, todo, client, out, bound, calls>>
    BY DEF HandlerPublishes, HandlerIdle
<1>2. TypeOK /\ handler \in [Handler -> HandlerRec]
    BY Types DEF Inv
<1>3. op \in {"add", "remove", "start", "delete"} /\ n \in Camera
    BY <1>1, <1>2 DEF HandlerRec, Idle
<1>4. /\ channel' \in Seq(Local) /\ excused' \in SUBSET Camera
      /\ excused \subseteq excused'
      /\ \A m : HasRemove(channel, m) => HasRemove(channel', m)
      /\ handler[h].op = "remove" => n \in excused' \/ HasRemove(channel', n)
    BY <1>1, <1>2, <1>3, Announcing
<1>5. /\ handler' \in [Handler -> HandlerRec]
      /\ \A g \in Handler : g # h => handler'[g] = handler[g]
    BY <1>1, <1>2 DEF HandlerRec
<1>6. TypeOK'
    BY <1>1, <1>2, <1>4, <1>5 DEF TypeOK, HandlerRec
<1>7. ASSUME NEW m \in Camera, m \notin excused', Announced(m) PROVE Announced(m)'
  <2>1. CASE HasRemove(channel, m)
    BY <1>4, <2>1 DEF Announced
  <2>2. CASE \E g \in Handler : handler[g].pc = "publish" /\ IsRemove(handler[g], m)
    <3>1. PICK g \in Handler : handler[g].pc = "publish" /\ IsRemove(handler[g], m)
      BY <2>2
    <3>2. CASE g = h
      BY <1>4, <1>7, <3>1, <3>2 DEF IsRemove, Announced
    <3>3. CASE g # h
      BY <1>5, <3>1, <3>3 DEF Announced
    <3>4. QED
      BY <3>2, <3>3
  <2>3. QED
    BY <1>7, <2>1, <2>2 DEF Announced
<1>8. ASSUME NEW m \in Camera, m \notin excused', GoneWell(m) PROVE GoneWell(m)'
    BY <1>1, <1>7, <1>8, Zenon DEF GoneWell, Detaching
<1>9. QED
    BY <1>1, <1>4, <1>6, <1>8, KeptInv DEF Inv

LEMMA OnMessageInv == Inv /\ OnMessage => Inv'
<1> SUFFICES ASSUME Inv, OnMessage PROVE Inv'
    OBVIOUS
<1>1. /\ calls < MaxCalls /\ calls' = calls + 1
      /\ UNCHANGED <<installed, handler, listener, link, todo, client, out, bound>>
    BY DEF OnMessage, Counted
<1>2. PICK op \in {"start", "delete"}, n \in Camera : PublishToRedis(op, n)
    BY DEF OnMessage
<1>3. TypeOK /\ op \in {"add", "remove", "start", "delete"} /\ calls \in 0..MaxCalls
    BY DEF Inv, TypeOK
<1>4. /\ channel' \in Seq(Local) /\ excused' \in SUBSET Camera
      /\ excused \subseteq excused'
      /\ \A m : HasRemove(channel, m) => HasRemove(channel', m)
    BY <1>2, <1>3, Announcing
<1>5. calls' \in 0..MaxCalls
    BY <1>1, <1>3, Bounds
<1>6. TypeOK'
    BY <1>1, <1>3, <1>4, <1>5 DEF TypeOK
<1>7. ASSUME NEW m \in Camera, GoneWell(m) PROVE GoneWell(m)'
    BY <1>1, <1>4, <1>7, Zenon DEF GoneWell, Announced, Detaching
<1>8. QED
    BY <1>1, <1>4, <1>6, <1>7, KeptInv DEF Inv

-----------------------------------------------------------------------------
(* The listener *)

\* A step of the listener that leaves the changes and the reports alone, and
\* that neither forgets a removal nor comes to report a camera that is gone.
LEMMA ListenerInv ==
    ASSUME Inv, listener # Off, NEW l \in ListenerRec \ {Off}, listener' = l,
           ~(listener.pc = "detach"),
           l.pc = "attach" => l.name \in installed,
           installed \subseteq installed', installed' \in SUBSET Camera,
           UNCHANGED <<handler, channel, link, todo, client, out, bound, calls, excused>>
    PROVE  Inv'
<1>1. TypeOK'
    BY Types DEF Inv, TypeOK, ListenerRec
<1>2. link' # "run"
    BY DEF Inv
<1>3. ASSUME NEW m \in Camera \ (installed \cup excused'), GoneWell(m) PROVE GoneWell(m)'
  <2>1. ~(listener'.pc = "attach" /\ listener'.name = m)
    BY <1>3
  <2>2. ~Detaching(m)
    BY DEF Detaching
  <2>3. Announced(m)' <=> Announced(m)
    BY DEF Announced
  <2>4. Retracted(out, bound, m)' <=> Retracted(out, bound, m)
    BY DEF Retracted
  <2>5. QED
    BY <1>3, <2>1, <2>2, <2>3, <2>4 DEF GoneWell
<1>4. todo' \ installed' \subseteq excused'
    BY DEF Inv
<1>5. QED
    BY <1>1, <1>2, <1>3, <1>4, KeptInv

LEMMA IdleListener == Idle \in ListenerRec \ {Off} /\ Idle.pc = "idle" /\ Off.pc = "off"
    BY DEF Idle, Off, ListenerRec

\* The removal that was on the channel is the listener's now.
LEMMA ReceiveInv == Inv /\ Receive => Inv'
<1> SUFFICES ASSUME Inv, Receive PROVE Inv'
    OBVIOUS
<1> DEFINE m == Head(channel)
<1> DEFINE l == [op |-> m.op, name |-> m.name, pc |-> FirstStep(m.op)]
<1>1. /\ listener = Idle /\ channel # <<>> /\ listener' = l /\ channel' = Tail(channel)
      /\ UNCHANGED <<installed, handler, link, todo, client, out, bound, calls, excused>>
    BY DEF Receive
<1>2. channel \in Seq(Local)
    BY DEF Inv, TypeOK
<1>3. m \in Local /\ Tail(channel) \in Seq(Local)
    BY <1>1, <1>2, HeadTailProperties
<1>4. \A n : HasRemove(channel, n) <=> IsRemove(m, n) \/ HasRemove(Tail(channel), n)
    BY <1>1, <1>2, TailHas, Zenon
<1>5. /\ l \in ListenerRec /\ l # Off /\ l.pc # "attach" /\ l.name = m.name
      /\ m.op = "remove" => l.pc = "detach"
    BY <1>3 DEF Local, FirstStep, ListenerRec, Off
<1> HIDE DEF l, m
<1>6. listener # Off /\ listener.pc = "idle"
    BY <1>1, IdleListener
<1>7. TypeOK'
    BY <1>1, <1>3, <1>5, Types DEF Inv, TypeOK, ListenerRec
<1>8. ASSUME NEW n \in Camera, GoneWell(n) PROVE GoneWell(n)'
  <2>1. CASE IsRemove(m, n)
    <3>1. Detaching(n)'
      BY <1>1, <1>5, <2>1 DEF IsRemove, Detaching
    <3>2. QED
      BY <1>1, <1>5, <3>1 DEF GoneWell
  <2>2. CASE ~IsRemove(m, n)
    <3>1. Announced(n) => Announced(n)'
      BY <1>1, <1>4, <2>2, Zenon DEF Announced
    <3>2. ~Detaching(n)
      BY <1>6 DEF Detaching
    <3>3. QED
      BY <1>1, <1>5, <1>8, <3>1, <3>2 DEF GoneWell
  <2>3. QED
    BY <2>1, <2>2
<1>9. QED
    BY <1>1, <1>5, <1>6, <1>7, <1>8, KeptInv DEF Inv

LEMMA BindInv == Inv /\ Bind => Inv'
<1> SUFFICES ASSUME Inv, Bind PROVE Inv'
    OBVIOUS
<1>1. /\ listener.pc = "bind"
      /\ \/ listener.name \in installed /\ listener' = [listener EXCEPT !.pc = "attach"]
         \/ listener' = Idle
      /\ UNCHANGED <<installed, handler, channel, link, todo, client, out, bound, calls, excused>>
    BY DEF Bind, ListenerAt, ListenerTo
<1>2. /\ listener \in [op : {"add", "remove", "start", "delete"}, name : Camera,
                       pc : {"bind", "attach", "detach", "look", "create", "info", "stop"}]
      /\ listener # Off /\ installed \in SUBSET Camera
    BY <1>1, Types, Working DEF Inv
<1>3. CASE listener.name \in installed /\ listener' = [listener EXCEPT !.pc = "attach"]
  <2> DEFINE l == [listener EXCEPT !.pc = "attach"]
  <2>1. l \in ListenerRec \ {Off} /\ l.name = listener.name
    BY <1>2 DEF ListenerRec, Off
  <2>2. listener' = l
    BY <1>1, <1>3
  <2> HIDE DEF l
  <2>3. QED
    BY <1>1, <1>2, <1>3, <2>1, <2>2, ListenerInv
<1>4. CASE listener' = Idle
    BY <1>1, <1>2, <1>4, IdleListener, ListenerInv
<1>5. QED
    BY <1>1, <1>3, <1>4

\* A camera that is reported by now has been announced as removed.
LEMMA AttachInv == Inv /\ Attach => Inv'
<1> SUFFICES ASSUME Inv, Attach PROVE Inv'
    OBVIOUS
<1> DEFINE n == listener.name
<1>1. /\ listener.pc = "attach" /\ Publish("add", n)
      /\ listener' \in {[listener EXCEPT !.pc = "create"], Idle}
      /\ UNCHANGED <<installed, handler, channel, link, todo, client, bound, calls>>
    BY DEF Attach, ListenerAt, ListenerTo
<1>2. /\ listener \in [op : {"add", "remove", "start", "delete"}, name : Camera,
                       pc : {"bind", "attach", "detach", "look", "create", "info", "stop"}]
      /\ listener # Off
    BY <1>1, Types, Working DEF Inv
<1>3. /\ listener' \in ListenerRec \ {Off} /\ listener'.pc \in {"create", "idle"}
    BY <1>1, <1>2, IdleListener DEF ListenerRec, Off
<1>4. /\ out' \in Seq(Change) /\ excused' \in SUBSET Camera
      /\ excused \subseteq excused'
      /\ \A m : Retracted(out, bound, m) /\ m # n => m \in excused' \/ Retracted(out', bound, m)
    BY <1>1, <1>2, Publishing DEF Inv
<1>5. TypeOK'
    BY <1>1, <1>3, <1>4, Types DEF Inv, TypeOK, ListenerRec
<1>6. ASSUME NEW m \in Camera, m \notin excused', GoneWell(m) PROVE GoneWell(m)'
  <2>1. Announced(m) => Announced(m)'
    BY <1>1 DEF Announced
  <2>2. ~Detaching(m)
    BY <1>1 DEF Detaching
  <2>3. m = n => Announced(m)
    BY <1>1, <1>6 DEF GoneWell
  <2>4. m # n /\ Retracted(out, bound, m) => Retracted(out', bound', m)
    BY <1>1, <1>4, <1>6
  <2>5. QED
    BY <1>3, <1>6, <2>1, <2>2, <2>3, <2>4 DEF GoneWell
<1>7. QED
    BY <1>1, <1>2, <1>4, <1>5, <1>6, KeptInv DEF Inv

LEMMA DetachInv == Inv /\ Detach => Inv'
<1> SUFFICES ASSUME Inv, Detach PROVE Inv'
    OBVIOUS
<1> DEFINE n == listener.name
<1>1. /\ listener.pc = "detach" /\ listener' = Idle
      /\ Publish("remove", n) \/ (excused' = excused \cup {n} /\ out' = out)
      /\ UNCHANGED <<installed, handler, channel, link, todo, client, bound, calls>>
    BY DEF Detach, ListenerAt
<1>2. /\ listener \in [op : {"add", "remove", "start", "delete"}, name : Camera,
                       pc : {"bind", "attach", "detach", "look", "create", "info", "stop"}]
      /\ listener # Off
    BY <1>1, Types, Working DEF Inv
<1>3. /\ out' \in Seq(Change) /\ excused' \in SUBSET Camera
      /\ excused \subseteq excused'
      /\ \A m : Retracted(out, bound, m) \/ m = n => m \in excused' \/ Retracted(out', bound, m)
  <2>1. CASE Publish("remove", n)
    BY <1>2, <2>1, Publishing DEF Inv
  <2>2. CASE excused' = excused \cup {n} /\ out' = out
    BY <1>2, <2>2, Types DEF Inv
  <2>3. QED
    BY <1>1, <2>1, <2>2
<1>4. TypeOK'
    BY <1>1, <1>3, IdleListener, Types DEF Inv, TypeOK, ListenerRec
<1>5. ASSUME NEW m \in Camera, m \notin excused', GoneWell(m) PROVE GoneWell(m)'
  <2>1. Announced(m) => Announced(m)'
    BY <1>1 DEF Announced
  <2>2. Detaching(m) => m = n
    BY DEF Detaching
  <2>3. QED
    BY <1>1, <1>3, <1>5, <2>1, <2>2, IdleListener DEF GoneWell
<1>6. QED
    BY <1>1, <1>2, <1>3, <1>4, <1>5, KeptInv DEF Inv

LEMMA LookInv == Inv /\ (LookFirst \/ InfoFirst) => Inv'
<1> SUFFICES ASSUME Inv, LookFirst \/ InfoFirst PROVE Inv'
    OBVIOUS
<1>1. /\ listener.pc \in {"look", "info"}
      /\ \/ \E pc \in {"bind", "create", "stop", "detach"} : listener' = [listener EXCEPT !.pc = pc]
         \/ listener' = Idle
      /\ UNCHANGED <<installed, handler, channel, link, todo, client, out, bound, calls, excused>>
    BY DEF LookFirst, InfoFirst, ListenerAt, ListenerTo
<1>2. /\ listener \in [op : {"add", "remove", "start", "delete"}, name : Camera,
                       pc : {"bind", "attach", "detach", "look", "create", "info", "stop"}]
      /\ listener # Off /\ installed \in SUBSET Camera
    BY <1>1, Types, Working DEF Inv
<1>3. listener' \in ListenerRec \ {Off} /\ listener'.pc # "attach"
    BY <1>1, <1>2, IdleListener DEF ListenerRec, Off
<1>4. QED
    BY <1>1, <1>2, <1>3, ListenerInv

LEMMA CreateInv == Inv /\ Create => Inv'
<1> SUFFICES ASSUME Inv, Create PROVE Inv'
    OBVIOUS
<1>1. /\ listener.pc = "create"
      /\ UNCHANGED <<handler, channel, link, todo, client, out, bound, calls>>
    BY DEF Create, ListenerAt
<1>2. /\ listener \in [op : {"add", "remove", "start", "delete"}, name : Camera,
                       pc : {"bind", "attach", "detach", "look", "create", "info", "stop"}]
      /\ listener # Off /\ installed \in SUBSET Camera
    BY <1>1, Types, Working DEF Inv
<1>3. CASE Install(listener.name) /\ listener' = [listener EXCEPT !.op = "add", !.pc = "bind"]
  <2>1. installed' = installed \cup {listener.name} /\ excused' = excused
    BY <1>3 DEF Install
  <2>2. listener' \in ListenerRec \ {Off} /\ listener'.pc = "bind"
    BY <1>2, <1>3 DEF ListenerRec, Off
  <2>3. installed' \in SUBSET Camera /\ installed \subseteq installed'
    BY <1>2, <2>1
  <2>4. QED
    BY <1>1, <1>2, <2>1, <2>2, <2>3, ListenerInv
<1>4. CASE listener' = Idle /\ UNCHANGED <<installed, excused>>
    BY <1>1, <1>2, <1>4, IdleListener, ListenerInv
<1>5. QED
    BY <1>3, <1>4 DEF Create

LEMMA StopCameraInv == Inv /\ StopCamera => Inv'
<1> SUFFICES ASSUME Inv, StopCamera PROVE Inv'
    OBVIOUS
<1> DEFINE n == listener.name
<1>1. /\ listener.pc = "stop"
      /\ UNCHANGED <<handler, channel, link, todo, client, out, bound, calls>>
    BY DEF StopCamera, ListenerAt
<1>2. /\ listener \in [op : {"add", "remove", "start", "delete"}, name : Camera,
                       pc : {"bind", "attach", "detach", "look", "create", "info", "stop"}]
      /\ listener # Off /\ installed \in SUBSET Camera /\ excused \in SUBSET Camera
    BY <1>1, Types, Working DEF Inv
<1>3. CASE Uninstall(n) /\ listener' = [listener EXCEPT !.pc = "detach"]
  <2>1. /\ installed' = installed \ {n}
        /\ excused' = IF n \in todo THEN excused \cup {n} ELSE excused
        /\ listener' = [listener EXCEPT !.pc = "detach"]
    BY <1>3 DEF Uninstall
  <2>2. /\ listener' \in ListenerRec \ {Off} /\ listener'.pc = "detach" /\ listener'.name = n
    BY <1>2, <2>1 DEF ListenerRec, Off
  <2>3. TypeOK'
    BY <1>1, <1>2, <2>1, <2>2, Types DEF Inv, TypeOK, ListenerRec
  <2>4. todo' \ installed' \subseteq excused'
    BY <1>1, <2>1 DEF Inv
  <2>5. link' # "run"
    BY <1>1, <1>2 DEF Inv
  <2>6. ASSUME NEW m \in Camera \ (installed' \cup excused') PROVE GoneWell(m)'
    <3>1. CASE m = n
      BY <2>2, <3>1 DEF GoneWell, Detaching
    <3>2. CASE m # n
      <4>1. GoneWell(m)
        BY <2>1, <2>6, <3>2 DEF Inv
      <4>2. (Announced(m)' <=> Announced(m)) /\ ~Detaching(m)
        BY <1>1 DEF Announced, Detaching
      <4>3. QED
        BY <1>1, <2>2, <4>1, <4>2 DEF GoneWell
    <3>3. QED
      BY <3>1, <3>2
  <2>7. QED
    BY <2>3, <2>4, <2>5, <2>6 DEF Inv
<1>4. CASE GoneUntold(n) /\ listener' = Idle
  <2>1. installed' = installed \ {n} /\ excused' = excused \cup {n}
    BY <1>4 DEF GoneUntold
  <2>2. TypeOK'
    BY <1>1, <1>2, <1>4, <2>1, IdleListener, Types DEF Inv, TypeOK, ListenerRec
  <2>3. todo' \ installed' \subseteq excused' /\ link' # "run"
    BY <1>1, <1>2, <2>1 DEF Inv
  <2>4. ASSUME NEW m \in Camera \ (installed' \cup excused') PROVE GoneWell(m)'
    <3>1. GoneWell(m)
      BY <2>1, <2>4 DEF Inv
    <3>2. (Announced(m)' <=> Announced(m)) /\ ~Detaching(m)
      BY <1>1 DEF Announced, Detaching
    <3>3. QED
      BY <1>1, <1>4, <3>1, <3>2, IdleListener DEF GoneWell
  <2>5. QED
    BY <2>2, <2>3, <2>4 DEF Inv
<1>5. CASE listener' = Idle /\ UNCHANGED <<installed, excused>>
    BY <1>1, <1>2, <1>5, IdleListener, ListenerInv
<1>6. QED
    BY <1>3, <1>4, <1>5 DEF StopCamera, ListenerTo

-----------------------------------------------------------------------------
(* The session *)

\* A step of the session that touches neither cameras, changes nor reports.
LEMMA SessionInv ==
    ASSUME Inv, TypeOK', todo' \ installed \subseteq excused,
           link' = "run" => listener = Off,
           UNCHANGED <<installed, handler, channel, listener, out, bound, excused>>
    PROVE  Inv'
<1>1. ASSUME NEW m \in Camera, GoneWell(m) PROVE GoneWell(m)'
    BY <1>1 DEF GoneWell, Announced, Detaching
<1>2. QED
    BY <1>1, KeptInv

LEMMA LinkInv ==
    Inv /\ (\/ SettingsFound \/ Connect \/ ConnectFails \/ ListAll \/ AttachedAll
            \/ Subscribe \/ Lose \/ Reconnect) => Inv'
<1> SUFFICES ASSUME Inv, \/ SettingsFound \/ Connect \/ ConnectFails \/ ListAll
                         \/ AttachedAll \/ Subscribe \/ Lose \/ Reconnect
             PROVE  Inv'
    OBVIOUS
<1>1. /\ UNCHANGED <<installed, handler, channel, listener, out, bound, calls, excused>>
      /\ todo' \in {todo, installed}
      /\ link' \in {link, "connect", "sleep", "over", "attach", "subscribe", "up"}
         \/ (link' = "run" /\ listener = Off)
      /\ client' \in {client, "up", "down"}
    BY DEF SettingsFound, Connect, ConnectFails, ListAll, AttachedAll, Subscribe, Lose,
           Reconnect, LinkTo
<1>2. TypeOK'
    BY <1>1 DEF Inv, TypeOK
<1>3. todo' \ installed \subseteq excused /\ (link' = "run" => listener = Off)
    BY <1>1 DEF Inv
<1>4. QED
    BY <1>1, <1>2, <1>3, SessionInv

\* The camera reported is installed still, or excused.
LEMMA AttachNextInv == Inv /\ AttachNext => Inv'
<1> SUFFICES ASSUME Inv, AttachNext PROVE Inv'
    OBVIOUS
<1>1. PICK n \in todo : Publish("add", n) /\ todo' = todo \ {n}
    BY DEF AttachNext
<1>2. /\ UNCHANGED <<installed, handler, channel, listener, link, client, bound, calls>>
      /\ n \in Camera
    BY DEF AttachNext, Inv, TypeOK
<1>3. /\ out' \in Seq(Change) /\ excused' \in SUBSET Camera
      /\ excused \subseteq excused'
      /\ \A m : Retracted(out, bound, m) /\ m # n => m \in excused' \/ Retracted(out', bound, m)
    BY <1>1, <1>2, Publishing DEF Inv
<1>4. TypeOK'
    BY <1>1, <1>2, <1>3 DEF Inv, TypeOK
<1>5. n \in installed \cup excused
    BY DEF Inv
<1>6. ASSUME NEW m \in Camera \ (installed \cup excused'), GoneWell(m) PROVE GoneWell(m)'
  <2>1. m # n
    BY <1>3, <1>5, <1>6
  <2>2. Retracted(out, bound, m) => Retracted(out', bound', m)
    BY <1>2, <1>3, <1>6, <2>1
  <2>3. (Announced(m)' <=> Announced(m)) /\ (Detaching(m)' <=> Detaching(m))
    BY <1>2 DEF Announced, Detaching
  <2>4. QED
    BY <1>2, <1>6, <2>2, <2>3 DEF GoneWell
<1>7. todo' \ installed' \subseteq excused'
    BY <1>1, <1>2, <1>3 DEF Inv
<1>8. QED
    BY <1>2, <1>3, <1>4, <1>6, <1>7, KeptInv DEF Inv

LEMMA StartListenerInv == Inv /\ StartListener => Inv'
<1> SUFFICES ASSUME Inv, StartListener PROVE Inv'
    OBVIOUS
<1>1. /\ link = "run" /\ link' = "up" /\ listener' = Idle
      /\ UNCHANGED <<installed, handler, channel, todo, client, out, bound, calls, excused>>
    BY DEF StartListener, LinkTo
<1>2. listener = Off
    BY <1>1 DEF Inv
<1>3. TypeOK'
    BY <1>1, IdleListener, Types DEF Inv, TypeOK, ListenerRec
<1>4. ASSUME NEW m \in Camera, GoneWell(m) PROVE GoneWell(m)'
  <2>1. (Announced(m)' <=> Announced(m)) /\ ~Detaching(m)
    BY <1>1, <1>2, IdleListener DEF Announced, Detaching
  <2>2. QED
    BY <1>1, <1>4, <2>1, IdleListener DEF GoneWell
<1>5. QED
    BY <1>1, <1>3, <1>4, KeptInv DEF Inv

\* The reports that the old client had yet to deliver are lost with it.
LEMMA ExpireInv == Inv /\ Expire => Inv'
<1> SUFFICES ASSUME Inv, Expire PROVE Inv'
    OBVIOUS
<1>1. /\ link' = "connect" /\ client' = "none" /\ out' = <<>>
      /\ excused' = excused \cup {m.name : m \in {k \in ToSet(out) : k.op = "remove"}}
      /\ UNCHANGED <<installed, handler, channel, listener, todo, bound, calls>>
    BY DEF Expire, LinkTo
<1>2. out \in Seq(Change) /\ \A i \in 1..Len(out) : out[i] \in Change
    BY ElementOfSeq DEF Inv, TypeOK
<1>3. ToSet(out) = {out[i] : i \in 1..Len(out)}
    BY <1>2, LenProperties DEF ToSet
<1>4. excused' \in SUBSET Camera /\ excused \subseteq excused'
    BY <1>1, <1>2, <1>3 DEF Inv, TypeOK, Change
<1>5. \A n : HasRemove(out, n) => n \in excused'
    BY <1>1, <1>3 DEF HasRemove, IsRemove
<1>6. out' \in Seq(Change) /\ Len(out') = 0
    BY <1>1, EmptySeq
<1>7. TypeOK'
    BY <1>1, <1>4, <1>6 DEF Inv, TypeOK
<1>8. ASSUME NEW m \in Camera \ (installed \cup excused'), GoneWell(m) PROVE GoneWell(m)'
  <2>1. Retracted(out, bound, m) => m \notin bound
    BY <1>5, <1>8 DEF Retracted
  <2>2. m \notin bound => Retracted(out', bound', m)
    BY <1>1, <1>6 DEF Retracted
  <2>3. (Announced(m)' <=> Announced(m)) /\ (Detaching(m)' <=> Detaching(m))
    BY <1>1 DEF Announced, Detaching
  <2>4. QED
    BY <1>1, <1>8, <2>1, <2>2, <2>3 DEF GoneWell
<1>9. QED
    BY <1>1, <1>4, <1>7, <1>8, KeptInv DEF Inv

LEMMA DeliverInv == Inv /\ Deliver => Inv'
<1> SUFFICES ASSUME Inv, Deliver PROVE Inv'
    OBVIOUS
<1>1. /\ out # <<>>
      /\ bound' = IF Head(out).op = "add" THEN bound \cup {Head(out).name}
                  ELSE bound \ {Head(out).name}
      /\ out' \in {out, Tail(out)} /\ client' \in {client, "down"}
      /\ UNCHANGED <<installed, handler, channel, listener, link, todo, calls, excused>>
    BY DEF Deliver
<1>2. out \in Seq(Change) /\ Head(out) \in Change /\ Tail(out) \in Seq(Change)
    BY <1>1, HeadTailProperties DEF Inv, TypeOK
<1>3. bound' \in SUBSET Camera
    BY <1>1, <1>2 DEF Inv, TypeOK, Change
<1>4. TypeOK'
    BY <1>1, <1>2, <1>3 DEF Inv, TypeOK
<1>5. ASSUME NEW m \in Camera, GoneWell(m) PROVE GoneWell(m)'
  <2>1. Retracted(out, bound, m) => Retracted(out, bound', m) /\ Retracted(Tail(out), bound', m)
    BY <1>1, <1>2, DeliverRetracted
  <2>2. Retracted(out, bound, m) => Retracted(out', bound', m)
    BY <1>1, <2>1
  <2>3. (Announced(m)' <=> Announced(m)) /\ (Detaching(m)' <=> Detaching(m))
    BY <1>1 DEF Announced, Detaching
  <2>4. QED
    BY <1>1, <1>5, <2>2, <2>3 DEF GoneWell
<1>6. QED
    BY <1>1, <1>4, <1>5, KeptInv DEF Inv

\* What is on the way mentions the camera.
LEMMA Mentions ==
    ASSUME TypeOK, NEW n, HasRemove(channel, n) \/ HasRemove(out, n)
    PROVE  Mentioned(n)
<1>1. channel \in Seq(Local) /\ out \in Seq(Change)
    BY DEF TypeOK
<1>2. /\ ToSet(channel) = {channel[i] : i \in 1..Len(channel)}
      /\ ToSet(out) = {out[i] : i \in 1..Len(out)}
    BY <1>1, LenProperties DEF ToSet
<1>3. \E m \in ToSet(channel) \cup ToSet(out) : m.name = n
    BY <1>2 DEF HasRemove, IsRemove
<1>4. QED
    BY <1>3 DEF Mentioned

LEMMA GoneAndBound ==
    ASSUME Inv, NEW n \in Camera \ (installed \cup excused), n \in bound
    PROVE  Mentioned(n)
<1>1. CASE Announced(n)
    BY <1>1, Mentions DEF Inv, Announced, IsRemove, Mentioned
<1>2. CASE Detaching(n)
    BY <1>2 DEF Detaching, Mentioned
<1>3. CASE Retracted(out, bound, n)
    BY <1>3, Mentions DEF Inv, Retracted
<1>4. QED
    BY <1>1, <1>2, <1>3 DEF Inv, GoneWell

LEMMA RestartInv == Inv /\ Restart => Inv'
<1> SUFFICES ASSUME Inv, Restart PROVE Inv'
    OBVIOUS
<1>1. /\ calls < MaxCalls /\ calls' = calls + 1
      /\ handler' = [h \in Handler |-> Idle] /\ listener' = Off
      /\ channel' = <<>> /\ out' = <<>> /\ todo' = {}
      /\ link' = "settings" /\ client' = "none"
      /\ excused' = excused \cup {n \in Camera : Mentioned(n)}
      /\ UNCHANGED <<installed, bound>>
    BY DEF Restart, Counted
<1>2. /\ channel' \in Seq(Local) /\ out' \in Seq(Change) /\ Len(out') = 0
      /\ handler' \in [Handler -> HandlerRec] /\ listener' \in ListenerRec
    BY <1>1, EmptySeq DEF HandlerRec, ListenerRec
<1>3. calls' \in 0..MaxCalls /\ excused' \in SUBSET Camera
    BY <1>1, Bounds DEF Inv, TypeOK
<1>4. TypeOK'
    BY <1>1, <1>2, <1>3, Types DEF Inv, TypeOK, HandlerRec, ListenerRec
<1>5. ASSUME NEW m \in Camera \ (installed \cup excused') PROVE GoneWell(m)'
  <2>1. m \notin bound
    BY <1>1, <1>5, GoneAndBound
  <2>2. Retracted(out', bound', m)
    BY <1>1, <1>2, <2>1 DEF Retracted
  <2>3. QED
    BY <1>1, <2>2, IdleListener DEF GoneWell
<1>6. QED
    BY <1>1, <1>4, <1>5 DEF Inv

-----------------------------------------------------------------------------
(* The theorems. *)

LEMMA NextInv == Inv /\ [Next]_vars => Inv'
<1> SUFFICES ASSUME Inv, [Next]_vars PROVE Inv'
    OBVIOUS
<1>1. CASE \E h \in Handler : Request(h) \/ Handle(h)
    BY <1>1, RequestInv, HandlerCallsInv, HandlerPublishesInv DEF Handle
<1>2. CASE OnMessage
    BY <1>2, OnMessageInv
<1>3. CASE Listen
    BY <1>3, ReceiveInv, BindInv, AttachInv, DetachInv, LookInv, CreateInv, StopCameraInv
       DEF Listen
<1>4. CASE Link
    BY <1>4, LinkInv, AttachNextInv, StartListenerInv, ExpireInv DEF Link
<1>5. CASE ConnectFails \/ Subscribe \/ Lose \/ Reconnect
    BY <1>5, LinkInv
<1>6. CASE Deliver \/ Restart
    BY <1>6, DeliverInv, RestartInv
<1>7. CASE UNCHANGED vars
    BY <1>7 DEF vars, Inv, TypeOK, GoneWell, Announced, Detaching
<1>8. QED
    BY <1>1, <1>2, <1>3, <1>4, <1>5, <1>6, <1>7 DEF Next

LEMMA InvBound == Inv => BoundIsInstalled
<1> SUFFICES ASSUME Inv, NEW n \in bound, n \notin installed, n \notin excused
             PROVE  Mentioned(n)
    BY DEF BoundIsInstalled
<1>1. n \in Camera \ (installed \cup excused)
    BY DEF Inv, TypeOK
<1>2. QED
    BY <1>1, GoneAndBound

\* Every reachable state is of the declared types.
THEOREM TypeCorrect == Spec => []TypeOK
<1>1. Inv => TypeOK
    BY DEF Inv
<1>2. QED
    BY <1>1, InitInv, NextInv, PTL DEF Spec

\* However requests, commands and the reports of new sessions meet, the cloud
\* has a camera bound only while it is installed or something about it is under
\* way, or the news of its removal may have been missed.
THEOREM BoundCorrect == Spec => []BoundIsInstalled
<1>1. QED
    BY InvBound, InitInv, NextInv, PTL DEF Spec

-----------------------------------------------------------------------------
(* The states of a device that are reported, DeviceEvents.                 *)

\* The newest event of all, received or not.
Newest == IF messages = <<>> THEN last ELSE messages[Len(messages)]

Known(e) == e # NoEvent => e.id <= container.id

\* The ids of containers are given in order, and the newest event is about the
\* newest container.
Numbered ==
    /\ container.id <= emitted
    /\ container.state # "none" => container.id > 0
    /\ container.id > 0 => Newest # NoEvent /\ Newest.id = container.id
    /\ Known(last) /\ Known(notified)
    /\ \A i \in 1..Len(messages) : messages[i].id <= container.id
    /\ \A g \in Check : Known(check[g].seen)

\* A goroutine that has not seen the newest event has another one behind it
\* that sleeps on.
Followed ==
    \A g \in Check : check[g].pc # "off" =>
        /\ check[g].seen # NoEvent
        /\ check[g].seen # last => waiting # <<>> /\ now < waiting[Len(waiting)]

WakersHaveAnEvent == waiting # <<>> => last # NoEvent

Reports(g) == check[g].pc \in {"info", "publish"}

\* A goroutine that is going to publish, unless the container goes.
Reporting(g) ==
    \/ check[g].pc = "first" \/ Reports(g)
    \/ check[g].pc = "compare" /\ (notified = NoEvent \/ check[g].seen # notified)

\* The event that is stored has been reported, while its container is there.
StoredIsReported ==
    (/\ notified # NoEvent /\ container.state # "none" /\ notified.id = container.id
     /\ ~failed /\ \A g \in Check : ~Reports(g)) => cloud # NoEvent

\* When no goroutine sleeps or is going to publish, the news has been reported.
AwakeIsReported ==
    (/\ messages = <<>> /\ container.state # "none" /\ waiting = <<>>
     /\ ~failed /\ \A g \in Check : ~Reporting(g)) =>
        cloud # NoEvent /\ (last = notified \/ cloud = deviceActionToStatus(last.action))

\* The inductive invariant.
EventsInv ==
    /\ EventsTypeOK
    /\ Numbered
    /\ WakersHaveAnEvent
    /\ Followed
    /\ StoredIsReported
    /\ AwakeIsReported

-----------------------------------------------------------------------------
(* Lemmas on the operators. *)

LEMMA Facts ==
    /\ Delay \in Nat /\ Delay > 0 /\ MaxEvents \in Nat /\ MaxTime \in Nat
    /\ NoEvent \notin Event /\ NoEvent \notin Status
    BY EventsAssumption, NoEventAssumption DEF EventsAssumption, NoEventAssumption

LEMMA StatusOf ==
    ASSUME NEW e \in Event
    PROVE  deviceActionToStatus(e.action) \in Status
    BY DEF deviceActionToStatus, Status, Event, Action

\* What Emit adds to the messages.
Added(actions, id) == [i \in 1..Len(actions) |-> [action |-> actions[i], id |-> id]]

Extends(t, s, id) ==
    /\ t \in Seq(Event) /\ t # <<>>
    /\ t[Len(t)].id = id /\ t[Len(t)] # NoEvent
    /\ \A i \in 1..Len(t) : t[i].id = id \/ (i \in 1..Len(s) /\ t[i] = s[i])

LEMMA Emitted ==
    ASSUME NEW actions \in Seq(Action), actions # <<>>, NEW id \in 1..MaxEvents,
           NEW s \in Seq(Event), NEW t, t = s \o Added(actions, id)
    PROVE  Extends(t, s, id)
<1> DEFINE u == Added(actions, id)
<1>1. Len(actions) \in Nat /\ Len(actions) > 0 /\ \A i \in 1..Len(actions) : actions[i] \in Action
    BY EmptySeq, ElementOfSeq, LenProperties
<1>2. u \in Seq(Event) /\ Len(u) = Len(actions) /\ \A i \in 1..Len(u) : u[i].id = id
    BY <1>1 DEF Added, Event
<1> HIDE DEF u
<1>3. /\ t \in Seq(Event) /\ Len(t) = Len(s) + Len(actions)
      /\ \A i \in 1..Len(t) : t[i] = IF i <= Len(s) THEN s[i] ELSE u[i - Len(s)]
  <2>1. t = s \o u
    BY DEF u
  <2>2. /\ s \o u \in Seq(Event) /\ Len(s \o u) = Len(s) + Len(u)
        /\ \A i \in 1..Len(s) + Len(u) :
              (s \o u)[i] = IF i <= Len(s) THEN s[i] ELSE u[i - Len(s)]
    BY <1>2, ConcatProperties, Zenon
  <2>3. QED
    BY <1>2, <2>1, <2>2
<1>4. Len(s) \in Nat
    BY LenProperties
<1>5. ASSUME NEW i \in 1..Len(t)
      PROVE  t[i].id = id \/ (i \in 1..Len(s) /\ t[i] = s[i])
  <2>1. CASE i <= Len(s)
    BY <1>3, <1>4, <1>5, <2>1
  <2>2. CASE ~(i <= Len(s))
    <3>1. i - Len(s) \in 1..Len(u)
      BY <1>1, <1>2, <1>3, <1>4, <1>5, <2>2
    <3>2. QED
      BY <1>2, <1>3, <2>2, <3>1
  <2>3. QED
    BY <2>1, <2>2
<1>6. Len(t) \in 1..Len(t) /\ Len(t) - Len(s) \in 1..Len(u) /\ ~(Len(t) <= Len(s))
    BY <1>1, <1>2, <1>3, <1>4
<1>7. t[Len(t)] = u[Len(t) - Len(s)]
    BY <1>3, <1>6
<1>8. t[Len(t)].id = id /\ t[Len(t)] \in Event
    BY <1>2, <1>6, <1>7, ElementOfSeq
<1>9. QED
    BY <1>1, <1>3, <1>4, <1>5, <1>8, Facts, EmptySeq DEF Extends

-----------------------------------------------------------------------------
(* One lemma per action, or per group of actions, that changes the state in  *)
(* the same way.                                                             *)

CheckRec == [pc : {"off", "compare", "first", "info", "publish"}, seen : Event \cup {NoEvent}]

LEMMA EventsInitInv == EventsInit => EventsInv
<1> SUFFICES ASSUME EventsInit PROVE EventsInv
    OBVIOUS
<1>1. messages = <<>> /\ messages \in Seq(Event) /\ waiting = <<>>
      /\ waiting \in Seq(Delay..(MaxTime + Delay)) /\ Len(messages) = 0
    BY EmptySeq DEF EventsInit
<1>2. Asleep \in CheckRec /\ Asleep.pc = "off" /\ Asleep.seen = NoEvent
    BY DEF Asleep, CheckRec
<1>3. check = [g \in Check |-> Asleep]
    BY DEF EventsInit
<1>4. EventsTypeOK
  <2>1. check \in [Check -> [pc : {"off", "compare", "first", "info", "publish"},
                             seen : Event \cup {NoEvent}]]
    BY <1>2, <1>3 DEF CheckRec
  <2>2. container \in [state : {"none", "running", "dead"}, id : 0..MaxEvents]
    BY Facts DEF EventsInit
  <2>3. now \in 0..MaxTime /\ emitted \in 0..MaxEvents
    BY Facts DEF EventsInit
  <2>4. /\ {last, notified} \subseteq Event \cup {NoEvent}
        /\ cloud \in Status \cup {NoEvent} /\ failed \in BOOLEAN
    BY Zenon DEF EventsInit
  <2>5. QED
    BY <1>1, <2>1, <2>2, <2>3, <2>4 DEF EventsTypeOK
<1>5. container.state = "none" /\ container.id = 0 /\ last = NoEvent /\ notified = NoEvent
      /\ emitted = 0
    BY DEF EventsInit
<1>6. Numbered
    BY <1>1, <1>2, <1>3, <1>5 DEF Numbered, Known
<1>7. QED
    BY <1>1, <1>2, <1>3, <1>4, <1>5, <1>6
       DEF EventsInv, WakersHaveAnEvent, Followed, StoredIsReported, AwakeIsReported

\* An event leaves a message behind, and never an older container.
LEMMA EmitInv ==
    ASSUME EventsInv, NEW from, NEW to \in {"none", "running", "dead"},
           NEW id \in {container.id, container.id + 1},
           NEW actions \in Seq(Action), actions # <<>>, id <= emitted + Len(actions),
           id = container.id => from # "none", Emit(from, to, id, actions)
    PROVE  EventsInv'
<1>1. /\ EventsTypeOK /\ Numbered /\ WakersHaveAnEvent /\ Followed /\ StoredIsReported
      /\ MaxEvents \in Nat /\ emitted \in 0..MaxEvents /\ container.id \in 0..MaxEvents
    BY Facts DEF EventsInv, EventsTypeOK
<1>2. /\ container.state = from /\ emitted + Len(actions) <= MaxEvents
      /\ container' = [state |-> to, id |-> id]
      /\ emitted' = emitted + Len(actions)
      /\ messages' = messages \o [i \in 1..Len(actions) |-> [action |-> actions[i], id |-> id]]
      /\ UNCHANGED <<now, last, waiting, check, notified, cloud, failed>>
    BY DEF Emit
<1>3. Len(actions) \in Nat
    BY LenProperties
<1>4. id \in 1..MaxEvents /\ container.id <= id /\ (id # container.id => container.id < id)
    BY <1>1, <1>2, <1>3 DEF Numbered
<1>5. container'.id = id /\ container'.state = to
    BY <1>2
<1>6. /\ messages \in Seq(Event) /\ messages' \in Seq(Event) /\ messages' # <<>>
      /\ messages'[Len(messages')].id = id /\ messages'[Len(messages')] # NoEvent
      /\ \A i \in 1..Len(messages') :
           messages'[i].id = id \/ (i \in 1..Len(messages) /\ messages'[i] = messages[i])
  <2>1. messages \in Seq(Event)
    BY <1>1 DEF EventsTypeOK
  <2>2. messages' = messages \o Added(actions, id)
    BY <1>2 DEF Added
  <2>3. Extends(messages', messages, id)
    BY <1>4, <2>1, <2>2, Emitted, Zenon
  <2>4. QED
    BY <2>1, <2>3 DEF Extends
<1>7. EventsTypeOK'
  <2>1. container' \in [state : {"none", "running", "dead"}, id : 0..MaxEvents]
    BY <1>1, <1>2, <1>4
  <2>2. emitted' \in 0..MaxEvents
    BY <1>1, <1>2, <1>3
  <2>3. QED
    BY <1>1, <1>2, <1>6, <2>1, <2>2 DEF EventsTypeOK
<1>8. Numbered'
  <2>1. last # NoEvent => last.id \in Nat /\ last.id <= id
    BY <1>1, <1>4 DEF EventsTypeOK, Numbered, Known, Event
  <2>2. notified # NoEvent => notified.id \in Nat /\ notified.id <= id
    BY <1>1, <1>4 DEF EventsTypeOK, Numbered, Known, Event
  <2>3. \A i \in 1..Len(messages') : messages'[i].id <= id
    <3> SUFFICES ASSUME NEW i \in 1..Len(messages'), i \in 1..Len(messages),
                        messages'[i] = messages[i]
                 PROVE  messages'[i].id <= id
        BY <1>4, <1>6
    <3>1. messages[i] \in Event
      BY <1>6, ElementOfSeq
    <3>2. QED
      BY <1>1, <1>4, <3>1 DEF Numbered, Event
  <2>4. \A g \in Check : check[g].seen # NoEvent => check[g].seen.id <= id
    <3> SUFFICES ASSUME NEW g \in Check, check[g].seen # NoEvent
                 PROVE  check[g].seen.id <= id
        OBVIOUS
    <3>1. check[g].seen \in Event
      BY <1>1 DEF EventsTypeOK
    <3>2. QED
      BY <1>1, <1>4, <3>1 DEF Numbered, Known, Event
  <2>5. id <= emitted'
    BY <1>2
  <2>6. QED
    BY <1>2, <1>4, <1>5, <1>6, <2>1, <2>2, <2>3, <2>4, <2>5 DEF Numbered, Known, Newest
<1>9. WakersHaveAnEvent' /\ Followed'
    BY <1>1, <1>2 DEF WakersHaveAnEvent, Followed
<1>10. StoredIsReported'
  <2>1. CASE id = container.id
    BY <1>1, <1>2, <1>5, <2>1 DEF StoredIsReported, Reports
  <2>2. CASE id # container.id
    <3>1. notified # NoEvent => notified.id \in Nat /\ notified.id <= container.id
      BY <1>1 DEF EventsTypeOK, Numbered, Known, Event
    <3>2. notified # NoEvent => notified.id # id
      BY <1>1, <1>4, <2>2, <3>1
    <3>3. QED
      BY <1>2, <1>5, <3>2 DEF StoredIsReported
  <2>3. QED
    BY <2>1, <2>2
<1>11. AwakeIsReported'
    BY <1>6 DEF AwakeIsReported
<1>12. QED
    BY <1>7, <1>8, <1>9, <1>10, <1>11 DEF EventsInv

LEMMA DockerInv == EventsInv /\ Docker => EventsInv'
<1> SUFFICES ASSUME EventsInv, Docker PROVE EventsInv'
    OBVIOUS
<1>1. container.id \in Nat /\ emitted \in Nat /\ container.id <= emitted
    BY DEF EventsInv, EventsTypeOK, Numbered
<1>2. CASE Emit("none", "running", container.id + 1, <<"create", "start">>)
  <2>1. <<"create", "start">> \in Seq(Action) /\ Len(<<"create", "start">>) = 2
    BY DEF Action
  <2>2. container.id + 1 <= emitted + Len(<<"create", "start">>) /\ container.id + 1 # container.id
    BY <1>1, <2>1
  <2>3. QED
    BY <1>2, <2>1, <2>2, EmitInv
<1>3. CASE Emit("running", "dead", container.id, <<"die">>)
  <2>1. <<"die">> \in Seq(Action) /\ Len(<<"die">>) = 1
    BY DEF Action
  <2>2. container.id <= emitted + Len(<<"die">>)
    BY <1>1, <2>1
  <2>3. QED
    BY <1>3, <2>1, <2>2, EmitInv
<1>4. CASE Emit("dead", "running", container.id, <<"start">>)
  <2>1. <<"start">> \in Seq(Action) /\ Len(<<"start">>) = 1
    BY DEF Action
  <2>2. container.id <= emitted + Len(<<"start">>)
    BY <1>1, <2>1
  <2>3. QED
    BY <1>4, <2>1, <2>2, EmitInv
<1>5. CASE Emit("running", "none", container.id, <<"kill", "die", "stop", "destroy">>)
  <2> DEFINE l == <<"kill", "die", "stop", "destroy">>
  <2>1. l \in Seq(Action) /\ Len(l) = 4
    BY DEF Action
  <2>2. container.id <= emitted + Len(l)
    BY <1>1, <2>1
  <2> HIDE DEF l
  <2>3. Emit("running", "none", container.id, l)
    BY <1>5 DEF l
  <2>4. l # <<>>
    BY <2>1, EmptySeq
  <2>5. QED
    BY <2>1, <2>2, <2>3, <2>4, EmitInv
<1>6. QED
    BY <1>2, <1>3, <1>4, <1>5 DEF Docker

\* Time passes only while no goroutine is awake.
LEMMA TickInv == EventsInv /\ Tick => EventsInv'
<1> SUFFICES ASSUME EventsInv, Tick PROVE EventsInv'
    OBVIOUS
<1>1. /\ now' = now + 1 /\ now < MaxTime /\ \A g \in Check : check[g].pc = "off"
      /\ UNCHANGED <<container, messages, emitted, last, waiting, check, notified, cloud, failed>>
    BY DEF Tick, Settled
<1>2. EventsTypeOK'
    BY <1>1, Facts DEF EventsInv, EventsTypeOK
<1>3. QED
    BY <1>1, <1>2 DEF EventsInv, Numbered, Newest, Known, WakersHaveAnEvent, Followed,
                      StoredIsReported, Reports, AwakeIsReported, Reporting

\* The event received is the newest of those before the ones that remain, and
\* its goroutine sleeps after all the others.
LEMMA HeardInv == EventsInv /\ changedDeviceState => EventsInv'
<1> SUFFICES ASSUME EventsInv, changedDeviceState PROVE EventsInv'
    OBVIOUS
<1>1. /\ messages # <<>> /\ last' = Head(messages) /\ messages' = Tail(messages)
      /\ waiting' = Append(waiting, now + Delay)
      /\ UNCHANGED <<now, container, emitted, check, notified, cloud, failed>>
    BY DEF changedDeviceState
<1>2. /\ messages \in Seq(Event) /\ waiting \in Seq(Delay..(MaxTime + Delay))
      /\ now \in 0..MaxTime /\ Delay \in Nat /\ Delay > 0 /\ MaxTime \in Nat
    BY Facts DEF EventsInv, EventsTypeOK
<1>3. /\ Head(messages) \in Event /\ Tail(messages) \in Seq(Event)
      /\ Len(messages) \in Nat /\ Len(messages) > 0 /\ Head(messages) = messages[1]
      /\ Len(Tail(messages)) = Len(messages) - 1
      /\ \A i \in 1..Len(Tail(messages)) : Tail(messages)[i] = messages[i + 1]
    BY <1>1, <1>2, HeadTailProperties, EmptySeq
<1>4. last' \in Event /\ last' # NoEvent /\ last' = messages[1]
    BY <1>1, <1>3, Facts
<1>5. now + Delay \in Delay..(MaxTime + Delay) /\ now < now + Delay
    BY <1>2
<1>6. /\ waiting' \in Seq(Delay..(MaxTime + Delay)) /\ waiting' # <<>>
      /\ Len(waiting') = Len(waiting) + 1 /\ waiting'[Len(waiting')] = now + Delay
    BY <1>1, <1>2, <1>5, AppendProperties
<1>7. EventsTypeOK'
    BY <1>1, <1>3, <1>4, <1>6 DEF EventsInv, EventsTypeOK
<1>8. Numbered'
  <2>1. /\ messages[1].id <= container.id
        /\ \A i \in 1..Len(messages') : messages'[i].id <= container.id
    BY <1>1, <1>3 DEF EventsInv, Numbered
  <2>2. Newest' = Newest
    <3>1. CASE Len(messages) = 1
      <4>1. messages' = <<>>
        BY <1>1, <1>3, <3>1, EmptySeq
      <4>2. QED
        BY <1>1, <1>4, <3>1, <4>1 DEF Newest
    <3>2. CASE Len(messages) # 1
      <4>1. messages' # <<>> /\ Len(messages') \in 1..Len(messages')
            /\ Len(messages') + 1 = Len(messages)
        BY <1>1, <1>3, <3>2, EmptySeq
      <4>2. messages'[Len(messages')] = messages[Len(messages)]
        BY <1>1, <1>3, <4>1
      <4>3. QED
        BY <1>1, <4>1, <4>2 DEF Newest
    <3>3. QED
      BY <3>1, <3>2
  <2>3. container.id > 0 => Newest # NoEvent /\ Newest.id = container.id
    BY DEF EventsInv, Numbered
  <2>4. QED
    BY <1>1, <1>4, <2>1, <2>2, <2>3 DEF EventsInv, Numbered, Known
<1>9. WakersHaveAnEvent'
    BY <1>4 DEF WakersHaveAnEvent
<1>10. Followed'
    BY <1>1, <1>5, <1>6 DEF EventsInv, Followed
<1>11. StoredIsReported' /\ AwakeIsReported'
    BY <1>1, <1>6 DEF EventsInv, StoredIsReported, Reports, AwakeIsReported
<1>12. QED
    BY <1>7, <1>8, <1>9, <1>10, <1>11 DEF EventsInv

-----------------------------------------------------------------------------
(* The steps of a goroutine.  c is what they make of check[g]. *)

\* A step of an awake goroutine that goes on about the event it has seen, or
\* ends, and that leaves the history and the sleeping goroutines alone.
LEMMA StepInv ==
    ASSUME EventsInv, NEW g \in Check, NEW c \in CheckRec, check[g].pc # "off",
           check' = [check EXCEPT ![g] = c],
           c.pc = "off" \/ c.seen = check[g].seen, Known(c.seen),
           notified' \in {notified, check[g].seen},
           cloud' \in Status \cup {NoEvent}, failed' \in BOOLEAN,
           UNCHANGED <<now, container, messages, emitted, last, waiting>>
    PROVE  EventsTypeOK' /\ Numbered' /\ WakersHaveAnEvent' /\ Followed'
<1>1. /\ EventsTypeOK /\ Numbered /\ WakersHaveAnEvent /\ Followed
      /\ check \in [Check -> CheckRec] /\ {last, notified} \subseteq Event \cup {NoEvent}
    BY DEF EventsInv, EventsTypeOK, CheckRec
<1>2. check' \in [Check -> CheckRec] /\ check'[g] = c
      /\ \A h \in Check : h # g => check'[h] = check[h]
    BY <1>1
<1>3. check[g].seen \in Event /\ check[g].seen # NoEvent /\ Known(check[g].seen)
    BY <1>1, Facts DEF Followed, CheckRec, Numbered
<1>4. EventsTypeOK'
    BY <1>1, <1>2, <1>3 DEF EventsTypeOK, CheckRec
<1>5. Numbered'
    BY <1>1, <1>2, <1>3 DEF Numbered, Known, Newest
<1>6. Followed'
    BY <1>1, <1>2 DEF Followed
<1>7. QED
    BY <1>1, <1>4, <1>5, <1>6 DEF WakersHaveAnEvent

\* A goroutine wakes, and has seen the newest event.
LEMMA WakeInv ==
    ASSUME EventsInv, NEW g \in Check, Wake(g)
    PROVE  EventsInv'
<1> DEFINE c == [pc |-> "compare", seen |-> last]
<1>1. /\ check[g].pc = "off" /\ waiting # <<>> /\ Head(waiting) <= now
      /\ waiting' = Tail(waiting) /\ check' = [check EXCEPT ![g] = c]
      /\ UNCHANGED <<now, container, messages, emitted, last, notified, cloud, failed>>
    BY DEF Wake
<1>2. /\ EventsTypeOK /\ Numbered /\ WakersHaveAnEvent /\ Followed /\ StoredIsReported
      /\ check \in [Check -> CheckRec] /\ last \in Event \cup {NoEvent}
      /\ waiting \in Seq(Delay..(MaxTime + Delay)) /\ now \in Nat
      /\ Delay \in Nat /\ MaxTime \in Nat
    BY Facts DEF EventsInv, EventsTypeOK, CheckRec
<1>3. last \in Event /\ last # NoEvent /\ Known(last) /\ c \in CheckRec
    BY <1>1, <1>2, Facts DEF WakersHaveAnEvent, Numbered, CheckRec
<1>4. check' \in [Check -> CheckRec] /\ check'[g] = c
      /\ \A h \in Check : h # g => check'[h] = check[h]
    BY <1>1, <1>2, <1>3
<1>5. /\ Tail(waiting) \in Seq(Delay..(MaxTime + Delay))
      /\ Len(Tail(waiting)) = Len(waiting) - 1
      /\ \A i \in 1..Len(Tail(waiting)) : Tail(waiting)[i] = waiting[i + 1]
    BY <1>1, <1>2, HeadTailProperties, Zenon
<1>6. Len(waiting) \in Nat /\ Len(waiting) > 0 /\ Head(waiting) = waiting[1]
    BY <1>1, <1>2, EmptySeq
<1>7. EventsTypeOK'
    BY <1>1, <1>2, <1>4, <1>5 DEF EventsTypeOK, CheckRec
<1>8. Numbered'
    BY <1>1, <1>2, <1>3, <1>4 DEF Numbered, Known, Newest
<1>9. WakersHaveAnEvent'
    BY <1>1, <1>3 DEF WakersHaveAnEvent
<1>10. Followed'
  <2> SUFFICES ASSUME NEW h \in Check, check[h].pc # "off", check[h].seen # last
               PROVE  waiting' # <<>> /\ now < waiting'[Len(waiting')]
      BY <1>1, <1>2, <1>3, <1>4 DEF Followed
  <2>1. now < waiting[Len(waiting)]
    BY <1>2 DEF Followed
  <2>2. Len(waiting) # 1
    BY <1>1, <1>2, <1>6, <2>1
  <2>3. Len(waiting') \in 1..Len(waiting') /\ Len(waiting') + 1 = Len(waiting)
    BY <1>1, <1>5, <1>6, <2>2
  <2>4. waiting'[Len(waiting')] = waiting[Len(waiting)]
    BY <1>1, <1>5, <2>3
  <2>5. waiting' # <<>>
    BY <2>3, EmptySeq
  <2>6. QED
    BY <2>1, <2>4, <2>5
<1>11. StoredIsReported'
    BY <1>1, <1>2, <1>4 DEF StoredIsReported, Reports
<1>12. AwakeIsReported'
  <2> SUFFICES ASSUME messages = <<>>, container.state # "none", ~failed,
                      \A h \in Check : ~Reporting(h)'
               PROVE  cloud # NoEvent /\ last = notified
      BY <1>1 DEF AwakeIsReported
  <2>1. notified # NoEvent /\ last = notified
    BY <1>1, <1>4 DEF Reporting
  <2>2. notified.id = container.id
    BY <1>2, <1>3, <2>1 DEF Numbered, Newest, EventsTypeOK
  <2>3. \A h \in Check : ~Reports(h)
    BY <1>1, <1>4 DEF Reporting, Reports
  <2>4. QED
    BY <1>2, <2>1, <2>2, <2>3 DEF StoredIsReported
<1>13. QED
    BY <1>7, <1>8, <1>9, <1>10, <1>11, <1>12 DEF EventsInv

\* A goroutine compares what it has seen with what is stored, and goes on to
\* report it unless they are alike.
LEMMA CompareInv ==
    ASSUME EventsInv, NEW g \in Check, Compare(g)
    PROVE  EventsInv'
<1> DEFINE c == IF notified = NoEvent THEN [check[g] EXCEPT !.pc = "first"]
                ELSE IF notified # check[g].seen THEN [check[g] EXCEPT !.pc = "info"]
                ELSE Asleep
<1>1. /\ check[g].pc = "compare" /\ check' = [check EXCEPT ![g] = c]
      /\ UNCHANGED <<now, container, messages, emitted, last, waiting, notified, cloud, failed>>
    BY DEF Compare, hasDeviceDifferences
<1>2. check[g] \in CheckRec /\ check \in [Check -> CheckRec]
    BY DEF EventsInv, EventsTypeOK, CheckRec
<1>3. /\ c \in CheckRec /\ (c.pc = "off" \/ c.seen = check[g].seen)
      /\ c.seen \in {NoEvent, check[g].seen}
      /\ c.pc = IF notified = NoEvent THEN "first"
                ELSE IF notified # check[g].seen THEN "info" ELSE "off"
    BY <1>2 DEF CheckRec, Asleep
<1> HIDE DEF c
<1>4. check'[g] = c /\ \A h \in Check : h # g => check'[h] = check[h]
    BY <1>1, <1>2
<1>5. Known(c.seen) /\ cloud \in Status \cup {NoEvent} /\ failed \in BOOLEAN
    BY <1>3 DEF EventsInv, Numbered, Known, EventsTypeOK
<1>6. EventsTypeOK' /\ Numbered' /\ WakersHaveAnEvent' /\ Followed'
  <2>1. /\ check[g].pc # "off" /\ notified' \in {notified, check[g].seen}
        /\ cloud' \in Status \cup {NoEvent} /\ failed' \in BOOLEAN
        /\ UNCHANGED <<now, container, messages, emitted, last, waiting>>
    BY <1>1, <1>5
  <2>2. QED
    BY <1>1, <1>3, <1>5, <2>1, StepInv
<1>7. StoredIsReported'
    BY <1>1, <1>4 DEF EventsInv, StoredIsReported, Reports
<1>8. AwakeIsReported'
  <2> SUFFICES ASSUME \A h \in Check : ~Reporting(h)' PROVE \A h \in Check : ~Reporting(h)
      BY <1>1 DEF EventsInv, AwakeIsReported
  <2>1. ~Reporting(g)
    BY <1>1, <1>3, <1>4 DEF Reporting, Reports
  <2>2. QED
    BY <1>1, <1>4, <2>1 DEF Reporting, Reports
<1>9. QED
    BY <1>6, <1>7, <1>8 DEF EventsInv

\* From the comparison to the publication, the goroutine is about to report.
LEMMA StoreFirstInv ==
    ASSUME EventsInv, NEW g \in Check, StoreFirst(g)
    PROVE  EventsInv'
<1> DEFINE c == [check[g] EXCEPT !.pc = "info"]
<1>1. /\ check[g].pc = "first" /\ check' = [check EXCEPT ![g] = c]
      /\ notified' = check[g].seen
      /\ UNCHANGED <<now, container, messages, emitted, last, waiting, cloud, failed>>
    BY DEF StoreFirst
<1>2. check[g] \in CheckRec /\ check \in [Check -> CheckRec]
    BY DEF EventsInv, EventsTypeOK, CheckRec
<1>3. c \in CheckRec /\ c.seen = check[g].seen /\ c.pc = "info"
    BY <1>2 DEF CheckRec
<1> HIDE DEF c
<1>4. check'[g] = c
    BY <1>1, <1>2
<1>5. Known(c.seen) /\ cloud \in Status \cup {NoEvent} /\ failed \in BOOLEAN
    BY <1>3 DEF EventsInv, Numbered, Known, EventsTypeOK
<1>6. EventsTypeOK' /\ Numbered' /\ WakersHaveAnEvent' /\ Followed'
  <2>1. /\ check[g].pc # "off" /\ notified' \in {notified, check[g].seen}
        /\ cloud' \in Status \cup {NoEvent} /\ failed' \in BOOLEAN
        /\ UNCHANGED <<now, container, messages, emitted, last, waiting>>
    BY <1>1, <1>5
  <2>2. QED
    BY <1>1, <1>3, <1>5, <2>1, StepInv
<1>7. Reports(g)' /\ Reporting(g)'
    BY <1>3, <1>4 DEF Reports, Reporting
<1>8. QED
    BY <1>6, <1>7 DEF EventsInv, StoredIsReported, AwakeIsReported

LEMMA InfoInv ==
    ASSUME EventsInv, NEW g \in Check, Info(g)
    PROVE  EventsInv'
<1> DEFINE c == IF container.state = "none" THEN Asleep ELSE [check[g] EXCEPT !.pc = "publish"]
<1>1. /\ check[g].pc = "info" /\ check' = [check EXCEPT ![g] = c]
      /\ UNCHANGED <<now, container, messages, emitted, last, waiting, notified, cloud, failed>>
    BY DEF Info
<1>2. check[g] \in CheckRec /\ check \in [Check -> CheckRec]
    BY DEF EventsInv, EventsTypeOK, CheckRec
<1>3. /\ c \in CheckRec /\ (c.pc = "off" \/ c.seen = check[g].seen)
      /\ c.seen \in {NoEvent, check[g].seen}
      /\ container.state # "none" => c.pc = "publish"
    BY <1>2 DEF CheckRec, Asleep
<1> HIDE DEF c
<1>4. check'[g] = c
    BY <1>1, <1>2
<1>5. Known(c.seen) /\ cloud \in Status \cup {NoEvent} /\ failed \in BOOLEAN
    BY <1>3 DEF EventsInv, Numbered, Known, EventsTypeOK
<1>6. EventsTypeOK' /\ Numbered' /\ WakersHaveAnEvent' /\ Followed'
  <2>1. /\ check[g].pc # "off" /\ notified' \in {notified, check[g].seen}
        /\ cloud' \in Status \cup {NoEvent} /\ failed' \in BOOLEAN
        /\ UNCHANGED <<now, container, messages, emitted, last, waiting>>
    BY <1>1, <1>5
  <2>2. QED
    BY <1>1, <1>3, <1>5, <2>1, StepInv
<1>7. container.state # "none" => Reports(g)' /\ Reporting(g)'
    BY <1>3, <1>4 DEF Reports, Reporting
<1>8. QED
    BY <1>1, <1>6, <1>7 DEF EventsInv, StoredIsReported, AwakeIsReported

\* Nobody sleeps, so what is published is the status of the newest event; or the
\* attempt is given up.
LEMMA PublishInv ==
    ASSUME EventsInv, NEW g \in Check, Report(g) \/ ReportFails(g) \/ InfoFails(g)
    PROVE  EventsInv'
<1>1. /\ check[g].pc \in {"info", "publish"} /\ check' = [check EXCEPT ![g] = Asleep]
      /\ UNCHANGED <<now, container, messages, emitted, last, waiting, notified>>
      /\ \/ cloud' = deviceActionToStatus(check[g].seen.action) /\ failed' = FALSE
         \/ cloud' = cloud /\ failed' = TRUE
    BY DEF Report, ReportFails, InfoFails
<1>2. Asleep \in CheckRec /\ Asleep.pc = "off" /\ Asleep.seen = NoEvent
    BY DEF Asleep, CheckRec
<1>3. check[g].seen \in Event
    BY <1>1, Facts DEF EventsInv, EventsTypeOK, Followed
<1>4. deviceActionToStatus(check[g].seen.action) \in Status
    BY <1>3, StatusOf
<1>5. cloud' \in Status \cup {NoEvent} /\ failed' \in BOOLEAN
  <2>1. cloud \in Status \cup {NoEvent}
    BY DEF EventsInv, EventsTypeOK
  <2>2. QED
    BY <1>1, <1>4, <2>1, Zenon
<1>6. EventsTypeOK' /\ Numbered' /\ WakersHaveAnEvent' /\ Followed'
    BY <1>1, <1>2, <1>5, StepInv DEF Known
<1>7. failed' \/ (cloud' = deviceActionToStatus(check[g].seen.action) /\ cloud' # NoEvent)
  <2>1. CASE failed' = TRUE
    BY <2>1, Zenon
  <2>2. CASE cloud' = deviceActionToStatus(check[g].seen.action)
    BY <1>4, <2>2, Facts, Zenon
  <2>3. QED
    BY <1>1, <2>1, <2>2, Zenon
<1>8. StoredIsReported'
    BY <1>7, Zenon DEF StoredIsReported
<1>9. waiting = <<>> => check[g].seen = last
    BY <1>1 DEF EventsInv, Followed
<1>10. AwakeIsReported'
    BY <1>1, <1>7, <1>9 DEF AwakeIsReported
<1>11. QED
    BY <1>6, <1>8, <1>10 DEF EventsInv

-----------------------------------------------------------------------------
(* The theorems. *)

LEMMA EventsNextInv == EventsInv /\ [EventsNext]_events => EventsInv'
<1> SUFFICES ASSUME EventsInv, [EventsNext]_events PROVE EventsInv'
    OBVIOUS
<1>1. CASE Docker
    BY <1>1, DockerInv
<1>2. CASE Tick
    BY <1>2, TickInv
<1>3. CASE changedDeviceState
    BY <1>3, HeardInv
<1>4. CASE \E g \in Check : \/ Wake(g) \/ Compare(g) \/ StoreFirst(g) \/ Info(g) \/ InfoFails(g)
                            \/ Report(g) \/ ReportFails(g)
    BY <1>4, WakeInv, CompareInv, StoreFirstInv, InfoInv, PublishInv
<1>5. CASE UNCHANGED events
    BY <1>5 DEF events, EventsInv, EventsTypeOK, Numbered, Newest, Known, WakersHaveAnEvent, Followed,
                StoredIsReported, Reports, AwakeIsReported, Reporting
<1>6. QED
    BY <1>1, <1>2, <1>3, <1>4, <1>5 DEF EventsNext

\* When nothing sleeps and nothing is awake, nothing is about to be reported.
LEMMA InvReported == EventsInv => NewsReported
<1> SUFFICES ASSUME EventsInv, Quiet, container.state # "none", ~failed
             PROVE  /\ cloud # NoEvent
                    /\ last = notified \/ cloud = deviceActionToStatus(last.action)
    BY DEF NewsReported
<1>1. \A g \in Check : ~Reporting(g)
    BY DEF Quiet, Settled, Reporting, Reports
<1>2. QED
    BY <1>1 DEF EventsInv, AwakeIsReported, Quiet, Settled

\* Every reachable state is of the declared types.
THEOREM EventsTypeCorrect == EventsSpec => []EventsTypeOK
<1>1. EventsInv => EventsTypeOK
    BY DEF EventsInv
<1>2. QED
    BY <1>1, EventsInitInv, EventsNextInv, PTL DEF EventsSpec

\* However the goroutines of a burst of events run, the newest state of a
\* device that has a container is reported in the end, or is like the one
\* stored, or the last attempt was given up.
THEOREM NewsIsReported == EventsSpec => []NewsReported
<1>1. QED
    BY InvReported, EventsInitInv, EventsNextInv, PTL DEF EventsSpec
=============================================================================
