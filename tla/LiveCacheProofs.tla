---------------------------- MODULE LiveCacheProofs ----------------------------
(***************************************************************************)
(* Theorems about LiveCache, for any number of clients, goroutines and     *)
(* lists and any sizes and times: its types, that a list in realtimeCache  *)
(* always has a goroutine that fills it, how long a list gets, the order   *)
(* of what clients are sent, and that each of them watches a feed.         *)
(***************************************************************************)
EXTENDS LiveCache, TLAPS, FiniteSetTheorems, SequenceTheorems

\* What the types need beside themselves: a client that looks at a list has
\* one, and a batch that is about to be pushed is not empty.
Held ==
    /\ \A c \in Client : client[c].pc \in {"new", "spawn", "look", "take"}
                            => client[c].list \in ListId
    /\ \A k \in Cacher : cacher[k].pc \in {"load", "trim", "push"}
                            => cacher[k].batch # <<>>

TypeInv == TypeOK /\ Held

-----------------------------------------------------------------------------
(* Lemmas on the helpers of the model. *)

LEMMA Halves == ASSUME NEW a \in Int PROVE a \div 2 \in Int
    OBVIOUS

LEMMA LeastGreatest ==
    ASSUME NEW a \in Int, NEW b \in Int
    PROVE  /\ Least(a, b) \in {a, b} /\ Least(a, b) <= a /\ Least(a, b) <= b
           /\ Greatest(a, b) \in {a, b} /\ Greatest(a, b) >= a /\ Greatest(a, b) >= b
    BY DEF Least, Greatest

\* Dropping fronts keeps the lists well typed, and drops no more than n.
LEMMA DropFrontsType ==
    ASSUME NEW l \in ListId, NEW self, NEW n \in Nat,
           lists \in [ListId -> ListRec], n <= Len(lists[l].items),
           DropFronts(l, self, n)
    PROVE  lists' \in [ListId -> ListRec]
<1>1. PICK lost \in {0, 1} :
         lists' = [lists EXCEPT ![l] = [items |-> SubSeq(@.items, n + 1, Len(@.items)),
                                        len   |-> @.len - n + lost]]
    BY DEF DropFronts
<1>2. lists[l].items \in Seq(Frame) /\ lists[l].len \in Int
    BY DEF ListRec
<1>3. SubSeq(lists[l].items, n + 1, Len(lists[l].items)) \in Seq(Frame)
    BY <1>2, SubSeqProperties
<1>4. QED
    BY <1>1, <1>2, <1>3 DEF ListRec

\* Losing the front of a list changes nothing but the clients' hold of it.
LEMMA UnlinkedType ==
    ASSUME NEW l, client \in [Client -> ClientRec]
    PROVE  /\ Unlinked(l) \in [Client -> ClientRec]
           /\ \A c \in Client : /\ Unlinked(l)[c].pc = client[c].pc
                                /\ Unlinked(l)[c].list = client[c].list
    BY DEF Unlinked, ClientRec

\* The states in which an operation starts or ends.
LEMMA FreshTypes ==
    ASSUME LiveAssumption
    PROVE  /\ NewGih \in GihRec /\ NewList \in ListRec
           /\ OffCacher \in CacherRec /\ IdleClient \in ClientRec
           /\ OffCacher.pc = "off" /\ IdleClient.pc = "idle"
<1>1. 0 \in Frame /\ 0 \in 0..MaxTime /\ 0 \in 0..(Tries - 1)
    BY DEF LiveAssumption, Frame
<1>2. <<>> \in Seq(Frame)
    OBVIOUS
<1>3. QED
    BY <1>1, <1>2 DEF NewGih, GihRec, NewList, ListRec, OffCacher, CacherRec,
                      IdleClient, ClientRec

\* A call that returns leaves an idle client.
LEMMA ReturnType ==
    ASSUME LiveAssumption, NEW c \in Client, NEW f \in Frame,
           client \in [Client -> ClientRec]
    PROVE  Return(c, f) \in ClientRec /\ Return(c, f).pc = "idle"
<1>1. client[c].sent \in Frame
    BY DEF ClientRec
<1>2. IdleClient \in ClientRec /\ IdleClient.pc = "idle"
    BY FreshTypes
<1>3. Return(c, f) = [IdleClient EXCEPT !.sent = IF f = 0 THEN client[c].sent ELSE f]
    BY DEF Return
<1>4. QED
    BY <1>1, <1>2, <1>3 DEF ClientRec

-----------------------------------------------------------------------------
(* The type invariant. *)

LEMMA TypeInit == LiveAssumption /\ Init => TypeInv
<1> SUFFICES ASSUME LiveAssumption, Init PROVE TypeInv
    OBVIOUS
<1>1. now \in 0..MaxTime /\ stream \in [last : Frame, oldest : Nat]
    BY DEF Init, LiveAssumption, Frame
<1>2. /\ gih \in GihRec /\ lists \in [ListId -> ListRec]
      /\ cacher \in [Cacher -> CacherRec] /\ client \in [Client -> ClientRec]
    BY FreshTypes DEF Init
<1>3. Held
    BY FreshTypes DEF Init, Held
<1>4. QED
    BY <1>1, <1>2, <1>3 DEF TypeInv, TypeOK

\* The steps of the environment.
LEMMA TypeEnvironment ==
    ASSUME LiveAssumption, TypeInv, Publish \/ Tick
    PROVE  TypeInv'
<1>1. CASE Publish
  <2>1. PICK o \in stream.oldest..Greatest(stream.oldest, stream.last + 2 - StreamLen) :
           stream' = [last |-> stream.last + 1, oldest |-> o]
    BY <1>1 DEF Publish
  <2>2. o \in Nat /\ stream.last + 1 \in Frame
    BY <1>1, <2>1 DEF Publish, TypeInv, TypeOK, Frame, LiveAssumption
  <2>3. QED
    BY <1>1, <2>1, <2>2 DEF Publish, TypeInv, TypeOK, Held
<1>2. CASE Tick
    BY <1>2 DEF Tick, TypeInv, TypeOK, Held, LiveAssumption
<1>3. QED
    BY <1>1, <1>2

\* The steps of VideoLatestImage.
LEMMA TypeClient ==
    ASSUME LiveAssumption, TypeInv, NEW c \in Client, Call(c) \/ Serve(c)
    PROVE  TypeInv'
<1> USE DEF TypeInv
<1>c. client[c] \in ClientRec /\ 0 \in Frame /\ 0 \in 0..MaxTime
    BY DEF TypeOK, Frame, LiveAssumption
<1>1. CASE Call(c)
    BY <1>1, <1>c DEF Call, TypeOK, Held, ClientRec
<1>2. CASE Touch(c)
  <2>1. gih' \in GihRec
    BY <1>2, <1>c DEF Touch, TypeOK, GihRec, ClientRec
  <2>2. client' \in [Client -> ClientRec]
    BY <1>2, <1>c DEF Touch, TypeOK, ClientRec
  <2>3. Held'
    BY <1>2, <1>c DEF Touch, TypeOK, Held, ClientRec
  <2>4. QED
    BY <1>2, <2>1, <2>2, <2>3 DEF Touch, TypeOK
<1>3. CASE TouchFails(c)
  <2>1. Return(c, 0) \in ClientRec /\ Return(c, 0).pc = "idle"
    BY <1>c, ReturnType DEF TypeOK
  <2>2. QED
    BY <1>3, <2>1 DEF TouchFails, TypeOK, Held
<1>4. CASE Lookup(c)
  <2>1. CASE gih.realtimeCache # NoList
    <3>1. gih.realtimeCache \in ListId
      BY <2>1 DEF TypeOK, GihRec
    <3>2. PICK pc \in {"spawn", "look"} :
             client' = [client EXCEPT ![c].list = gih.realtimeCache, ![c].pc = pc]
      BY <1>4, <2>1 DEF Lookup
    <3>3. client' \in [Client -> ClientRec]
      BY <1>c, <3>1, <3>2 DEF TypeOK, ClientRec
    <3>4. Held'
      BY <1>4, <1>c, <2>1, <3>1, <3>2 DEF Lookup, TypeOK, Held, ClientRec
    <3>5. QED
      BY <1>4, <2>1, <3>3, <3>4 DEF Lookup, TypeOK
  <2>2. CASE gih.realtimeCache = NoList
    <3>1. PICK l \in FreeLists :
             /\ client' = [client EXCEPT ![c].list = l, ![c].pc = "new"]
             /\ lists' = [lists EXCEPT ![l] = NewList]
      BY <1>4, <2>2 DEF Lookup
    <3>2. l \in ListId
      BY DEF FreeLists
    <3>3. lists' \in [ListId -> ListRec]
      BY <3>1, <3>2, FreshTypes DEF TypeOK
    <3>4. client' \in [Client -> ClientRec] /\ Held'
      BY <1>4, <1>c, <3>1, <3>2 DEF Lookup, TypeOK, Held, ClientRec
    <3>5. QED
      BY <1>4, <3>3, <3>4 DEF Lookup, TypeOK
  <2>3. QED
    BY <2>1, <2>2
<1>5. CASE StoreNew(c)
  <2>1. gih' \in GihRec
    BY <1>5, <1>c DEF StoreNew, TypeOK, GihRec, ClientRec
  <2>2. client' \in [Client -> ClientRec] /\ Held'
    BY <1>5, <1>c DEF StoreNew, TypeOK, Held, ClientRec
  <2>3. QED
    BY <1>5, <2>1, <2>2 DEF StoreNew, TypeOK
<1>6. CASE Spawn(c)
  <2>1. client' \in [Client -> ClientRec]
    BY <1>6, <1>c DEF Spawn, TypeOK, ClientRec
  <2>2. PICK k \in Cacher : cacher' = [cacher EXCEPT ![k].pc = "top"]
    BY <1>6 DEF Spawn
  <2>3. cacher' \in [Cacher -> CacherRec]
    BY <2>2 DEF TypeOK, CacherRec
  <2>4. Held'
    BY <1>6, <1>c, <2>2 DEF Spawn, TypeOK, Held, CacherRec, ClientRec
  <2>5. QED
    BY <1>6, <2>1, <2>3, <2>4 DEF Spawn, TypeOK
<1>7. CASE Look(c)
  <2> DEFINE l == lists[client[c].list]
  <2>1. client[c].list \in ListId /\ l \in ListRec
    BY <1>7 DEF Look, TypeOK, Held
  <2>2. /\ Return(c, 0) \in ClientRec /\ Return(c, 0).pc = "idle"
        /\ l.len \in Int /\ client[c].try \in Int /\ Tries \in Int
    BY <1>c, <2>1, ReturnType DEF TypeOK, ListRec, ClientRec, LiveAssumption
  <2>3. CASE l.len > 0 /\ l.items # <<>>
    <3>1. Head(l.items) \in Frame
      BY <2>1, <2>3 DEF ListRec
    <3>2. client' = [client EXCEPT ![c].pc = "take", ![c].front = Head(l.items),
                                   ![c].linked = TRUE]
      BY <1>7, <2>2, <2>3 DEF Look
    <3>3. QED
      BY <1>7, <1>c, <2>1, <3>1, <3>2 DEF Look, TypeOK, Held, ClientRec
  <2>4. CASE l.len <= 0 /\ client[c].try + 1 < Tries
    <3>1. client' = [client EXCEPT ![c].try = @ + 1, ![c].pc = "lookup"]
      BY <1>7, <2>2, <2>4 DEF Look
    <3>2. client[c].try + 1 \in 0..(Tries - 1)
      BY <1>c, <2>4 DEF ClientRec, LiveAssumption
    <3>3. QED
      BY <1>7, <1>c, <3>1, <3>2 DEF Look, TypeOK, Held, ClientRec
  <2>5. CASE l.len <= 0 /\ client[c].try + 1 >= Tries
    <3>1. client' = [client EXCEPT ![c] = Return(c, 0)]
      BY <1>7, <2>2, <2>5 DEF Look
    <3>2. QED
      BY <1>7, <2>2, <3>1 DEF Look, TypeOK, Held
  <2>6. QED
    BY <1>7, <2>3, <2>4, <2>5 DEF Look
<1>8. CASE Panic(c)
  <2>1. \A d \in Client : Return(d, 0) \in ClientRec /\ Return(d, 0).pc = "idle"
    BY <1>c, ReturnType DEF TypeOK
  <2>2. QED
    BY <1>8, <2>1, FreshTypes DEF Panic, TypeOK, Held
<1>9. CASE Take(c)
  <2> DEFINE l == client[c].list
             back == Return(c, client[c].front)
  <2>1. l \in ListId
    BY <1>9 DEF Take, Held
  <2>2. back \in ClientRec /\ back.pc = "idle"
    BY <1>c, ReturnType DEF TypeOK, ClientRec
  <2>3. CASE client[c].linked
    <3>1. DropFronts(l, c, 1) /\ client' = [Unlinked(l) EXCEPT ![c] = back]
      BY <1>9, <2>3 DEF Take
    <3>2. client' \in [Client -> ClientRec] /\ Held'
      BY <1>9, <2>2, <3>1, UnlinkedType DEF Take, TypeOK, Held
    <3>3. lists' \in [ListId -> ListRec]
      <4>1. CASE lists[l].items # <<>>
        <5>1. 1 <= Len(lists[l].items)
          BY <2>1, <4>1 DEF TypeOK, ListRec
        <5>2. QED
          BY <2>1, <3>1, <5>1, DropFrontsType DEF TypeOK
      <4>2. CASE lists[l].items = <<>>
        <5>1. PICK lost \in {0, 1} : lists' = [lists EXCEPT
                 ![l] = [items |-> SubSeq(@.items, 1 + 1, Len(@.items)),
                         len   |-> @.len - 1 + lost]]
          BY <3>1 DEF DropFronts
        <5>2. SubSeq(lists[l].items, 1 + 1, Len(lists[l].items)) \in Seq(Frame)
          BY <4>2
        <5>3. lists[l].len - 1 + lost \in Int
          BY <2>1 DEF TypeOK, ListRec
        <5>4. QED
          BY <2>1, <5>1, <5>2, <5>3 DEF TypeOK, ListRec
      <4>3. QED
        BY <4>1, <4>2
    <3>4. QED
      BY <1>9, <3>2, <3>3 DEF Take, TypeOK
  <2>4. CASE ~client[c].linked
    <3>1. PICK d \in {0, 1} : lists' = [lists EXCEPT ![l].len = @ - d]
      BY <1>9, <2>4 DEF Take
    <3>2. [lists[l] EXCEPT !.len = @ - d] \in ListRec
      <4>1. lists[l] \in [items : Seq(Frame), len : Int]
        BY <2>1 DEF TypeOK, ListRec
      <4>2. lists[l].len - d \in Int
        BY <4>1
      <4>3. QED
        BY <4>1, <4>2 DEF ListRec
    <3>3. lists' \in [ListId -> ListRec]
      BY <2>1, <3>1, <3>2 DEF TypeOK
    <3>4. client' \in [Client -> ClientRec] /\ Held'
      BY <1>9, <2>2, <2>4 DEF Take, TypeOK, Held
    <3>5. QED
      BY <1>9, <3>3, <3>4 DEF Take, TypeOK
  <2>5. QED
    BY <2>3, <2>4
<1>10. QED
    BY <1>1, <1>2, <1>3, <1>4, <1>5, <1>6, <1>7, <1>8, <1>9 DEF Serve

\* The steps of cacheLiveVideo.
LEMMA TypeCacher ==
    ASSUME LiveAssumption, TypeInv, NEW k \in Cacher, Run(k)
    PROVE  TypeInv'
<1> USE DEF TypeInv
<1>k. cacher[k] \in CacherRec /\ 0 \in Frame /\ 0 \in 0..MaxTime
    BY DEF TypeOK, Frame, LiveAssumption
<1>o. OffCacher \in CacherRec /\ OffCacher.pc = "off" /\ NewList \in ListRec
    BY FreshTypes
<1>1. CASE Top(k)
  <2>1. cacher' \in [Cacher -> CacherRec]
    BY <1>1, <1>k DEF Top, TypeOK, CacherRec, GihRec
  <2>2. Held'
    BY <1>1, <1>k DEF Top, TypeOK, Held, CacherRec
  <2>3. QED
    BY <1>1, <2>1, <2>2 DEF Top, TypeOK
<1>2. CASE Check(k)
  <2>1. PICK r \in {[OffCacher EXCEPT !.pc = "stale"], [cacher[k] EXCEPT !.pc = "read"]} :
           cacher' = [cacher EXCEPT ![k] = r]
    BY <1>2 DEF Check
  <2>2. r \in CacherRec /\ r.pc \in {"stale", "read"}
    BY <1>k, <1>o, <2>1 DEF CacherRec
  <2>3. QED
    BY <1>2, <2>1, <2>2 DEF Check, TypeOK, Held
<1>3. CASE LoadStale(k)
  <2>1. PICK r \in {OffCacher, [OffCacher EXCEPT !.pc = "clean", !.list = gih.realtimeCache]} :
           cacher' = [cacher EXCEPT ![k] = r]
    BY <1>3 DEF LoadStale
  <2>2. r \in CacherRec /\ r.pc \in {"off", "clean"}
    BY <1>k, <1>o, <2>1 DEF CacherRec, TypeOK, GihRec
  <2>3. QED
    BY <1>3, <2>1, <2>2 DEF LoadStale, TypeOK, Held
<1>4. CASE CleanList(k)
  <2> DEFINE l == cacher[k].list
             half == Greatest((lists[l].len - CacheLen + 1) \div 2, 0)
             n == Least(half, Len(lists[l].items))
  <2>1. cacher' \in [Cacher -> CacherRec]
    BY <1>4, <1>k DEF CleanList, TypeOK, CacherRec
  <2>2. gih' \in GihRec
    BY <1>4 DEF CleanList, TypeOK, GihRec
  <2>3. client' \in [Client -> ClientRec] /\ Held'
    BY <1>4, <1>k, <2>1, UnlinkedType DEF CleanList, TypeOK, Held, CacherRec
  <2>4. lists' \in [ListId -> ListRec]
    <3>1. CASE l \in ListId
      <4>1. lists[l].len \in Int /\ Len(lists[l].items) \in Nat
        BY <3>1 DEF TypeOK, ListRec
      <4>2. (lists[l].len - CacheLen + 1) \div 2 \in Int
        <5>1. lists[l].len - CacheLen + 1 \in Int
          BY <4>1 DEF LiveAssumption
        <5>2. QED
          BY <5>1, Halves
      <4>3. half \in Nat
        BY <4>2, LeastGreatest
      <4>4. n \in Nat /\ n <= Len(lists[l].items)
        <5> HIDE DEF half
        <5>1. n \in {half, Len(lists[l].items)} /\ n <= Len(lists[l].items)
          BY <4>1, <4>3, LeastGreatest
        <5>2. QED
          BY <4>1, <4>3, <5>1
      <4>5. DropFronts(l, k, n)
        BY <1>4 DEF CleanList
      <4>6. QED
        BY <3>1, <4>4, <4>5, DropFrontsType DEF TypeOK
    <3>2. CASE l \notin ListId
      BY <1>4, <3>2 DEF CleanList, DropFronts, TypeOK
    <3>3. QED
      BY <3>1, <3>2
  <2>5. QED
    BY <1>4, <2>1, <2>2, <2>3, <2>4 DEF CleanList, TypeOK
<1>5. CASE DeleteMap(k)
  <2>1. cacher' \in [Cacher -> CacherRec] /\ Held'
    BY <1>5, <1>k DEF DeleteMap, TypeOK, Held, CacherRec
  <2>2. gih' \in GihRec
    BY <1>5, <1>k DEF DeleteMap, TypeOK, GihRec
  <2>3. QED
    BY <1>5, <2>1, <2>2 DEF DeleteMap, TypeOK
<1>6. CASE DeleteQuery(k)
  <2>1. cacher' \in [Cacher -> CacherRec] /\ Held'
    BY <1>6, <1>k, <1>o DEF DeleteQuery, TypeOK, Held
  <2>2. gih' \in GihRec
    BY <1>6, <1>k DEF DeleteQuery, TypeOK, GihRec
  <2>3. QED
    BY <1>6, <2>1, <2>2 DEF DeleteQuery, TypeOK
<1>7. CASE XRead(k)
  <2> DEFINE from == Greatest(cacher[k].lastTs + 1, stream.oldest)
             n == Least(ReadCount, stream.last + 1 - from)
             batch == [i \in 1..n |-> from + i - 1]
  <2>1. n > 0 /\ cacher' = [cacher EXCEPT ![k].pc = "load", ![k].batch = batch]
    BY <1>7 DEF XRead
  <2>2. /\ cacher[k].lastTs + 1 \in Nat /\ stream.oldest \in Nat
        /\ stream.last \in Frame /\ ReadCount \in Nat /\ MaxFrame \in Nat
    BY <1>k DEF CacherRec, TypeOK, Frame, LiveAssumption
  <2>3. from \in Nat
    BY <2>2, LeastGreatest
  <2>4. n \in Nat \ {0} /\ n <= stream.last + 1 - from
    <3> HIDE DEF from
    <3>1. stream.last + 1 - from \in Int /\ ReadCount \in Int
      BY <2>2, <2>3 DEF Frame
    <3>2. n \in {ReadCount, stream.last + 1 - from} /\ n <= stream.last + 1 - from
      BY <3>1, LeastGreatest, Zenon
    <3>3. QED
      BY <2>1, <2>2, <3>1, <3>2
  <2>5. \A i \in 1..n : from + i - 1 \in Frame
    <3> HIDE DEF from, n
    <3>1. QED
      BY <2>2, <2>3, <2>4 DEF Frame
  <2>6. batch \in Seq(Frame) /\ batch # <<>>
    <3> HIDE DEF from, n
    <3>1. QED
      BY <2>4, <2>5
  <2>7. cacher' \in [Cacher -> CacherRec]
    <3> HIDE DEF batch
    <3>1. QED
      BY <1>k, <2>1, <2>6 DEF TypeOK, CacherRec
  <2>8. Held'
    <3> HIDE DEF batch
    <3>1. /\ cacher'[k].batch = batch
          /\ \A j \in Cacher \ {k} : cacher'[j] = cacher[j]
      BY <1>k, <2>1 DEF TypeOK, CacherRec
    <3>2. QED
      BY <1>7, <2>6, <3>1 DEF XRead, Held
  <2>9. QED
    BY <1>7, <2>7, <2>8 DEF XRead, TypeOK
<1>8. CASE XReadFails(k)
  <2>1. [OffCacher EXCEPT !.pc = "top"] \in CacherRec
    BY <1>o DEF CacherRec
  <2>2. QED
    BY <1>8, <1>o, <2>1 DEF XReadFails, TypeOK, Held, CacherRec
<1>9. CASE LoadList(k)
  <2>1. PICK l \in ListId \cup {gih.realtimeCache} :
           /\ cacher' = [cacher EXCEPT ![k].pc = "trim", ![k].list = l]
           /\ lists' = lists \/ lists' = [lists EXCEPT ![l] = NewList]
    BY <1>9 DEF LoadList, FreeLists
  <2>2. l \in ListId \cup {NoList}
    BY DEF TypeOK, GihRec
  <2>3. cacher' \in [Cacher -> CacherRec]
    BY <1>k, <2>1, <2>2 DEF TypeOK, CacherRec
  <2>4. Held'
    BY <1>9, <1>k, <2>1 DEF LoadList, TypeOK, Held, CacherRec
  <2>5. lists' \in [ListId -> ListRec]
    BY <1>o, <2>1 DEF TypeOK
  <2>6. QED
    BY <1>9, <2>3, <2>4, <2>5 DEF LoadList, TypeOK
<1>10. CASE Trim(k)
  <2> DEFINE l == cacher[k].list
  <2>1. CASE lists[l].items # <<>> /\ DropFronts(l, k, 1) /\ client' = Unlinked(l)
             /\ UNCHANGED cacher
    <3>1. client' \in [Client -> ClientRec] /\ Held'
      BY <2>1, UnlinkedType DEF TypeOK, Held
    <3>2. lists' \in [ListId -> ListRec]
      <4>1. CASE l \in ListId
        <5>1. 1 <= Len(lists[l].items)
          BY <2>1, <4>1 DEF TypeOK, ListRec
        <5>2. QED
          BY <2>1, <4>1, <5>1, DropFrontsType DEF TypeOK
      <4>2. CASE l \notin ListId
        BY <2>1, <4>2 DEF DropFronts, TypeOK
      <4>3. QED
        BY <4>1, <4>2
    <3>3. QED
      BY <1>10, <2>1, <3>1, <3>2 DEF Trim, TypeOK
  <2>2. CASE cacher' = [cacher EXCEPT ![k].pc = "push"] /\ UNCHANGED <<lists, client>>
    <3>1. cacher' \in [Cacher -> CacherRec]
      BY <1>k, <2>2 DEF TypeOK, CacherRec
    <3>2. Held'
      BY <1>10, <1>k, <2>2 DEF Trim, TypeOK, Held, CacherRec
    <3>3. QED
      BY <1>10, <2>2, <3>1, <3>2 DEF Trim, TypeOK
  <2>3. QED
    BY <1>10, <2>1, <2>2 DEF Trim
<1>11. CASE Push(k)
  <2> DEFINE l == cacher[k].list
             b == cacher[k].batch
  <2>1. b \in Seq(Frame) /\ b # <<>>
    BY <1>11, <1>k DEF Push, Held, CacherRec
  <2>2. Len(b) \in Nat /\ Remembered(b) \in Frame
    BY <2>1 DEF Remembered
  <2>3. gih' \in GihRec
    BY <1>11, <2>2 DEF Push, TypeOK, GihRec
  <2>4. cacher' \in [Cacher -> CacherRec] /\ Held'
    BY <1>11, <1>k DEF Push, TypeOK, Held, CacherRec
  <2>5. lists' \in [ListId -> ListRec]
    <3>1. PICK m \in {Len(b) - 1, Len(b)}, cut \in BOOLEAN :
             lists' = [lists EXCEPT ![l] =
                 [items |-> IF cut THEN @.items ELSE @.items \o b, len |-> @.len + m]]
      BY <1>11 DEF Push
    <3>2. CASE l \in ListId
      <4>1. lists[l].items \in Seq(Frame) /\ lists[l].len \in Int
        BY <3>2 DEF TypeOK, ListRec
      <4>2. lists[l].items \o b \in Seq(Frame) /\ lists[l].len + m \in Int
        BY <2>1, <2>2, <4>1
      <4>3. QED
        BY <3>1, <3>2, <4>1, <4>2 DEF TypeOK, ListRec
    <3>3. CASE l \notin ListId
      BY <3>1, <3>3 DEF TypeOK
    <3>4. QED
      BY <3>2, <3>3
  <2>6. QED
    BY <1>11, <2>3, <2>4, <2>5 DEF Push, TypeOK
<1>12. CASE StoreList(k)
  <2>1. [OffCacher EXCEPT !.pc = "top"] \in CacherRec
    BY <1>o DEF CacherRec
  <2>2. gih' \in GihRec
    BY <1>12, <1>k DEF StoreList, TypeOK, GihRec, CacherRec
  <2>3. QED
    BY <1>12, <1>o, <2>1, <2>2 DEF StoreList, TypeOK, Held, CacherRec
<1>13. QED
    BY <1>1, <1>2, <1>3, <1>4, <1>5, <1>6, <1>7, <1>8, <1>9, <1>10, <1>11, <1>12 DEF Run

LEMMA TypeStep == LiveAssumption /\ TypeInv /\ [Next]_vars => TypeInv'
<1> SUFFICES ASSUME LiveAssumption, TypeInv, [Next]_vars PROVE TypeInv'
    OBVIOUS
<1>1. CASE UNCHANGED vars
    BY <1>1 DEF TypeInv, TypeOK, Held, vars
<1>2. CASE Next
    BY <1>2, TypeEnvironment, TypeClient, TypeCacher DEF Next
<1>3. QED
    BY <1>1, <1>2

\* Every variable keeps its type: in particular no index ever leaves a list
\* or a batch, and nothing is looked up in a list that is absent.
THEOREM TypeCorrect == Spec => []TypeOK
<1>1. Init => TypeInv
    BY TypeInit, LiveAssumption
<1>2. TypeInv /\ [Next]_vars => TypeInv'
    BY TypeStep, LiveAssumption
<1>3. TypeInv => TypeOK
    BY DEF TypeInv
<1>4. QED
    BY <1>1, <1>2, <1>3, PTL DEF Spec

-----------------------------------------------------------------------------
(* A list in realtimeCache has a goroutine.  A goroutine ends only after it *)
(* has deleted the entry or seen it absent; an entry is stored either by a   *)
(* goroutine that goes on, or by a client that starts one next.              *)

LEMMA OrphanClient ==
    ASSUME TypeOK, NoOrphanCache, NEW c \in Client, Call(c) \/ Serve(c)
    PROVE  NoOrphanCache'
<1>1. CASE Call(c)
    BY <1>1 DEF Call, NoOrphanCache, Filling, TypeOK, ClientRec
<1>2. CASE Touch(c)
    BY <1>2 DEF Touch, NoOrphanCache, Filling, TypeOK, ClientRec, GihRec
<1>3. CASE TouchFails(c)
    BY <1>3 DEF TouchFails, NoOrphanCache, Filling, TypeOK
<1>4. CASE Lookup(c)
  <2>1. \A d \in Client : client[d].pc = "spawn" => client'[d].pc = "spawn"
    BY <1>4 DEF Lookup, TypeOK, ClientRec
  <2>2. QED
    BY <1>4, <2>1 DEF Lookup, NoOrphanCache, Filling
<1>5. CASE StoreNew(c)
  <2>1. client'[c].pc = "spawn"
    BY <1>5 DEF StoreNew, TypeOK, ClientRec
  <2>2. QED
    BY <2>1 DEF NoOrphanCache
<1>6. CASE Spawn(c)
  <2>1. PICK k \in Cacher : cacher' = [cacher EXCEPT ![k].pc = "top"]
    BY <1>6 DEF Spawn
  <2>2. cacher'[k].pc = "top"
    BY <2>1 DEF TypeOK, CacherRec
  <2>3. QED
    BY <2>2 DEF NoOrphanCache, Filling
<1>7. CASE Look(c)
  <2>1. \A d \in Client : client[d].pc = "spawn" => client'[d].pc = "spawn"
    BY <1>7 DEF Look, TypeOK
  <2>2. QED
    BY <1>7, <2>1 DEF Look, NoOrphanCache, Filling
<1>8. CASE Panic(c)
    BY <1>8 DEF Panic, NewGih, NoOrphanCache
<1>9. CASE Take(c)
  <2>1. \A d \in Client : client[d].pc = "spawn" => client'[d].pc = "spawn"
    BY <1>9, UnlinkedType DEF Take, TypeOK
  <2>2. QED
    BY <1>9, <2>1 DEF Take, NoOrphanCache, Filling
<1>10. QED
    BY <1>1, <1>2, <1>3, <1>4, <1>5, <1>6, <1>7, <1>8, <1>9 DEF Serve

LEMMA OrphanCacher ==
    ASSUME TypeOK, NoOrphanCache, NEW k \in Cacher, Run(k)
    PROVE  NoOrphanCache'
<1>1. CASE Top(k) \/ Check(k) \/ XRead(k) \/ XReadFails(k) \/ LoadList(k)
           \/ Trim(k) \/ Push(k) \/ StoreList(k)
  <2>1. CASE Top(k) \/ Check(k) \/ XReadFails(k) \/ StoreList(k)
    <3>1. cacher'[k].pc \in {"check", "stale", "read", "top"}
      BY <2>1 DEF Top, Check, XReadFails, StoreList, OffCacher, TypeOK, CacherRec
    <3>2. QED
      BY <3>1 DEF NoOrphanCache, Filling
  <2>2. CASE XRead(k) \/ LoadList(k) \/ Trim(k) \/ Push(k)
    <3>1. cacher'[k].pc \in {"load", "trim", "push", "store"}
      <4>1. CASE XRead(k)
        BY <4>1 DEF XRead, TypeOK, CacherRec
      <4>2. CASE LoadList(k)
        BY <4>2 DEF LoadList, TypeOK, CacherRec
      <4>3. CASE Trim(k)
        BY <4>3 DEF Trim, TypeOK, CacherRec
      <4>4. CASE Push(k)
        BY <4>4 DEF Push, TypeOK, CacherRec
      <4>5. QED
        BY <2>2, <4>1, <4>2, <4>3, <4>4
    <3>2. QED
      BY <3>1 DEF NoOrphanCache, Filling
  <2>3. QED
    BY <1>1, <2>1, <2>2
<1>2. CASE LoadStale(k)
  <2>1. CASE gih.realtimeCache = NoList
    BY <1>2, <2>1 DEF LoadStale, NoOrphanCache
  <2>2. CASE gih.realtimeCache # NoList
    <3>1. cacher'[k].pc = "clean"
      BY <1>2, <2>2 DEF LoadStale, OffCacher, TypeOK
    <3>2. QED
      BY <3>1 DEF NoOrphanCache, Filling
  <2>3. QED
    BY <2>1, <2>2
<1>3. CASE CleanList(k)
  <2>1. gih'.realtimeCache = NoList
    BY <1>3 DEF CleanList, TypeOK, GihRec
  <2>2. QED
    BY <2>1 DEF NoOrphanCache
<1>4. CASE DeleteMap(k) \/ DeleteQuery(k)
  <2>1. gih'.realtimeCache = gih.realtimeCache /\ client' = client
    BY <1>4 DEF DeleteMap, DeleteQuery, TypeOK, GihRec
  <2>2. \A j \in Cacher : Filling(j) => Filling(j)'
    BY <1>4 DEF DeleteMap, DeleteQuery, Filling, TypeOK
  <2>3. QED
    BY <2>1, <2>2 DEF NoOrphanCache
<1>5. QED
    BY <1>1, <1>2, <1>3, <1>4 DEF Run

\* A list that clients find in realtimeCache always has a goroutine that
\* fills it, or a client that is about to start one, whatever the clients,
\* the goroutines, redis and the races on the lists do.
THEOREM CacheIsFilled == Spec => []NoOrphanCache
<1>1. Init => NoOrphanCache
    BY DEF Init, NewGih, NoOrphanCache
<1>2. TypeOK /\ NoOrphanCache /\ [Next]_vars => NoOrphanCache'
  <2> SUFFICES ASSUME TypeOK, NoOrphanCache, [Next]_vars PROVE NoOrphanCache'
    OBVIOUS
  <2>1. CASE UNCHANGED vars \/ Publish \/ Tick
    BY <2>1 DEF vars, Publish, Tick, NoOrphanCache, Filling
  <2>2. CASE Next /\ ~Publish /\ ~Tick
    BY <2>2, OrphanClient, OrphanCacher DEF Next
  <2>3. QED
    BY <2>1, <2>2
<1>3. QED
    BY <1>1, <1>2, TypeCorrect, PTL DEF Spec

-----------------------------------------------------------------------------
(* The length of the lists.  A goroutine that has left the dropping loop adds *)
(* a batch later, when others may have added theirs: what counts is a list's  *)
(* length together with the batches that are about to be pushed to it.        *)

Bound == CacheLen - 1 + ReadCount * Cardinality(Cacher)

Pushing(l) == {k \in Cacher : cacher[k].pc = "push" /\ cacher[k].list = l}

Room == \A l \in ListId : lists[l].len + ReadCount * Cardinality(Pushing(l)) <= Bound

Batches == \A k \in Cacher : Len(cacher[k].batch) <= ReadCount

LenInv == TypeInv /\ Room /\ Batches

\* A list that no longer is, or has just been found short.
Short(l) == lists'[l].len <= CacheLen - 1

\* A list that has not grown, to which nobody begins to push.
Calm(l) == lists'[l].len <= lists[l].len /\ Pushing(l)' \subseteq Pushing(l)

LEMMA Times ==
    ASSUME NEW r \in Nat, NEW a \in Nat, NEW b \in Nat, a <= b
    PROVE  r * a \in Nat /\ r * b \in Nat /\ r * a <= r * b
<1>1. PICK d \in Nat : b = a + d
    BY b - a \in Nat
<1>2. r * b = r * a + r * d /\ r * a \in Nat /\ r * d \in Nat
    BY <1>1
<1>3. QED
    BY <1>2

LEMMA PushingType ==
    ASSUME LiveAssumption
    PROVE  \A l : /\ IsFiniteSet(Pushing(l)) /\ Cardinality(Pushing(l)) \in Nat
                  /\ Cardinality(Pushing(l)) <= Cardinality(Cacher)
<1>1. ASSUME NEW l
      PROVE  /\ IsFiniteSet(Pushing(l)) /\ Cardinality(Pushing(l)) \in Nat
             /\ Cardinality(Pushing(l)) <= Cardinality(Cacher)
  <2>1. Pushing(l) \subseteq Cacher /\ IsFiniteSet(Cacher)
    BY DEF Pushing, LiveAssumption
  <2>2. QED
    BY <2>1, FS_Subset, FS_CardinalityType
<1>2. QED
    BY <1>1

\* If every list is short or calm, all stay within the bound.
LEMMA RoomStep ==
    ASSUME LiveAssumption, TypeInv, TypeInv', Room,
           \A l \in ListId : Short(l) \/ Calm(l)
    PROVE  Room'
<1>1. /\ CacheLen \in Nat /\ ReadCount \in Nat /\ Cardinality(Cacher) \in Nat
      /\ Bound = CacheLen - 1 + ReadCount * Cardinality(Cacher)
    BY FS_CardinalityType DEF LiveAssumption, Bound
<1>2. ASSUME NEW l \in ListId
      PROVE  lists'[l].len + ReadCount * Cardinality(Pushing(l)') <= Bound
  <2> DEFINE P == Cardinality(Pushing(l))
  <2> DEFINE Q == Cardinality(Pushing(l)')
  <2>1. /\ IsFiniteSet(Pushing(l)) /\ P \in Nat
    BY PushingType
  <2>2. Q \in Nat /\ Q <= Cardinality(Cacher)
    <3>1. Pushing(l)' \subseteq Cacher /\ IsFiniteSet(Cacher)
      BY DEF Pushing, LiveAssumption
    <3>2. QED
      BY <3>1, FS_Subset, FS_CardinalityType
  <2>3. lists[l].len \in Int /\ lists'[l].len \in Int
    BY DEF TypeInv, TypeOK, ListRec
  <2>4. lists[l].len + ReadCount * P <= Bound
    BY DEF Room
  <2>5. CASE Short(l)
    <3>1. /\ ReadCount * Q <= ReadCount * Cardinality(Cacher)
          /\ ReadCount * Q \in Nat /\ ReadCount * Cardinality(Cacher) \in Nat
      BY <1>1, <2>2, Times
    <3> HIDE DEF Q
    <3>2. lists'[l].len + ReadCount * Q <= Bound
      BY <1>1, <2>3, <2>5, <3>1 DEF Short
    <3>3. QED
      BY <3>2 DEF Q
  <2>6. CASE Calm(l)
    <3>1. Q <= P
      BY <2>1, <2>6, FS_Subset DEF Calm
    <3>2. ReadCount * Q <= ReadCount * P /\ ReadCount * Q \in Nat /\ ReadCount * P \in Nat
      BY <1>1, <2>1, <2>2, <3>1, Times
    <3>3. /\ lists'[l].len <= lists[l].len /\ Bound \in Int
      <4>1. ReadCount * Cardinality(Cacher) \in Nat
        BY <1>1
      <4>2. QED
        BY <1>1, <2>6, <4>1 DEF Calm
    <3> HIDE DEF P, Q
    <3>4. lists'[l].len + ReadCount * Q <= Bound
      BY <2>3, <2>4, <3>2, <3>3
    <3>5. QED
      BY <3>4 DEF Q
  <2>7. QED
    BY <2>5, <2>6
<1>3. QED
    BY <1>2 DEF Room, Bound

\* A list that is as short as a new one.
LEMMA NewIsShort ==
    ASSUME LiveAssumption
    PROVE  NewList.len <= CacheLen - 1 /\ Len(<<>>) <= ReadCount
<1>1. CacheLen \in Nat \ {0} /\ ReadCount \in Nat /\ NewList.len = 0 /\ Len(<<>>) = 0
    BY DEF LiveAssumption, NewList
<1>2. QED
    BY <1>1

\* Dropping fronts lengthens no list, even when a decrement is lost.
LEMMA DropFrontsShrinks ==
    ASSUME NEW l \in ListId, NEW self, NEW n \in Nat,
           lists \in [ListId -> ListRec], DropFronts(l, self, n)
    PROVE  \A m \in ListId : lists'[m].len <= lists[m].len
<1>1. PICK lost \in (IF n > 0 /\ Contended(l, self) THEN {0, 1} ELSE {0}) :
         lists' = [lists EXCEPT ![l] = [items |-> SubSeq(@.items, n + 1, Len(@.items)),
                                        len   |-> @.len - n + lost]]
    BY DEF DropFronts
<1>2. lost \in {0, 1} /\ (lost = 1 => n > 0)
    BY <1>1
<1>3. lost <= n /\ lost \in Int
    BY <1>2
<1>4. \A m \in ListId : lists[m].len \in Int
    BY DEF ListRec
<1>5. ASSUME NEW m \in ListId PROVE lists'[m].len <= lists[m].len
  <2>1. CASE m = l
    <3>1. lists'[l].len = lists[l].len - n + lost
      BY <1>1
    <3>2. QED
      BY <1>3, <1>4, <2>1, <3>1
  <2>2. CASE m # l
    <3>1. lists'[m] = lists[m]
      BY <1>1, <2>2
    <3>2. QED
      BY <1>4, <3>1
  <2>3. QED
    BY <2>1, <2>2
<1>6. QED
    BY <1>5

\* Goroutines that do not begin to push, and whose batches stay small.
Settle ==
    /\ \A k \in Cacher : Len(cacher'[k].batch) <= ReadCount
    /\ \A k \in Cacher : cacher'[k].pc = "push"
          => cacher[k].pc = "push" /\ cacher'[k].list = cacher[k].list

LEMMA LenStep ==
    ASSUME LiveAssumption, LenInv, TypeInv', Settle,
           \A l \in ListId : Short(l) \/ lists'[l].len <= lists[l].len
    PROVE  LenInv'
<1>1. \A l : Pushing(l)' \subseteq Pushing(l)
    BY DEF Settle, Pushing
<1>2. \A l \in ListId : Short(l) \/ Calm(l)
    BY <1>1 DEF Calm
<1>3. Room'
    BY <1>2, RoomStep DEF LenInv
<1>4. Batches'
    BY DEF Batches, Settle
<1>5. QED
    BY <1>3, <1>4 DEF LenInv

\* One goroutine goes on, elsewhere than to push.
LEMMA CacherSettles ==
    ASSUME LenInv, NEW k \in Cacher, NEW s, cacher' = [cacher EXCEPT ![k] = s],
           s.pc # "push", Len(s.batch) <= ReadCount
    PROVE  Settle
<1>1. cacher'[k] = s /\ \A j \in Cacher \ {k} : cacher'[j] = cacher[j]
    BY DEF LenInv, TypeInv, TypeOK
<1>2. \A j \in Cacher : Len(cacher[j].batch) <= ReadCount
    BY DEF LenInv, Batches
<1>3. QED
    BY <1>1, <1>2 DEF Settle

LEMMA SameSettles == LenInv /\ UNCHANGED cacher => Settle
    BY DEF LenInv, Batches, Settle

ListsShrink == \A l \in ListId : lists'[l].len <= lists[l].len

LEMMA SameShrink == LenInv /\ UNCHANGED lists => ListsShrink
<1> SUFFICES ASSUME LenInv, UNCHANGED lists PROVE ListsShrink
    OBVIOUS
<1>1. \A l \in ListId : lists[l].len \in Int /\ lists'[l] = lists[l]
    BY DEF LenInv, TypeInv, TypeOK, ListRec
<1>2. QED
    BY <1>1 DEF ListsShrink

\* One list is made anew.
LEMMA NewShrinks ==
    ASSUME LiveAssumption, LenInv, NEW l \in ListId, lists' = [lists EXCEPT ![l] = NewList]
    PROVE  \A m \in ListId : Short(m) \/ lists'[m].len <= lists[m].len
<1>1. ASSUME NEW m \in ListId PROVE Short(m) \/ lists'[m].len <= lists[m].len
  <2>1. lists[m].len \in Int /\ lists \in [ListId -> ListRec]
    BY DEF LenInv, TypeInv, TypeOK, ListRec
  <2>2. CASE m = l
    BY <2>1, <2>2, NewIsShort DEF Short
  <2>3. CASE m # l
    BY <2>1, <2>3
  <2>4. QED
    BY <2>2, <2>3
<1>2. QED
    BY <1>1

LEMMA LenClient ==
    ASSUME LiveAssumption, LenInv, TypeInv', NEW c \in Client, Call(c) \/ Serve(c)
    PROVE  LenInv'
<1>t. lists \in [ListId -> ListRec] /\ cacher \in [Cacher -> CacherRec]
    BY DEF LenInv, TypeInv, TypeOK
<1>1. CASE Call(c) \/ Touch(c) \/ TouchFails(c) \/ StoreNew(c) \/ Look(c)
  <2>1. UNCHANGED cacher /\ UNCHANGED lists
    BY <1>1 DEF Call, Touch, TouchFails, StoreNew, Look
  <2>2. QED
    BY <2>1, SameSettles, SameShrink, LenStep DEF ListsShrink
<1>2. CASE Lookup(c)
  <2>1. UNCHANGED cacher
    BY <1>2 DEF Lookup
  <2>2. UNCHANGED lists \/ \E l \in ListId : lists' = [lists EXCEPT ![l] = NewList]
    BY <1>2 DEF Lookup, FreeLists
  <2>3. \A m \in ListId : Short(m) \/ lists'[m].len <= lists[m].len
    BY <2>2, SameShrink, NewShrinks DEF ListsShrink
  <2>4. QED
    BY <2>1, <2>3, SameSettles, LenStep
<1>3. CASE Spawn(c)
  <2>1. PICK k \in Cacher : cacher' = [cacher EXCEPT ![k].pc = "top"]
    BY <1>3 DEF Spawn
  <2>2. PICK s : s = [cacher[k] EXCEPT !.pc = "top"]
    OBVIOUS
  <2>3. s.pc = "top" /\ s.batch = cacher[k].batch
    BY <1>t, <2>2 DEF CacherRec
  <2>4. cacher' = [cacher EXCEPT ![k] = s]
    BY <2>1, <2>2
  <2>5. Len(s.batch) <= ReadCount
    BY <2>3 DEF LenInv, Batches
  <2>6. Settle
    BY <2>3, <2>4, <2>5, CacherSettles
  <2>7. UNCHANGED lists
    BY <1>3 DEF Spawn
  <2>8. QED
    BY <2>6, <2>7, SameShrink, LenStep DEF ListsShrink
<1>4. CASE Panic(c)
  <2>1. /\ cacher' = [k \in Cacher |-> OffCacher]
        /\ lists' = [l \in ListId |-> NewList]
    BY <1>4 DEF Panic
  <2>2. Settle
    <3>1. OffCacher.pc = "off" /\ OffCacher.batch = <<>> /\ Len(<<>>) <= ReadCount
      BY NewIsShort DEF OffCacher
    <3>2. QED
      BY <2>1, <3>1 DEF Settle
  <2>3. \A m \in ListId : Short(m)
    BY <2>1, NewIsShort DEF Short
  <2>4. QED
    BY <2>2, <2>3, LenStep
<1>5. CASE Take(c)
  <2>1. UNCHANGED cacher
    BY <1>5 DEF Take
  <2>2. PICK l \in ListId : l = client[c].list
    BY <1>5 DEF Take, LenInv, TypeInv, Held
  <2>3. ListsShrink
    <3>1. CASE client[c].linked
      <4>1. DropFronts(l, c, 1)
        BY <1>5, <2>2, <3>1 DEF Take
      <4>2. QED
        BY <1>t, <4>1, DropFrontsShrinks DEF ListsShrink
    <3>2. CASE ~client[c].linked
      <4>1. PICK d \in {0, 1} : lists' = [lists EXCEPT ![l].len = @ - d]
        BY <1>5, <2>2, <3>2 DEF Take
      <4>2. ASSUME NEW m \in ListId PROVE lists'[m].len <= lists[m].len
        <5>1. lists[m] \in ListRec /\ lists[m].len \in Int
          BY <1>t DEF ListRec
        <5>2. CASE m = l
          <6>1. lists'[l].len = lists[l].len - d
            BY <1>t, <4>1, <5>1, <5>2 DEF ListRec
          <6>2. QED
            BY <4>1, <5>1, <5>2, <6>1
        <5>3. CASE m # l
          <6>1. lists'[m] = lists[m]
            BY <1>t, <4>1, <5>3
          <6>2. QED
            BY <5>1, <6>1
        <5>4. QED
          BY <5>2, <5>3
      <4>3. QED
        BY <4>2 DEF ListsShrink
    <3>3. QED
      BY <3>1, <3>2
  <2>4. QED
    BY <2>1, <2>3, SameSettles, LenStep DEF ListsShrink
<1>6. QED
    BY <1>1, <1>2, <1>3, <1>4, <1>5 DEF Serve

\* A goroutine that leaves the dropping loop has found its list short.
LEMMA LenTrim ==
    ASSUME LiveAssumption, LenInv, TypeInv', NEW k \in Cacher, Trim(k)
    PROVE  LenInv'
<1>t. lists \in [ListId -> ListRec] /\ cacher \in [Cacher -> CacherRec]
    BY DEF LenInv, TypeInv, TypeOK
<1> DEFINE l == cacher[k].list
<1>1. CASE Full(l) /\ lists[l].items # <<>> /\ DropFronts(l, k, 1) /\ UNCHANGED cacher
  <2>1. ListsShrink
    <3>1. CASE l \in ListId
      BY <1>1, <1>t, <3>1, DropFrontsShrinks DEF ListsShrink
    <3>2. CASE l \notin ListId
      <4>1. lists' = lists
        BY <1>1, <1>t, <3>2 DEF DropFronts
      <4>2. QED
        BY <4>1, SameShrink
    <3>3. QED
      BY <3>1, <3>2
  <2>2. QED
    BY <1>1, <2>1, SameSettles, LenStep DEF ListsShrink
<1>2. CASE ~Full(l) /\ cacher' = [cacher EXCEPT ![k].pc = "push"] /\ UNCHANGED lists
  <2>1. \A j \in Cacher : cacher'[j].batch = cacher[j].batch /\ cacher'[j].list = cacher[j].list
    BY <1>2, <1>t DEF CacherRec
  <2>2. \A j \in Cacher \ {k} : cacher'[j].pc = cacher[j].pc
    BY <1>2, <1>t
  <2>3. Batches'
    BY <2>1 DEF LenInv, Batches
  <2>4. ASSUME NEW m \in ListId PROVE Short(m) \/ Calm(m)
    <3>1. lists[m].len \in Int /\ lists'[m] = lists[m] /\ CacheLen \in Nat
      BY <1>2, <1>t DEF ListRec, LiveAssumption
    <3>2. CASE m = l
      <4>1. ~(lists[m].len >= CacheLen)
        BY <1>2, <3>2 DEF Full
      <4>2. QED
        BY <3>1, <4>1 DEF Short
    <3>3. CASE m # l
      <4>1. Pushing(m)' \subseteq Pushing(m)
        BY <2>1, <2>2, <3>3 DEF Pushing
      <4>2. QED
        BY <3>1, <4>1 DEF Calm
    <3>4. QED
      BY <3>2, <3>3
  <2>5. Room'
    BY <2>4, RoomStep DEF LenInv
  <2>6. QED
    BY <2>3, <2>5 DEF LenInv
<1>3. QED
    BY <1>1, <1>2 DEF Trim

\* A goroutine that pushes uses the room that was kept for it.
LEMMA LenPush ==
    ASSUME LiveAssumption, LenInv, TypeInv', NEW k \in Cacher, Push(k)
    PROVE  LenInv'
<1>t. lists \in [ListId -> ListRec] /\ cacher \in [Cacher -> CacherRec]
    BY DEF LenInv, TypeInv, TypeOK
<1>1. cacher[k].pc = "push" /\ cacher' = [cacher EXCEPT ![k].pc = "store"]
    BY DEF Push
<1>2. \A j \in Cacher : cacher'[j].batch = cacher[j].batch /\ cacher'[j].list = cacher[j].list
    BY <1>1, <1>t DEF CacherRec
<1>3. cacher'[k].pc = "store" /\ \A j \in Cacher \ {k} : cacher'[j].pc = cacher[j].pc
    BY <1>1, <1>t DEF CacherRec
<1>4. Batches'
    BY <1>2 DEF LenInv, Batches
<1>5. PICK n \in Nat : n = Len(cacher[k].batch) /\ n <= ReadCount
  <2>1. cacher[k].batch \in Seq(Frame)
    BY <1>t DEF CacherRec
  <2>2. QED
    BY <2>1, LenProperties DEF LenInv, Batches
<1> DEFINE l == cacher[k].list
<1>6. PICK more \in {n - 1, n} :
        \E items : lists' = [lists EXCEPT ![l] = [items |-> items, len |-> @.len + more]]
  <2>1. PICK more \in {n - 1, n}, cut \in BOOLEAN :
          lists' = [lists EXCEPT ![l] =
              [items |-> IF cut THEN @.items ELSE @.items \o cacher[k].batch,
               len   |-> @.len + more]]
    BY <1>5 DEF Push
  <2>2. QED
    BY <2>1
<1>7. ReadCount \in Nat /\ Bound \in Int
  <2>1. /\ CacheLen \in Nat /\ ReadCount \in Nat /\ Cardinality(Cacher) \in Nat
    BY FS_CardinalityType DEF LiveAssumption
  <2>2. ReadCount * Cardinality(Cacher) \in Nat
    BY <2>1
  <2>3. QED
    BY <2>1, <2>2 DEF Bound
<1>8. ASSUME NEW m \in ListId
      PROVE  lists'[m].len + ReadCount * Cardinality(Pushing(m)') <= Bound
  <2> DEFINE P == Cardinality(Pushing(m))
  <2> DEFINE Q == Cardinality(Pushing(m)')
  <2>1. lists[m].len \in Int /\ lists'[m].len \in Int
    BY <1>t DEF TypeInv, TypeOK, ListRec
  <2>2. IsFiniteSet(Pushing(m)) /\ P \in Nat /\ lists[m].len + ReadCount * P <= Bound
    BY PushingType DEF LenInv, Room
  <2>3. CASE m # l
    <3>1. Pushing(m)' = Pushing(m) /\ lists'[m] = lists[m]
      BY <1>2, <1>3, <1>6, <1>t, <2>3 DEF Pushing
    <3>2. QED
      BY <2>2, <3>1
  <2>4. CASE m = l
    <3>1. Pushing(m)' = Pushing(m) \ {k} /\ k \in Pushing(m)
      BY <1>1, <1>2, <1>3, <2>4 DEF Pushing
    <3>2. Q = P - 1 /\ Q \in Nat
      <4>1. Q = P - 1
        BY <2>2, <3>1, FS_RemoveElement
      <4>2. P # 0
        BY <2>2, <3>1, FS_EmptySet
      <4>3. QED
        BY <2>2, <4>1, <4>2
    <3>3. lists'[m].len = lists[m].len + more
      BY <1>6, <1>t, <2>4
    <3> HIDE DEF P, Q, l
    <3>4. ReadCount * P = ReadCount * Q + ReadCount
      <4>1. P = Q + 1
        BY <2>2, <3>2
      <4>2. QED
        BY <1>7, <3>2, <4>1
    <3>5. ReadCount * P \in Nat /\ ReadCount * Q \in Nat
      BY <1>7, <2>2, <3>2
    <3>6. more \in Int /\ more <= ReadCount
      BY <1>5, <1>6, <1>7
    <3>7. lists'[m].len + ReadCount * Q <= Bound
      BY <1>7, <2>1, <2>2, <3>3, <3>4, <3>5, <3>6
    <3>8. QED
      BY <3>7 DEF Q
  <2>5. QED
    BY <2>3, <2>4
<1>9. Room'
    BY <1>8 DEF Room, Bound
<1>10. QED
    BY <1>4, <1>9 DEF LenInv

LEMMA LenCacher ==
    ASSUME LiveAssumption, LenInv, TypeInv', NEW k \in Cacher, Run(k)
    PROVE  LenInv'
<1>t. lists \in [ListId -> ListRec] /\ cacher \in [Cacher -> CacherRec]
    BY DEF LenInv, TypeInv, TypeOK
<1>b. Len(cacher[k].batch) <= ReadCount /\ Len(<<>>) <= ReadCount
    BY NewIsShort DEF LenInv, Batches
<1>o. OffCacher.pc = "off" /\ OffCacher.batch = <<>>
    BY DEF OffCacher
<1>1. CASE Top(k) \/ Check(k) \/ LoadStale(k) \/ DeleteMap(k) \/ DeleteQuery(k)
           \/ XReadFails(k) \/ StoreList(k)
  <2>1. UNCHANGED lists
    BY <1>1 DEF Top, Check, LoadStale, DeleteMap, DeleteQuery, XReadFails, StoreList
  <2>2. \E s : /\ cacher' = [cacher EXCEPT ![k] = s]
               /\ s.pc # "push" /\ (s.batch = cacher[k].batch \/ s.batch = <<>>)
    <3>1. CASE Top(k)
      <4>1. PICK s : s = [cacher[k] EXCEPT !.pc = "check", !.lastTs = gih.deviceMap]
        OBVIOUS
      <4>2. s.pc = "check" /\ s.batch = cacher[k].batch
        BY <1>t, <4>1 DEF CacherRec
      <4>3. cacher' = [cacher EXCEPT ![k] = s]
        BY <3>1, <4>1 DEF Top
      <4>4. QED
        BY <4>2, <4>3
    <3>2. CASE Check(k)
      <4>1. CASE Idle(k)
        <5>1. PICK s : s = [OffCacher EXCEPT !.pc = "stale"]
          OBVIOUS
        <5>2. s.pc = "stale" /\ s.batch = <<>>
          BY <5>1 DEF OffCacher
        <5>3. cacher' = [cacher EXCEPT ![k] = s]
          BY <3>2, <4>1, <5>1 DEF Check
        <5>4. QED
          BY <5>2, <5>3
      <4>2. CASE ~Idle(k)
        <5>1. PICK s : s = [cacher[k] EXCEPT !.pc = "read"]
          OBVIOUS
        <5>2. s.pc = "read" /\ s.batch = cacher[k].batch
          BY <1>t, <5>1 DEF CacherRec
        <5>3. cacher' = [cacher EXCEPT ![k] = s]
          BY <3>2, <4>2, <5>1 DEF Check
        <5>4. QED
          BY <5>2, <5>3
      <4>3. QED
        BY <4>1, <4>2
    <3>3. CASE LoadStale(k)
      <4>1. CASE gih.realtimeCache = NoList
        <5>1. cacher' = [cacher EXCEPT ![k] = OffCacher]
          BY <3>3, <4>1 DEF LoadStale
        <5>2. QED
          BY <1>o, <5>1
      <4>2. CASE gih.realtimeCache # NoList
        <5>1. PICK s : s = [OffCacher EXCEPT !.pc = "clean", !.list = gih.realtimeCache]
          OBVIOUS
        <5>2. s.pc = "clean" /\ s.batch = <<>>
          BY <5>1 DEF OffCacher
        <5>3. cacher' = [cacher EXCEPT ![k] = s]
          BY <3>3, <4>2, <5>1 DEF LoadStale
        <5>4. QED
          BY <5>2, <5>3
      <4>3. QED
        BY <4>1, <4>2
    <3>4. CASE DeleteMap(k)
      <4>1. PICK s : s = [cacher[k] EXCEPT !.pc = "delQuery"]
        OBVIOUS
      <4>2. s.pc = "delQuery" /\ s.batch = cacher[k].batch
        BY <1>t, <4>1 DEF CacherRec
      <4>3. cacher' = [cacher EXCEPT ![k] = s]
        BY <3>4, <4>1 DEF DeleteMap
      <4>4. QED
        BY <4>2, <4>3
    <3>5. CASE DeleteQuery(k)
      <4>1. cacher' = [cacher EXCEPT ![k] = OffCacher]
        BY <3>5 DEF DeleteQuery
      <4>2. QED
        BY <1>o, <4>1
    <3>6. CASE XReadFails(k) \/ StoreList(k)
      <4>1. PICK s : s = [OffCacher EXCEPT !.pc = "top"]
        OBVIOUS
      <4>2. s.pc = "top" /\ s.batch = <<>>
        BY <4>1 DEF OffCacher
      <4>3. cacher' = [cacher EXCEPT ![k] = s]
        BY <3>6, <4>1 DEF XReadFails, StoreList
      <4>4. QED
        BY <4>2, <4>3
    <3>7. QED
      BY <1>1, <3>1, <3>2, <3>3, <3>4, <3>5, <3>6
  <2>3. Settle
    BY <1>b, <2>2, CacherSettles
  <2>4. QED
    BY <2>1, <2>3, SameShrink, LenStep DEF ListsShrink
<1>2. CASE CleanList(k)
  <2> DEFINE l == cacher[k].list
             n == Least(Greatest((lists[l].len - CacheLen + 1) \div 2, 0), Len(lists[l].items))
  <2>1. /\ DropFronts(l, k, n)
        /\ cacher' = [cacher EXCEPT ![k].pc = "delMap", ![k].list = NoList]
    BY <1>2 DEF CleanList
  <2>2. Settle
    <3>1. PICK s : s = [cacher[k] EXCEPT !.pc = "delMap", !.list = NoList]
      OBVIOUS
    <3>2. s.pc = "delMap" /\ s.batch = cacher[k].batch
      BY <1>t, <3>1 DEF CacherRec
    <3>3. cacher' = [cacher EXCEPT ![k] = s]
      BY <2>1, <3>1
    <3>4. QED
      BY <1>b, <3>2, <3>3, CacherSettles
  <2>3. ListsShrink
    <3>1. CASE l \in ListId
      <4>1. lists[l].items \in Seq(Frame) /\ lists[l].len \in Int /\ CacheLen \in Int
        BY <1>t, <3>1 DEF ListRec, LiveAssumption
      <4>2. n \in Nat
        <5> DEFINE over == lists[l].len - CacheLen + 1
        <5>0. over \in Int
          BY <4>1
        <5> HIDE DEF over
        <5>1. over \div 2 \in Int
          BY <5>0, Halves
        <5> USE DEF over
        <5>2. Greatest((lists[l].len - CacheLen + 1) \div 2, 0) \in Nat
          BY <5>1 DEF Greatest
        <5>3. Len(lists[l].items) \in Nat
          BY <4>1, LenProperties
        <5>4. QED
          BY <5>2, <5>3 DEF Least
      <4> HIDE DEF n
      <4>3. QED
        BY <1>t, <2>1, <3>1, <4>2, DropFrontsShrinks DEF ListsShrink
    <3>2. CASE l \notin ListId
      <4>1. lists' = lists
        BY <2>1, <1>t, <3>2 DEF DropFronts
      <4>2. QED
        BY <4>1, SameShrink
    <3>3. QED
      BY <3>1, <3>2
  <2>4. QED
    BY <2>2, <2>3, LenStep DEF ListsShrink
<1>3. CASE XRead(k)
  <2> DEFINE from == Greatest(cacher[k].lastTs + 1, stream.oldest)
             n == Least(ReadCount, stream.last + 1 - from)
             batch == [i \in 1..n |-> from + i - 1]
  <2>1. /\ n > 0 /\ UNCHANGED lists
        /\ cacher' = [cacher EXCEPT ![k].pc = "load", ![k].batch = batch]
    BY <1>3 DEF XRead
  <2>2. n \in Nat /\ n <= ReadCount
    <3>1. /\ cacher[k].lastTs + 1 \in Int /\ stream.oldest \in Int
          /\ stream.last \in Int /\ ReadCount \in Int
      BY <1>t DEF CacherRec, LenInv, TypeInv, TypeOK, Frame, LiveAssumption
    <3>2. from \in Int
      BY <3>1 DEF Greatest
    <3> HIDE DEF from
    <3>3. stream.last + 1 - from \in Int
      BY <3>1, <3>2
    <3>4. n \in Int /\ n <= ReadCount
      BY <3>1, <3>3 DEF Least
    <3>5. QED
      BY <2>1, <3>4
  <2> HIDE DEF n
  <2>3. Len(batch) = n
    <3> DEFINE S == {from + i - 1 : i \in 1..n}
    <3>1. batch \in [1..n -> S]
      OBVIOUS
    <3> HIDE DEF batch, S
    <3>2. batch \in Seq(S) /\ Len(batch) = n
      BY <2>2, <3>1
    <3>3. QED
      BY <3>2
  <2> HIDE DEF batch
  <2>4. PICK s : s = [cacher[k] EXCEPT !.pc = "load", !.batch = batch]
    OBVIOUS
  <2>5. s.pc = "load" /\ s.batch = batch
    BY <1>t, <2>4 DEF CacherRec
  <2>6. cacher' = [cacher EXCEPT ![k] = s]
    BY <2>1, <2>4
  <2>7. Len(s.batch) <= ReadCount
    BY <2>2, <2>3, <2>5
  <2>8. Settle
    BY <2>5, <2>6, <2>7, CacherSettles
  <2>9. QED
    BY <2>1, <2>8, SameShrink, LenStep DEF ListsShrink
<1>4. CASE LoadList(k)
  <2>1. PICK l : /\ cacher' = [cacher EXCEPT ![k].pc = "trim", ![k].list = l]
                 /\ lists' = lists \/ (l \in ListId /\ lists' = [lists EXCEPT ![l] = NewList])
    BY <1>4 DEF LoadList, FreeLists
  <2>2. PICK s : s = [cacher[k] EXCEPT !.pc = "trim", !.list = l]
    OBVIOUS
  <2>3. s.pc = "trim" /\ s.batch = cacher[k].batch
    BY <1>t, <2>2 DEF CacherRec
  <2>4. cacher' = [cacher EXCEPT ![k] = s]
    BY <2>1, <2>2
  <2>5. Settle
    BY <1>b, <2>3, <2>4, CacherSettles
  <2>6. \A m \in ListId : Short(m) \/ lists'[m].len <= lists[m].len
    BY <2>1, SameShrink, NewShrinks DEF ListsShrink
  <2>7. QED
    BY <2>5, <2>6, LenStep
<1>5. QED
    BY <1>1, <1>2, <1>3, <1>4, LenTrim, LenPush DEF Run

LEMMA LenInit == LiveAssumption /\ Init => LenInv
<1> SUFFICES ASSUME LiveAssumption, Init PROVE LenInv
    OBVIOUS
<1>1. /\ CacheLen \in Nat \ {0} /\ ReadCount \in Nat /\ Cardinality(Cacher) \in Nat
    BY FS_CardinalityType DEF LiveAssumption
<1>2. ReadCount * Cardinality(Cacher) \in Nat /\ ReadCount * 0 = 0
    BY <1>1
<1>3. ASSUME NEW l \in ListId PROVE lists[l].len + ReadCount * Cardinality(Pushing(l)) <= Bound
  <2>1. lists[l].len = 0
    BY DEF Init, NewList
  <2>2. Pushing(l) = {}
    BY DEF Init, OffCacher, Pushing
  <2>3. Cardinality(Pushing(l)) = 0
    BY <2>2, FS_EmptySet
  <2>4. QED
    BY <1>1, <1>2, <2>1, <2>3 DEF Bound
<1>4. Batches
    BY NewIsShort DEF Init, OffCacher, Batches
<1>5. QED
    BY <1>3, <1>4, TypeInit DEF LenInv, Room

\* However many goroutines copy a stream into one list and whatever is lost
\* when they race, its length stays within one batch of each above what the
\* dropping loop leaves.
THEOREM LengthIsBounded == Spec => []LenBounded
<1>1. LenInv /\ [Next]_vars => LenInv'
  <2> SUFFICES ASSUME LenInv, [Next]_vars PROVE LenInv'
    OBVIOUS
  <2>1. TypeInv'
    BY TypeStep, LiveAssumption DEF LenInv
  <2>2. CASE UNCHANGED vars \/ Publish \/ Tick
    <3>1. UNCHANGED cacher /\ UNCHANGED lists
      BY <2>2 DEF vars, Publish, Tick
    <3>2. QED
      BY <2>1, <3>1, LiveAssumption, SameSettles, SameShrink, LenStep DEF ListsShrink
  <2>3. CASE Next /\ ~Publish /\ ~Tick
    BY <2>1, <2>3, LiveAssumption, LenClient, LenCacher DEF Next
  <2>4. QED
    BY <2>2, <2>3
<1>2. LenInv => LenBounded
  <2> SUFFICES ASSUME LenInv, NEW l \in ListId PROVE lists[l].len <= Bound
    BY DEF LenBounded, Bound
  <2>1. /\ CacheLen \in Nat /\ ReadCount \in Nat /\ Cardinality(Cacher) \in Nat
        /\ Cardinality(Pushing(l)) \in Nat
    BY LiveAssumption, PushingType, FS_CardinalityType DEF LiveAssumption
  <2>2. ReadCount * Cardinality(Cacher) \in Nat /\ ReadCount * Cardinality(Pushing(l)) \in Nat
    BY <2>1
  <2>3. lists[l].len \in Int /\ lists[l].len + ReadCount * Cardinality(Pushing(l)) <= Bound
    BY DEF LenInv, TypeInv, TypeOK, ListRec, Room
  <2>4. QED
    BY <2>1, <2>2, <2>3 DEF Bound
<1>3. Init => LenInv
    BY LenInit, LiveAssumption
<1>4. QED
    BY <1>1, <1>2, <1>3, PTL DEF Spec

-----------------------------------------------------------------------------
(* The order of frames.                                                    *)

\* One goroutine copies the stream, and does not clean the memory.
CopiedByOne ==
    /\ \A k \in Cacher : cacher[k].pc # "clean"
    /\ \A j, k \in Cacher : cacher[j].pc # "off" /\ cacher[k].pc # "off" => j = k

Dies == \E c \in Client : Panic(c)

Rising(s)   == \A i, j \in 1..Len(s) : i < j => s[i] < s[j]
Above(S, f) == \A x \in S : x > f
UpTo(S, f)  == \A x \in S : x <= f

Shown(l) == {lists[l].items[i] : i \in 1..Len(lists[l].items)}
BatchOf(k) == {cacher[k].batch[i] : i \in 1..Len(cacher[k].batch)}

\* The list a goroutine adds to, and the one that calls find.
Fills(k, l) == cacher[k].pc \in {"trim", "push", "store"} /\ cacher[k].list = l
Live == {l \in ListId : l = gih.realtimeCache \/ \E k \in Cacher : Fills(k, l)}

Sorted == \A l \in ListId : Rising(lists[l].items) /\ UpTo(Shown(l), gih.deviceMap)

Remembers(k) ==
    /\ cacher[k].pc \notin {"delMap", "delQuery"}
    /\ cacher[k].pc \in {"check", "read"} => cacher[k].lastTs = gih.deviceMap
    /\ cacher[k].pc \in {"trim", "push", "store"} => cacher[k].list \in ListId
    /\ cacher[k].pc \in {"load", "trim", "push"} =>
         /\ Rising(cacher[k].batch)
         /\ Above(BatchOf(k), gih.deviceMap) /\ UpTo(BatchOf(k), stream.last)

\* A list that has replaced the one being filled is not filled itself.
FillsOne(k) == \A l, m \in ListId :
    Fills(k, l) /\ gih.realtimeCache = m /\ m # l => Shown(m) = {}

\* Nobody knows a list before it is stored.
Unknown(c) == \A l \in ListId : client[c].pc = "new" /\ client[c].list = l =>
    /\ Shown(l) = {} /\ l \notin Live
    /\ \A d \in Client \ {c} : client[d].list # l

\* Whatever a client may be sent is newer than what it was sent, and what it
\* may be sent from the list it holds is older than what is elsewhere.
Ahead(c) ==
    /\ client[c].sent <= gih.deviceMap
    /\ \A l \in Live : Above(Shown(l), client[c].sent)
    /\ \A l \in ListId : client[c].list = l =>
         /\ Above(Shown(l), client[c].sent)
         /\ \A m \in Live \ {l}, x \in Shown(l) : Above(Shown(m), x)

\* The same of the frame a client is about to be sent.
Taken(c) == \A l \in ListId : client[c].pc = "take" /\ client[c].list = l =>
    /\ client[c].front > client[c].sent /\ client[c].front <= gih.deviceMap
    /\ \A m \in Live \ {l} : Above(Shown(m), client[c].front)
    /\ IF client[c].linked
       THEN lists[l].items # <<>> /\ client[c].front = Head(lists[l].items)
       ELSE Above(Shown(l), client[c].front)

OrderInv ==
    /\ TypeInv /\ Sorted /\ gih.deviceMap <= stream.last
    /\ \A k \in Cacher : Remembers(k) /\ FillsOne(k)
    /\ \A c \in Client : Unknown(c) /\ Ahead(c) /\ Taken(c)

\* What a step leaves of a list, and which lists it may bring to calls: empty
\* ones only.
Less ==
    /\ \A l \in ListId : Shown(l)' \subseteq Shown(l) /\ Rising(lists'[l].items)
    /\ \A l \in Live' : l \in Live \/ Shown(l)' = {}
    /\ gih'.deviceMap = gih.deviceMap

KeepsList(c) ==
    /\ client'[c].sent = client[c].sent
    /\ client'[c].list \in {client[c].list, NoList}

\* Fewer frames to be sent are still newer than what was sent.
LEMMA AheadKept ==
    ASSUME LiveAssumption, OrderInv, Less, NEW c \in Client, KeepsList(c)
    PROVE  Ahead(c)'
<1>1. Ahead(c)
    BY DEF OrderInv
<1>2. Live' \subseteq ListId
    BY DEF Live
<1>3. client'[c].sent <= gih'.deviceMap
    BY <1>1 DEF Less, KeepsList, Ahead
<1>4. ASSUME NEW l \in ListId, l \in Live' PROVE Above(Shown(l)', client'[c].sent)
    BY <1>1, <1>4 DEF Less, KeepsList, Ahead, Above
<1>5. ASSUME NEW l \in ListId, client'[c].list = l
      PROVE  /\ Above(Shown(l)', client'[c].sent)
             /\ \A m \in Live' \ {l}, x \in Shown(l)' : Above(Shown(m)', x)
  <2>1. client[c].list = l
    BY <1>5 DEF KeepsList, LiveAssumption
  <2>2. Above(Shown(l)', client'[c].sent)
    BY <1>1, <1>5, <2>1 DEF Less, KeepsList, Ahead, Above
  <2>3. ASSUME NEW m \in ListId, m \in Live', m # l, NEW x \in Shown(l)'
        PROVE  Above(Shown(m)', x)
    BY <1>1, <2>1, <2>3 DEF Less, Ahead, Above
  <2>4. QED
    BY <1>2, <2>2, <2>3
<1>6. QED
    BY <1>2, <1>3, <1>4, <1>5 DEF Ahead

\* A frame that was taken stays newer than what was sent and older than the
\* rest, if its client learns that somebody has removed it.
LEMMA TakenKept ==
    ASSUME LiveAssumption, OrderInv, Less, NEW c \in Client,
           \A l \in ListId : client'[c].pc = "take" /\ client'[c].list = l =>
             /\ client[c].pc = "take" /\ client[c].list = l
             /\ client'[c].front = client[c].front /\ client'[c].sent = client[c].sent
             /\ IF client'[c].linked
                THEN client[c].linked /\ lists'[l].items = lists[l].items
                ELSE ~client[c].linked \/ Above(Shown(l)', client[c].front)
    PROVE  Taken(c)'
<1> SUFFICES ASSUME NEW l \in ListId, client'[c].pc = "take", client'[c].list = l
             PROVE  /\ client'[c].front > client'[c].sent /\ client'[c].front <= gih'.deviceMap
                    /\ \A m \in Live' \ {l} : Above(Shown(m)', client'[c].front)
                    /\ IF client'[c].linked
                       THEN /\ lists'[l].items # <<>>
                            /\ client'[c].front = Head(lists'[l].items)
                       ELSE Above(Shown(l)', client'[c].front)
    BY DEF Taken
<1>1. /\ client[c].pc = "take" /\ client'[c].front = client[c].front
      /\ client[c].list = l /\ client'[c].sent = client[c].sent
      /\ IF client'[c].linked
         THEN client[c].linked /\ lists'[l].items = lists[l].items
         ELSE ~client[c].linked \/ Above(Shown(l)', client[c].front)
    OBVIOUS
<1>2. /\ client[c].front > client[c].sent /\ client[c].front <= gih.deviceMap
      /\ \A m \in Live \ {l} : Above(Shown(m), client[c].front)
      /\ IF client[c].linked
         THEN lists[l].items # <<>> /\ client[c].front = Head(lists[l].items)
         ELSE Above(Shown(l), client[c].front)
    BY <1>1 DEF OrderInv, Taken
<1>3. client'[c].front > client'[c].sent /\ client'[c].front <= gih'.deviceMap
    BY <1>1, <1>2 DEF Less
<1>4. ASSUME NEW m \in ListId, m \in Live', m # l PROVE Above(Shown(m)', client'[c].front)
    BY <1>1, <1>2, <1>4 DEF Less, Above
<1>5. client'[c].linked =>
         lists'[l].items # <<>> /\ client'[c].front = Head(lists'[l].items)
    BY <1>1, <1>2
<1>6. ~client'[c].linked => Above(Shown(l)', client'[c].front)
  <2>1. Shown(l)' \subseteq Shown(l)
    BY DEF Less
  <2>2. QED
    BY <1>1, <1>2, <2>1 DEF Above
<1>7. Live' \subseteq ListId
    BY DEF Live
<1>8. QED
    BY <1>3, <1>4, <1>5, <1>6, <1>7

\* The lists after such a step.
LEMMA SortedKept == OrderInv /\ Less => Sorted'
    BY DEF OrderInv, Sorted, Less, UpTo

\* Dropping fronts leaves what is newer.
LEMMA DropFrontsShown ==
    ASSUME TypeInv, Sorted, NEW l \in ListId, NEW self, NEW n \in Nat,
           n <= Len(lists[l].items), DropFronts(l, self, n)
    PROVE  /\ \A m \in ListId : Shown(m)' \subseteq Shown(m) /\ Rising(lists'[m].items)
           /\ \A m \in ListId \ {l} : lists'[m] = lists[m]
           /\ n > 0 => Above(Shown(l)', Head(lists[l].items)) 
<1> DEFINE s == lists[l].items
           t == SubSeq(s, n + 1, Len(s))
<1>1. s \in Seq(Frame) /\ lists \in [ListId -> ListRec]
    BY DEF TypeInv, TypeOK, ListRec
<1>2. /\ lists' = [lists EXCEPT ![l] = lists'[l]] /\ lists'[l].items = t
      /\ \A m \in ListId \ {l} : lists'[m] = lists[m]
    BY <1>1 DEF DropFronts
<1>3. Len(t) = Len(s) - n /\ \A i \in 1..Len(t) : t[i] = s[i + n] /\ i + n \in 1..Len(s)
    BY <1>1, SubSeqProperties
<1>4. Rising(s)
    BY DEF Sorted
<1>5. Shown(l) = {s[i] : i \in 1..Len(s)} /\ Shown(l)' = {t[i] : i \in 1..Len(t)}
    BY <1>2 DEF Shown
<1>6. Len(s) \in Nat
    BY <1>1
<1> HIDE DEF t
<1>7. Shown(l)' \subseteq Shown(l)
    BY <1>3, <1>5
<1>8. Rising(t)
  <2>1. \A i, j \in 1..Len(t) : i < j => i + n < j + n
    BY <1>3, <1>6
  <2>2. QED
    BY <1>3, <1>4, <2>1 DEF Rising
<1>9. ASSUME n > 0 PROVE Above(Shown(l)', Head(s))
  <2>1. Head(s) = s[1] /\ 1 \in 1..Len(s)
    BY <1>1, <1>6, <1>9
  <2>2. \A i \in 1..Len(t) : s[i + n] > s[1]
    BY <1>1, <1>3, <1>4, <1>6, <1>9, <2>1 DEF Rising, Frame
  <2>3. QED
    BY <1>3, <1>5, <2>1, <2>2 DEF Above
<1>10. ASSUME NEW m \in ListId
       PROVE  Shown(m)' \subseteq Shown(m) /\ Rising(lists'[m].items)
  <2>1. CASE m = l
    BY <1>2, <1>7, <1>8, <2>1
  <2>2. CASE m # l
    BY <1>2, <2>2 DEF Shown, Sorted
  <2>3. QED
    BY <2>1, <2>2
<1>11. QED
    BY <1>2, <1>9, <1>10

\* A new list has nothing to show.
LEMMA NewShown ==
    ASSUME TypeInv, Sorted, NEW l \in ListId, lists' = [lists EXCEPT ![l] = NewList]
    PROVE  /\ \A m \in ListId : Shown(m)' \subseteq Shown(m) /\ Rising(lists'[m].items)
           /\ \A m \in ListId \ {l} : lists'[m] = lists[m] /\ Shown(m)' = Shown(m)
           /\ Shown(l)' = {}
<1>1. lists'[l].items = <<>> /\ \A m \in ListId \ {l} : lists'[m] = lists[m]
    BY DEF TypeInv, TypeOK, NewList
<1>2. Shown(l)' = {} /\ Rising(lists'[l].items)
    BY <1>1 DEF Shown, Rising
<1>3. \A m \in ListId \ {l} : Shown(m)' = Shown(m) /\ Rising(lists'[m].items)
    BY <1>1 DEF Shown, Sorted
<1>4. QED
    BY <1>1, <1>2, <1>3

LEMMA SameShown ==
    ASSUME Sorted, UNCHANGED lists
    PROVE  \A m \in ListId : Shown(m)' = Shown(m) /\ Rising(lists'[m].items)
    BY DEF Sorted, Shown

\* Which lists are live depends on the cache and on who fills a list.
LEMMA LiveKept ==
    ASSUME UNCHANGED gih.realtimeCache, \A k \in Cacher, l \in ListId : Fills(k, l)' => Fills(k, l)
    PROVE  Live' \subseteq Live
    BY DEF Live

\* The goroutines that a step leaves alone, or finds between two reads.
LEMMA CachersKept ==
    ASSUME OrderInv, Less, UNCHANGED stream, UNCHANGED gih.realtimeCache, NEW k \in Cacher,
           cacher'[k] = cacher[k] \/ cacher'[k].pc \in {"off", "top", "stale", "clean"}
    PROVE  Remembers(k)' /\ FillsOne(k)'
<1>1. Remembers(k) /\ FillsOne(k)
    BY DEF OrderInv
<1>2. \A l \in ListId : Fills(k, l)' => Fills(k, l)
    BY DEF Fills
<1>3. FillsOne(k)'
    BY <1>1, <1>2 DEF FillsOne, Less
<1>4. CASE cacher'[k] = cacher[k]
  <2>1. BatchOf(k)' = BatchOf(k)
    BY <1>4 DEF BatchOf
  <2>2. Remembers(k)'
    BY <1>1, <1>4, <2>1 DEF Remembers, Less
  <2>3. QED
    BY <1>3, <2>2
<1>5. CASE cacher'[k].pc \in {"off", "top", "stale", "clean"}
    BY <1>3, <1>5 DEF Remembers
<1>6. QED
    BY <1>4, <1>5

\* The clients that a step of another leaves alone.
LEMMA OthersKept ==
    ASSUME LiveAssumption, OrderInv, Less, NEW c,
           \A d \in Client \ {c} : client'[d] = client[d],
           \A l \in ListId : \/ lists'[l].items = lists[l].items
                             \/ \A d \in Client \ {c} : client[d].list # l,
           \A l \in ListId, d \in Client \ {c} : client[d].pc = "new" /\ client[d].list = l
              => l \notin Live' /\ (c \in Client => client'[c].list # l)
    PROVE  \A d \in Client \ {c} : Unknown(d)' /\ Ahead(d)' /\ Taken(d)'
<1> SUFFICES ASSUME NEW d \in Client, d # c PROVE Unknown(d)' /\ Ahead(d)' /\ Taken(d)'
    OBVIOUS
<1>1. Unknown(d) /\ Ahead(d) /\ Taken(d) /\ client'[d] = client[d]
    BY DEF OrderInv
<1>2. Ahead(d)'
    BY <1>1, AheadKept DEF KeepsList
<1>3. Taken(d)'
  <2>1. ASSUME NEW l \in ListId, client'[d].pc = "take", client'[d].list = l
        PROVE  client[d].linked => lists'[l].items = lists[l].items
    BY <1>1, <2>1
  <2>2. ASSUME NEW l \in ListId, client'[d].pc = "take", client'[d].list = l
        PROVE  client[d].linked \/ Above(Shown(l)', client[d].front)
    BY <1>1, <2>2 DEF Taken, Less, Above
  <2>3. QED
    BY <1>1, <2>1, <2>2, TakenKept
<1>4. Unknown(d)'
  <2> SUFFICES ASSUME NEW l \in ListId, client'[d].pc = "new", client'[d].list = l
               PROVE  /\ Shown(l)' = {} /\ l \notin Live'
                      /\ \A e \in Client \ {d} : client'[e].list # l
    BY DEF Unknown
  <2>1. Shown(l)' = {}
    BY <1>1 DEF Unknown, Less
  <2>2. l \notin Live' /\ (c \in Client => client'[c].list # l)
    BY <1>1
  <2>3. ASSUME NEW e \in Client \ {d, c} PROVE client'[e].list # l
    BY <1>1, <2>3 DEF Unknown
  <2>4. QED
    BY <2>1, <2>2, <2>3
<1>5. QED
    BY <1>2, <1>3, <1>4

\* A client that knows its list, or holds none, keeps its part.
LEMMA CallerKept ==
    ASSUME LiveAssumption, OrderInv, Less, NEW c \in Client, KeepsList(c),
           client'[c].pc \notin {"new", "take"}
    PROVE  Unknown(c)' /\ Ahead(c)' /\ Taken(c)'
    BY AheadKept DEF Unknown, Taken

\* Steps of a call that change neither lists nor the cache.
LEMMA SameLists ==
    ASSUME OrderInv, UNCHANGED lists, UNCHANGED gih.realtimeCache, UNCHANGED gih.deviceMap,
           \A k \in Cacher, l \in ListId : Fills(k, l)' => Fills(k, l)
    PROVE  Less /\ Live' \subseteq Live
<1>1. Live' \subseteq Live
    BY LiveKept
<1>2. \A m \in ListId : Shown(m)' = Shown(m) /\ Rising(lists'[m].items)
    BY SameShown DEF OrderInv
<1>3. QED
    BY <1>1, <1>2 DEF Less

LEMMA OrderQuiet ==
    ASSUME LiveAssumption, OrderInv, TypeInv', NEW c \in Client,
           UNCHANGED lists, UNCHANGED gih.realtimeCache, UNCHANGED gih.deviceMap,
           UNCHANGED stream, \E s : client' = [client EXCEPT ![c] = s],
           KeepsList(c),
           Unknown(c)', Taken(c)',
           \A k \in Cacher : cacher'[k] = cacher[k] \/ cacher'[k].pc = "top"
    PROVE  OrderInv'
<1>1. Less /\ Live' \subseteq Live
    BY SameLists DEF Fills
<1>2. Sorted' /\ gih'.deviceMap <= stream'.last
    BY <1>1, SortedKept DEF OrderInv
<1>3. \A k \in Cacher : Remembers(k)' /\ FillsOne(k)'
    BY <1>1, CachersKept
<1>4. \A d \in Client \ {c} : client'[d] = client[d]
    BY DEF OrderInv, TypeInv, TypeOK
<1>5. \A d \in Client \ {c} : Unknown(d)' /\ Ahead(d)' /\ Taken(d)'
  <2>1. ASSUME NEW l \in ListId, NEW d \in Client \ {c}, client[d].pc = "new", client[d].list = l
        PROVE  l \notin Live' /\ client'[c].list # l
    BY <1>1, <2>1 DEF OrderInv, Unknown, KeepsList, LiveAssumption
  <2>2. QED
    BY <1>1, <1>4, <2>1, OthersKept
<1>6. Unknown(c)' /\ Ahead(c)' /\ Taken(c)'
    BY <1>1, AheadKept
<1>7. QED
    BY <1>2, <1>3, <1>5, <1>6 DEF OrderInv

LEMMA OrderCall ==
    ASSUME LiveAssumption, OrderInv, TypeInv', NEW c \in Client,
           Call(c) \/ Touch(c) \/ TouchFails(c) \/ Spawn(c)
    PROVE  OrderInv'
<1>1. client \in [Client -> ClientRec] /\ cacher \in [Cacher -> CacherRec] /\ gih \in GihRec
    BY DEF OrderInv, TypeInv, TypeOK
<1>2. client[c] \in ClientRec
    BY <1>1
<1>3. Return(c, 0).sent = client[c].sent /\ Return(c, 0).list = NoList /\ Return(c, 0).pc = "idle"
    BY DEF Return, IdleClient
<1>4. /\ UNCHANGED lists /\ UNCHANGED stream
      /\ UNCHANGED gih.realtimeCache /\ UNCHANGED gih.deviceMap
      /\ \E s : client' = [client EXCEPT ![c] = s]
    BY <1>1, Zenon DEF Call, Touch, TouchFails, Spawn, GihRec
<1>5. KeepsList(c) /\ client'[c].pc \notin {"new", "take"}
  <2>1. CASE Call(c)
    BY <1>1, <1>2, <2>1 DEF Call, ClientRec, KeepsList
  <2>2. CASE Touch(c)
    BY <1>1, <1>2, <2>2 DEF Touch, ClientRec, KeepsList
  <2>3. CASE TouchFails(c)
    BY <1>1, <1>3, <2>3 DEF TouchFails, KeepsList
  <2>4. CASE Spawn(c)
    BY <1>1, <1>2, <2>4 DEF Spawn, ClientRec, KeepsList
  <2>5. QED
    BY <2>1, <2>2, <2>3, <2>4
<1>6. \A k \in Cacher : cacher'[k] = cacher[k] \/ cacher'[k].pc = "top"
  <2>1. CASE Spawn(c)
    BY <1>1, <2>1 DEF Spawn, CacherRec
  <2>2. QED
    BY <2>1 DEF Call, Touch, TouchFails
<1>7. Unknown(c)' /\ Taken(c)'
    BY <1>5 DEF Unknown, Taken
<1>8. QED
    BY <1>4, <1>5, <1>6, <1>7, OrderQuiet

\* What a client sees in front of its list is newer than what it was sent, and
\* older than all that is in other lists.
LEMMA OrderLook ==
    ASSUME LiveAssumption, OrderInv, TypeInv', NEW c \in Client, Look(c)
    PROVE  OrderInv'
<1>1. /\ client \in [Client -> ClientRec] /\ client[c] \in ClientRec
      /\ client[c].list \in ListId /\ lists[client[c].list] \in ListRec
    BY DEF OrderInv, TypeInv, TypeOK, Held, Look
<1>2. Return(c, 0).sent = client[c].sent /\ Return(c, 0).list = NoList /\ Return(c, 0).pc = "idle"
    BY DEF Return, IdleClient
<1>3. /\ UNCHANGED lists /\ UNCHANGED stream /\ UNCHANGED gih /\ UNCHANGED cacher
      /\ \E s : client' = [client EXCEPT ![c] = s]
    BY Zenon DEF Look
<1> DEFINE l == client[c].list
<1>4. CASE /\ lists[l].items # <<>>
           /\ client' = [client EXCEPT ![c].pc = "take", ![c].front = Head(lists[l].items),
                                       ![c].linked = TRUE]
  <2>1. /\ client'[c].pc = "take" /\ client'[c].list = l /\ client'[c].linked
        /\ client'[c].front = Head(lists[l].items) /\ client'[c].sent = client[c].sent
    BY <1>1, <1>4 DEF ClientRec
  <2>2. Head(lists[l].items) \in Shown(l)
    <3>1. lists[l].items \in Seq(Frame) /\ Len(lists[l].items) \in Nat \ {0}
      BY <1>1, <1>4, EmptySeq DEF ListRec
    <3>2. Head(lists[l].items) = lists[l].items[1] /\ 1 \in 1..Len(lists[l].items)
      BY <3>1
    <3>3. QED
      BY <3>2 DEF Shown
  <2>3. /\ Head(lists[l].items) > client[c].sent
        /\ \A m \in Live \ {l} : Above(Shown(m), Head(lists[l].items))
    BY <1>1, <2>2 DEF OrderInv, Ahead, Above
  <2>4. Head(lists[l].items) <= gih.deviceMap
    BY <1>1, <2>2 DEF OrderInv, Sorted, UpTo
  <2>5. Live' = Live /\ \A m \in ListId : Shown(m)' = Shown(m)
    BY <1>3 DEF Live, Shown, Fills
  <2>6. Live \subseteq ListId
    BY DEF Live
  <2>7. Taken(c)'
    BY <1>3, <1>4, <2>1, <2>3, <2>4, <2>5, <2>6 DEF Taken
  <2>8. Unknown(c)' /\ KeepsList(c)
    BY <2>1 DEF Unknown, KeepsList
  <2>9. QED
    BY <1>3, <2>7, <2>8, OrderQuiet
<1>5. CASE \/ client' = [client EXCEPT ![c].try = @ + 1, ![c].pc = "lookup"]
           \/ client' = [client EXCEPT ![c] = Return(c, 0)]
  <2>1. KeepsList(c) /\ client'[c].pc \notin {"new", "take"}
    BY <1>1, <1>2, <1>5 DEF ClientRec, KeepsList
  <2>2. Unknown(c)' /\ Taken(c)'
    BY <2>1 DEF Unknown, Taken
  <2>3. QED
    BY <1>3, <2>1, <2>2, OrderQuiet
<1>6. QED
    BY <1>4, <1>5 DEF Look

\* A list that is stored is empty, so all that is in it is newer than all that
\* was sent.
LEMMA OrderStoreNew ==
    ASSUME LiveAssumption, OrderInv, TypeInv', NEW c \in Client, StoreNew(c)
    PROVE  OrderInv'
<1> DEFINE l == client[c].list
<1>1. /\ client \in [Client -> ClientRec] /\ client[c] \in ClientRec
      /\ l \in ListId /\ gih \in GihRec /\ client[c].pc = "new"
    BY DEF OrderInv, TypeInv, TypeOK, Held, StoreNew
<1>2. /\ UNCHANGED lists /\ UNCHANGED stream /\ UNCHANGED cacher
      /\ gih'.realtimeCache = l /\ gih'.deviceMap = gih.deviceMap
      /\ client'[c].pc = "spawn" /\ client'[c].list = l /\ client'[c].sent = client[c].sent
      /\ \A d \in Client \ {c} : client'[d] = client[d]
    BY <1>1 DEF StoreNew, GihRec, ClientRec
<1>3. Shown(l) = {} /\ \A d \in Client \ {c} : client[d].list # l
    BY <1>1 DEF OrderInv, Unknown
<1>4. \A m \in ListId : Shown(m)' = Shown(m) /\ Rising(lists'[m].items)
    BY <1>2, SameShown DEF OrderInv
<1>5. \A m \in Live' : m \in Live \/ m = l
    BY <1>2 DEF Live, Fills
<1>6. Less
    BY <1>1, <1>2, <1>3, <1>4, <1>5 DEF Less
<1>7. Sorted' /\ gih'.deviceMap <= stream'.last
    BY <1>2, <1>6, SortedKept DEF OrderInv
<1>8. ASSUME NEW k \in Cacher PROVE Remembers(k)' /\ FillsOne(k)'
  <2>1. BatchOf(k)' = BatchOf(k) /\ \A m \in ListId : Fills(k, m)' = Fills(k, m)
    BY <1>2 DEF BatchOf, Fills
  <2>2. Remembers(k)'
    BY <1>2, <2>1 DEF OrderInv, Remembers
  <2>3. FillsOne(k)'
    BY <1>1, <1>2, <1>3, <1>4 DEF FillsOne
  <2>4. QED
    BY <2>2, <2>3
<1>9. \A d \in Client \ {c} : Unknown(d)' /\ Ahead(d)' /\ Taken(d)'
  <2>1. ASSUME NEW m \in ListId, NEW d \in Client \ {c}, client[d].pc = "new", client[d].list = m
        PROVE  m \notin Live' /\ client'[c].list # m
    <3>1. m \notin Live /\ m # l
      BY <1>3, <2>1 DEF OrderInv, Unknown
    <3>2. QED
      BY <1>2, <1>5, <3>1
  <2>2. QED
    BY <1>2, <1>6, <2>1, OthersKept
<1>10. Unknown(c)' /\ Ahead(c)' /\ Taken(c)'
    BY <1>2, <1>6, CallerKept DEF KeepsList
<1>11. QED
    BY <1>7, <1>8, <1>9, <1>10 DEF OrderInv

\* A list found in the cache: the one being filled, or an empty one.
LEMMA OrderFound ==
    ASSUME LiveAssumption, OrderInv, TypeInv', NEW c \in Client,
           Lookup(c), gih.realtimeCache # NoList
    PROVE  OrderInv'
<1>0. PICK l \in ListId : gih.realtimeCache = l
    BY DEF OrderInv, TypeInv, TypeOK, GihRec
<1>1. /\ client \in [Client -> ClientRec] /\ client[c] \in ClientRec
      /\ gih.realtimeCache = l /\ l \in Live
    BY <1>0 DEF OrderInv, TypeInv, TypeOK, Live
<1>2. /\ UNCHANGED lists /\ UNCHANGED stream /\ UNCHANGED cacher /\ UNCHANGED gih
      /\ client'[c].pc \notin {"new", "take"} /\ client'[c].list = l
      /\ client'[c].sent = client[c].sent
      /\ \A d \in Client \ {c} : client'[d] = client[d]
    BY <1>1 DEF Lookup, ClientRec
<1>3. Less /\ Live' \subseteq Live
    BY <1>2, SameLists DEF Fills
<1>4. Sorted' /\ gih'.deviceMap <= stream'.last
    BY <1>2, <1>3, SortedKept DEF OrderInv
<1>5. \A k \in Cacher : Remembers(k)' /\ FillsOne(k)'
    BY <1>2, <1>3, CachersKept
<1>6. \A d \in Client \ {c} : Unknown(d)' /\ Ahead(d)' /\ Taken(d)'
  <2>1. ASSUME NEW m \in ListId, NEW d \in Client \ {c}, client[d].pc = "new", client[d].list = m
        PROVE  m \notin Live' /\ client'[c].list # m
    BY <1>1, <1>2, <1>3, <2>1 DEF OrderInv, Unknown
  <2>2. QED
    BY <1>2, <1>3, <2>1, OthersKept
<1>7. Ahead(c)'
  <2>1. Ahead(c) /\ Live \subseteq ListId
    BY DEF OrderInv, Live
  <2>2. \A m \in ListId : Shown(m)' = Shown(m)
    BY <1>2 DEF Shown
  <2>3. client'[c].sent <= gih'.deviceMap
    BY <1>2, <2>1 DEF Ahead
  <2>4. ASSUME NEW m \in ListId, m \in Live' PROVE Above(Shown(m)', client'[c].sent)
    BY <1>2, <1>3, <2>1, <2>2, <2>4 DEF Ahead
  <2>5. ASSUME NEW m \in ListId, m \in Live', m # l PROVE Shown(l)' = {}
    <3>1. PICK k \in Cacher : Fills(k, m)
      BY <1>0, <1>3, <2>5 DEF Live
    <3>2. Shown(l) = {}
      BY <1>1, <2>5, <3>1 DEF OrderInv, FillsOne
    <3>3. QED
      BY <1>1, <2>2, <3>2
  <2>6. Above(Shown(l)', client'[c].sent)
    BY <1>1, <1>2, <2>1, <2>2 DEF Ahead
  <2>7. Live' \subseteq ListId
    BY <2>1, <1>3
  <2>8. QED
    BY <1>2, <2>3, <2>4, <2>5, <2>6, <2>7 DEF Ahead
<1>8. Unknown(c)' /\ Taken(c)'
    BY <1>2 DEF Unknown, Taken
<1>9. QED
    BY <1>4, <1>5, <1>6, <1>7, <1>8 DEF OrderInv

\* Lists that are free are neither live nor held by a client.
LEMMA FreeIsFree ==
    ASSUME NEW l \in FreeLists
    PROVE  /\ l \in ListId /\ l \notin Live /\ l # gih.realtimeCache
           /\ \A c \in Client : client[c].list # l
    BY DEF FreeLists, Live, Fills

LEMMA OrderLookup ==
    ASSUME LiveAssumption, OrderInv, TypeInv', NEW c \in Client, Lookup(c)
    PROVE  OrderInv'
<1>1. CASE gih.realtimeCache # NoList
    BY <1>1, OrderFound
<1>2. CASE gih.realtimeCache = NoList
  <2>1. PICK l \in FreeLists : /\ client' = [client EXCEPT ![c].list = l, ![c].pc = "new"]
                               /\ lists' = [lists EXCEPT ![l] = NewList]
    BY <1>2 DEF Lookup
  <2>2. /\ client \in [Client -> ClientRec] /\ client[c] \in ClientRec
      BY DEF OrderInv, TypeInv, TypeOK
  <2>3. /\ UNCHANGED stream /\ UNCHANGED cacher /\ UNCHANGED gih
        /\ client'[c].pc = "new" /\ client'[c].list = l /\ client'[c].sent = client[c].sent
        /\ \A d \in Client \ {c} : client'[d] = client[d]
    BY <2>1, <2>2 DEF Lookup, ClientRec
  <2>4. /\ l \in ListId /\ l \notin Live /\ l # gih.realtimeCache
        /\ \A d \in Client : client[d].list # l
    BY FreeIsFree
  <2>5. /\ \A m \in ListId : Shown(m)' \subseteq Shown(m) /\ Rising(lists'[m].items)
        /\ \A m \in ListId \ {l} : lists'[m] = lists[m]
        /\ Shown(l)' = {}
    BY <2>1, <2>4, NewShown DEF OrderInv
  <2>6. Live' \subseteq Live
    BY <2>3, LiveKept DEF Fills
  <2>7. Less
    BY <2>3, <2>5, <2>6 DEF Less
  <2>8. Sorted' /\ gih'.deviceMap <= stream'.last
    BY <2>3, <2>7, SortedKept DEF OrderInv
  <2>9. \A k \in Cacher : Remembers(k)' /\ FillsOne(k)'
    BY <2>3, <2>7, CachersKept
  <2>10. \A d \in Client \ {c} : Unknown(d)' /\ Ahead(d)' /\ Taken(d)'
    <3>1. ASSUME NEW m \in ListId, NEW d \in Client \ {c}, client[d].pc = "new", client[d].list = m
          PROVE  m \notin Live' /\ client'[c].list # m
      BY <2>3, <2>4, <2>6, <3>1 DEF OrderInv, Unknown
    <3>2. QED
      BY <2>3, <2>4, <2>5, <2>7, <3>1, OthersKept
  <2>11. Ahead(c)'
    <3>1. Ahead(c) /\ Live \subseteq ListId
      BY DEF OrderInv, Live
    <3>2. client'[c].sent <= gih'.deviceMap
      BY <2>3, <3>1 DEF Ahead
    <3>3. ASSUME NEW m \in ListId, m \in Live' PROVE Above(Shown(m)', client'[c].sent)
      BY <2>3, <2>5, <2>6, <3>1, <3>3 DEF Ahead, Above
    <3>4. Above(Shown(l)', client'[c].sent) /\ ~ \E x : x \in Shown(l)'
      BY <2>5 DEF Above
    <3>5. QED
      BY <2>3, <2>6, <3>1, <3>2, <3>3, <3>4 DEF Ahead
  <2>12. Unknown(c)' /\ Taken(c)'
    <3>1. \A d \in Client \ {c} : client'[d].list # l
      BY <2>3, <2>4
    <3>2. QED
      BY <2>3, <2>4, <2>5, <2>6, <3>1 DEF Unknown, Taken
  <2>13. QED
    BY <2>8, <2>9, <2>10, <2>11, <2>12 DEF OrderInv
<1>3. QED
    BY <1>1, <1>2

\* The frame a client is sent is older than all that is left.
LEMMA OrderTake ==
    ASSUME LiveAssumption, OrderInv, TypeInv', NEW c \in Client, Take(c)
    PROVE  OrderInv' /\ client'[c].sent = client[c].front /\ client'[c].sent > client[c].sent
                     /\ client[c].front <= gih.deviceMap
<1>0. PICK l \in ListId, f \in Nat : client[c].list = l /\ client[c].front = f
  <2>1. client[c] \in ClientRec /\ client[c].list \in ListId
    BY DEF OrderInv, TypeInv, TypeOK, Held, Take
  <2>2. client[c].front \in Nat
    BY <2>1 DEF ClientRec, Frame, LiveAssumption
  <2>3. QED
    BY <2>1, <2>2
<1>1. /\ client \in [Client -> ClientRec] /\ client[c] \in ClientRec
      /\ gih \in GihRec /\ lists \in [ListId -> ListRec] /\ lists[l] \in ListRec
      /\ client[c].pc = "take" /\ client[c].list = l /\ client[c].front = f
    BY <1>0 DEF OrderInv, TypeInv, TypeOK, Take
<1>2. /\ f > client[c].sent /\ f <= gih.deviceMap
      /\ \A m \in Live \ {l} : Above(Shown(m), f)
      /\ IF client[c].linked THEN lists[l].items # <<>> /\ f = Head(lists[l].items)
         ELSE Above(Shown(l), f)
    BY <1>1 DEF OrderInv, Taken
<1>3. /\ Return(c, f).sent = f /\ Return(c, f).list = NoList /\ Return(c, f).pc = "idle"
  <2>1. f # 0
    BY <1>1, <1>2 DEF ClientRec, Frame, LiveAssumption
  <2>2. QED
    BY <2>1 DEF Return, IdleClient
<1>4. UNCHANGED stream /\ UNCHANGED gih /\ UNCHANGED cacher
    BY DEF Take
<1>5. Live' = Live /\ Live \subseteq ListId
    BY <1>4 DEF Live, Fills
<1>6. ASSUME \A m \in ListId : Shown(m)' \subseteq Shown(m) /\ Rising(lists'[m].items),
             Above(Shown(l)', f),
             client'[c] = Return(c, f),
             \A d \in Client \ {c} :
                /\ client'[d].pc = client[d].pc /\ client'[d].list = client[d].list
                /\ client'[d].front = client[d].front /\ client'[d].sent = client[d].sent,
             \A d \in Client \ {c}, m \in ListId : client[d].list = m =>
                \/ client'[d].linked = client[d].linked /\ lists'[m].items = lists[m].items
                \/ /\ ~client'[d].linked
                   /\ client[d].pc = "take" =>
                        ~client[d].linked \/ Above(Shown(m)', client[d].front)
      PROVE  OrderInv'
  <2>1. Less
    BY <1>4, <1>5, <1>6 DEF Less
  <2>2. Sorted' /\ gih'.deviceMap <= stream'.last
    BY <1>4, <2>1, SortedKept DEF OrderInv
  <2>3. \A k \in Cacher : Remembers(k)' /\ FillsOne(k)'
    BY <1>4, <2>1, CachersKept
  <2>4. ASSUME NEW d \in Client, d # c PROVE Unknown(d)' /\ Ahead(d)' /\ Taken(d)'
    <3>1. Ahead(d)'
      BY <1>6, <2>1, <2>4, AheadKept DEF KeepsList
    <3>2. Taken(d)'
      <4>1. ASSUME NEW m \in ListId, client'[d].pc = "take", client'[d].list = m
            PROVE  /\ client[d].pc = "take" /\ client[d].list = m
                   /\ client'[d].front = client[d].front /\ client'[d].sent = client[d].sent
                   /\ IF client'[d].linked
                      THEN client[d].linked /\ lists'[m].items = lists[m].items
                      ELSE ~client[d].linked \/ Above(Shown(m)', client[d].front)
        BY <1>6, <2>4, <4>1
      <4>2. QED
        BY <2>1, <4>1, TakenKept
    <3>3. Unknown(d)'
      <4> SUFFICES ASSUME NEW m \in ListId, client'[d].pc = "new", client'[d].list = m
                   PROVE  /\ Shown(m)' = {} /\ m \notin Live'
                          /\ \A e \in Client \ {d} : client'[e].list # m
        BY DEF Unknown
      <4>1. /\ Shown(m) = {} /\ m \notin Live
            /\ \A e \in Client \ {d} : client[e].list # m
        BY <1>6, <2>4 DEF OrderInv, Unknown
      <4>2. Shown(m)' = {}
        BY <1>6, <4>1
      <4>3. ASSUME NEW e \in Client \ {d} PROVE client'[e].list # m
        BY <1>3, <1>6, <4>1 DEF LiveAssumption
      <4>4. QED
        BY <1>5, <4>1, <4>2, <4>3
    <3>4. QED
      BY <3>1, <3>2, <3>3
  <2>5. Ahead(c)'
    <3>1. client'[c].sent = f /\ client'[c].list = NoList
      BY <1>3, <1>6
    <3>2. f <= gih'.deviceMap
      BY <1>2, <1>4
    <3>3. ASSUME NEW m \in ListId, m \in Live' PROVE Above(Shown(m)', f)
      <4>1. CASE m = l
        BY <1>6, <4>1
      <4>2. CASE m # l
        <5>1. Above(Shown(m), f) /\ Shown(m)' \subseteq Shown(m)
          BY <1>2, <1>5, <1>6, <3>3, <4>2
        <5>2. QED
          BY <5>1 DEF Above
      <4>3. QED
        BY <4>1, <4>2
    <3>4. QED
      BY <1>5, <3>1, <3>2, <3>3 DEF Ahead, LiveAssumption
  <2>6. Unknown(c)' /\ Taken(c)'
    BY <1>3, <1>6 DEF Unknown, Taken
  <2>7. QED
    BY <2>2, <2>3, <2>4, <2>5, <2>6 DEF OrderInv
<1>7. CASE client[c].linked
  <2>1. DropFronts(l, c, 1) /\ client' = [Unlinked(l) EXCEPT ![c] = Return(c, f)]
    BY <1>1, <1>7 DEF Take, DropFronts
  <2>2. lists[l].items # <<>> /\ f = Head(lists[l].items) /\ 1 <= Len(lists[l].items)
    BY <1>1, <1>2, <1>7, EmptySeq DEF ListRec
  <2>3. /\ \A m \in ListId : Shown(m)' \subseteq Shown(m) /\ Rising(lists'[m].items)
        /\ \A m \in ListId \ {l} : lists'[m] = lists[m]
        /\ Above(Shown(l)', f)
    <3>1. 1 \in Nat /\ 1 > 0
      OBVIOUS
    <3>2. QED
      BY <1>1, <2>1, <2>2, <3>1, DropFrontsShown DEF OrderInv
  <2>4. client'[c] = Return(c, f) /\ \A d \in Client \ {c} : client'[d] = Unlinked(l)[d]
    BY <1>1, <2>1 DEF Unlinked
  <2>5. ASSUME NEW d \in Client \ {c}
        PROVE  /\ client'[d].pc = client[d].pc /\ client'[d].list = client[d].list
               /\ client'[d].front = client[d].front /\ client'[d].sent = client[d].sent
               /\ client[d].list = l => ~client'[d].linked
               /\ client[d].list # l => client'[d] = client[d]
    <3>1. client[d] \in ClientRec /\ client'[d] = Unlinked(l)[d]
      BY <1>1, <2>4
    <3>2. CASE client[d].list = l
      <4>1. client'[d] = [client[d] EXCEPT !.linked = FALSE]
        BY <3>1, <3>2 DEF Unlinked
      <4>2. QED
        BY <3>1, <3>2, <4>1 DEF ClientRec
    <3>3. CASE client[d].list # l
      <4>1. client'[d] = client[d]
        BY <3>1, <3>3 DEF Unlinked
      <4>2. QED
        BY <3>3, <4>1
    <3>4. QED
      BY <3>2, <3>3
  <2>6. ASSUME NEW d \in Client \ {c}, NEW m \in ListId, client[d].list = m
        PROVE  \/ client'[d].linked = client[d].linked /\ lists'[m].items = lists[m].items
               \/ /\ ~client'[d].linked
                  /\ client[d].pc = "take" =>
                       ~client[d].linked \/ Above(Shown(m)', client[d].front)
    <3>1. CASE m = l
      <4>1. client[d].pc = "take" /\ client[d].linked => client[d].front = f
        BY <1>1, <2>2, <2>6, <3>1 DEF OrderInv, Taken
      <4>2. QED
        BY <2>3, <2>5, <2>6, <3>1, <4>1
    <3>2. CASE m # l
      BY <2>3, <2>5, <2>6, <3>2
    <3>3. QED
      BY <3>1, <3>2
  <2>7. OrderInv'
    BY <1>6, <2>3, <2>4, <2>5, <2>6
  <2>8. QED
    BY <1>1, <1>2, <1>3, <2>4, <2>7
<1>8. CASE ~client[c].linked
  <2>1. PICK d \in {0, 1} : lists' = [lists EXCEPT ![l].len = @ - d]
    BY <1>1, <1>8 DEF Take
  <2>2. \A m \in ListId : lists'[m].items = lists[m].items /\ (m # l => lists'[m] = lists[m])
    BY <1>1, <2>1 DEF ListRec
  <2>3. \A m \in ListId : Shown(m)' = Shown(m) /\ Rising(lists'[m].items)
    BY <2>2 DEF OrderInv, Sorted, Shown
  <2>4. Above(Shown(l)', f)
    BY <1>1, <1>2, <1>8, <2>3
  <2>5. client' = [client EXCEPT ![c] = Return(c, f)]
    BY <1>1, <1>8 DEF Take
  <2>6. client'[c] = Return(c, f) /\ \A e \in Client \ {c} : client'[e] = client[e]
    BY <1>1, <2>5
  <2>7. OrderInv'
    BY <1>6, <2>2, <2>3, <2>4, <2>6
  <2>8. QED
    BY <1>1, <1>2, <1>3, <2>6, <2>7
<1>9. QED
    BY <1>7, <1>8

LEMMA OrderInit == LiveAssumption /\ Init => OrderInv
<1> SUFFICES ASSUME LiveAssumption, Init PROVE OrderInv
    OBVIOUS
<1>1. TypeInv
    BY TypeInit
<1>2. /\ \A l \in ListId : lists[l].items = <<>>
      /\ \A k \in Cacher : cacher[k].pc = "off"
      /\ \A c \in Client : client[c].pc = "idle" /\ client[c].sent = 0 /\ client[c].list = NoList
      /\ gih.deviceMap = 0 /\ stream.last = 0
    BY DEF Init, NewList, OffCacher, IdleClient, NewGih
<1>3. \A l \in ListId : Shown(l) = {} /\ Rising(lists[l].items)
    BY <1>2 DEF Shown, Rising
<1>4. Sorted
    BY <1>3 DEF Sorted, UpTo
<1>5. \A k \in Cacher : Remembers(k) /\ FillsOne(k)
    BY <1>2 DEF Remembers, FillsOne, Fills
<1>6. \A c \in Client : Unknown(c) /\ Taken(c)
    BY <1>2 DEF Unknown, Taken
<1>7. \A c \in Client : Ahead(c)
    BY <1>2, <1>3 DEF Ahead, Above, Live
<1>8. QED
    BY <1>1, <1>2, <1>4, <1>5, <1>6, <1>7 DEF OrderInv

\* Frames are numbers.
LEMMA FrameNumbers ==
    ASSUME LiveAssumption, TypeInv
    PROVE  /\ \A l \in ListId : Shown(l) \subseteq Nat /\ lists[l].items \in Seq(Nat)
           /\ \A k \in Cacher : BatchOf(k) \subseteq Nat /\ cacher[k].batch \in Seq(Nat)
           /\ \A c \in Client : client[c].sent \in Nat /\ client[c].front \in Nat
           /\ gih.deviceMap \in Nat /\ stream.last \in Nat /\ stream.oldest \in Nat
<1>1. Frame \subseteq Nat
    BY DEF Frame, LiveAssumption
<1>2. ASSUME NEW s \in Seq(Frame) PROVE s \in Seq(Nat) /\ \A i \in 1..Len(s) : s[i] \in Nat
  <2>1. s \in Seq(Nat)
    BY <1>1, SeqMonotonic
  <2>2. QED
    BY <2>1, ElementOfSeq
<1>3. ASSUME NEW l \in ListId PROVE Shown(l) \subseteq Nat /\ lists[l].items \in Seq(Nat)
  <2>1. lists[l].items \in Seq(Frame)
    BY DEF TypeInv, TypeOK, ListRec
  <2>2. QED
    BY <1>2, <2>1 DEF Shown
<1>4. ASSUME NEW k \in Cacher PROVE BatchOf(k) \subseteq Nat /\ cacher[k].batch \in Seq(Nat)
  <2>1. cacher[k].batch \in Seq(Frame)
    BY DEF TypeInv, TypeOK, CacherRec
  <2>2. QED
    BY <1>2, <2>1 DEF BatchOf
<1>5. \A c \in Client : client[c].sent \in Nat /\ client[c].front \in Nat
    BY <1>1 DEF TypeInv, TypeOK, ClientRec
<1>6. gih.deviceMap \in Nat /\ stream.last \in Nat /\ stream.oldest \in Nat
    BY <1>1 DEF TypeInv, TypeOK, GihRec
<1>7. QED
    BY <1>3, <1>4, <1>5, <1>6

\* A longer stream and a later time.
LEMMA OrderEnvironment ==
    ASSUME LiveAssumption, OrderInv, TypeInv', UNCHANGED vars \/ Publish \/ Tick
    PROVE  OrderInv'
<1>1. /\ UNCHANGED lists /\ UNCHANGED gih /\ UNCHANGED cacher /\ UNCHANGED client
      /\ stream'.last \in Nat /\ stream'.last >= stream.last
  <2>1. stream.last \in Nat
    BY FrameNumbers DEF OrderInv
  <2>2. CASE UNCHANGED vars
    BY <2>1, <2>2 DEF vars
  <2>3. CASE Publish
    BY <2>1, <2>3 DEF Publish
  <2>4. CASE Tick
    BY <2>1, <2>4 DEF Tick
  <2>5. QED
    BY <2>2, <2>3, <2>4
<1>2. /\ \A l \in ListId : Shown(l)' = Shown(l)
      /\ \A k \in Cacher : BatchOf(k)' = BatchOf(k)
      /\ \A k \in Cacher, l \in ListId : Fills(k, l)' = Fills(k, l)
      /\ Live' = Live
    BY <1>1 DEF Shown, BatchOf, Fills, Live
<1>3. Sorted'
    BY <1>1, <1>2 DEF OrderInv, Sorted
<1>4. gih'.deviceMap <= stream'.last
    BY <1>1, FrameNumbers DEF OrderInv
<1>5. ASSUME NEW k \in Cacher PROVE Remembers(k)' /\ FillsOne(k)'
  <2>1. UpTo(BatchOf(k), stream.last) => UpTo(BatchOf(k)', stream'.last)
    BY <1>1, <1>2, FrameNumbers DEF OrderInv, UpTo
  <2>2. Remembers(k)'
    BY <1>1, <1>2, <2>1 DEF OrderInv, Remembers
  <2>3. FillsOne(k)'
    BY <1>1, <1>2 DEF OrderInv, FillsOne
  <2>4. QED
    BY <2>2, <2>3
<1>6. ASSUME NEW c \in Client PROVE Unknown(c)' /\ Ahead(c)' /\ Taken(c)'
  <2>1. Unknown(c) /\ Ahead(c) /\ Taken(c) /\ Live \subseteq ListId
    BY DEF OrderInv, Live
  <2>2. Unknown(c)'
    BY <1>1, <1>2, <2>1 DEF Unknown
  <2>3. Ahead(c)'
    BY <1>1, <1>2, <2>1 DEF Ahead
  <2>4. Taken(c)'
    BY <1>1, <1>2, <2>1 DEF Taken
  <2>5. QED
    BY <2>2, <2>3, <2>4
<1>7. QED
    BY <1>3, <1>4, <1>5, <1>6 DEF OrderInv

\* The clients, if a goroutine's step takes nothing from their lists.
LEMMA ClientsKept ==
    ASSUME LiveAssumption, OrderInv, Less, UNCHANGED client,
           \A l \in ListId : \/ lists'[l].items = lists[l].items
                             \/ \A d \in Client : client[d].list # l,
           \A l \in ListId, d \in Client : client[d].list = l => l \in Live \/ l \notin Live'
    PROVE  \A d \in Client : Unknown(d)' /\ Ahead(d)' /\ Taken(d)'
<1>1. PICK c : c \notin Client
    BY NoSetContainsEverything
<1>2. Client \ {c} = Client
    BY <1>1
<1>3. ASSUME NEW l \in ListId, NEW d \in Client, client[d].pc = "new", client[d].list = l
      PROVE  l \notin Live'
    BY <1>3 DEF OrderInv, Unknown
<1>4. QED
    BY <1>1, <1>2, <1>3, OthersKept

LEMMA OrderGoroutine ==
    ASSUME LiveAssumption, OrderInv, TypeInv', UNCHANGED stream, UNCHANGED lists,
           UNCHANGED gih, UNCHANGED client, NEW k \in Cacher,
           \E s : cacher' = [cacher EXCEPT ![k] = s],
           \A l \in ListId : Fills(k, l)' => l \in Live,
           Remembers(k)', FillsOne(k)'
    PROVE  OrderInv'
<1>1. \A j \in Cacher \ {k} : cacher'[j] = cacher[j]
    BY DEF OrderInv, TypeInv, TypeOK
<1>2. Live' \subseteq Live
  <2>1. \A j \in Cacher \ {k}, l \in ListId : Fills(j, l)' => Fills(j, l)
    BY <1>1 DEF Fills
  <2>2. QED
    BY <2>1 DEF Live
<1>3. \A m \in ListId : Shown(m)' = Shown(m) /\ Rising(lists'[m].items)
    BY SameShown DEF OrderInv
<1>4. Less
    BY <1>2, <1>3 DEF Less
<1>5. Sorted' /\ gih'.deviceMap <= stream'.last
    BY <1>4, SortedKept DEF OrderInv
<1>6. \A j \in Cacher : Remembers(j)' /\ FillsOne(j)'
    BY <1>1, <1>4, CachersKept
<1>7. \A d \in Client : Unknown(d)' /\ Ahead(d)' /\ Taken(d)'
    BY <1>2, <1>4, ClientsKept
<1>8. QED
    BY <1>5, <1>6, <1>7 DEF OrderInv

\* What is read is newer than what is remembered.
LEMMA OrderRead ==
    ASSUME LiveAssumption, OrderInv, TypeInv', NEW k \in Cacher,
           Top(k) \/ Check(k) \/ LoadStale(k) \/ XRead(k) \/ XReadFails(k)
    PROVE  OrderInv'
<1>1. /\ cacher \in [Cacher -> CacherRec] /\ cacher[k] \in CacherRec
      /\ Remembers(k)
    BY DEF OrderInv, TypeInv, TypeOK
<1>2. /\ UNCHANGED stream /\ UNCHANGED lists /\ UNCHANGED gih /\ UNCHANGED client
      /\ \E s : cacher' = [cacher EXCEPT ![k] = s]
    BY <1>1, Zenon DEF Top, Check, LoadStale, XRead, XReadFails
<1>3. /\ LoadStale(k) \/ XReadFails(k) => cacher'[k].pc \in {"off", "top", "clean"}
      /\ cacher'[k].pc \in {"off", "top", "check", "read", "stale", "clean", "load"}
  <2>1. ASSUME NEW l
        PROVE  /\ OffCacher.pc = "off" /\ [OffCacher EXCEPT !.pc = "top"].pc = "top"
               /\ [OffCacher EXCEPT !.pc = "stale"].pc = "stale"
               /\ [OffCacher EXCEPT !.pc = "clean", !.list = l].pc = "clean"
    BY DEF OffCacher
  <2>2. CASE Top(k) \/ XRead(k)
    BY <1>1, <2>2 DEF Top, XRead, CacherRec, LoadStale, XReadFails
  <2>3. CASE Check(k)
    BY <1>1, <2>1, <2>3 DEF Check, CacherRec, LoadStale, XReadFails
  <2>4. CASE LoadStale(k)
    BY <1>1, <2>1, <2>4 DEF LoadStale
  <2>5. CASE XReadFails(k)
    BY <1>1, <2>1, <2>5 DEF XReadFails
  <2>6. QED
    BY <2>2, <2>3, <2>4, <2>5
<1>4. \A l \in ListId : ~Fills(k, l)'
    BY <1>3 DEF Fills
<1>5. FillsOne(k)'
    BY <1>4 DEF FillsOne
<1>6. Remembers(k)'
  <2>1. CASE Top(k)
    BY <1>1, <2>1 DEF Top, Remembers, CacherRec
  <2>2. CASE Check(k)
    BY <1>1, <2>2 DEF Check, Remembers, CacherRec, OffCacher
  <2>3. CASE LoadStale(k) \/ XReadFails(k)
    BY <1>3, <2>3 DEF Remembers
  <2>4. CASE XRead(k)
    <3>1. PICK from, n : /\ from = Greatest(cacher[k].lastTs + 1, stream.oldest)
                         /\ n = Least(ReadCount, stream.last + 1 - from) /\ n > 0
                         /\ cacher' = [cacher EXCEPT ![k].pc = "load",
                                         ![k].batch = [i \in 1..n |-> from + i - 1]]
      BY <2>4 DEF XRead
    <3>2. /\ cacher[k].lastTs = gih.deviceMap /\ gih.deviceMap \in Nat
          /\ stream.last \in Nat /\ stream.oldest \in Nat /\ ReadCount \in Nat
      BY <1>1, <2>4, FrameNumbers DEF XRead, Remembers, OrderInv, LiveAssumption
    <3>3. /\ from \in Nat /\ from > gih.deviceMap /\ n \in Nat
          /\ n <= stream.last + 1 - from
      <4>1. from \in Nat /\ from > gih.deviceMap
        BY <3>1, <3>2 DEF Greatest
      <4>2. stream.last + 1 - from \in Int
        BY <3>2, <4>1
      <4>3. QED
        BY <3>1, <3>2, <4>1, <4>2 DEF Least
    <3>4. /\ cacher'[k].pc = "load"
          /\ cacher'[k].batch = [i \in 1..n |-> from + i - 1]
      BY <1>1, <3>1 DEF CacherRec
    <3>5. /\ Len(cacher'[k].batch) = n
          /\ \A i \in 1..n : cacher'[k].batch[i] = from + i - 1
      BY <3>3, <3>4
    <3>6. Rising(cacher'[k].batch)
      BY <3>3, <3>5 DEF Rising
    <3>7. \A x \in BatchOf(k)' : \E i \in 1..n : x = from + i - 1
      BY <3>5 DEF BatchOf
    <3>8. \A i \in 1..n : from + i - 1 > gih.deviceMap /\ from + i - 1 <= stream.last
      BY <3>2, <3>3
    <3>9. Above(BatchOf(k)', gih'.deviceMap) /\ UpTo(BatchOf(k)', stream'.last)
      BY <1>2, <3>7, <3>8 DEF Above, UpTo
    <3>10. QED
      BY <3>4, <3>6, <3>9 DEF Remembers
  <2>5. QED
    BY <2>1, <2>2, <2>3, <2>4
<1>7. QED
    BY <1>2, <1>4, <1>5, <1>6, OrderGoroutine

\* The list a goroutine chooses: the one calls find, or an empty one.
LEMMA OrderLoad ==
    ASSUME LiveAssumption, OrderInv, TypeInv', NEW k \in Cacher, LoadList(k)
    PROVE  OrderInv'
<1>1. /\ cacher \in [Cacher -> CacherRec] /\ cacher[k] \in CacherRec /\ Remembers(k)
      /\ gih.realtimeCache \in ListId \cup {NoList}
    BY DEF OrderInv, TypeInv, TypeOK, GihRec
<1>2. PICK l \in ListId :
         /\ cacher' = [cacher EXCEPT ![k].pc = "trim", ![k].list = l]
         /\ \/ gih.realtimeCache = l /\ UNCHANGED lists
            \/ /\ gih.realtimeCache = NoList /\ l \in FreeLists
               /\ lists' = [lists EXCEPT ![l] = NewList]
    BY <1>1 DEF LoadList, FreeLists
<1>3. /\ UNCHANGED stream /\ UNCHANGED gih /\ UNCHANGED client
      /\ cacher'[k].pc = "trim" /\ cacher'[k].list = l /\ cacher'[k].batch = cacher[k].batch
      /\ cacher[k].pc = "load"
      /\ \A j \in Cacher \ {k} : cacher'[j] = cacher[j]
    BY <1>1, <1>2 DEF LoadList, CacherRec
<1>4. Remembers(k)'
  <2>1. BatchOf(k)' = BatchOf(k)
    BY <1>3 DEF BatchOf
  <2>2. QED
    BY <1>1, <1>3, <2>1 DEF Remembers
<1>5. \A m \in ListId : Fills(k, m)' => m = l
    BY <1>3 DEF Fills
<1>6. CASE gih.realtimeCache = l /\ UNCHANGED lists
  <2>1. \A m \in ListId : Fills(k, m)' => m \in Live
    BY <1>5, <1>6 DEF Live
  <2>2. FillsOne(k)'
    BY <1>3, <1>5, <1>6 DEF FillsOne
  <2>3. QED
    BY <1>2, <1>3, <1>4, <1>6, <2>1, <2>2, OrderGoroutine
<1>7. CASE /\ gih.realtimeCache = NoList /\ l \in FreeLists
           /\ lists' = [lists EXCEPT ![l] = NewList]
  <2>1. l \notin Live /\ \A c \in Client : client[c].list # l
    BY <1>7, FreeIsFree
  <2>2. /\ \A m \in ListId : Shown(m)' \subseteq Shown(m) /\ Rising(lists'[m].items)
        /\ \A m \in ListId \ {l} : lists'[m] = lists[m] /\ Shown(m)' = Shown(m)
        /\ Shown(l)' = {}
    BY <1>7, NewShown DEF OrderInv
  <2>3. \A m \in Live' : m \in Live \/ m = l
    <3>1. \A j \in Cacher \ {k}, m \in ListId : Fills(j, m)' => Fills(j, m)
      BY <1>3 DEF Fills
    <3>2. QED
      BY <1>3, <1>5, <3>1 DEF Live
  <2>4. Less
    BY <1>3, <2>2, <2>3 DEF Less
  <2>5. Sorted' /\ gih'.deviceMap <= stream'.last
    BY <1>3, <2>4, SortedKept DEF OrderInv
  <2>6. FillsOne(k)'
    BY <1>3, <1>7 DEF FillsOne, LiveAssumption
  <2>7. \A j \in Cacher : Remembers(j)' /\ FillsOne(j)'
    <3>1. \A j \in Cacher \ {k} : Remembers(j)' /\ FillsOne(j)'
      BY <1>3, <2>4, CachersKept
    <3>2. QED
      BY <1>4, <2>6, <3>1
  <2>8. ASSUME NEW m \in ListId
        PROVE  \/ lists'[m].items = lists[m].items
               \/ \A d \in Client : client[d].list # m
    BY <2>1, <2>2
  <2>9. \A d \in Client : Unknown(d)' /\ Ahead(d)' /\ Taken(d)'
    BY <1>3, <2>1, <2>3, <2>4, <2>8, ClientsKept
  <2>10. QED
    BY <2>5, <2>7, <2>9 DEF OrderInv
<1>8. QED
    BY <1>2, <1>6, <1>7

\* A dropped front is older than what is left.
LEMMA OrderTrim ==
    ASSUME LiveAssumption, OrderInv, TypeInv', NEW k \in Cacher, Trim(k)
    PROVE  OrderInv'
<1>0. PICK l : cacher[k].list = l
    OBVIOUS
<1>1. /\ cacher \in [Cacher -> CacherRec] /\ cacher[k] \in CacherRec
      /\ Remembers(k) /\ FillsOne(k)
      /\ client \in [Client -> ClientRec]
      /\ UNCHANGED stream /\ UNCHANGED gih /\ cacher[k].pc = "trim"
    BY DEF OrderInv, TypeInv, TypeOK, Trim
<1>2. \/ /\ l \in ListId /\ lists[l].items # <<>> /\ DropFronts(l, k, 1)
         /\ client' = Unlinked(l) /\ UNCHANGED cacher
      \/ cacher' = [cacher EXCEPT ![k].pc = "push"] /\ UNCHANGED <<lists, client>>
  <2>1. DropFronts(cacher[k].list, k, 1) => DropFronts(l, k, 1)
    BY <1>0
  <2>2. Unlinked(cacher[k].list) = Unlinked(l)
    BY <1>0
  <2>3. l \in ListId
    BY <1>0, <1>1 DEF Remembers
  <2>4. QED
    BY <1>0, <2>1, <2>2, <2>3 DEF Trim
<1>3. CASE cacher' = [cacher EXCEPT ![k].pc = "push"] /\ UNCHANGED <<lists, client>>
  <2>1. /\ cacher'[k].pc = "push" /\ cacher'[k].list = cacher[k].list
        /\ cacher'[k].batch = cacher[k].batch
    BY <1>1, <1>3 DEF CacherRec
  <2>2. BatchOf(k)' = BatchOf(k) /\ \A m \in ListId : Fills(k, m)' => Fills(k, m)
    BY <1>1, <2>1 DEF BatchOf, Fills
  <2>3. Remembers(k)'
    BY <1>1, <2>1, <2>2 DEF Remembers
  <2>4. \A m \in ListId : Shown(m)' = Shown(m)
    BY <1>3 DEF Shown
  <2>5. FillsOne(k)'
    BY <1>1, <2>2, <2>4 DEF FillsOne
  <2>6. \A m \in ListId : Fills(k, m)' => m \in Live
    BY <2>2 DEF Live
  <2>7. QED
    BY <1>1, <1>3, <2>3, <2>5, <2>6, OrderGoroutine
<1>4. CASE /\ l \in ListId /\ lists[l].items # <<>> /\ DropFronts(l, k, 1)
           /\ client' = Unlinked(l) /\ UNCHANGED cacher
  <2>1. 1 \in Nat /\ 1 > 0 /\ 1 <= Len(lists[l].items)
    BY <1>4, FrameNumbers, EmptySeq DEF OrderInv
  <2>2. /\ \A m \in ListId : Shown(m)' \subseteq Shown(m) /\ Rising(lists'[m].items)
        /\ \A m \in ListId \ {l} : lists'[m] = lists[m]
        /\ Above(Shown(l)', Head(lists[l].items))
    BY <1>4, <2>1, DropFrontsShown DEF OrderInv
  <2>3. Live' = Live
    BY <1>1, <1>4 DEF Live, Fills
  <2>4. Less
    BY <1>1, <2>2, <2>3 DEF Less
  <2>5. Sorted' /\ gih'.deviceMap <= stream'.last
    BY <1>1, <2>4, SortedKept DEF OrderInv
  <2>6. \A j \in Cacher : Remembers(j)' /\ FillsOne(j)'
    BY <1>1, <1>4, <2>4, CachersKept
  <2>7. ASSUME NEW d \in Client
        PROVE  /\ client'[d].pc = client[d].pc /\ client'[d].list = client[d].list
               /\ client'[d].front = client[d].front /\ client'[d].sent = client[d].sent
               /\ client[d].list = l => ~client'[d].linked
               /\ client[d].list # l => client'[d] = client[d]
    <3>1. client[d] \in ClientRec /\ client'[d] = Unlinked(l)[d]
      BY <1>1, <1>4
    <3>2. CASE client[d].list = l
      <4>1. client'[d] = [client[d] EXCEPT !.linked = FALSE]
        BY <3>1, <3>2 DEF Unlinked
      <4>2. QED
        BY <3>1, <3>2, <4>1 DEF ClientRec
    <3>3. CASE client[d].list # l
      <4>1. client'[d] = client[d]
        BY <3>1, <3>3 DEF Unlinked
      <4>2. QED
        BY <3>3, <4>1
    <3>4. QED
      BY <3>2, <3>3
  <2>8. ASSUME NEW d \in Client PROVE Unknown(d)' /\ Ahead(d)' /\ Taken(d)'
    <3>1. Ahead(d)'
      BY <2>4, <2>7, AheadKept DEF KeepsList
    <3>2. Taken(d)'
      <4>1. ASSUME NEW m \in ListId, client'[d].pc = "take", client'[d].list = m
            PROVE  /\ client[d].pc = "take" /\ client[d].list = m
                   /\ client'[d].front = client[d].front /\ client'[d].sent = client[d].sent
                   /\ IF client'[d].linked
                      THEN client[d].linked /\ lists'[m].items = lists[m].items
                      ELSE ~client[d].linked \/ Above(Shown(m)', client[d].front)
        <5>1. CASE m = l
          <6>1. client[d].linked => client[d].front = Head(lists[l].items)
            BY <2>7, <4>1, <5>1 DEF OrderInv, Taken
          <6>2. QED
            BY <2>2, <2>7, <4>1, <5>1, <6>1
        <5>2. CASE m # l
          <6>1. client'[d] = client[d] /\ lists'[m] = lists[m]
            BY <2>2, <2>7, <4>1, <5>2
          <6>2. ~client[d].linked \/ client'[d].linked
            BY <6>1
          <6>3. QED
            BY <4>1, <6>1, <6>2
        <5>3. QED
          BY <5>1, <5>2
      <4>2. QED
        BY <2>4, <4>1, TakenKept
    <3>3. Unknown(d)'
      <4>1. ASSUME NEW m \in ListId, client'[d].pc = "new", client'[d].list = m
            PROVE  /\ Shown(m) = {} /\ m \notin Live
                   /\ \A e \in Client \ {d} : client[e].list # m
        BY <2>7, <4>1 DEF OrderInv, Unknown
      <4>2. QED
        BY <2>2, <2>3, <2>7, <4>1 DEF Unknown
    <3>4. QED
      BY <3>1, <3>2, <3>3
  <2>9. QED
    BY <2>5, <2>6, <2>8 DEF OrderInv
<1>5. QED
    BY <1>2, <1>3, <1>4

\* Rising sequences joined, if the second one is above the first.
LEMMA Joined ==
    ASSUME NEW s \in Seq(Nat), NEW t \in Seq(Nat), NEW d \in Nat, Rising(s), Rising(t),
           \A i \in 1..Len(s) : s[i] <= d, \A i \in 1..Len(t) : t[i] > d
    PROVE  /\ Rising(s \o t)
           /\ {(s \o t)[i] : i \in 1..Len(s \o t)}
                \subseteq {s[i] : i \in 1..Len(s)} \cup {t[i] : i \in 1..Len(t)}
           /\ s # <<>> => s \o t # <<>> /\ Head(s \o t) = Head(s)
<1>0. PICK n \in Nat, m \in Nat, u \in {s \o t} : Len(s) = n /\ Len(t) = m /\ u = s \o t
    BY LenProperties
<1>1. /\ Len(s) = n /\ Len(t) = m /\ u = s \o t /\ Len(u) = n + m
      /\ \A i \in 1..n : u[i] = s[i]
      /\ \A i \in (n + 1)..(n + m) : u[i] = t[i - n]
  <2>1. /\ Len(u) = n + m
        /\ \A i \in 1..(n + m) : u[i] = IF i <= n THEN s[i] ELSE t[i - n]
    BY <1>0, ConcatProperties
  <2>2. QED
    BY <1>0, <2>1
<1>2. \A i \in 1..(n + m) : i \in 1..n \/ i \in (n + 1)..(n + m)
    OBVIOUS
<1>3. \A i \in (n + 1)..(n + m) : i - n \in 1..m
    OBVIOUS
<1>4. /\ \A i \in 1..n : s[i] \in Nat /\ s[i] <= d
      /\ \A i \in 1..m : t[i] \in Nat /\ t[i] > d
    BY <1>1, ElementOfSeq
<1>5. ASSUME NEW i \in 1..(n + m), NEW j \in 1..(n + m), i < j PROVE u[i] < u[j]
  <2>1. CASE i \in 1..n /\ j \in 1..n
    BY <1>1, <1>5, <2>1 DEF Rising
  <2>2. CASE i \in 1..n /\ j \in (n + 1)..(n + m)
    <3>1. PICK x, y : x = u[i] /\ y = u[j]
      OBVIOUS
    <3>2. x \in Nat /\ x <= d /\ y \in Nat /\ y > d
      BY <1>1, <1>3, <1>4, <2>2, <3>1
    <3>3. QED
      BY <3>1, <3>2
  <2>3. CASE i \in (n + 1)..(n + m) /\ j \in (n + 1)..(n + m)
    <3>1. i - n \in 1..m /\ j - n \in 1..m /\ i - n < j - n
      BY <1>3, <1>5, <2>3
    <3>2. u[i] = t[i - n] /\ u[j] = t[j - n]
      BY <1>1, <2>3
    <3>3. t[i - n] < t[j - n]
      BY <1>1, <3>1 DEF Rising
    <3>4. QED
      BY <3>2, <3>3
  <2>4. QED
    BY <1>2, <1>5, <2>1, <2>2, <2>3
<1>6. Rising(u)
    BY <1>1, <1>5 DEF Rising
<1>7. \A i \in 1..(n + m) : u[i] \in {s[k] : k \in 1..n} \cup {t[k] : k \in 1..m}
  <2>1. \A i \in 1..n : u[i] \in {s[k] : k \in 1..n}
    BY <1>1
  <2>2. \A i \in (n + 1)..(n + m) : u[i] \in {t[k] : k \in 1..m}
    BY <1>1, <1>3
  <2>3. QED
    BY <1>2, <2>1, <2>2
<1>8. s # <<>> => u # <<>> /\ Head(u) = Head(s)
  <2> SUFFICES ASSUME s # <<>> PROVE u # <<>> /\ Head(u) = Head(s)
    OBVIOUS
  <2>1. n >= 1 /\ Head(s) = s[1]
    BY <1>1, EmptySeq
  <2>2. u \in Seq(Nat) /\ u # <<>> /\ Head(u) = u[1]
    BY <1>1, <2>1, EmptySeq
  <2>3. QED
    BY <1>1, <2>1, <2>2
<1>9. QED
    BY <1>1, <1>6, <1>7, <1>8

\* Frames that are pushed are newer than all that was pushed before.
LEMMA OrderPush ==
    ASSUME LiveAssumption, OrderInv, CopiedByOne, TypeInv', NEW k \in Cacher, Push(k)
    PROVE  OrderInv'
<1>0. PICK l \in ListId, b \in Seq(Nat), old \in Seq(Nat) :
         cacher[k].list = l /\ cacher[k].batch = b /\ lists[l].items = old
  <2>1. cacher[k].list \in ListId /\ cacher[k].batch \in Seq(Nat)
    BY FrameNumbers DEF OrderInv, Remembers, Push
  <2>2. lists[cacher[k].list].items \in Seq(Nat)
    BY <2>1, FrameNumbers DEF OrderInv
  <2>3. QED
    BY <2>1, <2>2
<1>1. /\ cacher \in [Cacher -> CacherRec] /\ cacher[k] \in CacherRec
      /\ lists \in [ListId -> ListRec] /\ gih \in GihRec
      /\ Remembers(k) /\ FillsOne(k) /\ cacher[k].pc = "push" /\ Fills(k, l)
      /\ b # <<>>
      /\ gih.deviceMap \in Nat /\ BatchOf(k) \subseteq Nat
    BY <1>0, FrameNumbers DEF OrderInv, TypeInv, TypeOK, Held, Push, Fills
<1>2. /\ UNCHANGED stream /\ UNCHANGED client
      /\ gih'.realtimeCache = gih.realtimeCache /\ gih'.deviceMap = b[Len(b)]
      /\ cacher'[k].pc = "store" /\ cacher'[k].list = l
      /\ \A j \in Cacher \ {k} : cacher'[j].pc = "off"
    BY <1>0, <1>1 DEF Push, GihRec, CacherRec, Remembered, CopiedByOne
<1>3. /\ \A m \in ListId \ {l} : lists'[m] = lists[m]
      /\ lists'[l].items = old \/ lists'[l].items = old \o b
    BY <1>0, <1>1 DEF Push
<1>4. /\ Len(b) \in Nat /\ Len(b) \in 1..Len(b) /\ Rising(b)
      /\ \A i \in 1..Len(b) : b[i] \in Nat /\ b[i] > gih.deviceMap /\ b[i] <= b[Len(b)]
      /\ b[Len(b)] <= stream.last
  <2>1. Len(b) \in Nat /\ Len(b) \in 1..Len(b) /\ \A i \in 1..Len(b) : b[i] \in Nat
    <3>1. Len(b) \in Nat /\ Len(b) # 0
      BY <1>1, EmptySeq
    <3>2. QED
      BY <3>1, ElementOfSeq
  <2>2. /\ Rising(b) /\ Above(BatchOf(k), gih.deviceMap) /\ UpTo(BatchOf(k), stream.last)
    BY <1>0, <1>1 DEF Remembers
  <2>3. \A i \in 1..Len(b) : b[i] \in BatchOf(k)
    BY <1>0 DEF BatchOf
  <2>4. \A i \in 1..Len(b) : b[i] > gih.deviceMap /\ b[i] <= stream.last
    BY <2>2, <2>3 DEF Above, UpTo
  <2>5. \A i \in 1..Len(b) : b[i] <= b[Len(b)]
    <3> SUFFICES ASSUME NEW i \in 1..Len(b) PROVE b[i] <= b[Len(b)]
      OBVIOUS
    <3>1. CASE i = Len(b)
      BY <2>1, <3>1
    <3>2. CASE i # Len(b)
      <4>1. i < Len(b)
        BY <2>1, <3>2
      <4>2. b[i] < b[Len(b)] /\ b[i] \in Nat /\ b[Len(b)] \in Nat
        BY <2>1, <2>2, <4>1 DEF Rising
      <4>3. QED
        BY <4>2
    <3>3. QED
      BY <3>1, <3>2
  <2>6. QED
    BY <2>1, <2>2, <2>4, <2>5
<1>5. gih'.deviceMap \in Nat /\ gih.deviceMap < gih'.deviceMap
    BY <1>1, <1>2, <1>4
<1>6. Len(old) \in Nat /\ \A i \in 1..Len(old) : old[i] \in Nat /\ old[i] <= gih.deviceMap
  <2>1. \A i \in 1..Len(old) : old[i] \in Shown(l)
    BY <1>0 DEF Shown
  <2>2. \A x \in Shown(l) : x <= gih.deviceMap
    BY DEF OrderInv, Sorted, UpTo
  <2>3. Len(old) \in Nat /\ \A i \in 1..Len(old) : old[i] \in Nat
    BY ElementOfSeq
  <2>4. QED
    BY <2>1, <2>2, <2>3
<1>7. /\ Rising(old) /\ Rising(old \o b)
      /\ {(old \o b)[i] : i \in 1..Len(old \o b)}
            \subseteq {old[i] : i \in 1..Len(old)} \cup {b[i] : i \in 1..Len(b)}
      /\ old # <<>> => old \o b # <<>> /\ Head(old \o b) = Head(old)
  <2>1. Rising(old)
    BY <1>0 DEF OrderInv, Sorted
  <2>2. QED
    BY <1>1, <1>4, <1>6, <2>1, Joined
<1>9. Rising(lists'[l].items)
    BY <1>3, <1>7
<1>10. /\ Shown(l)' \subseteq Shown(l) \cup {b[i] : i \in 1..Len(b)}
       /\ \A m \in ListId \ {l} : Shown(m)' = Shown(m)
  <2>1. Shown(l) = {old[i] : i \in 1..Len(old)}
    BY <1>0 DEF Shown
  <2>2. Shown(l)' = {lists'[l].items[i] : i \in 1..Len(lists'[l].items)}
    BY DEF Shown
  <2>3. \A m \in ListId \ {l} : Shown(m)' = Shown(m)
    BY <1>3 DEF Shown
  <2>4. CASE lists'[l].items = old
    <3>1. Shown(l)' = Shown(l)
      BY <2>1, <2>2, <2>4
    <3>2. QED
      BY <2>3, <3>1
  <2>5. CASE lists'[l].items = old \o b
    <3>1. Shown(l)' = {(old \o b)[i] : i \in 1..Len(old \o b)}
      BY <2>2, <2>5
    <3>2. QED
      BY <1>7, <2>1, <2>3, <3>1
  <2>6. QED
    BY <1>3, <2>4, <2>5
<1>11. ASSUME NEW f \in Nat, f <= gih.deviceMap, Above(Shown(l), f) PROVE Above(Shown(l)', f)
  <2>1. \A i \in 1..Len(b) : b[i] > f
    BY <1>1, <1>4, <1>11
  <2>2. QED
    BY <1>10, <1>11, <2>1 DEF Above
<1>12. Live' \subseteq Live /\ Live \subseteq ListId
    BY <1>1, <1>2 DEF Live, Fills
<1>13. \A m \in Live \ {l} : Shown(m) = {}
  <2> SUFFICES ASSUME NEW m \in ListId, m \in Live, m # l PROVE Shown(m) = {}
    BY <1>12
  <2>1. gih.realtimeCache = m
    BY <1>1, <1>0 DEF Live, Fills, CopiedByOne
  <2>2. QED
    BY <1>1, <2>1 DEF FillsOne
<1>14. Sorted'
  <2>1. UpTo(Shown(l)', gih'.deviceMap)
    <3>1. UpTo(Shown(l), gih.deviceMap) /\ Shown(l) \subseteq Nat
      BY FrameNumbers DEF OrderInv, Sorted
    <3>2. UpTo(Shown(l), gih'.deviceMap)
      BY <1>1, <1>5, <3>1 DEF UpTo
    <3>3. QED
      BY <1>2, <1>4, <1>10, <3>2 DEF UpTo
  <2>2. ASSUME NEW m \in ListId \ {l}
        PROVE  Rising(lists'[m].items) /\ UpTo(Shown(m)', gih'.deviceMap)
    <3>1. UpTo(Shown(m), gih.deviceMap) /\ Shown(m) \subseteq Nat /\ Rising(lists[m].items)
      BY FrameNumbers DEF OrderInv, Sorted
    <3>2. UpTo(Shown(m), gih'.deviceMap)
      BY <1>1, <1>5, <3>1 DEF UpTo
    <3>3. QED
      BY <1>3, <1>10, <3>1, <3>2
  <2>3. QED
    BY <1>9, <2>1, <2>2 DEF Sorted
<1>15. ASSUME NEW j \in Cacher PROVE Remembers(j)' /\ FillsOne(j)'
  <2>1. CASE j = k
    <3>1. Remembers(k)'
      BY <1>2 DEF Remembers
    <3>2. FillsOne(k)'
      BY <1>0, <1>1, <1>2, <1>10 DEF FillsOne, Fills
    <3>3. QED
      BY <2>1, <3>1, <3>2
  <2>2. CASE j # k
    BY <1>2, <2>2 DEF Remembers, FillsOne, Fills
  <2>3. QED
    BY <2>1, <2>2
<1>16. ASSUME NEW c \in Client PROVE Unknown(c)' /\ Ahead(c)' /\ Taken(c)'
  <2>1. /\ Unknown(c) /\ Ahead(c) /\ Taken(c) /\ l \in Live
        /\ client[c].sent \in Nat /\ client[c].front \in Nat
    BY <1>1, FrameNumbers DEF OrderInv, Live
  <2>2. Unknown(c)'
    BY <1>2, <1>10, <1>12, <2>1 DEF Unknown
  <2>3. ASSUME NEW m \in ListId, NEW f \in Nat, f <= gih.deviceMap, Above(Shown(m), f)
        PROVE  Above(Shown(m)', f)
    BY <1>10, <1>11, <2>3
  <2>4. Ahead(c)'
    <3>1. client'[c].sent <= gih'.deviceMap /\ client[c].sent <= gih.deviceMap
      <4>1. client[c].sent \in Nat /\ client[c].sent <= gih.deviceMap /\ gih.deviceMap \in Nat
        BY <1>1, <2>1 DEF Ahead
      <4>2. client[c].sent <= gih'.deviceMap
        BY <1>5, <4>1
      <4>3. QED
        BY <1>2, <4>1, <4>2
    <3>2. ASSUME NEW m \in ListId, m \in Live' PROVE Above(Shown(m)', client'[c].sent)
      BY <1>2, <1>12, <2>1, <2>3, <3>1, <3>2 DEF Ahead
    <3>3. ASSUME NEW n \in ListId, client[c].list = n
          PROVE  /\ Above(Shown(n)', client[c].sent)
                 /\ \A m \in Live' \ {n}, x \in Shown(n)' : Above(Shown(m)', x)
      <4>1. Above(Shown(n)', client[c].sent)
        BY <2>1, <2>3, <3>1, <3>3 DEF Ahead
      <4>2. ASSUME NEW m \in ListId, m \in Live', m # n, NEW x \in Shown(n)'
            PROVE  Above(Shown(m)', x)
        <5>1. CASE n = l
          <6>1. Shown(m)' = {}
            BY <1>10, <1>12, <1>13, <4>2, <5>1
          <6>2. QED
            BY <6>1 DEF Above
        <5>2. CASE n # l
          <6>1. x \in Shown(n)
            BY <1>10, <4>2, <5>2
          <6>2. x \in Nat /\ x <= gih.deviceMap /\ Above(Shown(m), x)
            BY <1>12, <2>1, <3>3, <4>2, <6>1, FrameNumbers DEF OrderInv, Sorted, UpTo, Ahead
          <6>3. QED
            BY <2>3, <6>2
        <5>3. QED
          BY <5>1, <5>2
      <4>3. QED
        BY <1>12, <4>1, <4>2
    <3>4. QED
      BY <1>2, <1>12, <3>1, <3>2, <3>3 DEF Ahead
  <2>5. Taken(c)'
    <3> SUFFICES ASSUME NEW n \in ListId, client[c].pc = "take", client[c].list = n
                 PROVE  /\ client[c].front > client[c].sent /\ client[c].front <= gih'.deviceMap
                        /\ \A m \in Live' \ {n} : Above(Shown(m)', client[c].front)
                        /\ IF client[c].linked
                           THEN /\ lists'[n].items # <<>>
                                /\ client[c].front = Head(lists'[n].items)
                           ELSE Above(Shown(n)', client[c].front)
      BY <1>2 DEF Taken
    <3>1. /\ client[c].front > client[c].sent /\ client[c].front <= gih.deviceMap
          /\ \A m \in Live \ {n} : Above(Shown(m), client[c].front)
          /\ IF client[c].linked
             THEN lists[n].items # <<>> /\ client[c].front = Head(lists[n].items)
             ELSE Above(Shown(n), client[c].front)
      BY <2>1 DEF Taken
    <3>2. client[c].front <= gih'.deviceMap
      <4>1. /\ client[c].front \in Nat /\ client[c].front <= gih.deviceMap
            /\ gih.deviceMap \in Nat
        BY <1>1, <2>1, <3>1
      <4>2. QED
        BY <1>5, <4>1
    <3>3. ASSUME NEW m \in ListId, m \in Live', m # n PROVE Above(Shown(m)', client[c].front)
      BY <1>12, <2>1, <2>3, <3>1, <3>3
    <3>4. CASE client[c].linked
      <4>1. CASE n = l
        <5>1. lists'[l].items = old \/ lists'[l].items = old \o b
          BY <1>3
        <5>2. QED
          BY <1>0, <1>7, <1>12, <3>1, <3>2, <3>3, <3>4, <4>1, <5>1
      <4>2. CASE n # l
        BY <1>3, <3>1, <3>2, <3>3, <3>4, <4>2, <1>12
      <4>3. QED
        BY <4>1, <4>2
    <3>5. CASE ~client[c].linked
      <4>1. Above(Shown(n)', client[c].front)
        BY <2>1, <2>3, <3>1, <3>5
      <4>2. QED
        BY <1>12, <3>1, <3>2, <3>3, <3>5, <4>1
    <3>6. QED
      BY <3>4, <3>5
  <2>6. QED
    BY <2>2, <2>4, <2>5
<1>17. gih'.deviceMap <= stream'.last
    BY <1>2, <1>4
<1>18. QED
    BY <1>14, <1>15, <1>16, <1>17 DEF OrderInv

\* The list that was filled becomes the one calls find.
LEMMA OrderStore ==
    ASSUME LiveAssumption, OrderInv, CopiedByOne, TypeInv', NEW k \in Cacher, StoreList(k)
    PROVE  OrderInv'
<1>0. PICK l \in ListId : cacher[k].list = l
    BY DEF OrderInv, Remembers, StoreList
<1>1. /\ cacher \in [Cacher -> CacherRec] /\ gih \in GihRec
      /\ cacher[k].pc = "store" /\ Fills(k, l) /\ l \in Live
    BY <1>0 DEF OrderInv, TypeInv, TypeOK, StoreList, Fills, Live
<1>2. /\ UNCHANGED stream /\ UNCHANGED lists /\ UNCHANGED client
      /\ gih'.realtimeCache = l /\ gih'.deviceMap = gih.deviceMap
      /\ cacher'[k].pc = "top" /\ \A j \in Cacher \ {k} : cacher'[j].pc = "off"
    BY <1>0, <1>1 DEF StoreList, GihRec, OffCacher, CopiedByOne
<1>3. Live' \subseteq Live
    BY <1>1, <1>2 DEF Live, Fills
<1>4. \A m \in ListId : Shown(m)' = Shown(m) /\ Rising(lists'[m].items)
    BY <1>2, SameShown DEF OrderInv
<1>5. Less
    BY <1>2, <1>3, <1>4 DEF Less
<1>6. Sorted' /\ gih'.deviceMap <= stream'.last
    BY <1>2, <1>5, SortedKept DEF OrderInv
<1>7. ASSUME NEW j \in Cacher PROVE Remembers(j)' /\ FillsOne(j)'
  <2>1. cacher'[j].pc \in {"off", "top"}
    BY <1>2
  <2>2. QED
    BY <2>1 DEF Remembers, FillsOne, Fills
<1>8. \A d \in Client : Unknown(d)' /\ Ahead(d)' /\ Taken(d)'
    BY <1>2, <1>3, <1>5, ClientsKept
<1>9. QED
    BY <1>6, <1>7, <1>8 DEF OrderInv

LEMMA OrderStep ==
    LiveAssumption /\ OrderInv /\ CopiedByOne /\ [Next]_vars /\ [~Dies]_vars => OrderInv'
<1> SUFFICES ASSUME LiveAssumption, OrderInv, CopiedByOne, [Next]_vars, [~Dies]_vars
             PROVE  OrderInv'
    OBVIOUS
<1>1. TypeInv'
    BY TypeStep DEF OrderInv
<1>2. CASE UNCHANGED vars \/ Publish \/ Tick
    BY <1>1, <1>2, OrderEnvironment
<1>3. CASE \E c \in Client : Call(c) \/ (Serve(c) /\ ~Panic(c))
  <2>1. PICK c \in Client : Call(c) \/ (Serve(c) /\ ~Panic(c))
    BY <1>3
  <2>2. \/ Call(c) \/ Touch(c) \/ TouchFails(c) \/ Spawn(c)
        \/ Lookup(c) \/ StoreNew(c) \/ Look(c) \/ Take(c)
    BY <2>1 DEF Serve
  <2>3. QED
    BY <1>1, <2>2, OrderCall, OrderLookup, OrderStoreNew, OrderLook, OrderTake
<1>4. CASE \E k \in Cacher : Run(k)
  <2>1. PICK k \in Cacher : Run(k)
    BY <1>4
  <2>2. ~CleanList(k)
    BY DEF CopiedByOne, CleanList
  <2>3. ~DeleteMap(k) /\ ~DeleteQuery(k)
    BY DEF OrderInv, Remembers, DeleteMap, DeleteQuery
  <2>4. \/ Top(k) \/ Check(k) \/ LoadStale(k) \/ XRead(k) \/ XReadFails(k)
        \/ LoadList(k) \/ Trim(k) \/ Push(k) \/ StoreList(k)
    BY <2>1, <2>2, <2>3 DEF Run
  <2>5. QED
    BY <1>1, <2>4, OrderRead, OrderLoad, OrderTrim, OrderPush, OrderStore
<1>5. QED
  <2>1. CASE UNCHANGED vars
    BY <1>2, <2>1
  <2>2. CASE Next /\ ~Dies
    BY <1>2, <1>3, <1>4, <2>2 DEF Next, Dies
  <2>3. QED
    BY <2>1, <2>2

LEMMA TakeSends ==
    ASSUME LiveAssumption, OrderInv, NEW c \in Client, Take(c)
    PROVE  /\ client'[c].sent > client[c].sent /\ client'[c].sent <= stream.last
           /\ client[c].sent \in Nat /\ client'[c].sent \in Nat /\ stream.last \in Nat
<1>1. TypeInv'
    BY TypeStep DEF OrderInv, Next, Serve
<1>2. /\ client'[c].sent > client[c].sent /\ client'[c].sent <= gih.deviceMap
    BY <1>1, OrderTake
<1>3. /\ client[c].sent \in Nat /\ client'[c].sent \in Nat
      /\ gih.deviceMap \in Nat /\ stream.last \in Nat
  <2>1. TypeInv /\ Frame \subseteq Nat /\ client'[c] \in ClientRec
    BY <1>1 DEF OrderInv, TypeInv, TypeOK, Frame, LiveAssumption
  <2>2. QED
    BY <2>1, FrameNumbers DEF ClientRec
<1>4. gih.deviceMap <= stream.last
    BY DEF OrderInv
<1>5. QED
    BY <1>2, <1>3, <1>4

\* Ordered, for any number of clients, and whatever the races do to the
\* lists: while one goroutine copies the stream, its memory is not cleaned and
\* the process does not die, no client is sent a frame twice, or an older one
\* after a newer one.
THEOREM OrderIsKept == Spec /\ []CopiedByOne /\ [][~Dies]_vars => Ordered
<1>1. Init => OrderInv
    BY OrderInit, LiveAssumption
<1>2. OrderInv /\ CopiedByOne /\ [Next]_vars /\ [~Dies]_vars => OrderInv'
    BY OrderStep, LiveAssumption
<1>3. OrderInv => [\A c \in Client : Take(c) => client'[c].sent > client[c].sent]_vars
    BY TakeSends, LiveAssumption
<1>4. QED
    BY <1>1, <1>2, <1>3, PTL DEF Spec, Ordered

\* Only Take sends, and only Publish makes the stream longer.
LEMMA OthersSendNothing ==
    ASSUME LiveAssumption, TypeInv, [Next]_vars, ~Publish, ~ \E c \in Client : Take(c)
    PROVE  stream'.last = stream.last /\ \A d \in Client : client'[d].sent = client[d].sent
<1>1. client \in [Client -> ClientRec]
    BY DEF TypeInv, TypeOK
<1>2. ASSUME NEW d \in Client
      PROVE  Return(d, 0).sent = client[d].sent
    BY DEF Return, IdleClient
<1>3. CASE UNCHANGED vars \/ Tick
    BY <1>3 DEF vars, Tick
<1>4. CASE \E c \in Client : Call(c) \/ Touch(c) \/ Lookup(c) \/ StoreNew(c) \/ Spawn(c)
  <2>1. PICK c \in Client : Call(c) \/ Touch(c) \/ Lookup(c) \/ StoreNew(c) \/ Spawn(c)
    BY <1>4
  <2>2. client[c] \in ClientRec /\ UNCHANGED stream
    BY <1>1, <2>1 DEF Call, Touch, Lookup, StoreNew, Spawn
  <2>3. CASE Call(c)
    BY <1>1, <2>2, <2>3 DEF Call, ClientRec
  <2>4. CASE Touch(c)
    BY <1>1, <2>2, <2>4 DEF Touch, ClientRec
  <2>5. CASE Lookup(c)
    <3>1. \/ client' = [client EXCEPT ![c].list = gih.realtimeCache,
                           ![c].pc = IF client[c].first THEN "spawn" ELSE "look"]
          \/ \E l : client' = [client EXCEPT ![c].list = l, ![c].pc = "new"]
      BY <2>5 DEF Lookup
    <3>2. \E l, p : client' = [client EXCEPT ![c] = [@ EXCEPT !.list = l, !.pc = p]]
      BY <3>1, Zenon
    <3>3. QED
      BY <1>1, <2>2, <3>2 DEF ClientRec
  <2>6. CASE StoreNew(c) \/ Spawn(c)
    BY <1>1, <2>2, <2>6 DEF StoreNew, Spawn, ClientRec
  <2>7. QED
    BY <2>1, <2>3, <2>4, <2>5, <2>6
<1>5. CASE \E c \in Client : TouchFails(c) \/ Look(c) \/ Panic(c)
  <2>1. PICK c \in Client : TouchFails(c) \/ Look(c) \/ Panic(c)
    BY <1>5
  <2>2. client[c] \in ClientRec /\ UNCHANGED stream
    BY <1>1, <2>1 DEF TouchFails, Look, Panic
  <2>3. CASE TouchFails(c)
    BY <1>1, <1>2, <2>2, <2>3 DEF TouchFails
  <2>4. CASE Look(c)
    <3>1. \/ \E f : client' = [client EXCEPT ![c].pc = "take", ![c].front = f, ![c].linked = TRUE]
          \/ client' = [client EXCEPT ![c].try = @ + 1, ![c].pc = "lookup"]
          \/ client' = [client EXCEPT ![c] = Return(c, 0)]
      BY <2>4 DEF Look
    <3>2. CASE \E f : client' = [client EXCEPT ![c].pc = "take", ![c].front = f, ![c].linked = TRUE]
      BY <1>1, <2>2, <3>2 DEF ClientRec
    <3>3. CASE client' = [client EXCEPT ![c].try = @ + 1, ![c].pc = "lookup"]
      BY <1>1, <2>2, <3>3 DEF ClientRec
    <3>4. CASE client' = [client EXCEPT ![c] = Return(c, 0)]
      BY <1>1, <1>2, <2>2, <3>4
    <3>5. QED
      BY <2>2, <3>1, <3>2, <3>3, <3>4
  <2>5. CASE Panic(c)
    BY <1>1, <1>2, <2>2, <2>5 DEF Panic
  <2>6. QED
    BY <2>1, <2>3, <2>4, <2>5
<1>6. CASE \E k \in Cacher : Run(k)
  <2>1. PICK k \in Cacher : Run(k)
    BY <1>6
  <2>2. UNCHANGED stream /\ (UNCHANGED client \/ \E l : client' = Unlinked(l))
    BY <2>1 DEF Run, Top, Check, LoadStale, CleanList, DeleteMap, DeleteQuery, XRead,
                XReadFails, LoadList, Trim, Push, StoreList
  <2>3. \A l : \A d \in Client : Unlinked(l)[d].sent = client[d].sent
    BY <1>1 DEF Unlinked, ClientRec
  <2>4. QED
    BY <2>2, <2>3
<1>7. QED
    BY <1>3, <1>4, <1>5, <1>6 DEF Next, Serve

\* IsFeed: under the same condition the two processes, the lists and the
\* memory they share implement the feed.
THEOREM WatchesFeed == Spec /\ []CopiedByOne /\ [][~Dies]_vars => IsFeed
<1>1. Init => OrderInv
    BY OrderInit, LiveAssumption
<1>2. OrderInv /\ CopiedByOne /\ [Next]_vars /\ [~Dies]_vars => OrderInv'
    BY OrderStep, LiveAssumption
<1>3. Init => Promise!Init
    BY DEF Init, IdleClient, Promise!Init
<1>4. OrderInv /\ [Next]_vars => [Promise!Next]_(Promise!vars)
  <2> SUFFICES ASSUME OrderInv, [Next]_vars PROVE [Promise!Next]_(Promise!vars)
    OBVIOUS
  <2>1. client \in [Client -> ClientRec]
    BY DEF OrderInv, TypeInv, TypeOK
  <2>2. CASE Publish
    <3>1. stream'.last = stream.last + 1 /\ UNCHANGED client
      BY <2>2 DEF Publish
    <3>2. QED
      BY <3>1 DEF Promise!Next, Promise!Produce
  <2>3. CASE \E c \in Client : Take(c)
    <3>1. PICK c \in Client : Take(c)
      BY <2>3
    <3>2. /\ client'[c].sent > client[c].sent /\ client'[c].sent <= stream.last
          /\ client[c].sent \in Nat /\ client'[c].sent \in Nat /\ stream.last \in Nat
      BY <3>1, TakeSends, LiveAssumption
    <3>3. stream' = stream /\ \A d \in Client \ {c} : client'[d].sent = client[d].sent
      <4>1. /\ stream' = stream
            /\ \/ \E l : client' = [Unlinked(l) EXCEPT ![c] = Return(c, client[c].front)]
               \/ client' = [client EXCEPT ![c] = Return(c, client[c].front)]
        BY <3>1 DEF Take
      <4>2. \A l : \A d \in Client : Unlinked(l)[d].sent = client[d].sent
        BY <2>1 DEF Unlinked, ClientRec
      <4>3. \A l : \A d \in Client \ {c} :
               [Unlinked(l) EXCEPT ![c] = Return(c, client[c].front)][d] = Unlinked(l)[d]
        BY DEF Unlinked
      <4>4. CASE \E l : client' = [Unlinked(l) EXCEPT ![c] = Return(c, client[c].front)]
        <5>1. PICK l : client' = [Unlinked(l) EXCEPT ![c] = Return(c, client[c].front)]
          BY <4>4
        <5>2. QED
          BY <4>1, <4>2, <4>3, <5>1
      <4>5. CASE client' = [client EXCEPT ![c] = Return(c, client[c].front)]
        BY <2>1, <4>1, <4>5
      <4>6. QED
        BY <4>1, <4>4, <4>5
    <3>4. client'[c].sent \in (client[c].sent + 1)..stream.last
      BY <3>2
    <3>5. [d \in Client |-> client[d].sent]'
             = [[d \in Client |-> client[d].sent] EXCEPT ![c] = client'[c].sent]
      BY <3>3
    <3>6. Promise!Send(c)
      BY <3>3, <3>4, <3>5 DEF Promise!Send
    <3>7. QED
      BY <3>6 DEF Promise!Next
  <2>4. CASE ~Publish /\ ~ \E c \in Client : Take(c)
    BY <2>4, OthersSendNothing, LiveAssumption DEF OrderInv, Promise!vars
  <2>5. QED
    BY <2>2, <2>3, <2>4
<1>5. QED
    BY <1>1, <1>2, <1>3, <1>4, PTL DEF Spec, IsFeed, Promise!Spec

-----------------------------------------------------------------------------
(* Without races the length of a list is the number of its items, so Front  *)
(* of a list that is not empty is one of them, and nothing panics.          *)

\* A client whose element is still linked looks at a list that is not empty.
Exact ==
    /\ TypeInv
    /\ \A l \in ListId :
         /\ lists[l].len = Len(lists[l].items)
         /\ \A c \in Client :
              client[c].pc = "take" /\ client[c].list = l /\ client[c].linked
                 => lists[l].items # <<>>

LEMMA ExactDrop ==
    ASSUME LiveAssumption, ~ListRaces, Exact, NEW l, NEW self, NEW n \in Nat,
           l \in ListId => n <= Len(lists[l].items), DropFronts(l, self, n)
    PROVE  /\ \A m \in ListId : lists'[m].len = Len(lists'[m].items)
           /\ \A m \in ListId \ {l} : lists'[m] = lists[m]
           /\ n = 0 => \A m \in ListId : lists'[m].items = lists[m].items
<1>1. lists \in [ListId -> ListRec] /\ ~Contended(l, self)
    BY DEF Exact, TypeInv, TypeOK, Contended
<1>2. lists' = [lists EXCEPT ![l] = [items |-> SubSeq(@.items, n + 1, Len(@.items)),
                                     len   |-> @.len - n + 0]]
    BY <1>1 DEF DropFronts
<1>3. CASE l \in ListId
  <2>1. /\ lists[l].items \in Seq(Frame) /\ lists[l].len = Len(lists[l].items)
        /\ Len(lists[l].items) \in Nat
    BY <1>1, <1>3 DEF Exact, ListRec
  <2>2. /\ lists'[l].items = SubSeq(lists[l].items, n + 1, Len(lists[l].items))
        /\ lists'[l].len = lists[l].len - n
        /\ \A m \in ListId \ {l} : lists'[m] = lists[m]
    BY <1>1, <1>2, <1>3, <2>1
  <2>3. Len(SubSeq(lists[l].items, n + 1, Len(lists[l].items))) = Len(lists[l].items) - n
    BY <1>3, <2>1, SubSeqProperties
  <2>4. n = 0 => lists'[l].items = lists[l].items
    BY <2>1, <2>2, SubSeqFull
  <2>5. QED
    BY <2>1, <2>2, <2>3, <2>4 DEF Exact
<1>4. CASE l \notin ListId
    BY <1>1, <1>2, <1>4 DEF Exact
<1>5. QED
    BY <1>3, <1>4

LEMMA ExactSame ==
    ASSUME Exact, TypeInv', UNCHANGED lists,
           \A c \in Client, l \in ListId :
              client'[c].pc = "take" /\ client'[c].list = l /\ client'[c].linked
                 => \/ client[c].pc = "take" /\ client[c].list = l /\ client[c].linked
                    \/ lists[l].items # <<>>
    PROVE  Exact'
    BY DEF Exact

\* A new list is nobody's.
LEMMA ExactNew ==
    ASSUME Exact, TypeInv', NEW l \in FreeLists, lists' = [lists EXCEPT ![l] = NewList],
           \A c \in Client : client'[c] = client[c] \/ client'[c].pc # "take"
    PROVE  Exact'
<1>1. l \in ListId /\ \A c \in Client : client[c].list # l
    BY DEF FreeLists
<1>2. lists'[l] = NewList /\ \A m \in ListId \ {l} : lists'[m] = lists[m]
    BY <1>1 DEF Exact, TypeInv, TypeOK
<1>3. NewList.len = Len(NewList.items)
    BY DEF NewList
<1>4. QED
    BY <1>1, <1>2, <1>3 DEF Exact

\* Whoever removes fronts unlinks them.
LEMMA ExactRemoved ==
    ASSUME LiveAssumption, ~ListRaces, Exact, TypeInv', NEW l, NEW self, NEW n \in Nat,
           l \in ListId => n <= Len(lists[l].items), DropFronts(l, self, n),
           \A c \in Client :
              client'[c].pc = "take" /\ client'[c].linked
                 => /\ client[c].pc = "take" /\ client[c].linked
                    /\ client'[c].list = client[c].list
                    /\ n = 0 \/ client[c].list # l
    PROVE  Exact'
<1>1. /\ \A m \in ListId : lists'[m].len = Len(lists'[m].items)
      /\ \A m \in ListId \ {l} : lists'[m] = lists[m]
      /\ n = 0 => \A m \in ListId : lists'[m].items = lists[m].items
    BY ExactDrop
<1>2. ASSUME NEW m \in ListId, NEW c \in Client,
             client'[c].pc = "take", client'[c].list = m, client'[c].linked
      PROVE  lists'[m].items # <<>>
  <2>1. client[c].pc = "take" /\ client[c].linked /\ client[c].list = m
    BY <1>2
  <2>2. lists[m].items # <<>>
    BY <2>1 DEF Exact
  <2>3. n = 0 \/ m # l
    BY <1>2, <2>1
  <2>4. QED
    BY <1>1, <2>2, <2>3
<1>3. QED
    BY <1>1, <1>2 DEF Exact

LEMMA UnlinkedLinked ==
    ASSUME TypeInv, NEW l, NEW c \in Client, Unlinked(l)[c].pc = "take", Unlinked(l)[c].linked
    PROVE  Unlinked(l)[c] = client[c] /\ client[c].list # l
    BY DEF Unlinked, TypeInv, TypeOK, ClientRec

LEMMA ExactClient ==
    ASSUME LiveAssumption, ~ListRaces, Exact, TypeInv', NEW c \in Client, Call(c) \/ Serve(c)
    PROVE  Exact' /\ ~Panic(c)
<1>1. /\ client \in [Client -> ClientRec] /\ client[c] \in ClientRec /\ TypeInv
      /\ lists \in [ListId -> ListRec]
    BY DEF Exact, TypeInv, TypeOK
<1>2. Return(c, 0).pc = "idle" /\ Return(c, client[c].front).pc = "idle"
    BY DEF Return, IdleClient
<1>3. ~Panic(c)
  <2> SUFFICES ASSUME Panic(c) PROVE FALSE
    OBVIOUS
  <2>1. client[c].list \in ListId
    BY <1>1 DEF Panic, TypeInv, Held
  <2>2. Len(lists[client[c].list].items) > 0 /\ lists[client[c].list].items = <<>>
    BY <2>1 DEF Panic, Exact
  <2>3. QED
    BY <2>2
<1>4. CASE Call(c) \/ Touch(c) \/ TouchFails(c) \/ StoreNew(c) \/ Spawn(c)
  <2>1. UNCHANGED lists /\ \A d \in Client \ {c} : client'[d] = client[d]
    BY <1>1, <1>4 DEF Call, Touch, TouchFails, StoreNew, Spawn
  <2>2. client'[c].pc # "take"
    <3>1. CASE Call(c)
      BY <1>1, <3>1 DEF Call, ClientRec
    <3>2. CASE Touch(c) \/ StoreNew(c) \/ Spawn(c)
      BY <1>1, <3>2 DEF Touch, StoreNew, Spawn, ClientRec
    <3>3. CASE TouchFails(c)
      BY <1>1, <1>2, <3>3 DEF TouchFails
    <3>4. QED
      BY <1>4, <3>1, <3>2, <3>3
  <2>3. QED
    BY <1>3, <2>1, <2>2, ExactSame
<1>5. CASE Lookup(c)
  <2>1. client'[c].pc # "take" /\ \A d \in Client \ {c} : client'[d] = client[d]
    <3>1. \E l, p : p # "take" /\ client' = [client EXCEPT ![c] = [@ EXCEPT !.list = l, !.pc = p]]
      <4>1. \/ client' = [client EXCEPT ![c].list = gih.realtimeCache,
                             ![c].pc = IF client[c].first THEN "spawn" ELSE "look"]
            \/ \E l : client' = [client EXCEPT ![c].list = l, ![c].pc = "new"]
        BY <1>5 DEF Lookup
      <4>2. (IF client[c].first THEN "spawn" ELSE "look") # "take" /\ "new" # "take"
        OBVIOUS
      <4>3. QED
        BY <4>1, <4>2, Zenon
    <3>2. QED
      BY <1>1, <3>1 DEF ClientRec
  <2>2. UNCHANGED lists \/ \E l \in FreeLists : lists' = [lists EXCEPT ![l] = NewList]
    BY <1>5 DEF Lookup
  <2>3. QED
    BY <1>3, <2>1, <2>2, ExactSame, ExactNew
<1>6. CASE Look(c)
  <2>1. PICK l : client[c].list = l
    OBVIOUS
  <2>2. UNCHANGED lists /\ \A d \in Client \ {c} : client'[d] = client[d]
    BY <1>1, <1>6 DEF Look
  <2>3. client'[c].pc = "take" => client'[c].list = l /\ lists[l].items # <<>>
    BY <1>1, <1>2, <1>6, <2>1 DEF Look, ClientRec
  <2>4. QED
    BY <1>3, <2>2, <2>3, ExactSame
<1>7. CASE Take(c)
  <2>1. PICK l \in ListId : client[c].list = l
    BY <1>1, <1>7 DEF Take, TypeInv, Held
  <2>2. CASE client[c].linked
    <3>1. /\ DropFronts(l, c, 1)
          /\ client' = [Unlinked(l) EXCEPT ![c] = Return(c, client[c].front)]
      BY <1>7, <2>1, <2>2 DEF Take, DropFronts, Unlinked
    <3>2. 1 \in Nat /\ 1 <= Len(lists[l].items)
      BY <1>1, <1>7, <2>1, <2>2, EmptySeq DEF Take, Exact, ListRec
    <3>3. /\ client'[c] = Return(c, client[c].front)
          /\ \A d \in Client \ {c} : client'[d] = Unlinked(l)[d]
      BY <3>1 DEF Unlinked
    <3>4. ASSUME NEW d \in Client, client'[d].pc = "take", client'[d].linked
          PROVE  client'[d] = client[d] /\ client[d].list # l
      BY <1>1, <1>2, <3>3, <3>4, UnlinkedLinked
    <3>5. QED
      BY <1>3, <3>1, <3>2, <3>4, ExactRemoved
  <2>3. CASE ~client[c].linked
    <3>1. /\ lists' = [lists EXCEPT ![l].len = @ - 0]
          /\ client' = [client EXCEPT ![c] = Return(c, client[c].front)]
      BY <1>7, <2>1, <2>3 DEF Take
    <3>2. \A m \in ListId : lists'[m].len = lists[m].len /\ lists'[m].items = lists[m].items
      BY <1>1, <3>1 DEF ListRec
    <3>3. client'[c].pc # "take" /\ \A d \in Client \ {c} : client'[d] = client[d]
      BY <1>1, <1>2, <3>1
    <3>4. QED
      BY <1>3, <3>2, <3>3 DEF Exact
  <2>4. QED
    BY <2>2, <2>3
<1>8. QED
    BY <1>3, <1>4, <1>5, <1>6, <1>7 DEF Serve

LEMMA ExactCacher ==
    ASSUME LiveAssumption, ~ListRaces, Exact, TypeInv', NEW k \in Cacher, Run(k)
    PROVE  Exact'
<1>1. /\ client \in [Client -> ClientRec] /\ cacher \in [Cacher -> CacherRec] /\ TypeInv
      /\ lists \in [ListId -> ListRec]
    BY DEF Exact, TypeInv, TypeOK
<1>2. PICK l : cacher[k].list = l
    OBVIOUS
<1>3. ASSUME NEW n \in Nat, l \in ListId => n <= Len(lists[l].items), DropFronts(l, k, n),
             client' = IF n > 0 THEN Unlinked(l) ELSE client
      PROVE  Exact'
  <2>1. ASSUME NEW c \in Client, client'[c].pc = "take", client'[c].linked
        PROVE  client'[c] = client[c] /\ (n = 0 \/ client[c].list # l)
    <3>1. CASE n > 0
      BY <1>1, <1>3, <2>1, <3>1, UnlinkedLinked
    <3>2. CASE ~(n > 0)
      BY <1>3, <3>2
    <3>3. QED
      BY <3>1, <3>2
  <2>2. QED
    BY <1>3, <2>1, ExactRemoved
<1>4. CASE \/ Top(k) \/ Check(k) \/ LoadStale(k) \/ DeleteMap(k) \/ DeleteQuery(k)
           \/ XRead(k) \/ XReadFails(k) \/ StoreList(k)
  <2>1. UNCHANGED lists /\ UNCHANGED client
    BY <1>4 DEF Top, Check, LoadStale, DeleteMap, DeleteQuery, XRead, XReadFails, StoreList
  <2>2. QED
    BY <2>1, ExactSame
<1>5. CASE LoadList(k)
  <2>1. UNCHANGED client
    BY <1>5 DEF LoadList
  <2>2. UNCHANGED lists \/ \E m \in FreeLists : lists' = [lists EXCEPT ![m] = NewList]
    BY <1>5 DEF LoadList
  <2>3. QED
    BY <2>1, <2>2, ExactSame, ExactNew
<1>6. CASE CleanList(k)
  <2> DEFINE half == Greatest((lists[l].len - CacheLen + 1) \div 2, 0)
             n == Least(half, Len(lists[l].items))
  <2>1. DropFronts(l, k, n) /\ client' = IF n > 0 THEN Unlinked(l) ELSE client
    BY <1>2, <1>6 DEF CleanList, DropFronts, Unlinked
  <2>2. CASE l \in ListId
    <3>1. /\ lists[l].len \in Int /\ Len(lists[l].items) \in Nat /\ CacheLen \in Nat
      BY <1>1, <2>2 DEF ListRec, LiveAssumption
    <3>2. (lists[l].len - CacheLen + 1) \div 2 \in Int
      BY <3>1, Halves
    <3>3. half \in Nat
      BY <3>2, LeastGreatest
    <3>4. n \in Nat /\ n <= Len(lists[l].items)
      <4> HIDE DEF half
      <4>1. n \in {half, Len(lists[l].items)} /\ n <= Len(lists[l].items)
        BY <3>1, <3>3, LeastGreatest
      <4>2. QED
        BY <3>1, <3>3, <4>1
    <3> HIDE DEF n
    <3>5. QED
      BY <1>3, <2>1, <3>4
  <2>3. CASE l \notin ListId
    <3>1. lists' = lists
      BY <1>1, <2>1, <2>3 DEF DropFronts
    <3>2. \A c \in Client : client'[c].pc = "take" /\ client'[c].linked => client'[c] = client[c]
      BY <1>1, <2>1, UnlinkedLinked
    <3>3. QED
      BY <3>1, <3>2, ExactSame
  <2>4. QED
    BY <2>2, <2>3
<1>7. CASE Trim(k)
  <2>1. \/ /\ lists[l].items # <<>> /\ DropFronts(l, k, 1) /\ client' = Unlinked(l)
        \/ UNCHANGED <<lists, client>>
    BY <1>2, <1>7 DEF Trim, DropFronts, Unlinked
  <2>2. CASE UNCHANGED <<lists, client>>
    BY <2>2, ExactSame
  <2>3. CASE lists[l].items # <<>> /\ DropFronts(l, k, 1) /\ client' = Unlinked(l)
    <3>1. l \in ListId => 1 <= Len(lists[l].items)
      BY <1>1, <2>3, EmptySeq DEF ListRec
    <3>2. 1 \in Nat /\ client' = IF 1 > 0 THEN Unlinked(l) ELSE client
      BY <2>3
    <3>3. QED
      BY <1>3, <2>3, <3>1, <3>2
  <2>4. QED
    BY <2>1, <2>2, <2>3
<1>8. CASE Push(k)
  <2> DEFINE b == cacher[k].batch
  <2>1. b \in Seq(Frame) /\ b # <<>> /\ UNCHANGED client
    BY <1>1, <1>8 DEF Push, CacherRec, TypeInv, Held
  <2>2. lists' = [lists EXCEPT ![l] = [items |-> @.items \o b, len |-> @.len + Len(b)]]
    BY <1>2, <1>8 DEF Push, Contended
  <2>3. ASSUME NEW m \in ListId
        PROVE  /\ lists'[m].len = Len(lists'[m].items)
               /\ lists[m].items # <<>> => lists'[m].items # <<>>
    <3>1. lists[m].items \in Seq(Frame) /\ lists[m].len = Len(lists[m].items)
      BY <1>1 DEF ListRec, Exact
    <3>2. CASE m = l
      <4>1. lists'[m].items = lists[m].items \o b /\ lists'[m].len = lists[m].len + Len(b)
        BY <1>1, <2>2, <3>2
      <4>2. Len(lists[m].items \o b) = Len(lists[m].items) + Len(b)
        BY <2>1, <3>1, ConcatProperties
      <4>3. Len(b) > 0 /\ Len(lists[m].items) \in Nat /\ Len(b) \in Nat
        BY <2>1, <3>1, EmptySeq
      <4>4. lists[m].items \o b # <<>>
        BY <4>2, <4>3
      <4>5. QED
        BY <3>1, <4>1, <4>2, <4>4
    <3>3. CASE m # l
      BY <1>1, <2>2, <3>1, <3>3
    <3>4. QED
      BY <3>2, <3>3
  <2>4. QED
    BY <2>1, <2>3 DEF Exact
<1>9. QED
    BY <1>4, <1>5, <1>6, <1>7, <1>8 DEF Run

\* If no list operations overlap, Front never meets the sentinel, so no call
\* panics and the process does not die.
THEOREM SerialListsLive == ~ListRaces => (Spec => [][~Dies]_vars)
<1> SUFFICES ASSUME ~ListRaces PROVE Spec => [][~Dies]_vars
    OBVIOUS
<1>1. Init => Exact
  <2> SUFFICES ASSUME Init PROVE Exact
    OBVIOUS
  <2>1. TypeInv
    BY TypeInit, LiveAssumption
  <2>2. NewList.len = Len(NewList.items) /\ IdleClient.pc = "idle"
    BY DEF NewList, IdleClient
  <2>3. QED
    BY <2>1, <2>2 DEF Init, Exact
<1>2. Exact /\ [Next]_vars => Exact'
  <2> SUFFICES ASSUME Exact, [Next]_vars PROVE Exact'
    OBVIOUS
  <2>1. TypeInv'
    BY TypeStep, LiveAssumption DEF Exact
  <2>2. CASE UNCHANGED vars \/ Publish \/ Tick
    <3>1. UNCHANGED lists /\ UNCHANGED client
      BY <2>2 DEF vars, Publish, Tick
    <3>2. QED
      BY <2>1, <3>1, ExactSame
  <2>3. QED
    BY <2>1, <2>2, ExactClient, ExactCacher, LiveAssumption DEF Next
<1>3. Exact /\ [Next]_vars => [~Dies]_vars
  <2> SUFFICES ASSUME Exact, [Next]_vars, Dies PROVE FALSE
    OBVIOUS
  <2>1. TypeInv'
    BY TypeStep, LiveAssumption DEF Exact
  <2>2. PICK c \in Client : Panic(c)
    BY DEF Dies
  <2>3. QED
    BY <2>1, <2>2, ExactClient, LiveAssumption DEF Serve
<1>4. QED
    BY <1>1, <1>2, <1>3, PTL DEF Spec

\* So without races one goroutine, whose memory is not cleaned, is enough for
\* every client to watch the feed.
COROLLARY SerialFeed == ~ListRaces => (Spec /\ []CopiedByOne => Ordered /\ IsFeed)
    BY SerialListsLive, OrderIsKept, WatchesFeed
=============================================================================
