----------------------------- MODULE LiveCache -----------------------------
(***************************************************************************)
(* The live video path of the gRPC server, server/grpcapi/grpc_api.go:     *)
(* VideoLatestImage, the handler a client polls for the newest frame, and  *)
(* cacheLiveVideo, the goroutine that copies a camera's redis stream into  *)
(* an in-process list.  Every field of the handler is a sync.Map keyed by  *)
(* the device, so one device is modelled.  A frame is its position in the  *)
(* stream, 1, 2, ...; 0 is the stream id "0", and the empty reply.         *)
(*                                                                         *)
(* container/list has no lock: with ListRaces, an operation that overlaps  *)
(* another goroutine's on the same list may lose its update of the length, *)
(* or of the links when the list holds at most one element.                *)
(***************************************************************************)
EXTENDS Integers, Sequences, FiniteSets

CONSTANTS
    Client,       \* the clients that poll this device
    Cacher,       \* bound: goroutines that may run cacheLiveVideo at a time
    ListId,       \* bound: the list.List objects in use at a time
    NoList,       \* the absence of a list
    CacheLen,     \* 10: the cacher drops frames until fewer are left
    ReadCount,    \* 10: COUNT of the cacher's XREAD
    StreamLen,    \* 10: MAXLEN of the camera's XADD
    Tries,        \* 3: rounds of the handler's loop
    RefreshAfter, \* 5 s: age at which the query time is written again
    IdleAfter,    \* 10 s: age at which caching stops
    ListRaces,    \* whether overlapping list operations may race
    MaxFrame,     \* bound: frames the camera publishes
    LastCall,     \* bound: clients start no call after this time
    MaxTime       \* bound: the clock stops here

ASSUME LiveAssumption ==
    /\ NoList \notin ListId /\ IsFiniteSet(Cacher)
    /\ {CacheLen, ReadCount, StreamLen, Tries} \subseteq Nat \ {0}
    /\ {RefreshAfter, IdleAfter, MaxFrame, LastCall, MaxTime} \subseteq Nat
    /\ IdleAfter < MaxTime
    /\ ListRaces \in BOOLEAN

VARIABLES
    now,     \* time.Now()
    stream,  \* the redis stream of the device holds oldest..last
    gih,     \* the device's entries in grpcImageHandler, 0 or NoList if absent
    lists,   \* the list objects: the linked items and the len field
    cacher,  \* the goroutines running cacheLiveVideo
    client   \* the calls of VideoLatestImage, and the last frame sent

vars == <<now, stream, gih, lists, cacher, client>>

Frame == 0..MaxFrame
NewList == [items |-> <<>>, len |-> 0]
NewGih == [realtimeCache |-> NoList, deviceMap |-> 0, queryTime |-> 0]
OffCacher == [pc |-> "off", lastTs |-> 0, list |-> NoList, batch |-> <<>>]
IdleClient == [pc |-> "idle", t |-> 0, try |-> 0, first |-> FALSE,
               list |-> NoList, front |-> 0, linked |-> FALSE, sent |-> 0]

GihRec == [realtimeCache : ListId \cup {NoList}, deviceMap : Frame, queryTime : 0..MaxTime]
ListRec == [items : Seq(Frame), len : Int]
CacherRec ==
    [pc : {"off", "top", "check", "read", "load", "trim", "push", "store",
           "stale", "clean", "delMap", "delQuery"},
     lastTs : Frame, list : ListId \cup {NoList}, batch : Seq(Frame)]
ClientRec ==
    [pc : {"idle", "touch", "lookup", "new", "spawn", "look", "take"},
     t : 0..MaxTime, try : 0..(Tries - 1), first : BOOLEAN,
     list : ListId \cup {NoList}, front : Frame, linked : BOOLEAN, sent : Frame]

TypeOK ==
    /\ now \in 0..MaxTime
    /\ stream \in [last : Frame, oldest : Nat]
    /\ gih \in GihRec
    /\ lists \in [ListId -> ListRec]
    /\ cacher \in [Cacher -> CacherRec]
    /\ client \in [Client -> ClientRec]

Init ==
    /\ now = IdleAfter + 1          \* an absent query time is long past
    /\ stream = [last |-> 0, oldest |-> 1]
    /\ gih = NewGih
    /\ lists = [l \in ListId |-> NewList]
    /\ cacher = [k \in Cacher |-> OffCacher]
    /\ client = [c \in Client |-> IdleClient]

Least(a, b)    == IF a < b THEN a ELSE b
Greatest(a, b) == IF a > b THEN a ELSE b

-----------------------------------------------------------------------------
(* Lists.  Only fronts are removed and pushes go to the back, so an element *)
(* a client has taken as Front is the front until somebody unlinks it.      *)

FreeLists == ListId \ ({gih.realtimeCache} \cup {client[c].list : c \in Client}
                                           \cup {cacher[k].list : k \in Cacher})

\* Another goroutine is inside an operation on list l.
Contended(l, self) ==
    /\ ListRaces
    /\ \/ \E c \in Client \ {self} : client[c].pc = "take" /\ client[c].list = l
       \/ \E k \in Cacher \ {self} :
             cacher[k].pc \in {"trim", "push", "clean"} /\ cacher[k].list = l

\* n fronts of list l are removed; a racing decrement may be lost.
DropFronts(l, self, n) ==
    \E lost \in (IF n > 0 /\ Contended(l, self) THEN {0, 1} ELSE {0}) :
       lists' = [lists EXCEPT ![l] = [items |-> SubSeq(@.items, n + 1, Len(@.items)),
                                      len   |-> @.len - n + lost]]

\* The clients once somebody has removed the front of list l.
Unlinked(l) ==
    [c \in Client |-> IF client[c].list = l
                      THEN [client[c] EXCEPT !.linked = FALSE] ELSE client[c]]

-----------------------------------------------------------------------------
(* The camera's XADD, whose MAXLEN is approximate, and the clock. *)

Publish ==
    /\ stream.last < MaxFrame
    /\ \E o \in stream.oldest..Greatest(stream.oldest, stream.last + 2 - StreamLen) :
          stream' = [last |-> stream.last + 1, oldest |-> o]
    /\ UNCHANGED <<now, gih, lists, cacher, client>>

Tick ==
    /\ now < MaxTime
    /\ now' = now + 1
    /\ UNCHANGED <<stream, gih, lists, cacher, client>>

-----------------------------------------------------------------------------
(* VideoLatestImage *)

Return(c, frame) ==
    [IdleClient EXCEPT !.sent = IF frame = 0 THEN client[c].sent ELSE frame]

Call(c) ==
    /\ client[c].pc = "idle" /\ now <= LastCall
    /\ client' = [client EXCEPT ![c] = IF now - gih.queryTime > RefreshAfter
                     THEN [@ EXCEPT !.pc = "touch", !.t = now]
                     ELSE [@ EXCEPT !.pc = "lookup"]]
    /\ UNCHANGED <<now, stream, gih, lists, cacher>>

\* SET and HSET in redis and then the local copy, or an error from redis.
Touch(c) ==
    /\ client[c].pc = "touch"
    /\ gih' = [gih EXCEPT !.queryTime = client[c].t]
    /\ client' = [client EXCEPT ![c].pc = "lookup", ![c].t = 0]
    /\ UNCHANGED <<now, stream, lists, cacher>>

TouchFails(c) ==
    /\ client[c].pc = "touch"
    /\ client' = [client EXCEPT ![c] = Return(c, 0)]
    /\ UNCHANGED <<now, stream, gih, lists, cacher>>

Lookup(c) ==
    /\ client[c].pc = "lookup"
    /\ IF gih.realtimeCache # NoList
       THEN /\ client' = [client EXCEPT ![c].list = gih.realtimeCache,
                             ![c].pc = IF client[c].first THEN "spawn" ELSE "look"]
            /\ UNCHANGED lists
       ELSE \E l \in FreeLists :
            /\ client' = [client EXCEPT ![c].list = l, ![c].pc = "new"]
            /\ lists' = [lists EXCEPT ![l] = NewList]
    /\ UNCHANGED <<now, stream, gih, cacher>>

\* Mutated: the flag that makes the handler start a goroutine is not set.
StoreSilently(c) ==
    /\ client[c].pc = "new"
    /\ gih' = [gih EXCEPT !.realtimeCache = client[c].list]
    /\ client' = [client EXCEPT ![c].pc = "look"]
    /\ UNCHANGED <<now, stream, lists, cacher>>

\* The Load above and this Store are two operations of the sync.Map.
StoreNew(c) ==
    /\ client[c].pc = "new"
    /\ gih' = [gih EXCEPT !.realtimeCache = client[c].list]
    /\ client' = [client EXCEPT ![c].first = TRUE, ![c].pc = "spawn"]
    /\ UNCHANGED <<now, stream, lists, cacher>>

\* isDeviceFirstRun stays true, so every later round starts one more.
Spawn(c) ==
    /\ client[c].pc = "spawn"
    /\ \E k \in Cacher : /\ cacher[k].pc = "off"
                         /\ cacher' = [cacher EXCEPT ![k].pc = "top"]
    /\ client' = [client EXCEPT ![c].pc = "look"]
    /\ UNCHANGED <<now, stream, gih, lists>>

Look(c) ==
    /\ client[c].pc = "look"
    /\ LET l == lists[client[c].list] IN
       \/ /\ l.len > 0 /\ l.items # <<>>
          /\ client' = [client EXCEPT ![c].pc = "take", ![c].front = Head(l.items),
                                      ![c].linked = TRUE]
       \/ /\ l.len <= 0 /\ client[c].try + 1 < Tries
          /\ client' = [client EXCEPT ![c].try = @ + 1, ![c].pc = "lookup"]
       \/ /\ l.len <= 0 /\ client[c].try + 1 >= Tries
          /\ client' = [client EXCEPT ![c] = Return(c, 0)]
    /\ UNCHANGED <<now, stream, gih, lists, cacher>>

\* Front of a list whose len has run ahead of its items is the sentinel: its
\* nil Value fails the type assertion, and the process dies and is restarted.
Panic(c) ==
    /\ client[c].pc = "look"
    /\ lists[client[c].list].len > 0 /\ lists[client[c].list].items = <<>>
    /\ gih' = NewGih
    /\ lists' = [l \in ListId |-> NewList]
    /\ cacher' = [k \in Cacher |-> OffCacher]
    /\ client' = [d \in Client |-> Return(d, 0)]
    /\ UNCHANGED <<now, stream>>

\* Remove ignores an element somebody has removed, but two that overlap may
\* both pass its check and both decrement.
Take(c) ==
    /\ client[c].pc = "take"
    /\ LET l == client[c].list IN
       IF client[c].linked
       THEN /\ DropFronts(l, c, 1)
            /\ client' = [Unlinked(l) EXCEPT ![c] = Return(c, client[c].front)]
       ELSE /\ \E d \in (IF ListRaces THEN {0, 1} ELSE {0}) :
                  lists' = [lists EXCEPT ![l].len = @ - d]
            /\ client' = [client EXCEPT ![c] = Return(c, client[c].front)]
    /\ UNCHANGED <<now, stream, gih, cacher>>

-----------------------------------------------------------------------------
(* cacheLiveVideo *)

Top(k) ==
    /\ cacher[k].pc = "top"
    /\ cacher' = [cacher EXCEPT ![k].pc = "check", ![k].lastTs = gih.deviceMap]
    /\ UNCHANGED <<now, stream, gih, lists, client>>

\* Mutated: the test for a first read is inverted.
IdleFirst(k) == cacher[k].lastTs = 0 /\ now - gih.queryTime > IdleAfter

Idle(k) == cacher[k].lastTs # 0 /\ now - gih.queryTime > IdleAfter

Check(k) ==
    /\ cacher[k].pc = "check"
    /\ cacher' = [cacher EXCEPT ![k] = IF Idle(k) THEN [OffCacher EXCEPT !.pc = "stale"]
                                              ELSE [@ EXCEPT !.pc = "read"]]
    /\ UNCHANGED <<now, stream, gih, lists, client>>

\* Mutated: an idle cacher stops and cleans nothing.
StopStale(k) ==
    /\ cacher[k].pc = "stale"
    /\ cacher' = [cacher EXCEPT ![k] = OffCacher]
    /\ UNCHANGED <<now, stream, gih, lists, client>>

\* An idle cacher that finds no list stops at once.
LoadStale(k) ==
    /\ cacher[k].pc = "stale"
    /\ cacher' = [cacher EXCEPT ![k] =
          IF gih.realtimeCache = NoList THEN OffCacher
          ELSE [OffCacher EXCEPT !.pc = "clean", !.list = gih.realtimeCache]]
    /\ UNCHANGED <<now, stream, gih, lists, client>>

\* The trim loop's counter and the length meet half way.
CleanList(k) ==
    /\ cacher[k].pc = "clean"
    /\ LET l == cacher[k].list
           half == Greatest((lists[l].len - CacheLen + 1) \div 2, 0)
           n == Least(half, Len(lists[l].items)) IN
       /\ DropFronts(l, k, n)
       /\ client' = IF n > 0 THEN Unlinked(l) ELSE client
    /\ gih' = [gih EXCEPT !.realtimeCache = NoList]
    /\ cacher' = [cacher EXCEPT ![k].pc = "delMap", ![k].list = NoList]
    /\ UNCHANGED <<now, stream>>

DeleteMap(k) ==
    /\ cacher[k].pc = "delMap"
    /\ gih' = [gih EXCEPT !.deviceMap = 0]
    /\ cacher' = [cacher EXCEPT ![k].pc = "delQuery"]
    /\ UNCHANGED <<now, stream, lists, client>>

DeleteQuery(k) ==
    /\ cacher[k].pc = "delQuery"
    /\ gih' = [gih EXCEPT !.queryTime = 0]
    /\ cacher' = [cacher EXCEPT ![k] = OffCacher]
    /\ UNCHANGED <<now, stream, lists, client>>

\* XREAD COUNT ReadCount from lastTs; a timeout or an error goes round.
XRead(k) ==
    /\ cacher[k].pc = "read"
    /\ LET from == Greatest(cacher[k].lastTs + 1, stream.oldest)
           n == Least(ReadCount, stream.last + 1 - from) IN
       /\ n > 0
       /\ cacher' = [cacher EXCEPT ![k].pc = "load",
                       ![k].batch = [i \in 1..n |-> from + i - 1]]
    /\ UNCHANGED <<now, stream, gih, lists, client>>

XReadFails(k) ==
    /\ cacher[k].pc = "read"
    /\ cacher' = [cacher EXCEPT ![k] = [OffCacher EXCEPT !.pc = "top"]]
    /\ UNCHANGED <<now, stream, gih, lists, client>>

LoadList(k) ==
    /\ cacher[k].pc = "load"
    /\ \E l \in (IF gih.realtimeCache = NoList THEN FreeLists ELSE {gih.realtimeCache}) :
        /\ cacher' = [cacher EXCEPT ![k].pc = "trim", ![k].list = l]
        /\ lists' = IF gih.realtimeCache = NoList
                    THEN [lists EXCEPT ![l] = NewList] ELSE lists
    /\ UNCHANGED <<now, stream, gih, client>>

\* Mutated: one frame too many is left.
AboveFull(l) == lists[l].len > CacheLen

Full(l) == lists[l].len >= CacheLen

\* One round of the dropping loop; with no item left to remove, but a length
\* that says otherwise, it turns for ever.
Trim(k) ==
    /\ cacher[k].pc = "trim"
    /\ LET l == cacher[k].list IN
       \/ /\ Full(l) /\ lists[l].items # <<>>
          /\ DropFronts(l, k, 1)
          /\ client' = Unlinked(l)
          /\ UNCHANGED cacher
       \/ /\ ~Full(l)
          /\ cacher' = [cacher EXCEPT ![k].pc = "push"]
          /\ UNCHANGED <<lists, client>>
    /\ UNCHANGED <<now, stream, gih>>

\* Mutated: the id after the last one; the id of the first one; none.
RememberedNext(batch) == batch[Len(batch)] + 1
RememberedFirst(batch) == batch[1]
RememberedNever(batch) == 0

\* The id from which the next XREAD goes on.
Remembered(batch) == batch[Len(batch)]

\* Every message of the batch is pushed and the last one is remembered.
Push(k) ==
    /\ cacher[k].pc = "push"
    /\ LET l == cacher[k].list
           n == Len(cacher[k].batch)
           race == Contended(l, k) IN
       /\ \E m \in (IF race THEN {n - 1, n} ELSE {n}),
             cut \in (IF race /\ Len(lists[l].items) <= 1 THEN BOOLEAN ELSE {FALSE}) :
            lists' = [lists EXCEPT ![l] =
                [items |-> IF cut THEN @.items ELSE @.items \o cacher[k].batch,
                 len   |-> @.len + m]]
       /\ gih' = [gih EXCEPT !.deviceMap = Remembered(cacher[k].batch)]
    /\ cacher' = [cacher EXCEPT ![k].pc = "store"]
    /\ UNCHANGED <<now, stream, client>>

StoreList(k) ==
    /\ cacher[k].pc = "store"
    /\ gih' = [gih EXCEPT !.realtimeCache = cacher[k].list]
    /\ cacher' = [cacher EXCEPT ![k] = [OffCacher EXCEPT !.pc = "top"]]
    /\ UNCHANGED <<now, stream, lists, client>>

-----------------------------------------------------------------------------
Serve(c) == \/ Touch(c) \/ TouchFails(c) \/ Lookup(c) \/ StoreNew(c) \/ Spawn(c)
            \/ Look(c) \/ Panic(c) \/ Take(c)
Run(k) == \/ Top(k) \/ Check(k) \/ LoadStale(k) \/ CleanList(k) \/ DeleteMap(k)
          \/ DeleteQuery(k) \/ XRead(k) \/ XReadFails(k) \/ LoadList(k) \/ Trim(k)
          \/ Push(k) \/ StoreList(k)

Next == \/ Publish \/ Tick
        \/ \E c \in Client : Call(c) \/ Serve(c)
        \/ \E k \in Cacher : Run(k)

Spec == Init /\ [][Next]_vars

\* Goroutines are scheduled, time passes, and redis does not fail for ever.
LiveSpec == /\ Spec
            /\ WF_vars(Tick)
            /\ \A c \in Client : WF_vars(Serve(c)) /\ SF_vars(Touch(c))
            /\ \A k \in Cacher : WF_vars(Run(k)) /\ SF_vars(XRead(k))

-----------------------------------------------------------------------------
Filling(k) == cacher[k].pc \notin {"off", "delMap", "delQuery"}

\* A list that clients find in realtimeCache has a goroutine that fills it,
\* or one about to be started by VideoLatestImage.  Otherwise no handler
\* would ever start another, and the device would show nothing until the
\* server is restarted.
NoOrphanCache ==
    gih.realtimeCache # NoList => \/ \E k \in Cacher : Filling(k)
                                  \/ \E c \in Client : client[c].pc = "spawn"

\* However the goroutines of a device interleave, each adds at most one batch
\* to a list after the last time the dropping loop cut it.
LenBounded == \A l \in ListId :
    lists[l].len <= CacheLen - 1 + ReadCount * Cardinality(Cacher)

Stopped == \A k \in Cacher : cacher[k].pc = "off"

\* Once the device has frames and the clients stop asking, every goroutine
\* caching it stops, and none is started again.  It is so while operations on
\* a list do not race: a len that ran ahead keeps the dropping loop turning.
CachingStops == stream.last > 0 ~> []Stopped

\* While one goroutine copies the stream, and its memory is not cleaned, a
\* client is sent every frame at most once, and never an older one later.
Ordered == [][\A c \in Client : Take(c) => client'[c].sent > client[c].sent]_vars

\* Lists that are created, replaced and dropped, batches and shared memory are
\* invisible to a client: under the same condition it watches a feed.
Promise == INSTANCE Feed WITH
    Viewer <- Client, newest <- stream.last, sent <- [c \in Client |-> client[c].sent]

IsFeed == Promise!Spec
=============================================================================
