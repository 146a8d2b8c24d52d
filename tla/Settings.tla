------------------------------ MODULE Settings ------------------------------
(***************************************************************************)
(* The settings of the edge: SettingsManager of settings_manager.go, the   *)
(* handlers of api/settings.go and the registration at the start of main.  *)
(* The datastore holds a key, its secret and the gateway the cloud has     *)
(* given for them; key and secret are cached.  Goroutines read and write   *)
(* the cache with a lock, but the test whether it is filled and the        *)
(* copying of what it holds are outside of it.                             *)
(*                                                                         *)
(* A key and its secret are named after the account they belong to.        *)
(***************************************************************************)
EXTENDS Naturals, FiniteSets

CONSTANTS
    Account,      \* the accounts of the cloud
    Kept,         \* bound: the accounts whose settings an earlier run may have left
    Handler,      \* goroutines of requests, one of which is main at first
    Reporter,     \* goroutines that ask for the settings from time to time
    MaxGateway,   \* bound: gateways of an account
    MaxPosts,     \* bound: settings posted
    MaxRestarts,  \* bound: restarts of the server
    Empty,        \* the empty string
    Torn          \* a string whose length is written and whose bytes are not

ASSUME SettingsAssumption ==
    /\ MaxGateway \in Nat \ {0} /\ {MaxPosts, MaxRestarts} \subseteq Nat
    /\ Kept \subseteq Account /\ Handler \cap Reporter = {}
    /\ {Empty, Torn} \cap Account = {} /\ Empty # Torn

VARIABLES
    store,      \* the settings under the name "default"
    cache,      \* current_edge_key and current_edge_secret
    locked,     \* whether a goroutine holds mux
    worker,     \* the goroutines
    gateways,   \* the gateways the cloud knows
    starting,   \* whether the server is still registering
    posts,      \* counts the posts
    restarts    \* counts the restarts

vars == <<store, cache, locked, worker, gateways, starting, posts, restarts>>
counts == <<posts, restarts>>

Worker == Handler \cup Reporter
Gateway == [of : Account, n : 1..MaxGateway]
Value == Account \cup {Empty}
Settings == [key : Value, secret : Value, gateway : Gateway \cup {Empty}]
NoSettings == [key |-> Empty, secret |-> Empty, gateway |-> Empty]
Pair == [key : Value \cup {Torn}, secret : Value \cup {Torn}]
NoPair == [key |-> Empty, secret |-> Empty]

\* read: what getDefault has read; posted: what is being saved, under the name
\* that is read again if named; gateway: the one the cloud is asked about;
\* phase: which of the writes of the cache is next; result: what is returned.
Idle == [op |-> "none", pc |-> "idle", read |-> NoSettings, posted |-> NoSettings,
         named |-> TRUE, gateway |-> Empty, tries |-> 0, phase |-> "default",
         result |-> NoPair]

TypeOK ==
    /\ store \in Settings /\ cache \in Pair /\ locked \in BOOLEAN
    /\ worker \in [Worker ->
         [op : {"none", "Get", "Creds", "Overwrite", "Register"},
          pc : {"idle", "test", "testsecret", "copy", "copysecret", "read", "lock", "key",
                "secret", "put", "call", "end"},
          read : Settings, posted : Settings, named : BOOLEAN,
          gateway : Gateway \cup {Empty}, tries : 0..1,
          phase : {"default", "second", "store"}, result : Pair]]
    /\ Cardinality({w \in Worker : worker[w].pc \in {"key", "secret", "put"}})
         = (IF locked THEN 1 ELSE 0)
    /\ gateways \subseteq Gateway /\ starting \in BOOLEAN
    /\ posts \in 0..MaxPosts /\ restarts \in 0..MaxRestarts

\* Settings as an earlier run may have left them.
Whole(s) ==
    \/ s = NoSettings
    \/ s.key = s.secret /\ s.gateway \in [of : {s.key}, n : 1..MaxGateway]

Init ==
    /\ store \in {s \in Settings : Whole(s) /\ s.key \in Kept \cup {Empty}}
    /\ cache = NoPair /\ locked = FALSE
    /\ worker = [w \in Worker |-> Idle]
    /\ gateways = Gateway \cap {store.gateway}
    /\ starting = TRUE /\ posts = 0 /\ restarts = 0

At(w, pc) == worker[w].pc = pc
Goes(w, pc) == worker' = [worker EXCEPT ![w].pc = pc]
Done(w) == worker' = [worker EXCEPT ![w] = Idle]

-----------------------------------------------------------------------------
(* The calls *)

\* Asked by the reports and the listener of the gateway, and by each
\* annotation.
CallGet(w) ==
    /\ At(w, "idle")
    /\ w \in Reporter
    /\ worker' = [worker EXCEPT ![w] = [Idle EXCEPT !.op = "Get", !.pc = "read"]]
    /\ UNCHANGED <<store, cache, locked, gateways, starting, counts>>

\* GetCurrentEdgeKeyAndSecret, for a batch of annotations or Storage.
CallCreds(w) ==
    /\ At(w, "idle") /\ w \in Handler /\ ~starting
    /\ worker' = [worker EXCEPT ![w] = [Idle EXCEPT !.op = "Creds", !.pc = "test"]]
    /\ UNCHANGED <<store, cache, locked, gateways, starting, counts>>

\* The portal posts what it was given, with the key and secret changed.
CallOverwrite(w) ==
    /\ At(w, "idle") /\ w \in Handler /\ ~starting
    /\ posts < MaxPosts
    /\ posts' = posts + 1
    /\ \E k, s \in Account, gateway \in {Empty, store.gateway}, named \in BOOLEAN :
         worker' = [worker EXCEPT ![w] =
           [Idle EXCEPT !.op = "Overwrite", !.pc = "read", !.named = named,
              !.posted = [key |-> k, secret |-> s, gateway |-> gateway]]]
    /\ UNCHANGED <<store, cache, locked, gateways, starting, restarts>>

\* UpdateEdgeRegistrationToCloud, before the server takes requests.
CallRegister(w) ==
    /\ starting /\ w \in Handler
    /\ \A v \in Handler : At(v, "idle")
    /\ worker' = [worker EXCEPT ![w] = [Idle EXCEPT !.op = "Register", !.pc = "read"]]
    /\ UNCHANGED <<store, cache, locked, gateways, starting, counts>>

\* An operation ends.
Ends(w) ==
    /\ Done(w)
    /\ starting' = (starting /\ worker[w].op # "Register")

-----------------------------------------------------------------------------
(* GetCurrentEdgeKeyAndSecret *)

\* Whether the cache is filled, without the lock.
Test(w) ==
    /\ At(w, "test")
    /\ Goes(w, IF cache.key = Empty THEN "read" ELSE "testsecret")
    /\ UNCHANGED <<store, cache, locked, gateways, starting, counts>>

TestSecret(w) ==
    /\ At(w, "testsecret")
    /\ Goes(w, IF cache.secret = Empty THEN "read" ELSE "copy")
    /\ UNCHANGED <<store, cache, locked, gateways, starting, counts>>

Copy(w) ==
    /\ At(w, "copy")
    /\ worker' = [worker EXCEPT ![w].result.key = cache.key, ![w].pc = "copysecret"]
    /\ UNCHANGED <<store, cache, locked, gateways, starting, counts>>

CopySecret(w) ==
    /\ At(w, "copysecret")
    /\ worker' = [worker EXCEPT ![w].result.secret = cache.secret, ![w].pc = "end"]
    /\ UNCHANGED <<store, cache, locked, gateways, starting, counts>>

Return(w) ==
    /\ At(w, "end")
    /\ Ends(w)
    /\ UNCHANGED <<store, cache, locked, gateways, counts>>

-----------------------------------------------------------------------------
\* The gateway the cloud is asked about: the posted one, or that of the
\* settings so far.
Asking(s) ==
    [s EXCEPT !.pc = "call", !.read = NoSettings,
              !.gateway = IF s.posted.gateway # Empty THEN s.posted.gateway
                          ELSE s.read.gateway]

(* getDefault: the datastore is read first, the cache updated then.         *)

Read(w) ==
    /\ At(w, "read")
    /\ worker' = [worker EXCEPT ![w].read = store, ![w].pc = "lock"]
    /\ UNCHANGED <<store, cache, locked, gateways, starting, counts>>

\* An error, which Overwrite ignores.
ReadFails(w) ==
    /\ At(w, "read")
    /\ IF worker[w].op = "Overwrite"
         THEN worker' = [worker EXCEPT ![w] = Asking(worker[w])] /\ UNCHANGED starting
         ELSE Ends(w)
    /\ UNCHANGED <<store, cache, locked, gateways, counts>>

\* Mutated: without waiting for the lock.
LockAny == TRUE

Free == ~locked

Lock(w) ==
    /\ At(w, "lock") /\ Free
    /\ locked' = TRUE
    /\ Goes(w, "key")
    /\ UNCHANGED <<store, cache, gateways, starting, counts>>

\* Mutated: the cache is filled once only.
Filled(w, old, read, posted) ==
    IF worker[w].phase = "store" THEN posted ELSE IF old = Empty THEN read ELSE old

\* What is to be cached: getDefault skips what is empty, the others do not.
ToCache(w, old, read, posted) ==
    CASE worker[w].phase = "default" -> IF read = Empty THEN old ELSE read
      [] worker[w].phase = "second"  -> read
      [] worker[w].phase = "store"   -> posted

\* A string is written in two words, so others may see the one and not yet
\* the other.
Written(old, new) == IF old = Empty /\ new # Empty THEN Torn ELSE new

\* The cache is written, with the lock.
WriteKey(w) ==
    /\ At(w, "key")
    /\ LET new == ToCache(w, cache.key, worker[w].read.key, worker[w].posted.key)
           now == Written(cache.key, new)
       IN /\ cache' = [cache EXCEPT !.key = now]
          /\ Goes(w, IF now = new THEN "secret" ELSE "key")
    /\ UNCHANGED <<store, locked, gateways, starting, counts>>

\* What follows the unlocking.
Unlocked(w) ==
    LET s == worker[w] IN
    IF s.phase = "second"
      THEN [s EXCEPT !.pc = "end",
                     !.result = [key |-> s.read.key, secret |-> s.read.secret]]
      ELSE CASE s.op = "Get"       -> Idle
             [] s.op = "Creds"     -> [s EXCEPT !.pc = "lock", !.phase = "second"]
             [] s.op = "Overwrite" -> Asking(s)
             [] s.op = "Register"  ->
                  IF Empty \in {s.read.key, s.read.secret} THEN [s EXCEPT !.pc = "end"]
                  ELSE Asking([s EXCEPT !.posted = s.read])

WriteSecret(w) ==
    /\ At(w, "secret")
    /\ LET new == ToCache(w, cache.secret, worker[w].read.secret, worker[w].posted.secret)
           now == Written(cache.secret, new)
       IN /\ cache' = [cache EXCEPT !.secret = now]
          /\ IF now # new
               THEN UNCHANGED <<worker, locked>>
               ELSE IF worker[w].phase = "store"
               THEN Goes(w, "put") /\ UNCHANGED locked
               ELSE worker' = [worker EXCEPT ![w] = Unlocked(w)] /\ locked' = FALSE
    /\ UNCHANGED <<store, gateways, starting, counts>>

-----------------------------------------------------------------------------
(* Overwrite and the registration *)

\* GetSystemInfo fails, or the cloud is not reached, or the key is not that of
\* the secret.
Refused(w) ==
    /\ At(w, "call")
    /\ Ends(w)
    /\ UNCHANGED <<store, cache, locked, gateways, counts>>

Known(w) ==
    /\ worker[w].gateway \in gateways
    /\ worker[w].gateway.of = worker[w].posted.key

\* Mutated: the ids stay.
AskAgain(w) == [worker[w] EXCEPT !.tries = @ + 1]

\* The ids are cleared before the next try.
AskWithout(w) == [worker[w] EXCEPT !.gateway = Empty, !.tries = @ + 1]

\* 404: the gateway is not known, or not of this account.  After the third
\* there is no answer to read; TypeOK says that the second try is the last.
NotFound(w) ==
    /\ At(w, "call") /\ worker[w].posted.key = worker[w].posted.secret
    /\ worker[w].gateway # Empty /\ ~Known(w)
    /\ IF worker[w].tries = 2 THEN Ends(w)
         ELSE worker' = [worker EXCEPT ![w] = AskWithout(w)] /\ UNCHANGED starting
    /\ UNCHANGED <<store, cache, locked, gateways, counts>>

\* Mutated: a posted gateway stays.
AnsweredFirst(w, g) ==
    [worker[w].posted EXCEPT !.gateway = IF @ = Empty THEN g ELSE @]

\* The settings with what the cloud has answered.
Answered(w, g) == [worker[w].posted EXCEPT !.gateway = g]

\* The cloud knows the gateway, or makes one for the account.
Accept(w) ==
    /\ At(w, "call")
    /\ worker[w].posted.key = worker[w].posted.secret
    /\ \E g \in Gateway :
         /\ IF worker[w].gateway = Empty THEN g.of = worker[w].posted.key
                                         ELSE Known(w) /\ g = worker[w].gateway
         /\ gateways' = gateways \cup {g}
         /\ worker' = [worker EXCEPT ![w].posted = Answered(w, g),
                                     ![w].gateway = Empty, ![w].phase = "store",
                                     ![w].pc = "lock"]
    /\ UNCHANGED <<store, cache, locked, starting, counts>>

\* The posted name is the name it is stored under, whatever is read later.
Put(w) ==
    /\ At(w, "put")
    /\ store' = IF worker[w].named THEN worker[w].posted ELSE store
    /\ locked' = FALSE
    /\ Ends(w)
    /\ UNCHANGED <<cache, gateways, counts>>

PutFails(w) ==
    /\ At(w, "put")
    /\ locked' = FALSE
    /\ Ends(w)
    /\ UNCHANGED <<store, cache, gateways, counts>>

-----------------------------------------------------------------------------
\* A gateway is deleted in the cloud.
Deleted ==
    /\ \E g \in gateways : gateways' = gateways \ {g}
    /\ UNCHANGED <<store, cache, locked, worker, starting, counts>>

\* The server is restarted, or crashes: the datastore is what remains.
Restart ==
    /\ restarts < MaxRestarts
    /\ restarts' = restarts + 1
    /\ cache' = NoPair /\ locked' = FALSE /\ starting' = TRUE
    /\ worker' = [w \in Worker |-> Idle]
    /\ UNCHANGED <<store, gateways, posts>>

-----------------------------------------------------------------------------
Steps(w) ==
    \/ CallRegister(w)
    \/ Test(w) \/ TestSecret(w) \/ Copy(w) \/ CopySecret(w) \/ Return(w)
    \/ Read(w) \/ ReadFails(w) \/ Lock(w) \/ WriteKey(w) \/ WriteSecret(w)
    \/ Refused(w) \/ NotFound(w) \/ Accept(w) \/ Put(w) \/ PutFails(w)

Next ==
    \/ \E w \in Worker : CallGet(w) \/ CallCreds(w) \/ CallOverwrite(w) \/ Steps(w)
    \/ Deleted \/ Restart

Spec == Init /\ [][Next]_vars

\* Goroutines go on, one that waits for the lock is let in, the reports go on
\* asking, and the datastore does not fail for ever.
Fairness ==
    /\ \A w \in Worker : WF_vars(Steps(w))
    /\ \A w \in Reporter : WF_vars(CallGet(w)) /\ SF_vars(Read(w)) /\ SF_vars(Lock(w))

LiveSpec == Spec /\ Fairness

-----------------------------------------------------------------------------
\* While nobody holds the lock, the cached key and secret belong together, or
\* both are empty, though they are written one after the other and by three
\* operations (settings_manager.go, lines 64, 123 and 217).
CacheIsWhole == ~locked => cache.key = cache.secret

\* What is stored is a key with its own secret and a gateway of their account,
\* whatever gateway was posted or stored before and whatever the cloud has
\* deleted: the session is opened with the three of them
\* (settings_manager.go, lines 156-222).
CredsMatch == Whole(store)

\* A cache that a slow GetCurrentEdgeKeyAndSecret has set back to an older or
\* an empty pair, or that an Overwrite has filled with what it failed to
\* store, is mended: in the end it is what is stored.  An unlocked test and copy
\* may pair a key with the secret of another, or see half a string, but not
\* for ever: in the end what is returned is what is stored, too
\* (settings_manager.go, lines 54-67, 120-127 and 215-219).
Stored == [key |-> store.key, secret |-> store.secret]
StaleMended ==
    <>[](store # NoSettings =>
           /\ cache = Stored
           /\ \A w \in Worker : At(w, "end") /\ worker[w].op = "Creds" =>
                worker[w].result = Stored)
=============================================================================
