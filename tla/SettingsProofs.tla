--------------------------- MODULE SettingsProofs ---------------------------
(***************************************************************************)
(* Theorems about Settings, for any accounts, goroutines and bounds: its   *)
(* type invariant, that a cache nobody is writing is whole, and that what   *)
(* is stored belongs together.                                             *)
(***************************************************************************)
EXTENDS Settings, TLAPS, FiniteSetTheorems

WorkerRec ==
    [op : {"none", "Get", "Creds", "Overwrite", "Register"},
     pc : {"idle", "test", "testsecret", "copy", "copysecret", "read", "lock", "key",
           "secret", "put", "call", "end"},
     read : Settings, posted : Settings, named : BOOLEAN,
     gateway : Gateway \cup {Empty}, tries : 0..1,
     phase : {"default", "second", "store"}, result : Pair]

\* The goroutines between Lock and Unlock.
Holding == {"key", "secret", "put"}

\* The goroutines between the first test of the cache and the last copy of it.
Fast == {"test", "testsecret", "copy", "copysecret"}

\* What a goroutine is about to write into the cache, as key and as secret.
Pending(s) == IF s.phase = "store" THEN s.posted.key ELSE s.read.key

\* What holds of a goroutine whatever the others do: it has read whole
\* settings, stores whole ones, and has tried again only without a gateway.
Sound(s) ==
    /\ s \in WorkerRec
    /\ s.pc # "idle" => s.op # "none"
    /\ Whole(s.read)
    /\ s.phase = "store" => s.posted # NoSettings /\ Whole(s.posted)
    /\ s.pc \in Fast \cup {"read"} => s.phase = "default"
    /\ s.pc = "put" => s.phase = "store"
    /\ s.pc \in Fast \/ s.phase = "second" \/ s.result # NoPair => s.op = "Creds"
    /\ s.tries = 1 => s.gateway = Empty /\ (s.pc = "call" \/ s.phase = "store")

\* The cache as the writer left it after each of its writes.
Writing(s, c) ==
    /\ s.pc = "key" => c.key = c.secret \/ (c.key = Torn /\ Pending(s) # Empty)
    /\ s.pc = "secret" => IF s.phase = "default" /\ Pending(s) = Empty
                            THEN c.key = c.secret
                            ELSE c.key = Pending(s)
    /\ s.pc = "put" => c.key = c.secret

\* The lock is held by one goroutine or by none.
OneHolder ==
    /\ \A w \in Worker : worker[w].pc \in Holding => locked
    /\ \A v, w \in Worker :
         worker[v].pc \in Holding /\ worker[w].pc \in Holding => v = w
    /\ locked => \E w \in Worker : worker[w].pc \in Holding

Plain ==
    /\ gateways \subseteq Gateway /\ starting \in BOOLEAN
    /\ posts \in 0..MaxPosts /\ restarts \in 0..MaxRestarts

\* The inductive invariant.
Inv ==
    /\ Plain
    /\ store \in Settings /\ Whole(store)
    /\ cache \in Pair /\ locked \in BOOLEAN
    /\ worker = [w \in Worker |-> worker[w]]
    /\ \A w \in Worker : /\ Sound(worker[w])
                         /\ Writing(worker[w], cache)
    /\ OneHolder
    /\ CacheIsWhole

-----------------------------------------------------------------------------
(* Lemmas on the state of one goroutine. *)

LEMMA Strings == Empty \notin Account
    BY SettingsAssumption DEF SettingsAssumption

\* Settings that are whole have the key as secret.
LEMMA WholeParts ==
    ASSUME NEW s \in Settings, Whole(s)
    PROVE  s.key = s.secret /\ s.key \in Value
    BY DEF Whole, NoSettings, Settings

LEMMA IdleSound ==
    ASSUME NEW c
    PROVE  /\ Sound(Idle) /\ Idle.pc = "idle" /\ Writing(Idle, c)
<1>1. NoSettings \in Settings /\ NoPair \in Pair /\ Whole(NoSettings)
    BY DEF NoSettings, Settings, NoPair, Pair, Value, Whole
<1>2. Idle \in WorkerRec
    BY <1>1 DEF Idle, WorkerRec
<1>3. QED
    BY <1>1, <1>2 DEF Idle, Sound, Writing, Fast, NoPair, NoSettings

\* Overwrite and Register ask the cloud once they have read, or tried to.
LEMMA AskingSound ==
    ASSUME NEW s, Sound(s), s.op # "none", s.phase # "store", s.pc # "call"
    PROVE  Sound(Asking(s)) /\ Asking(s).pc = "call"
<1>1. NoSettings \in Settings /\ Whole(NoSettings)
    BY DEF NoSettings, Settings, Value, Whole
<1>2. s \in WorkerRec /\ s.tries = 0
    BY DEF Sound, WorkerRec
<1>3. Asking(s) \in WorkerRec
    BY <1>1, <1>2 DEF Asking, WorkerRec, Settings
<1>4. QED
    BY <1>1, <1>2, <1>3 DEF Asking, Sound, WorkerRec, Fast, NoPair

\* What a goroutine goes on with when it has cached what it read.
LEMMA UnlockedSound ==
    ASSUME NEW w \in Worker, Sound(worker[w]), worker[w].pc = "secret",
           worker[w].phase # "store"
    PROVE  Sound(Unlocked(w)) /\ Unlocked(w).pc \in {"idle", "end", "lock", "call"}
<1> DEFINE s == worker[w]
<1>1. /\ s \in WorkerRec /\ s.op \in {"Get", "Creds", "Overwrite", "Register"}
      /\ s.phase \in {"default", "second"} /\ s.tries = 0
      /\ s.read \in Settings /\ Whole(s.read) /\ s.read.key = s.read.secret
    BY WholeParts DEF Sound, WorkerRec
<1>2. CASE s.phase = "second"
  <2>1. Unlocked(w) = [s EXCEPT !.pc = "end",
                 !.result = [key |-> s.read.key, secret |-> s.read.secret]]
    BY <1>2 DEF Unlocked
  <2>2. [key |-> s.read.key, secret |-> s.read.secret] \in Pair
    BY <1>1 DEF Settings, Pair
  <2>3. Unlocked(w) \in WorkerRec
    BY <1>1, <2>1, <2>2 DEF WorkerRec
  <2>4. /\ Unlocked(w).pc = "end" /\ Unlocked(w).op = s.op
        /\ Unlocked(w).phase = "second" /\ Unlocked(w).read = s.read
        /\ Unlocked(w).tries = 0
        /\ Unlocked(w).result.key = Unlocked(w).result.secret
    BY <1>1, <1>2, <2>1 DEF WorkerRec
  <2>5. s.op = "Creds"
    BY <1>2 DEF Sound
  <2>6. QED
    BY <1>1, <2>3, <2>4, <2>5 DEF Sound, Fast
<1>3. CASE s.phase = "default" /\ s.op = "Get"
  <2>1. Unlocked(w) = Idle
    BY <1>3 DEF Unlocked
  <2>2. QED
    BY <2>1, IdleSound
<1>4. CASE s.phase = "default" /\ s.op = "Creds"
  <2>1. Unlocked(w) = [s EXCEPT !.pc = "lock", !.phase = "second"]
    BY <1>4 DEF Unlocked
  <2>2. QED
    BY <1>1, <1>4, <2>1 DEF Sound, WorkerRec, Fast, NoPair
<1>5. CASE s.phase = "default" /\ s.op = "Overwrite"
  <2>1. Unlocked(w) = Asking(s)
    BY <1>5 DEF Unlocked
  <2>2. QED
    BY <1>1, <1>5, <2>1, AskingSound
<1>6. CASE s.phase = "default" /\ s.op = "Register"
  <2>1. CASE Empty \in {s.read.key, s.read.secret}
    <3>1. Unlocked(w) = [s EXCEPT !.pc = "end"]
      BY <1>6, <2>1 DEF Unlocked
    <3>2. QED
      BY <1>1, <1>6, <3>1 DEF Sound, WorkerRec, Fast, NoPair
  <2>2. CASE Empty \notin {s.read.key, s.read.secret}
    <3> DEFINE t == [s EXCEPT !.posted = s.read]
    <3>1. Unlocked(w) = Asking(t)
      BY <1>6, <2>2 DEF Unlocked
    <3>2. Sound(t) /\ t.op # "none" /\ t.phase # "store" /\ t.pc # "call"
      BY <1>1, <1>6 DEF Sound, WorkerRec
    <3>3. QED
      BY <3>1, <3>2, AskingSound
  <2>3. QED
    BY <2>1, <2>2
<1>7. QED
    BY <1>1, <1>2, <1>3, <1>4, <1>5, <1>6

-----------------------------------------------------------------------------
(* Lemmas on a step of one goroutine. *)

\* A step outside of the lock that leaves the cache and the store alone.
LEMMA Outside ==
    ASSUME Inv, Plain', NEW w \in Worker, NEW s,
           Sound(s), s.pc \notin Holding,
           worker[w].pc \notin Holding, worker' = [worker EXCEPT ![w] = s],
           UNCHANGED <<store, cache, locked>>
    PROVE  Inv'
<1>1. /\ worker' = [v \in Worker |-> worker'[v]] /\ worker'[w] = s
      /\ \A v \in Worker : v # w => worker'[v] = worker[v]
    BY DEF Inv
<1>2. Writing(s, cache)
    BY DEF Writing, Holding
<1>3. ASSUME NEW v \in Worker
      PROVE  Sound(worker'[v]) /\ Writing(worker'[v], cache)
    BY <1>1, <1>2 DEF Inv
<1>4. OneHolder'
    BY <1>1 DEF Inv, OneHolder
<1>5. CacheIsWhole'
    BY DEF Inv, CacheIsWhole
<1>6. QED
    BY <1>1, <1>3, <1>4, <1>5 DEF Inv

\* A goroutine takes the free lock.
LEMMA Taking ==
    ASSUME Inv, Plain', NEW w \in Worker, Lock(w)
    PROVE  Inv'
<1> DEFINE s == [worker[w] EXCEPT !.pc = "key"]
<1>1. /\ worker[w].pc = "lock" /\ ~locked /\ locked'
      /\ UNCHANGED <<store, cache>> /\ worker' = [worker EXCEPT ![w] = s]
    BY DEF Lock, At, Free, Goes
<1>2. /\ worker' = [v \in Worker |-> worker'[v]] /\ worker'[w] = s
      /\ \A v \in Worker : v # w => worker'[v] = worker[v]
    BY <1>1 DEF Inv
<1>3. Sound(s) /\ s.pc = "key"
    BY <1>1 DEF Inv, Sound, WorkerRec, Fast
<1>4. Writing(s, cache)
    BY <1>1, <1>3 DEF Inv, CacheIsWhole, Writing, Fast
<1>5. ASSUME NEW v \in Worker
      PROVE  Sound(worker'[v]) /\ Writing(worker'[v], cache)
    BY <1>2, <1>3, <1>4 DEF Inv
<1>6. \A v \in Worker : worker[v].pc \notin Holding
    BY <1>1 DEF Inv, OneHolder
<1>7. OneHolder'
    BY <1>1, <1>2, <1>3, <1>6 DEF OneHolder, Holding
<1>8. locked' = TRUE
    BY DEF Lock
<1>9. QED
    BY <1>1, <1>2, <1>5, <1>7, <1>8 DEF Inv, CacheIsWhole

\* A step of the goroutine that holds the lock: it keeps it, or leaves the
\* cache whole.
LEMMA Inside ==
    ASSUME Inv, Plain', NEW w \in Worker, worker[w].pc \in Holding, NEW s,
           Sound(s), Writing(s, cache'),
           worker' = [worker EXCEPT ![w] = s],
           cache' \in Pair, store' \in Settings, Whole(store'),
           \/ locked' = locked /\ s.pc \in Holding
           \/ locked' = FALSE /\ s.pc \notin Holding /\ cache'.key = cache'.secret
    PROVE  Inv'
<1>1. worker = [v \in Worker |-> worker[v]]
    BY DEF Inv
<1>2. /\ worker' = [v \in Worker |-> worker'[v]] /\ worker'[w] = s
      /\ \A v \in Worker : v # w => worker'[v] = worker[v]
    BY <1>1
<1>3. ASSUME NEW v \in Worker, v # w
      PROVE  Sound(worker'[v]) /\ Writing(worker'[v], cache') /\ worker'[v].pc \notin Holding
  <2>1. Sound(worker[v]) /\ worker[v].pc \notin Holding
    BY <1>3 DEF Inv, OneHolder
  <2>2. QED
    BY <1>2, <1>3, <2>1 DEF Writing, Holding
<1>4. ASSUME NEW v \in Worker
      PROVE  Sound(worker'[v]) /\ Writing(worker'[v], cache')
    BY <1>2, <1>3
<1>5. locked = TRUE
    BY DEF Inv, OneHolder
<1>6. OneHolder' /\ CacheIsWhole' /\ locked' \in BOOLEAN
    BY <1>2, <1>3, <1>5 DEF OneHolder, CacheIsWhole
<1>7. QED
    BY <1>2, <1>4, <1>6 DEF Inv

-----------------------------------------------------------------------------
(* The inductive invariant: one lemma per group of actions. *)

LEMMA InvInit == Init => Inv
<1> SUFFICES ASSUME Init PROVE Inv
    OBVIOUS
<1>1. Plain
    BY SettingsAssumption DEF Init, Plain, SettingsAssumption
<1>2. store \in Settings /\ Whole(store)
    BY DEF Init
<1>3. cache \in Pair /\ locked \in BOOLEAN /\ CacheIsWhole
    BY DEF Init, NoPair, Pair, Value, CacheIsWhole
<1>4. worker = [w \in Worker |-> worker[w]] /\ \A w \in Worker : worker[w] = Idle
    BY DEF Init
<1>5. OneHolder
    BY <1>4, IdleSound DEF Init, OneHolder, Holding
<1>6. QED
    BY <1>1, <1>2, <1>3, <1>4, <1>5, IdleSound DEF Inv

LEMMA InvCalls ==
    ASSUME Inv, NEW w \in Worker,
           CallGet(w) \/ CallCreds(w) \/ CallOverwrite(w) \/ CallRegister(w)
    PROVE  Inv'
<1> USE DEF At
<1>i. /\ Sound(Idle) /\ Idle \in WorkerRec /\ Idle.result = NoPair
      /\ NoSettings \in Settings /\ Whole(NoSettings)
    BY IdleSound DEF Sound, Idle, NoSettings, Settings, Value, Whole
<1>1. CASE CallGet(w)
  <2> DEFINE s == [Idle EXCEPT !.op = "Get", !.pc = "read"]
  <2>1. Sound(s) /\ s.pc \notin Holding
    BY <1>i DEF Idle, Sound, WorkerRec, Fast, Holding
  <2>2. worker[w].pc \notin Holding /\ worker' = [worker EXCEPT ![w] = s]
    BY <1>1 DEF CallGet, Holding
  <2>3. Plain' /\ UNCHANGED <<store, cache, locked>>
    BY <1>1 DEF CallGet, Inv, Plain, counts
  <2>4. QED
    BY <2>1, <2>2, <2>3, Outside
<1>2. CASE CallCreds(w)
  <2> DEFINE s == [Idle EXCEPT !.op = "Creds", !.pc = "test"]
  <2>1. s \in WorkerRec /\ s.pc = "test" /\ s.op = "Creds"
    BY <1>i DEF Inv, Idle, WorkerRec
  <2>2. Sound(s) /\ s.pc \notin Holding
    BY <1>i, <2>1 DEF Idle, Sound, Holding
  <2>4. worker[w].pc \notin Holding /\ worker' = [worker EXCEPT ![w] = s]
    BY <1>2 DEF CallCreds, Holding
  <2>5. Plain' /\ UNCHANGED <<store, cache, locked>>
    BY <1>2 DEF CallCreds, Inv, Plain, counts
  <2>6. QED
    BY <2>2, <2>4, <2>5, Outside
<1>3. CASE CallOverwrite(w)
  <2>1. PICK k \in Account, e \in Account, g \in {Empty, store.gateway}, n \in BOOLEAN :
          worker' = [worker EXCEPT ![w] =
             [Idle EXCEPT !.op = "Overwrite", !.pc = "read", !.named = n,
                !.posted = [key |-> k, secret |-> e, gateway |-> g]]]
    BY <1>3 DEF CallOverwrite
  <2> DEFINE s == [Idle EXCEPT !.op = "Overwrite", !.pc = "read", !.named = n,
                     !.posted = [key |-> k, secret |-> e, gateway |-> g]]
  <2>2. [key |-> k, secret |-> e, gateway |-> g] \in Settings
    BY DEF Inv, Settings, Value
  <2>3. s \in WorkerRec
    BY <1>i, <2>2 DEF WorkerRec
  <2>4. Sound(s) /\ s.pc \notin Holding
    BY <1>i, <2>3 DEF Idle, Sound, Fast, Holding
  <2>5. Plain' /\ UNCHANGED <<store, cache, locked>>
    <3>1. posts < MaxPosts /\ posts' = posts + 1 /\ posts \in 0..MaxPosts
      BY <1>3 DEF CallOverwrite, Inv, Plain
    <3>2. MaxPosts \in Nat
      BY SettingsAssumption DEF SettingsAssumption
    <3>3. posts' \in 0..MaxPosts
      BY <3>1, <3>2
    <3>4. QED
      BY <1>3, <3>3 DEF CallOverwrite, Inv, Plain
  <2>6. worker[w].pc \notin Holding
    BY <1>3 DEF CallOverwrite, Holding
  <2>7. QED
    BY <2>1, <2>4, <2>5, <2>6, Outside
<1>4. CASE CallRegister(w)
  <2> DEFINE s == [Idle EXCEPT !.op = "Register", !.pc = "read"]
  <2>1. Sound(s) /\ s.pc \notin Holding
    BY <1>i DEF Idle, Sound, WorkerRec, Fast, Holding
  <2>2. worker[w].pc \notin Holding /\ worker' = [worker EXCEPT ![w] = s]
    BY <1>4 DEF CallRegister, Holding
  <2>3. Plain' /\ UNCHANGED <<store, cache, locked>>
    BY <1>4 DEF CallRegister, Inv, Plain, counts
  <2>4. QED
    BY <2>1, <2>2, <2>3, Outside
<1>5. QED
    BY <1>1, <1>2, <1>3, <1>4

\* A step that ends an operation outside of the lock.
LEMMA InvEnds ==
    ASSUME Inv, NEW w \in Worker, Ends(w), worker[w].pc \notin Holding,
           UNCHANGED <<store, cache, locked, gateways, counts>>
    PROVE  Inv'
<1>1. Plain' /\ worker' = [worker EXCEPT ![w] = Idle]
    BY DEF Inv, Plain, counts, Ends, Done
<1>2. QED
    BY <1>1, IdleSound, Outside DEF Holding

\* The fast way of GetCurrentEdgeKeyAndSecret.
LEMMA InvFast ==
    ASSUME Inv, NEW w \in Worker,
           Test(w) \/ TestSecret(w) \/ Copy(w) \/ CopySecret(w) \/ Return(w)
    PROVE  Inv'
<1> USE DEF At, Goes
<1>w. /\ Sound(worker[w]) /\ worker[w] \in WorkerRec
      /\ cache \in Pair
    BY DEF Inv, Sound
<1>p. Plain'
  <2>1. CASE Return(w)
    BY <2>1 DEF Return, Ends, Inv, Plain, counts
  <2>2. CASE Test(w) \/ TestSecret(w) \/ Copy(w) \/ CopySecret(w)
    BY <2>2 DEF Test, TestSecret, Copy, CopySecret, Inv, Plain, counts
  <2>3. QED
    BY <2>1, <2>2
<1>1. CASE Test(w)
  <2>1. PICK pc \in {"read", "testsecret"} :
          worker' = [worker EXCEPT ![w] = [worker[w] EXCEPT !.pc = pc]]
    BY <1>1 DEF Test
  <2> DEFINE s == [worker[w] EXCEPT !.pc = pc]
  <2>2. s.pc \notin Holding /\ worker[w].pc \notin Holding
    BY <1>w, <1>1 DEF Test, Holding, WorkerRec
  <2>3. Sound(s)
    BY <1>w, <1>1 DEF Test, Sound, WorkerRec, Fast
  <2>5. UNCHANGED <<store, cache, locked>>
    BY <1>1 DEF Test
  <2>6. QED
    BY <1>p, <2>1, <2>2, <2>3, <2>5, Outside
<1>2. CASE TestSecret(w)
  <2>1. PICK pc \in {"read", "copy"} :
          worker' = [worker EXCEPT ![w] = [worker[w] EXCEPT !.pc = pc]]
    BY <1>2 DEF TestSecret
  <2> DEFINE s == [worker[w] EXCEPT !.pc = pc]
  <2>2. s.pc \notin Holding /\ worker[w].pc \notin Holding
    BY <1>w, <1>2 DEF TestSecret, Holding, WorkerRec
  <2>3. Sound(s)
    BY <1>w, <1>2 DEF TestSecret, Sound, WorkerRec, Fast
  <2>5. UNCHANGED <<store, cache, locked>>
    BY <1>2 DEF TestSecret
  <2>6. QED
    BY <1>p, <2>1, <2>2, <2>3, <2>5, Outside
<1>3. CASE Copy(w)
  <2> DEFINE s == [worker[w] EXCEPT !.result.key = cache.key, !.pc = "copysecret"]
  <2>1. worker[w].pc = "copy" /\ worker' = [worker EXCEPT ![w] = s]
    BY <1>3 DEF Copy
  <2>2. s \in WorkerRec
    BY <1>w DEF WorkerRec, Pair
  <2>3. Sound(s) /\ s.pc \notin Holding /\ worker[w].pc \notin Holding
    BY <1>w, <2>1, <2>2 DEF Sound, WorkerRec, Fast, Holding
  <2>4. s.result.key = cache.key
    BY <1>w DEF WorkerRec, Pair
  <2>6. UNCHANGED <<store, cache, locked>>
    BY <1>3 DEF Copy
  <2>7. QED
    BY <1>p, <2>1, <2>3, <2>6, Outside
<1>4. CASE CopySecret(w)
  <2> DEFINE s == [worker[w] EXCEPT !.result.secret = cache.secret, !.pc = "end"]
  <2>1. worker[w].pc = "copysecret" /\ worker' = [worker EXCEPT ![w] = s]
    BY <1>4 DEF CopySecret
  <2>2. s \in WorkerRec
    BY <1>w DEF WorkerRec, Pair
  <2>3. Sound(s) /\ s.pc \notin Holding /\ worker[w].pc \notin Holding
    BY <1>w, <2>1, <2>2 DEF Sound, WorkerRec, Fast, Holding
  <2>4. s.result.key = worker[w].result.key /\ s.result.secret = cache.secret
    BY <1>w DEF WorkerRec, Pair
  <2>6. UNCHANGED <<store, cache, locked>>
    BY <1>4 DEF CopySecret
  <2>7. QED
    BY <1>p, <2>1, <2>3, <2>6, Outside
<1>5. CASE Return(w)
    BY <1>5, InvEnds DEF Return, Holding
<1>6. QED
    BY <1>1, <1>2, <1>3, <1>4, <1>5

\* getDefault reads the datastore.
LEMMA InvRead ==
    ASSUME Inv, NEW w \in Worker, Read(w) \/ ReadFails(w)
    PROVE  Inv'
<1> USE DEF At
<1>w. /\ Sound(worker[w]) /\ worker[w] \in WorkerRec
      /\ store \in Settings /\ Whole(store)
    BY DEF Inv, Sound
<1>1. CASE Read(w)
  <2> DEFINE s == [worker[w] EXCEPT !.read = store, !.pc = "lock"]
  <2>1. worker[w].pc = "read" /\ worker' = [worker EXCEPT ![w] = s]
    BY <1>1 DEF Read
  <2>2. Sound(s) /\ s.pc \notin Holding /\ worker[w].pc \notin Holding
    BY <1>w, <2>1 DEF Sound, WorkerRec, Fast, Holding
  <2>4. Plain' /\ UNCHANGED <<store, cache, locked>>
    BY <1>1 DEF Read, Inv, Plain, counts
  <2>5. QED
    BY <2>1, <2>2, <2>4, Outside
<1>2. CASE ReadFails(w) /\ worker[w].op = "Overwrite"
  <2> DEFINE s == Asking(worker[w])
  <2>1. worker[w].pc = "read" /\ worker' = [worker EXCEPT ![w] = s]
    BY <1>2 DEF ReadFails
  <2>2. worker[w].phase = "default"
    BY <1>w, <2>1 DEF Sound
  <2>3. Sound(s) /\ s.pc = "call"
    BY <1>w, <1>2, <2>1, <2>2, AskingSound
  <2>4. Plain' /\ UNCHANGED <<store, cache, locked>>
    BY <1>2 DEF ReadFails, Inv, Plain, counts
  <2>5. QED
    BY <2>1, <2>3, <2>4, Outside DEF Holding
<1>3. CASE ReadFails(w) /\ worker[w].op # "Overwrite"
    BY <1>3, InvEnds DEF ReadFails, Holding
<1>4. QED
    BY <1>1, <1>2, <1>3

\* What is written, as key and as secret, by the goroutine that holds the lock.
LEMMA Cached ==
    ASSUME NEW w \in Worker, Sound(worker[w]), NEW old \in Value \cup {Torn}
    PROVE  /\ Pending(worker[w]) \in Value
           /\ ToCache(w, old, worker[w].read.key, worker[w].posted.key)
                = (IF worker[w].phase = "default" /\ Pending(worker[w]) = Empty
                     THEN old ELSE Pending(worker[w]))
           /\ ToCache(w, old, worker[w].read.secret, worker[w].posted.secret)
                = (IF worker[w].phase = "default" /\ Pending(worker[w]) = Empty
                     THEN old ELSE Pending(worker[w]))
<1> DEFINE s == worker[w]
<1>1. /\ s \in WorkerRec /\ s.read \in Settings /\ s.posted \in Settings
      /\ s.read.key = s.read.secret /\ s.read.key \in Value
    BY WholeParts DEF Sound, WorkerRec
<1>2. s.phase = "store" => s.posted.key = s.posted.secret /\ s.posted.key \in Value
    BY <1>1, WholeParts DEF Sound
<1>3. s.phase \in {"default", "second", "store"}
    BY <1>1 DEF WorkerRec
<1>4. QED
    BY <1>1, <1>2, <1>3 DEF ToCache, Pending

\* The key is written, in one write or in two.
LEMMA InvWriteKey ==
    ASSUME Inv, NEW w \in Worker, WriteKey(w)
    PROVE  Inv'
<1> DEFINE new == ToCache(w, cache.key, worker[w].read.key, worker[w].posted.key)
           now == Written(cache.key, new)
           s   == [worker[w] EXCEPT !.pc = IF now = new THEN "secret" ELSE "key"]
           p   == Pending(worker[w])
<1>1. /\ worker[w].pc = "key" /\ UNCHANGED <<store, locked>> /\ Plain'
      /\ cache' = [cache EXCEPT !.key = now]
      /\ worker' = [worker EXCEPT ![w] = s]
    BY DEF WriteKey, At, Goes, Inv, Plain, counts
<1>2. /\ Sound(worker[w]) /\ worker[w] \in WorkerRec /\ cache \in Pair
      /\ Writing(worker[w], cache) /\ store \in Settings /\ Whole(store)
    BY DEF Inv, Sound
<1>3. cache.key \in Value \cup {Torn} /\ cache.secret \in Value \cup {Torn}
    BY <1>2 DEF Pair
<1>4. p \in Value /\ new = IF worker[w].phase = "default" /\ p = Empty THEN cache.key ELSE p
    BY <1>2, <1>3, Cached
<1>5. cache'.key = now /\ cache'.secret = cache.secret
    BY <1>1, <1>2 DEF Pair
<1>6. now \in Value \cup {Torn} /\ cache' \in Pair
    BY <1>1, <1>2, <1>3, <1>4 DEF Written, Pair
<1>9. Sound(s) /\ s.pc \in {"key", "secret"} /\ Pending(s) = p /\ s.phase = worker[w].phase
    BY <1>1, <1>2 DEF Sound, WorkerRec, Fast, Pending
<1>11. Writing(s, cache')
  <2>1. CASE now = new
    <3>1. s.pc = "secret"
      BY <1>2, <2>1 DEF WorkerRec
    <3>2. CASE worker[w].phase = "default" /\ p = Empty
      <4>1. now = cache.key /\ cache.key = cache.secret
        BY <1>1, <1>2, <1>4, <2>1, <3>2 DEF Writing
      <4>2. QED
        BY <1>5, <1>9, <3>1, <3>2, <4>1 DEF Writing
    <3>3. CASE ~(worker[w].phase = "default" /\ p = Empty)
      BY <1>4, <1>5, <1>9, <2>1, <3>1, <3>3 DEF Writing
    <3>4. QED
      BY <3>2, <3>3
  <2>2. CASE now # new
    <3>1. s.pc = "key"
      BY <1>2, <2>2 DEF WorkerRec
    <3>2. now = Torn /\ cache.key = Empty /\ new # Empty
      BY <2>2 DEF Written
    <3>3. p # Empty
      BY <1>4, <3>2
    <3>4. QED
      BY <1>5, <1>9, <3>1, <3>2, <3>3 DEF Writing
  <2>3. QED
    BY <2>1, <2>2
<1>12. s.pc \in Holding /\ worker[w].pc \in Holding
    BY <1>1, <1>9 DEF Holding
<1>13. store' \in Settings /\ Whole(store') /\ locked' = locked /\ Plain'
    BY <1>1, <1>2
<1>14. QED
  <2> HIDE DEF s
  <2> QED
    BY <1>1, <1>6, <1>9, <1>11, <1>12, <1>13, Inside

\* The secret is written; the lock is let go unless the settings are stored.
LEMMA InvWriteSecret ==
    ASSUME Inv, NEW w \in Worker, WriteSecret(w)
    PROVE  Inv'
<1> DEFINE new == ToCache(w, cache.secret, worker[w].read.secret, worker[w].posted.secret)
           now == Written(cache.secret, new)
           p   == Pending(worker[w])
<1>1. /\ worker[w].pc = "secret" /\ UNCHANGED store /\ Plain'
      /\ cache' = [cache EXCEPT !.secret = now]
    BY DEF WriteSecret, At, Inv, Plain, counts
<1>2. /\ Sound(worker[w]) /\ worker[w] \in WorkerRec /\ cache \in Pair
      /\ Writing(worker[w], cache) /\ store \in Settings /\ Whole(store)
    BY DEF Inv, Sound
<1>3. cache.key \in Value \cup {Torn} /\ cache.secret \in Value \cup {Torn}
    BY <1>2 DEF Pair
<1>4. p \in Value /\ new = IF worker[w].phase = "default" /\ p = Empty THEN cache.secret ELSE p
    BY <1>2, <1>3, Cached
<1>5. cache'.key = cache.key /\ cache'.secret = now
    BY <1>1, <1>2 DEF Pair
<1>6. now \in Value \cup {Torn} /\ cache' \in Pair
    BY <1>1, <1>2, <1>3, <1>4 DEF Written, Pair
<1>9. CASE now # new
  <2>1. worker' = worker /\ locked' = locked
    BY <1>9 DEF WriteSecret
  <2>2. worker' = [worker EXCEPT ![w] = worker[w]]
    BY <2>1 DEF Inv
  <2>3. now = Torn /\ cache.secret = Empty /\ new # Empty
    BY <1>9 DEF Written
  <2>4. p # Empty
    BY <1>4, <2>3
  <2>5. Writing(worker[w], cache')
    BY <1>1, <1>2, <1>5, <2>4 DEF Writing, Fast
  <2>6. worker[w].pc \in Holding /\ Whole(store') /\ store' \in Settings
    BY <1>1, <1>2 DEF Holding
  <2>7. QED
    <3> QED
      BY <1>1, <1>2, <1>6, <2>1, <2>2, <2>5, <2>6, Inside
<1>10. now = new => cache'.key = cache'.secret
  <2>1. SUFFICES ASSUME now = new PROVE cache.key = new
    BY <1>5
  <2>2. QED
    BY <1>1, <1>2, <1>4 DEF Writing
<1>11. CASE now = new /\ worker[w].phase = "store"
  <2> DEFINE s == [worker[w] EXCEPT !.pc = "put"]
  <2>1. worker' = [worker EXCEPT ![w].pc = "put"] /\ locked' = locked
    BY <1>11 DEF WriteSecret, Goes
  <2>2. worker' = [worker EXCEPT ![w] = s]
    BY <2>1
  <2>3. Sound(s) /\ s.pc = "put"
    BY <1>1, <1>2, <1>11 DEF Sound, WorkerRec, Fast
  <2>4. Writing(s, cache') /\ s.pc \in Holding
    BY <1>10, <1>11, <2>3 DEF Writing, Fast, Holding
  <2>5. worker[w].pc \in Holding /\ Whole(store') /\ store' \in Settings
    BY <1>1, <1>2 DEF Holding
  <2>6. QED
    <3> HIDE DEF s
    <3> QED
      BY <1>1, <1>6, <2>1, <2>2, <2>3, <2>4, <2>5, Inside
<1>12. CASE now = new /\ worker[w].phase # "store"
  <2> DEFINE s == Unlocked(w)
  <2>1. worker' = [worker EXCEPT ![w] = s] /\ locked' = FALSE
    BY <1>12 DEF WriteSecret
  <2>2. Sound(s) /\ s.pc \in {"idle", "end", "lock", "call"}
    BY <1>1, <1>2, <1>12, UnlockedSound
  <2>3. Writing(s, cache') /\ s.pc \notin Holding /\ cache'.key = cache'.secret
    BY <1>10, <1>12, <2>2 DEF Writing, Holding
  <2>4. worker[w].pc \in Holding /\ Whole(store') /\ store' \in Settings
    BY <1>1, <1>2 DEF Holding
  <2>5. QED
    <3> HIDE DEF s
    <3> QED
      BY <1>1, <1>6, <2>1, <2>2, <2>3, <2>4, Inside
<1>13. QED
    BY <1>9, <1>11, <1>12

\* The posted settings are stored, or the store fails, and the lock is let go.
LEMMA InvPut ==
    ASSUME Inv, NEW w \in Worker, Put(w) \/ PutFails(w)
    PROVE  Inv'
<1>1. /\ worker[w].pc = "put" /\ UNCHANGED cache /\ Plain' /\ locked' = FALSE
      /\ worker' = [worker EXCEPT ![w] = Idle]
      /\ store' \in {store, worker[w].posted}
    BY DEF Put, PutFails, At, Ends, Done, Inv, Plain, counts
<1>2. /\ Sound(worker[w]) /\ Writing(worker[w], cache) /\ cache \in Pair
      /\ store \in Settings /\ Whole(store)
    BY DEF Inv
<1>3. worker[w].posted \in Settings /\ Whole(worker[w].posted) /\ cache.key = cache.secret
    BY <1>1, <1>2 DEF Sound, WorkerRec, Writing
<1>4. store' \in Settings /\ Whole(store')
    BY <1>1, <1>2, <1>3
<1>5. worker[w].pc \in Holding /\ Idle.pc \notin Holding
    BY <1>1, IdleSound DEF Holding
<1>6. Sound(Idle) /\ Writing(Idle, cache')
    BY IdleSound
<1>8. QED
    BY <1>1, <1>2, <1>3, <1>4, <1>5, <1>6, Inside

\* The cloud refuses, does not know the gateway, or answers with one.
LEMMA InvCloud ==
    ASSUME Inv, NEW w \in Worker, Refused(w) \/ NotFound(w) \/ Accept(w)
    PROVE  Inv'
<1> USE DEF At
<1>w. Sound(worker[w]) /\ worker[w] \in WorkerRec
    BY DEF Inv, Sound
<1>1. CASE Refused(w)
    BY <1>1, InvEnds DEF Refused, Holding
<1>2. CASE NotFound(w) /\ worker[w].tries = 2
    BY <1>2, InvEnds DEF NotFound, Holding
<1>3. CASE NotFound(w) /\ worker[w].tries # 2
  <2> DEFINE s == AskWithout(w)
  <2>1. /\ worker[w].pc = "call" /\ worker[w].gateway # Empty
        /\ worker' = [worker EXCEPT ![w] = s]
    BY <1>3 DEF NotFound
  <2>2. worker[w].tries = 0
    BY <1>w, <2>1 DEF Sound, WorkerRec
  <2>3. s = [worker[w] EXCEPT !.gateway = Empty, !.tries = 1]
    BY <2>2 DEF AskWithout
  <2>4. Sound(s) /\ s.pc = "call"
    <3>1. s \in WorkerRec
      <4>1. 1 \in 0..1
        OBVIOUS
      <4>2. [worker[w] EXCEPT !.gateway = Empty, !.tries = 1] \in WorkerRec
        BY <1>w, <4>1 DEF WorkerRec
      <4>3. QED
        BY <2>3, <4>2
    <3>2. /\ s.pc = "call" /\ s.gateway = Empty /\ s.op = worker[w].op
          /\ s.read = worker[w].read /\ s.posted = worker[w].posted
          /\ s.phase = worker[w].phase /\ s.result = worker[w].result
      BY <1>w, <2>1, <2>3 DEF WorkerRec
    <3>3. QED
      BY <1>w, <2>1, <3>1, <3>2 DEF Sound, Fast
  <2>5. s.pc \notin Holding /\ worker[w].pc \notin Holding
    BY <2>1, <2>4 DEF Fast, Holding
  <2>6. Plain' /\ UNCHANGED <<store, cache, locked>>
    BY <1>3 DEF NotFound, Inv, Plain, counts
  <2>7. QED
    <3> HIDE DEF s
    <3> QED
      BY <2>1, <2>4, <2>5, <2>6, Outside
<1>4. CASE Accept(w)
  <2>1. PICK g \in Gateway :
          /\ IF worker[w].gateway = Empty THEN g.of = worker[w].posted.key
                                          ELSE Known(w) /\ g = worker[w].gateway
          /\ gateways' = gateways \cup {g}
          /\ worker' = [worker EXCEPT ![w].posted = Answered(w, g),
                                      ![w].gateway = Empty, ![w].phase = "store",
                                      ![w].pc = "lock"]
    BY <1>4 DEF Accept
  <2> DEFINE q == Answered(w, g)
             s == [worker[w] EXCEPT !.posted = q, !.gateway = Empty,
                                    !.phase = "store", !.pc = "lock"]
  <2>2. worker[w].pc = "call" /\ worker[w].posted.key = worker[w].posted.secret
    BY <1>4 DEF Accept
  <2>3. g.of = worker[w].posted.key /\ g.of \in Account /\ g.n \in 1..MaxGateway
    BY <2>1 DEF Known, Gateway
  <2>4. q = [worker[w].posted EXCEPT !.gateway = g] /\ worker[w].posted \in Settings
    BY <1>w DEF Answered, WorkerRec
  <2>5. q \in Settings /\ q.key = q.secret /\ q.key = g.of /\ q.gateway = g
    BY <2>2, <2>3, <2>4 DEF Settings
  <2>6. Whole(q) /\ q # NoSettings
    <3>1. g \in [of : {g.of}, n : 1..MaxGateway]
      BY <2>3 DEF Gateway
    <3>2. q.key # Empty
      BY <2>3, <2>5, Strings
    <3>3. QED
      BY <2>5, <3>1, <3>2 DEF Whole, NoSettings
  <2>7. s \in WorkerRec /\ s.pc = "lock" /\ s.phase = "store" /\ s.posted = q
    BY <1>w, <2>5 DEF WorkerRec
  <2>8. s.op = worker[w].op /\ s.read = worker[w].read /\ s.result = worker[w].result
        /\ s.gateway = Empty
    BY <1>w DEF WorkerRec
  <2>9. Sound(s)
    BY <1>w, <2>2, <2>6, <2>7, <2>8 DEF Sound, Fast
  <2>10. s.pc \notin Holding /\ worker[w].pc \notin Holding
    BY <2>2, <2>7 DEF Fast, Holding
  <2>11. Plain' /\ UNCHANGED <<store, cache, locked>>
    BY <1>4, <2>1 DEF Accept, Inv, Plain, counts
  <2>12. worker' = [worker EXCEPT ![w] = s]
    BY <2>1
  <2>13. QED
    <3> HIDE DEF s
    <3> QED
      BY <2>9, <2>10, <2>11, <2>12, Outside
<1>5. QED
    BY <1>1, <1>2, <1>3, <1>4

\* The cloud forgets a gateway; the server is restarted.
LEMMA InvEnvironment ==
    ASSUME Inv, Deleted \/ Restart
    PROVE  Inv'
<1>1. CASE Deleted
  <2>1. UNCHANGED <<store, cache, locked, worker>> /\ Plain'
    BY <1>1 DEF Deleted, Inv, Plain, counts
  <2>2. QED
    BY <2>1 DEF Inv, OneHolder, CacheIsWhole
<1>2. CASE Restart
  <2>1. /\ worker' = [w \in Worker |-> Idle] /\ cache' = NoPair /\ locked' = FALSE
        /\ store' = store
    BY <1>2 DEF Restart
  <2>2. Plain'
    <3>1. restarts < MaxRestarts /\ restarts' = restarts + 1 /\ restarts \in 0..MaxRestarts
      BY <1>2 DEF Restart, Inv, Plain
    <3>2. MaxRestarts \in Nat
      BY SettingsAssumption DEF SettingsAssumption
    <3>3. restarts' \in 0..MaxRestarts
      BY <3>1, <3>2
    <3>4. QED
      BY <1>2, <3>3 DEF Restart, Inv, Plain
  <2>3. cache' \in Pair /\ CacheIsWhole'
    BY <2>1 DEF NoPair, Pair, Value, CacheIsWhole
  <2>4. \A w \in Worker : worker'[w] = Idle
    BY <2>1
  <2>5. OneHolder'
    BY <2>1, <2>4, IdleSound DEF OneHolder, Holding
  <2>6. worker' = [w \in Worker |-> worker'[w]] /\ locked' \in BOOLEAN
    BY <2>1
  <2>7. QED
    BY <2>1, <2>2, <2>3, <2>4, <2>5, <2>6, IdleSound DEF Inv
<1>3. QED
    BY <1>1, <1>2

LEMMA InvNext == Inv /\ [Next]_vars => Inv'
<1> SUFFICES ASSUME Inv, [Next]_vars PROVE Inv'
    OBVIOUS
<1>1. CASE UNCHANGED vars
    BY <1>1 DEF vars, counts, Inv, Plain, OneHolder, CacheIsWhole
<1>2. CASE Deleted \/ Restart
    BY <1>2, InvEnvironment
<1>3. ASSUME NEW w \in Worker,
             CallGet(w) \/ CallCreds(w) \/ CallOverwrite(w) \/ Steps(w)
      PROVE  Inv'
  <2>1. CASE CallGet(w) \/ CallCreds(w) \/ CallOverwrite(w) \/ CallRegister(w)
      BY <2>1, InvCalls
  <2>2. CASE Test(w) \/ TestSecret(w) \/ Copy(w) \/ CopySecret(w) \/ Return(w)
      BY <2>2, InvFast
  <2>3. CASE Read(w) \/ ReadFails(w)
      BY <2>3, InvRead
  <2>4. CASE Lock(w)
    <3>1. Plain'
      BY <2>4 DEF Lock, Inv, Plain, counts
    <3>2. QED
      BY <2>4, <3>1, Taking
  <2>5. CASE WriteKey(w)
      BY <2>5, InvWriteKey
  <2>6. CASE WriteSecret(w)
      BY <2>6, InvWriteSecret
  <2>7. CASE Refused(w) \/ NotFound(w) \/ Accept(w)
      BY <2>7, InvCloud
  <2>8. CASE Put(w) \/ PutFails(w)
      BY <2>8, InvPut
  <2>9. QED
      BY <1>3, <2>1, <2>2, <2>3, <2>4, <2>5, <2>6, <2>7, <2>8 DEF Steps
<1>4. QED
    BY <1>1, <1>2, <1>3 DEF Next

LEMMA Invariant == Spec => []Inv
    BY InvInit, InvNext, PTL DEF Spec

-----------------------------------------------------------------------------
(* The theorems. *)

\* The number of goroutines in the lock.
LEMMA Holders ==
    ASSUME Inv
    PROVE  Cardinality({w \in Worker : worker[w].pc \in Holding}) = IF locked THEN 1 ELSE 0
<1> DEFINE H == {w \in Worker : worker[w].pc \in Holding}
<1>1. CASE locked
  <2>1. PICK w \in Worker : worker[w].pc \in Holding
    BY <1>1 DEF Inv, OneHolder
  <2>2. H = {w}
    BY <2>1 DEF Inv, OneHolder
  <2>3. QED
    BY <1>1, <2>2, FS_Singleton
<1>2. CASE ~locked
  <2>1. H = {}
    BY <1>2 DEF Inv, OneHolder
  <2>2. QED
    BY <1>2, <2>1, FS_EmptySet
<1>3. QED
    BY <1>1, <1>2

\* The types of the settings, of their cache and of the goroutines; the lock is
\* held by one at most, and the cloud is asked twice at most
\* (settings_manager.go, lines 120-222).
THEOREM SettingsTyped == Spec => []TypeOK
<1>1. ASSUME Inv PROVE TypeOK
  <2>1. worker \in [Worker -> WorkerRec]
    BY <1>1 DEF Inv, Sound
  <2>2. Cardinality({w \in Worker : worker[w].pc \in {"key", "secret", "put"}})
          = IF locked THEN 1 ELSE 0
    BY <1>1, Holders DEF Holding
  <2>3. QED
    BY <1>1, <2>1, <2>2 DEF Inv, Plain, TypeOK, WorkerRec
<1>2. QED
    BY <1>1, Invariant, PTL

\* A cache that nobody is writing holds a key with its own secret, or neither:
\* whatever was in it, and whoever of getDefault, the slow
\* GetCurrentEdgeKeyAndSecret and Overwrite wrote last
\* (settings_manager.go, lines 62, 123 and 215).
THEOREM CacheWhole == Spec => []CacheIsWhole
<1>1. Inv => CacheIsWhole
    BY DEF Inv
<1>2. QED
    BY <1>1, Invariant, PTL

\* What is stored is a key with its own secret and a gateway of their account
\* (settings_manager.go, lines 156-222).
THEOREM StoredMatch == Spec => []CredsMatch
<1>1. Inv => CredsMatch
    BY DEF Inv, CredsMatch
<1>2. QED
    BY <1>1, Invariant, PTL
=============================================================================
