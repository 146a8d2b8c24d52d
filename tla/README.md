# A verification of Chrysalis Video Edge Proxy

This directory holds TLA+ models of the proxy in `src/`, the TLC runs that
check them, and proofs checked by TLAPS. The proxy runs on an edge device: a
server in Go (`src/server`) keeps a docker container for each camera, in which
Python threads (`src/python`) read the camera's RTSP stream; redis carries the
frames from the containers to the server, which hands them to clients over
gRPC and keeps the cloud informed over MQTT and HTTP.

Paths below are relative to `src/server` unless they begin with `python/`.

## 1. Inventory

| Part | State | Operations | Correct when |
|---|---|---|---|
| **Live video**, `grpcapi/grpc_api.go`: `VideoLatestImage`, `cacheLiveVideo` | three `sync.Map`s by device: the list of frames (`realtimeCache`), the redis position read so far (`deviceMap`), the time of the last query; the `container/list` lists themselves; the goroutines | a client polls for the newest frame; a goroutine per device copies the redis stream into the list and stops when nobody asks | a list that clients find is being filled; lists are bounded; an abandoned device is no longer read; frames are sent once and in order |
| **Process managers**, `services/process_manager*.go`, `services/app_process_manager.go`, `api/*_process.go`, `grpcapi/grpc_proxy_api.go`, `grpcapi/grpc_storage_api.go` | containers in docker, records in badger under a prefix for cameras and one for applications, `proxy_rtmp` in redis, the storage switch in the cloud | Start, Install, Stop, Info, List, ListStream, ListApps, Upgrade, Proxy, Storage | container, record, redis and cloud tell the same story, whatever overlaps or fails |
| **Reporting of device states**, `mqtt/mqtt_impl.go` | history of docker events by name, the event last notified | a docker event starts a goroutine that waits 5 s and reports the newest event | the cloud ends up with the state the container is in |
| **Annotations**, `grpcapi/grpc_annotation_api.go`, `batch/annotation_consumer.go`, rmq | three lists in redis, a channel, a batch | Annotate, batches to the cloud, a ticker that queues rejected ones again | no accepted annotation is lost, and none is sent twice unless an answer was lost; all are sent in the end |
| **MQTT session**, `mqtt/mqtt_communications.go`, `mqtt/mqtt_process_operations.go`, `utils/mqtt_utils.go` | client, token, `stop` channel, redis subscription | connect, renew the token, bind and unbind devices, obey commands from the cloud, stop | the session lasts as long as the server; what the cloud thinks is bound is what is there |
| **Buffered video**, `VideoBufferedImage`, `python/inmemory_buffer.py` | the queue of packets, the list of keyframes, a stream of decoded images for each request | publish a request, decode from a keyframe on, hand over images through a stream of ten | every image of the interval arrives once and in order, the stream ends and is deleted |
| **Camera pipeline**, `python/rtsp_to_rtmp.py`, `python/read_image.py`, `python/archive.py` | packet queue, condition, decode event, the group being collected, mux flag, the groups for the archivers | demux, notify, decode, XADD, mux to RTMP, archive | what is decoded and forwarded has no gap; what is archived is a whole group; no thread dies or waits for ever for another |
| **Applications**, `mqtt/mqtt_process_operations.go`, `services/app_process_manager.go`, `api/app_process.go` | containers, images, records, the messages for the listener, what the cloud was told | commands and requests that install and remove, reports to the cloud | what the cloud was told last is true and answers its last command |
| **Settings and images**, `services/settings_manager.go`, `api/settings.go` | settings in badger, cached key and secret, image versions | Get, Overwrite, credentials, registration, list and pull images | the key belongs to the secret and the gateway to both; the cache follows the datastore |
| Disk cleanup, `python/disk_cleanup.py` | files | remove old ones | not modelled: input and output |
| Statistics, probes, routes, configuration, `main.go`, models, utilities | little | | not modelled: they read, format and wire |
| Portal, generated protocol code, examples | | | not modelled: clients of the above, or generated |

How they interact: REST and gRPC handlers, commands from MQTT and tickers all
call the process managers directly, each in a goroutine of its own and with no
lock; the managers tell the MQTT side through redis pub/sub; docker tells it
through its event stream; the server and the camera containers share only
redis keys. The last-access time that `VideoLatestImage` writes makes the
container decode; the XADD of the container is what `cacheLiveVideo` reads.

What is hard here:

* **no locks**: handlers and goroutines read, decide and write in several
  steps over `sync.Map`s, badger, docker and redis;
* **an unlocked `container/list`** shared by handlers and goroutines;
* **read-modify-write of whole records** (`Info` writes what it read);
* **several steps in several services** with errors and crashes between them;
* **timers** (5 s, 10 s, tickers) that wake several goroutines together;
* **at-least-once machinery** with rejection and acknowledgement mixed.

`PROJECT.json` lists every one of these places with its line under "hazards".

## 2. Modules

### LiveCache (`LiveCache.tla`, `Feed.tla`, `MCLiveCache.tla`, `LiveCacheProofs.tla`)

One device, because every field of the handler is keyed by it. `gih` is the
device's entry in the three maps; `lists` the `list.List` objects, with the
linked items and the `len` field apart, because a race can separate them;
`cacher` the goroutines, `client` the calls. Every operation on a map is an
action, and so is every operation on a list: `Call`, `Touch`, `Lookup`,
`StoreNew`, `Spawn`, `Look`, `Take` are the lines of `VideoLatestImage` in
order, `Top`, `Check`, `XRead`, `LoadList`, `Trim`, `Push`, `StoreList` the loop
of `cacheLiveVideo`, and `LoadStale`, `CleanList`, `DeleteMap`, `DeleteQuery` its
cleaning. Pushing a batch and removing fronts in the cleaning are one action
each; with `ListRaces`, an operation that overlaps another on the same list may
lose its update, which is how two overlapping batches are told from a single
one. `Panic` is the failing type assertion on the sentinel of a damaged list;
docker restarts the server, with empty maps. A frame is its number in the
stream; the stream keeps a suffix whose length is only about `StreamLen`,
because redis trims approximately. The clock counts units to which the 5 s and
10 s are scaled.

The device's stream is bound to `MaxFrame` frames, the clock to `MaxTime`, the
calls to those begun up to `LastCall`, the goroutines to `Cacher` and the lists
in use to `ListId`: a handler that finds none free waits, so the bounds cut
behaviours off and add none.

* `TypeOK`, run `races`, theorem `TypeCorrect`.
* `NoOrphanCache`, run `races`, theorem `CacheIsFilled`: a list that clients find
  has a goroutine that fills it or one about to be started. If it failed, no
  handler would start another (only one that finds no list does), and the
  device would stay dark until the server restarts.
* `LenBounded`, run `live`, theorem `LengthIsBounded`: whatever interleaves, a list is longer than nine by at
  most a batch of ten for each goroutine of the device. (The comment at
  `grpc_api.go:264` promises ten frames; nineteen are reached by one goroutine,
  since the list is trimmed before the batch is pushed.)
* `CachingStops`, run `live`: once the device has frames and clients stop asking,
  every goroutine stops, while operations on a list do not race. When they do, a
  `len` that has run ahead of the items keeps the dropping loop (`grpc_api.go:265`)
  turning for ever; TLC shows it with `ListRaces`. (For a device without frames a
  goroutine never stops: the test at `grpc_api.go:225` also asks for a position other
  than "0".)
* `Ordered`, run `order`, theorem `OrderIsKept`: while one goroutine copies the
  stream and none cleans, a client is sent newer frames only. With two goroutines it
  is not so, since both read the same positions; after a cleaning the stream is read
  from the start again; and a panic restarts the server with empty maps. The run has
  one goroutine and a clock that ends before it could clean; the theorem states the
  three conditions.
* `IsFeed`, run `order`, theorem `WatchesFeed`, under the same conditions: the device
  and its clients implement `Feed.tla`, the abstract specification of the live
  video, in which a camera produces frames and a viewer is sent any produced frame
  newer than its last. So a client is sent, beyond `Ordered`, produced frames only,
  and no other step changes what it was sent. (The same frame sent again is a stutter
  of the feed: that there is none is what `Ordered` says.)

No promise is made that a polling client is served a frame: under repeated
cleanings a handler may poll a list that has been detached, or find the list
empty three times, and the code does not wait for frames at all.

### Processes (`Processes.tla`, `MCProcesses.tla`, `ProcessesProofs.tla`)

Requests run in workers that interleave between any two calls to docker,
badger, redis or the cloud. `docker` maps a name to its container (state, id,
kind), `store` a prefix and a name to the record, whose content is the two
switches that requests change, `outside` holds the two values those switches
mirror: `proxy_rtmp` in redis and the storage switch in the cloud. A request is
a program counter: Start and Install go `prune, create, run, hset, put`; Stop
`get, stop, del, prune`; Info `get, load, save`; Proxy and Storage are an Info
followed by `call, put`; List, ListApps and ListStream take the names first and
run an Info for each, and the first two then delete what docker did not know;
an upgrade goes `find, load, halt, remove, create, run, put`, since
ContainerReplace stops the old container, removes it, and creates and starts the
new one: an error, a crash, or another's prune between two of these leaves the
camera without its container, or with one that does not run. `Errors` is the
failure of the service a step needs, `StopFails` the errors of ContainerStop that
Stop does not look at, `Crash` a crash between any two steps. The panic that a
failing HSET or Put causes in Proxy and Storage (the text of a nil error) is a
crash.

Abstracted: image versions and everything else in a record that no request
changes concurrently; camera names are lower case (the code creates under the
lower-case name and starts under the name as given); cameras have an RTMP
endpoint. `up` is a history variable: the cameras whose Start or upgrade returned
without an error, was alone, that is, overlapped no Stop, upgrade or Start of the
name that works against it (`Opposite`), and was not yet taken for missing by a
List under way (`Missed`). A Stop that is asked for takes the camera out of `up`,
and so does the step `halt` of an upgrade.

* `TypeOK`, `StartedIsKept`, run `kept`, theorems `TypeCorrect` and `StartedKept`: a
  camera that was started or upgraded has a running container and a record until
  somebody asks to stop it or an upgrade takes it down, through every operation,
  every failure and every crash. What `up` leaves out are the races of the code
  listed below; an upgrade that fails half-way is seen as taking the camera down,
  because that is what it does.
* `StopStops`, same run, theorem `StopCorrect`: a Stop that found the container and
  returns without an error leaves none of the name running, unless a Start or an
  upgrade of the name overlapped it, or docker refused to stop the container.
* `CameraRecordsCleaned`, run `lists`: a record without a container does not stay,
  even one that a slow Info writes back or a broken upgrade leaves. The run has
  no crash and no failure: a List that docker fails as a whole (356) cleans nothing.

What the properties except is what the code does not keep; TLC finds each when its
exception is taken out of the model:

* Every error of ContainerStop but "not found" is passed over
  (`process_manager.go:256`): Stop deletes the record and returns nil while the
  container runs on, although its comment (240) says that it "stops the docker
  container by the name of deviceID".
* An upgrade replaces the container between `ContainerGet` and `ContainerStop`
  (`process_manager.go:257`), which takes the missing id for success; Stop reports
  success and the camera runs on, with its record.
* A Start or an upgrade that a Stop overlaps may return without an error for a
  camera that has been stopped, or whose record has been deleted.
* List takes a camera for lost, the camera is started, and List deletes its new
  record: the camera runs without one, although the datastore is said to hold
  one for each connected camera.

And two disagreements that no property speaks of:

* An Info that overlaps a Proxy writes the old record back: the datastore says
  streaming where `proxy_rtmp` in redis says not, and nothing mends it.
* ListApps deletes lost applications under the prefix of cameras
  (`app_process_manager.go:201`): records of lost applications stay for ever.

### DeviceEvents (`DeviceEvents.tla`, `MCDeviceEvents.tla`, `MqttProofs.tla`)

One device, because all is kept by its name. `Docker` produces the events of a
container that restarts always; `changedDeviceState` receives them, stores the
newest and starts a goroutine that sleeps (`waiting`) and then wakes, compares,
stores and reports (`check`), each a step, so that the goroutines of a burst
interleave. `Info` drops the report when docker no longer knows the container, and
`Report` publishes it. `InfoFails` and `ReportFails` are the ways in which the report is
given up for a container that is there: it has no record (which returns no error,
`mqtt_impl.go:154`), or docker, the datastore, the settings or publishing fail;
nothing tries again, and `failed` remembers it of the last attempt. The names of the specification begin with `Events`, so that
`MqttProofs` can extend this module and Gateway, the two parts of the session.

* `EventsTypeOK`, `NewsReported`, run `reported`, theorems `EventsTypeCorrect` and
  `NewsIsReported`: when all is quiet and the last attempt was not given up, the
  cloud has been told of the device, and of its newest event unless that equals
  the first one, whatever the order of the goroutines. A
  container that is gone is excluded, since the code does not report it.

Also seen: what was notified is stored for the first event only
(`mqtt_impl.go:112`), so a camera that was started, died and was restarted
stays "restarting" in the cloud, although the comment at 320 speaks of "the
previously reported device": the excuse in `NewsReported` is for that. Each goroutine of a burst publishes the same newest status, although
the comment at `mqtt_impl.go:75` speaks of true changes only.

Assumed: all that is not a sleep takes less than a second, so that a goroutine
does not sit between its look and its report while the next ones overtake it.
Without this an old status may overwrite a newer one. The container does not
exist when the server starts. Both are assumptions of the property, not of
the code.

### AnnotationQueue (`AnnotationQueue.tla`, `Outbox.tla`, `AnnotationQueueProofs.tla`)

The three lists of rmq (`ready`, `unacked`, `rejected`), the channel of
`deliveries` that one goroutine of rmq fills and another empties into a `batch`,
the consumer and the ticker's loop. rmq is external and modelled from its use:
RPOPLPUSH to fetch and to return, LPUSH and LREM to reject, LREM to
acknowledge. LREM compares payloads, so equal annotations matter and two
payloads with several copies are enough to let them meet. A post ends in one of three
ways. `Send`: the cloud has the batch and its answer came. `SendFails`: the cloud has
nothing, because it was not reached or refused. `SendUnanswered`: the cloud has the
batch, but the answer was lost, came after the time-out, or was an error; resty then
posts again by itself (`SetRetryCount`, `annotation_consumer.go:23`, the state "post"),
or the call fails and the batch is rejected and sent again later, as after
`SendFails`, from which the code cannot tell it. `accepted`, `sent` (stored by the
cloud) and `dropped` count, as history, and `again` counts what was stored without an
answer, and so may be stored again.

* `TypeOK`, `Conserved`, run `conserved`, theorems `TypeCorrect` and `ConservedCorrect`:
  every accepted annotation is in exactly one place, though a rejected batch is
  acknowledged as well and the second LREM may hit an equal payload: what is lost
  from `unacked` is never needed again while the server runs. The cloud has more
  than that by exactly what `again` counts: one twice only after a lost answer.
* `AllSent`, same run: all are posted in the end, or were given up when the key was
  missing (that batch is neither acknowledged nor rejected), and a copy whose answer
  was lost is not the last one.
* `IsOutbox`, same run, its safety part theorem `ActsAsOutbox`: the queue implements
  `Outbox`, the abstract specification of what Annotate promises, delivery at least
  once. `Outbox` has no queues: an annotation is accepted, waits, and leaves with
  others that wait, by one call, to the cloud or for good; a delivery that is not
  heard of (`DeliverUnheard`) leaves it waiting, and nothing waits for ever. The
  refinement mapping takes for `waiting` what is in `ready`, in `rejected`, in the
  channel, or in the part of the batch that is neither sent with an answer nor
  rejected yet; what is `unacked` is not counted, for it is in one of the others as
  well, or done with. Fetching, rejecting, the double acknowledgement and queueing
  again are then stuttering steps.

Also seen: the loop takes two ticks for each look at the rejected ones (the
comment says every 5 seconds, it is every 10), and `unacked_limit` bounds the
channel only, while those of the batch are unacknowledged too. A crash strands
what is in `unacked`, since a new connection has new lists; that is outside
`Conserved`, which speaks of one run of the server.

### BufferedVideo (`BufferedVideo.tla`, `BufferedVideoProofs.tla`)

One camera's packets and keyframes, the calls of `VideoBufferedImage`, and for
each call a decoding process in every container that heard of it, because
`InMemoryBuffer.run` does not look at the device of a query. A handler goes
`new, read, xdel, delete`; a process `seek, clamp, xread, decode, push, finish`,
the lines of `query_results` in order. Redis ids are times in milliseconds, an
image is known by the time of its packet, and `added` numbers the images of a
stream. XADD with an approximate length removes any number of whole nodes, so
`Trimmed` leaves the choice. Decoding may yield no image or raise, and a
container may be restarted with its processes. The waits of ten seconds for
room and of fifteen seconds for an image may end at any time, which covers
every order of the two; fairness asks a time-out of a handler only while it has
nothing to read.

* `TypeOK`, run `queries`, theorem `TypeCorrect`.
* `SentInOrder`, run `queries`, theorem `OrderIsKept`: a client is sent images at most
  once, in the order of the packets and from before the end of the query only.
* `CallsReturn`, same run: a call ends though nobody heard it, the keyframe list is
  empty, decoding raises or the container dies.
* `ProcessesEnd`, same run: no process searches for the end of its query for ever,
  because the end is put back to now and the camera goes on sending. If the
  camera stops, the process does read for ever (`inmemory_buffer.py:192`).

Also seen: the flag that a keyframe was found is set by the first packet that is
not one (`inmemory_buffer.py:212`), although the code then prints "First I-Frame
found": the keyframe is skipped and decoding starts in the middle of its group;
with two cameras, both containers decode every query from the same
packets into the same stream, so `SentInOrder` holds for one container only and
the first of the two ends the call; of each ten images read one is sent and
one deleted, so the skipped ones fill the stream and the process waits ten
seconds for each further image; a process that pushes after the handler has
deleted the stream creates it anew, and `memoryCleanup` deletes a key that lacks
the id of the request; the batch that reaches past the end of the query is not
decoded at all; the list of keyframes is as long as that of packets and so names
keyframes whose packets are gone.

### Gateway (`Gateway.tla`, `MqttProofs.tla`)

Which cameras are `installed` and which are `bound` in the cloud. REST handlers
install, remove or upgrade a camera and then publish the change; `OnMessage` publishes
commands on the same `channel`; the `listener` carries out one message at a time,
in the steps of `bindDevice`, `unbindDevice`, `StartCamera` and `StopCamera`; `link`
is how far `StartGatewayListener`, `gatewayInit`, `connectClient` and
`monitorTokenExpiration` are, with the list of `bindAllDevices` in `todo`; `client`
and `out` are the MQTT client and what it has yet to deliver, at least once.
`Restart` ends the server and all it has in memory. Installing, removing and
upgrading are one step each here, with every outcome their callers see or do not
see: done; nothing done and an error; or the camera gone and an error all the same
(`GoneUntold`: the pruning at the end of Stop fails, `process_manager.go:270`, or an
upgrade loses the container it replaces), after which neither the REST handler
(`rtsp_process.go:153`) nor `StopCamera` tells anybody. `InfoFirst` gives up at an error
of Info other than "not found", and `Detach` without the settings. What happens inside
these steps is the matter of `Processes`. A container that dies by other hands, and a
record that List deletes in the race described there, do not count as removals here.

* `TypeOK`, `BoundIsInstalled`, run `bindings`, theorems `TypeCorrect` and `BoundCorrect`: once nothing about a camera is under
  way, the cloud has it bound only if it is installed. `excused` names the
  cameras for which the code cannot promise it: a Stop or an upgrade failed after the
  camera was gone; news of the removal was lost (no listener, no client, no settings,
  a restart, or a session closed with reports undelivered); or it was removed while
  `bindAllDevices` had it on its list. Nothing repairs any of these. The last is a race of the code: without that excuse TLC finds a removed camera
  bound again and kept so.
* `InstalledIsBound`, same run: a camera that stays installed is bound in the end,
  through lost messages, broken connections and restarts, because each new
  session reports all cameras. It is stated for behaviours in which no attempt
  to connect fails, since the code never tries again, neither at the start
  (`mqtt_communications.go:113`) nor when the token is renewed (426).

Also seen: commands that the broker kept are delivered before `run` has
subscribed to the channel they are passed on by, and are lost; the channel
`stop` is never made, but `main` ends by `os.Exit`, so `StopGateway` does not run.

### CameraPipeline (`CameraPipeline.tla`, `CameraPipelineProofs.tla`)

One camera's container. `reader` is `RTSPtoRTMP.run`: `open`, `demux`, `settings`
(HGETALL and the decisions taken from it), `acquire` (notify with the lock of the
condition), `set`, `clear`, `empty`, `put`, `mux`, the lines of the loop in order;
`decoder` is `ReadImage.run`: `enter` and `wait` of the condition, `woken`, `check`
and `isset` (the two halves of the test in line 67), `get` and `pop` (a Python
queue waits for an item and then takes it; the reader's `queue.clear()` comes
between), `switch`, `decode`, `done`. They share `queue`, its count `unfinished`
and `event`. A packet is known by its group and its place in it. The codec may
refuse a packet, the muxer one, the switch that only keyframes are wanted may be
unreadable; the camera may stop and return, having gone on meanwhile; a failure
to connect or to store ends the process, and docker starts it again. The
archivers, one more for each connection, share a queue of groups, and an
exception ends one of them.

* `TypeOK`, run `pipeline`, theorem `TypeCorrect`.
* `QueueIsOneGroup`, same run, theorem `OneGroup`: though the queue is emptied without its lock,
  what waits in it are packets of one group, without a gap.
* `DecoderLives`, same run, theorem `DecoderStays`: `task_done` is not called more often than `put`, which
  would raise and end the thread, since clearing leaves the count alone.
* `GroupsWhole`, same run, theorem `WholeGroups`: what is archived is a group from its keyframe on,
  without a gap, once, although the group being collected survives a lost
  connection.
* `DecodedInOrder`, same run, theorem `DecodedOrder`: the codec gets a group's packets from the keyframe on
  and without a gap, over switching to keyframes and back; only an unreadable
  switch leaves one.
* `Forwarded`, same run, theorem `ForwardedOrder`: the stream to the cloud starts with a keyframe and has no
  gap, unless the muxer failed, whenever forwarding is switched on.
* `ThreadsGoOn`, same run: the decoder waits for a packet with the lock held that
  the reader needs before it puts one. It is notified before the packet is put and
  the queue is emptied in between, but only by the thread that then puts.

Abstracted: what is in a packet; the ten seconds after a query are a choice for
each packet. So is what the hash says of forwarding (`Switches`): a hash that is gone
or has no `proxy_rtmp` leaves the switch and the flush as they were (162, 170).
`continue` at line 167 is left out, since every HSET of the server writes
`last_query`. The loop ends a group early when a frame of it fails: the
packet is tried again with the next one.

Also seen: a stream of keyframes alone may never be decoded, since the event is
cleared at each and set before it is cleared; the muxer changes `packet.stream`,
and the archiver `dts` and `pts`, of packets that the decoder may still decode; with
cameras that give durations, `minimum_dts` is -1 and all times are moved by one;
connecting to the cloud (110) and HGETALL (160) are outside of any try, so their
failure ends the reader while the container runs on; each lost connection leaves
one more archiver, which writes with the template of its own connection.

### Settings (`Settings.tla`, `SettingsProofs.tla`)

`store` is the datastore's record, `cache` the pair of key and secret, `locked` the
mutex. A goroutine goes `read, lock, key, secret` through `getDefault`, `test,
testsecret, copy, copysecret` through the unlocked part of
`GetCurrentEdgeKeyAndSecret`, and `call, lock, key, secret, put` through
`updateSettingsWithMQTTCredentials`; `phase` tells which of the three writers of the
cache it is at. A key and its secret carry the name of their account, so that
pairs that do not belong together are seen. A Go string is two words: an empty
one that becomes a full one can be seen `Torn`. The cloud knows `gateways`, may
forget one, and answers 404 for one it does not know or that belongs to another
account. Main registers before requests are served; the MQTT listener, which
starts before, already asks for the settings.

* `TypeOK`, run `settings`, theorem `SettingsTyped`: the lock has one holder at most, and
  the cloud is asked twice at most.
* `CacheIsWhole`, same run, theorem `CacheWhole`: key and secret in the cache belong
  together while nobody holds the lock, through the three writers.
* `CredsMatch`, same run, theorem `StoredMatch`: what is stored is a key, its own secret
  and a gateway of that account, over retries without the gateway and restarts.
* `StaleMended`, same run: `getDefault` reads the datastore before it takes the lock, so
  an older pair may overwrite a newer one in the cache, and an Overwrite caches
  what it then fails to store. As the settings are asked for again and again,
  the cache is mended in the end, and what is returned is then what is stored. A
  call that copies the pair while it is written may return a key with another's
  secret for that once: it takes no lock (`settings_manager.go:54`).

Abstracted: region, project, private key and times, which come with the gateway;
an answer of the cloud that cannot be parsed is a refusal.

Also seen: the record is stored under the name that was posted (`219`) and read
under "default", so a post with another name succeeds, fills the cache and is
forgotten; after three times 404 an empty answer is parsed, but the second try is
always the last, since it has no gateway to be unknown.

### Applications (`Applications.tla`, `ApplicationsProofs.tla`)

`worker["listener"]` carries out commands from the `channel` one after the other;
requests run in goroutines of their own. Installing goes `images, pull, prune,
create, run, put`, removing `get, stop, del, clean`; the listener then tells the
cloud (`tell`), `RemoveApp` publishes. A container has an id, because Stop finds it
by name and stops it by id. `cloud` is what the cloud was told last of an
application, `stale` whether a request, the application or an error has
changed the truth since or a report was lost, `last` the last command.

* `TypeOK`, run `applications`, theorem `TypeCorrect`.
* `ReportsAreTrue`, same run, theorem `ReportsTrue`: what the cloud was told runs does run and has
  a record, and what it was told has exited does not run, unless it is `stale`.
* `LastAnswered`, same run, theorem `LastIsAnswered`: when nothing is under way, the state told last answers the
  last command, not an earlier one.
* `ProgressEnds`, same run: an installation told as in progress does not stay so.

Abstracted: the content of a command; one image for each application; commands
are those that are understood (an unreadable one is answered at most with a
report of no name).

Also seen: RemoveApp publishes a removal without a payload
(`api/app_process.go:99`), which cannot be read, so the cloud is told of the
failure of an application without a name, although the comment says "publish to
chrysalis cloud the change"; every error in creating a container is told as a
conflict of names; a command that is delivered twice is told as failed of an
application that runs; a failing list of images is told to nobody; an error of
`ContainerGet` other than "not found" is dropped and its nil result is used; the
suffix of the architecture is appended to a version that may have one already
(`settings_manager.go:330`).

## 3. Bounds

| Run | Instance | Why it is enough |
|---|---|---|
| `LiveCache_races` | 1 client, 2 goroutines, 3 lists, cache and batch of 2, 2 frames, 3 times, races | two goroutines and a handler are the smallest set in which a cleaning, a refill and a lookup overlap; the theorem covers the other sizes |
| `LiveCache_live` | 1 client with 2 rounds, 2 goroutines, cache and batch of 1 | the second round starts the second goroutine; a cleaning happens while both push |
| `LiveCache_order` | 2 clients, 1 goroutine, cache and batch of 2, 4 frames, 4 times | frames are dropped while both clients take, and the clock ends before the goroutine may clean |
| `Processes_kept` | 2 requests, 1 camera, 3 containers, every operation, every failure and crashes (1.4 million states) | each pair of operations overlaps, and containers are replaced twice; the theorems cover the other sizes and applications |
| `Processes_lists` | 2 requests, 1 camera, 1 application, 2 containers, no failure and no crash | List of each kind with a slow Info, a Stop and an upgrade; Proxy and Storage write a record as Info does |
| `DeviceEvents_reported` | 2 goroutines awake, 8 events, 6 ticks, sleep of 2 | two starts, a stop and a restart, with bursts that wake together |
| `BufferedVideo_queries` | 1 request, 1 container, time up to 4, streams and reads of 2 | the query starts before, in and after the buffer, and every stream drops what is old while it is read |
| `Gateway_bindings` | 1 camera, 2 handlers, 4 requests, commands and restarts in all, 1 report waiting when the list is started again | cameras do not affect each other but through the order in which a list is reported; four calls hold an install, a removal, a second install and a restart |
| `CameraPipeline_pipeline` | 3 groups of up to 3 packets, 2 connections, images, or forwarding and archive | a group before, in and after a lost connection; images are not combined with the outputs, which the decoder does not touch |
| `Settings_settings` | 2 accounts, one of which may be stored at first, 2 request goroutines, one of which registers first, 1 reporter, 1 post, 1 restart | a write of the cache meets a read of each kind, and a second account replaces the first |
| `Applications_applications` | 1 application, 1 request goroutine, 3 commands, 2 requests, 3 containers | install, remove and install again, with a request inside each; names do not affect each other but through pruning, which the run has as a step of its own |
| `AnnotationQueue_conserved` | 2 payloads, 3 accepted, channel and batch of 2, answers lost until one payload was repeated twice (`MaxAgain`) | equal payloads in every pair of places, a full channel and a full batch, a batch repeated by resty and by the redo |

The deadlock check is off where the clock, the frames, the events, the groups or
the calls run out by a bound and nothing else is left to do: `LiveCache_live`,
`DeviceEvents_reported`, `CameraPipeline_pipeline` and `Gateway_bindings`. All other
runs check it. Symmetry is used in runs without liveness only.

## 4. Fairness

`LiveCache!LiveSpec`: goroutines and handlers are scheduled (weak fairness of each
one's steps), the clock moves, and redis answers again and again (strong
fairness of `XRead` and `Touch`, whose failures are steps that disable them for a
moment). `Processes!LiveSpec`: requests run on, and List and ListApps are asked
for again and again, as the portal and the five-minute statistics do; strong
fairness, because a free worker is needed. That a List does not fail as a whole is an
assumption of the run, which has no failures, and not of the code. `AnnotationQueue!LiveSpec`: goroutines
and the ticker run, and `Send` succeeds again and again when tried; nothing is
assumed about how often it fails in between, but a batch that the cloud always
refuses, or whose answer never comes, is excluded: the code would repeat it for
ever. `BufferedVideo!LiveSpec`: handlers and
processes run, a handler with nothing to read times out, the clock moves and
the camera sends (only `ProcessesEnd` needs the last). `Gateway!LiveSpec`: the
goroutines and handlers run, a client that is down reconnects and tokens expire
(weak fairness); subscribing and delivering succeed again and again (strong,
since a broken connection disables them). Nothing makes the user, the cloud or
a fault act. `CameraPipeline!LiveSpec`: both threads are scheduled (weak fairness
of the reader's handling of a packet and of the decoder); nothing is assumed of
the camera. `Settings!LiveSpec`: goroutines go on; the settings are asked for again
and again, as the listener and the reports of statistics do, and of these
goroutines a read succeeds and the mutex is granted again and again (strong
fairness, since failing and others' locking disable them for a moment).
`Applications!LiveSpec`: the listener goes on. `Outbox!Spec` has weak fairness of
delivering or giving up, which `AnnotationQueue!LiveSpec` implies.
`DeviceEvents!EventsSpec` states no fairness.

## 5. What is proved

Every invariant that a run checks is a theorem, for every value of the constants:
any number of clients, requests, containers, goroutines, names and payloads, any
capacities and times, and any of the bounds that the runs set. So are all the
action properties: `Ordered`, `SentInOrder`, the two of CameraPipeline and `StopStops`;
the refinement `IsFeed` by the live video; and the safety part of the refinement
`IsOutbox`. Each module below has one inductive invariant per specification, `Inv`
unless another name is given, proved by a lemma for each action; TLC checked the
invariant on the instance of the run first. What it adds to the property is what the
other steps would otherwise break.

`LiveCacheProofs.tla`:

* `TypeCorrect`: `Spec => []TypeOK`. `TypeInv` adds `Held`: a handler or goroutine that
  is inside an operation on a list holds one, and one about to push has a batch.
  Without it the steps that index `lists` by a held list, and the last element of
  a batch, have no type.
* `CacheIsFilled`: `Spec => []NoOrphanCache`. It is inductive given types: a goroutine
  leaves the set that fills a list only through `LoadStale`, when there is no list,
  or `CleanList`, which removes the list in the same step; all others that store a
  list are filling it, and a handler that stores one is about to start a
  goroutine.
* `LengthIsBounded`: `Spec => []LenBounded`. The length of a list alone is not
  inductive, since goroutines that have left the dropping loop add to it later,
  each a batch. `Room` bounds the length together with a batch for each goroutine
  about to push to the list. A goroutine that leaves the loop has found the list
  short, and `RoomStep` says that lists which are short, or have not grown and
  have nobody new about to push, stay within the bound; pushing uses the room
  that was kept. A lost update only loses length, so races do not matter.
* `OrderIsKept` and `WatchesFeed`:
  `Spec /\ []CopiedByOne /\ [][~Dies]_vars => Ordered`, and `=> IsFeed`. Each step of
  the order crosses memory that others write. `OrderInv` says that lists rise and are
  no newer than the stored position (`Sorted`); that the goroutine has the position it
  read on from, and a batch newer than all before (`Remembers`); that a list which
  replaced the one being filled is empty (`FillsOne`); that a list not yet stored is
  known to one handler (`Unknown`); and that what a client may be sent is newer than
  what it was sent, in the list it holds and in those that calls may bring, the
  former older than the latter (`Ahead`, and `Taken` for the frame in its hand).
  `CopiedByOne` is needed because a second goroutine reads the same positions and a
  cleaning forgets them, `~Dies` because a panic empties the maps: TLC shows
  repeated frames without them.
* `SerialListsLive` and `SerialFeed`: without races on a list, `Spec => [][~Dies]_vars`, so
  the order and the feed need `CopiedByOne` alone. `Exact` says that the `len` field of
  a list is the number of its items, and that the list of a client whose element is
  still linked is not empty; hence the front of a list that passed the test of its
  length is never the sentinel.

`BufferedVideoProofs.tla`:

* `TypeCorrect`: `Spec => []TypeOK`. `Timed` adds that listed keyframes lie between
  the first millisecond and now, which puts the start of a query within time, and that
  a process about to push has a packet.
* `OrderIsKept`: `Spec /\ []OneProcess => SentInOrder`. `OrderInv` adds to the types that packets are stored in the
  order of their times (`Stored`) and, for each request, `InTurn`: the images of its
  stream that the handler has not read are newer than what it was sent, and rise with
  their numbers (`Images`); what the process will add, decoded or still to be read, is
  newer than all that was added and lies before the end of the query (`Following`);
  and nothing exists before the query is published (`Starting`). Any trimming of
  either stream leaves fewer images, which keeps this. `OneProcess`, at most one
  container decodes a query, is a hypothesis since every container that hears of it
  adds the same packets to the same stream.
* `OneContainer`: `Spec => SentInOrder` when the device's container is the only one that
  listens, as in the run.

`SettingsProofs.tla`:

* `SettingsTyped`, `CacheWhole` and `StoredMatch`: `Spec => []TypeOK`, `[]CacheIsWhole`
  and `[]CredsMatch`. A cache that is whole now is
  broken by the next write unless the two writes of one goroutine write the same
  account and nobody writes in between. `Sound` says of a goroutine alone that what it
  has read is whole, that what it is about to store is whole and that it has tried
  again only without a gateway; `Writing` ties the cache to the goroutine that holds
  the lock, after each of its writes; `OneHolder` is the mutual exclusion, without counting
  (`Holders` counts, for `TypeOK`). Three lemmas about a step of one goroutine
  (`Outside` the lock, `Taking` it, `Inside` it) leave each action to show only what
  becomes of the goroutine itself.

`ProcessesProofs.tla`:

* `TypeCorrect`: `Spec => []TypeOK`. `Doing` says where a request of each kind may be,
  and the requests that will create a container (`Yet`) are counted with those
  created, since the bound is tested when they begin.
* `StartedKept`: if no application has a camera's name, `Spec => []StartedIsKept`, for
  every operation, failure and crash. `KeptInv` adds that a Start or an upgrade that
  is alone has its container running from the moment it started it until it returns
  (`StartRuns`); that no Stop of a name in `up` is under way, and no upgrade of it that
  has stopped the container and not made the new one (`UpIsNotStopped`); that requests
  which work against each other know of each other (`NeverMeetAlone`); and that no List
  under way holds a name of `up` for missing (`UpIsNotMissed`), which is kept because a
  camera in `up` has its container, so that no List finds it missing any more. The
  hypothesis is the code's: an application of a camera's name gets the camera's
  container, which may end by itself.
* `StopCorrect`: `Spec => StopStops`, without a hypothesis. `StopFound` says that a Stop
  that is alone holds the id of the container there is, or there is none, and that it
  has stopped it once it is past that step. What takes that away is in the property:
  an overlapping Start or upgrade, and an error of docker that Stop ignores.

`MqttProofs.tla`, DeviceEvents:

* `EventsTypeCorrect` and `NewsIsReported`: `EventsSpec => []EventsTypeOK` and
  `[]NewsReported`. The property speaks of quiet states only. `Followed` says that a goroutine which has not
  seen the newest event is followed by one that sleeps on; `StoredIsReported`
  that the event stored as notified has been published, while its container is
  there; `AwakeIsReported` that when none sleeps and none is going to publish, the
  news has been told, unless the last attempt was given up. `Numbered` ties events to containers by their ids.

`MqttProofs.tla`, Gateway:

* `TypeCorrect` and `BoundCorrect`: `Spec => []TypeOK` and `[]BoundIsInstalled`. A camera
  that is gone and not excused (every error that hides a removal excuses it, section
  2) is `GoneWell`: its removal is announced to the
  listener, or being carried out, or every addition on the way to the cloud is
  followed by a removal (`Retracted`). `Retracted` is kept by delivering a message twice,
  as MQTT may, and the listener that is about to report an addition has the
  removal still ahead of it.

`CameraPipelineProofs.tla`:

* `TypeCorrect`, `OneGroup`, `DecoderStays` and `WholeGroups`: `[]TypeOK`,
  `[]QueueIsOneGroup`, `[]DecoderLives` and `[]GroupsWhole`; `DecodedOrder` and
  `ForwardedOrder`: `DecodedInOrder` and `Forwarded`, action properties that follow from
  the same invariant. Its parts: `Reading`, what the reader collects against what
  the camera sends; `Archiving`, archived groups are older than the one collected;
  `Tasks`, every item taken is still counted until it is done, and how many can be
  counted; `Queueing`, the queue goes on from the decoder's packets and ends with
  the last one handed over, which is why emptying it between two steps of the
  decoder does no more than lose packets before a keyframe; `Coding` and `Muxing`,
  what the codec and the muxer were given last.

`ApplicationsProofs.tla`:

* `TypeCorrect`, `ReportsTrue` and `LastIsAnswered`: `[]TypeOK`, `[]ReportsAreTrue` and
  `[]LastAnswered`. `Fits` says what a goroutine is about at each of its steps, `Truth`
  what the listener knows of the container at each of them unless it is in `doubt`,
  and `Answers` that the last command for an application is in the channel, is
  being carried out, or has been answered. Requests are shown once to change
  nothing of this, or to put the listener in doubt (`Others`); the listener's steps
  are then about one application.

`AnnotationQueueProofs.tla`:

* `TypeCorrect` and `ConservedCorrect`: `[]TypeOK` and `[]Conserved`. First come lemmas on
  `Count`: of a concatenation (by a bijection), of a sequence that gains or loses an
  element at either end, and of what is left of a batch; and that LREM yields a
  sequence. `Kept` says `Conserved` by places, each action moves annotations between
  two of them (`Moves`), and a post whose answer is lost adds the same to `sent` and
  `again` (`Stays`); `Going` keeps the indices into the batch and the rejected list within
  bounds. `TotalBounds` carries the bound on all accepted annotations over to each
  payload; how often one is sent has no bound, since answers may be lost for ever.
* `ActsAsOutbox`: `Spec => Promise!Safety`, delivery at least once. Initial states map to
  initial states; every step is one of five kinds (`NextInv`): `Moves` is a stutter of the
  outbox, `Accepts` its `Accept`, `Delivers` its `Deliver`, `Stays` its `DeliverUnheard` and
  `GivesUp` its `GiveUp`, with the batch's counts as witness. The fairness in `Promise!Spec` stays with TLC.

Assumptions on constants: the parameters named as numbers are numbers, capacities
are not zero; absent values (`None`, `NoList`, the empty and the torn key) are none
of the values they are compared with; requests and reporters, or requests and the
listener, are different goroutines; goroutines, requests and payloads, whose
numbers appear in a bound, are finitely many. TLC evaluates all of them.

Only model-checked:

* liveness, since the prover has no ENABLED: `CachingStops`, `CameraRecordsCleaned`,
  `AllSent`, `CallsReturn`, `ProcessesEnd`, `InstalledIsBound`, `ThreadsGoOn`, `StaleMended`,
  `ProgressEnds`, and the fairness in `IsOutbox`.

## 6. Not modelled

* The choice of image versions (`settings_manager.go`, `findHighestVersion` and the
  lists of local images): a pure function of version strings, whose content the
  models abstract; wrong choices come from the strings alone.
* Statistics (`process_manager_stats.go`), `VideoProbe` and `SystemTime`: they read and
  format. List, which the statistics call, is in Processes. (When docker's
  system information cannot be had, its nil result is used.)
* Disk cleanup: a timer that deletes files by the time in their names.
* Server start, routes and configuration: wiring; what a restart does is an action
  of each module. (`setupRedis`, `main.go:251`, returns neither a client nor an
  error when redis answers the third time only.)
* The shutdown of the MQTT session: `main` ends by `os.Exit`, so it does not run.
* The portal, generated code and examples: clients, or generated.

## 7. Plan

The invariants, the action properties and the refinements are proved. What is left:

1. The reports of statistics, which keep the list of cameras clean, in Gateway.
2. The failures of the server's start (`setupRedis`), which need a model of what
   starts the server again.
3. Liveness stays with TLC while the prover has no ENABLED.
