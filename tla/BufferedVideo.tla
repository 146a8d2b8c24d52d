--------------------------- MODULE BufferedVideo ---------------------------
(***************************************************************************)
(* The past of a camera: its container keeps the compressed packets in a   *)
(* redis stream and lists the keyframes in another (packetToInMemoryBuffer *)
(* of inmemory_buffer.py).  VideoBufferedImage of grpc_api.go publishes a  *)
(* query; every container that hears it decodes the packets in a process   *)
(* of its own (query_results) into a stream of the request, from which the *)
(* handler sends images to the client.                                     *)
(*                                                                         *)
(* The id of a packet is its time in milliseconds: no two packets of a     *)
(* camera share one.  An image is known by the time of its packet.         *)
(***************************************************************************)
EXTENDS Naturals, SequencesExt

CONSTANTS
    Request,     \* the calls of VideoBufferedImage
    Container,   \* the containers that listen to the channel of queries
    Device,      \* the container of the camera that is asked for
    BufferLen,   \* in_memory: length of the packet and keyframe streams
    QueryCount,  \* 30: packets a decoding process reads at a time
    ReadCount,   \* 10: images the handler reads at a time
    DecodedLen,  \* 10: images waiting to be read
    Second,      \* milliseconds in a second
    MaxTime      \* bound: the time ends here

ASSUME BufferedAssumption ==
    /\ Device \in Container
    /\ {BufferLen, QueryCount, ReadCount, DecodedLen, Second} \subseteq Nat \ {0}
    /\ MaxTime \in Nat \ {0}

VARIABLES
    now,      \* the clock of redis
    iframes,  \* the times at which keyframes were listed
    queue,    \* the packets
    listed,   \* whether a keyframe is listed and its packet not yet stored
    handler,  \* the handlers
    decoder,  \* request -> container -> its decoding process
    decoded,  \* request -> the stream of its decoded images
    added     \* request -> the id of the last image added to it

camera == <<iframes, queue, listed>>
vars == <<now, camera, handler, decoder, decoded, added>>

Time   == 0..MaxTime
Packet == [at : Time, key : BOOLEAN]
Forever == MaxTime + 1      \* sys.maxsize as the end of a query
Finish == MaxTime + 1       \* the VideoFrame without data that ends it
Image  == [id : Nat \ {0}, frame : Time \cup {Finish}]

NewHandler == [pc |-> "new", from |-> 0, to |-> 0, last |-> 0, sent |-> 0, ended |-> FALSE]
NoDecoder  == [pc |-> "none", pos |-> 0, to |-> 0, found |-> FALSE, todo |-> <<>>]

TypeOK ==
    /\ now \in Time
    /\ iframes \in Seq(Time) /\ queue \in Seq(Packet) /\ listed \in BOOLEAN
    /\ handler \in [Request ->
         [pc : {"new", "read", "xdel", "delete", "done"}, from : Time,
          to : Time \cup {Forever}, last : Nat, sent : Time, ended : BOOLEAN]]
    /\ decoder \in [Request -> [Container ->
         [pc : {"none", "seek", "clamp", "xread", "decode", "push", "finish"},
          pos : Time, to : Time \cup {Forever}, found : BOOLEAN, todo : Seq(Packet)]]]
    /\ \A r \in Request, c \in Container : Len(decoder[r][c].todo) <= QueryCount
    /\ decoded \in [Request -> Seq(Image)]
    /\ added \in [Request -> Nat]

Init ==
    /\ now = 1
    /\ iframes = <<>> /\ queue = <<>> /\ listed = FALSE
    /\ handler = [r \in Request |-> NewHandler]
    /\ decoder = [r \in Request |-> [c \in Container |-> NoDecoder]]
    /\ decoded = [r \in Request |-> <<>>]
    /\ added = [r \in Request |-> 0]

Tick ==
    /\ now < MaxTime
    /\ now' = now + 1
    /\ UNCHANGED <<camera, handler, decoder, decoded, added>>

\* XADD MAXLEN ~: the oldest entries above the length are removed, but only
\* whole nodes of them.
Trimmed(stream, length) ==
    {stream} \cup {SubSeq(stream, i, Len(stream)) : i \in 1..(Len(stream) - length + 1)}

\* XREAD COUNT: where the reading ends that starts at a place of a stream.
ReadTo(stream, start, count) ==
    IF start + count <= Len(stream) THEN start + count - 1 ELSE Len(stream)

First(place, places) == place \in places /\ \A i \in places : place <= i

-----------------------------------------------------------------------------
(* packetToInMemoryBuffer: a keyframe is listed first and then stored.      *)

ListKeyframe ==
    /\ ~listed
    /\ queue # <<>> => Last(queue).at < now
    /\ iframes' \in Trimmed(Append(iframes, now), BufferLen)
    /\ listed' = TRUE
    /\ UNCHANGED <<now, queue, handler, decoder, decoded, added>>

\* Packets before the first keyframe are skipped.
StorePacket ==
    /\ IF queue = <<>> THEN listed ELSE Last(queue).at < now
    /\ queue' \in Trimmed(Append(queue, [at |-> now, key |-> listed]), BufferLen)
    /\ listed' = FALSE
    /\ UNCHANGED <<now, iframes, handler, decoder, decoded, added>>

\* A container is restarted with its processes, and cleans what it keeps in
\* redis: the images it has decoded are under other keys than it deletes.
Restart(c) ==
    /\ decoder' = [r \in Request |-> [decoder[r] EXCEPT ![c] = NoDecoder]]
    /\ IF c = Device THEN iframes' = <<>> /\ queue' = <<>> /\ listed' = FALSE
                     ELSE UNCHANGED camera
    /\ UNCHANGED <<now, handler, decoded, added>>

-----------------------------------------------------------------------------
(* VideoBufferedImage *)

\* PUBLISH: the containers that have subscribed start a process each, also
\* those of other cameras.
Publish(r) ==
    /\ handler[r].pc = "new"
    /\ \E from \in Time, to \in Time \cup {Forever}, heard \in SUBSET Container :
          /\ handler' = [handler EXCEPT ![r].pc = "read", ![r].from = from, ![r].to = to]
          /\ decoder' = [decoder EXCEPT ![r] = [c \in Container |->
                IF c \in heard THEN [NoDecoder EXCEPT !.pc = "seek", !.to = to]
                               ELSE NoDecoder]]
    /\ UNCHANGED <<now, camera, decoded, added>>

\* Mutated: the handler reads from the start each time.
AllOf(r) == DOMAIN decoded[r]

\* The places of the images after the last one read.
Unread(r) == {i \in DOMAIN decoded[r] : decoded[r][i].id > handler[r].last}

\* Of the images read only the last is sent, or ends the reading.
XRead(r) ==
    /\ handler[r].pc = "read"
    /\ \E start \in Unread(r) :
         /\ First(start, Unread(r))
         /\ LET i == decoded[r][ReadTo(decoded[r], start, ReadCount)] IN
            handler' = [handler EXCEPT ![r].pc = "xdel", ![r].last = i.id,
               ![r].ended = i.frame = Finish,
               ![r].sent = IF i.frame = Finish THEN @ ELSE i.frame]
    /\ UNCHANGED <<now, camera, decoder, decoded, added>>

\* XDEL of that image, if the stream has not dropped it: the ones skipped stay.
XDel(r) ==
    /\ handler[r].pc = "xdel"
    /\ \/ \E i \in DOMAIN decoded[r] :
             /\ decoded[r][i].id = handler[r].last
             /\ decoded' = [decoded EXCEPT ![r] = RemoveAt(@, i)]
       \/ /\ \A i \in DOMAIN decoded[r] : decoded[r][i].id # handler[r].last
          /\ UNCHANGED decoded
    /\ handler' = [handler EXCEPT ![r].pc = IF handler[r].ended THEN "delete" ELSE "read"]
    /\ UNCHANGED <<now, camera, decoder, added>>

\* Mutated: the break leaves no more than the test, and the loop goes on.
TimeOutIgnored(r) ==
    /\ handler[r].pc = "read"
    /\ UNCHANGED vars

\* Fifteen seconds since the last read: nothing came, or Send took as long.
TimeOut(r) ==
    /\ handler[r].pc = "read"
    /\ handler' = [handler EXCEPT ![r].pc = "delete"]
    /\ UNCHANGED <<now, camera, decoder, decoded, added>>

\* DEL, at the end and when the client has gone.
Delete(r) ==
    /\ handler[r].pc = "delete"
    /\ decoded' = [decoded EXCEPT ![r] = <<>>]
    /\ handler' = [handler EXCEPT ![r].pc = "done"]
    /\ UNCHANGED <<now, camera, decoder, added>>

Cancelled(r) ==
    /\ handler[r].pc = "read"
    /\ decoded' = [decoded EXCEPT ![r] = <<>>]
    /\ handler' = [handler EXCEPT ![r].pc = "done"]
    /\ UNCHANGED <<now, camera, decoder, added>>

-----------------------------------------------------------------------------
(* query_results.  A process that raises an exception ends without a word.  *)

At(r, c, pc) == decoder[r][c].pc = pc
Becomes(r, c, d) == decoder' = [decoder EXCEPT ![r][c] = d]

\* The last keyframe before the time, or else the oldest that is listed.
ClosestIFrame(i, from) ==
    LET before == {j \in DOMAIN iframes : iframes[j] < from} IN
    IF before = {} THEN i = 1 ELSE i \in before /\ \A j \in before : j <= i

\* findClosestIFrameTimestamp, which fails without a keyframe.  One
\* millisecond less is read from, since XREAD is exclusive.
Seek(r, c) ==
    /\ At(r, c, "seek")
    /\ \/ iframes = <<>> /\ Becomes(r, c, NoDecoder)
       \/ \E i \in DOMAIN iframes :
            /\ ClosestIFrame(i, handler[r].from)
            /\ Becomes(r, c, [decoder[r][c] EXCEPT !.pc = "clamp", !.pos = iframes[i] - 1])
    /\ UNCHANGED <<now, camera, handler, decoded, added>>

\* TIME, rounded down to a second.
Rounded == (now \div Second) * Second

\* Mutated: the end of the query is not looked at.
ClampNothing(r, c) ==
    /\ At(r, c, "clamp")
    /\ Becomes(r, c, [decoder[r][c] EXCEPT !.pc = "xread"])
    /\ UNCHANGED <<now, camera, handler, decoded, added>>

Clamp(r, c) ==
    /\ At(r, c, "clamp")
    /\ Becomes(r, c, [decoder[r][c] EXCEPT !.pc = "xread",
                        !.to = IF @ > Rounded THEN Rounded ELSE @])
    /\ UNCHANGED <<now, camera, handler, decoded, added>>

\* The places of the packets after the last one read.
Unqueried(r, c) == {i \in DOMAIN queue : queue[i].at > decoder[r][c].pos}

\* Mutated: without COUNT.
QueryAll(r, c) ==
    /\ At(r, c, "xread")
    /\ \E start \in Unqueried(r, c) :
         /\ First(start, Unqueried(r, c))
         /\ Becomes(r, c, [decoder[r][c] EXCEPT !.pos = Last(queue).at, !.pc = "decode",
                               !.todo = SubSeq(queue, start, Len(queue))])
    /\ UNCHANGED <<now, camera, handler, decoded, added>>

\* What is read is not decoded when its last packet is past the end.
Query(r, c) ==
    /\ At(r, c, "xread")
    /\ \E start \in Unqueried(r, c) :
         /\ First(start, Unqueried(r, c))
         /\ LET end == ReadTo(queue, start, QueryCount)
                d == [decoder[r][c] EXCEPT !.pos = queue[end].at] IN
            Becomes(r, c, IF d.pos >= d.to THEN [d EXCEPT !.pc = "finish"]
                          ELSE [d EXCEPT !.pc = "decode", !.todo = SubSeq(queue, start, end)])
    /\ UNCHANGED <<now, camera, handler, decoded, added>>

\* Nothing is decoded before the first packet that is not a keyframe.
Found(d) == d.found \/ ~Head(d.todo).key

\* A packet may yield no image, or fail.
Decode(r, c) ==
    /\ At(r, c, "decode")
    /\ LET d == decoder[r][c]
           skip == [d EXCEPT !.todo = Tail(@), !.found = Found(d)] IN
       IF d.todo = <<>> THEN Becomes(r, c, [d EXCEPT !.pc = "xread"])
       ELSE \/ Becomes(r, c, skip)
            \/ Found(d) /\ Becomes(r, c, [d EXCEPT !.pc = "push", !.found = TRUE])
            \/ Found(d) /\ Becomes(r, c, NoDecoder)
    /\ UNCHANGED <<now, camera, handler, decoded, added>>

\* pushDecodedToRedis, when there is room or after ten seconds without it.
XAdd(r, frame) ==
    /\ added' = [added EXCEPT ![r] = @ + 1]
    /\ \E stream \in Trimmed(Append(decoded[r], [id |-> added'[r], frame |-> frame]), DecodedLen) :
          decoded' = [decoded EXCEPT ![r] = stream]

Push(r, c) ==
    /\ At(r, c, "push")
    /\ XAdd(r, Head(decoder[r][c].todo).at)
    /\ Becomes(r, c, [decoder[r][c] EXCEPT !.pc = "decode", !.todo = Tail(@)])
    /\ UNCHANGED <<now, camera, handler>>

PushFinish(r, c) ==
    /\ At(r, c, "finish")
    /\ XAdd(r, Finish)
    /\ Becomes(r, c, NoDecoder)
    /\ UNCHANGED <<now, camera, handler>>

Handle(r) == XRead(r) \/ XDel(r) \/ Delete(r)
Run(r, c) == \/ Seek(r, c) \/ Clamp(r, c) \/ Query(r, c) \/ Decode(r, c)
             \/ Push(r, c) \/ PushFinish(r, c)

Next == \/ Tick \/ ListKeyframe \/ StorePacket
        \/ \E c \in Container : Restart(c)
        \/ \E r \in Request : Publish(r) \/ Handle(r) \/ TimeOut(r) \/ Cancelled(r)
        \/ \E r \in Request, c \in Container : Run(r, c)

Spec == Init /\ [][Next]_vars

\* Handlers and processes run, a handler with nothing to read times out, and
\* the camera sends packets.
LiveSpec ==
    /\ Spec
    /\ WF_vars(Tick) /\ WF_vars(ListKeyframe) /\ WF_vars(StorePacket)
    /\ \A r \in Request :
          /\ WF_vars(Handle(r))
          /\ WF_vars(TimeOut(r) /\ Unread(r) = {})
          /\ \A c \in Container : WF_vars(Run(r, c))

-----------------------------------------------------------------------------
\* A client is sent the images of a query at most once, in the order of the
\* packets, and none from the end of the query on, however far the process
\* runs ahead of the handler and the streams drop what is old.
SentInOrder == [][\A r \in Request : handler'[r].sent # handler[r].sent =>
    /\ handler'[r].sent > handler[r].sent
    /\ handler'[r].sent < handler[r].to]_vars

\* A call returns, whether a container heard of it or not, and whether the
\* process ends, fails or is killed with its container.
CallsReturn == \A r \in Request : handler[r].pc = "read" ~> handler[r].pc = "done"

\* As long as the camera sends packets, no process is left searching for the
\* end of its query.
ProcessesEnd == \A r \in Request, c \in Container :
    decoder[r][c].pc = "seek" ~> decoder[r][c].pc = "none"
=============================================================================
