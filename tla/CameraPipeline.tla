--------------------------- MODULE CameraPipeline ---------------------------
(***************************************************************************)
(* The container of a camera.  The reader (RTSPtoRTMP of rtsp_to_rtmp.py)  *)
(* takes packets from the camera, hands them to the decoder (ReadImage of  *)
(* read_image.py), forwards them to the cloud and gives whole groups to    *)
(* the archiver (StoreMP4VideoChunks of archive.py).                       *)
(*                                                                         *)
(* The decoder waits on a condition that is notified for every packet      *)
(* while somebody asks for images, and takes one packet each time.  The    *)
(* queue between them is emptied at every keyframe, without its lock.      *)
(***************************************************************************)
EXTENDS Naturals, SequencesExt

CONSTANTS
    Uses,        \* what is made of the packets: sets of "images", "rtmp" and "disk"
    MaxGroup,    \* bound: keyframes the camera sends
    MaxIndex,    \* bound: packets from one keyframe to the next
    MaxOpens,    \* bound: connections to the camera of one run
    None         \* no packet

ASSUME PipelineAssumption ==
    /\ Uses \subseteq SUBSET {"images", "rtmp", "disk"}
    /\ {MaxGroup, MaxIndex, MaxOpens} \subseteq Nat \ {0}

VARIABLES
    use,         \* whether images are asked for, --rtmp and --disk_path given
    camera,      \* the last packet the camera has sent
    reader,      \* the thread RTSPtoRTMP
    event,       \* is_decode_packets_event
    queue,       \* the packets for the decoder
    unfinished,  \* unfinished_tasks of that queue
    decoder,     \* the thread ReadImage
    given,       \* the last packet given to the codec
    muxed,       \* the last packet muxed to the present output
    gap,         \* whether muxing failed since the last keyframe muxed
    archivers,   \* the threads StoreMP4VideoChunks
    groups,      \* the groups that wait for them
    files        \* the groups written to disk

vars == <<use, camera, reader, event, queue, unfinished, decoder, given, muxed, gap,
          archivers, groups, files>>
shared == <<event, queue, unfinished>>
output == <<muxed, gap>>
disk == <<archivers, groups, files>>

\* A packet is known by its group and its place in it; 1 is a keyframe.  The
\* camera is in the midst of a group, 0, when it is connected.
Packet == [g : 1..MaxGroup, i : 1..MaxIndex]
IsKey(p) == p.i = 1
Follows(p, q) == p # None /\ q.g = p.g /\ q.i = p.i + 1

NewReader == [pc |-> "open", packet |-> None, found |-> FALSE, group |-> <<>>,
              mux |-> FALSE, flush |-> FALSE, todo |-> <<>>]
NewDecoder == [pc |-> "enter", packet |-> None, group |-> <<>>, count |-> 0,
               hole |-> FALSE]

TypeOK ==
    /\ use \in Uses
    /\ camera \in [g : 0..MaxGroup, i : 1..MaxIndex]
    /\ reader \in
         [pc : {"open", "demux", "settings", "acquire", "set", "clear", "empty", "put",
                "mux", "dead"},
          packet : Packet \cup {None}, found : BOOLEAN, group : Seq(Packet),
          mux : BOOLEAN, flush : BOOLEAN, todo : Seq(Packet)]
    /\ event \in BOOLEAN
    /\ queue \in Seq(Packet)
    /\ unfinished \in Len(queue)..(MaxGroup * MaxIndex)
    /\ decoder \in
         [pc : {"enter", "wait", "woken", "check", "isset", "get", "pop", "switch",
                "decode", "done", "dead"},
          packet : Packet \cup {None}, group : Seq(Packet), count : Nat, hole : BOOLEAN]
    /\ decoder.count <= Len(decoder.group)
    /\ given \in Packet \cup {None} /\ muxed \in Packet \cup {None} /\ gap \in BOOLEAN
    /\ archivers \in 0..MaxOpens
    /\ groups \in Seq(Seq(Packet)) /\ files \subseteq Seq(Packet)

Init ==
    /\ use \in Uses
    /\ camera = [g |-> 0, i |-> 1]
    /\ reader = NewReader
    /\ event = FALSE /\ queue = <<>> /\ unfinished = 0
    /\ decoder = NewDecoder
    /\ given = None /\ muxed = None /\ gap = FALSE
    /\ archivers = 0 /\ groups = <<>> /\ files = {}

\* The packets the camera may send after p.
After(p) ==
    {q \in [g : 0..MaxGroup, i : 1..MaxIndex] :
       Follows(p, q) \/ (q.g = p.g + 1 /\ IsKey(q))}

At(pc) == reader.pc = pc
ReaderGoes(pc) == reader' = [reader EXCEPT !.pc = pc]

-----------------------------------------------------------------------------
(* The reader *)

\* A new connection begins with a new output and one more archiver; the
\* group that was being collected stays, and so does the switch of the
\* forwarding.  The camera has gone on meanwhile.
Open ==
    /\ At("open") /\ archivers < MaxOpens
    /\ archivers' = archivers + 1
    /\ \/ UNCHANGED camera
       \/ camera' \in After(camera)
    /\ reader' = [reader EXCEPT !.pc = "demux", !.found = FALSE]
    /\ muxed' = None /\ gap' = FALSE
    /\ UNCHANGED <<use, shared, decoder, given, groups, files>>

\* The connection to the cloud, unlike that to the camera, is opened outside
\* of the try: its failure ends the thread.  So does that of HGETALL.
Dies ==
    /\ At("open") \/ At("settings")
    /\ ReaderGoes("dead")
    /\ UNCHANGED <<use, camera, shared, decoder, given, output, disk>>

\* The group after the demuxer has yielded p: a keyframe begins a new one.
GroupAt(p) == IF IsKey(p) THEN <<>> ELSE reader.group

\* Mutated: a keyframe seen by an earlier connection counts.
FoundOnce(p) == IsKey(p) \/ reader.group # <<>>

\* keyframe_found: reset by a new connection, set by its first keyframe.
Found(p) == reader.found \/ IsKey(p)

\* The next packet: at a keyframe the group so far is archived; what comes
\* before the first keyframe of a connection is skipped.
Demux ==
    /\ At("demux")
    /\ \E p \in After(camera) :
         /\ camera' = p
         /\ groups' = IF "disk" \in use /\ IsKey(p) /\ reader.group # <<>>
                        THEN Append(groups, reader.group) ELSE groups
         /\ reader' = [reader EXCEPT !.found = Found(p), !.group = GroupAt(p),
                                     !.packet = IF Found(p) THEN p ELSE None,
                                     !.pc = IF Found(p) THEN "settings" ELSE "demux"]
    /\ UNCHANGED <<use, shared, decoder, given, output, archivers, files>>

\* The camera stops sending: the demuxer ends, and is opened again.
Ends ==
    /\ At("demux")
    /\ ReaderGoes("open")
    /\ UNCHANGED <<use, camera, shared, decoder, given, output, disk>>

\* The switch of the forwarding, and whether the group is flushed, which is when
\* it is switched on.  A hash that is gone, or says nothing of it, as before the
\* first request that sets it, leaves both as they are.
Switches ==
    {[mux |-> reader.mux, flush |-> reader.flush]} \cup
    {[mux |-> proxy, flush |-> proxy /\ ~reader.mux] : proxy \in {FALSE, "rtmp" \in use}}

\* The hash of the camera in redis: whether images were asked for within ten
\* seconds, and whether to forward.
Configured ==
    \E recent \in {FALSE, "images" \in use}, switch \in Switches :
      reader' = [reader EXCEPT !.mux = switch.mux, !.flush = switch.flush,
                               !.pc = IF recent THEN "acquire"
                                      ELSE IF IsKey(reader.packet) THEN "clear" ELSE "put"]

\* Mutated: a keyframe empties the queue before the decoder is notified.
SettingsEmpty ==
    /\ At("settings")
    /\ Configured
    /\ queue' = IF IsKey(reader.packet) THEN <<>> ELSE queue
    /\ UNCHANGED <<use, camera, event, unfinished, decoder, given, output, disk>>

Settings ==
    /\ At("settings")
    /\ Configured
    /\ UNCHANGED <<use, camera, shared, decoder, given, output, disk>>

\* The decoder holds the lock of the condition while it works on a packet.
LockFree == decoder.pc \notin {"check", "isset", "get", "pop", "switch", "decode", "done"}

\* notify_all, between acquire and release.
Notify ==
    /\ At("acquire") /\ LockFree
    /\ decoder' = IF decoder.pc = "wait" THEN [decoder EXCEPT !.pc = "woken"] ELSE decoder
    /\ ReaderGoes("set")
    /\ UNCHANGED <<use, camera, shared, given, output, disk>>

SetEvent ==
    /\ At("set")
    /\ event' = TRUE
    /\ ReaderGoes(IF IsKey(reader.packet) THEN "clear" ELSE "put")
    /\ UNCHANGED <<use, camera, queue, unfinished, decoder, given, output, disk>>

ClearEvent ==
    /\ At("clear")
    /\ event' = FALSE
    /\ ReaderGoes("empty")
    /\ UNCHANGED <<use, camera, queue, unfinished, decoder, given, output, disk>>

\* Mutated: with the tasks that are not done.
EmptyAll == queue' = <<>> /\ unfinished' = 0

\* Mutated: the packets stay.
EmptyNothing == UNCHANGED <<queue, unfinished>>

\* queue.clear() of the deque inside: its lock is not taken, its count of
\* tasks not corrected.
Emptied == queue' = <<>> /\ UNCHANGED unfinished

Empty ==
    /\ At("empty")
    /\ Emptied
    /\ ReaderGoes("put")
    /\ UNCHANGED <<use, camera, event, decoder, given, output, disk>>

\* Mutated: the packet alone.
ToMuxLast == IF reader.mux THEN <<reader.packet>> ELSE <<>>

\* What is muxed for a packet: when the forwarding has just been switched on,
\* the group so far as well.
ToMux ==
    IF ~reader.mux THEN <<>>
    ELSE (IF reader.flush THEN reader.group ELSE <<>>) \o <<reader.packet>>

Put ==
    /\ At("put")
    /\ queue' = Append(queue, reader.packet)
    /\ unfinished' = unfinished + 1
    /\ reader' = [reader EXCEPT !.pc = "mux", !.todo = ToMux]
    /\ UNCHANGED <<use, camera, event, decoder, given, output, disk>>

Before(p, q) == p.g < q.g \/ (p.g = q.g /\ p.i < q.i)

\* The muxer takes a packet, in the order of their time only.
Mux ==
    /\ At("mux") /\ reader.todo # <<>>
    /\ muxed # None => Before(muxed, Head(reader.todo))
    /\ muxed' = Head(reader.todo)
    /\ gap' = (gap /\ ~IsKey(muxed'))
    /\ reader' = [reader EXCEPT !.todo = Tail(reader.todo)]
    /\ UNCHANGED <<use, camera, shared, decoder, given, disk>>

\* It fails, and the rest of what was to be muxed is not.
MuxFails ==
    /\ At("mux") /\ reader.todo # <<>>
    /\ gap' = TRUE
    /\ reader' = [reader EXCEPT !.todo = <<>>]
    /\ UNCHANGED <<use, camera, shared, decoder, given, muxed, disk>>

Collect ==
    /\ At("mux") /\ reader.todo = <<>>
    /\ reader' = [reader EXCEPT !.pc = "demux", !.packet = None,
                                !.group = Append(reader.group, reader.packet)]
    /\ UNCHANGED <<use, camera, shared, decoder, given, output, disk>>

\* Storing a packet, publishing an image or connecting to the camera fails:
\* the process ends, and docker starts it again.
Exit ==
    /\ At("open") \/ At("settings") \/ decoder.pc = "decode"
    /\ reader' = NewReader /\ decoder' = NewDecoder
    /\ event' = FALSE /\ queue' = <<>> /\ unfinished' = 0
    /\ given' = None /\ muxed' = None /\ gap' = FALSE
    /\ archivers' = 0 /\ groups' = <<>>
    /\ UNCHANGED <<use, camera, files>>

-----------------------------------------------------------------------------
(* The decoder *)

In(pc) == decoder.pc = pc
DecoderGoes(pc) == decoder' = [decoder EXCEPT !.pc = pc]

\* wait() of the condition, entered with its lock.
Wait ==
    /\ In("enter")
    /\ DecoderGoes("wait")
    /\ UNCHANGED <<use, camera, reader, shared, given, output, disk>>

\* Notified, it has the lock again.
Wake ==
    /\ In("woken")
    /\ DecoderGoes("check")
    /\ UNCHANGED <<use, camera, reader, shared, given, output, disk>>

IsEmpty ==
    /\ In("check")
    /\ DecoderGoes(IF queue = <<>> THEN "enter" ELSE "isset")
    /\ UNCHANGED <<use, camera, reader, shared, given, output, disk>>

IsSet ==
    /\ In("isset")
    /\ DecoderGoes(IF event THEN "get" ELSE "enter")
    /\ UNCHANGED <<use, camera, reader, shared, given, output, disk>>

\* get() waits for a packet and then takes it: it fails if the queue was
\* emptied in between.
Get ==
    /\ In("get") /\ queue # <<>>
    /\ DecoderGoes("pop")
    /\ UNCHANGED <<use, camera, reader, shared, given, output, disk>>

Pop ==
    /\ In("pop")
    /\ IF queue = <<>>
         THEN DecoderGoes("done") /\ UNCHANGED queue
         ELSE /\ decoder' = [decoder EXCEPT !.pc = "switch", !.packet = Head(queue)]
              /\ queue' = Tail(queue)
    /\ UNCHANGED <<use, camera, reader, event, unfinished, given, output, disk>>

\* Mutated: a packet that is not to be decoded is not kept either.
GroupOfDecoded(p, only) ==
    IF IsKey(p) THEN <<p>> ELSE IF only THEN decoder.group ELSE Append(decoder.group, p)

GroupWith(p, only) ==
    IF IsKey(p) THEN <<p>> ELSE Append(decoder.group, p)

\* Mutated: the count goes on at a keyframe.
CountOn(p) == decoder.count

\* packet_count: the packets of the group that are decoded.
CountWith(p) == IF IsKey(p) THEN 0 ELSE decoder.count

\* The packet is added to its group, and the group decoded as far as it is
\* not, unless only keyframes are asked for.
Select ==
    /\ In("switch")
    /\ \E only \in BOOLEAN :
         LET p == decoder.packet
             group == GroupWith(p, only)
             count == CountWith(p)
         IN decoder' = [pc |-> IF (Len(group) = 1 \/ ~only) /\ count < Len(group)
                                 THEN "decode" ELSE "done",
                        packet |-> None, group |-> group, count |-> count,
                        hole |-> decoder.hole /\ ~IsKey(p)]
    /\ UNCHANGED <<use, camera, reader, shared, given, output, disk>>

\* The switch cannot be read: the packet is lost to its group.
SelectFails ==
    /\ In("switch")
    /\ decoder' = [decoder EXCEPT !.pc = "done", !.packet = None, !.hole = TRUE]
    /\ UNCHANGED <<use, camera, reader, shared, given, output, disk>>

\* The next packet is given to the codec, which may refuse it: it is the
\* first again next time.
Decode ==
    /\ In("decode")
    /\ LET n == decoder.count + 1 IN
         /\ given' = decoder.group[n]
         /\ \/ decoder' = [decoder EXCEPT !.count = n,
                             !.pc = IF n = Len(decoder.group) THEN "done" ELSE "decode"]
            \/ DecoderGoes("done")
    /\ UNCHANGED <<use, camera, reader, shared, output, disk>>

\* task_done(), which raises when it is called more often than put().
TaskDone ==
    /\ In("done")
    /\ IF unfinished > 0 THEN unfinished' = unfinished - 1 /\ DecoderGoes("enter")
                         ELSE DecoderGoes("dead") /\ UNCHANGED unfinished
    /\ UNCHANGED <<use, camera, reader, event, queue, given, output, disk>>

-----------------------------------------------------------------------------
(* The archivers share a queue; what makes one fail ends it.                *)

Save ==
    /\ archivers > 0 /\ groups # <<>>
    /\ files' = files \cup {Head(groups)}
    /\ groups' = Tail(groups)
    /\ UNCHANGED <<use, camera, reader, shared, decoder, given, output, archivers>>

SaveFails ==
    /\ archivers > 0 /\ groups # <<>>
    /\ archivers' = archivers - 1
    /\ groups' = Tail(groups)
    /\ UNCHANGED <<use, camera, reader, shared, decoder, given, output, files>>

-----------------------------------------------------------------------------
Stream == Open \/ Demux \/ Ends \/ Dies
Handle ==
    \/ Settings \/ Notify \/ SetEvent \/ ClearEvent \/ Empty \/ Put
    \/ Mux \/ MuxFails \/ Collect
Work ==
    \/ Wait \/ Wake \/ IsEmpty \/ IsSet \/ Get \/ Pop
    \/ Select \/ SelectFails \/ Decode \/ TaskDone

Next == Stream \/ Handle \/ Work \/ Save \/ SaveFails \/ Exit

Spec == Init /\ [][Next]_vars

\* The scheduler runs both threads; nothing is assumed of the camera.
LiveSpec == Spec /\ WF_vars(Handle) /\ WF_vars(Work)

-----------------------------------------------------------------------------
\* Emptying the queue without its lock costs packets but leaves what waits
\* in the queue a run of packets of one group, ending with the last one put:
\* images of two groups are never mixed (rtsp_to_rtmp.py, lines 198-203).
QueueIsOneGroup ==
    \A n \in 1..(Len(queue) - 1) : Follows(queue[n], queue[n + 1])

\* task_done is never called more often than put, although items vanish from
\* the queue: the decoder's thread would end, and with it the container's
\* images (read_image.py, line 143).
DecoderLives == decoder.pc # "dead"

\* What is archived is a whole group, from its keyframe on without a gap, and
\* no packet is archived twice, whatever connections were lost in between
\* (rtsp_to_rtmp.py, lines 123-140 and 227).
Archived == files \cup Range(groups)
GroupsWhole ==
    /\ \A s \in Archived :
         IsKey(s[1]) /\ \A n \in 1..(Len(s) - 1) : Follows(s[n], s[n + 1])
    /\ \A s, t \in Archived : s[1] = t[1] => s = t
    /\ Range(groups) \cap files = {}

\* The codec is given the packets of a group from the keyframe on, one after
\* the other, even when decoding is switched to keyframes only and back in
\* the middle of a group, packets are taken from a queue that is emptied, or
\* the codec refuses one.  Only a switch that could not be read leaves a gap
\* (read_image.py, lines 69-90).
DecodedInOrder ==
    [][\/ given' \in {None, given} \/ IsKey(given') \/ Follows(given, given')
       \/ decoder.hole]_given

\* The stream forwarded to the cloud starts with a keyframe and has no gap,
\* whenever the forwarding is switched on, unless the muxer failed
\* (rtsp_to_rtmp.py, lines 169-182 and 205-225).
Forwarded ==
    [][muxed' = None \/ IsKey(muxed') \/ Follows(muxed, muxed') \/ gap]_muxed

\* Neither thread keeps the other waiting for ever: the reader gets the lock
\* that the decoder holds while it waits for a packet that the reader is to
\* put (read_image.py, line 69; rtsp_to_rtmp.py, lines 190-203).
ThreadsGoOn ==
    /\ At("acquire") ~> ~At("acquire")
    /\ In("get") ~> ~In("get")
=============================================================================
