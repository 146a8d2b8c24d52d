------------------------ MODULE CameraPipelineProofs ------------------------
(***************************************************************************)
(* Theorems about CameraPipeline, for any bounds and uses of the packets:  *)
(* its type invariant, that the queue holds a run of one group although it *)
(* is emptied without its lock, that task_done is not called too often,    *)
(* that what is archived is whole and archived once, and that the codec    *)
(* and the cloud are given every packet of a group in its order.           *)
(***************************************************************************)
EXTENDS CameraPipeline, TLAPS, SequenceTheorems

CameraRec == [g : 0..MaxGroup, i : 1..MaxIndex]

BeforePut == reader.pc \in {"settings", "acquire", "set", "clear", "empty", "put"}
Handling  == BeforePut \/ reader.pc = "mux"

\* All the camera has sent since it was found has been handed on.
Abreast == reader.pc = "mux" \/ (reader.pc = "demux" /\ reader.found)

ReaderRec ==
    [pc : {"open", "demux", "settings", "acquire", "set", "clear", "empty", "put",
           "mux", "dead"},
     packet : Packet \cup {None}, found : BOOLEAN, group : Seq(Packet),
     mux : BOOLEAN, flush : BOOLEAN, todo : Seq(Packet)]

DecoderRec ==
    [pc : {"enter", "wait", "woken", "check", "isset", "get", "pop", "switch",
           "decode", "done", "dead"},
     packet : Packet \cup {None}, group : Seq(Packet), count : Nat, hole : BOOLEAN]

Types ==
    /\ use \in Uses /\ camera \in CameraRec /\ reader \in ReaderRec
    /\ event \in BOOLEAN /\ queue \in Seq(Packet) /\ unfinished \in Nat
    /\ decoder \in DecoderRec
    /\ given \in Packet \cup {None} /\ muxed \in Packet \cup {None} /\ gap \in BOOLEAN
    /\ archivers \in 0..MaxOpens
    /\ groups \in Seq(Seq(Packet)) /\ files \subseteq Seq(Packet)

Chain(s) == \A n \in 1..(Len(s) - 1) : Follows(s[n], s[n + 1])
FromKey(s) == s # <<>> => IsKey(s[1])
EndsWith(s, p) == s # <<>> /\ Last(s) = p
Distinct(s) == \A m, n \in 1..Len(s) : s[m] = s[n] => m = n
LeadsTo(s, p) == s # <<>> /\ Follows(Last(s), p)

\* What the reader collects, and how it stands to what the camera sends.
Reading ==
    /\ Chain(reader.group) /\ FromKey(reader.group)
    /\ Handling =>
         /\ reader.found /\ reader.packet = camera /\ camera \in Packet
         /\ IF IsKey(camera) THEN reader.group = <<>> ELSE LeadsTo(reader.group, camera)
    /\ reader.pc = "demux" /\ reader.found => EndsWith(reader.group, camera)
    /\ reader.pc \in {"clear", "empty"} => IsKey(camera)

\* The groups archived are older than the one collected, and than a keyframe
\* that begins a new one.
Archiving ==
    /\ \A s \in Archived : s # <<>> /\ IsKey(s[1]) /\ Chain(s) /\ s[1].g <= camera.g
    /\ reader.group # <<>> =>
         /\ reader.group[1].g <= camera.g
         /\ \A s \in Archived : s[1].g < reader.group[1].g
    /\ Handling /\ IsKey(camera) => \A s \in Archived : s[1].g < camera.g
    /\ \A s, t \in Archived : s[1] = t[1] => s = t
    /\ Range(groups) \cap files = {}
    /\ Distinct(groups)

\* How many packets the camera has sent from the first keyframe to p, at most.
Sent(p) == IF p.g = 0 THEN 0 ELSE (p.g - 1) * MaxIndex + p.i

\* Every item taken from the queue is still counted until it is done.
Tasks ==
    /\ unfinished <= Sent(camera)
    /\ BeforePut => unfinished < Sent(camera)
    /\ Len(queue) <= unfinished
    /\ decoder.pc = "pop" => 1 <= unfinished
    /\ decoder.pc \in {"switch", "decode", "done"} => Len(queue) < unfinished
    /\ decoder.pc # "dead"

\* p is the last packet that was handed to the decoder.
Handed(p) ==
    IF queue # <<>> THEN Last(queue) = p
    ELSE IF decoder.pc = "switch" THEN decoder.packet = p
    ELSE ~decoder.hole => EndsWith(decoder.group, p)

\* p goes on from what the decoder has taken.
GoesOn(p) ==
    \/ IsKey(p)
    \/ IF decoder.pc = "switch" THEN Follows(decoder.packet, p)
       ELSE ~decoder.hole => LeadsTo(decoder.group, p)

HeadGoesOn == queue # <<>> => GoesOn(queue[1])

\* The queue and the group of the decoder are one run of packets.
Queueing ==
    /\ Chain(queue)
    /\ HeadGoesOn
    /\ Abreast => Handed(camera)
    /\ BeforePut /\ ~IsKey(camera) => \E q \in Packet : Handed(q) /\ Follows(q, camera)
    /\ reader.pc = "put" /\ IsKey(camera) => queue = <<>>
    /\ ~decoder.hole => Chain(decoder.group) /\ FromKey(decoder.group)
    /\ decoder.pc = "switch" =>
         /\ decoder.packet \in Packet
         /\ ~decoder.hole => IsKey(decoder.packet) \/ LeadsTo(decoder.group, decoder.packet)

\* What the codec was given last, and what it is given next.
Coding ==
    /\ decoder.count <= Len(decoder.group)
    /\ decoder.pc = "decode" => decoder.count < Len(decoder.group)
    /\ decoder.count >= 1 =>
         \/ given = decoder.group[decoder.count]
         \/ /\ decoder.count < Len(decoder.group)
            /\ given = decoder.group[decoder.count + 1]

\* What was muxed last, and what is muxed next, unless the muxer failed.
Muxing ==
    /\ reader.pc = "mux" =>
         /\ Chain(reader.todo)
         /\ reader.todo # <<>> => Last(reader.todo) = camera
    /\ ~gap =>
         /\ reader.pc = "mux" =>
              IF reader.todo # <<>>
              THEN IsKey(reader.todo[1]) \/ Follows(muxed, reader.todo[1])
              ELSE reader.mux => muxed = camera
         /\ reader.pc = "demux" /\ reader.found /\ reader.mux => muxed = camera
         /\ BeforePut /\ reader.mux /\ ~IsKey(camera) =>
              Follows(muxed, camera) \/ (reader.flush /\ reader.pc # "settings")

\* The inductive invariant.
Inv == Types /\ Reading /\ Archiving /\ Tasks /\ Queueing /\ Coding /\ Muxing

-----------------------------------------------------------------------------
(* Lemmas on runs of packets. *)

LEMMA Bounds == MaxGroup \in Nat \ {0} /\ MaxIndex \in Nat \ {0} /\ MaxOpens \in Nat \ {0}
    BY PipelineAssumption DEF PipelineAssumption

LEMMA Appended ==
    ASSUME NEW s \in Seq(Packet), NEW p \in Packet, Chain(s), s = <<>> \/ LeadsTo(s, p)
    PROVE  /\ Append(s, p) \in Seq(Packet) /\ Append(s, p) # <<>>
           /\ Len(Append(s, p)) = Len(s) + 1
           /\ Chain(Append(s, p)) /\ Last(Append(s, p)) = p
           /\ Append(s, p)[1] = IF s = <<>> THEN p ELSE s[1]
<1> DEFINE t == Append(s, p)
<1>1. /\ t \in Seq(Packet) /\ t # <<>> /\ Len(t) = Len(s) + 1 /\ t[Len(s) + 1] = p
      /\ \A i \in 1..Len(s) : t[i] = s[i]
    BY AppendProperties
<1>2. Len(s) \in Nat /\ (s # <<>> => Len(s) \in Nat \ {0}) /\ (s = <<>> => Len(s) = 0)
    BY EmptySeq, LenProperties
<1> HIDE DEF t
<1>3. Last(t) = p
    BY <1>1 DEF Last
<1>4. t[1] = IF s = <<>> THEN p ELSE s[1]
    BY <1>1, <1>2
<1>5. ASSUME NEW n \in 1..(Len(t) - 1) PROVE Follows(t[n], t[n + 1])
  <2>1. CASE n = Len(s)
    <3>1. t[n] = s[Len(s)] /\ t[n + 1] = p
      BY <1>1, <1>2, <1>5, <2>1
    <3>2. s # <<>>
      BY <1>2, <1>5, <2>1
    <3>3. QED
      BY <3>1, <3>2 DEF LeadsTo, Last
  <2>2. CASE n # Len(s)
    <3>1. n \in 1..(Len(s) - 1) /\ t[n] = s[n] /\ t[n + 1] = s[n + 1]
      BY <1>1, <1>2, <1>5, <2>2
    <3>2. QED
      BY <3>1 DEF Chain
  <2>3. QED
    BY <2>1, <2>2
<1>6. Chain(t)
    BY <1>5 DEF Chain
<1>7. QED
    BY <1>1, <1>3, <1>4, <1>6 DEF t

LEMMA Single ==
    ASSUME NEW p \in Packet
    PROVE  /\ <<p>> \in Seq(Packet) /\ <<p>> # <<>> /\ Len(<<p>>) = 1 /\ <<p>>[1] = p
           /\ Chain(<<p>>) /\ Last(<<p>>) = p /\ Append(<<>>, p) = <<p>>
           /\ \A s \in Seq(Packet) : s \o <<p>> = Append(s, p)
    BY AppendIsConcat DEF Chain, Last

LEMMA Shortened ==
    ASSUME NEW s \in Seq(Packet), s # <<>>, Chain(s)
    PROVE  /\ Tail(s) \in Seq(Packet) /\ Len(Tail(s)) = Len(s) - 1 /\ Chain(Tail(s))
           /\ Head(s) = s[1] /\ s[1] \in Packet
           /\ IF Tail(s) = <<>> THEN Last(s) = s[1]
              ELSE Follows(s[1], Tail(s)[1]) /\ Last(Tail(s)) = Last(s)
<1> DEFINE t == Tail(s)
<1>1. t \in Seq(Packet) /\ Len(t) = Len(s) - 1 /\ \A i \in 1..Len(t) : t[i] = s[i + 1]
    BY HeadTailProperties, Zenon
<1>2. Len(s) \in Nat \ {0} /\ Head(s) = s[1] /\ s[1] \in Packet
    BY EmptySeq, ElementOfSeq
<1>3. (t # <<>> => Len(t) \in Nat \ {0}) /\ (t = <<>> => Len(t) = 0)
    BY <1>1, EmptySeq
<1> HIDE DEF t
<1>4. Chain(t)
  <2> SUFFICES ASSUME NEW n \in 1..(Len(t) - 1) PROVE Follows(t[n], t[n + 1])
      BY DEF Chain
  <2>1. t[n] = s[n + 1] /\ t[n + 1] = s[(n + 1) + 1] /\ n + 1 \in 1..(Len(s) - 1)
    BY <1>1, <1>2
  <2>2. QED
    BY <2>1 DEF Chain
<1>5. CASE t = <<>>
    BY <1>1, <1>2, <1>3, <1>4, <1>5 DEF Last, t
<1>6. CASE t # <<>>
  <2>1. 1 \in 1..(Len(s) - 1) /\ t[1] = s[1 + 1] /\ t[Len(t)] = s[Len(s)]
    BY <1>1, <1>2, <1>3, <1>6
  <2>2. Follows(s[1], t[1])
    BY <2>1 DEF Chain
  <2>3. QED
    BY <1>1, <1>2, <1>4, <1>6, <2>1, <2>2 DEF Last, t
<1>7. QED
    BY <1>5, <1>6

\* What the camera sends after p.
LEMMA Sending ==
    ASSUME NEW p \in CameraRec, NEW q \in After(p)
    PROVE  /\ q \in CameraRec /\ p.g <= q.g /\ (q \in Packet <=> q.g # 0)
           /\ IsKey(q) => p.g < q.g /\ q \in Packet
           /\ ~IsKey(q) => Follows(p, q) /\ q.g = p.g
           /\ Sent(p) \in Nat /\ Sent(q) \in Nat /\ Sent(p) <= Sent(q)
           /\ q \in Packet => Sent(p) < Sent(q)
<1>1. /\ q \in CameraRec /\ p.g \in 0..MaxGroup /\ q.g \in 0..MaxGroup
      /\ p.i \in 1..MaxIndex /\ q.i \in 1..MaxIndex
      /\ Follows(p, q) \/ (q.g = p.g + 1 /\ IsKey(q))
    BY DEF After, CameraRec
<1>2. q \in Packet <=> q.g # 0
    BY <1>1, Bounds DEF CameraRec, Packet
<1>3. p.g \in Nat /\ q.g \in Nat /\ p.i \in Nat /\ q.i \in Nat /\ p.i >= 1 /\ q.i >= 1
      /\ p.i <= MaxIndex /\ MaxIndex \in Nat
    BY <1>1, Bounds
<1>4. CASE Follows(p, q)
  <2>1. q.g = p.g /\ q.i = p.i + 1 /\ ~IsKey(q)
    BY <1>3, <1>4 DEF Follows, IsKey
  <2>2. Sent(p) \in Nat /\ Sent(q) \in Nat /\ Sent(q) = IF q.g = 0 THEN Sent(p) ELSE Sent(p) + 1
    <3>1. CASE p.g = 0
      BY <2>1, <3>1 DEF Sent
    <3>2. CASE p.g # 0
      <4>1. (p.g - 1) * MaxIndex \in Nat
        BY <1>3, <3>2
      <4>2. QED
        BY <1>3, <2>1, <3>2, <4>1 DEF Sent
    <3>3. QED
      BY <3>1, <3>2
  <2>3. QED
    BY <1>1, <1>2, <1>3, <1>4, <2>1, <2>2
<1>5. CASE ~Follows(p, q) /\ q.g = p.g + 1 /\ IsKey(q)
  <2>1. q.g # 0 /\ q.g - 1 = p.g /\ q.i = 1
    BY <1>3, <1>5 DEF IsKey
  <2>2. Sent(q) = p.g * MaxIndex + 1 /\ p.g * MaxIndex \in Nat
    BY <1>3, <2>1 DEF Sent
  <2>3. Sent(p) \in Nat /\ Sent(p) <= p.g * MaxIndex
    <3>1. CASE p.g = 0
      BY <2>2, <3>1 DEF Sent
    <3>2. CASE p.g # 0
      <4>1. (p.g - 1) * MaxIndex \in Nat /\ p.g * MaxIndex = (p.g - 1) * MaxIndex + MaxIndex
        BY <1>3, <3>2
      <4>2. QED
        BY <1>3, <3>2, <4>1 DEF Sent
    <3>3. QED
      BY <3>1, <3>2
  <2>4. QED
    BY <1>1, <1>2, <1>3, <1>5, <2>1, <2>2, <2>3
<1>6. QED
    BY <1>1, <1>4, <1>5

LEMMA SentBound ==
    ASSUME NEW p \in CameraRec
    PROVE  Sent(p) \in Nat /\ Sent(p) <= MaxGroup * MaxIndex /\ MaxGroup * MaxIndex \in Nat
<1>1. p.g \in 0..MaxGroup /\ p.i \in 1..MaxIndex /\ MaxIndex \in Nat /\ MaxGroup \in Nat
    BY Bounds DEF CameraRec
<1>2. MaxGroup * MaxIndex \in Nat
    BY <1>1
<1>3. CASE p.g = 0
    BY <1>2, <1>3 DEF Sent
<1>4. CASE p.g # 0
  <2>1. (p.g - 1) * MaxIndex \in Nat /\ p.g * MaxIndex = (p.g - 1) * MaxIndex + MaxIndex
    BY <1>1, <1>4
  <2>2. p.g * MaxIndex <= MaxGroup * MaxIndex
    <3>1. MaxGroup - p.g \in Nat
      BY <1>1
    <3>2. (MaxGroup - p.g) * MaxIndex \in Nat
      BY <1>1, <3>1
    <3>3. MaxGroup * MaxIndex = p.g * MaxIndex + (MaxGroup - p.g) * MaxIndex
      BY <1>1
    <3>4. p.g * MaxIndex \in Nat
      BY <1>1
    <3>5. QED
      BY <1>2, <3>2, <3>3, <3>4
  <2>3. QED
    BY <1>1, <1>2, <1>4, <2>1, <2>2 DEF Sent
<1>5. QED
    BY <1>3, <1>4

-----------------------------------------------------------------------------
(* What a step that leaves some of the state alone keeps. *)

LEMMA ReaderKept ==
    ASSUME Inv, UNCHANGED <<camera, reader, output, disk>>
    PROVE  Reading' /\ Archiving' /\ Muxing'
    BY DEF Inv, output, disk, Reading, Archiving, Archived, Muxing, Handling, BeforePut

LEMMA GroupsKept ==
    ASSUME Inv, camera' = camera, reader'.group = reader.group, UNCHANGED disk,
           Handling' => Handling
    PROVE  Archiving'
    BY DEF Inv, disk, Archiving, Archived

LEMMA CodecKept ==
    ASSUME Inv, given' = given, decoder'.group = decoder.group, decoder'.count = decoder.count,
           decoder'.pc = "decode" => decoder.pc = "decode"
    PROVE  Coding'
    BY DEF Inv, Coding

\* Without a flush, the forwarding was on before.
Switched == reader'.mux =>
    reader'.flush \/ (reader.mux /\ (~reader.flush \/ reader.pc = "settings"))

\* A step of the reader that is not about a packet's way: between taking one
\* and putting it into the queue.
Passes ==
    /\ BeforePut /\ BeforePut' /\ reader'.pc # "settings"
    /\ UNCHANGED <<use, camera, queue, unfinished, given, output, disk>>
    /\ event' \in BOOLEAN
    /\ reader' \in ReaderRec
    /\ reader'.packet = reader.packet /\ reader'.found = reader.found
    /\ reader'.group = reader.group
    /\ reader'.pc \in {"clear", "empty"} => IsKey(reader.packet)
    /\ reader'.pc = "put" => ~IsKey(reader.packet)
    /\ Switched
    /\ decoder' \in DecoderRec
    /\ decoder'.group = decoder.group /\ decoder'.count = decoder.count
    /\ decoder'.hole = decoder.hole /\ decoder'.packet = decoder.packet
    /\ decoder'.pc = decoder.pc \/ (decoder'.pc = "woken" /\ decoder.pc = "wait")

LEMMA ReaderTo ==
    ASSUME reader \in ReaderRec, NEW pc, ReaderGoes(pc),
           pc \in {"open", "demux", "settings", "acquire", "set", "clear", "empty", "put",
                   "mux", "dead"}
    PROVE  /\ reader' \in ReaderRec /\ reader'.pc = pc
           /\ reader'.packet = reader.packet /\ reader'.found = reader.found
           /\ reader'.group = reader.group /\ reader'.todo = reader.todo
           /\ reader'.mux = reader.mux /\ reader'.flush = reader.flush
    BY DEF ReaderRec, ReaderGoes

LEMMA SettingsPasses ==
    ASSUME Inv, Settings
    PROVE  Passes
<1>1. /\ reader.pc = "settings" /\ reader \in ReaderRec
      /\ UNCHANGED <<use, camera, shared, decoder, given, output, disk>>
    BY DEF Inv, Types, Settings, At
<1>2. PICK recent \in {FALSE, "images" \in use}, switch \in Switches :
        reader' = [reader EXCEPT !.mux = switch.mux, !.flush = switch.flush,
                                 !.pc = IF recent THEN "acquire"
                                        ELSE IF IsKey(reader.packet) THEN "clear" ELSE "put"]
    BY DEF Settings, Configured
<1> DEFINE pc == IF recent THEN "acquire"
                 ELSE IF IsKey(reader.packet) THEN "clear" ELSE "put"
<1>3. pc \in {"acquire", "clear", "put"} /\ (pc = "clear" => IsKey(reader.packet))
      /\ (pc = "put" => ~IsKey(reader.packet))
    BY Zenon
<1>4. switch.mux \in BOOLEAN /\ switch.flush \in BOOLEAN
      /\ (switch.mux => switch.flush \/ reader.mux)
  <2>1. CASE switch = [mux |-> reader.mux, flush |-> reader.flush]
    BY <1>1, <2>1 DEF ReaderRec
  <2>2. ASSUME NEW proxy \in {FALSE, "rtmp" \in use},
               switch = [mux |-> proxy, flush |-> proxy /\ ~reader.mux]
        PROVE  switch.mux \in BOOLEAN /\ switch.flush \in BOOLEAN
               /\ (switch.mux => switch.flush \/ reader.mux)
    <3>1. ("rtmp" \in use) = TRUE \/ ("rtmp" \in use) = FALSE
      OBVIOUS
    <3>2. proxy = FALSE \/ proxy = TRUE
      BY <3>1, <2>2, Zenon
    <3>3. switch.mux = proxy /\ switch.flush = (proxy /\ ~reader.mux)
      BY <2>2
    <3>4. QED
      BY <1>1, <3>2, <3>3, Zenon DEF ReaderRec
  <2>3. QED
    BY <2>1, <2>2 DEF Switches
<1> HIDE DEF pc
<1>5. reader' = [reader EXCEPT !.mux = switch.mux, !.flush = switch.flush, !.pc = pc]
    BY <1>2 DEF pc
<1>6. /\ reader'.pc = pc /\ reader'.packet = reader.packet /\ reader'.found = reader.found
      /\ reader'.group = reader.group /\ reader'.mux = switch.mux
      /\ reader'.flush = switch.flush
    BY <1>1, <1>5 DEF ReaderRec
<1>7. reader' \in ReaderRec
    BY <1>1, <1>3, <1>4, <1>5 DEF ReaderRec
<1>8. /\ reader'.pc \in {"acquire", "clear", "put"}
      /\ reader'.pc = "clear" => IsKey(reader.packet)
      /\ reader'.pc = "put" => ~IsKey(reader.packet)
    BY <1>3, <1>6
<1>9. Switched
    BY <1>1, <1>4, <1>6, Zenon DEF Switched
<1>10. QED
    BY <1>1, <1>6, <1>7, <1>8, <1>9 DEF Inv, Types, Passes, BeforePut, shared

SameSwitch == reader'.mux = reader.mux /\ reader'.flush = reader.flush

LEMMA SwitchedSame ==
    ASSUME Inv, SameSwitch
    PROVE  Switched
<1>1. reader.flush \in BOOLEAN /\ reader.mux \in BOOLEAN
    BY DEF Inv, Types, ReaderRec
<1>2. QED
    BY <1>1, Zenon DEF Switched, SameSwitch

LEMMA NotifyPasses ==
    ASSUME Inv, Notify
    PROVE  Passes
<1>1. /\ reader.pc = "acquire" /\ reader \in ReaderRec /\ decoder \in DecoderRec
      /\ decoder' = IF decoder.pc = "wait" THEN [decoder EXCEPT !.pc = "woken"] ELSE decoder
      /\ ReaderGoes("set") /\ UNCHANGED <<use, camera, shared, given, output, disk>>
    BY DEF Inv, Types, Notify, At
<1>2. /\ decoder' \in DecoderRec
      /\ decoder'.group = decoder.group /\ decoder'.count = decoder.count
      /\ decoder'.hole = decoder.hole /\ decoder'.packet = decoder.packet
      /\ decoder'.pc = decoder.pc \/ (decoder'.pc = "woken" /\ decoder.pc = "wait")
  <2>1. CASE decoder.pc = "wait"
    <3>1. decoder' = [decoder EXCEPT !.pc = "woken"]
      BY <1>1, <2>1
    <3>2. QED
      BY <1>1, <2>1, <3>1 DEF DecoderRec
  <2>2. CASE decoder.pc # "wait"
    BY <1>1, <2>2
  <2>3. QED
    BY <2>1, <2>2
<1>3. SameSwitch /\ reader' \in ReaderRec /\ reader'.pc = "set"
      /\ reader'.packet = reader.packet /\ reader'.found = reader.found
      /\ reader'.group = reader.group
    BY <1>1, ReaderTo DEF SameSwitch
<1>4. QED
    BY <1>1, <1>2, <1>3, SwitchedSame DEF Inv, Types, Passes, BeforePut, shared

LEMMA EventPasses ==
    ASSUME Inv, SetEvent \/ ClearEvent
    PROVE  Passes
<1>1. /\ reader \in ReaderRec /\ decoder \in DecoderRec
      /\ UNCHANGED <<use, camera, queue, unfinished, decoder, given, output, disk>>
      /\ event' \in BOOLEAN
    BY DEF Inv, Types, SetEvent, ClearEvent
<1>2. ASSUME NEW pc \in {"clear", "empty", "put"}, ReaderGoes(pc)
      PROVE  /\ SameSwitch /\ reader' \in ReaderRec /\ reader'.pc = pc
             /\ reader'.packet = reader.packet /\ reader'.found = reader.found
             /\ reader'.group = reader.group
    BY <1>1, <1>2, ReaderTo DEF SameSwitch
<1>3. CASE SetEvent
  <2> DEFINE pc == IF IsKey(reader.packet) THEN "clear" ELSE "put"
  <2>1. reader.pc = "set" /\ ReaderGoes(pc)
    BY <1>3 DEF SetEvent, At
  <2>2. pc \in {"clear", "put"} /\ (pc = "clear" => IsKey(reader.packet))
        /\ (pc = "put" => ~IsKey(reader.packet))
    OBVIOUS
  <2> HIDE DEF pc
  <2>3. QED
    BY <1>1, <1>2, <2>1, <2>2, SwitchedSame DEF Passes, BeforePut
<1>4. CASE ClearEvent
  <2>1. IsKey(reader.packet) /\ reader.pc = "clear" /\ ReaderGoes("empty")
    BY <1>4 DEF ClearEvent, At, Inv, Reading, Handling, BeforePut
  <2>2. QED
    BY <1>1, <1>2, <2>1, SwitchedSame DEF Passes, BeforePut
<1>5. QED
    BY <1>3, <1>4

LEMMA PassesInv ==
    ASSUME Inv, Passes
    PROVE  Inv'
<1>1. /\ BeforePut /\ BeforePut' /\ reader'.pc # "settings" /\ reader.packet = camera
      /\ UNCHANGED <<use, camera, queue, unfinished, given, output, disk>>
      /\ reader'.pc \in {"clear", "empty"} => IsKey(camera)
      /\ reader'.pc = "put" => ~IsKey(camera)
    BY DEF Passes, Inv, Reading, Handling
<1>2. Types'
    BY <1>1 DEF Passes, Inv, Types, output, disk
<1>3. Reading'
    BY <1>1 DEF Passes, Inv, Reading, Handling, BeforePut
<1>4. Archiving'
    BY <1>1, GroupsKept DEF Passes, Handling
<1>5. Coding'
    BY <1>1, CodecKept DEF Passes
<1>6. Tasks'
    BY <1>1 DEF Passes, Inv, Tasks, Sent
<1>7. Queueing'
  <2>1. \A p : (Handed(p)' <=> Handed(p)) /\ (GoesOn(p)' <=> GoesOn(p))
    BY <1>1 DEF Passes, Handed, GoesOn
  <2>2. ~Abreast' /\ (decoder'.pc = "switch" => decoder.pc = "switch")
    BY <1>1 DEF Passes, Abreast, BeforePut
  <2>3. QED
    BY <1>1, <2>1, <2>2 DEF Passes, Inv, Queueing, HeadGoesOn
<1>8. Muxing'
  <2>1. reader'.pc \notin {"mux", "demux"}
    BY <1>1 DEF BeforePut
  <2>2. ~gap /\ reader'.mux /\ ~IsKey(camera) => Follows(muxed, camera) \/ reader'.flush
    BY <1>1, Zenon DEF Passes, Switched, Inv, Muxing
  <2>3. QED
    BY <1>1, <2>1, <2>2 DEF Muxing, output
<1>9. QED
    BY <1>2, <1>3, <1>4, <1>5, <1>6, <1>7, <1>8 DEF Inv

\* A step of the reader that drops what it was doing.
LEMMA LeavesInv ==
    ASSUME Inv, Dies \/ Ends
    PROVE  Inv'
<1>1. /\ reader'.pc \in {"open", "dead"} /\ reader' \in ReaderRec /\ reader'.group = reader.group
      /\ UNCHANGED <<use, camera, shared, decoder, given, output, disk>>
    BY ReaderTo DEF Dies, Ends, Inv, Types
<1>2. ~BeforePut' /\ ~Handling' /\ ~Abreast'
    BY <1>1 DEF BeforePut, Handling, Abreast
<1>3. Types'
    BY <1>1 DEF Inv, Types, shared, output, disk
<1>4. Reading' /\ Archiving' /\ Coding' /\ Tasks' /\ Muxing'
  <2>1. Reading'
    BY <1>1, <1>2 DEF Inv, Reading
  <2>2. Archiving' /\ Coding'
    BY <1>1, <1>2, GroupsKept, CodecKept
  <2>3. Tasks'
    BY <1>1, <1>2 DEF Inv, Tasks, shared, Sent
  <2>4. Muxing'
    BY <1>1, <1>2 DEF Muxing
  <2>5. QED
    BY <2>1, <2>2, <2>3, <2>4
<1>5. Queueing'
  <2>1. \A p : GoesOn(p)' <=> GoesOn(p)
    BY <1>1 DEF GoesOn
  <2>2. QED
    BY <1>1, <1>2, <2>1 DEF Inv, Queueing, HeadGoesOn, shared
<1>6. QED
    BY <1>3, <1>4, <1>5 DEF Inv

\* A new connection.
LEMMA OpenInv ==
    ASSUME Inv, Open
    PROVE  Inv'
<1>1. /\ reader.pc = "open" /\ reader \in ReaderRec /\ camera \in CameraRec
      /\ reader' = [reader EXCEPT !.pc = "demux", !.found = FALSE]
      /\ archivers < MaxOpens /\ archivers' = archivers + 1
      /\ camera' = camera \/ camera' \in After(camera)
      /\ muxed' = None /\ gap' = FALSE
      /\ UNCHANGED <<use, event, queue, unfinished, decoder, given, groups, files>>
    BY DEF Inv, Types, Open, At, shared
<1>2. reader' \in ReaderRec /\ reader'.pc = "demux" /\ reader'.group = reader.group /\ reader'.found = FALSE
    BY <1>1 DEF ReaderRec
<1>3. ~BeforePut' /\ ~Handling' /\ ~Abreast'
    BY <1>2, Zenon DEF BeforePut, Handling, Abreast
<1>4. camera' \in CameraRec /\ camera.g <= camera'.g /\ Sent(camera) <= Sent(camera')
      /\ camera.g \in Nat /\ camera'.g \in Nat /\ Sent(camera) \in Nat /\ Sent(camera') \in Nat
  <2>1. CASE camera' = camera
    BY <1>1, <2>1, SentBound DEF CameraRec
  <2>2. CASE camera' \in After(camera)
    BY <1>1, <2>2, Sending DEF CameraRec
  <2>3. QED
    BY <1>1, <2>1, <2>2
<1>5. Types'
  <2>1. archivers' \in 0..MaxOpens
    BY <1>1, Bounds DEF Inv, Types
  <2>2. muxed' \in Packet \cup {None} /\ gap' \in BOOLEAN
    BY <1>1, Zenon
  <2>3. QED
    BY <1>1, <1>2, <1>4, <2>1, <2>2 DEF Inv, Types
<1>6. Reading'
    BY <1>1, <1>2, <1>3, Zenon DEF Inv, Reading
<1>7. Archiving'
  <2>1. Archived' = Archived /\ \A s \in Archived : s # <<>> /\ s[1] \in Packet
    <3>1. \A s \in Archived : s \in Seq(Packet) /\ s # <<>>
      BY RangeOfSeq DEF Inv, Types, Archiving, Archived
    <3>2. QED
      BY <1>1, <3>1, EmptySeq, ElementOfSeq DEF Archived
  <2>2. \A s \in Archived : s[1].g \in Nat
    BY <2>1 DEF Packet
  <2>3. reader.group # <<>> => reader.group[1].g \in Nat
    <3>1. reader.group # <<>> => reader.group[1] \in Packet
      BY <1>1, EmptySeq, ElementOfSeq DEF ReaderRec
    <3>2. QED
      BY <3>1 DEF Packet
  <2>4. QED
    BY <1>1, <1>2, <1>3, <1>4, <2>1, <2>2, <2>3 DEF Inv, Archiving
<1>8. Tasks'
    BY <1>1, <1>3, <1>4 DEF Inv, Types, Tasks
<1>9. Queueing'
  <2>1. \A p : GoesOn(p)' <=> GoesOn(p)
    BY <1>1 DEF GoesOn
  <2>2. QED
    BY <1>1, <1>2, <1>3, <2>1 DEF Inv, Queueing, HeadGoesOn
<1>10. Coding'
    BY <1>1, CodecKept
<1>11. Muxing'
    BY <1>2, <1>3 DEF Muxing
<1>12. QED
    BY <1>5, <1>6, <1>7, <1>8, <1>9, <1>10, <1>11 DEF Inv

\* The empty sequence has no elements, and so no two that are equal.
LEMMA RangeOfEmpty == Range(<<>>) = {} /\ Distinct(<<>>)
<1>1. <<>> \in Seq({}) /\ Len(<<>>) = 0 /\ 1..0 = {}
    BY EmptySeq
<1>2. Range(<<>>) = {(<<>>)[i] : i \in 1..Len(<<>>)}
    BY <1>1, RangeEquality
<1>3. QED
    BY <1>1, <1>2 DEF Distinct

LEMMA RangeAppend ==
    ASSUME NEW S, NEW s \in Seq(S), NEW x \in S
    PROVE  /\ Range(Append(s, x)) = Range(s) \cup {x}
           /\ Distinct(s) /\ x \notin Range(s) => Distinct(Append(s, x))
<1> DEFINE t == Append(s, x)
<1>1. /\ t \in Seq(S) /\ Len(t) = Len(s) + 1 /\ t[Len(s) + 1] = x
      /\ \A i \in 1..Len(s) : t[i] = s[i]
    BY AppendProperties
<1>2. Len(s) \in Nat /\ Range(s) = {s[i] : i \in 1..Len(s)}
    BY LenProperties, RangeEquality
<1>3. Range(t) = {t[i] : i \in 1..Len(t)}
    BY <1>1, RangeEquality
<1> HIDE DEF t
<1>4. 1..Len(t) = 1..Len(s) \cup {Len(s) + 1}
    BY <1>1, <1>2
<1>5. Range(t) = Range(s) \cup {x}
    BY <1>1, <1>2, <1>3, <1>4
<1>6. ASSUME Distinct(s), x \notin Range(s),
             NEW m \in 1..Len(t), NEW n \in 1..Len(t), t[m] = t[n]
      PROVE  m = n
    BY <1>1, <1>2, <1>4, <1>6 DEF Distinct
<1>7. Distinct(s) /\ x \notin Range(s) => Distinct(t)
    BY <1>6 DEF Distinct
<1>8. QED
    BY <1>5, <1>7 DEF t

\* What is archived are packets, and so is what is collected.
LEMMA Firsts ==
    ASSUME Inv
    PROVE  /\ Archived \subseteq Seq(Packet)
           /\ \A s \in Archived : s # <<>> /\ s[1] \in Packet /\ s[1].g \in Nat
           /\ reader.group \in Seq(Packet)
           /\ reader.group # <<>> => reader.group[1] \in Packet /\ reader.group[1].g \in Nat
           /\ camera.g \in Nat
<1>1. /\ Archived \subseteq Seq(Packet) /\ \A s \in Archived : s # <<>>
      /\ reader.group \in Seq(Packet) /\ camera.g \in Nat
    BY RangeOfSeq DEF Inv, Types, Archiving, Archived, ReaderRec, CameraRec
<1>2. \A s \in Seq(Packet) : s # <<>> => s[1] \in Packet /\ s[1].g \in Nat
  <2> SUFFICES ASSUME NEW s \in Seq(Packet), s # <<>> PROVE s[1] \in Packet /\ s[1].g \in Nat
      OBVIOUS
  <2>1. s[1] \in Packet
    BY EmptySeq, ElementOfSeq
  <2>2. QED
    BY <2>1 DEF Packet
<1>3. QED
    BY <1>1, <1>2

\* The next packet of the camera.
LEMMA DemuxInv ==
    ASSUME Inv, Demux
    PROVE  Inv'
<1>1. PICK p \in After(camera) :
         /\ camera' = p
         /\ groups' = IF "disk" \in use /\ IsKey(p) /\ reader.group # <<>>
                        THEN Append(groups, reader.group) ELSE groups
         /\ reader' = [reader EXCEPT !.found = Found(p), !.group = GroupAt(p),
                                     !.packet = IF Found(p) THEN p ELSE None,
                                     !.pc = IF Found(p) THEN "settings" ELSE "demux"]
    BY DEF Demux
<1>2. /\ reader.pc = "demux" /\ reader \in ReaderRec /\ camera \in CameraRec
      /\ UNCHANGED <<use, event, queue, unfinished, decoder, given, muxed, gap, archivers, files>>
    BY DEF Inv, Types, Demux, At, shared, output
<1>3. /\ p \in CameraRec /\ camera.g <= p.g /\ (p \in Packet <=> p.g # 0)
      /\ IsKey(p) => camera.g < p.g /\ p \in Packet
      /\ ~IsKey(p) => Follows(camera, p) /\ p.g = camera.g
      /\ Sent(camera) \in Nat /\ Sent(p) \in Nat /\ Sent(camera) <= Sent(p)
      /\ p \in Packet => Sent(camera) < Sent(p)
    BY <1>1, <1>2, Sending
<1>4. reader.found => /\ EndsWith(reader.group, camera) /\ camera \in Packet
                      /\ Abreast
  <2>1. reader.found => EndsWith(reader.group, camera) /\ Abreast
    BY <1>2 DEF Inv, Reading, Abreast
  <2>2. EndsWith(reader.group, camera) => camera \in Packet
    BY Firsts, EmptySeq, ElementOfSeq DEF EndsWith, Last
  <2>3. QED
    BY <2>1, <2>2, Zenon
<1>5. reader.found /\ ~IsKey(p) => LeadsTo(reader.group, p) /\ p \in Packet
    BY <1>3, <1>4 DEF LeadsTo, EndsWith, Packet
<1>6. Found(p) => p \in Packet
    BY <1>3, <1>5, Zenon DEF Found
<1>7. /\ reader'.group = GroupAt(p) /\ reader'.mux = reader.mux /\ reader'.flush = reader.flush
      /\ reader'.todo = reader.todo
    BY <1>1, <1>2 DEF ReaderRec
<1>8. /\ Found(p) => reader'.pc = "settings" /\ reader'.packet = p /\ reader'.found
      /\ ~Found(p) => reader'.pc = "demux" /\ reader'.packet = None /\ ~reader'.found
  <2>1. reader'.pc = (IF Found(p) THEN "settings" ELSE "demux")
        /\ reader'.packet = (IF Found(p) THEN p ELSE None) /\ reader'.found = Found(p)
    BY <1>1, <1>2, Zenon DEF ReaderRec
  <2>2. QED
    BY <2>1, Zenon
<1>9. GroupAt(p) \in Seq(Packet) /\ GroupAt(p) = IF IsKey(p) THEN <<>> ELSE reader.group
    BY <1>2, EmptySeq DEF GroupAt, ReaderRec
<1>10. reader' \in ReaderRec
  <2>1. Found(p) \in BOOLEAN
    BY <1>2, Zenon DEF Found, ReaderRec
  <2>2. CASE Found(p)
    BY <1>1, <1>2, <1>6, <1>9, <2>1, <2>2 DEF ReaderRec
  <2>3. CASE ~Found(p)
    BY <1>1, <1>2, <1>9, <2>1, <2>3 DEF ReaderRec
  <2>4. QED
    BY <2>2, <2>3
<1>11. IsKey(p) => Found(p)
    BY DEF Found
<1>12. ~IsKey(p) /\ Found(p) => reader.found
    BY DEF Found
<1>13. (Found(p) <=> BeforePut') /\ (Found(p) <=> Handling') /\ ~Abreast'
    BY <1>8 DEF BeforePut, Handling, Abreast
<1>14. /\ groups' \in Seq(Seq(Packet))
       /\ IF "disk" \in use /\ IsKey(p) /\ reader.group # <<>>
          THEN Archived' = Archived \cup {reader.group}
          ELSE Archived' = Archived /\ groups' = groups
  <2>1. CASE "disk" \in use /\ IsKey(p) /\ reader.group # <<>>
    <3>1. groups' = Append(groups, reader.group) /\ groups \in Seq(Seq(Packet))
          /\ reader.group \in Seq(Packet)
      BY <1>1, <2>1, Firsts DEF Inv, Types
    <3>2. groups' \in Seq(Seq(Packet)) /\ Range(groups') = Range(groups) \cup {reader.group}
      BY <3>1, AppendProperties, RangeAppend
    <3>3. QED
      BY <1>2, <2>1, <3>2 DEF Archived
  <2>2. CASE ~("disk" \in use /\ IsKey(p) /\ reader.group # <<>>)
    <3>1. groups' = groups
      BY <1>1, <2>2
    <3>2. QED
      BY <1>2, <2>2, <3>1 DEF Archived, Inv, Types
  <2>3. QED
    BY <2>1, <2>2
<1>15. Types'
    BY <1>1, <1>2, <1>3, <1>10, <1>14 DEF Inv, Types
<1>16. Reading'
  <2>1. Chain(reader.group) /\ FromKey(reader.group) /\ Chain(<<>>)
    BY DEF Inv, Reading, Chain
  <2>2. Chain(reader'.group) /\ FromKey(reader'.group)
    BY <1>7, <1>9, <2>1 DEF FromKey
  <2>3. CASE Found(p)
    <3>1. IF IsKey(p) THEN reader'.group = <<>> ELSE LeadsTo(reader'.group, p)
      BY <1>5, <1>7, <1>9, <1>12, <2>3
    <3>2. QED
      BY <1>1, <1>6, <1>8, <2>2, <2>3, <3>1 DEF Reading
  <2>4. CASE ~Found(p)
    BY <1>8, <1>13, <2>2, <2>4 DEF Reading
  <2>5. QED
    BY <2>3, <2>4
<1>17. Archiving'
  <2>1. /\ \A s \in Archived : s # <<>> /\ IsKey(s[1]) /\ Chain(s) /\ s[1].g <= camera.g
        /\ reader.group # <<>> =>
             /\ reader.group[1].g <= camera.g /\ IsKey(reader.group[1]) /\ Chain(reader.group)
             /\ \A s \in Archived : s[1].g < reader.group[1].g
        /\ \A s, t \in Archived : s[1] = t[1] => s = t
        /\ Range(groups) \cap files = {}
        /\ Distinct(groups)
    BY DEF Inv, Archiving, Reading, FromKey
  <2>2. camera.g \in Nat /\ p.g \in Nat
    BY <1>3, Firsts DEF CameraRec
  <2>3. CASE ~IsKey(p)
    <3>1. Archived' = Archived /\ groups' = groups /\ reader'.group = reader.group
          /\ p.g = camera.g
      BY <1>3, <1>7, <1>9, <1>14, <2>3
    <3>2. QED
      BY <1>1, <1>2, <2>1, <2>3, <3>1 DEF Archiving
  <2>4. CASE IsKey(p)
    <3>1. reader'.group = <<>> /\ camera.g < p.g
      BY <1>3, <1>7, <1>9, <2>4
    <3>2. \A s \in Archived : s[1].g < p.g /\ s[1].g <= p.g
      BY <2>1, <2>2, <3>1, Firsts
    <3>3. CASE "disk" \in use /\ reader.group # <<>>
      <4>1. Archived' = Archived \cup {reader.group} /\ groups' = Append(groups, reader.group)
        BY <1>1, <1>14, <2>4, <3>3
      <4>2. \A s \in Archived : s[1].g < reader.group[1].g /\ s[1] # reader.group[1]
                                /\ s # reader.group
        BY <2>1, <3>3, Firsts
      <4>3. reader.group[1].g < p.g /\ reader.group[1].g <= p.g
        BY <2>1, <2>2, <3>1, <3>3, Firsts
      <4>4. reader.group \notin Range(groups) /\ reader.group \notin files
        BY <4>2 DEF Archived
      <4>5. groups \in Seq(Seq(Packet)) /\ reader.group \in Seq(Packet)
        BY Firsts DEF Inv, Types
      <4>6. Range(groups') = Range(groups) \cup {reader.group}
            /\ Distinct(groups')
        BY <2>1, <4>1, <4>4, <4>5, RangeAppend
      <4>7. Range(groups') \cap files' = {}
        BY <1>2, <2>1, <4>4, <4>6
      <4>8. \A s, t \in Archived' : s[1] = t[1] => s = t
        BY <2>1, <4>1, <4>2
      <4>9. \A s \in Archived' : s # <<>> /\ IsKey(s[1]) /\ Chain(s) /\ s[1].g <= p.g /\ s[1].g < p.g
        BY <2>1, <3>2, <3>3, <4>1, <4>3
      <4>10. QED
        BY <1>1, <3>1, <4>6, <4>7, <4>8, <4>9 DEF Archiving
    <3>4. CASE ~("disk" \in use /\ reader.group # <<>>)
      <4>1. Archived' = Archived /\ groups' = groups
        BY <1>14, <3>4
      <4>2. QED
        BY <1>1, <1>2, <2>1, <3>1, <3>2, <4>1 DEF Archiving
    <3>5. QED
      BY <3>3, <3>4
  <2>5. QED
    BY <2>3, <2>4
<1>18. Tasks'
    BY <1>1, <1>2, <1>3, <1>6, <1>13 DEF Inv, Types, Tasks
<1>19. Queueing'
  <2>1. \A q : (Handed(q)' <=> Handed(q)) /\ (GoesOn(q)' <=> GoesOn(q))
    BY <1>2 DEF Handed, GoesOn
  <2>2. BeforePut' /\ ~IsKey(p) => Handed(camera) /\ Follows(camera, p) /\ camera \in Packet
    BY <1>3, <1>4, <1>12, <1>13 DEF Inv, Queueing, HeadGoesOn
  <2>3. reader'.pc # "put"
    BY <1>8
  <2>4. QED
    BY <1>1, <1>2, <1>13, <2>1, <2>2, <2>3 DEF Inv, Queueing, HeadGoesOn
<1>20. Coding'
    BY <1>2, CodecKept
<1>21. Muxing'
  <2>1. reader'.pc # "mux" /\ (reader'.pc = "demux" => ~reader'.found)
    BY <1>8, Zenon
  <2>2. BeforePut' /\ ~IsKey(p) => reader.found /\ Follows(camera, p)
    BY <1>3, <1>12, <1>13, Zenon
  <2>3. reader.found /\ reader.mux /\ ~gap => muxed = camera
    BY <1>2, Zenon DEF Inv, Muxing
  <2>4. reader'.mux = reader.mux /\ gap' = gap /\ muxed' = muxed /\ camera' = p
    BY <1>1, <1>2, <1>7
  <2>5. ~gap' /\ BeforePut' /\ reader'.mux /\ ~IsKey(camera') => Follows(muxed', camera')
    BY <2>2, <2>3, <2>4, Zenon
  <2>6. QED
    BY <2>1, <2>5, Zenon DEF Muxing
<1>22. QED
    BY <1>15, <1>16, <1>17, <1>18, <1>19, <1>20, <1>21 DEF Inv

\* The packet in hand.
LEMMA InHand ==
    ASSUME Inv, Handling
    PROVE  /\ reader \in ReaderRec /\ reader.found /\ reader.packet = camera
           /\ camera \in Packet /\ camera \in CameraRec
           /\ reader.group \in Seq(Packet) /\ Chain(reader.group) /\ FromKey(reader.group)
           /\ IF IsKey(camera) THEN reader.group = <<>> ELSE LeadsTo(reader.group, camera)
    BY Firsts DEF Inv, Types, Reading

\* A keyframe empties the queue.
LEMMA EmptyInv ==
    ASSUME Inv, Empty
    PROVE  Inv'
<1>1. /\ reader.pc = "empty" /\ BeforePut /\ Handling /\ queue' = <<>> /\ ReaderGoes("put")
      /\ UNCHANGED <<use, camera, event, unfinished, decoder, given, output, disk>>
    BY DEF Empty, At, Emptied, BeforePut, Handling
<1>2. IsKey(camera) /\ reader \in ReaderRec
    BY <1>1, InHand DEF Inv, Reading
<1>3. /\ reader' \in ReaderRec /\ reader'.pc = "put"
      /\ reader'.packet = reader.packet /\ reader'.found = reader.found
      /\ reader'.group = reader.group
    BY <1>1, <1>2, ReaderTo
<1>4. BeforePut' /\ Handling' /\ ~Abreast' /\ queue' \in Seq(Packet)
    BY <1>1, <1>3, EmptySeq DEF BeforePut, Handling, Abreast
<1>5. Types'
    BY <1>1, <1>3, <1>4 DEF Inv, Types, output, disk
<1>6. Reading'
    BY <1>1, <1>2, <1>3, InHand DEF Reading
<1>7. Archiving' /\ Coding'
    BY <1>1, <1>3, GroupsKept, CodecKept
<1>8. Tasks'
  <2>1. Len(queue) \in Nat /\ unfinished \in Nat /\ Len(queue') = 0
    BY <1>1, LenProperties DEF Inv, Types
  <2>2. Sent(camera') = Sent(camera)
    BY <1>1
  <2>3. QED
    BY <1>1, <2>1, <2>2 DEF Inv, Tasks
<1>9. Queueing'
  <2>1. Chain(<<>>)
    BY DEF Chain
  <2>2. QED
    BY <1>1, <1>2, <1>4, <2>1 DEF Inv, Queueing, HeadGoesOn
<1>10. Muxing'
    BY <1>1, <1>2, <1>3 DEF Muxing
<1>11. QED
    BY <1>5, <1>6, <1>7, <1>8, <1>9, <1>10 DEF Inv

\* What is muxed for a packet is a run from what was muxed, or from a keyframe.
LEMMA MuxesRun ==
    ASSUME Inv, reader.pc = "put"
    PROVE  /\ ToMux \in Seq(Packet) /\ Chain(ToMux)
           /\ ToMux # <<>> => Last(ToMux) = camera
           /\ ~gap => IF ToMux # <<>> THEN IsKey(ToMux[1]) \/ Follows(muxed, ToMux[1])
                      ELSE ~reader.mux
<1>1. Handling /\ BeforePut
    BY DEF Handling, BeforePut
<1> DEFINE group == reader.group
<1>2. /\ reader.packet = camera /\ camera \in Packet /\ group \in Seq(Packet)
      /\ Chain(group) /\ FromKey(group)
      /\ IF IsKey(camera) THEN group = <<>> ELSE LeadsTo(group, camera)
    BY <1>1, InHand
<1>3. CASE ~reader.mux
    BY <1>3, EmptySeq DEF ToMux, Chain
<1>4. CASE reader.mux /\ ~reader.flush
  <2>1. ToMux = <<camera>>
    BY <1>2, <1>4 DEF ToMux
  <2>2. ~gap => IsKey(camera) \/ Follows(muxed, camera)
    BY <1>1, <1>4, Zenon DEF Inv, Muxing
  <2>3. QED
    BY <1>2, <2>1, <2>2, Single
<1>5. CASE reader.mux /\ reader.flush
  <2>1. ToMux = Append(group, camera)
    BY <1>2, <1>5, Single DEF ToMux
  <2>2. group = <<>> \/ LeadsTo(group, camera)
    BY <1>2
  <2>3. IsKey(ToMux[1])
    BY <1>2, <2>1, <2>2, Appended DEF FromKey, LeadsTo
  <2>4. QED
    BY <1>2, <2>1, <2>2, <2>3, Appended
<1>6. QED
    BY <1>3, <1>4, <1>5, Zenon

\* The packet is handed to the decoder.
LEMMA PutInv ==
    ASSUME Inv, Put
    PROVE  Inv'
<1>1. /\ reader.pc = "put" /\ Handling /\ BeforePut /\ queue' = Append(queue, camera)
      /\ reader.packet = camera /\ camera \in Packet /\ reader \in ReaderRec
      /\ unfinished' = unfinished + 1 /\ unfinished \in Nat /\ queue \in Seq(Packet)
      /\ reader' = [reader EXCEPT !.pc = "mux", !.todo = ToMux]
      /\ UNCHANGED <<use, camera, event, decoder, given, output, disk>>
    BY InHand DEF Put, At, Inv, Types, BeforePut, Handling
<1>2. /\ ToMux \in Seq(Packet) /\ Chain(ToMux)
      /\ ToMux # <<>> => Last(ToMux) = camera
      /\ ~gap => IF ToMux # <<>> THEN IsKey(ToMux[1]) \/ Follows(muxed, ToMux[1])
                 ELSE ~reader.mux
    BY <1>1, MuxesRun
<1> DEFINE todo == ToMux
<1>3. /\ reader'.pc = "mux" /\ reader'.todo = todo
      /\ reader'.packet = reader.packet /\ reader'.found = reader.found
      /\ reader'.group = reader.group /\ reader'.mux = reader.mux
      /\ reader' \in ReaderRec
    BY <1>1, <1>2 DEF ReaderRec
<1>4. ~BeforePut' /\ Handling' /\ Abreast'
    BY <1>3 DEF BeforePut, Handling, Abreast
<1>5. queue = <<>> \/ LeadsTo(queue, camera)
  <2>1. CASE IsKey(camera)
    BY <1>1, <2>1 DEF Inv, Queueing, HeadGoesOn
  <2>2. CASE ~IsKey(camera)
    BY <1>1, <2>2 DEF Inv, Queueing, HeadGoesOn, Handed, LeadsTo
  <2>3. QED
    BY <2>1, <2>2
<1>6. /\ queue' \in Seq(Packet) /\ queue' # <<>> /\ Len(queue') = Len(queue) + 1
      /\ Chain(queue') /\ Last(queue') = camera
      /\ queue'[1] = IF queue = <<>> THEN camera ELSE queue[1]
    BY <1>1, <1>5, Appended DEF Inv, Queueing, HeadGoesOn
<1>7. Types'
    BY <1>1, <1>3, <1>6 DEF Inv, Types, output, disk
<1>8. Reading'
    BY <1>1, <1>3, InHand DEF Reading
<1>9. Archiving' /\ Coding'
    BY <1>1, <1>3, GroupsKept, CodecKept
<1>10. Tasks'
  <2>1. Len(queue) \in Nat /\ Sent(camera) \in Nat /\ Sent(camera') = Sent(camera)
    BY <1>1, LenProperties, SentBound DEF Inv, Types
  <2>2. QED
    BY <1>1, <1>4, <1>6, <2>1 DEF Inv, Tasks
<1>11. Queueing'
  <2>1. \A q : GoesOn(q)' <=> GoesOn(q)
    BY <1>1 DEF GoesOn
  <2>2. GoesOn(queue'[1])
    <3>1. CASE queue # <<>>
      BY <1>6, <3>1 DEF Inv, Queueing, HeadGoesOn
    <3>2. CASE queue = <<>> /\ IsKey(camera)
      BY <1>6, <3>2 DEF GoesOn
    <3>3. CASE queue = <<>> /\ ~IsKey(camera)
      <4>1. PICK q \in Packet : Handed(q) /\ Follows(q, camera)
        BY <1>1, <3>3 DEF Inv, Queueing, HeadGoesOn
      <4>2. GoesOn(camera)
        BY <3>3, <4>1 DEF Handed, GoesOn, EndsWith, LeadsTo
      <4>3. QED
        BY <1>6, <3>3, <4>2
    <3>4. QED
      BY <3>1, <3>2, <3>3
  <2>3. Handed(camera)'
    BY <1>1, <1>6 DEF Handed
  <2>4. QED
    BY <1>1, <1>3, <1>4, <1>6, <2>1, <2>2, <2>3 DEF Inv, Queueing, HeadGoesOn
<1>12. Muxing'
  <2>1. gap' = gap /\ muxed' = muxed /\ camera' = camera
    BY <1>1 DEF output
  <2> HIDE DEF todo
  <2>2. /\ Chain(todo) /\ (todo # <<>> => Last(todo) = camera)
        /\ ~gap => IF todo # <<>> THEN IsKey(todo[1]) \/ Follows(muxed, todo[1])
                   ELSE ~reader.mux
    BY <1>2 DEF todo
  <2>3. QED
    BY <1>3, <1>4, <2>1, <2>2, Zenon DEF Muxing
<1>13. QED
    BY <1>7, <1>8, <1>9, <1>10, <1>11, <1>12 DEF Inv

\* A step of the muxer leaves the reader with its packet.
LEMMA MuxingKept ==
    ASSUME Inv, reader.pc = "mux", reader' \in ReaderRec, reader'.pc = "mux",
           reader'.packet = reader.packet, reader'.found = reader.found,
           reader'.group = reader.group,
           UNCHANGED <<use, camera, shared, decoder, given, disk>>,
           muxed' \in Packet \cup {None}, gap' \in BOOLEAN, Muxing'
    PROVE  Inv'
<1>1. /\ Handling /\ Abreast /\ ~BeforePut' /\ Handling' /\ Abreast'
    BY DEF Handling, BeforePut, Abreast
<1>2. Types'
    BY DEF Inv, Types, shared, disk
<1>3. Reading'
    BY <1>1, InHand DEF Reading
<1>4. Archiving' /\ Coding'
    BY <1>1, GroupsKept, CodecKept
<1>5. Tasks'
    BY <1>1 DEF Inv, Tasks, shared, Sent
<1>6. Queueing'
  <2>1. \A p : (Handed(p)' <=> Handed(p)) /\ (GoesOn(p)' <=> GoesOn(p))
    BY DEF Handed, GoesOn, shared
  <2>2. QED
    BY <1>1, <2>1 DEF Inv, Queueing, HeadGoesOn, shared
<1>7. QED
    BY <1>2, <1>3, <1>4, <1>5, <1>6 DEF Inv

LEMMA MuxInv ==
    ASSUME Inv, Mux
    PROVE  Inv'
<1> DEFINE todo == reader.todo
<1> DEFINE rest == Tail(reader.todo)
<1>1. /\ reader.pc = "mux" /\ reader \in ReaderRec /\ todo \in Seq(Packet) /\ todo # <<>>
      /\ muxed' = Head(todo) /\ gap' = (gap /\ ~IsKey(muxed')) /\ gap \in BOOLEAN
      /\ reader' = [reader EXCEPT !.todo = rest]
      /\ UNCHANGED <<use, camera, shared, decoder, given, disk>>
      /\ Chain(todo) /\ Last(todo) = camera
    BY DEF Mux, At, Inv, Types, Muxing, ReaderRec
<1>2. /\ rest \in Seq(Packet) /\ Chain(rest) /\ Head(todo) = todo[1] /\ todo[1] \in Packet
      /\ IF rest = <<>> THEN Last(todo) = todo[1]
         ELSE Follows(todo[1], rest[1]) /\ Last(rest) = Last(todo)
    BY <1>1, Shortened
<1> HIDE DEF rest, todo
<1>3. /\ reader' \in ReaderRec /\ reader'.pc = "mux"
      /\ reader'.packet = reader.packet /\ reader'.found = reader.found
      /\ reader'.group = reader.group /\ reader'.todo = rest
    BY <1>1, <1>2 DEF ReaderRec
<1>4. muxed' = todo[1] /\ muxed' \in Packet \cup {None}
    BY <1>1, <1>2
<1>5. gap' \in BOOLEAN
    BY <1>1, Zenon
<1>6. ~BeforePut' /\ reader'.pc # "demux"
    BY <1>3 DEF BeforePut
<1>7. Muxing'
    BY <1>1, <1>2, <1>3, <1>4, <1>6 DEF Muxing
<1>8. QED
    BY <1>1, <1>3, <1>4, <1>5, <1>7, MuxingKept

LEMMA MuxFailsInv ==
    ASSUME Inv, MuxFails
    PROVE  Inv'
<1>1. /\ reader.pc = "mux" /\ reader \in ReaderRec
      /\ gap' = TRUE /\ reader' = [reader EXCEPT !.todo = <<>>]
      /\ UNCHANGED <<use, camera, shared, decoder, given, muxed, disk>>
    BY DEF MuxFails, At, Inv, Types
<1>2. /\ reader' \in ReaderRec /\ reader'.pc = "mux"
      /\ reader'.packet = reader.packet /\ reader'.found = reader.found
      /\ reader'.group = reader.group /\ reader'.todo = <<>>
    BY <1>1, EmptySeq DEF ReaderRec
<1>3. muxed' \in Packet \cup {None} /\ gap' \in BOOLEAN
    BY <1>1 DEF Inv, Types
<1>4. Muxing'
    BY <1>1, <1>2 DEF Muxing, Chain
<1>5. QED
    BY <1>1, <1>2, <1>3, <1>4, MuxingKept

\* The packet is collected, and the next one is waited for.
LEMMA CollectInv ==
    ASSUME Inv, Collect
    PROVE  Inv'
<1> DEFINE group == reader.group
<1> DEFINE more == Append(reader.group, camera)
<1>1. /\ reader.pc = "mux" /\ Handling /\ Abreast /\ reader \in ReaderRec /\ reader.found
      /\ reader.todo = <<>> /\ reader.packet = camera /\ camera \in Packet
      /\ group \in Seq(Packet) /\ Chain(group) /\ FromKey(group)
      /\ IF IsKey(camera) THEN group = <<>> ELSE LeadsTo(group, camera)
      /\ UNCHANGED <<use, camera, shared, decoder, given, output, disk>>
    BY InHand DEF Collect, At, Handling, Abreast
<1>2. reader' = [reader EXCEPT !.pc = "demux", !.packet = None, !.group = more]
    BY <1>1 DEF Collect
<1>3. /\ more \in Seq(Packet) /\ more # <<>> /\ Chain(more) /\ Last(more) = camera
      /\ more[1] = IF group = <<>> THEN camera ELSE group[1]
    BY <1>1, Appended
<1> HIDE DEF more, group
<1>4. /\ reader' \in ReaderRec /\ reader'.pc = "demux" /\ reader'.found
      /\ reader'.group = more /\ reader'.mux = reader.mux
    BY <1>1, <1>2, <1>3 DEF ReaderRec
<1>5. ~BeforePut' /\ ~Handling' /\ Abreast'
    BY <1>4 DEF BeforePut, Handling, Abreast
<1>6. Types'
    BY <1>1, <1>4 DEF Inv, Types, shared, output, disk
<1>7. Reading'
    BY <1>1, <1>3, <1>4, <1>5 DEF Reading, FromKey, EndsWith, LeadsTo, group
<1>8. Archiving'
  <2>1. Archived' = Archived
    BY <1>1 DEF Archived, disk
  <2>2. more[1].g <= camera.g /\ \A s \in Archived : s[1].g < more[1].g
    <3>1. CASE group = <<>>
      BY <1>1, <1>3, <3>1, Firsts DEF Inv, Archiving, LeadsTo
    <3>2. CASE group # <<>>
      BY <1>1, <1>3, <3>2 DEF Inv, Archiving, group
    <3>3. QED
      BY <3>1, <3>2
  <2>3. QED
    BY <1>1, <1>4, <1>5, <2>1, <2>2 DEF Inv, Archiving, disk
<1>9. Tasks'
    BY <1>1, <1>5 DEF Inv, Tasks, shared, Sent
<1>10. Queueing'
  <2>1. \A p : (Handed(p)' <=> Handed(p)) /\ (GoesOn(p)' <=> GoesOn(p))
    BY <1>1 DEF Handed, GoesOn, shared
  <2>2. QED
    BY <1>1, <1>4, <1>5, <2>1 DEF Inv, Queueing, HeadGoesOn, shared
<1>11. Coding'
    BY <1>1, CodecKept
<1>12. Muxing'
  <2>1. ~gap /\ reader.mux => muxed = camera
    BY <1>1, Zenon DEF Inv, Muxing
  <2>2. gap' = gap /\ muxed' = muxed /\ camera' = camera /\ reader'.pc # "mux"
    BY <1>1, <1>4 DEF output
  <2>3. QED
    BY <1>4, <1>5, <2>1, <2>2, Zenon DEF Muxing
<1>13. QED
    BY <1>6, <1>7, <1>8, <1>9, <1>10, <1>11, <1>12 DEF Inv

-----------------------------------------------------------------------------
(* The decoder. *)

\* A step of the decoder leaves the reader alone, and what has been handed to
\* it remains so.
DecoderSteps ==
    /\ UNCHANGED <<use, camera, reader, event, output, disk>>
    /\ decoder' \in DecoderRec /\ queue' \in Seq(Packet) /\ unfinished' \in Nat
    /\ given' \in Packet \cup {None}
    /\ Chain(queue') /\ (queue = <<>> => queue' = <<>>)
    /\ HeadGoesOn'
    /\ \A p : Handed(p) => Handed(p)'
    /\ ~decoder'.hole => Chain(decoder'.group) /\ FromKey(decoder'.group)
    /\ decoder'.pc = "switch" =>
         /\ decoder'.packet \in Packet
         /\ ~decoder'.hole => IsKey(decoder'.packet) \/ LeadsTo(decoder'.group, decoder'.packet)

LEMMA DecoderInv ==
    ASSUME Inv, DecoderSteps, Tasks', Coding'
    PROVE  Inv'
<1>1. UNCHANGED <<use, camera, reader, event, output, disk>>
    BY DEF DecoderSteps
<1>2. Types'
    BY <1>1 DEF DecoderSteps, Inv, Types, output, disk
<1>3. Reading' /\ Archiving' /\ Muxing'
    BY <1>1, ReaderKept
<1>4. (BeforePut' <=> BeforePut) /\ (Abreast' <=> Abreast)
    BY <1>1 DEF BeforePut, Abreast
<1>5. Queueing'
    BY <1>1, <1>4 DEF DecoderSteps, Inv, Queueing
<1>6. QED
    BY <1>2, <1>3, <1>5 DEF Inv

LEMMA DecoderTo ==
    ASSUME decoder \in DecoderRec, NEW pc, DecoderGoes(pc),
           pc \in {"enter", "wait", "woken", "check", "isset", "get", "pop", "switch",
                   "decode", "done", "dead"}
    PROVE  /\ decoder' \in DecoderRec /\ decoder'.pc = pc
           /\ decoder'.packet = decoder.packet /\ decoder'.group = decoder.group
           /\ decoder'.count = decoder.count /\ decoder'.hole = decoder.hole
    BY DEF DecoderRec, DecoderGoes

\* The decoder goes on without looking at a packet.
LEMMA QuietInv ==
    ASSUME Inv, UNCHANGED <<use, camera, reader, event, queue, output, disk>>,
           decoder.pc # "switch",
           unfinished' \in Nat, given' \in Packet \cup {None},
           decoder' \in DecoderRec, decoder'.pc # "switch", decoder'.group = decoder.group,
           decoder'.hole = decoder.hole, Tasks', Coding'
    PROVE  Inv'
<1>1. \A p : (Handed(p)' <=> Handed(p)) /\ (GoesOn(p)' <=> GoesOn(p))
    BY DEF Handed, GoesOn
<1>2. DecoderSteps
    BY <1>1 DEF DecoderSteps, Inv, Types, Queueing, HeadGoesOn
<1>3. QED
    BY <1>2, DecoderInv

LEMMA WaitsInv ==
    ASSUME Inv, Wait \/ Wake \/ IsEmpty \/ IsSet \/ Get
    PROVE  Inv'
<1>1. /\ UNCHANGED <<use, camera, reader, event, queue, unfinished, given, output, disk>>
      /\ decoder \in DecoderRec /\ unfinished \in Nat /\ queue \in Seq(Packet)
      /\ given \in Packet \cup {None}
    BY DEF Inv, Types, Wait, Wake, IsEmpty, IsSet, Get, shared
<1>2. \/ \E pc \in {"enter", "wait", "check", "isset", "get"} : DecoderGoes(pc)
      \/ DecoderGoes("pop") /\ queue # <<>>
    BY DEF Wait, Wake, IsEmpty, IsSet, Get
<1>3. decoder.pc \in {"enter", "woken", "check", "isset", "get"}
    BY DEF Wait, Wake, IsEmpty, IsSet, Get, In
<1>4. PICK pc \in {"enter", "wait", "check", "isset", "get", "pop"} :
        DecoderGoes(pc) /\ (pc = "pop" => queue # <<>>)
    BY <1>2
<1>5. /\ decoder' \in DecoderRec /\ decoder'.pc = pc
      /\ decoder'.group = decoder.group /\ decoder'.count = decoder.count
      /\ decoder'.hole = decoder.hole
    BY <1>1, <1>4, DecoderTo
<1>6. Coding'
    BY <1>1, <1>5, CodecKept
<1>7. Tasks'
  <2>1. queue # <<>> => unfinished >= 1
    BY <1>1, EmptySeq DEF Inv, Tasks
  <2>2. (BeforePut' <=> BeforePut) /\ Sent(camera') = Sent(camera)
    BY <1>1 DEF BeforePut
  <2>3. QED
    BY <1>1, <1>4, <1>5, <2>1, <2>2 DEF Inv, Tasks
<1>8. QED
    BY <1>1, <1>3, <1>5, <1>6, <1>7, QuietInv

\* A packet is taken, unless the queue was emptied meanwhile.
LEMMA PopInv ==
    ASSUME Inv, Pop
    PROVE  Inv'
<1>1. /\ decoder.pc = "pop" /\ decoder \in DecoderRec /\ queue \in Seq(Packet)
      /\ UNCHANGED <<use, camera, reader, event, unfinished, given, output, disk>>
      /\ unfinished \in Nat /\ given \in Packet \cup {None}
      /\ (BeforePut' <=> BeforePut) /\ Sent(camera') = Sent(camera)
    BY DEF Inv, Types, Pop, In, BeforePut
<1>2. CASE queue = <<>>
  <2>1. DecoderGoes("done") /\ queue' = queue
    BY <1>2 DEF Pop
  <2>2. /\ decoder' \in DecoderRec /\ decoder'.pc = "done"
        /\ decoder'.group = decoder.group /\ decoder'.count = decoder.count
        /\ decoder'.hole = decoder.hole
    BY <1>1, <2>1, DecoderTo
  <2>3. Len(queue) = 0 /\ 1 <= unfinished
    BY <1>1, <1>2, EmptySeq DEF Inv, Tasks
  <2>4. Tasks'
    BY <1>1, <2>1, <2>2, <2>3 DEF Inv, Tasks
  <2>5. Coding'
    BY <1>1, <2>2, CodecKept
  <2>6. QED
    BY <1>1, <2>1, <2>2, <2>4, <2>5, QuietInv
<1>3. CASE queue # <<>>
  <2> DEFINE rest == Tail(queue)
  <2>1. /\ decoder' = [decoder EXCEPT !.pc = "switch", !.packet = queue[1]]
        /\ queue' = rest
        /\ rest \in Seq(Packet) /\ Len(rest) = Len(queue) - 1 /\ Chain(rest)
        /\ queue[1] \in Packet
        /\ IF rest = <<>> THEN Last(queue) = queue[1]
           ELSE Follows(queue[1], rest[1]) /\ Last(rest) = Last(queue)
    BY <1>1, <1>3, Shortened DEF Pop, Inv, Queueing
  <2> HIDE DEF rest
  <2>2. /\ decoder' \in DecoderRec /\ decoder'.pc = "switch" /\ decoder'.packet = queue[1]
        /\ decoder'.group = decoder.group /\ decoder'.count = decoder.count
        /\ decoder'.hole = decoder.hole
    BY <1>1, <2>1 DEF DecoderRec
  <2>3. \A p : Handed(p) => Handed(p)'
    BY <1>1, <1>3, <2>1, <2>2 DEF Handed
  <2>4. HeadGoesOn'
    BY <2>1, <2>2 DEF GoesOn, HeadGoesOn
  <2>5. GoesOn(queue[1])
    BY <1>3 DEF Inv, Queueing, HeadGoesOn
  <2>6. ~decoder.hole => IsKey(queue[1]) \/ LeadsTo(decoder.group, queue[1])
    BY <1>1, <2>5, Zenon DEF GoesOn
  <2>7. ~decoder.hole => Chain(decoder.group) /\ FromKey(decoder.group)
    BY DEF Inv, Queueing, HeadGoesOn
  <2>8. DecoderSteps
    BY <1>1, <1>3, <2>1, <2>2, <2>3, <2>4, <2>6, <2>7 DEF DecoderSteps
  <2>9. Tasks'
    <3>1. Len(queue) \in Nat
      BY <1>1, LenProperties
    <3>2. QED
      BY <1>1, <2>1, <2>2, <3>1 DEF Inv, Tasks
  <2>10. Coding'
    BY <1>1, <2>2, CodecKept
  <2>11. QED
    BY <2>8, <2>9, <2>10, DecoderInv
<1>4. QED
    BY <1>2, <1>3

\* The packet joins its group, or begins one.
LEMMA SelectInv ==
    ASSUME Inv, Select
    PROVE  Inv'
<1> DEFINE p == decoder.packet
<1> DEFINE old == decoder.group
<1>1. /\ decoder.pc = "switch" /\ decoder \in DecoderRec
      /\ UNCHANGED <<use, camera, reader, event, queue, unfinished, given, output, disk>>
      /\ queue \in Seq(Packet) /\ unfinished \in Nat /\ given \in Packet \cup {None}
      /\ (BeforePut' <=> BeforePut) /\ Sent(camera') = Sent(camera)
    BY DEF Inv, Types, Select, In, BeforePut, shared
<1>2. /\ p \in Packet /\ old \in Seq(Packet) /\ decoder.count \in Nat
      /\ ~decoder.hole => /\ Chain(old) /\ FromKey(old)
                          /\ IsKey(p) \/ LeadsTo(old, p)
    BY <1>1 DEF Inv, Queueing, DecoderRec
<1> DEFINE group == IF IsKey(p) THEN <<p>> ELSE Append(old, p)
<1> DEFINE count == IF IsKey(p) THEN 0 ELSE decoder.count
<1> DEFINE hole == decoder.hole /\ ~IsKey(p)
<1>3. PICK only \in BOOLEAN :
         decoder' = [pc |-> IF (Len(group) = 1 \/ ~only) /\ count < Len(group)
                              THEN "decode" ELSE "done",
                     packet |-> None, group |-> group, count |-> count, hole |-> hole]
    BY DEF Select, GroupWith, CountWith
<1> DEFINE pc == IF (Len(group) = 1 \/ ~only) /\ count < Len(group) THEN "decode" ELSE "done"
<1>4. pc \in {"decode", "done"} /\ (pc = "decode" => count < Len(group))
    OBVIOUS
<1>5. hole \in BOOLEAN
    BY <1>1, Zenon DEF DecoderRec
<1>6. /\ group \in Seq(Packet) /\ group # <<>> /\ Last(group) = p
      /\ count \in Nat /\ count <= Len(group)
      /\ ~IsKey(p) => /\ Len(group) = Len(old) + 1 /\ count = decoder.count
                      /\ \A i \in 1..Len(old) : group[i] = old[i]
  <2>1. CASE IsKey(p)
    BY <1>2, <2>1, Single
  <2>2. CASE ~IsKey(p)
    <3>1. /\ group \in Seq(Packet) /\ group # <<>> /\ Len(group) = Len(old) + 1
          /\ group[Len(old) + 1] = p /\ \A i \in 1..Len(old) : group[i] = old[i]
      BY <1>2, <2>2, AppendProperties
    <3>2. Len(old) \in Nat /\ decoder.count <= Len(old)
      BY <1>2, LenProperties DEF Inv, Coding
    <3>3. QED
      BY <1>2, <2>2, <3>1, <3>2 DEF Last
  <2>3. QED
    BY <2>1, <2>2
<1>7. ~hole => Chain(group) /\ FromKey(group)
  <2>1. CASE IsKey(p)
    BY <1>2, <2>1, Single DEF FromKey
  <2>2. CASE ~IsKey(p) /\ ~decoder.hole
    <3>1. Chain(old) /\ FromKey(old) /\ LeadsTo(old, p)
      BY <1>2, <2>2, Zenon
    <3>2. Chain(group) /\ group[1] = old[1] /\ old # <<>>
      BY <1>2, <2>2, <3>1, Appended DEF LeadsTo
    <3>3. QED
      BY <3>1, <3>2 DEF FromKey
  <2>3. QED
    BY <2>1, <2>2, Zenon
<1>8. count = 0 \/ ~IsKey(p)
    OBVIOUS
<1> HIDE DEF group, count, hole, pc, old
<1>9. /\ decoder' \in DecoderRec /\ decoder'.pc = pc /\ decoder'.group = group
      /\ decoder'.count = count /\ decoder'.hole = hole
  <2>1. decoder' = [pc |-> pc, packet |-> None, group |-> group, count |-> count, hole |-> hole]
    BY <1>3 DEF pc, group, count, hole
  <2>2. QED
    BY <1>4, <1>5, <1>6, <2>1 DEF DecoderRec
<1>10. \A q : Handed(q) => Handed(q)'
    BY <1>1, <1>4, <1>6, <1>9 DEF Handed, EndsWith
<1>11. HeadGoesOn'
    BY <1>1, <1>4, <1>6, <1>9 DEF Inv, Queueing, HeadGoesOn, GoesOn, LeadsTo
<1>12. DecoderSteps
  <2>1. ~decoder'.hole => Chain(decoder'.group) /\ FromKey(decoder'.group)
    BY <1>7, <1>9
  <2>2. QED
    BY <1>1, <1>4, <1>9, <1>10, <1>11, <2>1 DEF DecoderSteps, Inv, Queueing
<1>13. Tasks'
    BY <1>1, <1>4, <1>9 DEF Inv, Tasks
<1>14. Coding'
  <2>1. CASE count = 0
    BY <1>4, <1>6, <1>9, <2>1 DEF Coding
  <2>2. CASE ~IsKey(p)
    <3>1. count = decoder.count /\ Len(old) \in Nat
      BY <1>2, <1>6, <2>2, LenProperties
    <3>2. Coding /\ old = decoder.group
      BY DEF Inv, old
    <3>3. count >= 1 => group[count] = old[count]
                        /\ (count < Len(old) => group[count + 1] = old[count + 1])
      <4>1. count <= Len(old)
        BY <3>1, <3>2 DEF Coding
      <4>2. count >= 1 => count \in 1..Len(old) /\ (count < Len(old) => count + 1 \in 1..Len(old))
        BY <1>6, <3>1, <4>1
      <4>3. QED
        BY <1>6, <2>2, <4>2
    <3>4. count >= 1 => given = old[count] \/ (count < Len(old) /\ given = old[count + 1])
      BY <3>1, <3>2 DEF Coding
    <3>5. count < Len(old) => count < Len(group)
      BY <1>6, <2>2, <3>1
    <3>6. QED
      BY <1>1, <1>4, <1>6, <1>9, <3>3, <3>4, <3>5 DEF Coding
  <2>3. QED
    BY <1>8, <2>1, <2>2
<1>15. QED
    BY <1>12, <1>13, <1>14, DecoderInv

\* The packet is lost to its group.
LEMMA SelectFailsInv ==
    ASSUME Inv, SelectFails
    PROVE  Inv'
<1>1. /\ decoder.pc = "switch" /\ decoder \in DecoderRec
      /\ UNCHANGED <<use, camera, reader, event, queue, unfinished, given, output, disk>>
      /\ queue \in Seq(Packet) /\ unfinished \in Nat /\ given \in Packet \cup {None}
      /\ (BeforePut' <=> BeforePut) /\ Sent(camera') = Sent(camera)
      /\ decoder' = [decoder EXCEPT !.pc = "done", !.packet = None, !.hole = TRUE]
    BY DEF Inv, Types, SelectFails, In, BeforePut, shared
<1>2. /\ decoder' \in DecoderRec /\ decoder'.pc = "done" /\ decoder'.hole = TRUE
      /\ decoder'.group = decoder.group /\ decoder'.count = decoder.count
    BY <1>1 DEF DecoderRec
<1>3. \A q : (Handed(q) => Handed(q)') /\ GoesOn(q)'
    BY <1>1, <1>2 DEF Handed, GoesOn
<1>4. DecoderSteps
  <2>1. HeadGoesOn'
    <3>1. queue' = queue /\ decoder'.pc # "switch" /\ decoder'.hole
      BY <1>1, <1>2
    <3>2. QED
      BY <3>1 DEF HeadGoesOn, GoesOn
  <2>2. QED
    BY <1>1, <1>2, <1>3, <2>1 DEF DecoderSteps, Inv, Queueing
<1>5. Tasks'
    BY <1>1, <1>2 DEF Inv, Tasks
<1>6. Coding'
    BY <1>1, <1>2, CodecKept
<1>7. QED
    BY <1>4, <1>5, <1>6, DecoderInv

\* The codec takes the next packet of the group, or refuses it.
LEMMA DecodeInv ==
    ASSUME Inv, Decode
    PROVE  Inv'
<1> DEFINE n == decoder.count + 1
<1> DEFINE group == decoder.group
<1>1. /\ decoder.pc = "decode" /\ decoder \in DecoderRec /\ given' = group[n]
      /\ UNCHANGED <<use, camera, reader, event, queue, unfinished, output, disk>>
      /\ queue \in Seq(Packet) /\ unfinished \in Nat
      /\ (BeforePut' <=> BeforePut) /\ Sent(camera') = Sent(camera)
    BY DEF Inv, Types, Decode, In, BeforePut, shared
<1>2. /\ decoder.count \in Nat /\ group \in Seq(Packet) /\ Len(group) \in Nat
      /\ decoder.count < Len(group) /\ n \in 1..Len(group)
    BY <1>1, LenProperties DEF Inv, Coding, DecoderRec
<1>3. given' \in Packet \cup {None}
    BY <1>1, <1>2, ElementOfSeq
<1>4. CASE decoder' = [decoder EXCEPT !.count = n,
                         !.pc = IF n = Len(decoder.group) THEN "done" ELSE "decode"]
  <2> DEFINE pc == IF n = Len(decoder.group) THEN "done" ELSE "decode"
  <2>1. pc \in {"done", "decode"} /\ (pc = "decode" => n < Len(group))
    BY <1>2
  <2> HIDE DEF pc
  <2>2. decoder' = [decoder EXCEPT !.count = n, !.pc = pc]
    BY <1>4 DEF pc
  <2>3. /\ decoder' \in DecoderRec /\ decoder'.pc = pc /\ decoder'.count = n
        /\ decoder'.group = group /\ decoder'.hole = decoder.hole
    <3>1. n \in Nat
      BY <1>2
    <3> HIDE DEF n
    <3>2. decoder' \in DecoderRec
      BY <1>1, <2>1, <2>2, <3>1 DEF DecoderRec
    <3>3. QED
      BY <1>1, <2>2, <3>2 DEF DecoderRec
  <2>4. Tasks'
    BY <1>1, <2>1, <2>3 DEF Inv, Tasks
  <2>5. Coding'
    BY <1>1, <1>2, <2>1, <2>3 DEF Coding
  <2>6. QED
    BY <1>1, <1>3, <2>1, <2>3, <2>4, <2>5, QuietInv
<1>5. CASE DecoderGoes("done")
  <2>1. /\ decoder' \in DecoderRec /\ decoder'.pc = "done" /\ decoder'.count = decoder.count
        /\ decoder'.group = group /\ decoder'.hole = decoder.hole
    BY <1>1, <1>5, DecoderTo
  <2>2. Tasks'
    BY <1>1, <2>1 DEF Inv, Tasks
  <2>3. Coding'
    BY <1>1, <1>2, <2>1 DEF Coding
  <2>4. QED
    BY <1>1, <1>3, <2>1, <2>2, <2>3, QuietInv
<1>6. QED
    BY <1>4, <1>5 DEF Decode

LEMMA TaskDoneInv ==
    ASSUME Inv, TaskDone
    PROVE  Inv'
<1>1. /\ decoder.pc = "done" /\ decoder \in DecoderRec
      /\ UNCHANGED <<use, camera, reader, event, queue, given, output, disk>>
      /\ queue \in Seq(Packet) /\ unfinished \in Nat /\ given \in Packet \cup {None}
      /\ (BeforePut' <=> BeforePut) /\ Sent(camera') = Sent(camera)
    BY DEF Inv, Types, TaskDone, In, BeforePut
<1>2. Len(queue) < unfinished /\ Len(queue) \in Nat /\ Sent(camera) \in Nat
    BY <1>1, LenProperties, SentBound DEF Inv, Types, Tasks
<1>3. unfinished' = unfinished - 1 /\ DecoderGoes("enter")
    BY <1>1, <1>2 DEF TaskDone
<1>4. /\ decoder' \in DecoderRec /\ decoder'.pc = "enter" /\ decoder'.count = decoder.count
      /\ decoder'.group = decoder.group /\ decoder'.hole = decoder.hole
    BY <1>1, <1>3, DecoderTo
<1>5. Tasks' /\ unfinished' \in Nat
    BY <1>1, <1>2, <1>3, <1>4 DEF Inv, Tasks
<1>6. Coding'
    BY <1>1, <1>4, CodecKept
<1>7. QED
    BY <1>1, <1>4, <1>5, <1>6, QuietInv

-----------------------------------------------------------------------------
(* The archivers, the container, and the specification. *)

LEMMA Taken ==
    ASSUME NEW S, NEW s \in Seq(S), s # <<>>, Distinct(s)
    PROVE  /\ Tail(s) \in Seq(S) /\ Head(s) \in Range(s) /\ Head(s) \notin Range(Tail(s))
           /\ Range(s) = Range(Tail(s)) \cup {Head(s)} /\ Distinct(Tail(s))
<1> DEFINE t == Tail(s)
<1>1. t \in Seq(S) /\ Len(t) = Len(s) - 1 /\ \A i \in 1..Len(t) : t[i] = s[i + 1]
    BY HeadTailProperties, Zenon
<1>2. Len(s) \in Nat \ {0} /\ Head(s) = s[1]
    BY EmptySeq
<1>3. Range(t) = {t[i] : i \in 1..Len(t)} /\ Range(s) = {s[i] : i \in 1..Len(s)}
    BY <1>1, RangeEquality
<1> HIDE DEF t
<1>4. Range(t) \cup {s[1]} \subseteq Range(s)
    BY <1>1, <1>2, <1>3
<1>5. Range(s) \subseteq Range(t) \cup {s[1]}
  <2> SUFFICES ASSUME NEW i \in 1..Len(s) PROVE s[i] \in Range(t) \cup {s[1]}
      BY <1>3
  <2>1. CASE i # 1
    <3>1. i - 1 \in 1..Len(t) /\ s[i] = s[(i - 1) + 1]
      BY <1>1, <1>2, <2>1
    <3>2. QED
      BY <1>1, <1>3, <3>1
  <2>2. QED
    BY <2>1
<1>6. s[1] \notin Range(t)
  <2> SUFFICES ASSUME NEW i \in 1..Len(t), t[i] = s[1] PROVE FALSE
      BY <1>3
  <2>1. i + 1 \in 1..Len(s) /\ 1 \in 1..Len(s) /\ s[i + 1] = s[1] /\ i + 1 # 1
    BY <1>1, <1>2
  <2>2. QED
    BY <2>1 DEF Distinct
<1>7. Distinct(t)
  <2> SUFFICES ASSUME NEW m \in 1..Len(t), NEW n \in 1..Len(t), t[m] = t[n] PROVE m = n
      BY DEF Distinct
  <2>1. m + 1 \in 1..Len(s) /\ n + 1 \in 1..Len(s) /\ s[m + 1] = s[n + 1]
    BY <1>1, <1>2
  <2>2. m + 1 = n + 1
    BY <2>1 DEF Distinct
  <2>3. QED
    BY <2>2
<1>8. QED
    BY <1>1, <1>2, <1>4, <1>5, <1>6, <1>7 DEF t

\* An archiver takes the next group: it is written, or lost.
LEMMA ArchiverInv ==
    ASSUME Inv, Save \/ SaveFails
    PROVE  Inv'
<1> DEFINE head == Head(groups)
<1> DEFINE rest == Tail(groups)
<1>1. /\ UNCHANGED <<use, camera, reader, event, queue, unfinished, decoder, given, muxed, gap>>
      /\ groups # <<>> /\ groups' = rest /\ archivers > 0
      /\ \/ files' = files \cup {head} /\ archivers' = archivers
         \/ files' = files /\ archivers' = archivers - 1
    BY DEF Save, SaveFails, shared, output
<1>2. /\ groups \in Seq(Seq(Packet)) /\ files \subseteq Seq(Packet) /\ archivers \in 0..MaxOpens
      /\ Distinct(groups) /\ Range(groups) \cap files = {}
    BY DEF Inv, Types, Archiving
<1>3. /\ rest \in Seq(Seq(Packet)) /\ head \in Range(groups) /\ head \notin Range(rest)
      /\ Range(groups) = Range(rest) \cup {head} /\ Distinct(rest)
    BY <1>1, <1>2, Taken
<1>4. Range(groups) \subseteq Seq(Packet)
    BY <1>2, RangeOfSeq
<1> HIDE DEF head, rest
<1>5. Types'
  <2>1. archivers' \in 0..MaxOpens
    BY <1>1, <1>2, Bounds
  <2>2. files' \subseteq Seq(Packet)
    BY <1>1, <1>2, <1>3, <1>4
  <2>3. QED
    BY <1>1, <1>3, <2>1, <2>2 DEF Inv, Types
<1>6. Archived' \subseteq Archived
    BY <1>1, <1>3 DEF Archived
<1>7. Range(groups') \cap files' = {} /\ Distinct(groups')
    BY <1>1, <1>2, <1>3
<1>8. Handling' <=> Handling
    BY <1>1 DEF Handling, BeforePut
<1>9. Archiving'
    BY <1>1, <1>6, <1>7, <1>8 DEF Inv, Archiving
<1>10. Reading' /\ Muxing' /\ Tasks' /\ Coding'
    BY <1>1 DEF Inv, Reading, Muxing, Tasks, Coding, Handling, BeforePut
<1>11. Queueing'
    BY <1>1 DEF Inv, Queueing, HeadGoesOn, GoesOn, Handed, Abreast, BeforePut
<1>12. QED
    BY <1>5, <1>9, <1>10, <1>11 DEF Inv

\* Without packets in hand, everything but what is on disk is new.
Fresh ==
    /\ reader = NewReader /\ event = FALSE /\ queue = <<>> /\ unfinished = 0
    /\ decoder = NewDecoder
    /\ given = None /\ muxed = None /\ gap = FALSE /\ archivers = 0 /\ groups = <<>>

LEMMA FreshInv ==
    ASSUME use \in Uses, camera \in CameraRec, files \subseteq Seq(Packet), Fresh,
           \A s \in files : s # <<>> /\ IsKey(s[1]) /\ Chain(s) /\ s[1].g <= camera.g,
           \A s, t \in files : s[1] = t[1] => s = t
    PROVE  Inv
<1>1. <<>> \in Seq(Packet) /\ <<>> \in Seq(Seq(Packet)) /\ Len(<<>>) = 0
    BY EmptySeq
<1>2. /\ reader \in ReaderRec /\ reader.pc = "open" /\ reader.group = <<>>
    BY <1>1, Zenon DEF Fresh, NewReader, ReaderRec
<1>3. /\ decoder \in DecoderRec /\ decoder.pc = "enter" /\ decoder.group = <<>>
      /\ decoder.count = 0
    BY <1>1 DEF Fresh, NewDecoder, DecoderRec
<1>4. Types
  <2>1. given \in Packet \cup {None} /\ muxed \in Packet \cup {None}
    BY DEF Fresh
  <2>2. gap \in BOOLEAN /\ event \in BOOLEAN
    BY Zenon DEF Fresh
  <2>3. archivers \in 0..MaxOpens /\ unfinished \in Nat
    BY Bounds DEF Fresh
  <2>4. queue \in Seq(Packet) /\ groups \in Seq(Seq(Packet))
    BY <1>1 DEF Fresh
  <2>5. QED
    BY <1>2, <1>3, <2>1, <2>2, <2>3, <2>4 DEF Types
<1>5. ~BeforePut /\ ~Handling /\ ~Abreast
    BY <1>2 DEF BeforePut, Handling, Abreast
<1>6. Chain(<<>>) /\ FromKey(<<>>)
    BY <1>1 DEF Chain, FromKey
<1>7. Reading
    BY <1>2, <1>5, <1>6 DEF Reading
<1>8. Archiving
  <2>1. Range(groups) = {} /\ Distinct(groups)
    BY RangeOfEmpty DEF Fresh
  <2>2. Archived = files
    BY <2>1 DEF Archived
  <2>3. QED
    BY <1>2, <1>5, <2>1, <2>2 DEF Archiving
<1>9. Tasks
    BY <1>1, <1>3, <1>5, SentBound DEF Fresh, Tasks
<1>10. Queueing
    BY <1>2, <1>3, <1>5, <1>6 DEF Fresh, Queueing, HeadGoesOn
<1>11. Coding
    BY <1>1, <1>3 DEF Coding
<1>12. Muxing
    BY <1>2, <1>5 DEF Muxing
<1>13. QED
    BY <1>4, <1>7, <1>8, <1>9, <1>10, <1>11, <1>12 DEF Inv

LEMMA InitInv ==
    ASSUME Init
    PROVE  Inv
<1>1. camera \in CameraRec
    BY Bounds DEF Init, CameraRec
<1>2. QED
    BY <1>1, FreshInv DEF Init, Fresh

LEMMA ExitInv ==
    ASSUME Inv, Exit
    PROVE  Inv'
<1>1. Fresh' /\ UNCHANGED <<use, camera, files>>
    BY DEF Exit, Fresh, NewReader, NewDecoder
<1>2. files \subseteq Archived
    BY DEF Archived
<1>3. /\ use' \in Uses /\ camera' \in CameraRec /\ files' \subseteq Seq(Packet)
      /\ \A s \in files' : s # <<>> /\ IsKey(s[1]) /\ Chain(s) /\ s[1].g <= camera'.g
      /\ \A s, t \in files' : s[1] = t[1] => s = t
    BY <1>1, <1>2 DEF Inv, Types, Archiving
<1>4. (/\ use \in Uses /\ camera \in CameraRec /\ files \subseteq Seq(Packet) /\ Fresh
       /\ \A s \in files : s # <<>> /\ IsKey(s[1]) /\ Chain(s) /\ s[1].g <= camera.g
       /\ \A s, t \in files : s[1] = t[1] => s = t)' => Inv'
    BY FreshInv, PTL
<1>5. QED
    BY <1>1, <1>3, <1>4

LEMMA StutterInv ==
    ASSUME Inv, UNCHANGED vars
    PROVE  Inv'
<1>1. /\ Types' /\ Tasks' /\ Coding'
    BY DEF Inv, vars, shared, output, disk, Types, Tasks, Coding, BeforePut
<1>2. Reading' /\ Archiving' /\ Muxing'
  <2>1. UNCHANGED <<camera, reader, output, disk>>
    BY DEF vars, output, disk
  <2>2. QED
    BY <2>1, ReaderKept
<1>3. Queueing'
    BY DEF Inv, vars, shared, Queueing, HeadGoesOn, GoesOn, Handed, Abreast, BeforePut
<1>4. QED
    BY <1>1, <1>2, <1>3 DEF Inv

LEMMA NextInv ==
    ASSUME Inv, [Next]_vars
    PROVE  Inv'
<1>1. CASE Stream
    BY <1>1, OpenInv, DemuxInv, LeavesInv DEF Stream
<1>2. CASE Handle
  <2>1. CASE Settings \/ Notify \/ SetEvent \/ ClearEvent
    BY <2>1, SettingsPasses, NotifyPasses, EventPasses, PassesInv
  <2>2. CASE Empty \/ Put \/ Mux \/ MuxFails \/ Collect
    BY <2>2, EmptyInv, PutInv, MuxInv, MuxFailsInv, CollectInv
  <2>3. QED
    BY <1>2, <2>1, <2>2 DEF Handle
<1>3. CASE Work
    BY <1>3, WaitsInv, PopInv, SelectInv, SelectFailsInv, DecodeInv, TaskDoneInv DEF Work
<1>4. CASE Save \/ SaveFails
    BY <1>4, ArchiverInv
<1>5. CASE Exit
    BY <1>5, ExitInv
<1>6. CASE UNCHANGED vars
    BY <1>6, StutterInv
<1>7. QED
    BY <1>1, <1>2, <1>3, <1>4, <1>5, <1>6 DEF Next

-----------------------------------------------------------------------------
(* The theorems. *)

\* The type invariant of the camera's container: the unfinished tasks of the
\* queue, in particular, are never fewer than its items (rtsp_to_rtmp.py,
\* read_image.py, archive.py).
THEOREM TypeCorrect == Spec => []TypeOK
<1>1. Inv => TypeOK
  <2> SUFFICES ASSUME Inv PROVE TypeOK
      OBVIOUS
  <2>1. Types /\ unfinished <= Sent(camera) /\ Len(queue) <= unfinished
        /\ decoder.count <= Len(decoder.group)
    BY DEF Inv, Tasks, Coding
  <2>2. /\ Sent(camera) \in Nat /\ Sent(camera) <= MaxGroup * MaxIndex
        /\ MaxGroup * MaxIndex \in Nat /\ unfinished \in Nat /\ Len(queue) \in Nat
    BY <2>1, SentBound, LenProperties DEF Types
  <2>3. unfinished \in Len(queue)..(MaxGroup * MaxIndex)
    BY <2>1, <2>2
  <2>4. QED
    BY <2>1, <2>3 DEF TypeOK, Types, CameraRec, ReaderRec, DecoderRec
<1>2. QED
    BY <1>1, InitInv, NextInv, PTL DEF Spec

\* Whenever the reader empties the queue without its lock, what waits there
\* is a run of packets of one group (rtsp_to_rtmp.py, lines 198-203).
THEOREM OneGroup == Spec => []QueueIsOneGroup
<1>1. Inv => QueueIsOneGroup
    BY DEF Inv, Queueing, Chain, QueueIsOneGroup
<1>2. QED
    BY <1>1, InitInv, NextInv, PTL DEF Spec

\* task_done is not called more often than put, so the decoder's thread goes
\* on (read_image.py, line 143).
THEOREM DecoderStays == Spec => []DecoderLives
<1>1. Inv => DecoderLives
    BY DEF Inv, Tasks, DecoderLives
<1>2. QED
    BY <1>1, InitInv, NextInv, PTL DEF Spec

\* What is archived is a whole group from its keyframe on, and no group is
\* archived twice (rtsp_to_rtmp.py, lines 123-140 and 227).
THEOREM WholeGroups == Spec => []GroupsWhole
<1>1. Inv => GroupsWhole
    BY DEF Inv, Archiving, GroupsWhole, Chain
<1>2. QED
    BY <1>1, InitInv, NextInv, PTL DEF Spec

\* The codec is given the packets of a group one after the other, from the
\* keyframe on (read_image.py, lines 69-90).
THEOREM DecodedOrder == Spec => DecodedInOrder
<1> DEFINE A == \/ given' \in {None, given} \/ IsKey(given') \/ Follows(given, given')
                \/ decoder.hole
<1>1. ASSUME Inv, Decode, ~decoder.hole
      PROVE  given' = given \/ IsKey(given') \/ Follows(given, given')
  <2> DEFINE n == decoder.count
  <2> DEFINE group == decoder.group
  <2>1. given' = group[n + 1] /\ decoder.pc = "decode"
    BY <1>1 DEF Decode, In
  <2>2. n \in Nat /\ Len(group) \in Nat /\ n < Len(group) /\ group \in Seq(Packet)
    BY <1>1, <2>1, LenProperties DEF Inv, Types, Coding, DecoderRec
  <2>3. Chain(group) /\ FromKey(group)
    BY <1>1 DEF Inv, Queueing
  <2>4. n >= 1 => given = group[n] \/ given = group[n + 1]
    BY <1>1 DEF Inv, Coding
  <2> HIDE DEF n, group
  <2>5. CASE n = 0
    <3>1. group # <<>>
      BY <2>2, <2>5, EmptySeq
    <3>2. IsKey(group[1])
      BY <2>3, <3>1 DEF FromKey
    <3>3. QED
      BY <2>1, <2>5, <3>2
  <2>6. CASE n # 0
    <3>1. n \in 1..(Len(group) - 1)
      BY <2>2, <2>6
    <3>2. Follows(group[n], group[n + 1])
      BY <2>3, <3>1 DEF Chain
    <3>3. QED
      BY <2>1, <2>2, <2>4, <2>6, <3>2
  <2>7. QED
    BY <2>5, <2>6
<1>2. Inv /\ [Next]_vars => [A]_given
  <2> SUFFICES ASSUME Inv, [Next]_vars, given' # given PROVE A
      OBVIOUS
  <2>1. CASE Decode
    BY <1>1, <2>1
  <2>2. CASE Exit
    BY <2>2 DEF Exit
  <2>3. ~Decode /\ ~Exit => given' = given
    BY DEF Next, Stream, Handle, Work, vars, Open, Demux, Ends, Dies, Settings, Notify,
           SetEvent, ClearEvent, Empty, Put, Mux, MuxFails, Collect, Wait, Wake, IsEmpty,
           IsSet, Get, Pop, Select, SelectFails, TaskDone, Save, SaveFails
  <2>4. QED
    BY <2>1, <2>2, <2>3
<1>3. QED
    BY <1>2, InitInv, NextInv, PTL DEF Spec, DecodedInOrder

\* The stream forwarded to the cloud starts with a keyframe and has no gap,
\* unless the muxer failed (rtsp_to_rtmp.py, lines 169-182 and 205-225).
THEOREM ForwardedOrder == Spec => Forwarded
<1> DEFINE A == muxed' = None \/ IsKey(muxed') \/ Follows(muxed, muxed') \/ gap
<1>1. Inv /\ [Next]_vars => [A]_muxed
  <2> SUFFICES ASSUME Inv, [Next]_vars, muxed' # muxed PROVE A
      OBVIOUS
  <2>1. CASE Mux
    <3>1. /\ reader.pc = "mux" /\ reader.todo # <<>> /\ reader.todo \in Seq(Packet)
          /\ muxed' = Head(reader.todo)
      BY <2>1 DEF Mux, At, Inv, Types, ReaderRec
    <3>2. Head(reader.todo) = reader.todo[1]
      BY <3>1
    <3>3. QED
      BY <3>1, <3>2 DEF Inv, Muxing
  <2>2. CASE Open \/ Exit
    BY <2>2 DEF Open, Exit
  <2>3. ~Mux /\ ~Open /\ ~Exit => muxed' = muxed
    BY DEF Next, Stream, Handle, Work, vars, output, Demux, Ends, Dies, Settings, Notify,
           SetEvent, ClearEvent, Empty, Put, MuxFails, Collect, Wait, Wake, IsEmpty,
           IsSet, Get, Pop, Select, SelectFails, Decode, TaskDone, Save, SaveFails
  <2>4. QED
    BY <2>1, <2>2, <2>3
<1>2. QED
    BY <1>1, InitInv, NextInv, PTL DEF Spec, Forwarded

=============================================================================
