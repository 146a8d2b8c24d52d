-------------------------- MODULE BufferedVideoProofs --------------------------
(***************************************************************************)
(* Theorems about BufferedVideo, for any number of requests and containers *)
(* and any lengths and times: its types, and the order of what clients are *)
(* sent.                                                                   *)
(***************************************************************************)
EXTENDS BufferedVideo, TLAPS, SequenceTheorems

\* What is left of a stream whose oldest entries are dropped.
LEMMA TrimmedStream ==
    ASSUME NEW S, NEW s \in Seq(S), NEW n \in Nat \ {0}, NEW t \in Trimmed(s, n)
    PROVE  /\ t \in Seq(S)
           /\ \E k \in 0..Len(s) : /\ Len(t) = Len(s) - k
                                   /\ \A i \in 1..Len(t) : t[i] = s[i + k] /\ i + k \in 1..Len(s)
<1>0. PICK m \in Nat : Len(s) = m
    BY LenProperties
<1>1. CASE t = s
  <2>1. 0 \in 0..m /\ Len(t) = m - 0 /\ \A i \in 1..m : t[i] = s[i + 0] /\ i + 0 \in 1..m
    BY <1>0, <1>1
  <2>2. QED
    BY <1>0, <1>1, <2>1
<1>2. CASE t # s
  <2>1. PICK i \in 1..(m - n + 1) : t = SubSeq(s, i, m)
    BY <1>0, <1>2 DEF Trimmed
  <2>2. i \in 1..m /\ i - 1 \in 0..m
    OBVIOUS
  <2>3. \A j \in i..m : s[j] \in S
    BY <1>0, <2>2, ElementOfSeq
  <2>4. /\ t \in Seq(S) /\ Len(t) = m - i + 1
        /\ \A j \in 1..(m - i + 1) : t[j] = s[i + j - 1]
    BY <2>1, <2>2, <2>3, SubSeqProperties
  <2>5. Len(t) = m - (i - 1) /\ \A j \in 1..Len(t) : t[j] = s[j + (i - 1)] /\ j + (i - 1) \in 1..m
    BY <2>2, <2>4
  <2>6. QED
    BY <1>0, <2>2, <2>4, <2>5
<1>3. QED
    BY <1>1, <1>2

\* A stream without one of its entries.
LEMMA WithoutOne ==
    ASSUME NEW S, NEW s \in Seq(S), NEW i \in 1..Len(s)
    PROVE  /\ RemoveAt(s, i) \in Seq(S)
           /\ Len(RemoveAt(s, i)) = Len(s) - 1
           /\ \A j \in 1..(Len(s) - 1) :
                 /\ RemoveAt(s, i)[j] = s[IF j < i THEN j ELSE j + 1]
                 /\ (IF j < i THEN j ELSE j + 1) \in 1..Len(s)
<1>0. PICK m \in Nat : Len(s) = m
    BY LenProperties
<1> DEFINE a == SubSeq(s, 1, i - 1)
           b == SubSeq(s, i + 1, m)
<1>1. \A j \in 1..m : s[j] \in S
    BY <1>0, ElementOfSeq
<1>2. i \in 1..m
    BY <1>0
<1>3. a \in Seq(S) /\ Len(a) = i - 1 /\ \A j \in 1..(i - 1) : a[j] = s[j]
  <2>1. \A j \in 1..(i - 1) : s[j] \in S
    BY <1>1, <1>2
  <2>2. 1 \in Int /\ i - 1 \in Int
    BY <1>2
  <2>3. /\ a \in Seq(S) /\ Len(a) = IF 1 <= i - 1 THEN i - 1 - 1 + 1 ELSE 0
        /\ \A j \in 1..(i - 1 - 1 + 1) : a[j] = s[1 + j - 1]
    BY <2>1, <2>2, SubSeqProperties
  <2>4. QED
    BY <1>2, <2>3
<1>4. b \in Seq(S) /\ Len(b) = m - i /\ \A j \in 1..(m - i) : b[j] = s[i + j]
  <2>1. \A j \in (i + 1)..m : s[j] \in S
    BY <1>1, <1>2
  <2>2. i + 1 \in Int /\ m \in Int
    BY <1>2
  <2>3. /\ b \in Seq(S) /\ Len(b) = IF i + 1 <= m THEN m - (i + 1) + 1 ELSE 0
        /\ \A j \in 1..(m - (i + 1) + 1) : b[j] = s[i + 1 + j - 1]
    BY <2>1, <2>2, SubSeqProperties
  <2>4. QED
    BY <1>2, <2>3
<1>5. RemoveAt(s, i) = a \o b
    BY <1>0 DEF RemoveAt
<1> HIDE DEF a, b
<1>6. /\ a \o b \in Seq(S) /\ Len(a \o b) = m - 1
      /\ \A j \in 1..(m - 1) : (a \o b)[j] = IF j <= i - 1 THEN a[j] ELSE b[j - (i - 1)]
  <2>1. /\ a \o b \in Seq(S) /\ Len(a \o b) = (i - 1) + (m - i)
        /\ \A j \in 1..((i - 1) + (m - i)) :
              (a \o b)[j] = IF j <= i - 1 THEN a[j] ELSE b[j - (i - 1)]
    <3>1. PICK x \in Nat, y \in Nat : x = i - 1 /\ y = m - i
      BY <1>2
    <3>2. a \in Seq(S) /\ b \in Seq(S) /\ Len(a) = x /\ Len(b) = y
      BY <1>3, <1>4, <3>1
    <3>3. /\ a \o b \in Seq(S) /\ Len(a \o b) = x + y
          /\ \A j \in 1..(x + y) : (a \o b)[j] = IF j <= x THEN a[j] ELSE b[j - x]
      BY <3>2, ConcatProperties
    <3>4. QED
      BY <3>1, <3>3
  <2>2. (i - 1) + (m - i) = m - 1
    BY <1>2
  <2>3. QED
    BY <2>1, <2>2
<1>7. ASSUME NEW j \in 1..(m - 1)
      PROVE  /\ (a \o b)[j] = s[IF j < i THEN j ELSE j + 1]
             /\ (IF j < i THEN j ELSE j + 1) \in 1..m
  <2>1. CASE j < i
    BY <1>2, <1>3, <1>6, <2>1
  <2>2. CASE ~(j < i)
    <3>1. j - (i - 1) \in 1..(m - i) /\ i + (j - (i - 1)) = j + 1
      BY <1>2, <2>2
    <3>2. (a \o b)[j] = b[j - (i - 1)]
      BY <1>2, <1>6, <2>2
    <3>3. QED
      BY <1>2, <1>4, <2>2, <3>1, <3>2
  <2>3. QED
    BY <2>1, <2>2
<1>8. QED
    BY <1>0, <1>5, <1>6, <1>7

HandlerRec ==
    [pc : {"new", "read", "xdel", "delete", "done"}, from : Time,
     to : Time \cup {Forever}, last : Nat, sent : Time, ended : BOOLEAN]
DecoderRec ==
    [pc : {"none", "seek", "clamp", "xread", "decode", "push", "finish"},
     pos : Time, to : Time \cup {Forever}, found : BOOLEAN,
     todo : Seq(Packet)]

\* What the types need beside themselves: keyframes are listed at a time that
\* has come, after the first millisecond, and a packet is pushed that there is.
Timed ==
    /\ now >= 1
    /\ \A i \in 1..Len(iframes) : iframes[i] >= 1 /\ iframes[i] <= now
    /\ \A r \in Request, c \in Container :
         decoder[r][c].pc = "push" => decoder[r][c].todo # <<>>

TypeInv == TypeOK /\ Timed

LEMMA Types ==
    TypeOK <=>
        /\ now \in Time
        /\ iframes \in Seq(Time) /\ queue \in Seq(Packet) /\ listed \in BOOLEAN
        /\ handler \in [Request -> HandlerRec]
        /\ decoder \in [Request -> [Container -> DecoderRec]]
        /\ \A r \in Request, c \in Container : Len(decoder[r][c].todo) <= QueryCount
        /\ decoded \in [Request -> Seq(Image)]
        /\ added \in [Request -> Nat]
    BY DEF TypeOK, HandlerRec, DecoderRec

LEMMA Numbers ==
    ASSUME BufferedAssumption
    PROVE  /\ MaxTime \in Nat /\ MaxTime >= 1
           /\ \A t : t \in Time <=> t \in Nat /\ t <= MaxTime
           /\ BufferLen \in Nat \ {0} /\ QueryCount \in Nat \ {0} /\ ReadCount \in Nat \ {0}
           /\ DecodedLen \in Nat \ {0} /\ Second \in Nat \ {0}
           /\ Forever = MaxTime + 1 /\ Finish = MaxTime + 1
    BY DEF BufferedAssumption, Time, Forever, Finish

LEMMA FreshTypes ==
    ASSUME BufferedAssumption
    PROVE  /\ NewHandler \in HandlerRec /\ NoDecoder \in DecoderRec
           /\ NoDecoder.pc = "none" /\ Len(NoDecoder.todo) = 0
<1>1. 0 \in Time /\ <<>> \in Seq(Packet) /\ Len(<<>>) = 0
    BY Numbers
<1>2. QED
    BY <1>1 DEF NewHandler, NoDecoder, HandlerRec, DecoderRec

LEMMA InitInv == BufferedAssumption /\ Init => TypeInv
<1> SUFFICES ASSUME BufferedAssumption, Init PROVE TypeInv
    OBVIOUS
<1>1. now \in Time /\ now >= 1
    BY Numbers DEF Init
<1>2. /\ iframes \in Seq(Time) /\ queue \in Seq(Packet) /\ listed \in BOOLEAN
      /\ Len(iframes) = 0
  <2>1. iframes = <<>> /\ queue = <<>> /\ listed = FALSE
    BY DEF Init
  <2>2. <<>> \in Seq(Time) /\ <<>> \in Seq(Packet) /\ Len(<<>>) = 0 /\ FALSE \in BOOLEAN
    OBVIOUS
  <2>3. QED
    BY <2>1, <2>2, Zenon
<1>3. handler \in [Request -> HandlerRec]
    BY FreshTypes DEF Init
<1>4. /\ decoder \in [Request -> [Container -> DecoderRec]]
      /\ \A r \in Request, c \in Container : decoder[r][c] = NoDecoder
    BY FreshTypes DEF Init
<1>5. \A r \in Request, c \in Container :
         Len(decoder[r][c].todo) <= QueryCount /\ decoder[r][c].pc # "push"
    BY <1>4, FreshTypes, Numbers
<1>6. decoded \in [Request -> Seq(Image)] /\ added \in [Request -> Nat]
    BY DEF Init
<1>7. QED
    BY <1>1, <1>2, <1>3, <1>4, <1>5, <1>6
    DEF TypeInv, Timed, TypeOK, HandlerRec, DecoderRec

\* The camera and the clock.
LEMMA CameraInv ==
    ASSUME BufferedAssumption, TypeInv,
           Tick \/ ListKeyframe \/ StorePacket
    PROVE  TypeInv'
<1>1. /\ now \in Time /\ now \in Nat /\ now >= 1
      /\ iframes \in Seq(Time) /\ queue \in Seq(Packet) /\ listed \in BOOLEAN
    BY Types, Numbers DEF TypeInv, Timed
<1>2. UNCHANGED handler /\ UNCHANGED decoder /\ UNCHANGED decoded /\ UNCHANGED added
    BY DEF Tick, ListKeyframe, StorePacket
<1>3. now' \in Time /\ now' \in Nat /\ now' >= now
  <2>1. CASE now' = now
    BY <1>1, <2>1
  <2>2. CASE now < MaxTime /\ now' = now + 1
    <3>1. MaxTime \in Nat /\ now' \in Nat /\ now' >= now /\ now' <= MaxTime
      BY <1>1, <2>2, Numbers
    <3>2. QED
      BY <3>1 DEF Time
  <2>3. QED
    BY <2>1, <2>2 DEF Tick, ListKeyframe, StorePacket
<1>4. listed' \in BOOLEAN
    BY <1>1 DEF Tick, ListKeyframe, StorePacket, camera
<1>5. /\ iframes' \in Seq(Time)
      /\ \A i \in 1..Len(iframes') : iframes'[i] >= 1 /\ iframes'[i] <= now'
  <2>1. CASE iframes' = iframes
    <3>1. \A i \in 1..Len(iframes) : iframes[i] \in Nat
      BY <1>1, ElementOfSeq, Numbers
    <3>2. QED
      BY <1>1, <1>3, <2>1, <3>1 DEF TypeInv, Timed
  <2>2. CASE ListKeyframe
    <3>1. PICK s, t : s = iframes /\ t = Append(s, now) /\ iframes' \in Trimmed(t, BufferLen)
      BY <2>2 DEF ListKeyframe
    <3>2. s \in Seq(Time) /\ t \in Seq(Time)
      BY <1>1, <3>1, AppendProperties
    <3>3. Len(t) = Len(s) + 1 /\ Len(s) \in Nat
          /\ \A i \in 1..Len(t) : t[i] = IF i <= Len(s) THEN s[i] ELSE now
      BY <1>1, <3>1, <3>2, AppendProperties
    <3>4. \A i \in 1..Len(s) : s[i] >= 1 /\ s[i] <= now
      BY <3>1 DEF TypeInv, Timed
    <3>5. \A i \in 1..Len(t) : t[i] >= 1 /\ t[i] <= now
      BY <1>1, <3>3, <3>4
    <3>6. /\ iframes' \in Seq(Time)
          /\ \E k \in 0..Len(t) : \A i \in 1..Len(iframes') :
               iframes'[i] = t[i + k] /\ i + k \in 1..Len(t)
      <4>1. PICK u \in Trimmed(t, BufferLen) : u = iframes'
        BY <3>1
      <4>2. /\ u \in Seq(Time)
            /\ \E k \in 0..Len(t) : /\ Len(u) = Len(t) - k
                                    /\ \A i \in 1..Len(u) : u[i] = t[i + k] /\ i + k \in 1..Len(t)
        BY <3>2, TrimmedStream, Numbers
      <4>3. QED
        BY <4>1, <4>2
    <3>7. now' = now
      BY <2>2 DEF ListKeyframe
    <3>8. QED
      BY <3>5, <3>6, <3>7
  <2>3. QED
    BY <2>1, <2>2 DEF Tick, StorePacket, camera
<1>6. queue' \in Seq(Packet)
  <2>1. CASE StorePacket
    <3>1. PICK t : /\ t = Append(queue, [at |-> now, key |-> listed])
                   /\ queue' \in Trimmed(t, BufferLen)
      BY <2>1 DEF StorePacket
    <3>2. [at |-> now, key |-> listed] \in Packet
      BY <1>1 DEF Packet
    <3>3. t \in Seq(Packet)
      BY <1>1, <3>1, <3>2, AppendProperties
    <3>4. QED
      BY <3>1, <3>3, TrimmedStream, Numbers
  <2>2. QED
    BY <1>1, <2>1 DEF Tick, ListKeyframe, camera
<1>7. QED
  <2>1. /\ handler \in [Request -> HandlerRec]
        /\ decoder \in [Request -> [Container -> DecoderRec]]
        /\ \A r \in Request, c \in Container : Len(decoder[r][c].todo) <= QueryCount
        /\ decoded \in [Request -> Seq(Image)]
        /\ added \in [Request -> Nat]
    BY Types DEF TypeInv
  <2>2. TypeOK'
    BY <1>2, <1>3, <1>4, <1>5, <1>6, <2>1 DEF TypeOK, HandlerRec, DecoderRec
  <2>3. Timed'
    BY <1>1, <1>2, <1>3, <1>5 DEF TypeInv, Timed
  <2>4. QED
    BY <2>2, <2>3 DEF TypeInv

LEMMA RestartInv ==
    ASSUME BufferedAssumption, TypeInv, NEW e \in Container, Restart(e)
    PROVE  TypeInv'
<1>1. /\ now \in Time /\ decoder \in [Request -> [Container -> DecoderRec]]
      /\ iframes \in Seq(Time) /\ queue \in Seq(Packet) /\ listed \in BOOLEAN
      /\ \A r \in Request, c \in Container : Len(decoder[r][c].todo) <= QueryCount
    BY Types DEF TypeInv
<1>2. /\ UNCHANGED now /\ UNCHANGED handler /\ UNCHANGED decoded /\ UNCHANGED added
      /\ decoder' = [r \in Request |-> [decoder[r] EXCEPT ![e] = NoDecoder]]
      /\ \/ iframes' = <<>> /\ queue' = <<>> /\ listed' = FALSE
         \/ UNCHANGED <<iframes, queue, listed>>
    BY DEF Restart, camera
<1>3. /\ decoder' \in [Request -> [Container -> DecoderRec]]
      /\ \A r \in Request, c \in Container :
            decoder'[r][c] = decoder[r][c] \/ decoder'[r][c] = NoDecoder
    BY <1>1, <1>2, FreshTypes
<1>4. \A r \in Request, c \in Container :
         /\ Len(decoder'[r][c].todo) <= QueryCount
         /\ decoder'[r][c].pc = "push" => decoder'[r][c].todo # <<>>
  <2> TAKE r \in Request, c \in Container
  <2>1. CASE decoder'[r][c] = decoder[r][c]
    BY <1>1, <2>1 DEF TypeInv, Timed
  <2>2. CASE decoder'[r][c] = NoDecoder
    BY <2>2, FreshTypes, Numbers
  <2>3. QED
    BY <1>3, <2>1, <2>2
<1>5. /\ iframes' \in Seq(Time) /\ queue' \in Seq(Packet) /\ listed' \in BOOLEAN
      /\ \A i \in 1..Len(iframes') : iframes'[i] >= 1 /\ iframes'[i] <= now
  <2>1. CASE iframes' = <<>> /\ queue' = <<>> /\ listed' = FALSE
    <3>1. Len(iframes') = 0 /\ iframes' \in Seq(Time) /\ queue' \in Seq(Packet)
      BY <2>1
    <3>2. \A i \in 1..Len(iframes') : iframes'[i] >= 1 /\ iframes'[i] <= now
      BY <3>1
    <3>3. listed' \in BOOLEAN
      BY <2>1, Zenon
    <3>4. QED
      BY <3>1, <3>2, <3>3
  <2>2. CASE UNCHANGED <<iframes, queue, listed>>
    BY <1>1, <2>2 DEF TypeInv, Timed
  <2>3. QED
    BY <1>2, <2>1, <2>2
<1>6. handler' \in [Request -> HandlerRec] /\ decoded' \in [Request -> Seq(Image)]
      /\ added' \in [Request -> Nat] /\ now' \in Time /\ now' >= 1
    BY <1>2, Types DEF TypeInv, Timed
<1>7. TypeOK'
    BY <1>3, <1>4, <1>5, <1>6 DEF TypeOK, HandlerRec, DecoderRec
<1>8. Timed'
    BY <1>2, <1>4, <1>5, <1>6 DEF Timed
<1>9. QED
    BY <1>7, <1>8 DEF TypeInv

\* What a step of a handler or of a process has to keep.
LEMMA OthersKept ==
    ASSUME TypeInv, UNCHANGED now, UNCHANGED iframes, UNCHANGED queue, UNCHANGED listed,
           handler' \in [Request -> HandlerRec],
           decoder' \in [Request -> [Container -> DecoderRec]],
           \A r \in Request, c \in Container :
              /\ Len(decoder'[r][c].todo) <= QueryCount
              /\ decoder'[r][c].pc = "push" => decoder'[r][c].todo # <<>>,
           decoded' \in [Request -> Seq(Image)],
           added' \in [Request -> Nat]
    PROVE  TypeInv'
<1>1. /\ now' \in Time /\ iframes' \in Seq(Time)
      /\ queue' \in Seq(Packet) /\ listed' \in BOOLEAN
    BY Types DEF TypeInv
<1>2. TypeOK'
    BY <1>1 DEF TypeOK, HandlerRec, DecoderRec
<1>3. Timed'
    BY DEF TypeInv, Timed
<1>4. QED
    BY <1>2, <1>3 DEF TypeInv

LEMMA Same ==
    ASSUME BufferedAssumption, TypeInv
    PROVE  /\ handler \in [Request -> HandlerRec]
           /\ decoder \in [Request -> [Container -> DecoderRec]]
           /\ decoded \in [Request -> Seq(Image)]
           /\ added \in [Request -> Nat]
           /\ \A r \in Request, c \in Container :
                /\ Len(decoder[r][c].todo) <= QueryCount
                /\ decoder[r][c].pc = "push" => decoder[r][c].todo # <<>>
    BY Types DEF TypeInv, Timed

LEMMA PublishInv ==
    ASSUME BufferedAssumption, TypeInv, NEW r \in Request, Publish(r)
    PROVE  TypeInv'
<1>1. PICK from \in Time, to \in Time \cup {Forever}, heard \in SUBSET Container :
         /\ handler' = [handler EXCEPT ![r].pc = "read", ![r].from = from, ![r].to = to]
         /\ decoder' = [decoder EXCEPT ![r] = [c \in Container |->
                IF c \in heard THEN [NoDecoder EXCEPT !.pc = "seek", !.to = to]
                               ELSE NoDecoder]]
    BY DEF Publish
<1> DEFINE seeker == [NoDecoder EXCEPT !.pc = "seek", !.to = to]
<1>2. seeker \in DecoderRec /\ seeker.pc = "seek" /\ seeker.todo = NoDecoder.todo
    BY FreshTypes DEF DecoderRec
<1> HIDE DEF seeker
<1>3. handler' \in [Request -> HandlerRec]
  <2>1. handler \in [Request -> HandlerRec]
    BY Same
  <2>2. [handler[r] EXCEPT !.pc = "read", !.from = from, !.to = to] \in HandlerRec
    BY <2>1 DEF HandlerRec
  <2>3. handler' = [handler EXCEPT ![r] =
                      [handler[r] EXCEPT !.pc = "read", !.from = from, !.to = to]]
    BY <1>1
  <2>4. QED
    BY <2>1, <2>2, <2>3
<1>4. /\ decoder' \in [Request -> [Container -> DecoderRec]]
      /\ \A q \in Request, c \in Container :
            \/ decoder'[q][c] = decoder[q][c]
            \/ decoder'[q][c] = seeker \/ decoder'[q][c] = NoDecoder
    BY <1>1, <1>2, Same, FreshTypes DEF seeker
<1>5. ASSUME NEW q \in Request, NEW c \in Container
      PROVE  /\ Len(decoder'[q][c].todo) <= QueryCount
             /\ decoder'[q][c].pc = "push" => decoder'[q][c].todo # <<>>
  <2>1. CASE decoder'[q][c] = decoder[q][c]
    BY <2>1, Same
  <2>2. CASE decoder'[q][c] = seeker \/ decoder'[q][c] = NoDecoder
    BY <1>2, <2>2, FreshTypes, Numbers
  <2>3. QED
    BY <1>4, <2>1, <2>2
<1>6. QED
    BY <1>3, <1>4, <1>5, Same, OthersKept DEF Publish, camera

\* Where XREAD ends is a place of the stream.
LEMMA ReadPlace ==
    ASSUME NEW S, NEW s \in Seq(S), NEW start \in 1..Len(s), NEW n \in Nat \ {0}
    PROVE  /\ ReadTo(s, start, n) \in start..Len(s)
           /\ ReadTo(s, start, n) \in 1..Len(s)
           /\ ReadTo(s, start, n) - start + 1 <= n
<1>1. PICK m \in Nat : Len(s) = m
    BY LenProperties
<1>2. QED
    BY <1>1 DEF ReadTo

LEMMA HandlerInv ==
    ASSUME BufferedAssumption, TypeInv, NEW r \in Request,
           XRead(r) \/ XDel(r) \/ TimeOut(r) \/ Delete(r) \/ Cancelled(r)
    PROVE  TypeInv'
<1>1. /\ UNCHANGED now /\ UNCHANGED iframes /\ UNCHANGED queue /\ UNCHANGED listed
      /\ UNCHANGED decoder /\ UNCHANGED added
    BY DEF XRead, XDel, TimeOut, Delete, Cancelled, camera
<1>2. handler \in [Request -> HandlerRec] /\ decoded \in [Request -> Seq(Image)]
      /\ handler[r] \in HandlerRec /\ decoded[r] \in Seq(Image)
    BY Same
<1>3. handler' \in [Request -> HandlerRec]
  <2>1. CASE XRead(r)
    <3>1. PICK start \in Unread(r) :
            LET i == decoded[r][ReadTo(decoded[r], start, ReadCount)] IN
            handler' = [handler EXCEPT ![r].pc = "xdel", ![r].last = i.id,
               ![r].ended = i.frame = Finish,
               ![r].sent = IF i.frame = Finish THEN @ ELSE i.frame]
      BY <2>1 DEF XRead
    <3>2. PICK i : i = decoded[r][ReadTo(decoded[r], start, ReadCount)]
      OBVIOUS
    <3>3. start \in 1..Len(decoded[r])
      BY <1>2 DEF Unread
    <3>4. i \in Image
      BY <1>2, <3>2, <3>3, ReadPlace, ElementOfSeq, Numbers
    <3>5. /\ i.id \in Nat /\ (i.frame = Finish) \in BOOLEAN
          /\ i.frame # Finish => i.frame \in Time
      BY <3>4 DEF Image
    <3>6. handler' = [handler EXCEPT ![r].pc = "xdel", ![r].last = i.id,
               ![r].ended = i.frame = Finish,
               ![r].sent = IF i.frame = Finish THEN @ ELSE i.frame]
      BY <3>1, <3>2
    <3>7. (IF i.frame = Finish THEN handler[r].sent ELSE i.frame) \in Time
      BY <1>2, <3>5 DEF HandlerRec
    <3>8. QED
      BY <1>2, <3>5, <3>6, <3>7 DEF HandlerRec
  <2>2. CASE XDel(r)
    <3>1. PICK p \in {"read", "delete"} : handler' = [handler EXCEPT ![r].pc = p]
      BY <2>2 DEF XDel
    <3>2. QED
      BY <1>2, <3>1 DEF HandlerRec
  <2>3. CASE TimeOut(r) \/ Delete(r) \/ Cancelled(r)
    <3>1. PICK p \in {"delete", "done"} : handler' = [handler EXCEPT ![r].pc = p]
      BY <2>3 DEF TimeOut, Delete, Cancelled
    <3>2. QED
      BY <1>2, <3>1 DEF HandlerRec
  <2>4. QED
    BY <2>1, <2>2, <2>3
<1>4. decoded' \in [Request -> Seq(Image)]
  <2>1. CASE XDel(r)
    <3>1. CASE decoded' = decoded
      BY <1>2, <3>1
    <3>2. CASE \E i \in DOMAIN decoded[r] :
                 decoded' = [decoded EXCEPT ![r] = RemoveAt(@, i)]
      <4>1. PICK i \in DOMAIN decoded[r] :
               decoded' = [decoded EXCEPT ![r] = RemoveAt(@, i)]
        BY <3>2
      <4>2. RemoveAt(decoded[r], i) \in Seq(Image)
        BY <1>2, WithoutOne
      <4>3. QED
        BY <1>2, <4>1, <4>2
    <3>3. QED
      BY <2>1, <3>1, <3>2 DEF XDel
  <2>2. CASE decoded' = decoded \/ decoded' = [decoded EXCEPT ![r] = <<>>]
    <3>1. <<>> \in Seq(Image)
      OBVIOUS
    <3>2. QED
      BY <1>2, <2>2, <3>1
  <2>3. QED
    BY <2>1, <2>2 DEF XRead, TimeOut, Delete, Cancelled
<1>5. QED
    BY <1>1, <1>3, <1>4, Same, OthersKept

\* A process that goes on as d, and what it has added.
LEMMA ProcessInv ==
    ASSUME BufferedAssumption, TypeInv, NEW r \in Request, NEW c \in Container,
           NEW d \in DecoderRec, Becomes(r, c, d),
           Len(d.todo) <= QueryCount, d.pc = "push" => d.todo # <<>>,
           UNCHANGED now, UNCHANGED iframes, UNCHANGED queue, UNCHANGED listed,
           UNCHANGED handler,
           decoded' \in [Request -> Seq(Image)], added' \in [Request -> Nat]
    PROVE  TypeInv'
<1>1. /\ decoder' \in [Request -> [Container -> DecoderRec]]
      /\ \A q \in Request, e \in Container :
            decoder'[q][e] = decoder[q][e] \/ decoder'[q][e] = d
    BY Same DEF Becomes
<1>2. \A q \in Request, e \in Container :
         /\ Len(decoder'[q][e].todo) <= QueryCount
         /\ decoder'[q][e].pc = "push" => decoder'[q][e].todo # <<>>
  <2> TAKE q \in Request, e \in Container
  <2>1. CASE decoder'[q][e] = decoder[q][e]
    BY <2>1, Same
  <2>2. CASE decoder'[q][e] = d
    BY <2>2
  <2>3. QED
    BY <1>1, <2>1, <2>2
<1>3. handler' \in [Request -> HandlerRec]
    BY Same
<1>4. QED
    BY <1>1, <1>2, <1>3, OthersKept

LEMMA RoundedDown ==
    ASSUME BufferedAssumption, TypeInv
    PROVE  Rounded \in Time /\ Rounded <= now
<1>1. now \in Nat /\ now <= MaxTime /\ Second \in Nat /\ Second >= 1
    BY Types, Numbers DEF TypeInv
<1>2. (now \div Second) * Second \in Nat /\ (now \div Second) * Second <= now
    BY <1>1
<1>3. QED
    BY <1>1, <1>2, Numbers DEF Rounded

\* Packets that are read come after the place that was read to.
LEMMA Queried ==
    ASSUME BufferedAssumption, TypeInv, NEW r \in Request, NEW c \in Container,
           Query(r, c)
    PROVE  \E start \in 1..Len(queue), end \in 1..Len(queue), d \in DecoderRec :
             /\ start <= end /\ queue[start].at > decoder[r][c].pos
             /\ Becomes(r, c, d)
             /\ d.pos = queue[end].at /\ d.to = decoder[r][c].to
             /\ \/ d.pc = "finish" /\ d.todo = decoder[r][c].todo
                \/ /\ d.pc = "decode" /\ d.todo = SubSeq(queue, start, end) /\ ~(d.pos >= d.to)
                   /\ Len(d.todo) = end - start + 1 /\ end - start + 1 <= QueryCount
                   /\ \A i \in 1..Len(d.todo) : d.todo[i] = queue[start + i - 1]
<1>1. queue \in Seq(Packet) /\ decoder[r][c] \in DecoderRec
    BY Same, Types DEF TypeInv
<1>2. PICK start \in Unqueried(r, c) :
         LET end == ReadTo(queue, start, QueryCount)
             d == [decoder[r][c] EXCEPT !.pos = queue[end].at] IN
         Becomes(r, c, IF d.pos >= d.to THEN [d EXCEPT !.pc = "finish"]
                       ELSE [d EXCEPT !.pc = "decode", !.todo = SubSeq(queue, start, end)])
    BY DEF Query
<1>3. start \in 1..Len(queue) /\ queue[start].at > decoder[r][c].pos
    BY <1>1 DEF Unqueried
<1>4. PICK end : end = ReadTo(queue, start, QueryCount)
    OBVIOUS
<1>5. /\ end \in 1..Len(queue) /\ start <= end /\ end - start + 1 <= QueryCount
      /\ QueryCount \in Nat
  <2>1. QueryCount \in Nat \ {0}
    BY Numbers
  <2>2. end \in start..Len(queue) /\ end \in 1..Len(queue) /\ end - start + 1 <= QueryCount
    BY <1>1, <1>3, <1>4, <2>1, ReadPlace
  <2>3. QED
    BY <2>1, <2>2
<1>6. PICK b : b = [decoder[r][c] EXCEPT !.pos = queue[end].at]
    OBVIOUS
<1>7. Becomes(r, c, IF b.pos >= b.to THEN [b EXCEPT !.pc = "finish"]
                    ELSE [b EXCEPT !.pc = "decode", !.todo = SubSeq(queue, start, end)])
    BY <1>2, <1>4, <1>6
<1>8. queue[end] \in Packet /\ queue[end].at \in Time
  <2>1. queue[end] \in Packet
    BY <1>1, <1>5, ElementOfSeq
  <2>2. QED
    BY <2>1 DEF Packet
<1>9. /\ b \in DecoderRec /\ b.pos = queue[end].at /\ b.to = decoder[r][c].to
      /\ b.todo = decoder[r][c].todo
    BY <1>1, <1>6, <1>8 DEF DecoderRec
<1>10. CASE b.pos >= b.to
  <2>1. PICK d : d = [b EXCEPT !.pc = "finish"]
    OBVIOUS
  <2>2. Becomes(r, c, d)
    BY <1>7, <1>10, <2>1
  <2>3. /\ d \in DecoderRec /\ d.pc = "finish" /\ d.pos = b.pos /\ d.to = b.to
        /\ d.todo = b.todo
    BY <1>9, <2>1 DEF DecoderRec
  <2>4. QED
    BY <1>3, <1>5, <1>9, <2>2, <2>3
<1>11. CASE ~(b.pos >= b.to)
  <2>1. PICK d : d = [b EXCEPT !.pc = "decode", !.todo = SubSeq(queue, start, end)]
    OBVIOUS
  <2>2. Becomes(r, c, d)
    BY <1>7, <1>11, <2>1
  <2>3. PICK t : t = SubSeq(queue, start, end)
    OBVIOUS
  <2>4. /\ t \in Seq(Packet) /\ Len(t) = end - start + 1
        /\ \A i \in 1..Len(t) : t[i] = queue[start + i - 1]
    <3>1. \A i \in start..end : queue[i] \in Packet
      BY <1>1, <1>3, <1>5, ElementOfSeq
    <3>2. /\ t \in Seq(Packet) /\ Len(t) = IF start <= end THEN end - start + 1 ELSE 0
          /\ \A i \in 1..(end - start + 1) : t[i] = queue[start + i - 1]
      BY <1>3, <1>5, <2>3, <3>1, SubSeqProperties
    <3>3. QED
      BY <1>5, <3>2
  <2>5. /\ d \in DecoderRec /\ d.pc = "decode" /\ d.pos = b.pos /\ d.to = b.to
        /\ d.todo = t
    BY <1>9, <2>1, <2>3, <2>4 DEF DecoderRec
  <2>6. /\ Len(d.todo) = end - start + 1 /\ end - start + 1 <= QueryCount
        /\ \A i \in 1..Len(d.todo) : d.todo[i] = queue[start + i - 1]
        /\ d.todo = SubSeq(queue, start, end)
        /\ d.pos = queue[end].at /\ d.to = decoder[r][c].to /\ ~(d.pos >= d.to)
    BY <1>5, <1>9, <1>11, <2>3, <2>4, <2>5
  <2>7. QED
    BY <1>3, <1>5, <2>2, <2>5, <2>6
<1>12. QED
    BY <1>10, <1>11

\* An image is added behind the others, with the next id, and the oldest ones
\* may be dropped.
LEMMA ImageAdded ==
    ASSUME BufferedAssumption, TypeInv, NEW r \in Request,
           NEW f \in Time \cup {Finish}, XAdd(r, f)
    PROVE  /\ added' = [added EXCEPT ![r] = added[r] + 1] /\ added' \in [Request -> Nat]
           /\ decoded' = [decoded EXCEPT ![r] = decoded'[r]]
           /\ decoded' \in [Request -> Seq(Image)]
           /\ \E k \in 0..(Len(decoded[r]) + 1) :
                /\ Len(decoded'[r]) = Len(decoded[r]) + 1 - k
                /\ \A i \in 1..Len(decoded'[r]) :
                     /\ i + k \in 1..(Len(decoded[r]) + 1)
                     /\ decoded'[r][i] = IF i + k <= Len(decoded[r]) THEN decoded[r][i + k]
                                         ELSE [id |-> added[r] + 1, frame |-> f]
<1>1. /\ added \in [Request -> Nat] /\ decoded \in [Request -> Seq(Image)]
      /\ DecodedLen \in Nat \ {0}
    BY Same, Numbers
<1>2. PICK s, x, t : /\ s = decoded[r] /\ x = [id |-> added[r] + 1, frame |-> f]
                     /\ t = Append(s, x)
    OBVIOUS
<1>3. added' = [added EXCEPT ![r] = added[r] + 1] /\ added' \in [Request -> Nat]
    BY <1>1 DEF XAdd
<1>4. PICK u \in Trimmed(t, DecodedLen) : decoded' = [decoded EXCEPT ![r] = u]
  <2>1. added'[r] = added[r] + 1
    BY <1>1, <1>3
  <2>2. QED
    BY <1>2, <2>1 DEF XAdd
<1>5. x \in Image /\ s \in Seq(Image)
  <2>1. added[r] + 1 \in Nat \ {0} /\ decoded[r] \in Seq(Image)
    BY <1>1
  <2>2. QED
    BY <1>2, <2>1 DEF Image
<1>6. /\ t \in Seq(Image) /\ Len(t) = Len(s) + 1 /\ Len(s) \in Nat
      /\ \A i \in 1..Len(t) : t[i] = IF i <= Len(s) THEN s[i] ELSE x
    BY <1>2, <1>5, AppendProperties
<1>7. /\ u \in Seq(Image)
      /\ \E k \in 0..Len(t) : /\ Len(u) = Len(t) - k
                              /\ \A i \in 1..Len(u) : u[i] = t[i + k] /\ i + k \in 1..Len(t)
    BY <1>1, <1>6, TrimmedStream
<1>8. PICK k \in 0..(Len(s) + 1) :
         /\ Len(u) = Len(s) + 1 - k
         /\ \A i \in 1..Len(u) : /\ i + k \in 1..(Len(s) + 1)
                                 /\ u[i] = IF i + k <= Len(s) THEN s[i + k] ELSE x
  <2>1. PICK k \in 0..Len(t) :
           /\ Len(u) = Len(t) - k
           /\ \A i \in 1..Len(u) : u[i] = t[i + k] /\ i + k \in 1..Len(t)
    BY <1>7
  <2>2. k \in 0..(Len(s) + 1) /\ Len(u) = Len(s) + 1 - k
    BY <1>6, <2>1
  <2>3. ASSUME NEW i \in 1..Len(u)
        PROVE  /\ i + k \in 1..(Len(s) + 1)
               /\ u[i] = IF i + k <= Len(s) THEN s[i + k] ELSE x
    <3>1. u[i] = t[i + k] /\ i + k \in 1..Len(t)
      BY <2>1
    <3>2. QED
      BY <1>6, <3>1
  <2>4. QED
    BY <2>2, <2>3
<1>9. decoded'[r] = u /\ decoded' \in [Request -> Seq(Image)]
    BY <1>1, <1>4, <1>7
<1>10. QED
    BY <1>2, <1>3, <1>4, <1>8, <1>9

\* How far the processes go.
LEMMA Sought ==
    ASSUME BufferedAssumption, TypeInv, NEW r \in Request, NEW c \in Container,
           Seek(r, c)
    PROVE  \E d \in DecoderRec :
             /\ Becomes(r, c, d) /\ Len(d.todo) <= QueryCount
             /\ \/ d.pc = "none"
                \/ d.pc = "clamp" /\ d.pos <= now /\ d.to = decoder[r][c].to
<1>1. /\ decoder[r][c] \in DecoderRec /\ Len(decoder[r][c].todo) <= QueryCount
      /\ iframes \in Seq(Time) /\ now \in Time
    BY Same, Types DEF TypeInv
<1>2. CASE iframes = <<>> /\ Becomes(r, c, NoDecoder)
    BY <1>2, FreshTypes, Numbers
<1>3. CASE \E i \in DOMAIN iframes :
              Becomes(r, c, [decoder[r][c] EXCEPT !.pc = "clamp", !.pos = iframes[i] - 1])
  <2>1. PICK i \in 1..Len(iframes) :
           Becomes(r, c, [decoder[r][c] EXCEPT !.pc = "clamp", !.pos = iframes[i] - 1])
    <3>1. DOMAIN iframes = 1..Len(iframes)
      BY <1>1
    <3>2. QED
      BY <1>3, <3>1, Zenon
  <2>2. PICK d : d = [decoder[r][c] EXCEPT !.pc = "clamp", !.pos = iframes[i] - 1]
    OBVIOUS
  <2>3. iframes[i] \in Time /\ iframes[i] >= 1 /\ iframes[i] <= now
    BY <1>1, ElementOfSeq DEF TypeInv, Timed
  <2>4. iframes[i] - 1 \in Time /\ iframes[i] - 1 <= now
    <3>1. iframes[i] \in Nat /\ iframes[i] <= MaxTime /\ now \in Nat
      BY <1>1, <2>3, Numbers
    <3>2. iframes[i] - 1 \in Nat /\ iframes[i] - 1 <= MaxTime /\ iframes[i] - 1 <= now
      BY <2>3, <3>1, Numbers
    <3>3. QED
      BY <3>2, Numbers
  <2>5. /\ d \in DecoderRec /\ d.pc = "clamp" /\ d.pos = iframes[i] - 1
        /\ d.to = decoder[r][c].to /\ d.todo = decoder[r][c].todo
    BY <1>1, <2>2, <2>4 DEF DecoderRec
  <2>6. Becomes(r, c, d)
    BY <2>1, <2>2
  <2>7. QED
    BY <1>1, <2>4, <2>5, <2>6
<1>4. QED
    BY <1>2, <1>3 DEF Seek

LEMMA Clamped ==
    ASSUME BufferedAssumption, TypeInv, NEW r \in Request, NEW c \in Container,
           Clamp(r, c)
    PROVE  \E d \in DecoderRec :
             /\ Becomes(r, c, d) /\ Len(d.todo) <= QueryCount
             /\ d.pc = "xread" /\ d.pos = decoder[r][c].pos /\ d.to <= decoder[r][c].to
<1>1. /\ decoder[r][c] \in DecoderRec /\ Len(decoder[r][c].todo) <= QueryCount
      /\ Rounded \in Time
    BY Same, RoundedDown
<1>2. PICK d : d = [decoder[r][c] EXCEPT !.pc = "xread",
                      !.to = IF @ > Rounded THEN Rounded ELSE @]
    OBVIOUS
<1>3. Becomes(r, c, d)
    BY <1>2 DEF Clamp
<1>4. PICK to : to = IF decoder[r][c].to > Rounded THEN Rounded ELSE decoder[r][c].to
    OBVIOUS
<1>5. to \in Time \cup {Forever} /\ to <= decoder[r][c].to
  <2>1. decoder[r][c].to \in Nat /\ Rounded \in Nat
    BY <1>1, Numbers DEF DecoderRec
  <2>2. QED
    BY <1>1, <1>4, <2>1 DEF DecoderRec
<1>6. /\ d \in DecoderRec /\ d.pc = "xread" /\ d.pos = decoder[r][c].pos /\ d.to = to
      /\ d.todo = decoder[r][c].todo
    BY <1>1, <1>2, <1>4, <1>5 DEF DecoderRec
<1>7. QED
    BY <1>1, <1>3, <1>5, <1>6

\* A packet is left behind, decoded or the last one.
LEMMA Decoding ==
    ASSUME BufferedAssumption, TypeInv, NEW r \in Request, NEW c \in Container,
           Decode(r, c)
    PROVE  \E d \in DecoderRec :
             /\ Becomes(r, c, d) /\ Len(d.todo) <= QueryCount
             /\ d.pc = "push" => d.todo # <<>>
             /\ \/ d.pc = "none"
                \/ /\ d.pos = decoder[r][c].pos /\ d.to = decoder[r][c].to
                   /\ \/ d.pc = "xread"
                      \/ d.pc = "push" /\ d.todo = decoder[r][c].todo
                      \/ /\ d.pc = "decode" /\ decoder[r][c].todo # <<>>
                         /\ d.todo = Tail(decoder[r][c].todo)
<1>1. /\ decoder[r][c] \in DecoderRec /\ Len(decoder[r][c].todo) <= QueryCount
      /\ QueryCount \in Nat
    BY Same, Numbers
<1>2. PICK b \in DecoderRec : b = decoder[r][c]
    BY <1>1
<1>3. b.todo \in Seq(Packet) /\ Len(b.todo) \in Nat
    BY <1>2 DEF DecoderRec
<1>4. CASE b.todo = <<>>
  <2>1. PICK d : d = [b EXCEPT !.pc = "xread"]
    OBVIOUS
  <2>2. Becomes(r, c, d)
    BY <1>2, <1>4, <2>1 DEF Decode
  <2>3. d \in DecoderRec /\ d.pc = "xread" /\ d.pos = b.pos /\ d.to = b.to /\ d.todo = b.todo
    BY <2>1 DEF DecoderRec
  <2>4. QED
    BY <1>1, <1>2, <2>2, <2>3
<1>5. CASE b.todo # <<>>
  <2>1. PICK found : found = Found(b)
    OBVIOUS
  <2>2. found \in BOOLEAN
    BY <2>1 DEF Found, DecoderRec
  <2>3. /\ Tail(b.todo) \in Seq(Packet) /\ Len(Tail(b.todo)) = Len(b.todo) - 1
    BY <1>3, <1>5, HeadTailProperties
  <2>4. PICK skip, push : /\ skip = [b EXCEPT !.todo = Tail(b.todo), !.found = found]
                          /\ push = [b EXCEPT !.pc = "push", !.found = TRUE]
    OBVIOUS
  <2>5. \/ Becomes(r, c, skip) \/ Becomes(r, c, push)
        \/ Becomes(r, c, NoDecoder)
    BY <1>2, <1>5, <2>1, <2>4 DEF Decode
  <2>6. b.pc = "decode"
    BY <1>2 DEF Decode, At
  <2>7. /\ skip \in DecoderRec /\ skip.pc = "decode" /\ skip.pos = b.pos /\ skip.to = b.to
        /\ skip.todo = Tail(b.todo)
    BY <2>2, <2>3, <2>4, <2>6 DEF DecoderRec
  <2>8. /\ push \in DecoderRec /\ push.pc = "push" /\ push.pos = b.pos /\ push.to = b.to
        /\ push.todo = b.todo
    BY <2>4 DEF DecoderRec
  <2>9. CASE Becomes(r, c, skip)
    <3>1. Len(skip.todo) <= QueryCount
      BY <1>1, <1>2, <1>3, <2>3, <2>7
    <3>2. QED
      BY <1>2, <1>5, <2>7, <2>9, <3>1
  <2>10. CASE Becomes(r, c, push)
    BY <1>1, <1>2, <1>5, <2>8, <2>10
  <2>11. CASE Becomes(r, c, NoDecoder)
    BY <2>11, FreshTypes, Numbers
  <2>12. QED
    BY <2>5, <2>9, <2>10, <2>11
<1>6. QED
    BY <1>4, <1>5

\* The frame that a process adds.
LEMMA Pushed ==
    ASSUME BufferedAssumption, TypeInv, NEW r \in Request, NEW c \in Container,
           Push(r, c)
    PROVE  \E d \in DecoderRec, f \in Time :
             /\ decoder[r][c].todo # <<>> /\ f = Head(decoder[r][c].todo).at
             /\ XAdd(r, f) /\ Becomes(r, c, d) /\ Len(d.todo) <= QueryCount
             /\ d.pc = "decode" /\ d.pos = decoder[r][c].pos /\ d.to = decoder[r][c].to
             /\ d.todo = Tail(decoder[r][c].todo)
<1>1. /\ decoder[r][c] \in DecoderRec /\ Len(decoder[r][c].todo) <= QueryCount
      /\ QueryCount \in Nat /\ decoder[r][c].todo # <<>>
    BY Same, Numbers DEF Push, At
<1>2. PICK b \in DecoderRec : b = decoder[r][c]
    BY <1>1
<1>3. b.todo \in Seq(Packet) /\ Len(b.todo) \in Nat
    BY <1>2 DEF DecoderRec
<1>4. /\ Head(b.todo) \in Packet
      /\ Tail(b.todo) \in Seq(Packet) /\ Len(Tail(b.todo)) = Len(b.todo) - 1
    BY <1>1, <1>2, <1>3, HeadTailProperties
<1>5. PICK d : d = [b EXCEPT !.pc = "decode", !.todo = Tail(b.todo)]
    OBVIOUS
<1>6. PICK f : f = Head(b.todo).at
    OBVIOUS
<1>7. f \in Time
    BY <1>4, <1>6 DEF Packet
<1>8. XAdd(r, f) /\ Becomes(r, c, d)
    BY <1>2, <1>5, <1>6 DEF Push
<1>9. /\ d \in DecoderRec /\ d.pc = "decode" /\ d.pos = b.pos /\ d.to = b.to
      /\ d.todo = Tail(b.todo)
    BY <1>4, <1>5 DEF DecoderRec
<1>10. Len(d.todo) <= QueryCount
    BY <1>1, <1>2, <1>3, <1>4, <1>9
<1>11. QED
    BY <1>1, <1>2, <1>6, <1>7, <1>8, <1>9, <1>10

LEMMA RunInv ==
    ASSUME BufferedAssumption, TypeInv, NEW r \in Request, NEW c \in Container,
           Run(r, c)
    PROVE  TypeInv'
<1>1. /\ UNCHANGED now /\ UNCHANGED iframes /\ UNCHANGED queue /\ UNCHANGED listed
      /\ UNCHANGED handler
    BY DEF Run, Seek, Clamp, Query, Decode, Push,
           PushFinish, camera
<1>2. decoded \in [Request -> Seq(Image)] /\ added \in [Request -> Nat]
    BY Same
<1>3. CASE Seek(r, c)
  <2>1. PICK d \in DecoderRec :
           Becomes(r, c, d) /\ Len(d.todo) <= QueryCount /\ d.pc # "push"
    BY <1>3, Sought
  <2>2. UNCHANGED decoded /\ UNCHANGED added
    BY <1>3 DEF Seek
  <2>3. QED
    BY <1>1, <1>2, <2>1, <2>2, ProcessInv
<1>4. CASE Clamp(r, c)
  <2>1. PICK d \in DecoderRec :
           Becomes(r, c, d) /\ Len(d.todo) <= QueryCount /\ d.pc # "push"
    BY <1>4, Clamped
  <2>2. UNCHANGED decoded /\ UNCHANGED added
    BY <1>4 DEF Clamp
  <2>3. QED
    BY <1>1, <1>2, <2>1, <2>2, ProcessInv
<1>5. CASE Query(r, c)
  <2>1. PICK d \in DecoderRec :
           Becomes(r, c, d) /\ Len(d.todo) <= QueryCount /\ d.pc # "push"
    BY <1>5, Queried, Same
  <2>2. UNCHANGED decoded /\ UNCHANGED added
    BY <1>5 DEF Query
  <2>3. QED
    BY <1>1, <1>2, <2>1, <2>2, ProcessInv
<1>6. CASE Decode(r, c)
  <2>1. PICK d \in DecoderRec :
           /\ Becomes(r, c, d) /\ Len(d.todo) <= QueryCount
           /\ d.pc = "push" => d.todo # <<>>
    BY <1>6, Decoding
  <2>2. UNCHANGED decoded /\ UNCHANGED added
    BY <1>6 DEF Decode
  <2>3. QED
    BY <1>1, <1>2, <2>1, <2>2, ProcessInv
<1>7. CASE Push(r, c)
  <2>1. PICK d \in DecoderRec, f \in Time :
           /\ XAdd(r, f) /\ Becomes(r, c, d) /\ Len(d.todo) <= QueryCount
           /\ d.pc = "decode"
    BY <1>7, Pushed
  <2>2. decoded' \in [Request -> Seq(Image)] /\ added' \in [Request -> Nat]
    BY <2>1, ImageAdded
  <2>3. QED
    BY <1>1, <2>1, <2>2, ProcessInv
<1>8. CASE PushFinish(r, c)
  <2>1. /\ XAdd(r, Finish) /\ Becomes(r, c, NoDecoder)
        /\ Finish \in Time \cup {Finish}
    BY <1>8 DEF PushFinish
  <2>2. decoded' \in [Request -> Seq(Image)] /\ added' \in [Request -> Nat]
    BY <2>1, ImageAdded
  <2>3. /\ NoDecoder \in DecoderRec /\ Len(NoDecoder.todo) <= QueryCount
        /\ NoDecoder.pc # "push"
    BY FreshTypes, Numbers
  <2>4. QED
    BY <1>1, <2>1, <2>2, <2>3, ProcessInv
<1>9. QED
    BY <1>3, <1>4, <1>5, <1>6, <1>7, <1>8 DEF Run

LEMMA NextInv ==
    BufferedAssumption /\ TypeInv /\ [Next]_vars => TypeInv'
<1> SUFFICES ASSUME BufferedAssumption, TypeInv, [Next]_vars PROVE TypeInv'
    OBVIOUS
<1>1. CASE UNCHANGED vars
  <2>1. /\ UNCHANGED now /\ UNCHANGED iframes /\ UNCHANGED queue /\ UNCHANGED listed
        /\ UNCHANGED handler /\ UNCHANGED decoder /\ UNCHANGED decoded /\ UNCHANGED added
    BY <1>1 DEF vars, camera
  <2>2. QED
    BY <2>1, Same, OthersKept
<1>2. CASE Next
    BY <1>2, CameraInv, RestartInv, PublishInv, HandlerInv, RunInv
    DEF Next, Handle
<1>3. QED
    BY <1>1, <1>2

\* The types of BufferedVideo: the handler's last image has a time that the
\* clock can show, no process is given more packets than it asks for, and only a
\* process that has a packet pushes one.
THEOREM TypeCorrect == Spec => []TypeOK
<1>1. Init => TypeInv
    BY InitInv, BufferedAssumption
<1>2. TypeInv /\ [Next]_vars => TypeInv'
    BY NextInv, BufferedAssumption
<1>3. TypeInv => TypeOK
    BY DEF TypeInv
<1>4. QED
    BY <1>1, <1>2, <1>3, PTL DEF Spec

-----------------------------------------------------------------------------
(* The order of what a client is sent from the past.  Every container that *)
(* hears of a query decodes into the same stream: the order is that of one *)
(* process.                                                                *)

OneProcess == \A r \in Request : \A c, e \in Container :
    decoder[r][c].pc # "none" /\ decoder[r][e].pc # "none" => c = e

Stored == \A i \in 1..Len(queue) :
    /\ queue[i].at <= now
    /\ \A j \in 1..Len(queue) : i < j => queue[i].at < queue[j].at

\* The images of a stream, n of which were added up to a time, and their
\* handler: those it has not read are newer than what it has sent.
Images(s, n, h, time) ==
    /\ h.last <= n /\ h.sent <= time
    /\ \A i \in 1..Len(s) :
         /\ s[i].id <= n
         /\ s[i].frame # Finish => s[i].frame < h.to /\ s[i].frame <= time
         /\ s[i].id > h.last => s[i].frame > h.sent
         /\ \A j \in 1..Len(s) : i < j => s[i].id < s[j].id /\ s[i].frame < s[j].frame

\* A process, its stream and its handler: what it will add is newer than all
\* that was added, and before the end of the query.
Following(d, s, h, time) ==
    /\ d.pc # "none" => d.to <= h.to /\ d.pos <= time
    /\ d.pc \in {"seek", "clamp"} => Len(s) = 0 /\ h.sent = 0
    /\ d.pc \in {"xread", "decode", "push", "finish"} =>
         h.sent <= d.pos /\ \A i \in 1..Len(s) : s[i].frame <= d.pos
    /\ d.pc \in {"decode", "push"} => \A i \in 1..Len(d.todo) :
         /\ d.todo[i].at <= d.pos /\ d.todo[i].at < d.to /\ d.todo[i].at > h.sent
         /\ \A j \in 1..Len(s) : d.todo[i].at > s[j].frame
         /\ \A j \in 1..Len(d.todo) : i < j => d.todo[i].at < d.todo[j].at

Starting(r) == handler[r].pc = "new" =>
    /\ Len(decoded[r]) = 0 /\ handler[r].sent = 0
    /\ \A c \in Container : decoder[r][c].pc = "none"

InTurn(r) ==
    /\ Images(decoded[r], added[r], handler[r], now)
    /\ \A c \in Container : Following(decoder[r][c], decoded[r], handler[r], now)
    /\ Starting(r)

OrderInv == TypeInv /\ Stored /\ \A r \in Request : InTurn(r)

LEMMA ImageNumbers ==
    ASSUME BufferedAssumption, NEW s \in Seq(Image), NEW i \in 1..Len(s)
    PROVE  /\ s[i].id \in Nat /\ s[i].frame \in Nat
           /\ s[i].frame <= Finish /\ Finish \in Nat
<1>1. s[i] \in Image
    BY ElementOfSeq
<1>2. QED
    BY <1>1, Numbers DEF Image

LEMMA PacketNumbers ==
    ASSUME BufferedAssumption, NEW s \in Seq(Packet), NEW i \in 1..Len(s)
    PROVE  s[i].at \in Nat /\ s[i].at <= MaxTime
<1>1. s[i] \in Packet
    BY ElementOfSeq
<1>2. QED
    BY <1>1, Numbers DEF Packet

LEMMA RecordNumbers ==
    ASSUME BufferedAssumption
    PROVE  /\ \A h \in HandlerRec : h.last \in Nat /\ h.sent \in Nat /\ h.to \in Nat
           /\ \A d \in DecoderRec : d.pos \in Nat /\ d.pos <= MaxTime /\ d.to \in Nat
                                    /\ d.todo \in Seq(Packet)
    BY Numbers DEF HandlerRec, DecoderRec

\* What holds at a time holds later.
LEMMA Later ==
    ASSUME BufferedAssumption, NEW s \in Seq(Image), NEW n \in Nat,
           NEW h \in HandlerRec, NEW d \in DecoderRec, NEW x \in Nat, NEW y \in Nat, x <= y
    PROVE  /\ Images(s, n, h, x) => Images(s, n, h, y)
           /\ Following(d, s, h, x) => Following(d, s, h, y)
<1>1. ASSUME Images(s, n, h, x) PROVE Images(s, n, h, y)
  <2>1. h.sent \in Nat /\ h.sent <= x /\ h.last <= n
    BY <1>1, RecordNumbers DEF Images
  <2>2. ASSUME NEW i \in 1..Len(s), s[i].frame # Finish
        PROVE  s[i].frame < h.to /\ s[i].frame <= y
    <3>1. s[i].frame \in Nat /\ s[i].frame <= x /\ s[i].frame < h.to
      BY <1>1, <2>2, ImageNumbers DEF Images
    <3>2. QED
      BY <3>1
  <2>3. QED
    BY <1>1, <2>1, <2>2 DEF Images
<1>2. ASSUME Following(d, s, h, x) PROVE Following(d, s, h, y)
  <2>1. d.pos \in Nat /\ (d.pc # "none" => d.pos <= x)
    BY <1>2, RecordNumbers DEF Following
  <2>2. d.pc # "none" => d.pos <= y
    BY <2>1
  <2>3. QED
    BY <1>2, <2>2 DEF Following
<1>3. QED
    BY <1>1, <1>2

\* A call that nothing happens to, but that the clock moves or a process ends.
LEMMA InTurnSame ==
    ASSUME BufferedAssumption, TypeInv, TypeInv', NEW r \in Request, InTurn(r),
           now <= now', handler'[r] = handler[r], decoded'[r] = decoded[r],
           added'[r] = added[r],
           \A c \in Container : decoder'[r][c] = decoder[r][c] \/ decoder'[r][c].pc = "none"
    PROVE  InTurn(r)'
<1>1. PICK s \in Seq(Image), n \in Nat, h \in HandlerRec :
         s = decoded[r] /\ n = added[r] /\ h = handler[r]
    BY Same
<1>2. now \in Nat /\ now' \in Nat
    BY Types, Numbers DEF TypeInv, TypeOK
<1>3. Images(s, n, h, now')
  <2>1. Images(s, n, h, now)
    BY <1>1 DEF InTurn
  <2>2. \A x, y \in Nat : x <= y => (Images(s, n, h, x) => Images(s, n, h, y))
    BY Later, FreshTypes
  <2>3. QED
    BY <1>2, <2>1, <2>2
<1>4. ASSUME NEW c \in Container PROVE Following(decoder'[r][c], s, h, now')
  <2>1. CASE decoder'[r][c] = decoder[r][c]
    <3>1. PICK d \in DecoderRec : d = decoder[r][c]
      BY Same
    <3>2. Following(d, s, h, now)
      BY <1>1, <3>1 DEF InTurn
    <3>3. \A x, y \in Nat : x <= y => (Following(d, s, h, x) => Following(d, s, h, y))
      BY Later
    <3>4. QED
      BY <1>2, <2>1, <3>1, <3>2, <3>3
  <2>2. CASE decoder'[r][c].pc = "none"
    BY <2>2 DEF Following
  <2>3. QED
    BY <2>1, <2>2
<1>5. Starting(r)'
    BY DEF InTurn, Starting
<1>6. QED
    BY <1>1, <1>3, <1>4, <1>5 DEF InTurn

\* A process that goes on as d, and adds nothing.
LEMMA InTurnProcess ==
    ASSUME BufferedAssumption, TypeInv, NEW r \in Request, NEW c \in Container,
           InTurn(r), NEW d \in DecoderRec, Becomes(r, c, d),
           decoder[r][c].pc # "none", Following(d, decoded[r], handler[r], now),
           UNCHANGED now, UNCHANGED handler, UNCHANGED decoded, UNCHANGED added
    PROVE  InTurn(r)'
<1>1. \A e \in Container : decoder'[r][e] = IF e = c THEN d ELSE decoder[r][e]
    BY Same DEF Becomes
<1>2. \A e \in Container : Following(decoder'[r][e], decoded[r], handler[r], now)
    BY <1>1 DEF InTurn
<1>3. handler[r].pc # "new"
    BY DEF InTurn, Starting
<1>4. QED
    BY <1>2, <1>3 DEF InTurn, Starting

LEMMA FollowingNone ==
    ASSUME NEW d, NEW s, NEW h, NEW t, d.pc = "none"
    PROVE  Following(d, s, h, t)
    BY DEF Following

\* The packets that a process reads are behind those it has read.
LEMMA QueriedInTurn ==
    ASSUME BufferedAssumption, TypeInv, Stored, NEW r \in Request, NEW c \in Container,
           InTurn(r), Query(r, c)
    PROVE  \E d \in DecoderRec :
             Becomes(r, c, d) /\ Following(d, decoded[r], handler[r], now)
<1>1. PICK s \in Seq(Image), h \in HandlerRec, b \in DecoderRec :
         s = decoded[r] /\ h = handler[r] /\ b = decoder[r][c]
    BY Same
<1>2. Following(b, s, h, now) /\ b.pc = "xread"
    BY <1>1 DEF InTurn, Query, At
<1>3. PICK start \in 1..Len(queue), end \in 1..Len(queue), d \in DecoderRec :
             /\ start <= end /\ queue[start].at > b.pos
             /\ Becomes(r, c, d)
             /\ d.pos = queue[end].at /\ d.to = b.to
             /\ \/ d.pc = "finish" /\ d.todo = b.todo
                \/ /\ d.pc = "decode" /\ ~(d.pos >= d.to)
                   /\ Len(d.todo) = end - start + 1
                   /\ \A i \in 1..Len(d.todo) : d.todo[i] = queue[start + i - 1]
    BY <1>1, Queried
<1>4. queue \in Seq(Packet)
    BY Types DEF TypeInv
<1>5. PICK read \in Nat, pos \in Nat, to \in Nat, sent \in Nat :
         read = b.pos /\ pos = d.pos /\ to = d.to /\ sent = h.sent
    BY RecordNumbers
<1>6. \A i \in 1..Len(queue) : queue[i].at \in Nat
    BY <1>4, PacketNumbers
<1>7. ASSUME NEW i \in 1..Len(queue), i >= start, i <= end
      PROVE  queue[i].at > read /\ queue[i].at <= pos
  <2>1. PICK x \in Nat, y \in Nat, z \in Nat :
           x = queue[start].at /\ y = queue[i].at /\ z = queue[end].at
    BY <1>6
  <2>2. x > read /\ z = pos
    BY <1>3, <1>5, <2>1
  <2>s. start \in 1..Len(queue) /\ end \in 1..Len(queue)
    BY <1>3
  <2>n. \A j \in 1..Len(queue), l \in 1..Len(queue) :
           j < l => queue[j].at < queue[l].at
    BY <1>2 DEF Stored
  <2>3. x <= y
    <3>1. CASE start = i
      BY <2>1, <3>1
    <3>2. CASE start < i
      <4>1. queue[start].at < queue[i].at
        BY <1>7, <2>s, <2>n, <3>2
      <4>2. QED
        BY <2>1, <4>1
    <3>3. QED
      BY <1>7, <2>s, <3>1, <3>2
  <2>4. y <= z
    <3>1. CASE i = end
      BY <2>1, <3>1
    <3>2. CASE i < end
      <4>1. queue[i].at < queue[end].at
        BY <1>7, <2>s, <2>n, <3>2
      <4>2. QED
        BY <2>1, <4>1
    <3>3. QED
      BY <1>7, <2>s, <3>1, <3>2
  <2>5. y > read /\ y <= pos
    BY <2>2, <2>3, <2>4
  <2>6. QED
    BY <2>1, <2>5
<1>8. sent <= read /\ \A i \in 1..Len(s) : s[i].frame <= read /\ s[i].frame \in Nat
    BY <1>2, <1>5, ImageNumbers DEF Following
<1>9. read < pos /\ pos <= now /\ to <= h.to
  <2>1. read < pos
    <3>1. PICK x \in Nat : x = queue[start].at /\ x > read /\ x <= pos
      BY <1>3, <1>6, <1>7
    <3>2. QED
      BY <3>1
  <2>2. pos <= now
    BY <1>3, <1>5 DEF Stored
  <2>3. to <= h.to
    BY <1>2, <1>3, <1>5 DEF Following
  <2>4. QED
    BY <2>1, <2>2, <2>3
<1>10. sent <= pos /\ \A i \in 1..Len(s) : s[i].frame <= pos
  <2>1. sent <= pos
    BY <1>8, <1>9
  <2>2. ASSUME NEW i \in 1..Len(s) PROVE s[i].frame <= pos
    <3>1. PICK f \in Nat : f = s[i].frame /\ f <= read
      BY <1>8
    <3>2. f <= pos
      BY <1>9, <3>1
    <3>3. QED
      BY <3>1, <3>2
  <2>3. QED
    BY <2>1, <2>2
<1>11. ASSUME d.pc = "decode", NEW i \in 1..Len(d.todo)
       PROVE  /\ d.todo[i].at <= pos /\ d.todo[i].at < to /\ d.todo[i].at > sent
              /\ \A j \in 1..Len(s) : d.todo[i].at > s[j].frame
              /\ \A j \in 1..Len(d.todo) : i < j => d.todo[i].at < d.todo[j].at
  <2>1. /\ ~(d.pos >= d.to) /\ Len(d.todo) = end - start + 1
        /\ \A j \in 1..Len(d.todo) : d.todo[j] = queue[start + j - 1]
    BY <1>3, <1>11
  <2>2. pos < to
    BY <1>5, <2>1
  <2>3. \A j \in 1..Len(d.todo) :
           start + j - 1 \in 1..Len(queue) /\ start + j - 1 >= start /\ start + j - 1 <= end
    BY <1>3, <2>1
  <2>4. PICK p \in Nat : p = d.todo[i].at /\ p > read /\ p <= pos
    BY <1>6, <1>7, <2>1, <2>3
  <2>5. p < to /\ p > sent
    BY <1>8, <2>2, <2>4
  <2>6. ASSUME NEW j \in 1..Len(s) PROVE p > s[j].frame
    <3>1. PICK f \in Nat : f = s[j].frame /\ f <= read
      BY <1>8
    <3>2. p > read /\ f <= read
      BY <2>4, <3>1
    <3>3. p > f
      BY <3>2
    <3>4. QED
      BY <3>1, <3>3
  <2>7. ASSUME NEW j \in 1..Len(d.todo), i < j PROVE d.todo[i].at < d.todo[j].at
    <3>1. start + i - 1 < start + j - 1
      BY <1>3, <2>7, <2>1
    <3>2. d.todo[i] = queue[start + i - 1] /\ d.todo[j] = queue[start + j - 1]
      BY <2>1
    <3>3. QED
      BY <2>3, <3>1, <3>2 DEF Stored
  <2>8. QED
    BY <2>4, <2>5, <2>6, <2>7
<1>12. Following(d, s, h, now)
    BY <1>3, <1>5, <1>9, <1>10, <1>11 DEF Following
<1>13. QED
    BY <1>1, <1>3, <1>12

\* What is left of the packets is behind what was taken from them.
LEMMA Rest ==
    ASSUME NEW t \in Seq(Packet), t # <<>>
    PROVE  /\ Tail(t) \in Seq(Packet) /\ Len(Tail(t)) = Len(t) - 1
           /\ Head(t) = t[1] /\ 1 \in 1..Len(t)
           /\ \A i \in 1..Len(Tail(t)) : Tail(t)[i] = t[i + 1] /\ i + 1 \in 1..Len(t)
<1>1. Len(t) \in Nat /\ Len(t) # 0
    BY EmptySeq
<1>2. QED
    BY <1>1, HeadTailProperties

LEMMA RestFollows ==
    ASSUME BufferedAssumption, NEW b \in DecoderRec, NEW d \in DecoderRec, NEW s, NEW h,
           NEW time, Following(b, s, h, time), b.pc = "decode", b.todo # <<>>,
           d.pc = "decode", d.pos = b.pos, d.to = b.to, d.todo = Tail(b.todo)
    PROVE  Following(d, s, h, time)
<1>1. PICK t \in Seq(Packet), u \in {Tail(b.todo)} :
         t = b.todo /\ u = Tail(t) /\ t # <<>>
    BY RecordNumbers
<1>2. \A i \in 1..Len(u) : u[i] = t[i + 1] /\ i + 1 \in 1..Len(t)
    BY <1>1, Rest
<1>3. \A i \in 1..Len(t) :
         /\ t[i].at <= b.pos /\ t[i].at < b.to /\ t[i].at > h.sent
         /\ \A j \in 1..Len(s) : t[i].at > s[j].frame
         /\ \A j \in 1..Len(t) : i < j => t[i].at < t[j].at
    BY <1>1 DEF Following
<1>4. \A i \in 1..Len(u) :
         /\ u[i].at <= b.pos /\ u[i].at < b.to /\ u[i].at > h.sent
         /\ \A j \in 1..Len(s) : u[i].at > s[j].frame
         /\ \A j \in 1..Len(u) : i < j => u[i].at < u[j].at
  <2> TAKE i \in 1..Len(u)
  <2>1. /\ u[i].at <= b.pos /\ u[i].at < b.to /\ u[i].at > h.sent
        /\ \A j \in 1..Len(s) : u[i].at > s[j].frame
    BY <1>2, <1>3
  <2>2. ASSUME NEW j \in 1..Len(u), i < j PROVE u[i].at < u[j].at
    <3>1. i + 1 \in 1..Len(t) /\ j + 1 \in 1..Len(t) /\ i + 1 < j + 1
      BY <1>2, <2>2
    <3>2. u[i] = t[i + 1] /\ u[j] = t[j + 1]
      BY <1>2
    <3>3. QED
      BY <1>3, <3>1, <3>2
  <2>3. QED
    BY <2>1, <2>2
<1>5. QED
    BY <1>1, <1>4 DEF Following

LEMMA ProcessInTurn ==
    ASSUME BufferedAssumption, TypeInv, Stored, NEW r \in Request, NEW c \in Container,
           InTurn(r),
           Seek(r, c) \/ Clamp(r, c) \/ Query(r, c) \/ Decode(r, c)
    PROVE  InTurn(r)'
<1>1. PICK s \in Seq(Image), h \in HandlerRec, b \in DecoderRec :
         s = decoded[r] /\ h = handler[r] /\ b = decoder[r][c]
    BY Same
<1>2. Following(b, s, h, now) /\ b.pc # "none"
    BY <1>1 DEF InTurn, Seek, Clamp, Query, Decode, At
<1>3. b.pos \in Nat /\ b.to \in Nat /\ h.sent \in Nat /\ h.to \in Nat
    BY RecordNumbers
<1>4. \E d \in DecoderRec : Becomes(r, c, d) /\ Following(d, s, h, now)
  <2>1. CASE Seek(r, c)
    <3>1. b.pc = "seek"
      BY <1>1, <2>1 DEF Seek, At
    <3>2. PICK d \in DecoderRec :
             /\ Becomes(r, c, d)
             /\ \/ d.pc = "none"
                \/ d.pc = "clamp" /\ d.pos <= now /\ d.to = b.to
      BY <1>1, <2>1, Sought
    <3>3. Following(d, s, h, now)
      BY <1>2, <3>1, <3>2 DEF Following
    <3>4. QED
      BY <3>2, <3>3
  <2>2. CASE Clamp(r, c)
    <3>1. b.pc = "clamp"
      BY <1>1, <2>2 DEF Clamp, At
    <3>2. PICK d \in DecoderRec :
             /\ Becomes(r, c, d) /\ d.pc = "xread" /\ d.pos = b.pos /\ d.to <= b.to
      BY <1>1, <2>2, Clamped
    <3>3. d.to \in Nat
      BY RecordNumbers
    <3>4. d.to <= h.to /\ d.pos <= now /\ h.sent <= d.pos /\ Len(s) = 0
      BY <1>2, <1>3, <3>1, <3>2, <3>3 DEF Following
    <3>5. \A i \in 1..Len(s) : s[i].frame <= d.pos
      BY <3>4
    <3>6. Following(d, s, h, now)
      BY <3>2, <3>4, <3>5 DEF Following
    <3>7. QED
      BY <3>2, <3>6
  <2>3. CASE Query(r, c)
    BY <1>1, <2>3, QueriedInTurn
  <2>4. CASE Decode(r, c)
    <3>1. b.pc = "decode"
      BY <1>1, <2>4 DEF Decode, At
    <3>2. PICK d \in DecoderRec :
             /\ Becomes(r, c, d)
             /\ \/ d.pc = "none"
                \/ /\ d.pos = b.pos /\ d.to = b.to
                   /\ \/ d.pc = "xread"
                      \/ d.pc = "push" /\ d.todo = b.todo
                      \/ d.pc = "decode" /\ b.todo # <<>> /\ d.todo = Tail(b.todo)
      BY <1>1, <2>4, Decoding
    <3>3. CASE d.pc = "none"
      BY <3>2, <3>3, FollowingNone
    <3>4. CASE d.pos = b.pos /\ d.to = b.to /\ d.pc = "xread"
      BY <1>2, <3>1, <3>2, <3>4 DEF Following
    <3>5. CASE d.pos = b.pos /\ d.to = b.to /\ d.pc = "push" /\ d.todo = b.todo
      BY <1>2, <3>1, <3>2, <3>5 DEF Following
    <3>6. CASE /\ d.pos = b.pos /\ d.to = b.to
               /\ d.pc = "decode" /\ b.todo # <<>> /\ d.todo = Tail(b.todo)
      BY <1>2, <3>1, <3>2, <3>6, RestFollows
    <3>7. QED
      BY <3>2, <3>3, <3>4, <3>5, <3>6
  <2>5. QED
    BY <2>1, <2>2, <2>3, <2>4
<1>5. QED
    BY <1>1, <1>2, <1>4, InTurnProcess
    DEF Seek, Clamp, Query, Decode

\* The handler reads: the last image is newer than what it has sent, and none
\* of the others is read again.
LEMMA ReadInTurn ==
    ASSUME BufferedAssumption, TypeInv, NEW r \in Request, InTurn(r), XRead(r)
    PROVE  /\ InTurn(r)'
           /\ \/ handler'[r].sent = handler[r].sent
              \/ /\ handler'[r].sent > handler[r].sent /\ handler'[r].sent <= now
                 /\ handler'[r].sent < handler[r].to
           /\ \A q \in Request \ {r} : handler'[q] = handler[q]
<1>1. PICK s \in Seq(Image), n \in Nat, h \in HandlerRec :
         s = decoded[r] /\ n = added[r] /\ h = handler[r]
    BY Same
<1>2. Images(s, n, h, now)
    BY <1>1 DEF InTurn
<1>3. PICK start \in 1..Len(s), e \in 1..Len(s) :
         /\ start <= e /\ s[start].id > h.last
         /\ LET i == s[e] IN
            handler' = [handler EXCEPT ![r].pc = "xdel", ![r].last = i.id,
               ![r].ended = i.frame = Finish,
               ![r].sent = IF i.frame = Finish THEN @ ELSE i.frame]
  <2>1. PICK start \in Unread(r) :
          LET i == decoded[r][ReadTo(decoded[r], start, ReadCount)] IN
            handler' = [handler EXCEPT ![r].pc = "xdel", ![r].last = i.id,
               ![r].ended = i.frame = Finish,
               ![r].sent = IF i.frame = Finish THEN @ ELSE i.frame]
    BY DEF XRead
  <2>2. start \in 1..Len(s) /\ s[start].id > h.last
    BY <1>1 DEF Unread
  <2>3. PICK e : e = ReadTo(s, start, ReadCount)
    OBVIOUS
  <2>4. e \in start..Len(s) /\ e \in 1..Len(s)
    BY <2>2, <2>3, ReadPlace, Numbers
  <2>5. start <= e
    BY <2>2, <2>4
  <2>6. LET i == s[e] IN
        handler' = [handler EXCEPT ![r].pc = "xdel", ![r].last = i.id,
               ![r].ended = i.frame = Finish,
               ![r].sent = IF i.frame = Finish THEN @ ELSE i.frame]
    BY <1>1, <2>1, <2>3
  <2>7. QED
    BY <2>2, <2>4, <2>5, <2>6
<1>4. PICK id \in Nat, frame \in Nat, last \in Nat, sent \in Nat, to \in Nat :
         /\ id = s[e].id /\ frame = s[e].frame /\ last = h.last /\ sent = h.sent /\ to = h.to
    BY ImageNumbers, RecordNumbers
<1>5. id > last /\ id <= n
  <2>1. PICK x \in Nat : x = s[start].id /\ x > last
    BY <1>3, <1>4, ImageNumbers
  <2>2. x <= id
    <3>1. CASE start = e
      BY <1>4, <2>1, <3>1
    <3>2. CASE start < e
      <4>1. s[start].id < s[e].id
        BY <1>2, <1>3, <3>2 DEF Images
      <4>2. QED
        BY <1>4, <2>1, <4>1
    <3>3. QED
      BY <1>3, <3>1, <3>2
  <2>3. id > last
    BY <2>1, <2>2
  <2>4. id <= n
    BY <1>2, <1>4 DEF Images
  <2>5. QED
    BY <2>3, <2>4
<1>6. /\ frame > sent
      /\ frame # Finish => frame < to /\ frame <= now
  <2>1. s[e].id > h.last
    BY <1>4, <1>5
  <2>2. QED
    BY <1>2, <1>4, <2>1 DEF Images
<1>7. PICK k \in Nat : k = IF frame = Finish THEN sent ELSE frame
    OBVIOUS
<1>8. /\ handler'[r].last = id /\ handler'[r].sent = k /\ handler'[r].to = to
      /\ handler'[r].pc = "xdel" /\ \A q \in Request \ {r} : handler'[q] = handler[q]
  <2>1. handler \in [Request -> HandlerRec]
    BY Same
  <2>2. handler' = [handler EXCEPT ![r] = [handler[r] EXCEPT !.pc = "xdel", !.last = id,
                       !.ended = frame = Finish, !.sent = k]]
    BY <1>1, <1>3, <1>4, <1>7
  <2>3. QED
    BY <1>1, <1>4, <2>1, <2>2 DEF HandlerRec
<1>9. k <= now /\ (k = sent \/ (k > sent /\ k < to /\ k = frame)) /\ k <= frame
  <2>1. sent <= now
    BY <1>2, <1>4 DEF Images
  <2>2. CASE frame = Finish
    <3>1. k = sent
      BY <1>7, <2>2
    <3>2. sent <= frame
      BY <1>6
    <3>3. k <= now /\ k <= frame
      BY <2>1, <3>1, <3>2
    <3>4. QED
      BY <3>1, <3>3
  <2>3. CASE frame # Finish
    BY <1>6, <1>7, <2>3
  <2>4. QED
    BY <2>2, <2>3
<1>10. UNCHANGED now /\ UNCHANGED decoded /\ UNCHANGED added /\ UNCHANGED decoder
    BY DEF XRead
<1>11. PICK g : g = handler'[r]
    OBVIOUS
<1>12. Images(s, n, g, now)
  <2>1. g.last <= n /\ g.sent <= now /\ g.to = h.to
    BY <1>4, <1>5, <1>8, <1>9, <1>11
  <2>2. ASSUME NEW i \in 1..Len(s), s[i].id > g.last PROVE s[i].frame > g.sent
    <3>1. PICK x \in Nat, f \in Nat : x = s[i].id /\ f = s[i].frame
      BY ImageNumbers
    <3>2. x > id
      BY <1>8, <1>11, <2>2, <3>1
    <3>3. i = e \/ i < e \/ e < i
      OBVIOUS
    <3>4. CASE i < e
      <4>1. x < id
        BY <1>2, <1>4, <3>1, <3>4 DEF Images
      <4>2. QED
        BY <3>2, <4>1
    <3>5. CASE e < i
      <4>1. frame < f
        BY <1>2, <1>4, <3>1, <3>5 DEF Images
      <4>2. k < f
        BY <1>9, <4>1
      <4>3. QED
        BY <1>8, <1>11, <3>1, <4>2
    <3>6. CASE i = e
      BY <1>4, <3>1, <3>2, <3>6
    <3>7. QED
      BY <3>3, <3>4, <3>5, <3>6
  <2>3. QED
    BY <1>2, <2>1, <2>2 DEF Images
<1>13. ASSUME NEW c \in Container PROVE Following(decoder[r][c], s, g, now)
  <2>1. PICK d \in DecoderRec : d = decoder[r][c]
    BY Same
  <2>2. Following(d, s, h, now)
    BY <1>1, <2>1 DEF InTurn
  <2>3. g.sent = h.sent \/ g.sent = s[e].frame
    BY <1>4, <1>8, <1>9, <1>11
  <2>4. Len(s) # 0 /\ g.to = h.to
    BY <1>4, <1>8, <1>11
  <2>5. Following(d, s, g, now)
    BY <2>2, <2>3, <2>4 DEF Following
  <2>6. QED
    BY <2>1, <2>5
<1>14. InTurn(r)'
    BY <1>1, <1>8, <1>10, <1>11, <1>12, <1>13 DEF InTurn, Starting
<1>15. \/ handler'[r].sent = handler[r].sent
       \/ /\ handler'[r].sent > handler[r].sent /\ handler'[r].sent <= now
          /\ handler'[r].sent < handler[r].to
    BY <1>1, <1>4, <1>8, <1>9
<1>16. QED
    BY <1>8, <1>14, <1>15

\* Some of the entries of a stream, in their order.
Within(u, s) ==
    /\ \A i \in 1..Len(u) : \E a \in 1..Len(s) : u[i] = s[a]
    /\ \A i, j \in 1..Len(u) : i < j =>
         \E a, b \in 1..Len(s) : a < b /\ u[i] = s[a] /\ u[j] = s[b]
    /\ Len(s) = 0 => Len(u) = 0

\* The handler goes on with no more than the images there were.
LEMMA FewerInTurn ==
    ASSUME BufferedAssumption, TypeInv, NEW r \in Request, InTurn(r),
           handler'[r].last = handler[r].last, handler'[r].sent = handler[r].sent,
           handler'[r].to = handler[r].to, handler'[r].pc # "new",
           UNCHANGED now, UNCHANGED decoder, UNCHANGED added,
           Within(decoded'[r], decoded[r])
    PROVE  InTurn(r)'
<1>1. PICK s, u, n, h, g : /\ s = decoded[r] /\ u = decoded'[r]
                           /\ n = added[r] /\ h = handler[r] /\ g = handler'[r]
    OBVIOUS
<1> Within(u, s)
    BY <1>1
<1>2. \A i \in 1..Len(u) : \E a \in 1..Len(s) : u[i] = s[a]
    BY DEF Within
<1>3. \A i, j \in 1..Len(u) : i < j =>
         \E a, b \in 1..Len(s) : a < b /\ u[i] = s[a] /\ u[j] = s[b]
    BY DEF Within
<1>4. g.last = h.last /\ g.sent = h.sent /\ g.to = h.to
    BY <1>1
<1>5. Images(s, n, h, now)
    BY <1>1 DEF InTurn
<1>6. Images(u, n, g, now)
  <2>1. ASSUME NEW i \in 1..Len(u)
        PROVE  /\ u[i].id <= n
               /\ u[i].frame # Finish => u[i].frame < g.to /\ u[i].frame <= now
               /\ u[i].id > g.last => u[i].frame > g.sent
    <3>1. PICK a \in 1..Len(s) : u[i] = s[a]
      BY <1>2
    <3>2. /\ s[a].id <= n
          /\ s[a].frame # Finish => s[a].frame < h.to /\ s[a].frame <= now
          /\ s[a].id > h.last => s[a].frame > h.sent
      BY <1>5 DEF Images
    <3>3. QED
      BY <1>4, <3>1, <3>2
  <2>2. ASSUME NEW i \in 1..Len(u), NEW j \in 1..Len(u), i < j
        PROVE  u[i].id < u[j].id /\ u[i].frame < u[j].frame
    <3>1. PICK a \in 1..Len(s), b \in 1..Len(s) : a < b /\ u[i] = s[a] /\ u[j] = s[b]
      BY <1>3, <2>2
    <3>2. QED
      BY <1>5, <3>1 DEF Images
  <2>3. QED
    BY <1>4, <1>5, <2>1, <2>2 DEF Images
<1>7. ASSUME NEW c \in Container PROVE Following(decoder[r][c], u, g, now)
  <2>1. PICK d : d = decoder[r][c]
    OBVIOUS
  <2>2. Following(d, s, h, now)
    BY <1>1, <2>1 DEF InTurn
  <2>3. Len(s) = 0 => Len(u) = 0
    BY DEF Within
  <2>4. \A x : (\A a \in 1..Len(s) : s[a].frame <= x) => \A i \in 1..Len(u) : u[i].frame <= x
    <3> SUFFICES ASSUME NEW x, \A a \in 1..Len(s) : s[a].frame <= x, NEW i \in 1..Len(u)
                 PROVE  u[i].frame <= x
      OBVIOUS
    <3>1. PICK a \in 1..Len(s) : u[i] = s[a]
      BY <1>2
    <3>2. QED
      BY <3>1
  <2>5. \A x : (\A a \in 1..Len(s) : x > s[a].frame) => \A i \in 1..Len(u) : x > u[i].frame
    <3> SUFFICES ASSUME NEW x, \A a \in 1..Len(s) : x > s[a].frame, NEW i \in 1..Len(u)
                 PROVE  x > u[i].frame
      OBVIOUS
    <3>1. PICK a \in 1..Len(s) : u[i] = s[a]
      BY <1>2
    <3>2. QED
      BY <3>1
  <2>6. Following(d, u, g, now)
    BY <1>4, <2>2, <2>3, <2>4, <2>5 DEF Following
  <2>7. QED
    BY <2>1, <2>6
<1>8. QED
    BY <1>1, <1>6, <1>7 DEF InTurn, Starting

LEMMA EndsInTurn ==
    ASSUME BufferedAssumption, TypeInv, NEW r \in Request, InTurn(r),
           XDel(r) \/ TimeOut(r) \/ Delete(r) \/ Cancelled(r)
    PROVE  /\ InTurn(r)'
           /\ \A q \in Request : handler'[q].sent = handler[q].sent
           /\ \A q \in Request \ {r} : handler'[q] = handler[q] /\ decoded'[q] = decoded[q]
<1>1. handler \in [Request -> HandlerRec] /\ decoded \in [Request -> Seq(Image)]
    BY Same
<1>2. PICK p \in {"read", "delete", "done"} : handler' = [handler EXCEPT ![r].pc = p]
    BY DEF XDel, TimeOut, Delete, Cancelled
<1>3. /\ handler'[r].last = handler[r].last /\ handler'[r].sent = handler[r].sent
      /\ handler'[r].to = handler[r].to /\ handler'[r].pc # "new"
      /\ \A q \in Request \ {r} : handler'[q] = handler[q]
    BY <1>1, <1>2 DEF HandlerRec
<1>4. UNCHANGED now /\ UNCHANGED decoder /\ UNCHANGED added
    BY DEF XDel, TimeOut, Delete, Cancelled
<1>5. PICK s \in Seq(Image) : s = decoded[r] /\ Len(s) \in Nat
    BY <1>1, LenProperties
<1>6. \/ decoded' = decoded \/ decoded' = [decoded EXCEPT ![r] = <<>>]
      \/ \E i \in DOMAIN s : decoded' = [decoded EXCEPT ![r] = RemoveAt(s, i)]
  <2>1. CASE XDel(r)
    <3>1. CASE decoded' = decoded
      BY <3>1
    <3>2. CASE \E i \in DOMAIN decoded[r] :
                 decoded' = [decoded EXCEPT ![r] = RemoveAt(@, i)]
      BY <1>5, <3>2
    <3>3. QED
      BY <2>1, <3>1, <3>2 DEF XDel
  <2>2. QED
    BY <2>1 DEF TimeOut, Delete, Cancelled
<1>7. PICK u : u = decoded'[r]
    OBVIOUS
<1>8. Within(u, s) /\ \A q \in Request \ {r} : decoded'[q] = decoded[q]
  <2>1. CASE decoded' = decoded
    BY <1>5, <1>7, <2>1 DEF Within
  <2>2. CASE decoded' = [decoded EXCEPT ![r] = <<>>]
    <3>1. Len(u) = 0 /\ \A q \in Request \ {r} : decoded'[q] = decoded[q]
      BY <1>1, <1>7, <2>2
    <3>2. QED
      BY <3>1 DEF Within
  <2>3. CASE \E i \in DOMAIN s : decoded' = [decoded EXCEPT ![r] = RemoveAt(s, i)]
    <3>1. PICK i \in 1..Len(s) : decoded' = [decoded EXCEPT ![r] = RemoveAt(s, i)]
      <4>1. DOMAIN s = 1..Len(s)
        OBVIOUS
      <4>2. QED
        BY <2>3, <4>1, Zenon
    <3>2. u = RemoveAt(s, i) /\ \A q \in Request \ {r} : decoded'[q] = decoded[q]
      BY <1>1, <1>7, <3>1
    <3>3. /\ Len(u) = Len(s) - 1
          /\ \A j \in 1..(Len(s) - 1) : /\ u[j] = s[IF j < i THEN j ELSE j + 1]
                                   /\ (IF j < i THEN j ELSE j + 1) \in 1..Len(s)
      BY <1>5, <3>2, WithoutOne
    <3>4. \A j \in 1..Len(u) : \E a \in 1..Len(s) : u[j] = s[a]
      BY <3>3
    <3>5. ASSUME NEW j \in 1..Len(u), NEW k \in 1..Len(u), j < k
          PROVE  \E a, b \in 1..Len(s) : a < b /\ u[j] = s[a] /\ u[k] = s[b]
      <4>1. PICK a, b : /\ a = (IF j < i THEN j ELSE j + 1)
                        /\ b = (IF k < i THEN k ELSE k + 1)
        OBVIOUS
      <4>2. a \in 1..Len(s) /\ b \in 1..Len(s) /\ u[j] = s[a] /\ u[k] = s[b]
        BY <3>3, <4>1
      <4>3. a < b
        BY <3>3, <3>5, <4>1
      <4>4. QED
        BY <4>2, <4>3
    <3>6. Len(s) = 0 => Len(u) = 0
      BY <3>1
    <3>7. QED
      BY <3>2, <3>4, <3>5, <3>6 DEF Within
  <2>4. QED
    BY <1>6, <2>1, <2>2, <2>3
<1>9. InTurn(r)'
    BY <1>3, <1>4, <1>5, <1>7, <1>8, FewerInTurn
<1>10. QED
    BY <1>3, <1>8, <1>9

\* A query is published: the processes start from nothing.
LEMMA PublishInTurn ==
    ASSUME BufferedAssumption, TypeInv, NEW r \in Request, InTurn(r), Publish(r)
    PROVE  /\ InTurn(r)'
           /\ \A q \in Request : handler'[q].sent = handler[q].sent
           /\ \A q \in Request \ {r} : handler'[q] = handler[q] /\ decoder'[q] = decoder[q]
<1>1. PICK from \in Time, to \in Time \cup {Forever}, heard \in SUBSET Container :
         /\ handler' = [handler EXCEPT ![r].pc = "read", ![r].from = from, ![r].to = to]
         /\ decoder' = [decoder EXCEPT ![r] = [c \in Container |->
                IF c \in heard THEN [NoDecoder EXCEPT !.pc = "seek", !.to = to]
                               ELSE NoDecoder]]
    BY DEF Publish
<1>2. handler \in [Request -> HandlerRec] /\ decoder \in [Request -> [Container -> DecoderRec]]
    BY Same
<1>3. /\ handler'[r].last = handler[r].last /\ handler'[r].sent = handler[r].sent
      /\ handler'[r].to = to /\ handler'[r].pc = "read"
      /\ \A q \in Request \ {r} : handler'[q] = handler[q]
    BY <1>1, <1>2 DEF HandlerRec
<1>4. UNCHANGED now /\ UNCHANGED decoded /\ UNCHANGED added /\ handler[r].pc = "new"
    BY DEF Publish
<1>5. Len(decoded[r]) = 0 /\ handler[r].sent = 0
    BY <1>4 DEF InTurn, Starting
<1>6. Images(decoded[r], added[r], handler'[r], now)
  <2>1. \A i \in 1..Len(decoded[r]) : FALSE
    BY <1>5
  <2>2. handler[r].last <= added[r] /\ handler[r].sent <= now
    BY DEF InTurn, Images
  <2>3. QED
    BY <1>3, <2>1, <2>2 DEF Images
<1>7. ASSUME NEW c \in Container
      PROVE  Following(decoder'[r][c], decoded[r], handler'[r], now)
  <2>1. CASE decoder'[r][c] = NoDecoder
    BY <2>1, FreshTypes, FollowingNone
  <2>2. CASE decoder'[r][c] = [NoDecoder EXCEPT !.pc = "seek", !.to = to]
    <3>1. PICK d : d = decoder'[r][c]
      OBVIOUS
    <3>2. d.pc = "seek" /\ d.to = to /\ d.pos = 0
      BY <2>2, <3>1 DEF NoDecoder
    <3>3. 0 <= now /\ to <= to
      <4>1. now \in Nat /\ to \in Nat
        BY Types, Numbers DEF TypeInv
      <4>2. QED
        BY <4>1
    <3>4. Following(d, decoded[r], handler'[r], now)
      BY <1>3, <1>5, <3>2, <3>3 DEF Following
    <3>5. QED
      BY <3>1, <3>4
  <2>3. QED
    BY <1>1, <1>2, <2>1, <2>2
<1>8. InTurn(r)'
    BY <1>3, <1>4, <1>6, <1>7 DEF InTurn, Starting
<1>9. QED
    BY <1>1, <1>2, <1>3, <1>8

\* A stream with frames of another one and a new frame.
Extends(u, s, f) ==
    \A i \in 1..Len(u) : u[i].frame = f \/ \E j \in 1..Len(s) : u[i] = s[j]

\* The only process of a request adds an image that is newer than all others.
LEMMA AddedInTurn ==
    ASSUME BufferedAssumption, TypeInv, NEW r \in Request, NEW c \in Container,
           NEW d \in DecoderRec, NEW f \in Time \cup {Finish},
           InTurn(r), decoder[r][c].pc # "none",
           \A e \in Container \ {c} : decoder[r][e].pc = "none",
           XAdd(r, f), Becomes(r, c, d),
           UNCHANGED now, UNCHANGED handler,
           f # Finish => f < handler[r].to /\ f <= now,
           f > handler[r].sent,
           \A i \in 1..Len(decoded[r]) : f > decoded[r][i].frame,
           \A u \in Seq(Image) :
              Extends(u, decoded[r], f) => Following(d, u, handler[r], now)
    PROVE  InTurn(r)'
<1>1. PICK s \in Seq(Image), n \in Nat, h \in HandlerRec, m \in Nat :
         s = decoded[r] /\ n = added[r] /\ h = handler[r] /\ m = Len(s)
    BY Same, LenProperties
<1>2. Images(s, n, h, now) /\ h.pc # "new" /\ h.last \in Nat
    BY <1>1, RecordNumbers DEF InTurn, Starting
<1>3. PICK u \in Seq(Image), x \in {[id |-> n + 1, frame |-> f]} :
         u = decoded'[r] /\ x = [id |-> n + 1, frame |-> f]
    BY ImageAdded
<1>4. PICK k \in 0..(m + 1) :
         /\ Len(u) = m + 1 - k
         /\ \A i \in 1..Len(u) : /\ i + k \in 1..(m + 1)
                                 /\ u[i] = IF i + k <= m THEN s[i + k] ELSE x
  <2>1. \E k \in 0..(Len(decoded[r]) + 1) :
           /\ Len(decoded'[r]) = Len(decoded[r]) + 1 - k
           /\ \A i \in 1..Len(decoded'[r]) :
                /\ i + k \in 1..(Len(decoded[r]) + 1)
                /\ decoded'[r][i] = IF i + k <= Len(decoded[r]) THEN decoded[r][i + k]
                                    ELSE [id |-> added[r] + 1, frame |-> f]
    BY ImageAdded
  <2>2. QED
    BY <1>1, <1>3, <2>1, Zenon
<1>5. added'[r] = n + 1
  <2>1. added' = [added EXCEPT ![r] = added[r] + 1] /\ added \in [Request -> Nat]
    BY ImageAdded, Same
  <2>2. QED
    BY <1>1, <2>1
<1>6. x.id = n + 1 /\ x.frame = f
    BY <1>3
<1>7. \A i \in 1..m : s[i].id \in Nat /\ s[i].id <= n /\ f > s[i].frame
    BY <1>1, <1>2, ImageNumbers DEF Images
<1>8. ASSUME NEW i \in 1..Len(u)
      PROVE  /\ u[i].id <= n + 1
             /\ u[i].frame # Finish => u[i].frame < h.to /\ u[i].frame <= now
             /\ u[i].id > h.last => u[i].frame > h.sent
  <2>1. CASE i + k <= m
    <3>1. i + k \in 1..m /\ u[i] = s[i + k]
      BY <1>4, <2>1
    <3>2. u[i].id \in Nat /\ u[i].id <= n
      BY <1>7, <3>1
    <3>3. u[i].id <= n + 1
      BY <3>2
    <3>4. QED
      BY <1>1, <1>2, <3>1, <3>3 DEF Images
  <2>2. CASE ~(i + k <= m)
    <3>1. u[i] = x
      BY <1>4, <2>2
    <3>2. QED
      BY <1>1, <1>6, <3>1
  <2>3. QED
    BY <2>1, <2>2
<1>9. ASSUME NEW i \in 1..Len(u), NEW j \in 1..Len(u), i < j
      PROVE  u[i].id < u[j].id /\ u[i].frame < u[j].frame
  <2>1. i + k \in 1..m /\ u[i] = s[i + k] /\ i + k < j + k
    BY <1>4, <1>9
  <2>2. CASE j + k <= m
    <3>1. j + k \in 1..m /\ u[j] = s[j + k]
      BY <1>4, <2>2
    <3>2. QED
      BY <1>1, <1>2, <2>1, <3>1 DEF Images
  <2>3. CASE ~(j + k <= m)
    <3>1. u[j] = x
      BY <1>4, <2>3
    <3>2. PICK y \in Nat : y = u[i].id /\ y <= n /\ f > u[i].frame
      BY <1>7, <2>1
    <3>3. y < n + 1
      BY <3>2
    <3>4. f \in Nat /\ u[i].frame \in Nat
      BY ImageNumbers, Numbers
    <3>5. u[i].frame < f
      BY <3>2, <3>4
    <3>6. QED
      BY <1>6, <3>1, <3>2, <3>3, <3>5
  <2>4. QED
    BY <2>2, <2>3
<1>10. Images(u, n + 1, h, now)
  <2>1. h.last <= n + 1 /\ h.sent <= now
    <3>1. h.last <= n /\ h.sent <= now
      BY <1>2 DEF Images
    <3>2. QED
      BY <1>2, <3>1
  <2>2. QED
    BY <1>8, <1>9, <2>1 DEF Images
<1>11. Following(d, u, h, now)
  <2>1. ASSUME NEW i \in 1..Len(u)
        PROVE  u[i].frame = f \/ \E j \in 1..m : u[i] = s[j]
    <3>1. CASE i + k <= m
      <4>1. i + k \in 1..m /\ u[i] = s[i + k]
        BY <1>4, <3>1
      <4>2. QED
        BY <4>1
    <3>2. CASE ~(i + k <= m)
      BY <1>4, <1>6, <3>2
    <3>3. QED
      BY <3>1, <3>2
  <2>2. Extends(u, s, f)
    BY <1>1, <2>1 DEF Extends
  <2>3. QED
    BY <1>1, <2>2
<1>12. ASSUME NEW e \in Container PROVE Following(decoder'[r][e], u, h, now)
  <2>1. decoder'[r][e] = IF e = c THEN d ELSE decoder[r][e]
    BY Same DEF Becomes
  <2>2. CASE e = c
    BY <1>11, <2>1, <2>2
  <2>3. CASE e # c
    BY <2>1, <2>3, FollowingNone
  <2>4. QED
    BY <2>2, <2>3
<1>13. QED
    BY <1>1, <1>2, <1>3, <1>5, <1>10, <1>12 DEF InTurn, Starting

LEMMA OthersAdded ==
    ASSUME BufferedAssumption, TypeInv, NEW r \in Request,
           NEW f \in Time \cup {Finish}, XAdd(r, f)
    PROVE  \A q \in Request \ {r} : decoded'[q] = decoded[q] /\ added'[q] = added[q]
<1>1. PICK u : decoded' = [decoded EXCEPT ![r] = u]
    BY DEF XAdd
<1>2. added' = [added EXCEPT ![r] = added[r] + 1]
    BY ImageAdded
<1>3. QED
    BY <1>1, <1>2, Same

LEMMA PushInTurn ==
    ASSUME BufferedAssumption, TypeInv, OneProcess, NEW r \in Request,
           NEW c \in Container, InTurn(r), Push(r, c) \/ PushFinish(r, c)
    PROVE  InTurn(r)' /\ \A q \in Request \ {r} : decoded'[q] = decoded[q] /\ added'[q] = added[q]
<1>1. PICK s \in Seq(Image), h \in HandlerRec, b \in DecoderRec :
         s = decoded[r] /\ h = handler[r] /\ b = decoder[r][c]
    BY Same
<1>2. Following(b, s, h, now) /\ b.pc \in {"push", "finish"}
    BY <1>1 DEF InTurn, Push, PushFinish, At
<1>3. PICK pos \in Nat, sent \in Nat, to \in Nat, end \in Nat :
         pos = b.pos /\ sent = h.sent /\ to = h.to /\ end = b.to /\ pos <= MaxTime
    BY RecordNumbers
<1>4. /\ sent <= pos /\ pos <= now /\ end <= to
      /\ \A i \in 1..Len(s) : s[i].frame <= pos
    BY <1>2, <1>3 DEF Following
<1>5. \A e \in Container \ {c} : decoder[r][e].pc = "none"
    BY <1>1, <1>2 DEF OneProcess
<1>6. CASE Push(r, c)
  <2>1. PICK d \in DecoderRec, f \in Time :
             /\ b.todo # <<>> /\ f = Head(b.todo).at
             /\ XAdd(r, f) /\ Becomes(r, c, d)
             /\ d.pc = "decode" /\ d.pos = b.pos /\ d.to = b.to
             /\ d.todo = Tail(b.todo)
    BY <1>1, <1>6, Pushed
  <2>2. b.pc = "push"
    BY <1>1, <1>6 DEF Push, At
  <2>3. PICK t \in Seq(Packet), u \in {Tail(b.todo)} :
           t = b.todo /\ u = Tail(t) /\ t # <<>>
    BY <2>1, RecordNumbers
  <2>4. /\ Head(t) = t[1] /\ 1 \in 1..Len(t) /\ Len(t) \in Nat
        /\ \A i \in 1..Len(u) : u[i] = t[i + 1] /\ i + 1 \in 1..Len(t)
    BY <2>3, Rest, LenProperties
  <2>5. \A i \in 1..Len(t) :
         /\ t[i].at <= b.pos /\ t[i].at < b.to /\ t[i].at > h.sent
         /\ \A j \in 1..Len(s) : t[i].at > s[j].frame
         /\ \A j \in 1..Len(t) : i < j => t[i].at < t[j].at
    BY <1>2, <2>2, <2>3 DEF Following
  <2>6. f = t[1].at /\ f \in Nat /\ f <= MaxTime
    BY <2>1, <2>3, <2>4, Numbers
  <2>7. f <= pos /\ f < end /\ f > sent /\ \A j \in 1..Len(s) : f > s[j].frame
    BY <1>3, <2>4, <2>5, <2>6
  <2>8. f < to /\ f <= now
    <3>1. now \in Nat
      BY Types, Numbers DEF TypeInv
    <3>2. QED
      BY <1>4, <2>6, <2>7, <3>1
  <2>9. ASSUME NEW v \in Seq(Image), Extends(v, s, f)
        PROVE  Following(d, v, h, now)
    <3>1. \A i \in 1..Len(v) : v[i].frame <= b.pos
      BY <1>3, <1>4, <2>7, <2>9 DEF Extends
    <3>2. ASSUME NEW i \in 1..Len(u)
          PROVE  /\ u[i].at <= b.pos /\ u[i].at < b.to /\ u[i].at > h.sent
                 /\ \A j \in 1..Len(v) : u[i].at > v[j].frame
                 /\ \A j \in 1..Len(u) : i < j => u[i].at < u[j].at
      <4>1. u[i] = t[i + 1] /\ i + 1 \in 1..Len(t) /\ 1 < i + 1
        BY <2>4
      <4>2. u[i].at <= b.pos /\ u[i].at < b.to /\ u[i].at > h.sent
        BY <2>5, <4>1
      <4>3. PICK p \in Nat : p = u[i].at
        BY <2>3, <4>1, PacketNumbers
      <4>4. f < p /\ \A j \in 1..Len(s) : p > s[j].frame
        BY <2>4, <2>5, <2>6, <4>1, <4>3
      <4>5. \A j \in 1..Len(v) : p > v[j].frame
        <5> TAKE j \in 1..Len(v)
        <5>1. CASE v[j].frame = f
          BY <2>6, <4>4, <5>1
        <5>2. CASE \E k \in 1..Len(s) : v[j] = s[k]
          BY <4>4, <5>2
        <5>3. QED
          BY <2>9, <5>1, <5>2 DEF Extends
      <4>6. ASSUME NEW j \in 1..Len(u), i < j PROVE u[i].at < u[j].at
        <5>1. u[j] = t[j + 1] /\ j + 1 \in 1..Len(t) /\ i + 1 < j + 1
          <6>1. i + 1 < j + 1
            BY <4>6
          <6>2. u[j] = t[j + 1] /\ j + 1 \in 1..Len(t)
            BY <2>4
          <6>3. QED
            BY <6>1, <6>2
        <5>2. QED
          BY <2>5, <4>1, <5>1
      <4>7. QED
        BY <4>2, <4>3, <4>5, <4>6
    <3>3. d.to <= h.to /\ d.pos <= now /\ h.sent <= d.pos
      BY <1>3, <1>4, <2>1
    <3>4. \A i \in 1..Len(v) : v[i].frame <= d.pos
      BY <2>1, <3>1
    <3>5. \A i \in 1..Len(d.todo) :
            /\ d.todo[i].at <= d.pos /\ d.todo[i].at < d.to /\ d.todo[i].at > h.sent
            /\ \A j \in 1..Len(v) : d.todo[i].at > v[j].frame
            /\ \A j \in 1..Len(d.todo) : i < j => d.todo[i].at < d.todo[j].at
      <4>1. d.todo = u /\ d.pos = b.pos /\ d.to = b.to
        BY <2>1, <2>3
      <4>2. QED
        BY <3>2, <4>1
    <3>6. QED
      BY <2>1, <3>3, <3>4, <3>5 DEF Following
  <2>10. UNCHANGED now /\ UNCHANGED handler
    BY <1>6 DEF Push
  <2>11. f \in Time \cup {Finish} /\ b.pc # "none"
    BY <2>2
  <2>12. f # Finish => f < h.to /\ f <= now
    BY <1>3, <2>8
  <2>13. f > h.sent /\ \A i \in 1..Len(s) : f > s[i].frame
    BY <1>3, <2>7
  <2>14. InTurn(r)'
    BY <1>1, <1>5, <2>1, <2>9, <2>10, <2>11, <2>12, <2>13, AddedInTurn
  <2>15. QED
    BY <2>1, <2>11, <2>14, OthersAdded
<1>7. CASE PushFinish(r, c)
  <2>1. PICK d \in DecoderRec, f \in Time \cup {Finish} :
             /\ d = NoDecoder /\ f = Finish /\ f = MaxTime + 1
             /\ d.pc = "none" /\ f \in Nat
    BY FreshTypes, Numbers
  <2>2. XAdd(r, f) /\ Becomes(r, c, d)
    BY <1>7, <2>1 DEF PushFinish
  <2>3. f > sent /\ f > pos
    BY <1>3, <1>4, <2>1, Numbers
  <2>4. \A i \in 1..Len(s) : f > s[i].frame
    <3> TAKE i \in 1..Len(s)
    <3>1. PICK g \in Nat : g = s[i].frame /\ g <= pos
      BY <1>4, ImageNumbers
    <3>2. f > g
      BY <2>1, <2>3, <3>1
    <3>3. QED
      BY <3>1, <3>2
  <2>5. UNCHANGED now /\ UNCHANGED handler
    BY <1>7 DEF PushFinish
  <2>6. \A v \in Seq(Image) : Following(d, v, h, now)
    BY <2>1, FollowingNone
  <2>7. f > h.sent
    BY <1>3, <2>3
  <2>8. decoder[r][c].pc # "none"
    BY <1>1, <1>2
  <2>9. InTurn(r)'
    BY <1>1, <1>5, <2>1, <2>2, <2>4, <2>5, <2>6, <2>7, <2>8, AddedInTurn
  <2>10. QED
    BY <2>2, <2>9, OthersAdded
<1>8. QED
    BY <1>6, <1>7

LEMMA StoredKept ==
    ASSUME BufferedAssumption, TypeInv, Stored, [Next]_vars
    PROVE  Stored' /\ now' \in Nat /\ now \in Nat /\ now <= now'
<1>1. queue \in Seq(Packet) /\ now \in Nat /\ now \in Time /\ listed \in BOOLEAN
    BY Types, Numbers DEF TypeInv
<1>2. now' \in Nat /\ now <= now'
  <2>1. now' = now \/ now' = now + 1
    BY DEF Next, Tick, ListKeyframe, StorePacket, Restart,
           Publish, Handle, XRead, XDel, TimeOut, Delete,
           Cancelled, Run, Seek, Clamp, Query, Decode,
           Push, PushFinish, vars
  <2>2. QED
    BY <1>1, <2>1
<1>3. \A i \in 1..Len(queue) : queue[i].at \in Nat
    BY <1>1, PacketNumbers
<1>4. CASE queue' = queue
  <2>1. ASSUME NEW i \in 1..Len(queue) PROVE queue[i].at <= now'
    <3>1. PICK x \in Nat : x = queue[i].at /\ x <= now
      BY <1>3 DEF Stored
    <3>2. x <= now'
      BY <1>1, <1>2, <3>1
    <3>3. QED
      BY <3>1, <3>2
  <2>2. QED
    BY <1>1, <1>2, <1>4, <2>1 DEF Stored
<1>5. CASE queue' = <<>>
  <2>1. Len(queue') = 0
    BY <1>5
  <2>2. QED
    BY <1>1, <1>2, <2>1 DEF Stored
<1>6. CASE StorePacket
  <2>1. PICK n \in Nat, p \in Packet, t \in Seq(Packet) :
           /\ n = Len(queue) /\ p = [at |-> now, key |-> listed] /\ t = Append(queue, p)
           /\ queue' \in Trimmed(t, BufferLen)
    <3>1. PICK p \in Packet : p = [at |-> now, key |-> listed]
      BY <1>1 DEF Packet
    <3>2. PICK t \in Seq(Packet) : t = Append(queue, p)
      BY <1>1, AppendProperties
    <3>3. queue' \in Trimmed(t, BufferLen)
      BY <1>6, <3>1, <3>2 DEF StorePacket
    <3>4. Len(queue) \in Nat
      BY <1>1, LenProperties
    <3>5. QED
      BY <3>1, <3>2, <3>3, <3>4
  <2>2. Len(t) = n + 1 /\ \A i \in 1..(n + 1) : t[i] = IF i <= n THEN queue[i] ELSE p
    BY <1>1, <2>1, AppendProperties
  <2>3. now' = now /\ (n > 0 => queue[n].at < now)
    <3>1. CASE queue = <<>>
      BY <1>6, <2>1, <3>1 DEF StorePacket
    <3>2. CASE queue # <<>>
      BY <1>6, <2>1, <3>2 DEF StorePacket, Last
    <3>3. QED
      BY <3>1, <3>2
  <2>4. ASSUME NEW i \in 1..(n + 1)
        PROVE  /\ t[i].at <= now
               /\ \A j \in 1..(n + 1) : i < j => t[i].at < t[j].at
    <3>1. CASE i <= n
      <4>1. t[i] = queue[i] /\ i \in 1..n /\ n > 0 /\ n \in 1..n
        BY <2>1, <2>2, <3>1
      <4>2. PICK x \in Nat, y \in Nat : x = queue[i].at /\ y = queue[n].at
        BY <1>3, <2>1, <4>1
      <4>3. x <= y /\ y < now
        <5>1. i = n \/ i < n
          BY <4>1
        <5>2. i < n => x < y
          BY <2>1, <4>1, <4>2 DEF Stored
        <5>3. i = n => x = y
          BY <4>2
        <5>4. QED
          BY <2>3, <4>1, <4>2, <5>1, <5>2, <5>3
      <4>4. x < now
        BY <1>1, <4>3
      <4>5. ASSUME NEW j \in 1..(n + 1), i < j PROVE t[i].at < t[j].at
        <5>1. CASE j <= n
          <6>1. t[j] = queue[j] /\ j \in 1..n
            BY <2>2, <5>1
          <6>2. QED
            BY <2>1, <4>1, <4>5, <6>1 DEF Stored
        <5>2. CASE ~(j <= n)
          <6>1. t[j] = p /\ p.at = now
            BY <2>1, <2>2, <5>2
          <6>2. QED
            BY <4>1, <4>2, <4>4, <6>1
        <5>3. QED
          BY <5>1, <5>2
      <4>6. t[i].at <= now
        BY <1>1, <4>1, <4>2, <4>4
      <4>7. QED
        BY <4>5, <4>6
    <3>2. CASE ~(i <= n)
      <4>1. t[i] = p /\ i = n + 1 /\ p.at = now
        BY <2>1, <2>2, <3>2
      <4>2. \A j \in 1..(n + 1) : ~(i < j)
        BY <4>1
      <4>3. now <= now
        BY <1>1
      <4>4. QED
        BY <4>1, <4>2, <4>3
    <3>3. QED
      BY <3>1, <3>2
  <2>10. PICK u \in Trimmed(t, BufferLen) : u = queue'
    BY <2>1
  <2>5. PICK k \in 0..(n + 1) :
           /\ u = queue' /\ Len(u) = n + 1 - k
           /\ \A i \in 1..Len(u) : u[i] = t[i + k] /\ i + k \in 1..(n + 1)
    <3>1. \E k \in 0..Len(t) : /\ Len(u) = Len(t) - k
                               /\ \A i \in 1..Len(u) : u[i] = t[i + k] /\ i + k \in 1..Len(t)
      BY TrimmedStream, Numbers
    <3>2. QED
      BY <2>2, <2>10, <3>1
  <2>6. ASSUME NEW i \in 1..Len(u), NEW j \in 1..Len(u), i < j PROVE u[i].at < u[j].at
    <3>1. i + k < j + k
      BY <2>5, <2>6
    <3>2. QED
      BY <2>4, <2>5, <3>1
  <2>7. \A i \in 1..Len(u) : u[i].at <= now'
    BY <2>3, <2>4, <2>5
  <2>8. Stored'
    BY <2>5, <2>6, <2>7 DEF Stored
  <2>9. QED
    BY <1>1, <1>2, <2>8
<1>7. queue' = queue \/ queue' = <<>> \/ StorePacket
    BY DEF Next, Tick, ListKeyframe, Restart,
           Publish, Handle, XRead, XDel, TimeOut, Delete,
           Cancelled, Run, Seek, Clamp, Query, Decode,
           Push, PushFinish, vars, camera
<1>8. QED
    BY <1>4, <1>5, <1>6, <1>7

LEMMA OrderInit == BufferedAssumption /\ Init => OrderInv
<1> SUFFICES ASSUME BufferedAssumption, Init PROVE OrderInv
    OBVIOUS
<1>1. TypeInv /\ now = 1
    BY InitInv DEF Init
<1>2. Stored
  <2>1. Len(queue) = 0
    BY DEF Init
  <2>2. QED
    BY <2>1 DEF Stored
<1>3. ASSUME NEW r \in Request PROVE InTurn(r)
  <2>1. /\ Len(decoded[r]) = 0 /\ added[r] = 0 /\ handler[r] = NewHandler
        /\ \A c \in Container : decoder[r][c] = NoDecoder
    BY DEF Init
  <2>2. handler[r].last = 0 /\ handler[r].sent = 0
    BY <2>1 DEF NewHandler
  <2>3. Images(decoded[r], added[r], handler[r], now)
    BY <1>1, <2>1, <2>2 DEF Images
  <2>4. \A c \in Container : decoder[r][c].pc = "none"
    BY <2>1, FreshTypes
  <2>5. QED
    BY <2>1, <2>2, <2>3, <2>4, FollowingNone DEF InTurn, Starting
<1>4. QED
    BY <1>1, <1>2, <1>3 DEF OrderInv

\* A step of anybody: every request stays in turn, and at most one client is
\* sent an image, a newer one.
SentOne(r) ==
    /\ \A q \in Request \ {r} : handler'[q].sent = handler[q].sent
    /\ \/ handler'[r].sent = handler[r].sent
       \/ /\ handler'[r].sent > handler[r].sent /\ handler'[r].sent <= now
          /\ handler'[r].sent < handler[r].to

LEMMA OrderStep ==
    ASSUME BufferedAssumption, OrderInv, OneProcess, [Next]_vars
    PROVE  OrderInv'
<1>1. TypeInv /\ TypeInv' /\ Stored /\ Stored' /\ now <= now' /\ \A r \in Request : InTurn(r)
    BY NextInv, StoredKept DEF OrderInv
<1>2. \A r \in Request : InTurn(r)'
  <2>1. CASE UNCHANGED vars \/ Tick \/ ListKeyframe \/ StorePacket
    <3>1. UNCHANGED handler /\ UNCHANGED decoder /\ UNCHANGED decoded /\ UNCHANGED added
      BY <2>1 DEF vars, Tick, ListKeyframe, StorePacket
    <3>2. QED
      BY <1>1, <3>1, InTurnSame
  <2>2. ASSUME NEW e \in Container, Restart(e) PROVE \A r \in Request : InTurn(r)'
    <3>1. /\ UNCHANGED handler /\ UNCHANGED decoded /\ UNCHANGED added
          /\ decoder' = [r \in Request |-> [decoder[r] EXCEPT ![e] = NoDecoder]]
      BY <2>2 DEF Restart
    <3>2. \A r \in Request, c \in Container :
             decoder'[r][c] = decoder[r][c] \/ decoder'[r][c].pc = "none"
      BY <1>1, <3>1, Same, FreshTypes
    <3>3. QED
      BY <1>1, <3>1, <3>2, InTurnSame
  <2>3. ASSUME NEW r \in Request, InTurn(r)',
               \A q \in Request \ {r} :
                  /\ handler'[q] = handler[q] /\ decoded'[q] = decoded[q]
                  /\ added'[q] = added[q] /\ decoder'[q] = decoder[q]
        PROVE  \A q \in Request : InTurn(q)'
    BY <1>1, <2>3, InTurnSame
  <2>4. ASSUME NEW r \in Request, Publish(r) PROVE \A q \in Request : InTurn(q)'
    <3>1. UNCHANGED decoded /\ UNCHANGED added
      BY <2>4 DEF Publish
    <3>2. QED
      BY <1>1, <2>3, <2>4, <3>1, PublishInTurn
  <2>5. ASSUME NEW r \in Request, XRead(r) PROVE \A q \in Request : InTurn(q)'
    <3>1. UNCHANGED decoded /\ UNCHANGED added /\ UNCHANGED decoder
      BY <2>5 DEF XRead
    <3>2. QED
      BY <1>1, <2>3, <2>5, <3>1, ReadInTurn
  <2>6. ASSUME NEW r \in Request,
               XDel(r) \/ TimeOut(r) \/ Delete(r) \/ Cancelled(r)
        PROVE  \A q \in Request : InTurn(q)'
    <3>1. UNCHANGED added /\ UNCHANGED decoder
      BY <2>6 DEF XDel, TimeOut, Delete, Cancelled
    <3>2. QED
      BY <1>1, <2>3, <2>6, <3>1, EndsInTurn
  <2>7. ASSUME NEW r \in Request, NEW c \in Container, Run(r, c)
        PROVE  \A q \in Request : InTurn(q)'
    <3>1. /\ UNCHANGED handler
          /\ \A q \in Request \ {r} : decoder'[q] = decoder[q]
      <4>1. UNCHANGED handler /\ \E d : Becomes(r, c, d)
        BY <2>7 DEF Run, Seek, Clamp, Query, Decode, Push,
                    PushFinish
      <4>2. QED
        BY <1>1, <4>1, Same DEF Becomes
    <3>2. CASE Push(r, c) \/ PushFinish(r, c)
      BY <1>1, <2>3, <3>1, <3>2, PushInTurn
    <3>3. CASE Seek(r, c) \/ Clamp(r, c) \/ Query(r, c) \/ Decode(r, c)
      <4>1. UNCHANGED decoded /\ UNCHANGED added
        BY <3>3 DEF Seek, Clamp, Query, Decode
      <4>2. QED
        BY <1>1, <2>3, <3>1, <3>3, <4>1, ProcessInTurn
    <3>4. QED
      BY <2>7, <3>2, <3>3 DEF Run
  <2>8. QED
    BY <2>1, <2>2, <2>4, <2>5, <2>6, <2>7 DEF Next, Handle
<1>3. QED
    BY <1>1, <1>2 DEF OrderInv

LEMMA Sends ==
    ASSUME BufferedAssumption, OrderInv, [Next]_vars
    PROVE  \/ now' = now + 1 /\ UNCHANGED handler
           \/ now' = now /\ \A r \in Request : handler'[r].sent = handler[r].sent
           \/ now' = now /\ \E r \in Request : SentOne(r)
<1>1. TypeInv /\ \A r \in Request : InTurn(r)
    BY DEF OrderInv
<1>2. CASE UNCHANGED vars
    BY <1>2 DEF vars
<1>3. CASE Tick
    BY <1>3 DEF Tick
<1>4. CASE ListKeyframe \/ StorePacket \/ \E c \in Container : Restart(c)
    BY <1>4 DEF ListKeyframe, StorePacket, Restart
<1>5. ASSUME NEW r \in Request, NEW c \in Container, Run(r, c)
      PROVE  UNCHANGED now /\ UNCHANGED handler
    BY <1>5 DEF Run, Seek, Clamp, Query, Decode, Push,
                PushFinish
<1>6. ASSUME NEW r \in Request, Publish(r)
      PROVE  now' = now /\ \A q \in Request : handler'[q].sent = handler[q].sent
    BY <1>1, <1>6, PublishInTurn DEF Publish
<1>7. ASSUME NEW r \in Request, XRead(r) PROVE now' = now /\ SentOne(r)
    BY <1>1, <1>7, ReadInTurn DEF XRead, SentOne
<1>8. ASSUME NEW r \in Request,
             XDel(r) \/ TimeOut(r) \/ Delete(r) \/ Cancelled(r)
      PROVE  now' = now /\ \A q \in Request : handler'[q].sent = handler[q].sent
    BY <1>1, <1>8, EndsInTurn DEF XDel, TimeOut, Delete, Cancelled
<1>9. QED
    BY <1>2, <1>3, <1>4, <1>5, <1>6, <1>7, <1>8 DEF Next, Handle

\* SentInOrder of BufferedVideo: if one container at most decodes for a query,
\* its client is sent images in the order of the packets, none twice, and none
\* from the end of the query on.
THEOREM OrderIsKept == Spec /\ []OneProcess => SentInOrder
<1>1. Init => OrderInv
    BY OrderInit, BufferedAssumption
<1>2. OrderInv /\ OneProcess /\ [Next]_vars => OrderInv'
    BY OrderStep, BufferedAssumption
<1>3. OrderInv /\ [Next]_vars =>
       [\A r \in Request : handler'[r].sent # handler[r].sent =>
          /\ handler'[r].sent > handler[r].sent
          /\ handler'[r].sent < handler[r].to]_vars
    BY Sends, BufferedAssumption DEF SentOne
<1>4. QED
    BY <1>1, <1>2, <1>3, PTL DEF Spec, SentInOrder

\* So when no other container listens to the queries, the order is kept.
COROLLARY OneContainer == Container = {Device} => (Spec => SentInOrder)
<1> SUFFICES ASSUME Container = {Device} PROVE Spec => SentInOrder
    OBVIOUS
<1>1. OneProcess
    BY DEF OneProcess
<1>2. QED
    BY <1>1, OrderIsKept, PTL
=============================================================================
