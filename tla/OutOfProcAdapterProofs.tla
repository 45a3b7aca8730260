----------------------- MODULE OutOfProcAdapterProofs -----------------------
(* Theorems about OutOfProcAdapter for every number of pipelines that are   *)
(* closed, every size of packets and of reads, and queues of any length.    *)
EXTENDS OutOfProcAdapter, SequenceTheorems, TLAPS

USE DEF vars, server, buffers, closing, history

-----------------------------------------------------------------------------
(* The operators.                                                           *)

\* Nothing carries no bytes.
LEMMA StreamOfNothing ==
    ASSUME NEW a \in 0 .. MaxBytes PROVE Stream(<<>>, a, a)
<1> DEFINE at == [i \in 0 .. 0 |-> a]
<1>1. at \in [0 .. 0 -> 0 .. MaxBytes] /\ at[0] = a
  OBVIOUS
<1>2. Len(<<>>) = 0
  OBVIOUS
<1> HIDE DEF at
<1> QED BY <1>1, <1>2 DEF Stream

\* A message after a stream prolongs it.
LEMMA StreamAppend ==
    ASSUME NEW S, NEW s \in Seq(S), NEW m \in S,
           NEW a, NEW b, NEW c \in 0 .. MaxBytes, Stream(s, a, b), Carries(m, b, c)
    PROVE  Stream(Append(s, m), a, c)
<1> DEFINE n == Len(s)
           t == Append(s, m)
<1>1. /\ n \in Nat /\ Len(t) = n + 1 /\ t[n + 1] = m
      /\ \A i \in 1 .. n : t[i] = s[i]
  BY AppendProperties
<1>2. PICK at \in [0 .. n -> 0 .. MaxBytes] :
        /\ at[0] = a /\ at[n] = b /\ \A i \in 1 .. n : Carries(s[i], at[i - 1], at[i])
  BY DEF Stream
<1> HIDE DEF n, t
<1> DEFINE at2 == [i \in 0 .. n + 1 |-> IF i = n + 1 THEN c ELSE at[i]]
<1>3. \A i \in 0 .. n + 1 : i = n + 1 \/ i \in 0 .. n
  BY <1>1
<1>4. at2 \in [0 .. n + 1 -> 0 .. MaxBytes]
  BY <1>2, <1>3
<1>5. at2[n + 1] = c /\ \A i \in 0 .. n : at2[i] = at[i]
  BY <1>1
<1>6. 0 \in 0 .. n /\ n \in 0 .. n /\ (n + 1) - 1 = n
  BY <1>1
<1> HIDE DEF at2
<1>7. ASSUME NEW i \in 1 .. n + 1 PROVE Carries(t[i], at2[i - 1], at2[i])
  <2>1. CASE i = n + 1
    BY <2>1, <1>1, <1>2, <1>5, <1>6
  <2>2. CASE i \in 1 .. n
    <3>1. i \in 0 .. n /\ i - 1 \in 0 .. n
      BY <2>2, <1>1
    <3> QED BY <2>2, <3>1, <1>1, <1>2, <1>5
  <2> QED BY <2>1, <2>2, <1>1
<1> QED BY <1>1, <1>2, <1>4, <1>5, <1>6, <1>7 DEF Stream, t

\* The rest of a stream begins where its first message ends.
LEMMA StreamTail ==
    ASSUME NEW S, NEW s \in Seq(S), s # <<>>, NEW a, NEW b, Stream(s, a, b)
    PROVE  \E c \in 0 .. MaxBytes : Carries(Head(s), a, c) /\ Stream(Tail(s), c, b)
<1> DEFINE n == Len(s)
           t == Tail(s)
<1>1. /\ n \in Nat /\ n > 0 /\ Len(t) = n - 1 /\ Head(s) = s[1]
      /\ \A i \in 1 .. n - 1 : t[i] = s[i + 1]
  BY HeadTailProperties
<1>2. PICK at \in [0 .. n -> 0 .. MaxBytes] :
        /\ at[0] = a /\ at[n] = b /\ \A i \in 1 .. n : Carries(s[i], at[i - 1], at[i])
  BY DEF Stream
<1> HIDE DEF n, t
<1> DEFINE at2 == [i \in 0 .. n - 1 |-> at[i + 1]]
<1>3. \A i \in 0 .. n - 1 : i + 1 \in 0 .. n
  BY <1>1
<1>4. at2 \in [0 .. n - 1 -> 0 .. MaxBytes]
  BY <1>2, <1>3
<1>5. /\ at2[0] = at[1] /\ at2[n - 1] = at[n]
      /\ \A i \in 0 .. n - 1 : at2[i] = at[i + 1]
  BY <1>1
<1> HIDE DEF at2
<1>6. ASSUME NEW i \in 1 .. n - 1 PROVE Carries(t[i], at2[i - 1], at2[i])
  <2>1. i \in 0 .. n - 1 /\ i - 1 \in 0 .. n - 1 /\ (i - 1) + 1 = i /\ (i + 1) - 1 = i
        /\ i + 1 \in 1 .. n
    BY <1>1
  <2>2. Carries(s[i + 1], at[(i + 1) - 1], at[i + 1])
    BY <2>1, <1>2
  <2> QED BY <2>1, <2>2, <1>1, <1>5
<1>7. Stream(t, at[1], b)
  BY <1>1, <1>2, <1>4, <1>5, <1>6 DEF Stream
<1>8. at[1] \in 0 .. MaxBytes /\ 1 \in 1 .. n /\ 1 - 1 = 0
  BY <1>1, <1>2
<1>9. Carries(Head(s), a, at[1])
  BY <1>1, <1>2, <1>8
<1> QED BY <1>7, <1>8, <1>9 DEF t

\* A message before a stream prolongs it.
LEMMA StreamCons ==
    ASSUME NEW S, NEW s \in Seq(S), NEW m \in S,
           NEW a \in 0 .. MaxBytes, NEW b, NEW c, Carries(m, a, c), Stream(s, c, b)
    PROVE  Stream(<<m>> \o s, a, b)
<1> DEFINE n == Len(s)
           t == <<m>> \o s
<1>1. /\ n \in Nat /\ Len(t) = n + 1 /\ t[1] = m
      /\ \A i \in 2 .. n + 1 : t[i] = s[i - 1]
  <2>1. /\ <<m>> \in Seq(S) /\ Len(<<m>>) = 1 /\ <<m>>[1] = m /\ n \in Nat
    OBVIOUS
  <2>2. /\ Len(t) = 1 + n
        /\ \A i \in 1 .. 1 + n : t[i] = IF i <= 1 THEN <<m>>[i] ELSE s[i - 1]
    BY <2>1, ConcatProperties
  <2> HIDE DEF n, t
  <2> QED BY <2>1, <2>2
<1>2. PICK at \in [0 .. n -> 0 .. MaxBytes] :
        /\ at[0] = c /\ at[n] = b /\ \A i \in 1 .. n : Carries(s[i], at[i - 1], at[i])
  BY DEF Stream
<1> HIDE DEF n, t
<1> DEFINE at2 == [i \in 0 .. n + 1 |-> IF i = 0 THEN a ELSE at[i - 1]]
<1>3. \A i \in 0 .. n + 1 : i = 0 \/ (i \in 1 .. n + 1 /\ i - 1 \in 0 .. n)
  BY <1>1
<1>4. at2 \in [0 .. n + 1 -> 0 .. MaxBytes]
  BY <1>2, <1>3
<1>5. at2[0] = a /\ \A i \in 1 .. n + 1 : at2[i] = at[i - 1]
  BY <1>1
<1>6. n + 1 \in 1 .. n + 1 /\ (n + 1) - 1 = n /\ 1 \in 1 .. n + 1 /\ 1 - 1 = 0
  BY <1>1
<1> HIDE DEF at2
<1>7. ASSUME NEW i \in 1 .. n + 1 PROVE Carries(t[i], at2[i - 1], at2[i])
  <2>1. CASE i = 1
    <3>1. at2[1] = c /\ at2[0] = a /\ t[1] = m
      BY <1>1, <1>2, <1>5, <1>6
    <3> QED BY <2>1, <3>1
  <2>2. CASE i \in 2 .. n + 1
    <3>1. i \in 1 .. n + 1 /\ i - 1 \in 1 .. n + 1 /\ i - 1 \in 1 .. n
      BY <2>2, <1>1
    <3> QED BY <2>2, <3>1, <1>1, <1>2, <1>5
  <2> QED BY <2>1, <2>2, <1>1
<1> QED BY <1>1, <1>2, <1>4, <1>5, <1>6, <1>7 DEF Stream, t

\* A message is a data packet, an acknowledgement of a pipeline or another.
LEMMA MessageKinds ==
    /\ Packets \subseteq Messages /\ Other \in Messages /\ Other.kind = "other"
    /\ \A p \in Closers : /\ CloseAck(p) \in Messages /\ CloseAck(p).kind = "closeAck"
                          /\ CloseAck(p).pipeline = p
    /\ \A k \in Packets : k.kind = "data" /\ k.from \in 0 .. MaxBytes /\ k.size \in 0 .. MaxBytes
    /\ \A m \in Messages : /\ m.kind \in {"data", "closeAck", "other"}
                           /\ m.kind = "data" => m \in Packets
                           /\ m.kind = "closeAck" => m.pipeline \in Closers
BY DEF Messages, Packets, Acks, Other, CloseAck

\* A packet is what it was made of.
LEMMA PacketFields ==
    ASSUME NEW from \in 0 .. MaxBytes, NEW size \in 0 .. MaxBytes
    PROVE  /\ Packet(from, size) \in Packets /\ Packet(from, size).kind = "data"
           /\ Packet(from, size).from = from /\ Packet(from, size).size = size
BY DEF Packet, Packets

\* A callback is what it tells.
LEMMA ChainFields ==
    /\ \A cs \in SUBSET Closers, u \in Callbacks \cup {Nil} :
          Chain(cs, u) \in Handlers /\ Chain(cs, u).calls = cs /\ Chain(cs, u).user = u
    /\ \A h \in Handlers : h.calls \subseteq Closers /\ h.user \in Callbacks \cup {Nil}
BY DEF Chain, Handlers

\* The readLoop is in a place, or holds a packet or a callback.
LEMMA LoopKinds ==
    /\ \A p \in Places : At(p) \in Loops /\ At(p).at = p
    /\ \A k \in Packets : /\ Storing(k) \in Loops /\ Storing(k).at = "store"
                          /\ Storing(k).packet = k
    /\ \A h \in Handlers, p \in Closers :
          /\ Calling(h, p) \in Loops /\ Calling(h, p).at = "call"
          /\ Calling(h, p).handler = h /\ Calling(h, p).pipeline = p
    /\ \A l \in Loops : /\ l.at \in Places \cup {"store", "call"}
                        /\ l.at = "store" => l.packet \in Packets
                        /\ l.at = "call" => l.handler \in Handlers /\ l.pipeline \in Closers
<1>1. \A p \in Places : At(p) \in Loops /\ At(p).at = p
  BY DEF At, Loops
<1>2. \A k \in Packets : Storing(k) \in Loops /\ Storing(k).at = "store" /\ Storing(k).packet = k
  BY DEF Storing, Loops
<1>3. \A h \in Handlers, p \in Closers :
          /\ Calling(h, p) \in Loops /\ Calling(h, p).at = "call"
          /\ Calling(h, p).handler = h /\ Calling(h, p).pipeline = p
  BY DEF Calling, Loops
<1>4. \A l \in Loops : /\ l.at \in Places \cup {"store", "call"}
                       /\ l.at = "store" => l.packet \in Packets
                       /\ l.at = "call" => l.handler \in Handlers /\ l.pipeline \in Closers
  BY DEF Loops, Places
<1> QED BY <1>1, <1>2, <1>3, <1>4

-----------------------------------------------------------------------------
(* The stream.  StreamIntact is inductive together with the types, which    *)
(* need it: Read cuts a packet in two, and only the stream says that the    *)
(* second part still ends within what the server has sent.                  *)

StreamInv == TypeOK /\ StreamIntact

\* The numbers are numbers.
LEMMA BytesAreNumbers ==
    /\ MaxBytes \in Nat
    /\ \A n \in 0 .. MaxBytes : n \in Nat /\ n <= MaxBytes
BY AdapterAssumption

\* A step that leaves the bytes alone keeps the stream.
LEMMA StreamKept ==
    ASSUME StreamIntact, UNCHANGED <<wire, total, pending, bytes>>,
           loop' = loop \/ (loop.at # "store" /\ loop'.at # "store")
    PROVE  StreamIntact'
<1>1. PICK x \in 0 .. MaxBytes, y \in 0 .. MaxBytes :
        /\ Stream(pending, bytes, x) /\ Stream(wire, y, total)
        /\ IF loop.at = "store" THEN Carries(loop.packet, x, y) ELSE y = x
  BY DEF StreamIntact
<1>2. IF loop'.at = "store" THEN Carries(loop'.packet, x, y) ELSE y = x
  BY <1>1
<1>3. Stream(pending', bytes', x) /\ Stream(wire', y, total')
  BY <1>1
<1> QED BY <1>2, <1>3 DEF StreamIntact

\* A message of the server prolongs the stream by what it carries.
LEMMA StreamSent ==
    ASSUME StreamIntact, wire \in Seq(Messages), NEW m \in Messages,
           wire' = Append(wire, m), total' \in 0 .. MaxBytes, Carries(m, total, total'),
           UNCHANGED <<loop, pending, bytes>>
    PROVE  StreamIntact'
<1>1. PICK x \in 0 .. MaxBytes, y \in 0 .. MaxBytes :
        /\ Stream(pending, bytes, x) /\ Stream(wire, y, total)
        /\ IF loop.at = "store" THEN Carries(loop.packet, x, y) ELSE y = x
  BY DEF StreamIntact
<1>2. Stream(wire', y, total')
  BY <1>1, StreamAppend
<1>3. Stream(pending', bytes', x)
  BY <1>1
<1>4. IF loop'.at = "store" THEN Carries(loop'.packet, x, y) ELSE y = x
  BY <1>1
<1> QED BY <1>2, <1>3, <1>4 DEF StreamIntact

\* A data packet of the server is numbered from where the last one ended.
LEMMA SendDataStream ==
    ASSUME StreamInv, NEW size \in Sizes, SendData(size)
    PROVE  /\ StreamIntact' /\ wire' \in Seq(Messages) /\ total' \in 0 .. MaxBytes
<1>1. /\ total + size <= MaxBytes /\ total' = total + size
      /\ wire' = Append(wire, Packet(total, size))
      /\ UNCHANGED <<loop, pending, bytes>>
  BY DEF SendData
<1>2. StreamIntact /\ wire \in Seq(Messages) /\ total \in 0 .. MaxBytes
  BY DEF StreamInv, TypeOK
<1>3. size \in 0 .. MaxBytes /\ total' \in 0 .. MaxBytes
  BY <1>1, <1>2, AdapterAssumption
<1>4. /\ Packet(total, size) \in Messages /\ Carries(Packet(total, size), total, total')
  BY <1>1, <1>2, <1>3, PacketFields, MessageKinds DEF Carries
<1>5. wire' \in Seq(Messages)
  BY <1>1, <1>2, <1>4, AppendProperties
<1> QED BY <1>1, <1>2, <1>3, <1>4, <1>5, StreamSent

\* An acknowledgement carries no bytes, and neither does any other packet.
LEMMA SendAckStream ==
    ASSUME StreamInv, NEW p \in Closers, SendCloseAck(p)
    PROVE  StreamIntact' /\ wire' \in Seq(Messages)
<1>1. /\ wire' = Append(wire, CloseAck(p)) /\ UNCHANGED <<total, loop, pending, bytes>>
  BY DEF SendCloseAck
<1>2. StreamIntact /\ wire \in Seq(Messages) /\ total \in 0 .. MaxBytes
  BY DEF StreamInv, TypeOK
<1>3. CloseAck(p) \in Messages /\ Carries(CloseAck(p), total, total')
  BY <1>1, MessageKinds DEF Carries
<1>4. wire' \in Seq(Messages)
  BY <1>1, <1>2, <1>3, AppendProperties
<1> QED BY <1>1, <1>2, <1>3, <1>4, StreamSent

LEMMA SendOtherStream ==
    ASSUME StreamInv, SendOther
    PROVE  StreamIntact' /\ wire' \in Seq(Messages)
<1>1. /\ Len(wire) = 0 /\ wire' = <<Other>> /\ UNCHANGED <<total, loop, pending, bytes>>
  BY DEF SendOther
<1>2. StreamIntact /\ wire \in Seq(Messages) /\ total \in 0 .. MaxBytes
  BY DEF StreamInv, TypeOK
<1>3. Other \in Messages /\ Carries(Other, total, total')
  BY <1>1, MessageKinds DEF Carries
<1>4. wire = <<>>
  BY <1>1, <1>2, EmptySeq
<1>5. wire' = Append(wire, Other)
  BY <1>1, <1>4
<1>6. wire' \in Seq(Messages)
  BY <1>2, <1>3, <1>5, AppendProperties
<1> QED BY <1>1, <1>2, <1>3, <1>5, <1>6, StreamSent

\* The readLoop takes what is next on the wire.
LEMMA LoopReceiveStream ==
    ASSUME StreamInv, LoopReceive
    PROVE  StreamIntact' /\ wire' \in Seq(Messages) /\ loop' \in Loops
<1>1. /\ loop = At("receive") /\ wire # <<>> /\ wire' = Tail(wire)
      /\ Head(wire).kind = "data" => loop' = Storing(Head(wire))
      /\ Head(wire).kind = "closeAck" => loop' = Calling(handler, Head(wire).pipeline)
      /\ Head(wire).kind = "other" => loop' = At("top")
      /\ UNCHANGED <<total, pending, bytes>>
  BY DEF LoopReceive
<1>2. /\ StreamIntact /\ wire \in Seq(Messages) /\ handler \in Handlers
  BY DEF StreamInv, TypeOK
<1>3. Head(wire) \in Messages /\ wire' \in Seq(Messages)
  BY <1>1, <1>2, HeadTailProperties
<1>4. loop.at = "receive" /\ "top" \in Places /\ "receive" \in Places
  BY <1>1, LoopKinds DEF Places
<1>5. loop' \in Loops
  BY <1>1, <1>2, <1>3, <1>4, MessageKinds, LoopKinds
<1>6. PICK x \in 0 .. MaxBytes, y \in 0 .. MaxBytes :
        /\ Stream(pending, bytes, x) /\ Stream(wire, y, total)
        /\ IF loop.at = "store" THEN Carries(loop.packet, x, y) ELSE y = x
  BY <1>2 DEF StreamIntact
<1>7. y = x
  BY <1>4, <1>6
<1>8. PICK c \in 0 .. MaxBytes : Carries(Head(wire), y, c) /\ Stream(Tail(wire), c, total)
  BY <1>1, <1>2, <1>6, StreamTail
<1>9. Stream(pending', bytes', x) /\ Stream(wire', c, total')
  BY <1>1, <1>6, <1>8
<1>10. IF loop'.at = "store" THEN Carries(loop'.packet, x, c) ELSE c = x
  <2>1. CASE Head(wire).kind = "data"
    <3>1. loop'.at = "store" /\ loop'.packet = Head(wire)
      BY <2>1, <1>1, <1>3, MessageKinds, LoopKinds
    <3> QED BY <3>1, <1>7, <1>8
  <2>2. CASE Head(wire).kind # "data"
    <3>1. loop'.at # "store"
      BY <2>2, <1>1, <1>2, <1>3, <1>4, MessageKinds, LoopKinds
    <3>2. c = y
      BY <2>2, <1>8 DEF Carries
    <3> QED BY <3>1, <3>2, <1>7
  <2> QED BY <2>1, <2>2
<1>11. StreamIntact'
  BY <1>9, <1>10 DEF StreamIntact
<1> QED BY <1>3, <1>5, <1>11

\* The packet in the readLoop's hand goes behind the buffers.
LEMMA LoopStoreStream ==
    ASSUME StreamInv, LoopStore
    PROVE  StreamIntact' /\ pending' \in Seq(Packets) /\ loop' \in Loops
<1>1. /\ loop.at = "store" /\ pending' = Append(pending, loop.packet) /\ loop' = At("notify")
      /\ UNCHANGED <<wire, total, bytes>>
  BY DEF LoopStore
<1>2. StreamIntact /\ pending \in Seq(Packets) /\ loop \in Loops
  BY DEF StreamInv, TypeOK
<1>3. loop.packet \in Packets /\ loop' \in Loops /\ loop'.at = "notify"
  BY <1>1, <1>2, LoopKinds DEF Places
<1>4. PICK x \in 0 .. MaxBytes, y \in 0 .. MaxBytes :
        /\ Stream(pending, bytes, x) /\ Stream(wire, y, total)
        /\ IF loop.at = "store" THEN Carries(loop.packet, x, y) ELSE y = x
  BY <1>2 DEF StreamIntact
<1>5. Stream(Append(pending, loop.packet), bytes, y)
  BY <1>1, <1>2, <1>3, <1>4, StreamAppend
<1>6. Stream(pending', bytes', y) /\ Stream(wire', y, total')
  BY <1>1, <1>4, <1>5
<1>7. IF loop'.at = "store" THEN Carries(loop'.packet, y, y) ELSE y = y
  BY <1>3
<1>8. StreamIntact'
  BY <1>6, <1>7 DEF StreamIntact
<1>9. pending' \in Seq(Packets)
  BY <1>1, <1>2, <1>3, AppendProperties
<1> QED BY <1>3, <1>8, <1>9

\* Read returns the bytes that follow the last it returned, and keeps the rest
\* of a buffer in its place.
LEMMA ReadDataStream ==
    ASSUME StreamInv, NEW r \in Readers, NEW n \in 0 .. MaxBytes, ReadData(r, n)
    PROVE  StreamIntact' /\ pending' \in Seq(Packets) /\ bytes' \in 0 .. MaxBytes
<1> DEFINE k == Head(pending)
           rest == Packet(k.from + n, k.size - n)
<1>1. /\ pending # <<>> /\ n <= k.size /\ bytes' = k.from + n
      /\ pending' = IF n = k.size THEN Tail(pending) ELSE <<rest>> \o Tail(pending)
      /\ UNCHANGED <<wire, total, loop>>
  BY DEF ReadData
<1>2. StreamIntact /\ pending \in Seq(Packets)
  BY DEF StreamInv, TypeOK
<1>3. k \in Packets /\ Tail(pending) \in Seq(Packets)
  BY <1>1, <1>2, HeadTailProperties
<1>4. k.kind = "data" /\ k.from \in 0 .. MaxBytes /\ k.size \in 0 .. MaxBytes
  BY <1>3, MessageKinds
<1>5. PICK x \in 0 .. MaxBytes, y \in 0 .. MaxBytes :
        /\ Stream(pending, bytes, x) /\ Stream(wire, y, total)
        /\ IF loop.at = "store" THEN Carries(loop.packet, x, y) ELSE y = x
  BY <1>2 DEF StreamIntact
<1>6. PICK c \in 0 .. MaxBytes : Carries(k, bytes, c) /\ Stream(Tail(pending), c, x)
  BY <1>1, <1>2, <1>5, StreamTail
<1>7. k.from = bytes /\ c = k.from + k.size
  BY <1>4, <1>6 DEF Carries
<1>8. /\ k.from + n \in 0 .. MaxBytes /\ k.size - n \in 0 .. MaxBytes
      /\ c = (k.from + n) + (k.size - n)
  <2>1. PICK f \in 0 .. MaxBytes, z \in 0 .. MaxBytes : f = k.from /\ z = k.size
    BY <1>4
  <2>2. n <= z /\ c = f + z /\ MaxBytes \in Nat /\ c <= MaxBytes
    BY <1>1, <1>7, <2>1, BytesAreNumbers
  <2>3. f + n \in 0 .. MaxBytes /\ z - n \in 0 .. MaxBytes /\ c = (f + n) + (z - n)
    BY <2>2
  <2> QED BY <2>1, <2>3
<1>9. Stream(pending', bytes', x) /\ pending' \in Seq(Packets)
  <2>1. CASE n = k.size
    BY <2>1, <1>1, <1>3, <1>6, <1>7
  <2>2. CASE n # k.size
    <3>1. /\ rest \in Packets /\ rest.kind = "data"
          /\ rest.from = k.from + n /\ rest.size = k.size - n
      BY <1>8, PacketFields
    <3> HIDE DEF k, rest
    <3>2. Carries(rest, k.from + n, c)
      BY <3>1, <1>8 DEF Carries
    <3>3. Stream(<<rest>> \o Tail(pending), k.from + n, x)
      BY <3>1, <3>2, <1>3, <1>6, <1>8, StreamCons
    <3>4. <<rest>> \o Tail(pending) \in Seq(Packets)
      <4>1. <<rest>> \in Seq(Packets)
        BY <3>1
      <4> QED BY <4>1, <1>3, ConcatProperties
    <3> QED BY <2>2, <3>3, <3>4, <1>1
  <2> QED BY <2>1, <2>2
<1>10. bytes' \in 0 .. MaxBytes
  BY <1>1, <1>8
<1>11. Stream(wire', y, total') /\ IF loop'.at = "store" THEN Carries(loop'.packet, x, y) ELSE y = x
  BY <1>1, <1>5
<1>12. StreamIntact'
  BY <1>9, <1>11 DEF StreamIntact
<1> QED BY <1>9, <1>10, <1>12

\* An empty adapter satisfies it.
LEMMA InitStream == Init => StreamInv
<1> SUFFICES ASSUME Init PROVE StreamInv
  OBVIOUS
<1>1. 0 \in 0 .. MaxBytes
  BY AdapterAssumption
<1>2. loop \in Loops /\ loop.at = "top"
  BY LoopKinds DEF Init, Places
<1>3. wire \in Seq(Messages) /\ pending \in Seq(Packets)
  BY EmptySeq DEF Init
<1>4. handler \in Handlers /\ saved \in [Closers -> Handlers]
  <2>1. handler = Chain({}, Nil) /\ saved = [c \in Closers |-> Chain({}, Nil)]
    BY DEF Init
  <2>2. Chain({}, Nil) \in Handlers
    BY ChainFields
  <2> QED BY <2>1, <2>2
<1>5. TypeOK
  BY <1>1, <1>2, <1>3, <1>4 DEF Init, TypeOK
<1>6. Stream(pending, bytes, 0) /\ Stream(wire, 0, total)
  BY <1>1, StreamOfNothing DEF Init
<1>7. StreamIntact
  BY <1>1, <1>2, <1>6 DEF StreamIntact
<1> QED BY <1>5, <1>7 DEF StreamInv

\* Every step of the server keeps it.
LEMMA ServerStream ==
    ASSUME StreamInv, ServerStep PROVE StreamInv'
<1>1. ASSUME NEW size \in Sizes, SendData(size) PROVE StreamInv'
  <2>1. StreamIntact' /\ wire' \in Seq(Messages) /\ total' \in 0 .. MaxBytes
    BY <1>1, SendDataStream
  <2> QED BY <1>1, <2>1 DEF SendData, StreamInv, TypeOK
<1>2. ASSUME NEW p \in Closers, SendCloseAck(p) PROVE StreamInv'
  <2>1. StreamIntact' /\ wire' \in Seq(Messages)
    BY <1>2, SendAckStream
  <2> QED BY <1>2, <2>1 DEF SendCloseAck, StreamInv, TypeOK
<1>3. CASE SendOther
  <2>1. StreamIntact' /\ wire' \in Seq(Messages)
    BY <1>3, SendOtherStream
  <2> QED BY <1>3, <2>1 DEF SendOther, StreamInv, TypeOK
<1> QED BY <1>1, <1>2, <1>3 DEF ServerStep

\* Every step of the readLoop keeps it.
LEMMA LoopStream ==
    ASSUME StreamInv, LoopStep PROVE StreamInv'
<1>a. TypeOK /\ StreamIntact /\ loop \in Loops
  BY DEF StreamInv, TypeOK
<1>1. CASE LoopTop
  <2>1. loop' \in Loops /\ loop.at # "store" /\ loop'.at # "store"
    BY <1>1, LoopKinds DEF LoopTop, Places
  <2>2. StreamIntact'
    BY <1>1, <1>a, <2>1, StreamKept DEF LoopTop
  <2> QED BY <1>1, <2>1, <2>2 DEF LoopTop, StreamInv, TypeOK
<1>2. CASE LoopReceive
  <2>1. StreamIntact' /\ wire' \in Seq(Messages) /\ loop' \in Loops
    BY <1>2, LoopReceiveStream
  <2> QED BY <1>2, <2>1 DEF LoopReceive, StreamInv, TypeOK
<1>3. CASE LoopFail
  <2>1. loop' \in Loops /\ loop.at # "store" /\ loop'.at # "store"
    BY <1>3, LoopKinds DEF LoopFail, Places
  <2>2. StreamIntact'
    BY <1>3, <1>a, <2>1, StreamKept DEF LoopFail
  <2> QED BY <1>3, <2>1, <2>2 DEF LoopFail, StreamInv, TypeOK
<1>4. CASE LoopStore
  <2>1. StreamIntact' /\ pending' \in Seq(Packets) /\ loop' \in Loops
    BY <1>4, LoopStoreStream
  <2> QED BY <1>4, <2>1 DEF LoopStore, StreamInv, TypeOK
<1>5. CASE LoopNotify
  <2>1. \E p \in {"top", "exit", "gone"} : loop' = At(p)
    BY <1>5 DEF LoopNotify
  <2>2. loop' \in Loops /\ loop.at # "store" /\ loop'.at # "store"
    BY <1>5, <2>1, LoopKinds DEF LoopNotify, Places
  <2>3. StreamIntact'
    BY <1>5, <1>a, <2>2, StreamKept DEF LoopNotify
  <2> QED BY <1>5, <2>2, <2>3 DEF LoopNotify, StreamInv, TypeOK
<1>6. CASE LoopCall
  <2>1. loop' \in Loops /\ loop.at # "store" /\ loop'.at # "store"
    BY <1>6, LoopKinds DEF LoopCall, Places
  <2>2. StreamIntact'
    BY <1>6, <1>a, <2>1, StreamKept DEF LoopCall
  <2>3. acked' \in [Closers -> BOOLEAN]
    BY <1>6, <1>a DEF LoopCall, TypeOK
  <2> QED BY <1>6, <2>1, <2>2, <2>3 DEF LoopCall, StreamInv, TypeOK
<1>7. CASE LoopExit
  <2>1. loop' \in Loops /\ loop.at # "store" /\ loop'.at # "store"
    BY <1>7, LoopKinds DEF LoopExit, Places
  <2>2. StreamIntact'
    BY <1>7, <1>a, <2>1, StreamKept DEF LoopExit
  <2> QED BY <1>7, <2>1, <2>2 DEF LoopExit, StreamInv, TypeOK
<1> QED BY <1>1, <1>2, <1>3, <1>4, <1>5, <1>6, <1>7 DEF LoopStep

\* Every step of a reader keeps it.
LEMMA ReaderStream ==
    ASSUME StreamInv, NEW r \in Readers, ReaderStep(r) PROVE StreamInv'
<1>a. TypeOK /\ StreamIntact
  BY DEF StreamInv
<1>1. ASSUME NEW n \in 0 .. MaxBytes, ReadData(r, n) PROVE StreamInv'
  <2>1. StreamIntact' /\ pending' \in Seq(Packets) /\ bytes' \in 0 .. MaxBytes
    BY <1>1, ReadDataStream
  <2> QED BY <1>1, <2>1 DEF ReadData, StreamInv, TypeOK
<1>2. CASE ReadEnd(r) \/ ReadWait(r) \/ ReadNotified(r) \/ ReadTick(r) \/ ReadTimeout(r)
           \/ ReadCancelled(r)
  <2>1. StreamIntact'
    BY <1>2, <1>a, StreamKept
    DEF ReadEnd, ReadWait, ReadNotified, ReadTick, ReadTimeout, ReadCancelled
  <2>2. /\ UNCHANGED <<wire, total, asked, answered, loop, pending, closed, readErr, ctxDone,
                       bytes, handler, saved, acked, closer, history>>
        /\ notify' \in BOOLEAN
        /\ reader' \in [Readers -> {"idle", "select", "recheck", "ended"}]
    BY <1>2, <1>a
    DEF ReadEnd, ReadWait, ReadNotified, ReadTick, ReadTimeout, ReadCancelled, TypeOK
  <2> QED BY <1>a, <2>1, <2>2 DEF StreamInv, TypeOK
<1> QED BY <1>1, <1>2 DEF ReaderStep

\* Every step of a ClosePipeline keeps it.
LEMMA CloserStream ==
    ASSUME StreamInv, NEW c \in Closers, CloserStep(c) PROVE StreamInv'
<1>a. TypeOK /\ StreamIntact
  BY DEF StreamInv
<1>b. /\ UNCHANGED <<wire, total, answered, loop, pending, closed, readErr, notify, ctxDone,
                     bytes, reader, acked>>
      /\ asked' \in {asked, asked \cup {c}}
  BY DEF CloserStep, ClosePipeline, CloseSetHandler, CloseSend, CloseSendFail, CloseAcked,
         CloseGiveUp, CloseRestore
<1>c. StreamIntact'
  BY <1>a, <1>b, StreamKept
<1>d. closer' \in [Closers -> {"idle", "set", "send", "wait", "restore", "restoreAcked",
                               "done", "failed"}]
  BY <1>a DEF TypeOK, CloserStep, ClosePipeline, CloseSetHandler, CloseSend, CloseSendFail,
              CloseAcked, CloseGiveUp, CloseRestore
<1>e. handler' \in Handlers /\ saved' \in [Closers -> Handlers]
  <2>0. handler \in Handlers /\ saved \in [Closers -> Handlers] /\ saved[c] \in Handlers
    BY <1>a DEF TypeOK
  <2>1. CASE ClosePipeline(c)
    BY <2>0, <2>1 DEF ClosePipeline
  <2>2. CASE CloseSetHandler(c)
    <3>1. Chain({c} \cup saved[c].calls, saved[c].user) \in Handlers
      BY <2>0, ChainFields
    <3> QED BY <2>0, <2>2, <3>1 DEF CloseSetHandler
  <2>3. CASE CloseRestore(c)
    BY <2>0, <2>3 DEF CloseRestore
  <2>4. CASE CloseSend(c) \/ CloseSendFail(c) \/ CloseAcked(c) \/ CloseGiveUp(c)
    BY <2>0, <2>4 DEF CloseSend, CloseSendFail, CloseAcked, CloseGiveUp
  <2> QED BY <2>1, <2>2, <2>3, <2>4 DEF CloserStep
<1>f. UNCHANGED <<user, late>> /\ disturbed' \subseteq Closers
  BY <1>a DEF TypeOK, CloserStep, ClosePipeline, CloseSetHandler, CloseSend, CloseSendFail,
              CloseAcked, CloseGiveUp, CloseRestore, disturbs
<1> QED BY <1>a, <1>b, <1>c, <1>d, <1>e, <1>f DEF StreamInv, TypeOK

\* So does the user.
LEMMA UserStream ==
    ASSUME StreamInv, NEW u \in Callbacks \cup {Nil}, SetCloseAckHandler(u) PROVE StreamInv'
<1>1. StreamIntact'
  BY StreamKept DEF SetCloseAckHandler, StreamInv
<1>2. Chain({}, u) \in Handlers
  BY ChainFields
<1> QED BY <1>1, <1>2 DEF SetCloseAckHandler, disturbs, StreamInv, TypeOK

\* Every step keeps it.
LEMMA StepStream == StreamInv /\ [Next]_vars => StreamInv'
<1> SUFFICES ASSUME StreamInv, [Next]_vars PROVE StreamInv'
  OBVIOUS
<1>1. CASE ServerStep
  BY <1>1, ServerStream
<1>2. CASE LoopStep
  BY <1>2, LoopStream
<1>3. CASE Close \/ UNCHANGED vars
  <2>1. StreamIntact'
    BY <1>3, StreamKept DEF Close, StreamInv
  <2> QED BY <1>3, <2>1 DEF Close, StreamInv, TypeOK
<1>4. ASSUME NEW r \in Readers, ReaderStep(r) PROVE StreamInv'
  BY <1>4, ReaderStream
<1>5. ASSUME NEW c \in Closers, CloserStep(c) PROVE StreamInv'
  BY <1>5, CloserStream
<1>6. ASSUME NEW u \in Callbacks \cup {Nil}, SetCloseAckHandler(u) PROVE StreamInv'
  BY <1>6, UserStream
<1> QED BY <1>1, <1>2, <1>3, <1>4, <1>5, <1>6 DEF Next

LEMMA StreamInvHolds == Spec => []StreamInv
BY InitStream, StepStream, PTL DEF Spec

\* The types hold in every state.
THEOREM TypeCorrect == Spec => []TypeOK
<1>1. StreamInv => TypeOK
  BY DEF StreamInv
<1> QED BY <1>1, StreamInvHolds, PTL

\* No byte of the server is lost, changed in order or read twice, whatever the
\* sizes of its packets and of the reads, and however many are under way.
THEOREM StreamCorrect == Spec => []StreamIntact
<1>1. StreamInv => StreamIntact
  BY DEF StreamInv
<1> QED BY <1>1, StreamInvHolds, PTL

-----------------------------------------------------------------------------
(* The wake-up.                                                             *)

\* Only one goroutine calls Read: the pool's dispatch loop, or Open and
\* Connect before it runs.
OneReader == \A r, s \in Readers : r = s

\* NoLostWakeup for one reader.
Woken(r) ==
    reader[r] = "select" /\ ~NothingToTell =>
        notify \/ loop.at \in {"notify", "notifyError", "notifyClosed"}

\* Every step keeps it: the readLoop says something new only on its way to the
\* channel, and the only reader enters the select when there is nothing.
LEMMA StepWakeup ==
    ASSUME OneReader, StreamInv, NoLostWakeup, [Next]_vars PROVE NoLostWakeup'
<1> SUFFICES ASSUME NEW r \in Readers PROVE Woken(r)'
  BY DEF NoLostWakeup, Woken
<1>a. Woken(r) /\ loop \in Loops
  BY DEF NoLostWakeup, Woken, StreamInv, TypeOK
<1>b. reader \in [Readers -> {"idle", "select", "recheck", "ended"}]
  BY DEF StreamInv, TypeOK
<1>1. CASE ServerStep
  BY <1>1, <1>a DEF ServerStep, SendData, SendCloseAck, SendOther, Woken, NothingToTell
<1>2. CASE LoopStep
  <2>1. CASE LoopTop
    <3>1. loop.at = "top"
      BY <2>1, LoopKinds DEF LoopTop, Places
    <3> QED BY <2>1, <3>1, <1>a DEF LoopTop, Woken, NothingToTell
  <2>2. CASE LoopReceive
    <3>1. loop.at = "receive"
      BY <2>2, LoopKinds DEF LoopReceive, Places
    <3>2. UNCHANGED <<buffers, notify, reader>>
      BY <2>2 DEF LoopReceive
    <3> QED BY <3>1, <3>2, <1>a DEF Woken, NothingToTell
  <2>3. CASE LoopFail
    <3>1. loop'.at = "notifyError"
      BY <2>3, LoopKinds DEF LoopFail, Places
    <3> QED BY <3>1 DEF Woken
  <2>4. CASE LoopStore
    <3>1. loop'.at = "notify"
      BY <2>4, LoopKinds DEF LoopStore, Places
    <3> QED BY <3>1 DEF Woken
  <2>5. CASE LoopNotify
    BY <2>5 DEF LoopNotify, Woken
  <2>6. CASE LoopCall
    BY <2>6, <1>a DEF LoopCall, Woken, NothingToTell
  <2>7. CASE LoopExit
    <3>1. loop'.at = "notifyClosed"
      BY <2>7, LoopKinds DEF LoopExit, Places
    <3> QED BY <3>1 DEF Woken
  <2> QED BY <1>2, <2>1, <2>2, <2>3, <2>4, <2>5, <2>6, <2>7 DEF LoopStep
<1>3. CASE Close \/ UNCHANGED vars
  BY <1>3, <1>a DEF Close, Woken, NothingToTell
<1>4. ASSUME NEW s \in Readers, ReaderStep(s) PROVE Woken(r)'
  <2>1. s = r
    BY DEF OneReader
  <2>2. CASE ReadWait(r)
    BY <2>2 DEF ReadWait, Woken, NothingToTell
  <2>3. ASSUME NEW n \in 0 .. MaxBytes, ReadData(r, n) PROVE Woken(r)'
    <3>1. reader' = [reader EXCEPT ![r] = "idle"]
      BY <2>3 DEF ReadData
    <3> QED BY <3>1, <1>b DEF Woken
  <2>4. CASE ReadEnd(r) \/ ReadNotified(r) \/ ReadTick(r) \/ ReadTimeout(r) \/ ReadCancelled(r)
    <3>1. reader'[r] # "select"
      BY <2>4, <1>b DEF ReadEnd, ReadNotified, ReadTick, ReadTimeout, ReadCancelled
    <3> QED BY <3>1 DEF Woken
  <2> QED BY <1>4, <2>1, <2>2, <2>3, <2>4 DEF ReaderStep
<1>5. ASSUME NEW c \in Closers, CloserStep(c) PROVE Woken(r)'
  <2>1. UNCHANGED <<buffers, notify, reader, loop>>
    BY <1>5 DEF CloserStep, ClosePipeline, CloseSetHandler, CloseSend, CloseSendFail,
                CloseAcked, CloseGiveUp, CloseRestore
  <2> QED BY <2>1, <1>a DEF Woken, NothingToTell
<1>6. ASSUME NEW u \in Callbacks \cup {Nil}, SetCloseAckHandler(u) PROVE Woken(r)'
  <2>1. UNCHANGED <<buffers, notify, reader, loop>>
    BY <1>6 DEF SetCloseAckHandler
  <2> QED BY <2>1, <1>a DEF Woken, NothingToTell
<1> QED BY <1>1, <1>2, <1>3, <1>4, <1>5, <1>6 DEF Next

\* With one reader the channel of capacity one loses no wake-up: what Read
\* waits for has a token, or is about to have one.
THEOREM WakeupCorrect ==
    ASSUME OneReader PROVE Spec => []NoLostWakeup
<1>1. Init => NoLostWakeup
  BY DEF Init, NoLostWakeup
<1>2. StreamInv /\ NoLostWakeup /\ [Next]_vars => NoLostWakeup'
  BY StepWakeup
<1> QED BY <1>1, <1>2, StreamInvHolds, PTL DEF Spec

-----------------------------------------------------------------------------
(* The callbacks.                                                           *)

\* The user's callback is at the end of the chain, and of those put aside.
UserKept ==
    ~late => /\ handler.user = user
             /\ \A c \in Closers : underWay(c) => saved[c].user = user

\* A call that has set its callback, and was not disturbed, is in the chain.
CallSet ==
    \A c \in Closers :
        closer[c] \in {"send", "wait"} /\ c \notin disturbed => c \in handler.calls

\* So it is in the one that the readLoop calls for its acknowledgement.
AckHeard ==
    loop.at = "call" =>
        /\ loop.pipeline \in answered
        /\ closer[loop.pipeline] = "wait" /\ loop.pipeline \notin disturbed
              => loop.pipeline \in loop.handler.calls

\* An acknowledgement under way, in whatever place, is for a pipeline that the
\* server has answered, and it answers no Close before it was sent.
AcksAnswered ==
    /\ \A i \in 1 .. Len(wire) : wire[i].kind = "closeAck" => wire[i].pipeline \in answered
    /\ \A c \in Closers : acked[c] => c \in answered
    /\ \A c \in Closers : closer[c] \in {"restoreAcked", "done"} => c \in answered
    /\ \A c \in Closers : closer[c] \in {"idle", "set", "send"} => c \notin asked

\* The inductive invariant.
CallbackInv == TypeOK /\ UserKept /\ CallSet /\ AckHeard /\ AcksAnswered

\* A new message for a pipeline that was answered keeps those on the wire.
LEMMA WireAppend ==
    ASSUME NEW m, NEW A, wire \in Seq(Messages), m \in Messages,
           \A i \in 1 .. Len(wire) : wire[i].kind = "closeAck" => wire[i].pipeline \in answered,
           answered \subseteq A, m.kind = "closeAck" => m.pipeline \in A
    PROVE  \A i \in 1 .. Len(Append(wire, m)) :
              Append(wire, m)[i].kind = "closeAck" => Append(wire, m)[i].pipeline \in A
<1>1. /\ Len(wire) \in Nat /\ Len(Append(wire, m)) = Len(wire) + 1
      /\ Append(wire, m)[Len(wire) + 1] = m
      /\ \A i \in 1 .. Len(wire) : Append(wire, m)[i] = wire[i]
  BY AppendProperties
<1>2. \A i \in 1 .. Len(wire) + 1 : i = Len(wire) + 1 \/ i \in 1 .. Len(wire)
  BY <1>1
<1> QED BY <1>1, <1>2

\* The server answers a Close it has had.
LEMMA ServerCallbacks ==
    ASSUME CallbackInv, TypeOK', ServerStep PROVE CallbackInv'
<1> USE DEF UserKept, CallSet, AckHeard, AcksAnswered, underWay
<1>a. wire \in Seq(Messages)
  BY DEF CallbackInv, TypeOK
<1>1. ASSUME NEW size \in Sizes, SendData(size) PROVE CallbackInv'
  <2>1. /\ wire' = Append(wire, Packet(total, size))
        /\ UNCHANGED <<asked, answered, loop, closing>>
    BY <1>1 DEF SendData
  <2>2. Packet(total, size).kind = "data"
    BY DEF Packet
  <2>3. Packet(total, size) \in Messages
    <3>1. wire' \in Seq(Messages) /\ Len(wire') = Len(wire) + 1 /\ Len(wire) \in Nat
          /\ wire'[Len(wire) + 1] = Packet(total, size)
      BY <1>a, <2>1 DEF TypeOK
    <3> QED BY <3>1
  <2>4. \A i \in 1 .. Len(wire') : wire'[i].kind = "closeAck" => wire'[i].pipeline \in answered
    BY <1>a, <2>1, <2>2, <2>3, WireAppend DEF CallbackInv
  <2> QED BY <2>1, <2>4 DEF CallbackInv
<1>2. ASSUME NEW p \in Closers, SendCloseAck(p) PROVE CallbackInv'
  <2>1. /\ wire' = Append(wire, CloseAck(p)) /\ answered' = answered \cup {p}
        /\ UNCHANGED <<asked, loop, closing>>
    BY <1>2 DEF SendCloseAck
  <2>2. CloseAck(p) \in Messages /\ CloseAck(p).pipeline \in answered'
    BY <2>1, MessageKinds
  <2>3. \A i \in 1 .. Len(wire') : wire'[i].kind = "closeAck" => wire'[i].pipeline \in answered'
    BY <1>a, <2>1, <2>2, WireAppend DEF CallbackInv
  <2> QED BY <2>1, <2>3 DEF CallbackInv
<1>3. CASE SendOther
  <2>1. wire' = <<Other>> /\ UNCHANGED <<asked, answered, loop, closing>>
    BY <1>3 DEF SendOther
  <2>2. \A i \in 1 .. Len(wire') : wire'[i].kind # "closeAck"
    BY <2>1, MessageKinds
  <2> QED BY <2>1, <2>2 DEF CallbackInv
<1> QED BY <1>1, <1>2, <1>3 DEF ServerStep

\* The readLoop calls the callback that is set, for an answer of the server.
LEMMA LoopCallbacks ==
    ASSUME CallbackInv, TypeOK', LoopStep PROVE CallbackInv'
<1> USE DEF UserKept, CallSet, AckHeard, AcksAnswered, underWay
<1>a. /\ wire \in Seq(Messages) /\ loop \in Loops /\ handler \in Handlers
      /\ acked \in [Closers -> BOOLEAN]
  BY DEF CallbackInv, TypeOK
<1>1. ASSUME UNCHANGED <<wire, asked, answered, closing>>, loop'.at # "call"
      PROVE  CallbackInv'
  BY <1>1 DEF CallbackInv
<1>2. CASE LoopTop
  BY <1>1, <1>2, LoopKinds DEF LoopTop, Places
<1>3. CASE LoopReceive
  <2>1. /\ wire # <<>> /\ wire' = Tail(wire)
        /\ Head(wire).kind = "data" => loop' = Storing(Head(wire))
        /\ Head(wire).kind = "closeAck" => loop' = Calling(handler, Head(wire).pipeline)
        /\ Head(wire).kind = "other" => loop' = At("top")
        /\ UNCHANGED <<asked, answered, closing>>
    BY <1>3 DEF LoopReceive
  <2>2. /\ Head(wire) \in Messages /\ Head(wire) = wire[1] /\ Len(wire) \in Nat /\ Len(wire) > 0
        /\ Len(Tail(wire)) = Len(wire) - 1
        /\ \A i \in 1 .. Len(Tail(wire)) : Tail(wire)[i] = wire[i + 1]
    BY <1>a, <2>1, HeadTailProperties, EmptySeq
  <2>3. 1 \in 1 .. Len(wire) /\ \A i \in 1 .. Len(Tail(wire)) : i + 1 \in 1 .. Len(wire)
    BY <2>2
  <2>4. \A i \in 1 .. Len(wire') : wire'[i].kind = "closeAck" => wire'[i].pipeline \in answered
    BY <2>1, <2>2, <2>3 DEF CallbackInv
  <2>5. loop'.at = "call" =>
          /\ loop'.pipeline \in answered
          /\ closer[loop'.pipeline] = "wait" /\ loop'.pipeline \notin disturbed
                => loop'.pipeline \in loop'.handler.calls
    <3>1. CASE Head(wire).kind = "closeAck"
      <4>1. Head(wire).pipeline \in answered /\ Head(wire).pipeline \in Closers
        BY <2>2, <2>3, <3>1, MessageKinds DEF CallbackInv
      <4>2. loop'.handler = handler /\ loop'.pipeline = Head(wire).pipeline
        BY <1>a, <2>1, <3>1, <4>1, LoopKinds
      <4> QED BY <4>1, <4>2 DEF CallbackInv
    <3>2. CASE Head(wire).kind = "data"
      BY <2>1, <2>2, <3>2, MessageKinds, LoopKinds
    <3>3. CASE Head(wire).kind = "other"
      BY <2>1, <3>3, LoopKinds DEF Places
    <3> QED BY <2>2, <3>1, <3>2, <3>3, MessageKinds
  <2> QED BY <2>1, <2>4, <2>5 DEF CallbackInv
<1>4. CASE LoopFail
  BY <1>1, <1>4, LoopKinds DEF LoopFail, Places
<1>5. CASE LoopStore
  BY <1>1, <1>5, LoopKinds DEF LoopStore, Places
<1>6. CASE LoopNotify
  <2>1. \E p \in {"top", "exit", "gone"} : loop' = At(p)
    BY <1>6 DEF LoopNotify
  <2>2. loop'.at # "call"
    BY <2>1, LoopKinds DEF Places
  <2> QED BY <1>1, <1>6, <2>2 DEF LoopNotify
<1>7. CASE LoopCall
  <2>1. loop'.at # "call" /\ loop.pipeline \in answered
        /\ UNCHANGED <<wire, asked, answered, handler, saved, closer, history>>
    BY <1>7, LoopKinds DEF LoopCall, CallbackInv, Places
  <2>2. \A c \in Closers : acked'[c] => acked[c] \/ c = loop.pipeline
    BY <1>7 DEF LoopCall
  <2>3. \A c \in Closers : acked'[c] => c \in answered
    BY <2>1, <2>2, Zenon DEF CallbackInv
  <2> QED BY <2>1, <2>3 DEF CallbackInv
<1>8. CASE LoopExit
  BY <1>1, <1>8, LoopKinds DEF LoopExit, Places
<1> QED BY <1>2, <1>3, <1>4, <1>5, <1>6, <1>7, <1>8 DEF LoopStep

\* A ClosePipeline puts its callback before the one it found and puts that one
\* back, whichever others have come and gone meanwhile.
LEMMA CloserCallbacks ==
    ASSUME CallbackInv, TypeOK', NEW c \in Closers, CloserStep(c) PROVE CallbackInv'
<1> USE DEF UserKept, CallSet, AckHeard, AcksAnswered, underWay
<1>a. /\ UNCHANGED <<wire, answered, loop, acked, user, late>> /\ TypeOK
  BY DEF CallbackInv, CloserStep, ClosePipeline, CloseSetHandler, CloseSend, CloseSendFail,
         CloseAcked, CloseGiveUp, CloseRestore
<1>b. /\ closer \in [Closers -> {"idle", "set", "send", "wait", "restore", "restoreAcked",
                                 "done", "failed"}]
      /\ saved \in [Closers -> Handlers] /\ saved[c] \in Handlers /\ answered \subseteq asked
      /\ loop.at = "call" => loop.pipeline \in Closers
  BY <1>a, LoopKinds DEF TypeOK
<1>1. CASE ClosePipeline(c)
  <2>1. handler' = handler /\ saved' = [saved EXCEPT ![c] = handler]
        /\ closer[c] = "idle" /\ closer' = [closer EXCEPT ![c] = "set"]
        /\ UNCHANGED <<asked, disturbed>>
    BY <1>1 DEF ClosePipeline
  <2> QED BY <1>a, <1>b, <2>1 DEF CallbackInv
<1>2. CASE CloseSetHandler(c)
  <2>1. /\ closer[c] = "set" /\ saved' = saved /\ asked' = asked
        /\ handler' = Chain({c} \cup saved[c].calls, saved[c].user)
        /\ closer' = [closer EXCEPT ![c] = "send"]
        /\ disturbed' = disturbed \cup {d \in Closers \ {c} : underWay(d)}
    BY <1>2 DEF CloseSetHandler, disturbs
  <2>2. c \in handler'.calls /\ handler'.user = saved[c].user
    BY <1>b, <2>1, ChainFields
  <2> QED BY <1>a, <1>b, <2>1, <2>2 DEF CallbackInv
<1>3. CASE CloseSend(c)
  <2>1. /\ closer[c] = "send" /\ UNCHANGED <<handler, saved, disturbed>>
        /\ closer' = [closer EXCEPT ![c] = "wait"] /\ asked' = asked \cup {c}
    BY <1>3 DEF CloseSend
  <2>2. loop.at = "call" => loop.pipeline # c
    BY <1>b, <2>1 DEF CallbackInv
  <2> QED BY <1>a, <1>b, <2>1, <2>2 DEF CallbackInv
<1>4. CASE CloseSendFail(c) \/ CloseGiveUp(c)
  <2>1. /\ closer[c] \in {"send", "wait"} /\ UNCHANGED <<handler, saved, disturbed, asked>>
        /\ closer' = [closer EXCEPT ![c] = "restore"]
    BY <1>4 DEF CloseSendFail, CloseGiveUp
  <2> QED BY <1>a, <1>b, <2>1 DEF CallbackInv
<1>5. CASE CloseAcked(c)
  <2>1. /\ closer[c] = "wait" /\ acked[c] /\ UNCHANGED <<handler, saved, disturbed, asked>>
        /\ closer' = [closer EXCEPT ![c] = "restoreAcked"]
    BY <1>5 DEF CloseAcked
  <2>2. c \in answered
    BY <2>1, Zenon DEF CallbackInv
  <2> QED BY <1>a, <1>b, <2>1, <2>2 DEF CallbackInv
<1>6. CASE CloseRestore(c)
  <2>1. /\ closer[c] \in {"restore", "restoreAcked"} /\ handler' = saved[c]
        /\ UNCHANGED <<saved, asked>>
        /\ closer' = [closer EXCEPT ![c] = IF closer[c] = "restore" THEN "failed" ELSE "done"]
        /\ disturbed' = disturbed \cup {d \in Closers \ {c} : underWay(d)}
    BY <1>6 DEF CloseRestore, disturbs
  <2> QED BY <1>a, <1>b, <2>1 DEF CallbackInv
<1> QED BY <1>1, <1>2, <1>3, <1>4, <1>5, <1>6 DEF CloserStep

\* The user disturbs every ClosePipeline that is under way.
LEMMA UserCallbacks ==
    ASSUME CallbackInv, TypeOK', NEW u \in Callbacks \cup {Nil}, SetCloseAckHandler(u)
    PROVE  CallbackInv'
<1> USE DEF UserKept, CallSet, AckHeard, AcksAnswered, underWay
<1>1. /\ UNCHANGED <<wire, asked, answered, loop, saved, acked, closer>>
      /\ handler' = Chain({}, u) /\ user' = u
      /\ late' = (late \/ \E c \in Closers : underWay(c))
      /\ disturbed' = disturbed \cup {c \in Closers : underWay(c)}
  BY DEF SetCloseAckHandler, disturbs
<1>2. handler'.user = u
  BY <1>1, ChainFields
<1>3. UserKept'
  <2>1. CASE \E c \in Closers : underWay(c)
    BY <1>1, <2>1
  <2>2. CASE \A c \in Closers : ~underWay(c)
    BY <1>1, <1>2, <2>2
  <2> QED BY <2>1, <2>2
<1>4. CallSet'
  BY <1>1
<1>5. AckHeard'
  BY <1>1 DEF CallbackInv
<1> QED BY <1>1, <1>3, <1>4, <1>5 DEF CallbackInv

\* Every step keeps it.
LEMMA StepCallbacks == CallbackInv /\ TypeOK' /\ [Next]_vars => CallbackInv'
<1> SUFFICES ASSUME CallbackInv, TypeOK', [Next]_vars PROVE CallbackInv'
  OBVIOUS
<1>1. CASE ServerStep
  BY <1>1, ServerCallbacks
<1>2. CASE LoopStep
  BY <1>2, LoopCallbacks
<1>3. CASE Close \/ UNCHANGED vars
  BY <1>3 DEF Close, CallbackInv, UserKept, CallSet, AckHeard, AcksAnswered, underWay
<1>4. ASSUME NEW r \in Readers, ReaderStep(r) PROVE CallbackInv'
  <2>1. UNCHANGED <<wire, asked, answered, loop, closing>>
    BY <1>4 DEF ReaderStep, ReadData, ReadEnd, ReadWait, ReadNotified, ReadTick, ReadTimeout,
                ReadCancelled
  <2> QED BY <2>1 DEF CallbackInv, UserKept, CallSet, AckHeard, AcksAnswered, underWay
<1>5. ASSUME NEW c \in Closers, CloserStep(c) PROVE CallbackInv'
  BY <1>5, CloserCallbacks
<1>6. ASSUME NEW u \in Callbacks \cup {Nil}, SetCloseAckHandler(u) PROVE CallbackInv'
  BY <1>6, UserCallbacks
<1> QED BY <1>1, <1>2, <1>3, <1>4, <1>5, <1>6 DEF Next

\* However many ClosePipeline calls overlap, and whatever callbacks the user sets
\* and when: the one set last hears every CloseAck unless one was set during a
\* call; a call that saw its CloseAck saw the answer to its own Close; and one
\* that was not disturbed hears its CloseAck.
THEOREM CallbacksCorrect == Spec => []CallbacksKept
<1>1. Init => CallbackInv
  <2> SUFFICES ASSUME Init PROVE CallbackInv
    OBVIOUS
  <2>1. TypeOK
    BY InitStream DEF StreamInv
  <2>2. handler.user = user
    BY ChainFields DEF Init
  <2>3. loop.at = "top" /\ Len(wire) = 0
    BY LoopKinds DEF Init, Places
  <2>4. asked = {} /\ \A c \in Closers : closer[c] = "idle" /\ ~acked[c]
    BY DEF Init
  <2> QED BY <2>1, <2>2, <2>3, <2>4
          DEF CallbackInv, UserKept, CallSet, AckHeard, AcksAnswered, underWay
<1>2. CallbackInv /\ TypeOK' /\ [Next]_vars => CallbackInv'
  BY StepCallbacks
<1>3. CallbackInv => CallbacksKept
  <2> SUFFICES ASSUME CallbackInv PROVE CallbacksKept
    OBVIOUS
  <2>1. ASSUME NEW c \in Closers, acked[c] \/ closer[c] = "done" PROVE c \in answered
    BY <2>1, Zenon DEF CallbackInv, AcksAnswered
  <2> QED BY <2>1 DEF CallbackInv, UserKept, AckHeard, CallbacksKept
<1> QED BY <1>1, <1>2, <1>3, TypeCorrect, PTL DEF Spec

=============================================================================
