--------------------------------- MODULE Wire ---------------------------------
(***************************************************************************)
(* What the pool writes and reads, packet by packet: sendMessage and        *)
(* receiveMessage of runspace/runspace.go over a plain connection or over   *)
(* the out-of-process adapter and its transport (outofproc/).               *)
(*                                                                         *)
(* Writes block while the pipe is full.  sendMessage holds p.mu over all    *)
(* fragments of a message, a packet holds t.mu over its Write, readLoop     *)
(* writes its acknowledgements under the same t.mu before it goes on        *)
(* reading, and the dispatch loop takes p.mu between two messages.          *)
(*                                                                         *)
(* The bytes of the server's fragments are numbered in the order they are   *)
(* sent, HeaderSize + BlobSize of them to a fragment.                       *)
(***************************************************************************)
EXTENDS Integers, Sequences, FiniteSets

CONSTANTS
    Senders,        \* goroutines that call sendMessage, once each
    Creators,       \* those whose message belongs to a pipeline they create
    Length,         \* fragments of a sender's message
    ReadLoop,       \* the adapter's goroutine
    Nobody,
    Transports,     \* subset of {"adapter", "plain"}
    Capacity,       \* packets a pipe holds
    HeaderSize, BlobSize,
    ServerPackets,  \* bound: packets of each kind that the server sends
    Duplex          \* the server reads while it waits to write

ASSUME WireAssumption ==
    /\ Creators \subseteq Senders
    /\ Length \in [Senders -> Nat \ {0}]
    /\ Nobody \notin Senders \cup {ReadLoop} /\ ReadLoop \notin Senders
    /\ Transports \subseteq {"adapter", "plain"}
    /\ Capacity \in Nat \ {0}
    /\ HeaderSize \in Nat \ {0} /\ BlobSize \in Nat \ {0}
    /\ ServerPackets \in [{"Data", "Signal"} -> Nat]
    /\ Duplex \in BOOLEAN

VARIABLES
    transport,  \* what p.transport is
    down,       \* the connection is lost
    mu,         \* who holds p.mu over several steps
    tmu,        \* who holds t.mu
    pc,         \* where a sender is
    sent,       \* fragments it has written
    id,         \* object ID of its message
    lastID,     \* p.fragmenter's counter
    wire,       \* the data and command packets the client has written
    queued,     \* packets in the pipe to the server, acknowledgements too
    making,     \* the packet the server waits to write, or "none"
    made,       \* packets of each kind it has made
    inbound,    \* packets on their way to readLoop
    loop,       \* readLoop: "receive", "gone", or the packet it answers
    stored,     \* bytes the pool can read
    taken,      \* bytes it has read
    start,      \* the first byte of the fragment being read
    blob,       \* the length its header states
    dispatch,   \* where the dispatch loop is
    state,      \* p.state: "Opened" or "Broken"
    slipped     \* a transient error struck inside a fragment

sending == <<mu, tmu, pc, sent, id, lastID, wire, queued>>
server == <<making, made>>
reading == <<taken, start, blob, dispatch, state, slipped>>
vars == <<transport, down, mu, tmu, pc, sent, id, lastID, wire, queued,
          making, made, inbound, loop, stored, taken, start, blob,
          dispatch, state, slipped>>

ServerKinds == DOMAIN ServerPackets
Size == HeaderSize + BlobSize
offered == made["Data"] * Size      \* bytes the server has begun to send
Full == queued = Capacity
Data(s) == [kind |-> "Data", from |-> s, n |-> sent[s] + 1, id |-> id[s]]
Command(s) == [kind |-> "Command", from |-> s]

\* readLoop has read a packet and owes the answer.
Answering == loop \in ServerKinds

\* A pipeline of a multiplexed transport is announced by a Command packet,
\* outside p.mu, before CreatePipeline returns it to the caller.
First(s) == IF s \in Creators /\ transport = "adapter" THEN "command" ELSE "lock"

Init ==
    /\ transport \in Transports /\ down = FALSE
    /\ mu = Nobody /\ tmu = Nobody
    /\ pc = [s \in Senders |-> First(s)] /\ sent = [s \in Senders |-> 0]
    /\ id = [s \in Senders |-> 0] /\ lastID = 0
    /\ wire = <<>> /\ queued = 0 /\ inbound = <<>>
    /\ making = "none" /\ made = [kind \in ServerKinds |-> 0]
    /\ loop = IF transport = "adapter" THEN "receive" ELSE "gone"
    /\ stored = 0 /\ taken = 0 /\ start = 0 /\ blob = 0
    /\ dispatch = "top" /\ state = "Opened" /\ slipped = FALSE

-----------------------------------------------------------------------------
(* sendMessage.                                                             *)

\* p.mu.Lock and prepareMessage: Fragment increments before it uses the ID.
Lock(s) ==
    /\ pc[s] = "lock" /\ mu = Nobody
    /\ mu' = s
    /\ lastID' = lastID + 1 /\ id' = [id EXCEPT ![s] = lastID + 1]
    /\ pc' = [pc EXCEPT ![s] = "send"]
    /\ UNCHANGED <<transport, down, tmu, sent, wire, queued, server, inbound,
                   loop, stored, reading>>

Return(s, result) ==
    /\ pc' = [pc EXCEPT ![s] = result]
    /\ mu' = IF mu = s THEN Nobody ELSE mu

Finish(s) ==
    /\ pc[s] = "send" /\ sent[s] = Length[s]
    /\ Return(s, "ok")
    /\ UNCHANGED <<transport, down, tmu, sent, id, lastID, wire, queued, server,
                   inbound, loop, stored, reading>>

\* The context is tested before every fragment, and never again after the
\* last; a blocked Write does not look at it.
ContextDone(s) ==
    /\ pc[s] = "send" /\ sent[s] < Length[s]
    /\ Return(s, "error")
    /\ UNCHANGED <<transport, down, tmu, sent, id, lastID, wire, queued, server,
                   inbound, loop, stored, reading>>

\* The context is not done; SendCommand and SendDataWithStream take t.mu,
\* Write of a plain connection takes no lock of the library's.
Acquire(s) ==
    /\ \/ pc[s] = "command"
       \/ pc[s] = "send" /\ sent[s] < Length[s]
    /\ transport = "adapter" => tmu = Nobody
    /\ tmu' = IF transport = "adapter" THEN s ELSE tmu
    /\ pc' = [pc EXCEPT ![s] = IF @ = "command" THEN "announce" ELSE "write"]
    /\ UNCHANGED <<transport, down, mu, sent, id, lastID, wire, queued, server,
                   inbound, loop, stored, reading>>

Release(s) == tmu' = IF tmu = s THEN Nobody ELSE tmu

WriteCommand(s) ==
    /\ pc[s] = "announce" /\ ~Full /\ ~down
    /\ wire' = Append(wire, Command(s)) /\ queued' = queued + 1
    /\ Release(s)
    /\ pc' = [pc EXCEPT ![s] = "lock"]
    /\ UNCHANGED <<transport, down, mu, sent, id, lastID, server, inbound,
                   loop, stored, reading>>

\* Mutant of WriteFragment: p.mu is held for one fragment at a time.
WriteFragmentAlone(s) ==
    /\ pc[s] = "write" /\ ~Full /\ ~down
    /\ \/ mu = s
       \/ mu = Nobody
    /\ wire' = Append(wire, Data(s)) /\ queued' = queued + 1
    /\ sent' = [sent EXCEPT ![s] = @ + 1]
    /\ Release(s)
    /\ pc' = [pc EXCEPT ![s] = "send"]
    /\ mu' = Nobody
    /\ UNCHANGED <<transport, down, id, lastID, server, inbound, loop,
                   stored, reading>>

\* Write or SendPipelineData of one fragment.
WriteFragment(s) ==
    /\ pc[s] = "write" /\ ~Full /\ ~down
    /\ wire' = Append(wire, Data(s)) /\ queued' = queued + 1
    /\ sent' = [sent EXCEPT ![s] = @ + 1]
    /\ Release(s)
    /\ pc' = [pc EXCEPT ![s] = "send"]
    /\ UNCHANGED <<transport, down, mu, id, lastID, server, inbound, loop,
                   stored, reading>>

\* Mutant of WriteFails: the error path forgets to unlock t.mu.
WriteFailsLocked(s) ==
    /\ pc[s] \in {"announce", "write"} /\ down
    /\ Return(s, "error")
    /\ UNCHANGED <<transport, down, tmu, sent, id, lastID, wire, queued, server,
                   inbound, loop, stored, reading>>

\* Mutant of WriteFails: the error of the last Write is overlooked.
WriteFailsLast(s) ==
    /\ pc[s] \in {"announce", "write"} /\ down
    /\ Return(s, IF sent[s] + 1 = Length[s] THEN "ok" ELSE "error")
    /\ Release(s)
    /\ UNCHANGED <<transport, down, sent, id, lastID, wire, queued, server,
                   inbound, loop, stored, reading>>

\* The connection is lost, also under a Write that was blocked.
WriteFails(s) ==
    /\ pc[s] \in {"announce", "write"} /\ down
    /\ Return(s, "error")
    /\ Release(s)
    /\ UNCHANGED <<transport, down, sent, id, lastID, wire, queued, server,
                   inbound, loop, stored, reading>>

-----------------------------------------------------------------------------
(* The server and the connection.                                           *)

ServerRead ==
    /\ queued > 0 /\ ~down
    /\ Duplex \/ making = "none"
    /\ queued' = queued - 1
    /\ UNCHANGED <<transport, down, mu, tmu, pc, sent, id, lastID, wire, server,
                   inbound, loop, stored, reading>>

\* A data packet carries one fragment.  Signal stands for the packets that are
\* answered and carry nothing (Signal, Close).  Acknowledgements, which
\* readLoop does not answer, are left to OutOfProcAdapter.
ServerMakes(kind) ==
    /\ making = "none" /\ made[kind] < ServerPackets[kind] /\ ~down
    /\ transport = "plain" => kind = "Data"
    /\ making' = kind /\ made' = [made EXCEPT ![kind] = @ + 1]
    /\ UNCHANGED <<transport, down, sending, inbound, loop, stored, reading>>

\* The bytes of a plain connection are read by the pool itself, in pieces.
ServerWrites ==
    /\ making # "none" /\ ~down
    /\ IF transport = "adapter"
       THEN /\ Len(inbound) < Capacity
            /\ inbound' = Append(inbound, making) /\ making' = "none"
            /\ UNCHANGED stored
       ELSE /\ \E n \in 1 .. (offered - stored) :
                  /\ stored' = stored + n
                  /\ making' = IF stored + n = offered THEN "none" ELSE making
            /\ UNCHANGED inbound
    /\ UNCHANGED <<transport, down, sending, made, loop, reading>>

Break ==
    /\ ~down
    /\ down' = TRUE
    /\ UNCHANGED <<transport, sending, server, inbound, loop, stored, reading>>

-----------------------------------------------------------------------------
(* readLoop.                                                                *)

LoopReceive ==
    /\ loop = "receive" /\ inbound # <<>>
    /\ inbound' = Tail(inbound)
    /\ loop' = Head(inbound)
    /\ UNCHANGED <<transport, down, sending, server, stored, reading>>

LoopFail ==
    /\ loop = "receive" /\ inbound = <<>> /\ down
    /\ loop' = "gone"
    /\ UNCHANGED <<transport, down, sending, server, inbound, stored, reading>>

LoopAcquire ==
    /\ Answering /\ tmu = Nobody
    /\ tmu' = ReadLoop
    /\ UNCHANGED <<transport, down, mu, pc, sent, id, lastID, wire, queued, server,
                   inbound, loop, stored, reading>>

\* The acknowledgement comes first, and its error is ignored; then the data
\* is appended to a.pending.
LoopAnswer ==
    /\ Answering /\ tmu = ReadLoop
    /\ \/ down /\ UNCHANGED queued
       \/ ~down /\ ~Full /\ queued' = queued + 1
    /\ tmu' = Nobody
    /\ stored' = IF loop = "Data" THEN stored + Size ELSE stored
    /\ loop' = "receive"
    /\ UNCHANGED <<transport, down, mu, pc, sent, id, lastID, wire, server,
                   inbound, reading>>

-----------------------------------------------------------------------------
(* receiveMessage and the dispatch loop.                                    *)

Aligned == start % Size = 0
Needed == IF dispatch = "header" THEN start + HeaderSize - taken
                                 ELSE start + HeaderSize + blob - taken
Available == IF Needed < stored - taken THEN Needed ELSE stored - taken
NoData == dispatch \in {"header", "blob"} /\ stored = taken
LoopTop ==
    /\ dispatch = "top" /\ mu = Nobody
    /\ dispatch' = IF state = "Broken" THEN "gone" ELSE "header"
    /\ UNCHANGED <<transport, down, sending, server, inbound, loop, stored, taken,
                   start, blob, state, slipped>>

\* What the header at start says of its blob; bytes that are no header say
\* anything, also more than maxFragmentBlobLen.
TooLong == 2 * Size
Lengths == IF Aligned THEN {BlobSize} ELSE {0, BlobSize, TooLong}

\* Mutant of ReadBytes: Read in place of io.ReadFull, whatever it returns.
ReadBytesOnce ==
    /\ dispatch \in {"header", "blob"} /\ stored > taken
    /\ taken' = taken + Available
    /\ IF dispatch = "header"
       THEN blob' = BlobSize /\ dispatch' = "blob" /\ UNCHANGED start
       ELSE start' = taken + Available /\ blob' = 0 /\ dispatch' \in {"header", "deliver"}
    /\ UNCHANGED <<transport, down, sending, server, inbound, loop, stored, state, slipped>>

\* io.ReadFull of the header, then of the blob if there is one.  A fragment
\* completes a message or not; one that is none may be refused by Decode, by
\* the assembler or by messages.Decode, or pass.
ReadBytes ==
    /\ dispatch \in {"header", "blob"} /\ stored > taken
    /\ taken' = taken + Available
    /\ IF Available < Needed THEN UNCHANGED <<start, blob, dispatch>>
       ELSE IF dispatch = "header"
       THEN /\ blob' \in Lengths
            /\ dispatch' = IF blob' = TooLong THEN "fail" ELSE "blob"
            /\ UNCHANGED start
       ELSE /\ start' = taken + Available /\ blob' = 0
            /\ dispatch' \in {"header", "deliver"} \cup (IF Aligned THEN {} ELSE {"fail"})
    /\ UNCHANGED <<transport, down, sending, server, inbound, loop, stored, state, slipped>>

\* A blob of length zero is not read.
ReadNothing ==
    /\ dispatch = "blob" /\ Needed = 0
    /\ start' = taken /\ blob' = 0
    /\ dispatch' \in {"header", "deliver", "fail"}
    /\ UNCHANGED <<transport, down, sending, server, inbound, loop, stored, taken,
                   state, slipped>>

\* The dispatch loop logs and routes the message.
Deliver ==
    /\ dispatch = "deliver" /\ mu = Nobody
    /\ dispatch' = "top"
    /\ UNCHANGED <<transport, down, sending, server, inbound, loop, stored, taken,
                   start, blob, state, slipped>>

\* An error that the dispatch loop takes for transient: what was read of the
\* fragment is forgotten.
Transient ==
    /\ mu = Nobody
    /\ dispatch' = IF state = "Broken" THEN "gone" ELSE "top"
    /\ start' = taken /\ blob' = 0
    /\ slipped' = (slipped \/ taken # start)
    /\ UNCHANGED <<taken, state>>

Fatal == dispatch' = "fail" /\ UNCHANGED <<taken, start, blob, state, slipped>>

\* Mutant of Timeout: the loop ends.
TimeoutEnds ==
    /\ transport = "plain" /\ NoData /\ mu = Nobody
    /\ dispatch' = "gone" /\ UNCHANGED <<taken, start, blob, state, slipped>>
    /\ UNCHANGED <<transport, down, sending, server, inbound, loop, stored>>

\* A deadline the user has set on the connection expires: a net.Error.
Timeout ==
    /\ transport = "plain" /\ NoData
    /\ Transient
    /\ UNCHANGED <<transport, down, sending, server, inbound, loop, stored>>

\* Thirty seconds without data: the adapter's error is no net.Error.
Idle ==
    /\ transport = "adapter" /\ NoData /\ loop # "gone"
    /\ Fatal
    /\ UNCHANGED <<transport, down, sending, server, inbound, loop, stored>>

\* The connection is lost.  io.ReadFull turns an EOF after some of its bytes
\* into ErrUnexpectedEOF; other errors are fatal too.
Lost ==
    /\ NoData /\ down /\ loop = "gone"
    /\ \/ Fatal
       \/ taken \in {start, start + HeaderSize} /\ Transient
    /\ UNCHANGED <<transport, down, sending, server, inbound, loop, stored>>

\* handleTransportError takes p.mu.
BreakPool ==
    /\ dispatch = "fail" /\ mu = Nobody
    /\ state' = "Broken" /\ dispatch' = "gone"
    /\ UNCHANGED <<transport, down, sending, server, inbound, loop, stored, taken,
                   start, blob, slipped>>

-----------------------------------------------------------------------------
\* The steps of one goroutine each.
SenderStep(s) ==
    \/ Lock(s) \/ Acquire(s) \/ Finish(s)
    \/ WriteCommand(s) \/ WriteFragment(s) \/ WriteFails(s)
ReadLoopStep == LoopReceive \/ LoopAcquire \/ LoopAnswer
DispatchStep == LoopTop \/ ReadBytes \/ ReadNothing \/ Deliver \/ BreakPool

Next ==
    \/ \E s \in Senders : SenderStep(s) \/ ContextDone(s)
    \/ ServerRead \/ ServerWrites \/ Break
    \/ \E kind \in ServerKinds : ServerMakes(kind)
    \/ ReadLoopStep \/ LoopFail
    \/ DispatchStep \/ Timeout \/ Idle \/ Lost

\* A goroutine that can run does, a mutex that is released again and again is
\* given to everyone who waits for it (strong fairness of a goroutine's
\* steps), and the server goes on reading and ends the writes it began.
\* Nothing makes a timer expire or the connection fail.
Fairness ==
    /\ \A s \in Senders : SF_vars(SenderStep(s))
    /\ SF_vars(ReadLoopStep) /\ SF_vars(DispatchStep)
    /\ WF_vars(ServerRead) /\ WF_vars(ServerWrites)

Spec == Init /\ [][Next]_vars /\ Fairness

-----------------------------------------------------------------------------
IsData(packet) == packet.kind = "Data"
Written(s) == Cardinality({i \in DOMAIN wire : IsData(wire[i]) /\ wire[i].from = s})

\* The data packets of the wire are numbered in the messages they belong to; q
\* carries the fragment after p's.
Follows(p, q) == q.from = p.from /\ q.id = p.id /\ q.n = p.n + 1

\* The fragments of a message lie on the wire one after the other, with no data
\* of another between them, object IDs grow from message to message, and a
\* pipeline's data follows its Command packet: what p.mu over the loop of
\* sendMessage, and t.mu over a packet, are for.
MessagesInTurn ==
    \A i \in DOMAIN wire : IsData(wire[i]) =>
        /\ \/ /\ wire[i].n = 1
              /\ \A j \in 1 .. (i - 1) : IsData(wire[j]) => wire[j].id < wire[i].id
           \/ \E j \in 1 .. (i - 1) :
                 /\ IsData(wire[j]) /\ Follows(wire[j], wire[i])
                 /\ \A k \in (j + 1) .. (i - 1) : ~IsData(wire[k])
        /\ transport = "adapter" /\ wire[i].from \in Creators =>
              \E j \in 1 .. (i - 1) : wire[j] = Command(wire[i].from)

\* A sendMessage that returns nil has written its whole message, and one that
\* returns an error has not: whatever the context, the connection and the
\* other senders do, the caller is not misled.
ReturnTellsTheTruth ==
    \A s \in Senders :
        /\ Written(s) = sent[s]
        /\ pc[s] = "ok" => Written(s) = Length[s]
        /\ pc[s] = "error" => Written(s) < Length[s]

\* The pool keeps its place in the stream of fragments however the bytes come
\* in pieces: over the adapter always, over a plain connection unless a
\* transient error strikes inside a fragment.  Only such a slip, or a lost
\* connection, breaks a pool over a plain connection.
FramingKept ==
    /\ transport = "adapter" => Aligned /\ ~slipped
    /\ transport = "plain" => /\ Aligned \/ slipped
                              /\ state = "Broken" => slipped \/ down

\* With a server that goes on reading, every sendMessage ends: senders,
\* readLoop's acknowledgements and the dispatch loop, which share p.mu, t.mu
\* and two bounded pipes, never wait for one another in a circle.
SendEnds == <>(\A s \in Senders : pc[s] \in {"ok", "error"})

\* With such a server, what the server sends reaches the dispatch loop while
\* senders hold the locks, unless the connection is lost or the pool ends.
DataArrives == offered > taken ~> taken = offered \/ down \/ state = "Broken"
=============================================================================
