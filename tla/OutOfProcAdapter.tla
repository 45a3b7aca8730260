--------------------------- MODULE OutOfProcAdapter ---------------------------
(***************************************************************************)
(* The out-of-process adapter: outofproc/adapter.go over                    *)
(* outofproc/transport.go.  Its readLoop goroutine turns packets into       *)
(* pending buffers and callbacks; Read, called by the pool's dispatch loop, *)
(* waits for buffers on a channel of capacity one; ClosePipeline swaps the  *)
(* CloseAck callback while it waits, and the user may set it at any time.   *)
(*                                                                         *)
(* The bytes of the server's data packets are numbered in the order they    *)
(* are sent; a packet is the interval from + 1 .. from + size.  Writes to   *)
(* the peer do not block.  What a method does under readMu or handlerMu is  *)
(* one step.                                                                *)
(***************************************************************************)
EXTENDS Integers, Sequences, FiniteSets

CONSTANTS
    Readers,    \* goroutines that call Read
    Closers,    \* pipelines; each has a goroutine that calls ClosePipeline
    Callbacks,  \* what the user sets with SetCloseAckHandler, or
    Nil,        \* none
    Sizes,      \* sizes of data packets; a self-closing <Data/> has none
    MaxBytes,   \* bound: bytes the server sends
    MaxQueue    \* bound: packets on the wire and in the buffers

ASSUME AdapterAssumption ==
    /\ Nil \notin Callbacks
    /\ Sizes \subseteq Nat
    /\ MaxBytes \in Nat /\ MaxQueue \in Nat

VARIABLES
    wire,       \* packets on their way from the server
    total,      \* bytes the server has sent
    asked,      \* pipelines the server has had a Close packet for
    answered,   \* pipelines it has sent a CloseAck for
    loop,       \* the readLoop goroutine
    pending,    \* a.pending
    closed,     \* a.closed
    readErr,    \* a.readErr is set
    notify,     \* a.notifyCh holds a token
    ctxDone,    \* a.ctx is cancelled
    bytes,      \* number of the last byte Read returned
    reader,     \* what a reader is doing
    handler,    \* a.onCloseAck: the ClosePipeline calls it tells, and the
                \* user's callback at the end of the chain
    saved,      \* originalHandler of a ClosePipeline
    acked,      \* its closeAckCh holds a token
    closer,     \* what a ClosePipeline is doing
    user,       \* history: the callback the user set last
    late,       \* history: one was set while a ClosePipeline was under way
    disturbed   \* history: calls under way while another changed onCloseAck

server == <<total, asked, answered>>
buffers == <<pending, closed, readErr>>
history == <<user, late, disturbed>>
closing == <<handler, saved, acked, closer, history>>
vars == <<wire, total, asked, answered, loop, pending, closed, readErr, notify,
          ctxDone, bytes, reader, handler, saved, acked, closer, history>>

Packet(from, size) == [kind |-> "data", from |-> from, size |-> size]
CloseAck(p) == [kind |-> "closeAck", pipeline |-> p]
Other == [kind |-> "other"]

At(place) == [at |-> place]
Storing(packet) == [at |-> "store", packet |-> packet]
Calling(h, p) == [at |-> "call", handler |-> h, pipeline |-> p]
Chain(cs, u) == [calls |-> cs, user |-> u]

\* NewAdapterWithContext starts the readLoop.
Init ==
    /\ wire = <<>> /\ total = 0 /\ asked = {} /\ answered = {}
    /\ loop = At("top")
    /\ pending = <<>> /\ closed = FALSE /\ readErr = FALSE
    /\ notify = FALSE /\ ctxDone = FALSE
    /\ bytes = 0
    /\ reader = [r \in Readers |-> "idle"]
    /\ handler = Chain({}, Nil)
    /\ saved = [c \in Closers |-> Chain({}, Nil)]
    /\ acked = [c \in Closers |-> FALSE]
    /\ closer = [c \in Closers |-> "idle"]
    /\ user = Nil /\ late = FALSE /\ disturbed = {}

-----------------------------------------------------------------------------
(* The server.                                                              *)

SendData(size) ==
    /\ total + size <= MaxBytes /\ Len(wire) + Len(pending) < MaxQueue
    /\ wire' = Append(wire, Packet(total, size))
    /\ total' = total + size
    /\ UNCHANGED <<asked, answered, loop, buffers, notify, ctxDone, bytes, reader, closing>>

SendCloseAck(p) ==
    /\ p \in asked \ answered /\ Len(wire) < MaxQueue
    /\ wire' = Append(wire, CloseAck(p))
    /\ answered' = answered \cup {p}
    /\ UNCHANGED <<total, asked, loop, buffers, notify, ctxDone, bytes, reader, closing>>

\* DataAck, CommandAck, SignalAck, Close or Signal.
SendOther ==
    /\ Len(wire) = 0
    /\ wire' = <<Other>>
    /\ UNCHANGED <<server, loop, buffers, notify, ctxDone, bytes, reader, closing>>

-----------------------------------------------------------------------------
(* readLoop.                                                                *)

LoopTop ==
    /\ loop = At("top")
    /\ loop' = At(IF ctxDone THEN "exit" ELSE "receive")
    /\ UNCHANGED <<wire, server, buffers, notify, ctxDone, bytes, reader, closing>>

\* A data packet is acknowledged first, a CloseAck calls the callback that is
\* set now; the others have no effect here.
LoopReceive ==
    /\ loop = At("receive") /\ wire # <<>>
    /\ wire' = Tail(wire)
    /\ loop' = CASE Head(wire).kind = "data"     -> Storing(Head(wire))
                 [] Head(wire).kind = "closeAck" -> Calling(handler, Head(wire).pipeline)
                 [] Head(wire).kind = "other"    -> At("top")
    /\ UNCHANGED <<server, buffers, notify, ctxDone, bytes, reader, closing>>

\* End of file, a broken connection, or a line parsePacket cannot parse.
LoopFail ==
    /\ loop = At("receive")
    /\ readErr' = TRUE
    /\ loop' = At("notifyError")
    /\ UNCHANGED <<wire, server, pending, closed, notify, ctxDone, bytes, reader, closing>>

LoopStore ==
    /\ loop.at = "store"
    /\ pending' = Append(pending, loop.packet)
    /\ loop' = At("notify")
    /\ UNCHANGED <<wire, server, closed, readErr, notify, ctxDone, bytes, reader, closing>>

\* Mutant of LoopNotify: the token is sent only when nothing else is pending.
LoopNotifyFirst ==
    /\ loop.at \in {"notify", "notifyError", "notifyClosed"}
    /\ notify' = (notify \/ Len(pending) = 1)
    /\ loop' = At(CASE loop.at = "notify"       -> "top"
                    [] loop.at = "notifyError"  -> "exit"
                    [] loop.at = "notifyClosed" -> "gone")
    /\ UNCHANGED <<wire, server, buffers, ctxDone, bytes, reader, closing>>

\* The three non-blocking sends on notifyCh.
LoopNotify ==
    /\ loop.at \in {"notify", "notifyError", "notifyClosed"}
    /\ notify' = TRUE
    /\ loop' = At(CASE loop.at = "notify"       -> "top"
                    [] loop.at = "notifyError"  -> "exit"
                    [] loop.at = "notifyClosed" -> "gone")
    /\ UNCHANGED <<wire, server, buffers, ctxDone, bytes, reader, closing>>

\* The callback that was set calls the one it replaced, and so on; one of a
\* ClosePipeline fills closeAckCh when the acknowledgement is its pipeline's.
LoopCall ==
    /\ loop.at = "call"
    /\ acked' = [c \in Closers |->
                    acked[c] \/ (c = loop.pipeline /\ c \in loop.handler.calls)]
    /\ loop' = At("top")
    /\ UNCHANGED <<wire, server, buffers, notify, ctxDone, bytes, reader, handler,
                   saved, closer, history>>

\* The deferred function.
LoopExit ==
    /\ loop = At("exit")
    /\ closed' = TRUE
    /\ loop' = At("notifyClosed")
    /\ UNCHANGED <<wire, server, pending, readErr, notify, ctxDone, bytes, reader, closing>>

-----------------------------------------------------------------------------
(* Read.                                                                    *)

Deciding == {"idle", "recheck"}
NothingToTell == pending = <<>> /\ ~closed /\ ~readErr

\* Mutant of ReadData: the rest of a buffer is dropped.
ReadDataDrops(r, n) ==
    /\ reader[r] \in Deciding /\ pending # <<>>
    /\ n <= Head(pending).size /\ (n = 0 => Head(pending).size = 0)
    /\ bytes' = Head(pending).from + n
    /\ pending' = Tail(pending)
    /\ reader' = [reader EXCEPT ![r] = "idle"]
    /\ UNCHANGED <<wire, server, loop, closed, readErr, notify, ctxDone, closing>>

\* The first buffer or, when p is shorter, the beginning of it.
ReadData(r, n) ==
    /\ reader[r] \in Deciding /\ pending # <<>>
    /\ n <= Head(pending).size /\ (n = 0 => Head(pending).size = 0)
    /\ bytes' = Head(pending).from + n
    /\ pending' = IF n = Head(pending).size THEN Tail(pending)
                  ELSE <<Packet(Head(pending).from + n, Head(pending).size - n)>>
                          \o Tail(pending)
    /\ reader' = [reader EXCEPT ![r] = "idle"]
    /\ UNCHANGED <<wire, server, loop, closed, readErr, notify, ctxDone, closing>>

\* readErr or, without one, EOF.
ReadEnd(r) ==
    /\ reader[r] \in Deciding /\ pending = <<>> /\ (readErr \/ closed)
    /\ reader' = [reader EXCEPT ![r] = "ended"]
    /\ UNCHANGED <<wire, server, loop, buffers, notify, ctxDone, bytes, closing>>

\* readMu is released for the select.
ReadWait(r) ==
    /\ reader[r] \in Deciding /\ NothingToTell
    /\ reader' = [reader EXCEPT ![r] = "select"]
    /\ UNCHANGED <<wire, server, loop, buffers, notify, ctxDone, bytes, closing>>

ReadNotified(r) ==
    /\ reader[r] = "select" /\ notify
    /\ notify' = FALSE
    /\ reader' = [reader EXCEPT ![r] = "recheck"]
    /\ UNCHANGED <<wire, server, loop, buffers, ctxDone, bytes, closing>>

\* The timer of one second ...
ReadTick(r) ==
    /\ reader[r] = "select"
    /\ reader' = [reader EXCEPT ![r] = "recheck"]
    /\ UNCHANGED <<wire, server, loop, buffers, notify, ctxDone, bytes, closing>>

\* ... the deadline of thirty, which must find nothing ...
ReadTimeout(r) ==
    /\ reader[r] = "recheck" /\ NothingToTell
    /\ reader' = [reader EXCEPT ![r] = "idle"]
    /\ UNCHANGED <<wire, server, loop, buffers, notify, ctxDone, bytes, closing>>

\* ... and the end of the context, which does not look.
ReadCancelled(r) ==
    /\ reader[r] = "select" /\ ctxDone
    /\ reader' = [reader EXCEPT ![r] = "ended"]
    /\ UNCHANGED <<wire, server, loop, buffers, notify, ctxDone, bytes, closing>>

-----------------------------------------------------------------------------
(* Close, SetCloseAckHandler and ClosePipeline.                             *)

Close ==
    /\ ~ctxDone /\ ctxDone' = TRUE
    /\ UNCHANGED <<wire, server, loop, buffers, notify, bytes, reader, closing>>

underWay(c) == closer[c] \notin {"idle", "done", "failed"}

\* Whoever writes a.onCloseAck disturbs the other calls of ClosePipeline.
disturbs(cs) == disturbed' = disturbed \cup {c \in cs : underWay(c)}

\* By the user, at any time; u may be nil.
SetCloseAckHandler(u) ==
    /\ handler' = Chain({}, u)
    /\ user' = u /\ late' = (late \/ \E c \in Closers : underWay(c))
    /\ disturbs(Closers)
    /\ UNCHANGED <<wire, server, loop, buffers, notify, ctxDone, bytes, reader,
                   saved, acked, closer>>

\* originalHandler is read without handlerMu.
ClosePipeline(c) ==
    /\ closer[c] = "idle"
    /\ saved' = [saved EXCEPT ![c] = handler]
    /\ closer' = [closer EXCEPT ![c] = "set"]
    /\ UNCHANGED <<wire, server, loop, buffers, notify, ctxDone, bytes, reader,
                   handler, acked, history>>

\* Mutant of CloseSetHandler: the callback does not call the original one.
CloseSetHandlerAlone(c) ==
    /\ closer[c] = "set"
    /\ handler' = Chain({c}, Nil) /\ disturbs(Closers \ {c})
    /\ closer' = [closer EXCEPT ![c] = "send"]
    /\ UNCHANGED <<wire, server, loop, buffers, notify, ctxDone, bytes, reader,
                   saved, acked, user, late>>

CloseSetHandler(c) ==
    /\ closer[c] = "set"
    /\ handler' = Chain({c} \cup saved[c].calls, saved[c].user)
    /\ disturbs(Closers \ {c})
    /\ closer' = [closer EXCEPT ![c] = "send"]
    /\ UNCHANGED <<wire, server, loop, buffers, notify, ctxDone, bytes, reader,
                   saved, acked, user, late>>

CloseSend(c) ==
    /\ closer[c] = "send"
    /\ asked' = asked \cup {c}
    /\ closer' = [closer EXCEPT ![c] = "wait"]
    /\ UNCHANGED <<wire, total, answered, loop, buffers, notify, ctxDone, bytes,
                   reader, handler, saved, acked, history>>

CloseSendFail(c) ==
    /\ closer[c] = "send"
    /\ closer' = [closer EXCEPT ![c] = "restore"]
    /\ UNCHANGED <<wire, server, loop, buffers, notify, ctxDone, bytes, reader,
                   handler, saved, acked, history>>

CloseAcked(c) ==
    /\ closer[c] = "wait" /\ acked[c]
    /\ closer' = [closer EXCEPT ![c] = "restoreAcked"]
    /\ UNCHANGED <<wire, server, loop, buffers, notify, ctxDone, bytes, reader,
                   handler, saved, acked, history>>

\* The timer of two seconds, or the end of the context.
CloseGiveUp(c) ==
    /\ closer[c] = "wait"
    /\ closer' = [closer EXCEPT ![c] = "restore"]
    /\ UNCHANGED <<wire, server, loop, buffers, notify, ctxDone, bytes, reader,
                   handler, saved, acked, history>>

\* The deferred SetCloseAckHandler(originalHandler), whatever was set meanwhile.
CloseRestore(c) ==
    /\ closer[c] \in {"restore", "restoreAcked"}
    /\ handler' = saved[c] /\ disturbs(Closers \ {c})
    /\ closer' = [closer EXCEPT ![c] = IF @ = "restore" THEN "failed" ELSE "done"]
    /\ UNCHANGED <<wire, server, loop, buffers, notify, ctxDone, bytes, reader,
                   saved, acked, user, late>>

ServerStep ==
    (\E size \in Sizes : SendData(size)) \/ (\E p \in Closers : SendCloseAck(p)) \/ SendOther

LoopStep ==
    LoopTop \/ LoopReceive \/ LoopFail \/ LoopStore \/ LoopNotify \/ LoopCall \/ LoopExit

ReaderStep(r) ==
    \/ \E n \in 0 .. MaxBytes : ReadData(r, n)
    \/ ReadEnd(r) \/ ReadWait(r) \/ ReadNotified(r)
    \/ ReadTick(r) \/ ReadTimeout(r) \/ ReadCancelled(r)

CloserStep(c) ==
    \/ ClosePipeline(c) \/ CloseSetHandler(c) \/ CloseSend(c) \/ CloseSendFail(c)
    \/ CloseAcked(c) \/ CloseGiveUp(c) \/ CloseRestore(c)

Next ==
    \/ ServerStep \/ LoopStep \/ Close
    \/ \E u \in Callbacks \cup {Nil} : SetCloseAckHandler(u)
    \/ \E r \in Readers : ReaderStep(r)
    \/ \E c \in Closers : CloserStep(c)

Spec == Init /\ [][Next]_vars

-----------------------------------------------------------------------------
Packets == [kind : {"data"}, from : 0 .. MaxBytes, size : 0 .. MaxBytes]
Acks == [kind : {"closeAck"}, pipeline : Closers]
Messages == Packets \cup Acks \cup {Other}
Handlers == [calls : SUBSET Closers, user : Callbacks \cup {Nil}]
Places == {"top", "receive", "notify", "notifyError", "exit", "notifyClosed", "gone"}
Loops == [at : Places] \cup [at : {"store"}, packet : Packets]
         \cup [at : {"call"}, handler : Handlers, pipeline : Closers]

\* Every variable has its type.
TypeOK ==
    /\ wire \in Seq(Messages)
    /\ total \in 0 .. MaxBytes /\ bytes \in 0 .. MaxBytes
    /\ asked \subseteq Closers /\ answered \subseteq asked
    /\ loop \in Loops
    /\ pending \in Seq(Packets)
    /\ closed \in BOOLEAN /\ readErr \in BOOLEAN
    /\ notify \in BOOLEAN /\ ctxDone \in BOOLEAN
    /\ reader \in [Readers -> {"idle", "select", "recheck", "ended"}]
    /\ handler \in Handlers /\ saved \in [Closers -> Handlers]
    /\ acked \in [Closers -> BOOLEAN]
    /\ closer \in [Closers -> {"idle", "set", "send", "wait", "restore",
                               "restoreAcked", "done", "failed"}]
    /\ user \in Callbacks \cup {Nil} /\ late \in BOOLEAN /\ disturbed \subseteq Closers

\* Message m, at byte number a of the server's data, ends at number b.
Carries(m, a, b) == IF m.kind = "data" THEN m.from = a /\ b = a + m.size ELSE b = a

\* The messages of s carry the bytes after number a up to number b, in order
\* and without a gap: at[i] is the number that message i ends at.
Stream(s, a, b) ==
    \E at \in [0 .. Len(s) -> 0 .. MaxBytes] :
        /\ at[0] = a /\ at[Len(s)] = b
        /\ \A i \in 1 .. Len(s) : Carries(s[i], at[i - 1], at[i])

\* What the server sent and Read has not returned is still there, in order:
\* in the buffers, in the readLoop's hand, then on the wire.  No byte is lost
\* or read twice, whatever the sizes of packets and reads.
StreamIntact ==
    \E x \in 0 .. MaxBytes :
        /\ Stream(pending, bytes, x)
        /\ \E y \in 0 .. MaxBytes :
            /\ IF loop.at = "store" THEN Carries(loop.packet, x, y) ELSE y = x
            /\ Stream(wire, y, total)

\* With one reader the channel of one token loses no wake-up: a reader in the
\* select for which there is something has a token, or the readLoop is about
\* to send it.
NoLostWakeup ==
    \A r \in Readers : reader[r] = "select" /\ ~NothingToTell =>
        notify \/ loop.at \in {"notify", "notifyError", "notifyClosed"}

\* What ClosePipeline's swapping of callbacks keeps.  The callback the user set
\* last hears every CloseAck, however many calls overlap, as long as none was set
\* while one was under way; a call that saw its CloseAck saw the answer to its own
\* Close; and one that waits and was not disturbed hears its CloseAck.
CallbacksKept ==
    /\ ~late => handler.user = user
    /\ \A c \in Closers : acked[c] \/ closer[c] = "done" => c \in answered
    /\ loop.at = "call" /\ closer[loop.pipeline] = "wait" /\ loop.pipeline \notin disturbed
        => loop.pipeline \in loop.handler.calls

\* "SetCloseAckHandler sets a callback for CloseAck packets": when no
\* ClosePipeline is under way it is the one set last.  The code does not keep
\* this: see the README's disagreements.
LastCallbackHears ==
    (\A c \in Closers : ~underWay(c)) => handler.user = user

\* "ClosePipeline sends a Close message for a specific pipeline and waits for
\* CloseAck": while it waits its CloseAck is handed to it.  The code does not
\* keep this either.
CloseAckReachesWaiter ==
    loop.at = "call" /\ closer[loop.pipeline] = "wait"
        => loop.pipeline \in loop.handler.calls

=============================================================================
