---------------------------- MODULE RunspacePool ----------------------------
(***************************************************************************)
(* The life cycle of a runspace pool: runspace/runspace.go without its      *)
(* pipelines (PoolPipelines adds them).                                     *)
(*                                                                         *)
(* Goroutines call Open, Connect, Close, Disconnect, ResumeOpened,          *)
(* SetTransport and StartDispatchLoop; a dispatch loop reads the transport; *)
(* every pool-level host call has a goroutine of its own.  What a method    *)
(* does under one hold of p.mu is one step.                                 *)
(*                                                                         *)
(* The server keeps to the protocol: it says nothing before it has heard of *)
(* the pool, reports Opened once, in answer to the handshake, and nothing   *)
(* after Closed or Broken.  A read may fail at any time, and must when the  *)
(* transport is down.  A server that does not read stops whoever writes,    *)
(* and with it everybody who needs p.mu (the module Wire has the details).  *)
(***************************************************************************)
EXTENDS Integers, Sequences, FiniteSets

CONSTANTS
    Callers,            \* goroutines that use the pool
    ResumeFrom,         \* states in which a caller uses ResumeOpened
    StartFrom,          \* states in which one uses StartDispatchLoop
    HostCallLimit       \* capacity of hostCallLimiter (64)

BeforeEnd == {"BeforeOpen", "Opening", "Connecting", "Opened", "Closing",
              "Disconnected"}
Ended == {"Closed", "Broken"}
States == BeforeEnd \cup Ended

ASSUME PoolAssumption ==
    /\ ResumeFrom \subseteq States /\ StartFrom \subseteq States
    /\ HostCallLimit \in Nat \ {0}

VARIABLES
    SkipHandshakeSend, \* a field its user sets first: the handshake travels
                    \* with the WSMan requests
    state,          \* p.state
    stateCh,        \* p.stateCh, a channel of capacity one
    done,           \* doneCh is closed: cleanupOnce has run
    cleanupError,   \* p.cleanupError, "nil" or its origin
    ctxDone,        \* p.ctx is cancelled
    loopStarted,    \* p.dispatchLoopStarted
    loop,           \* the dispatch loops, by who started them
    hostCalls,      \* goroutines that hold a slot of hostCallLimiter
    pc,             \* what a caller is doing
    returned,       \* how its last Connect, Close or StartDispatchLoop ended
    opened,         \* the server's Opened, or ResumeOpened, was seen
    overwritten,    \* history: Open, Connect, the dispatch loop or ResumeOpened
                    \* set a state although cleanup had run
    server,         \* the server's side of the pool
    link            \* the transport: "up", "down", or "full": nobody reads

status == <<state, stateCh, done, cleanupError>>
history == <<opened, overwritten>>
outside == <<SkipHandshakeSend, server, link>>
vars == <<SkipHandshakeSend, state, stateCh, done, cleanupError, ctxDone,
          loopStarted, loop, hostCalls, pc, returned, opened, overwritten,
          server, link>>

\* Open ends with a "go dispatchLoop" of its own; Connect and the user start
\* one through StartDispatchLoop, which does so once.
Loops == {"open", "start"}
Stopped == {"none", "exited"}

Init ==
    /\ SkipHandshakeSend \in BOOLEAN
    /\ state = "BeforeOpen" /\ stateCh = <<>> /\ done = FALSE
    /\ cleanupError = "nil" /\ ctxDone = FALSE
    /\ loopStarted = FALSE /\ loop = [l \in Loops |-> "none"]
    /\ hostCalls = 0
    /\ pc = [c \in Callers |-> "idle"] /\ returned = [c \in Callers |-> "none"]
    /\ opened = FALSE /\ overwritten = FALSE
    /\ server = "silent" /\ link = "up"

-----------------------------------------------------------------------------
(* Critical sections shared by the operations.                              *)

\* Mutant of setState: it does not notify.
setStateSilent(s) == state' = s /\ UNCHANGED stateCh

\* setState: the notification is dropped when the channel is full.
setState(s) ==
    /\ state' = s
    /\ stateCh' = (IF stateCh = <<>> THEN <<s>> ELSE stateCh)

\* What is written outside cleanup does not ask whether it has run.
overwrites == overwritten' = (overwritten \/ done)

\* Mutant of cleanup: without the sync.Once.
cleanupAgain(end, e) ==
    /\ setState(end)
    /\ cleanupError' = (IF e = "nil" THEN cleanupError ELSE e)
    /\ done' = TRUE

\* cleanup: the first caller sets the end state and closes doneCh.
cleanup(end, e) ==
    IF done THEN UNCHANGED status
    ELSE /\ setState(end)
         /\ cleanupError' = (IF e = "nil" THEN cleanupError ELSE e)
         /\ done' = TRUE

Goto(c, from, to) == pc[c] = from /\ pc' = [pc EXCEPT ![c] = to]
Return(c, from, r) ==
    /\ Goto(c, from, "idle")
    /\ returned' = [returned EXCEPT ![c] = r]

-----------------------------------------------------------------------------
(* Open.                                                                    *)

Open(c) ==
    /\ Goto(c, "idle", IF SkipHandshakeSend THEN "open:wait" ELSE "open:send")
    /\ state = "BeforeOpen"
    /\ setState("Opening")
    /\ server' = (IF SkipHandshakeSend THEN "answering" ELSE server)
    /\ UNCHANGED <<SkipHandshakeSend, done, cleanupError, ctxDone, loopStarted,
                   loop, hostCalls, returned, history, link>>

\* SESSION_CAPABILITY both ways, then INIT_RUNSPACEPOOL.
OpenSend(c) ==
    /\ Goto(c, "open:send", "open:wait") /\ link = "up"
    /\ server' = "answering"
    /\ UNCHANGED <<SkipHandshakeSend, status, ctxDone, loopStarted, loop, hostCalls,
                   returned, history, link>>

\* waitForOpened reads the transport itself and gets RUNSPACEPOOL_STATE.
OpenDone(c) ==
    /\ Goto(c, "open:wait", IF SkipHandshakeSend THEN "idle" ELSE "open:loop")
    /\ server = "answering" /\ server' = "opened"
    /\ setState("Opened") /\ opened' = TRUE /\ overwrites
    /\ UNCHANGED <<SkipHandshakeSend, done, cleanupError, ctxDone, loopStarted,
                   loop, hostCalls, returned, link>>

\* Any error of the handshake: setBroken, which leaves doneCh alone.
OpenFail(c) ==
    /\ \E stage \in {"open:send", "open:wait"} : Goto(c, stage, "idle")
    /\ setState("Broken") /\ overwrites
    /\ UNCHANGED <<done, cleanupError, ctxDone, loopStarted, loop, hostCalls,
                   returned, opened, outside>>

OpenStartLoop(c) ==
    /\ Goto(c, "open:loop", "idle")
    /\ loopStarted' = TRUE
    /\ loop' = [loop EXCEPT !["open"] = "top"]
    /\ UNCHANGED <<status, ctxDone, hostCalls, returned, history, outside>>

-----------------------------------------------------------------------------
(* Connect.                                                                 *)

\* The state is assigned without setState.
Connect(c) ==
    /\ Goto(c, "idle", "connect:loop")
    /\ state = "BeforeOpen"
    /\ state' = "Connecting"
    /\ server' = (IF SkipHandshakeSend THEN "opened" ELSE server)
    /\ UNCHANGED <<SkipHandshakeSend, stateCh, done, cleanupError, ctxDone,
                   loopStarted, loop, hostCalls, returned, history, link>>

\* StartDispatchLoop, under p.mu.
startLoop ==
    IF loopStarted THEN UNCHANGED <<loopStarted, loop>>
    ELSE loopStarted' = TRUE /\ loop' = [loop EXCEPT !["start"] = "top"]

ConnectStartLoop(c) ==
    /\ Goto(c, "connect:loop",
            IF SkipHandshakeSend THEN "connect:set" ELSE "connect:send")
    /\ startLoop
    /\ UNCHANGED <<status, ctxDone, hostCalls, returned, history, outside>>

\* SkipHandshakeSend: whatever the loop has made of the pool, it is Opened.
ConnectSet(c) ==
    /\ Return(c, "connect:set", "nil")
    /\ setState("Opened") /\ opened' = TRUE /\ overwrites
    /\ UNCHANGED <<done, cleanupError, ctxDone, loopStarted, loop, hostCalls, outside>>

ConnectSend(c) ==
    /\ Goto(c, "connect:send", "connect:check") /\ link = "up"
    /\ server' = "answering"
    /\ UNCHANGED <<SkipHandshakeSend, status, ctxDone, loopStarted, loop, hostCalls,
                   returned, history, link>>

\* Connect's loop: read the state, then select on stateCh, timer, ctx, doneCh.
ConnectCheck(c) ==
    /\ \/ state = "Opened" /\ Return(c, "connect:check", "nil")
       \/ state \in Ended /\ Return(c, "connect:check", "error")
       \/ /\ state \notin Ended \cup {"Opened"}
          /\ Goto(c, "connect:check", "connect:select") /\ UNCHANGED returned
    /\ UNCHANGED <<status, ctxDone, loopStarted, loop, hostCalls, history, outside>>

ConnectNotified(c) ==
    /\ stateCh # <<>> /\ stateCh' = <<>>
    /\ \/ Head(stateCh) = "Opened" /\ Return(c, "connect:select", "nil")
       \/ Head(stateCh) \in Ended /\ Return(c, "connect:select", "error")
       \/ /\ Head(stateCh) \notin Ended \cup {"Opened"}
          /\ Goto(c, "connect:select", "connect:check") /\ UNCHANGED returned
    /\ UNCHANGED <<state, done, cleanupError, ctxDone, loopStarted, loop,
                   hostCalls, history, outside>>

ConnectDone(c) ==
    /\ done /\ Return(c, "connect:select", "error")
    /\ UNCHANGED <<status, ctxDone, loopStarted, loop, hostCalls, history, outside>>

\* A send that fails, the 30 s timer or the caller's context: the pool stays
\* Connecting.
ConnectFail(c) ==
    /\ \E stage \in {"connect:send", "connect:select"} : Return(c, stage, "error")
    /\ UNCHANGED <<status, ctxDone, loopStarted, loop, hostCalls, history, outside>>

-----------------------------------------------------------------------------
(* Close, Disconnect and reconnection.                                      *)

Close(c) ==
    /\ Goto(c, "idle", "close:send")
    /\ state = "Opened"
    /\ setState("Closing")
    /\ UNCHANGED <<done, cleanupError, ctxDone, loopStarted, loop, hostCalls,
                   returned, history, outside>>

\* In Closing or Closed it returns nil at once; elsewhere an error.
CloseAgain(c) ==
    /\ state \in {"Closing", "Closed"}
    /\ Return(c, "idle", "already")
    /\ UNCHANGED <<status, ctxDone, loopStarted, loop, hostCalls, history, outside>>

\* sendMessage returns when the message is written or cannot be; its error is
\* ignored.
CloseSend(c) ==
    /\ Goto(c, "close:send", "close:wait") /\ link # "full"
    /\ UNCHANGED <<status, ctxDone, loopStarted, loop, hostCalls, returned,
                   history, outside>>

\* Mutants of CloseWait: the timer ends the wait without cleanup, and there is
\* no timer.
CloseWaitGivesUp(c) ==
    /\ Goto(c, "close:wait", "close:cancel")
    /\ UNCHANGED <<status, ctxDone, loopStarted, loop, hostCalls, returned,
                   history, outside>>

CloseWaitForServer(c) ==
    /\ Goto(c, "close:wait", "close:cancel")
    /\ done
    /\ UNCHANGED <<status, ctxDone, loopStarted, loop, hostCalls, returned,
                   history, outside>>

\* doneCh, the 100 ms timer or ctx.
CloseWait(c) ==
    /\ Goto(c, "close:wait", "close:cancel")
    /\ \/ done /\ UNCHANGED status
       \/ \E e \in {"nil", "context"} : cleanup("Closed", e)
    /\ UNCHANGED <<ctxDone, loopStarted, loop, hostCalls, returned, history, outside>>

CloseCancel(c) ==
    /\ Return(c, "close:cancel", "closed")
    /\ ctxDone' = TRUE
    /\ UNCHANGED <<status, loopStarted, loop, hostCalls, history, outside>>

\* Mutant of Disconnect: the state is not tested.
DisconnectUntested(c) ==
    /\ Goto(c, "idle", "disconnect")
    /\ setState("Disconnected")
    /\ UNCHANGED <<done, cleanupError, ctxDone, loopStarted, loop, hostCalls,
                   returned, history, outside>>

Disconnect(c) ==
    /\ Goto(c, "idle", "disconnect")
    /\ state = "Opened"
    /\ setState("Disconnected")
    /\ UNCHANGED <<done, cleanupError, ctxDone, loopStarted, loop, hostCalls,
                   returned, history, outside>>

\* The transport, if it is an io.Closer, is closed after the lock is released.
DisconnectTransport(c) ==
    /\ Goto(c, "disconnect", "idle")
    /\ link' \in {link, "down"}
    /\ UNCHANGED <<SkipHandshakeSend, status, ctxDone, loopStarted, loop, hostCalls,
                   returned, history, server>>

\* ResumeOpened tests nothing: the caller does, and may be out of date.
ResumeOpened(c) ==
    /\ pc[c] = "idle" /\ state \in ResumeFrom
    /\ state' = "Opened" /\ opened' = TRUE /\ overwrites
    /\ server' = (IF server = "silent" THEN "opened" ELSE server)
    /\ UNCHANGED <<SkipHandshakeSend, stateCh, done, cleanupError, ctxDone,
                   loopStarted, loop, hostCalls, pc, returned, link>>

SetTransport(c) ==
    /\ pc[c] = "idle" /\ link = "down"
    /\ link' = "up"
    /\ UNCHANGED <<SkipHandshakeSend, status, ctxDone, loopStarted, loop, hostCalls,
                   pc, returned, history, server>>

\* StartDispatchLoop does not look at the state either.
StartDispatchLoop(c) ==
    /\ pc[c] = "idle" /\ state \in StartFrom
    /\ startLoop
    /\ returned' = [returned EXCEPT ![c] = "started"]
    /\ UNCHANGED <<status, ctxDone, hostCalls, pc, history, outside>>

-----------------------------------------------------------------------------
(* The dispatch loop, and the host calls it starts.                         *)

Step(l, from, to) == loop[l] = from /\ loop' = [loop EXCEPT ![l] = to]

LoopTop(l) ==
    /\ Step(l, "top", IF state \in Ended THEN "exited" ELSE "read")
    /\ UNCHANGED <<status, ctxDone, loopStarted, hostCalls, pc, returned,
                   history, outside>>

\* RUNSPACEPOOL_STATE.  Opened is taken at face value.
LoopOpened(l) ==
    /\ Step(l, "read", "top") /\ server = "answering" /\ server' = "opened"
    /\ setState("Opened") /\ opened' = TRUE /\ overwrites
    /\ UNCHANGED <<SkipHandshakeSend, done, cleanupError, ctxDone, loopStarted,
                   hostCalls, pc, returned, link>>

LoopEnded(l) ==
    /\ Step(l, "read", "exited")
    /\ server \in {"answering", "opened"} /\ server' = "ended"
    /\ cleanup("Closed", "nil") \/ cleanup("Broken", "server")
    /\ UNCHANGED <<SkipHandshakeSend, ctxDone, loopStarted, hostCalls, pc, returned,
                   history, link>>

\* A message for a pipeline, for nobody, or that cannot be parsed.
LoopOther(l) ==
    /\ Step(l, "read", "top") /\ server \in {"answering", "opened"}
    /\ UNCHANGED <<status, ctxDone, loopStarted, hostCalls, pc, returned,
                   history, outside>>

\* A host call may come before the answer to the handshake.
LoopHostCall(l) ==
    /\ Step(l, "read", "hostcall") /\ server \in {"answering", "opened"}
    /\ UNCHANGED <<status, ctxDone, loopStarted, hostCalls, pc, returned,
                   history, outside>>

\* A slot of the limiter, or the end of the context.
LoopAcquire(l) ==
    /\ Step(l, "hostcall", "top")
    /\ hostCalls < HostCallLimit /\ hostCalls' = hostCalls + 1
    /\ UNCHANGED <<status, ctxDone, loopStarted, pc, returned, history, outside>>

LoopAbandon(l) ==
    /\ Step(l, "hostcall", "exited") /\ ctxDone
    /\ UNCHANGED <<status, ctxDone, loopStarted, hostCalls, pc, returned,
                   history, outside>>

\* Mutant of LoopTransient: the context is not looked at.
LoopTransientDeaf(l) ==
    /\ \/ Step(l, "read", "exited")
       \/ state \notin Ended \cup {"Disconnected"} /\ Step(l, "read", "top")
    /\ UNCHANGED <<status, ctxDone, loopStarted, hostCalls, pc, returned,
                   history, outside>>

\* EOF, a timeout or a cancellation ends the loop in the states listed only,
\* unless the error says that the connection was closed.
LoopTransient(l) ==
    /\ \/ Step(l, "read", "exited")
       \/ /\ ~ctxDone /\ state \notin Ended \cup {"Disconnected"}
          /\ Step(l, "read", "top")
    /\ UNCHANGED <<status, ctxDone, loopStarted, hostCalls, pc, returned,
                   history, outside>>

\* Any other error ends the pool, unless the context is cancelled already.
LoopFatal(l) ==
    /\ Step(l, "read", IF ctxDone THEN "exited" ELSE "broken")
    /\ UNCHANGED <<status, ctxDone, loopStarted, hostCalls, pc, returned,
                   history, outside>>

LoopBroken(l) ==
    /\ Step(l, "broken", "exited")
    /\ cleanup("Broken", "transport")
    /\ UNCHANGED <<ctxDone, loopStarted, hostCalls, pc, returned, history, outside>>

HostCallOk ==
    /\ hostCalls > 0 /\ hostCalls' = hostCalls - 1
    /\ UNCHANGED <<status, ctxDone, loopStarted, loop, pc, returned, history, outside>>

HostCallFail ==
    /\ hostCalls > 0 /\ hostCalls' = hostCalls - 1
    /\ cleanup("Broken", "hostcall")
    /\ UNCHANGED <<ctxDone, loopStarted, loop, pc, returned, history, outside>>

\* The connection is lost, the server stops reading, or reads on.
LinkChanges ==
    /\ \/ link # "down" /\ link' = "down"
       \/ link = "up" /\ link' = "full"
       \/ link = "full" /\ link' = "up"
    /\ UNCHANGED <<SkipHandshakeSend, status, ctxDone, loopStarted, loop, hostCalls,
                   pc, returned, history, server>>

CallerStep(c) ==
    \/ Open(c) \/ OpenSend(c) \/ OpenDone(c) \/ OpenFail(c) \/ OpenStartLoop(c)
    \/ Connect(c) \/ ConnectStartLoop(c) \/ ConnectSet(c) \/ ConnectSend(c)
    \/ ConnectCheck(c) \/ ConnectNotified(c) \/ ConnectDone(c) \/ ConnectFail(c)
    \/ Close(c) \/ CloseAgain(c) \/ CloseSend(c) \/ CloseWait(c) \/ CloseCancel(c)
    \/ Disconnect(c) \/ DisconnectTransport(c)
    \/ ResumeOpened(c) \/ SetTransport(c) \/ StartDispatchLoop(c)

LoopStep(l) ==
    \/ LoopTop(l) \/ LoopOpened(l) \/ LoopEnded(l) \/ LoopOther(l)
    \/ LoopHostCall(l) \/ LoopAcquire(l) \/ LoopAbandon(l)
    \/ LoopTransient(l) \/ LoopFatal(l) \/ LoopBroken(l)

Next ==
    \/ \E c \in Callers : CallerStep(c)
    \/ \E l \in Loops : LoopStep(l)
    \/ HostCallOk \/ HostCallFail \/ LinkChanges

Spec == Init /\ [][Next]_vars

-----------------------------------------------------------------------------
(* Scheduling the runtime gives: goroutines that can run do, the 100 ms     *)
(* timer of Close fires, and a transport that is down holds finitely many   *)
(* messages, so that a read of it fails in the end.  What needs p.mu needs  *)
(* writes that do not block, whoever writes.  The timer of Connect, a host  *)
(* that answers and a server that says or reads anything are not assumed.   *)
Fairness ==
    /\ \A c \in Callers :
        /\ WF_vars(link # "full" /\ (CloseSend(c) \/ CloseWait(c) \/ CloseCancel(c)))
        /\ WF_vars(ConnectNotified(c))
    /\ \A l \in Loops :
        /\ WF_vars(link # "full" /\ (LoopTop(l) \/ LoopBroken(l)))
        /\ WF_vars(LoopAbandon(l))
        /\ SF_vars(link = "down" /\ (LoopTransient(l) \/ LoopFatal(l)))

FairSpec == Spec /\ Fairness

-----------------------------------------------------------------------------
Stages == {"idle", "open:send", "open:wait", "open:loop", "connect:loop",
           "connect:set", "connect:send", "connect:check", "connect:select",
           "close:send", "close:wait", "close:cancel", "disconnect"}
Causes == {"transport", "server", "hostcall"}

\* Every variable has its type; hostCallLimiter and stateCh keep to their
\* capacities.
TypeOK ==
    /\ SkipHandshakeSend \in BOOLEAN
    /\ state \in States /\ stateCh \in {<<>>} \cup {<<s>> : s \in States}
    /\ done \in BOOLEAN /\ ctxDone \in BOOLEAN
    /\ cleanupError \in {"nil", "context"} \cup Causes
    /\ loopStarted \in BOOLEAN
    /\ loop \in [Loops -> {"none", "top", "read", "hostcall", "broken", "exited"}]
    /\ hostCalls \in 0 .. HostCallLimit
    /\ pc \in [Callers -> Stages]
    /\ returned \in [Callers -> {"none", "nil", "error", "closed", "already", "started"}]
    /\ opened \in BOOLEAN /\ overwritten \in BOOLEAN
    /\ server \in {"silent", "answering", "opened", "ended"}
    /\ link \in {"up", "full", "down"}

\* What a caller is told is true.  A Close that waited has released everything
\* when it returns: doneCh is closed and the context cancelled, whichever of
\* cleanup's callers came first; one that found the pool closing returns while
\* another Close is still at work, or after the end.  Connect succeeds only if
\* the pool was Opened, however late a notification is and however many were
\* dropped by the one-place channel.
ReturnsAreTrue ==
    \A c \in Callers :
        /\ returned[c] = "closed" => done /\ ctxDone
        /\ returned[c] = "already" =>
              done \/ \E d \in Callers : pc[d] \in {"close:send", "close:wait"}
        /\ returned[c] = "nil" => opened

\* What a document says of Close: that it "is authoritative: it stops all world
\* activity and releases all resources immediately".  A second Close returns nil
\* before that: see the README's disagreements.
CloseIsAuthoritative ==
    \A c \in Callers : returned[c] \in {"closed", "already"} => done /\ ctxDone

\* After cleanup the state says why: Broken with its cause, Closed without one
\* (or with that of Close's context), however many callers cleanup had, unless
\* Opened was written over it.  And that happens in two ways only: Connect with
\* SkipHandshakeSend, or a host call that fails before the server has answered
\* Connect.
EndMatchesCause ==
    done => \/ /\ ~overwritten
               /\ \/ state = "Broken" /\ cleanupError \in Causes
                  \/ state = "Closed" /\ cleanupError \in {"nil", "context"}
            \/ overwritten /\ (SkipHandshakeSend \/ cleanupError = "hostcall")

\* Once doneCh is closed no late message, Close, Disconnect or failure gives
\* the pool another cause; and none gives it another state, unless Opened was
\* written over the end.
EndIsFinal ==
    [][done => UNCHANGED cleanupError /\ (state' = state \/ overwritten')]_vars

\* What the package's diagram says of Closed: "Final state".  The code writes
\* Opened over it: see the README's disagreements.
ClosedIsFinal == [][state = "Closed" => state' = "Closed"]_vars

\* "If we are closed, broken, OR disconnected, we stop": the transport that
\* Disconnect closes ends the loop and leaves the pool Disconnected.  The code
\* does not keep this: see the README's disagreements.
DisconnectedIsNotBroken ==
    [][\A l \in Loops : (state = "Disconnected" /\ link = "down" /\ LoopBroken(l))
                         => state' = "Disconnected"]_vars

\* Close ends with everything released although the server never answers: it
\* waits for nothing but its own write and, through p.mu, that of others.  A
\* server that reads nothing on a connection that stays up holds it for good.
CloseReturns ==
    \A c \in Callers :
        (pc[c] \in {"close:send", "close:wait"} /\ link # "full")
            ~> (returned[c] = "closed" \/ link = "full")

\* A Connect that waits is woken when the pool becomes Opened, timer or no
\* timer: the one-place channel loses no wake-up.
ConnectWakes ==
    \A c \in Callers :
        (pc[c] = "connect:select" /\ state = "Opened") ~> (pc[c] # "connect:select")

\* A cancelled pool with a dead transport keeps no dispatch loop.
LoopEnds ==
    \A l \in Loops : (loop[l] \notin Stopped /\ ctxDone /\ link = "down")
                     ~> (loop[l] \in Stopped \/ link # "down")

=============================================================================
