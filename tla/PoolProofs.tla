----------------------------- MODULE PoolProofs -----------------------------
(* Theorems about RunspacePool and PoolPipelines for every number of        *)
(* callers and pipelines and every limit, and about Availability for every  *)
(* number of waiters, every request and every count a server may report.    *)
EXTENDS PoolPipelines, Availability, TLAPS

USE DEF vars, status, history, outside, overwrites, waitVars

-----------------------------------------------------------------------------
(* Types.                                                                   *)

\* cleanup, whoever runs it, leaves the pool's status well typed.
LEMMA CleanupTypes ==
    ASSUME TypeOK, NEW end \in Ended, NEW e \in {"nil", "context"} \cup Causes,
           cleanup(end, e)
    PROVE  /\ state' \in States /\ stateCh' \in {<<>>} \cup {<<s>> : s \in States}
           /\ done' \in BOOLEAN
           /\ cleanupError' \in {"nil", "context"} \cup Causes
BY DEF TypeOK, cleanup, setState, States

\* StartDispatchLoop, by Connect or the user, keeps the loops well typed.
LEMMA StartLoopTypes ==
    ASSUME TypeOK, startLoop
    PROVE  /\ loopStarted' \in BOOLEAN
           /\ loop' \in [Loops -> {"none", "top", "read", "hostcall", "broken", "exited"}]
BY DEF TypeOK, startLoop, Loops

\* A caller's step keeps the types.
LEMMA CallerTypes ==
    ASSUME TypeOK, NEW c \in Callers, CallerStep(c)
    PROVE  TypeOK'
<1> USE DEF TypeOK, Goto, Return, setState, States, BeforeEnd, Ended, Stages, Loops
<1>1. CASE Open(c)
  BY <1>1 DEF Open
<1>2. CASE OpenSend(c)
  BY <1>2 DEF OpenSend
<1>3. CASE OpenDone(c)
  BY <1>3 DEF OpenDone
<1>4. CASE OpenFail(c)
  BY <1>4 DEF OpenFail
<1>5. CASE OpenStartLoop(c)
  BY <1>5 DEF OpenStartLoop
<1>6. CASE Connect(c)
  BY <1>6 DEF Connect
<1>7. CASE ConnectStartLoop(c)
  BY <1>7, StartLoopTypes DEF ConnectStartLoop
<1>8. CASE ConnectSet(c)
  BY <1>8 DEF ConnectSet
<1>9. CASE ConnectSend(c)
  BY <1>9 DEF ConnectSend
<1>10. CASE ConnectCheck(c)
  BY <1>10 DEF ConnectCheck
<1>11. CASE ConnectNotified(c)
  BY <1>11 DEF ConnectNotified
<1>12. CASE ConnectDone(c)
  BY <1>12 DEF ConnectDone
<1>13. CASE ConnectFail(c)
  BY <1>13 DEF ConnectFail
<1>14. CASE Close(c)
  BY <1>14 DEF Close
<1>15. CASE CloseWait(c)
  <2>1. /\ state' \in States /\ stateCh' \in {<<>>} \cup {<<s>> : s \in States}
        /\ done' \in BOOLEAN
        /\ cleanupError' \in {"nil", "context"} \cup Causes
    BY <1>15, CleanupTypes DEF CloseWait
  <2> QED BY <1>15, <2>1 DEF CloseWait
<1>16. CASE CloseCancel(c)
  BY <1>16 DEF CloseCancel
<1>17. CASE Disconnect(c)
  BY <1>17 DEF Disconnect
<1>18. CASE DisconnectTransport(c)
  BY <1>18 DEF DisconnectTransport
<1>19. CASE ResumeOpened(c)
  BY <1>19 DEF ResumeOpened
<1>20. CASE SetTransport(c)
  BY <1>20 DEF SetTransport
<1>21. CASE StartDispatchLoop(c)
  BY <1>21, StartLoopTypes DEF StartDispatchLoop
<1>22. CASE CloseAgain(c)
  BY <1>22 DEF CloseAgain
<1>23. CASE CloseSend(c)
  BY <1>23 DEF CloseSend
<1> QED BY <1>1, <1>2, <1>3, <1>4, <1>5, <1>6, <1>7, <1>8, <1>9, <1>10, <1>11,
           <1>12, <1>13, <1>14, <1>15, <1>16, <1>17, <1>18, <1>19, <1>20, <1>21,
           <1>22, <1>23
        DEF CallerStep

\* A step of a dispatch loop keeps the types.
LEMMA LoopTypes ==
    ASSUME TypeOK, NEW l \in Loops, LoopStep(l)
    PROVE  TypeOK'
<1> USE DEF TypeOK, Step
<1>1. CASE LoopTop(l)
  BY <1>1 DEF LoopTop
<1>2. CASE LoopOpened(l)
  BY <1>2 DEF LoopOpened, setState, States, BeforeEnd
<1>3. CASE LoopEnded(l)
  <2>1. /\ state' \in States /\ stateCh' \in {<<>>} \cup {<<s>> : s \in States}
        /\ done' \in BOOLEAN
        /\ cleanupError' \in {"nil", "context"} \cup Causes
    BY <1>3, CleanupTypes DEF LoopEnded, Ended, Causes
  <2> QED BY <1>3, <2>1 DEF LoopEnded
<1>4. CASE LoopOther(l)
  BY <1>4 DEF LoopOther
<1>5. CASE LoopHostCall(l)
  BY <1>5 DEF LoopHostCall
<1>6. CASE LoopAcquire(l)
  BY <1>6, PoolAssumption DEF LoopAcquire
<1>7. CASE LoopAbandon(l)
  BY <1>7 DEF LoopAbandon
<1>8. CASE LoopTransient(l)
  BY <1>8 DEF LoopTransient
<1>9. CASE LoopFatal(l)
  BY <1>9 DEF LoopFatal
<1>10. CASE LoopBroken(l)
  <2>1. /\ state' \in States /\ stateCh' \in {<<>>} \cup {<<s>> : s \in States}
        /\ done' \in BOOLEAN
        /\ cleanupError' \in {"nil", "context"} \cup Causes
    BY <1>10, CleanupTypes DEF LoopBroken, Ended, Causes
  <2> QED BY <1>10, <2>1 DEF LoopBroken
<1> QED BY <1>1, <1>2, <1>3, <1>4, <1>5, <1>6, <1>7, <1>8, <1>9, <1>10
        DEF LoopStep

\* Any step of the pool keeps the types.
LEMMA StepTypes == TypeOK /\ [Next]_vars => TypeOK'
<1> SUFFICES ASSUME TypeOK, [Next]_vars PROVE TypeOK'
  OBVIOUS
<1>1. CASE \E c \in Callers : CallerStep(c)
  BY <1>1, CallerTypes
<1>2. CASE \E l \in Loops : LoopStep(l)
  BY <1>2, LoopTypes
<1>3. CASE HostCallOk
  BY <1>3, PoolAssumption DEF HostCallOk, TypeOK
<1>4. CASE HostCallFail
  <2>1. /\ state' \in States /\ stateCh' \in {<<>>} \cup {<<s>> : s \in States}
        /\ done' \in BOOLEAN
        /\ cleanupError' \in {"nil", "context"} \cup Causes
    BY <1>4, CleanupTypes DEF HostCallFail, Ended, Causes
  <2> QED BY <1>4, <2>1, PoolAssumption DEF HostCallFail, TypeOK
<1>5. CASE LinkChanges
  BY <1>5 DEF LinkChanges, TypeOK
<1>6. CASE UNCHANGED vars
  BY <1>6 DEF TypeOK
<1> QED BY <1>1, <1>2, <1>3, <1>4, <1>5, <1>6 DEF Next

\* Init gives every variable its type.
LEMMA InitTypes == Init => TypeOK
<1> SUFFICES ASSUME Init PROVE TypeOK
  OBVIOUS
<1>1. hostCalls \in 0 .. HostCallLimit
  BY PoolAssumption DEF Init
<1>2. /\ pc \in [Callers -> Stages]
      /\ returned \in [Callers -> {"none", "nil", "error", "closed", "already", "started"}]
      /\ loop \in [Loops -> {"none", "top", "read", "hostcall", "broken", "exited"}]
  BY DEF Init, Stages
<1> QED BY <1>1, <1>2 DEF Init, TypeOK, States, BeforeEnd

\* Every variable of a pool has its type in every reachable state: neither
\* the one-place stateCh nor hostCallLimiter is ever over its capacity.
THEOREM TypeCorrect == Spec => []TypeOK
BY InitTypes, StepTypes, PTL DEF Spec

-----------------------------------------------------------------------------
(* What Connect and Close return.                                           *)

\* A Close that has not yet run cleanup, or seen that it has run.
ClosingStages == {"close:send", "close:wait"}

\* Who may still tell a caller that the pool is Opened, or that it is closed:
\* p.state, the notification waiting in stateCh, a Close about to cancel, and
\* the Close that has made the pool Closing.
ReturnsInv ==
    /\ TypeOK
    /\ state = "Closed" => done
    /\ state = "Closing" => done \/ \E d \in Callers : pc[d] \in ClosingStages
    /\ state = "Opened" => opened
    /\ stateCh = <<"Opened">> => opened
    /\ \A c \in Callers : pc[c] = "close:cancel" => done
    /\ ReturnsAreTrue

\* A caller's step keeps ReturnsInv.
LEMMA CallerReturns ==
    ASSUME ReturnsInv, TypeOK', NEW c \in Callers, CallerStep(c)
    PROVE  ReturnsInv'
<1> USE DEF ReturnsInv, ReturnsAreTrue, ClosingStages, TypeOK, Goto, Return, setState
<1>1. CASE Open(c)
  BY <1>1 DEF Open
<1>2. CASE OpenSend(c)
  BY <1>2 DEF OpenSend
<1>3. CASE OpenDone(c)
  BY <1>3 DEF OpenDone
<1>4. CASE OpenFail(c)
  BY <1>4 DEF OpenFail
<1>5. CASE OpenStartLoop(c)
  BY <1>5 DEF OpenStartLoop
<1>6. CASE Connect(c)
  BY <1>6 DEF Connect
<1>7. CASE ConnectStartLoop(c)
  BY <1>7 DEF ConnectStartLoop, startLoop
<1>8. CASE ConnectSet(c)
  BY <1>8 DEF ConnectSet
<1>9. CASE ConnectSend(c)
  BY <1>9 DEF ConnectSend
<1>10. CASE ConnectCheck(c)
  BY <1>10 DEF ConnectCheck
<1>11. CASE ConnectNotified(c)
  BY <1>11 DEF ConnectNotified
<1>12. CASE ConnectDone(c)
  BY <1>12 DEF ConnectDone
<1>13. CASE ConnectFail(c)
  BY <1>13 DEF ConnectFail
<1>14. CASE Close(c)
  BY <1>14 DEF Close
<1>15. CASE CloseWait(c)
  BY <1>15 DEF CloseWait, cleanup, Ended
<1>16. CASE CloseCancel(c)
  BY <1>16 DEF CloseCancel
<1>17. CASE Disconnect(c)
  BY <1>17 DEF Disconnect
<1>18. CASE DisconnectTransport(c)
  BY <1>18 DEF DisconnectTransport
<1>19. CASE ResumeOpened(c)
  BY <1>19 DEF ResumeOpened
<1>20. CASE SetTransport(c)
  BY <1>20 DEF SetTransport
<1>21. CASE StartDispatchLoop(c)
  BY <1>21 DEF StartDispatchLoop, startLoop
<1>22. CASE CloseAgain(c)
  BY <1>22 DEF CloseAgain
<1>23. CASE CloseSend(c)
  BY <1>23 DEF CloseSend
<1> QED BY <1>1, <1>2, <1>3, <1>4, <1>5, <1>6, <1>7, <1>8, <1>9, <1>10, <1>11,
           <1>12, <1>13, <1>14, <1>15, <1>16, <1>17, <1>18, <1>19,
           <1>20, <1>21, <1>22, <1>23
        DEF CallerStep

\* A step of a dispatch loop keeps ReturnsInv.
LEMMA LoopReturns ==
    ASSUME ReturnsInv, TypeOK', NEW l \in Loops, LoopStep(l)
    PROVE  ReturnsInv'
<1> USE DEF ReturnsInv, ReturnsAreTrue, ClosingStages, TypeOK, Step, setState
<1>1. CASE LoopTop(l)
  BY <1>1 DEF LoopTop
<1>2. CASE LoopOpened(l)
  BY <1>2 DEF LoopOpened
<1>3. CASE LoopEnded(l)
  BY <1>3 DEF LoopEnded, cleanup
<1>4. CASE LoopOther(l)
  BY <1>4 DEF LoopOther
<1>5. CASE LoopHostCall(l)
  BY <1>5 DEF LoopHostCall
<1>6. CASE LoopAcquire(l)
  BY <1>6 DEF LoopAcquire
<1>7. CASE LoopAbandon(l)
  BY <1>7 DEF LoopAbandon
<1>8. CASE LoopTransient(l)
  BY <1>8 DEF LoopTransient
<1>9. CASE LoopFatal(l)
  BY <1>9 DEF LoopFatal
<1>10. CASE LoopBroken(l)
  BY <1>10 DEF LoopBroken, cleanup
<1> QED BY <1>1, <1>2, <1>3, <1>4, <1>5, <1>6, <1>7, <1>8, <1>9, <1>10
        DEF LoopStep

\* What Close and Connect return is true, in every reachable state: a Close that
\* waited has closed doneCh and cancelled the context, one that found the pool
\* closing leaves another at work or the pool ended, and a Connect that returns
\* nil does so for a pool that was Opened, with any number of callers.
THEOREM ReturnsCorrect == Spec => []ReturnsAreTrue
<1>1. Init => ReturnsInv
  BY InitTypes DEF Init, ReturnsInv, ReturnsAreTrue
<1>2. ReturnsInv /\ [Next]_vars => ReturnsInv'
  <2> SUFFICES ASSUME ReturnsInv, [Next]_vars PROVE ReturnsInv'
    OBVIOUS
  <2>0. TypeOK'
    BY StepTypes DEF ReturnsInv
  <2> USE DEF ReturnsInv, ReturnsAreTrue, ClosingStages, TypeOK
  <2>1. CASE \E c \in Callers : CallerStep(c)
    BY <2>0, <2>1, CallerReturns
  <2>2. CASE \E l \in Loops : LoopStep(l)
    BY <2>0, <2>2, LoopReturns
  <2>3. CASE HostCallOk
    BY <2>0, <2>3 DEF HostCallOk
  <2>4. CASE HostCallFail
    BY <2>0, <2>4 DEF HostCallFail, cleanup, setState
  <2>5. CASE LinkChanges
    BY <2>0, <2>5 DEF LinkChanges
  <2>6. CASE UNCHANGED vars
    BY <2>0, <2>6
  <2> QED BY <2>1, <2>2, <2>3, <2>4, <2>5, <2>6 DEF Next
<1>3. ReturnsInv => ReturnsAreTrue
  BY DEF ReturnsInv
<1> QED BY <1>1, <1>2, <1>3, PTL DEF Spec

-----------------------------------------------------------------------------
(* The end of the pool.                                                     *)

\* An end that nothing was written over says why.
CauseInv ==
    /\ TypeOK
    /\ ~done => cleanupError = "nil"
    /\ done /\ ~overwritten => \/ state = "Broken" /\ cleanupError \in Causes
                               \/ state = "Closed" /\ cleanupError \in {"nil", "context"}

\* A caller's step keeps CauseInv.
LEMMA CallerCause ==
    ASSUME CauseInv, TypeOK', NEW c \in Callers, CallerStep(c)
    PROVE  CauseInv'
<1> USE DEF CauseInv, TypeOK, setState, Ended, Causes
<1>1. CASE Open(c) \/ OpenSend(c) \/ OpenDone(c) \/ OpenFail(c) \/ OpenStartLoop(c)
  BY <1>1 DEF Open, OpenSend, OpenDone, OpenFail, OpenStartLoop
<1>2. CASE Connect(c) \/ ConnectStartLoop(c) \/ ConnectSet(c) \/ ConnectSend(c) \/ ConnectCheck(c)
  BY <1>2 DEF Connect, ConnectStartLoop, ConnectSet, ConnectSend, ConnectCheck
<1>3. CASE ConnectNotified(c) \/ ConnectDone(c) \/ ConnectFail(c)
  BY <1>3 DEF ConnectNotified, ConnectDone, ConnectFail
<1>4. CASE Close(c) \/ CloseAgain(c) \/ CloseSend(c) \/ CloseWait(c) \/ CloseCancel(c)
  BY <1>4 DEF Close, CloseAgain, CloseSend, CloseWait, CloseCancel, cleanup
<1>5. CASE Disconnect(c) \/ DisconnectTransport(c) \/ ResumeOpened(c) \/ SetTransport(c) \/ StartDispatchLoop(c)
  BY <1>5 DEF Disconnect, DisconnectTransport, ResumeOpened, SetTransport, StartDispatchLoop
<1> QED BY <1>1, <1>2, <1>3, <1>4, <1>5
        DEF CallerStep

\* A step of a dispatch loop keeps CauseInv.
LEMMA LoopCause ==
    ASSUME CauseInv, TypeOK', NEW l \in Loops, LoopStep(l)
    PROVE  CauseInv'
BY DEF CauseInv, TypeOK, setState, Ended, Causes, LoopStep, LoopTop, LoopOpened,
       LoopEnded, LoopOther, LoopHostCall, LoopAcquire, LoopAbandon, LoopTransient,
       LoopFatal, LoopBroken, cleanup

\* Any step of the pool keeps CauseInv.
LEMMA StepCause == CauseInv /\ [Next]_vars => CauseInv'
<1> SUFFICES ASSUME CauseInv, [Next]_vars PROVE CauseInv'
  OBVIOUS
<1>0. TypeOK'
  BY StepTypes DEF CauseInv
<1>1. CASE \E c \in Callers : CallerStep(c)
  BY <1>0, <1>1, CallerCause
<1>2. CASE \E l \in Loops : LoopStep(l)
  BY <1>0, <1>2, LoopCause
<1>3. CASE HostCallOk \/ HostCallFail
  BY <1>0, <1>3 DEF HostCallOk, HostCallFail, cleanup, setState, Causes, CauseInv, TypeOK
<1>4. CASE LinkChanges
  BY <1>0, <1>4 DEF LinkChanges, CauseInv
<1>5. CASE UNCHANGED vars
  BY <1>0, <1>5 DEF CauseInv
<1> QED BY <1>1, <1>2, <1>3, <1>4, <1>5 DEF Next

\* CauseInv holds in every reachable state, however the pool is used.
LEMMA CauseInvariant == Spec => []CauseInv
<1>1. Init => CauseInv
  BY InitTypes DEF Init, CauseInv
<1> QED BY <1>1, StepCause, PTL DEF Spec

\* cleanup's error is assigned once, and an overwritten end stays one.
LEMMA CauseKept ==
    [Next]_vars => /\ done => UNCHANGED <<done, cleanupError>>
                   /\ overwritten \in BOOLEAN => (overwritten => overwritten')
<1> DEFINE Kept == /\ done => UNCHANGED <<done, cleanupError>>
                   /\ overwritten \in BOOLEAN => (overwritten => overwritten')
<1> SUFFICES ASSUME [Next]_vars PROVE Kept
  OBVIOUS
<1>1. ASSUME NEW c \in Callers, CallerStep(c) PROVE Kept
  BY <1>1 DEF CallerStep, Open, OpenSend, OpenDone, OpenFail, OpenStartLoop, Connect,
              ConnectStartLoop, ConnectSet, ConnectSend, ConnectCheck, ConnectNotified,
              ConnectDone, ConnectFail, Close, CloseAgain, CloseSend, CloseWait,
              CloseCancel, Disconnect, DisconnectTransport, ResumeOpened, SetTransport,
              StartDispatchLoop, cleanup
<1>2. ASSUME NEW l \in Loops, LoopStep(l) PROVE Kept
  BY <1>2 DEF LoopStep, LoopTop, LoopOpened, LoopEnded, LoopOther, LoopHostCall,
              LoopAcquire, LoopAbandon, LoopTransient, LoopFatal, LoopBroken, cleanup
<1>3. CASE HostCallOk \/ HostCallFail \/ LinkChanges
  BY <1>3 DEF HostCallOk, HostCallFail, LinkChanges, cleanup
<1>4. CASE UNCHANGED vars
  BY <1>4
<1> QED BY <1>1, <1>2, <1>3, <1>4 DEF Next

\* After doneCh is closed no step writes another cause, and none another state
\* unless it is one that writes over the end, however the pool is used.
THEOREM EndFinal == Spec => EndIsFinal
<1>1. CauseInv /\ CauseInv' /\ [Next]_vars
        => [done => UNCHANGED cleanupError /\ (state' = state \/ overwritten')]_vars
  BY CauseKept DEF CauseInv, TypeOK, Causes
<1> QED BY <1>1, CauseInvariant, PTL DEF Spec, EndIsFinal

\* ResumeOpened and StartDispatchLoop test nothing, so that this is up to their
\* caller: a pool that has ended or whose handshake is under way is not resumed,
\* and no dispatch loop is started before Connect or beside Open, which reads the
\* transport itself.
UsedInTime ==
    /\ ResumeFrom \cap (Ended \cup {"Opening", "Connecting"}) = {}
    /\ StartFrom \cap {"BeforeOpen", "Opening"} = {}

\* A pool that nobody has opened.
NotYetUsed ==
    state = "BeforeOpen" =>
        /\ \A c \in Callers : pc[c] = "idle"
        /\ \A l \in Loops : loop[l] = "none"
        /\ hostCalls = 0 /\ ~done /\ server = "silent"

\* Open has the pool to itself until its handshake is over: there is no loop,
\* no host call and no other method that could end the pool meanwhile.
OpenAlone ==
    \A c \in Callers : pc[c] \in {"open:send", "open:wait"} =>
        /\ state = "Opening" /\ ~done /\ hostCalls = 0
        /\ \A l \in Loops : loop[l] = "none"
        /\ \A d \in Callers : d # c => pc[d] = "idle"
        /\ pc[c] = "open:send" => server = "silent"

\* The server has not heard of the pool until the one Connect has sent.
ConnectAlone ==
    \A c \in Callers : pc[c] \in {"connect:loop", "connect:set", "connect:send"} =>
        /\ pc[c] = "connect:set" => SkipHandshakeSend
        /\ ~SkipHandshakeSend =>
              /\ server = "silent"
              /\ \A d \in Callers : pc[d] \in {"connect:loop", "connect:send"} => d = c

\* While the server owes its Opened only one loop, or none, can take it, nobody
\* closes the pool, and if the pool has ended, but not through a host call, no
\* loop reads on.
BeforeAnswer ==
    ~SkipHandshakeSend /\ server \in {"silent", "answering"} =>
        /\ state \in {"BeforeOpen", "Opening", "Connecting", "Broken"}
        /\ loop["open"] = "none" /\ ~overwritten
        /\ server = "silent" => hostCalls = 0 /\ \A l \in Loops : loop[l] # "hostcall"
        /\ \A c \in Callers : pc[c] \notin {"open:loop", "close:send", "close:wait"}
        /\ done /\ cleanupError # "hostcall" => \A l \in Loops : loop[l] # "read"

\* What is written over an end.
OverwriteInv == overwritten => SkipHandshakeSend \/ cleanupError = "hostcall"

\* The inductive invariant behind EndMatchesCause.
EndInv ==
    /\ CauseInv /\ NotYetUsed /\ OpenAlone /\ ConnectAlone /\ BeforeAnswer
    /\ OverwriteInv

\* A caller's step keeps EndInv.
LEMMA CallerEnd ==
    ASSUME EndInv, CauseInv', UsedInTime, NEW c \in Callers, CallerStep(c)
    PROVE  EndInv'
<1> USE DEF EndInv, NotYetUsed, OpenAlone, ConnectAlone, BeforeAnswer, OverwriteInv,
            CauseInv, TypeOK, Goto, Return, setState, Ended, Causes, Loops
<1>1. CASE Open(c)
  BY <1>1 DEF Open
<1>2. CASE OpenSend(c)
  BY <1>2 DEF OpenSend
<1>3. CASE OpenDone(c)
  BY <1>3 DEF OpenDone
<1>4. CASE OpenFail(c)
  BY <1>4 DEF OpenFail
<1>5. CASE OpenStartLoop(c)
  BY <1>5 DEF OpenStartLoop
<1>6. CASE Connect(c)
  BY <1>6 DEF Connect
<1>7. CASE ConnectStartLoop(c)
  BY <1>7 DEF ConnectStartLoop, startLoop
<1>8. CASE ConnectSet(c)
  BY <1>8 DEF ConnectSet
<1>9. CASE ConnectSend(c)
  BY <1>9 DEF ConnectSend
<1>10. CASE ConnectCheck(c)
  BY <1>10 DEF ConnectCheck
<1>11. CASE ConnectNotified(c)
  BY <1>11 DEF ConnectNotified
<1>12. CASE ConnectDone(c)
  BY <1>12 DEF ConnectDone
<1>13. CASE ConnectFail(c)
  BY <1>13 DEF ConnectFail
<1>14. CASE Close(c)
  BY <1>14 DEF Close
<1>15. CASE CloseWait(c)
  BY <1>15 DEF CloseWait, cleanup
<1>16. CASE CloseCancel(c)
  BY <1>16 DEF CloseCancel
<1>17. CASE Disconnect(c)
  BY <1>17 DEF Disconnect
<1>18. CASE DisconnectTransport(c)
  BY <1>18 DEF DisconnectTransport
<1>19. CASE ResumeOpened(c)
  BY <1>19 DEF ResumeOpened, UsedInTime
<1>20. CASE SetTransport(c)
  BY <1>20 DEF SetTransport
<1>21. CASE StartDispatchLoop(c)
  BY <1>21 DEF StartDispatchLoop, startLoop, UsedInTime
<1>22. CASE CloseAgain(c)
  BY <1>22 DEF CloseAgain
<1>23. CASE CloseSend(c)
  BY <1>23 DEF CloseSend
<1> QED BY <1>1, <1>2, <1>3, <1>4, <1>5, <1>6, <1>7, <1>8, <1>9, <1>10, <1>11,
           <1>12, <1>13, <1>14, <1>15, <1>16, <1>17, <1>18, <1>19,
           <1>20, <1>21, <1>22, <1>23
        DEF CallerStep

\* A step of a dispatch loop keeps EndInv.
LEMMA LoopEnd ==
    ASSUME EndInv, CauseInv', NEW l \in Loops, LoopStep(l)
    PROVE  EndInv'
<1> USE DEF EndInv, NotYetUsed, OpenAlone, ConnectAlone, BeforeAnswer, OverwriteInv,
            CauseInv, TypeOK, Step, setState, Ended, Causes, Loops
<1>1. CASE LoopTop(l)
  BY <1>1 DEF LoopTop
<1>2. CASE LoopOpened(l)
  BY <1>2 DEF LoopOpened
<1>3. CASE LoopEnded(l)
  BY <1>3 DEF LoopEnded, cleanup
<1>4. CASE LoopOther(l)
  BY <1>4 DEF LoopOther
<1>5. CASE LoopHostCall(l)
  BY <1>5 DEF LoopHostCall
<1>6. CASE LoopAcquire(l)
  BY <1>6 DEF LoopAcquire
<1>7. CASE LoopAbandon(l)
  BY <1>7 DEF LoopAbandon
<1>8. CASE LoopTransient(l)
  BY <1>8 DEF LoopTransient
<1>9. CASE LoopFatal(l)
  BY <1>9 DEF LoopFatal
<1>10. CASE LoopBroken(l)
  BY <1>10 DEF LoopBroken, cleanup
<1> QED BY <1>1, <1>2, <1>3, <1>4, <1>5, <1>6, <1>7, <1>8, <1>9, <1>10
        DEF LoopStep

\* Any step of the pool keeps EndInv.
LEMMA StepEnd == UsedInTime /\ EndInv /\ [Next]_vars => EndInv'
<1> SUFFICES ASSUME UsedInTime, EndInv, [Next]_vars PROVE EndInv'
  OBVIOUS
<1>0. CauseInv'
  BY StepCause DEF EndInv
<1>1. CASE \E c \in Callers : CallerStep(c)
  BY <1>0, <1>1, CallerEnd
<1>2. CASE \E l \in Loops : LoopStep(l)
  BY <1>0, <1>2, LoopEnd
<1> USE DEF EndInv, NotYetUsed, OpenAlone, ConnectAlone, BeforeAnswer,
            OverwriteInv, CauseInv, TypeOK
<1>3. CASE HostCallOk
  BY <1>0, <1>3 DEF HostCallOk
<1>4. CASE HostCallFail
  BY <1>0, <1>4 DEF HostCallFail, cleanup, setState, Causes
<1>5. CASE LinkChanges
  BY <1>0, <1>5 DEF LinkChanges
<1>6. CASE UNCHANGED vars
  BY <1>0, <1>6
<1> QED BY <1>1, <1>2, <1>3, <1>4, <1>5, <1>6 DEF Next

\* A new pool satisfies EndInv.
LEMMA InitEnd == Init => EndInv
<1>1. Init => TypeOK
  BY InitTypes
<1> QED BY <1>1 DEF Init, EndInv, NotYetUsed, OpenAlone, ConnectAlone,
                    BeforeAnswer, OverwriteInv, CauseInv, Loops

\* EndInv holds in every reachable state.
LEMMA EndInvariant == ASSUME UsedInTime PROVE Spec => []EndInv
<1>1. EndInv /\ [Next]_vars => EndInv'
  BY StepEnd
<1> QED BY <1>1, InitEnd, PTL DEF Spec

\* After cleanup the state and the error agree, whichever of the dispatch loops,
\* the host calls and the Close calls came first, unless Opened was written over
\* the end; and without SkipHandshakeSend only a host call that failed during
\* Connect lets that happen, if ResumeOpened and StartDispatchLoop are called
\* when their names say.
THEOREM EndCorrect == ASSUME UsedInTime PROVE Spec => []EndMatchesCause
<1>1. EndInv => EndMatchesCause
  BY DEF EndInv, CauseInv, TypeOK, OverwriteInv, EndMatchesCause
<1> QED BY <1>1, EndInvariant, PTL

-----------------------------------------------------------------------------
(* The pool with its pipelines.                                             *)

USE DEF plVars, own, allVars

\* What the pipelines do, seen from the pool, is a step of the pool or none.
LEMMA PoolPart == [NextPP]_allVars => [Next]_vars
BY DEF NextPP, PoolStep, PipelineStep, CreatePipeline, CreateStore, CreateFail,
       CreateMonitor, AdoptPipeline, MonitorWake, MonitorDelete, PipelineFail, Wait,
       WaitReturn, RouteEnd, Next, LoopStep

\* A pool with pipelines is a pool: cleanup's visit to the pipelines, routing and
\* the monitors take no liberty with the pool's own state, so that every
\* theorem about Spec holds of SpecPP.
THEOREM PoolWithPipelinesIsPool == SpecPP => Spec
<1>1. InitPP => Init
  BY DEF InitPP
<1> QED BY <1>1, PoolPart, PTL DEF SpecPP, Spec

\* Cancelling pipelines keeps their types.
LEMMA CancelTypes ==
    ASSUME TypeOKPP, NEW ps, cancelPipelines(ps)
    PROVE  /\ plState' \in [Pipelines -> {"live", "completed", "failed"}]
           /\ plErr' \in [Pipelines -> {"nil", "pool", "server", "local"}]
           /\ plCtx' \in [Pipelines -> BOOLEAN]
<1>1. plCtx' = [p \in Pipelines |-> plCtx[p] \/ p \in ps]
  BY DEF cancelPipelines
<1>2. plCtx' \in [Pipelines -> BOOLEAN]
  BY <1>1, Zenon
<1> QED BY <1>2 DEF cancelPipelines, TypeOKPP

\* Ending pipelines keeps their types.
LEMMA EndTypes ==
    ASSUME TypeOKPP, NEW ps, NEW end \in {"completed", "failed"},
           NEW e \in {"nil", "pool", "server", "local"}, endPipelines(ps, end, e)
    PROVE  /\ plState' \in [Pipelines -> {"live", "completed", "failed"}]
           /\ plErr' \in [Pipelines -> {"nil", "pool", "server", "local"}]
           /\ plCtx' \in [Pipelines -> BOOLEAN]
<1>1. plCtx' = [p \in Pipelines |-> plCtx[p] \/ p \in {q \in ps : ~plDone(q)}]
  BY DEF endPipelines
<1>2. plCtx' \in [Pipelines -> BOOLEAN]
  BY <1>1, Zenon
<1> QED BY <1>2 DEF endPipelines, TypeOKPP

\* Every step of the pool with pipelines keeps the types.
LEMMA StepTypesPP == TypeOKPP /\ [NextPP]_allVars => TypeOKPP'
<1> SUFFICES ASSUME TypeOKPP, [NextPP]_allVars PROVE TypeOKPP'
  OBVIOUS
<1>0. TypeOK'
  BY PoolPart, StepTypes DEF TypeOKPP
<1> USE DEF TypeOKPP
<1>1. ASSUME NEW p \in Pipelines, CreatePipeline(p) PROVE TypeOKPP'
  BY <1>1, <1>0 DEF CreatePipeline
<1>2. ASSUME NEW p \in Pipelines, CreateStore(p) PROVE TypeOKPP'
  BY <1>2, <1>0 DEF CreateStore
<1>3. ASSUME NEW p \in Pipelines, CreateFail(p) PROVE TypeOKPP'
  BY <1>3, <1>0 DEF CreateFail
<1>4. ASSUME NEW p \in Pipelines, CreateMonitor(p) PROVE TypeOKPP'
  BY <1>4, <1>0 DEF CreateMonitor
<1>5. ASSUME NEW p \in Pipelines, AdoptPipeline(p) PROVE TypeOKPP'
  BY <1>5, <1>0 DEF AdoptPipeline
<1>6. ASSUME NEW p \in Pipelines, MonitorWake(p) PROVE TypeOKPP'
  BY <1>6, <1>0, CancelTypes DEF MonitorWake
<1>7. ASSUME NEW p \in Pipelines, MonitorDelete(p) PROVE TypeOKPP'
  BY <1>7, <1>0 DEF MonitorDelete
<1>8. ASSUME NEW p \in Pipelines, PipelineFail(p) PROVE TypeOKPP'
  BY <1>8, <1>0 DEF PipelineFail, endPipelines, plDone
<1>9. ASSUME NEW p \in Pipelines, Wait(p) PROVE TypeOKPP'
  BY <1>9, <1>0 DEF Wait
<1>10. ASSUME NEW p \in Pipelines, WaitReturn(p) PROVE TypeOKPP'
  BY <1>10, <1>0 DEF WaitReturn
<1>11. ASSUME NEW p \in Pipelines, NEW l \in Loops, RouteEnd(l, p) PROVE TypeOKPP'
  BY <1>11, <1>0 DEF RouteEnd, endPipelines
<1>12. CASE PoolStep
  <2>1. /\ plState' \in [Pipelines -> {"live", "completed", "failed"}]
        /\ plErr' \in [Pipelines -> {"nil", "pool", "server", "local"}]
        /\ plCtx' \in [Pipelines -> BOOLEAN]
    BY <1>12, CancelTypes, EndTypes DEF PoolStep, cleanupPipelines
  <2> QED BY <1>12, <1>0, <2>1 DEF PoolStep
<1>13. CASE UNCHANGED allVars
  BY <1>13, <1>0
<1> QED BY <1>1, <1>2, <1>3, <1>4, <1>5, <1>6, <1>7, <1>8, <1>9, <1>10, <1>11,
           <1>12, <1>13 DEF NextPP, PipelineStep

\* Init gives every variable its type.
LEMMA InitTypesPP == InitPP => TypeOKPP
BY InitTypes DEF InitPP, TypeOKPP

\* Every variable of a pool with its pipelines has its type.
THEOREM TypeCorrectPP == SpecPP => []TypeOKPP
BY InitTypesPP, StepTypesPP, PTL DEF SpecPP

\* What happens to every pipeline in one step: an ended one keeps its end, a
\* cancelled one stays cancelled.
LEMMA PipelinesKept ==
    ASSUME TypeOKPP, [NextPP]_allVars, NEW p \in Pipelines
    PROVE  /\ plDone(p) => plDone(p)' /\ plErr'[p] = plErr[p]
           /\ plCtx[p] => plCtx'[p]
<1> USE DEF TypeOKPP, plDone
<1>1. ASSUME NEW q \in Pipelines, PipelineStep(q)
      PROVE  /\ plDone(p) => plDone(p)' /\ plErr'[p] = plErr[p]
             /\ plCtx[p] => plCtx'[p]
  BY <1>1 DEF PipelineStep, CreatePipeline, CreateStore, CreateFail, CreateMonitor,
              AdoptPipeline, MonitorWake, MonitorDelete, PipelineFail, Wait,
              WaitReturn, cancelPipelines, endPipelines
<1>2. ASSUME NEW q \in Pipelines, NEW l \in Loops, RouteEnd(l, q)
      PROVE  /\ plDone(p) => plDone(p)' /\ plErr'[p] = plErr[p]
             /\ plCtx[p] => plCtx'[p]
  BY <1>2 DEF RouteEnd, endPipelines
<1>3. CASE PoolStep
  BY <1>3 DEF PoolStep, cleanupPipelines, cancelPipelines, endPipelines
<1>4. CASE UNCHANGED allVars
  BY <1>4
<1> QED BY <1>1, <1>2, <1>3, <1>4 DEF NextPP

\* p.pipelines and the monitors agree with any number of pipelines: an entry has
\* somebody who will remove it, and a pipeline leaves the map ended or cancelled.
THEOREM EntriesCorrect == SpecPP => []EntriesFollowPipelines
<1>1. InitPP => EntriesFollowPipelines
  BY DEF InitPP, EntriesFollowPipelines
<1>2. TypeOKPP /\ EntriesFollowPipelines /\ [NextPP]_allVars => EntriesFollowPipelines'
  <2> SUFFICES ASSUME TypeOKPP, EntriesFollowPipelines, [NextPP]_allVars,
                      NEW p \in Pipelines
               PROVE  /\ inMap'[p] => \/ create'[p] \in {"stored", "adopted"}
                                      \/ monitor'[p] \in {"select", "delete"}
                      /\ monitor'[p] \in {"delete", "gone"} => plDone(p)' \/ plCtx'[p]
    BY DEF EntriesFollowPipelines
  <2> DEFINE Kept == /\ inMap'[p] => \/ create'[p] \in {"stored", "adopted"}
                                     \/ monitor'[p] \in {"select", "delete"}
                     /\ monitor'[p] \in {"delete", "gone"} => plDone(p)' \/ plCtx'[p]
  <2>0. /\ plDone(p) => plDone(p)'
        /\ plCtx[p] => plCtx'[p]
    BY PipelinesKept
  <2> USE DEF TypeOKPP, EntriesFollowPipelines
  <2>1. ASSUME NEW q \in Pipelines, CreatePipeline(q) \/ CreateStore(q) PROVE Kept
    BY <2>0, <2>1 DEF CreatePipeline, CreateStore
  <2>2. ASSUME NEW q \in Pipelines, CreateFail(q) \/ CreateMonitor(q) PROVE Kept
    BY <2>0, <2>2 DEF CreateFail, CreateMonitor
  <2>3. ASSUME NEW q \in Pipelines, AdoptPipeline(q) PROVE Kept
    BY <2>0, <2>3 DEF AdoptPipeline
  <2>4. ASSUME NEW q \in Pipelines, MonitorWake(q) PROVE Kept
    BY <2>0, <2>4 DEF MonitorWake, cancelPipelines, plDone
  <2>5. ASSUME NEW q \in Pipelines, MonitorDelete(q) PROVE Kept
    BY <2>0, <2>5 DEF MonitorDelete
  <2>6. ASSUME NEW q \in Pipelines, PipelineFail(q) \/ Wait(q) \/ WaitReturn(q) PROVE Kept
    BY <2>0, <2>6 DEF PipelineFail, Wait, WaitReturn
  <2>7. ASSUME NEW q \in Pipelines, NEW l \in Loops, RouteEnd(l, q) PROVE Kept
    BY <2>0, <2>7 DEF RouteEnd
  <2>8. CASE PoolStep
    BY <2>0, <2>8 DEF PoolStep
  <2>9. CASE UNCHANGED allVars
    BY <2>0, <2>9
  <2> QED BY <2>1, <2>2, <2>3, <2>4, <2>5, <2>6, <2>7, <2>8, <2>9
          DEF NextPP, PipelineStep
<1> QED BY <1>1, <1>2, TypeCorrectPP, PTL DEF SpecPP

\* What ties a pipeline's error to the pool's: the pool blames itself only when
\* it broke, and an adopted pipeline, which has no monitor, stays in the map.
SharedInv ==
    /\ TypeOKPP /\ CauseInv /\ PoolErrorIsShared
    /\ \A p \in Pipelines :
        /\ plErr[p] = "pool" => done /\ cleanupError # "nil"
        /\ monitor[p] # "none" => create[p] = "created"
        /\ create[p] = "adopted" => inMap[p]

\* Every step keeps SharedInv.
LEMMA StepShared == SharedInv /\ [NextPP]_allVars => SharedInv'
<1> SUFFICES ASSUME SharedInv, [NextPP]_allVars PROVE SharedInv'
  OBVIOUS
<1>0. TypeOKPP' /\ CauseInv'
  BY StepTypesPP, PoolPart, StepCause DEF SharedInv
<1>a. /\ done => done' /\ cleanupError' = cleanupError
      /\ overwritten => overwritten'
  BY PoolPart, CauseKept DEF SharedInv, CauseInv, TypeOK
<1> DEFINE Kept(p) ==
      /\ plErr'[p] = "pool" => done' /\ cleanupError' # "nil"
      /\ wait'[p] = "pool" => done' /\ cleanupError' # "nil"
      /\ monitor'[p] # "none" => create'[p] = "created"
      /\ create'[p] = "adopted" => inMap'[p]
      /\ done' /\ cleanupError' # "nil" /\ ~overwritten' /\ create'[p] = "adopted"
           => plDone(p)'
<1>b. ASSUME NEW p \in Pipelines PROVE Kept(p)
  <2> USE DEF TypeOKPP, SharedInv, PoolErrorIsShared, plDone
  <2>1. ASSUME NEW q \in Pipelines, CreatePipeline(q) \/ CreateStore(q) PROVE Kept(p)
    BY <2>1 DEF CreatePipeline, CreateStore
  <2>2. ASSUME NEW q \in Pipelines, CreateFail(q) \/ CreateMonitor(q) PROVE Kept(p)
    BY <2>2 DEF CreateFail, CreateMonitor
  <2>3. ASSUME NEW q \in Pipelines, AdoptPipeline(q) PROVE Kept(p)
    <3>1. ~overwritten => ~done
      BY <2>3 DEF AdoptPipeline, CauseInv
    <3> QED BY <2>3, <3>1 DEF AdoptPipeline
  <2>4. ASSUME NEW q \in Pipelines, MonitorWake(q) PROVE Kept(p)
    BY <2>4 DEF MonitorWake, cancelPipelines
  <2>5. ASSUME NEW q \in Pipelines, MonitorDelete(q) PROVE Kept(p)
    BY <2>5 DEF MonitorDelete
  <2>6. ASSUME NEW q \in Pipelines, PipelineFail(q) PROVE Kept(p)
    BY <2>6 DEF PipelineFail, endPipelines
  <2>7. ASSUME NEW q \in Pipelines, Wait(q) \/ WaitReturn(q) PROVE Kept(p)
    BY <2>7 DEF Wait, WaitReturn
  <2>8. ASSUME NEW q \in Pipelines, NEW l \in Loops, RouteEnd(l, q) PROVE Kept(p)
    <3>1. UNCHANGED <<done, cleanupError>>
      BY <2>8 DEF RouteEnd, LoopOther
    <3> QED BY <1>a, <2>8, <3>1 DEF RouteEnd, endPipelines
  <2>9. CASE PoolStep
    <3>1. CASE done' /\ ~done
      BY <2>9, <3>1 DEF PoolStep, cleanupPipelines, Tracked, endPipelines, cancelPipelines
    <3>2. CASE ~(done' /\ ~done)
      BY <1>a, <2>9, <3>2 DEF PoolStep
    <3> QED BY <3>1, <3>2
  <2>10. CASE UNCHANGED allVars
    BY <2>10
  <2> QED BY <2>1, <2>2, <2>3, <2>4, <2>5, <2>6, <2>7, <2>8, <2>9, <2>10
          DEF NextPP, PipelineStep
<1> QED BY <1>0, <1>b DEF SharedInv, PoolErrorIsShared

\* Wait blames the pool only for a pool that broke, and a pool that broke left
\* no adopted pipeline running unless Opened was written over its end, with any
\* number of callers and pipelines and however they use the pool.
THEOREM PoolErrorCorrect == SpecPP => []PoolErrorIsShared
<1>1. InitPP => SharedInv
  <2>1. InitPP => TypeOKPP
    BY InitTypesPP
  <2> QED BY <2>1, InitTypes DEF InitPP, Init, SharedInv, CauseInv, PoolErrorIsShared
<1>2. SharedInv /\ [NextPP]_allVars => SharedInv'
  BY StepShared
<1>3. SharedInv => PoolErrorIsShared
  BY DEF SharedInv
<1> QED BY <1>1, <1>2, <1>3, PTL DEF SpecPP

-----------------------------------------------------------------------------
(* Waiting for idle runspaces (Availability).                               *)

\* Every count is a number.
LEMMA CountsAreNumbers == Counts \cup {0, MaxRunspaces} \subseteq Nat
BY AvailabilityAssumption

\* The larger of two counts is one of them and at least both.
LEMMA LargerIsLarger ==
    ASSUME NEW m \in Nat, NEW n \in Nat
    PROVE  larger(m, n) \in {m, n} /\ larger(m, n) >= m /\ larger(m, n) >= n
BY DEF larger

\* What a call has seen never shrinks when a count arrives, and covers it.
LEMMA RecordCovers ==
    ASSUME WaitTypeOK, NEW n \in Counts \cup {0, MaxRunspaces}, record(n)
    PROVE  /\ best' \in [Waiters -> Counts \cup {0, MaxRunspaces}]
           /\ \A w \in Waiters : best'[w] >= best[w] /\ best'[w] >= n
<1>1. \A w \in Waiters : best[w] \in Counts \cup {0, MaxRunspaces}
  BY DEF WaitTypeOK
<1>2. \A w \in Waiters : /\ larger(best[w], n) \in {best[w], n}
                         /\ larger(best[w], n) >= best[w] /\ larger(best[w], n) >= n
  BY <1>1, LargerIsLarger, CountsAreNumbers
<1> QED BY <1>1, <1>2 DEF record

\* The inductive invariant: a call has seen at least the present count, the
\* count being announced is the present one (InitializeAvailabilityIfNeeded
\* keeps away once a count was reported), and a caller on its fast path has
\* seen enough.
AvailabilityInv ==
    /\ WaitTypeOK
    /\ \A w \in Waiters : best[w] >= available
    /\ announcer # Idle => heard /\ announcer = Announcing(available)
    /\ \A w \in Waiters : waiter[w] \in {"enough", "nil"} => best[w] >= MinRunspaces[w]

\* A new pool satisfies it.
LEMMA InitAvailability == WaitInit => AvailabilityInv
<1> SUFFICES ASSUME WaitInit PROVE AvailabilityInv
  OBVIOUS
<1>1. WaitTypeOK
  BY DEF WaitInit, WaitTypeOK
<1> QED BY <1>1 DEF WaitInit, AvailabilityInv

\* Every step of the dispatch loop, the pool and the waiters keeps it.
LEMMA StepAvailability == AvailabilityInv /\ [WaitNext]_waitVars => AvailabilityInv'
<1> SUFFICES ASSUME AvailabilityInv, [WaitNext]_waitVars PROVE AvailabilityInv'
  OBVIOUS
<1>a. /\ MinRunspaces \in [Waiters -> Nat] /\ available \in Nat
      /\ \A w \in Waiters : best[w] \in Nat
  BY CountsAreNumbers, AvailabilityAssumption DEF AvailabilityInv, WaitTypeOK
<1>b. \A n \in Counts \cup {0, MaxRunspaces} : n \in Nat
  BY CountsAreNumbers
<1> USE DEF AvailabilityInv, WaitTypeOK
<1>1. ASSUME NEW n \in Counts, Report(n) PROVE AvailabilityInv'
  <2>1. /\ best' \in [Waiters -> Counts \cup {0, MaxRunspaces}]
        /\ \A w \in Waiters : best'[w] >= best[w] /\ best'[w] >= n
    BY <1>1, RecordCovers DEF Report
  <2>2. \A w \in Waiters : best'[w] \in Nat
    BY <2>1, <1>b
  <2>3. \A w \in Waiters : waiter'[w] \in {"enough", "nil"} => best'[w] >= MinRunspaces[w]
    BY <1>1, <1>a, <2>1, <2>2 DEF Report
  <2> QED BY <1>1, <2>1, <2>3 DEF Report
<1>2. CASE AnnounceDropped
  BY <1>2 DEF AnnounceDropped
<1>3. CASE InitializeAvailabilityIfNeeded
  <2>1. /\ best' \in [Waiters -> Counts \cup {0, MaxRunspaces}]
        /\ \A w \in Waiters : best'[w] >= best[w] /\ best'[w] >= MaxRunspaces
    BY <1>3, RecordCovers DEF InitializeAvailabilityIfNeeded
  <2>2. \A w \in Waiters : best'[w] \in Nat
    BY <2>1, <1>b
  <2>3. \A w \in Waiters : waiter'[w] \in {"enough", "nil"} => best'[w] >= MinRunspaces[w]
    BY <1>3, <1>a, <2>1, <2>2 DEF InitializeAvailabilityIfNeeded
  <2> QED BY <1>3, <2>1, <2>3 DEF InitializeAvailabilityIfNeeded
<1>4. CASE PoolEnds
  BY <1>4 DEF PoolEnds
<1>5. ASSUME NEW w \in Waiters, Announce(w) PROVE AvailabilityInv'
  <2>1. announcer.count = available
    BY <1>5 DEF Announce, Announcing, Idle
  <2>2. announcer.count >= MinRunspaces[w] => best[w] >= MinRunspaces[w]
    BY <1>a, <2>1
  <2> QED BY <1>5, <2>2 DEF Announce
<1>6. ASSUME NEW w \in Waiters, WaitForAvailability(w) PROVE AvailabilityInv'
  <2>1. available >= available
    BY <1>a
  <2> QED BY <1>6, <2>1 DEF WaitForAvailability
<1>7. ASSUME NEW w \in Waiters, WaitTestState(w) PROVE AvailabilityInv'
  BY <1>7 DEF WaitTestState
<1>8. ASSUME NEW w \in Waiters, WaitSlow(w) PROVE AvailabilityInv'
  <2>1. available >= MinRunspaces[w] => best[w] >= MinRunspaces[w]
    BY <1>a
  <2> QED BY <1>8, <2>1 DEF WaitSlow
<1>9. ASSUME NEW w \in Waiters, WaitPoll(w) PROVE AvailabilityInv'
  <2>1. available >= MinRunspaces[w] => best[w] >= MinRunspaces[w]
    BY <1>a
  <2> QED BY <1>9, <2>1 DEF WaitPoll
<1>10. ASSUME NEW w \in Waiters, WaitCancelled(w) PROVE AvailabilityInv'
  BY <1>10 DEF WaitCancelled
<1>11. CASE UNCHANGED waitVars
  BY <1>11
<1> QED BY <1>1, <1>2, <1>3, <1>4, <1>5, <1>6, <1>7, <1>8, <1>9, <1>10, <1>11
        DEF WaitNext

\* Every variable has its type: the count is one that was reported, or a default
\* of InitializeAvailabilityIfNeeded.
THEOREM WaitTypeCorrect == WaitSpec => []WaitTypeOK
<1>1. AvailabilityInv => WaitTypeOK
  BY DEF AvailabilityInv
<1> QED BY <1>1, InitAvailability, StepAvailability, PTL DEF WaitSpec

\* WaitForAvailability returns nil only when some count between its call and its
\* return sufficed, for any number of waiters and any requests, however late the
\* announcement on availabilityCh came and whoever else took one.
THEOREM NoFalseSuccessCorrect == WaitSpec => []NoFalseSuccess
<1>1. AvailabilityInv => NoFalseSuccess
  BY DEF AvailabilityInv, NoFalseSuccess
<1> QED BY <1>1, InitAvailability, StepAvailability, PTL DEF WaitSpec

\* The count that the dispatch loop announces after it has left availabilityMu is
\* the present one: no default of InitializeAvailabilityIfNeeded, which Connect
\* runs at the same time, comes between.
THEOREM AnnouncedIsPresent ==
    WaitSpec => [](announcer # Idle => announcer = Announcing(available))
<1>1. AvailabilityInv => (announcer # Idle => announcer = Announcing(available))
  BY DEF AvailabilityInv
<1> QED BY <1>1, InitAvailability, StepAvailability, PTL DEF WaitSpec

=============================================================================
