------------------------------ MODULE Pipeline ------------------------------
(***************************************************************************)
(* One pipeline of a runspace pool: pipeline/pipeline.go, with the part of  *)
(* the pool's dispatch loop and monitor goroutine that drives it.           *)
(*                                                                         *)
(* The goroutines are: the pool's dispatch loop, which calls HandleMessage *)
(* for one message at a time; the goroutines HandleMessage starts for host *)
(* calls; the callers of Invoke, Stop, SendInput and CloseInput; the       *)
(* callers of Wait; the reader of the output channels; and the monitor     *)
(* goroutine CreatePipeline starts.  Whatever a method does while it holds *)
(* p.mu is one step; what it does after the unlock is another.             *)
(*                                                                         *)
(* The server keeps to the protocol: it sends nothing before it has the    *)
(* CREATE_PIPELINE message and nothing after a state that ends the         *)
(* pipeline.  A message in flight is not represented: the server's choice  *)
(* is made when the dispatch loop receives the message.                    *)
(***************************************************************************)
EXTENDS Integers, Sequences, FiniteSets

CONSTANTS
    Streams,        \* the output channels (outputCh, errorCh, warningCh, ...)
    Capacity,       \* buffer of a channel (100 in the constructors)
    Callers,        \* goroutines that call Invoke, Stop, SendInput, CloseInput
    Waiters,        \* goroutines that call Wait
    Echoes,         \* the states that end nothing the server may report
    SkipInvokeSend, \* CREATE_PIPELINE travelled another way (WSMan arguments)
    MaxSent,        \* bound: records the server sends on one stream
    MaxHostCalls    \* bound: host calls in progress at once

ASSUME PipelineAssumption ==
    /\ IsFiniteSet(Callers)
    /\ Capacity \in Nat \ {0}
    /\ Echoes \subseteq {"NotStarted", "Running", "Stopping"}
    /\ SkipInvokeSend \in BOOLEAN
    /\ MaxSent \in Nat
    /\ MaxHostCalls \in Nat

VARIABLES
    state,      \* p.state
    err,        \* p.err, "nil" or the origin of the error
    done,       \* doneCh and the stream channels are closed
    ctxDone,    \* p.ctx is cancelled
    tracked,    \* the pool's pipelines map still has this pipeline
    buffer,     \* the stream channels: sequences of record numbers
    read,       \* number of the last record the reader took, per stream
    sent,       \* number of the last record the server sent, per stream
    server,     \* the server's side of the pipeline
    received,   \* kinds of message the server has received
    creates,    \* CREATE_PIPELINE messages sent by Invoke
    dispatch,   \* the dispatch loop inside HandleMessage
    hostCalls,  \* host-call goroutines running
    pc,         \* what a caller has still to send
    result,     \* what a Wait returned
    panicked    \* a goroutine sent on a closed channel: the process died

local == <<state, err, done, ctxDone>>
remote == <<server, received, creates>>
streams == <<buffer, read, sent>>
vars == <<state, err, done, ctxDone, tracked, buffer, read, sent, server,
          received, creates, dispatch, hostCalls, pc, result, panicked>>

Terminal == {"Completed", "Failed", "Stopped", "Disconnected"}
States == {"NotStarted", "Running", "Stopping"} \cup Terminal

\* The errors transition(StateFailed, err) is called with, by origin; only
\* the server's own failure and an unreadable state come from the server.
ServerErrors == {"server", "parse"}
LocalErrors == {"send", "full", "cancelled", "hostcall", "pool"}
Errors == ServerErrors \cup LocalErrors

\* Dispatch loop: waiting for a message; blocked in the second select with
\* record n of stream s; or holding the error HandleMessage returned.
Idle == [at |-> "receive"]
Full(s, n) == [at |-> "full", stream |-> s, record |-> n]
Failing(e) == [at |-> "fail", error |-> e]

LastIn(s) == read[s] + Len(buffer[s])

(***************************************************************************)
(* Constructors.  NewWithContext and NewBuilder start NotStarted.  When     *)
(* SkipInvokeSend is set the server has the command before Invoke runs.    *)
(***************************************************************************)
Init ==
    /\ state = "NotStarted" /\ err = "nil" /\ done = FALSE /\ ctxDone = FALSE
    /\ tracked = TRUE
    /\ buffer = [s \in Streams |-> <<>>]
    /\ read = [s \in Streams |-> 0] /\ sent = [s \in Streams |-> 0]
    /\ server = (IF SkipInvokeSend THEN "running" ELSE "none")
    /\ received = {} /\ creates = 0
    /\ dispatch = Idle /\ hostCalls = 0
    /\ pc = [c \in Callers |-> "idle"]
    /\ result = [w \in Waiters |-> "waiting"]
    /\ panicked = FALSE

\* Mutants of transition: without the test of the terminal states, and
\* without the assignment of the error.
transitionUntested(new, e) ==
    /\ state' = new /\ err' = e
    /\ done' = (done \/ new \in Terminal)
    /\ ctxDone' = (ctxDone \/ new \in Terminal)

transitionForgetsError(new, e) ==
    IF state = new \/ state \in Terminal
    THEN UNCHANGED local
    ELSE /\ state' = new /\ err' = err
         /\ done' = (done \/ new \in Terminal)
         /\ ctxDone' = (ctxDone \/ new \in Terminal)

\* transition(newState, err), under p.mu: a state that ends the pipeline is
\* kept; otherwise the first time one is reached every channel is closed.
transition(new, e) ==
    IF state = new \/ state \in Terminal
    THEN UNCHANGED local
    ELSE /\ state' = new
         /\ err' = e
         /\ done' = (done \/ new \in Terminal)
         /\ ctxDone' = (ctxDone \/ new \in Terminal)

-----------------------------------------------------------------------------
(* Callers of Invoke, Stop, SendInput and CloseInput.                       *)

\* Mutant of Invoke: the state is not tested.
InvokeUntested(c) ==
    /\ pc[c] = "idle"
    /\ state' = "Running"
    /\ pc' = (IF SkipInvokeSend THEN pc ELSE [pc EXCEPT ![c] = "create"])
    /\ UNCHANGED <<err, done, ctxDone, tracked, streams, remote, dispatch,
                   hostCalls, result, panicked>>

\* Invoke: the state test and the move to Running are one critical section.
Invoke(c) ==
    /\ pc[c] = "idle" /\ state = "NotStarted"
    /\ state' = "Running"
    /\ pc' = (IF SkipInvokeSend THEN pc ELSE [pc EXCEPT ![c] = "create"])
    /\ UNCHANGED <<err, done, ctxDone, tracked, streams, remote, dispatch,
                   hostCalls, result, panicked>>

Stop(c) ==
    /\ pc[c] = "idle" /\ state = "Running"
    /\ state' = "Stopping"
    /\ pc' = [pc EXCEPT ![c] = "signal"]
    /\ UNCHANGED <<err, done, ctxDone, tracked, streams, remote, dispatch,
                   hostCalls, result, panicked>>

\* SendInput and CloseInput test the state and let go of the lock.
Feed(c, kind) ==
    /\ pc[c] = "idle" /\ state = "Running"
    /\ pc' = [pc EXCEPT ![c] = kind]
    /\ UNCHANGED <<local, tracked, streams, remote, dispatch, hostCalls,
                   result, panicked>>

\* transport.SendMessage succeeds, whatever became of the pipeline meanwhile.
SendOk(c) ==
    /\ pc[c] # "idle"
    /\ received' = received \cup {pc[c]}
    /\ creates' = creates + (IF pc[c] = "create" THEN 1 ELSE 0)
    /\ server' = (IF pc[c] = "create" /\ server = "none" THEN "running" ELSE server)
    /\ pc' = [pc EXCEPT ![c] = "idle"]
    /\ UNCHANGED <<local, tracked, streams, dispatch, hostCalls, result, panicked>>

\* The send (or the serialization before it) fails.  Only Invoke reacts;
\* Stop leaves the pipeline Stopping.
SendFail(c) ==
    /\ pc[c] # "idle"
    /\ IF pc[c] = "create" THEN transition("Failed", "send") ELSE UNCHANGED local
    /\ pc' = [pc EXCEPT ![c] = "idle"]
    /\ UNCHANGED <<tracked, streams, remote, dispatch, hostCalls, result, panicked>>

\* Mutant of Cancel: it closes the channels as well.
CancelCloses ==
    /\ ~ctxDone /\ ctxDone' = TRUE /\ done' = TRUE
    /\ UNCHANGED <<state, err, tracked, streams, remote, dispatch,
                   hostCalls, pc, result, panicked>>

\* Cancel only cancels the context.
Cancel ==
    /\ ~ctxDone /\ ctxDone' = TRUE
    /\ UNCHANGED <<state, err, done, tracked, streams, remote, dispatch,
                   hostCalls, pc, result, panicked>>

-----------------------------------------------------------------------------
(* The dispatch loop: HandleMessage for the messages the server sends.      *)

Receiving == dispatch = Idle /\ tracked /\ server = "running"

\* Mutant of HandleRecord: a full buffer makes room by dropping its oldest record.
HandleRecordDropsOldest(s) ==
    /\ Receiving /\ sent[s] < MaxSent
    /\ sent' = [sent EXCEPT ![s] = @ + 1]
    /\ buffer' = [buffer EXCEPT ![s] = Append(IF Len(@) < Capacity THEN @ ELSE Tail(@),
                                              sent[s] + 1)]
    /\ UNCHANGED <<local, tracked, read, remote, dispatch, hostCalls, pc, result, panicked>>

\* A record of stream s: the select with a default sends it if the buffer has
\* room, the goroutine panics on a closed channel, and is blocked otherwise.
HandleRecord(s) ==
    /\ Receiving /\ sent[s] < MaxSent
    /\ LET n == sent[s] + 1 IN
        /\ sent' = [sent EXCEPT ![s] = n]
        /\ \/ done /\ panicked' = TRUE /\ UNCHANGED <<buffer, dispatch>>
           \/ /\ ~done /\ Len(buffer[s]) < Capacity
              /\ buffer' = [buffer EXCEPT ![s] = Append(@, n)]
              /\ UNCHANGED <<dispatch, panicked>>
           \/ /\ ~done /\ Len(buffer[s]) >= Capacity
              /\ dispatch' = Full(s, n)
              /\ UNCHANGED <<buffer, panicked>>
    /\ UNCHANGED <<local, tracked, read, remote, hostCalls, pc, result>>

\* The second select: the reader makes room ...
ResumeSend ==
    /\ dispatch.at = "full" /\ ~done
    /\ LET s == dispatch.stream IN
        /\ Len(buffer[s]) < Capacity
        /\ buffer' = [buffer EXCEPT ![s] = Append(@, dispatch.record)]
    /\ dispatch' = Idle
    /\ UNCHANGED <<local, tracked, read, sent, remote, hostCalls, pc, result, panicked>>

\* ... or the channel is closed under the blocked sender ...
ResumeClosed ==
    /\ dispatch.at = "full" /\ done
    /\ panicked' = TRUE
    /\ UNCHANGED <<local, tracked, streams, remote, dispatch, hostCalls, pc, result>>

\* Mutants of SendTimeout: the record is dropped without an error, and there
\* is no timer beside the context.
SendTimeoutDrops ==
    /\ dispatch.at = "full"
    /\ dispatch' = Idle
    /\ UNCHANGED <<local, tracked, streams, remote, hostCalls, pc, result, panicked>>

SendTimeoutOnContext ==
    /\ dispatch.at = "full" /\ ctxDone
    /\ dispatch' = Failing("full")
    /\ UNCHANGED <<local, tracked, streams, remote, hostCalls, pc, result, panicked>>

\* ... or the timer fires (ErrBufferFull), or the context is cancelled.
SendTimeout ==
    /\ dispatch.at = "full"
    /\ dispatch' = Failing("full")
    /\ UNCHANGED <<local, tracked, streams, remote, hostCalls, pc, result, panicked>>

SendCancelled ==
    /\ dispatch.at = "full" /\ ctxDone
    /\ dispatch' = Failing("cancelled")
    /\ UNCHANGED <<local, tracked, streams, remote, hostCalls, pc, result, panicked>>

\* The dispatch loop calls Fail with the error HandleMessage returned.
FailDispatch ==
    /\ dispatch.at = "fail"
    /\ transition("Failed", dispatch.error)
    /\ dispatch' = Idle
    /\ UNCHANGED <<tracked, streams, remote, hostCalls, pc, result, panicked>>

\* PIPELINE_STATE 0, 1 or 2: p.state is assigned, whatever it was.
HandleEcho(v) ==
    /\ Receiving
    /\ state' = v
    /\ UNCHANGED <<err, done, ctxDone, tracked, streams, remote, dispatch,
                   hostCalls, pc, result, panicked>>

\* PIPELINE_STATE 3 to 6, an unreadable state (Failed) or one of an unknown
\* shape (Completed).  A server reports Stopped to a SIGNAL only.
HandleEnd(v, e) ==
    /\ Receiving
    /\ v = "Stopped" => "signal" \in received
    /\ server' = "ended"
    /\ transition(v, e)
    /\ UNCHANGED <<tracked, streams, received, creates, dispatch, hostCalls,
                   pc, result, panicked>>

EndReports == {<<"Stopped", "nil">>, <<"Completed", "nil">>, <<"Failed", "server">>,
               <<"Failed", "parse">>, <<"Disconnected", "nil">>}

\* PIPELINE_HOST_CALL: a goroutine per call, none of them waited for.
HandleHostCall ==
    /\ Receiving /\ hostCalls < MaxHostCalls
    /\ hostCalls' = hostCalls + 1
    /\ UNCHANGED <<local, tracked, streams, remote, dispatch, pc, result, panicked>>

\* handleHostCall sends the response under p.ctx, which must not be cancelled.
HostCallOk ==
    /\ hostCalls > 0 /\ ~ctxDone
    /\ hostCalls' = hostCalls - 1
    /\ received' = received \cup {"response"}
    /\ UNCHANGED <<local, tracked, streams, server, creates, dispatch, pc,
                   result, panicked>>

HostCallFail ==
    /\ hostCalls > 0
    /\ hostCalls' = hostCalls - 1
    /\ transition("Failed", "hostcall")
    /\ UNCHANGED <<tracked, streams, remote, dispatch, pc, result, panicked>>

-----------------------------------------------------------------------------
(* The pool around the pipeline, the reader and the callers of Wait.        *)

\* cleanup with an error calls Fail on every pipeline of the map.
PoolFail ==
    /\ tracked
    /\ transition("Failed", "pool")
    /\ UNCHANGED <<tracked, streams, remote, dispatch, hostCalls, pc, result, panicked>>

\* The monitor goroutine: the pipeline is done, or the pool is and the
\* pipeline is cancelled; either way the map entry goes.
Monitor ==
    /\ tracked
    /\ tracked' = FALSE
    /\ \/ done /\ UNCHANGED ctxDone
       \/ ctxDone' = TRUE
    /\ UNCHANGED <<state, err, done, streams, remote, dispatch, hostCalls, pc,
                   result, panicked>>

Read(s) ==
    /\ buffer[s] # <<>>
    /\ read' = [read EXCEPT ![s] = Head(buffer[s])]
    /\ buffer' = [buffer EXCEPT ![s] = Tail(@)]
    /\ UNCHANGED <<local, tracked, sent, remote, dispatch, hostCalls, pc, result, panicked>>

\* Wait: past doneCh, then p.err under the read lock.
WaitDone(w) ==
    /\ result[w] = "waiting" /\ done
    /\ result' = [result EXCEPT ![w] = "woken"]
    /\ UNCHANGED <<local, tracked, streams, remote, dispatch, hostCalls, pc, panicked>>

WaitReturn(w) ==
    /\ result[w] = "woken"
    /\ result' = [result EXCEPT ![w] = err]
    /\ UNCHANGED <<local, tracked, streams, remote, dispatch, hostCalls, pc, panicked>>

Next ==
    /\ ~panicked
    /\ \/ \E c \in Callers : Invoke(c) \/ Stop(c) \/ SendOk(c) \/ SendFail(c)
       \/ \E c \in Callers, kind \in {"input", "eof"} : Feed(c, kind)
       \/ Cancel
       \/ \E s \in Streams : HandleRecord(s) \/ Read(s)
       \/ ResumeSend \/ ResumeClosed \/ SendTimeout \/ SendCancelled \/ FailDispatch
       \/ \E v \in Echoes : HandleEcho(v)
       \/ \E r \in EndReports : HandleEnd(r[1], r[2])
       \/ HandleHostCall \/ HostCallOk \/ HostCallFail
       \/ PoolFail \/ Monitor
       \/ \E w \in Waiters : WaitDone(w) \/ WaitReturn(w)

Spec == Init /\ [][Next]_vars

-----------------------------------------------------------------------------
(* Scheduling the runtime gives: a started goroutine, an expired timer and a *)
(* woken Wait do run.  Nothing is assumed of the reader, of the server, of   *)
(* the callers or of the transport.                                          *)
Fairness ==
    /\ WF_vars(~panicked /\ SendTimeout)
    /\ WF_vars(~panicked /\ FailDispatch)
    /\ \A w \in Waiters : WF_vars(~panicked /\ (WaitDone(w) \/ WaitReturn(w)))

FairSpec == Spec /\ Fairness

-----------------------------------------------------------------------------
(* Types.                                                                   *)

\* Every variable has its type (the fields of the Pipeline struct).
TypeOK ==
    /\ state \in States /\ err \in Errors \cup {"nil"}
    /\ done \in BOOLEAN /\ ctxDone \in BOOLEAN
    /\ tracked \in BOOLEAN /\ panicked \in BOOLEAN
    /\ buffer \in [Streams -> Seq(Nat)]
    /\ read \in [Streams -> Nat] /\ sent \in [Streams -> Nat]
    /\ server \in {"none", "running", "ended"}
    /\ received \subseteq {"create", "signal", "input", "eof", "response"}
    /\ creates \in Nat /\ hostCalls \in Nat
    /\ dispatch \in {Idle} \cup [at : {"full"}, stream : Streams, record : Nat]
                           \cup [at : {"fail"}, error : {"full", "cancelled"}]
    /\ pc \in [Callers -> {"idle", "create", "signal", "input", "eof"}]
    /\ result \in [Waiters -> Errors \cup {"nil", "waiting", "woken"}]

(* Safety.                                                                  *)

\* The records waiting in a channel follow the last one read without a gap.
InOrder(s) == \A i \in 1 .. Len(buffer[s]) : buffer[s][i] = read[s] + i

\* The records of a channel follow the last one read without a gap, and as
\* long as the pipeline is not done nothing the dispatch loop received is
\* missing: HandleMessage drops a record only on the way to Fail.
StreamsComplete ==
    \A s \in Streams :
        /\ InOrder(s)
        /\ Len(buffer[s]) <= Capacity
        /\ ~done /\ dispatch.at = "receive" => sent[s] = LastIn(s)

\* A pipeline that reports Completed or Stopped delivered every record the
\* server sent: a record lost to back-pressure or to Cancel is never followed
\* by a success (transition keeps the first terminal state).
SuccessMeansDelivered ==
    state \in {"Completed", "Stopped"} => \A s \in Streams : sent[s] = LastIn(s)

\* Every Wait that has returned gave the error the pipeline still has, and
\* gave one exactly when the pipeline failed.
WaitOutcome ==
    \A w \in Waiters : result[w] \notin {"waiting", "woken"} =>
        /\ done /\ result[w] = err
        /\ (err = "nil") <=> (state # "Failed")

\* Racing callers of Invoke send CREATE_PIPELINE at most once, and none sends
\* it when it travelled with the WSMan command.
CreatedOnce == creates <= (IF SkipInvokeSend THEN 0 ELSE 1)

\* The dispatch loop sends on a closed channel only after the client itself
\* failed the pipeline: an end reported by the server never makes it panic.
PanicOnlyAfterLocalFailure == panicked => done /\ err \in LocalErrors

\* The process never dies of a send on a closed channel: HandleMessage "will
\* block for up to channelTimeout before returning ErrBufferFull".
NoPanic == ~panicked

(* Action properties.                                                       *)

\* The reader of a stream sees record after record, none twice and none
\* skipped, however slow it is and however the pipeline ends.
NoGapForReader ==
    [][\A s \in Streams : read'[s] # read[s] => read'[s] = read[s] + 1]_vars

\* Once doneCh is closed, neither the state nor the error changes.
OutcomeIsFinal == [][done => UNCHANGED <<state, err>>]_vars

(* Liveness, under Fairness.                                                *)

\* A slow or absent reader holds the dispatch loop for one timeout at most.
DispatcherReleased ==
    (dispatch.at # "receive") ~> (dispatch.at = "receive" \/ panicked)

=============================================================================
