--------------------------- MODULE PipelineProofs ---------------------------
(* Theorems about Pipeline for every value of its constants.                *)
EXTENDS Pipeline, SequenceTheorems, TLAPS

USE DEF vars, local, remote, streams

\* TypeOK is preserved by transition's part of the state.
LEMMA TransitionTypes ==
    ASSUME NEW new \in Terminal, NEW e \in Errors \cup {"nil"},
           TypeOK, transition(new, e)
    PROVE  /\ state' \in States /\ err' \in Errors \cup {"nil"}
           /\ done' \in BOOLEAN /\ ctxDone' \in BOOLEAN
BY DEF transition, Terminal, TypeOK, States

\* Init gives every variable its type.
LEMMA InitTypes == Init => TypeOK
<1> SUFFICES ASSUME Init PROVE TypeOK
  OBVIOUS
<1>1. buffer \in [Streams -> Seq(Nat)]
  BY DEF Init
<1>2. /\ server \in {"none", "running", "ended"}
      /\ done \in BOOLEAN /\ ctxDone \in BOOLEAN
      /\ tracked \in BOOLEAN /\ panicked \in BOOLEAN
      /\ state \in States /\ err \in Errors \cup {"nil"}
  BY DEF Init, States
<1>3. /\ pc \in [Callers -> {"idle", "create", "signal", "input", "eof"}]
      /\ result \in [Waiters -> Errors \cup {"nil", "waiting", "woken"}]
  BY DEF Init
<1>4. /\ read \in [Streams -> Nat] /\ sent \in [Streams -> Nat]
      /\ creates \in Nat /\ hostCalls \in Nat
  BY DEF Init
<1>5. dispatch = Idle /\ received = {}
  BY DEF Init
<1> QED BY <1>1, <1>2, <1>3, <1>4, <1>5 DEF TypeOK

\* Every variable has its type in every reachable state (struct Pipeline).
THEOREM TypeCorrect == Spec => []TypeOK
<1>1. Init => TypeOK
  BY InitTypes
<1>2. TypeOK /\ [Next]_vars => TypeOK'
  <2> SUFFICES ASSUME TypeOK, [Next]_vars PROVE TypeOK'
    OBVIOUS
  <2>1. ASSUME NEW c \in Callers, Invoke(c) PROVE TypeOK'
    BY <2>1 DEF TypeOK, Invoke, States
  <2>2. ASSUME NEW c \in Callers, Stop(c) PROVE TypeOK'
    BY <2>2 DEF TypeOK, Stop, States
  <2>3. ASSUME NEW c \in Callers, NEW kind \in {"input", "eof"}, Feed(c, kind)
        PROVE  TypeOK'
    BY <2>3 DEF TypeOK, Feed
  <2>4. ASSUME NEW c \in Callers, SendOk(c) PROVE TypeOK'
    <3>1. pc[c] \in {"create", "signal", "input", "eof"}
      BY <2>4 DEF TypeOK, SendOk
    <3>2. received' \subseteq {"create", "signal", "input", "eof", "response"}
      BY <2>4, <3>1 DEF TypeOK, SendOk
    <3>3. /\ creates' \in Nat /\ server' \in {"none", "running", "ended"}
          /\ pc' \in [Callers -> {"idle", "create", "signal", "input", "eof"}]
      BY <2>4, <3>1 DEF TypeOK, SendOk
    <3> QED BY <2>4, <3>2, <3>3 DEF TypeOK, SendOk
  <2>5. ASSUME NEW c \in Callers, SendFail(c) PROVE TypeOK'
    <3>1. /\ state' \in States /\ err' \in Errors \cup {"nil"}
          /\ done' \in BOOLEAN /\ ctxDone' \in BOOLEAN
      BY <2>5, TransitionTypes DEF SendFail, Terminal, Errors, LocalErrors, TypeOK
    <3> QED BY <2>5, <3>1 DEF SendFail, TypeOK
  <2>6. ASSUME Cancel PROVE TypeOK'
    BY <2>6 DEF TypeOK, Cancel
  <2>7. ASSUME NEW s \in Streams, HandleRecord(s) PROVE TypeOK'
    <3>1. sent[s] + 1 \in Nat /\ sent' \in [Streams -> Nat]
      BY <2>7 DEF TypeOK, HandleRecord
    <3>2. buffer' \in [Streams -> Seq(Nat)]
      <4>1. Append(buffer[s], sent[s] + 1) \in Seq(Nat)
        BY <3>1 DEF TypeOK
      <4>2. CASE buffer' = buffer
        BY <4>2 DEF TypeOK
      <4>3. CASE buffer' = [buffer EXCEPT ![s] = Append(@, sent[s] + 1)]
        BY <4>1, <4>3 DEF TypeOK
      <4> QED BY <2>7, <4>2, <4>3 DEF HandleRecord
    <3>3. dispatch' \in {dispatch, Full(s, sent[s] + 1)} /\ panicked' \in {panicked, TRUE}
      BY <2>7 DEF HandleRecord
    <3>4. Full(s, sent[s] + 1) \in [at : {"full"}, stream : Streams, record : Nat]
      BY <3>1 DEF Full
    <3>5. /\ UNCHANGED <<local, tracked, read, remote, hostCalls, pc, result>>
      BY <2>7 DEF HandleRecord
    <3>6. panicked' \in BOOLEAN
      BY <3>3 DEF TypeOK
    <3> QED BY <3>1, <3>2, <3>3, <3>4, <3>5, <3>6 DEF TypeOK
  <2>8. ASSUME ResumeSend PROVE TypeOK'
    <3>1. dispatch.stream \in Streams /\ dispatch.record \in Nat
      BY <2>8 DEF ResumeSend, TypeOK, Idle
    <3>2. buffer' \in [Streams -> Seq(Nat)]
      BY <2>8, <3>1 DEF ResumeSend, TypeOK
    <3> QED BY <2>8, <3>2 DEF ResumeSend, TypeOK
  <2>9. ASSUME ResumeClosed PROVE TypeOK'
    BY <2>9 DEF ResumeClosed, TypeOK
  <2>10. ASSUME SendTimeout PROVE TypeOK'
    BY <2>10 DEF SendTimeout, TypeOK, Failing
  <2>11. ASSUME SendCancelled PROVE TypeOK'
    BY <2>11 DEF SendCancelled, TypeOK, Failing
  <2>12. ASSUME FailDispatch PROVE TypeOK'
    <3>1. dispatch.error \in Errors
      BY <2>12 DEF FailDispatch, TypeOK, Idle, Errors, LocalErrors
    <3>2. /\ state' \in States /\ err' \in Errors \cup {"nil"}
          /\ done' \in BOOLEAN /\ ctxDone' \in BOOLEAN
      BY <2>12, <3>1, TransitionTypes DEF FailDispatch, Terminal
    <3> QED BY <2>12, <3>2 DEF FailDispatch, TypeOK
  <2>13. ASSUME NEW v \in Echoes, HandleEcho(v) PROVE TypeOK'
    BY <2>13, PipelineAssumption DEF HandleEcho, TypeOK, States
  <2>14. ASSUME NEW r \in EndReports, HandleEnd(r[1], r[2]) PROVE TypeOK'
    <3>1. r[1] \in Terminal /\ r[2] \in Errors \cup {"nil"}
      BY DEF EndReports, Terminal, Errors, ServerErrors
    <3>2. /\ state' \in States /\ err' \in Errors \cup {"nil"}
          /\ done' \in BOOLEAN /\ ctxDone' \in BOOLEAN
      BY <2>14, <3>1, TransitionTypes DEF HandleEnd
    <3> QED BY <2>14, <3>2 DEF HandleEnd, TypeOK
  <2>15. ASSUME HandleHostCall PROVE TypeOK'
    BY <2>15 DEF HandleHostCall, TypeOK
  <2>16. ASSUME HostCallOk PROVE TypeOK'
    BY <2>16 DEF HostCallOk, TypeOK
  <2>17. ASSUME HostCallFail PROVE TypeOK'
    <3>1. /\ state' \in States /\ err' \in Errors \cup {"nil"}
          /\ done' \in BOOLEAN /\ ctxDone' \in BOOLEAN
      BY <2>17, TransitionTypes DEF HostCallFail, Terminal, Errors, LocalErrors
    <3> QED BY <2>17, <3>1 DEF HostCallFail, TypeOK
  <2>18. ASSUME PoolFail PROVE TypeOK'
    <3>1. /\ state' \in States /\ err' \in Errors \cup {"nil"}
          /\ done' \in BOOLEAN /\ ctxDone' \in BOOLEAN
      BY <2>18, TransitionTypes DEF PoolFail, Terminal, Errors, LocalErrors
    <3> QED BY <2>18, <3>1 DEF PoolFail, TypeOK
  <2>19. ASSUME Monitor PROVE TypeOK'
    BY <2>19 DEF Monitor, TypeOK
  <2>20. ASSUME NEW s \in Streams, Read(s) PROVE TypeOK'
    <3>1. Head(buffer[s]) \in Nat /\ Tail(buffer[s]) \in Seq(Nat)
      BY <2>20 DEF Read, TypeOK
    <3> QED BY <2>20, <3>1 DEF Read, TypeOK
  <2>21. ASSUME NEW w \in Waiters, WaitDone(w) \/ WaitReturn(w) PROVE TypeOK'
    BY <2>21 DEF WaitDone, WaitReturn, TypeOK
  <2>22. CASE UNCHANGED vars
    BY <2>22 DEF TypeOK
  <2> QED
    BY <2>1, <2>2, <2>3, <2>4, <2>5, <2>6, <2>7, <2>8, <2>9, <2>10, <2>11,
       <2>12, <2>13, <2>14, <2>15, <2>16, <2>17, <2>18, <2>19, <2>20, <2>21,
       <2>22 DEF Next
<1> QED BY <1>1, <1>2, PTL DEF Spec

-----------------------------------------------------------------------------
(* The stream channels.  StreamsComplete alone is not inductive: it says    *)
(* nothing of a dispatch loop that is blocked, and the step that calls Fail *)
(* must be known to close the channels.                                     *)

\* The record of a blocked send is the only one sent and not in its channel.
BlockedRecord ==
    ~done /\ dispatch.at = "full" =>
        /\ dispatch.record = sent[dispatch.stream]
        /\ sent[dispatch.stream] = LastIn(dispatch.stream) + 1
        /\ \A s \in Streams \ {dispatch.stream} : sent[s] = LastIn(s)

\* A state that ends the pipeline comes with its channels closed.
StreamsInv ==
    /\ TypeOK
    /\ state \in Terminal => done
    /\ StreamsComplete
    /\ BlockedRecord

\* transition never reopens the channels and leaves them closed.
LEMMA TransitionCloses ==
    ASSUME NEW new \in Terminal, NEW e, TypeOK, state \in Terminal => done,
           transition(new, e)
    PROVE  done'
BY DEF transition, TypeOK

\* A step that leaves the channels and the dispatch loop alone keeps the
\* invariant if it only closes channels, and closes them in a terminal state.
LEMMA StreamsFrame ==
    ASSUME StreamsInv, TypeOK', UNCHANGED <<streams, dispatch>>,
           done => done', (state' \in Terminal) => done'
    PROVE  StreamsInv'
<1>1. \A s \in Streams : (InOrder(s)' <=> InOrder(s)) /\ LastIn(s)' = LastIn(s)
  BY DEF InOrder, LastIn
<1>2. StreamsComplete'
  BY <1>1 DEF StreamsInv, StreamsComplete
<1>3. BlockedRecord'
  <2>1. UNCHANGED LastIn(dispatch.stream)
    BY DEF LastIn
  <2> QED BY <1>1, <2>1 DEF StreamsInv, BlockedRecord
<1> QED BY <1>2, <1>3 DEF StreamsInv

\* A record that finds room is appended with the next number.
LEMMA AppendKeepsOrder ==
    ASSUME TypeOK, NEW s \in Streams, NEW n \in Nat,
           InOrder(s),
           n = LastIn(s) + 1, Len(buffer[s]) < Capacity,
           buffer' = [buffer EXCEPT ![s] = Append(@, n)], read' = read
    PROVE  /\ InOrder(s)'
           /\ Len(buffer'[s]) <= Capacity
           /\ n = LastIn(s)'
           /\ \A t \in Streams \ {s} : buffer'[t] = buffer[t] /\ LastIn(t)' = LastIn(t)
<1>1. buffer'[s] = Append(buffer[s], n) /\ buffer[s] \in Seq(Nat) /\ read[s] \in Nat
  BY DEF TypeOK
<1>2. Len(buffer'[s]) = Len(buffer[s]) + 1 /\ Len(buffer[s]) \in Nat
  BY <1>1
<1>3. ASSUME NEW i \in 1 .. Len(buffer'[s]) PROVE buffer'[s][i] = read'[s] + i
  <2>1. CASE i \in 1 .. Len(buffer[s])
    <3>1. buffer'[s][i] = buffer[s][i]
      BY <1>1, <2>1, AppendProperties
    <3>2. buffer[s][i] = read[s] + i
      BY <2>1 DEF InOrder
    <3> QED BY <3>1, <3>2
  <2>2. CASE i = Len(buffer[s]) + 1
    <3>1. buffer'[s][i] = n
      BY <1>1, <2>2, AppendProperties
    <3>2. n = read[s] + i
      <4>1. n = (read[s] + Len(buffer[s])) + 1
        BY DEF LastIn
      <4>2. read[s] \in Int /\ Len(buffer[s]) \in Int
        BY <1>1, <1>2
      <4> QED BY <2>2, <4>1, <4>2
    <3> QED BY <3>1, <3>2
  <2> QED BY <1>2, <2>1, <2>2
<1>4. \A t \in Streams \ {s} : buffer'[t] = buffer[t] /\ LastIn(t)' = LastIn(t)
  BY DEF TypeOK, LastIn
<1>5. Len(buffer'[s]) <= Capacity
  BY <1>2, PipelineAssumption
<1>6. InOrder(s)'
  BY <1>3 DEF InOrder
<1>7. n = LastIn(s)'
  <2>1. read[s] \in Int /\ Len(buffer[s]) \in Int
    BY <1>1, <1>2
  <2> QED BY <1>2, <2>1 DEF LastIn
<1> QED BY <1>4, <1>5, <1>6, <1>7

\* The reader of s takes the head: the rest still follows the record read.
LEMMA ReadKeepsOrder ==
    ASSUME TypeOK, NEW s \in Streams,
           InOrder(s),
           Read(s)
    PROVE  /\ read'[s] = read[s] + 1
           /\ \A t \in Streams \ {s} : read'[t] = read[t] /\ buffer'[t] = buffer[t]
           /\ Len(buffer'[s]) = Len(buffer[s]) - 1
           /\ InOrder(s)'
           /\ \A t \in Streams : LastIn(t)' = LastIn(t)
<1>1. /\ buffer[s] \in Seq(Nat) /\ buffer[s] # <<>> /\ read[s] \in Nat
      /\ buffer'[s] = Tail(buffer[s]) /\ read'[s] = Head(buffer[s])
      /\ \A t \in Streams \ {s} : read'[t] = read[t] /\ buffer'[t] = buffer[t]
  BY DEF TypeOK, Read
<1>2. Len(buffer[s]) \in Nat \ {0} /\ Head(buffer[s]) = buffer[s][1]
  BY <1>1
<1>3. read'[s] = read[s] + 1
  BY <1>1, <1>2 DEF InOrder
<1>4. Len(buffer'[s]) = Len(buffer[s]) - 1
  BY <1>1
<1>5. ASSUME NEW i \in 1 .. Len(buffer'[s]) PROVE buffer'[s][i] = read'[s] + i
  <2>1. buffer'[s][i] = buffer[s][i + 1] /\ i + 1 \in 1 .. Len(buffer[s])
    BY <1>1, <1>2, <1>4
  <2>2. buffer[s][i + 1] = read[s] + (i + 1)
    BY <2>1 DEF InOrder
  <2>3. i \in Nat
    BY <1>2, <1>4
  <2>4. read[s] + (i + 1) = read'[s] + i
    <3>1. read[s] \in Int /\ i \in Int
      BY <1>1, <2>3
    <3> QED BY <1>3, <3>1
  <2> QED BY <2>1, <2>2, <2>4
<1>6. ASSUME NEW t \in Streams PROVE LastIn(t)' = LastIn(t)
  <2>1. CASE t = s
    <3>1. read'[s] + Len(buffer'[s]) = read[s] + Len(buffer[s])
      BY <1>1, <1>2, <1>3, <1>4
    <3> QED BY <2>1, <3>1 DEF LastIn
  <2>2. CASE t # s
    BY <1>1, <2>2 DEF LastIn
  <2> QED BY <2>1, <2>2
<1> QED BY <1>1, <1>3, <1>4, <1>5, <1>6 DEF InOrder

\* A step leaves the invariant when it only closes channels; the steps below
\* are those that do more.
LEMMA HandleRecordStreams ==
    ASSUME StreamsInv, TypeOK', NEW s \in Streams, HandleRecord(s)
    PROVE  StreamsInv'
<1>1. /\ dispatch = Idle /\ UNCHANGED local /\ read' = read
      /\ sent' = [sent EXCEPT ![s] = sent[s] + 1]
  BY DEF HandleRecord, Receiving
<1>2. \A t \in Streams : ~done => sent[t] = LastIn(t)
  BY <1>1 DEF StreamsInv, StreamsComplete, Idle
<1>3. sent'[s] = sent[s] + 1 /\ \A t \in Streams \ {s} : sent'[t] = sent[t]
  BY <1>1 DEF StreamsInv, TypeOK
<1>4. sent[s] + 1 \in Nat
  BY DEF StreamsInv, TypeOK
<1>5. CASE done /\ UNCHANGED <<buffer, dispatch>>
  <2>1. \A t \in Streams : (InOrder(t)' <=> InOrder(t))
    BY <1>1, <1>5 DEF InOrder
  <2>2. StreamsComplete' /\ BlockedRecord'
    BY <1>1, <1>5, <2>1 DEF StreamsInv, StreamsComplete, BlockedRecord
  <2> QED BY <1>1, <2>2 DEF StreamsInv
<1>6. CASE /\ ~done /\ Len(buffer[s]) < Capacity
           /\ buffer' = [buffer EXCEPT ![s] = Append(@, sent[s] + 1)]
           /\ UNCHANGED <<dispatch, panicked>>
  <2>1. /\ InOrder(s)' /\ Len(buffer'[s]) <= Capacity /\ sent[s] + 1 = LastIn(s)'
        /\ \A t \in Streams \ {s} : buffer'[t] = buffer[t] /\ LastIn(t)' = LastIn(t)
    BY <1>1, <1>2, <1>4, <1>6, AppendKeepsOrder DEF StreamsInv, StreamsComplete
  <2>2. \A t \in Streams \ {s} : InOrder(t)'
    BY <1>1, <2>1 DEF InOrder, StreamsInv, StreamsComplete
  <2>3. StreamsComplete'
    BY <1>1, <1>2, <1>3, <2>1, <2>2 DEF StreamsInv, StreamsComplete
  <2>4. BlockedRecord'
    BY <1>1, <1>6 DEF BlockedRecord, Idle
  <2> QED BY <1>1, <2>3, <2>4 DEF StreamsInv
<1>7. CASE ~done /\ dispatch' = Full(s, sent[s] + 1) /\ UNCHANGED buffer
  <2>1. \A t \in Streams : (InOrder(t)' <=> InOrder(t)) /\ LastIn(t)' = LastIn(t)
    BY <1>1, <1>7 DEF InOrder, LastIn
  <2>2. StreamsComplete'
    BY <1>1, <1>7, <2>1 DEF StreamsInv, StreamsComplete, Full
  <2>3. dispatch'.stream = s /\ dispatch'.record = sent'[s]
    BY <1>3, <1>7 DEF Full
  <2>4. sent'[s] = LastIn(s)' + 1 /\ \A t \in Streams \ {s} : sent'[t] = LastIn(t)'
    BY <1>2, <1>3, <1>7, <2>1
  <2>5. BlockedRecord'
    BY <2>3, <2>4 DEF BlockedRecord
  <2> QED BY <1>1, <2>2, <2>5 DEF StreamsInv
<1> QED BY <1>5, <1>6, <1>7 DEF HandleRecord

LEMMA ResumeSendStreams ==
    ASSUME StreamsInv, TypeOK', ResumeSend
    PROVE  StreamsInv'
<1>1. PICK s \in Streams : s = dispatch.stream
  BY DEF ResumeSend, StreamsInv, TypeOK, Idle
<1>2. /\ ~done /\ UNCHANGED local /\ read' = read /\ sent' = sent
      /\ Len(buffer[s]) < Capacity
      /\ buffer' = [buffer EXCEPT ![s] = Append(@, dispatch.record)]
      /\ dispatch' = Idle /\ dispatch.record \in Nat
  BY <1>1 DEF ResumeSend, StreamsInv, TypeOK, Idle
<1>3. /\ dispatch.record = LastIn(s) + 1 /\ dispatch.record = sent[s]
      /\ \A t \in Streams \ {s} : sent[t] = LastIn(t)
  BY <1>1, <1>2 DEF ResumeSend, StreamsInv, BlockedRecord
<1>4. InOrder(s) /\ TypeOK
  BY DEF StreamsInv, StreamsComplete
<1>5. PICK n \in Nat : n = dispatch.record
  BY <1>2
<1>6. /\ InOrder(s)' /\ Len(buffer'[s]) <= Capacity /\ n = LastIn(s)'
      /\ \A t \in Streams \ {s} : buffer'[t] = buffer[t] /\ LastIn(t)' = LastIn(t)
  BY <1>2, <1>3, <1>4, <1>5, AppendKeepsOrder
<1>7. \A t \in Streams \ {s} : InOrder(t)'
  BY <1>2, <1>6 DEF InOrder, StreamsInv, StreamsComplete
<1>8. StreamsComplete'
  BY <1>2, <1>3, <1>5, <1>6, <1>7 DEF StreamsInv, StreamsComplete
<1>9. BlockedRecord'
  BY <1>2 DEF BlockedRecord, Idle
<1> QED BY <1>2, <1>8, <1>9 DEF StreamsInv

LEMMA ReadStreams ==
    ASSUME StreamsInv, TypeOK', NEW s \in Streams, Read(s)
    PROVE  StreamsInv'
<1>1. UNCHANGED <<state, done, sent, dispatch>>
  BY DEF Read
<1>2. /\ \A t \in Streams \ {s} : read'[t] = read[t] /\ buffer'[t] = buffer[t]
      /\ Len(buffer'[s]) = Len(buffer[s]) - 1
      /\ InOrder(s)'
      /\ \A t \in Streams : LastIn(t)' = LastIn(t)
  BY ReadKeepsOrder DEF StreamsInv, StreamsComplete
<1>3. \A t \in Streams : InOrder(t)'
  BY <1>2 DEF StreamsInv, StreamsComplete, InOrder
<1>4. \A t \in Streams : Len(buffer'[t]) <= Capacity
  <2>1. Len(buffer[s]) \in Int
    BY DEF StreamsInv, TypeOK
  <2> QED BY <1>2, <2>1, PipelineAssumption DEF StreamsInv, StreamsComplete
<1>5. StreamsComplete'
  BY <1>1, <1>2, <1>3, <1>4 DEF StreamsInv, StreamsComplete
<1>6. BlockedRecord'
  <2>1. CASE dispatch.at = "full"
    <3>1. dispatch.stream \in Streams
      BY <2>1 DEF StreamsInv, TypeOK, Idle
    <3>2. UNCHANGED LastIn(dispatch.stream)
      BY <1>1, <1>2, <3>1 DEF LastIn
    <3> QED BY <1>1, <1>2, <3>1, <3>2 DEF StreamsInv, BlockedRecord
  <2> QED BY <1>1, <2>1 DEF BlockedRecord
<1> QED BY <1>1, <1>5, <1>6 DEF StreamsInv

\* The reader of a stream misses nothing: a channel holds the records that
\* follow the last one read, and all of them until the pipeline is done.
THEOREM StreamsInvariant == Spec => []StreamsInv
<1>1. Init => StreamsInv
  <2> SUFFICES ASSUME Init PROVE StreamsInv
    OBVIOUS
  <2>1. TypeOK
    BY InitTypes
  <2>2. /\ \A s \in Streams : buffer[s] = <<>> /\ read[s] = 0 /\ sent[s] = 0
        /\ dispatch = Idle /\ state \notin Terminal
    BY DEF Init, Terminal
  <2>3. StreamsComplete
    BY <2>2, PipelineAssumption DEF StreamsComplete, InOrder, LastIn
  <2> QED BY <2>1, <2>2, <2>3 DEF StreamsInv, BlockedRecord, Idle
<1>2. StreamsInv /\ TypeOK' /\ [Next]_vars => StreamsInv'
  <2> SUFFICES ASSUME StreamsInv, TypeOK', [Next]_vars PROVE StreamsInv'
    OBVIOUS
  <2> TypeOK
    BY DEF StreamsInv
  <2> (state \in Terminal) => done
    BY DEF StreamsInv
  <2>1. ASSUME NEW c \in Callers, Invoke(c) \/ Stop(c) PROVE StreamsInv'
    BY <2>1, StreamsFrame DEF Invoke, Stop, Terminal
  <2>2. ASSUME NEW c \in Callers, SendOk(c) PROVE StreamsInv'
    BY <2>2, StreamsFrame DEF SendOk
  <2>3. ASSUME NEW c \in Callers, SendFail(c) PROVE StreamsInv'
    <3>1. CASE pc[c] = "create"
      <4>1. transition("Failed", "send") /\ UNCHANGED <<streams, dispatch>>
        BY <2>3, <3>1 DEF SendFail
      <4>2. done'
        BY <4>1, TransitionCloses DEF Terminal
      <4> QED BY <4>1, <4>2, StreamsFrame
    <3>2. CASE pc[c] # "create"
      BY <2>3, <3>2, StreamsFrame DEF SendFail
    <3> QED BY <3>1, <3>2
  <2>4. ASSUME NEW c \in Callers, NEW kind \in {"input", "eof"}, Feed(c, kind)
        PROVE  StreamsInv'
    BY <2>4, StreamsFrame DEF Feed
  <2>5. ASSUME Cancel \/ ResumeClosed \/ HandleHostCall \/ HostCallOk \/ Monitor
        PROVE  StreamsInv'
    BY <2>5, StreamsFrame
       DEF Cancel, ResumeClosed, HandleHostCall, HostCallOk, Monitor
  <2>6. ASSUME NEW s \in Streams, HandleRecord(s) PROVE StreamsInv'
    BY <2>6, HandleRecordStreams
  <2>7. ASSUME NEW s \in Streams, Read(s) PROVE StreamsInv'
    BY <2>7, ReadStreams
  <2>8. ASSUME ResumeSend PROVE StreamsInv'
    BY <2>8, ResumeSendStreams
  <2>9. ASSUME SendTimeout \/ SendCancelled PROVE StreamsInv'
    <3>1. /\ UNCHANGED <<local, streams>> /\ dispatch'.at = "fail"
      BY <2>9 DEF SendTimeout, SendCancelled, Failing
    <3>2. \A s \in Streams : (InOrder(s)' <=> InOrder(s)) /\ LastIn(s)' = LastIn(s)
      BY <3>1 DEF InOrder, LastIn
    <3>3. StreamsComplete'
      BY <3>1, <3>2 DEF StreamsInv, StreamsComplete
    <3> QED BY <3>1, <3>3 DEF StreamsInv, BlockedRecord
  <2>10. ASSUME FailDispatch PROVE StreamsInv'
    <3>1. /\ transition("Failed", dispatch.error) /\ UNCHANGED streams
      BY <2>10 DEF FailDispatch
    <3>2. done'
      BY <3>1, TransitionCloses DEF Terminal
    <3>3. \A s \in Streams : InOrder(s)' <=> InOrder(s)
      BY <3>1 DEF InOrder
    <3>4. StreamsComplete'
      BY <3>1, <3>2, <3>3 DEF StreamsInv, StreamsComplete
    <3> QED BY <3>2, <3>4 DEF StreamsInv, BlockedRecord
  <2>11. ASSUME NEW v \in Echoes, HandleEcho(v) PROVE StreamsInv'
    BY <2>11, PipelineAssumption, StreamsFrame DEF HandleEcho, Terminal
  <2>12. ASSUME NEW r \in EndReports, HandleEnd(r[1], r[2]) PROVE StreamsInv'
    <3>1. r[1] \in Terminal
      BY DEF EndReports, Terminal
    <3>2. transition(r[1], r[2]) /\ UNCHANGED <<streams, dispatch>>
      BY <2>12 DEF HandleEnd
    <3>3. done'
      BY <3>1, <3>2, TransitionCloses
    <3> QED BY <3>2, <3>3, StreamsFrame
  <2>13. ASSUME HostCallFail \/ PoolFail PROVE StreamsInv'
    <3>1. /\ transition("Failed", "hostcall") \/ transition("Failed", "pool")
          /\ UNCHANGED <<streams, dispatch>>
      BY <2>13 DEF HostCallFail, PoolFail
    <3>2. done'
      BY <3>1, TransitionCloses DEF Terminal
    <3> QED BY <3>1, <3>2, StreamsFrame
  <2>14. ASSUME NEW w \in Waiters, WaitDone(w) \/ WaitReturn(w) PROVE StreamsInv'
    BY <2>14, StreamsFrame DEF WaitDone, WaitReturn
  <2>15. CASE UNCHANGED vars
    BY <2>15, StreamsFrame
  <2> QED
    BY <2>1, <2>2, <2>3, <2>4, <2>5, <2>6, <2>7, <2>8, <2>9, <2>10, <2>11,
       <2>12, <2>13, <2>14, <2>15 DEF Next
<1> QED BY <1>1, <1>2, TypeCorrect, PTL DEF Spec

\* The part of it TLC checks.
COROLLARY StreamsCompleteAlways == Spec => []StreamsComplete
<1>1. StreamsInv => StreamsComplete
  BY DEF StreamsInv
<1> QED BY <1>1, StreamsInvariant, PTL

\* However slow the reader and however the pipeline ends, a reader sees record
\* after record: only Read moves it, to the head of an ordered channel.
THEOREM ReaderSeesNoGap == Spec => NoGapForReader
<1> DEFINE Step == \A s \in Streams : read'[s] # read[s] => read'[s] = read[s] + 1
<1>1. StreamsInv /\ [Next]_vars => [Step]_vars
  <2> SUFFICES ASSUME StreamsInv, Next PROVE Step
    BY DEF Step
  <2>1. CASE read' = read
    BY <2>1
  <2>2. ASSUME NEW s \in Streams, Read(s) PROVE Step
    <3>1. TypeOK /\ InOrder(s)
      BY DEF StreamsInv, StreamsComplete
    <3>2. /\ read'[s] = read[s] + 1
          /\ \A t \in Streams \ {s} : read'[t] = read[t]
      BY <2>2, <3>1, ReadKeepsOrder
    <3> QED BY <3>2
  <2> QED
    BY <2>1, <2>2
       DEF Next, Invoke, Stop, SendOk, SendFail, Feed, Cancel, HandleRecord,
           ResumeSend, ResumeClosed, SendTimeout, SendCancelled, FailDispatch,
           HandleEcho, HandleEnd, HandleHostCall, HostCallOk, HostCallFail,
           PoolFail, Monitor, WaitDone, WaitReturn
<1> QED BY <1>1, StreamsInvariant, PTL DEF Spec, NoGapForReader

-----------------------------------------------------------------------------
(* Sends on a closed channel.                                               *)

\* While the server still runs the pipeline, whatever closed its channels was
\* an error of the client; once the server ended it nothing is received.
PanicInv ==
    /\ done /\ server # "ended" => err \in LocalErrors
    /\ server = "ended" => dispatch = Idle
    /\ panicked => done /\ server # "ended"

\* A local failure that reaches transition keeps PanicInv.
LEMMA LocalFailure ==
    ASSUME TypeOK, state \in Terminal => done, PanicInv, NEW e \in LocalErrors,
           transition("Failed", e), UNCHANGED <<server, panicked>>, ~panicked,
           dispatch' \in {dispatch, Idle}
    PROVE  PanicInv'
<1>1. CASE UNCHANGED local
  BY <1>1 DEF PanicInv
<1>2. CASE err' = e
  BY <1>2 DEF PanicInv, transition, TypeOK
<1> QED BY <1>1, <1>2 DEF transition

\* Only a pipeline the client failed itself can make the dispatch loop send
\* on a closed channel, whatever states the server reports.
THEOREM PanicNeedsLocalFailure == Spec => []PanicOnlyAfterLocalFailure
<1>1. Init => PanicInv
  BY DEF Init, PanicInv
<1>2. StreamsInv /\ PanicInv /\ [Next]_vars => PanicInv'
  <2> SUFFICES ASSUME StreamsInv, PanicInv, [Next]_vars PROVE PanicInv'
    OBVIOUS
  <2> TypeOK /\ ((state \in Terminal) => done)
    BY DEF StreamsInv
  <2>0. CASE UNCHANGED vars
    BY <2>0 DEF PanicInv
  <2> SUFFICES ASSUME Next PROVE PanicInv'
    BY <2>0
  <2> ~panicked
    BY DEF Next
  <2>1. ASSUME NEW c \in Callers,
               Invoke(c) \/ Stop(c) \/ \E kind \in {"input", "eof"} : Feed(c, kind)
        PROVE  PanicInv'
    BY <2>1 DEF PanicInv, Invoke, Stop, Feed
  <2>2. ASSUME NEW c \in Callers, SendOk(c) PROVE PanicInv'
    BY <2>2 DEF PanicInv, SendOk
  <2>3. ASSUME NEW c \in Callers, SendFail(c) PROVE PanicInv'
    <3>1. CASE pc[c] = "create"
      BY <2>3, <3>1, LocalFailure DEF SendFail, LocalErrors
    <3>2. CASE pc[c] # "create"
      BY <2>3, <3>2 DEF SendFail, PanicInv
    <3> QED BY <3>1, <3>2
  <2>4. ASSUME NEW s \in Streams, HandleRecord(s) \/ Read(s) PROVE PanicInv'
    BY <2>4 DEF PanicInv, HandleRecord, Receiving, Read
  <2>5. ASSUME \/ Cancel \/ ResumeSend \/ ResumeClosed \/ SendTimeout \/ SendCancelled
               \/ HandleHostCall \/ HostCallOk \/ Monitor
        PROVE  PanicInv'
    BY <2>5 DEF PanicInv, Cancel, ResumeSend, ResumeClosed, SendTimeout, Idle,
                SendCancelled, HandleHostCall, HostCallOk, Monitor, Receiving
  <2>6. ASSUME FailDispatch PROVE PanicInv'
    <3>1. dispatch.error \in LocalErrors
      BY <2>6 DEF FailDispatch, TypeOK, Idle, LocalErrors
    <3> QED BY <2>6, <3>1, LocalFailure DEF FailDispatch
  <2>7. ASSUME NEW v \in Echoes, HandleEcho(v) PROVE PanicInv'
    BY <2>7 DEF HandleEcho, PanicInv
  <2>8. ASSUME NEW r \in EndReports, HandleEnd(r[1], r[2]) PROVE PanicInv'
    BY <2>8 DEF HandleEnd, PanicInv, Receiving
  <2>9. ASSUME HostCallFail PROVE PanicInv'
    BY <2>9, LocalFailure DEF HostCallFail, LocalErrors
  <2>10. ASSUME PoolFail PROVE PanicInv'
    BY <2>10, LocalFailure DEF PoolFail, LocalErrors
  <2>11. ASSUME NEW w \in Waiters, WaitDone(w) \/ WaitReturn(w) PROVE PanicInv'
    BY <2>11 DEF PanicInv, WaitDone, WaitReturn
  <2> QED
    BY <2>1, <2>2, <2>3, <2>4, <2>5, <2>6, <2>7, <2>8, <2>9, <2>10, <2>11 DEF Next
<1>3. PanicInv => PanicOnlyAfterLocalFailure
  BY DEF PanicInv, PanicOnlyAfterLocalFailure
<1> QED BY <1>1, <1>2, <1>3, StreamsInvariant, PTL DEF Spec

-----------------------------------------------------------------------------
(* The outcome, for a server that reports final states only.                *)

\* The channels are closed in the terminal states and no other; the error
\* tells failure; what a Wait saw past doneCh is the error that stays.
OutcomeInv ==
    /\ done <=> state \in Terminal
    /\ done => ((err = "nil") <=> (state # "Failed"))
    /\ \A w \in Waiters : result[w] # "waiting" => done
    /\ \A w \in Waiters : result[w] \notin {"waiting", "woken"} => result[w] = err

\* A call of transition with an error exactly when it fails keeps OutcomeInv,
\* and changes nothing once the pipeline is done.
LEMMA TransitionOutcome ==
    ASSUME TypeOK, OutcomeInv, NEW new \in Terminal, NEW e \in Errors \cup {"nil"},
           (e = "nil") <=> (new # "Failed"),
           transition(new, e), UNCHANGED result
    PROVE  OutcomeInv' /\ (done => UNCHANGED <<state, err>>)
<1>1. CASE state \in Terminal
  BY <1>1 DEF transition, OutcomeInv
<1>2. CASE state \notin Terminal
  <2>1. ~done /\ state' = new /\ err' = e /\ done' = TRUE
    BY <1>2 DEF transition, OutcomeInv, TypeOK
  <2>2. \A w \in Waiters : result[w] = "waiting"
    BY <2>1 DEF OutcomeInv
  <2> QED BY <2>1, <2>2 DEF OutcomeInv
<1> QED BY <1>1, <1>2

\* One step: the invariant is kept and a decided outcome is not changed.
LEMMA OutcomeStep ==
    ASSUME Echoes = {}, TypeOK, OutcomeInv, [Next]_vars
    PROVE  OutcomeInv' /\ (done => UNCHANGED <<state, err>>)
<1>1. CASE UNCHANGED <<state, err, done, result>>
  BY <1>1 DEF OutcomeInv
<1>2. ASSUME NEW c \in Callers, Invoke(c) \/ Stop(c)
      PROVE  OutcomeInv' /\ (done => UNCHANGED <<state, err>>)
  <2>1. /\ state \notin Terminal /\ state' \notin Terminal
        /\ UNCHANGED <<err, done, result>>
    BY <1>2 DEF Invoke, Stop, Terminal
  <2> QED BY <2>1 DEF OutcomeInv
<1>3. ASSUME NEW c \in Callers, SendFail(c), pc[c] = "create"
      PROVE  OutcomeInv' /\ (done => UNCHANGED <<state, err>>)
  BY <1>3, TransitionOutcome DEF SendFail, Terminal, Errors, LocalErrors
<1>4. ASSUME FailDispatch
      PROVE  OutcomeInv' /\ (done => UNCHANGED <<state, err>>)
  <2>1. dispatch.error \in Errors /\ dispatch.error # "nil"
    BY <1>4 DEF FailDispatch, TypeOK, Idle, Errors, LocalErrors
  <2> QED BY <1>4, <2>1, TransitionOutcome DEF FailDispatch, Terminal
<1>5. ASSUME NEW r \in EndReports, HandleEnd(r[1], r[2])
      PROVE  OutcomeInv' /\ (done => UNCHANGED <<state, err>>)
  <2>1. /\ r[1] \in Terminal /\ r[2] \in Errors \cup {"nil"}
        /\ (r[2] = "nil") <=> (r[1] # "Failed")
    BY DEF EndReports, Terminal, Errors, ServerErrors
  <2> QED BY <1>5, <2>1, TransitionOutcome DEF HandleEnd
<1>6. ASSUME HostCallFail \/ PoolFail
      PROVE  OutcomeInv' /\ (done => UNCHANGED <<state, err>>)
  <2>1. PICK e \in {"hostcall", "pool"} : transition("Failed", e) /\ UNCHANGED result
    BY <1>6 DEF HostCallFail, PoolFail
  <2> QED BY <2>1, TransitionOutcome DEF Terminal, Errors, LocalErrors
<1>7. ASSUME NEW w \in Waiters, WaitDone(w) \/ WaitReturn(w)
      PROVE  OutcomeInv' /\ (done => UNCHANGED <<state, err>>)
  <2>1. /\ UNCHANGED <<state, err, done>> /\ done
        /\ \E x \in {"woken", err} : result' = [result EXCEPT ![w] = x]
    BY <1>7 DEF WaitDone, WaitReturn, OutcomeInv
  <2>2. \A v \in Waiters : result'[v] \in {result[v], "woken", err}
    BY <2>1 DEF TypeOK
  <2> QED BY <2>1, <2>2 DEF OutcomeInv
<1> QED
  BY <1>1, <1>2, <1>3, <1>4, <1>5, <1>6, <1>7
     DEF Next, SendOk, SendFail, Feed, Cancel, HandleRecord, ResumeSend,
         ResumeClosed, SendTimeout, SendCancelled, HandleEcho, HandleHostCall,
         HostCallOk, Monitor, Read

LEMMA OutcomeInvariant == ASSUME Echoes = {} PROVE Spec => []OutcomeInv
<1>1. Init => OutcomeInv
  BY DEF Init, OutcomeInv, Terminal
<1>2. TypeOK /\ OutcomeInv /\ [Next]_vars => OutcomeInv'
  BY OutcomeStep
<1> QED BY <1>1, <1>2, TypeCorrect, PTL DEF Spec

\* Every Wait returns the one error of the pipeline, and an error exactly when
\* the pipeline failed.
THEOREM WaitReturnsTheOutcome == ASSUME Echoes = {} PROVE Spec => []WaitOutcome
<1>1. OutcomeInv => WaitOutcome
  BY DEF OutcomeInv, WaitOutcome
<1> QED BY <1>1, OutcomeInvariant, PTL

\* Once doneCh is closed the state and the error stay as they are.
THEOREM OutcomeStays == ASSUME Echoes = {} PROVE Spec => OutcomeIsFinal
<1>1. TypeOK /\ OutcomeInv /\ [Next]_vars => [done => UNCHANGED <<state, err>>]_vars
  BY OutcomeStep
<1> QED BY <1>1, TypeCorrect, OutcomeInvariant, PTL DEF Spec, OutcomeIsFinal

\* A successful end is the server's, came while nothing was missing, and is
\* followed by nothing.
DeliveredInv ==
    state \in {"Completed", "Stopped"} =>
        /\ server = "ended" /\ dispatch = Idle
        /\ \A s \in Streams : sent[s] = LastIn(s)

\* A failing transition never makes a pipeline successful.
LEMMA FailureDelivers ==
    ASSUME DeliveredInv, NEW e, transition("Failed", e),
           UNCHANGED <<streams, server>>, dispatch' \in {dispatch, Idle}
    PROVE  DeliveredInv'
<1>1. \A s \in Streams : LastIn(s)' = LastIn(s)
  BY DEF LastIn
<1> QED BY <1>1 DEF transition, DeliveredInv

\* A pipeline that ends Completed or Stopped delivered every record.
THEOREM SuccessDelivers == ASSUME Echoes = {} PROVE Spec => []SuccessMeansDelivered
<1>1. Init => DeliveredInv
  BY DEF Init, DeliveredInv
<1>2. StreamsInv /\ OutcomeInv /\ DeliveredInv /\ [Next]_vars => DeliveredInv'
  <2> SUFFICES ASSUME StreamsInv, OutcomeInv, DeliveredInv, [Next]_vars
               PROVE  DeliveredInv'
    OBVIOUS
  <2>1. CASE UNCHANGED <<streams, state, server, dispatch>>
    <3>1. \A s \in Streams : LastIn(s)' = LastIn(s)
      BY <2>1 DEF LastIn
    <3> QED BY <2>1, <3>1 DEF DeliveredInv
  <2>2. ASSUME NEW c \in Callers, Invoke(c) \/ Stop(c) PROVE DeliveredInv'
    BY <2>2 DEF Invoke, Stop, DeliveredInv
  <2>3. ASSUME NEW c \in Callers, SendOk(c) PROVE DeliveredInv'
    <3>1. /\ UNCHANGED <<streams, state, dispatch>>
          /\ server = "ended" => server' = "ended"
      BY <2>3 DEF SendOk
    <3>2. \A s \in Streams : LastIn(s)' = LastIn(s)
      BY <3>1 DEF LastIn
    <3> QED BY <3>1, <3>2 DEF DeliveredInv
  <2>4. ASSUME NEW c \in Callers, SendFail(c), pc[c] = "create" PROVE DeliveredInv'
    BY <2>4, FailureDelivers DEF SendFail
  <2>5. ASSUME NEW s \in Streams, HandleRecord(s) PROVE DeliveredInv'
    BY <2>5 DEF HandleRecord, Receiving, DeliveredInv
  <2>6. ASSUME NEW s \in Streams, Read(s) PROVE DeliveredInv'
    <3>1. TypeOK /\ InOrder(s)
      BY DEF StreamsInv, StreamsComplete
    <3>2. \A t \in Streams : LastIn(t)' = LastIn(t)
      BY <2>6, <3>1, ReadKeepsOrder
    <3> QED BY <2>6, <3>2 DEF Read, DeliveredInv
  <2>7. ASSUME ResumeSend \/ SendTimeout \/ SendCancelled PROVE DeliveredInv'
    BY <2>7 DEF ResumeSend, SendTimeout, SendCancelled, DeliveredInv, Idle
  <2>8. ASSUME FailDispatch PROVE DeliveredInv'
    BY <2>8, FailureDelivers DEF FailDispatch
  <2>9. ASSUME NEW r \in EndReports, HandleEnd(r[1], r[2]) PROVE DeliveredInv'
    <3>1. /\ dispatch = Idle /\ server = "running" /\ state' \in {state, r[1]}
          /\ server' = "ended" /\ UNCHANGED <<streams, dispatch>>
      BY <2>9 DEF HandleEnd, Receiving, transition
    <3>2. ASSUME state' \in {"Completed", "Stopped"} PROVE ~done
      <4>1. CASE state \in Terminal
        BY <2>9, <3>1, <3>2, <4>1 DEF DeliveredInv, transition, HandleEnd
      <4> QED BY <4>1 DEF OutcomeInv
    <3>3. \A s \in Streams : LastIn(s)' = LastIn(s)
      BY <3>1 DEF LastIn
    <3> QED BY <3>1, <3>2, <3>3 DEF DeliveredInv, StreamsInv, StreamsComplete, Idle
  <2>10. ASSUME HostCallFail \/ PoolFail PROVE DeliveredInv'
    BY <2>10, FailureDelivers DEF HostCallFail, PoolFail
  <2> QED
    BY <2>1, <2>2, <2>3, <2>4, <2>5, <2>6, <2>7, <2>8, <2>9, <2>10
       DEF Next, SendFail, Feed, Cancel, ResumeClosed, HandleEcho, HandleHostCall,
           HostCallOk, Monitor, WaitDone, WaitReturn
<1>3. DeliveredInv => SuccessMeansDelivered
  BY DEF DeliveredInv, SuccessMeansDelivered
<1> QED BY <1>1, <1>2, <1>3, StreamsInvariant, OutcomeInvariant, PTL DEF Spec

-----------------------------------------------------------------------------
(* CREATE_PIPELINE.                                                         *)

CreateInv ==
    /\ \A c, d \in Callers : pc[c] = "create" /\ pc[d] = "create" => c = d
    /\ \A c \in Callers : pc[c] = "create" =>
           creates = 0 /\ state # "NotStarted" /\ ~SkipInvokeSend
    /\ state = "NotStarted" => creates = 0
    /\ SkipInvokeSend => creates = 0
    /\ creates <= 1

\* However many goroutines call Invoke, one message is sent.
THEOREM InvokeSendsOnce ==
    ASSUME "NotStarted" \notin Echoes PROVE Spec => []CreatedOnce
<1>1. Init => CreateInv
  BY DEF Init, CreateInv
<1>2. TypeOK /\ CreateInv /\ [Next]_vars => CreateInv'
  <2> SUFFICES ASSUME TypeOK, CreateInv, [Next]_vars PROVE CreateInv'
    OBVIOUS
  <2>1. CASE /\ UNCHANGED <<pc, creates>>
             /\ state' = "NotStarted" => state = "NotStarted"
    BY <2>1 DEF CreateInv
  <2>2. ASSUME NEW c \in Callers, Invoke(c) PROVE CreateInv'
    BY <2>2 DEF Invoke, CreateInv, TypeOK
  <2>3. ASSUME NEW c \in Callers, Stop(c) PROVE CreateInv'
    BY <2>3 DEF Stop, CreateInv, TypeOK
  <2>4. ASSUME NEW c \in Callers, NEW kind \in {"input", "eof"}, Feed(c, kind)
        PROVE  CreateInv'
    BY <2>4 DEF Feed, CreateInv, TypeOK
  <2>5. ASSUME NEW c \in Callers, SendOk(c) PROVE CreateInv'
    BY <2>5 DEF SendOk, CreateInv, TypeOK
  <2>6. ASSUME NEW c \in Callers, SendFail(c) PROVE CreateInv'
    BY <2>6 DEF SendFail, CreateInv, TypeOK, transition
  <2> QED
    BY <2>1, <2>2, <2>3, <2>4, <2>5, <2>6
       DEF Next, Cancel, HandleRecord, ResumeSend, ResumeClosed, SendTimeout,
           SendCancelled, FailDispatch, HandleEcho, HandleEnd, EndReports,
           HandleHostCall, HostCallOk, HostCallFail, PoolFail, Monitor, Read,
           WaitDone, WaitReturn, transition
<1>3. CreateInv => CreatedOnce
  BY DEF CreateInv, CreatedOnce
<1> QED BY <1>1, <1>2, <1>3, TypeCorrect, PTL DEF Spec

=============================================================================
