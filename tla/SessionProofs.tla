---------------------------- MODULE SessionProofs ----------------------------
(* Theorems about Session for every set of reports and versions and any     *)
(* number of messages of the server and of embedded pipelines.              *)
EXTENDS Session, TLAPS

USE DEF vars

\* Where a way of opening the pool is, and what the pool sends.
Stages == {"arguments", "begin", "capability", "receive", "init", "wait", "connecting",
           "response", "resume", "done", "failed"}

SentMessages ==
    [type : {"Capability", "Init", "Connect", "HostResponse", "CreatePipeline",
             "GetCommandMetadata"}, id : Nat]

\* The types, and which stage belongs to which way of opening; outside Connect
\* no dispatch loop reads before the pool is open.
StageInv ==
    /\ flow \in AllFlows /\ pc \in Stages
    /\ sent \in Seq(SentMessages) /\ objectID = Len(sent)
    /\ heard \in Seq(ServerMessages)
    /\ pc \in {"receive"} => flow = "open"
    /\ pc = "wait" => flow \in {"open", "create"}
    /\ pc \in {"capability", "init"} => flow \in {"open", "connect"}
    /\ pc = "begin" => flow \in {"open", "connect", "create"}
    /\ pc = "arguments" => flow \in {"create", "resume"}
    /\ pc \in {"response", "resume"} => flow = "resume"
    /\ pc = "connecting" => flow = "connect"
    /\ loop => pc = "done" \/ flow = "connect"

\* The second half of the handshake is out.
BothSent == \E k \in 2 .. Len(sent) : sent[k].type = Second

\* How much of the handshake has been sent at each stage.
SentInv ==
    /\ pc \in {"arguments", "capability"} \/ (pc = "begin" /\ flow # "create") => sent = <<>>
    /\ pc \in {"receive", "init"} =>
          sent # <<>> /\ \A n \in 2 .. Len(sent) : sent[n].type = "HostResponse"
    /\ pc \in {"wait", "connecting", "response", "resume", "done"}
          \/ (pc = "begin" /\ flow = "create") => BothSent

\* A compatible capability that only host calls precede.
CapabilityHeard ==
    \E i \in DOMAIN heard : /\ heard[i].type = "Capability" /\ heard[i].version = "2.3"
                            /\ \A k \in 1 .. (i - 1) : heard[k].type = "HostCall"

\* What has been heard at each stage of Open.
HeardInv ==
    /\ pc \in {"arguments", "begin", "capability"} /\ flow # "connect" => heard = <<>>
    /\ pc = "receive" => \A k \in DOMAIN heard : heard[k].type = "HostCall"
    /\ pc \in {"init", "wait"} /\ flow = "open" => CapabilityHeard
    /\ pc = "wait" \/ (pc = "init" /\ flow = "open") =>
          \A k \in DOMAIN heard : heard[k].type \in {"HostCall", "InitData", "Capability"}
    /\ OpenedIsNegotiated

-----------------------------------------------------------------------------
(* Steps.                                                                   *)

\* Append, element by element.
LEMMA AppendElements ==
    ASSUME NEW S, NEW q \in Seq(S), NEW e \in S
    PROVE  /\ Append(q, e) \in Seq(S)
           /\ DOMAIN q = 1 .. Len(q) /\ Len(q) \in Nat
           /\ DOMAIN Append(q, e) = 1 .. (Len(q) + 1)
           /\ Len(Append(q, e)) = Len(q) + 1
           /\ Append(q, e)[Len(q) + 1] = e
           /\ \A i \in 1 .. Len(q) : Append(q, e)[i] = q[i]
OBVIOUS

\* The same for two elements at once.
LEMMA AppendTwo ==
    ASSUME NEW S, NEW q \in Seq(S), NEW a \in S, NEW b \in S
    PROVE  /\ q \o <<a, b>> \in Seq(S)
           /\ Len(q) \in Nat /\ Len(q \o <<a, b>>) = Len(q) + 2
           /\ q = <<>> => /\ (q \o <<a, b>>)[1] = a
                          /\ (q \o <<a, b>>)[2] = b
OBVIOUS

\* One more message with the next object ID.
Sends(type) ==
    /\ sent' = Append(sent, [type |-> type, id |-> Len(sent) + 1])
    /\ objectID' = objectID + 1

\* What the dispatch loop, Open and Connect hear.
Hears(m) == sent # <<>> /\ heard' = Append(heard, m)

\* Send and EmbedPipeline use the next object ID.
LEMMA NextID ==
    ASSUME StageInv
    PROVE  /\ \A type : Send(type) => Sends(type)
           /\ EmbedPipeline => Sends("CreatePipeline")
<1>1. objectID = Len(sent) /\ Len(sent) \in Nat
  BY DEF StageInv
<1>2. (objectID + 1 - 1) + 1 = objectID + 1
  BY <1>1
<1> QED BY <1>1, <1>2 DEF Send, Sends, EmbedPipeline

\* A message that is sent keeps the types.
LEMMA SendTypes ==
    ASSUME StageInv, NEW type \in {"Capability", "Init", "Connect", "HostResponse",
                                   "CreatePipeline", "GetCommandMetadata"}, Sends(type)
    PROVE  /\ sent' \in Seq(SentMessages) /\ objectID' = Len(sent')
           /\ Len(sent') = Len(sent) + 1 /\ Len(sent) \in Nat
<1>1. Len(sent) \in Nat /\ sent \in Seq(SentMessages) /\ objectID = Len(sent)
  BY DEF StageInv
<1>2. [type |-> type, id |-> Len(sent) + 1] \in SentMessages
  BY <1>1 DEF SentMessages
<1> QED BY <1>1, <1>2, AppendElements DEF Sends

\* So do two in the arguments of a WSMan request.
LEMMA TwoTypes ==
    ASSUME StageInv, NEW second \in {"Init", "Connect"}, SendTwo("Capability", second)
    PROVE  /\ sent' \in Seq(SentMessages) /\ objectID' = Len(sent')
           /\ Len(sent') = Len(sent) + 2
           /\ sent = <<>> => /\ sent'[1] = [type |-> "Capability", id |-> 1]
                             /\ sent'[2] = [type |-> second, id |-> 2]
<1>1. Len(sent) \in Nat /\ sent \in Seq(SentMessages) /\ objectID = Len(sent)
  BY DEF StageInv
<1>2. /\ [type |-> "Capability", id |-> objectID + 1] \in SentMessages
      /\ [type |-> second, id |-> objectID + 2] \in SentMessages
  BY <1>1 DEF SentMessages
<1>3. /\ sent' \in Seq(SentMessages) /\ Len(sent') = Len(sent) + 2
      /\ sent = <<>> => /\ sent'[1] = [type |-> "Capability", id |-> objectID + 1]
                        /\ sent'[2] = [type |-> second, id |-> objectID + 2]
  BY <1>1, <1>2, AppendTwo DEF SendTwo
<1>4. sent = <<>> => objectID = 0
  BY <1>1
<1> QED BY <1>1, <1>3, <1>4 DEF SendTwo

\* A message that is heard keeps the types.
LEMMA HearTypes ==
    ASSUME StageInv, NEW m \in ServerMessages, Hear(m)
    PROVE  heard' \in Seq(ServerMessages) /\ Hears(m)
BY AppendElements DEF StageInv, Hear, Hears

\* A new session is in its first stage.
LEMMA InitStage == Init => StageInv
BY SessionAssumption DEF Init, StageInv, AllFlows, Stages

\* Every step keeps StageInv.
LEMMA StepStage == StageInv /\ [Next]_vars => StageInv'
<1> SUFFICES ASSUME StageInv, [Next]_vars PROVE StageInv'
  OBVIOUS
<1> USE DEF Stages
<1>1. ASSUME NEW m \in ServerMessages, AnswerHostCall(m) PROVE StageInv'
  <2>1. heard' \in Seq(ServerMessages)
    BY <1>1, HearTypes DEF AnswerHostCall
  <2>2. sent' \in Seq(SentMessages) /\ objectID' = Len(sent')
    <3>1. CASE Send("HostResponse")
      BY <3>1, NextID, SendTypes
    <3>2. CASE UNCHANGED <<sent, objectID>>
      BY <3>2 DEF StageInv
    <3> QED BY <1>1, <3>1, <3>2 DEF AnswerHostCall
  <2> QED BY <1>1, <2>1, <2>2 DEF AnswerHostCall, Fail, StageInv
<1>2. ASSUME NEW m \in ServerMessages, ReceiveSessionCapability(m) PROVE StageInv'
  <2>1. heard' \in Seq(ServerMessages)
    BY <1>2, HearTypes DEF ReceiveSessionCapability
  <2> QED BY <1>2, <2>1 DEF ReceiveSessionCapability, Fail, StageInv
<1>3. ASSUME NEW m \in ServerMessages, WaitForOpened(m) PROVE StageInv'
  <2>1. heard' \in Seq(ServerMessages)
    BY <1>3, HearTypes DEF WaitForOpened
  <2>2. /\ UNCHANGED <<flow, sent, objectID>> /\ pc = "wait"
        /\ pc' \in {"wait", "done", "failed"} /\ (pc' = "done" \/ loop' = loop)
    BY <1>3 DEF WaitForOpened, Fail
  <2> QED BY <2>1, <2>2 DEF StageInv
<1>4. ASSUME NEW m \in ServerMessages, Dispatch(m) PROVE StageInv'
  <2>1. heard' \in Seq(ServerMessages)
    BY <1>4, HearTypes DEF Dispatch
  <2>2. sent' \in Seq(SentMessages) /\ objectID' = Len(sent')
    <3>1. CASE Send("HostResponse")
      BY <3>1, NextID, SendTypes
    <3>2. CASE UNCHANGED <<sent, objectID>>
      BY <3>2 DEF StageInv
    <3> QED BY <1>4, <3>1, <3>2 DEF Dispatch
  <2>3. UNCHANGED <<flow, pc>> /\ loop
    BY <1>4 DEF Dispatch
  <2> QED BY <2>1, <2>2, <2>3 DEF StageInv
<1>5. CASE GetHandshakeFragments \/ GetConnectHandshakeFragments
  <2>1. PICK second \in {"Init", "Connect"} : SendTwo("Capability", second)
    BY <1>5 DEF GetHandshakeFragments, GetConnectHandshakeFragments
  <2>2. sent' \in Seq(SentMessages) /\ objectID' = Len(sent')
    BY <2>1, TwoTypes
  <2> QED BY <1>5, <2>2 DEF GetHandshakeFragments, GetConnectHandshakeFragments, StageInv
<1>6. CASE ProcessConnectResponse \/ ResumeOpened
  BY <1>6 DEF ProcessConnectResponse, ResumeOpened, StageInv
<1>7. CASE EmbedPipeline
  <2>1. sent' \in Seq(SentMessages) /\ objectID' = Len(sent')
    BY <1>7, NextID, SendTypes
  <2> QED BY <1>7, <2>1 DEF EmbedPipeline, StageInv
<1>8. CASE Begin
  BY <1>8 DEF Begin, StageInv
<1>9. CASE SendCapability
  <2>1. sent' \in Seq(SentMessages) /\ objectID' = Len(sent')
    BY <1>9, NextID, SendTypes DEF SendCapability
  <2> QED BY <1>9, <2>1 DEF SendCapability, StageInv
<1>10. CASE SendInit
  <2>1. sent' \in Seq(SentMessages) /\ objectID' = Len(sent')
    BY <1>10, NextID, SendTypes DEF SendInit
  <2> QED BY <1>10, <2>1 DEF SendInit, StageInv
<1>11. CASE OpenFails
  BY <1>11 DEF OpenFails, Fail, StageInv
<1>12. CASE ConnectReturns
  BY <1>12 DEF ConnectReturns, StageInv
<1>13. CASE StartDispatchLoop
  BY <1>13 DEF StartDispatchLoop, StageInv
<1>14. CASE GetCommandMetadata
  <2>1. sent' \in Seq(SentMessages) /\ objectID' = Len(sent')
    BY <1>14, NextID, SendTypes DEF GetCommandMetadata
  <2> QED BY <1>14, <2>1 DEF GetCommandMetadata, StageInv
<1>15. CASE QueryEnds \/ UNCHANGED vars
  BY <1>15 DEF QueryEnds, StageInv
<1> QED BY <1>1, <1>2, <1>3, <1>4, <1>5, <1>6, <1>7, <1>8, <1>9, <1>10, <1>11,
           <1>12, <1>13, <1>14, <1>15 DEF Next

-----------------------------------------------------------------------------
(* What is sent.                                                            *)

\* Heard messages are not forgotten.
HearsMore == heard' = heard \/ \E m \in ServerMessages : heard' = Append(heard, m)

\* A compatible capability that was heard stays heard.
LEMMA CapabilityKept ==
    ASSUME StageInv, HearsMore,
           \E i \in Heard("Capability") : heard[i].version = "2.3"
    PROVE  (\E i \in Heard("Capability") : heard[i].version = "2.3")'
<1>1. CASE heard' = heard
  BY <1>1 DEF Heard
<1>2. ASSUME NEW m \in ServerMessages, heard' = Append(heard, m)
      PROVE  (\E i \in Heard("Capability") : heard[i].version = "2.3")'
  <2>1. /\ DOMAIN heard = 1 .. Len(heard) /\ Len(heard) \in Nat
        /\ DOMAIN heard' = 1 .. (Len(heard) + 1)
        /\ \A i \in 1 .. Len(heard) : heard'[i] = heard[i]
    BY <1>2, AppendElements DEF StageInv
  <2> QED BY <2>1 DEF Heard
<1> QED BY <1>1, <1>2 DEF HearsMore

\* The first message is a capability and no other is, the second half of the
\* handshake comes once, and what needs it comes after it.
LEMMA SendInOrder ==
    ASSUME StageInv, HandshakeInOrder, HearsMore, UNCHANGED flow,
           NEW type \in {"Capability", "Init", "Connect", "HostResponse",
                         "CreatePipeline", "GetCommandMetadata"}, Sends(type),
           type = "Capability" <=> sent = <<>>,
           type = Second => /\ \A n \in 2 .. Len(sent) : sent[n].type = "HostResponse"
                            /\ flow = "open" =>
                                  \E i \in Heard("Capability") : heard[i].version = "2.3",
           type \in {"CreatePipeline", "GetCommandMetadata"} => BothSent
    PROVE  HandshakeInOrder'
<1>1. /\ DOMAIN sent = 1 .. Len(sent) /\ Len(sent) \in Nat
      /\ DOMAIN sent' = 1 .. (Len(sent) + 1) /\ Len(sent') = Len(sent) + 1
      /\ sent'[Len(sent) + 1] = [type |-> type, id |-> Len(sent) + 1]
      /\ \A i \in 1 .. Len(sent) : sent'[i] = sent[i]
  <2>1. Len(sent) \in Nat /\ sent \in Seq(SentMessages)
    BY DEF StageInv
  <2>2. [type |-> type, id |-> Len(sent) + 1] \in SentMessages
    BY <2>1 DEF SentMessages
  <2> QED BY <2>1, <2>2, AppendElements DEF Sends
<1>2. sent'[Len(sent) + 1].type = type /\ sent'[Len(sent) + 1].id = Len(sent) + 1
  BY <1>1
<1>3. Second' = Second /\ Second \in {"Init", "Connect"}
  BY DEF Second
<1>4. sent = <<>> <=> Len(sent) = 0
  BY <1>1 DEF StageInv
<1>5. \A n \in 1 .. Len(sent) : sent[n].type = "Capability" <=> n = 1
  BY <1>1 DEF HandshakeInOrder, Is
<1>6. \A n \in DOMAIN sent' : sent'[n].id = n
  BY <1>1, <1>2 DEF HandshakeInOrder
<1>7. \A n \in DOMAIN sent' : sent'[n].type = "Capability" <=> n = 1
  BY <1>1, <1>2, <1>4, <1>5
<1>8. ASSUME NEW n \in DOMAIN sent', sent'[n].type = Second
      PROVE  /\ \A k \in 2 .. (n - 1) : sent'[k].type = "HostResponse"
             /\ \A k \in (n + 1) .. Len(sent') : sent'[k].type # Second
             /\ flow = "open" => \E i \in Heard("Capability") : heard[i].version = "2.3"
  <2>1. CASE n \in 1 .. Len(sent)
    <3>1. /\ \A k \in 2 .. (n - 1) : sent[k].type = "HostResponse"
          /\ \A k \in (n + 1) .. Len(sent) : sent[k].type # Second
          /\ flow = "open" => \E i \in Heard("Capability") : heard[i].version = "2.3"
      BY <1>1, <1>8, <2>1 DEF HandshakeInOrder, Is
    <3>2. n # 1
      BY <1>1, <1>3, <1>5, <1>8, <2>1
    <3>3. type # Second
      BY <1>1, <1>3, <1>8, <2>1, <3>2
    <3> QED BY <1>1, <1>2, <2>1, <3>1, <3>3
  <2>2. CASE n = Len(sent) + 1
    BY <1>1, <1>2, <1>8, <2>2
  <2> QED BY <1>1, <2>1, <2>2
<1>9. ASSUME NEW n \in DOMAIN sent', sent'[n].type \in {"CreatePipeline", "GetCommandMetadata"}
      PROVE  \E k \in 2 .. (n - 1) : sent'[k].type = Second
  <2>1. CASE n \in 1 .. Len(sent)
    BY <1>1, <1>9, <2>1 DEF HandshakeInOrder, Is
  <2>2. CASE n = Len(sent) + 1
    BY <1>1, <1>2, <1>9, <2>2 DEF BothSent
  <2> QED BY <1>1, <2>1, <2>2
<1>10. flow = "open" /\ (\E i \in Heard("Capability") : heard[i].version = "2.3")
       => (\E i \in Heard("Capability") : heard[i].version = "2.3")'
  BY CapabilityKept
<1> QED BY <1>3, <1>6, <1>7, <1>8, <1>9, <1>10 DEF HandshakeInOrder, Is

\* Hearing something, or nothing, leaves the order of what was sent alone.
LEMMA QuietInOrder ==
    ASSUME StageInv, HandshakeInOrder, HearsMore, UNCHANGED <<flow, sent>>
    PROVE  HandshakeInOrder'
<1>1. Second' = Second
  BY DEF Second
<1>2. (\E i \in Heard("Capability") : heard[i].version = "2.3")
       => (\E i \in Heard("Capability") : heard[i].version = "2.3")'
  BY CapabilityKept
<1> QED BY <1>1, <1>2 DEF HandshakeInOrder, Is

\* What is sent before stays, and a message more is at the end.
LEMMA SentElements ==
    ASSUME StageInv, NEW type \in {"Capability", "Init", "Connect", "HostResponse",
                                   "CreatePipeline", "GetCommandMetadata"}, Sends(type)
    PROVE  /\ Len(sent) \in Nat /\ Len(sent') = Len(sent) + 1 /\ sent' # <<>>
           /\ sent'[Len(sent) + 1].type = type
           /\ \A i \in 1 .. Len(sent) : sent'[i] = sent[i]
<1>1. Len(sent) \in Nat /\ sent \in Seq(SentMessages)
  BY DEF StageInv
<1>2. [type |-> type, id |-> Len(sent) + 1] \in SentMessages
  BY <1>1 DEF SentMessages
<1> QED BY <1>1, <1>2, AppendElements DEF Sends

\* The second half of the handshake, once sent, stays sent.
LEMMA BothSentKept ==
    ASSUME StageInv, NEW type \in {"Capability", "Init", "Connect", "HostResponse",
                                   "CreatePipeline", "GetCommandMetadata"}, Sends(type),
           UNCHANGED flow, BothSent
    PROVE  BothSent'
<1>1. Second' = Second
  BY DEF Second
<1> QED BY <1>1, SentElements DEF BothSent

\* A host response goes out between any two messages but never first.
LEMMA RespondSent ==
    ASSUME StageInv, SentInv, Sends("HostResponse"), sent # <<>>, UNCHANGED <<flow, pc>>
    PROVE  SentInv'
<1>1. BothSent => BothSent'
  BY BothSentKept
<1>2. /\ Len(sent) \in Nat /\ Len(sent') = Len(sent) + 1 /\ sent' # <<>>
      /\ sent'[Len(sent) + 1].type = "HostResponse"
      /\ \A i \in 1 .. Len(sent) : sent'[i] = sent[i]
  BY SentElements
<1>3. (\A n \in 2 .. Len(sent) : sent[n].type = "HostResponse")
       => \A n \in 2 .. Len(sent') : sent'[n].type = "HostResponse"
  BY <1>2
<1> QED BY <1>1, <1>2, <1>3 DEF SentInv

\* Every step keeps SentInv.
LEMMA StepSent == StageInv /\ SentInv /\ [Next]_vars => SentInv'
<1> SUFFICES ASSUME StageInv, SentInv, [Next]_vars PROVE SentInv'
  OBVIOUS
<1>a. UNCHANGED <<flow, sent>> => BothSent' = BothSent
  BY DEF BothSent, Second
<1>1. ASSUME NEW m \in ServerMessages, AnswerHostCall(m) PROVE SentInv'
  <2>1. CASE Send("HostResponse") /\ UNCHANGED <<pc, state>>
    BY <1>1, <2>1, NextID, RespondSent DEF AnswerHostCall, Hear
  <2>2. CASE Fail /\ UNCHANGED <<sent, objectID>>
    BY <1>1, <2>2 DEF AnswerHostCall, Fail, SentInv
  <2> QED BY <1>1, <2>1, <2>2 DEF AnswerHostCall
<1>2. ASSUME NEW m \in ServerMessages, ReceiveSessionCapability(m) PROVE SentInv'
  BY <1>2 DEF ReceiveSessionCapability, Fail, SentInv
<1>3. ASSUME NEW m \in ServerMessages, WaitForOpened(m) PROVE SentInv'
  <2>1. UNCHANGED <<flow, sent>> /\ pc = "wait" /\ pc' \in {"wait", "done", "failed"}
    BY <1>3 DEF WaitForOpened, Fail
  <2> QED BY <2>1, <1>a DEF SentInv
<1>4. ASSUME NEW m \in ServerMessages, Dispatch(m) PROVE SentInv'
  <2>1. UNCHANGED <<flow, pc>> /\ sent # <<>>
    BY <1>4 DEF Dispatch, Hear
  <2>2. CASE Send("HostResponse")
    BY <2>1, <2>2, NextID, RespondSent
  <2>3. CASE UNCHANGED sent
    BY <2>1, <2>3, <1>a DEF SentInv
  <2> QED BY <1>4, <2>2, <2>3 DEF Dispatch
<1>5. CASE GetHandshakeFragments \/ GetConnectHandshakeFragments
  <2>1. sent = <<>> /\ UNCHANGED flow /\ SendTwo("Capability", Second)
        /\ Second \in {"Init", "Connect"}
        /\ (pc' = "response" \/ (pc' = "begin" /\ flow = "create"))
    BY <1>5 DEF GetHandshakeFragments, GetConnectHandshakeFragments, SentInv, Second
  <2>2. Len(sent') = Len(sent) + 2 /\ sent'[2] = [type |-> Second, id |-> 2] /\ Len(sent) = 0
    BY <2>1, TwoTypes
  <2>3. BothSent'
    BY <2>1, <2>2 DEF BothSent, Second
  <2> QED BY <2>1, <2>3 DEF SentInv
<1>6. CASE ProcessConnectResponse \/ ResumeOpened
  <2>1. /\ UNCHANGED <<flow, sent>> /\ pc \in {"response", "resume"}
        /\ pc' \in {"resume", "failed", "done"}
    BY <1>6 DEF ProcessConnectResponse, ResumeOpened
  <2> QED BY <2>1, <1>a DEF SentInv
<1>7. CASE EmbedPipeline
  <2>1. Sends("CreatePipeline") /\ UNCHANGED <<flow, pc>> /\ pc = "done"
    BY <1>7, NextID DEF EmbedPipeline
  <2> QED BY <2>1, BothSentKept DEF SentInv
<1>8. CASE Begin
  <2>1. /\ UNCHANGED <<flow, sent>> /\ pc = "begin"
        /\ pc' = IF flow = "create" THEN "wait" ELSE "capability"
    BY <1>8 DEF Begin
  <2> QED BY <2>1, <1>a DEF SentInv
<1>9. CASE SendCapability
  <2>1. Sends("Capability") /\ UNCHANGED flow /\ sent = <<>> /\ pc' \in {"init", "receive"}
    BY <1>9, NextID DEF SendCapability, SentInv
  <2>2. Len(sent) = 0 /\ Len(sent') = Len(sent) + 1 /\ sent' # <<>>
    BY <2>1, SentElements
  <2> QED BY <2>1, <2>2 DEF SentInv
<1>10. CASE SendInit
  <2>1. /\ Sends(Second) /\ UNCHANGED flow /\ sent # <<>>
        /\ pc' \in {"connecting", "wait"} /\ Second \in {"Init", "Connect"}
    BY <1>10, NextID DEF SendInit, SentInv, Second, StageInv
  <2>2. Len(sent) \in Nat /\ Len(sent) # 0
    BY <2>1 DEF StageInv
  <2>3. Len(sent') = Len(sent) + 1 /\ sent'[Len(sent) + 1].type = Second
    BY <2>1, SentElements
  <2>4. BothSent'
    BY <2>1, <2>2, <2>3 DEF BothSent, Second
  <2> QED BY <2>1, <2>4 DEF SentInv
<1>11. CASE OpenFails
  BY <1>11 DEF OpenFails, Fail, SentInv
<1>12. CASE ConnectReturns
  <2>1. UNCHANGED <<flow, sent>> /\ (pc' = "failed" \/ (pc = "connecting" /\ pc' = "done"))
    BY <1>12 DEF ConnectReturns
  <2> QED BY <2>1, <1>a DEF SentInv
<1>13. CASE GetCommandMetadata
  <2>1. Sends("GetCommandMetadata") /\ UNCHANGED <<flow, pc>> /\ pc = "done"
    BY <1>13, NextID DEF GetCommandMetadata
  <2> QED BY <2>1, BothSentKept DEF SentInv
<1>14. CASE StartDispatchLoop \/ QueryEnds \/ UNCHANGED vars
  <2>1. UNCHANGED <<flow, pc, sent>>
    BY <1>14 DEF StartDispatchLoop, QueryEnds
  <2> QED BY <2>1, <1>a DEF SentInv
<1> QED BY <1>1, <1>2, <1>3, <1>4, <1>5, <1>6, <1>7, <1>8, <1>9, <1>10, <1>11,
           <1>12, <1>13, <1>14 DEF Next

-----------------------------------------------------------------------------
(* What is heard.                                                           *)

\* What was heard before stays, and a message more is at the end.
LEMMA HeardElements ==
    ASSUME StageInv, NEW m \in ServerMessages, Hear(m)
    PROVE  /\ Len(heard) \in Nat /\ DOMAIN heard = 1 .. Len(heard)
           /\ DOMAIN heard' = 1 .. (Len(heard) + 1)
           /\ heard'[Len(heard) + 1] = m
           /\ \A i \in 1 .. Len(heard) : heard'[i] = heard[i]
BY AppendElements DEF StageInv, Hear

\* A compatible capability that only host calls precede stays one.
LEMMA FirstCapabilityKept ==
    ASSUME StageInv, NEW m \in ServerMessages, Hear(m), CapabilityHeard
    PROVE  CapabilityHeard'
<1>1. PICK i \in DOMAIN heard :
         /\ heard[i].type = "Capability" /\ heard[i].version = "2.3"
         /\ \A k \in 1 .. (i - 1) : heard[k].type = "HostCall"
  BY DEF CapabilityHeard
<1>2. i \in DOMAIN heard' /\ heard'[i] = heard[i] /\ i \in 1 .. Len(heard)
  BY HeardElements
<1>3. \A k \in 1 .. (i - 1) : heard'[k] = heard[k]
  BY <1>2, HeardElements
<1> QED BY <1>1, <1>2, <1>3 DEF CapabilityHeard

\* A handshake that was accepted stays accepted, whatever comes later.
LEMMA AcceptedKept ==
    ASSUME StageInv, NEW m \in ServerMessages, Hear(m), UNCHANGED <<flow, counts>>, Accepted
    PROVE  Accepted'
<1>1. PICK j \in Heard("State") :
        /\ SaysOpened(heard[j].report)
        /\ counts[1] \in {OwnMin} \cup Stated(heard[j].report, "MinRunspaces")
        /\ counts[2] \in {OwnMax} \cup Stated(heard[j].report, "MaxRunspaces")
        /\ counts[1] > 0 /\ counts[2] > 0
        /\ \A k \in 1 .. (j - 1) : heard[k].type \in {"HostCall", "InitData", "Capability"}
        /\ flow = "open" =>
              \E i \in 1 .. (j - 1) :
                  /\ heard[i].type = "Capability" /\ heard[i].version = "2.3"
                  /\ \A k \in 1 .. (i - 1) : heard[k].type = "HostCall"
  BY DEF Accepted
<1>2. /\ j \in 1 .. Len(heard) /\ Len(heard) \in Nat
      /\ j \in Heard("State")' /\ heard'[j] = heard[j]
  BY HeardElements DEF Heard
<1>3. \A k \in 1 .. (j - 1) : heard'[k] = heard[k]
  BY <1>2, HeardElements
<1>4. \A i \in 1 .. (j - 1) : \A k \in 1 .. (i - 1) : heard'[k] = heard[k]
  BY <1>2, HeardElements
<1> QED BY <1>1, <1>2, <1>3, <1>4 DEF Accepted

\* parseRunspacePoolState reads Opened only from a report that says so.
LEMMA OpenedIsSaid ==
    ASSUME NEW r, Opened \in StateIn(r)
    PROVE  SaysOpened(r)
<1>1. CASE "RunspaceState" \in DOMAIN r
  BY <1>1 DEF StateIn, SaysOpened, Stated
<1>2. CASE "RunspaceState" \notin DOMAIN r /\ "RunspacePoolState" \in DOMAIN r
  BY <1>2 DEF StateIn, SaysOpened, Stated
<1>3. CASE "RunspaceState" \notin DOMAIN r /\ "RunspacePoolState" \notin DOMAIN r
  <2>1. DOMAIN r # {}
    BY <1>3 DEF StateIn, Opened
  <2>2. Opened \in {r[k] : k \in DOMAIN r}
    BY <1>3, <2>1 DEF StateIn
  <2> QED BY <1>3, <2>2 DEF SaysOpened
<1> QED BY <1>1, <1>2, <1>3

\* A negotiated count is positive, and the server's or the pool's own.
LEMMA CountsNegotiated ==
    ASSUME NEW r \in Reports, NEW name, NEW own \in Nat \ {0}
    PROVE  /\ Negotiated(r, name, own) \in {own} \cup Stated(r, name)
           /\ Negotiated(r, name, own) > 0
BY SessionAssumption DEF Negotiated, Stated

\* The messages of the server, by their types.
LEMMA MessageTypes ==
    ASSUME NEW m \in ServerMessages
    PROVE  m.type = "State" => m.report \in Reports
BY DEF ServerMessages, Capability, Report, Plain

\* The report that ends waitForOpened completes an accepted handshake.
LEMMA OpenedAccepted ==
    ASSUME StageInv, HeardInv, NEW m \in ServerMessages, pc = "wait", Hear(m),
           m.type = "State", Opened \in StateIn(m.report), UNCHANGED flow,
           counts' = <<Negotiated(m.report, "MinRunspaces", OwnMin),
                       Negotiated(m.report, "MaxRunspaces", OwnMax)>>
    PROVE  Accepted'
<1>1. /\ Len(heard) \in Nat /\ DOMAIN heard = 1 .. Len(heard)
      /\ DOMAIN heard' = 1 .. (Len(heard) + 1)
      /\ heard'[Len(heard) + 1] = m
      /\ \A i \in 1 .. Len(heard) : heard'[i] = heard[i]
  BY HeardElements
<1>2. PICK j : j = Len(heard) + 1
  OBVIOUS
<1>3. j \in Heard("State")' /\ heard'[j] = m /\ j - 1 = Len(heard)
  BY <1>1, <1>2 DEF Heard
<1>4. SaysOpened(m.report)
  BY OpenedIsSaid
<1>5. /\ counts'[1] \in {OwnMin} \cup Stated(m.report, "MinRunspaces") /\ counts'[1] > 0
      /\ counts'[2] \in {OwnMax} \cup Stated(m.report, "MaxRunspaces") /\ counts'[2] > 0
  BY MessageTypes, CountsNegotiated, SessionAssumption
<1>6. \A k \in 1 .. (j - 1) : heard'[k].type \in {"HostCall", "InitData", "Capability"}
  BY <1>1, <1>3 DEF HeardInv
<1>7. flow = "open" =>
         \E i \in 1 .. (j - 1) :
             /\ heard'[i].type = "Capability" /\ heard'[i].version = "2.3"
             /\ \A k \in 1 .. (i - 1) : heard'[k].type = "HostCall"
  BY <1>1, <1>3 DEF HeardInv, CapabilityHeard
<1> QED BY <1>3, <1>4, <1>5, <1>6, <1>7 DEF Accepted

\* Every step keeps HeardInv.
LEMMA StepHeard == StageInv /\ HeardInv /\ [Next]_vars => HeardInv'
<1> SUFFICES ASSUME StageInv, HeardInv, [Next]_vars PROVE HeardInv'
  OBVIOUS
<1>a. UNCHANGED <<flow, heard, counts>> => Accepted' = Accepted /\ CapabilityHeard' = CapabilityHeard
  BY DEF Accepted, Heard, CapabilityHeard
<1>b. heard = <<>> => \A P : \A k \in DOMAIN heard : heard[k].type \in P
  OBVIOUS
<1>1. ASSUME NEW m \in ServerMessages, AnswerHostCall(m) PROVE HeardInv'
  <2>1. CASE m.type = "HostCall" /\ UNCHANGED pc
    <3>1. UNCHANGED <<flow, counts>> /\ pc \in {"receive", "wait"} /\ Hear(m)
      BY <1>1 DEF AnswerHostCall
    <3>2. CapabilityHeard => CapabilityHeard'
      BY <3>1, FirstCapabilityKept
    <3>3. pc = "receive" => \A k \in DOMAIN heard' : heard'[k].type = "HostCall"
      BY <2>1, <3>1, HeardElements DEF HeardInv
    <3>4. pc = "wait" =>
             \A k \in DOMAIN heard' : heard'[k].type \in {"HostCall", "InitData", "Capability"}
      BY <2>1, <3>1, HeardElements DEF HeardInv
    <3> QED BY <2>1, <3>1, <3>2, <3>3, <3>4 DEF HeardInv, OpenedIsNegotiated
  <2>2. CASE pc' = "failed"
    BY <2>2 DEF HeardInv, OpenedIsNegotiated
  <2> QED BY <1>1, <2>1, <2>2 DEF AnswerHostCall, Fail
<1>2. ASSUME NEW m \in ServerMessages, ReceiveSessionCapability(m) PROVE HeardInv'
  <2>1. CASE pc' = "init" /\ m.type = "Capability" /\ m.version = "2.3"
    <3>1. UNCHANGED <<flow, counts>> /\ pc = "receive" /\ Hear(m)
      BY <1>2 DEF ReceiveSessionCapability
    <3>2. \A k \in 1 .. Len(heard) : heard'[k].type = "HostCall"
      BY <3>1, HeardElements DEF HeardInv
    <3>3. CapabilityHeard'
      <4>1. PICK i : i = Len(heard) + 1
        OBVIOUS
      <4>2. i \in DOMAIN heard' /\ heard'[i] = m /\ i - 1 = Len(heard)
        BY <3>1, <4>1, HeardElements
      <4> QED BY <2>1, <3>2, <4>2 DEF CapabilityHeard
    <3>4. \A k \in DOMAIN heard' : heard'[k].type \in {"HostCall", "InitData", "Capability"}
      BY <2>1, <3>1, <3>2, HeardElements
    <3> QED BY <2>1, <3>3, <3>4 DEF HeardInv, OpenedIsNegotiated
  <2>2. CASE pc' = "failed"
    BY <2>2 DEF HeardInv, OpenedIsNegotiated
  <2> QED BY <1>2, <2>1, <2>2 DEF ReceiveSessionCapability, Fail, Compatible
<1>3. ASSUME NEW m \in ServerMessages, WaitForOpened(m) PROVE HeardInv'
  <2>0. UNCHANGED flow /\ pc = "wait" /\ Hear(m)
    BY <1>3 DEF WaitForOpened
  <2>1. CASE m.type \in {"InitData", "Capability"} /\ UNCHANGED <<pc, counts>>
    <3>1. CapabilityHeard => CapabilityHeard'
      BY <2>0, FirstCapabilityKept
    <3>2. \A k \in DOMAIN heard' : heard'[k].type \in {"HostCall", "InitData", "Capability"}
      BY <2>0, <2>1, HeardElements DEF HeardInv
    <3> QED BY <2>0, <2>1, <3>1, <3>2 DEF HeardInv, OpenedIsNegotiated
  <2>2. CASE /\ m.type = "State" /\ Opened \in StateIn(m.report) /\ pc' = "done"
             /\ counts' = <<Negotiated(m.report, "MinRunspaces", OwnMin),
                            Negotiated(m.report, "MaxRunspaces", OwnMax)>>
    <3>1. Accepted'
      BY <2>0, <2>2, OpenedAccepted
    <3> QED BY <2>2, <3>1 DEF HeardInv, OpenedIsNegotiated
  <2>3. CASE pc' = "failed"
    BY <2>3 DEF HeardInv, OpenedIsNegotiated
  <2> QED BY <1>3, <2>1, <2>2, <2>3 DEF WaitForOpened, Fail
<1>4. ASSUME NEW m \in ServerMessages, Dispatch(m) PROVE HeardInv'
  <2>1. UNCHANGED <<flow, pc, counts>> /\ (pc = "done" \/ flow = "connect") /\ Hear(m)
    BY <1>4 DEF Dispatch, StageInv
  <2>2. Accepted => Accepted'
    BY <2>1, AcceptedKept
  <2> QED BY <2>1, <2>2 DEF HeardInv, OpenedIsNegotiated, StageInv
<1>5. CASE GetHandshakeFragments \/ GetConnectHandshakeFragments
  BY <1>5 DEF GetHandshakeFragments, GetConnectHandshakeFragments, HeardInv,
              OpenedIsNegotiated
<1>6. CASE ProcessConnectResponse \/ ResumeOpened
  BY <1>6 DEF ProcessConnectResponse, ResumeOpened, HeardInv, OpenedIsNegotiated, StageInv
<1>7. CASE Begin \/ SendCapability
  <2>1. /\ UNCHANGED <<flow, heard, counts>> /\ pc \in {"begin", "capability"}
        /\ pc' \in {"capability", "wait", "init", "receive"}
        /\ pc' \in {"capability", "receive"} /\ flow # "connect" => heard = <<>>
        /\ pc' = "wait" => flow = "create" /\ heard = <<>>
        /\ pc' = "init" => flow = "connect"
        /\ pc' = "receive" => heard = <<>>
    BY <1>7 DEF Begin, SendCapability, HeardInv, StageInv
  <2> QED BY <2>1, <1>b DEF HeardInv, OpenedIsNegotiated
<1>8. CASE SendInit
  <2>1. /\ UNCHANGED <<flow, heard, counts>> /\ pc = "init" /\ flow \in {"open", "connect"}
        /\ pc' = IF flow = "connect" THEN "connecting" ELSE "wait"
    BY <1>8 DEF SendInit, StageInv
  <2> QED BY <2>1, <1>a DEF HeardInv, OpenedIsNegotiated
<1>9. CASE OpenFails
  BY <1>9 DEF OpenFails, Fail, HeardInv, OpenedIsNegotiated
<1>10. CASE ConnectReturns
  BY <1>10 DEF ConnectReturns, HeardInv, OpenedIsNegotiated, StageInv
<1>11. CASE EmbedPipeline \/ GetCommandMetadata \/ StartDispatchLoop \/ QueryEnds
            \/ UNCHANGED vars
  <2>1. UNCHANGED <<flow, pc, heard, counts>>
    BY <1>11 DEF EmbedPipeline, GetCommandMetadata, StartDispatchLoop, QueryEnds
  <2> QED BY <2>1, <1>a DEF HeardInv, OpenedIsNegotiated
<1> QED BY <1>1, <1>2, <1>3, <1>4, <1>5, <1>6, <1>7, <1>8, <1>9, <1>10, <1>11 DEF Next

\* A new session has heard nothing.
LEMMA InitHeard == Init => HeardInv
BY DEF Init, HeardInv, OpenedIsNegotiated

\* Open succeeds only after a handshake that a reader of all the messages would
\* accept, for every server: whatever it sends, of which versions and reports, in
\* which order and however much of it.
THEOREM NegotiationCorrect == Spec => []OpenedIsNegotiated
<1>1. Init => StageInv /\ HeardInv
  BY InitStage, InitHeard
<1>2. StageInv /\ HeardInv /\ [Next]_vars => (StageInv /\ HeardInv)'
  BY StepStage, StepHeard
<1>3. HeardInv => OpenedIsNegotiated
  BY DEF HeardInv
<1> QED BY <1>1, <1>2, <1>3, PTL DEF Spec

-----------------------------------------------------------------------------
(* The order of the handshake.                                              *)

\* Both halves of the handshake in the arguments of one WSMan request.
LEMMA TwoInOrder ==
    ASSUME StageInv, sent = <<>>, UNCHANGED flow, flow # "open",
           SendTwo("Capability", Second)
    PROVE  HandshakeInOrder'
<1>1. Second \in {"Init", "Connect"} /\ Second' = Second
  BY DEF Second
<1>2. /\ Len(sent') = 2 /\ DOMAIN sent' = 1 .. 2
      /\ sent'[1] = [type |-> "Capability", id |-> 1]
      /\ sent'[2] = [type |-> Second, id |-> 2]
  BY <1>1, TwoTypes
<1>3. /\ sent'[1].type = "Capability" /\ sent'[1].id = 1
      /\ sent'[2].type = Second /\ sent'[2].id = 2
  BY <1>2
<1>4. \A n \in DOMAIN sent' : n = 1 \/ n = 2
  BY <1>2
<1>5. \A n \in DOMAIN sent' : sent'[n].id = n
  BY <1>3, <1>4
<1>6. \A n \in DOMAIN sent' : sent'[n].type = "Capability" <=> n = 1
  BY <1>1, <1>3, <1>4
<1>7. \A n \in DOMAIN sent' : sent'[n].type = Second =>
         /\ \A k \in 2 .. (n - 1) : sent'[k].type = "HostResponse"
         /\ \A k \in (n + 1) .. Len(sent') : sent'[k].type # Second
  BY <1>1, <1>2, <1>3, <1>4
<1>8. \A n \in DOMAIN sent' : sent'[n].type \notin {"CreatePipeline", "GetCommandMetadata"}
  BY <1>1, <1>3, <1>4
<1> QED BY <1>1, <1>5, <1>6, <1>7, <1>8 DEF HandshakeInOrder, Is

\* Every step keeps the order.
LEMMA StepOrder ==
    StageInv /\ SentInv /\ HeardInv /\ HandshakeInOrder /\ [Next]_vars => HandshakeInOrder'
<1> SUFFICES ASSUME StageInv, SentInv, HeardInv, HandshakeInOrder, [Next]_vars
             PROVE  HandshakeInOrder'
  OBVIOUS
<1>a. Second \in {"Init", "Connect"}
  BY DEF Second
<1>b. BothSent => sent # <<>>
  BY DEF BothSent, StageInv
<1>1. ASSUME NEW m \in ServerMessages, AnswerHostCall(m) PROVE HandshakeInOrder'
  <2>1. HearsMore /\ UNCHANGED flow /\ sent # <<>>
    BY <1>1 DEF AnswerHostCall, Hear, HearsMore
  <2>2. CASE Send("HostResponse")
    BY <2>1, <2>2, <1>a, NextID, SendInOrder
  <2>3. CASE UNCHANGED sent
    BY <2>1, <2>3, QuietInOrder
  <2> QED BY <1>1, <2>2, <2>3 DEF AnswerHostCall
<1>2. ASSUME NEW m \in ServerMessages, ReceiveSessionCapability(m) \/ WaitForOpened(m)
      PROVE  HandshakeInOrder'
  BY <1>2, QuietInOrder DEF ReceiveSessionCapability, WaitForOpened, Hear, HearsMore
<1>3. ASSUME NEW m \in ServerMessages, Dispatch(m) PROVE HandshakeInOrder'
  <2>1. HearsMore /\ UNCHANGED flow /\ sent # <<>>
    BY <1>3 DEF Dispatch, Hear, HearsMore
  <2>2. CASE Send("HostResponse")
    BY <2>1, <2>2, <1>a, NextID, SendInOrder
  <2>3. CASE UNCHANGED sent
    BY <2>1, <2>3, QuietInOrder
  <2> QED BY <1>3, <2>2, <2>3 DEF Dispatch
<1>4. CASE GetHandshakeFragments \/ GetConnectHandshakeFragments
  <2>1. sent = <<>> /\ UNCHANGED flow /\ SendTwo("Capability", Second) /\ flow # "open"
    BY <1>4 DEF GetHandshakeFragments, GetConnectHandshakeFragments, SentInv, Second
  <2> QED BY <2>1, TwoInOrder
<1>5. CASE EmbedPipeline
  <2>1. Sends("CreatePipeline") /\ UNCHANGED <<flow, heard>> /\ BothSent
    BY <1>5, NextID DEF EmbedPipeline, SentInv
  <2> QED BY <2>1, <1>a, <1>b, SendInOrder DEF HearsMore
<1>6. CASE GetCommandMetadata
  <2>1. Sends("GetCommandMetadata") /\ UNCHANGED <<flow, heard>> /\ BothSent
    BY <1>6, NextID DEF GetCommandMetadata, SentInv
  <2> QED BY <2>1, <1>a, <1>b, SendInOrder DEF HearsMore
<1>7. CASE SendCapability
  <2>1. Sends("Capability") /\ UNCHANGED <<flow, heard>> /\ sent = <<>>
    BY <1>7, NextID DEF SendCapability, SentInv
  <2> QED BY <2>1, <1>a, SendInOrder DEF HearsMore
<1>8. CASE SendInit
  <2>1. /\ Sends(Second) /\ UNCHANGED <<flow, heard>> /\ sent # <<>>
        /\ \A n \in 2 .. Len(sent) : sent[n].type = "HostResponse"
    BY <1>8, NextID DEF SendInit, SentInv, Second, StageInv
  <2>2. flow = "open" => \E i \in Heard("Capability") : heard[i].version = "2.3"
    BY <1>8 DEF SendInit, HeardInv, CapabilityHeard, Heard
  <2> QED BY <2>1, <2>2, <1>a, SendInOrder DEF HearsMore
<1>9. CASE \/ ProcessConnectResponse \/ ResumeOpened \/ Begin \/ OpenFails
           \/ ConnectReturns \/ StartDispatchLoop \/ QueryEnds \/ UNCHANGED vars
  BY <1>9, QuietInOrder DEF ProcessConnectResponse, ResumeOpened, Begin, OpenFails,
          ConnectReturns, StartDispatchLoop, QueryEnds, HearsMore
<1> QED BY <1>1, <1>2, <1>3, <1>4, <1>5, <1>6, <1>7, <1>8, <1>9 DEF Next

\* The server sees the handshake once and in order, with consecutive object IDs
\* over messages, WSMan arguments and any number of embedded pipelines.
THEOREM HandshakeCorrect == Spec => []HandshakeInOrder
<1> DEFINE Inv == StageInv /\ SentInv /\ HeardInv /\ HandshakeInOrder
<1>1. Init => Inv
  <2>1. Init => SentInv
    BY SessionAssumption DEF Init, SentInv, AllFlows
  <2>2. Init => HandshakeInOrder
    BY DEF Init, HandshakeInOrder
  <2> QED BY <2>1, <2>2, InitStage, InitHeard
<1>2. Inv /\ [Next]_vars => Inv'
  BY StepStage, StepSent, StepHeard, StepOrder
<1>3. Inv => HandshakeInOrder
  OBVIOUS
<1> HIDE DEF Inv
<1> QED BY <1>1, <1>2, <1>3, PTL DEF Spec

==============================================================================
