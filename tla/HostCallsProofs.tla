--------------------------- MODULE HostCallsProofs ---------------------------
(* Theorems about HostCalls for every number of calls, whichever methods    *)
(* the server uses and whatever parameters it gives them.                   *)
EXTENDS HostCalls, SequenceTheorems, TLAPS

USE DEF vars, calls, world

Stages == {"none", "arrived", "decode", "handle", "ui", "encode", "send", "answered", "failed"}
Kinds == {"any", "string", "int", "objects"}
Faults == {"none", "field"}
Unserializable == {"host.Version", "PSCredential", "map of others"}
GoTypes == Serializable \cup Unserializable
Messages == [bad : Faults, method : AllMethods \cup {"none"}, params : Seq(Values)]
Outcomes == [er : BOOLEAN, rv : GoTypes \cup {"none"}]
Replies == [ci : Calls, er : BOOLEAN, rv : GoTypes \cup {"none"}]

\* Every variable has its type: a response is of a Go type that a handler
\* returns (HandleCall, host/callback.go).
TypeOK ==
    /\ owner \in {"pool", "opening pool", "pipeline"}
    /\ host \in {"nil", "noUI", "NullHost", "user"}
    /\ stage \in [Calls -> Stages]
    /\ message \in [Calls -> Messages]
    /\ asked \in [Calls -> Nat]
    /\ response \in [Calls -> Outcomes]
    /\ replies \in Seq(Replies)
    /\ status \in {"live", "ended", "failed"} /\ link \in {"up", "down"}
    /\ cancelled \in BOOLEAN /\ reading \in BOOLEAN
    /\ inbox \in Seq(Calls)

-----------------------------------------------------------------------------
(* The operators.                                                           *)

\* A handler's demands are of four kinds.
LEMMA SignatureType ==
    ASSUME NEW m PROVE Signature(m) \in Seq(Kinds)
<1>1. /\ <<>> \in Seq(Kinds) /\ <<"string">> \in Seq(Kinds)
      /\ <<"any", "any", "string">> \in Seq(Kinds)
      /\ <<"int", "any">> \in Seq(Kinds)
      /\ <<"string", "string", "objects">> \in Seq(Kinds)
  BY DEF Kinds
<1>2. /\ <<"string", "string", "objects", "int">> \in Seq(Kinds)
      /\ <<"string", "string", "objects", "any">> \in Seq(Kinds)
      /\ <<"string", "string", "string", "string">> \in Seq(Kinds)
  BY DEF Kinds
<1>3. <<"string", "string", "string", "string", "any", "any">> \in Seq(Kinds)
  BY DEF Kinds
<1> HIDE DEF Kinds
<1> QED BY <1>1, <1>2, <1>3, Zenon DEF Signature

\* What a method returns, with or without a user interface, has a Go type that
\* the serializer knows, or is one of the two it does not.
LEMMA ReturnTypeType ==
    ASSUME NEW m, NEW ui PROVE ReturnType(m, ui) \in GoTypes
BY DEF ReturnType, GoTypes, Serializable, Unserializable

\* What a user interface returns has one too.
LEMMA AnswersType ==
    ASSUME NEW m PROVE Answers(m) \subseteq GoTypes
BY ReturnTypeType DEF Answers, GoTypes, Unserializable

\* The parameters the server may give are values.
LEMMA ParametersType ==
    ASSUME NEW m PROVE Parameters(m) \subseteq Seq(Values)
<1> DEFINE n == Len(Signature(m))
<1>1. /\ n \in Nat /\ \A i \in 1 .. n : Signature(m)[i] \in Kinds
  BY SignatureType
<1>2. \A i \in 1 .. n : Example(Signature(m)[i]) \in Values
  BY <1>1 DEF Example, Kinds, Values
<1> HIDE DEF n
<1>3. Correct(m) \in Seq(Values) /\ Len(Correct(m)) = n
  BY <1>1, <1>2 DEF Correct, n
<1>4. SubSeq(Correct(m), 1, n - 1) \in Seq(Values)
  <2>1. \A i \in 1 .. n - 1 : Correct(m)[i] \in Values
    BY <1>1, <1>3
  <2>2. n - 1 \in Int
    BY <1>1
  <2> QED BY <2>1, <2>2, SubSeqProperties
<1>5. ASSUME NEW i \in 1 .. n PROVE [Correct(m) EXCEPT ![i] = "other"] \in Seq(Values)
  <2>1. "other" \in Values
    BY DEF Values
  <2> QED BY <2>1, <1>3, ExceptSeq
<1> QED BY <1>3, <1>4, <1>5 DEF Parameters, n

\* Every message of the server has its type.
LEMMA MessagesType == HostCallMessages \subseteq Messages
<1> SUFFICES ASSUME NEW msg \in HostCallMessages PROVE msg \in Messages
  OBVIOUS
<1>1. ASSUME NEW m \in Methods, msg \in [bad : {"none"}, method : {m}, params : Parameters(m)]
      PROVE  msg \in Messages
  BY <1>1, ParametersType, HostCallsAssumption DEF Messages, Faults
<1>2. ASSUME msg \in [bad : {"field"}, method : {"Unknown"}, params : {<<>>}]
      PROVE  msg \in Messages
  <2>1. "Unknown" \in AllMethods
    BY DEF AllMethods, Unsupported
  <2>2. <<>> \in Seq(Values)
    OBVIOUS
  <2> QED BY <1>2, <2>1, <2>2 DEF Messages, Faults
<1>3. \/ \E m \in Methods : msg \in [bad : {"none"}, method : {m}, params : Parameters(m)]
      \/ msg \in [bad : {"field"}, method : {"Unknown"}, params : {<<>>}]
  BY DEF HostCallMessages
<1> QED BY <1>1, <1>2, <1>3

-----------------------------------------------------------------------------
(* Types.                                                                   *)

\* An answer of HandleCall keeps the types, and the method and the fault of
\* the call.
LEMMA RespondType ==
    ASSUME TypeOK, NEW c \in Calls, NEW er \in BOOLEAN, NEW rv \in GoTypes, Respond(c, er, rv)
    PROVE  /\ stage' = [stage EXCEPT ![c] = "encode"] /\ stage' \in [Calls -> Stages]
           /\ response' \in [Calls -> Outcomes]
           /\ response' = [response EXCEPT ![c] = [er |-> er, rv |-> rv]]
           /\ message' \in [Calls -> Messages]
           /\ \A d \in Calls : /\ message'[d].bad = message[d].bad
                               /\ message'[d].method = message[d].method
<1> USE DEF TypeOK, Respond
<1>1. stage' = [stage EXCEPT ![c] = "encode"] /\ stage' \in [Calls -> Stages]
  BY DEF Stages
<1>2. /\ response' \in [Calls -> Outcomes]
      /\ response' = [response EXCEPT ![c] = [er |-> er, rv |-> rv]]
  <2>1. [er |-> er, rv |-> rv] \in Outcomes
    BY DEF Outcomes
  <2> QED BY <2>1
<1>3. message' = [message EXCEPT ![c] = [message[c] EXCEPT !.params = <<>>]]
  OBVIOUS
<1>4. /\ [message[c] EXCEPT !.params = <<>>] \in Messages
      /\ [message[c] EXCEPT !.params = <<>>].bad = message[c].bad
      /\ [message[c] EXCEPT !.params = <<>>].method = message[c].method
  <2> HIDE DEF Respond
  <2>1. message[c] \in Messages
    OBVIOUS
  <2> HIDE DEF TypeOK
  <2>2. <<>> \in Seq(Values)
    OBVIOUS
  <2> QED BY <2>1, <2>2 DEF Messages
<1> HIDE DEF Respond
<1>5. message' \in [Calls -> Messages]
  BY <1>3, <1>4
<1>6. \A d \in Calls : /\ message'[d].bad = message[d].bad
                       /\ message'[d].method = message[d].method
  BY <1>3, <1>4
<1> QED BY <1>1, <1>2, <1>5, <1>6

\* Init sets every variable to a value of its type.
LEMMA InitType == Init => TypeOK
<1> SUFFICES ASSUME Init PROVE TypeOK
  OBVIOUS
<1>1. None \in Messages
  BY DEF None, Messages, Faults
<1>2. NoResponse \in Outcomes
  BY DEF NoResponse, Outcomes
<1>3. stage \in [Calls -> Stages] /\ asked \in [Calls -> Nat]
  BY DEF Init, Stages
<1>4. replies \in Seq(Replies)
  <2>1. replies = <<>>
    BY DEF Init
  <2> QED BY <2>1
<1>5. inbox \in Seq(Calls)
  <2>1. inbox = <<>>
    BY DEF Init
  <2> QED BY <2>1
<1> QED BY <1>1, <1>2, <1>3, <1>4, <1>5 DEF Init, TypeOK

\* The reader turns to a call that has arrived.
LEMMA StartsFirst ==
    ASSUME TypeOK, Start
    PROVE  /\ Head(inbox) \in Calls /\ inbox' \in Seq(Calls)
           /\ stage' = [stage EXCEPT ![Head(inbox)] = "decode"]
<1>1. inbox \in Seq(Calls) /\ inbox # <<>>
  BY DEF TypeOK, Start
<1>2. inbox' = Tail(inbox) /\ stage' = [stage EXCEPT ![Head(inbox)] = "decode"]
  BY DEF Start
<1> QED BY <1>1, <1>2, HeadTailProperties

\* Every step of a call's goroutine, of the reader, the owner and the link keeps
\* the types.
LEMMA StepType == TypeOK /\ [Next]_vars => TypeOK'
<1> SUFFICES ASSUME TypeOK, [Next]_vars PROVE TypeOK'
  OBVIOUS
<1> USE DEF TypeOK
<1>1. ASSUME NEW c \in Calls, NEW msg \in HostCallMessages, Arrive(c, msg) PROVE TypeOK'
  <2>1. msg \in Messages
    BY MessagesType
  <2>2. inbox' \in Seq(Calls)
    BY <1>1, AppendProperties DEF Arrive
  <2> QED BY <1>1, <2>1, <2>2 DEF Arrive, Stages
<1>2. ASSUME NEW c \in Calls, Step(c) PROVE TypeOK'
  <2>f. ASSUME HandlingFails(c) PROVE TypeOK'
    BY <2>f DEF HandlingFails, Stages
  <2>1. CASE DecodeRemoteHostCall(c)
    BY <2>1 DEF DecodeRemoteHostCall, Stages
  <2>2. CASE DecodeFails(c)
    BY <2>2, <2>f DEF DecodeFails
  <2>3. CASE Refuse(c)
    <3>1. "string" \in GoTypes /\ TRUE \in BOOLEAN
      BY DEF GoTypes, Serializable
    <3>2. Respond(c, TRUE, "string")
      BY <2>3 DEF Refuse
    <3> QED BY <2>3, <3>1, <3>2, RespondType DEF Refuse
  <2>4. CASE AnswerDirectly(c)
    <3>1. Respond(c, FALSE, ReturnType(message[c].method, FALSE))
      BY <2>4 DEF AnswerDirectly
    <3>2. ReturnType(message[c].method, FALSE) \in GoTypes
      BY ReturnTypeType
    <3> QED BY <2>4, <3>1, <3>2, RespondType DEF AnswerDirectly
  <2>5. CASE AskUI(c)
    <3>1. asked' = [asked EXCEPT ![c] = asked[c] + 1]
      BY <2>5, Zenon DEF AskUI
    <3>2. asked' \in [Calls -> Nat]
      <4>1. asked \in [Calls -> Nat]
        OBVIOUS
      <4> HIDE DEF TypeOK
      <4>2. asked[c] + 1 \in Nat
        BY <4>1
      <4> QED BY <3>1, <4>1, <4>2
    <3> QED BY <2>5, <3>2 DEF AskUI, Stages
  <2>6. CASE UIReturns(c)
    <3>1. PICK rv \in Answers(message[c].method) : Respond(c, FALSE, rv)
      BY <2>6 DEF UIReturns
    <3>2. rv \in GoTypes
      BY AnswersType
    <3> QED BY <2>6, <3>1, <3>2, RespondType DEF UIReturns
  <2>7. CASE UIFails(c)
    <3>1. "string" \in GoTypes /\ TRUE \in BOOLEAN
      BY DEF GoTypes, Serializable
    <3>2. Respond(c, TRUE, "string")
      BY <2>7 DEF UIFails
    <3> QED BY <2>7, <3>1, <3>2, RespondType DEF UIFails
  <2>8. CASE EncodeRemoteHostResponse(c)
    BY <2>8 DEF EncodeRemoteHostResponse, Stages
  <2>9. CASE EncodeFails(c)
    BY <2>9, <2>f DEF EncodeFails
  <2>10. CASE SendResponse(c)
    <3>1. [ci |-> c, er |-> response[c].er, rv |-> response[c].rv] \in Replies
      BY DEF Outcomes, Replies
    <3>2. replies' \in Seq(Replies)
      <4>1. /\ replies' = Append(replies, [ci |-> c, er |-> response[c].er, rv |-> response[c].rv])
            /\ replies \in Seq(Replies)
        BY <2>10, Zenon DEF SendResponse
      <4> HIDE DEF TypeOK
      <4> QED BY <3>1, <4>1, AppendProperties
    <3> QED BY <2>10, <3>2 DEF SendResponse, Stages
  <2>11. CASE SendFails(c)
    BY <2>11, <2>f DEF SendFails
  <2> QED
    BY <1>2, <2>1, <2>2, <2>3, <2>4, <2>5, <2>6, <2>7, <2>8, <2>9, <2>10, <2>11
    DEF Step, HandleCall
<1>3. CASE Start
  <2>1. /\ Head(inbox) \in Calls /\ inbox' \in Seq(Calls)
        /\ stage' = [stage EXCEPT ![Head(inbox)] = "decode"]
    BY <1>3, StartsFirst
  <2> QED BY <1>3, <2>1 DEF Start, Stages
<1>4. CASE OwnerEnds \/ ContextEnds \/ LinkDown \/ StopReading
  BY <1>4 DEF OwnerEnds, ContextEnds, LinkDown, StopReading
<1>5. CASE UNCHANGED vars
  BY <1>5
<1> QED BY <1>1, <1>2, <1>3, <1>4, <1>5 DEF Next

\* The types hold in every state.
THEOREM TypeCorrect == Spec => []TypeOK
<1>1. Init => TypeOK
  BY InitType
<1>2. TypeOK /\ [Next]_vars => TypeOK'
  BY StepType
<1> QED BY <1>1, <1>2, PTL DEF Spec

-----------------------------------------------------------------------------
(* The calls that wait for the reader.                                      *)

\* They have arrived, each once, and nobody has looked at them.
Waiting ==
    /\ \A i \in 1 .. Len(inbox) : stage[inbox[i]] = "arrived"
    /\ \A i, j \in 1 .. Len(inbox) : inbox[i] = inbox[j] => i = j

\* What every invariant below starts from.
BaseInv == TypeOK /\ Waiting

\* A step that leaves the inbox and the calls that have arrived alone keeps it.
LEMMA WaitingElsewhere ==
    ASSUME BaseInv, inbox' = inbox,
           \A d \in Calls : stage[d] = "arrived" => stage'[d] = stage[d]
    PROVE  Waiting'
<1>1. inbox \in Seq(Calls)
  BY DEF BaseInv, TypeOK
<1>2. \A i \in 1 .. Len(inbox) : inbox[i] \in Calls
  BY <1>1
<1> QED BY <1>2 DEF BaseInv, Waiting

\* A step of a goroutine does: its call is not in the inbox.
LEMMA WaitingStep ==
    ASSUME BaseInv, NEW c \in Calls, Step(c)
    PROVE  /\ stage[c] \notin {"none", "arrived"} /\ inbox' = inbox
           /\ \A d \in Calls : d # c => stage'[d] = stage[d]
<1> USE DEF BaseInv, TypeOK
<1>1. CASE DecodeRemoteHostCall(c) \/ DecodeFails(c)
  BY <1>1 DEF DecodeRemoteHostCall, DecodeFails, HandlingFails
<1>2. CASE Refuse(c) \/ AnswerDirectly(c) \/ UIFails(c) \/ UIReturns(c)
  <2>1. PICK er, rv : Respond(c, er, rv)
    BY <1>2 DEF Refuse, AnswerDirectly, UIFails, UIReturns
  <2>2. \A d \in Calls : d # c => stage'[d] = stage[d]
    BY <2>1 DEF Respond
  <2> QED BY <1>2, <2>2 DEF Refuse, AnswerDirectly, UIFails, UIReturns
<1>3. CASE AskUI(c)
  BY <1>3 DEF AskUI
<1>4. CASE EncodeRemoteHostResponse(c) \/ EncodeFails(c)
  BY <1>4 DEF EncodeRemoteHostResponse, EncodeFails, HandlingFails
<1>5. CASE SendResponse(c) \/ SendFails(c)
  BY <1>5 DEF SendResponse, SendFails, HandlingFails
<1> QED BY <1>1, <1>2, <1>3, <1>4, <1>5 DEF Step, HandleCall

\* A call is in the inbox once.
LEMMA ArriveWaiting ==
    ASSUME BaseInv, NEW c \in Calls, NEW msg \in HostCallMessages, Arrive(c, msg)
    PROVE  Waiting'
<1> DEFINE n == Len(inbox)
<1>1. /\ inbox \in Seq(Calls) /\ stage \in [Calls -> Stages]
      /\ stage[c] = "none" /\ stage' = [stage EXCEPT ![c] = "arrived"]
      /\ inbox' = Append(inbox, c)
  BY DEF BaseInv, TypeOK, Arrive
<1>2. /\ n \in Nat /\ Len(inbox') = n + 1 /\ inbox'[n + 1] = c
      /\ \A i \in 1 .. n : inbox'[i] = inbox[i] /\ inbox[i] \in Calls
  BY <1>1, AppendProperties
<1>3. \A i \in 1 .. n : inbox[i] # c /\ stage[inbox[i]] = "arrived"
  BY <1>1 DEF BaseInv, Waiting
<1>4. \A i, j \in 1 .. n : inbox[i] = inbox[j] => i = j
  BY DEF BaseInv, Waiting
<1> HIDE DEF n
<1>5. \A i \in 1 .. n + 1 : i = n + 1 \/ i \in 1 .. n
  BY <1>2
<1>6. \A i \in 1 .. n + 1 : stage'[inbox'[i]] = "arrived"
  BY <1>1, <1>2, <1>3, <1>5
<1>7. \A i, j \in 1 .. n + 1 : inbox'[i] = inbox'[j] => i = j
  BY <1>2, <1>3, <1>4, <1>5
<1> QED BY <1>2, <1>6, <1>7 DEF Waiting

\* The call that the reader turns to had arrived and leaves the inbox.
LEMMA StartWaiting ==
    ASSUME BaseInv, Start
    PROVE  Waiting' /\ Head(inbox) \in Calls /\ stage[Head(inbox)] = "arrived"
<1> DEFINE n == Len(inbox)
<1>1. /\ inbox \in Seq(Calls) /\ inbox # <<>> /\ stage \in [Calls -> Stages]
      /\ inbox' = Tail(inbox) /\ stage' = [stage EXCEPT ![Head(inbox)] = "decode"]
  BY DEF BaseInv, TypeOK, Start
<1>2. /\ n \in Nat /\ 1 \in 1 .. n /\ Head(inbox) = inbox[1] /\ Len(inbox') = n - 1
      /\ \A i \in 1 .. n - 1 : inbox'[i] = inbox[i + 1]
      /\ \A i \in 1 .. n : inbox[i] \in Calls
  BY <1>1, HeadTailProperties, EmptySeq
<1>3. /\ \A i \in 1 .. n : stage[inbox[i]] = "arrived"
      /\ \A i, j \in 1 .. n : inbox[i] = inbox[j] => i = j
  BY DEF BaseInv, Waiting
<1> HIDE DEF n
<1>4. \A i \in 1 .. n - 1 : i + 1 \in 1 .. n /\ i + 1 # 1
  BY <1>2
<1>5. \A i \in 1 .. n - 1 : stage'[inbox'[i]] = "arrived"
  BY <1>1, <1>2, <1>3, <1>4
<1>6. \A i, j \in 1 .. n - 1 : inbox'[i] = inbox'[j] => i = j
  BY <1>2, <1>3, <1>4
<1> QED BY <1>2, <1>3, <1>5, <1>6 DEF Waiting

\* Every step keeps the calls that wait apart.
LEMMA StepBase == BaseInv /\ [Next]_vars => BaseInv'
<1> SUFFICES ASSUME BaseInv, [Next]_vars PROVE Waiting'
  BY StepType DEF BaseInv
<1>1. ASSUME NEW c \in Calls, NEW msg \in HostCallMessages, Arrive(c, msg) PROVE Waiting'
  BY <1>1, ArriveWaiting
<1>2. ASSUME NEW c \in Calls, Step(c) PROVE Waiting'
  <2>1. /\ stage[c] # "arrived" /\ inbox' = inbox
        /\ \A d \in Calls : d # c => stage'[d] = stage[d]
    BY <1>2, WaitingStep
  <2> QED BY <2>1, WaitingElsewhere
<1>3. CASE Start
  BY <1>3, StartWaiting
<1>4. CASE OwnerEnds \/ ContextEnds \/ LinkDown \/ StopReading \/ UNCHANGED vars
  BY <1>4, WaitingElsewhere DEF OwnerEnds, ContextEnds, LinkDown, StopReading
<1> QED BY <1>1, <1>2, <1>3, <1>4 DEF Next

\* At the start nothing has arrived.
LEMMA InitBase == Init => BaseInv
<1> SUFFICES ASSUME Init PROVE Waiting
  BY InitType DEF BaseInv
<1>1. inbox = <<>>
  BY DEF Init
<1> QED BY <1>1 DEF Waiting

-----------------------------------------------------------------------------
(* What the user has seen.                                                  *)

\* What a response may say of a method m whose handler called the interface n
\* times.
Told(m, n, er) ==
    /\ ~er /\ m \in Interactive /\ HasUI => n = 1
    /\ er /\ (host # "user" \/ m \in Writers) => n = 0

\* The inductive invariant, for one call: the interface is not called before
\* its handler is, and was called once while it works.
Seen(c) ==
    /\ asked[c] \in {0, 1}
    /\ stage[c] \in {"none", "arrived", "decode", "handle"} => asked[c] = 0
    /\ stage[c] = "ui" => asked[c] = 1
    /\ Handled(c) => Told(message[c].method, asked[c], response[c].er)

ShownInv == BaseInv /\ \A c \in Calls : Seen(c)

\* A call that a step leaves alone keeps it.
LEMMA SeenElsewhere ==
    ASSUME NEW d \in Calls, Seen(d), host' = host, asked'[d] = asked[d],
           stage'[d] = stage[d], response'[d] = response[d],
           message'[d].method = message[d].method
    PROVE  Seen(d)'
BY DEF Seen, Handled, Told, HasUI

\* A response that agrees with what was asked keeps it.
LEMMA SeenResponse ==
    ASSUME ShownInv, NEW c \in Calls, NEW er \in BOOLEAN, NEW rv \in GoTypes,
           Respond(c, er, rv), host' = host, asked' = asked,
           Told(message[c].method, asked[c], er)
    PROVE  \A d \in Calls : Seen(d)'
<1> SUFFICES ASSUME NEW d \in Calls PROVE Seen(d)'
  OBVIOUS
<1>1. /\ stage' = [stage EXCEPT ![c] = "encode"]
      /\ response' = [response EXCEPT ![c] = [er |-> er, rv |-> rv]]
      /\ message'[d].method = message[d].method
  BY RespondType DEF ShownInv, BaseInv
<1>2. stage \in [Calls -> Stages] /\ response \in [Calls -> Outcomes] /\ Seen(d)
  BY DEF ShownInv, BaseInv, TypeOK
<1>3. CASE d = c
  <2>1. stage'[d] = "encode" /\ response'[d].er = er
    BY <1>1, <1>2, <1>3
  <2>2. asked'[d] = asked[d]
    OBVIOUS
  <2>3. asked[d] \in {0, 1}
    BY <1>2 DEF Seen
  <2>4. Told(message[d].method, asked[d], response[d].er)'
    BY <1>1, <1>3, <2>1 DEF Told, HasUI
  <2> QED BY <2>1, <2>2, <2>3, <2>4, Zenon DEF Seen, Handled
<1>4. CASE d # c
  <2>1. stage'[d] = stage[d] /\ response'[d] = response[d]
    BY <1>1, <1>2, <1>4
  <2> QED BY <1>1, <1>2, <2>1, SeenElsewhere
<1> QED BY <1>3, <1>4


\* At the start no interface was called.
LEMMA InitShown == Init => ShownInv
<1> SUFFICES ASSUME Init PROVE ShownInv
  OBVIOUS
<1>1. BaseInv
  BY InitBase
<1>2. \A c \in Calls : asked[c] = 0 /\ stage[c] = "none"
  BY DEF Init
<1>3. \A c \in Calls : Seen(c)
  BY <1>2 DEF Seen, Handled
<1> QED BY <1>1, <1>3 DEF ShownInv

\* A goroutine that fails keeps it: its call is not handled.
LEMMA SeenFailure ==
    ASSUME ShownInv, NEW c \in Calls, HandlingFails(c)
    PROVE  \A d \in Calls : Seen(d)'
<1> SUFFICES ASSUME NEW d \in Calls PROVE Seen(d)'
  OBVIOUS
<1>1. /\ host' = host /\ asked' = asked /\ response' = response /\ message' = message
      /\ stage' = [stage EXCEPT ![c] = "failed"] /\ stage \in [Calls -> Stages]
  BY DEF HandlingFails, ShownInv, BaseInv, TypeOK
<1>2. Seen(d)
  BY DEF ShownInv
<1>3. CASE d = c
  <2>1. stage'[d] = "failed"
    BY <1>1, <1>3
  <2> QED BY <1>1, <1>2, <2>1 DEF Seen, Handled
<1>4. CASE d # c
  BY <1>1, <1>2, <1>4, SeenElsewhere
<1> QED BY <1>3, <1>4

\* Every step keeps it.
LEMMA StepShown == ShownInv /\ [Next]_vars => ShownInv'
<1> SUFFICES ASSUME ShownInv, [Next]_vars PROVE ShownInv'
  OBVIOUS
<1>t. BaseInv'
  BY StepBase DEF ShownInv
<1>s. stage \in [Calls -> Stages] /\ asked \in [Calls -> Nat] /\ \A d \in Calls : Seen(d)
  BY DEF ShownInv, BaseInv, TypeOK
<1> SUFFICES \A d \in Calls : Seen(d)'
  BY <1>t DEF ShownInv
<1>1. ASSUME NEW c \in Calls, NEW msg \in HostCallMessages, Arrive(c, msg)
      PROVE  \A d \in Calls : Seen(d)'
  <2> SUFFICES ASSUME NEW d \in Calls PROVE Seen(d)'
    OBVIOUS
  <2>1. CASE d = c
    BY <1>1, <1>s, <2>1 DEF Arrive, Seen, Handled
  <2>2. CASE d # c
    BY <1>1, <1>s, <2>2, SeenElsewhere DEF Arrive, ShownInv, BaseInv, TypeOK
  <2> QED BY <2>1, <2>2
<1>2. ASSUME NEW c \in Calls, Step(c) PROVE \A d \in Calls : Seen(d)'
  <2>1. CASE DecodeRemoteHostCall(c)
    <3> SUFFICES ASSUME NEW d \in Calls PROVE Seen(d)'
      OBVIOUS
    <3> QED BY <2>1, <1>s, SeenElsewhere DEF DecodeRemoteHostCall, Seen, Handled
  <2>2. CASE DecodeFails(c) \/ EncodeFails(c) \/ SendFails(c)
    BY <2>2, SeenFailure DEF DecodeFails, EncodeFails, SendFails
  <2>3. CASE Refuse(c)
    <3>1. /\ "string" \in GoTypes /\ TRUE \in BOOLEAN
          /\ Respond(c, TRUE, "string") /\ host' = host /\ asked' = asked
          /\ stage[c] = "handle"
      BY <2>3 DEF Refuse, GoTypes, Serializable
    <3>2. Told(message[c].method, asked[c], TRUE)
      BY <1>s, <3>1 DEF Told, Seen
    <3> QED BY <3>1, <3>2, SeenResponse
  <2>4. CASE AnswerDirectly(c)
    <3>1. /\ Respond(c, FALSE, ReturnType(message[c].method, FALSE))
          /\ host' = host /\ asked' = asked
          /\ message[c].method \in Interactive => ~HasUI
      BY <2>4 DEF AnswerDirectly
    <3>2. Told(message[c].method, asked[c], FALSE)
      BY <3>1 DEF Told
    <3>3. ReturnType(message[c].method, FALSE) \in GoTypes /\ FALSE \in BOOLEAN
      BY ReturnTypeType
    <3> QED BY <3>1, <3>2, <3>3, SeenResponse
  <2>5. CASE AskUI(c)
    <3> SUFFICES ASSUME NEW d \in Calls PROVE Seen(d)'
      OBVIOUS
    <3>1. /\ stage[c] = "handle" /\ stage' = [stage EXCEPT ![c] = "ui"]
          /\ host' = host /\ response' = response /\ message' = message
          /\ asked' = [asked EXCEPT ![c] = asked[c] + 1]
      BY <2>5, Zenon DEF AskUI
    <3>2. CASE d = c
      <4>1. asked[d] = 0
        BY <1>s, <3>1, <3>2 DEF Seen
      <4>2. asked'[d] = 1 /\ stage'[d] = "ui"
        BY <1>s, <3>1, <3>2, <4>1
      <4> QED BY <4>2 DEF Seen, Handled
    <3>3. CASE d # c
      <4>1. asked'[d] = asked[d] /\ stage'[d] = stage[d]
        BY <1>s, <3>1, <3>3, Zenon
      <4> QED BY <1>s, <3>1, <4>1, SeenElsewhere
    <3> QED BY <3>2, <3>3
  <2>6. CASE UIReturns(c)
    <3>1. PICK rv \in Answers(message[c].method) :
            /\ Respond(c, FALSE, rv)
            /\ host' = host /\ asked' = asked /\ stage[c] = "ui"
      BY <2>6 DEF UIReturns
    <3>2. Told(message[c].method, asked[c], FALSE)
      BY <1>s, <3>1 DEF Told, Seen
    <3>3. rv \in GoTypes /\ FALSE \in BOOLEAN
      BY AnswersType
    <3> QED BY <3>1, <3>2, <3>3, SeenResponse
  <2>7. CASE UIFails(c)
    <3>1. /\ "string" \in GoTypes /\ TRUE \in BOOLEAN
          /\ Respond(c, TRUE, "string") /\ host' = host /\ asked' = asked
          /\ host = "user" /\ message[c].method \notin Writers
      BY <2>7 DEF UIFails, GoTypes, Serializable
    <3>2. Told(message[c].method, asked[c], TRUE)
      BY <3>1 DEF Told
    <3> QED BY <3>1, <3>2, SeenResponse
  <2>8. CASE EncodeRemoteHostResponse(c)
    <3> SUFFICES ASSUME NEW d \in Calls PROVE Seen(d)'
      OBVIOUS
    <3>1. /\ stage[c] = "encode" /\ stage' = [stage EXCEPT ![c] = "send"] /\ Seen(d)
          /\ host' = host /\ response' = response /\ message' = message /\ asked' = asked
      BY <2>8, <1>s DEF EncodeRemoteHostResponse
    <3> QED BY <1>s, <3>1 DEF Seen, Handled, Told, HasUI
  <2>9. CASE SendResponse(c)
    <3> SUFFICES ASSUME NEW d \in Calls PROVE Seen(d)'
      OBVIOUS
    <3>1. /\ stage[c] = "send" /\ stage' = [stage EXCEPT ![c] = "answered"] /\ Seen(d)
          /\ host' = host /\ response' = response /\ message' = message /\ asked' = asked
      BY <2>9, <1>s DEF SendResponse
    <3> QED BY <1>s, <3>1 DEF Seen, Handled, Told, HasUI
  <2> QED
    BY <1>2, <2>1, <2>2, <2>3, <2>4, <2>5, <2>6, <2>7, <2>8, <2>9 DEF Step, HandleCall
<1>3. CASE Start
  <2> SUFFICES ASSUME NEW d \in Calls PROVE Seen(d)'
    OBVIOUS
  <2>1. /\ stage[Head(inbox)] = "arrived" /\ Head(inbox) \in Calls
        /\ stage' = [stage EXCEPT ![Head(inbox)] = "decode"]
        /\ host' = host /\ asked' = asked /\ response' = response /\ message' = message
    BY <1>3, StartWaiting DEF Start, ShownInv
  <2>2. CASE d = Head(inbox)
    BY <1>s, <2>1, <2>2 DEF Seen, Handled
  <2>3. CASE d # Head(inbox)
    BY <1>s, <2>1, <2>3, SeenElsewhere
  <2> QED BY <2>2, <2>3
<1>4. CASE OwnerEnds \/ ContextEnds \/ LinkDown \/ StopReading \/ UNCHANGED vars
  BY <1>4, <1>s, SeenElsewhere DEF OwnerEnds, ContextEnds, LinkDown, StopReading
<1> QED BY <1>1, <1>2, <1>3, <1>4 DEF Next

\* The server's answer agrees with what the user has seen, in every state.
THEOREM ShownCorrect == Spec => []ShownOrRefused
<1>1. Init => ShownInv
  BY InitShown
<1>2. ShownInv /\ [Next]_vars => ShownInv'
  BY StepShown
<1>3. ShownInv => ShownOrRefused
  <2> SUFFICES ASSUME ShownInv, NEW c \in Calls
               PROVE  /\ asked[c] <= 1
                      /\ Handled(c) => Told(message[c].method, asked[c], response[c].er)
    BY DEF ShownOrRefused, Told
  <2>1. Seen(c)
    BY DEF ShownInv
  <2>2. asked[c] \in {0, 1}
    BY <2>1 DEF Seen
  <2>3. asked[c] <= 1
    BY <2>2
  <2> QED BY <2>1, <2>3 DEF Seen
<1> QED BY <1>1, <1>2, <1>3, PTL DEF Spec

-----------------------------------------------------------------------------
(* Answers and calls.                                                       *)

\* A response names a call.
LEMMA RepliesNameCalls ==
    ASSUME TypeOK PROVE \A i \in 1 .. Len(replies) : replies[i].ci \in Calls
<1>1. replies \in Seq(Replies)
  BY DEF TypeOK
<1>2. \A i \in 1 .. Len(replies) : replies[i] \in Replies
  BY <1>1
<1> QED BY <1>2 DEF Replies

\* A step that sends nothing, and leaves the calls that were answered alone,
\* keeps every answer with its call.
LEMMA NothingSent ==
    ASSUME TypeOK, AnswerBelongsToCall, replies' = replies,
           \A d \in Calls : stage[d] = "answered" =>
                stage'[d] = "answered" /\ response'[d] = response[d]
    PROVE  AnswerBelongsToCall'
<1>1. \A i \in 1 .. Len(replies) : replies[i].ci \in Calls
  BY RepliesNameCalls
<1> QED BY <1>1 DEF AnswerBelongsToCall

\* The response that is sent is the first for its call.
LEMMA SendKeepsAnswers ==
    ASSUME TypeOK, AnswerBelongsToCall, NEW c \in Calls, SendResponse(c)
    PROVE  AnswerBelongsToCall'
<1> DEFINE n == Len(replies)
           a == [ci |-> c, er |-> response[c].er, rv |-> response[c].rv]
<1>1. /\ stage[c] = "send" /\ stage' = [stage EXCEPT ![c] = "answered"]
      /\ response' = response /\ replies' = Append(replies, a)
  BY DEF SendResponse
<1>2. /\ stage \in [Calls -> Stages] /\ response[c] \in Outcomes
      /\ replies \in Seq(Replies)
  BY DEF TypeOK
<1>3. a \in Replies /\ a.ci = c /\ response[c] = [er |-> a.er, rv |-> a.rv]
  BY <1>2 DEF Outcomes, Replies
<1>4. /\ n \in Nat /\ Len(replies') = n + 1 /\ replies'[n + 1] = a
      /\ \A i \in 1 .. n : replies'[i] = replies[i]
  <2> HIDE DEF a
  <2> QED BY <1>1, <1>2, <1>3, AppendProperties
<1>5. \A i \in 1 .. n : /\ replies[i].ci \in Calls /\ stage[replies[i].ci] = "answered"
                        /\ response[replies[i].ci] = [er |-> replies[i].er, rv |-> replies[i].rv]
  BY RepliesNameCalls DEF AnswerBelongsToCall
<1>6. \A i \in 1 .. n : replies[i].ci # c
  BY <1>1, <1>5
<1> HIDE DEF n, a
<1>7. stage'[c] = "answered" /\ \A d \in Calls : stage[d] = "answered" => stage'[d] = "answered"
  BY <1>1, <1>2
<1>8. \A i \in 1 .. n + 1 : i = n + 1 \/ i \in 1 .. n
  BY <1>4
<1>9. \A i \in 1 .. n + 1 :
        /\ stage'[replies'[i].ci] = "answered"
        /\ response'[replies'[i].ci] = [er |-> replies'[i].er, rv |-> replies'[i].rv]
  <2> TAKE i \in 1 .. n + 1
  <2>1. CASE i = n + 1
    BY <2>1, <1>1, <1>3, <1>4, <1>7
  <2>2. CASE i \in 1 .. n
    BY <2>2, <1>1, <1>4, <1>5, <1>7
  <2> QED BY <2>1, <2>2, <1>8
<1>10. \A i, j \in 1 .. n + 1 : replies'[i].ci = replies'[j].ci => i = j
  <2>1. \A i, j \in 1 .. n : replies[i].ci = replies[j].ci => i = j
    BY DEF AnswerBelongsToCall, n
  <2> TAKE i, j \in 1 .. n + 1
  <2> HAVE replies'[i].ci = replies'[j].ci
  <2>2. CASE i \in 1 .. n /\ j \in 1 .. n
    BY <2>1, <2>2, <1>4
  <2>3. CASE i = n + 1 /\ j \in 1 .. n
    BY <2>3, <1>3, <1>4, <1>6
  <2>4. CASE i \in 1 .. n /\ j = n + 1
    BY <2>4, <1>3, <1>4, <1>6
  <2> QED BY <2>2, <2>3, <2>4, <1>8
<1> QED BY <1>4, <1>9, <1>10 DEF AnswerBelongsToCall

\* Every step keeps the answers with their calls.
LEMMA StepAnswers == BaseInv /\ AnswerBelongsToCall /\ [Next]_vars => AnswerBelongsToCall'
<1> SUFFICES ASSUME BaseInv, AnswerBelongsToCall, [Next]_vars PROVE AnswerBelongsToCall'
  OBVIOUS
<1>s. TypeOK /\ stage \in [Calls -> Stages] /\ response \in [Calls -> Outcomes]
  BY DEF BaseInv, TypeOK
<1>1. ASSUME NEW c \in Calls, NEW msg \in HostCallMessages, Arrive(c, msg)
      PROVE  AnswerBelongsToCall'
  BY <1>1, <1>s, NothingSent DEF Arrive
<1>2. ASSUME NEW c \in Calls, Step(c) PROVE AnswerBelongsToCall'
  <2>1. CASE SendResponse(c)
    BY <2>1, <1>s, SendKeepsAnswers
  <2>2. CASE DecodeFails(c) \/ EncodeFails(c) \/ SendFails(c)
    BY <2>2, <1>s, NothingSent DEF DecodeFails, EncodeFails, SendFails, HandlingFails
  <2>3. CASE DecodeRemoteHostCall(c) \/ AskUI(c) \/ EncodeRemoteHostResponse(c)
    BY <2>3, <1>s, NothingSent DEF DecodeRemoteHostCall, AskUI, EncodeRemoteHostResponse
  <2>4. ASSUME NEW er, NEW rv, Respond(c, er, rv), stage[c] # "answered", replies' = replies
        PROVE  AnswerBelongsToCall'
    BY <2>4, <1>s, NothingSent DEF Respond
  <2>5. CASE Refuse(c)
    BY <2>5, <2>4 DEF Refuse
  <2>6. CASE AnswerDirectly(c)
    BY <2>6, <2>4 DEF AnswerDirectly
  <2>7. CASE UIReturns(c)
    BY <2>7, <2>4 DEF UIReturns
  <2>8. CASE UIFails(c)
    BY <2>8, <2>4 DEF UIFails
  <2> QED
    BY <1>2, <2>1, <2>2, <2>3, <2>5, <2>6, <2>7, <2>8 DEF Step, HandleCall
<1>3. CASE Start
  BY <1>3, <1>s, StartWaiting, NothingSent DEF Start
<1>4. CASE OwnerEnds \/ ContextEnds \/ LinkDown \/ StopReading \/ UNCHANGED vars
  BY <1>4, <1>s, NothingSent DEF OwnerEnds, ContextEnds, LinkDown, StopReading
<1> QED BY <1>1, <1>2, <1>3, <1>4 DEF Next

\* A response carries the ID and the outcome of its own call, and no call is
\* answered twice, whatever the order in which the goroutines end.
THEOREM AnswersCorrect == Spec => []AnswerBelongsToCall
<1> DEFINE Inv == BaseInv /\ AnswerBelongsToCall
<1>1. Init => Inv
  <2> SUFFICES ASSUME Init PROVE AnswerBelongsToCall
    BY InitBase
  <2>1. replies = <<>>
    BY DEF Init
  <2> QED BY <2>1 DEF AnswerBelongsToCall
<1>2. Inv /\ [Next]_vars => Inv'
  BY StepBase, StepAnswers
<1>3. Inv => AnswerBelongsToCall
  OBVIOUS
<1> HIDE DEF Inv
<1> QED BY <1>1, <1>2, <1>3, PTL DEF Spec

-----------------------------------------------------------------------------
(* Why an owner fails.                                                      *)

\* Call c has failed for one of the reasons.
Caused(c) ==
    /\ stage[c] = "failed"
    /\ \/ message[c].bad # "none" \/ response[c].rv \in Unserializable
       \/ response[c].rv \in Serializable /\ (link = "down" \/ cancelled)

\* A response that waits to be encoded is of a type some handler returns, and
\* one that waits to be sent of a type the serializer knows.
Typed(c) ==
    /\ stage[c] = "encode" => response[c].rv \in GoTypes
    /\ stage[c] = "send" => response[c].rv \in Serializable

\* The inductive invariant.
CauseInv ==
    /\ BaseInv
    /\ \A c \in Calls : Typed(c)
    /\ FatalForCause

\* FatalForCause says that some call has one.
LEMMA FatalCaused == FatalForCause <=> (status = "failed" => \E c \in Calls : Caused(c))
BY DEF FatalForCause, Caused, Unserializable

\* A step that changes no call that has failed, nor the context and the link,
\* unless they end, keeps the causes.
LEMMA OtherCauses ==
    ASSUME CauseInv, link = "down" => link' = "down", cancelled => cancelled',
           status' = "failed" => status = "failed",
           \A d \in Calls : stage[d] = "failed" =>
              /\ stage'[d] = "failed" /\ response'[d] = response[d]
              /\ message'[d].bad = message[d].bad
    PROVE  FatalForCause'
<1>1. ASSUME status' = "failed" PROVE \E d \in Calls : Caused(d)'
  <2>1. PICK d \in Calls : Caused(d)
    BY <1>1, FatalCaused DEF CauseInv
  <2>2. Caused(d)'
    BY <2>1 DEF Caused
  <2> QED BY <2>2
<1> QED BY <1>1 DEF FatalForCause, Caused, Unserializable

\* A goroutine that fails has one of the three causes, or its owner had ended.
LEMMA FailureHasCause ==
    ASSUME CauseInv, NEW c \in Calls, stage[c] # "failed", HandlingFails(c),
           \/ message[c].bad # "none" \/ response[c].rv \in Unserializable
           \/ response[c].rv \in Serializable /\ (link = "down" \/ cancelled)
           \/ status # "live"
    PROVE  (\A d \in Calls : Typed(d)') /\ FatalForCause'
<1>1. /\ stage' = [stage EXCEPT ![c] = "failed"] /\ link' = link /\ cancelled' = cancelled
      /\ response' = response /\ message' = message
      /\ status' = (IF status = "live" THEN "failed" ELSE status)
      /\ stage \in [Calls -> Stages]
  BY DEF HandlingFails, CauseInv, BaseInv, TypeOK
<1>2. \A d \in Calls : Typed(d)'
  BY <1>1 DEF CauseInv, Typed
<1> SUFFICES FatalForCause'
  BY <1>2
<1>3. CASE status # "live"
  BY <1>1, <1>3, OtherCauses
<1>4. CASE status = "live"
  <2>1. Caused(c)'
    BY <1>1, <1>4 DEF Caused
  <2> QED BY <2>1 DEF FatalForCause, Caused, Unserializable
<1> QED BY <1>3, <1>4

\* An answer of HandleCall keeps the causes.
LEMMA RespondCause ==
    ASSUME CauseInv, NEW c \in Calls, NEW er \in BOOLEAN, NEW rv \in GoTypes,
           Respond(c, er, rv), stage[c] # "failed",
           link' = link, cancelled' = cancelled, status' = status
    PROVE  (\A d \in Calls : Typed(d)') /\ FatalForCause'
<1>1. /\ stage' = [stage EXCEPT ![c] = "encode"]
      /\ response' = [response EXCEPT ![c] = [er |-> er, rv |-> rv]]
      /\ \A d \in Calls : message'[d].bad = message[d].bad
  BY RespondType DEF CauseInv, BaseInv
<1>2. stage \in [Calls -> Stages] /\ response \in [Calls -> Outcomes]
  BY DEF CauseInv, BaseInv, TypeOK
<1>3. \A d \in Calls : d # c => stage'[d] = stage[d] /\ response'[d] = response[d]
  BY <1>1, <1>2
<1>4. stage'[c] = "encode" /\ response'[c].rv = rv
  BY <1>1, <1>2
<1>5. \A d \in Calls : Typed(d)'
  BY <1>3, <1>4 DEF CauseInv, Typed
<1>6. FatalForCause'
  BY <1>1, <1>3, OtherCauses
<1> QED BY <1>5, <1>6

\* Every step keeps the causes.
LEMMA StepCause == CauseInv /\ [Next]_vars => CauseInv'
<1> SUFFICES ASSUME CauseInv, [Next]_vars PROVE CauseInv'
  OBVIOUS
<1>t. BaseInv /\ BaseInv'
  BY StepBase DEF CauseInv
<1>s. /\ stage \in [Calls -> Stages] /\ response \in [Calls -> Outcomes]
      /\ message \in [Calls -> Messages] /\ \A d \in Calls : Typed(d)
  BY DEF CauseInv, BaseInv, TypeOK
<1> DEFINE Kept == (\A d \in Calls : Typed(d)') /\ FatalForCause'
<1> SUFFICES Kept
  BY <1>t DEF CauseInv
<1> HIDE DEF Kept
<1>1. ASSUME NEW c \in Calls, NEW msg \in HostCallMessages, Arrive(c, msg) PROVE Kept
  <2>1. /\ stage[c] = "none" /\ stage' = [stage EXCEPT ![c] = "arrived"]
        /\ message' = [message EXCEPT ![c] = msg] /\ response' = response
        /\ link' = link /\ cancelled' = cancelled /\ status' = status
    BY <1>1 DEF Arrive
  <2>2. \A d \in Calls : Typed(d)'
    BY <1>s, <2>1 DEF Typed
  <2>3. \A d \in Calls : stage[d] = "failed" => stage'[d] = "failed" /\ message'[d] = message[d]
    BY <1>s, <2>1
  <2>4. FatalForCause'
    BY <2>1, <2>3, OtherCauses
  <2> QED BY <2>2, <2>4 DEF Kept
<1>2. ASSUME NEW c \in Calls, Step(c) PROVE Kept
  <2>1. CASE DecodeRemoteHostCall(c) \/ AskUI(c) \/ EncodeRemoteHostResponse(c) \/ SendResponse(c)
    <3>1. /\ stage[c] # "failed" /\ response' = response /\ message' = message
          /\ link' = link /\ cancelled' = cancelled /\ status' = status
          /\ \A d \in Calls : d # c => stage'[d] = stage[d]
          /\ stage'[c] # "encode" /\ (stage'[c] = "send" => response[c].rv \in Serializable)
      BY <2>1, <1>s
      DEF DecodeRemoteHostCall, AskUI, EncodeRemoteHostResponse, SendResponse
    <3>2. \A d \in Calls : Typed(d)'
      BY <1>s, <3>1 DEF Typed
    <3>3. FatalForCause'
      BY <3>1, OtherCauses
    <3> QED BY <3>2, <3>3 DEF Kept
  <2>2. CASE DecodeFails(c)
    BY <2>2, FailureHasCause DEF DecodeFails, Kept
  <2>3. CASE EncodeFails(c)
    <3>1. stage[c] = "encode" /\ HandlingFails(c) /\ response[c].rv \in Unserializable
      BY <2>3, <1>s DEF EncodeFails, GoTypes, Typed
    <3> QED BY <3>1, FailureHasCause DEF Kept
  <2>4. CASE SendFails(c)
    <3>1. /\ stage[c] = "send" /\ HandlingFails(c)
          /\ link = "down" \/ cancelled \/ status # "live"
      BY <2>4 DEF SendFails, ContextDone
    <3>2. response[c].rv \in Serializable
      BY <3>1, <1>s DEF Typed
    <3> QED BY <3>1, <3>2, FailureHasCause DEF Kept
  <2>6. "string" \in GoTypes /\ TRUE \in BOOLEAN /\ FALSE \in BOOLEAN
    BY DEF GoTypes, Serializable
  <2>7. CASE Refuse(c)
    BY <2>7, <2>6, RespondCause DEF Refuse, Kept
  <2>8. CASE AnswerDirectly(c)
    <3>1. /\ Respond(c, FALSE, ReturnType(message[c].method, FALSE)) /\ stage[c] # "failed"
          /\ link' = link /\ cancelled' = cancelled /\ status' = status
      BY <2>8 DEF AnswerDirectly
    <3> QED BY <3>1, <2>6, ReturnTypeType, RespondCause DEF Kept
  <2>9. CASE UIReturns(c)
    <3>1. PICK rv \in Answers(message[c].method) :
            /\ Respond(c, FALSE, rv) /\ stage[c] # "failed"
            /\ link' = link /\ cancelled' = cancelled /\ status' = status
      BY <2>9 DEF UIReturns
    <3> QED BY <3>1, <2>6, AnswersType, RespondCause DEF Kept
  <2>10. CASE UIFails(c)
    BY <2>10, <2>6, RespondCause DEF UIFails, Kept
  <2> QED
    BY <1>2, <2>1, <2>2, <2>3, <2>4, <2>7, <2>8, <2>9, <2>10 DEF Step, HandleCall
<1>3. CASE Start
  <2>1. /\ stage[Head(inbox)] = "arrived" /\ Head(inbox) \in Calls
        /\ stage' = [stage EXCEPT ![Head(inbox)] = "decode"]
        /\ response' = response /\ message' = message
        /\ link' = link /\ cancelled' = cancelled /\ status' = status
    BY <1>3, <1>t, StartWaiting DEF Start
  <2>2. \A d \in Calls : Typed(d)'
    BY <1>s, <2>1 DEF Typed
  <2>3. FatalForCause'
    BY <1>s, <2>1, OtherCauses
  <2> QED BY <2>2, <2>3 DEF Kept
<1>4. CASE OwnerEnds \/ ContextEnds \/ LinkDown \/ StopReading \/ UNCHANGED vars
  <2>1. /\ stage' = stage /\ response' = response /\ message' = message
        /\ cancelled' = cancelled \/ cancelled' = TRUE
        /\ link = "down" => link' = "down"
        /\ status' = "failed" => status = "failed"
    <3>1. CASE OwnerEnds
      BY <3>1 DEF OwnerEnds
    <3>2. CASE ContextEnds
      BY <3>2 DEF ContextEnds
    <3>3. CASE LinkDown
      BY <3>3 DEF LinkDown
    <3>4. CASE StopReading \/ UNCHANGED vars
      BY <3>4 DEF StopReading
    <3> QED BY <1>4, <3>1, <3>2, <3>3, <3>4
  <2>2. \A d \in Calls : Typed(d)'
    BY <1>s, <2>1 DEF Typed
  <2>3. FatalForCause'
    BY <2>1, OtherCauses
  <2> QED BY <2>2, <2>3 DEF Kept
<1> QED BY <1>1, <1>2, <1>3, <1>4 DEF Next

\* A host call ends its owner only when it cannot be decoded, its answer, or a
\* value in it, cannot be encoded, or its response met a transport or a context
\* that had ended.
THEOREM CauseCorrect == Spec => []FatalForCause
<1>1. Init => CauseInv
  <2> SUFFICES ASSUME Init PROVE CauseInv
    OBVIOUS
  <2>1. status = "live" /\ \A c \in Calls : stage[c] = "none"
    BY DEF Init
  <2> QED BY <2>1, InitBase DEF CauseInv, Typed, FatalForCause
<1>2. CauseInv /\ [Next]_vars => CauseInv'
  BY StepCause
<1>3. CauseInv => FatalForCause
  BY DEF CauseInv
<1> QED BY <1>1, <1>2, <1>3, PTL DEF Spec

=============================================================================
