------------------------------ MODULE HostCalls ------------------------------
(***************************************************************************)
(* Host callbacks: host/callback.go and host/serialization.go, with the     *)
(* handleHostCall functions of the pool and of a pipeline.                  *)
(*                                                                         *)
(* The server asks the client's host for something (a line of input, a      *)
(* choice, a line of output) and names the call by a call ID.  The pool and *)
(* a pipeline handle every call in a goroutine of its own, the pool a limited *)
(* number at a time; while the pool opens, calls are handled one after the  *)
(* other.  A call is decoded, answered by HandleCall, encoded and sent; an  *)
(* error of one of these steps, HandleCall excepted, ends the pool or the   *)
(* pipeline that owns the call.                                             *)
(*                                                                         *)
(* A parameter is the type that the deserializer gives it, a return value   *)
(* the Go type the serializer sees.                                         *)
(***************************************************************************)
EXTENDS Naturals, Sequences, FiniteSets

CONSTANTS
    Calls,      \* call IDs
    Methods,    \* methods the server calls
    Limit       \* capacity of hostCallLimiter, DefaultMaxConcurrentHostCalls

VARIABLES
    owner,      \* whose calls these are
    host,       \* the Host: nil, without a UI, the NullHost, or a user's
    stage,      \* where a call's goroutine is
    message,    \* the host call, as the server sent it
    asked,      \* how often a method of the user interface was called for it
    response,   \* RemoteHostResponse of a call that HandleCall has answered
    replies,    \* responses the server has received, in order
    status,     \* of the owner: "live", "ended" or "failed" (Failed, Broken)
    cancelled,  \* the context of the responses was ended from outside
    link,       \* the transport: "up" or "down"
    inbox,      \* calls that have arrived and wait for the reader, in order
    reading     \* the dispatch loop, or Open, still reads messages

calls == <<stage, message, asked, response>>
world == <<cancelled, link, inbox, reading>>
vars == <<owner, host, calls, replies, status, world>>

-----------------------------------------------------------------------------
(* The methods.                                                             *)

Getters == {"GetName", "GetVersion", "GetInstanceId", "GetCurrentCulture",
            "GetCurrentUICulture"}
Ignored == {"SetShouldExit", "NotifyBeginApplication", "NotifyEndApplication"}
\* RawUI, runspace and unknown methods stand for the IDs of their groups.
Unsupported == {"EnterNestedPrompt", "ExitNestedPrompt", "RawUI", "Runspace", "Unknown"}
Lines == {"Write1", "WriteLine2", "WriteErrorLine", "WriteDebugLine",
          "WriteVerboseLine", "WriteWarningLine"}
Coloured == {"Write2", "WriteLine3"}
Writers == Lines \cup Coloured \cup {"WriteLine1", "WriteProgress"}
Credentials == {"PromptForCredential1", "PromptForCredential2"}
Prompts == Credentials \cup {"Prompt", "PromptForChoice"}
Readers == {"ReadLine", "ReadLineAsSecureString"}
Multiple == "PromptForChoiceMultipleSelection"
AllMethods == Getters \cup Ignored \cup Unsupported \cup Writers \cup Prompts
              \cup Readers \cup {Multiple}

ASSUME HostCallsAssumption ==
    Methods \subseteq AllMethods /\ IsFiniteSet(Calls) /\ Limit \in Nat \ {0}

\* The methods whose handlers go to the user interface.
Interactive == Writers \cup Prompts \cup Readers

\* What a handler demands of its parameters, first to last; "any" is not
\* looked at or has a default.
Signature(m) ==
    CASE m \in Lines -> <<"string">>
      [] m \in Coloured -> <<"any", "any", "string">>
      [] m = "WriteProgress" -> <<"int", "any">>
      [] m = "Prompt" -> <<"string", "string", "objects">>
      [] m = "PromptForChoice" -> <<"string", "string", "objects", "int">>
      [] m = Multiple -> <<"string", "string", "objects", "any">>
      [] m = "PromptForCredential1" -> <<"string", "string", "string", "string">>
      [] m = "PromptForCredential2" ->
            <<"string", "string", "string", "string", "any", "any">>
      [] OTHER -> <<>>

\* Types of a parameter: "objects" is what convertToFieldDescriptions and
\* convertToChoiceDescriptions take, an object or a list of objects or maps;
\* "other" any type that is not listed: null, a map, a list with a string in it.
Values == {"string", "int", "objects", "other"}

Accepts(kind) == IF kind = "any" THEN Values ELSE {kind}

\* The tests a handler begins with.
ParametersOK(m, ps) ==
    /\ Len(ps) >= Len(Signature(m))
    /\ \A i \in 1 .. Len(Signature(m)) : ps[i] \in Accepts(Signature(m)[i])

\* The Go type of what a method returns.  host.GetVersion returns a
\* host.Version; a UI's PromptForCredential a *PSCredential, null or not.
ReturnType(m, ui) ==
    CASE m = "GetVersion" -> "host.Version"
      [] m \in Getters \cup {"ReadLine"} -> "string"
      [] m = "ReadLineAsSecureString" -> "SecureString"
      [] m = "Prompt" -> "map"
      [] m \in Credentials -> IF ui THEN "PSCredential" ELSE "nil"
      [] m = "PromptForChoice" -> "int"
      [] m = Multiple -> "slice"
      [] OTHER -> "nil"

\* What a user interface may return.  The map of a user's Prompt may hold any
\* value, also one that the serializer has no case for.
Answers(m) ==
    {ReturnType(m, TRUE)}
    \cup (IF m = "Prompt" /\ host = "user" THEN {"map of others"} ELSE {})

\* The cases of serializeValueWithName, which it applies to a map's values too.
Serializable == {"nil", "string", "int", "map", "slice", "SecureString"}

HasUI == host \in {"NullHost", "user"}

-----------------------------------------------------------------------------
(* Messages of the server.                                                  *)

Example(kind) == IF kind = "any" THEN "int" ELSE kind
Correct(m) == [i \in 1 .. Len(Signature(m)) |-> Example(Signature(m)[i])]

\* The parameters of a method, one missing, or one replaced by a value that no
\* handler takes.
Parameters(m) ==
    LET n == Len(Signature(m)) IN
    {Correct(m)} \cup {SubSeq(Correct(m), 1, n - 1)}
    \cup {[Correct(m) EXCEPT ![i] = "other"] : i \in 1 .. n}

\* A field that is missing or has the wrong type (mi: or is no int32) cannot
\* be decoded; a call without mp has no parameters.
HostCallMessages ==
    (UNION {[bad : {"none"}, method : {m}, params : Parameters(m)] : m \in Methods})
    \cup [bad : {"field"}, method : {"Unknown"}, params : {<<>>}]

None == [bad |-> "none", method |-> "none", params |-> <<>>]
NoResponse == [er |-> FALSE, rv |-> "none"]

Init ==
    /\ owner \in {"pool", "opening pool", "pipeline"}
    /\ host \in {"nil", "noUI", "NullHost", "user"}
    /\ stage = [c \in Calls |-> "none"]
    /\ message = [c \in Calls |-> None]
    /\ asked = [c \in Calls |-> 0]
    /\ response = [c \in Calls |-> NoResponse]
    /\ replies = <<>> /\ inbox = <<>> /\ reading = TRUE
    /\ status = "live" /\ link = "up" /\ cancelled = FALSE

\* The calls that are being handled, and those that wait for a user.
Running == {c \in Calls : stage[c] \in {"decode", "handle", "ui", "encode", "send"}}
AtUser == {c \in Calls : stage[c] = "ui" /\ host = "user"}

\* A call arrives, for the pool or for a pipeline, which may have ended.
Arrive(c, msg) ==
    /\ stage[c] = "none"
    /\ stage' = [stage EXCEPT ![c] = "arrived"]
    /\ message' = [message EXCEPT ![c] = msg]
    /\ inbox' = Append(inbox, c)
    /\ UNCHANGED <<owner, host, asked, response, replies, status, cancelled, link, reading>>

\* The pool's dispatch loop waits until hostCallLimiter has room, for a pipeline
\* it starts a goroutine at once, and receiveMessageWithHostCallbacks has
\* answered the calls before, an error of which ends Open.
MayStart ==
    /\ owner = "pool" => Cardinality(Running) < Limit
    /\ owner = "opening pool" =>
          \A c \in Calls : stage[c] \in {"none", "arrived", "answered"}

Start ==
    /\ reading /\ inbox # <<>> /\ MayStart
    /\ stage' = [stage EXCEPT ![Head(inbox)] = "decode"]
    /\ inbox' = Tail(inbox)
    /\ UNCHANGED <<owner, host, message, asked, response, replies, status,
                   cancelled, link, reading>>

\* An error of handleHostCall: transition(StateFailed), handleTransportError or
\* the end of Open, none of which touches an owner that has ended.
HandlingFails(c) ==
    /\ stage' = [stage EXCEPT ![c] = "failed"]
    /\ status' = IF status = "live" THEN "failed" ELSE status
    /\ UNCHANGED <<owner, host, message, asked, response, replies, world>>

\* DecodeRemoteHostCall.
DecodeRemoteHostCall(c) ==
    /\ stage[c] = "decode" /\ message[c].bad = "none"
    /\ stage' = [stage EXCEPT ![c] = "handle"]
    /\ UNCHANGED <<owner, host, message, asked, response, replies, status, world>>

DecodeFails(c) ==
    /\ stage[c] = "decode" /\ message[c].bad # "none"
    /\ HandlingFails(c)

-----------------------------------------------------------------------------
(* HandleCall.                                                              *)

\* HandleCall's end: an error becomes a response with ExceptionRaised.
Respond(c, er, rv) ==
    /\ stage' = [stage EXCEPT ![c] = "encode"]
    /\ response' = [response EXCEPT ![c] = [er |-> er, rv |-> rv]]
    /\ message' = [message EXCEPT ![c].params = <<>>]

\* A method without support, or parameters a handler refuses.
Refuse(c) ==
    /\ stage[c] = "handle"
    /\ LET m == message[c].method IN
        m \in Unsupported \/ ~ParametersOK(m, message[c].params)
    /\ Respond(c, TRUE, "string")
    /\ UNCHANGED <<owner, host, asked, replies, status, world>>

\* An answer for which no user interface is needed, or there is none.
AnswerDirectly(c) ==
    /\ stage[c] = "handle"
    /\ LET m == message[c].method IN
        /\ m \notin Unsupported /\ ParametersOK(m, message[c].params)
        /\ m \in Interactive => ~HasUI
        /\ Respond(c, FALSE, ReturnType(m, FALSE))
    /\ UNCHANGED <<owner, host, asked, replies, status, world>>

\* Mutant of AskUI: the user interface is called before the parameters are
\* looked at.
AskUIFirst(c) ==
    /\ stage[c] = "handle" /\ HasUI
    /\ message[c].method \in Interactive /\ asked[c] = 0
    /\ asked' = [asked EXCEPT ![c] = @ + 1]
    /\ stage' = [stage EXCEPT ![c] =
          IF ParametersOK(message[c].method, message[c].params) THEN "ui" ELSE "handle"]
    /\ UNCHANGED <<owner, host, message, response, replies, status, world>>

\* The handler calls the user interface, which may take any time ...
AskUI(c) ==
    /\ stage[c] = "handle" /\ HasUI
    /\ LET m == message[c].method IN
        m \in Interactive /\ ParametersOK(m, message[c].params)
    /\ stage' = [stage EXCEPT ![c] = "ui"]
    /\ asked' = [asked EXCEPT ![c] = @ + 1]
    /\ UNCHANGED <<owner, host, message, response, replies, status, world>>

\* ... and returns; a writer cannot fail, a reader or a prompt of the user can.
UIReturns(c) ==
    /\ stage[c] = "ui"
    /\ \E rv \in Answers(message[c].method) : Respond(c, FALSE, rv)
    /\ UNCHANGED <<owner, host, asked, replies, status, world>>

\* Mutant of UIFails: the error ends the owner.
UIFailsHard(c) ==
    /\ stage[c] = "ui" /\ host = "user" /\ message[c].method \notin Writers
    /\ HandlingFails(c)

UIFails(c) ==
    /\ stage[c] = "ui" /\ host = "user" /\ message[c].method \notin Writers
    /\ Respond(c, TRUE, "string")
    /\ UNCHANGED <<owner, host, asked, replies, status, world>>

-----------------------------------------------------------------------------
(* The response.                                                            *)

EncodeRemoteHostResponse(c) ==
    /\ stage[c] = "encode" /\ response[c].rv \in Serializable
    /\ stage' = [stage EXCEPT ![c] = "send"]
    /\ UNCHANGED <<owner, host, message, asked, response, replies, status, world>>

EncodeFails(c) ==
    /\ stage[c] = "encode" /\ response[c].rv \notin Serializable
    /\ HandlingFails(c)

\* The context of the send is done: the one Open was given, the pool's or the
\* pipeline's, which a pipeline's end cancels too.  A broken pool still writes.
ContextDone == cancelled \/ (owner = "pipeline" /\ status # "live")

CanSend == link = "up" /\ ~ContextDone

\* Mutant of SendResponse: the goroutine answers the call that came last.
SendResponseLast(c) ==
    /\ stage[c] = "send" /\ CanSend
    /\ stage' = [stage EXCEPT ![c] = "answered"]
    /\ \E d \in Calls :
        /\ stage[d] # "none"
        /\ replies' = Append(replies, [ci |-> d, er |-> response[c].er, rv |-> response[c].rv])
    /\ UNCHANGED <<owner, host, message, asked, response, status, world>>

\* Mutant of SendResponse: the response waits for the calls that are at the
\* user interface.
SendResponseQueued(c) ==
    /\ stage[c] = "send" /\ CanSend /\ \A d \in Calls : stage[d] # "ui"
    /\ stage' = [stage EXCEPT ![c] = "answered"]
    /\ replies' = Append(replies, [ci |-> c, er |-> response[c].er, rv |-> response[c].rv])
    /\ UNCHANGED <<owner, host, message, asked, response, status, world>>

SendResponse(c) ==
    /\ stage[c] = "send" /\ CanSend
    /\ stage' = [stage EXCEPT ![c] = "answered"]
    /\ replies' = Append(replies, [ci |-> c, er |-> response[c].er, rv |-> response[c].rv])
    /\ UNCHANGED <<owner, host, message, asked, response, status, world>>

\* sendMessage looks at the context before it writes a fragment.
SendFails(c) ==
    /\ stage[c] = "send" /\ (link = "down" \/ ContextDone)
    /\ HandlingFails(c)

\* The owner ends while its host calls run.
OwnerEnds ==
    /\ status = "live" /\ owner # "opening pool" /\ status' = "ended"
    /\ UNCHANGED <<owner, host, calls, replies, world>>

\* Pipeline.Cancel, the end of a parent context, of Open's time or of Close.
ContextEnds ==
    /\ ~cancelled /\ cancelled' = TRUE
    /\ UNCHANGED <<owner, host, calls, replies, status, link, inbox, reading>>

LinkDown ==
    /\ link = "up" /\ link' = "down"
    /\ UNCHANGED <<owner, host, calls, replies, status, cancelled, inbox, reading>>

\* The dispatch loop or Open ends, for a reason of its own (see RunspacePool);
\* a wait for hostCallLimiter ends with the context.
StopReading ==
    /\ reading /\ reading' = FALSE
    /\ UNCHANGED <<owner, host, calls, replies, status, cancelled, link, inbox>>

HandleCall(c) == Refuse(c) \/ AnswerDirectly(c) \/ AskUI(c) \/ UIReturns(c) \/ UIFails(c)

Step(c) ==
    \/ DecodeRemoteHostCall(c) \/ DecodeFails(c) \/ HandleCall(c)
    \/ EncodeRemoteHostResponse(c) \/ EncodeFails(c)
    \/ SendResponse(c) \/ SendFails(c)

Next ==
    \/ \E c \in Calls : Step(c) \/ \E msg \in HostCallMessages : Arrive(c, msg)
    \/ Start \/ OwnerEnds \/ ContextEnds \/ LinkDown \/ StopReading

Spec == Init /\ [][Next]_vars

\* A goroutine goes on unless it waits for a user, who may never answer, and
\* the reader comes to the next call.  That writes end is Wire's subject.
FairSpec ==
    /\ Spec /\ WF_vars(Start)
    /\ \A c \in Calls : WF_vars(Step(c) /\ (stage[c] = "ui" => host = "NullHost"))

-----------------------------------------------------------------------------
(* Properties.                                                              *)

\* Goroutines end in any order, and yet a response carries the ID and the
\* outcome of its own call, and no call is answered twice (HandleCall copies
\* the call ID, handleHostCall sends once).
AnswerBelongsToCall ==
    /\ \A i \in 1 .. Len(replies) :
        LET a == replies[i] IN
        /\ stage[a.ci] = "answered"
        /\ response[a.ci] = [er |-> a.er, rv |-> a.rv]
    /\ \A i, j \in 1 .. Len(replies) : replies[i].ci = replies[j].ci => i = j

Handled(c) == stage[c] \in {"encode", "send", "answered"}

\* What the server is told agrees with what the user has seen: the user
\* interface is called once at most; a success of a method for the interface
\* means that it was called; and an exception for a text to write, or from a
\* host that cannot fail, means that it was not (the handlers look at every
\* parameter first).
ShownOrRefused ==
    \A c \in Calls : LET m == message[c].method IN
        /\ asked[c] <= 1
        /\ Handled(c) /\ ~response[c].er /\ m \in Interactive /\ HasUI => asked[c] = 1
        /\ Handled(c) /\ response[c].er /\ (host # "user" \/ m \in Writers) => asked[c] = 0

\* A host call ends its pool or pipeline for one of three reasons only, and one
\* of its own: it cannot be decoded, the serializer has no case for its answer
\* or for a value in it, or its response was ready and met a transport or a
\* context that had ended.  Parameters of the wrong kind, methods without
\* support and errors of the user's host never do.
FatalForCause ==
    status = "failed" =>
        \E c \in Calls :
            /\ stage[c] = "failed"
            /\ \/ message[c].bad # "none"
               \/ response[c].rv \in {"host.Version", "PSCredential", "map of others"}
               \/ response[c].rv \in Serializable /\ (link = "down" \/ cancelled)

\* Users who do not answer hold back their own calls and no other, until there
\* are as many of them as hostCallLimiter admits, or one while the pool opens:
\* then the reader waits, and everybody else with it.
HeldByUsers ==
    \/ owner = "pool" /\ Cardinality(AtUser) >= Limit
    \/ owner = "opening pool" /\ AtUser # {}

\* Every call that arrives is answered or fails, or is one that waits for its
\* user, unless the reader has ended (Open also with the first error) or is
\* held by users.
SlowUserHoldsNobody ==
    \A c \in Calls : stage[c] = "arrived" ~>
        \/ stage[c] \in {"answered", "failed"} \/ c \in AtUser
        \/ ~reading \/ HeldByUsers
        \/ owner = "opening pool" /\ \E d \in Calls : stage[d] = "failed"

\* What the documentation says of the default host: it "will respond to all
\* callbacks with safe defaults".  Well-formed calls over a working transport
\* would then never end the pool or the pipeline.  The code does not keep this:
\* see the README's disagreements.
NullHostIsSafe ==
    /\ host = "NullHost" /\ link = "up" /\ cancelled = FALSE
    /\ \A c \in Calls : message[c].bad = "none"
    => status # "failed"

=============================================================================
