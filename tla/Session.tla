------------------------------- MODULE Session -------------------------------
(***************************************************************************)
(* The contents of a session's first messages: what Open, Connect and the   *)
(* WSMan variants of both (handshake fragments in the creation or connect   *)
(* request) send, in which order and with which object IDs, and what they   *)
(* accept from a server that may send anything (runspace/runspace.go,       *)
(* pipeline/pipeline.go).  GetCommandMetadata, a request over the session   *)
(* that follows, is here too.                                               *)
(*                                                                         *)
(* One goroutine opens the pool; the dispatch loop reads in its place when  *)
(* it connects, and after it has opened.  The life cycle with other         *)
(* callers is RunspacePool, the transport is Wire and Fragments.            *)
(***************************************************************************)
EXTENDS Integers, Sequences, FiniteSets

CONSTANTS
    Flows,          \* ways to open: subset of AllFlows
    Versions,       \* protocol versions a server may state
    Reports,        \* contents of RUNSPACEPOOL_STATE messages
    OwnMin, OwnMax, \* p.minRunspaces, p.maxRunspaces
    MaxMessages,    \* bound: messages the server sends
    MaxEmbedded     \* bound: pipelines embedded in WSMan arguments

\* "open" and "connect" send the handshake as messages; "create" sends it in
\* the creation request and calls Open with SkipHandshakeSend; "resume" sends
\* it in the connect request and calls ResumeOpened.
AllFlows == {"open", "create", "connect", "resume"}

\* A report is a function of the int32 properties of its object; a bare int32
\* is read like the property RunspaceState.
Properties == {"RunspaceState", "RunspacePoolState", "MinRunspaces", "MaxRunspaces"}

ASSUME SessionAssumption ==
    /\ Flows \subseteq AllFlows
    /\ \A r \in Reports : DOMAIN r \subseteq Properties /\ \A k \in DOMAIN r : r[k] \in Int
    /\ OwnMin \in Nat \ {0} /\ OwnMax \in Nat \ {0}
    /\ MaxMessages \in Nat /\ MaxEmbedded \in Nat

VARIABLES
    flow,       \* how the pool is opened
    pc,         \* where the opening goroutine is
    state,      \* p.state
    sent,       \* what was sent for the session, with object IDs
    objectID,   \* the fragmenter's counter
    heard,      \* messages of the server that were read
    version,    \* p.serverProtocolVersion
    counts,     \* negotiatedMinRunspaces and negotiatedMaxRunspaces
    loop,       \* a dispatch loop runs
    query       \* GetCommandMetadata: "idle", "waiting", "over"

vars == <<flow, pc, state, sent, objectID, heard, version, counts, loop, query>>

Opened == 2
Closed == 4
Broken == 5

Capability(v) == [type |-> "Capability", version |-> v]
Report(r) == [type |-> "State", report |-> r]
Plain(t) == [type |-> t]
\* "Unreadable" is a capability or a report that CLIXML cannot read, "BadCall"
\* a host call that handleHostCall fails on; "Reply" is the answer to
\* GET_COMMAND_METADATA, "Other" any other message of the pool.
ServerMessages ==
    {Capability(v) : v \in Versions} \cup {Report(r) : r \in Reports}
    \cup {Plain(t) : t \in {"InitData", "HostCall", "BadCall", "Unreadable", "Reply", "Other"}}

\* parseRunspacePoolState: the two names of the property, then any int32 in
\* the order of a Go map; an object without one reads as BeforeOpen.
StateIn(r) ==
    IF "RunspaceState" \in DOMAIN r THEN {r["RunspaceState"]}
    ELSE IF "RunspacePoolState" \in DOMAIN r THEN {r["RunspacePoolState"]}
    ELSE IF DOMAIN r = {} THEN {0} ELSE {r[k] : k \in DOMAIN r}

\* waitForOpened keeps the server's number if it is positive.
Negotiated(r, name, own) ==
    IF name \in DOMAIN r /\ r[name] > 0 THEN r[name] ELSE own

\* receiveSessionCapability: at least two characters, the first a 2.
Compatible(v) == v = "2.3"

Init ==
    /\ flow \in Flows
    /\ pc = IF flow \in {"create", "resume"} THEN "arguments" ELSE "begin"
    /\ state = "BeforeOpen" /\ sent = <<>> /\ objectID = 0
    /\ heard = <<>>
    /\ version = "none" /\ counts = <<0, 0>> /\ loop = FALSE /\ query = "idle"

\* prepareMessage: the fragmenter increments before it uses the ID.
Send(type) ==
    /\ objectID' = objectID + 1
    /\ sent' = Append(sent, [type |-> type, id |-> objectID + 1])

\* Two messages at once, in the arguments of a WSMan request.
SendTwo(first, second) ==
    /\ objectID' = objectID + 2
    /\ sent' = sent \o <<[type |-> first, id |-> objectID + 1],
                         [type |-> second, id |-> objectID + 2]>>

\* The next message of the server, which has had something of the client's.
Hear(m) ==
    /\ sent # <<>> /\ Len(heard) < MaxMessages
    /\ heard' = Append(heard, m)

-----------------------------------------------------------------------------
(* The arguments of WSMan requests.                                         *)

GetHandshakeFragments ==
    /\ flow = "create" /\ pc = "arguments"
    /\ SendTwo("Capability", "Init")
    /\ pc' = "begin"
    /\ UNCHANGED <<flow, state, heard, version, counts, loop, query>>

GetConnectHandshakeFragments ==
    /\ flow = "resume" /\ pc = "arguments"
    /\ SendTwo("Capability", "Connect")
    /\ pc' = "response"
    /\ UNCHANGED <<flow, state, heard, version, counts, loop, query>>

\* The fragments in the response are assembled and decoded, and nothing else
\* is done with a message; an incomplete fragment is an error.
ProcessConnectResponse ==
    /\ pc = "response"
    /\ pc' \in {"resume", "failed"}
    /\ UNCHANGED <<flow, state, sent, objectID, heard, version, counts, loop, query>>

ResumeOpened ==
    /\ pc = "resume"
    /\ state' = "Opened" /\ pc' = "done"
    /\ UNCHANGED <<flow, sent, objectID, heard, version, counts, loop, query>>

Embedded == {n \in DOMAIN sent : sent[n].type = "CreatePipeline"}

\* Mutant of EmbedPipeline: the counter starts at the ID that is wanted.
EmbedPipelineLate ==
    /\ flow \in {"create", "resume"} /\ pc = "done" /\ state = "Opened"
    /\ Cardinality(Embedded) < MaxEmbedded
    /\ sent' = Append(sent, [type |-> "CreatePipeline", id |-> objectID + 2])
    /\ objectID' = objectID + 1
    /\ UNCHANGED <<flow, pc, state, heard, version, counts, loop, query>>

\* GetCreatePipelineDataWithID with the session's next ID: a fragmenter of its
\* own that starts one below it; then SetMessageID tells the pool.
EmbedPipeline ==
    /\ flow \in {"create", "resume"} /\ pc = "done" /\ state = "Opened"
    /\ Cardinality(Embedded) < MaxEmbedded
    /\ LET startObjectID == objectID + 1
       IN  /\ sent' = Append(sent, [type |-> "CreatePipeline", id |-> (startObjectID - 1) + 1])
           /\ objectID' = startObjectID
    /\ UNCHANGED <<flow, pc, state, heard, version, counts, loop, query>>

-----------------------------------------------------------------------------
(* Open and Connect.                                                        *)

\* Connect starts the dispatch loop before it sends.
Begin ==
    /\ pc = "begin" /\ state = "BeforeOpen"
    /\ state' = IF flow = "connect" THEN "Connecting" ELSE "Opening"
    /\ loop' = (flow = "connect")
    /\ pc' = IF flow = "create" THEN "wait" ELSE "capability"
    /\ UNCHANGED <<flow, sent, objectID, heard, version, counts, query>>

SendCapability ==
    /\ pc = "capability"
    /\ Send("Capability")
    /\ pc' = IF flow = "connect" THEN "init" ELSE "receive"
    /\ UNCHANGED <<flow, state, heard, version, counts, loop, query>>

SendInit ==
    /\ pc = "init"
    /\ Send(IF flow = "connect" THEN "Connect" ELSE "Init")
    /\ pc' = IF flow = "connect" THEN "connecting" ELSE "wait"
    /\ UNCHANGED <<flow, state, heard, version, counts, loop, query>>

\* setBroken; the object IDs and what was sent stay.
Fail == pc' = "failed" /\ state' = "Broken"

\* A send or a read fails, or the context is done.
OpenFails ==
    /\ flow \in {"open", "create"} /\ pc \in {"capability", "receive", "init", "wait"}
    /\ Fail
    /\ UNCHANGED <<flow, sent, objectID, heard, version, counts, loop, query>>

\* receiveMessageWithHostCallbacks answers a host call and reads on.
AnswerHostCall(m) ==
    /\ pc \in {"receive", "wait"} /\ Hear(m)
    /\ \/ m.type = "HostCall" /\ Send("HostResponse") /\ UNCHANGED <<pc, state>>
       \/ m.type = "BadCall" /\ Fail /\ UNCHANGED <<sent, objectID>>
    /\ UNCHANGED <<flow, version, counts, loop, query>>

IsCall(m) == m.type \in {"HostCall", "BadCall"}

ReceiveSessionCapability(m) ==
    /\ pc = "receive" /\ Hear(m) /\ ~IsCall(m)
    /\ IF m.type = "Capability" /\ Compatible(m.version)
       THEN version' = m.version /\ pc' = "init" /\ UNCHANGED state
       ELSE Fail /\ UNCHANGED version
    /\ UNCHANGED <<flow, sent, objectID, counts, loop, query>>

\* Mutant of WaitForOpened: any report of the server ends the wait.
WaitForReport(m) ==
    /\ pc = "wait" /\ Hear(m) /\ ~IsCall(m)
    /\ \/ /\ m.type \in {"InitData", "Capability"}
          /\ UNCHANGED <<pc, state, counts, loop>>
       \/ /\ m.type = "State"
          /\ state' = "Opened" /\ pc' = "done" /\ loop' = (flow = "open")
          /\ counts' = <<Negotiated(m.report, "MinRunspaces", OwnMin),
                         Negotiated(m.report, "MaxRunspaces", OwnMax)>>
       \/ /\ m.type \in {"Unreadable", "Reply", "Other"}
          /\ Fail /\ UNCHANGED <<counts, loop>>
    /\ UNCHANGED <<flow, sent, objectID, version, query>>

\* Initialization data and late capabilities are passed over, whatever they
\* say; the first report must say Opened.  Open then starts the dispatch loop,
\* with SkipHandshakeSend it leaves that to the caller.
WaitForOpened(m) ==
    /\ pc = "wait" /\ Hear(m) /\ ~IsCall(m)
    /\ \/ /\ m.type \in {"InitData", "Capability"}
          /\ UNCHANGED <<pc, state, counts, loop>>
       \/ /\ m.type = "State" /\ Opened \in StateIn(m.report)
          /\ state' = "Opened" /\ pc' = "done" /\ loop' = (flow = "open")
          /\ counts' = <<Negotiated(m.report, "MinRunspaces", OwnMin),
                         Negotiated(m.report, "MaxRunspaces", OwnMax)>>
       \/ /\ m.type = "State" /\ StateIn(m.report) # {Opened}
          /\ Fail /\ UNCHANGED <<counts, loop>>
       \/ /\ m.type \in {"Unreadable", "Reply", "Other"}
          /\ Fail /\ UNCHANGED <<counts, loop>>
    /\ UNCHANGED <<flow, sent, objectID, version, query>>

\* Connect waits for the state, its timer or its context; it leaves a pool
\* that did not open Connecting.
ConnectReturns ==
    /\ \/ pc = "connecting" /\ state = "Opened" /\ pc' = "done"
       \/ pc \in {"capability", "init", "connecting"} /\ flow = "connect" /\ pc' = "failed"
    /\ UNCHANGED <<flow, state, sent, objectID, heard, version, counts, loop, query>>

-----------------------------------------------------------------------------
(* The session that follows.                                                *)

\* StartDispatchLoop, for the flows that do not start one.
StartDispatchLoop ==
    /\ flow \in {"create", "resume"} /\ pc = "done" /\ ~loop /\ state = "Opened"
    /\ loop' = TRUE
    /\ UNCHANGED <<flow, pc, state, sent, objectID, heard, version, counts, query>>

\* What the dispatch loop does with a message of the pool.  A capability is
\* stored and not tested; a report that cannot be read is passed over, and
\* so is every type without a case of its own, the reply to
\* GET_COMMAND_METADATA included.
Dispatch(m) ==
    /\ loop /\ Hear(m)
    /\ \/ /\ m.type = "Capability" /\ version' = m.version
          /\ UNCHANGED <<state, sent, objectID, loop>>
       \/ /\ m.type = "HostCall" /\ Send("HostResponse")
          /\ UNCHANGED <<state, version, loop>>
       \/ /\ m.type = "BadCall" /\ state' = "Broken" /\ loop' = FALSE
          /\ UNCHANGED <<sent, objectID, version>>
       \/ /\ m.type = "State"
          /\ \E s \in StateIn(m.report) :
                /\ state' = CASE s = Opened -> "Opened" [] s = Closed -> "Closed"
                              [] s = Broken -> "Broken" [] OTHER -> state
                /\ loop' = (s \notin {Closed, Broken})
          /\ UNCHANGED <<sent, objectID, version>>
       \/ /\ m.type \in {"InitData", "Unreadable", "Reply", "Other"}
          /\ UNCHANGED <<state, sent, objectID, version, loop>>
    /\ UNCHANGED <<flow, pc, counts, query>>

GetCommandMetadata ==
    /\ query = "idle" /\ pc = "done" /\ state = "Opened"
    /\ Send("GetCommandMetadata")
    /\ query' = "waiting"
    /\ UNCHANGED <<flow, pc, state, heard, version, counts, loop>>

\* Nothing puts a reply into metadataCh: the wait ends with the caller's
\* context or with the pool.
QueryEnds ==
    /\ query = "waiting"
    /\ query' = "over"
    /\ UNCHANGED <<flow, pc, state, sent, objectID, heard, version, counts, loop>>

Next ==
    \/ \E m \in ServerMessages :
          AnswerHostCall(m) \/ ReceiveSessionCapability(m) \/ WaitForOpened(m) \/ Dispatch(m)
    \/ GetHandshakeFragments \/ GetConnectHandshakeFragments
    \/ ProcessConnectResponse \/ ResumeOpened \/ EmbedPipeline
    \/ Begin \/ SendCapability \/ SendInit \/ OpenFails
    \/ ConnectReturns \/ StartDispatchLoop \/ GetCommandMetadata \/ QueryEnds

Spec == Init /\ [][Next]_vars

-----------------------------------------------------------------------------
\* The messages of one kind among those heard, by their places, and the value
\* a report gives a property, if any.
Heard(type) == {i \in DOMAIN heard : heard[i].type = type}
Stated(r, name) == {r[k] : k \in DOMAIN r \cap {name}}

\* Under the property's two names, or, without either, under any name.
SaysOpened(r) ==
    \/ Opened \in Stated(r, "RunspaceState") \cup Stated(r, "RunspacePoolState")
    \/ {"RunspaceState", "RunspacePoolState"} \cap DOMAIN r = {} /\ \E k \in DOMAIN r : r[k] = Opened

\* Said of the whole conversation and not of one step: the pool has opened
\* after a compatible capability that nothing but host
\* calls preceded (in the flow that reads it), then a report that says Opened
\* and that nothing but host calls, initialization data and capabilities
\* preceded; the version and the counts are the ones of those two messages.
Accepted ==
    \E j \in Heard("State") :
        /\ SaysOpened(heard[j].report)
        /\ counts[1] \in {OwnMin} \cup Stated(heard[j].report, "MinRunspaces")
        /\ counts[2] \in {OwnMax} \cup Stated(heard[j].report, "MaxRunspaces")
        /\ counts[1] > 0 /\ counts[2] > 0
        /\ \A k \in 1 .. (j - 1) : heard[k].type \in {"HostCall", "InitData", "Capability"}
        /\ flow = "open" =>
              \E i \in 1 .. (j - 1) :
                  /\ heard[i].type = "Capability" /\ heard[i].version = "2.3"
                  /\ \A k \in 1 .. (i - 1) : heard[k].type = "HostCall"

\* Open succeeds only after a handshake that a reader of all the messages would
\* accept too (receiveSessionCapability, waitForOpened, parseRunspacePoolState),
\* whatever else the server sent, and in whichever order.
OpenedIsNegotiated ==
    pc = "done" /\ flow \in {"open", "create"} => Accepted

\* The second half of the handshake, and whether a message is of a type.
Second == IF flow \in {"connect", "resume"} THEN "Connect" ELSE "Init"
Is(n, type) == sent[n].type = type

\* The server sees each handshake once and in order, SESSION_CAPABILITY first
\* and INIT_ or CONNECT_RUNSPACEPOOL before anything but host responses, INIT
\* only after a compatible capability where that is read first; and object IDs
\* that go up by one over messages, WSMan arguments and embedded pipelines.
HandshakeInOrder ==
    /\ \A n \in DOMAIN sent : sent[n].id = n
    /\ \A n \in DOMAIN sent : Is(n, "Capability") <=> n = 1
    /\ \A n \in DOMAIN sent : Is(n, Second) =>
          /\ \A k \in 2 .. (n - 1) : Is(k, "HostResponse")
          /\ \A k \in (n + 1) .. Len(sent) : ~Is(k, Second)
          /\ flow = "open" => \E i \in Heard("Capability") : heard[i].version = "2.3"
    /\ \A n \in DOMAIN sent : sent[n].type \in {"CreatePipeline", "GetCommandMetadata"} =>
          \E k \in 2 .. (n - 1) : Is(k, Second)
=============================================================================
