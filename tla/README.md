# A formal model of go-psrpcore

go-psrpcore is a client library for the PowerShell Remoting Protocol
(MS-PSRP). It has no main loop: a runspace pool, its pipelines, a fragment
assembler, a CLIXML serializer, a host-callback handler and (for out-of-process
servers) an adapter run as goroutines of the user's program and meet in mutexes, channels and
contexts. This directory holds TLA+ modules of that concurrency, TLC
configurations that check them on small instances, and TLAPS proofs for every
value of the constants. `PROJECT.json` maps every definition to the lines it
models, every property to the hazard it guards and to a mutant that breaks it.

## 1. Inventory

| component | state | operations | talks to |
|---|---|---|---|
| **Pipeline** `pipeline/pipeline.go` | `state`, `err`, `doneCh`, `ctx`, seven bounded channels | `Invoke`, `Stop`, `SendInput`, `CloseInput`, `Cancel`, `Wait`, `HandleMessage`, `Fail` | called by the dispatch loop and by users; sends through the pool |
| **Runspace pool** `runspace/runspace.go` | `state`, `stateCh`, `doneCh`, `cleanupError`, `ctx`, `dispatchLoopStarted`, `hostCallLimiter`, `pipelines` | `Open`, `Connect`, `Close`, `Disconnect`, `ResumeOpened`, `SetTransport`, `CreatePipeline`, `AdoptPipeline`, `dispatchLoop`, `cleanup` | reads and writes the transport; drives pipelines, host |
| **Availability** (same file) | `availableRunspaces`, `receivedAvailabilityMsg`, `availabilityCh` | `WaitForAvailability`, `InitializeAvailabilityIfNeeded`, a dispatch-loop branch | dispatch loop to waiters, unbuffered channel |
| **Fragmenter, Assembler** `fragments/fragments.go` | next object ID; map of pending messages with two limits | `Fragment`, `Add`, `Encode`, `Decode` | `sendMessage` and `receiveMessage` of the pool |
| **Out-of-process adapter** `outofproc/adapter.go` | `pending`, `closed`, `readErr`, `notifyCh`, callbacks | `readLoop`, `Read`, `Write`, `Close`, `ClosePipeline`, `Set...Handler` | transport below, the pool's `Read` above |
| **Out-of-process transport** `outofproc/transport.go` | writer lock `t.mu` | `Send*`, `ReceivePacket` | the server's pipes |
| **Host callbacks** `host/` | none of its own; a `Host` the user supplies | `HandleCall`, decoding and encoding of arguments | pool and pipeline, one goroutine per call |
| **Message codec** `messages/messages.go` | none | `Encode`, `Decode`, mixed-endian GUIDs | everything that sends |
| **CLIXML** `serialization/` | pooled serializers: buffer, reference tables of one document | `NewSerializer`, `Serialize*`, `Close`, `Deserialize`, the `_xHHHH_` escapes | payloads of messages |
| **Objects**, **commands** `objects/`, `cmd/` | data; examples | | |

Behaviour that is hard here:

* *Interleavings.* A method tests the state under `p.mu`, unlocks, then sends.
  Meanwhile the dispatch loop, a host-call goroutine, the monitor goroutine,
  `cleanup` and other callers act. `cleanup` has several racing callers.
* *Bounded channels.* An output channel of 100 records blocks the one dispatch
  loop of the pool; `stateCh` has one place, `notifyCh` one token,
  `availabilityCh` none, `hostCallLimiter` 64.
* *Failure.* Reads fail transiently (EOF, timeout) or for good; sends fail
  after the state has changed; `Close` has a 100 ms timer, `sendToChannel` one
  of `channelTimeout`, `ClosePipeline` one of two seconds, `Read` of thirty.
* *Waiting in circles.* `sendMessage` holds `p.mu` over blocking writes, `readLoop`
  acknowledges before it reads on, the dispatch loop needs `p.mu` between messages.
* *Ordering.* Fragments of several messages interleave; the server's report of
  an end races local failures; notifications are dropped when nobody listens.

What makes each component correct: a pipeline has one outcome, every `Wait`
returns it, and a success lost no record; a pool ends once, for the reason it
reports, and takes its pipelines with it; a waiter is neither forgotten nor
told of runspaces that are not there; a message arrives whole or not at all
in bounded memory; a message's fragments are not mixed with another's, and no
set of locks and full pipes stops everybody; Open succeeds after a valid
handshake only, and object IDs are consecutive; a value is read as what was
written, or refused; the adapter keeps the byte stream and forgets no wake-up;
a host call gets its own answer, ends its owner only for a cause of its own, and
holds back others only where a limit says so.

## 2. Modules

```
Pipeline <- PipelineProofs                       MessageDelivery (abstract)
RunspacePool <- PoolPipelines <- PoolProofs           ^ refined by
Availability <- PoolProofs                       Fragments <- FragmentsProofs
OutOfProcAdapter <- OutOfProcAdapterProofs       HostCalls <- HostCallsProofs
Wire <- WireProofs   Session <- SessionProofs    Encodings <- EncodingsProofs
                                                 Encodings <- Clixml
```

`X <- Y` reads "Y extends X". Every checked module has an `MC` module with its
instance. The modules cut the system where its own interfaces are: RunspacePool
takes a message as sent in one step and a handshake as one answer; Wire is that
step in packets, Session that answer in messages; Clixml is the payload that
both leave opaque, and Encodings the bytes around it.

**Pipeline** is one `Pipeline` with the part of the dispatch loop and of the
monitor goroutine that drives it. A method is one step per hold of `p.mu`:
`Invoke(c)` is the test and the move to Running, and `pc[c] = "create"` is the
message still to be sent, by `SendOk` or `SendFail`. `transition` is the
function of that name. A record of a stream is its number: `buffer[s]` is the
channel, `dispatch = Full(s, n)` the dispatch loop in the second select of
`sendToChannel`. A message in flight is not a state: the server chooses when
the dispatch loop receives, and keeps to the protocol (nothing before
CREATE_PIPELINE or after an end; Stopped only after a SIGNAL). A send on a closed channel
is `panicked`, and ends the behaviour.

**RunspacePool** is the pool's life cycle. `pc[c]` is where a caller is inside
`Open`, `Connect`, `Close` or `Disconnect`; `loop["open"]` and `loop["start"]`
are the dispatch loops that `Open` and `StartDispatchLoop` start: both set
`dispatchLoopStarted`, only the second tests it; `cleanup(end, e)` is the `sync.Once` body; `stateCh`
has its one place. `SkipHandshakeSend` is a field the user sets before the first
call, so it is chosen by `Init`. What users may do in the
wrong state without an error (`ResumeOpened` and `StartDispatchLoop` test nothing) is
in constants, `ResumeFrom` and `StartFrom`. `Close` is four steps: the test and the
move to Closing, the write of its message (`CloseSend`), the wait with the 100 ms
timer, the cancellation; `CloseAgain` is the call that finds the pool Closing or
Closed. `link` is the transport: a "full" one is not read by the server, so that
writes, and with them all who need `p.mu`, wait. A host call may come as soon as the
server has heard of the pool, also while `Connect` waits. `overwritten` is history:
a state was set after `cleanup` had run.

**PoolPipelines** EXTENDS RunspacePool with the map `p.pipelines`. Each step of
the pool is a step here; the one that runs `cleanup` visits the map under the
same hold of the lock. A pipeline is reduced to its end, its context, its map
entry and its monitor; `CreatePipeline` is four steps (tested, stored, sent,
monitored), because the code releases the lock after the test.

**Availability** is the count, its announcement over an unbuffered channel
(`Announce` reaches one waiter that is in its select, `AnnounceDropped` nobody)
and `WaitForAvailability`, read by read. `best` is a history variable.

**Fragments** is `Fragmenter.Fragment` and `Assembler.Add`, with a network
that reorders and duplicates. A fragment's bytes are an interval of the
message's. `entry`, `with`, `Complete`, `TooManyPending`... are the tests of
`Add` in their order. **MessageDelivery** is what the two promise together;
`DeliversMessages` instantiates it with a message that is not whole mapped to 0,
which the abstract specification never delivers.

**OutOfProcAdapter** is `readLoop`, `Read`, `Close` and `ClosePipeline`. Bytes
are numbered; a packet is an interval. `ClosePipeline` installs a closure that calls
the callback it saved, so that `handler` is a `Chain`: the `ClosePipeline` calls that
`onCloseAck` tells, and the user's callback at its end. The user calls
`SetCloseAckHandler` at any time; `user`, `late` and `disturbed` are the history of that. `Stream(q, from, to)` says that the packets of a queue carry the
bytes from one number to another in order; `StreamIntact` joins what was read,
`pending`, the packet in the readLoop's hands and the wire.

**HostCalls** is `handleHostCall` of the pool and of a pipeline, and `HandleCall`
with its 56 methods. A call is a goroutine (`stage`): decode, handle, perhaps wait
for the user interface, encode, send. A parameter is the type the deserializer
gives it, an answer the Go type the serializer sees: `Signature` lists what a
handler demands, `ReturnType` what it returns, `Answers` what a user may make of it
(the map of a `Prompt` may hold anything), `Serializable` the cases of the serializer.
Calls arrive in `inbox`; the reader starts the first (`Start`) when it may
(`MayStart`): a pool while its limiter has room, a pipeline at once, a pool inside
`Open` when the call before is answered. The context of the responses may end from
outside (`cancelled`), by the end of a pipeline, and the reader for reasons of its own
(`StopReading`). The life cycles are in RunspacePool and Pipeline, where a host call is
a goroutine that ends well or badly.

**Wire** is `sendMessage` and `receiveMessage` between packets. `mu` and `tmu` are
the mutexes held over several steps: `Lock` takes `p.mu` and an object ID, then
each fragment is `Acquire` (the context is tested, `t.mu` taken) and
`WriteFragment`, which waits while the pipe is full; `ContextDone`, `WriteFails` and
`Finish` are the returns. `readLoop` is `LoopReceive`, `LoopAcquire`, `LoopAnswer`: its
acknowledgement goes through the same lock and pipe. The dispatch loop reads
bytes, which are numbered: `start` is where it believes the fragment begins, so
that `Aligned` is the framing; a header at a wrong place says anything
(`Lengths`). `transport` is the adapter or a plain connection, whose errors differ:
a deadline is a `net.Error` and transient, the adapter's own thirty seconds are
not. The server, its pipes and the loss of the connection are external.

**Session** is the content of the handshakes: four flows (`Open`; `Open` with
`SkipHandshakeSend` after `GetHandshakeFragments`; `Connect`; `ResumeOpened` after
`GetConnectHandshakeFragments` and `ProcessConnectResponse`), the parsing of
capability and state report (`StateIn`, `Negotiated`, `Compatible`), the object IDs
of the pool's fragmenter and of the one that `GetCreatePipelineDataWithID` makes,
and `GetCommandMetadata`. The server may send any message at any time.

**Encodings** has the pure functions: `encodeCLIXMLString` and `decodeCLIXMLString` over code points;
`Encode` and `Decode` of the 40-byte header of a message, with its mixed-endian
GUIDs; `EncodeFragment` and `DecodeFragment` of the 21-byte header of a fragment;
`Readable`, `Taken` and `Left`, how `receiveMessage` cuts fragments from the stream. The
decoder is a recursive function over positions, from left to right as the code's
loop. `XmlCharacter` and `XmlText` are the part of `encoding/xml`: what is no character
of XML becomes U+FFFD in `xml.EscapeText` and is refused by the decoder when it is
written as it is, which `serializeStringFast` does with text that has no markup
(`StringText`). `Cleaned` is what is left of a text: U+FFFE and U+FFFF are the only
characters that neither the escapes nor XML can carry. A 64-bit number is computed 16 bits at a time, which TLC's integers would
not hold otherwise. Its state is the `text` that a caller builds up (`TextSpec`) and the
stream `wire` (`StreamSpec`): `Put` is a fragment that `sendMessage` writes, `Get` one that
`receiveMessage` reads, `framed` the history of those on their way. Clixml takes its
steps on them from here.
**Clixml** is the serializer as a recursive function from its state
(`next`, `objRefs`, `tnRefs`, `out`) and a value to its next state, the
deserializer as one from a position in the document to a value, and around them
goroutines that take serializers from the pool, write, send and close in the
code's order. Every message is one fragment in `wire` (`WholeMessage`: the documents are
shorter than the payload; Fragments has the others); `meant` is history. A document is the sequence of its tags; "raw" callers
(`SendInput`, `Invoke`) send the buffer itself before they close, "objs" callers
(host responses) a copy after. `Same`, `Identities` and `Deep` are the reference
definition of what a document means. Every caller under `src/` takes a new
serializer for each document, so a serializer used twice without `Reset` is not a
behaviour here. Names of members and types of lists and enums are written without an
escape: `Raw(n)` is what XML makes of a name (itself, another name as of `a&amp;b`, or
`NoXml`), and a tag with a name or text that XML refuses is "broken" (`AsXml`), where the
deserializer stops. `Refused` is the reference for that: a value is refused exactly when
a name, type or text in it is. RECURSIVE operators keep Clixml for TLC alone.

## 3. Runs

Each run takes less than three minutes with two workers. Runs that check liveness
use no symmetry; `codec` permutes clients and serializers.

| run | question | bounds, and why they suffice |
|---|---|---|
| `pipeline_outcome` | One CREATE_PIPELINE, one outcome, no success that lost a record; a full channel holds the dispatch loop for one timeout | 2 callers (every race of two methods), 1 waiter, 1 stream of capacity 1 with 3 records (full, blocked, one more), 1 host call |
| `pipeline_streams` | Records in order without gap; only a local failure can close channels under the dispatch loop | 2 streams of capacity 2, every state report, the command in the WSMan arguments |
| `pool_lifecycle` | Close, a second Close and Connect return the truth; an end has its cause and only Opened is written over it; Close ends unless its write is blocked, Connect is woken; no dispatch loop is left | 2 callers, both dispatch loops, a limiter of one slot (taken, full), both ways of the handshake, a connection that is up, full or down |
| `pool_pipelines` | Map entries have owners, pipelines leave ended or cancelled, the end of the pool reaches them | 1 caller, 1 pipeline: the map's entries do not interact |
| `fragments` | Intact delivery, errors for cause, bounded memory; refinement of MessageDelivery | payload of 2 bytes; messages of 1, 3 and 4 fragments; limits 2 messages and 3 fragments, both exceeded; 3 messages, 1 copy |
| `adapter` | Byte stream, wake-ups, callbacks | 4 bytes in packets of 0 and 2, reads of any size beside one ClosePipeline; 2 overlapping ClosePipeline and a user who sets and removes a callback, beside a reader at rest (`Apart`: the two halves meet in the readLoop alone, which has one packet in its hands) |
| `hostcalls` | Each answer belongs to its call; what was refused was not shown; an owner fails for a call with a cause of its own; users hold back others only through the limiter or Open | 2 calls (every order of two goroutines) and a limiter of 1 (full with one), 4 methods: an answer the serializer refuses, no support, a text to write, a prompt whose answer may hold anything; right parameters, one missing, one wrong; every kind of host and owner |
| `avail_wait` | No false success, nobody forgotten | waiters for 1 and 2 runspaces, reports of 0, 1 and 3 |
| `wire` | Whole messages on the wire, true returns, framing; no circle of waits; what is sent arrives | 2 senders (of 2 fragments; of 1 after a Command packet), pipes of 1 packet (full after any write), fragments of 2 header bytes and 1 blob byte (every place where a read can be cut), 2 data packets and 1 signal: three packets are what a circle needs (one answered, one in the pipe, one being written) |
| `session` | Open only after a valid handshake; handshake order and object IDs | all four flows, 4 versions, 7 reports (both names of the state, counts of 0, no state at all), 4 server messages, 2 embedded pipelines |
| `codec` | Values read back with their sharing; escapes are inverted; fragments are cut from the stream in turn | 2 clients, 2 serializers; 13 values (shared objects, an object that holds itself, both kinds of table, nesting at and above the limit of 8, an unsupported value inside an array, a command, names and types that XML changes or refuses); blocks of text that are parts of escapes, a control character, a supplementary one, markup and U+FFFF; texts of 5 blocks alone, of 3 with one message (a failed send counts as one), of one with two messages. A reused table needs two messages, a false escape at most five blocks |

`MaxSent`, `MaxHostCalls`, `MaxMessages`, `MaxCopies`, `MaxBytes`, `MaxQueue`,
`ServerPackets`, `MaxEmbedded`, `MaxWork` and `MessageCost` are the only bounds; the other constants are parameters of the code.

**Fairness** is what the Go runtime gives: a goroutine that can run does, a
timer that was started fires, a woken waiter returns. A transport that is down
fails the read that is repeated (strong fairness: the loop goes on receiving
buffered messages in between). Nothing is assumed of a reader, a server, a
caller, a host or a caller's context. In `pool_lifecycle` what needs `p.mu` goes on
while writes do not block (`link # "full"`): a server that reads nothing holds `Close`
for as long as the connection stays up, and `CloseReturns` says so. In `hostcalls` the
reader starts a call that it may start. In `fragments` the receiver keeps reading.
In `wire` a goroutine's steps are strongly fair, since a `sync.Mutex` that is released
again and again is handed to a waiter after a millisecond, and the server is
assumed to go on reading while it waits to write (`Duplex`): that is an assumption
about the server, not the code. With `Duplex = FALSE` TLC finds the circle: the
server blocked in a write to a full pipe, `readLoop` blocked in an
acknowledgement, a sender blocked behind it with `p.mu`.
The type invariants are definitions the proofs build on; the runs check the deeper ones.
Deadlock is not checked: all these systems may come to rest (a pipeline that
has ended, a server that is silent).

## 4. Disagreements

The first has a run whose property states what a comment promises and which TLC
violates. The next eight are properties of the modules that the code does not
keep either; the traces are short.

* `pipeline_panic` (`NoPanic`): `transition` closes the stream channels from any
  goroutine, also while the dispatch loop is in a send on one. A host call that
  fails while a channel is full is enough. Ends reported by the server are
  harmless (`PanicOnlyAfterLocalFailure`, proved).
* `RunspacePool!ClosedIsFinal` (`SPECIFICATION Spec`, `Callers = {c1}`,
  `ResumeFrom = {}`, `StartFrom = {}`, `HostCallLimit = 1`): `Connect` with
  `SkipHandshakeSend` starts the dispatch loop and then sets Opened without a test
  (`runspace.go:655-658`), also over Closed, which `runspace/README.md:59` calls "Final
  state". The same write over Broken follows without `SkipHandshakeSend` when a
  host call fails while `Connect` waits and the server then answers (1434-1436):
  `doneCh` is closed, and yet the pool accepts pipelines. `EndMatchesCause` (proved) says that these are the only two ways, and
  `EndIsFinal` (proved) that `cleanupError` stays.
* `RunspacePool!CloseIsAuthoritative` (the same with `Callers = {c1, c2}`): a second
  `Close` returns nil at once while the first is still at work (`runspace.go:838-842`),
  against `docs/development-journey.md:336`, "This ensures that `Close()` is
  authoritative: it stops all world activity and releases all resources immediately."
* `OutOfProcAdapter!LastCallbackHears` (`Spec`, `Readers = {}`, `Closers = {p1}`,
  `Callbacks = {u1}`, `Nil = nil`, `Sizes = {}`, `MaxBytes = 0`, `MaxQueue = 1`): a callback
  set during a `ClosePipeline` is gone when the call restores the one it found
  (`adapter.go:330`), against the comment at 83.
* `OutOfProcAdapter!CloseAckReachesWaiter` (the same with `Closers = {p1, p2}`): of two
  overlapping `ClosePipeline` calls one overwrites or takes away the callback of the
  other (`adapter.go:318-330`), whose CloseAck is lost and which waits its two seconds,
  against the comment at 312.
* `Encodings!OnlyPrintable` (an invariant of `codec`): U+FFFE and U+FFFF are left in the
  text (`clixml_string.go:131-136`), against the comment at 73-74. Through
  `xml.EscapeText` they become U+FFFD; in a string without markup they make a document
  that the library's own deserializer refuses.
* `RunspacePool!DisconnectedIsNotBroken` (`SPECIFICATION Spec`, `Callers = {c1}`,
  `ResumeFrom = {}`, `StartFrom = {}`, `HostCallLimit = 1`): a read error that is not in the list of
  transient ones turns Disconnected into Broken (`runspace.go:1353-1356`), although
  the comment at 1325 says "Disconnected state implies we expect the transport to
  die."
* `PoolPipelines!BrokenEndsWaits` (`FairSpecPP`, the same constants and
  `Pipelines = {p1}`): a pipeline stored between `cleanup`'s visit of the map and its
  own state test (`runspace.go:1213-1225`) is cancelled, never failed; its `Wait`
  hangs, against the "Cleanup Guarantee" of `docs/development-journey.md:327`.
* `HostCalls!NullHostIsSafe` (`Spec`, `Calls = {c1}`, `Methods <- MCAllMethods`, `Limit = 1`): the
  serializer has no case for `host.Version` or `*objects.PSCredential`
  (`clixml.go:408-508`). A server that asks for the host's version, or for
  credentials where there is a user interface, ends the pool or the pipeline,
  against `host/README.md:81`, "NullHost will respond to all callbacks with safe
  defaults".

Seen while modelling, without a run of their own:

* `runspace.go:865`: `Close` writes before it starts its 100 ms timer, and under `p.mu`. A
  server that does not read holds it, and everybody else, until the connection ends.
* `runspace.go:1402`: as many users who do not answer as the limiter admits (64) stop
  the dispatch loop, and with it every pipeline; inside `Open` (1775-1803) one does.
* `clixml.go:399`, `511-530`, `743`, `770`, `850`, `1054`: names of members and types of lists
  and enums are not escaped. A `&` or `<` in one makes a document that the
  deserializer refuses, `&amp;` is read as `&` (`Raw`).
* `runspace.go:443-462`: the select of `WaitForAvailability` has no case for the
  end of the pool, so that a wait of a pool that ends lasts until the caller's
  context does, against the comment at 408.
* `host/callback.go:969-973` looks for an `int` in the default choices, which the
  deserializer never makes: the default is not returned, against the comment at 967.
* `pipeline.go:736-747` assigns the states 0 to 2 directly, so that a late report
  takes an ended pipeline back to Running, against the comment at 811. With
  `Echoes = {}` (PowerShell reports ends only) the outcome theorems hold.
* `runspace.go:683-685`: `dispatchLoopStarted` is never reset, so that after
  Disconnect and ResumeOpened `StartDispatchLoop` starts nothing.
* `runspace.go:571-575`: `Open` sets the flag and starts a loop without the test of
  `StartDispatchLoop`; two loops can share a transport.
* `runspace.go:1530-1531`: after a clean close `cleanup` only cancels the
  pipelines, so that their `Wait` is not released, against the comment at 1524.
* `adapter.go:217-226`: thirty seconds without data are an error that is no
  timeout for `isTimeoutError`, so that an idle pool over the adapter breaks (`Idle`),
  against the comment at `runspace.go:1316`.
* `runspace.go:1697-1716`: a deadline inside a fragment of a plain connection is
  taken for transient and the bytes read are dropped; the next header is read in
  the wrong place (`slipped`). An EOF exactly between header and blob is transient
  too.
* `runspace.go:1067`: `GetCommandMetadata` waits on `metadataCh`, which only a test
  fills; the dispatch loop passes the reply over. It also never closes its serializer.
* `pipeline.go:299`: the comment promises `ID = startObjectID + 1`, the code gives
  `startObjectID`, and 0 wraps around.
* `runspace.go:1875-1884`: a report without a state is read by any `int32` it has, in
  the order of a Go map: a count of 2 opens the pool.
* The protocol version is tested by `Open` alone (958-967); with `SkipHandshakeSend`,
  in `Connect` and in the dispatch loop any version is taken. Nothing compares
  minimum and maximum of the runspaces.
* `clixml.go:303-372`: the four `Serialize` functions empty the buffer and not the
  tables; a caller that used one serializer twice would refer to another document.
* An object that holds itself is written as a `Ref` that the library's own
  deserializer refuses, since it registers an object when it is whole (1762-1770). A
  map or slice that holds itself is written without end.
* With both `Members` and `Properties` the reader keeps the latter (1705-1711).
* `clixml.go:1211`: keys of a string map are not escaped, and are decoded: a key
  `_x0041_` is read as `A`, a control character as U+FFFD. Keys that are no string
  become the empty string. `Version` values are read as strings.
* A document of several values without `<Objs>` is read to the end of the first.

## 5. Proofs

Every safety property of the runs is a theorem, except `DocumentsSurvive` (below)
and `NoPanic`, which is false. The theorems hold for every value of the constants
under the named assumption of each module (`PipelineAssumption`,
`FragmentsAssumption`, ...), which say what the constants are: sets of callers,
numbers that are not negative, sizes that are not zero. Three hypotheses are
stated in the theorems that need them, each about who uses the code:

* `Echoes = {}` (PipelineProofs): the server reports ends only. `InvokeSendsOnce` needs
  less: it never reports NotStarted.
* `UsedInTime` (PoolProofs, `EndCorrect` only): `ResumeOpened` is not called on a pool
  that has ended or whose handshake is under way, nor `StartDispatchLoop` before
  `Connect` or beside `Open`, which reads the transport itself. The methods test nothing
  (`runspace.go:679`, 693), so this is their caller's duty. Called on a broken pool
  `ResumeOpened` makes an Opened one whose `doneCh` is closed.
* `OneReader` (OutOfProcAdapterProofs, `NoLostWakeup` only): one goroutine calls
  `Read`. With two in their selects, the one token wakes one of
  them and an error reaches the other after its thirty seconds: with
  `Readers = {r1, r2}` TLC finds that. The pool keeps this
  as long as `Open` and `StartDispatchLoop` do not both start a loop (section 4).

**PipelineProofs.** `TypeCorrect`, then four invariants on top of it:

* `StreamsInv`: `StreamsComplete` plus `BlockedRecord`, that the record the dispatch
  loop is blocked with is the one after the last in its channel. Without it a
  `ResumeSend` could leave a gap. It gives `StreamsCompleteAlways` and, per step,
  `ReaderSeesNoGap`.
* `PanicInv`: a dispatch loop inside `HandleMessage` receives nothing, so that the
  server cannot have ended the pipeline under it; and a pipeline that is done
  before the server ended it has a local error (`PanicNeedsLocalFailure`).
* `OutcomeInv` (assuming `Echoes = {}`): `done` exactly in the terminal states and
  an error exactly in Failed. Then `WaitReturnsTheOutcome`, `OutcomeStays`.
* `DeliveredInv` (same assumption) joins the two: in a state of success nothing is
  missing (`SuccessDelivers`).
* `CreateInv` counts the callers about to send CREATE_PIPELINE: at most one, and
  none once one was sent (`InvokeSendsOnce`); `Invoke` is the only way out of
  NotStarted.

The assumption `Echoes = {}` is as weak as it can be: with any one of the three states
that end nothing in `Echoes`, the direct assignment of `pipeline.go:736-747` breaks
`WaitOutcome` and `SuccessMeansDelivered`, and TLC finds the trace. What is left then is
little: even an error that was reported is not kept.

**FragmentsProofs.** `Inv` is `TypeOK` with `ShapeInv`, `EntriesInv` (a pending entry
holds fragments of one message, at the indices it counted, each as `Fragment` cut
it) and `InboxInv`. The arithmetic is in `Division`, `Product`, `Count` and `Cuts`:
the slices are consecutive and the last ends at the length, for any length and
size. `MessagesIntact` follows: for any number of messages, sizes, orders and
duplicates, what is delivered is whole.

`LimitsExact` adds `ForCause`, that each error has its cause and each entry at most
the fragments of its message. That a duplicate is refused only if the network made
one needs `CopiesInv`, a balance: every fragment of a message pays with its copies
for the deliveries of the message, and one that is still on the wire or in the map
has none to spare. The same balance proves the refinement, `DeliveryCorrect`: the
messages that arrived are whole, so that they are the abstract inbox
(`ArrivedObjects`), and one more delivery is never more than the copies made
(`StepDelivery`).

**PoolProofs.** `TypeCorrect`; then

* `ReturnsInv`: what may still tell a caller that the pool is open or ended (`state`,
  the notification left in `stateCh`, a `Close` about to cancel) is true already, and a
  pool that is Closing has a `Close` at work, so that a second one does not lie.
* `CauseInv`: no error before `cleanup`, and after it one that matches the state unless
  Opened was written over it. It is inductive without a hypothesis, and `EndFinal`
  follows.
* `EndInv`: a pool nobody has used is silent (`NotYetUsed`), `Open` has the pool to
  itself until its handshake is over (`OpenAlone`), one `Connect` at most has sent
  (`ConnectAlone`), and while the server owes its Opened nobody but a failed host call
  can end the pool and still take the answer (`BeforeAnswer`). `OverwriteInv` and
  `EndCorrect` follow.
* `PoolWithPipelinesIsPool`: every step of PoolPipelines is one of RunspacePool or
  changes nothing of it, so that the theorems above hold there. `EntriesCorrect` is
  inductive with the types; `PoolErrorCorrect` needs `SharedInv`, which ties a pipeline's
  error to the pool's and keeps adopted pipelines, which have no monitor, in the map.
  A pipeline adopted after Opened was written over the end is excepted: nobody tells it.

* For Availability, `AvailabilityInv`: a call has seen at least the present count,
  and the count under announcement, outside the lock, is still the present one
  (`AnnouncedIsPresent`): after a first report no default is stored any more.

**WireProofs.** `LockInv`: `p.mu` is held exactly by the sender inside its loop of
fragments. `TurnInv` (`TurnsCorrect`): the last data packet on the wire is the holder's
last fragment, or every one has a smaller object ID. `ReturnsCorrect` counts the
sender's fragments on the wire. `FrameInv` (`FramingCorrect`): where the reader is inside
its fragment, and that a plain connection breaks only when it is down or the framing
was lost before; it holds for every size of header and blob.

**SessionProofs.** `StageInv`: which stage belongs to which way of opening. `HeardInv`
(`NegotiationCorrect`): what the server must have said by each stage, whatever else it
said. `SentInv` (`HandshakeCorrect`): how much of the handshake is out, so that a host
response or an embedded pipeline cannot come first.

**HostCallsProofs.** `BaseInv` adds to the types that the calls in `inbox` have arrived,
each once, so that the reader starts none twice. `AnswersCorrect` builds on it;
`ShownInv` counts for each call how often the interface was asked at each stage.
`CauseInv` says that an answer waiting for the serializer has a type some handler returns
(`Typed`), so that three only can fail there, and one waiting for the transport a
type the serializer has: what fails a send is then the link or the context.

**OutOfProcAdapterProofs.** `StreamIntact` and the types are inductive only together
(`StreamInv`): `Read` cuts a packet, and that the rest ends within what the server sent
is known from the stream. `WakeupCorrect` rests on it. `CallbackInv`: as long as the
user set nothing during a call, a callback put aside by `ClosePipeline` still ends with
the user's; a call that nobody disturbed is in the chain; and an acknowledgement,
wherever it is, is for a pipeline the server has answered.

**EncodingsProofs** is about data of any length. The library's induction theorems
take an operator, which the provers cannot instantiate; `Induction` is the
principle with a set in its place (a set of numbers that holds 0 and every
successor holds every number), derived from the least element of a non-empty set.
With it:

* `FlattenSteps` and `Placement`: where each piece of a concatenation of pieces stands;
  `Decoding`: the recursive function that `decodeCLIXMLString` defines exists and
  obeys its equation at every position.
* `PieceRead`: at the position where the encoder put the piece of a character, the
  decoder takes that piece and no more. The cases that need care are a plain
  underscore, whose neighbours could complete an escape but never start with an x,
  and an escape of the high half of a pair before one of a low half: valid text
  has no such halves, so a pair is always one character.
* `Inverted` then goes from the last piece to the first, for every text of valid code
  points (text that is not valid UTF-8 is outside). For the way through XML the same
  argument needs pieces of the cleaned text: `PieceCleaned` and `PlacedCleaned` say that
  what XML makes of an encoded text is the encoding of `Cleaned` text, piece by piece.
  `EscapesInverted` joins both with which strings are refused; `TextAlwaysSurvives` is the
  property of the run.
* `Holds(x, o, a)` says that the bytes `a` stand in `x` at offset `o`; `Parts` lays out a
  header of four parts and what follows. `LittleEndian32`, `Guid`, `BigEndian32` and
  `BigEndian64` invert the parts. `MessagesInverted` and `FragmentsInverted` follow, the
  latter for a stream that goes on: the reader takes the fragment and no byte more.
  It needs the data to fit `maxFragmentBlobLen` (10 MiB), which the reader enforces; the
  fragmenters of the pool and the pipelines stay far below it.
* `StreamInv`: there is a chain of suffixes of the stream, each an encoded fragment and
  the next suffix (`Chain`), down to the empty one. A `Put` extends every suffix, a `Get`
  drops the first. `StreamInStep` follows: for any contents and any number of
  fragments on their way the reader takes them in turn and no byte is left over. It
  is the part of the framing that Wire leaves opaque; what a lost byte does is there.

Only model-checked:

* liveness (`DispatcherReleased`, `CloseReturns`, `ConnectWakes`, `LoopEnds`,
  `PoolEndReachesAll`, `Arrives`, `SlowUserHoldsNobody`, `AvailabilityWakes`, `SendEnds`,
  `DataArrives`), which needs fairness and ENABLED, beyond the prover;
* `DocumentsSurvive`: serializer and deserializer are mutually recursive over trees of
  values with shared parts; Clixml writes them with RECURSIVE operators, which tlapm
  does not pass to its SMT solver.

## 6. Not modelled, and the plan

Not modelled:

* the text of numbers, times, byte arrays and GUIDs in CLIXML, and the encryption
  of SecureStrings: `strconv`, `encoding/base64`, `time` and the user's
  `EncryptionProvider` do the work;
* ErrorRecord and ProgressRecord as objects, and the fields of host-call arguments:
  straight copies of fields, without a state or a branch that a property could
  tell apart;
* the XML of the out-of-process packets (`parsePacket`): bytes in, fields out;
* `parseCommandMetadata`: no code delivers its input;
* panics: of a user's `Host`, or of the serializer on a nil `*SecureString`;
* a second reader or a `Close` beside `Open` in HostCalls (RunspacePool has them without
  the calls' contents), and names that would end their own tag and begin another;
* a server that speaks before it has heard anything: Session and RunspacePool assume
  that it does not (`Hear`), as `Connect` reads before it writes;
* security events and logging, which change nothing; `objects/`, plain data; `cmd/`,
  examples.

Every safety property that a run checks and the provers can reach is proved. What
is left:

1. properties for the four hazards without one, as far as a document says what the
   code should do (section 4 lists what it does);
2. what a pipeline keeps when the server reports more than ends.
