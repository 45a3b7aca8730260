------------------------------- MODULE Clixml --------------------------------
(***************************************************************************)
(* Values as CLIXML documents (serialization/clixml.go): the serializers of *)
(* the pool, with their reference tables and their buffer, that several     *)
(* goroutines use at once (pipeline/pipeline.go, host/serialization.go),    *)
(* and the deserializer of the reader.                                      *)
(*                                                                         *)
(* A document is the sequence of its tags, as the XML decoder takes them    *)
(* apart.  Numbers, booleans, times and the like are opaque: strconv,       *)
(* base64 and their inverses are not modelled.  The text of strings and     *)
(* keys is: see Encodings.  Names of members and types are opaque, but most *)
(* are written as they are, and then not all of them are read as they are.  *)
(***************************************************************************)
EXTENDS Encodings, FiniteSets, TLC

CONSTANTS
    Clients,        \* goroutines that serialize and send
    Serializers,    \* the serializers there can be
    Heap(_),        \* the PSObjects behind the pointers, for a text
    Inputs(_),      \* the values that clients send, for a text
    Runspace,       \* the pool's ID, 16 bytes
    PipelineID,     \* per client its pipeline's ID
    Raw(_),         \* what XML makes of a name that is written as it is: the
                    \* name, another ("a&amp;b"), or NoXml ("a&b", "List<T>")
    NoXml,
    MaxDepth,       \* d.maxDepth
    MaxWork,        \* bound: blocks of the text, and messages
    MessageCost     \* bound: blocks that a message stands for in it

ASSUME ClixmlAssumption ==
    /\ MaxDepth \in Nat \ {0} /\ MaxWork \in Nat /\ MessageCost \in Nat \ {0}
    /\ Len(Runspace) = 16 /\ \A c \in Clients : Len(PipelineID[c]) = 16
    /\ Cardinality(Clients) <= Cardinality(Serializers)

VARIABLES
    blocks,     \* the number of blocks of the text that strings and names carry
    pc,         \* per client: "idle", "has", "written", "copied", "sent"
    job,        \* per client: the value, the function that serializes it
    held,       \* per client: its serializer
    copy,       \* per client: the slice that Serialize returned
    ser,        \* the serializers
    meant,      \* history, per message on its way: itself, the value it holds
    read,       \* what the reader made of the last message
    objectID    \* Fragmenter.objectID: messages sent, or tried

vars == <<text, blocks, pc, job, held, copy, ser, wire, framed, meant, read, objectID>>

Deref(p) == Heap(text)[p]

----------------------------------------------------------------------------
(* Values.  Lists and tables hold sequences in the order in which they are  *)
(* written (OrderedMemberKeys, or sorted).                                  *)

Nil == [kind |-> "nil"]
Str(t) == [kind |-> "str", text |-> t]
Prim(tag, v) == [kind |-> "prim", tag |-> tag, body |-> v]
Version(t) == [kind |-> "version", text |-> t]
Enum(type, n, t) == [kind |-> "enum", types |-> <<type, "Enum", "ValueType", "Object">>,
                     body |-> n, text |-> t]
TypedList(types, items) == [kind |-> "list", types |-> types, items |-> items]
Array(items) == TypedList(<<"Object[]", "Array", "Object">>, items)
Table(entries) == [kind |-> "table", entries |-> entries]
Map(entries) == [kind |-> "map", entries |-> entries]
Pointer(p) == [kind |-> "pointer", to |-> p]
Fresh(o) == [kind |-> "fresh", object |-> o]       \* an object nobody else has
Unsupported == [kind |-> "unsupported"]

Entry(k, v) == [key |-> k, value |-> v]
Named(n, v) == [name |-> n, value |-> v]
Object(types, t, members, properties) ==
    [types |-> types, text |-> t, members |-> members, properties |-> properties]

Hashtable == "Hashtable"

----------------------------------------------------------------------------
(* Serializer *)

Start(tag, name, ref) == [tag |-> tag, end |-> FALSE, name |-> name, ref |-> ref, body |-> ""]
End(tag) == [tag |-> tag, end |-> TRUE, name |-> "", ref |-> -1, body |-> ""]
Leaf(tag, name, ref, body) ==
    [tag |-> tag, end |-> FALSE, name |-> name, ref |-> ref, body |-> body]

Fn(items) == FoldLeft(LAMBDA f, i : (i.name :> i.value) @@ f, <<>>, items)

\* Mutant of Reset: the table of type names survives.
ResetKeepsTypes(s) == [s EXCEPT !.next = 0, !.objRefs = <<>>, !.out = <<>>, !.ok = TRUE]

Reset(s) == [s EXCEPT !.next = 0, !.objRefs = <<>>, !.tnRefs = <<>>, !.out = <<>>, !.ok = TRUE]

\* Names of members are not escaped, text without markup is not, nor the types
\* of lists and enums: where XML allows neither the decoder fails at the tag.
AsXml(tag) ==
    IF \/ Raw(tag.name) = NoXml
       \/ tag.tag = "S" /\ XmlRefuses(tag.body)
       \/ tag.tag = "TN" /\ \E i \in 1..Len(tag.body) : tag.body[i] = NoXml
      THEN [tag EXCEPT !.tag = "broken"]
      ELSE [tag EXCEPT !.name = Raw(@)]

Emit(s, tags) == [s EXCEPT !.out = @ \o [i \in 1..Len(tags) |-> AsXml(tags[i])]]

\* <Obj> takes the next RefId.
OpenObj(s, name) == Emit([s EXCEPT !.next = @ + 1], <<Start("Obj", name, s.next)>>)

\* Type names are written once, under a key, and referred to afterwards.
WriteTypes(s, key, types) ==
    IF types = <<>> THEN s
    ELSE IF key \in DOMAIN s.tnRefs
      THEN Emit(s, <<Leaf("TNRef", "", s.tnRefs[key], "")>>)
      ELSE LET id == Cardinality(DOMAIN s.tnRefs)
           IN Emit([s EXCEPT !.tnRefs = (key :> id) @@ @], <<Leaf("TN", "", id, types)>>)

RawTypes(types) == [i \in 1..Len(types) |-> Raw(types[i])]

ToStringLeaf(t) == Leaf("ToString", "", -1, XmlText(encodeCLIXMLString(t)))

WriteToString(s, t) == IF t = <<>> THEN s ELSE Emit(s, <<ToStringLeaf(t)>>)

RECURSIVE serializeValueWithName(_, _, _)

WriteEach(s, items) ==
    FoldLeft(LAMBDA a, i : serializeValueWithName(a, i.value, i.name), s, items)

WriteSet(s, tag, items) ==
    IF items = <<>> THEN s
    ELSE Emit(WriteEach(Emit(s, <<Start(tag, "", -1)>>), items), <<End(tag)>>)

\* A pointer is entered in objRefs before its contents are written.
serializePSObject(s, o, pointer, name) ==
    LET opened == OpenObj([s EXCEPT !.objRefs =
                             IF pointer.kind = "pointer" THEN (pointer.to :> s.next) @@ @ ELSE @],
                          name)
        head == WriteToString(WriteTypes(opened, o.types, o.types), o.text)
    IN Emit(WriteSet(WriteSet(head, "MS", o.members), "Props", o.properties), <<End("Obj")>>)

serializeList(s, v, name) ==
    LET typed == WriteTypes(OpenObj(s, name), v.types, RawTypes(v.types))
        head == Emit(typed, <<Start("LST", "", -1)>>)
        items == [i \in 1..Len(v.items) |-> Named("", v.items[i])]
    IN Emit(WriteEach(head, items), <<End("LST"), End("Obj")>>)

\* serializeHashtable writes the key of a string map itself, escaped for XML
\* alone; serializeGenericMap writes it like any value.  They keep the same
\* type names under different keys.
serializeDict(s, v, name) ==
    LET types == <<Hashtable, "Object">>
        key == IF v.kind = "table" THEN <<Hashtable>> ELSE types
        head == Emit(WriteTypes(OpenObj(s, name), key, types), <<Start("DCT", "", -1)>>)
        WriteKey(a, k) ==
          IF v.kind = "table" THEN Emit(a, <<Leaf("S", "Key", -1, XmlText(k))>>)
          ELSE serializeValueWithName(a, k, "Key")
        WriteEntry(a, e) ==
          Emit(serializeValueWithName(WriteKey(Emit(a, <<Start("En", "", -1)>>), e.key),
                                      e.value, "Value"), <<End("En")>>)
    IN Emit(FoldLeft(WriteEntry, head, v.entries), <<End("DCT"), End("Obj")>>)

serializeEnum(s, v, name) ==
    Emit(WriteTypes(OpenObj(s, name), v.types, RawTypes(v.types)),
         <<ToStringLeaf(v.text), Leaf("I32", "", -1, v.body), End("Obj")>>)

\* After an error nothing more is written; the tables keep what was entered.
serializeValueWithName(s, v, name) ==
    CASE ~s.ok -> s
      [] s.ok /\ v.kind = "nil" -> Emit(s, <<Leaf("Nil", name, -1, "")>>)
      [] s.ok /\ v.kind = "str" -> Emit(s, <<Leaf("S", name, -1, StringText(v.text))>>)
      [] s.ok /\ v.kind = "prim" -> Emit(s, <<Leaf(v.tag, name, -1, v.body)>>)
      [] s.ok /\ v.kind = "version" -> Emit(s, <<Leaf("Version", name, -1, v.text)>>)
      [] s.ok /\ v.kind = "enum" -> serializeEnum(s, v, name)
      [] s.ok /\ v.kind = "list" -> serializeList(s, v, name)
      [] s.ok /\ v.kind \in {"table", "map"} -> serializeDict(s, v, name)
      [] s.ok /\ v.kind = "fresh" -> serializePSObject(s, v.object, v, name)
      [] s.ok /\ v.kind = "pointer" /\ v.to \in DOMAIN s.objRefs ->
           Emit(s, <<Leaf("Ref", name, s.objRefs[v.to], "")>>)
      [] s.ok /\ v.kind = "pointer" /\ v.to \notin DOMAIN s.objRefs ->
           serializePSObject(s, Deref(v.to), v, name)
      [] OTHER -> [s EXCEPT !.ok = FALSE]

\* SerializeRaw and Serialize empty the buffer, not the tables.
SerializeRaw(s, v) == serializeValueWithName([s EXCEPT !.out = <<>>], v, "")

Serialize(s, v) ==
    Emit(serializeValueWithName([s EXCEPT !.out = <<Start("Objs", "", -1)>>], v, ""),
         <<End("Objs")>>)

----------------------------------------------------------------------------
(* Commands as objects *)

NoneEnum == Enum("PipelineResultTypes", 0, <<78>>)
PSObjectList == <<"List", "Object">>
Members(items) == Fresh(Object(<<>>, <<>>, items, <<>>))

\* A positional argument without a value is left out.
CommandToPSObject(c) ==
    LET given == SelectSeq(c.parameters, LAMBDA p : p.name # <<>> \/ p.value # Nil)
        args == [i \in 1..Len(given) |->
                   Members(<<Named("N", IF given[i].name = <<>> THEN Nil ELSE Str(given[i].name)),
                             Named("V", given[i].value)>>)]
        merges == <<"MergeMyResult", "MergeToResult", "MergePreviousResults",
                    "MergeError", "MergeWarning", "MergeVerbose", "MergeDebug">>
    IN Members(<<Named("Cmd", Str(c.name)), Named("IsScript", Prim("B", c.script)),
                 Named("UseLocalScope", Nil)>>
               \o [i \in 1..Len(merges) |-> Named(merges[i], NoneEnum)]
               \o <<Named("Args", TypedList(PSObjectList, args))>>)

PowerShellToPSObject(p) ==
    LET cmds == [i \in 1..Len(p.commands) |-> CommandToPSObject(p.commands[i])]
        hostInfo == [i \in 1..4 |-> Named(<<"_isHostNull", "_isHostUINull", "_isHostRawUINull",
                                            "_useRunspaceHost">>[i], Prim("B", TRUE))]
        inner == <<Named("IsNested", Prim("B", p.nested)), Named("ExtraCmds", Nil),
                   Named("Cmds", TypedList(PSObjectList, cmds)), Named("History", Nil),
                   Named("RedirectShellErrorOutputPipe", Prim("B", FALSE))>>
    IN Members(<<Named("NoInput", Prim("B", p.noInput)),
                 Named("ApartmentState", Enum("ApartmentState", 2, <<85>>)),
                 Named("RemoteStreamOptions", Enum("RemoteStreamOptions", 15, <<65>>)),
                 Named("AddToHistory", Prim("B", FALSE)), Named("HostInfo", Members(hostInfo)),
                 Named("PowerShell", Members(inner)), Named("IsNested", Prim("B", p.nested))>>)

----------------------------------------------------------------------------
(* Deserializer: d is its state, with the document and a position in it.    *)

NewDeserializer(doc) ==
    [doc |-> doc, pos |-> 1, depth |-> 0, objRefs |-> <<>>, tnRefs |-> <<>>, ok |-> TRUE]

Got(d, v) == [d |-> d, value |-> v]
Failed(d) == Got([d EXCEPT !.ok = FALSE], Nil)
Past(d) == [d EXCEPT !.pos = @ + 1]
Deeper(d, by) == [d EXCEPT !.depth = @ + by]
Register(d, ref, v) == IF ref < 0 THEN d ELSE [d EXCEPT !.objRefs = (ref :> v) @@ @]

Unreadable(d) == ~d.ok \/ d.pos > Len(d.doc) \/ d.doc[d.pos].tag = "broken"

RECURSIVE deserializeElement(_), ReadItems(_, _), deserializeObject(_, _, _)

\* The loop of deserializeList, -Dict, -DictEntry and -Properties: elements up
\* to one of the end tags; other end tags (the </Obj> that an inner list or
\* table left unread) are passed over.  The documents are the serializer's own: an
\* <En> is only in a table, and a table holds nothing else.
ReadItems(d, ends) ==
    IF Unreadable(d) THEN [d |-> Failed(d).d, items |-> <<>>]
    ELSE LET tag == d.doc[d.pos]
             entry == ReadItems(Past(d), {"En"})
             one == IF tag.tag = "En" THEN Got(entry.d, entry.items) ELSE deserializeElement(d)
             rest == ReadItems(one.d, ends)
         IN IF tag.end
              THEN IF tag.tag \in ends THEN [d |-> Past(d), items |-> <<>>]
                   ELSE ReadItems(Past(d), ends)
              ELSE [d |-> rest.d, items |-> <<Named(tag.name, one.value)>> \o rest.items]

\* A key that is not a string reads as the empty string.
deserializeDictEntry(items) ==
    LET of(n) == SelectSeq(items, LAMBDA i : i.name = n)
        keys == SelectSeq(of("Key"), LAMBDA i : i.value.kind = "str")
    IN Named(IF keys = <<>> THEN <<>> ELSE Last(keys).value.text,
             IF of("Value") = <<>> THEN Nil ELSE Last(of("Value")).value)

deserializeDict(d) ==
    LET got == ReadItems(d, {"DCT"})
    IN Got(got.d, [kind |-> "table",
                   kids |-> Fn([i \in 1..Len(got.items) |-> deserializeDictEntry(got.items[i].value)])])

deserializeList(d) ==
    LET got == ReadItems(d, {"LST"})
    IN Got(got.d, [kind |-> "list", kids |-> [i \in 1..Len(got.items) |-> got.items[i].value]])

deserializeRef(d, ref) ==
    IF ref \in DOMAIN d.objRefs THEN Got(Past(d), d.objRefs[ref]) ELSE Failed(d)

\* The children of an <Obj>; it is entered in objRefs only when it is whole.
deserializeObject(d, o, ref) ==
    IF Unreadable(d) THEN Failed(d)
    ELSE LET tag == d.doc[d.pos]
             next == Past(d)
             props == ReadItems(next, {"Props", "MS"})
             dict == deserializeDict(next)
             list == deserializeList(next)
             inner == deserializeElement(d)
         IN CASE tag.end /\ tag.tag = "Obj" -> Got(Register(next, ref, o), o)
              [] tag.end /\ tag.tag # "Obj" -> deserializeObject(next, o, ref)
              [] ~tag.end /\ tag.tag = "TN" ->
                   deserializeObject([next EXCEPT !.tnRefs = IF ref < 0 THEN @
                                                             ELSE (tag.ref :> tag.body) @@ @],
                                     [o EXCEPT !.types = tag.body], ref)
              [] ~tag.end /\ tag.tag = "TNRef" ->
                   deserializeObject(next,
                       [o EXCEPT !.types = IF tag.ref \in DOMAIN d.tnRefs
                                             THEN d.tnRefs[tag.ref] ELSE @], ref)
              [] ~tag.end /\ tag.tag = "ToString" ->
                   deserializeObject(next, [o EXCEPT !.text = decodeCLIXMLString(tag.body)], ref)
              [] ~tag.end /\ tag.tag \in {"Props", "MS"} ->
                   deserializeObject(props.d,
                       [o EXCEPT !.kids = Fn(SelectSeq(props.items, LAMBDA i : i.name # ""))], ref)
              [] ~tag.end /\ tag.tag = "DCT" ->
                   IF o.types # <<>> /\ o.types[1] = Hashtable
                     THEN Got(Register(dict.d, ref, dict.value), dict.value)
                     ELSE deserializeObject(dict.d, [o EXCEPT !.kids = dict.value.kids @@ @], ref)
              [] ~tag.end /\ tag.tag = "LST" -> Got(Register(list.d, ref, list.value), list.value)
              [] OTHER ->
                   deserializeObject(inner.d,
                       IF inner.value = Nil THEN o
                       ELSE IF tag.name # "" THEN [o EXCEPT !.kids = (tag.name :> inner.value) @@ @]
                       ELSE [o EXCEPT !.value = inner.value], ref)

\* The element at the position.  An object is told from others by where it
\* starts, as by its pointer.
deserializeElement(d) ==
    LET tag == d.doc[d.pos]
        new == [kind |-> "object", at |-> d.pos, types |-> <<>>, text |-> <<>>,
                value |-> Nil, kids |-> <<>>]
        Within(got) == [got EXCEPT !.d = Deeper(@, -1)]
    IN CASE d.depth >= MaxDepth \/ Unreadable(d) -> Failed(d)
         [] d.depth < MaxDepth /\ tag.tag = "Nil" -> Got(Past(d), Nil)
         [] d.depth < MaxDepth /\ tag.tag = "S" -> Got(Past(d), Str(decodeCLIXMLString(tag.body)))
         [] d.depth < MaxDepth /\ tag.tag = "Version" -> Got(Past(d), Str(tag.body))
         [] d.depth < MaxDepth /\ tag.tag = "Ref" -> deserializeRef(d, tag.ref)
         [] d.depth < MaxDepth /\ tag.tag = "LST" -> Within(deserializeList(Deeper(Past(d), 1)))
         [] d.depth < MaxDepth /\ tag.tag = "DCT" -> Within(deserializeDict(Deeper(Past(d), 1)))
         [] d.depth < MaxDepth /\ tag.tag = "Obj" ->
              Within(deserializeObject(Deeper(Past(d), 1), new, tag.ref))
         [] OTHER -> Got(Past(d), Prim(tag.tag, tag.body))

\* <Objs> holds a list of values; without it the first element is the value.
\* Every caller takes the first.
Deserialize(doc) ==
    LET d == NewDeserializer(doc)
        all == ReadItems(Past(d), {"Objs"})
        first == deserializeElement(d)
    IN IF doc = <<>> THEN [ok |-> FALSE, value |-> Nil]
       ELSE IF doc[1].tag = "Objs"
         THEN [ok |-> all.d.ok /\ all.items # <<>>,
               value |-> IF all.items = <<>> THEN Nil ELSE all.items[1].value]
         ELSE [ok |-> first.d.ok, value |-> first.value]

----------------------------------------------------------------------------
(* The clients.  SendInput and Invoke ("raw") take a serializer, write, send *)
(* the slice of its buffer and close it; the host's answers ("objs") close   *)
(* it first and send the copy that Serialize returned.                       *)

NoJob == [value |-> Nil, how |-> "none"]
NoRead == [ok |-> TRUE, value |-> Nil, job |-> NoJob, sound |-> TRUE]

NewPipelineInput(c, data) ==
    [destination |-> 2, type |-> 266242, runspace |-> Runspace, pipeline |-> PipelineID[c],
     data |-> data]
NewPipelineHostResponse(c, data) ==
    [destination |-> 2, type |-> 266497, runspace |-> Runspace, pipeline |-> PipelineID[c],
     data |-> data]

\* Fragment, for a message that one fragment can hold.
WholeMessage(o, data) == [object |-> o, id |-> 0, start |-> TRUE, end |-> TRUE, data |-> data]

Init ==
    /\ text = <<>> /\ blocks = 0
    /\ pc = [c \in Clients |-> "idle"]
    /\ job = [c \in Clients |-> NoJob]
    /\ held = [c \in Clients |-> 0]
    /\ copy = [c \in Clients |-> <<>>]
    /\ ser = [k \in Serializers |->
                [next |-> 0, objRefs |-> <<>>, tnRefs |-> <<>>, out |-> <<>>, ok |-> TRUE]]
    /\ wire = <<>> /\ framed = <<>> /\ meant = <<>> /\ read = NoRead /\ objectID = 0

\* The text is chosen before anything is sent.
Extend ==
    /\ blocks < MaxWork /\ objectID = 0 /\ \A c \in Clients : pc[c] = "idle"
    /\ Lengthen
    /\ blocks' = blocks + 1
    /\ UNCHANGED <<pc, job, held, copy, ser, wire, framed, meant, read, objectID>>

\* The pool gives a serializer that nobody holds, or a new one: it is reset.
NewSerializer(c) ==
    /\ pc[c] = "idle"
    /\ LET busy == {x \in Clients : pc[x] # "idle"}
       IN blocks + MessageCost * (objectID + Cardinality(busy) + 1) <= MaxWork
    /\ \E k \in Serializers, v \in Inputs(text), how \in {"raw", "objs"} :
         /\ \A x \in Clients : held[x] # k
         /\ held' = [held EXCEPT ![c] = k]
         /\ job' = [job EXCEPT ![c] = [value |-> v, how |-> how]]
         /\ ser' = [ser EXCEPT ![k] = Reset(@)]
    /\ pc' = [pc EXCEPT ![c] = "has"]
    /\ UNCHANGED <<text, blocks, copy, wire, framed, meant, read, objectID>>

\* An error leaves only the deferred Close.
Write(c) ==
    /\ pc[c] = "has"
    /\ LET k == held[c]
           s == IF job[c].how = "raw" THEN SerializeRaw(ser[k], job[c].value)
                ELSE Serialize(ser[k], job[c].value)
       IN /\ ser' = [ser EXCEPT ![k] = s]
          /\ copy' = [copy EXCEPT ![c] = IF s.ok /\ job[c].how = "objs" THEN s.out ELSE <<>>]
          /\ pc' = [pc EXCEPT ![c] = IF s.ok THEN "written" ELSE "sent"]
    /\ UNCHANGED <<text, blocks, job, held, wire, framed, meant, read, objectID>>

\* SerializeRawUnsafe's slice is the buffer as it is when the message is
\* encoded; Serialize's is a copy.
SliceToSend(c) == IF job[c].how = "raw" THEN ser[held[c]].out ELSE copy[c]

\* After the send a "raw" caller has the deferred Close left.
Return(c) ==
    /\ pc' = [pc EXCEPT ![c] = IF job[c].how = "raw" THEN "sent" ELSE "idle"]
    /\ job' = [job EXCEPT ![c] = NoJob]
    /\ copy' = [copy EXCEPT ![c] = <<>>]

SendMessage(c) ==
    /\ pc[c] = IF job[c].how = "raw" THEN "written" ELSE "copied"
    /\ LET new == IF job[c].how = "raw" THEN NewPipelineInput(c, SliceToSend(c))
                  ELSE NewPipelineHostResponse(c, SliceToSend(c))
           fragment == WholeMessage(objectID + 1, Encode(new))
       IN /\ Put(fragment)
          /\ meant' = Append(meant, [message |-> new, job |-> job[c]])
    /\ objectID' = objectID + 1
    /\ Return(c)
    /\ UNCHANGED <<text, blocks, held, ser, read>>

SendFails(c) ==
    /\ pc[c] = IF job[c].how = "raw" THEN "written" ELSE "copied"
    /\ Return(c)
    /\ objectID' = objectID + 1
    /\ UNCHANGED <<text, blocks, held, ser, wire, framed, meant, read>>

Close(c) ==
    /\ \/ pc[c] = "sent"
       \/ pc[c] = "written" /\ job[c].how = "objs"
    /\ ser' = [ser EXCEPT ![held[c]] = Reset(@)]
    /\ held' = [held EXCEPT ![c] = 0]
    /\ pc' = [pc EXCEPT ![c] = IF pc[c] = "written" THEN "copied" ELSE "idle"]
    /\ job' = [job EXCEPT ![c] = IF pc[c] = "written" THEN @ ELSE NoJob]
    /\ UNCHANGED <<text, blocks, copy, wire, framed, meant, read, objectID>>

\* The reader: every message has a deserializer of its own.
Receive ==
    /\ Get
    /\ LET m == Head(meant)
           fragment == DecodeFragment(Taken(wire))
           got == Decode(fragment.data)
           r == Deserialize(got.data)
       IN read' = [ok |-> r.ok, value |-> r.value, job |-> m.job,
                   sound |-> Decodable(fragment.data) /\ got = m.message]
    /\ meant' = Tail(meant)
    /\ UNCHANGED <<text, blocks, pc, job, held, copy, ser, objectID>>

Next ==
    \/ Extend \/ Receive
    \/ \E c \in Clients : NewSerializer(c) \/ Write(c) \/ SendMessage(c) \/ SendFails(c) \/ Close(c)

Spec == Init /\ [][Next]_vars

----------------------------------------------------------------------------
(* What a document should mean: the value it was written from, as a graph.  *)

Children(o) ==
    LET written == IF o.properties = <<>> THEN o.members ELSE o.properties
    IN Fn([i \in 1..Len(written) |-> Named(Raw(written[i].name), written[i].value)])

\* A key of a string map is not escaped: one that holds an escape is read as
\* what the escape stands for.
PlainKey(k) ==
    Cleaned(k) = k /\ \A i \in 1..Len(k) : ~EscapeAt(k, i) /\ ~needsCLIXMLCharEscape(k[i])
KeyRead(k) == IF PlainKey(k) THEN k ELSE decodeCLIXMLString(XmlText(k))

Kids(v) ==
    CASE v.kind = "list" -> v.items
      [] v.kind = "table" ->
           Fn([i \in 1..Len(v.entries) |-> Named(KeyRead(v.entries[i].key), v.entries[i].value)])
      [] v.kind = "map" ->
           Fn([i \in 1..Len(v.entries) |->
                 Named(IF v.entries[i].key.kind = "str" THEN Cleaned(v.entries[i].key.text) ELSE <<>>,
                       v.entries[i].value)])
      [] v.kind = "pointer" -> Children(Deref(v.to))
      [] v.kind = "fresh" -> Children(v.object)
      [] OTHER -> <<>>

\* What a value is, apart from its children: as written and as read.
Face(v) ==
    CASE v.kind \in {"table", "map"} -> <<"table">>
      [] v.kind = "version" -> <<"str", v.text>>
      [] v.kind = "str" -> <<"str", Cleaned(v.text)>>
      [] v.kind = "prim" -> <<v.tag, v.body>>
      [] v.kind = "enum" -> <<"object", RawTypes(v.types), Cleaned(v.text), <<"I32", v.body>>>>
      [] v.kind = "pointer" -> <<"object", Deref(v.to).types, Cleaned(Deref(v.to).text), <<"nil">>>>
      [] v.kind = "fresh" -> <<"object", v.object.types, Cleaned(v.object.text), <<"nil">>>>
      [] OTHER -> <<v.kind>>

FaceRead(r) ==
    CASE r.kind = "object" ->
           <<"object", r.types, r.text, IF r.value = Nil THEN <<"nil">>
                                        ELSE <<r.value.tag, r.value.body>>>>
      [] r.kind = "str" -> <<"str", r.text>>
      [] r.kind = "prim" -> <<r.tag, r.body>>
      [] OTHER -> <<r.kind>>

KidsRead(r) == IF r.kind \in {"object", "list", "table"} THEN r.kids ELSE <<>>

\* The values that are written in one, also those that are not read back.
Parts(v) ==
    CASE v.kind = "list" -> [i \in 1..Len(v.items) |-> Named("", v.items[i])]
      [] v.kind = "table" -> [i \in 1..Len(v.entries) |-> Named("Value", v.entries[i].value)]
      [] v.kind = "map" ->
           [i \in 1..Len(v.entries) |-> Named("Key", v.entries[i].key)]
           \o [i \in 1..Len(v.entries) |-> Named("Value", v.entries[i].value)]
      [] v.kind = "pointer" -> Deref(v.to).members \o Deref(v.to).properties
      [] v.kind = "fresh" -> v.object.members \o v.object.properties
      [] OTHER -> <<>>

RECURSIVE Same(_, _), Deep(_, _), Refused(_), Identities(_, _)

Same(v, r) ==
    /\ Face(v)[1] = FaceRead(r)[1] /\ Face(v) = FaceRead(r)
    /\ DOMAIN Kids(v) = DOMAIN KidsRead(r)
    /\ \A l \in DOMAIN Kids(v) : Same(Kids(v)[l], KidsRead(r)[l])

\* Elements below more than n levels of <Obj>, counted without sharing.
Deep(v, n) ==
    \/ v.kind = "enum" /\ n = 0
    \/ /\ Parts(v) # <<>>
       /\ n = 0 \/ \E i \in DOMAIN Parts(v) : Deep(Parts(v)[i].value, n - 1)

\* A name, a type or a text in it is none of XML's, and written as it is.
Refused(v) ==
    \/ v.kind = "str" /\ XmlRefuses(StringText(v.text))
    \/ v.kind \in {"list", "enum"} /\ \E i \in DOMAIN v.types : Raw(v.types[i]) = NoXml
    \/ \E i \in DOMAIN Parts(v) : Raw(Parts(v)[i].name) = NoXml \/ Refused(Parts(v)[i].value)

Identities(v, r) ==
    (IF v.kind = "pointer" THEN {<<v.to, r.at>>} ELSE {})
    \cup UNION {Identities(Kids(v)[l], KidsRead(r)[l]) : l \in DOMAIN Kids(v)}

\* PROPERTY.  A message reads back, with a deserializer of its own, as the
\* header and the value that its sender had: whatever was serialized before
\* with the same serializer (its tables are of no other document), whoever uses
\* the pool between the writing and the sending (the buffer is not overwritten
\* under a slice), and with two places sharing an object exactly if they did.
\* A value may be refused that is nested too deep, or without end, and one with
\* a name, a type or a text that the serializer does not escape and XML does not
\* allow.  What is read differs from what was written in names and types that
\* hold markup, in the keys of a string map that hold escapes, and in U+FFFE and
\* U+FFFF (Serializer.Reset, SerializeRawUnsafe, Serialize, deserializeObject).
DocumentsSurvive ==
    /\ read.sound
    /\ read.ok \/ Deep(read.job.value, MaxDepth - 1) \/ Refused(read.job.value)
    /\ read.ok =>
         /\ Same(read.job.value, read.value)
         /\ \A a, b \in Identities(read.job.value, read.value) : a[1] = b[1] <=> a[2] = b[2]
=============================================================================
