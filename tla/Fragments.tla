------------------------------ MODULE Fragments ------------------------------
(***************************************************************************)
(* Fragmentation and reassembly: fragments/fragments.go, a Fragmenter at    *)
(* one end and an Assembler, driven by Pool.receiveMessage, at the other.   *)
(*                                                                         *)
(* Between them is a set of fragments in flight, taken out in any order and *)
(* perhaps more than once: the Assembler promises to put a message together *)
(* whatever the order, and to refuse a duplicate while it is pending.  The  *)
(* bytes of a message are named by their positions: the data of a fragment  *)
(* is a slice, a record of the object it comes from and of where it begins  *)
(* and ends.                                                                *)
(***************************************************************************)
EXTENDS Integers, Sequences, FiniteSets

CONSTANTS
    Lengths,      \* lengths of the messages, in bytes
    MaxSize,      \* Fragmenter.maxSize, header included
    MaxPending,   \* Assembler.maxPendingMessages
    MaxFragments, \* Assembler.maxFragmentsPerMsg
    MaxMessages,  \* bound: messages sent
    MaxCopies     \* bound: fragments the network duplicates

HeaderSize == 21

\* A message has a header of 40 bytes, so none is empty: with no room for a
\* payload, Fragment would divide by the length of the data.
ASSUME FragmentsAssumption ==
    /\ Lengths \subseteq Nat
    /\ MaxSize \in Nat
    /\ MaxSize <= HeaderSize => 0 \notin Lengths
    /\ MaxPending \in Nat /\ MaxFragments \in Nat
    /\ MaxMessages \in Nat /\ MaxCopies \in Nat

VARIABLES
    sent,     \* lengths of the messages sent; the index is the object ID
    wire,     \* fragments in flight
    copies,   \* fragments duplicated so far
    pending,  \* Assembler.pending
    inbox,    \* messages receiveMessage returned: object and data
    failure   \* the error of Add that ended the receiver, or "none"

vars == <<sent, wire, copies, pending, inbox, failure>>

Messages == 1 .. MaxMessages

-----------------------------------------------------------------------------
(* Fragmenter.                                                              *)

maxPayload(len) == IF MaxSize - HeaderSize <= 0 THEN len ELSE MaxSize - HeaderSize

numFragments(len) ==
    IF len = 0 THEN 1 ELSE (len + maxPayload(len) - 1) \div maxPayload(len)

\* The bytes from position from (included) to position to (excluded).
Slice(o, from, to) == [object |-> o, from |-> from, to |-> to]

\* Data of fragment i: every fragment but the last carries a full payload.
Data(o, len, i) ==
    LET end == (i + 1) * maxPayload(len)
    IN  Slice(o, i * maxPayload(len), IF end > len THEN len ELSE end)

\* Mutant of Fragment: the end of the message is taken for a short payload.
FragmentShortEnds(o, len) ==
    {[object |-> o, id |-> i,
      end |-> (Data(o, len, i).to - Data(o, len, i).from < maxPayload(len)),
      data |-> Data(o, len, i)] : i \in 0 .. numFragments(len) - 1}

Fragment(o, len) ==
    {[object |-> o, id |-> i, end |-> (Data(o, len, i).to = len),
      data |-> Data(o, len, i)] : i \in 0 .. numFragments(len) - 1}

-----------------------------------------------------------------------------
(* Assembler.                                                               *)

\* An object ID without an entry in the map.
Absent == [total |-> -1, received |-> -1, fragments |-> <<>>]

NewEntry == [total |-> -1, received |-> 0, fragments |-> [i \in {} |-> 0]]

IsPending(o) == pending[o] # Absent

entry(o) == IF IsPending(o) THEN pending[o] ELSE NewEntry

\* Mutant of with: the total is the last ID.
withTotalOffByOne(pm, f) ==
    [total |-> IF f.end THEN f.id ELSE pm.total,
     received |-> pm.received + 1,
     fragments |-> [i \in DOMAIN pm.fragments \cup {f.id} |->
                        IF i = f.id THEN f.data ELSE pm.fragments[i]]]

\* The entry with fragment f in it; the End fragment tells the total.
with(pm, f) ==
    [total |-> IF f.end THEN f.id + 1 ELSE pm.total,
     received |-> pm.received + 1,
     fragments |-> [i \in DOMAIN pm.fragments \cup {f.id} |->
                        IF i = f.id THEN f.data ELSE pm.fragments[i]]]

\* Mutant of Complete: the End fragment completes the message.
CompleteAtEnd(pm) == pm.total > 0

Complete(pm) == pm.total > 0 /\ pm.received = pm.total

\* A fragment that is missing from the map reads as no data.
NoData == Slice(0, 0, 0)

Assembled(pm) ==
    [k \in 1 .. pm.total |->
        IF k - 1 \in DOMAIN pm.fragments THEN pm.fragments[k - 1] ELSE NoData]

\* Mutants of two of the tests: off by one, missing.
TooManyPendingOffByOne(f) ==
    ~IsPending(f.object) /\ Cardinality({o \in Messages : IsPending(o)}) > MaxPending

IsDuplicateNever(f) == FALSE

TooManyPending(f) ==
    ~IsPending(f.object) /\ Cardinality({o \in Messages : IsPending(o)}) >= MaxPending

TooManyFragments(f) == entry(f.object).received >= MaxFragments

IsDuplicate(f) == f.id \in DOMAIN entry(f.object).fragments

-----------------------------------------------------------------------------
Init ==
    /\ sent = <<>> /\ wire = {} /\ copies = 0
    /\ pending = [o \in Messages |-> Absent]
    /\ inbox = <<>> /\ failure = "none"

\* Fragmenter.Fragment numbers the message and splits it; sendMessage writes
\* all of its fragments.
Send(len) ==
    /\ Len(sent) < MaxMessages
    /\ sent' = Append(sent, len)
    /\ wire' = wire \cup Fragment(Len(sent) + 1, len)
    /\ UNCHANGED <<copies, pending, inbox, failure>>

\* One fragment leaves the network, and with again a copy of it stays.
Take(f, again) ==
    /\ failure = "none" /\ f \in wire
    /\ again => copies < MaxCopies
    /\ copies' = copies + (IF again THEN 1 ELSE 0)
    /\ wire' = (IF again THEN wire ELSE wire \ {f})
    /\ UNCHANGED sent

\* Add accepts the fragment and the message is not complete.
Store(f, again) ==
    LET pm == with(entry(f.object), f) IN
    /\ ~TooManyPending(f) /\ ~TooManyFragments(f) /\ ~IsDuplicate(f)
    /\ ~Complete(pm)
    /\ Take(f, again)
    /\ pending' = [pending EXCEPT ![f.object] = pm]
    /\ UNCHANGED <<inbox, failure>>

\* Add accepts the fragment and the message is complete: the entry goes.
Deliver(f, again) ==
    LET pm == with(entry(f.object), f) IN
    /\ ~TooManyPending(f) /\ ~TooManyFragments(f) /\ ~IsDuplicate(f)
    /\ Complete(pm)
    /\ Take(f, again)
    /\ pending' = [pending EXCEPT ![f.object] = Absent]
    /\ inbox' = Append(inbox, [object |-> f.object, data |-> Assembled(pm)])
    /\ UNCHANGED failure

\* The three errors of Add, in its order; each ends the dispatch loop.  An
\* entry Add has just created stays unless the fragments are too many.
RefusePending(f, again) ==
    /\ TooManyPending(f)
    /\ Take(f, again)
    /\ failure' = "pending"
    /\ UNCHANGED <<pending, inbox>>

RefuseFragments(f, again) ==
    /\ ~TooManyPending(f) /\ TooManyFragments(f)
    /\ Take(f, again)
    /\ failure' = "fragments"
    /\ pending' = [pending EXCEPT ![f.object] = Absent]
    /\ UNCHANGED inbox

RefuseDuplicate(f, again) ==
    /\ ~TooManyPending(f) /\ ~TooManyFragments(f) /\ IsDuplicate(f)
    /\ Take(f, again)
    /\ failure' = "duplicate"
    /\ UNCHANGED <<pending, inbox>>

Add(f, again) ==
    \/ Store(f, again) \/ Deliver(f, again)
    \/ RefusePending(f, again) \/ RefuseFragments(f, again) \/ RefuseDuplicate(f, again)

Next ==
    \/ \E len \in Lengths : Send(len)
    \/ \E f \in wire, again \in BOOLEAN : Add(f, again)

Spec == Init /\ [][Next]_vars

\* The receiver keeps reading as long as it has not failed.
FairSpec == Spec /\ WF_vars(\E f \in wire : Add(f, FALSE))

-----------------------------------------------------------------------------
Slices(o) == [object : {o}, from : Nat, to : Nat]

IsFragment(f) ==
    f.object \in 1 .. Len(sent) /\ f \in Fragment(f.object, sent[f.object])

IsEntry(pm) ==
    /\ pm.total \in Nat \cup {-1} /\ pm.received \in Nat
    /\ DOMAIN pm.fragments \subseteq Nat

\* Every variable has its type; what is in flight was cut from what was sent.
TypeOK ==
    /\ sent \in Seq(Lengths) /\ Len(sent) <= MaxMessages
    /\ \A f \in wire : IsFragment(f)
    /\ copies \in Nat
    /\ DOMAIN pending = Messages
    /\ \A o \in Messages : IsPending(o) => IsEntry(pending[o])
    /\ \A k \in 1 .. Len(inbox) :
          inbox[k].object \in 1 .. Len(sent) /\ inbox[k].data \in Seq(Slices(inbox[k].object))
    /\ failure \in {"none", "pending", "fragments", "duplicate"}

\* The slices ps follow one another from the first byte of object o to its
\* last.
Whole(o, ps) ==
    /\ Len(ps) > 0 /\ ps[1].from = 0 /\ ps[Len(ps)].to = sent[o]
    /\ \A k \in 1 .. Len(ps) : ps[k].object = o
    /\ \A k \in 1 .. Len(ps) - 1 : ps[k].to = ps[k + 1].from

\* Every message receiveMessage returns is one that was sent, all its bytes in
\* their order, however the fragments of several messages were reordered,
\* interleaved and duplicated.
Intact ==
    \A k \in 1 .. Len(inbox) : Whole(inbox[k].object, inbox[k].data)

\* The limits are exact.  Add gives up for cause only: more messages than it
\* may hold, a message of more fragments than it may have (one of exactly
\* MaxFragments is accepted), or a duplicate.  And the memory of the Assembler
\* stays within them, abandoned and re-created entries included.
LimitsAreExact ==
    /\ failure = "pending" => Len(sent) > MaxPending
    /\ failure = "fragments" =>
          \E o \in 1 .. Len(sent) : numFragments(sent[o]) > MaxFragments
    /\ failure = "duplicate" => copies > 0
    /\ Cardinality({o \in Messages : IsPending(o)}) <= MaxPending
    /\ \A o \in Messages : IsPending(o) =>
          Cardinality(DOMAIN pending[o].fragments) <= MaxFragments

\* Every message arrives at most once more than fragments are duplicated, and
\* intact.  A message that is not intact would be no message at all (0).
Delivery == INSTANCE MessageDelivery WITH
    count <- Len(sent),
    inbox <- [k \in 1 .. Len(inbox) |->
                 IF Whole(inbox[k].object, inbox[k].data) THEN inbox[k].object ELSE 0]

DeliversMessages == Delivery!Spec

\* Under FairSpec a message that was sent arrives, unless the receiver fails.
Arrives ==
    \A o \in Messages :
        o <= Len(sent) ~> (failure # "none" \/ \E k \in 1 .. Len(inbox) : inbox[k].object = o)

=============================================================================
