--------------------------- MODULE FragmentsProofs ---------------------------
(***************************************************************************)
(* Theorems about Fragments, for every value of its constants.              *)
(***************************************************************************)
EXTENDS Fragments, FiniteSetTheorems, SequenceTheorems, TLAPS

-----------------------------------------------------------------------------
(* Arithmetic of Fragmenter.Fragment.                                       *)

\* Integer division brackets the dividend.
LEMMA Division ==
    ASSUME NEW a \in Nat, NEW b \in Nat \ {0}
    PROVE  /\ a \div b \in Nat
           /\ b * (a \div b) <= a /\ a < b * (a \div b) + b
BY SMT

\* Multiplication by a positive payload is strictly monotonic, one payload at
\* a time.
LEMMA Product ==
    ASSUME NEW m \in Nat \ {0}, NEW i \in Nat, NEW j \in Nat, i < j
    PROVE  i * m + m <= j * m
<1>1. PICK d \in Nat : j = i + 1 + d
  <2>1. j - i - 1 \in Nat /\ j = i + 1 + (j - i - 1)
    OBVIOUS
  <2> QED BY <2>1
<1>2. j * m = i * m + m + d * m /\ d * m \in Nat
  BY <1>1, Z3
<1> QED BY <1>2, Z3

\* The payload is positive wherever Fragment divides by it.
LEMMA PayloadPositive ==
    ASSUME NEW len \in Lengths
    PROVE  len \in Nat /\ maxPayload(len) \in Nat /\ maxPayload(len) # 0
BY FragmentsAssumption DEF maxPayload, HeaderSize

\* There is at least one fragment; all but the last are full, and the last
\* ends where the message does.
LEMMA Count ==
    ASSUME NEW len \in Lengths
    PROVE  /\ numFragments(len) \in Nat /\ numFragments(len) >= 1
           /\ len <= numFragments(len) * maxPayload(len)
           /\ \A i \in Nat : i < numFragments(len) - 1 => (i + 1) * maxPayload(len) < len
<1> DEFINE m == maxPayload(len)
           n == numFragments(len)
<1>1. len \in Nat /\ m \in Nat \ {0}
  BY PayloadPositive
<1> HIDE DEF m
<1>2. CASE len = 0
  <2>1. n = 1
    BY <1>2 DEF numFragments
  <2> QED BY <1>1, <1>2, <2>1 DEF n, m
<1>3. CASE len # 0
  <2> DEFINE a == len + m - 1
  <2>1. a \in Nat
    BY <1>1, <1>3
  <2>2. n = a \div m
    BY <1>3 DEF numFragments, n, m
  <2> HIDE DEF a, n
  <2>3. n \in Nat /\ m * n <= a /\ a < m * n + m
    BY <1>1, <2>1, <2>2, Division
  <2>4. m * n = n * m /\ n * m \in Nat
    BY <1>1, <2>3, Z3
  <2>5. n * m <= len + m - 1 /\ len + m - 1 < n * m + m
    BY <2>3, <2>4 DEF a
  <2>6. len <= n * m
    BY <1>1, <2>4, <2>5, Z3
  <2>7. n # 0
    <3>1. n = 0 => n * m = 0
      BY <1>1, <2>3, Z3
    <3> QED BY <1>1, <1>3, <2>6, <3>1
  <2>8. ASSUME NEW i \in Nat, i < n - 1 PROVE (i + 1) * m < len
    <3>1. i + 1 < n
      BY <2>3, <2>8
    <3>2. (i + 1) * m + m <= n * m
      BY <1>1, <2>3, <3>1, Product
    <3>3. (i + 1) * m \in Nat
      BY <1>1
    <3> QED BY <1>1, <2>4, <2>5, <3>2, <3>3, Z3
  <2> QED BY <2>3, <2>6, <2>7, <2>8 DEF n, m
<1> QED BY <1>2, <1>3

\* Fragment IDs of a message of len bytes.
Ids(len) == 0 .. numFragments(len) - 1

\* The slices are consecutive, from the first byte to the last; only that of
\* the last fragment ends the message.
LEMMA Cuts ==
    ASSUME NEW len \in Lengths, NEW o, NEW i \in Ids(len)
    PROVE  /\ Data(o, len, i) = Slice(o, Data(o, len, i).from, Data(o, len, i).to)
           /\ Data(o, len, i).from \in Nat /\ Data(o, len, i).to \in Nat
           /\ i = 0 => Data(o, len, i).from = 0
           /\ Data(o, len, i).to = len <=> i = numFragments(len) - 1
           /\ i < numFragments(len) - 1 => Data(o, len, i).to = Data(o, len, i + 1).from
<1> DEFINE m == maxPayload(len)
           n == numFragments(len)
<1>1. len \in Nat /\ m \in Nat \ {0}
  BY PayloadPositive
<1>2. /\ n \in Nat /\ n >= 1 /\ len <= n * m
      /\ \A j \in Nat : j < n - 1 => (j + 1) * m < len
  BY Count
<1>3. i \in Nat /\ i <= n - 1
  BY <1>2 DEF Ids
<1>4. /\ Data(o, len, i).object = o
      /\ Data(o, len, i).from = i * m
      /\ Data(o, len, i).to = IF (i + 1) * m > len THEN len ELSE (i + 1) * m
      /\ Data(o, len, i + 1).from = (i + 1) * m
      /\ Data(o, len, i) = Slice(o, Data(o, len, i).from, Data(o, len, i).to)
  BY DEF Data, Slice
<1> HIDE DEF m, n
<1>5. i * m \in Nat /\ (i + 1) * m \in Nat /\ (i = 0 => i * m = 0)
  BY <1>1, <1>3, Z3
<1>6. i = n - 1 => Data(o, len, i).to = len
  <2>1. i = n - 1 => i + 1 = n
    BY <1>2, <1>3
  <2> QED BY <1>1, <1>2, <1>4, <1>5, <2>1
<1>7. i < n - 1 => Data(o, len, i).to = (i + 1) * m /\ (i + 1) * m < len
  BY <1>1, <1>2, <1>3, <1>4, <1>5
<1>8. Data(o, len, i).to \in Nat
  BY <1>1, <1>4, <1>5
<1>9. i = n - 1 \/ i < n - 1
  BY <1>2, <1>3
<1> QED BY <1>1, <1>3, <1>4, <1>5, <1>6, <1>7, <1>8, <1>9 DEF n

\* A fragment knows its object, its ID is its place, and it ends the message
\* exactly if it is the last; the ID determines it.
LEMMA Fields ==
    ASSUME NEW len \in Lengths, NEW o, NEW f \in Fragment(o, len)
    PROVE  /\ f.object = o /\ f.id \in Ids(len)
           /\ f.data = Data(o, len, f.id)
           /\ f.end <=> f.id = numFragments(len) - 1
           /\ \A g \in Fragment(o, len) : g.id = f.id => g = f
<1>1. PICK i \in Ids(len) :
          f = [object |-> o, id |-> i, end |-> (Data(o, len, i).to = len),
               data |-> Data(o, len, i)]
  BY DEF Fragment, Ids
<1>2. ASSUME NEW g \in Fragment(o, len), g.id = f.id PROVE g = f
  <2>1. PICK j \in Ids(len) :
            g = [object |-> o, id |-> j, end |-> (Data(o, len, j).to = len),
                 data |-> Data(o, len, j)]
    BY DEF Fragment, Ids
  <2>2. i = j
    BY <1>1, <1>2, <2>1
  <2> QED BY <1>1, <2>1, <2>2
<1>3. f.end <=> i = numFragments(len) - 1
  <2>1. f.end = (Data(o, len, i).to = len)
    BY <1>1
  <2>2. Data(o, len, i).to = len <=> i = numFragments(len) - 1
    BY Cuts
  <2> QED BY <2>1, <2>2, Zenon
<1> QED BY <1>1, <1>2, <1>3

-----------------------------------------------------------------------------
(* Entries of Assembler.pending.                                            *)

\* An entry of the map that holds some fragments of object o, of len bytes.
EntryFor(o, len, pm) ==
    /\ DOMAIN pm.fragments \subseteq Ids(len)
    /\ \A i \in DOMAIN pm.fragments : pm.fragments[i] = Data(o, len, i)
    /\ pm.received = Cardinality(DOMAIN pm.fragments)
    /\ pm.total = IF numFragments(len) - 1 \in DOMAIN pm.fragments
                  THEN numFragments(len) ELSE -1

\* The data of the whole message.
MessageOf(o, len) == [k \in 1 .. numFragments(len) |-> Data(o, len, k - 1)]

\* The number of fragments received is at most their number, and equal to it
\* only when all of them were.
LEMMA Received ==
    ASSUME NEW len \in Lengths, NEW o, NEW pm, EntryFor(o, len, pm)
    PROVE  /\ pm.received \in Nat /\ pm.received <= numFragments(len)
           /\ pm.received = numFragments(len) => DOMAIN pm.fragments = Ids(len)
           /\ IsFiniteSet(DOMAIN pm.fragments)
<1>1. numFragments(len) \in Nat /\ numFragments(len) >= 1
  BY Count
<1>2. IsFiniteSet(Ids(len)) /\ Cardinality(Ids(len)) = numFragments(len)
  <2>1. numFragments(len) - 1 \in Int /\ ~(0 > numFragments(len) - 1)
    BY <1>1
  <2>2. /\ IsFiniteSet(Ids(len))
        /\ Cardinality(Ids(len)) = numFragments(len) - 1 - 0 + 1
    BY <2>1, FS_Interval DEF Ids
  <2> QED BY <1>1, <2>2
<1>3. DOMAIN pm.fragments \in SUBSET Ids(len)
  BY DEF EntryFor
<1>4. /\ IsFiniteSet(DOMAIN pm.fragments)
      /\ Cardinality(DOMAIN pm.fragments) <= Cardinality(Ids(len))
      /\ Cardinality(Ids(len)) = Cardinality(DOMAIN pm.fragments)
            => Ids(len) = DOMAIN pm.fragments
  BY <1>2, <1>3, FS_Subset
<1>5. Cardinality(DOMAIN pm.fragments) \in Nat
  BY <1>4, FS_CardinalityType
<1> QED BY <1>2, <1>4, <1>5 DEF EntryFor

\* What Add does to an entry with a fragment that is not in it: the entry is
\* complete exactly when no fragment is missing, and is then the message.
LEMMA AddToEntry ==
    ASSUME NEW len \in Lengths, NEW o, NEW pm, EntryFor(o, len, pm),
           NEW f \in Fragment(o, len), f.id \notin DOMAIN pm.fragments
    PROVE  LET q == with(pm, f) IN
           /\ EntryFor(o, len, q)
           /\ DOMAIN q.fragments = DOMAIN pm.fragments \cup {f.id}
           /\ ~Complete(q) => q.received < numFragments(len)
           /\ Complete(q) => /\ DOMAIN q.fragments = Ids(len)
                             /\ Assembled(q) = MessageOf(o, len)
<1> DEFINE n == numFragments(len)
           q == with(pm, f)
<1>1. n \in Nat /\ n >= 1
  BY Count
<1>2. /\ f.id \in Ids(len) /\ f.data = Data(o, len, f.id)
      /\ f.end <=> f.id = n - 1
  BY Fields
<1>3. pm.received \in Nat /\ IsFiniteSet(DOMAIN pm.fragments)
  BY Received
<1>4. /\ DOMAIN q.fragments = DOMAIN pm.fragments \cup {f.id}
      /\ q.received = pm.received + 1
      /\ q.total = IF f.end THEN f.id + 1 ELSE pm.total
      /\ \A i \in DOMAIN q.fragments :
            q.fragments[i] = IF i = f.id THEN f.data ELSE pm.fragments[i]
  BY DEF with
<1> HIDE DEF q
<1>5. Cardinality(DOMAIN q.fragments) = Cardinality(DOMAIN pm.fragments) + 1
  BY <1>3, <1>4, FS_AddElement
<1>6. q.total = IF n - 1 \in DOMAIN q.fragments THEN n ELSE -1
  <2>1. CASE f.end
    <3>1. f.id + 1 = n
      BY <1>1, <1>2, <2>1
    <3> QED BY <1>2, <1>4, <2>1, <3>1
  <2>2. CASE ~f.end
    BY <1>2, <1>4, <2>2 DEF EntryFor
  <2> QED BY <2>1, <2>2
<1>7. EntryFor(o, len, q)
  <2>1. DOMAIN q.fragments \subseteq Ids(len)
    BY <1>2, <1>4 DEF EntryFor
  <2>2. \A i \in DOMAIN q.fragments : q.fragments[i] = Data(o, len, i)
    BY <1>2, <1>4 DEF EntryFor
  <2>3. q.received = Cardinality(DOMAIN q.fragments)
    BY <1>4, <1>5 DEF EntryFor
  <2> QED BY <1>6, <2>1, <2>2, <2>3 DEF EntryFor
<1>8. /\ q.received \in Nat /\ q.received <= n
      /\ q.received = n => DOMAIN q.fragments = Ids(len)
  BY <1>7, Received
<1>9. n - 1 \in Ids(len)
  BY <1>1 DEF Ids
<1>10. Complete(q) <=> q.received = n
  <2>1. ASSUME Complete(q) PROVE q.received = n
    <3>1. q.total # -1
      BY <2>1 DEF Complete
    <3>2. q.total = n
      BY <1>6, <3>1
    <3> QED BY <2>1, <3>2 DEF Complete
  <2>2. ASSUME q.received = n PROVE Complete(q)
    <3>1. q.total = n
      BY <1>6, <1>8, <1>9, <2>2
    <3> QED BY <1>1, <2>2, <3>1 DEF Complete
  <2> QED BY <2>1, <2>2
<1>11. ASSUME Complete(q)
       PROVE  DOMAIN q.fragments = Ids(len) /\ Assembled(q) = MessageOf(o, len)
  <2>1. DOMAIN q.fragments = Ids(len)
    BY <1>8, <1>10, <1>11
  <2>2. q.total = n
    BY <1>6, <1>9, <2>1
  <2>3. ASSUME NEW k \in 1 .. n
        PROVE  k - 1 \in DOMAIN q.fragments /\ q.fragments[k - 1] = Data(o, len, k - 1)
    <3>1. k - 1 \in Ids(len)
      BY <1>1 DEF Ids
    <3> QED BY <1>7, <2>1, <3>1 DEF EntryFor
  <2> QED BY <2>1, <2>2, <2>3 DEF Assembled, MessageOf
<1>12. ~Complete(q) => q.received < n
  BY <1>1, <1>8, <1>10
<1> QED BY <1>4, <1>7, <1>11, <1>12 DEF q

-----------------------------------------------------------------------------
(* The inductive invariant.                                                 *)

AllSlices == [object : Messages, from : Nat, to : Nat]
Received_ == [object : Messages, data : Seq(AllSlices)]

ShapeInv ==
    /\ sent \in Seq(Lengths) /\ Len(sent) <= MaxMessages
    /\ copies \in Nat
    /\ DOMAIN pending = Messages
    /\ inbox \in Seq(Received_)
    /\ failure \in {"none", "pending", "fragments", "duplicate"}

WireInv == \A f \in wire : IsFragment(f)

EntriesInv ==
    \A o \in Messages : IsPending(o) =>
        /\ o \in 1 .. Len(sent)
        /\ EntryFor(o, sent[o], pending[o])
        /\ pending[o].received < numFragments(sent[o])

InboxInv ==
    \A k \in 1 .. Len(inbox) :
        /\ inbox[k].object \in 1 .. Len(sent)
        /\ inbox[k].data = MessageOf(inbox[k].object, sent[inbox[k].object])

Inv == ShapeInv /\ WireInv /\ EntriesInv /\ InboxInv

\* What was sent stays sent, and its length is one of Lengths.
LEMMA Growth ==
    ASSUME ShapeInv, NEW len \in Lengths, sent' = Append(sent, len)
    PROVE  /\ sent' \in Seq(Lengths) /\ Len(sent') = Len(sent) + 1
           /\ sent'[Len(sent) + 1] = len
           /\ \A o \in 1 .. Len(sent) : o \in 1 .. Len(sent') /\ sent'[o] = sent[o]
BY DEF ShapeInv

LEMMA Sent ==
    ASSUME ShapeInv, NEW o \in 1 .. Len(sent)
    PROVE  sent[o] \in Lengths /\ o \in Messages
<1>1. sent \in Seq(Lengths) /\ Len(sent) \in Nat /\ Len(sent) <= MaxMessages
  BY DEF ShapeInv
<1>2. MaxMessages \in Nat
  BY FragmentsAssumption
<1>3. sent[o] \in Lengths
  BY <1>1
<1> QED BY <1>1, <1>2, <1>3 DEF Messages

\* A fragment in flight and the entry Add finds or makes for it.
LEMMA FoundEntry ==
    ASSUME Inv, NEW f \in wire
    PROVE  /\ f.object \in 1 .. Len(sent) /\ f.object \in Messages
           /\ sent[f.object] \in Lengths
           /\ f \in Fragment(f.object, sent[f.object])
           /\ EntryFor(f.object, sent[f.object], entry(f.object))
           /\ entry(f.object).received < numFragments(sent[f.object])
<1> DEFINE o == f.object
<1>1. o \in 1 .. Len(sent) /\ f \in Fragment(o, sent[o])
  BY DEF Inv, WireInv, IsFragment
<1>2. sent[o] \in Lengths /\ o \in Messages
  BY <1>1, Sent DEF Inv
<1>3. CASE IsPending(o)
  BY <1>1, <1>2, <1>3 DEF Inv, EntriesInv, entry
<1>4. CASE ~IsPending(o)
  <2>1. entry(o) = NewEntry
    BY <1>4 DEF entry
  <2>2. /\ DOMAIN NewEntry.fragments = {} /\ NewEntry.received = 0
        /\ NewEntry.total = -1
    BY DEF NewEntry
  <2>3. Cardinality({}) = 0
    BY FS_EmptySet
  <2>4. numFragments(sent[o]) \in Nat /\ numFragments(sent[o]) >= 1
    BY <1>2, Count
  <2> QED BY <1>1, <1>2, <2>1, <2>2, <2>3, <2>4 DEF EntryFor
<1> QED BY <1>1, <1>2, <1>3, <1>4

\* Taking a fragment adds nothing to the wire.
LEMMA Taken ==
    ASSUME NEW f, NEW again \in BOOLEAN, Take(f, again), ShapeInv
    PROVE  /\ f \in wire /\ wire' \subseteq wire /\ sent' = sent
           /\ copies' \in Nat /\ copies' >= copies
BY DEF Take, ShapeInv

LEMMA InitInv == Init => Inv
<1> SUFFICES ASSUME Init PROVE Inv
  OBVIOUS
<1>1. /\ sent \in Seq(Lengths) /\ Len(sent) = 0
      /\ inbox \in Seq(Received_) /\ Len(inbox) = 0
  BY DEF Init
<1>2. ShapeInv
  BY <1>1, FragmentsAssumption DEF Init, ShapeInv
<1>3. \A o \in Messages : ~IsPending(o)
  BY DEF Init, IsPending
<1>4. WireInv /\ EntriesInv /\ InboxInv
  BY <1>1, <1>3 DEF Init, WireInv, EntriesInv, InboxInv
<1> QED BY <1>2, <1>4 DEF Inv

LEMMA SendInv ==
    ASSUME Inv, NEW len \in Lengths, Send(len)
    PROVE  Inv'
<1>1. /\ sent' = Append(sent, len) /\ wire' = wire \cup Fragment(Len(sent) + 1, len)
      /\ pending' = pending /\ inbox' = inbox /\ copies' = copies /\ failure' = failure
      /\ Len(sent) < MaxMessages
  BY DEF Send
<1>2. /\ sent' \in Seq(Lengths) /\ Len(sent') = Len(sent) + 1
      /\ sent'[Len(sent) + 1] = len
      /\ \A o \in 1 .. Len(sent) : o \in 1 .. Len(sent') /\ sent'[o] = sent[o]
  BY <1>1, Growth DEF Inv
<1>3. Len(sent) \in Nat /\ Len(sent) + 1 \in 1 .. Len(sent')
  BY <1>2 DEF Inv, ShapeInv
<1>4. ShapeInv'
  BY <1>1, <1>2, <1>3, FragmentsAssumption DEF Inv, ShapeInv
<1>5. WireInv'
  <2> SUFFICES ASSUME NEW f \in wire' PROVE IsFragment(f)'
    BY DEF WireInv
  <2>1. CASE f \in wire
    BY <1>2, <2>1 DEF Inv, WireInv, IsFragment
  <2>2. CASE f \in Fragment(Len(sent) + 1, len)
    <3>1. f.object = Len(sent) + 1
      BY <2>2, Fields
    <3> QED BY <1>2, <1>3, <2>2, <3>1 DEF IsFragment
  <2> QED BY <1>1, <2>1, <2>2
<1>6. EntriesInv'
  BY <1>1, <1>2 DEF Inv, EntriesInv, IsPending
<1>7. InboxInv'
  BY <1>1, <1>2 DEF Inv, InboxInv
<1> QED BY <1>4, <1>5, <1>6, <1>7 DEF Inv

\* The part of Inv that every step of the Assembler leaves alone.
LEMMA TakeInv ==
    ASSUME Inv, NEW f, NEW again \in BOOLEAN, Take(f, again)
    PROVE  WireInv' /\ sent' = sent /\ copies' \in Nat /\ f \in wire
<1>1. /\ f \in wire /\ wire' \subseteq wire /\ sent' = sent /\ copies' \in Nat
  BY Taken DEF Inv
<1> QED BY <1>1 DEF Inv, WireInv, IsFragment

LEMMA StoreInv ==
    ASSUME Inv, NEW f, NEW again \in BOOLEAN, Store(f, again)
    PROVE  Inv'
<1> DEFINE o == f.object
           pm == with(entry(o), f)
<1>1. /\ Take(f, again) /\ ~Complete(pm) /\ ~IsDuplicate(f)
      /\ pending' = [pending EXCEPT ![o] = pm] /\ inbox' = inbox /\ failure' = failure
  BY DEF Store
<1>2. WireInv' /\ sent' = sent /\ copies' \in Nat /\ f \in wire
  BY <1>1, TakeInv
<1>3. /\ o \in 1 .. Len(sent) /\ o \in Messages /\ sent[o] \in Lengths
      /\ f \in Fragment(o, sent[o])
      /\ EntryFor(o, sent[o], entry(o))
  BY <1>2, FoundEntry
<1>4. f.id \notin DOMAIN entry(o).fragments
  BY <1>1 DEF IsDuplicate
<1>5. EntryFor(o, sent[o], pm) /\ pm.received < numFragments(sent[o])
  BY <1>1, <1>3, <1>4, AddToEntry
<1> HIDE DEF pm
<1>6. ShapeInv'
  BY <1>1, <1>2 DEF Inv, ShapeInv
<1>7. EntriesInv'
  <2> SUFFICES ASSUME NEW p \in Messages, IsPending(p)'
               PROVE  /\ p \in 1 .. Len(sent')
                      /\ EntryFor(p, sent'[p], pending'[p])
                      /\ pending'[p].received < numFragments(sent'[p])
    BY DEF EntriesInv
  <2>1. CASE p = o
    <3>1. pending'[p] = pm
      BY <1>1, <1>3, <2>1 DEF Inv, ShapeInv
    <3> QED BY <1>2, <1>3, <1>5, <2>1, <3>1
  <2>2. CASE p # o
    <3>1. pending'[p] = pending[p]
      BY <1>1, <2>2 DEF Inv, ShapeInv
    <3>2. IsPending(p)
      BY <3>1 DEF IsPending
    <3> QED BY <1>2, <3>1, <3>2 DEF Inv, EntriesInv
  <2> QED BY <2>1, <2>2
<1>8. InboxInv'
  BY <1>1, <1>2 DEF Inv, InboxInv
<1> QED BY <1>2, <1>6, <1>7, <1>8 DEF Inv

\* Removing an entry from the map keeps what is said of the others.
LEMMA RemoveInv ==
    ASSUME Inv, NEW o \in Messages, sent' = sent,
           pending' = [pending EXCEPT ![o] = Absent]
    PROVE  EntriesInv' /\ DOMAIN pending' = Messages /\ ~IsPending(o)'
<1>1. DOMAIN pending = Messages
  BY DEF Inv, ShapeInv
<1>2. ~IsPending(o)' /\ DOMAIN pending' = Messages
  BY <1>1 DEF IsPending
<1>3. ASSUME NEW p \in Messages, IsPending(p)'
      PROVE  pending'[p] = pending[p] /\ IsPending(p)
  BY <1>1, <1>2, <1>3 DEF IsPending
<1> QED BY <1>2, <1>3 DEF Inv, EntriesInv

\* The message of an object is a sequence of its slices.
LEMMA MessageShape ==
    ASSUME NEW len \in Lengths, NEW o
    PROVE  /\ MessageOf(o, len) \in Seq(Slices(o))
           /\ Len(MessageOf(o, len)) = numFragments(len)
           /\ numFragments(len) \in Nat /\ numFragments(len) >= 1
<1>1. numFragments(len) \in Nat /\ numFragments(len) >= 1
  BY Count
<1>2. ASSUME NEW k \in 1 .. numFragments(len) PROVE Data(o, len, k - 1) \in Slices(o)
  <2>1. k - 1 \in Ids(len)
    BY <1>1 DEF Ids
  <2> QED BY <2>1, Cuts DEF Slices, Slice
<1>3. MessageOf(o, len) \in [1 .. numFragments(len) -> Slices(o)]
  BY <1>2 DEF MessageOf
<1> QED BY <1>1, <1>3

LEMMA DeliverInv ==
    ASSUME Inv, NEW f, NEW again \in BOOLEAN, Deliver(f, again)
    PROVE  /\ Inv'
           /\ inbox' = Append(inbox, [object |-> f.object,
                                      data |-> MessageOf(f.object, sent[f.object])])
<1> DEFINE o == f.object
           pm == with(entry(o), f)
           msg == [object |-> o, data |-> MessageOf(o, sent[o])]
<1>1. /\ Take(f, again) /\ Complete(pm) /\ ~IsDuplicate(f)
      /\ pending' = [pending EXCEPT ![o] = Absent] /\ failure' = failure
      /\ inbox' = Append(inbox, [object |-> o, data |-> Assembled(pm)])
  BY DEF Deliver
<1>2. WireInv' /\ sent' = sent /\ copies' \in Nat /\ f \in wire
  BY <1>1, TakeInv
<1>3. /\ o \in 1 .. Len(sent) /\ o \in Messages /\ sent[o] \in Lengths
      /\ f \in Fragment(o, sent[o])
      /\ EntryFor(o, sent[o], entry(o))
  BY <1>2, FoundEntry
<1>4. f.id \notin DOMAIN entry(o).fragments
  BY <1>1 DEF IsDuplicate
<1>5. Assembled(pm) = MessageOf(o, sent[o])
  BY <1>1, <1>3, <1>4, AddToEntry
<1>6. inbox' = Append(inbox, msg)
  BY <1>1, <1>5
<1>7. msg \in Received_
  <2>1. MessageOf(o, sent[o]) \in Seq(Slices(o))
    BY <1>3, MessageShape
  <2>2. Slices(o) \subseteq AllSlices
    BY <1>3 DEF Slices, AllSlices
  <2>3. MessageOf(o, sent[o]) \in Seq(AllSlices)
    BY <2>1, <2>2
  <2> QED BY <1>3, <2>3 DEF Received_
<1>8. EntriesInv' /\ DOMAIN pending' = Messages
  BY <1>1, <1>2, <1>3, RemoveInv
<1> HIDE DEF msg
<1>9. inbox \in Seq(Received_)
  BY DEF Inv, ShapeInv
<1>10. /\ inbox' \in Seq(Received_) /\ Len(inbox') = Len(inbox) + 1
       /\ inbox'[Len(inbox) + 1] = msg
       /\ \A k \in 1 .. Len(inbox) : inbox'[k] = inbox[k]
  BY <1>6, <1>7, <1>9
<1>11. ShapeInv'
  BY <1>1, <1>2, <1>8, <1>10 DEF Inv, ShapeInv
<1>12. InboxInv'
  <2> SUFFICES ASSUME NEW k \in 1 .. Len(inbox')
               PROVE  /\ inbox'[k].object \in 1 .. Len(sent')
                      /\ inbox'[k].data = MessageOf(inbox'[k].object, sent'[inbox'[k].object])
    BY DEF InboxInv
  <2>1. k \in 1 .. Len(inbox) \/ k = Len(inbox) + 1
    BY <1>9, <1>10
  <2>2. CASE k \in 1 .. Len(inbox)
    BY <1>2, <1>10, <2>2 DEF Inv, InboxInv
  <2>3. CASE k = Len(inbox) + 1
    BY <1>2, <1>3, <1>10, <2>3 DEF msg
  <2> QED BY <2>1, <2>2, <2>3
<1> QED BY <1>2, <1>6, <1>8, <1>11, <1>12 DEF Inv, msg

\* The errors of Add.
LEMMA RefuseInv ==
    ASSUME Inv, NEW f, NEW again \in BOOLEAN,
           RefusePending(f, again) \/ RefuseFragments(f, again) \/ RefuseDuplicate(f, again)
    PROVE  Inv'
<1>1. /\ Take(f, again) /\ inbox' = inbox
      /\ failure' \in {"pending", "fragments", "duplicate"}
      /\ pending' = pending \/ pending' = [pending EXCEPT ![f.object] = Absent]
  BY DEF RefusePending, RefuseFragments, RefuseDuplicate
<1>2. WireInv' /\ sent' = sent /\ copies' \in Nat /\ f \in wire
  BY <1>1, TakeInv
<1>3. EntriesInv' /\ DOMAIN pending' = Messages
  <2>1. CASE pending' = pending
    BY <1>2, <2>1 DEF Inv, ShapeInv, EntriesInv, IsPending
  <2>2. CASE pending' = [pending EXCEPT ![f.object] = Absent]
    <3>1. f.object \in Messages
      BY <1>2, FoundEntry
    <3> QED BY <1>2, <2>2, <3>1, RemoveInv
  <2> QED BY <1>1, <2>1, <2>2
<1>4. ShapeInv'
  BY <1>1, <1>2, <1>3 DEF Inv, ShapeInv
<1>5. InboxInv'
  BY <1>1, <1>2 DEF Inv, InboxInv
<1> QED BY <1>2, <1>3, <1>4, <1>5 DEF Inv

LEMMA StutterInv == ASSUME Inv, UNCHANGED vars PROVE Inv'
<1>1. /\ ShapeInv' <=> ShapeInv
      /\ WireInv' <=> WireInv
  BY DEF vars, ShapeInv, WireInv, IsFragment
<1>2. /\ EntriesInv' <=> EntriesInv
      /\ InboxInv' <=> InboxInv
  BY DEF vars, EntriesInv, InboxInv, IsPending
<1> QED BY <1>1, <1>2 DEF Inv

LEMMA NextInv == Inv /\ [Next]_vars => Inv'
<1> SUFFICES ASSUME Inv, [Next]_vars PROVE Inv'
  OBVIOUS
<1>1. ASSUME NEW len \in Lengths, Send(len) PROVE Inv'
  BY <1>1, SendInv
<1>2. ASSUME NEW f \in wire, NEW again \in BOOLEAN, Add(f, again) PROVE Inv'
  BY <1>2, StoreInv, DeliverInv, RefuseInv DEF Add
<1>3. CASE UNCHANGED vars
  BY <1>3, StutterInv
<1> QED BY <1>1, <1>2, <1>3 DEF Next

\* The invariant holds in every reachable state.
LEMMA Invariant == Spec => []Inv
BY InitInv, NextInv, PTL DEF Spec

\* Every variable has its type, and what is in flight was cut from what was
\* sent (Fragmenter.Fragment, Assembler.Add).
THEOREM TypeCorrect == Spec => []TypeOK
<1>1. Inv => TypeOK
  <2> SUFFICES ASSUME Inv PROVE TypeOK
    OBVIOUS
  <2>1. ASSUME NEW o \in Messages, IsPending(o) PROVE IsEntry(pending[o])
    <3>1. /\ o \in 1 .. Len(sent) /\ EntryFor(o, sent[o], pending[o])
      BY <2>1 DEF Inv, EntriesInv
    <3>2. sent[o] \in Lengths
      BY <3>1, Sent DEF Inv
    <3>3. pending[o].received \in Nat /\ numFragments(sent[o]) \in Nat
      BY <3>1, <3>2, Received, Count
    <3>4. Ids(sent[o]) \subseteq Nat
      BY <3>3 DEF Ids
    <3> QED BY <3>1, <3>3, <3>4 DEF EntryFor, IsEntry
  <2>2. ASSUME NEW k \in 1 .. Len(inbox)
        PROVE  /\ inbox[k].object \in 1 .. Len(sent)
               /\ inbox[k].data \in Seq(Slices(inbox[k].object))
    <3>1. /\ inbox[k].object \in 1 .. Len(sent)
          /\ inbox[k].data = MessageOf(inbox[k].object, sent[inbox[k].object])
      BY <2>2 DEF Inv, InboxInv
    <3>2. sent[inbox[k].object] \in Lengths
      BY <3>1, Sent DEF Inv
    <3> QED BY <3>1, <3>2, MessageShape
  <2> QED BY <2>1, <2>2 DEF Inv, ShapeInv, WireInv, TypeOK
<1> QED BY <1>1, Invariant, PTL

\* The data of a whole message is whole.
LEMMA MessageWhole ==
    ASSUME Inv, NEW o \in 1 .. Len(sent)
    PROVE  Whole(o, MessageOf(o, sent[o]))
<1> DEFINE len == sent[o]
           n == numFragments(len)
           ps == MessageOf(o, len)
<1>1. len \in Lengths
  BY Sent DEF Inv
<1>2. ps \in Seq(Slices(o)) /\ Len(ps) = n /\ n \in Nat /\ n >= 1
  BY <1>1, MessageShape
<1>3. \A k \in 1 .. n : ps[k] = Data(o, len, k - 1)
  BY DEF MessageOf
<1>4. \A k \in 1 .. n : k - 1 \in Ids(len)
  BY <1>2 DEF Ids
<1> HIDE DEF len, n, ps
<1>5. ps[1].from = 0
  <2>1. 1 \in 1 .. n /\ 1 - 1 = 0
    BY <1>2
  <2> QED BY <1>1, <1>3, <1>4, <2>1, Cuts
<1>6. ps[n].to = len
  <2>1. n \in 1 .. n /\ n - 1 \in Ids(len) /\ ps[n] = Data(o, len, n - 1)
    BY <1>2, <1>3, <1>4
  <2> QED BY <1>1, <2>1, Cuts DEF n
<1>7. ASSUME NEW k \in 1 .. n PROVE ps[k].object = o
  <2>1. ps[k] \in Slices(o)
    BY <1>2, <1>7
  <2> QED BY <2>1 DEF Slices
<1>8. ASSUME NEW k \in 1 .. n - 1 PROVE ps[k].to = ps[k + 1].from
  <2>1. /\ k \in 1 .. n /\ k + 1 \in 1 .. n /\ k - 1 < n - 1
        /\ (k + 1) - 1 = (k - 1) + 1
    BY <1>2
  <2>2. ps[k] = Data(o, len, k - 1) /\ ps[k + 1] = Data(o, len, (k - 1) + 1)
    BY <1>3, <2>1
  <2> QED BY <1>1, <1>4, <2>1, <2>2, Cuts DEF n
<1>9. Len(ps) > 0 /\ Len(ps) = n
  BY <1>2
<1> QED BY <1>5, <1>6, <1>7, <1>8, <1>9 DEF Whole, len, ps

LEMMA InboxWhole == Inv => Intact
<1> SUFFICES ASSUME Inv, NEW k \in 1 .. Len(inbox)
             PROVE  Whole(inbox[k].object, inbox[k].data)
  BY DEF Intact
<1> QED BY MessageWhole DEF Inv, InboxInv

\* Every message receiveMessage returns was sent, and its data is that of the
\* message, byte for byte: for every size of fragment and message, and however
\* fragments are reordered, interleaved and duplicated.
THEOREM MessagesIntact == Spec => []Intact
BY Invariant, InboxWhole, PTL

-----------------------------------------------------------------------------
(* Duplicates.                                                              *)

OnWire(o, i) == \E f \in wire : f.object = o /\ f.id = i
Held(o, i) == i \in DOMAIN entry(o).fragments
Times(o) == Cardinality({k \in 1 .. Len(inbox) : inbox[k].object = o})

\* Fragment i of object o pays for its object's deliveries with its copies: one
\* that is still in flight or in the map has none to spare, one that is in both
\* was duplicated once more.
CopiesInv ==
    \A o \in 1 .. Len(sent) : \A i \in Ids(sent[o]) :
        /\ OnWire(o, i) \/ Held(o, i) => Times(o) <= copies
        /\ OnWire(o, i) /\ Held(o, i) => Times(o) < copies

\* How often an object arrived is a number.
LEMMA TimesType ==
    ASSUME ShapeInv, NEW o
    PROVE  /\ Times(o) \in Nat
           /\ IsFiniteSet({k \in 1 .. Len(inbox) : inbox[k].object = o})
<1>1. Len(inbox) \in Nat
  BY DEF ShapeInv
<1>2. IsFiniteSet(1 .. Len(inbox))
  BY <1>1, FS_Interval
<1>3. {k \in 1 .. Len(inbox) : inbox[k].object = o} \in SUBSET (1 .. Len(inbox))
  OBVIOUS
<1>4. IsFiniteSet({k \in 1 .. Len(inbox) : inbox[k].object = o})
  BY <1>2, <1>3, FS_Subset
<1> QED BY <1>4, FS_CardinalityType DEF Times

\* A message that arrives counts for its object and no other.
LEMMA TimesAppend ==
    ASSUME ShapeInv, NEW m \in Received_, inbox' = Append(inbox, m), NEW o
    PROVE  Times(o)' = IF m.object = o THEN Times(o) + 1 ELSE Times(o)
<1> DEFINE n == Len(inbox)
           K == {k \in 1 .. Len(inbox) : inbox[k].object = o}
           L == {k \in 1 .. Len(inbox') : inbox'[k].object = o}
<1>1. inbox \in Seq(Received_) /\ n \in Nat
  BY DEF ShapeInv
<1>2. /\ Len(inbox') = n + 1 /\ inbox'[n + 1] = m
      /\ \A k \in 1 .. n : inbox'[k] = inbox[k]
  BY <1>1, AppendProperties
<1>3. IsFiniteSet(K) /\ Times(o) = Cardinality(K) /\ Times(o)' = Cardinality(L)
  BY TimesType DEF Times
<1>4. \A k \in 1 .. n + 1 : k \in 1 .. n \/ k = n + 1
  BY <1>1
<1>5. n + 1 \notin 1 .. n /\ n + 1 \in 1 .. n + 1 /\ \A k \in 1 .. n : k \in 1 .. n + 1
  BY <1>1
<1> HIDE DEF n
<1>6. CASE m.object = o
  <2>1. L = K \cup {n + 1} /\ n + 1 \notin K
    BY <1>2, <1>4, <1>5, <1>6 DEF n
  <2> HIDE DEF K, L
  <2>2. Cardinality(L) = Cardinality(K) + 1
    BY <1>3, <2>1, FS_AddElement
  <2> QED BY <1>3, <1>6, <2>2
<1>7. CASE m.object # o
  <2>1. L = K
    BY <1>2, <1>4, <1>5, <1>7 DEF n
  <2> QED BY <1>3, <1>7, <2>1
<1> QED BY <1>6, <1>7

\* A fragment that is taken leaves the network, unless it is duplicated.
LEMMA TakeCopies ==
    ASSUME Inv, NEW f, NEW again \in BOOLEAN, Take(f, again)
    PROVE  /\ copies \in Nat /\ copies' \in Nat /\ copies <= copies'
           /\ \A o, i : OnWire(o, i)' => OnWire(o, i)
           /\ OnWire(f.object, f.id) /\ (copies < copies' \/ ~OnWire(f.object, f.id)')
<1>1. /\ f \in wire /\ wire' \subseteq wire /\ copies' \in Nat /\ copies' >= copies
      /\ copies \in Nat
  BY Taken DEF Inv, ShapeInv
<1>2. OnWire(f.object, f.id) /\ \A o, i : OnWire(o, i)' => OnWire(o, i)
  BY <1>1 DEF OnWire
<1>3. CASE again
  BY <1>1, <1>2, <1>3 DEF Take
<1>4. CASE ~again
  <2>1. wire' = wire \ {f}
    BY <1>4 DEF Take
  <2>2. ASSUME NEW g \in wire', g.object = f.object, g.id = f.id PROVE FALSE
    <3>1. g \in wire /\ g # f
      BY <2>1
    <3>2. /\ g \in Fragment(f.object, sent[f.object])
          /\ f \in Fragment(f.object, sent[f.object]) /\ sent[f.object] \in Lengths
      BY <1>1, <2>2, <3>1, FoundEntry
    <3> QED BY <2>2, <3>1, <3>2, Fields
  <2>3. ~OnWire(f.object, f.id)'
    BY <2>2 DEF OnWire
  <2> QED BY <1>1, <1>2, <2>3
<1> QED BY <1>3, <1>4

\* A new message owes nothing.
LEMMA SendCopies ==
    ASSUME Inv, CopiesInv, NEW len \in Lengths, Send(len) PROVE CopiesInv'
<1>0. PICK n \in Nat : n = Len(sent) + 1
  BY DEF Inv, ShapeInv
<1>1. /\ sent' = Append(sent, len) /\ wire' = wire \cup Fragment(n, len)
      /\ pending' = pending /\ inbox' = inbox /\ copies' = copies
      /\ Len(sent) < MaxMessages
  BY <1>0 DEF Send
<1>2. /\ Len(sent') = n /\ sent'[n] = len
      /\ \A o \in 1 .. Len(sent) : sent'[o] = sent[o]
  BY <1>0, <1>1, Growth DEF Inv
<1>3. /\ Len(sent) \in Nat /\ n \notin 1 .. Len(sent) /\ copies \in Nat
      /\ \A o \in 1 .. n : o \in 1 .. Len(sent) \/ o = n
  BY <1>0 DEF Inv, ShapeInv
<1>4. \A o, i : Held(o, i)' <=> Held(o, i)
  BY <1>1 DEF Held, entry, IsPending
<1>5. \A o : Times(o)' = Times(o)
  BY <1>1 DEF Times
<1>6. \A f \in Fragment(n, len) : f.object = n
  BY Fields
<1>7. ASSUME NEW o \in 1 .. Len(sent), NEW i \in Ids(sent'[o])
      PROVE  /\ OnWire(o, i)' \/ Held(o, i)' => Times(o)' <= copies'
             /\ OnWire(o, i)' /\ Held(o, i)' => Times(o)' < copies'
  <2>1. OnWire(o, i)' => OnWire(o, i)
    BY <1>1, <1>3, <1>6 DEF OnWire
  <2>2. i \in Ids(sent[o])
    BY <1>2
  <2> QED BY <1>1, <1>4, <1>5, <2>1, <2>2 DEF CopiesInv
<1>8. Times(n) = 0 /\ \A i : ~Held(n, i)
  <2>1. {k \in 1 .. Len(inbox) : inbox[k].object = n} = {}
    BY <1>3 DEF Inv, InboxInv
  <2>2. n \in Messages
    BY <1>0, <1>1, <1>3, FragmentsAssumption DEF Messages
  <2>3. ~IsPending(n)
    BY <1>3, <2>2 DEF Inv, EntriesInv
  <2>4. DOMAIN entry(n).fragments = {}
    BY <2>3 DEF entry, NewEntry
  <2> QED BY <2>1, <2>4, FS_EmptySet DEF Times, Held
<1>9. ASSUME NEW i \in Ids(sent'[n])
      PROVE  /\ OnWire(n, i)' \/ Held(n, i)' => Times(n)' <= copies'
             /\ OnWire(n, i)' /\ Held(n, i)' => Times(n)' < copies'
  <2>1. Times(n)' <= copies'
    BY <1>1, <1>3, <1>5, <1>8
  <2> QED BY <1>4, <1>8, <2>1
<1>10. \A o \in 1 .. Len(sent') : o \in 1 .. Len(sent) \/ o = n
  BY <1>2, <1>3
<1> QED BY <1>7, <1>9, <1>10 DEF CopiesInv

\* What Add finds in the map for an object it does not touch stays.
LEMMA OtherEntries ==
    ASSUME Inv, NEW p \in Messages, NEW pm, pending' = [pending EXCEPT ![p] = pm]
    PROVE  /\ entry(p)' = IF pm = Absent THEN NewEntry ELSE pm
           /\ \A o \in Messages : o # p => entry(o)' = entry(o)
<1>1. DOMAIN pending = Messages
  BY DEF Inv, ShapeInv
<1>2. pending'[p] = pm /\ \A o \in Messages : o # p => pending'[o] = pending[o]
  BY <1>1
<1> QED BY <1>2 DEF entry, IsPending

\* A fragment that is stored passes from the network to the map.
LEMMA StoreCopies ==
    ASSUME Inv, CopiesInv, NEW f, NEW again \in BOOLEAN, Store(f, again) PROVE CopiesInv'
<1> DEFINE p == f.object
           pm == with(entry(p), f)
<1>1. /\ Take(f, again) /\ ~IsDuplicate(f)
      /\ pending' = [pending EXCEPT ![p] = pm] /\ inbox' = inbox
  BY DEF Store
<1>2. sent' = sent /\ f \in wire
  BY <1>1, TakeInv
<1>3. /\ p \in 1 .. Len(sent) /\ p \in Messages /\ sent[p] \in Lengths
      /\ f \in Fragment(p, sent[p])
  BY <1>2, FoundEntry
<1>4. /\ copies \in Nat /\ copies' \in Nat /\ copies <= copies'
      /\ \A o, i : OnWire(o, i)' => OnWire(o, i)
      /\ OnWire(p, f.id) /\ (copies < copies' \/ ~OnWire(p, f.id)')
  BY <1>1, TakeCopies
<1>5. DOMAIN pm.fragments = DOMAIN entry(p).fragments \cup {f.id}
  BY DEF with
<1>6. pm # Absent
  <2>1. pm.received = entry(p).received + 1 /\ entry(p).received \in Nat
    BY <1>2, <1>3, FoundEntry, Received DEF with
  <2>2. pm.received \in Nat /\ Absent.received = -1
    BY <2>1 DEF Absent
  <2> QED BY <2>2
<1>7. /\ entry(p)' = pm
      /\ \A o \in Messages : o # p => entry(o)' = entry(o)
  BY <1>1, <1>3, <1>6, OtherEntries
<1> HIDE DEF pm
<1>8. \A o \in Messages : \A i : (o # p \/ i # f.id) => (Held(o, i)' <=> Held(o, i))
  BY <1>5, <1>7 DEF Held
<1>9. \A o : Times(o)' = Times(o) /\ Times(o) \in Nat
  BY <1>1, TimesType DEF Times, Inv
<1> HIDE DEF p
<1>10. ASSUME NEW o \in 1 .. Len(sent), NEW i \in Ids(sent[o])
       PROVE  /\ OnWire(o, i)' \/ Held(o, i)' => Times(o)' <= copies'
              /\ OnWire(o, i)' /\ Held(o, i)' => Times(o)' < copies'
  <2>1. o \in Messages
    BY Sent DEF Inv
  <2>2. PICK t \in Nat : t = Times(o) /\ t = Times(o)'
    BY <1>9
  <2>3. /\ OnWire(o, i) \/ Held(o, i) => t <= copies
        /\ OnWire(o, i) /\ Held(o, i) => t < copies
    BY <2>2 DEF CopiesInv
  <2>4. CASE o = p /\ i = f.id
    <3>1. t <= copies
      BY <1>4, <2>3, <2>4
    <3>2. t <= copies' /\ (copies < copies' => t < copies')
      BY <1>4, <3>1
    <3>3. t <= copies' /\ (OnWire(o, i)' => t < copies')
      BY <1>4, <2>4, <3>2
    <3> QED BY <2>2, <3>3
  <2>5. CASE o # p \/ i # f.id
    <3>1. (Held(o, i)' <=> Held(o, i)) /\ (OnWire(o, i)' => OnWire(o, i))
      BY <1>4, <1>8, <2>1, <2>5
    <3>2. (t <= copies => t <= copies') /\ (t < copies => t < copies')
      BY <1>4
    <3> QED BY <2>2, <2>3, <3>1, <3>2
  <2> QED BY <2>4, <2>5
<1> QED BY <1>2, <1>10 DEF CopiesInv

\* The step that completes a message uses up one copy of every fragment.
LEMMA DeliverCopies ==
    ASSUME Inv, CopiesInv, NEW f, NEW again \in BOOLEAN, Deliver(f, again)
    PROVE  CopiesInv' /\ Times(f.object) <= copies
<1> DEFINE p == f.object
           pm == with(entry(p), f)
           m == [object |-> p, data |-> MessageOf(p, sent[p])]
<1>1. /\ Take(f, again) /\ ~IsDuplicate(f) /\ Complete(pm)
      /\ pending' = [pending EXCEPT ![p] = Absent]
  BY DEF Deliver
<1>2. sent' = sent /\ f \in wire /\ inbox' = Append(inbox, m)
  BY <1>1, TakeInv, DeliverInv
<1>3. /\ p \in 1 .. Len(sent) /\ p \in Messages /\ sent[p] \in Lengths
      /\ f \in Fragment(p, sent[p]) /\ EntryFor(p, sent[p], entry(p))
  BY <1>2, FoundEntry
<1>4. /\ copies \in Nat /\ copies' \in Nat /\ copies <= copies'
      /\ \A o, i : OnWire(o, i)' => OnWire(o, i)
      /\ OnWire(p, f.id) /\ (copies < copies' \/ ~OnWire(p, f.id)')
  BY <1>1, TakeCopies
<1>5. Ids(sent[p]) = DOMAIN entry(p).fragments \cup {f.id}
  BY <1>1, <1>3, AddToEntry DEF IsDuplicate
<1>6. /\ entry(p)' = NewEntry /\ \A o \in Messages : o # p => entry(o)' = entry(o)
  BY <1>1, <1>3, OtherEntries
<1>7. \A i : ~Held(p, i)'
  BY <1>6 DEF Held, NewEntry
<1>8. \A o \in Messages : \A i : o # p => (Held(o, i)' <=> Held(o, i))
  BY <1>6 DEF Held
<1>9. m \in Received_ /\ m.object = p
  <2>1. MessageOf(p, sent[p]) \in Seq(Slices(p))
    BY <1>3, MessageShape
  <2>2. Slices(p) \subseteq AllSlices
    BY <1>3 DEF Slices, AllSlices
  <2>3. MessageOf(p, sent[p]) \in Seq(AllSlices)
    BY <2>1, <2>2
  <2> QED BY <1>3, <2>3 DEF Received_
<1> HIDE DEF pm, m
<1>10. \A o : Times(o)' = (IF o = p THEN Times(o) + 1 ELSE Times(o)) /\ Times(o) \in Nat
  BY <1>2, <1>9, TimesAppend, TimesType DEF Inv
<1>11. f.id \in Ids(sent[p]) /\ Times(p) <= copies
  BY <1>3, <1>4, <1>5 DEF CopiesInv
<1> HIDE DEF p
<1>12. ASSUME NEW o \in 1 .. Len(sent), NEW i \in Ids(sent[o])
       PROVE  /\ OnWire(o, i)' \/ Held(o, i)' => Times(o)' <= copies'
              /\ OnWire(o, i)' /\ Held(o, i)' => Times(o)' < copies'
  <2>1. o \in Messages
    BY Sent DEF Inv
  <2>2. PICK t \in Nat : t = Times(o) /\ Times(o)' = IF o = p THEN t + 1 ELSE t
    BY <1>10
  <2>3. /\ OnWire(o, i) \/ Held(o, i) => t <= copies
        /\ OnWire(o, i) /\ Held(o, i) => t < copies
    BY <2>2 DEF CopiesInv
  <2>4. CASE o # p
    <3>1. (Held(o, i)' <=> Held(o, i)) /\ (OnWire(o, i)' => OnWire(o, i))
      BY <1>4, <1>8, <2>1, <2>4
    <3>2. (t <= copies => t <= copies') /\ (t < copies => t < copies')
      BY <1>4
    <3> QED BY <2>2, <2>3, <2>4, <3>1, <3>2
  <2>5. CASE o = p
    <3>1. ~Held(o, i)' /\ Times(o)' = t + 1
      BY <1>7, <2>2, <2>5
    <3>2. i = f.id \/ Held(o, i)
      BY <1>5, <2>5 DEF Held
    <3>3. ASSUME OnWire(o, i)' PROVE t + 1 <= copies'
      <4>1. CASE i = f.id
        <5>1. copies < copies' /\ t <= copies
          BY <1>4, <1>11, <2>2, <2>5, <3>3, <4>1
        <5> QED BY <1>4, <5>1
      <4>2. CASE Held(o, i)
        <5>1. t < copies
          BY <1>4, <2>3, <3>3, <4>2
        <5> QED BY <1>4, <5>1
      <4> QED BY <3>2, <4>1, <4>2
    <3> QED BY <3>1, <3>3
  <2> QED BY <2>4, <2>5
<1> QED BY <1>2, <1>11, <1>12 DEF CopiesInv, p

\* A fragment that is refused is lost, and with it perhaps an entry.
LEMMA RefuseCopies ==
    ASSUME Inv, CopiesInv, NEW f, NEW again \in BOOLEAN,
           RefusePending(f, again) \/ RefuseFragments(f, again) \/ RefuseDuplicate(f, again)
    PROVE  CopiesInv'
<1>1. /\ Take(f, again) /\ inbox' = inbox
      /\ pending' = pending \/ pending' = [pending EXCEPT ![f.object] = Absent]
  BY DEF RefusePending, RefuseFragments, RefuseDuplicate
<1>2. sent' = sent /\ f \in wire /\ f.object \in Messages
  BY <1>1, TakeInv, FoundEntry
<1>3. /\ copies \in Nat /\ copies' \in Nat /\ copies <= copies'
      /\ \A o, i : OnWire(o, i)' => OnWire(o, i)
  BY <1>1, TakeCopies
<1>4. \A o \in Messages : \A i : Held(o, i)' => Held(o, i)
  <2>1. CASE pending' = pending
    BY <2>1 DEF Held, entry, IsPending
  <2>2. CASE pending' = [pending EXCEPT ![f.object] = Absent]
    <3>1. /\ entry(f.object)' = NewEntry
          /\ \A o \in Messages : o # f.object => entry(o)' = entry(o)
      BY <1>2, <2>2, OtherEntries
    <3> QED BY <3>1 DEF Held, NewEntry
  <2> QED BY <1>1, <2>1, <2>2
<1>5. \A o : Times(o)' = Times(o) /\ Times(o) \in Nat
  BY <1>1, TimesType DEF Times, Inv
<1>6. ASSUME NEW o \in 1 .. Len(sent), NEW i \in Ids(sent[o])
      PROVE  /\ OnWire(o, i)' \/ Held(o, i)' => Times(o)' <= copies'
             /\ OnWire(o, i)' /\ Held(o, i)' => Times(o)' < copies'
  <2>1. o \in Messages
    BY Sent DEF Inv
  <2>2. PICK t \in Nat : t = Times(o) /\ t = Times(o)'
    BY <1>5
  <2>3. /\ OnWire(o, i) \/ Held(o, i) => t <= copies
        /\ OnWire(o, i) /\ Held(o, i) => t < copies
    BY <2>2 DEF CopiesInv
  <2>4. (t <= copies => t <= copies') /\ (t < copies => t < copies')
    BY <1>3
  <2>5. (Held(o, i)' => Held(o, i)) /\ (OnWire(o, i)' => OnWire(o, i))
    BY <1>3, <1>4, <2>1
  <2> QED BY <2>2, <2>3, <2>4, <2>5
<1> QED BY <1>2, <1>6 DEF CopiesInv

\* Every step keeps the balance.
LEMMA StepCopies == Inv /\ CopiesInv /\ [Next]_vars => CopiesInv'
<1> SUFFICES ASSUME Inv, CopiesInv, [Next]_vars PROVE CopiesInv'
  OBVIOUS
<1>1. ASSUME NEW len \in Lengths, Send(len) PROVE CopiesInv'
  BY <1>1, SendCopies
<1>2. ASSUME NEW f \in wire, NEW again \in BOOLEAN, Add(f, again) PROVE CopiesInv'
  BY <1>2, StoreCopies, DeliverCopies, RefuseCopies DEF Add
<1>3. CASE UNCHANGED vars
  BY <1>3 DEF vars, CopiesInv, OnWire, Held, Times, entry, IsPending
<1> QED BY <1>1, <1>2, <1>3 DEF Next

LEMMA InitCopies == Init => CopiesInv
BY DEF Init, CopiesInv

LEMMA CopiesInvariant == Spec => []CopiesInv
<1>1. Inv /\ CopiesInv /\ [Next]_vars => CopiesInv'
  BY StepCopies
<1> QED BY <1>1, InitCopies, Invariant, PTL DEF Spec

-----------------------------------------------------------------------------
(* Limits.                                                                  *)

PendingObjects == {o \in Messages : IsPending(o)}

\* The entries of the map are of messages that were sent, so they are no more
\* than those.
LEMMA PendingFinite ==
    ASSUME Inv
    PROVE  /\ IsFiniteSet(PendingObjects) /\ Cardinality(PendingObjects) \in Nat
           /\ PendingObjects \subseteq 1 .. Len(sent)
           /\ Len(sent) \in Nat /\ IsFiniteSet(1 .. Len(sent))
           /\ Cardinality(1 .. Len(sent)) = Len(sent)
<1>1. Len(sent) \in Nat
  BY DEF Inv, ShapeInv
<1>2. IsFiniteSet(1 .. Len(sent)) /\ Cardinality(1 .. Len(sent)) = Len(sent)
  <2>1. PICK n \in Nat : n = Len(sent)
    BY <1>1
  <2>2. /\ IsFiniteSet(1 .. n)
        /\ Cardinality(1 .. n) = IF 1 > n THEN 0 ELSE n - 1 + 1
    BY FS_Interval
  <2>3. Cardinality(1 .. n) = n
    BY <2>2
  <2> QED BY <2>1, <2>2, <2>3
<1>3. PendingObjects \in SUBSET (1 .. Len(sent))
  BY DEF PendingObjects, Inv, EntriesInv
<1>4. IsFiniteSet(PendingObjects)
  BY <1>2, <1>3, FS_Subset
<1>5. Cardinality(PendingObjects) \in Nat
  BY <1>4, FS_CardinalityType
<1> QED BY <1>1, <1>2, <1>3, <1>4, <1>5

\* When the map is full and a fragment of another message comes, more messages
\* were sent than the map may hold.
LEMMA PendingForCause ==
    ASSUME Inv, NEW f \in wire, TooManyPending(f)
    PROVE  Len(sent) > MaxPending
<1>1. f.object \notin PendingObjects /\ Cardinality(PendingObjects) >= MaxPending
  BY DEF TooManyPending, PendingObjects
<1>2. f.object \in 1 .. Len(sent)
  BY FoundEntry
<1>3. PendingObjects \cup {f.object} \in SUBSET (1 .. Len(sent))
  BY <1>2, PendingFinite
<1>4. Cardinality(PendingObjects \cup {f.object}) = Cardinality(PendingObjects) + 1
  BY <1>1, PendingFinite, FS_AddElement
<1>5. Cardinality(PendingObjects \cup {f.object}) <= Len(sent)
  BY <1>3, PendingFinite, FS_Subset
<1>6. PICK c \in Nat : c = Cardinality(PendingObjects)
  BY PendingFinite
<1>7. c + 1 <= Len(sent) /\ c >= MaxPending /\ MaxPending \in Nat /\ Len(sent) \in Nat
  BY <1>1, <1>4, <1>5, <1>6, PendingFinite, FragmentsAssumption
<1> QED BY <1>7

\* The parts of LimitsAreExact: why Add gave up ...
ForCause ==
    /\ failure = "pending" => Len(sent) > MaxPending
    /\ failure = "fragments" => \E o \in 1 .. Len(sent) : numFragments(sent[o]) > MaxFragments
    /\ failure = "duplicate" => copies > 0

\* ... and how much the Assembler keeps.
Bounded ==
    /\ Cardinality(PendingObjects) <= MaxPending
    /\ \A o \in Messages : IsPending(o) =>
          Cardinality(DOMAIN pending[o].fragments) <= MaxFragments

\* The cause of a failure does not go away.
LEMMA CauseStays ==
    ASSUME Inv, ForCause, failure' = failure, copies' \in Nat, copies <= copies',
           sent' = sent \/ \E len \in Lengths : sent' = Append(sent, len)
    PROVE  ForCause'
<1>1. /\ Len(sent) \in Nat /\ Len(sent') \in Nat /\ Len(sent) <= Len(sent')
      /\ \A o \in 1 .. Len(sent) : o \in 1 .. Len(sent') /\ sent'[o] = sent[o]
  <2>1. CASE sent' = sent
    BY <2>1 DEF Inv, ShapeInv
  <2>2. ASSUME NEW len \in Lengths, sent' = Append(sent, len)
        PROVE  /\ Len(sent) \in Nat /\ Len(sent') \in Nat /\ Len(sent) <= Len(sent')
               /\ \A o \in 1 .. Len(sent) : o \in 1 .. Len(sent') /\ sent'[o] = sent[o]
    BY <2>2, Growth DEF Inv, ShapeInv
  <2> QED BY <2>1, <2>2
<1>2. failure' = "pending" => Len(sent') > MaxPending
  BY <1>1, FragmentsAssumption DEF ForCause
<1>3. failure' = "fragments" => \E o \in 1 .. Len(sent') : numFragments(sent'[o]) > MaxFragments
  BY <1>1 DEF ForCause
<1>4. failure' = "duplicate" => copies' > 0
  BY DEF ForCause, Inv, ShapeInv
<1> QED BY <1>2, <1>3, <1>4 DEF ForCause

\* A map that loses an entry, or none, stays within its limits.
LEMMA BoundedRemove ==
    ASSUME Inv, Bounded,
           pending' = pending \/ \E p \in Messages : pending' = [pending EXCEPT ![p] = Absent]
    PROVE  Bounded'
<1>1. \A o \in Messages : IsPending(o)' => IsPending(o) /\ pending'[o] = pending[o]
  BY DEF IsPending, Inv, ShapeInv
<1>2. PendingObjects' \in SUBSET PendingObjects
  BY <1>1 DEF PendingObjects
<1>3. /\ Cardinality(PendingObjects') <= Cardinality(PendingObjects)
      /\ IsFiniteSet(PendingObjects')
  BY <1>2, PendingFinite, FS_Subset
<1>4. Cardinality(PendingObjects') \in Nat /\ Cardinality(PendingObjects) \in Nat
  BY <1>3, PendingFinite, FS_CardinalityType
<1>5. Cardinality(PendingObjects') <= MaxPending
  BY <1>3, <1>4, FragmentsAssumption DEF Bounded
<1> QED BY <1>1, <1>5 DEF Bounded

\* A fragment that is stored finds room for itself and for its entry.
LEMMA BoundedStore ==
    ASSUME Inv, Bounded, NEW f, NEW again \in BOOLEAN, Store(f, again) PROVE Bounded'
<1> DEFINE p == f.object
           pm == with(entry(p), f)
<1>1. /\ Take(f, again) /\ ~TooManyPending(f) /\ ~TooManyFragments(f) /\ ~IsDuplicate(f)
      /\ pending' = [pending EXCEPT ![p] = pm]
  BY DEF Store
<1>2. f \in wire
  BY <1>1 DEF Take
<1>3. /\ p \in Messages /\ sent[p] \in Lengths /\ f \in Fragment(p, sent[p])
      /\ EntryFor(p, sent[p], entry(p))
  BY <1>2, FoundEntry
<1>4. /\ EntryFor(p, sent[p], pm) /\ entry(p).received \in Nat
      /\ pm.received = entry(p).received + 1
  <2>1. f.id \notin DOMAIN entry(p).fragments
    BY <1>1 DEF IsDuplicate
  <2>2. EntryFor(p, sent[p], pm)
    BY <1>3, <2>1, AddToEntry
  <2>3. entry(p).received \in Nat
    BY <1>3, Received
  <2>4. pm.received = entry(p).received + 1
    BY DEF with
  <2> QED BY <2>2, <2>3, <2>4
<1>5. Cardinality(DOMAIN pm.fragments) <= MaxFragments
  <2>1. Cardinality(DOMAIN pm.fragments) = pm.received
    BY <1>4 DEF EntryFor
  <2>2. PICK c \in Nat : c = entry(p).received
    BY <1>4
  <2>3. ~(c >= MaxFragments) /\ MaxFragments \in Nat
    BY <1>1, <2>2, FragmentsAssumption DEF TooManyFragments
  <2>4. c + 1 <= MaxFragments
    BY <2>3
  <2> QED BY <1>4, <2>1, <2>2, <2>4
<1> HIDE DEF pm
<1>6. /\ pending'[p] = pm /\ \A o \in Messages : o # p => pending'[o] = pending[o]
  BY <1>1, <1>3 DEF Inv, ShapeInv
<1>7. \A o \in Messages : IsPending(o)' =>
          Cardinality(DOMAIN pending'[o].fragments) <= MaxFragments
  BY <1>5, <1>6 DEF Bounded, IsPending
<1>8. PendingObjects' \subseteq PendingObjects \cup {p}
  BY <1>6 DEF PendingObjects, IsPending
<1>9. Cardinality(PendingObjects') <= MaxPending
  <2>1. CASE p \in PendingObjects
    <3>1. PendingObjects' \in SUBSET PendingObjects
      BY <1>8, <2>1
    <3>2. IsFiniteSet(PendingObjects') /\ Cardinality(PendingObjects') <= Cardinality(PendingObjects)
      BY <3>1, PendingFinite, FS_Subset
    <3>3. Cardinality(PendingObjects') \in Nat /\ Cardinality(PendingObjects) \in Nat
      BY <3>2, PendingFinite, FS_CardinalityType
    <3> QED BY <3>2, <3>3, FragmentsAssumption DEF Bounded
  <2>2. CASE p \notin PendingObjects
    <3>1. ~(Cardinality(PendingObjects) >= MaxPending)
      BY <1>1, <1>3, <2>2 DEF TooManyPending, PendingObjects
    <3>2. /\ IsFiniteSet(PendingObjects \cup {p})
          /\ Cardinality(PendingObjects \cup {p}) = Cardinality(PendingObjects) + 1
      BY <2>2, PendingFinite, FS_AddElement
    <3>3. PendingObjects' \in SUBSET (PendingObjects \cup {p})
      BY <1>8
    <3>4. /\ IsFiniteSet(PendingObjects')
          /\ Cardinality(PendingObjects') <= Cardinality(PendingObjects \cup {p})
      BY <3>2, <3>3, FS_Subset
    <3>5. PICK c \in Nat, d \in Nat : c = Cardinality(PendingObjects) /\ d = Cardinality(PendingObjects')
      BY <3>4, PendingFinite, FS_CardinalityType
    <3>6. ~(c >= MaxPending) /\ d <= c + 1 /\ MaxPending \in Nat
      BY <3>1, <3>2, <3>4, <3>5, FragmentsAssumption
    <3>7. d <= MaxPending
      BY <3>6
    <3> QED BY <3>5, <3>7
  <2> QED BY <2>1, <2>2
<1> QED BY <1>7, <1>9 DEF Bounded

\* Every step keeps both.
LEMMA StepLimits ==
    ASSUME Inv, CopiesInv, ForCause, Bounded, [Next]_vars PROVE ForCause' /\ Bounded'
<1>1. ASSUME NEW len \in Lengths, Send(len) PROVE ForCause' /\ Bounded'
  <2>1. /\ sent' = Append(sent, len) /\ copies' = copies /\ copies \in Nat
        /\ pending' = pending /\ failure' = failure
    BY <1>1 DEF Send, Inv, ShapeInv
  <2>2. copies' \in Nat /\ copies <= copies'
    BY <2>1
  <2> QED BY <2>1, <2>2, CauseStays, BoundedRemove
<1>2. ASSUME NEW f \in wire, NEW again \in BOOLEAN, Add(f, again) PROVE ForCause' /\ Bounded'
  <2>0. /\ f.object \in 1 .. Len(sent) /\ f.object \in Messages
        /\ sent[f.object] \in Lengths
        /\ f \in Fragment(f.object, sent[f.object])
        /\ EntryFor(f.object, sent[f.object], entry(f.object))
        /\ entry(f.object).received < numFragments(sent[f.object])
    BY FoundEntry
  <2>t. ASSUME Take(f, again) PROVE sent' = sent /\ copies' \in Nat /\ copies <= copies' /\ copies \in Nat
    BY <2>t, TakeInv, TakeCopies
  <2>1. CASE Store(f, again)
    <3>1. ForCause'
      BY <2>1, <2>t, CauseStays DEF Store
    <3> QED BY <3>1, <2>1, BoundedStore
  <2>2. CASE Deliver(f, again)
    <3>1. Take(f, again) /\ failure' = failure /\ pending' = [pending EXCEPT ![f.object] = Absent]
      BY <2>2 DEF Deliver
    <3> QED BY <3>1, <2>0, <2>t, CauseStays, BoundedRemove
  <2>3. CASE RefusePending(f, again)
    <3>1. /\ TooManyPending(f) /\ Take(f, again) /\ failure' = "pending" /\ pending' = pending
      BY <2>3 DEF RefusePending
    <3>2. Len(sent) > MaxPending /\ sent' = sent
      BY <3>1, <2>t, PendingForCause
    <3>3. ForCause'
      BY <3>1, <3>2 DEF ForCause
    <3> QED BY <3>1, <3>3, BoundedRemove
  <2>4. CASE RefuseFragments(f, again)
    <3>1. /\ TooManyFragments(f) /\ Take(f, again) /\ failure' = "fragments"
          /\ pending' = [pending EXCEPT ![f.object] = Absent]
      BY <2>4 DEF RefuseFragments
    <3>2. PICK n \in Nat, r \in Nat : n = numFragments(sent[f.object]) /\ r = entry(f.object).received
      BY <2>0, Count, Received
    <3>3. n > r /\ r >= MaxFragments /\ MaxFragments \in Nat
      BY <2>0, <3>1, <3>2, FragmentsAssumption DEF TooManyFragments
    <3>4. n > MaxFragments
      BY <3>3
    <3>5. numFragments(sent[f.object]) > MaxFragments
      BY <3>2, <3>4
    <3>6. ForCause'
      BY <2>0, <2>t, <3>1, <3>5 DEF ForCause
    <3> QED BY <2>0, <3>1, <3>6, BoundedRemove
  <2>5. CASE RefuseDuplicate(f, again)
    <3>1. /\ IsDuplicate(f) /\ Take(f, again) /\ failure' = "duplicate" /\ pending' = pending
      BY <2>5 DEF RefuseDuplicate
    <3>2. OnWire(f.object, f.id) /\ Held(f.object, f.id) /\ f.id \in Ids(sent[f.object])
      BY <2>0, <3>1, Fields DEF OnWire, Held, IsDuplicate
    <3>3. Times(f.object) < copies
      BY <2>0, <3>2 DEF CopiesInv
    <3>4. PICK t \in Nat : t = Times(f.object)
      BY TimesType DEF Inv
    <3>5. copies' > 0
      BY <2>t, <3>1, <3>3, <3>4
    <3>6. ForCause'
      BY <3>1, <3>5 DEF ForCause
    <3> QED BY <3>1, <3>6, BoundedRemove
  <2> QED BY <1>2, <2>1, <2>2, <2>3, <2>4, <2>5 DEF Add
<1>3. CASE UNCHANGED vars
  <2>1. copies' \in Nat /\ copies <= copies' /\ sent' = sent /\ failure' = failure /\ pending' = pending
    BY <1>3 DEF vars, Inv, ShapeInv
  <2> QED BY <2>1, CauseStays, BoundedRemove
<1> QED BY <1>1, <1>2, <1>3 DEF Next

\* Add gives up for cause only, and the memory of the Assembler stays within
\* its limits, whatever the limits, the sizes and the order of arrival.
THEOREM LimitsExact == Spec => []LimitsAreExact
<1> DEFINE L == ForCause /\ Bounded
<1>1. Init => L
  <2> SUFFICES ASSUME Init PROVE L
    OBVIOUS
  <2>1. failure = "none" /\ \A o \in Messages : ~IsPending(o)
    BY DEF Init, IsPending
  <2>2. PendingObjects = {}
    BY <2>1 DEF PendingObjects
  <2>3. Cardinality(PendingObjects) <= MaxPending
    BY <2>2, FS_EmptySet, FragmentsAssumption
  <2> QED BY <2>1, <2>3 DEF ForCause, Bounded
<1>2. Inv /\ CopiesInv /\ L /\ [Next]_vars => L'
  BY StepLimits
<1>3. L => LimitsAreExact
  BY DEF ForCause, Bounded, LimitsAreExact, PendingObjects
<1> HIDE DEF L
<1> QED BY <1>1, <1>2, <1>3, Invariant, CopiesInvariant, PTL DEF Spec

-----------------------------------------------------------------------------
(* Refinement of MessageDelivery.                                           *)

\* The inbox of MessageDelivery, as DeliversMessages names it, and what it is.
Arrived == [k \in 1 .. Len(inbox) |->
                IF Whole(inbox[k].object, inbox[k].data) THEN inbox[k].object ELSE 0]

Objects == [k \in 1 .. Len(inbox) |-> inbox[k].object]

\* Every message that arrived is whole and so named by its object.
LEMMA ArrivedObjects == Inv => Arrived = Objects
<1> SUFFICES ASSUME Inv PROVE Arrived = Objects
  OBVIOUS
<1>1. \A k \in 1 .. Len(inbox) : Whole(inbox[k].object, inbox[k].data)
  BY InboxWhole DEF Intact
<1> QED BY <1>1 DEF Arrived, Objects

\* So is every message after a step.
LEMMA ArrivedObjectsNext == (Inv => Arrived = Objects)'
BY ArrivedObjects, PTL

\* The abstract inbox counts what the receiver's does.
LEMMA DeliveriesAreTimes ==
    ASSUME Inv, NEW o PROVE Delivery!Deliveries(o) = Times(o)
<1>1. Len(inbox) \in Nat
  BY DEF Inv, ShapeInv
<1>2. Len(Arrived) = Len(inbox) /\ \A k \in 1 .. Len(inbox) : Arrived[k] = inbox[k].object
  BY <1>1, ArrivedObjects DEF Objects
<1>3. {k \in 1 .. Len(Arrived) : Arrived[k] = o} = {k \in 1 .. Len(inbox) : inbox[k].object = o}
  BY <1>2
<1>4. Delivery!Deliveries(o) = Cardinality({k \in 1 .. Len(Arrived) : Arrived[k] = o})
  BY DEF Delivery!Deliveries, Arrived, Delivery!Cardinality, Cardinality
<1> QED BY <1>3, <1>4 DEF Times

\* A message that arrives is appended to the abstract inbox.
LEMMA ObjectsAppend ==
    ASSUME ShapeInv, NEW m \in Received_, inbox' = Append(inbox, m)
    PROVE  Objects' = Append(Objects, m.object)
<1> DEFINE n == Len(inbox)
<1>1. inbox \in Seq(Received_) /\ n \in Nat
  BY DEF ShapeInv
<1>2. /\ Len(inbox') = n + 1 /\ inbox'[n + 1] = m
      /\ \A k \in 1 .. n : inbox'[k] = inbox[k]
  BY <1>1, AppendProperties
<1>3. Objects' = [k \in 1 .. n + 1 |-> inbox'[k].object]
  BY <1>2 DEF Objects
<1>4. Len(Objects) = n /\ Objects \in [1 .. n -> {inbox[k].object : k \in 1 .. n}]
  BY <1>1 DEF Objects
<1>5. Append(Objects, m.object) = [k \in 1 .. n + 1 |-> IF k = n + 1 THEN m.object ELSE Objects[k]]
  BY <1>1, <1>4
<1>6. \A k \in 1 .. n + 1 : k \in 1 .. n \/ k = n + 1
  BY <1>1
<1>7. \A k \in 1 .. n + 1 : inbox'[k].object = IF k = n + 1 THEN m.object ELSE Objects[k]
  BY <1>2, <1>6 DEF Objects
<1> HIDE DEF n
<1> QED BY <1>3, <1>5, <1>7

\* Every step of the Fragmenter and the Assembler is a step of MessageDelivery,
\* or none.
LEMMA StepDelivery ==
    ASSUME Inv, Inv', CopiesInv, [Next]_vars
    PROVE  [Delivery!Next]_<<Len(sent), copies, Arrived>>
<1>a. Arrived = Objects /\ Arrived' = Objects'
  <2>1. Arrived = Objects
    BY ArrivedObjects
  <2>2. Arrived' = Objects'
    BY ArrivedObjectsNext
  <2> QED BY <2>1, <2>2
<1>b. inbox' = inbox => Arrived' = Arrived
  BY <1>a DEF Objects
<1>1. ASSUME NEW len \in Lengths, Send(len) PROVE Delivery!Send
  <2>1. Len(sent') = Len(sent) + 1 /\ copies' = copies /\ inbox' = inbox
    BY <1>1, Growth DEF Send, Inv
  <2>2. Arrived' = Arrived
    BY <1>b, <2>1
  <2> QED BY <2>1, <2>2 DEF Delivery!Send, Arrived
<1>2. ASSUME NEW f \in wire, NEW again \in BOOLEAN, Add(f, again)
      PROVE  [Delivery!Next]_<<Len(sent), copies, Arrived>>
  <2>t. ASSUME Take(f, again) PROVE sent' = sent /\ copies' \in {copies, copies + 1}
    BY <2>t DEF Take, Inv, ShapeInv
  <2>1. CASE Deliver(f, again)
    <3> DEFINE m == [object |-> f.object, data |-> MessageOf(f.object, sent[f.object])]
    <3>1. sent' = sent /\ copies' \in {copies, copies + 1}
      BY <2>1, <2>t DEF Deliver
    <3>2. f.object \in 1 .. Len(sent) /\ f.object \in Messages /\ sent[f.object] \in Lengths
      BY FoundEntry
    <3>3. inbox' = Append(inbox, m)
      BY <2>1, DeliverInv
    <3>4. m \in Received_ /\ m.object = f.object
      <4>1. MessageOf(f.object, sent[f.object]) \in Seq(Slices(f.object))
        BY <3>2, MessageShape
      <4>2. Slices(f.object) \subseteq AllSlices
        BY <3>2 DEF Slices, AllSlices
      <4>3. MessageOf(f.object, sent[f.object]) \in Seq(AllSlices)
        BY <4>1, <4>2
      <4> QED BY <3>2, <4>3 DEF Received_
    <3> HIDE DEF m
    <3>5. Arrived' = Append(Arrived, f.object)
      BY <1>a, <3>3, <3>4, ObjectsAppend DEF Inv
    <3>6. Delivery!Deliveries(f.object) <= copies
      BY <2>1, DeliverCopies, DeliveriesAreTimes
    <3>7. Delivery!Deliver(f.object)
      BY <3>1, <3>5, <3>6 DEF Delivery!Deliver, Arrived
    <3> QED BY <3>2, <3>7 DEF Delivery!Next
  <2>2. CASE ~Deliver(f, again)
    <3>1. Take(f, again) /\ inbox' = inbox
      BY <1>2, <2>2 DEF Add, Store, RefusePending, RefuseFragments, RefuseDuplicate
    <3>2. sent' = sent /\ copies' \in {copies, copies + 1} /\ Arrived' = Arrived
      BY <1>b, <2>t, <3>1
    <3>3. CASE copies' = copies
      BY <3>2, <3>3
    <3>4. CASE copies' = copies + 1
      <4>1. Delivery!Duplicate
        BY <3>2, <3>4 DEF Delivery!Duplicate, Arrived
      <4> QED BY <4>1 DEF Delivery!Next
    <3> QED BY <3>2, <3>3, <3>4
  <2> QED BY <2>1, <2>2
<1>3. CASE UNCHANGED vars
  BY <1>3, <1>b DEF vars
<1> QED BY <1>1, <1>2, <1>3 DEF Next, Delivery!Next

\* Fragmenter and Assembler together keep the promise of MessageDelivery: what
\* was sent arrives as it was sent, and again at most once for every copy the
\* network made.
THEOREM DeliveryCorrect == Spec => DeliversMessages
<1>1. Init => Delivery!Init
  <2> SUFFICES ASSUME Init PROVE Delivery!Init
    OBVIOUS
  <2>1. Len(sent) = 0 /\ copies = 0 /\ Len(inbox) = 0
    BY DEF Init
  <2>2. Arrived = <<>>
    BY <2>1 DEF Arrived
  <2> QED BY <2>1, <2>2 DEF Delivery!Init, Arrived
<1>2. Inv /\ Inv' /\ CopiesInv /\ [Next]_vars => [Delivery!Next]_<<Len(sent), copies, Arrived>>
  BY StepDelivery
<1>3. Spec => Delivery!Init /\ [][Delivery!Next]_<<Len(sent), copies, Arrived>>
  BY <1>1, <1>2, Invariant, CopiesInvariant, PTL DEF Spec
<1> QED BY <1>3, PTL DEF DeliversMessages, Delivery!Spec, Arrived

=============================================================================
