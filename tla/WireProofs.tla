----------------------------- MODULE WireProofs -----------------------------
(* Theorems about Wire for every number of senders, every length of a       *)
(* message, every size of a header and a blob and every capacity.           *)
EXTENDS Wire, FiniteSetTheorems, TLAPS

USE DEF vars, sending, server, reading

-----------------------------------------------------------------------------
(* sendMessage: who holds p.mu and how far the senders are.                 *)

Packets == [kind : {"Data"}, from : Senders, n : Nat, id : Nat]
           \cup [kind : {"Command"}, from : Senders]

\* p.mu is held by the sender that is inside the loop of sendMessage, over all
\* of its fragments, and a sender's counter keeps within its message.
LockInv ==
    /\ transport \in {"adapter", "plain"}
    /\ mu \in Senders \cup {Nobody}
    /\ pc \in [Senders -> {"command", "announce", "lock", "send", "write", "ok", "error"}]
    /\ sent \in [Senders -> Nat] /\ id \in [Senders -> Nat] /\ lastID \in Nat
    /\ wire \in Seq(Packets)
    /\ \A s \in Senders :
        /\ pc[s] \in {"send", "write"} <=> mu = s
        /\ pc[s] \in {"command", "announce", "lock"} => sent[s] = 0
        /\ pc[s] = "send" => sent[s] <= Length[s]
        /\ pc[s] \in {"write", "error"} => sent[s] < Length[s]
        /\ pc[s] = "ok" => sent[s] = Length[s]

\* The data packet last on the wire, if any, is the last fragment of the
\* message being sent, or of one before it with a smaller object ID.
TurnInv ==
    /\ MessagesInTurn
    /\ \A i \in DOMAIN wire : IsData(wire[i]) => wire[i].id <= lastID
    /\ \A s \in Senders : mu = s =>
        /\ id[s] = lastID
        /\ sent[s] = 0 => \A i \in DOMAIN wire : IsData(wire[i]) => wire[i].id < id[s]
        /\ sent[s] # 0 =>
              \E i \in DOMAIN wire :
                  /\ IsData(wire[i]) /\ wire[i].from = s
                  /\ wire[i].id = id[s] /\ wire[i].n = sent[s]
                  /\ \A k \in (i + 1) .. Len(wire) : ~IsData(wire[k])
    /\ transport = "adapter" =>
          \A s \in Creators : pc[s] \in {"lock", "send", "write"} =>
              \E j \in DOMAIN wire : wire[j] = Command(s)

\* What the pool has read of the present fragment, as long as no transient error
\* struck inside one.
FrameInv ==
    /\ transport \in {"adapter", "plain"}
    /\ stored \in Nat /\ taken \in Nat /\ start \in Nat /\ blob \in Nat
    /\ made \in [ServerKinds -> Nat]
    /\ taken <= stored
    /\ transport = "adapter" => stored % Size = 0 /\ ~slipped
    /\ dispatch \in {"top", "deliver"} => taken = start
    /\ dispatch = "header" => start <= taken /\ taken < start + HeaderSize
    /\ dispatch = "blob" => start + HeaderSize <= taken /\ taken <= start + HeaderSize + blob
    /\ ~slipped => /\ Aligned
                   /\ dispatch = "blob" => blob = BlobSize /\ taken < start + Size
    /\ transport = "plain" /\ (dispatch = "fail" \/ state = "Broken") => slipped \/ down

-----------------------------------------------------------------------------
(* What a step leaves alone.                                                *)

\* The steps that are no sender's.
OtherStep ==
    \/ ServerRead \/ ServerWrites \/ Break
    \/ \E kind \in ServerKinds : ServerMakes(kind)
    \/ ReadLoopStep \/ LoopFail
    \/ DispatchStep \/ Timeout \/ Idle \/ Lost

\* Neither the server nor readLoop nor the dispatch loop writes data packets or
\* holds p.mu across a step.
LEMMA OthersSendNothing ==
    OtherStep => UNCHANGED <<transport, mu, pc, sent, id, lastID, wire>>
BY DEF OtherStep, ServerRead, ServerWrites, Break, ServerMakes, ReadLoopStep, LoopReceive,
       LoopAcquire, LoopAnswer, LoopFail, DispatchStep, LoopTop, ReadBytes, ReadNothing,
       Deliver, BreakPool, Timeout, Idle, Lost, Transient, Fatal

\* A sender does not touch what the pool reads.
LEMMA SendersReadNothing ==
    ASSUME NEW s \in Senders, SenderStep(s) \/ ContextDone(s)
    PROVE  UNCHANGED <<transport, down, server, inbound, loop, stored, reading>>
BY DEF SenderStep, Lock, Acquire, Finish, WriteCommand, WriteFragment, WriteFails,
       ContextDone

\* A step is a sender's, another's or none.
LEMMA Steps ==
    ASSUME [Next]_vars
    PROVE  \/ \E s \in Senders : \/ Lock(s) \/ Acquire(s) \/ Finish(s) \/ ContextDone(s)
                                 \/ WriteCommand(s) \/ WriteFragment(s) \/ WriteFails(s)
           \/ OtherStep \/ UNCHANGED vars
BY DEF Next, OtherStep, SenderStep

\* Append, element by element.
LEMMA AppendElements ==
    ASSUME NEW S, NEW q \in Seq(S), NEW e \in S
    PROVE  /\ Append(q, e) \in Seq(S)
           /\ DOMAIN q = 1 .. Len(q) /\ Len(q) \in Nat
           /\ DOMAIN Append(q, e) = 1 .. (Len(q) + 1)
           /\ Len(Append(q, e)) = Len(q) + 1
           /\ Append(q, e)[Len(q) + 1] = e
           /\ \A i \in 1 .. Len(q) : Append(q, e)[i] = q[i]
OBVIOUS

-----------------------------------------------------------------------------
(* LockInv.                                                                 *)

\* What a sender writes is a packet.
LEMMA PacketTypes ==
    ASSUME LockInv, NEW s \in Senders
    PROVE  Data(s) \in Packets /\ Command(s) \in Packets
BY DEF LockInv, Data, Command, Packets

\* The senders start before their locks.
LEMMA InitLock == Init => LockInv
<1> SUFFICES ASSUME Init PROVE LockInv
  OBVIOUS
<1>1. /\ transport \in {"adapter", "plain"} /\ mu = Nobody /\ lastID = 0
      /\ pc = [s \in Senders |-> First(s)] /\ sent = [s \in Senders |-> 0]
      /\ id = [s \in Senders |-> 0] /\ wire = <<>>
  BY WireAssumption DEF Init
<1>2. \A s \in Senders : First(s) \in {"command", "lock"} /\ s # Nobody
  BY WireAssumption DEF First
<1>3. wire \in Seq(Packets)
  BY <1>1
<1> QED BY <1>1, <1>2, <1>3 DEF LockInv

\* Every step keeps LockInv.
LEMMA StepLock == LockInv /\ [Next]_vars => LockInv'
<1> SUFFICES ASSUME LockInv, [Next]_vars PROVE LockInv'
  OBVIOUS
<1>a. \A s \in Senders : Length[s] \in Nat \ {0} /\ s # Nobody
  BY WireAssumption
<1> USE DEF LockInv
<1>1. ASSUME NEW s \in Senders, Lock(s) PROVE LockInv'
  BY <1>1, <1>a DEF Lock
<1>2. ASSUME NEW s \in Senders, Acquire(s) PROVE LockInv'
  BY <1>2, <1>a DEF Acquire
<1>3. ASSUME NEW s \in Senders, Finish(s) PROVE LockInv'
  BY <1>3, <1>a DEF Finish, Return
<1>4. ASSUME NEW s \in Senders, ContextDone(s) PROVE LockInv'
  BY <1>4, <1>a DEF ContextDone, Return
<1>5. ASSUME NEW s \in Senders, WriteCommand(s) PROVE LockInv'
  <2>1. wire' \in Seq(Packets)
    BY <1>5, PacketTypes, AppendElements DEF WriteCommand
  <2> QED BY <1>5, <2>1 DEF WriteCommand
<1>6. ASSUME NEW s \in Senders, WriteFragment(s) PROVE LockInv'
  <2>1. wire' \in Seq(Packets)
    BY <1>6, PacketTypes, AppendElements DEF WriteFragment
  <2> QED BY <1>6, <1>a, <2>1 DEF WriteFragment
<1>7. ASSUME NEW s \in Senders, WriteFails(s) PROVE LockInv'
  BY <1>7, <1>a DEF WriteFails, Return
<1>8. CASE OtherStep
  BY <1>8, OthersSendNothing
<1>9. CASE UNCHANGED vars
  BY <1>9
<1> QED BY <1>1, <1>2, <1>3, <1>4, <1>5, <1>6, <1>7, <1>8, <1>9, Steps

-----------------------------------------------------------------------------
(* What sendMessage returns.                                                *)

\* The places of a sender's fragments on the wire.
Places(s) == {i \in DOMAIN wire : IsData(wire[i]) /\ wire[i].from = s}

\* They are finitely many.
LEMMA PlacesFinite ==
    ASSUME LockInv, NEW s \in Senders
    PROVE  IsFiniteSet(Places(s))
<1>1. DOMAIN wire = 1 .. Len(wire) /\ Len(wire) \in Nat
  BY DEF LockInv
<1>2. IsFiniteSet(1 .. Len(wire))
  BY <1>1, FS_Interval
<1> QED BY <1>1, <1>2, FS_Subset DEF Places

\* A Command packet adds to nobody's fragments.
LEMMA CommandPlaces ==
    ASSUME LockInv, NEW s \in Senders, NEW r \in Senders, wire' = Append(wire, Command(s))
    PROVE  Places(r)' = Places(r)
<1>1. /\ DOMAIN wire = 1 .. Len(wire) /\ Len(wire) \in Nat
      /\ DOMAIN wire' = 1 .. (Len(wire) + 1)
      /\ wire'[Len(wire) + 1] = Command(s)
      /\ \A i \in 1 .. Len(wire) : wire'[i] = wire[i]
  BY AppendElements, PacketTypes DEF LockInv
<1>2. ~IsData(wire'[Len(wire) + 1])
  BY <1>1 DEF Command, IsData
<1> QED BY <1>1, <1>2 DEF Places, IsData

\* A data packet adds one place to its sender's fragments.
LEMMA DataPlaces ==
    ASSUME LockInv, NEW s \in Senders, NEW r \in Senders, wire' = Append(wire, Data(s))
    PROVE  Places(r)' = IF r = s THEN Places(r) \cup {Len(wire) + 1} ELSE Places(r)
<1>1. /\ DOMAIN wire = 1 .. Len(wire) /\ Len(wire) \in Nat
      /\ DOMAIN wire' = 1 .. (Len(wire) + 1)
      /\ wire'[Len(wire) + 1] = Data(s)
      /\ \A i \in 1 .. Len(wire) : wire'[i] = wire[i]
  BY AppendElements, PacketTypes DEF LockInv
<1>2. IsData(wire'[Len(wire) + 1]) /\ wire'[Len(wire) + 1].from = s
  BY <1>1 DEF Data, IsData
<1> QED BY <1>1, <1>2 DEF Places, IsData

\* Every fragment that a sender counts is on the wire, after every step.
LEMMA StepWritten ==
    LockInv /\ (\A s \in Senders : Written(s) = sent[s]) /\ [Next]_vars
    => (\A s \in Senders : Written(s) = sent[s])'
<1> SUFFICES ASSUME LockInv, \A s \in Senders : Written(s) = sent[s], [Next]_vars,
                    NEW r \in Senders
             PROVE  Written(r)' = sent'[r]
  OBVIOUS
<1>a. Written(r) = Cardinality(Places(r)) /\ Written(r)' = Cardinality(Places(r)')
  BY DEF Written, Places
<1>b. Written(r) = sent[r]
  OBVIOUS
<1>1. ASSUME NEW s \in Senders, Lock(s) \/ Acquire(s) \/ Finish(s) \/ ContextDone(s)
                                \/ WriteFails(s)
      PROVE  Written(r)' = sent'[r]
  BY <1>1, <1>b DEF Lock, Acquire, Finish, ContextDone, WriteFails, Written, IsData
<1>2. ASSUME NEW s \in Senders, WriteCommand(s) PROVE Written(r)' = sent'[r]
  BY <1>2, <1>a, <1>b, CommandPlaces DEF WriteCommand
<1>3. ASSUME NEW s \in Senders, WriteFragment(s) PROVE Written(r)' = sent'[r]
  <2>1. Places(r)' = IF r = s THEN Places(r) \cup {Len(wire) + 1} ELSE Places(r)
    BY <1>3, DataPlaces DEF WriteFragment
  <2>2. Len(wire) + 1 \notin Places(r)
    BY DEF Places, LockInv
  <2>3. r = s => Cardinality(Places(r)') = Cardinality(Places(r)) + 1
    BY <2>1, <2>2, PlacesFinite, FS_AddElement
  <2>4. sent'[r] = IF r = s THEN sent[r] + 1 ELSE sent[r]
    BY <1>3 DEF WriteFragment, LockInv
  <2> QED BY <2>1, <2>3, <2>4, <1>a, <1>b
<1>4. CASE OtherStep
  BY <1>4, <1>b, OthersSendNothing DEF Written, IsData
<1>5. CASE UNCHANGED vars
  BY <1>5, <1>b DEF Written, IsData
<1> QED BY <1>1, <1>2, <1>3, <1>4, <1>5, Steps

\* A sendMessage that returns nil has written its whole message, one that
\* returns an error has not, for any number of senders and any lengths, whatever
\* the contexts, the connection and the other senders do.
THEOREM ReturnsCorrect == Spec => []ReturnTellsTheTruth
<1> DEFINE Counted == \A s \in Senders : Written(s) = sent[s]
<1>1. Init => LockInv /\ Counted
  <2> SUFFICES ASSUME Init, NEW s \in Senders PROVE LockInv /\ Written(s) = sent[s]
    BY InitLock
  <2>1. wire = <<>> /\ sent[s] = 0
    BY DEF Init
  <2>2. Places(s) = {}
    BY <2>1 DEF Places
  <2> QED BY <2>1, <2>2, FS_EmptySet, InitLock DEF Written, Places
<1>2. LockInv /\ Counted /\ [Next]_vars => (LockInv /\ Counted)'
  BY StepLock, StepWritten
<1>3. LockInv /\ Counted => ReturnTellsTheTruth
  BY DEF LockInv, ReturnTellsTheTruth
<1> HIDE DEF Counted
<1> QED BY <1>1, <1>2, <1>3, PTL DEF Spec

-----------------------------------------------------------------------------
(* The order of the packets.                                                *)

\* A Command packet between two data packets disturbs no message.
LEMMA CommandInTurn ==
    ASSUME LockInv, LockInv', TurnInv, NEW s \in Senders, WriteCommand(s)
    PROVE  TurnInv'
<1>1. /\ DOMAIN wire = 1 .. Len(wire) /\ Len(wire) \in Nat
      /\ DOMAIN wire' = 1 .. (Len(wire) + 1) /\ Len(wire') = Len(wire) + 1
      /\ wire'[Len(wire) + 1] = Command(s)
      /\ \A i \in 1 .. Len(wire) : wire'[i] = wire[i]
  BY AppendElements, PacketTypes DEF LockInv, WriteCommand
<1>2. ~IsData(wire'[Len(wire) + 1])
  BY <1>1 DEF Command, IsData
<1>3. /\ UNCHANGED <<transport, mu, sent, id, lastID>>
      /\ \A r \in Senders : r # s => pc'[r] = pc[r]
      /\ \A r \in Senders : Command(r)' = Command(r)
  BY DEF WriteCommand, LockInv, Command
<1>4. MessagesInTurn'
  <2> SUFFICES ASSUME NEW i \in 1 .. (Len(wire) + 1), IsData(wire'[i])
               PROVE  /\ \/ /\ wire'[i].n = 1
                            /\ \A j \in 1 .. (i - 1) : IsData(wire'[j]) => wire'[j].id < wire'[i].id
                         \/ \E j \in 1 .. (i - 1) :
                               /\ IsData(wire'[j]) /\ Follows(wire'[j], wire'[i])
                               /\ \A k \in (j + 1) .. (i - 1) : ~IsData(wire'[k])
                      /\ transport = "adapter" /\ wire'[i].from \in Creators =>
                            \E j \in 1 .. (i - 1) : wire'[j] = Command(wire'[i].from)
    BY <1>1, <1>3 DEF MessagesInTurn, IsData, Follows, Command
  <2>1. i \in 1 .. Len(wire)
    BY <1>1, <1>2
  <2> QED BY <1>1, <2>1 DEF TurnInv, MessagesInTurn, IsData
<1>5. (\A i \in DOMAIN wire : IsData(wire[i]) => wire[i].id <= lastID)'
  BY <1>1, <1>2, <1>3 DEF TurnInv, IsData
<1>6. ASSUME NEW r \in Senders, mu' = r
      PROVE  /\ id'[r] = lastID'
             /\ sent'[r] = 0 =>
                   \A i \in DOMAIN wire' : IsData(wire'[i]) => wire'[i].id < id'[r]
             /\ sent'[r] # 0 =>
                   \E i \in DOMAIN wire' :
                       /\ IsData(wire'[i]) /\ wire'[i].from = r
                       /\ wire'[i].id = id'[r] /\ wire'[i].n = sent'[r]
                       /\ \A k \in (i + 1) .. Len(wire') : ~IsData(wire'[k])
  BY <1>1, <1>2, <1>3, <1>6 DEF TurnInv, IsData
<1>7. ASSUME transport' = "adapter", NEW r \in Creators, pc'[r] \in {"lock", "send", "write"}
      PROVE  \E j \in DOMAIN wire' : wire'[j] = Command(r)'
  BY <1>1, <1>3, <1>7, WireAssumption DEF TurnInv
<1> QED BY <1>4, <1>5, <1>6, <1>7 DEF TurnInv, IsData, Command

\* The next fragment of the message that holds p.mu is in its turn.
LEMMA FragmentInTurn ==
    ASSUME LockInv, LockInv', TurnInv, NEW s \in Senders, WriteFragment(s)
    PROVE  TurnInv'
<1>1. /\ DOMAIN wire = 1 .. Len(wire) /\ Len(wire) \in Nat
      /\ DOMAIN wire' = 1 .. (Len(wire) + 1) /\ Len(wire') = Len(wire) + 1
      /\ wire'[Len(wire) + 1] = Data(s)
      /\ \A i \in 1 .. Len(wire) : wire'[i] = wire[i]
  BY AppendElements, PacketTypes DEF LockInv, WriteFragment
<1>2. /\ IsData(wire'[Len(wire) + 1]) /\ wire'[Len(wire) + 1].from = s
      /\ wire'[Len(wire) + 1].id = id[s] /\ wire'[Len(wire) + 1].n = sent[s] + 1
  BY <1>1 DEF Data, IsData
<1>3. /\ UNCHANGED <<transport, mu, id, lastID>> /\ mu = s /\ pc[s] = "write"
      /\ sent' = [sent EXCEPT ![s] = sent[s] + 1] /\ pc' = [pc EXCEPT ![s] = "send"]
      /\ sent[s] \in Nat /\ sent'[s] = sent[s] + 1 /\ id[s] = lastID /\ lastID \in Nat
  BY DEF WriteFragment, LockInv, TurnInv
<1>4. MessagesInTurn'
  <2> SUFFICES ASSUME NEW i \in 1 .. (Len(wire) + 1), IsData(wire'[i])
               PROVE  /\ \/ /\ wire'[i].n = 1
                            /\ \A j \in 1 .. (i - 1) : IsData(wire'[j]) => wire'[j].id < wire'[i].id
                         \/ \E j \in 1 .. (i - 1) :
                               /\ IsData(wire'[j]) /\ Follows(wire'[j], wire'[i])
                               /\ \A k \in (j + 1) .. (i - 1) : ~IsData(wire'[k])
                      /\ transport = "adapter" /\ wire'[i].from \in Creators =>
                            \E j \in 1 .. (i - 1) : wire'[j] = Command(wire'[i].from)
    BY <1>1, <1>3 DEF MessagesInTurn, IsData, Follows, Command
  <2>1. CASE i \in 1 .. Len(wire)
    BY <1>1, <2>1 DEF TurnInv, MessagesInTurn, IsData
  <2>2. CASE i = Len(wire) + 1
    <3>0. transport = "adapter" /\ s \in Creators =>
             \E j \in 1 .. (i - 1) : wire'[j] = Command(s)
      BY <1>1, <1>3, <2>2 DEF TurnInv
    <3>1. CASE sent[s] = 0
      <4>1. /\ wire'[i].n = 1
            /\ \A j \in 1 .. (i - 1) : IsData(wire'[j]) => wire'[j].id < wire'[i].id
        BY <1>1, <1>2, <1>3, <2>2, <3>1 DEF TurnInv, IsData
      <4> QED BY <4>1, <3>0, <2>2, <1>2
    <3>2. CASE sent[s] # 0
      <4>1. PICK j \in DOMAIN wire :
                  /\ IsData(wire[j]) /\ wire[j].from = s
                  /\ wire[j].id = id[s] /\ wire[j].n = sent[s]
                  /\ \A k \in (j + 1) .. Len(wire) : ~IsData(wire[k])
        BY <1>3, <3>2 DEF TurnInv
      <4>2. j \in 1 .. (i - 1)
        BY <1>1, <2>2
      <4>3. /\ IsData(wire'[j]) /\ Follows(wire'[j], wire'[i])
            /\ \A k \in (j + 1) .. (i - 1) : ~IsData(wire'[k])
        BY <1>1, <1>2, <2>2, <4>1 DEF Follows, IsData
      <4> QED BY <1>2, <2>2, <3>0, <4>2, <4>3
    <3> QED BY <3>1, <3>2
  <2> QED BY <2>1, <2>2, <1>1
<1>5. (\A i \in DOMAIN wire : IsData(wire[i]) => wire[i].id <= lastID)'
  BY <1>1, <1>2, <1>3 DEF TurnInv, IsData
<1>6. ASSUME NEW r \in Senders, mu' = r
      PROVE  /\ id'[r] = lastID'
             /\ sent'[r] = 0 =>
                   \A i \in DOMAIN wire' : IsData(wire'[i]) => wire'[i].id < id'[r]
             /\ sent'[r] # 0 =>
                   \E i \in DOMAIN wire' :
                       /\ IsData(wire'[i]) /\ wire'[i].from = r
                       /\ wire'[i].id = id'[r] /\ wire'[i].n = sent'[r]
                       /\ \A k \in (i + 1) .. Len(wire') : ~IsData(wire'[k])
  <2>1. r = s
    BY <1>3, <1>6
  <2>2. /\ Len(wire) + 1 \in DOMAIN wire'
        /\ \A k \in (Len(wire) + 1 + 1) .. Len(wire') : ~IsData(wire'[k])
    BY <1>1
  <2> QED BY <1>1, <1>2, <1>3, <2>1, <2>2
<1>7. ASSUME transport' = "adapter", NEW r \in Creators, pc'[r] \in {"lock", "send", "write"}
      PROVE  \E j \in DOMAIN wire' : wire'[j] = Command(r)'
  BY <1>1, <1>3, <1>7, WireAssumption DEF TurnInv, LockInv, Command
<1> QED BY <1>4, <1>5, <1>6, <1>7 DEF TurnInv, IsData, Command

\* Every step keeps TurnInv.
LEMMA StepTurn == LockInv /\ TurnInv /\ [Next]_vars => TurnInv'
<1> SUFFICES ASSUME LockInv, TurnInv, [Next]_vars PROVE TurnInv'
  OBVIOUS
<1>0. LockInv'
  BY StepLock
<1> USE DEF TurnInv, MessagesInTurn, IsData, Follows, Command
<1>1. ASSUME NEW s \in Senders, Lock(s) PROVE TurnInv'
  <2>1. \A i \in DOMAIN wire : IsData(wire[i]) => wire[i].id \in Nat
    BY DEF LockInv, Packets
  <2>2. /\ UNCHANGED <<transport, sent, wire>> /\ mu' = s /\ sent[s] = 0
        /\ lastID \in Nat /\ lastID' = lastID + 1 /\ id'[s] = lastID + 1
        /\ pc[s] = "lock"
        /\ \A r \in Senders : pc'[r] = IF r = s THEN "send" ELSE pc[r]
    BY <1>1 DEF Lock, LockInv
  <2>3. \A i \in DOMAIN wire : IsData(wire[i]) => wire[i].id < lastID'
    BY <2>1, <2>2
  <2> QED BY <2>1, <2>2, <2>3, WireAssumption
<1>2. ASSUME NEW s \in Senders, Acquire(s) PROVE TurnInv'
  BY <1>2, WireAssumption DEF Acquire, LockInv
<1>3. ASSUME NEW s \in Senders, Finish(s) PROVE TurnInv'
  BY <1>3, WireAssumption DEF Finish, Return, LockInv
<1>4. ASSUME NEW s \in Senders, ContextDone(s) PROVE TurnInv'
  BY <1>4, WireAssumption DEF ContextDone, Return, LockInv
<1>5. ASSUME NEW s \in Senders, WriteCommand(s) PROVE TurnInv'
  BY <1>0, <1>5, CommandInTurn
<1>6. ASSUME NEW s \in Senders, WriteFragment(s) PROVE TurnInv'
  BY <1>0, <1>6, FragmentInTurn
<1>7. ASSUME NEW s \in Senders, WriteFails(s) PROVE TurnInv'
  <2>1. /\ UNCHANGED <<transport, sent, id, lastID, wire>>
        /\ \A r \in Senders : mu' = r => mu = r
        /\ \A r \in Senders : pc'[r] = IF r = s THEN "error" ELSE pc[r]
    BY <1>7, WireAssumption DEF WriteFails, Return, LockInv
  <2> QED BY <2>1, WireAssumption
<1>8. CASE OtherStep
  BY <1>8, OthersSendNothing
<1>9. CASE UNCHANGED vars
  BY <1>9
<1> QED BY <1>1, <1>2, <1>3, <1>4, <1>5, <1>6, <1>7, <1>8, <1>9, Steps

\* The messages of all senders lie on the wire one after the other and complete,
\* with growing object IDs, and a pipeline's data after its Command packet, for
\* any number of senders: p.mu and t.mu are enough.
THEOREM TurnsCorrect == Spec => []MessagesInTurn
<1>1. Init => LockInv /\ TurnInv
  <2> SUFFICES ASSUME Init PROVE TurnInv
    BY InitLock
  <2>1. /\ wire = <<>> /\ DOMAIN wire = {} /\ mu = Nobody
        /\ pc = [s \in Senders |-> First(s)]
    BY DEF Init
  <2>2. \A s \in Senders : s # Nobody
    BY WireAssumption
  <2>3. transport = "adapter" => \A s \in Creators : pc[s] = "command"
    BY <2>1, WireAssumption DEF First
  <2> QED BY <2>1, <2>2, <2>3 DEF TurnInv, MessagesInTurn
<1>2. LockInv /\ TurnInv /\ [Next]_vars => (LockInv /\ TurnInv)'
  BY StepLock, StepTurn
<1>3. TurnInv => MessagesInTurn
  BY DEF TurnInv
<1> QED BY <1>1, <1>2, <1>3, PTL DEF Spec

-----------------------------------------------------------------------------
(* The framing of what is read.                                             *)

\* The sizes are numbers.
LEMMA Sizes == /\ Size \in Nat \ {0} /\ Size = HeaderSize + BlobSize
               /\ HeaderSize \in Nat \ {0} /\ BlobSize \in Nat \ {0}
BY WireAssumption DEF Size

\* What has no remainder is a multiple.
LEMMA Multiple ==
    ASSUME NEW m \in Nat, NEW k \in Nat \ {0}, m % k = 0
    PROVE  \E q \in Int : m = k * q
BY Z3

\* The fragment after an aligned one is aligned.
LEMMA NextAligned ==
    ASSUME NEW m \in Nat, NEW k \in Nat \ {0}, m % k = 0
    PROVE  (m + k) % k = 0
<1>1. PICK q \in Int : m = k * q
  BY Multiple
<1>2. (k * q + k) % k = 0
  BY Z3
<1> QED BY <1>1, <1>2

\* Between two multiples of the size there is none.
LEMMA NoMultipleBetween ==
    ASSUME NEW k \in Nat \ {0}, NEW a \in Nat, NEW b \in Nat,
           a % k = 0, b % k = 0, a <= b, b < a + k
    PROVE  a = b
<1>1. PICK p \in Int : a = k * p
  BY Multiple
<1>2. PICK q \in Int : b = k * q
  BY Multiple
<1>3. PICK d \in Int : d = q - p
  OBVIOUS
<1>4. b - a = k * d
  BY <1>1, <1>2, <1>3, Z3
<1>5. d >= 1 => k * d >= k
  BY Z3
<1>6. d <= -1 => k * d < 0
  BY Z3
<1>7. k * d \in Int /\ k * d >= 0 /\ k * d < k
  BY <1>4
<1>8. d = 0
  BY <1>5, <1>6, <1>7
<1> QED BY <1>4, <1>8

\* A step that reads nothing and fills nothing keeps FrameInv.
LEMMA FrameUnchanged ==
    ASSUME FrameInv, UNCHANGED <<transport, stored, taken, start, blob, made, dispatch,
                                 state, slipped>>, down' \in {down, TRUE}
    PROVE  FrameInv'
BY DEF FrameInv, Aligned, Size

\* The bytes of a fragment come in pieces: at most what is needed is taken.
LEMMA ReadFrame ==
    ASSUME FrameInv, ReadBytes
    PROVE  FrameInv'
<1>a. /\ stored \in Nat /\ taken \in Nat /\ start \in Nat /\ blob \in Nat
      /\ stored > taken
  BY DEF ReadBytes, FrameInv
<1>b. PICK need \in Int : need = Needed
  <2>1. HeaderSize \in Nat
    BY Sizes
  <2>2. Needed \in Int
    BY <1>a, <2>1 DEF Needed
  <2> QED BY <2>2
<1>c. PICK got \in Int : got = Available
  BY <1>a, <1>b DEF Available
<1>d. /\ got <= need /\ got <= stored - taken
      /\ got < need => got = stored - taken
  BY <1>a, <1>b, <1>c DEF Available
<1>e. /\ taken' = taken + got /\ dispatch \in {"header", "blob"}
      /\ UNCHANGED <<transport, down, stored, made, state, slipped>>
  BY <1>c DEF ReadBytes
<1>f. need >= 0 /\ got >= 0
  BY <1>a, <1>b, <1>d, <1>e, Sizes DEF Needed, FrameInv
<1>g. need = IF dispatch = "header" THEN start + HeaderSize - taken
                                    ELSE start + HeaderSize + blob - taken
  BY <1>b DEF Needed
<1>1. CASE got < need
  <2>1. UNCHANGED <<start, blob, dispatch>>
    BY <1>1, <1>b, <1>c DEF ReadBytes
  <2>2. taken' \in Nat /\ taken' <= stored
    BY <1>a, <1>d, <1>e, <1>f
  <2>3. /\ dispatch = "header" => start <= taken' /\ taken' < start + HeaderSize
        /\ dispatch = "blob" => /\ start + HeaderSize <= taken'
                                /\ taken' < start + HeaderSize + blob
    BY <1>a, <1>e, <1>f, <1>g, <1>1, Sizes DEF FrameInv
  <2>4. Aligned' = Aligned
    BY <2>1 DEF Aligned, Size
  <2> QED BY <1>e, <2>1, <2>2, <2>3, <2>4, <1>a, Sizes DEF FrameInv
<1>2. CASE got = need /\ dispatch = "header"
  <2>1. /\ start' = start /\ blob' \in Lengths
        /\ dispatch' = IF blob' = TooLong THEN "fail" ELSE "blob"
    BY <1>2, <1>b, <1>c DEF ReadBytes
  <2>2. taken' = start + HeaderSize /\ taken' <= stored
    BY <1>a, <1>d, <1>e, <1>g, <1>2, Sizes
  <2>3. blob' \in Nat /\ (~slipped => blob' = BlobSize)
    BY <2>1, Sizes DEF Lengths, TooLong, FrameInv
  <2>a. TooLong # BlobSize
    BY Sizes DEF TooLong
  <2>4. Aligned' = Aligned
    BY <2>1 DEF Aligned, Size
  <2>5. taken' < start' + Size
    BY <1>a, <2>1, <2>2, Sizes
  <2>6. dispatch' = "fail" => slipped
    BY <2>1, <2>3, <2>a
  <2>b. blob' \in Nat
    BY <2>3
  <2>7. taken' \in Nat /\ start + HeaderSize <= taken' /\ taken' <= start + HeaderSize + blob'
    <3>1. PICK b \in Nat : b = blob'
      BY <2>b
    <3>2. taken' <= start + HeaderSize + b
      BY <1>a, <2>2, Sizes
    <3>3. taken' <= start + HeaderSize + blob'
      BY <3>1, <3>2, Zenon
    <3>4. taken' \in Nat /\ start + HeaderSize <= taken'
      BY <1>a, <2>2, Sizes
    <3> QED BY <3>3, <3>4
  <2>8. dispatch' \in {"blob", "fail"}
    BY <2>1
  <2>9. ~slipped' => /\ Aligned'
                     /\ dispatch' = "blob" => blob' = BlobSize /\ taken' < start' + Size
    BY <1>e, <2>3, <2>4, <2>5 DEF FrameInv
  <2> QED BY <1>a, <1>e, <2>1, <2>2, <2>3, <2>6, <2>7, <2>8, <2>9 DEF FrameInv
<1>3. CASE got = need /\ dispatch = "blob"
  <2>1. /\ start' = taken' /\ blob' = 0
        /\ dispatch' \in {"header", "deliver"} \cup (IF Aligned THEN {} ELSE {"fail"})
    BY <1>3, <1>b, <1>c, <1>e DEF ReadBytes
  <2>2. /\ taken' = start + HeaderSize + blob /\ taken' <= stored /\ taken' \in Nat
        /\ taken' < taken' + HeaderSize
    BY <1>a, <1>d, <1>e, <1>g, <1>3, Sizes
  <2>3. ~slipped => start' = start + Size
    BY <1>a, <1>3, <2>1, <2>2, Sizes DEF FrameInv
  <2>4. ~slipped => Aligned'
    BY <1>a, <2>3, NextAligned, Sizes DEF Aligned, FrameInv, Size
  <2> QED BY <1>e, <1>3, <2>1, <2>2, <2>4, Sizes DEF FrameInv
<1> QED BY <1>1, <1>2, <1>3, <1>d, <1>e

\* A transient error forgets what was read of a fragment, and owns up to it.
LEMMA TransientFrame ==
    ASSUME FrameInv, Transient, NoData, UNCHANGED <<transport, down, stored, made>>,
           transport = "adapter" => taken \in {start, start + HeaderSize}
    PROVE  FrameInv'
<1> USE DEF FrameInv
<1>1. /\ start' = taken /\ blob' = 0 /\ UNCHANGED <<taken, state>>
      /\ dispatch' \in {"gone", "top"}
  BY DEF Transient
<1>2. slipped' = (slipped \/ taken # start)
  BY DEF Transient
<1>3. ASSUME transport = "adapter" PROVE taken = start
  <2>1. taken % Size = 0 /\ start % Size = 0
    BY <1>3 DEF NoData, Aligned
  <2>2. start <= taken /\ taken < start + Size
    BY <1>3, Sizes
  <2> QED BY <2>1, <2>2, NoMultipleBetween, Sizes
<1>4. ~slipped' => ~slipped /\ taken = start
  BY <1>2
<1>5. transport = "adapter" => ~slipped'
  BY <1>2, <1>3
<1>6. ~slipped' => Aligned'
  BY <1>1, <1>4 DEF Aligned, Size
<1>7. slipped => slipped'
  BY <1>2
<1> QED BY <1>1, <1>5, <1>6, <1>7

\* Every step keeps FrameInv.
LEMMA StepFrame == FrameInv /\ [Next]_vars => FrameInv'
<1> SUFFICES ASSUME FrameInv, [Next]_vars PROVE FrameInv'
  OBVIOUS
<1>1. CASE \E s \in Senders : SenderStep(s) \/ ContextDone(s)
  BY <1>1, SendersReadNothing, FrameUnchanged
<1>2. CASE ServerRead \/ Break \/ LoopReceive \/ LoopAcquire \/ LoopFail
  BY <1>2, FrameUnchanged DEF ServerRead, Break, LoopReceive, LoopAcquire, LoopFail
<1>3. ASSUME NEW kind \in ServerKinds, ServerMakes(kind) PROVE FrameInv'
  BY <1>3 DEF ServerMakes, FrameInv, Aligned, Size
<1>4. CASE ServerWrites
  <2>1. UNCHANGED <<transport, down, made, reading>>
    BY <1>4 DEF ServerWrites
  <2>2. CASE transport = "adapter"
    BY <1>4, <2>1, <2>2, FrameUnchanged DEF ServerWrites
  <2>3. CASE transport # "adapter"
    <3>1. made["Data"] \in Nat /\ Size \in Nat
      BY WireAssumption, Sizes DEF FrameInv, ServerKinds
    <3>2. offered \in Int
      BY <3>1, Z3 DEF offered
    <3>3. PICK n \in 1 .. (offered - stored) : stored' = stored + n
      BY <1>4, <2>3 DEF ServerWrites
    <3>4. stored' \in Nat /\ taken <= stored'
      BY <3>2, <3>3 DEF FrameInv
    <3> QED BY <2>1, <2>3, <3>4 DEF FrameInv, Aligned, Size
  <2> QED BY <2>2, <2>3
<1>5. CASE LoopAnswer
  <2>1. UNCHANGED <<transport, down, made, reading>>
    BY <1>5 DEF LoopAnswer
  <2>2. stored' \in {stored, stored + Size}
    BY <1>5 DEF LoopAnswer
  <2>a. stored \in Nat /\ taken \in Nat /\ taken <= stored
    BY DEF FrameInv
  <2>b. stored % Size = 0 => (stored + Size) % Size = 0
    BY <2>a, NextAligned, Sizes
  <2>3. /\ stored' \in Nat /\ taken <= stored'
        /\ stored % Size = 0 => stored' % Size = 0
    <3>1. CASE stored' = stored
      BY <2>a, <3>1
    <3>2. CASE stored' = stored + Size
      BY <2>a, <2>b, <3>2, Sizes
    <3> QED BY <2>2, <3>1, <3>2
  <2> QED BY <2>1, <2>3 DEF FrameInv, Aligned, Size
<1>6. CASE LoopTop
  <2>1. /\ UNCHANGED <<transport, down, made, stored, taken, start, blob, state, slipped>>
        /\ dispatch = "top" /\ dispatch' \in {"gone", "header"}
    BY <1>6 DEF LoopTop
  <2>2. start <= taken /\ taken < start + HeaderSize
    BY <2>1, Sizes DEF FrameInv
  <2> QED BY <2>1, <2>2 DEF FrameInv, Aligned, Size
<1>7. CASE ReadBytes
  BY <1>7, ReadFrame
<1>8. CASE ReadNothing
  <2>1. /\ UNCHANGED <<transport, down, made, stored, taken, state, slipped>>
        /\ dispatch = "blob" /\ Needed = 0 /\ start' = taken /\ blob' = 0
        /\ dispatch' \in {"header", "deliver", "fail"}
    BY <1>8 DEF ReadNothing
  <2>2. slipped
    BY <2>1, Sizes DEF FrameInv, Needed
  <2>3. taken < taken + HeaderSize /\ taken <= taken
    BY Sizes DEF FrameInv
  <2> QED BY <2>1, <2>2, <2>3 DEF FrameInv
<1>9. CASE Deliver
  BY <1>9 DEF Deliver, FrameInv, Aligned, Size
<1>10. CASE BreakPool
  BY <1>10 DEF BreakPool, FrameInv, Aligned, Size
<1>11. CASE Timeout
  BY <1>11, TransientFrame DEF Timeout
<1>12. CASE Idle
  BY <1>12 DEF Idle, Fatal, FrameInv, Aligned, Size
<1>13. CASE Lost
  <2>1. CASE Fatal
    BY <1>13, <2>1 DEF Lost, Fatal, FrameInv, Aligned, Size
  <2>2. CASE taken \in {start, start + HeaderSize} /\ Transient
    BY <1>13, <2>2, TransientFrame DEF Lost
  <2> QED BY <1>13, <2>1, <2>2 DEF Lost
<1>14. CASE UNCHANGED vars
  BY <1>14, FrameUnchanged
<1> QED BY <1>1, <1>2, <1>3, <1>4, <1>5, <1>6, <1>7, <1>8, <1>9, <1>10, <1>11,
           <1>12, <1>13, <1>14 DEF Next, ReadLoopStep, DispatchStep

\* The pool keeps its place in the stream for every size of a header and a blob,
\* however the bytes come in pieces: always over the adapter, over a plain
\* connection unless a transient error strikes inside a fragment; only that, or a
\* lost connection, breaks the pool.
THEOREM FramingCorrect == Spec => []FramingKept
<1>1. Init => FrameInv
  <2>1. 0 % Size = 0 /\ 0 <= 0
    BY Sizes, Z3
  <2> QED BY <2>1, WireAssumption DEF Init, FrameInv, Aligned
<1>2. FrameInv => FramingKept
  BY DEF FrameInv, FramingKept
<1> QED BY <1>1, <1>2, StepFrame, PTL DEF Spec

=============================================================================
