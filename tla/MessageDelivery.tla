--------------------------- MODULE MessageDelivery ---------------------------
(***************************************************************************)
(* What fragments.Fragmenter and fragments.Assembler promise together over  *)
(* a network that reorders and duplicates: a message that was sent arrives  *)
(* as it was sent, and again at most once for every duplication.  Messages  *)
(* are named by their object IDs; they may overtake each other.             *)
(***************************************************************************)
EXTENDS Naturals, Sequences, FiniteSets

VARIABLES
    count,   \* messages sent so far: 1 .. count
    copies,  \* duplications by the network so far
    inbox    \* the messages received, in the order of their arrival

Init == count = 0 /\ copies = 0 /\ inbox = <<>>

Send == count' = count + 1 /\ UNCHANGED <<copies, inbox>>

Duplicate == copies' = copies + 1 /\ UNCHANGED <<count, inbox>>

Deliveries(m) == Cardinality({k \in 1 .. Len(inbox) : inbox[k] = m})

\* A copy may be made in the step that completes the message.
Deliver(m) ==
    /\ Deliveries(m) <= copies
    /\ inbox' = Append(inbox, m)
    /\ copies' \in {copies, copies + 1}
    /\ UNCHANGED count

Next == Send \/ Duplicate \/ \E m \in 1 .. count : Deliver(m)

Spec == Init /\ [][Next]_<<count, copies, inbox>>

=============================================================================
