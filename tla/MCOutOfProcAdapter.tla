-------------------------- MODULE MCOutOfProcAdapter --------------------------
(***************************************************************************)
(* TLC instances of OutOfProcAdapter.                                       *)
(***************************************************************************)
EXTENDS OutOfProcAdapter, TLC

Symmetry == Permutations(Closers) \cup Permutations(Callbacks)

\* The readers and the callbacks meet in nothing but the readLoop, which has one
\* packet in its hands: TLC follows data and readers beside one ClosePipeline
\* call, and overlapping calls and a user who sets callbacks beside readers that
\* have not begun.
Apart ==
    \/ /\ Cardinality({c \in Closers : closer[c] # "idle"}) <= 1
       /\ user = Nil /\ ~late
    \/ total = 0 /\ \A r \in Readers : reader[r] = "idle"

MCSpec == Init /\ [][Next /\ Apart']_vars

=============================================================================
