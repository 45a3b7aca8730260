---------------------------- MODULE MCAvailability ----------------------------
(***************************************************************************)
(* TLC instances of Availability: waiters that ask for different numbers of *)
(* runspaces.                                                               *)
(***************************************************************************)
EXTENDS Availability

CONSTANT Modest     \* the waiter that asks for one runspace, the others for two

MCMinRunspaces == [w \in Waiters |-> IF w = Modest THEN 1 ELSE 2]

=============================================================================
