--------------------------- MODULE MCRunspacePool ---------------------------
(* Instances of RunspacePool for TLC: the constants' values are in the cfgs. *)
(* Its runs check liveness, so that they use no symmetry.                    *)
EXTENDS RunspacePool

=============================================================================
