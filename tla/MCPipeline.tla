----------------------------- MODULE MCPipeline -----------------------------
(* Instances of Pipeline for TLC: the constants' values are in the cfg files. *)
EXTENDS Pipeline, TLC

\* The streams are interchangeable.  (Not for liveness, which TLC checks
\* without symmetry.)
Symmetry == Permutations(Streams)

=============================================================================
