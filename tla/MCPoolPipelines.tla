-------------------------- MODULE MCPoolPipelines ---------------------------
(* Instances of PoolPipelines for TLC: the constants' values are in the cfgs. *)
EXTENDS PoolPipelines

=============================================================================
