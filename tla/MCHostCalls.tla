---------------------------- MODULE MCHostCalls ----------------------------
(***************************************************************************)
(* Instances of HostCalls for TLC.                                          *)
(***************************************************************************)
EXTENDS HostCalls

\* One method of every kind of parameters, answer and use of the interface.
MCMethods ==
    {"GetVersion", "Unknown", "Write1", "Prompt"}

\* For an instance with one call.
MCAllMethods == AllMethods

=============================================================================
