-------------------------------- MODULE MCWire --------------------------------
(* Instances of Wire for TLC.                                               *)
EXTENDS Wire

CONSTANTS s1, s2

MCLength == [s \in Senders |-> IF s = s1 THEN 2 ELSE 1]
MCPackets == [Data |-> 2, Signal |-> 1]
=============================================================================
