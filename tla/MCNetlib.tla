------------------------------ MODULE MCNetlib ------------------------------
(* Two places for sockets and two descriptors. Ten IDs and one block: every  *)
(* search starts at 0, in the class of 0, 3 and 6, which two datagrams can   *)
(* use up while six of the nine IDs are free.                                *)
EXTENDS Netlib

MCRandFns == {[seed \in 0 .. (IdSpace - 1) |-> 1]}
=============================================================================
