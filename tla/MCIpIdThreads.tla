---------------------------- MODULE MCIpIdThreads ----------------------------
(* Two bytes of eight bits, and blocks of one byte, as in src/src/ip.c.       *)
EXTENDS IpIdThreads

Constantly(r) == [s \in Ids |-> r]
MCRandFns == {Constantly(0), Constantly(1), Constantly(IntMax), [s \in Ids |-> (s + 1) % 2]}
=============================================================================
