------------------------------- MODULE MCSlip -------------------------------
(* Two packets of up to two bytes, each of any value SLIP tells apart.       *)
EXTENDS Slip
=============================================================================
