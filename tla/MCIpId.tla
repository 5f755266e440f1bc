------------------------------- MODULE MCIpId -------------------------------
(* A small instance of IpId: ten IDs in three blocks of two, with C          *)
(* libraries whose rand() repeats a value, alternates, or overflows the sum. *)
EXTENDS IpId

Constantly(r) == [seed \in Ids |-> r]
MCRandFns ==
  {Constantly(r) : r \in {0, 1, IntMax}}
    \cup {[seed \in Ids |-> (seed + 1) % 3], [seed \in Ids |-> IF seed = 0 THEN 1 ELSE IntMax]}
=============================================================================
