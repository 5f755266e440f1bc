----------------------------- MODULE MCIpv4Hdr -----------------------------
(* Short buffers of the bytes that make carries, headers around the          *)
(* boundaries of each length field, sockets with each option, packets whose  *)
(* length has equal bytes or not, texts with numbers that are too many, too  *)
(* large or missing, and numbers below and above 2^16.                       *)
EXTENDS Ipv4Hdr

MCMessages == UNION {[1 .. n -> {0, 1, 255}] : n \in 0 .. 5}

MCPackets ==
  {[k \in 1 .. n |-> IF k = n THEN 0 ELSE b] : n \in {8, 9, 257, 514}, b \in {1, 255}}

\* 130 is the type of the security option.
MCArguments ==
  {[tos |-> 0, f_off_vcf |-> 0, ttl |-> 64, option_type |-> x[1],
    option_len |-> x[2], tlen |-> x[3], id |-> 2056] :
     x \in {0, 1, 130} \X {0, 1, 2, 3, 4, 37, 38, 39} \X {17}
            \cup {0} \X {0} \X {65515, 65516}}
    \cup {[tos |-> 16, f_off_vcf |-> 16384, ttl |-> 1, option_type |-> 0,
           option_len |-> 0, tlen |-> 17, id |-> 1]}

MCSockOpts ==
  {[pre |-> p, low_delay |-> 0, high_throughput |-> h, high_reliability |-> 0,
    no_fragment |-> n, ttl |-> t] :
     p \in {0, 5}, h \in {0, 1}, n \in {0, 1}, t \in {1, 64}}

MCAddrs ==
  {[form |-> "text", src |-> <<10, 0, 0, 2>>, dst |-> <<152, 53, 133, 5>>],
   [form |-> "text", src |-> <<256, 1, 2, 3, 4>>, dst |-> <<>>],
   [form |-> "text", src |-> <<10, 0, 0, 2>>, dst |-> <<10, 0, 2>>],
   [form |-> "number", src |-> <<10, 0, 0, 2>>, dst |-> <<0, 0, 133, 5>>]}

MCBeyond == {0, 171}
=============================================================================
