----------------------------- MODULE MCUdpSend -----------------------------
(* Payload lengths on both sides of every boundary of the send path.         *)
EXTENDS UdpSend

MCPayloadLens ==
  {0, 1, 9,                \* nothing, and what main.c sends
   247, 248, 249, 504,     \* the size realloc is asked for drops to 1, and to 2
   1472,                   \* a full Ethernet frame
   65492, 65493, 65494,    \* the frame's length wraps
   65507, 65508, 65515,    \* the IP total length wraps
   65527, 65528, 65545}    \* the UDP length wraps: size 0
=============================================================================
