------------------------------- MODULE IdPool -------------------------------
(***************************************************************************)
(* What the IPv4 identification allocator promises its callers: every      *)
(* stream that holds a header has an ID of its own, taken from Ids, until  *)
(* the header is gone.  Nothing is said about which free ID is taken, nor  *)
(* about when the ID of a header that is gone becomes available again.     *)
(***************************************************************************)
CONSTANTS
  Streams,   \* the streams that ask for an ID
  Ids,       \* the IDs a header may carry
  NoId       \* a stream without a header

VARIABLE held   \* held[s]: the ID in the header of stream s, or NoId

Free == {i \in Ids : \A s \in Streams : held[s] # i}

Init == held = [s \in Streams |-> NoId]

\* A stream gets a header that carries an ID no other stream holds.
Acquire(s) ==
  /\ held[s] = NoId
  /\ \E i \in Free : held' = [held EXCEPT ![s] = i]

\* The header of a stream is gone.
Release(s) ==
  /\ held[s] # NoId
  /\ held' = [held EXCEPT ![s] = NoId]

Next == \E s \in Streams : Acquire(s) \/ Release(s)

Spec == Init /\ [][Next]_held
=============================================================================
