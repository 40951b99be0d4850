------------------------------- MODULE MCHub -------------------------------
(* Small instances of Hub for TLC: two viewers of one poll.  In the larger one  *)
(* another poll, which nobody here watches, competes for the broadcast channel. *)
EXTENDS Hub, TLC

CONSTANTS c1, c2, p1, p2

WatchFirst == [c \in Clients |-> p1]

AnyClient == Permutations(Clients)
=============================================================================
