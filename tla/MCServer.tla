------------------------------ MODULE MCServer ------------------------------
(* A small instance of Server for TLC: one viewer of one poll, beside the  *)
(* channel of another.                                                     *)
EXTENDS Server

CONSTANTS c1, p1, p2

WatchFirst == [c \in Clients |-> p1]
=============================================================================
