---------------------------- MODULE MCHubClaims ----------------------------
(* A small instance of HubClaims for TLC: one viewer of one poll. *)
EXTENDS HubClaims

CONSTANTS c1, p1

WatchFirst == [c \in Clients |-> p1]

=============================================================================
