----------------------------- MODULE MCLiveView -----------------------------
(* A small instance of LiveView for TLC. *)
EXTENDS LiveView

CONSTANTS s1, s2
=============================================================================
