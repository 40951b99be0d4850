----------------------------- MODULE RateLimit -----------------------------
(***************************************************************************)
(* The fixed-window rate limiter: per key a counter in Redis that all      *)
(* servers share, created by the first hit and expiring a window later.    *)
(***************************************************************************)
EXTENDS Naturals

CONSTANTS
    Scopes,    \* the groups of endpoints; the client's address is one
    Limit,     \* for each, the hits let through in a window ...
    Window,    \* ... and its length
    MaxRetries, \* how often Redis's driver sends a command again that has no answer
    MaxClock   \* bound: the last instant of the clock

ASSUME LimitAssumption ==
    /\ Limit \in [Scopes -> Nat \ {0}]
    /\ Window \in [Scopes -> Nat \ {0}]
    /\ MaxRetries \in Nat
    /\ MaxClock \in Nat

VARIABLES
    clock,   \* Redis's clock, and the servers'
    hits     \* Redis: each key's counter and the time it expires; 0 is no key

NoKey == [count |-> 0, expires |-> 0]

LimitInit ==
    /\ clock = 0
    /\ hits = [k \in Scopes |-> NoKey]

\* Time passes; Redis drops the keys whose time is over.
TickClock ==
    /\ clock < MaxClock
    /\ clock' = clock + 1
    /\ hits' = [k \in Scopes |-> IF hits[k].expires =< clock' THEN NoKey ELSE hits[k]]

\* Mutants: a counter that is set, not incremented; a window every hit extends.
SetToOne(k) == 1
Extended(k) == clock + Window[k]

\* The script: INCR, and the expiry with the hit that creates the key only.
Incr(k) == hits[k].count + 1

Expiry(k) == IF hits[k].count = 0 THEN clock + Window[k] ELSE hits[k].expires

Hit(k) == hits' = [hits EXCEPT ![k] = [count |-> Incr(k), expires |-> Expiry(k)]]

\* Client.Allow: whether the hit that is being counted is let through.
Allow(k) == Incr(k) =< Limit[k]

LimiterOK ==
    /\ clock \in 0 .. MaxClock
    /\ hits \in [Scopes -> [count : Nat, expires : Nat]]

=============================================================================
