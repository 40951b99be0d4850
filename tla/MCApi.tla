------------------------------- MODULE MCApi -------------------------------
(* A small instance of Api for TLC: two browsers behind one address, which type *)
(* the same e-mail address in two ways.                                         *)
EXTENDS Api, TLC

CONSTANTS r1, r2, r3, b1, b2, s1, s2

TypesApart ==
    (b1 :> [address |-> "ada", spelling |-> s1]) @@
    (b2 :> [address |-> "ada", spelling |-> s2])

\* Accounts and voters have the clock in common and nothing else; sessions and polls
\* have the accounts in common.
UpTo(most) == [op \in Ops |-> IF op \in DOMAIN most THEN most[op] ELSE 0]
SomeMixes ==
    {UpTo([register |-> 2, login |-> 1, logout |-> 1, me |-> 1]),
     UpTo([register |-> 1, create |-> 2, list |-> 1]),
     UpTo([vote |-> 2, results |-> 2])}

Limits == [auth |-> 2, create |-> 1, vote |-> 1]
Windows == [auth |-> 2, create |-> 2, vote |-> 1]

AnyRequest == Permutations(Requests)
AnyBrowser == {(b1 :> b2) @@ (b2 :> b1) @@ (s1 :> s2) @@ (s2 :> s1)}
Symmetry == AnyRequest \cup AnyBrowser
=============================================================================
