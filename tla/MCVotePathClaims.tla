-------------------------- MODULE MCVotePathClaims --------------------------
(* Small instances of VotePathClaims for TLC. *)
EXTENDS VotePathClaims, TLC

CONSTANTS r1, r2, ann, bob, owner, red, blue, green

CastOf(v, o) == [op |-> "cast", voter |-> v, option |-> o]

TwoVotes == {CastOf(ann, red), CastOf(bob, red)}
VoteAndClose == {CastOf(ann, red), [op |-> "close", user |-> owner]}
VoteAndEdit ==
    {CastOf(ann, red), [op |-> "update", user |-> owner, edit |-> {"options"}, expiry |-> NoExpiry]}
=============================================================================
