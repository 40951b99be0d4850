----------------------------- MODULE MCVotePath -----------------------------
(* Small instances of VotePath for TLC. *)
EXTENDS VotePathBallots, TLC

CONSTANTS r1, r2, r3, ann, bob, owner, stranger, red, blue, green

CastCalls == [op : {"cast"}, voter : Voters, option : OptionIDs]
ReadCall == [op |-> "results"]
CloseCalls == [op : {"close"}, user : Users]
DeleteCalls == [op : {"delete"}, user : Users]
UpdateCalls(edits, times) == [op : {"update"}, user : Users, edit : edits, expiry : times]

VoteCalls == CastCalls \cup {ReadCall}

MixedCalls ==
    {[op |-> "cast", voter |-> ann, option |-> red], [op |-> "cast", voter |-> ann, option |-> blue],
     [op |-> "cast", voter |-> bob, option |-> red], ReadCall, [op |-> "delete", user |-> owner]}
    \cup CloseCalls
    \cup {u \in UpdateCalls({{}, {"question"}, {"options"}, {"options", "expiry"}}, {1}) :
            u.user = owner}

AllCalls ==
    VoteCalls \cup CloseCalls \cup DeleteCalls
    \cup UpdateCalls({{}, {"question"}, {"options"}, {"options", "expiry"}}, {1, NoExpiry})

AnyRequest == Permutations(Requests)
AnyName == Permutations(Requests) \cup Permutations(Voters) \cup Permutations(OptionIDs)
=============================================================================
