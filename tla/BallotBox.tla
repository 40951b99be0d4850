----------------------------- MODULE BallotBox -----------------------------
(***************************************************************************)
(* What a poll promises to its voters and its owner, without databases,    *)
(* caches or requests: a box that is open or not, ballots that are         *)
(* admitted while it is open, and of each voter at most one that is stored *)
(* and, once confirmed to the voter, never lost while the poll exists.     *)
(***************************************************************************)
CONSTANTS
    AllBallots,  \* ballots, with at least the fields voter and option
    AllOptions

VARIABLES
    exists,    \* the poll can be reached
    open,      \* it accepts votes now
    closed,    \* the owner has closed it, for good
    offered,   \* the options it offers
    admitted,  \* ballots found valid and not stored yet
    ballots,   \* stored ballots
    confirmed  \* ballots whose voter was told they are stored

box == <<exists, open, closed, offered>>
vars == <<box, admitted, ballots, confirmed>>

Init ==
    /\ ~exists /\ ~open /\ ~closed
    /\ offered = {}
    /\ admitted = {} /\ ballots = {} /\ confirmed = {}

\* The poll is created, or its owner reschedules it or changes its options.
Offer ==
    /\ exists \/ offered = {}
    /\ exists'
    /\ offered' \subseteq AllOptions
    /\ open' \in BOOLEAN /\ (closed => ~open')
    /\ UNCHANGED <<closed, admitted, ballots, confirmed>>

\* Time passes: the box may expire, and ballots not stored yet lapse with it.
Expire ==
    /\ open' \in BOOLEAN /\ open' => open
    /\ admitted' \subseteq admitted
    /\ UNCHANGED <<exists, closed, offered, ballots, confirmed>>

\* A ballot is admitted only while the box is open, for an option it offers.
Admit(b) ==
    /\ exists /\ open
    /\ b.option \in offered
    /\ admitted' = admitted \cup {b}
    /\ UNCHANGED <<box, ballots, confirmed>>

\* A ballot is stored only after it was admitted, and only as its voter's first.
Store(b) ==
    /\ b \in admitted
    /\ \A c \in ballots : c.voter # b.voter
    /\ ballots' = ballots \cup {b}
    /\ admitted' = admitted \ {b}
    /\ UNCHANGED <<box, confirmed>>

Lapse(b) ==
    /\ admitted' = admitted \ {b}
    /\ UNCHANGED <<box, ballots, confirmed>>

\* A voter is told their ballot is stored while it is, or when the poll is gone.
Confirm(b) ==
    /\ exists => b \in ballots
    /\ confirmed' = confirmed \cup {b}
    /\ UNCHANGED <<box, admitted, ballots>>

Close ==
    /\ exists
    /\ closed' /\ ~open'
    /\ UNCHANGED <<exists, offered, admitted, ballots, confirmed>>

Delete ==
    /\ exists
    /\ ~exists' /\ ~open'
    /\ UNCHANGED <<closed, offered, admitted, ballots, confirmed>>

\* Only a poll that is gone loses its ballots.
Discard ==
    /\ ~exists
    /\ ballots' \subseteq ballots
    /\ UNCHANGED <<box, admitted, confirmed>>

Next ==
    \/ Offer \/ Expire \/ Close \/ Delete \/ Discard
    \/ \E b \in AllBallots : Admit(b) \/ Store(b) \/ Lapse(b) \/ Confirm(b)

Spec == Init /\ [][Next]_vars
=============================================================================
