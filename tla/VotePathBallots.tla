-------------------------- MODULE VotePathBallots --------------------------
(***************************************************************************)
(* The vote path implements BallotBox: however requests interleave, a vote *)
(* in MongoDB was valid against the poll as it stood at one moment of its  *)
(* own request, and a confirmed one stays for as long as the poll does.    *)
(***************************************************************************)
EXTENDS VotePath

\* A vote is admitted from the moment its request loads a poll that accepts it.
\* It lapses if the poll expires before VoteService.Cast has looked at the clock.
IsAdmitted(r) ==
    \/ pc[r] = "insert"
    \/ /\ pc[r] = "admit"
       /\ call[r].option \in snap[r].options
       /\ AcceptsVotes(snap[r], now)

Confirmed(r) == pc[r] = "done" /\ Op(r) = "cast" /\ reply[r] = "ok"

Box == INSTANCE BallotBox WITH
    AllBallots <- Ballots,
    AllOptions <- OptionIDs,
    exists     <- poll.stage = "live",
    open       <- poll.stage = "live" /\ AcceptsVotes(poll, now),
    closed     <- poll.status = "closed",
    offered    <- poll.options,
    admitted   <- {Vote(r) : r \in {q \in Requests : IsAdmitted(q)}},
    ballots    <- votes,
    confirmed  <- {Vote(r) : r \in {q \in Requests : Confirmed(q)}}

\* Every vote stored was admitted while the poll was open and offered its option,
\* as the first of its voter; only a deleted poll loses votes; and no vote is
\* confirmed before it is stored (services/vote_service.go:57-64, 98-102).
ImplementsBallotBox == Box!Spec
=============================================================================
