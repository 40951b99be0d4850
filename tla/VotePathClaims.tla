--------------------------- MODULE VotePathClaims ---------------------------
(***************************************************************************)
(* What the comments of the code say of the vote path and concurrent       *)
(* requests do not keep.  Each of these is refuted by a run of its own, in *)
(* which no call fails and no process stops.                               *)
(***************************************************************************)
EXTENDS VotePath

\* "Nothing here can return a wrong number" (result_service.go:74-75): no answer
\* counts a vote that is not in MongoDB.  A rebuild another request runs between
\* the insert of a vote and its increment counts that vote once, and the
\* increment, now of a warm key, counts it again.
NothingCountsTwice ==
    poll.stage = "live" =>
        \A r \in Requests : \A o \in DOMAIN results[r].counts :
            results[r].counts[o] =< Cardinality(For(o))

\* "The question and the options are frozen once the first vote is in"
\* (poll_service.go:189): every stored vote is for an option of the poll.  The
\* count and the write of an update are two calls, and a vote fits between them.
VotesKeepTheirOption ==
    poll.stage = "live" => \A d \in votes : d.option \in poll.options

\* "Status lets a viewer see a poll close" (events.go:43, poll_service.go:53-55):
\* when all is quiet after a close, the last update says so.  A vote that loaded
\* the poll before the close may announce it, as active, after the close did.
ClosingIsSeen ==
    Quiet /\ poll.stage = "live" =>
        \A r \in Requests :
            pc[r] = "done" /\ Op(r) = "close" /\ reply[r] = "ok" => published.status = "closed"
=============================================================================
