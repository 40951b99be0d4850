------------------------------ MODULE LiveView ------------------------------
(***************************************************************************)
(* One viewer's page: usePollResults and PollPage write what the fetch,    *)
(* the socket and the answer to the viewer's own vote say into one cache   *)
(* entry, in the order in which they come.  The poll's standing is the     *)
(* number of its votes.  What a socket brings is left open: standings the  *)
(* poll has reached, some of them, in any order (which ones Fanout says).  *)
(***************************************************************************)
EXTENDS PollSocket, Sequences

CONSTANTS
    MaxTally,  \* bound: votes of the poll
    MaxFrames  \* bound: frames on their way on a socket

ASSUME MaxTallyAssumption == MaxTally \in Nat /\ MaxFrames \in Nat

VARIABLES
    tally,    \* the standing, at the server
    wire,     \* the frames on their way on each socket
    fed,      \* history: the newest standing put on each socket that is open
    data,     \* the cache entry: the standing on the screen, if any
    fetch,    \* the query's request for the results ...
    vote,     \* ... and the mutation's answer
    arrived,  \* history: the newest standing any socket has brought
    late,     \* history: the standing on the screen came after a newer one
    owed      \* history: the standing at a reconnection the screen has not caught up with

vars == <<pvars, tally, wire, fed, data, fetch, vote, arrived, late, owed>>

Idle == [stage |-> "idle", standing |-> 0]
Asked == [stage |-> "sent", standing |-> 0]
Answer(n) == [stage |-> "answered", standing |-> n]

Init ==
    /\ PInit
    /\ tally = 0
    /\ wire = [s \in Sockets |-> <<>>]
    /\ fed = [s \in Sockets |-> 0]
    /\ data = {}
    /\ fetch = Idle /\ vote = Idle
    /\ arrived = 0 /\ late = FALSE /\ owed = 0

\* invalidateQueries: a fetch that is under way is cancelled and sent anew, unless it
\* is the first.
Invalidate(f) == IF f # Idle /\ data = {} THEN f ELSE Asked

\* Mutant: nothing is fetched on a reconnection.
NoRefetch(f) == f

\* onReconnect.
refetch(f) == IF enabled THEN Invalidate(f) ELSE f

\* The screen shows n from now on.
Show(n) ==
    /\ data' = {n}
    /\ late' = (n < arrived)
    /\ owed' = IF n >= owed THEN 0 ELSE owed

-----------------------------------------------------------------------------
(* The socket. *)

\* The query starts with the effect, if there is nothing to show or it was invalidated
\* while nobody looked.
Appear(s) ==
    /\ Enable(s)
    /\ \/ fetch' = Asked /\ fetch = Idle
       \/ (data # {} \/ fetch # Idle) /\ UNCHANGED fetch
    /\ UNCHANGED <<tally, wire, fed, data, vote, arrived, late, owed>>

\* The query's request is aborted if the page goes, and not if it is only disabled.
Vanish ==
    /\ Disable
    /\ owed' = 0
    /\ fetch' \in {fetch, Idle}
    /\ UNCHANGED <<tally, wire, fed, data, vote, arrived, late>>

\* refresh, a button of the badge, and of the page that shows an error: its own query or
\* the poll's has failed.
refresh(s) ==
    /\ status = "disconnected" \/ data # {} \/ fetch = Idle
    /\ fetch' = refetch(fetch)
    /\ reconnect(s)
    /\ UNCHANGED <<tally, wire, fed, data, vote, arrived, late, owed>>

\* The snapshot is the first frame.  It was read before the upgrade: votes may have been
\* counted since.
SocketOpens(s) ==
    /\ Opens(s)
    /\ \E n \in 0 .. tally :
        wire' = [wire EXCEPT ![s] = <<n>>] /\ fed' = [fed EXCEPT ![s] = n]
    /\ IF everConnected
       THEN fetch' = refetch(fetch) /\ owed' = IF enabled /\ data # {} THEN tally ELSE owed
       ELSE UNCHANGED <<fetch, owed>>
    /\ UNCHANGED <<tally, data, vote, arrived, late>>

\* The servers put another standing on it.
ServerSends(s) ==
    /\ socket[s] = "open" /\ Len(wire[s]) < MaxFrames
    /\ \E n \in 0 .. tally :
        /\ wire' = [wire EXCEPT ![s] = Append(@, n)]
        /\ fed' = [fed EXCEPT ![s] = IF n > @ THEN n ELSE @]
    /\ UNCHANGED <<pvars, tally, data, fetch, vote, arrived, late, owed>>

\* What was on its way is lost.
SocketCloses(s) ==
    /\ Closes(s)
    /\ wire' = [wire EXCEPT ![s] = <<>>] /\ fed' = [fed EXCEPT ![s] = 0]
    /\ UNCHANGED <<tally, data, fetch, vote, arrived, late, owed>>

\* Mutant: a frame that comes while the query is fetching is left to the fetch.
LeftToFetch == data # {} /\ fetch = Idle

\* A frame can only be merged into what has been fetched.
Mergeable == data # {}

\* onmessage and applyEvent.  A socket that is closing reports no messages.
applyEvent(s) ==
    /\ socket[s] = "open" /\ wire[s] # <<>>
    /\ wire' = [wire EXCEPT ![s] = Tail(@)]
    /\ arrived' = IF Head(wire[s]) > arrived THEN Head(wire[s]) ELSE arrived
    /\ IF Mergeable THEN Show(Head(wire[s])) ELSE UNCHANGED <<data, late, owed>>
    /\ UNCHANGED <<pvars, tally, fed, fetch, vote>>

Retry ==
    /\ \E s \in Sockets : TimerFires(s)
    /\ UNCHANGED <<tally, wire, fed, data, fetch, vote, arrived, late, owed>>

\* A signal of the browser.
Signal ==
    /\ GoesOffline \/ Hides \/ Wakes
    /\ UNCHANGED <<tally, wire, fed, data, fetch, vote, arrived, late, owed>>

-----------------------------------------------------------------------------
(* The requests. *)

\* A vote is counted.
Counted ==
    /\ tally < MaxTally
    /\ tally' = tally + 1

VoteElsewhere ==
    /\ Counted
    /\ UNCHANGED <<pvars, wire, fed, data, fetch, vote, arrived, late, owed>>

\* The viewer's own vote: the mutation, whose answer is the standing it was counted in.
CastVote ==
    /\ enabled /\ data # {} /\ vote = Idle
    /\ Counted
    /\ vote' = Answer(tally')
    /\ UNCHANGED <<pvars, wire, fed, data, fetch, arrived, late, owed>>

\* onSuccess and onError: an answer that says "already voted" has the results fetched.
VoteAnswered ==
    /\ vote # Idle
    /\ vote' = Idle
    /\ \/ Show(vote.standing) /\ UNCHANGED fetch
       \/ (fetch' = refetch(fetch) \/ UNCHANGED fetch) /\ UNCHANGED <<data, late, owed>>
    /\ UNCHANGED <<pvars, tally, wire, fed, arrived>>

\* The server reads the standing for the fetch.
ResultsRead ==
    /\ fetch = Asked
    /\ fetch' = Answer(tally)
    /\ UNCHANGED <<pvars, tally, wire, fed, data, vote, arrived, late, owed>>

\* The query has its answer, or its error after the retries, which owes nothing more.
FetchAnswered ==
    /\ fetch # Idle
    /\ fetch' = Idle
    /\ \/ fetch # Asked /\ Show(fetch.standing)
       \/ owed' = 0 /\ UNCHANGED <<data, late>>
    /\ UNCHANGED <<pvars, tally, wire, fed, vote, arrived>>

Next ==
    \/ \E s \in Sockets :
        \/ Appear(s) \/ refresh(s) \/ SocketOpens(s) \/ SocketCloses(s)
        \/ ServerSends(s) \/ applyEvent(s)
    \/ Vanish \/ Retry \/ Signal
    \/ VoteElsewhere \/ CastVote \/ VoteAnswered
    \/ ResultsRead \/ FetchAnswered

Spec == Init /\ [][Next]_vars

\* A request is answered or fails; a socket that connects or is being closed does so;
\* a timer goes off.
FairSpec ==
    /\ Spec
    /\ WF_vars(ResultsRead) /\ WF_vars(FetchAnswered)
    /\ WF_vars(Retry)
    /\ \A s \in Sockets :
        WF_vars(SocketOpens(s) \/ (socket[s] # "open" /\ SocketCloses(s)))

-----------------------------------------------------------------------------
(* What the page promises. *)

Standings == 0 .. MaxTally
Requests == [stage : {"idle", "sent", "answered"}, standing : Standings]

\* Type invariant.
ViewOK ==
    /\ SocketOK
    /\ tally \in Standings
    /\ wire \in [Sockets -> Seq(Standings)] /\ fed \in [Sockets -> Standings]
    /\ data \in SUBSET Standings
    /\ fetch \in Requests /\ vote \in Requests
    /\ arrived \in Standings /\ late \in BOOLEAN /\ owed \in Standings

\* Nothing is on its way to the page.
Quiet ==
    /\ fetch = Idle /\ vote = Idle
    /\ \A s \in Sockets : wire[s] = <<>>

\* With nothing on its way, the screen is no older than anything the servers have put on
\* a socket that is open, unless what it shows came after something newer, which the page
\* does not compare: an answer that was read earlier, or a frame of updates that changed
\* places (usePollResults.ts:48-70, PollPage.tsx:43-47).
StaleScreensAreLate ==
    Quiet /\ ~late =>
        \A s \in Sockets : socket[s] = "open" => \A n \in data : n >= fed[s]

\* After a reconnection the screen comes to show what had happened when it was made, or
\* the fetch fails, or the page goes: the socket need not last until its first frame
\* (usePollWebSocket.ts:26-35, usePollResults.ts:77-83).
NothingStaysMissed == owed > 0 ~> owed = 0

\* What starts the count of attempts again.
Helped ==
    \E s \in Sockets : Enable(s) \/ reconnect(s) \/ Opens(s) \/ (Wakes /\ socketRef = "none")

\* A server that has gone is not tried for ever: without help the hook gives up, or has
\* the socket it wants (usePollWebSocket.ts:46-53, 141-147).
RetriesEnd ==
    <>[][~Helped]_vars =>
        <>[](~enabled \/ status \in {"connected", "disconnected"})

=============================================================================
