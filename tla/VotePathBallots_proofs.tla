----------------------- MODULE VotePathBallots_proofs -----------------------
(***************************************************************************)
(* The vote path implements the ballot box: each of its steps is a step of *)
(* BallotBox, or leaves the box as it is.                                  *)
(***************************************************************************)
EXTENDS VotePathBallots, VotePathCounters_proofs

\* What the variables of the box stand for.
Exists == poll.stage = "live"
Admitted == {Vote(r) : r \in {q \in Requests : IsAdmitted(q)}}
ConfirmedVotes == {Vote(r) : r \in {q \in Requests : Confirmed(q)}}

\* The poll, as the box sees it, is what it was.
SameBox ==
    /\ (poll.stage = "live")' <=> poll.stage = "live"
    /\ (poll.status = "closed")' <=> poll.status = "closed"
    /\ AcceptsVotes(poll, now)' <=> AcceptsVotes(poll, now)
    /\ poll'.options = poll.options

-----------------------------------------------------------------------------
(* Ballots and the requests they come from. *)

\* The document's own _id tells votes of different requests apart.
LEMMA VotesDiffer ==
  ASSUME NEW r \in Requests, NEW q \in Requests, Vote(r) = Vote(q)
  PROVE  r = q
  BY DEF Vote

LEMMA VoteIsBallot ==
  ASSUME TypeOK, NEW r \in Requests, Cast(r)
  PROVE  Vote(r) \in Ballots
  <1>1. IsCall(call[r])
    BY CallsAssumption DEF Cast, TypeOK, ControlOK
  <1>. QED  BY <1>1 DEF Vote, Ballots, IsCall, Cast, Op

\* Only votes are admitted, and only until they are stored.
LEMMA AdmittedIsCast ==
  ASSUME TypeOK, NEW r \in Requests, IsAdmitted(r)
  PROVE  Cast(r) /\ pc[r] \in {"admit", "insert"}
  BY AtStep DEF IsAdmitted, Cast, IsStepOf, TypeOK

\* What one request does to the sets of ballots under way, given that the others
\* and their ballots stay.
LEMMA BallotsUnderWay ==
  ASSUME NEW r \in Requests,
         \A q \in Requests \ {r} : /\ Vote(q)' = Vote(q)
                                   /\ IsAdmitted(q)' <=> IsAdmitted(q)
                                   /\ Confirmed(q)' <=> Confirmed(q)
  PROVE  /\ ~IsAdmitted(r) /\ ~IsAdmitted(r)' => Admitted' = Admitted
         /\ ~Confirmed(r) /\ ~Confirmed(r)' => ConfirmedVotes' = ConfirmedVotes
         /\ Vote(r)' = Vote(r) =>
              /\ IsAdmitted(r) /\ IsAdmitted(r)' => Admitted' = Admitted
              /\ IsAdmitted(r)' => Admitted' = Admitted \cup {Vote(r)}
              /\ ~IsAdmitted(r)' => Admitted' = Admitted \ {Vote(r)}
              /\ Confirmed(r)' => ConfirmedVotes' = ConfirmedVotes \cup {Vote(r)}
  <1>1. \A q \in Requests : Vote(q) = Vote(r) => q = r
    BY VotesDiffer
  <1>2. Admitted' = {Vote(q)' : q \in {p \in Requests : IsAdmitted(p)'}}
    BY DEF Admitted
  <1>3. ConfirmedVotes' = {Vote(q)' : q \in {p \in Requests : Confirmed(p)'}}
    BY DEF ConfirmedVotes
  <1>. HIDE DEF IsAdmitted, Confirmed, Vote
  <1>. QED  BY <1>1, <1>2, <1>3 DEF Admitted, ConfirmedVotes

\* A step of a request in flight is about its own ballot.
LEMMA OneBallotAtATime ==
  ASSUME TypeOK, NEW r \in Requests, Serve(r) \/ Crash(r)
  PROVE  /\ UNCHANGED <<now, call>> /\ Vote(r)' = Vote(r) /\ ~Confirmed(r)
         /\ \A q \in Requests \ {r} : /\ Vote(q)' = Vote(q)
                                      /\ IsAdmitted(q)' <=> IsAdmitted(q)
                                      /\ Confirmed(q)' <=> Confirmed(q)
  BY ServeIsLocal, ServeKeepsOthers DEF Vote, IsAdmitted, Confirmed, Op, AcceptsVotes, IsExpired

\* A step that changes neither the box nor a set of ballots.
LEMMA BoxStutters ==
  ASSUME SameBox, UNCHANGED votes, Admitted' = Admitted, ConfirmedVotes' = ConfirmedVotes
  PROVE  UNCHANGED Box!vars
  BY DEF SameBox, Box!vars, Box!box, Admitted, ConfirmedVotes

LEMMA SamePollSameBox ==
  ASSUME UNCHANGED <<poll, now>>
  PROVE  SameBox
  BY DEF SameBox, AcceptsVotes, IsExpired

-----------------------------------------------------------------------------
(* The initial state, and the steps of the environment. *)

LEMMA InitBox == Init => Box!Init
  <1>. SUFFICES ASSUME Init PROVE Box!Init
    OBVIOUS
  <1>1. \A r \in Requests : ~IsAdmitted(r) /\ ~Confirmed(r)
    BY DEF Init, IsAdmitted, Confirmed
  <1>. QED  BY <1>1 DEF Init, Box!Init, NoPoll

\* Time only closes the box, and with it the admission of votes not yet checked.
LEMMA TickBox == TypeOK /\ Tick => Box!Expire
  <1>. SUFFICES ASSUME TypeOK, Tick PROVE Box!Expire
    OBVIOUS
  <1>1. UNCHANGED <<poll, votes, pc, call, snap, reply>> /\ now' = now + 1 /\ now \in Nat
    BY BoundsAssumption DEF Tick, control, store, local, TypeOK, StoresOK
  <1>2. ASSUME NEW p \in Polls, AcceptsVotes(p, now') PROVE AcceptsVotes(p, now)
    BY <1>1, <1>2, BoundsAssumption DEF AcceptsVotes, IsExpired, Polls, NoExpiry
  <1>3. (poll.stage = "live" /\ AcceptsVotes(poll, now))' => AcceptsVotes(poll, now)
    BY <1>1, <1>2 DEF TypeOK, StoresOK
  <1>4. ASSUME NEW r \in Requests
        PROVE  /\ Vote(r)' = Vote(r) /\ (Confirmed(r)' <=> Confirmed(r))
               /\ IsAdmitted(r)' => IsAdmitted(r)
    BY <1>1, <1>2 DEF Vote, Confirmed, IsAdmitted, Op, TypeOK, LocalsOK
  <1>5. Admitted' \subseteq Admitted /\ ConfirmedVotes' = ConfirmedVotes
    <2>1. Admitted' = {Vote(q)' : q \in {p \in Requests : IsAdmitted(p)'}}
      BY DEF Admitted
    <2>2. ConfirmedVotes' = {Vote(q)' : q \in {p \in Requests : Confirmed(p)'}}
      BY DEF ConfirmedVotes
    <2>. HIDE DEF IsAdmitted, Confirmed, Vote
    <2>. QED  BY <1>4, <2>1, <2>2 DEF Admitted, ConfirmedVotes
  <1>. QED  BY <1>1, <1>3, <1>5 DEF Box!Expire, Admitted, ConfirmedVotes

\* While there is no poll nobody is served, so no ballot is under way.
LEMMA CreateBox == CInv /\ CreatePoll => Box!Offer
  <1>. SUFFICES ASSUME CInv, CreatePoll PROVE Box!Offer
    OBVIOUS
  <1>. USE DEF CInv, IInv
  <1>1. poll.options = {} /\ poll.status = "active"
    BY DEF CreatePoll, Offered, NoPoll
  <1>2. /\ poll'.stage = "live" /\ poll'.status = "active" /\ poll'.options \subseteq OptionIDs
        /\ UNCHANGED <<votes, pc, call, snap, reply>>
    BY DEF CreatePoll, control, local
  <1>3. \A r \in Requests : pc[r] = "idle"
    BY DEF CreatePoll, Lifecycle
  <1>4. \A r \in Requests : ~IsAdmitted(r) /\ ~IsAdmitted(r)' /\ ~Confirmed(r) /\ ~Confirmed(r)'
    BY <1>2, <1>3 DEF IsAdmitted, Confirmed
  <1>5. Admitted' = Admitted /\ ConfirmedVotes' = ConfirmedVotes
    <2>. HIDE DEF IsAdmitted, Confirmed
    <2>. QED  BY <1>4 DEF Admitted, ConfirmedVotes
  <1>. QED  BY <1>1, <1>2, <1>5 DEF Box!Offer, Admitted, ConfirmedVotes

LEMMA ArriveBox ==
  ASSUME TypeOK, NEW r \in Requests, Arrive(r)
  PROVE  UNCHANGED Box!vars
  <1>1. /\ UNCHANGED <<now, poll, votes, snap, reply>> /\ pc[r] = "idle" /\ pc'[r] = "load"
        /\ \A q \in Requests \ {r} : pc'[q] = pc[q] /\ call'[q] = call[q]
    BY DEF Arrive, Goto, store, TypeOK, ControlOK
  <1>2. \A q \in Requests \ {r} :
          /\ Vote(q)' = Vote(q)
          /\ IsAdmitted(q)' <=> IsAdmitted(q)
          /\ Confirmed(q)' <=> Confirmed(q)
    BY <1>1 DEF Vote, IsAdmitted, Confirmed, Op, AcceptsVotes, IsExpired
  <1>3. ~IsAdmitted(r) /\ ~IsAdmitted(r)' /\ ~Confirmed(r) /\ ~Confirmed(r)'
    BY <1>1 DEF IsAdmitted, Confirmed
  <1>4. Admitted' = Admitted /\ ConfirmedVotes' = ConfirmedVotes
    BY <1>2, <1>3, BallotsUnderWay
  <1>. QED  BY <1>1, <1>4, BoxStutters, SamePollSameBox

-----------------------------------------------------------------------------
(* The steps of a request that is not a vote. *)

\* A request that is not a vote has no ballot under way.
LEMMA OthersHaveNoBallot ==
  ASSUME TypeOK, TypeOK', NEW r \in Requests, Serve(r) \/ Crash(r), Op(r) # "cast"
  PROVE  Admitted' = Admitted /\ ConfirmedVotes' = ConfirmedVotes
  <1>1. ~IsAdmitted(r) /\ ~Confirmed(r)
    BY AdmittedIsCast DEF Cast, Confirmed
  <1>2. Op(r)' # "cast"
    BY OneBallotAtATime DEF Op
  <1>3. ~IsAdmitted(r)' /\ ~Confirmed(r)'
    <2>1. pc'[r] \notin {"admit", "insert"}
      <3>1. call[r] # NoCall /\ call[r] \in Calls /\ call' = call
        BY OneBallotAtATime, ServeIsLocal, CallsAssumption DEF TypeOK, ControlOK, IsCall, NoCall, Managing
      <3>2. ControlOK'
        BY DEF TypeOK
      <3>. QED  BY <1>2, <3>1, <3>2 DEF ControlOK, IsStepOf
    <2>. QED  BY <1>2, <2>1 DEF IsAdmitted, Confirmed
  <1>. QED  BY <1>1, <1>3, BallotsUnderWay, OneBallotAtATime

LEMMA ManagingBox ==
  ASSUME CInv, TypeOK', NEW r \in Requests, Serve(r) \/ Crash(r), Op(r) # "cast"
  PROVE  Box!Next \/ UNCHANGED Box!vars
  <1>. USE DEF CInv, IInv
  <1>1. Admitted' = Admitted /\ ConfirmedVotes' = ConfirmedVotes
    BY OthersHaveNoBallot
  <1>2. UNCHANGED <<now, call>>
    BY OneBallotAtATime
  <1>3. CASE UNCHANGED <<poll, votes>>
    BY <1>1, <1>2, <1>3, BoxStutters, SamePollSameBox
  <1>4. CASE UpdatePoll(r) /\ poll' # poll
    <2>1. /\ poll.stage = "live" /\ poll'.stage = "live" /\ poll'.status = poll.status
          /\ UNCHANGED votes /\ poll'.options \subseteq OptionIDs
      BY <1>4 DEF UpdatePoll, Patched, TypeOK, StoresOK, Polls
    <2>2. poll.status = "closed" => ~AcceptsVotes(poll, now)'
      BY <2>1 DEF AcceptsVotes
    <2>3. Box!Offer
      BY <1>1, <2>1, <2>2 DEF Box!Offer, Admitted, ConfirmedVotes
    <2>. QED  BY <2>3 DEF Box!Next
  <1>5. CASE ClosePoll(r) /\ poll' # poll
    <2>1. /\ poll.stage = "live" /\ poll'.stage = "live" /\ poll'.status = "closed"
          /\ UNCHANGED votes /\ poll'.options = poll.options
      BY <1>5 DEF ClosePoll, TypeOK, StoresOK, Polls
    <2>2. ~AcceptsVotes(poll, now)'
      BY <2>1 DEF AcceptsVotes
    <2>3. Box!Close
      BY <1>1, <2>1, <2>2 DEF Box!Close, Admitted, ConfirmedVotes
    <2>. QED  BY <2>3 DEF Box!Next
  <1>6. CASE DeletePoll(r) /\ poll' # poll
    <2>1. /\ poll.stage = "live" /\ poll'.stage = "deleted" /\ poll'.status = poll.status
          /\ UNCHANGED votes /\ poll'.options = poll.options
      BY <1>6 DEF DeletePoll, TypeOK, StoresOK, Polls
    <2>2. Box!Delete
      BY <1>1, <2>1 DEF Box!Delete, Admitted, ConfirmedVotes
    <2>. QED  BY <2>2 DEF Box!Next
  <1>7. CASE DeleteByPoll(r)
    <2>1. poll.stage = "deleted" /\ UNCHANGED poll /\ votes' \subseteq votes
      BY <1>7 DEF DeleteByPoll, Lifecycle
    <2>2. SameBox
      BY <1>2, <2>1, SamePollSameBox
    <2>3. Box!Discard
      BY <1>1, <2>1, <2>2 DEF Box!Discard, Box!box, SameBox, Admitted, ConfirmedVotes
    <2>. QED  BY <2>3 DEF Box!Next
  <1>8. CASE ~DeleteByPoll(r) /\ ~UpdatePoll(r) /\ ~ClosePoll(r) /\ ~DeletePoll(r)
    <2>1. ~Insert(r)
      BY AtStep DEF Insert, IsStepOf, TypeOK
    <2>. QED
      BY <1>3, <1>8, <2>1
      DEF Serve, Crash, Load, Admit, IncrementOption, ForPoll, CountsByPoll, ReplaceResults,
          PublishResults, CountByPoll, Validate, DeleteResults, MongoFails,
          CountsByPollFails, store
  <1>9. CASE UNCHANGED poll /\ (UpdatePoll(r) \/ ClosePoll(r) \/ DeletePoll(r))
    BY <1>3, <1>9 DEF UpdatePoll, ClosePoll, DeletePoll
  <1>. QED  BY <1>4, <1>5, <1>6, <1>7, <1>8, <1>9

-----------------------------------------------------------------------------
(* The steps of a vote. *)

LEMMA AdmitBox ==
  ASSUME TypeOK, NEW r \in Requests, Cast(r), Exists, AcceptsVotes(poll, now),
         call[r].option \in poll.options, SameBox, UNCHANGED votes,
         Admitted' = Admitted \cup {Vote(r)}, ConfirmedVotes' = ConfirmedVotes
  PROVE  Box!Next
  <1>1. Vote(r) \in Ballots /\ Vote(r).option = call[r].option
    BY VoteIsBallot DEF Vote
  <1>2. Box!Admit(Vote(r))
    BY <1>1 DEF Box!Admit, Box!box, SameBox, Admitted, ConfirmedVotes, Exists
  <1>. QED  BY <1>1, <1>2 DEF Box!Next

LEMMA LapseBox ==
  ASSUME TypeOK, NEW r \in Requests, Cast(r), SameBox, UNCHANGED votes,
         Admitted' = Admitted \ {Vote(r)}, ConfirmedVotes' = ConfirmedVotes
  PROVE  Box!Next
  <1>1. Vote(r) \in Ballots
    BY VoteIsBallot
  <1>2. Box!Lapse(Vote(r))
    BY DEF Box!Lapse, Box!box, SameBox, Admitted, ConfirmedVotes
  <1>. QED  BY <1>1, <1>2 DEF Box!Next

LEMMA ConfirmBox ==
  ASSUME TypeOK, NEW r \in Requests, Cast(r), SameBox, UNCHANGED votes,
         Exists => Vote(r) \in votes,
         Admitted' = Admitted, ConfirmedVotes' = ConfirmedVotes \cup {Vote(r)}
  PROVE  Box!Next
  <1>1. Vote(r) \in Ballots
    BY VoteIsBallot
  <1>2. Box!Confirm(Vote(r))
    BY DEF Box!Confirm, Box!box, SameBox, Admitted, ConfirmedVotes, Exists
  <1>. QED  BY <1>1, <1>2 DEF Box!Next

LEMMA StoreBox ==
  ASSUME TypeOK, NEW r \in Requests, Cast(r), SameBox, Vote(r) \in Admitted,
         ~HasVoted(call[r].voter), votes' = votes \cup {Vote(r)},
         Admitted' = Admitted \ {Vote(r)}, ConfirmedVotes' = ConfirmedVotes
  PROVE  Box!Next
  <1>1. Vote(r) \in Ballots /\ Vote(r).voter = call[r].voter
    BY VoteIsBallot DEF Vote
  <1>2. Box!Store(Vote(r))
    BY <1>1 DEF Box!Store, Box!box, SameBox, Admitted, ConfirmedVotes, HasVoted
  <1>. QED  BY <1>1, <1>2 DEF Box!Next

LEMMA VotingBox ==
  ASSUME CInv, TypeOK', NEW r \in Requests, Serve(r) \/ Crash(r), Op(r) = "cast"
  PROVE  Box!Next \/ UNCHANGED Box!vars
  <1>. USE DEF CInv, IInv
  <1>1. /\ UNCHANGED <<now, call>> /\ Vote(r)' = Vote(r) /\ ~Confirmed(r)
        /\ pc[r] \notin {"idle", "done", "aborted"} /\ Cast(r)
        /\ reply[r] = "none"
    BY OneBallotAtATime, ServeIsLocal DEF Cast, Lifecycle
  <1>2. /\ ~IsAdmitted(r) /\ ~IsAdmitted(r)' => Admitted' = Admitted
        /\ IsAdmitted(r) /\ IsAdmitted(r)' => Admitted' = Admitted
        /\ IsAdmitted(r)' => Admitted' = Admitted \cup {Vote(r)}
        /\ ~IsAdmitted(r)' => Admitted' = Admitted \ {Vote(r)}
        /\ ~Confirmed(r)' => ConfirmedVotes' = ConfirmedVotes
        /\ Confirmed(r)' => ConfirmedVotes' = ConfirmedVotes \cup {Vote(r)}
    <2>1. \A q \in Requests \ {r} :
            /\ Vote(q)' = Vote(q)
            /\ IsAdmitted(q)' <=> IsAdmitted(q)
            /\ Confirmed(q)' <=> Confirmed(q)
      BY OneBallotAtATime
    <2>. QED  BY <1>1, <2>1, BallotsUnderWay
  <1>. HIDE DEF Admitted, ConfirmedVotes
  <1>3. ASSUME UNCHANGED <<poll, votes>>, ~IsAdmitted(r), ~IsAdmitted(r)', ~Confirmed(r)'
        PROVE  UNCHANGED Box!vars
    BY <1>1, <1>2, <1>3, BoxStutters, SamePollSameBox
  <1>4. ASSUME UNCHANGED <<poll, votes>>, ~IsAdmitted(r)', ~Confirmed(r)'
        PROVE  Box!Next
    BY <1>1, <1>2, <1>4, LapseBox, SamePollSameBox
  <1>5. ASSUME pc'[r] = "aborted" \/ (pc'[r] = "done" /\ reply'[r] # "ok")
        PROVE  ~IsAdmitted(r)' /\ ~Confirmed(r)'
    BY <1>5 DEF IsAdmitted, Confirmed
  <1>6. CASE Load(r)
    <2>1. UNCHANGED <<poll, votes>> /\ pc[r] = "load" /\ ~IsAdmitted(r)
      BY <1>6 DEF Load, store, IsAdmitted
    <2>2. CASE IsAdmitted(r)'
      <3>1. /\ pc'[r] \in {"admit", "insert"} /\ poll.stage = "live"
            /\ snap'[r] = poll /\ pc'[r] = FirstStep(call[r])
        BY <1>6, <2>2 DEF Load, Goto, Answer, IsAdmitted, TypeOK, ControlOK, LocalsOK
      <3>2. pc'[r] = "admit"
        BY <1>6, <3>1, FirstSteps DEF Load, Op, TypeOK, ControlOK
      <3>3. AcceptsVotes(poll, now) /\ call[r].option \in poll.options
        BY <1>1, <2>2, <3>1, <3>2 DEF IsAdmitted, AcceptsVotes, IsExpired
      <3>4. ~Confirmed(r)'
        BY <3>2 DEF Confirmed
      <3>. QED
        BY <1>1, <1>2, <2>1, <2>2, <3>1, <3>3, <3>4, AdmitBox, SamePollSameBox DEF Exists
    <2>3. CASE ~IsAdmitted(r)'
      <3>1. ~Confirmed(r)'
        BY <1>1, <1>6
        DEF Load, Goto, Answer, Confirmed, Op, TypeOK, ControlOK, LocalsOK
      <3>. QED  BY <1>3, <2>1, <2>3, <3>1
    <2>. QED  BY <2>2, <2>3
  <1>7. CASE Admit(r)
    <2>1. UNCHANGED <<poll, votes, snap>> /\ pc[r] = "admit"
      BY <1>7 DEF Admit, store, local
    <2>2. CASE /\ call[r].option \in snap[r].options /\ AcceptsVotes(snap[r], now)
               /\ Goto(r, "insert")
      <3>1. IsAdmitted(r) /\ IsAdmitted(r)' /\ ~Confirmed(r)'
        BY <2>1, <2>2 DEF Goto, IsAdmitted, Confirmed, TypeOK, ControlOK
      <3>. QED  BY <1>1, <1>2, <2>1, <3>1, BoxStutters, SamePollSameBox
    <2>3. CASE Answer(r, "invalid") \/ Answer(r, "poll closed")
      <3>1. pc'[r] = "done" /\ reply'[r] # "ok"
        BY <2>3 DEF Answer, TypeOK, ControlOK, LocalsOK
      <3>. QED  BY <1>4, <1>5, <2>1, <3>1
    <2>. QED  BY <1>7, <2>2, <2>3 DEF Admit
  <1>8. CASE Insert(r)
    <2>1. UNCHANGED poll /\ pc[r] = "insert" /\ IsAdmitted(r)
      BY <1>8 DEF Insert, IsAdmitted
    <2>2. CASE Answer(r, "already voted") /\ UNCHANGED votes
      <3>1. pc'[r] = "done" /\ reply'[r] # "ok"
        BY <2>2 DEF Answer, TypeOK, ControlOK, LocalsOK
      <3>. QED  BY <1>4, <1>5, <2>1, <2>2, <3>1
    <2>3. CASE /\ ~HasVoted(call[r].voter) /\ votes' = votes \cup {Vote(r)}
               /\ Goto(r, "record") \/ Unacknowledged(r)
      <3>1. \/ pc'[r] = "record" /\ reply'[r] = "none"
            \/ pc'[r] = "done" /\ reply'[r] = "error"
        BY <1>1, <2>3 DEF Goto, Unacknowledged, Answer, TypeOK, ControlOK, LocalsOK
      <3>2. ~IsAdmitted(r)' /\ ~Confirmed(r)'
        BY <3>1 DEF IsAdmitted, Confirmed
      <3>3. Vote(r) \in Admitted
        BY <2>1 DEF Admitted
      <3>. QED  BY <1>1, <1>2, <2>1, <2>3, <3>2, <3>3, StoreBox, SamePollSameBox
    <2>. QED  BY <1>8, <2>2, <2>3 DEF Insert
  <1>9. CASE MongoFails(r) \/ Crash(r)
    <2>1. UNCHANGED <<poll, votes>>
      BY <1>9 DEF MongoFails, Crash, store
    <2>2. pc'[r] = "aborted" \/ (pc'[r] = "done" /\ reply'[r] # "ok")
      BY <1>9 DEF MongoFails, Crash, Unacknowledged, Answer, TypeOK, ControlOK, LocalsOK
    <2>. QED  BY <1>4, <1>5, <2>1, <2>2
  <1>10. CASE pc[r] \in Recording
    <2>1. UNCHANGED <<poll, votes>> /\ pc'[r] \in Recording \cup {"done", "aborted"}
      BY <1>10, RecordingGoesOn
    <2>2. ~IsAdmitted(r) /\ ~IsAdmitted(r)'
      BY <1>10, <2>1 DEF IsAdmitted, Recording
    <2>3. CASE Confirmed(r)'
      <3>1. Exists => Vote(r) \in votes
        BY <1>1, <1>10 DEF Ledger, Exists
      <3>. QED  BY <1>1, <1>2, <2>1, <2>2, <2>3, <3>1, ConfirmBox, SamePollSameBox
    <2>4. CASE ~Confirmed(r)'
      BY <1>3, <2>1, <2>2, <2>4
    <2>. QED  BY <2>3, <2>4
  <1>11. pc[r] \in {"load", "admit", "insert"} \cup Recording
    BY <1>1, AtStep DEF IsStepOf, Recording, TypeOK
  <1>. QED
    BY <1>6, <1>7, <1>8, <1>9, <1>10, <1>11
    DEF Serve, IncrementOption, ForPoll, CountsByPoll, ReplaceResults, PublishResults,
        CountByPoll, Validate, UpdatePoll, ClosePoll, DeletePoll, DeleteByPoll, DeleteResults,
        CountsByPollFails

-----------------------------------------------------------------------------

\* However requests interleave and fail, every vote stored was admitted while the poll
\* was open and offered its option, as its voter's first; a confirmed vote is stored;
\* and only a poll that is gone loses votes (vote_service.go:57-64, 98-102).
THEOREM VotePathIsABallotBox == Spec => ImplementsBallotBox
  <1>1. CInv /\ TypeOK' /\ [Next]_vars => [Box!Next]_(Box!vars)
    <2>. SUFFICES ASSUME CInv, TypeOK', [Next]_vars PROVE Box!Next \/ UNCHANGED Box!vars
      OBVIOUS
    <2>1. CASE Tick
      BY <2>1, TickBox DEF Box!Next, CInv, IInv
    <2>2. CASE CreatePoll
      BY <2>2, CreateBox DEF Box!Next
    <2>3. ASSUME NEW r \in Requests, Arrive(r) PROVE UNCHANGED Box!vars
      BY <2>3, ArriveBox DEF CInv, IInv
    <2>4. ASSUME NEW r \in Requests, Serve(r) \/ Crash(r) PROVE Box!Next \/ UNCHANGED Box!vars
      BY <2>4, VotingBox, ManagingBox
    <2>5. CASE LoseKey \/ UNCHANGED vars
      <3>1. UNCHANGED <<now, poll, votes, pc, call, snap, reply>>
        BY <2>5 DEF LoseKey, vars, control, store, local
      <3>2. Admitted' = Admitted /\ ConfirmedVotes' = ConfirmedVotes
        BY <3>1 DEF Admitted, ConfirmedVotes, IsAdmitted, Confirmed, Vote, Op, AcceptsVotes, IsExpired
      <3>. QED  BY <3>1, <3>2, BoxStutters, SamePollSameBox
    <2>. QED  BY <2>1, <2>2, <2>3, <2>4, <2>5 DEF Next
  <1>2. CInv => TypeOK
    BY DEF CInv, IInv
  <1>. QED  BY <1>1, <1>2, InitBox, CountersInductive, PTL DEF Spec, ImplementsBallotBox, Box!Spec

=============================================================================
