----------------------- MODULE VotePathCounters_proofs -----------------------
(***************************************************************************)
(* What the counters of VotePath show of the votes: whatever happens, they *)
(* are whole and a rebuild counts the vote it runs for; with requests      *)
(* served one at a time, they and the last update are exact.               *)
(***************************************************************************)
EXTENDS VotePath_proofs

\* A request past its load and before its answer.
Loaded(r) == pc[r] \notin {"idle", "load", "done", "aborted"}

\* The options a request works with were a poll's, and a vote past its checks is
\* for one of them.
Offered ==
    /\ poll.stage = "absent" => poll = NoPoll /\ counters = NoFields
    /\ poll.stage # "absent" => ValidOptions(poll.options)
    /\ \A r \in Requests : Loaded(r) =>
        /\ ValidOptions(snap[r].options)
        /\ Op(r) = "cast" /\ pc[r] # "admit" => call[r].option \in snap[r].options

\* A hash of counters, and a tally on its way to become one, cover a poll's options.
Whole ==
    /\ NoPartialHash
    /\ \A r \in Requests :
        pc[r] \in {"record replace", "replace"} => DOMAIN byOption[r] = snap[r].options

-----------------------------------------------------------------------------
(* What a step of one request leaves alone. *)

LEMMA ServeKeepsOthers ==
  ASSUME NEW r \in Requests, Serve(r) \/ Crash(r), TypeOK
  PROVE  /\ \A q \in Requests \ {r} :
              snap'[q] = snap[q] /\ byOption'[q] = byOption[q] /\ results'[q] = results[q]
         /\ UNCHANGED snap \/ Load(r) \/ ClosePoll(r)
         /\ UNCHANGED byOption \/ CountsByPoll(r) \/ ReplaceResults(r)
         /\ UNCHANGED results \/ ForPoll(r) \/ ReplaceResults(r)
         /\ UNCHANGED counters \/ IncrementOption(r) \/ ReplaceResults(r) \/ DeleteResults(r)
         /\ UNCHANGED now
  <1>. USE DEF TypeOK, LocalsOK
  <1>1. CASE Load(r) \/ ClosePoll(r)
    BY <1>1 DEF Load, ClosePoll, cache
  <1>2. CASE CountsByPoll(r) \/ ReplaceResults(r) \/ ForPoll(r)
    BY <1>2 DEF CountsByPoll, ReplaceResults, ForPoll, Standing, RedisFails, cache
  <1>3. CASE IncrementOption(r) \/ DeleteResults(r)
    BY <1>3 DEF IncrementOption, DeleteResults, local
  <1>4. CASE \/ Crash(r) \/ Admit(r) \/ Insert(r) \/ PublishResults(r) \/ CountByPoll(r)
             \/ Validate(r) \/ UpdatePoll(r) \/ DeletePoll(r) \/ DeleteByPoll(r)
             \/ MongoFails(r) \/ CountsByPollFails(r)
    BY <1>4
    DEF Crash, Admit, Insert, PublishResults, CountByPoll, Validate, UpdatePoll, DeletePoll,
        DeleteByPoll, MongoFails, CountsByPollFails, local, cache
  <1>. QED  BY <1>1, <1>2, <1>3, <1>4 DEF Serve

LEMMA StepOffered == TypeOK /\ Lifecycle /\ Offered /\ [Next]_vars => Offered'
  <1>. SUFFICES ASSUME TypeOK, Lifecycle, Offered, [Next]_vars PROVE Offered'
    OBVIOUS
  <1>1. CASE UNCHANGED <<poll, counters, pc, call, snap>>
    BY <1>1 DEF Offered, Loaded, Op, ValidOptions, NoPoll, NoFields
  <1>2. CASE CreatePoll
    BY <1>2 DEF CreatePoll, control, Offered, Lifecycle, Loaded, local, ValidOptions
  <1>3. CASE LoseKey
    BY <1>3 DEF LoseKey, control, Offered, Loaded, Op, store, local, ValidOptions, NoPoll, NoFields
  <1>4. ASSUME NEW r \in Requests, Arrive(r) PROVE Offered'
    BY <1>4
    DEF Arrive, Goto, Offered, Loaded, Op, store, cache, ValidOptions, TypeOK, ControlOK
  <1>5. ASSUME NEW r \in Requests, Serve(r) \/ Crash(r) PROVE Offered'
    <2>1. /\ pc[r] \notin {"idle", "done", "aborted"} /\ UNCHANGED call
          /\ \A q \in Requests \ {r} : pc'[q] = pc[q] /\ snap'[q] = snap[q]
      BY <1>5, ServeIsLocal, ServeKeepsOthers
    <2>2. poll.stage # "absent" /\ poll'.stage # "absent" /\ ValidOptions(poll.options)
      BY <1>5, <2>1, ServeAndPoll DEF Lifecycle, Offered
    <2>3. ValidOptions(poll'.options)
      <3>1. CASE UpdatePoll(r)
        BY <2>2, <3>1 DEF UpdatePoll, Patched, TypeOK, StoresOK, Polls
      <3>2. CASE ClosePoll(r) \/ DeletePoll(r)
        BY <2>2, <3>2 DEF ClosePoll, DeletePoll, TypeOK, StoresOK, Polls
      <3>3. CASE UNCHANGED poll
        BY <2>2, <3>3
      <3>. QED
        BY <1>5, <3>1, <3>2, <3>3
        DEF Serve, Crash, Load, Admit, Insert, IncrementOption, ForPoll, CountsByPoll,
            ReplaceResults, PublishResults, CountByPoll, Validate, DeleteByPoll, DeleteResults,
            MongoFails, CountsByPollFails, store
    <2>4. ASSUME Loaded(r)' PROVE ValidOptions(snap'[r].options)
      <3>1. CASE Load(r)
        BY <2>2, <2>4, <3>1 DEF Load, Loaded, Answer, TypeOK, ControlOK, LocalsOK
      <3>2. CASE ClosePoll(r)
        BY <2>3, <2>4, <3>2
        DEF ClosePoll, Loaded, Unacknowledged, Answer, TypeOK, ControlOK, LocalsOK
      <3>3. CASE UNCHANGED snap /\ pc[r] # "load"
        BY <2>1, <3>3 DEF Offered, Loaded
      <3>4. CASE pc[r] = "load" /\ (MongoFails(r) \/ Crash(r))
        BY <2>4, <3>4 DEF MongoFails, Crash, Loaded, Unacknowledged, Answer, TypeOK, ControlOK
      <3>5. Load(r) \/ MongoFails(r) \/ Crash(r) \/ pc[r] # "load"
        BY <1>5
        DEF Serve, Admit, Insert, IncrementOption, ForPoll, CountsByPoll, ReplaceResults,
            PublishResults, CountByPoll, Validate, UpdatePoll, ClosePoll, DeletePoll,
            DeleteByPoll, DeleteResults, CountsByPollFails
      <3>. QED  BY <1>5, <3>1, <3>2, <3>3, <3>4, <3>5, ServeKeepsOthers
    <2>5. ASSUME Loaded(r)', Op(r) = "cast", pc'[r] # "admit"
          PROVE  call[r].option \in snap'[r].options
      <3>1. UNCHANGED snap
        <4>1. ~ClosePoll(r)
          BY <2>5 DEF ClosePoll
        <4>2. ~Load(r)
          BY <2>1, <2>5, FirstSteps
          DEF Load, Loaded, Goto, Answer, Op, TypeOK, ControlOK
        <4>. QED  BY <1>5, <4>1, <4>2, ServeKeepsOthers
      <3>2. CASE pc[r] \in Recording \cup {"insert"}
        BY <3>1, <2>5, <3>2 DEF Offered, Loaded, Recording
      <3>3. CASE pc[r] = "admit" /\ Admit(r)
        BY <2>5, <3>1, <3>3 DEF Admit, Loaded, Goto, Answer, TypeOK, ControlOK
      <3>4. CASE pc[r] = "load"
        BY <1>5, <2>5, <3>4, BeforeTheInsert, ServeIsLocal, FirstSteps
        DEF Serve, Crash, Load, Admit, Insert, IncrementOption, ForPoll, CountsByPoll,
            ReplaceResults, PublishResults, CountByPoll, Validate, UpdatePoll, ClosePoll,
            DeletePoll, DeleteByPoll, DeleteResults, MongoFails, CountsByPollFails,
            Unacknowledged, Resend, Stays, control, Goto, Answer, Loaded, Op, TypeOK, ControlOK
      <3>5. CASE pc[r] = "admit" /\ ~Admit(r)
        BY <1>5, <2>5, <3>5
        DEF Serve, Crash, Load, Insert, IncrementOption, ForPoll, CountsByPoll,
            ReplaceResults, PublishResults, CountByPoll, Validate, UpdatePoll, ClosePoll,
            DeletePoll, DeleteByPoll, DeleteResults, MongoFails, CountsByPollFails, Loaded,
            TypeOK, ControlOK
      <3>. QED
        BY <2>1, <2>5, <3>2, <3>3, <3>4, <3>5, AtStep DEF IsStepOf, Recording, TypeOK
    <2>6. ASSUME NEW q \in Requests, Loaded(q)'
          PROVE  /\ ValidOptions(snap'[q].options)
                 /\ Op(q) = "cast" /\ pc'[q] # "admit" => call[q].option \in snap'[q].options
      BY <2>1, <2>4, <2>5, <2>6 DEF Offered, Loaded
    <2>. QED  BY <2>1, <2>2, <2>3, <2>6 DEF Offered, Op, ValidOptions
  <1>. QED  BY <1>1, <1>2, <1>3, <1>4, <1>5 DEF Next, Tick, vars, control, store, cache, local

-----------------------------------------------------------------------------
(* No partial hash. *)

\* A hash that gains a field is no smaller.
LEMMA IncrementKeepsFields ==
  ASSUME IsCounts(counters), NEW o \in OptionIDs
  PROVE  Cardinality(DOMAIN counters) =< Cardinality(DOMAIN Incremented(o))
  <1>1. DOMAIN counters \subseteq DOMAIN Incremented(o) /\ DOMAIN Incremented(o) \subseteq OptionIDs
    BY DEF Incremented, IsCounts
  <1>2. IsFiniteSet(DOMAIN Incremented(o))
    BY <1>1, OptionsAssumption, FS_Subset
  <1>. QED  BY <1>1, <1>2, FS_Subset

LEMMA StepWhole == TypeOK /\ Lifecycle /\ Offered /\ Whole /\ [Next]_vars => Whole'
  <1>. SUFFICES ASSUME TypeOK, Lifecycle, Offered, Whole, [Next]_vars PROVE Whole'
    OBVIOUS
  <1>1. CASE UNCHANGED <<counters, pc, byOption, snap>>
    BY <1>1 DEF Whole, NoPartialHash, NoFields
  <1>2. CASE LoseKey
    BY <1>2 DEF LoseKey, control, Whole, NoPartialHash, NoFields, local
  <1>3. ASSUME NEW r \in Requests, Arrive(r) PROVE Whole'
    BY <1>3 DEF Arrive, Goto, Whole, NoPartialHash, NoFields, cache, TypeOK, ControlOK
  <1>4. ASSUME NEW r \in Requests, Serve(r) \/ Crash(r) PROVE Whole'
    <2>1. /\ pc[r] \notin {"idle", "done", "aborted"} /\ UNCHANGED call
          /\ \A q \in Requests \ {r} :
                pc'[q] = pc[q] /\ snap'[q] = snap[q] /\ byOption'[q] = byOption[q]
      BY <1>4, ServeIsLocal, ServeKeepsOthers
    <2>2. NoPartialHash'
      <3>1. CASE UNCHANGED counters \/ DeleteResults(r)
        BY <3>1 DEF DeleteResults, Whole, NoPartialHash, NoFields
      <3>2. CASE IncrementOption(r) /\ counters' # counters
        <4>1. call[r].option \in OptionIDs
          BY <3>2, AtStep DEF IncrementOption, IsStepOf, IsCall, Op, TypeOK
        <4>2. Warm /\ counters' = Incremented(call[r].option)
          BY <3>2 DEF IncrementOption, RedisFails, cache
        <4>3. counters # NoFields /\ IsCounts(counters)
          BY <4>2 DEF Warm, NoFields, TypeOK, StoresOK
        <4>4. MinOptions =< Cardinality(DOMAIN counters)
          BY <4>3 DEF Whole, NoPartialHash
        <4>5. DOMAIN counters \subseteq OptionIDs /\ DOMAIN counters' \subseteq OptionIDs
          BY <4>1, <4>2, <4>3 DEF Incremented, IsCounts
        <4>6. Cardinality(DOMAIN counters) \in Nat /\ Cardinality(DOMAIN counters') \in Nat
          BY <4>5, OptionsAssumption, FS_Subset, FS_CardinalityType
        <4>7. Cardinality(DOMAIN counters) =< Cardinality(DOMAIN counters')
          BY <4>1, <4>2, <4>3, IncrementKeepsFields
        <4>. QED  BY <4>4, <4>6, <4>7, OptionsAssumption DEF NoPartialHash
      <3>3. CASE ReplaceResults(r) /\ counters' # counters
        <4>1. pc[r] \in {"record replace", "replace"} /\ counters' = byOption[r]
          BY <3>3 DEF ReplaceResults
        <4>2. ValidOptions(snap[r].options) /\ DOMAIN byOption[r] = snap[r].options
          BY <4>1 DEF Whole, Offered, Loaded
        <4>. QED  BY <4>1, <4>2 DEF NoPartialHash, ValidOptions
      <3>. QED  BY <1>4, <3>1, <3>2, <3>3, ServeKeepsOthers
    <2>3. ASSUME pc'[r] \in {"record replace", "replace"}
          PROVE  DOMAIN byOption'[r] = snap'[r].options
      <3>1. CASE CountsByPoll(r)
        BY <3>1 DEF CountsByPoll, Tally, TypeOK, LocalsOK
      <3>2. CASE Load(r)
        BY <2>1, <2>3, <3>2, FirstSteps DEF Load, Goto, Answer, Op, TypeOK, ControlOK
      <3>3. CASE Crash(r) \/ Admit(r) \/ Insert(r) \/ IncrementOption(r) \/ ForPoll(r)
                 \/ PublishResults(r)
        BY <2>3, <3>3
        DEF Crash, Admit, Insert, IncrementOption, ForPoll, PublishResults, Standing,
            RedisFails, Unacknowledged, Resend, Goto, Answer, TypeOK, ControlOK
      <3>4. CASE \/ CountByPoll(r) \/ Validate(r) \/ UpdatePoll(r) \/ ClosePoll(r)
                 \/ DeletePoll(r) \/ DeleteByPoll(r) \/ DeleteResults(r)
                 \/ MongoFails(r) \/ CountsByPollFails(r)
        BY <2>3, <3>4
        DEF CountByPoll, Validate, UpdatePoll, ClosePoll, DeletePoll, DeleteByPoll,
            DeleteResults, MongoFails, CountsByPollFails, Unacknowledged, Resend, Stays, control, Goto, Answer,
            TypeOK, ControlOK
      <3>5. CASE ReplaceResults(r)
        <4>1. Resend(r) /\ UNCHANGED <<byOption, snap>>
          BY <2>3, <3>5 DEF ReplaceResults, Standing, Goto, Answer, TypeOK, ControlOK
        <4>. QED  BY <2>3, <4>1 DEF Resend, Whole
      <3>. QED  BY <1>4, <3>1, <3>2, <3>3, <3>4, <3>5 DEF Serve
    <2>. QED  BY <2>1, <2>2, <2>3 DEF Whole
  <1>. QED  BY <1>1, <1>2, <1>3, <1>4 DEF Next, Tick, CreatePoll, vars, control, store, cache, local

-----------------------------------------------------------------------------
(* A rebuild counts the vote that runs it. *)

\* A stored vote is one of the votes for its option.
LEMMA StoredIsCounted ==
  ASSUME IsFiniteSet(votes), NEW d \in votes, NEW p, d.option \in p.options
  PROVE  Tally(p)[d.option] >= 1
  <1>1. d \in For(d.option) /\ IsFiniteSet(For(d.option))
    BY FS_Subset DEF For
  <1>2. Cardinality(For(d.option)) \in Nat /\ Cardinality(For(d.option)) # 0
    BY <1>1, FS_EmptySet, FS_CardinalityType
  <1>. QED  BY <1>2 DEF Tally

LEMMA StepOwnVote ==
  IInv /\ Offered /\ OwnRebuildCountsOwnVote /\ [Next]_vars => OwnRebuildCountsOwnVote'
  <1>. SUFFICES ASSUME IInv, Offered, OwnRebuildCountsOwnVote, [Next]_vars,
                       NEW r \in Requests, pc'[r] = "record replace", poll'.stage = "live"
                PROVE  byOption'[r][call'[r].option] >= 1
    BY DEF OwnRebuildCountsOwnVote
  <1>. USE DEF IInv
  <1>1. ASSUME pc[r] = "record replace", poll.stage = "live",
               byOption'[r] = byOption[r], call'[r] = call[r]
        PROVE  byOption'[r][call'[r].option] >= 1
    BY <1>1 DEF OwnRebuildCountsOwnVote
  <1>2. CASE CountsByPoll(r)
    <2>1. pc[r] = "record aggregate" /\ UNCHANGED <<poll, call>> /\ Op(r) = "cast"
      BY <1>2, AtStep DEF CountsByPoll, Goto, store, TypeOK, ControlOK, IsStepOf
    <2>2. Vote(r) \in votes
      BY <2>1 DEF Ledger, Cast, Recording
    <2>3. Vote(r).option \in snap[r].options
      BY <2>1 DEF Offered, Loaded, Vote
    <2>4. Tally(snap[r])[call[r].option] >= 1
      BY <2>2, <2>3, StoredIsCounted DEF TypeOK, StoresOK, Vote
    <2>. QED  BY <1>2, <2>1, <2>4 DEF CountsByPoll, TypeOK, LocalsOK
  <1>3. ASSUME NEW q \in Requests, Serve(q) \/ Crash(q), q # r
        PROVE  byOption'[r][call'[r].option] >= 1
    BY <1>1, <1>3, ServeIsLocal, ServeKeepsOthers, ServeAndPoll
  <1>8. CASE ReplaceResults(r)
    <2>1. Resend(r) /\ UNCHANGED <<byOption, poll, call>>
      BY <1>8 DEF ReplaceResults, Standing, Goto, Answer, store, TypeOK, ControlOK
    <2>. QED  BY <1>1, <2>1 DEF Resend
  <1>4. ASSUME Serve(r) \/ Crash(r), ~CountsByPoll(r), ~ReplaceResults(r) PROVE FALSE
    <2>1. pc[r] \notin {"idle", "done", "aborted"}
      BY <1>4, ServeIsLocal
    <2>2. CASE Load(r)
      BY <2>1, <2>2, FirstSteps DEF Load, Goto, Answer, Op, TypeOK, ControlOK
    <2>3. CASE Crash(r) \/ Admit(r) \/ Insert(r) \/ IncrementOption(r) \/ ForPoll(r)
               \/ PublishResults(r)
      BY <2>3
      DEF Crash, Admit, Insert, IncrementOption, ForPoll, PublishResults, Standing, RedisFails,
          Unacknowledged, Resend, Goto, Answer, TypeOK, ControlOK
    <2>4. CASE \/ CountByPoll(r) \/ Validate(r) \/ UpdatePoll(r) \/ ClosePoll(r)
               \/ DeletePoll(r) \/ DeleteByPoll(r) \/ DeleteResults(r)
               \/ MongoFails(r) \/ CountsByPollFails(r)
      BY <2>4
      DEF CountByPoll, Validate, UpdatePoll, ClosePoll, DeletePoll, DeleteByPoll,
          DeleteResults, MongoFails, CountsByPollFails, Unacknowledged, Resend, Stays, control, Goto, Answer,
          TypeOK, ControlOK
    <2>. QED  BY <1>4, <2>2, <2>3, <2>4 DEF Serve
  <1>5. ASSUME NEW q \in Requests, Arrive(q) PROVE byOption'[r][call'[r].option] >= 1
    <2>1. q # r /\ pc[r] = "record replace" /\ call'[r] = call[r]
      BY <1>5 DEF Arrive, Goto, TypeOK, ControlOK
    <2>. QED  BY <1>1, <1>5, <2>1 DEF Arrive, store
  <1>6. CASE CreatePoll
    BY <1>6 DEF CreatePoll, control, Lifecycle
  <1>7. CASE UNCHANGED <<poll, pc, call, byOption>>
    BY <1>1, <1>7
  <1>. QED
    BY <1>2, <1>3, <1>4, <1>5, <1>6, <1>7, <1>8
    DEF Next, Tick, LoseKey, vars, control, store, local

\* The invariant of the counters.
CInv == IInv /\ Offered /\ Whole /\ OwnRebuildCountsOwnVote

LEMMA CountersInductive == Spec => []CInv
  <1>1. Init => Offered /\ Whole /\ OwnRebuildCountsOwnVote
    BY DEF Init, Offered, Whole, Loaded, NoPoll, NoPartialHash, OwnRebuildCountsOwnVote
  <1>2. IInv /\ IInv' /\ Offered /\ Whole /\ OwnRebuildCountsOwnVote /\ [Next]_vars
          => Offered' /\ Whole' /\ OwnRebuildCountsOwnVote'
    BY StepOffered, StepWhole, StepOwnVote DEF IInv
  <1>. QED  BY <1>1, <1>2, Inductive, PTL DEF Spec, CInv

\* The script that increments only a warm key, and a rebuild that seeds every option,
\* keep the hash whole whatever interleaves and fails (redis/counters.go:25-31).
THEOREM KeysAreWhole == Spec => []NoPartialHash
  <1>1. CInv => NoPartialHash
    BY DEF CInv, Whole
  <1>. QED  BY <1>1, CountersInductive, PTL

\* The rebuild that stands in for a vote's increment has read that vote, however many
\* votes, reads and edits run meanwhile (redis/counters.go:29-31).
THEOREM RebuildsCountTheirVote == Spec => []OwnRebuildCountsOwnVote
  <1>1. CInv => OwnRebuildCountsOwnVote
    BY DEF CInv
  <1>. QED  BY <1>1, CountersInductive, PTL

-----------------------------------------------------------------------------
(***************************************************************************)
(* Requests served one at a time, and no failure but the loss of the key:  *)
(* the counters and the last update are exact whenever nothing is served.  *)
(* The steps inside a request break both for a while, so the invariant     *)
(* says by how much.                                                       *)
(***************************************************************************)

OneAtATime == MaxInFlight = 1 /\ Faults \subseteq {"evict"}

Alone == \A r, q \in InFlight : r = q

\* What a request has loaded is still so, and every vote is for an option on offer.
Current ==
    poll.stage = "live" =>
        /\ \A d \in votes : d.option \in poll.options
        /\ \A r \in Requests :
            /\ Loaded(r) => snap[r] = poll
            /\ Op(r) = "update" /\ pc[r] \in {"validate", "write"} /\ ContentChanged(call[r])
                 => votes = {}

Field(f, o) == IF o \in DOMAIN f THEN f[o] ELSE 0

\* The vote stored and not yet counted.
Late(o) == IF \E r \in Requests : pc[r] = "record" /\ call[r].option = o THEN 1 ELSE 0

Exact ==
    poll.stage = "live" /\ Warm =>
        \A o \in OptionIDs : Field(counters, o) + Late(o) = Cardinality(For(o))

\* A tally or a standing under way is that of the votes collection.
Carried ==
    poll.stage = "live" =>
        \A r \in Requests :
            /\ pc[r] \in {"record replace", "replace"} => byOption[r] = Tally(poll)
            /\ pc[r] = "publish" =>
                /\ results[r].counts = Tally(poll)
                /\ poll.status = "closed" => results[r].status = "closed"

\* A vote or a close that has changed the poll and is yet to announce it.
Announcing(r) == pc[r] \in Recording /\ Op(r) # "results"

Told ==
    poll.stage = "live" /\ (\A r \in Requests : ~Announcing(r)) =>
        /\ votes # {} => published.counts = Tally(poll)
        /\ poll.status = "closed" => published.status = "closed"

Serial == Alone /\ Current /\ Exact /\ Carried /\ Told

-----------------------------------------------------------------------------

LEMMA NoFailures ==
  ASSUME OneAtATime, NEW r
  PROVE  ~Unacknowledged(r) /\ ~MongoFails(r) /\ ~CountsByPollFails(r) /\ ~Crash(r) /\ ~Resend(r)
         /\ (\A l : ~RedisFails(r, l)) /\ "redis" \notin Faults
  BY DEF OneAtATime, Unacknowledged, MongoFails, CountsByPollFails, Crash, Resend, RedisFails

\* While r is served nobody else is.
LEMMA OthersWait ==
  ASSUME TypeOK, Alone, NEW r \in Requests, Serve(r)
  PROVE  /\ r \in InFlight /\ UNCHANGED call
         /\ \A q \in Requests \ {r} :
              /\ pc[q] \in {"idle", "done", "aborted"} /\ pc'[q] = pc[q]
              /\ snap'[q] = snap[q] /\ byOption'[q] = byOption[q] /\ results'[q] = results[q]
  <1>1. /\ pc[r] \notin {"idle", "done", "aborted"} /\ UNCHANGED call
        /\ \A q \in Requests \ {r} : pc'[q] = pc[q]
    BY ServeIsLocal
  <1>2. \A q \in Requests \ {r} :
          snap'[q] = snap[q] /\ byOption'[q] = byOption[q] /\ results'[q] = results[q]
    BY ServeKeepsOthers
  <1>. QED  BY <1>1, <1>2 DEF Alone, InFlight

LEMMA StepAlone == OneAtATime /\ TypeOK /\ Alone /\ [Next]_vars => Alone'
  <1>. SUFFICES ASSUME OneAtATime, TypeOK, Alone, [Next]_vars PROVE Alone'
    OBVIOUS
  <1>1. CASE UNCHANGED pc
    BY <1>1 DEF Alone, InFlight
  <1>2. ASSUME NEW r \in Requests, Arrive(r) PROVE Alone'
    <2>1. InFlight = {}
      <3>1. CASE \E q \in Requests : q \in InFlight
        <4>1. PICK q \in Requests : q \in InFlight
          BY <3>1
        <4>2. InFlight = {q}
          BY <4>1 DEF Alone
        <4>3. Cardinality(InFlight) = 1
          BY <4>2, FS_Singleton
        <4>. QED  BY <1>2, <4>3 DEF Arrive, OneAtATime
      <3>. QED  BY <3>1 DEF InFlight
    <2>. QED  BY <1>2, <2>1 DEF Arrive, Goto, Alone, InFlight, TypeOK, ControlOK
  <1>3. ASSUME NEW r \in Requests, Serve(r) PROVE Alone'
    BY <1>3, OthersWait DEF Alone, InFlight
  <1>. QED
    BY <1>1, <1>2, <1>3, NoFailures DEF Next, Tick, CreatePoll, LoseKey, vars, control, local

\* An update that reaches its write with new content has found no vote.
LEMMA StepCurrent ==
  OneAtATime /\ CInv /\ Alone /\ Current /\ [Next]_vars => Current'
  <1>. SUFFICES ASSUME OneAtATime, CInv, Alone, Current, [Next]_vars, poll'.stage = "live"
                PROVE  Current'
    BY DEF Current
  <1>. USE DEF CInv, IInv
  <1>1. CASE UNCHANGED <<poll, votes, pc, call, snap>>
    BY <1>1 DEF Current, Loaded, Op
  <1>2. CASE CreatePoll
    <2>1. votes = {} /\ votes' = {} /\ \A r \in Requests : pc[r] = "idle" /\ pc'[r] = "idle"
      BY <1>2 DEF CreatePoll, control, Lifecycle, Ledger, Cast
    <2>. QED  BY <2>1 DEF Current, Loaded
  <1>3. ASSUME NEW r \in Requests, Arrive(r) PROVE Current'
    BY <1>3 DEF Arrive, Goto, Current, Loaded, Op, store, TypeOK, ControlOK
  <1>4. ASSUME NEW r \in Requests, Serve(r) PROVE Current'
    <2>1. /\ UNCHANGED call /\ poll.stage = "live" /\ pc[r] \notin {"idle", "done", "aborted"}
          /\ \A q \in Requests \ {r} : ~Loaded(q) /\ ~Loaded(q)'
      BY <1>4, OthersWait, ServeAndPoll DEF Loaded, InFlight
    <2>2. CASE UNCHANGED <<poll, votes>>
      <3>1. Loaded(r)' => snap'[r] = poll
        <4>1. CASE Load(r)
          BY <4>1 DEF Load, Loaded, Answer, TypeOK, ControlOK, LocalsOK
        <4>2. CASE ClosePoll(r)
          BY <2>1, <2>2, <4>2, NoFailures DEF ClosePoll, TypeOK, LocalsOK
        <4>3. CASE UNCHANGED snap /\ ~Load(r)
          <5>1. pc[r] # "load"
            BY <1>4, <4>3, NoFailures
            DEF Serve, Admit, Insert, IncrementOption, ForPoll, CountsByPoll, ReplaceResults,
                PublishResults, CountByPoll, Validate, UpdatePoll, ClosePoll, DeletePoll,
                DeleteByPoll, DeleteResults
          <5>. QED  BY <2>1, <4>3, <5>1 DEF Current, Loaded
        <4>. QED  BY <1>4, <4>1, <4>2, <4>3, ServeKeepsOthers
      <3>2. ASSUME Op(r) = "update", pc'[r] \in {"validate", "write"}, ContentChanged(call[r])
            PROVE  votes = {}
        <4>1. CASE Load(r)
          BY <3>2, <4>1 DEF Load, FirstStep, Goto, Answer, Op, TypeOK, ControlOK
        <4>2. CASE CountByPoll(r)
          BY <3>2, <4>2 DEF CountByPoll, Answer, TypeOK, ControlOK
        <4>3. CASE pc[r] \in {"validate", "write"}
          BY <2>1, <3>2, <4>3 DEF Current
        <4>4. pc[r] \in {"load", "count", "validate", "write"}
          BY <2>1, <3>2, AtStep DEF IsStepOf, TypeOK
        <4>. QED
          BY <1>4, <4>1, <4>2, <4>3, <4>4, NoFailures
          DEF Serve, Admit, Insert, IncrementOption, ForPoll, CountsByPoll, ReplaceResults,
              PublishResults, Validate, UpdatePoll, ClosePoll, DeletePoll,
              DeleteByPoll, DeleteResults
      <3>. QED  BY <2>1, <2>2, <3>1, <3>2 DEF Current, Loaded, Op
    <2>3. CASE Insert(r) /\ votes' # votes
      <3>1. /\ pc[r] = "insert" /\ pc'[r] = "record" /\ UNCHANGED <<poll, snap>>
            /\ votes' = votes \cup {Vote(r)} /\ Op(r) = "cast"
        BY <2>3, NoFailures, AtStep DEF Insert, Goto, local, TypeOK, ControlOK, IsStepOf
      <3>2. snap[r] = poll /\ call[r].option \in poll.options
        BY <2>1, <3>1 DEF Current, Offered, Loaded
      <3>. QED  BY <2>1, <3>1, <3>2 DEF Current, Vote, Loaded, Op
    <2>4. CASE UpdatePoll(r) /\ poll' # poll
      <3>1. pc[r] = "write" /\ pc'[r] = "done" /\ UNCHANGED votes /\ Op(r) = "update"
        BY <2>4, NoFailures DEF UpdatePoll, Answer, TypeOK, ControlOK
      <3>2. CASE "options" \in call[r].edit
        <4>1. votes = {}
          BY <2>1, <3>1, <3>2 DEF Current, ContentChanged
        <4>. QED  BY <2>1, <3>1, <4>1 DEF Current, Loaded
      <3>3. CASE "options" \notin call[r].edit
        <4>1. poll'.options = poll.options
          BY <2>4, <3>3 DEF UpdatePoll, Patched, TypeOK, StoresOK, Polls
        <4>. QED  BY <2>1, <3>1, <4>1 DEF Current, Loaded
      <3>. QED  BY <3>2, <3>3
    <2>5. CASE ClosePoll(r) /\ poll' # poll
      <3>1. pc'[r] = "read" /\ UNCHANGED votes /\ Op(r) = "close" /\ snap'[r] = poll'
        BY <2>1, <2>5, NoFailures DEF ClosePoll, Goto, TypeOK, ControlOK, LocalsOK
      <3>2. poll'.options = poll.options
        BY <2>5 DEF ClosePoll, TypeOK, StoresOK, Polls
      <3>. QED  BY <2>1, <3>1, <3>2 DEF Current, Loaded, Op
    <2>6. ~DeletePoll(r) \/ poll' = poll
      BY <2>1 DEF DeletePoll, TypeOK, StoresOK, Polls
    <2>7. ~DeleteByPoll(r)
      BY <2>1 DEF DeleteByPoll, Lifecycle
    <2>8. UNCHANGED votes \/ Insert(r)
      BY <1>4, <2>7, WhoChangesVotes
    <2>9. UNCHANGED poll \/ UpdatePoll(r) \/ ClosePoll(r)
      BY <1>4, <2>6, NoFailures
      DEF Serve, Load, Admit, Insert, IncrementOption, ForPoll, CountsByPoll, ReplaceResults,
          PublishResults, CountByPoll, Validate, DeleteByPoll, DeleteResults, store
    <2>10. ASSUME UNCHANGED poll, Insert(r), votes' = votes PROVE Current'
      BY <2>2, <2>10
    <2>11. Insert(r) => UNCHANGED poll
      BY DEF Insert
    <2>. QED  BY <2>2, <2>3, <2>4, <2>5, <2>8, <2>9, <2>11 DEF UpdatePoll, ClosePoll
  <1>. QED
    BY <1>1, <1>2, <1>3, <1>4, NoFailures DEF Next, Tick, LoseKey, vars, control, store, local

-----------------------------------------------------------------------------
(* The arithmetic of the counters. *)

LEMMA CountIsNat ==
  ASSUME IsFiniteSet(votes), NEW o
  PROVE  IsFiniteSet(For(o)) /\ Cardinality(For(o)) \in Nat
  <1>1. IsFiniteSet(For(o))
    BY FS_Subset DEF For
  <1>. QED  BY <1>1, FS_CardinalityType

\* One more vote is one more for its option.
LEMMA InsertCounts ==
  ASSUME IsFiniteSet(votes), NEW d, d \notin votes, votes' = votes \cup {d}, NEW o
  PROVE  Cardinality(For(o))' = IF d.option = o THEN Cardinality(For(o)) + 1
                                                ELSE Cardinality(For(o))
  <1>1. CASE d.option = o
    <2>1. For(o)' = For(o) \cup {d} /\ d \notin For(o)
      BY <1>1 DEF For
    <2>2. Cardinality(For(o) \cup {d}) = Cardinality(For(o)) + 1
      BY <2>1, CountIsNat, FS_AddElement
    <2>. QED  BY <1>1, <2>1, <2>2
  <1>2. CASE d.option # o
    <2>1. For(o)' = For(o)
      BY <1>2 DEF For
    <2>. QED  BY <1>2, <2>1
  <1>. QED  BY <1>1, <1>2

\* An increment counts one more for its option and nothing else.
LEMMA IncrementCounts ==
  ASSUME IsCounts(counters), NEW c, NEW o
  PROVE  /\ Field(counters, o) \in Nat
         /\ Field(Incremented(c), o) = Field(counters, o) + (IF o = c THEN 1 ELSE 0)
  BY DEF IsCounts, Incremented, Field

\* The fields of a tally, of every option, when all votes are for options of the poll.
LEMMA TallyCounts ==
  ASSUME NEW p, \A d \in votes : d.option \in p.options, NEW o
  PROVE  Field(Tally(p), o) = Cardinality(For(o))
  <1>1. CASE o \in p.options
    BY <1>1 DEF Tally, Field
  <1>2. CASE o \notin p.options
    <2>1. For(o) = {}
      BY <1>2 DEF For
    <2>2. Cardinality(For(o)) = 0
      BY <2>1, FS_EmptySet
    <2>. QED  BY <1>2, <2>2 DEF Tally, Field
  <1>. QED  BY <1>1, <1>2

\* Counters with the fields of the tally are shown as the tally.
LEMMA ExactIsShown ==
  ASSUME NEW p, NEW f, \A o \in p.options : Field(f, o) = Cardinality(For(o))
  PROVE  Assemble(p, f).counts = Tally(p)
  BY DEF Assemble, Tally, Field

LEMMA NothingLate ==
  ASSUME \A r \in Requests : pc[r] # "record", NEW o
  PROVE  Late(o) = 0
  BY DEF Late

LEMMA StepExact ==
  OneAtATime /\ CInv /\ Alone /\ Current /\ Carried /\ Exact /\ [Next]_vars => Exact'
  <1>. SUFFICES ASSUME OneAtATime, CInv, Alone, Current, Carried, Exact, [Next]_vars,
                       poll'.stage = "live", Warm', NEW o \in OptionIDs
                PROVE  (Field(counters, o) + Late(o))' = Cardinality(For(o))'
    BY DEF Exact
  <1>. USE DEF CInv, IInv
  <1>1. ASSUME UNCHANGED <<votes, counters>>, Late(o)' = Late(o), poll.stage = "live"
        PROVE  (Field(counters, o) + Late(o))' = Cardinality(For(o))'
    <2>1. Warm /\ For(o)' = For(o)
      BY <1>1 DEF Warm, For
    <2>2. Field(counters, o) + Late(o) = Cardinality(For(o))
      BY <1>1, <2>1 DEF Exact
    <2>. QED  BY <1>1, <2>1, <2>2 DEF Field
  <1>2. CASE UNCHANGED <<poll, votes, counters, pc, call>>
    <2>1. Late(o)' = Late(o)
      BY <1>2 DEF Late
    <2>. QED  BY <1>1, <1>2, <2>1
  <1>3. CASE CreatePoll \/ LoseKey
    BY <1>3 DEF CreatePoll, LoseKey, cache, Warm, Offered, NoFields
  <1>4. ASSUME NEW r \in Requests, Arrive(r)
        PROVE  (Field(counters, o) + Late(o))' = Cardinality(For(o))'
    <2>1. /\ UNCHANGED <<poll, votes, counters>> /\ pc[r] = "idle" /\ pc'[r] = "load"
          /\ \A q \in Requests \ {r} : pc'[q] = pc[q] /\ call'[q] = call[q]
      BY <1>4 DEF Arrive, Goto, store, cache, TypeOK, ControlOK
    <2>2. Late(o)' = Late(o)
      BY <2>1 DEF Late
    <2>. QED  BY <1>1, <2>1, <2>2
  <1>5. ASSUME NEW r \in Requests, Serve(r)
        PROVE  (Field(counters, o) + Late(o))' = Cardinality(For(o))'
    <2>1. /\ UNCHANGED call /\ poll.stage = "live" /\ pc[r] \notin {"idle", "done", "aborted"}
          /\ \A q \in Requests \ {r} : pc[q] # "record" /\ pc'[q] # "record"
      BY <1>5, OthersWait, ServeAndPoll DEF InFlight
    <2>2. ~DeleteByPoll(r) /\ ~DeleteResults(r)
      BY <2>1 DEF DeleteByPoll, DeleteResults, Lifecycle
    <2>3. CASE Insert(r) /\ votes' # votes
      <3>1. /\ pc[r] = "insert" /\ pc'[r] = "record" /\ UNCHANGED <<counters>>
            /\ votes' = votes \cup {Vote(r)} /\ Op(r) = "cast"
        BY <2>3, NoFailures, AtStep DEF Insert, Goto, cache, TypeOK, ControlOK, IsStepOf
      <3>2. Vote(r) \notin votes
        BY <2>3, <3>1
      <3>3. Late(o) = 0 /\ Late(o)' = IF call[r].option = o THEN 1 ELSE 0
        BY <2>1, <3>1 DEF Late
      <3>4. Cardinality(For(o))' = IF call[r].option = o THEN Cardinality(For(o)) + 1
                                                          ELSE Cardinality(For(o))
        BY <3>1, <3>2, InsertCounts DEF Vote, TypeOK, StoresOK
      <3>5. Field(counters, o) + Late(o) = Cardinality(For(o)) /\ Field(counters, o) \in Nat
        BY <2>1, <3>1, IncrementCounts DEF Exact, Warm, TypeOK, StoresOK
      <3>6. Field(counters, o)' = Field(counters, o)
        BY <3>1 DEF Field
      <3>. QED  BY <3>3, <3>4, <3>5, <3>6
    <2>4. CASE IncrementOption(r)
      <3>1. pc[r] = "record" /\ pc'[r] # "record" /\ UNCHANGED votes
        BY <2>4, NoFailures DEF IncrementOption, Resend, Goto, store, TypeOK, ControlOK
      <3>2. Warm /\ counters' = Incremented(call[r].option)
        BY <2>4, NoFailures DEF IncrementOption, Warm, cache
      <3>3. Late(o) = (IF call[r].option = o THEN 1 ELSE 0) /\ Late(o)' = 0
        BY <2>1, <3>1 DEF Late
      <3>4. Field(counters, o) + Late(o) = Cardinality(For(o))
        BY <2>1, <3>2 DEF Exact
      <3>5. /\ Field(counters, o) \in Nat
            /\ Field(counters', o)
                 = Field(counters, o) + (IF o = call[r].option THEN 1 ELSE 0)
        BY <3>2, IncrementCounts DEF TypeOK, StoresOK
      <3>6. Field(counters, o)' = Field(counters', o) /\ For(o)' = For(o)
        BY <3>1 DEF Field, For
      <3>. QED  BY <3>3, <3>4, <3>5, <3>6
    <2>5. CASE ReplaceResults(r)
      <3>1. /\ pc[r] \in {"record replace", "replace"} /\ pc'[r] # "record"
            /\ UNCHANGED votes /\ counters' = byOption[r]
        BY <2>5, NoFailures
        DEF ReplaceResults, Standing, Resend, Goto, Answer, store, TypeOK, ControlOK
      <3>2. counters' = Tally(poll)
        BY <2>1, <3>1 DEF Carried
      <3>3. Field(counters', o) = Cardinality(For(o))
        BY <2>1, <3>2, TallyCounts DEF Current
      <3>4. Late(o)' = 0
        BY <2>1, <3>1 DEF Late
      <3>5. Field(counters, o)' = Field(counters', o) /\ For(o)' = For(o)
        BY <3>1 DEF Field, For
      <3>6. Cardinality(For(o)) \in Nat
        BY CountIsNat DEF TypeOK, StoresOK
      <3>. QED  BY <3>3, <3>4, <3>5, <3>6
    <2>6. CASE UNCHANGED <<votes, counters>> /\ ~Insert(r) /\ ~IncrementOption(r)
      <3>1. pc[r] # "record" /\ pc'[r] # "record"
        <4>1. CASE Load(r)
          BY <2>1, <4>1, FirstSteps DEF Load, Goto, Answer, Op, TypeOK, ControlOK
        <4>2. CASE Admit(r) \/ ForPoll(r) \/ CountsByPoll(r) \/ ReplaceResults(r) \/ PublishResults(r)
          BY <4>2
          DEF Admit, ForPoll, CountsByPoll, ReplaceResults, PublishResults, RedisFails,
              Standing, Resend, Goto, Answer, TypeOK, ControlOK
        <4>3. CASE CountByPoll(r) \/ Validate(r) \/ UpdatePoll(r) \/ ClosePoll(r) \/ DeletePoll(r)
          BY <4>3
          DEF CountByPoll, Validate, UpdatePoll, ClosePoll, DeletePoll, Unacknowledged,
              Goto, Answer, TypeOK, ControlOK
        <4>. QED  BY <1>5, <2>2, <2>6, <4>1, <4>2, <4>3, NoFailures DEF Serve
      <3>2. Late(o) = 0 /\ Late(o)' = 0
        BY <2>1, <3>1 DEF Late
      <3>. QED  BY <1>1, <2>1, <2>6, <3>2
    <2>7. CASE Insert(r) /\ UNCHANGED votes
      <3>1. Vote(r) \in votes => HasVoted(call[r].voter)
        BY DEF Vote, HasVoted
      <3>2. pc[r] = "insert" /\ pc'[r] = "done" /\ UNCHANGED counters
        BY <2>7, <3>1 DEF Insert, Answer, cache, TypeOK, ControlOK
      <3>3. Late(o) = 0 /\ Late(o)' = 0
        BY <2>1, <3>2 DEF Late
      <3>. QED  BY <1>1, <2>1, <2>7, <3>2, <3>3
    <2>8. UNCHANGED counters \/ IncrementOption(r) \/ ReplaceResults(r)
      BY <1>5, <2>2, ServeKeepsOthers
    <2>9. UNCHANGED votes \/ Insert(r)
      BY <1>5, <2>2, WhoChangesVotes
    <2>. QED  BY <2>3, <2>4, <2>5, <2>6, <2>7, <2>8, <2>9
  <1>. QED
    BY <1>2, <1>3, <1>4, <1>5, NoFailures DEF Next, Tick, vars, control, store, cache, local

\* A request computes its standing from exact counts, and from the poll as it is.
LEMMA StepCarried ==
  OneAtATime /\ CInv /\ Alone /\ Current /\ Carried /\ Exact /\ [Next]_vars => Carried'
  <1>. SUFFICES ASSUME OneAtATime, CInv, Alone, Current, Carried, Exact, [Next]_vars,
                       poll'.stage = "live", NEW r \in Requests
                PROVE  /\ pc'[r] \in {"record replace", "replace"} => byOption'[r] = Tally(poll)'
                       /\ pc'[r] = "publish" =>
                           /\ results'[r].counts = Tally(poll)'
                           /\ poll'.status = "closed" => results'[r].status = "closed"
    BY DEF Carried
  <1>. USE DEF CInv, IInv
  <1>. DEFINE Goal == /\ pc'[r] \in {"record replace", "replace"} => byOption'[r] = Tally(poll)'
                      /\ pc'[r] = "publish" =>
                           /\ results'[r].counts = Tally(poll)'
                           /\ poll'.status = "closed" => results'[r].status = "closed"
  <1>1. CASE UNCHANGED <<poll, votes, pc, byOption, results>>
    <2>1. Tally(poll)' = Tally(poll)
      BY <1>1 DEF Tally, For
    <2>. QED  BY <1>1, <2>1 DEF Carried
  <1>2. CASE CreatePoll
    BY <1>2 DEF CreatePoll, control, Lifecycle
  <1>3. ASSUME NEW q \in Requests, Arrive(q) PROVE Goal
    <2>1. CASE q = r
      BY <1>3, <2>1 DEF Arrive, Goto, TypeOK, ControlOK
    <2>2. CASE q # r
      <3>1. UNCHANGED <<poll, votes, byOption, results>> /\ pc'[r] = pc[r]
        BY <1>3, <2>2 DEF Arrive, Goto, store, TypeOK, ControlOK
      <3>2. Tally(poll)' = Tally(poll)
        BY <3>1 DEF Tally, For
      <3>. QED  BY <3>1, <3>2 DEF Carried
    <2>. QED  BY <2>1, <2>2
  <1>4. ASSUME NEW q \in Requests, Serve(q), q # r PROVE Goal
    BY <1>4, OthersWait
  <1>5. ASSUME Serve(r) PROVE Goal
    <2>1. /\ poll.stage = "live" /\ pc[r] \notin {"idle", "done", "aborted"}
          /\ \A q \in Requests \ {r} : pc[q] # "record"
      BY <1>5, OthersWait, ServeAndPoll DEF InFlight
    <2>2. pc[r] # "load" => snap[r] = poll
      BY <2>1 DEF Current, Loaded
    <2>3. CASE CountsByPoll(r)
      <3>1. /\ UNCHANGED <<poll, votes>> /\ snap[r] = poll
            /\ byOption'[r] = Tally(snap[r]) /\ pc'[r] # "publish"
        BY <2>2, <2>3 DEF CountsByPoll, Goto, store, TypeOK, ControlOK, LocalsOK
      <3>2. Tally(poll)' = Tally(poll)
        BY <3>1 DEF Tally, For
      <3>. QED  BY <3>1, <3>2
    <2>4. ASSUME NEW f, Standing(r, f), snap[r] = poll, UNCHANGED <<poll, votes>>,
                 \A o \in poll.options : Field(f, o) = Cardinality(For(o))
          PROVE  Goal
      <3>1. results'[r] = Assemble(snap[r], f) /\ pc'[r] \in {"done", "publish"}
        BY <2>4 DEF Standing, Goto, Answer, TypeOK, ControlOK, LocalsOK
      <3>2. Assemble(poll, f).counts = Tally(poll)
        BY <2>4, ExactIsShown
      <3>3. poll.status = "closed" => Assemble(poll, f).status = "closed"
        BY DEF Assemble, EffectiveStatus
      <3>4. Tally(poll)' = Tally(poll)
        BY <2>4 DEF Tally, For
      <3>. QED  BY <2>4, <3>1, <3>2, <3>3, <3>4
    <2>5. CASE ForPoll(r) /\ Warm
      <3>1. Standing(r, counters) /\ pc[r] = "read" /\ UNCHANGED <<poll, votes>>
        BY <2>5, NoFailures DEF ForPoll, store
      <3>2. poll.options \subseteq OptionIDs
        BY DEF TypeOK, StoresOK, Polls
      <3>3. ASSUME NEW o \in poll.options PROVE Field(counters, o) = Cardinality(For(o))
        <4>1. Late(o) = 0
          BY <2>1, <3>1, NothingLate
        <4>2. Field(counters, o) + Late(o) = Cardinality(For(o))
          BY <2>1, <2>5, <3>2 DEF Exact
        <4>3. Field(counters, o) \in Nat
          BY IncrementCounts DEF TypeOK, StoresOK
        <4>. QED  BY <4>1, <4>2, <4>3
      <3>. QED  BY <2>2, <2>4, <3>1, <3>3
    <2>6. CASE ForPoll(r) /\ ~Warm
      BY <2>6, NoFailures DEF ForPoll, Goto, TypeOK, ControlOK
    <2>7. CASE ReplaceResults(r)
      <3>1. CASE pc[r] = "record replace"
        BY <2>7, <3>1, NoFailures DEF ReplaceResults, Goto, TypeOK, ControlOK
      <3>2. CASE pc[r] = "replace"
        <4>1. Standing(r, byOption[r]) /\ UNCHANGED <<poll, votes>>
          BY <2>7, <3>2, NoFailures DEF ReplaceResults, store
        <4>2. byOption[r] = Tally(poll) /\ snap[r] = poll
          BY <2>1, <2>2, <3>2 DEF Carried
        <4>3. \A o \in poll.options : Field(byOption[r], o) = Cardinality(For(o))
          BY <2>1, <4>2, TallyCounts DEF Current
        <4>. QED  BY <2>4, <4>1, <4>2, <4>3
      <3>. QED  BY <2>7, <3>1, <3>2, NoFailures DEF ReplaceResults
    <2>8. CASE Load(r)
      BY <2>8, FirstSteps DEF Load, Goto, Answer, Op, TypeOK, ControlOK
    <2>9. CASE \/ Admit(r) \/ Insert(r) \/ IncrementOption(r) \/ PublishResults(r)
               \/ CountByPoll(r) \/ Validate(r) \/ UpdatePoll(r) \/ ClosePoll(r)
               \/ DeletePoll(r) \/ DeleteByPoll(r) \/ DeleteResults(r)
      BY <2>9, NoFailures
      DEF Admit, Insert, IncrementOption, PublishResults, CountByPoll, Validate, UpdatePoll,
          ClosePoll, DeletePoll, DeleteByPoll, DeleteResults, Unacknowledged, RedisFails,
          Stays, control, Goto, Answer, TypeOK, ControlOK
    <2>. QED  BY <1>5, <2>3, <2>5, <2>6, <2>7, <2>8, <2>9, NoFailures DEF Serve
  <1>. QED
    BY <1>1, <1>2, <1>3, <1>4, <1>5, NoFailures DEF Next, Tick, LoseKey, vars, control, store, local

\* A vote or a close changes what must have been told, and has not told it only
\* while it is on its way to do so.
LEMMA StepTold ==
  OneAtATime /\ CInv /\ Alone /\ Current /\ Carried /\ Told /\ [Next]_vars => Told'
  <1>. SUFFICES ASSUME OneAtATime, CInv, Alone, Current, Carried, Told, [Next]_vars,
                       poll'.stage = "live", \A q \in Requests : ~Announcing(q)'
                PROVE  /\ votes' # {} => published'.counts = Tally(poll)'
                       /\ poll'.status = "closed" => published'.status = "closed"
    BY DEF Told
  <1>. USE DEF CInv, IInv
  <1>. DEFINE Goal == /\ votes' # {} => published'.counts = Tally(poll)'
                      /\ poll'.status = "closed" => published'.status = "closed"
  <1>1. ASSUME poll.stage = "live", \A q \in Requests : ~Announcing(q),
               UNCHANGED <<published, votes>>, poll'.status = poll.status,
               votes # {} => poll'.options = poll.options
        PROVE  Goal
    <2>1. votes # {} => Tally(poll)' = Tally(poll)
      BY <1>1 DEF Tally, For
    <2>. QED  BY <1>1, <2>1 DEF Told
  <1>2. CASE UNCHANGED <<poll, votes, published, pc, call>>
    BY <1>1, <1>2 DEF Announcing, Op
  <1>3. CASE CreatePoll
    BY <1>3 DEF CreatePoll, control, Lifecycle, Ledger, Cast
  <1>4. ASSUME NEW r \in Requests, Arrive(r) PROVE Goal
    <2>1. /\ UNCHANGED <<poll, votes, published>> /\ pc[r] = "idle"
          /\ \A q \in Requests \ {r} : pc'[q] = pc[q] /\ call'[q] = call[q]
      BY <1>4 DEF Arrive, Goto, store, cache, TypeOK, ControlOK
    <2>2. \A q \in Requests : ~Announcing(q)
      BY <2>1 DEF Announcing, Op, Recording
    <2>. QED  BY <1>1, <2>1, <2>2
  <1>5. ASSUME NEW r \in Requests, Serve(r) PROVE Goal
    <2>1. /\ UNCHANGED call /\ poll.stage = "live" /\ pc[r] \notin {"idle", "done", "aborted"}
          /\ \A q \in Requests \ {r} : ~Announcing(q)
          /\ ~(pc'[r] \in Recording /\ Op(r) # "results")
      BY <1>5, OthersWait, ServeAndPoll DEF InFlight, Announcing, Recording, Op
    <2>2. ~DeleteByPoll(r) /\ ~DeleteResults(r)
      BY <2>1 DEF DeleteByPoll, DeleteResults, Lifecycle
    <2>3. CASE PublishResults(r)
      <3>1. /\ pc[r] = "publish" /\ UNCHANGED <<poll, votes>> /\ published' = results[r]
        BY <2>3, NoFailures DEF PublishResults, store
      <3>2. Tally(poll)' = Tally(poll)
        BY <3>1 DEF Tally, For
      <3>. QED  BY <2>1, <3>1, <3>2 DEF Carried
    <2>4. CASE Announcing(r) /\ ~PublishResults(r)
      <3>1. pc[r] \in Recording /\ Op(r) # "results"
        BY <2>4 DEF Announcing
      <3>2. ASSUME NEW f, Standing(r, f) PROVE FALSE
        BY <2>1, <3>1, <3>2 DEF Standing, Goto, Recording, TypeOK, ControlOK
      <3>3. CASE IncrementOption(r) \/ ForPoll(r) \/ CountsByPoll(r) \/ ReplaceResults(r)
        BY <2>1, <3>1, <3>2, <3>3, NoFailures
        DEF IncrementOption, ForPoll, CountsByPoll, ReplaceResults, Resend, Goto, Recording,
            TypeOK, ControlOK
      <3>. QED
        BY <1>5, <2>4, <3>1, <3>3, NoFailures
        DEF Serve, Load, Admit, Insert, CountByPoll, Validate, UpdatePoll, ClosePoll,
            DeletePoll, DeleteByPoll, DeleteResults, Recording
    <2>5. CASE ~Announcing(r)
      <3>1. \A q \in Requests : ~Announcing(q)
        BY <2>1, <2>5
      <3>2. CASE UNCHANGED <<poll, votes, published>>
        BY <1>1, <2>1, <3>1, <3>2
      <3>3. CASE Insert(r)
        <4>1. votes' # votes => pc'[r] = "record" /\ Op(r) = "cast"
          BY <3>3, NoFailures, AtStep DEF Insert, Goto, TypeOK, ControlOK, IsStepOf
        <4>2. UNCHANGED votes
          BY <2>1, <4>1 DEF Recording
        <4>. QED  BY <3>2, <3>3, <4>2 DEF Insert, cache
      <3>4. CASE UpdatePoll(r)
        <4>1. pc[r] = "write" /\ Op(r) = "update" /\ UNCHANGED <<votes, published>>
          BY <3>4 DEF UpdatePoll, cache
        <4>2. poll'.status = poll.status
          BY <3>4 DEF UpdatePoll, Patched, TypeOK, StoresOK, Polls
        <4>3. "options" \in call[r].edit => votes = {}
          BY <2>1, <4>1 DEF Current, ContentChanged
        <4>4. "options" \notin call[r].edit => poll'.options = poll.options
          BY <3>4 DEF UpdatePoll, Patched, TypeOK, StoresOK, Polls
        <4>. QED  BY <1>1, <2>1, <3>1, <4>1, <4>2, <4>3, <4>4
      <3>5. CASE ClosePoll(r)
        <4>1. pc'[r] = "read" /\ Op(r) = "close"
          BY <2>1, <3>5, NoFailures DEF ClosePoll, Goto, TypeOK, ControlOK
        <4>. QED  BY <2>1, <4>1 DEF Recording
      <3>6. CASE DeletePoll(r)
        BY <2>1, <3>6 DEF DeletePoll, TypeOK, StoresOK, Polls
      <3>7. CASE \/ Load(r) \/ Admit(r) \/ IncrementOption(r) \/ ForPoll(r) \/ CountsByPoll(r)
                 \/ ReplaceResults(r) \/ CountByPoll(r) \/ Validate(r)
        BY <3>2, <3>7
        DEF Load, Admit, IncrementOption, ForPoll, CountsByPoll, ReplaceResults, CountByPoll,
            Validate, RedisFails, store, cache
      <3>. QED  BY <1>5, <2>2, <2>3, <3>3, <3>4, <3>5, <3>6, <3>7, NoFailures DEF Serve
    <2>. QED  BY <2>3, <2>4, <2>5
  <1>. QED
    BY <1>2, <1>3, <1>4, <1>5, NoFailures
    DEF Next, Tick, LoseKey, vars, control, store, cache, local

LEMMA SerialInductive == ASSUME OneAtATime PROVE Spec => [](CInv /\ Serial)
  <1>1. Init => Serial
    BY DEF Init, Serial, Alone, Current, Exact, Carried, Told, InFlight, NoPoll
  <1>2. CInv /\ Serial /\ [Next]_vars => Serial'
    BY StepAlone, StepCurrent, StepExact, StepCarried, StepTold
    DEF Serial, CInv, IInv
  <1>. QED  BY <1>1, <1>2, CountersInductive, PTL DEF Spec

\* With requests served one at a time and no failure but the loss of the key, warm
\* counters are the tally of the votes collection (result_service.go:71-76).
THEOREM SerialCountersExact == ASSUME OneAtATime PROVE Spec => []QuietCountersExact
  <1>1. ASSUME CInv, Serial, Quiet, poll.stage = "live", Warm
        PROVE  Assemble(poll, counters).counts = Tally(poll)
    <2>1. ASSUME NEW o \in poll.options PROVE Field(counters, o) = Cardinality(For(o))
      <3>1. \A r \in Requests : pc[r] # "record"
        BY <1>1 DEF Quiet, InFlight
      <3>2. Late(o) = 0
        BY <3>1, NothingLate
      <3>3. o \in OptionIDs /\ IsCounts(counters)
        BY <1>1 DEF CInv, IInv, TypeOK, StoresOK, Polls
      <3>4. Field(counters, o) + Late(o) = Cardinality(For(o))
        BY <1>1, <3>3 DEF Serial, Exact
      <3>5. Field(counters, o) \in Nat
        BY <3>3, IncrementCounts
      <3>. QED  BY <3>2, <3>4, <3>5
    <2>. QED  BY <2>1, ExactIsShown
  <1>2. CInv /\ Serial => QuietCountersExact
    BY <1>1 DEF QuietCountersExact
  <1>. QED  BY <1>2, SerialInductive, PTL

\* Under the same conditions the last update published shows every vote and, once it
\* was acknowledged, the closing of the poll (events.go:43, poll_service.go:53-56).
THEOREM SerialUpdateCurrent == ASSUME OneAtATime PROVE Spec => []QuietUpdateCurrent
  <1>1. ASSUME CInv, Serial, Quiet, poll.stage = "live"
        PROVE  /\ votes # {} => published.counts = Tally(poll)
               /\ \A r \in Requests : pc[r] = "done" /\ Op(r) = "close" /\ reply[r] = "ok"
                    => published.status = "closed"
    <2>1. \A r \in Requests : ~Announcing(r)
      BY <1>1 DEF Quiet, InFlight, Announcing, Recording
    <2>2. /\ votes # {} => published.counts = Tally(poll)
          /\ poll.status = "closed" => published.status = "closed"
      BY <1>1, <2>1 DEF Serial, Told
    <2>. QED  BY <1>1, <2>2 DEF CInv, IInv, Decided
  <1>2. CInv /\ Serial => QuietUpdateCurrent
    BY <1>1 DEF QuietUpdateCurrent
  <1>. QED  BY <1>2, SerialInductive, PTL

-----------------------------------------------------------------------------
(* Requests that overlap, and every failure: what a vote may be counted. *)

Bound(o) == Cardinality(For(o)) + Cardinality(Attempts(o))

\* The script of a vote takes effect: once more, or for the last time.
Attempted(r) == pc[r] = "record" /\ (pc'[r] # "record" \/ resent'[r] = resent[r] + 1)

AtMost(f) == \A o \in DOMAIN f : f[o] =< Bound(o)

\* A tally under way counts no vote twice; what came of one adds its vote's attempts.
Limited ==
    poll.stage # "deleted" =>
        /\ \A r \in Requests : \A o \in DOMAIN byOption[r] : byOption[r][o] =< Cardinality(For(o))
        /\ \A r \in Requests : AtMost(results[r].counts)
        /\ AtMost(counters) /\ AtMost(published.counts)

LEMMA FiniteAttempts ==
  ASSUME NEW S, IsFiniteSet(S), NEW T, T \subseteq S \X (0 .. MaxRetries)
  PROVE  IsFiniteSet(T)
  <1>1. IsFiniteSet(0 .. MaxRetries)
    BY FS_Interval, BoundsAssumption
  <1>2. IsFiniteSet(S \X (0 .. MaxRetries))
    BY <1>1, FS_Product
  <1>. QED  BY <1>2, FS_Subset

LEMMA BoundsAreNumbers ==
  ASSUME IsFiniteSet(votes), NEW o
  PROVE  /\ IsFiniteSet(For(o)) /\ Cardinality(For(o)) \in Nat
         /\ IsFiniteSet(Attempts(o)) /\ Cardinality(Attempts(o)) \in Nat
         /\ Bound(o) \in Nat
  <1>1. IsFiniteSet(For(o)) /\ Cardinality(For(o)) \in Nat
    BY CountIsNat
  <1>3. Attempts(o) \subseteq For(o) \X (0 .. MaxRetries)
    BY DEF Attempts
  <1>4. IsFiniteSet(Attempts(o)) /\ Cardinality(Attempts(o)) \in Nat
    BY <1>1, <1>3, FiniteAttempts, FS_CardinalityType
  <1>. QED  BY <1>1, <1>4 DEF Bound

LEMMA BoundsAreNumbersNext ==
  ASSUME IsFiniteSet(votes'), NEW o
  PROVE  /\ IsFiniteSet(For(o)') /\ Cardinality(For(o))' \in Nat
         /\ IsFiniteSet(Attempts(o)') /\ Cardinality(Attempts(o))' \in Nat
         /\ Bound(o)' \in Nat
  <1>1. IsFiniteSet(For(o)')
    BY FS_Subset DEF For
  <1>3. Attempts(o)' \subseteq For(o)' \X (0 .. MaxRetries)
    BY DEF Attempts
  <1>4. IsFiniteSet(Attempts(o)')
    BY <1>1, <1>3, FiniteAttempts
  <1>5. Cardinality(For(o))' \in Nat /\ Cardinality(Attempts(o))' \in Nat
    BY <1>1, <1>4, FS_CardinalityType
  <1>. QED  BY <1>1, <1>4, <1>5 DEF Bound

\* A stored vote stays stored, and past the attempts it has behind it, for as long as
\* there is a poll.
LEMMA VotesGoOn ==
  ASSUME IInv, [Next]_vars, poll'.stage # "deleted"
  PROVE  /\ poll.stage # "deleted" /\ votes \subseteq votes'
         /\ \A d \in votes :
              /\ pc[d.id] # "record" => pc'[d.id] # "record"
              /\ pc'[d.id] # "record" \/ resent'[d.id] >= resent[d.id]
  <1>. USE DEF IInv
  <1>1. ASSUME NEW r \in Requests, Serve(r) \/ Crash(r)
        PROVE  /\ poll.stage = "live" /\ votes \subseteq votes'
               /\ Vote(r) \in votes /\ pc[r] # "record" => pc'[r] # "record"
               /\ pc[r] = "record" => pc'[r] # "record" \/ resent'[r] >= resent[r]
    <2>1. pc[r] \notin {"idle", "done", "aborted"}
      BY <1>1, ServeIsLocal
    <2>2. poll.stage = "live"
      <3>1. poll.stage # "absent"
        BY <2>1 DEF Lifecycle
      <3>2. poll.stage # "deleted"
        BY <1>1, ServeAndPoll
      <3>. QED  BY <3>1, <3>2 DEF TypeOK, StoresOK, Polls
    <2>3. ~DeleteByPoll(r)
      BY <2>2 DEF DeleteByPoll, Lifecycle
    <2>4. votes \subseteq votes'
      BY <1>1, <2>3, WhoChangesVotes DEF Insert
    <2>5. ASSUME Vote(r) \in votes, pc[r] # "record" PROVE pc'[r] # "record"
      <3>1. pc[r] \in Recording \ {"record"}
        BY <2>1, <2>5, StoredIsPast
      <3>2. CASE CountsByPoll(r) \/ ForPoll(r) \/ ReplaceResults(r)
        BY <3>2
        DEF CountsByPoll, ForPoll, ReplaceResults, Standing, RedisFails, Resend, Goto, Answer, TypeOK,
            ControlOK
      <3>3. CASE PublishResults(r) \/ CountsByPollFails(r) \/ Crash(r)
        BY <3>3 DEF PublishResults, CountsByPollFails, Crash, Resend, Goto, Answer, TypeOK, ControlOK
      <3>. QED
        BY <1>1, <3>1, <3>2, <3>3
        DEF Serve, Recording, Load, Admit, Insert, IncrementOption, CountByPoll, Validate,
            UpdatePoll, ClosePoll, DeletePoll, DeleteByPoll, DeleteResults, MongoFails
    <2>6. ASSUME pc[r] = "record" PROVE pc'[r] # "record" \/ resent'[r] >= resent[r]
      <3>1. resent[r] \in Nat
        BY BoundsAssumption DEF TypeOK, LocalsOK
      <3>2. CASE IncrementOption(r) \/ Crash(r)
        <4>1. CASE Resend(r) \/ Crash(r)
          BY <3>1, <4>1 DEF Resend, Crash, TypeOK, LocalsOK
        <4>2. ASSUME NEW l, l # "record", Goto(r, l) PROVE pc'[r] # "record"
          BY <4>2 DEF Goto, TypeOK, ControlOK
        <4>. QED  BY <3>2, <4>1, <4>2 DEF IncrementOption, RedisFails
      <3>. QED
        BY <1>1, <2>6, <3>2
        DEF Serve, Load, Admit, Insert, ForPoll, CountsByPoll, ReplaceResults, PublishResults,
            CountByPoll, Validate, UpdatePoll, ClosePoll, DeletePoll, DeleteByPoll, DeleteResults,
            MongoFails, CountsByPollFails
    <2>. QED  BY <2>2, <2>4, <2>5, <2>6
  <1>2. ASSUME NEW r \in Requests, Serve(r) \/ Crash(r), NEW d \in votes
        PROVE  /\ pc[d.id] # "record" => pc'[d.id] # "record"
               /\ pc'[d.id] # "record" \/ resent'[d.id] >= resent[d.id]
    <2>1. PICK q \in Requests : d = Vote(q)
      BY DEF Ledger
    <2>2. d.id = q
      BY <2>1 DEF Vote
    <2>3. resent[q] \in Nat
      BY BoundsAssumption DEF TypeOK, LocalsOK
    <2>4. CASE q = r
      BY <1>1, <1>2, <2>1, <2>2, <2>4
    <2>5. CASE q # r
      <3>1. pc'[q] = pc[q] /\ resent'[q] = resent[q]
        BY <1>2, <2>5, ServeIsLocal
      <3>. QED  BY <2>2, <2>3, <3>1
    <2>. QED  BY <2>4, <2>5
  <1>3. ASSUME NEW r \in Requests, Arrive(r)
        PROVE  /\ UNCHANGED <<poll, votes>>
               /\ \A q \in Requests : /\ pc'[q] \in {pc[q], "load"}
                                      /\ pc'[q] # "record" \/ resent'[q] = resent[q]
    BY <1>3 DEF Arrive, Goto, store, TypeOK, ControlOK, LocalsOK
  <1>4. \A d \in votes : d.id \in Requests /\ resent[d.id] \in Nat
    BY BoundsAssumption DEF TypeOK, StoresOK, LocalsOK, Ballots
  <1>5. CASE CreatePoll
    BY <1>4, <1>5 DEF CreatePoll, control
  <1>6. CASE Tick \/ LoseKey \/ UNCHANGED vars
    BY <1>4, <1>6 DEF Tick, LoseKey, vars, control, store
  <1>. QED  BY <1>1, <1>2, <1>3, <1>4, <1>5, <1>6 DEF Next

LEMMA AttemptsGoOn ==
  ASSUME IInv, TypeOK', [Next]_vars, poll'.stage # "deleted", NEW o
  PROVE  /\ Attempts(o) \subseteq Attempts(o)'
         /\ \A r \in Requests :
              Attempted(r) /\ call[r].option = o =>
                 <<Vote(r), resent[r]>> \in Attempts(o)' \ Attempts(o)
  <1>0. /\ votes \subseteq votes' /\ \A d \in votes : d.id \in Requests
        /\ \A q \in Requests : resent[q] \in 0 .. MaxRetries /\ resent'[q] \in 0 .. MaxRetries
    BY VotesGoOn DEF IInv, TypeOK, StoresOK, LocalsOK, Ballots
  <1>1. ASSUME NEW a \in Attempts(o) PROVE a \in Attempts(o)'
    <2>1. /\ a \in For(o) \X (0 .. MaxRetries) /\ a[1] \in votes /\ a[1].id \in Requests
          /\ a \in For(o)' \X (0 .. MaxRetries)
      BY <1>0 DEF Attempts, For
    <2>2. pc'[a[1].id] # "record" \/ a[2] < resent'[a[1].id]
      <3>1. CASE pc[a[1].id] # "record"
        BY <2>1, <3>1, VotesGoOn
      <3>2. CASE a[2] < resent[a[1].id]
        <4>1. pc'[a[1].id] # "record" \/ resent'[a[1].id] >= resent[a[1].id]
          BY <2>1, VotesGoOn
        <4>. QED  BY <1>0, <2>1, <3>2, <4>1, BoundsAssumption
      <3>. QED  BY <3>1, <3>2 DEF Attempts
    <2>. QED  BY <2>1, <2>2 DEF Attempts
  <1>2. ASSUME NEW r \in Requests, Attempted(r), call[r].option = o
        PROVE  <<Vote(r), resent[r]>> \in Attempts(o)' \ Attempts(o)
    <2>1. poll.stage = "live" /\ Cast(r)
      BY <1>2, VotesGoOn, AtStep
      DEF Attempted, IInv, Lifecycle, Cast, IsStepOf, TypeOK, StoresOK, Polls
    <2>2. Vote(r) \in votes
      BY <1>2, <2>1 DEF Attempted, IInv, Ledger, Recording
    <2>3. Vote(r).id = r /\ Vote(r) \in For(o)'
      BY <1>0, <1>2, <2>2 DEF For, Vote
    <2>4. pc[r] = "record" /\ (pc'[r] # "record" \/ resent[r] < resent'[r])
      BY <1>0, <1>2, BoundsAssumption DEF Attempted
    <2>5. ~(resent[r] < resent[r])
      BY <1>0, BoundsAssumption
    <2>6. <<Vote(r), resent[r]>> \in Attempts(o)'
      BY <1>0, <2>3, <2>4 DEF Attempts
    <2>7. <<Vote(r), resent[r]>> \notin Attempts(o)
      BY <2>3, <2>4, <2>5 DEF Attempts
    <2>. QED  BY <2>6, <2>7
  <1>. QED  BY <1>1, <1>2

LEMMA BoundsGrow ==
  ASSUME IInv, TypeOK', [Next]_vars, poll'.stage # "deleted", NEW o
  PROVE  /\ Cardinality(For(o)) =< Cardinality(For(o))' /\ Bound(o) =< Bound(o)'
         /\ \A r \in Requests :
              Attempted(r) /\ call[r].option = o => Bound(o) + 1 =< Bound(o)'
  <1>1. IsFiniteSet(votes) /\ IsFiniteSet(votes')
    BY DEF IInv, TypeOK, StoresOK
  <1>2. For(o) \subseteq For(o)' /\ Attempts(o) \subseteq Attempts(o)'
    BY VotesGoOn, AttemptsGoOn DEF For
  <1>3. /\ IsFiniteSet(For(o)') /\ IsFiniteSet(Attempts(o)') /\ IsFiniteSet(Attempts(o))
        /\ Cardinality(For(o)) \in Nat /\ Cardinality(For(o))' \in Nat
        /\ Cardinality(Attempts(o)) \in Nat /\ Cardinality(Attempts(o))' \in Nat
    BY <1>1, BoundsAreNumbers, BoundsAreNumbersNext
  <1>4. /\ Cardinality(For(o)) =< Cardinality(For(o))'
        /\ Cardinality(Attempts(o)) =< Cardinality(Attempts(o))'
    BY <1>2, <1>3, FS_Subset
  <1>5. ASSUME NEW r \in Requests, Attempted(r), call[r].option = o
        PROVE  Cardinality(Attempts(o)) + 1 =< Cardinality(Attempts(o))'
    <2>. DEFINE a == <<Vote(r), resent[r]>>
    <2>1. a \in Attempts(o)' /\ a \notin Attempts(o)
      BY <1>5, AttemptsGoOn
    <2>. HIDE DEF a
    <2>2. Cardinality(Attempts(o) \cup {a}) = Cardinality(Attempts(o)) + 1
      BY <1>3, <2>1, FS_AddElement
    <2>3. Cardinality(Attempts(o) \cup {a}) =< Cardinality(Attempts(o)')
      BY <1>2, <1>3, <2>1, FS_Subset
    <2>. QED  BY <2>2, <2>3
  <1>. QED  BY <1>3, <1>4, <1>5 DEF Bound

\* Where the numbers come from.
LEMMA WhatIsWritten ==
  ASSUME TypeOK, [Next]_vars
  PROVE  /\ \/ counters' = counters \/ counters' = NoFields
            \/ \E r \in Requests : counters' = byOption[r]
            \/ \E r \in Requests : Attempted(r) /\ counters' = Incremented(call[r].option)
         /\ published' = published \/ \E r \in Requests : published' = results[r]
         /\ \A r \in Requests :
              /\ \/ byOption'[r] = byOption[r] \/ byOption'[r] = NoFields
                 \/ byOption'[r] = Tally(snap[r])
              /\ \/ results'[r] = results[r]
                 \/ \E f \in {counters, byOption[r]} : results'[r] = Assemble(snap[r], f)
  <1>. USE DEF TypeOK, LocalsOK, ControlOK
  <1>1. ASSUME NEW r \in Requests, IncrementOption(r)
        PROVE  /\ \/ counters' = counters
                  \/ Attempted(r) /\ counters' = Incremented(call[r].option)
               /\ UNCHANGED <<published, byOption, results>>
    BY <1>1 DEF IncrementOption, RedisFails, Resend, Goto, Attempted, cache, local
  <1>2. ASSUME NEW r \in Requests, CountsByPoll(r)
        PROVE  /\ UNCHANGED <<counters, published, results>>
               /\ \A q \in Requests : byOption'[q] = byOption[q] \/ byOption'[q] = Tally(snap[q])
    BY <1>2 DEF CountsByPoll, cache
  <1>3. ASSUME NEW r \in Requests, ForPoll(r)
        PROVE  /\ UNCHANGED <<counters, published, byOption>>
               /\ \A q \in Requests :
                    results'[q] = results[q] \/ results'[q] = Assemble(snap[q], counters)
    BY <1>3 DEF ForPoll, Standing, RedisFails, cache
  <1>4. ASSUME NEW r \in Requests, ReplaceResults(r)
        PROVE  /\ UNCHANGED published
               /\ counters' = counters \/ counters' = byOption[r]
               /\ \A q \in Requests :
                    /\ byOption'[q] = byOption[q] \/ byOption'[q] = NoFields
                    /\ results'[q] = results[q] \/ results'[q] = Assemble(snap[q], byOption[q])
    BY <1>4 DEF ReplaceResults, Standing
  <1>5. ASSUME NEW r \in Requests, PublishResults(r)
        PROVE  /\ UNCHANGED <<counters, byOption, results>>
               /\ published' = published \/ published' = results[r]
    BY <1>5 DEF PublishResults, local
  <1>6. ASSUME NEW r \in Requests, DeleteResults(r)
        PROVE  /\ UNCHANGED <<published, byOption, results>>
               /\ counters' = counters \/ counters' = NoFields
    BY <1>6 DEF DeleteResults, local
  <1>7. ASSUME NEW r \in Requests, Arrive(r)
        PROVE  UNCHANGED <<counters, published, byOption, results>>
    BY <1>7 DEF Arrive, cache
  <1>8. ASSUME NEW r \in Requests,
               \/ Crash(r) \/ Load(r) \/ Admit(r) \/ Insert(r) \/ CountByPoll(r) \/ Validate(r)
               \/ UpdatePoll(r) \/ ClosePoll(r) \/ DeletePoll(r) \/ DeleteByPoll(r)
               \/ MongoFails(r) \/ CountsByPollFails(r)
        PROVE  UNCHANGED <<counters, published, byOption, results>>
    BY <1>8
    DEF Crash, Load, Admit, Insert, CountByPoll, Validate, UpdatePoll, ClosePoll, DeletePoll,
        DeleteByPoll, MongoFails, CountsByPollFails, local, cache
  <1>9. CASE Tick \/ CreatePoll \/ UNCHANGED vars
    BY <1>9 DEF Tick, CreatePoll, vars, local, cache
  <1>10. CASE LoseKey
    BY <1>10 DEF LoseKey, local
  <1>. QED
    BY <1>1, <1>2, <1>3, <1>4, <1>5, <1>6, <1>7, <1>8, <1>9, <1>10 DEF Next, Serve

LEMMA StepLimited == IInv /\ TypeOK' /\ Limited /\ [Next]_vars => Limited'
  <1>. SUFFICES ASSUME IInv, TypeOK', Limited, [Next]_vars, poll'.stage # "deleted"
                PROVE  Limited'
    BY DEF Limited
  <1>. DEFINE Still(f) == \A o \in DOMAIN f : f[o] =< Bound(o)'
  <1>0. /\ TypeOK /\ poll.stage # "deleted"
        /\ \A o : /\ Cardinality(For(o)) \in Nat /\ Cardinality(For(o))' \in Nat
                  /\ Bound(o) \in Nat /\ Bound(o)' \in Nat
                  /\ Cardinality(For(o)) =< Bound(o)
    <2>1. TypeOK /\ poll.stage # "deleted" /\ IsFiniteSet(votes) /\ IsFiniteSet(votes')
      BY VotesGoOn DEF IInv, TypeOK, StoresOK
    <2>2. \A o : /\ Cardinality(For(o)) \in Nat /\ Bound(o) \in Nat
                 /\ Cardinality(For(o)) =< Bound(o)
      BY <2>1, BoundsAreNumbers DEF Bound
    <2>3. \A o : Cardinality(For(o))' \in Nat /\ Bound(o)' \in Nat
      BY <2>1, BoundsAreNumbersNext
    <2>. QED  BY <2>1, <2>2, <2>3
  <1>1. /\ \A r \in Requests : \A o \in DOMAIN byOption[r] :
              byOption[r][o] \in Nat /\ byOption[r][o] =< Cardinality(For(o))
        /\ \A r \in Requests : AtMost(results[r].counts) /\ IsCounts(results[r].counts)
        /\ AtMost(counters) /\ AtMost(published.counts)
        /\ IsCounts(counters) /\ IsCounts(published.counts)
    BY <1>0 DEF Limited, TypeOK, StoresOK, LocalsOK, IsStanding, IsCounts
  <1>2. ASSUME NEW f, IsCounts(f), AtMost(f) PROVE Still(f)
    <2>1. ASSUME NEW o \in DOMAIN f PROVE f[o] =< Bound(o)'
      <3>1. f[o] \in Nat /\ f[o] =< Bound(o)
        BY <1>2 DEF AtMost, IsCounts
      <3>. QED  BY <1>0, <3>1, BoundsGrow
    <2>. QED  BY <2>1
  <1>3. ASSUME NEW r \in Requests PROVE AtMost(byOption[r]) /\ IsCounts(byOption[r])
    <2>1. ASSUME NEW o \in DOMAIN byOption[r] PROVE byOption[r][o] =< Bound(o)
      BY <1>0, <1>1
    <2>. QED  BY <1>0, <2>1 DEF AtMost, TypeOK, LocalsOK
  <1>4. AtMost(NoFields) /\ IsCounts(NoFields)
    BY NoFieldsIsCounts DEF AtMost, NoFields
  <1>5. Still(counters')
    <2>1. ASSUME NEW r \in Requests, Attempted(r),
                 counters' = Incremented(call[r].option), NEW o \in DOMAIN counters'
          PROVE  counters'[o] =< Bound(o)'
      <3>. DEFINE c == call[r].option
                  m == IF o \in DOMAIN counters THEN counters[o] ELSE 0
      <3>1. counters'[o] = m + (IF o = c THEN 1 ELSE 0)
        BY <2>1 DEF Incremented
      <3>2. m \in Nat /\ m =< Bound(o)
        BY <1>0, <1>1 DEF AtMost, IsCounts
      <3>3. Bound(o) + (IF o = c THEN 1 ELSE 0) =< Bound(o)'
        BY <1>0, <2>1, BoundsGrow
      <3>. HIDE DEF c, m
      <3>. QED  BY <1>0, <3>1, <3>2, <3>3
    <2>2. ASSUME NEW r \in Requests, counters' = byOption[r] PROVE Still(counters')
      BY <1>2, <1>3, <2>2
    <2>3. CASE counters' = counters \/ counters' = NoFields
      BY <1>1, <1>2, <1>4, <2>3
    <2>. QED  BY <1>0, <2>1, <2>2, <2>3, WhatIsWritten DEF AtMost
  <1>6. Still(published'.counts)
    BY <1>0, <1>1, <1>2, WhatIsWritten
  <1>7. ASSUME NEW r \in Requests PROVE Still(results'[r].counts)
    <2>1. ASSUME NEW f, IsCounts(f), AtMost(f), results'[r] = Assemble(snap[r], f)
          PROVE  Still(results'[r].counts)
      <3>1. results'[r].counts = [o \in snap[r].options |-> IF o \in DOMAIN f THEN f[o] ELSE 0]
        BY <2>1 DEF Assemble
      <3>2. Still(f)
        BY <1>2, <2>1
      <3>. QED  BY <1>0, <3>1, <3>2 DEF AtMost
    <2>. QED  BY <1>0, <1>1, <1>2, <1>3, <2>1, WhatIsWritten
  <1>8. ASSUME NEW r \in Requests, NEW o \in DOMAIN byOption'[r]
        PROVE  byOption'[r][o] =< Cardinality(For(o))'
    <2>1. CASE byOption'[r] = byOption[r]
      BY <1>0, <1>1, <1>8, <2>1, BoundsGrow
    <2>2. CASE byOption'[r] = Tally(snap[r])
      <3>1. byOption'[r][o] = Cardinality(For(o))
        BY <1>8, <2>2 DEF Tally
      <3>. QED  BY <3>1, BoundsGrow
    <2>. QED  BY <1>0, <1>8, <2>1, <2>2, WhatIsWritten DEF NoFields
  <1>. QED  BY <1>5, <1>6, <1>7, <1>8 DEF Limited, AtMost

\* Overlap may count a vote in a rebuild and again in its own increment, as often as the
\* driver sends that, and nothing counts it more (result_service.go:76-90, 141;
\* redis/counters.go:25-31; redis/client.go:26-34).
THEOREM VotesCountOncePerAttempt == Spec => []CountedOncePerAttempt
  <1>1. Init => Limited
    BY DEF Init, Limited, AtMost, NoFields, NoResults
  <1>2. IInv /\ IInv' => TypeOK'
    BY DEF IInv
  <1>3. IInv /\ IInv' /\ Limited /\ [Next]_vars => Limited'
    BY <1>2, StepLimited
  <1>4. Limited => CountedOncePerAttempt
    BY DEF Limited, CountedOncePerAttempt, AtMost, Bound
  <1>. QED  BY <1>1, <1>3, <1>4, Inductive, PTL DEF Spec

=============================================================================
