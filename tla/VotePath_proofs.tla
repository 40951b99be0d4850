--------------------------- MODULE VotePath_proofs ---------------------------
(***************************************************************************)
(* What TLAPS proves of VotePath, for any number of requests, voters and   *)
(* options, and whatever faults happen.                                    *)
(***************************************************************************)
EXTENDS VotePath, FiniteSetTheorems, TLAPS

-----------------------------------------------------------------------------
(* Counters: what each operator on them yields. *)

LEMMA NoFieldsIsCounts == IsCounts(NoFields)
  BY DEF IsCounts, NoFields

LEMMA IncrementedIsCounts ==
  ASSUME IsCounts(counters), NEW o \in OptionIDs
  PROVE  IsCounts(Incremented(o))
  BY DEF IsCounts, Incremented

\* Counting the votes of an option yields a number, as there are finitely many.
LEMMA TallyIsCounts ==
  ASSUME IsFiniteSet(votes), NEW p, p.options \subseteq OptionIDs
  PROVE  IsCounts(Tally(p))
  <1>1. ASSUME NEW o PROVE Cardinality(For(o)) \in Nat
    <2>1. For(o) \subseteq votes
      BY DEF For
    <2>2. IsFiniteSet(For(o))
      BY <2>1, FS_Subset
    <2>. QED  BY <2>2, FS_CardinalityType
  <1>. QED  BY <1>1 DEF Tally, IsCounts

LEMMA AssembleIsStanding ==
  ASSUME NEW p \in Polls, NEW f, IsCounts(f)
  PROVE  IsStanding(Assemble(p, f))
  <1>1. p.options \subseteq OptionIDs /\ p.status \in {"active", "closed"}
    BY DEF Polls
  <1>2. IsCounts([o \in p.options |-> IF o \in DOMAIN f THEN f[o] ELSE 0])
    BY <1>1 DEF IsCounts
  <1>3. EffectiveStatus(p, now) \in {"active", "closed"}
    BY <1>1 DEF EffectiveStatus
  <1>. QED  BY <1>2, <1>3 DEF Assemble, IsStanding

-----------------------------------------------------------------------------
(* Type correctness. *)

LEMMA InitType == Init => TypeOK
  <1>. SUFFICES ASSUME Init PROVE TypeOK
    OBVIOUS
  <1>1. NoPoll \in Polls
    BY BoundsAssumption DEF NoPoll, Polls, NoExpiry
  <1>2. IsStanding(NoResults)
    BY NoFieldsIsCounts DEF NoResults, IsStanding
  <1>3. votes \subseteq Ballots /\ IsFiniteSet(votes)
    BY FS_EmptySet DEF Init
  <1>. QED
    BY <1>1, <1>2, <1>3, NoFieldsIsCounts, BoundsAssumption
    DEF Init, TypeOK, StoresOK, LocalsOK, ControlOK, Replies

\* What a request in flight has asked for.
LEMMA AtStep ==
  ASSUME ControlOK, NEW r \in Requests, pc[r] \notin {"idle", "load", "done", "aborted"}
  PROVE  /\ call[r] \in Calls /\ IsCall(call[r])
         /\ IsStepOf(Op(r), pc[r])
  BY CallsAssumption DEF ControlOK

\* The shared state: the clock, MongoDB and Redis.
LEMMA StepStores == TypeOK /\ [Next]_vars => StoresOK'
  <1>. SUFFICES ASSUME TypeOK, [Next]_vars PROVE StoresOK'
    OBVIOUS
  <1>. USE DEF TypeOK
  <1>1. CASE UNCHANGED <<now, store, cache>>
    BY <1>1 DEF StoresOK, store, cache, IsCounts, IsStanding
  <1>2. CASE Tick
    BY <1>2, BoundsAssumption DEF Tick, StoresOK, store, cache, IsCounts, IsStanding
  <1>3. CASE CreatePoll
    BY <1>3 DEF CreatePoll, StoresOK, cache, Polls, IsCounts, IsStanding
  <1>4. CASE LoseKey
    BY <1>4, NoFieldsIsCounts DEF LoseKey, StoresOK, store, IsCounts, IsStanding
  <1>5. ASSUME NEW r \in Requests, Insert(r) PROVE StoresOK'
    <2>1. Op(r) = "cast" /\ IsCall(call[r])
      BY <1>5, AtStep DEF Insert, IsStepOf
    <2>2. Vote(r) \in Ballots
      BY <2>1 DEF Vote, Ballots, IsCall, Op
    <2>3. IsFiniteSet(votes \cup {Vote(r)})
      BY FS_AddElement DEF StoresOK
    <2>. QED  BY <1>5, <2>2, <2>3 DEF Insert, StoresOK, cache, IsCounts, IsStanding
  <1>6. ASSUME NEW r \in Requests, IncrementOption(r) PROVE StoresOK'
    <2>1. Op(r) = "cast" /\ IsCall(call[r])
      BY <1>6, AtStep DEF IncrementOption, IsStepOf
    <2>2. IsCounts(Incremented(call[r].option))
      BY <2>1, IncrementedIsCounts DEF IsCall, Op, StoresOK
    <2>. QED
      BY <1>6, <2>2 DEF IncrementOption, RedisFails, StoresOK, store, cache, IsCounts, IsStanding
  <1>7. ASSUME NEW r \in Requests, ReplaceResults(r) PROVE StoresOK'
    <2>1. counters' \in {counters, byOption[r]} /\ UNCHANGED <<now, store, published>>
      BY <1>7 DEF ReplaceResults
    <2>. QED  BY <2>1 DEF StoresOK, LocalsOK, store, IsCounts, IsStanding
  <1>8. ASSUME NEW r \in Requests, PublishResults(r) PROVE StoresOK'
    <2>1. published' \in {published, results[r]} /\ UNCHANGED <<now, store, counters>>
      BY <1>8 DEF PublishResults
    <2>. QED  BY <2>1 DEF StoresOK, LocalsOK, store, IsCounts, IsStanding
  <1>9. ASSUME NEW r \in Requests, UpdatePoll(r) PROVE StoresOK'
    <2>1. Op(r) = "update" /\ IsCall(call[r])
      BY <1>9, AtStep DEF UpdatePoll
    <2>2. "expiry" \in call[r].edit => call[r].expiry \in 0 .. NoExpiry
      BY <2>1 DEF IsCall, Op
    <2>3. ASSUME NEW S \in SUBSET OptionIDs PROVE Patched(r, S) \in Polls
      BY <2>2 DEF Patched, Polls, StoresOK
    <2>. QED  BY <1>9, <2>3 DEF UpdatePoll, StoresOK, cache, IsCounts, IsStanding
  <1>10. ASSUME NEW r \in Requests, ClosePoll(r) PROVE StoresOK'
    BY <1>10 DEF ClosePoll, StoresOK, Polls, cache, IsCounts, IsStanding
  <1>11. ASSUME NEW r \in Requests, DeletePoll(r) PROVE StoresOK'
    BY <1>11 DEF DeletePoll, StoresOK, Polls, cache, IsCounts, IsStanding
  <1>12. ASSUME NEW r \in Requests, DeleteByPoll(r) PROVE StoresOK'
    <2>1. votes' \subseteq votes /\ UNCHANGED <<now, poll, minted, cache>>
      BY <1>12 DEF DeleteByPoll
    <2>2. IsFiniteSet(votes')
      BY <2>1, FS_Subset DEF StoresOK
    <2>. QED  BY <2>1, <2>2 DEF StoresOK, cache, IsCounts, IsStanding
  <1>13. ASSUME NEW r \in Requests, DeleteResults(r) PROVE StoresOK'
    <2>1. counters' \in {counters, NoFields} /\ UNCHANGED <<now, store, published>>
      BY <1>13 DEF DeleteResults
    <2>. QED  BY <2>1, NoFieldsIsCounts DEF StoresOK, store, IsCounts, IsStanding
  <1>14. ASSUME NEW r \in Requests,
                \/ Arrive(r) \/ Crash(r) \/ Load(r) \/ Admit(r) \/ ForPoll(r) \/ CountsByPoll(r)
                \/ CountByPoll(r) \/ Validate(r) \/ MongoFails(r) \/ CountsByPollFails(r)
         PROVE  UNCHANGED <<now, store, cache>>
    BY <1>14 DEF Arrive, Crash, Load, Admit, ForPoll, RedisFails, CountsByPoll, CountByPoll,
                 Validate, MongoFails, CountsByPollFails
  <1>15. CASE UNCHANGED vars
    BY <1>1, <1>15 DEF vars
  <1>. QED
    BY <1>1, <1>2, <1>3, <1>4, <1>5, <1>6, <1>7, <1>8, <1>9, <1>10, <1>11, <1>12, <1>13,
       <1>14, <1>15 DEF Next, Serve

\* What each request keeps to itself.
LEMMA StepLocals == TypeOK /\ [Next]_vars => LocalsOK'
  <1>. SUFFICES ASSUME TypeOK, [Next]_vars PROVE LocalsOK'
    OBVIOUS
  <1>. DEFINE Noted == /\ reply' \in [Requests -> Replies]
                       /\ resent' \in [Requests -> 0 .. MaxRetries]
  <1>. USE DEF TypeOK
  <1>1. ASSUME NEW r \in Requests, NEW a \in Replies, Answer(r, a)
        PROVE  Noted
    BY <1>1, BoundsAssumption DEF LocalsOK, Answer
  <1>2. ASSUME NEW r \in Requests, NEW l, Goto(r, l)
        PROVE  Noted
    BY <1>2, BoundsAssumption DEF LocalsOK, Goto
  <1>12. ASSUME NEW r \in Requests, Stays \/ Resend(r)
         PROVE  Noted
    BY <1>12, BoundsAssumption DEF LocalsOK, Stays, Resend, control
  <1>3. ASSUME UNCHANGED <<snap, byOption, results>>, Noted
        PROVE  LocalsOK'
    BY <1>3 DEF LocalsOK, IsCounts, IsStanding
  <1>4. ASSUME NEW r \in Requests, NEW f, IsCounts(f), Standing(r, f),
               UNCHANGED <<snap, now>>
        PROVE  /\ DOMAIN results' = Requests
               /\ \A q \in Requests : IsStanding(results'[q])
               /\ Noted
    <2>1. IsStanding(Assemble(snap[r], f))
      BY <1>4, AssembleIsStanding DEF LocalsOK
    <2>2. results' = [results EXCEPT ![r] = Assemble(snap[r], f)]
      BY <1>4 DEF Standing
    <2>3. Noted
      BY <1>1, <1>2, <1>4 DEF Standing, Replies
    <2>. QED  BY <2>1, <2>2, <2>3 DEF LocalsOK
  <1>5. ASSUME NEW r \in Requests, Load(r) PROVE LocalsOK'
    <2>1. Noted
      BY <1>1, <1>2, <1>5 DEF Load, Replies
    <2>. QED
      BY <1>5, <2>1 DEF Load, LocalsOK, StoresOK, IsCounts, IsStanding
  <1>6. ASSUME NEW r \in Requests, ForPoll(r) PROVE LocalsOK'
    <2>1. CASE Standing(r, counters)
      BY <1>4, <1>6, <2>1 DEF ForPoll, StoresOK, LocalsOK, IsCounts, store
    <2>2. CASE Goto(r, "aggregate") /\ UNCHANGED results
      BY <1>2, <1>3, <1>6, <2>2 DEF ForPoll
    <2>. QED  BY <1>6, <2>1, <2>2 DEF ForPoll, RedisFails
  <1>7. ASSUME NEW r \in Requests, CountsByPoll(r) PROVE LocalsOK'
    <2>1. IsCounts(Tally(snap[r]))
      BY TallyIsCounts DEF StoresOK, LocalsOK, Polls
    <2>2. Noted
      BY <1>2, <1>7 DEF CountsByPoll
    <2>. QED  BY <1>7, <2>1, <2>2 DEF CountsByPoll, LocalsOK, IsCounts, IsStanding
  <1>8. ASSUME NEW r \in Requests, ReplaceResults(r) PROVE LocalsOK'
    <2>1. UNCHANGED <<snap, now>>
      BY <1>8 DEF ReplaceResults
    <2>4. CASE Resend(r) /\ UNCHANGED <<byOption, results>>
      BY <1>3, <1>12, <2>1, <2>4
    <2>2. CASE Goto(r, "read") /\ UNCHANGED results /\ byOption' = [byOption EXCEPT ![r] = NoFields]
      BY <1>2, <2>1, <2>2, NoFieldsIsCounts DEF LocalsOK, IsCounts, IsStanding
    <2>3. CASE Standing(r, byOption[r]) /\ byOption' = [byOption EXCEPT ![r] = NoFields]
      <3>1. IsCounts(byOption[r])
        BY DEF LocalsOK
      <3>. QED  BY <1>4, <2>1, <2>3, <3>1, NoFieldsIsCounts DEF LocalsOK, IsCounts
    <2>. QED  BY <1>8, <2>2, <2>3, <2>4 DEF ReplaceResults
  <1>9. ASSUME NEW r \in Requests, ClosePoll(r) PROVE LocalsOK'
    <2>1. Noted
      BY <1>1, <1>2, <1>9 DEF ClosePoll, Unacknowledged, Replies
    <2>2. snap' \in [Requests -> Polls]
      <3>1. poll' \in Polls \/ UNCHANGED snap
        BY <1>9 DEF ClosePoll, StoresOK, Polls
      <3>. QED  BY <1>9, <3>1 DEF ClosePoll, LocalsOK
    <2>. QED  BY <1>9, <2>1, <2>2 DEF ClosePoll, LocalsOK, IsCounts, IsStanding
  <1>10. ASSUME NEW r \in Requests,
                \/ Arrive(r) \/ Admit(r) \/ Insert(r) \/ IncrementOption(r)
                \/ PublishResults(r) \/ CountByPoll(r) \/ Validate(r) \/ UpdatePoll(r)
                \/ DeletePoll(r) \/ DeleteByPoll(r) \/ DeleteResults(r)
                \/ MongoFails(r) \/ CountsByPollFails(r)
         PROVE  LocalsOK'
    <2>1. UNCHANGED <<snap, byOption, results>>
      BY <1>10 DEF Arrive, Admit, Insert, IncrementOption, PublishResults, CountByPoll,
           Validate, UpdatePoll, DeletePoll, DeleteByPoll, DeleteResults, MongoFails,
           CountsByPollFails, local
    <2>2. \/ Stays \/ Resend(r)
          \/ \E l : Goto(r, l)
          \/ \E a \in Replies : Answer(r, a)
      BY <1>10 DEF Arrive, Admit, Insert, IncrementOption, PublishResults, CountByPoll,
           Validate, UpdatePoll, DeletePoll, DeleteByPoll, DeleteResults, MongoFails,
           CountsByPollFails, RedisFails, Unacknowledged, Replies
    <2>3. Noted
      BY <1>1, <1>2, <1>12, <2>2
    <2>. QED  BY <1>3, <2>1, <2>3
  <1>11. CASE UNCHANGED <<local, resent, reply>>
    BY <1>3, <1>11 DEF local, LocalsOK
  <1>. QED
    BY <1>5, <1>6, <1>7, <1>8, <1>9, <1>10, <1>11
    DEF Next, Serve, vars, control, Tick, CreatePoll, LoseKey, Crash

\* A request that goes on to a step of its operation, or ends, is where it may be.
LEMMA MoveOn ==
  ASSUME ControlOK, NEW r \in Requests, call[r] \in Calls, UNCHANGED call,
         NEW l, pc' = [pc EXCEPT ![r] = l],
         l \in {"load", "done", "aborted"} \/ IsStepOf(Op(r), l)
  PROVE  ControlOK'
  <1>1. ASSUME NEW q \in Requests PROVE Op(q)' = Op(q) /\ call'[q] = call[q]
    BY DEF Op
  <1>2. DOMAIN pc' = Requests /\ DOMAIN call' = Requests
    BY DEF ControlOK
  <1>3. pc'[r] = l /\ \A q \in Requests \ {r} : pc'[q] = pc[q]
    BY DEF ControlOK
  <1>. QED  BY <1>1, <1>2, <1>3 DEF ControlOK

\* Where a loaded request goes.
LEMMA FirstSteps ==
  ASSUME NEW c \in Calls
  PROVE  \/ c.op = "cast" /\ FirstStep(c) = "admit"
         \/ c.op = "results" /\ FirstStep(c) = "read"
         \/ c.op = "close" /\ FirstStep(c) = "write"
         \/ c.op = "delete" /\ FirstStep(c) = "remove"
         \/ c.op = "update" /\ FirstStep(c) \in {"count", "validate"}
  <1>1. c.op \in {"cast", "results", "update", "close", "delete"}
    BY CallsAssumption DEF IsCall, Managing
  <1>2. /\ Entry["cast"] = "admit" /\ Entry["results"] = "read"
        /\ Entry["close"] = "write" /\ Entry["delete"] = "remove"
    BY DEF Entry
  <1>. QED  BY <1>1, <1>2 DEF FirstStep

\* The control structure.
LEMMA StepControl == TypeOK /\ [Next]_vars => ControlOK'
  <1>. SUFFICES ASSUME TypeOK, [Next]_vars PROVE ControlOK'
    OBVIOUS
  <1>. USE DEF TypeOK
  <1>1. CASE UNCHANGED <<pc, call>>
    BY <1>1 DEF ControlOK, IsStepOf, Op
  <1>17. ASSUME NEW r \in Requests, UNCHANGED call, Stays \/ Resend(r)
         PROVE  ControlOK'
    BY <1>1, <1>17 DEF Stays, Resend, control
  <1>2. ASSUME NEW r \in Requests, call[r] \in Calls, UNCHANGED call,
               \E a : Answer(r, a)
        PROVE  ControlOK'
    BY <1>2, MoveOn DEF Answer
  <1>3. ASSUME NEW r \in Requests, call[r] \in Calls, UNCHANGED call,
               \E l : Goto(r, l) /\ IsStepOf(Op(r), l)
        PROVE  ControlOK'
    BY <1>3, MoveOn DEF Goto
  <1>4. ASSUME NEW r \in Requests, pc[r] # "idle" PROVE call[r] \in Calls
    BY <1>4 DEF ControlOK
  <1>5. ASSUME NEW r \in Requests, NEW f, pc[r] \in {"read", "replace"}, UNCHANGED call,
               Standing(r, f)
        PROVE  ControlOK'
    <2>1. IsStepOf(Op(r), pc[r])
      BY <1>5, AtStep
    <2>2. CASE Op(r) = "results"
      BY <1>2, <1>4, <1>5, <2>2 DEF Standing
    <2>3. CASE Op(r) # "results"
      <3>1. IsStepOf(Op(r), "publish")
        BY <1>5, <2>1, <2>3 DEF IsStepOf
      <3>. QED  BY <1>3, <1>4, <1>5, <2>3, <3>1 DEF Standing
    <2>. QED  BY <2>2, <2>3
  <1>6. ASSUME NEW r \in Requests, Arrive(r) PROVE ControlOK'
    <2>1. \E c \in Calls : call' = [call EXCEPT ![r] = c]
      BY <1>6 DEF Arrive
    <2>2. call'[r] \in Calls /\ DOMAIN call' = Requests
      BY <2>1 DEF ControlOK
    <2>3. pc' = [pc EXCEPT ![r] = "load"]
      BY <1>6 DEF Arrive, Goto
    <2>4. ASSUME NEW q \in Requests, q # r PROVE call'[q] = call[q] /\ pc'[q] = pc[q]
      BY <2>1, <2>3, <2>4 DEF ControlOK
    <2>. QED  BY <2>2, <2>3, <2>4 DEF ControlOK, Op
  <1>7. ASSUME NEW r \in Requests, Crash(r) PROVE ControlOK'
    BY <1>4, <1>7, MoveOn DEF Crash, InFlight, local
  <1>8. ASSUME NEW r \in Requests, Load(r) PROVE ControlOK'
    <2>1. call[r] \in Calls /\ UNCHANGED call
      BY <1>4, <1>8 DEF Load
    <2>2. IsStepOf(Op(r), FirstStep(call[r]))
      BY <2>1, FirstSteps DEF IsStepOf, Op
    <2>. QED  BY <1>2, <1>3, <1>8, <2>1, <2>2 DEF Load
  <1>9. ASSUME NEW r \in Requests, Insert(r) \/ IncrementOption(r) \/ Admit(r) PROVE ControlOK'
    <2>1. call[r] \in Calls /\ UNCHANGED call /\ Op(r) = "cast"
      BY <1>4, <1>9, AtStep DEF Insert, IncrementOption, Admit, IsStepOf, local
    <2>. QED
      BY <1>2, <1>3, <1>9, <1>17, <2>1
      DEF Insert, IncrementOption, Admit, Unacknowledged, RedisFails, IsStepOf
  <1>10. ASSUME NEW r \in Requests, ForPoll(r) PROVE ControlOK'
    <2>1. call[r] \in Calls /\ UNCHANGED call /\ IsStepOf(Op(r), "aggregate")
      BY <1>4, <1>10, AtStep DEF ForPoll, IsStepOf
    <2>. QED  BY <1>3, <1>5, <1>10, <2>1 DEF ForPoll, RedisFails
  <1>11. ASSUME NEW r \in Requests, CountsByPoll(r) \/ CountsByPollFails(r) PROVE ControlOK'
    <2>1. call[r] \in Calls /\ UNCHANGED call /\ IsStepOf(Op(r), pc[r])
      BY <1>4, <1>11, AtStep DEF CountsByPoll, CountsByPollFails, local
    <2>. QED
      BY <1>2, <1>3, <1>11, <2>1 DEF CountsByPoll, CountsByPollFails, IsStepOf
  <1>12. ASSUME NEW r \in Requests, ReplaceResults(r) PROVE ControlOK'
    <2>1. call[r] \in Calls /\ UNCHANGED call /\ IsStepOf(Op(r), pc[r])
      BY <1>4, <1>12, AtStep DEF ReplaceResults
    <2>2. CASE pc[r] = "record replace" /\ Goto(r, "read")
      BY <1>3, <2>1, <2>2 DEF IsStepOf
    <2>3. CASE pc[r] = "replace" /\ Standing(r, byOption[r])
      BY <1>5, <2>1, <2>3
    <2>. QED  BY <1>12, <1>17, <2>1, <2>2, <2>3 DEF ReplaceResults
  <1>13. ASSUME NEW r \in Requests, CountByPoll(r) \/ Validate(r) PROVE ControlOK'
    <2>1. call[r] \in Calls /\ UNCHANGED call /\ Op(r) = "update"
      BY <1>4, <1>13, AtStep DEF CountByPoll, Validate, IsStepOf, local
    <2>. QED  BY <1>2, <1>3, <1>13, <2>1 DEF CountByPoll, Validate, IsStepOf
  <1>14. ASSUME NEW r \in Requests, ClosePoll(r) PROVE ControlOK'
    <2>1. call[r] \in Calls /\ UNCHANGED call
      BY <1>4, <1>14 DEF ClosePoll
    <2>. QED  BY <1>2, <1>3, <1>14, <2>1 DEF ClosePoll, Unacknowledged, IsStepOf
  <1>15. ASSUME NEW r \in Requests, DeletePoll(r) \/ DeleteByPoll(r) PROVE ControlOK'
    <2>1. call[r] \in Calls /\ UNCHANGED call /\ Op(r) = "delete"
      BY <1>4, <1>15, AtStep DEF DeletePoll, DeleteByPoll, IsStepOf, local
    <2>. QED
      BY <1>2, <1>3, <1>15, <1>17, <2>1 DEF DeletePoll, DeleteByPoll, Unacknowledged, IsStepOf
  <1>16. ASSUME NEW r \in Requests,
                PublishResults(r) \/ UpdatePoll(r) \/ DeleteResults(r) \/ MongoFails(r)
         PROVE  ControlOK'
    <2>1. call[r] \in Calls /\ UNCHANGED call
      BY <1>4, <1>16 DEF PublishResults, UpdatePoll, DeleteResults, MongoFails, local
    <2>. QED
      BY <1>2, <1>16, <1>17, <2>1 DEF PublishResults, UpdatePoll, DeleteResults, MongoFails, Unacknowledged
  <1>. QED
    BY <1>1, <1>6, <1>7, <1>8, <1>9, <1>10, <1>11, <1>12, <1>13, <1>14, <1>15, <1>16
    DEF Next, Serve, vars, control, local, Tick, CreatePoll, LoseKey

\* Every behaviour, of any number of requests, keeps the types and the control
\* structure of the code.
THEOREM TypeCorrect == Spec => []TypeOK
  <1>1. TypeOK /\ [Next]_vars => TypeOK'
    BY StepStores, StepLocals, StepControl DEF TypeOK
  <1>. QED  BY <1>1, InitType, PTL DEF Spec

-----------------------------------------------------------------------------
(***************************************************************************)
(* The safety properties of VotePath, proved from one inductive invariant. *)
(* Its parts say what a request knows, from where it is, of stores that    *)
(* other requests go on changing.                                          *)
(***************************************************************************)

\* Where a vote's request is once its vote is stored.
Recording == {"record", "record aggregate", "record replace",
              "read", "aggregate", "replace", "publish"}

\* Nobody is served before the poll exists; votes are only purged once it does
\* not; and a request answers when it is done.
Lifecycle ==
    /\ poll.stage = "absent" => \A r \in Requests : pc[r] = "idle"
    /\ \A r \in Requests :
        /\ pc[r] \in {"purge", "clear"} => poll.stage = "deleted"
        /\ reply[r] # "none" => pc[r] = "done"

\* The votes collection, against the requests that wrote it and their answers.
Ledger ==
    /\ \A d \in votes : \E r \in Requests :
        /\ Cast(r) /\ d = Vote(r)
        /\ pc[r] \in Recording \cup {"done", "aborted"}
        /\ reply[r] \in {"none", "ok", "error"}
    /\ poll.stage = "live" => \A r \in Requests : Cast(r) =>
        /\ pc[r] \in Recording \/ reply[r] = "ok" => Vote(r) \in votes
        /\ reply[r] = "already voted" => HasVoted(call[r].voter)

\* What a close or a delete on its way to its answer has already done.
Decided ==
    \A r \in Requests : pc[r] # "idle" =>
        /\ Op(r) = "close" /\ (pc[r] \in Recording \/ reply[r] = "ok") => poll.status = "closed"
        /\ Op(r) = "delete" /\ reply[r] = "ok" => poll.stage = "deleted"

-----------------------------------------------------------------------------

LEMMA InitSafe == Init => Lifecycle /\ Ledger /\ Decided /\ OneVotePerVoter /\ StrangersRefused
  BY DEF Init, Lifecycle, Ledger, Decided, OneVotePerVoter, StrangersRefused, Cast, Op, NoPoll

\* A step of request r is one of a request in flight, and moves no other request.
LEMMA ServeIsLocal ==
  ASSUME TypeOK, NEW r \in Requests, Serve(r) \/ Crash(r)
  PROVE  /\ pc[r] \notin {"idle", "done", "aborted"}
         /\ UNCHANGED call
         /\ \A q \in Requests \ {r} :
              pc'[q] = pc[q] /\ resent'[q] = resent[q] /\ reply'[q] = reply[q]
  <1>. USE DEF TypeOK, ControlOK, LocalsOK
  <1>1. ASSUME NEW l, Goto(r, l)
        PROVE  \A q \in Requests \ {r} :
                  pc'[q] = pc[q] /\ resent'[q] = resent[q] /\ reply'[q] = reply[q]
    BY <1>1 DEF Goto
  <1>2. ASSUME NEW a, Answer(r, a)
        PROVE  \A q \in Requests \ {r} :
                  pc'[q] = pc[q] /\ resent'[q] = resent[q] /\ reply'[q] = reply[q]
    BY <1>2 DEF Answer
  <1>3. CASE Crash(r)
    BY <1>3 DEF Crash, InFlight, local
  <1>4. CASE Load(r) \/ Admit(r) \/ Insert(r) \/ IncrementOption(r)
    BY <1>1, <1>2, <1>4 DEF Load, Admit, Insert, IncrementOption, Unacknowledged, RedisFails, Resend, local
  <1>5. CASE ForPoll(r) \/ CountsByPoll(r) \/ ReplaceResults(r) \/ PublishResults(r)
    BY <1>1, <1>2, <1>5
    DEF ForPoll, CountsByPoll, ReplaceResults, PublishResults, Standing, RedisFails, Resend, local
  <1>6. CASE CountByPoll(r) \/ Validate(r) \/ UpdatePoll(r) \/ ClosePoll(r)
    BY <1>1, <1>2, <1>6 DEF CountByPoll, Validate, UpdatePoll, ClosePoll, Unacknowledged, local
  <1>7. CASE DeletePoll(r) \/ DeleteByPoll(r) \/ DeleteResults(r) \/ MongoFails(r)
             \/ CountsByPollFails(r)
    BY <1>1, <1>2, <1>7
    DEF DeletePoll, DeleteByPoll, DeleteResults, MongoFails, CountsByPollFails, Unacknowledged, Stays,
        Resend, control, local
  <1>. QED  BY <1>3, <1>4, <1>5, <1>6, <1>7 DEF Serve

\* A request changes the poll only while it exists, and never reopens it.
LEMMA ServeAndPoll ==
  ASSUME TypeOK, NEW r \in Requests, Serve(r) \/ Crash(r)
  PROVE  \/ poll' = poll
         \/ /\ poll.stage = "live" /\ poll'.stage \in {"live", "deleted"}
            /\ poll.status = "closed" => poll'.status = "closed"
  <1>1. CASE Crash(r) \/ Load(r) \/ Admit(r) \/ Insert(r) \/ IncrementOption(r) \/ ForPoll(r)
             \/ CountsByPoll(r) \/ ReplaceResults(r) \/ PublishResults(r) \/ CountByPoll(r)
             \/ Validate(r) \/ DeleteByPoll(r) \/ DeleteResults(r) \/ MongoFails(r)
             \/ CountsByPollFails(r)
    BY <1>1
    DEF Crash, Load, Admit, Insert, IncrementOption, ForPoll, CountsByPoll, ReplaceResults,
        PublishResults, CountByPoll, Validate, DeleteByPoll, DeleteResults, MongoFails,
        CountsByPollFails, store
  <1>2. CASE UpdatePoll(r)
    BY <1>2 DEF UpdatePoll, Patched, TypeOK, StoresOK, Polls
  <1>3. CASE ClosePoll(r) \/ DeletePoll(r)
    BY <1>3 DEF ClosePoll, DeletePoll, TypeOK, StoresOK, Polls
  <1>. QED  BY <1>1, <1>2, <1>3 DEF Serve

\* A step of a request leaves it in flight without an answer, or done, or aborted.
LEMMA ServeAnswersOnce ==
  ASSUME TypeOK, Lifecycle, NEW r \in Requests, Serve(r) \/ Crash(r)
  PROVE  reply'[r] # "none" => pc'[r] = "done"
  <1>1. reply[r] = "none"
    BY ServeIsLocal DEF Lifecycle
  <1>2. ASSUME NEW a, Answer(r, a) PROVE pc'[r] = "done"
    BY <1>2 DEF Answer, TypeOK, ControlOK
  <1>3. CASE Crash(r) \/ Load(r) \/ Admit(r) \/ Insert(r) \/ IncrementOption(r) \/ CountsByPoll(r)
    BY <1>1, <1>2, <1>3
    DEF Crash, Load, Admit, Insert, IncrementOption, CountsByPoll, RedisFails, Resend, Unacknowledged,
        Goto
  <1>4. CASE ForPoll(r) \/ ReplaceResults(r) \/ PublishResults(r) \/ CountByPoll(r) \/ Validate(r)
    BY <1>1, <1>2, <1>4
    DEF ForPoll, ReplaceResults, PublishResults, CountByPoll, Validate, Standing, RedisFails, Resend,
        Goto
  <1>5. CASE UpdatePoll(r) \/ ClosePoll(r) \/ DeletePoll(r) \/ DeleteByPoll(r) \/ DeleteResults(r)
             \/ MongoFails(r) \/ CountsByPollFails(r)
    BY <1>1, <1>2, <1>5
    DEF UpdatePoll, ClosePoll, DeletePoll, DeleteByPoll, DeleteResults, MongoFails,
        CountsByPollFails, Unacknowledged, Goto, Stays, Resend, control
  <1>. QED  BY <1>3, <1>4, <1>5 DEF Serve

\* From the record of a vote, or the first read of a standing, a request only goes
\* on recording until it is accepted or fails; it changes Redis alone.
LEMMA RecordingGoesOn ==
  ASSUME TypeOK, Lifecycle, NEW r \in Requests, Serve(r) \/ Crash(r), pc[r] \in Recording
  PROVE  /\ pc'[r] \in Recording \cup {"done", "aborted"}
         /\ reply'[r] \in {"none", "ok", "error"}
         /\ UNCHANGED <<poll, minted, votes>>
  <1>. USE DEF TypeOK, ControlOK, LocalsOK, Recording
  <1>1. reply[r] = "none"
    BY DEF Lifecycle
  <1>2. ASSUME NEW f, Standing(r, f)
        PROVE  pc'[r] \in {"done", "publish"} /\ reply'[r] \in {"none", "ok"}
    BY <1>1, <1>2 DEF Standing, Goto, Answer
  <1>3. CASE Crash(r) \/ IncrementOption(r) \/ ForPoll(r) \/ ReplaceResults(r)
    BY <1>1, <1>2, <1>3
    DEF Crash, IncrementOption, ForPoll, ReplaceResults, RedisFails, Resend, Goto, store
  <1>4. CASE CountsByPoll(r) \/ CountsByPollFails(r) \/ PublishResults(r)
    BY <1>1, <1>4 DEF CountsByPoll, CountsByPollFails, PublishResults, Resend, Goto, Answer, store
  <1>. QED
    BY <1>3, <1>4
    DEF Serve, Load, Admit, Insert, CountByPoll, Validate, UpdatePoll, ClosePoll, DeletePoll,
        DeleteByPoll, DeleteResults, MongoFails

\* Until the insert, a vote is neither stored nor answered as if it were.
LEMMA BeforeTheInsert ==
  ASSUME TypeOK, Lifecycle, NEW r \in Requests, Serve(r) \/ Crash(r),
         Op(r) = "cast", pc[r] \in {"load", "admit"}
  PROVE  /\ pc'[r] \in {"admit", "insert", "done", "aborted"}
         /\ reply'[r] \in {"none", "not found", "invalid", "poll closed", "forbidden", "error"}
         /\ UNCHANGED <<poll, votes>>
  <1>. USE DEF TypeOK, ControlOK, LocalsOK
  <1>1. reply[r] = "none"
    BY DEF Lifecycle
  <1>2. FirstStep(call[r]) = "admit"
    BY FirstSteps DEF Op
  <1>. QED
    BY <1>1, <1>2
    DEF Serve, Crash, Load, Admit, Insert, IncrementOption, ForPoll, CountsByPoll, ReplaceResults,
        PublishResults, CountByPoll, Validate, UpdatePoll, ClosePoll, DeletePoll, DeleteByPoll,
        DeleteResults, MongoFails, CountsByPollFails, Unacknowledged, Goto, Answer, store

\* Only an insert and the purge of a deleted poll change the votes.
LEMMA WhoChangesVotes ==
  ASSUME NEW r \in Requests, Serve(r) \/ Crash(r)
  PROVE  UNCHANGED votes \/ Insert(r) \/ DeleteByPoll(r)
  BY DEF Serve, Crash, Load, Admit, IncrementOption, ForPoll, CountsByPoll, ReplaceResults,
        PublishResults, CountByPoll, Validate, UpdatePoll, ClosePoll, DeletePoll,
        DeleteResults, MongoFails, CountsByPollFails, store

LEMMA StepLifecycle == TypeOK /\ Lifecycle /\ [Next]_vars => Lifecycle'
  <1>. SUFFICES ASSUME TypeOK, Lifecycle, [Next]_vars PROVE Lifecycle'
    OBVIOUS
  <1>. USE DEF TypeOK, Lifecycle
  <1>1. CASE UNCHANGED <<poll, pc, reply>>
    BY <1>1
  <1>2. CASE CreatePoll
    BY <1>2 DEF CreatePoll, control
  <1>3. ASSUME NEW r \in Requests, Arrive(r) PROVE Lifecycle'
    BY <1>3 DEF Arrive, Goto, ControlOK, LocalsOK, store
  <1>4. ASSUME NEW r \in Requests, Serve(r) \/ Crash(r) PROVE Lifecycle'
    <2>1. /\ pc[r] \notin {"idle", "done", "aborted"}
          /\ \A q \in Requests \ {r} : pc'[q] = pc[q] /\ reply'[q] = reply[q]
      BY <1>4, ServeIsLocal
    <2>2. poll.stage # "absent" /\ poll'.stage # "absent"
      BY <1>4, <2>1, ServeAndPoll
    <2>3. poll.stage = "deleted" => poll'.stage = "deleted"
      BY <1>4, ServeAndPoll
    <2>4. ASSUME pc'[r] \in {"purge", "clear"} PROVE poll'.stage = "deleted"
      <3>1. CASE Crash(r) \/ Load(r) \/ Admit(r) \/ Insert(r) \/ CountByPoll(r) \/ Validate(r)
        BY <2>1, <2>4, <3>1, FirstSteps
        DEF Crash, Load, Admit, Insert, CountByPoll, Validate, Unacknowledged, Goto, Answer,
            ControlOK
      <3>2. CASE pc[r] \in Recording
        BY <1>4, <2>4, <3>2, RecordingGoesOn DEF Recording
      <3>3. CASE DeletePoll(r) \/ DeleteByPoll(r)
        BY <2>4, <3>3
        DEF DeletePoll, DeleteByPoll, Stays, control, Unacknowledged, Goto, Answer, StoresOK, Polls,
            ControlOK
      <3>4. CASE UpdatePoll(r) \/ ClosePoll(r) \/ DeleteResults(r) \/ MongoFails(r)
        BY <2>3, <2>4, <3>4
        DEF UpdatePoll, ClosePoll, DeleteResults, MongoFails, Unacknowledged, Resend, Goto, Answer,
            ControlOK
      <3>. QED
        BY <1>4, <3>1, <3>2, <3>3, <3>4
        DEF Serve, IncrementOption, ForPoll, CountsByPoll, ReplaceResults, PublishResults,
            CountsByPollFails, Recording
    <2>5. reply'[r] # "none" => pc'[r] = "done"
      BY <1>4, ServeAnswersOnce
    <2>. QED  BY <2>1, <2>2, <2>3, <2>4, <2>5
  <1>. QED  BY <1>1, <1>2, <1>3, <1>4 DEF Next, Tick, LoseKey, vars, control, store

\* A vote in the collection is that of one request, which is past its insert.
LEMMA StoredIsPast ==
  ASSUME Ledger, NEW r \in Requests, Vote(r) \in votes
  PROVE  pc[r] \in Recording \cup {"done", "aborted"} /\ reply[r] \in {"none", "ok", "error"}
  BY DEF Ledger, Vote

\* A step of r that stores and purges nothing keeps the ledger if r's own vote and
\* answer agree with it.
LEMMA LedgerKept ==
  ASSUME Ledger, NEW r \in Requests, UNCHANGED <<votes, call>>,
         poll'.stage = "live" => poll.stage = "live",
         \A q \in Requests \ {r} : pc'[q] = pc[q] /\ reply'[q] = reply[q],
         pc[r] # "idle", pc'[r] # "idle",
         Vote(r) \in votes /\ Op(r) = "cast" =>
            pc'[r] \in Recording \cup {"done", "aborted"} /\ reply'[r] \in {"none", "ok", "error"},
         Op(r) = "cast" /\ poll.stage = "live" =>
            /\ pc'[r] \in Recording \/ reply'[r] = "ok" => Vote(r) \in votes
            /\ reply'[r] = "already voted" => HasVoted(call[r].voter)
  PROVE  Ledger'
  <1>1. \A q \in Requests : Vote(q)' = Vote(q) /\ Cast(q)' = Cast(q)
    BY DEF Vote, Cast, Op
  <1>2. \A v : HasVoted(v)' = HasVoted(v)
    BY DEF HasVoted
  <1>3. ASSUME NEW d \in votes
        PROVE  \E q \in Requests :
                  /\ Cast(q)' /\ d = Vote(q)'
                  /\ pc'[q] \in Recording \cup {"done", "aborted"}
                  /\ reply'[q] \in {"none", "ok", "error"}
    <2>1. PICK q \in Requests : /\ Cast(q) /\ d = Vote(q)
                                /\ pc[q] \in Recording \cup {"done", "aborted"}
                                /\ reply[q] \in {"none", "ok", "error"}
      BY DEF Ledger
    <2>2. CASE q = r
      BY <1>1, <2>1, <2>2 DEF Cast
    <2>3. CASE q # r
      BY <1>1, <2>1, <2>3
    <2>. QED  BY <2>2, <2>3
  <1>4. ASSUME poll'.stage = "live", NEW q \in Requests, Cast(q)'
        PROVE  /\ pc'[q] \in Recording \/ reply'[q] = "ok" => Vote(q)' \in votes'
               /\ reply'[q] = "already voted" => HasVoted(call[q].voter)'
    <2>1. CASE q = r
      BY <1>1, <1>2, <1>4, <2>1 DEF Cast
    <2>2. CASE q # r
      BY <1>1, <1>2, <1>4, <2>2 DEF Ledger
    <2>. QED  BY <2>1, <2>2
  <1>. QED  BY <1>3, <1>4 DEF Ledger

\* A vote is inserted as the first of its voter.
LEMMA InsertKeepsLedger ==
  ASSUME TypeOK, Lifecycle, Ledger, OneVotePerVoter, NEW r \in Requests, Insert(r)
  PROVE  Ledger' /\ OneVotePerVoter'
  <1>1. Op(r) = "cast" /\ reply[r] = "none" /\ pc[r] = "insert"
    BY AtStep DEF Insert, IsStepOf, TypeOK, Lifecycle
  <1>2. /\ UNCHANGED <<poll, call>>
        /\ \A q \in Requests \ {r} : pc'[q] = pc[q] /\ reply'[q] = reply[q]
    BY ServeIsLocal DEF Serve, Insert
  <1>3. \A q \in Requests : Vote(q)' = Vote(q)
    BY <1>2 DEF Vote
  <1>. QED
    <2>1. CASE HasVoted(call[r].voter) /\ Answer(r, "already voted") /\ UNCHANGED votes
      <3>1. pc'[r] = "done" /\ reply'[r] = "already voted"
        BY <2>1 DEF Answer, TypeOK, ControlOK, LocalsOK
      <3>2. Vote(r) \notin votes
        BY <1>1, StoredIsPast DEF Recording
      <3>3. Ledger'
        BY <1>1, <1>2, <2>1, <3>1, <3>2, LedgerKept DEF Recording
      <3>. QED  BY <2>1, <3>3 DEF OneVotePerVoter
    <2>2. CASE /\ ~HasVoted(call[r].voter)
               /\ votes' = votes \cup {Vote(r)}
               /\ Goto(r, "record") \/ Unacknowledged(r)
      <3>1. \/ pc'[r] = "record" /\ reply'[r] = "none"
            \/ pc'[r] = "done" /\ reply'[r] = "error"
        BY <1>1, <2>2 DEF Goto, Unacknowledged, Answer, TypeOK, ControlOK, LocalsOK
      <3>2. OneVotePerVoter'
        BY <2>2 DEF OneVotePerVoter, HasVoted, Vote
      <3>3. ASSUME NEW d \in votes'
            PROVE  \E q \in Requests :
                      /\ Cast(q)' /\ d = Vote(q)'
                      /\ pc'[q] \in Recording \cup {"done", "aborted"}
                      /\ reply'[q] \in {"none", "ok", "error"}
        <4>1. CASE d = Vote(r)
          BY <1>1, <1>2, <1>3, <3>1, <4>1 DEF Cast, Op, Recording
        <4>2. CASE d \in votes
          <5>1. PICK q \in Requests : /\ Cast(q) /\ d = Vote(q)
                                      /\ pc[q] \in Recording \cup {"done", "aborted"}
                                      /\ reply[q] \in {"none", "ok", "error"}
            BY <4>2 DEF Ledger
          <5>2. q # r
            BY <1>1, <5>1 DEF Recording
          <5>. QED  BY <1>2, <1>3, <5>1, <5>2 DEF Cast, Op
        <4>. QED  BY <2>2, <4>1, <4>2
      <3>4. ASSUME poll'.stage = "live", NEW q \in Requests, Cast(q)'
            PROVE  /\ pc'[q] \in Recording \/ reply'[q] = "ok" => Vote(q)' \in votes'
                   /\ reply'[q] = "already voted" => HasVoted(call[q].voter)'
        <4>1. CASE q = r
          BY <1>3, <2>2, <3>1, <4>1
        <4>2. CASE q # r
          BY <1>2, <1>3, <2>2, <3>4, <4>2 DEF Ledger, Cast, Op, HasVoted
        <4>. QED  BY <4>1, <4>2
      <3>. QED  BY <3>2, <3>3, <3>4 DEF Ledger
    <2>. QED  BY <2>1, <2>2 DEF Insert

LEMMA StepLedger ==
  TypeOK /\ Lifecycle /\ Ledger /\ OneVotePerVoter /\ [Next]_vars => Ledger' /\ OneVotePerVoter'
  <1>. SUFFICES ASSUME TypeOK, Lifecycle, Ledger, OneVotePerVoter, [Next]_vars
                PROVE  Ledger' /\ OneVotePerVoter'
    OBVIOUS
  <1>1. CASE UNCHANGED <<poll, votes, pc, call, reply>>
    BY <1>1 DEF Ledger, OneVotePerVoter, Cast, Op, Vote, HasVoted
  <1>2. CASE CreatePoll
    BY <1>2 DEF CreatePoll, control, Ledger, Lifecycle, OneVotePerVoter, Cast, Op, Vote, HasVoted, local
  <1>3. ASSUME NEW r \in Requests, Arrive(r) PROVE Ledger' /\ OneVotePerVoter'
    <2>1. /\ pc[r] = "idle" /\ reply[r] = "none" /\ Vote(r) \notin votes
          /\ \A q \in Requests \ {r} : pc'[q] = pc[q] /\ call'[q] = call[q]
          /\ pc'[r] = "load" /\ UNCHANGED <<poll, votes, reply>>
      BY <1>3, StoredIsPast
      DEF Arrive, Goto, store, TypeOK, ControlOK, Lifecycle, Recording
    <2>2. ASSUME NEW q \in Requests \ {r} PROVE Vote(q)' = Vote(q) /\ Cast(q)' = Cast(q)
      BY <2>1 DEF Vote, Cast, Op
    <2>3. ASSUME NEW d \in votes'
          PROVE  \E q \in Requests :
                    /\ Cast(q)' /\ d = Vote(q)'
                    /\ pc'[q] \in Recording \cup {"done", "aborted"}
                    /\ reply'[q] \in {"none", "ok", "error"}
      <3>1. PICK q \in Requests : /\ Cast(q) /\ d = Vote(q)
                                  /\ pc[q] \in Recording \cup {"done", "aborted"}
                                  /\ reply[q] \in {"none", "ok", "error"}
        BY <2>1 DEF Ledger
      <3>. QED  BY <2>1, <2>2, <3>1 DEF Recording
    <2>4. ASSUME poll'.stage = "live", NEW q \in Requests, Cast(q)'
          PROVE  /\ pc'[q] \in Recording \/ reply'[q] = "ok" => Vote(q)' \in votes'
                 /\ reply'[q] = "already voted" => HasVoted(call[q].voter)'
      <3>1. CASE q = r
        BY <2>1, <3>1 DEF Recording
      <3>2. CASE q # r
        <4>1. Cast(q) /\ pc'[q] = pc[q] /\ reply'[q] = reply[q] /\ Vote(q)' = Vote(q)
          BY <2>1, <2>2, <2>4, <3>2
        <4>2. poll.stage = "live" /\ votes \subseteq votes' /\ call'[q] = call[q]
          BY <2>1, <2>2, <2>4, <3>2
        <4>3. /\ pc[q] \in Recording \/ reply[q] = "ok" => Vote(q) \in votes
              /\ reply[q] = "already voted" => HasVoted(call[q].voter)
          BY <4>1, <4>2 DEF Ledger
        <4>. QED  BY <4>1, <4>2, <4>3 DEF HasVoted
      <3>. QED  BY <3>1, <3>2
    <2>5. \A d \in votes' : \E q \in Requests :
              /\ Cast(q)' /\ d = Vote(q)'
              /\ pc'[q] \in Recording \cup {"done", "aborted"}
              /\ reply'[q] \in {"none", "ok", "error"}
      BY <2>3
    <2>6. poll'.stage = "live" => \A q \in Requests : Cast(q)' =>
              /\ pc'[q] \in Recording \/ reply'[q] = "ok" => Vote(q)' \in votes'
              /\ reply'[q] = "already voted" => HasVoted(call[q].voter)'
      BY <2>4
    <2>7. Ledger'
      BY <2>5, <2>6 DEF Ledger
    <2>. QED  BY <2>1, <2>7 DEF OneVotePerVoter
  <1>4. ASSUME NEW r \in Requests, Serve(r) \/ Crash(r) PROVE Ledger' /\ OneVotePerVoter'
    <2>1. /\ pc[r] \notin {"idle", "done", "aborted"} /\ pc'[r] # "idle"
          /\ UNCHANGED call
          /\ \A q \in Requests \ {r} : pc'[q] = pc[q] /\ reply'[q] = reply[q]
      <3>1. call[r] \in Calls /\ call[r] # NoCall
        BY <1>4, ServeIsLocal, CallsAssumption DEF TypeOK, ControlOK, IsCall, NoCall, Managing
      <3>2. UNCHANGED call
        BY <1>4, ServeIsLocal
      <3>3. ControlOK'
        BY StepControl
      <3>4. pc'[r] # "idle"
        BY <3>1, <3>2, <3>3 DEF ControlOK, IsStepOf
      <3>. QED  BY <1>4, <3>4, ServeIsLocal
    <2>2. poll'.stage = "live" => poll.stage = "live"
      BY <1>4, ServeAndPoll
    <2>3. CASE Op(r) = "cast" /\ pc[r] \in Recording
      <3>1. /\ pc'[r] \in Recording \cup {"done", "aborted"}
            /\ reply'[r] \in {"none", "ok", "error"}
            /\ UNCHANGED votes
        BY <1>4, <2>3, RecordingGoesOn
      <3>2. poll.stage = "live" => Vote(r) \in votes
        BY <2>1, <2>3 DEF Ledger, Cast
      <3>. QED  BY <2>1, <2>2, <3>1, <3>2, LedgerKept DEF OneVotePerVoter
    <2>4. CASE Op(r) = "cast" /\ pc[r] \in {"load", "admit"}
      <3>1. /\ pc'[r] \in {"admit", "insert", "done", "aborted"}
            /\ reply'[r] \in {"none", "not found", "invalid", "poll closed", "forbidden", "error"}
            /\ UNCHANGED votes
        BY <1>4, <2>4, BeforeTheInsert
      <3>2. Vote(r) \notin votes
        BY <2>4, StoredIsPast DEF Recording
      <3>. QED  BY <2>1, <2>2, <3>1, <3>2, LedgerKept DEF OneVotePerVoter, Recording
    <2>5. CASE Op(r) = "cast" /\ pc[r] = "insert"
      <3>1. CASE Insert(r)
        BY <3>1, InsertKeepsLedger
      <3>2. CASE MongoFails(r) \/ Crash(r)
        <4>1. /\ UNCHANGED votes /\ pc'[r] \in {"done", "aborted"}
              /\ reply'[r] \in {"none", "error"}
          BY <2>5, <3>2
          DEF MongoFails, Crash, Unacknowledged, Answer, store, TypeOK, ControlOK, LocalsOK, Lifecycle
        <4>2. Vote(r) \notin votes
          BY <2>5, StoredIsPast DEF Recording
        <4>. QED  BY <2>1, <2>2, <4>1, <4>2, LedgerKept DEF OneVotePerVoter, Recording
      <3>. QED
        BY <1>4, <2>5, <3>1, <3>2
        DEF Serve, Load, Admit, IncrementOption, ForPoll, CountsByPoll, ReplaceResults,
            PublishResults, CountByPoll, Validate, UpdatePoll, ClosePoll, DeletePoll, DeleteByPoll,
            DeleteResults, CountsByPollFails
    <2>6. CASE Op(r) # "cast"
      <3>1. CASE UNCHANGED votes
        BY <2>1, <2>2, <2>6, <3>1, LedgerKept DEF OneVotePerVoter
      <3>2. CASE DeleteByPoll(r)
        <4>1. poll'.stage # "live" /\ votes' \subseteq votes
          BY <3>2 DEF DeleteByPoll, Lifecycle
        <4>2. ASSUME NEW d \in votes'
              PROVE  \E q \in Requests :
                        /\ Cast(q)' /\ d = Vote(q)'
                        /\ pc'[q] \in Recording \cup {"done", "aborted"}
                        /\ reply'[q] \in {"none", "ok", "error"}
          <5>1. PICK q \in Requests : /\ Cast(q) /\ d = Vote(q)
                                      /\ pc[q] \in Recording \cup {"done", "aborted"}
                                      /\ reply[q] \in {"none", "ok", "error"}
            BY <4>1 DEF Ledger
          <5>2. q # r /\ Op(q)' = Op(q) /\ Vote(q)' = Vote(q)
            BY <2>1, <2>6, <5>1 DEF Cast, Op, Vote
          <5>. QED  BY <2>1, <5>1, <5>2 DEF Cast
        <4>. QED  BY <4>1, <4>2 DEF Ledger, OneVotePerVoter
      <3>3. ~Insert(r)
        BY <2>6, AtStep DEF Insert, IsStepOf, TypeOK
      <3>. QED  BY <1>4, <3>1, <3>2, <3>3, WhoChangesVotes
    <2>. QED
      BY <2>1, <2>3, <2>4, <2>5, <2>6, AtStep DEF TypeOK, IsStepOf, Recording
  <1>. QED  BY <1>1, <1>2, <1>3, <1>4 DEF Next, Tick, LoseKey, vars, control, store, local

-----------------------------------------------------------------------------
(* What management requests have decided, and strangers. *)

\* A request that can take a step has not answered.
LEMMA NoAnswerYet ==
  ASSUME Lifecycle, NEW r \in Requests, pc[r] # "done"
  PROVE  reply[r] = "none"
  BY DEF Lifecycle

LEMMA StepDecided == TypeOK /\ Lifecycle /\ Decided /\ [Next]_vars => Decided'
  <1>. SUFFICES ASSUME TypeOK, Lifecycle, Decided, [Next]_vars PROVE Decided'
    OBVIOUS
  <1>1. CASE UNCHANGED <<poll, pc, call, reply>>
    BY <1>1 DEF Decided, Op
  <1>2. CASE CreatePoll
    BY <1>2 DEF CreatePoll, control, Decided, Lifecycle, local
  <1>3. ASSUME NEW r \in Requests, Arrive(r) PROVE Decided'
    BY <1>3 DEF Arrive, Goto, store, Decided, Op, Recording, TypeOK, ControlOK, Lifecycle
  <1>4. ASSUME NEW r \in Requests, Serve(r) \/ Crash(r) PROVE Decided'
    <2>1. /\ pc[r] \notin {"idle", "done", "aborted"}
          /\ UNCHANGED call
          /\ \A q \in Requests \ {r} : pc'[q] = pc[q] /\ reply'[q] = reply[q]
      BY <1>4, ServeIsLocal
    <2>2. /\ poll.status = "closed" => poll'.status = "closed"
          /\ poll.stage = "deleted" => poll'.stage = "deleted"
      BY <1>4, ServeAndPoll
    <2>3. ASSUME Op(r) = "close", pc'[r] \in Recording \/ reply'[r] = "ok"
          PROVE  poll'.status = "closed"
      <3>1. CASE pc[r] \in Recording
        BY <1>4, <2>1, <2>2, <2>3, <3>1 DEF Decided
      <3>2. CASE Load(r)
        BY <2>1, <2>2, <2>3, <3>2, NoAnswerYet, FirstSteps
        DEF Load, Goto, Answer, Op, store, Recording, TypeOK, ControlOK, LocalsOK
      <3>3. CASE ClosePoll(r)
        BY <2>1, <2>3, <3>3, NoAnswerYet
        DEF ClosePoll, Unacknowledged, Goto, Answer, Recording, TypeOK, ControlOK, LocalsOK,
            StoresOK, Polls
      <3>4. CASE MongoFails(r) \/ Crash(r)
        BY <2>1, <2>3, <3>4, NoAnswerYet
        DEF MongoFails, Crash, Unacknowledged, Answer, Recording, TypeOK, ControlOK, LocalsOK
      <3>5. pc[r] \in {"load", "write"} \cup Recording
        BY <2>1, <2>3, AtStep DEF IsStepOf, Recording, TypeOK
      <3>. QED
        BY <1>4, <2>3, <3>1, <3>2, <3>3, <3>4, <3>5
        DEF Serve, Admit, Insert, IncrementOption, ForPoll, CountsByPoll, ReplaceResults,
            PublishResults, CountByPoll, Validate, UpdatePoll, DeletePoll, DeleteByPoll,
            DeleteResults, CountsByPollFails, Recording
    <2>4. ASSUME Op(r) = "delete", reply'[r] = "ok"
          PROVE  poll'.stage = "deleted"
      <3>1. CASE pc[r] \in {"purge", "clear"}
        BY <2>2, <3>1 DEF Lifecycle
      <3>2. CASE Load(r)
        BY <2>1, <2>4, <3>2, NoAnswerYet
        DEF Load, Goto, Answer, Op, TypeOK, ControlOK, LocalsOK
      <3>3. CASE DeletePoll(r) \/ MongoFails(r) \/ Crash(r)
        BY <2>1, <2>4, <3>3, NoAnswerYet
        DEF DeletePoll, MongoFails, Crash, Unacknowledged, Goto, Answer, TypeOK, ControlOK, LocalsOK
      <3>4. pc[r] \in {"load", "remove", "purge", "clear"}
        BY <2>1, <2>4, AtStep DEF IsStepOf, TypeOK
      <3>. QED
        BY <1>4, <2>4, <3>1, <3>2, <3>3, <3>4
        DEF Serve, Admit, Insert, IncrementOption, ForPoll, CountsByPoll, ReplaceResults,
            PublishResults, CountByPoll, Validate, UpdatePoll, ClosePoll, DeleteByPoll,
            DeleteResults, CountsByPollFails
    <2>. QED  BY <2>1, <2>2, <2>3, <2>4 DEF Decided, Op
  <1>. QED  BY <1>1, <1>2, <1>3, <1>4 DEF Next, Tick, LoseKey, vars, control, store, local

LEMMA StepStrangers == TypeOK /\ Lifecycle /\ StrangersRefused /\ [Next]_vars => StrangersRefused'
  <1>. SUFFICES ASSUME TypeOK, Lifecycle, StrangersRefused, [Next]_vars PROVE StrangersRefused'
    OBVIOUS
  <1>1. CASE UNCHANGED <<pc, call, reply>>
    BY <1>1 DEF StrangersRefused, Op
  <1>2. ASSUME NEW r \in Requests, Arrive(r) PROVE StrangersRefused'
    BY <1>2 DEF Arrive, Goto, StrangersRefused, Op, TypeOK, ControlOK, Lifecycle
  <1>3. ASSUME NEW r \in Requests, Serve(r) \/ Crash(r) PROVE StrangersRefused'
    <2>1. /\ pc[r] \notin {"idle", "done", "aborted"}
          /\ UNCHANGED call
          /\ \A q \in Requests \ {r} : pc'[q] = pc[q] /\ reply'[q] = reply[q]
      BY <1>3, ServeIsLocal
    <2>2. ASSUME Op(r) \in Managing, call[r].user # Owner
          PROVE  /\ pc'[r] \in {"load", "done", "aborted"}
                 /\ reply'[r] \in {"none", "not found", "forbidden", "error"}
      <3>1. pc[r] = "load" /\ reply[r] = "none"
        BY <2>1, <2>2, NoAnswerYet DEF StrangersRefused
      <3>2. ~Allowed(call[r])
        BY <2>2 DEF Allowed, Op
      <3>3. CASE Load(r)
        BY <3>1, <3>2, <3>3 DEF Load, Answer, TypeOK, ControlOK, LocalsOK
      <3>4. CASE MongoFails(r) \/ Crash(r)
        BY <3>1, <3>4 DEF MongoFails, Crash, Unacknowledged, Answer, TypeOK, ControlOK, LocalsOK
      <3>. QED
        BY <1>3, <3>1, <3>3, <3>4
        DEF Serve, Admit, Insert, IncrementOption, ForPoll, CountsByPoll, ReplaceResults,
            PublishResults, CountByPoll, Validate, UpdatePoll, ClosePoll, DeletePoll,
            DeleteByPoll, DeleteResults, CountsByPollFails
    <2>. QED  BY <2>1, <2>2 DEF StrangersRefused, Op
  <1>. QED  BY <1>1, <1>2, <1>3 DEF Next, Tick, CreatePoll, LoseKey, vars, control, store, local

-----------------------------------------------------------------------------
(* The inductive invariant, and what follows from it. *)

IInv == TypeOK /\ Lifecycle /\ Ledger /\ OneVotePerVoter /\ Decided /\ StrangersRefused

LEMMA Inductive == Spec => []IInv
  <1>1. Init => IInv
    BY InitType, InitSafe DEF IInv
  <1>2. IInv /\ [Next]_vars => IInv'
    BY StepStores, StepLocals, StepControl, StepLifecycle, StepLedger, StepDecided, StepStrangers
    DEF IInv, TypeOK
  <1>. QED  BY <1>1, <1>2, PTL DEF Spec

\* However many requests of one voter race, the collection keeps at most one of
\* their votes (vote_service.go:57-64).
THEOREM VotersVoteOnce == Spec => []OneVotePerVoter
  <1>1. IInv => OneVotePerVoter
    BY DEF IInv
  <1>. QED  BY <1>1, Inductive, PTL

\* Every answer about a vote agrees with the votes collection, at any later time and
\* with any failures, as long as the poll exists.
THEOREM AnswersTellTheTruth == Spec => []AnswersAreTruthful
  <1>1. ASSUME IInv PROVE AnswersAreTruthful
    <2>. USE <1>1 DEF IInv
    <2>1. ASSUME poll.stage = "live", NEW r \in Requests, Cast(r)
          PROVE  /\ reply[r] = "ok" => Vote(r) \in votes
                 /\ reply[r] = "already voted" => HasVoted(call[r].voter)
      BY <2>1 DEF Ledger
    <2>2. ASSUME NEW r \in Requests, Vote(r) \in votes
          PROVE  reply[r] \in {"none", "ok", "error"}
      BY <2>2, StoredIsPast
    <2>. QED  BY <2>1, <2>2 DEF AnswersAreTruthful
  <1>. QED  BY <1>1, Inductive, PTL

\* A close or a delete that was acknowledged is never undone by an update, a close
\* or a delete it raced with.
THEOREM ManagementIsFinal == Spec => []ManagementSticks
  <1>1. IInv => ManagementSticks
    BY DEF IInv, Decided, ManagementSticks
  <1>. QED  BY <1>1, Inductive, PTL

\* No request of a stranger gets past the ownership rule of GetOwned.
THEOREM StrangersStayOut == Spec => []StrangersRefused
  <1>1. IInv => StrangersRefused
    BY DEF IInv
  <1>. QED  BY <1>1, Inductive, PTL

\* A vote leaves the collection only with its poll already gone.
THEOREM VotesOutliveNothing == Spec => LiveVotesNeverVanish
  <1>1. IInv /\ [Next]_vars => [poll'.stage = "live" => votes \subseteq votes']_vars
    <2>. SUFFICES ASSUME IInv, [Next]_vars, poll'.stage = "live" PROVE votes \subseteq votes'
      OBVIOUS
    <2>. USE DEF IInv
    <2>1. CASE UNCHANGED votes
      BY <2>1
    <2>2. ASSUME NEW r \in Requests, Arrive(r) PROVE UNCHANGED votes
      BY <2>2 DEF Arrive, store
    <2>3. ASSUME NEW r \in Requests, Serve(r) \/ Crash(r) PROVE votes \subseteq votes'
      <3>1. CASE Insert(r)
        BY <3>1 DEF Insert
      <3>2. ~DeleteByPoll(r)
        BY <2>3, ServeAndPoll DEF DeleteByPoll, Lifecycle
      <3>. QED  BY <2>1, <2>3, <3>1, <3>2, WhoChangesVotes
    <2>. QED
      BY <2>1, <2>2, <2>3 DEF Next, Tick, CreatePoll, LoseKey, vars, control, store
  <1>. QED  BY <1>1, Inductive, PTL DEF LiveVotesNeverVanish, Spec

=============================================================================
