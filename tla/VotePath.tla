------------------------------ MODULE VotePath ------------------------------
(***************************************************************************)
(* One poll, from the arrival of an HTTP request to its answer.            *)
(*                                                                         *)
(* MongoDB holds the truth (the poll document, the vote documents under a  *)
(* unique (pollId, voterId) index); Redis holds a disposable hash of       *)
(* counters and carries the announcements.  Neither store knows of the     *)
(* other and no lock spans them: every request is a process that makes one *)
(* database call per step, and requests interleave between any two calls.  *)
(***************************************************************************)
EXTENDS Naturals, FiniteSets

CONSTANTS
    Requests,         \* the HTTP requests of a behaviour, each served once
    Calls,            \* what a request may ask for
    Voters,           \* voter identity cookies
    Users,            \* signed-in users
    Owner,            \* the user who owns the poll
    OptionIDs,        \* the option identifiers that can be minted
    MinOptions,       \* validation.MinOptions
    MaxOptions,       \* validation.MaxOptions
    MaxPollLifetime,  \* services.MaxPollLifetime
    MaxTime,          \* bound: the last instant of the clock
    MaxInFlight,      \* bound: how many requests are served at once
    MaxRetries,       \* the Redis driver's: how often it sends a call again
    Faults            \* which of the faults below happen

Managing == {"update", "close", "delete"}

\* A time the clock never reaches: the absent expiresAt.
NoExpiry == MaxTime + 1

Editable == {"question", "options", "expiry"}

IsCall(c) ==
    /\ c.op \in {"cast", "results"} \cup Managing
    /\ c.op = "cast" => c.voter \in Voters /\ c.option \in OptionIDs
    /\ c.op \in Managing => c.user \in Users
    /\ c.op = "update" => c.edit \subseteq Editable /\ c.expiry \in 0 .. NoExpiry

ASSUME CallsAssumption == \A c \in Calls : IsCall(c)
ASSUME OwnerAssumption == Owner \in Users
ASSUME OptionsAssumption ==
    /\ IsFiniteSet(OptionIDs)
    /\ MinOptions \in Nat \ {0}
    /\ MaxOptions \in Nat
    /\ MinOptions =< MaxOptions
ASSUME BoundsAssumption ==
    /\ MaxTime \in Nat
    /\ MaxInFlight \in Nat \ {0}
    /\ MaxPollLifetime \in Nat
    /\ MaxRetries \in Nat
ASSUME FaultsAssumption == Faults \subseteq {"mongo", "redis", "evict", "crash"}

VARIABLES
    now,        \* the servers' clock
    poll,       \* MongoDB: the poll document
    minted,     \* the option ids minted so far
    votes,      \* MongoDB: the vote documents
    counters,   \* Redis: the poll's hash; no field is no key
    published,  \* Redis: the last update published for the poll
    pc,         \* where each request is
    resent,     \* how often the driver has sent its call of Redis again
    call,       \* what it asks for
    snap,       \* the poll document it has loaded
    byOption,   \* the tally it has aggregated from MongoDB
    results,    \* the standing it has computed
    reply       \* what it has answered

store == <<poll, minted, votes>>
cache == <<counters, published>>
local == <<call, snap, byOption, results>>
control == <<pc, resent, reply>>
vars  == <<now, store, cache, control, local>>

-----------------------------------------------------------------------------
(* The poll document and its tallies. *)

IsExpired(p, t) == t >= p.expiresAt

AcceptsVotes(p, t) == p.status = "active" /\ ~IsExpired(p, t)

EffectiveStatus(p, t) ==
    IF p.status = "active" /\ IsExpired(p, t) THEN "closed" ELSE p.status

\* The vote request r stores.  The document's own _id is the request's name.
Vote(r) == [id |-> r, voter |-> call[r].voter, option |-> call[r].option]

\* Mutant: the collection without its unique index.
NoUniqueIndex(v) == FALSE

HasVoted(v) == \E d \in votes : d.voter = v

For(o) == {d \in votes : d.option = o}

\* Mutant: Rebuild seeds the zeros over the tally.
SeededLast(p) == [o \in p.options |-> 0]

\* CountsByPoll over the options of p, with the zeros Rebuild seeds.
Tally(p) == [o \in p.options |-> Cardinality(For(o))]

NoFields == [o \in {} |-> 0]

\* Mutant: a bare HINCRBY, which does not ask whether the key exists.
NeverCold == TRUE

Warm == DOMAIN counters # {}

\* Mutant: the increment is lost.
NotIncremented(o) == counters

\* The hash after HINCRBY counters o 1.
Incremented(o) ==
    [p \in DOMAIN counters \cup {o} |->
        (IF p \in DOMAIN counters THEN counters[p] ELSE 0) + (IF p = o THEN 1 ELSE 0)]

\* What is shown of counts f of poll p: its options only, in full.
Assemble(p, f) ==
    [counts |-> [o \in p.options |-> IF o \in DOMAIN f THEN f[o] ELSE 0],
     status |-> EffectiveStatus(p, now)]

NoPoll == [stage |-> "absent", options |-> {}, status |-> "active", expiresAt |-> NoExpiry]

NoResults == [counts |-> NoFields, status |-> "active"]

NoCall == [op |-> "none"]

ValidOptions(S) == MinOptions =< Cardinality(S) /\ Cardinality(S) =< MaxOptions

ValidExpiry(t) == now < t /\ t =< now + MaxPollLifetime

-----------------------------------------------------------------------------
(* Where a request goes next. *)

Goto(r, l) ==
    /\ pc' = [pc EXCEPT ![r] = l]
    /\ resent' = [resent EXCEPT ![r] = 0]
    /\ UNCHANGED reply

Answer(r, a) ==
    /\ pc' = [pc EXCEPT ![r] = "done"]
    /\ resent' = [resent EXCEPT ![r] = 0]
    /\ reply' = [reply EXCEPT ![r] = a]

Stays == UNCHANGED control

Op(r) == call[r].op

ContentChanged(c) == c.edit \cap {"question", "options"} # {}

\* Mutant: Get where GetOwned is needed.
AnyoneAllowed(c) == TRUE

\* GetOwned's rule, which every management operation goes through.
Allowed(c) == c.op \in Managing => c.user = Owner

\* Mutants: a vote that skips its checks, a delete that begins with the votes, a
\* read that records.
UncheckedVote == [cast |-> "insert", results |-> "read", close |-> "write", delete |-> "remove"]
VotesFirst == [cast |-> "admit", results |-> "read", close |-> "write", delete |-> "purge"]
ReadRecords == [cast |-> "admit", results |-> "record", close |-> "write", delete |-> "remove"]

\* The first step after the poll is loaded; an update is checked first, and an
\* edit of its content before that.
Entry == [cast |-> "admit", results |-> "read", close |-> "write", delete |-> "remove"]

FirstStep(c) ==
    IF c.op # "update" THEN Entry[c.op]
    ELSE IF ContentChanged(c) THEN "count" ELSE "validate"

InFlight == {r \in Requests : pc[r] \notin {"idle", "done", "aborted"}}

\* Mutants: a close that announces nothing, a rebuild that reads its own result back.
SilentClose(r, f) ==
    /\ results' = [results EXCEPT ![r] = Assemble(snap[r], f)]
    /\ IF Op(r) = "cast" THEN Goto(r, "publish") ELSE Answer(r, "ok")
RereadsRebuilt(r, f) ==
    /\ results' = [results EXCEPT ![r] = Assemble(snap[r], f)]
    /\ IF pc[r] = "replace" THEN Goto(r, "read") ELSE Answer(r, "ok")

\* Once it has a standing, a read answers; a vote and a close announce it.
Standing(r, f) ==
    /\ results' = [results EXCEPT ![r] = Assemble(snap[r], f)]
    /\ IF Op(r) = "results" THEN Answer(r, "ok") ELSE Goto(r, "publish")

Init ==
    /\ now = 0
    /\ poll = NoPoll
    /\ minted = {}
    /\ votes = {}
    /\ counters = NoFields
    /\ published = NoResults
    /\ pc = [r \in Requests |-> "idle"]
    /\ resent = [r \in Requests |-> 0]
    /\ call = [r \in Requests |-> NoCall]
    /\ snap = [r \in Requests |-> NoPoll]
    /\ byOption = [r \in Requests |-> NoFields]
    /\ results = [r \in Requests |-> NoResults]
    /\ reply = [r \in Requests |-> "none"]

-----------------------------------------------------------------------------
(* The environment: the clock, the poll's creation, requests arriving, faults. *)

Tick ==
    /\ now < MaxTime
    /\ now' = now + 1
    /\ UNCHANGED <<store, cache, control, local>>

\* PollService.Create, one insert: the poll and its share link exist from here on.
CreatePoll ==
    /\ poll.stage = "absent"
    /\ \E S \in SUBSET OptionIDs, t \in 0 .. NoExpiry :
        /\ ValidOptions(S)
        /\ t = NoExpiry \/ ValidExpiry(t)
        /\ minted' = S
        /\ poll' = [stage |-> "live", options |-> S, status |-> "active", expiresAt |-> t]
    /\ UNCHANGED <<now, votes, cache, control, local>>

Arrive(r) ==
    /\ pc[r] = "idle"
    /\ poll.stage # "absent"
    /\ Cardinality(InFlight) < MaxInFlight
    /\ \E c \in Calls : call' = [call EXCEPT ![r] = c]
    /\ Goto(r, "load")
    /\ UNCHANGED <<now, store, cache, snap, byOption, results>>

\* The key is gone: a restart of Redis, an eviction, or its TTL.
LoseKey ==
    /\ "evict" \in Faults
    /\ Warm
    /\ counters' = NoFields
    /\ UNCHANGED <<now, store, published, control, local>>

\* The server process stops: what the request was about to do is not done.
Crash(r) ==
    /\ "crash" \in Faults
    /\ r \in InFlight
    /\ pc' = [pc EXCEPT ![r] = "aborted"]
    /\ UNCHANGED <<now, store, cache, resent, local, reply>>

\* Mutant: the error of the driver is not looked at.
Optimistic(r) == "mongo" \in Faults /\ Answer(r, "ok")

\* A write reached MongoDB and its acknowledgement did not come back.
Unacknowledged(r) == "mongo" \in Faults /\ Answer(r, "error")

\* A MongoDB call fails without effect and the service returns the error.
MongoFails(r) ==
    /\ pc[r] \in {"load", "insert", "count", "write", "remove", "purge"}
    /\ Unacknowledged(r)
    /\ UNCHANGED <<now, store, cache, local>>

\* A Redis call fails, after all attempts of the driver, without effect; l is where the
\* code carries on.  (After a write that took effect the code carries on at the same
\* place, so the last attempt's lost answer needs no step of its own.)
RedisFails(r, l) == "redis" \in Faults /\ Goto(r, l) /\ UNCHANGED cache

\* The answer of a call that took effect is lost, and the driver sends the call again:
\* Connect leaves its MaxRetries at the driver's default.
Resend(r) ==
    /\ "redis" \in Faults
    /\ resent[r] < MaxRetries
    /\ resent' = [resent EXCEPT ![r] = @ + 1]
    /\ UNCHANGED <<pc, reply>>

-----------------------------------------------------------------------------
(* Loading the poll. *)

\* PollRepository.FindByID, and GetOwned's ownership rule for management.
Load(r) ==
    /\ pc[r] = "load"
    /\ \/ /\ poll.stage = "deleted"
          /\ Answer(r, "not found")
          /\ UNCHANGED snap
       \/ /\ poll.stage = "live"
          /\ ~Allowed(call[r])
          /\ Answer(r, "forbidden")
          /\ UNCHANGED snap
       \/ /\ poll.stage = "live"
          /\ Allowed(call[r])
          /\ snap' = [snap EXCEPT ![r] = poll]
          /\ IF Op(r) = "close" /\ poll.status = "closed"
             THEN Answer(r, "ok")
             ELSE Goto(r, FirstStep(call[r]))
    /\ UNCHANGED <<now, store, cache, call, byOption, results>>

-----------------------------------------------------------------------------
(* VoteService.Cast: admit, insert, record. *)

\* Everything Cast decides from the poll it loaded.
Admit(r) ==
    /\ pc[r] = "admit"
    /\ \/ /\ call[r].option \notin snap[r].options
          /\ Answer(r, "invalid")
       \/ /\ call[r].option \in snap[r].options
          /\ ~AcceptsVotes(snap[r], now)
          /\ Answer(r, "poll closed")
       \/ /\ call[r].option \in snap[r].options
          /\ AcceptsVotes(snap[r], now)
          /\ Goto(r, "insert")
    /\ UNCHANGED <<now, store, cache, local>>

\* VoteRepository.Create: the unique (pollId, voterId) index decides.
Insert(r) ==
    /\ pc[r] = "insert"
    /\ \/ /\ HasVoted(call[r].voter)
          /\ Answer(r, "already voted")
          /\ UNCHANGED votes
       \/ /\ ~HasVoted(call[r].voter)
          /\ votes' = votes \cup {Vote(r)}
          /\ Goto(r, "record") \/ Unacknowledged(r)
    /\ UNCHANGED <<now, poll, minted, cache, local>>

\* Mutant: the service tries a failed increment again, as the driver did before it.
TriedAgain(r) ==
    /\ pc[r] = "record"
    /\ \/ /\ Warm
          /\ counters' = Incremented(call[r].option)
          /\ Goto(r, "read") \/ Resend(r) \/ ("redis" \in Faults /\ Goto(r, "record"))
          /\ UNCHANGED published
       \/ /\ ~Warm
          /\ Goto(r, "record aggregate")
          /\ UNCHANGED cache
       \/ RedisFails(r, "record")
    /\ UNCHANGED <<now, store, local>>

\* ResultService.RecordVote: the script increments a warm key only, each time it is sent.
IncrementOption(r) ==
    /\ pc[r] = "record"
    /\ \/ /\ Warm
          /\ counters' = Incremented(call[r].option)
          /\ Goto(r, "read") \/ Resend(r)
          /\ UNCHANGED published
       \/ /\ ~Warm
          /\ Goto(r, "record aggregate")
          /\ UNCHANGED cache
       \/ RedisFails(r, "read")
    /\ UNCHANGED <<now, store, local>>

-----------------------------------------------------------------------------
(* ResultService.ForPoll and Rebuild.  A vote may rebuild twice: once because  *)
(* its increment met a cold key, once more if its own read does.               *)

ForPoll(r) ==
    /\ pc[r] = "read"
    /\ \/ Warm /\ Standing(r, counters) /\ UNCHANGED cache
       \/ ~Warm /\ Goto(r, "aggregate") /\ UNCHANGED <<cache, results>>
       \/ RedisFails(r, "aggregate") /\ UNCHANGED results
    /\ UNCHANGED <<now, store, call, snap, byOption>>

\* The tally Rebuild takes from MongoDB, whichever of its two callers runs it.
CountsByPoll(r) ==
    /\ \/ pc[r] = "record aggregate" /\ Goto(r, "record replace")
       \/ pc[r] = "aggregate" /\ Goto(r, "replace")
    /\ byOption' = [byOption EXCEPT ![r] = Tally(snap[r])]
    /\ UNCHANGED <<now, store, cache, call, snap, results>>

\* The tally fails: RecordVote and AnnouncePoll log it, the others return it.
CountsByPollFails(r) ==
    /\ "mongo" \in Faults
    /\ \/ pc[r] = "record aggregate" /\ Goto(r, "read")
       \/ pc[r] = "aggregate" /\ Answer(r, IF Op(r) = "close" THEN "ok" ELSE "error")
    /\ UNCHANGED <<now, store, cache, local>>

\* One MULTI/EXEC.  Rebuild returns its own tally, stored or not.
ReplaceResults(r) ==
    /\ pc[r] \in {"record replace", "replace"}
    /\ \/ /\ counters' = byOption[r]
          /\ Resend(r)
          /\ UNCHANGED <<byOption, results>>
       \/ /\ counters' = byOption[r] \/ ("redis" \in Faults /\ UNCHANGED counters)
          /\ byOption' = [byOption EXCEPT ![r] = NoFields]
          /\ \/ pc[r] = "record replace" /\ Goto(r, "read") /\ UNCHANGED results
             \/ pc[r] = "replace" /\ Standing(r, byOption[r])
    /\ UNCHANGED <<now, store, published, call, snap>>

\* The last thing a vote or a close does; a failure is logged and swallowed.
PublishResults(r) ==
    /\ pc[r] = "publish"
    /\ \/ published' = results[r] /\ (Answer(r, "ok") \/ Resend(r))
       \/ "redis" \in Faults /\ Answer(r, "ok") /\ UNCHANGED published
    /\ UNCHANGED <<now, store, counters, local>>

-----------------------------------------------------------------------------
(* PollService.Update, Close and Delete. *)

CountByPoll(r) ==
    /\ pc[r] = "count"
    /\ \/ votes # {} /\ Answer(r, "conflict")
       \/ votes = {} /\ Goto(r, "validate")
    /\ UNCHANGED <<now, store, cache, local>>

\* The new texts, which are not modelled, may be refused.  An expiresAt of NoExpiry
\* is ClearExpiry, which is always valid.
Validate(r) ==
    /\ pc[r] = "validate"
    /\ LET c == call[r]
           valid == /\ c.edit # {}
                    /\ "expiry" \in c.edit => c.expiry = NoExpiry \/ ValidExpiry(c.expiry)
       IN  \/ (~valid \/ ContentChanged(c)) /\ Answer(r, "invalid")
           \/ valid /\ Goto(r, "write")
    /\ UNCHANGED <<now, store, cache, local>>

\* Mutant: the loaded document is written back whole.
WrittenBack(r, S) ==
    [snap[r] EXCEPT !.options = S,
                    !.expiresAt = IF "expiry" \in call[r].edit THEN call[r].expiry ELSE @]

\* $set of the supplied fields only; the other fields stay as they are stored.
Patched(r, S) ==
    [poll EXCEPT !.options = S,
                 !.expiresAt = IF "expiry" \in call[r].edit THEN call[r].expiry ELSE @]

\* rebuildOptions: the texts that stay keep their ids, the others get new ones.
UpdatePoll(r) ==
    /\ pc[r] = "write" /\ Op(r) = "update"
    /\ \/ /\ poll.stage = "deleted"
          /\ Answer(r, "not found")
          /\ UNCHANGED <<poll, minted>>
       \/ /\ poll.stage = "live"
          /\ \E S \in SUBSET OptionIDs :
              /\ IF "options" \in call[r].edit
                 THEN ValidOptions(S) /\ S \cap minted \subseteq snap[r].options
                 ELSE S = poll.options
              /\ minted' = minted \cup S
              /\ poll' = Patched(r, S)
          /\ Answer(r, "ok") \/ Unacknowledged(r)
    /\ UNCHANGED <<now, votes, cache, local>>

\* Close announces the document it wrote.
ClosePoll(r) ==
    /\ pc[r] = "write" /\ Op(r) = "close"
    /\ \/ /\ poll.stage = "deleted"
          /\ Answer(r, "not found")
          /\ UNCHANGED <<poll, snap>>
       \/ /\ poll.stage = "live"
          /\ poll' = [poll EXCEPT !.status = "closed"]
          /\ \/ Goto(r, "read") /\ snap' = [snap EXCEPT ![r] = poll']
             \/ Unacknowledged(r) /\ UNCHANGED snap
    /\ UNCHANGED <<now, minted, votes, cache, call, byOption, results>>

\* Delete, first: the poll itself, so that it is never reachable without its votes.
DeletePoll(r) ==
    /\ pc[r] = "remove"
    /\ \/ poll.stage = "deleted" /\ Answer(r, "not found") /\ UNCHANGED poll
       \/ /\ poll.stage = "live"
          /\ poll' = [poll EXCEPT !.stage = "deleted"]
          /\ Goto(r, "purge") \/ Unacknowledged(r)
    /\ UNCHANGED <<now, minted, votes, cache, local>>

\* Delete, second: its votes, which DeleteMany removes one by one.
DeleteByPoll(r) ==
    /\ pc[r] = "purge"
    /\ \/ \E d \in votes : votes' = votes \ {d} /\ Stays
       \/ votes = {} /\ Goto(r, "clear") /\ UNCHANGED votes
    /\ UNCHANGED <<now, poll, minted, cache, local>>

\* Delete, last: its counters; a failure is logged.
DeleteResults(r) ==
    /\ pc[r] = "clear"
    /\ \/ counters' = NoFields /\ (Answer(r, "ok") \/ Resend(r))
       \/ "redis" \in Faults /\ Answer(r, "ok") /\ UNCHANGED counters
    /\ UNCHANGED <<now, store, published, local>>

-----------------------------------------------------------------------------

\* What the code of one request does next.
Serve(r) ==
    \/ Load(r) \/ Admit(r) \/ Insert(r) \/ IncrementOption(r)
    \/ ForPoll(r) \/ CountsByPoll(r) \/ ReplaceResults(r) \/ PublishResults(r)
    \/ CountByPoll(r) \/ Validate(r) \/ UpdatePoll(r) \/ ClosePoll(r)
    \/ DeletePoll(r) \/ DeleteByPoll(r) \/ DeleteResults(r)
    \/ MongoFails(r) \/ CountsByPollFails(r)

Next ==
    \/ Tick \/ CreatePoll \/ LoseKey
    \/ \E r \in Requests : Arrive(r) \/ Serve(r) \/ Crash(r)

Spec == Init /\ [][Next]_vars

\* Each request runs in a goroutine of its own, which the runtime schedules.
FairSpec == Spec /\ \A r \in Requests : WF_vars(Serve(r))

-----------------------------------------------------------------------------
(* What the vote path promises. *)

IsCounts(f) == DOMAIN f \subseteq OptionIDs /\ f \in [DOMAIN f -> Nat]

Polls == [stage : {"absent", "live", "deleted"}, options : SUBSET OptionIDs,
          status : {"active", "closed"}, expiresAt : 0 .. NoExpiry]

Ballots == [id : Requests, voter : Voters, option : OptionIDs]

IsStanding(s) ==
    /\ s = [counts |-> s.counts, status |-> s.status]
    /\ IsCounts(s.counts)
    /\ s.status \in {"active", "closed"}

\* The steps each kind of request goes through.
IsStepOf(op, l) ==
    \/ op = "cast" /\ l \in {"admit", "insert", "record", "record aggregate", "record replace",
                             "read", "aggregate", "replace", "publish"}
    \/ op = "results" /\ l \in {"read", "aggregate", "replace"}
    \/ op = "close" /\ l \in {"write", "read", "aggregate", "replace", "publish"}
    \/ op = "update" /\ l \in {"count", "validate", "write"}
    \/ op = "delete" /\ l \in {"remove", "purge", "clear"}

Replies == {"none", "ok", "not found", "forbidden", "invalid", "poll closed",
            "already voted", "conflict", "error"}

StoresOK ==
    /\ now \in 0 .. MaxTime
    /\ poll \in Polls
    /\ minted \subseteq OptionIDs
    /\ votes \subseteq Ballots /\ IsFiniteSet(votes)
    /\ IsCounts(counters)
    /\ IsStanding(published)

LocalsOK ==
    /\ snap \in [Requests -> Polls]
    /\ DOMAIN byOption = Requests /\ \A r \in Requests : IsCounts(byOption[r])
    /\ DOMAIN results = Requests /\ \A r \in Requests : IsStanding(results[r])
    /\ resent \in [Requests -> 0 .. MaxRetries]
    /\ reply \in [Requests -> Replies]

\* A request is only ever at a step of the operation it asked for.
ControlOK ==
    /\ DOMAIN pc = Requests /\ DOMAIN call = Requests
    /\ \A r \in Requests :
        \/ pc[r] = "idle" /\ call[r] = NoCall
        \/ /\ call[r] \in Calls
           /\ pc[r] \in {"load", "done", "aborted"} \/ IsStepOf(Op(r), pc[r])

\* Type invariant.
TypeOK == StoresOK /\ LocalsOK /\ ControlOK

Cast(r) == pc[r] # "idle" /\ Op(r) = "cast"

\* The rule of the product: the votes collection never holds two votes of one
\* voter, however many requests race past the checks in VoteService.Cast.
OneVotePerVoter == \A d, e \in votes : d.voter = e.voter => d = e

\* An answer about a vote is the truth for as long as the poll exists: an accepted
\* vote is stored (vote_service.go:98-100), a vote refused for its option, for the
\* poll being closed or missing is not, and "already voted" means another vote of
\* this voter is.  Only an error may leave the voter in doubt.
AnswersAreTruthful ==
    poll.stage = "live" =>
        \A r \in Requests : Cast(r) =>
            /\ reply[r] = "ok" => Vote(r) \in votes
            /\ reply[r] \in {"invalid", "poll closed", "not found"} => Vote(r) \notin votes
            /\ reply[r] = "already voted" =>
                 Vote(r) \notin votes /\ HasVoted(call[r].voter)

\* The rebuild a vote runs because it met a cold key already includes that vote
\* (redis/counters.go:29-31), which is why the vote is not incremented again.
OwnRebuildCountsOwnVote ==
    \A r \in Requests :
        pc[r] = "record replace" /\ poll.stage = "live"
            => byOption[r][call[r].option] >= 1

\* The attempts at an increment that votes for o have behind them, if they were to have
\* one: those whose answer was lost, and the last.
Attempts(o) ==
    {a \in For(o) \X (0 .. MaxRetries) : pc[a[1].id] # "record" \/ a[2] < resent[a[1].id]}

\* Overlap and retries count too much: a rebuild counts a vote whose own increment is
\* still to come (result_service.go:141), and that increment counts it as often as the
\* driver sends the script (redis/client.go:26-34).  That is all: whatever old tallies
\* are written back, by whichever requests, and whatever fails, no counter, standing or
\* update counts more than every vote once and every attempt at its increment once.
CountedOncePerAttempt ==
    poll.stage # "deleted" =>
        \A f \in {counters, published.counts} \cup {results[r].counts : r \in Requests} :
            \A o \in DOMAIN f : f[o] =< Cardinality(For(o)) + Cardinality(Attempts(o))

\* A warm key is never the one-field hash of a bare HINCRBY
\* (redis/counters.go:25-28): it has a field for every option of some tally.
NoPartialHash == counters # NoFields => Cardinality(DOMAIN counters) >= MinOptions

\* What the owner was told is done stays done, whatever updates run concurrently:
\* a closed poll is closed, a deleted poll is gone (poll_service.go:243-264, 272).
ManagementSticks ==
    \A r \in Requests :
        /\ pc[r] # "idle" /\ Op(r) = "close" /\ reply[r] = "ok" => poll.status = "closed"
        /\ pc[r] # "idle" /\ Op(r) = "delete" /\ reply[r] = "ok" => poll.stage = "deleted"

\* No step takes a vote away from a poll that can still be reached, whichever
\* step of a delete fails (poll_service.go:268-271).
LiveVotesNeverVanish == [][poll'.stage = "live" => votes \subseteq votes']_vars

\* A user who does not own the poll learns nothing but that it is not theirs,
\* and no management request of theirs gets past the load (poll_service.go:149-160).
StrangersRefused ==
    \A r \in Requests :
        pc[r] # "idle" /\ Op(r) \in Managing /\ call[r].user # Owner
            => /\ pc[r] \in {"load", "done", "aborted"}
               /\ reply[r] \in {"none", "not found", "forbidden", "error"}

Quiet == InFlight = {}

\* With requests served one at a time, whatever keys Redis loses, warm counters
\* show the tally of the votes collection (result_service.go:71-76).
QuietCountersExact ==
    Quiet /\ poll.stage = "live" /\ Warm => Assemble(poll, counters).counts = Tally(poll)

\* With requests served one at a time, the last update published shows every
\* vote, and the closing of the poll (events.go:43, poll_service.go:53-56).
QuietUpdateCurrent ==
    Quiet /\ poll.stage = "live" =>
        /\ votes # {} => published.counts = Tally(poll)
        /\ \A r \in Requests :
            pc[r] = "done" /\ Op(r) = "close" /\ reply[r] = "ok" => published.status = "closed"

\* Every request ends: no failure of a store makes the code retry for ever.
Answered == \A r \in Requests : pc[r] = "load" ~> pc[r] \in {"done", "aborted"}

=============================================================================
