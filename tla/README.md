# Live polling in TLA+

This directory specifies the live-polling application under
`../src`: a Go server that keeps polls and votes in MongoDB, cached counters in
Redis, and pushes every new standing to browsers over WebSockets, and the page
in the browser that shows it. The modules
are translated from the Go and TypeScript source; TLC checks them on small instances and TLAPS
proves the main safety properties for every value of the constants.

    tlc -workers 2 -config MCVotePath_three.cfg MCVotePath     # one run
    tlapm VotePath_proofs.tla                                  # one proof module

`PROJECT.json` lists the components, the runs, the theorems, the mutants, the
hazards and, for every definition, the source lines it stands for.

## 1. The system

Paths are relative to `src/backend/internal` unless they start with `frontend`.

| component | state it keeps | operations | what makes it correct |
| --- | --- | --- | --- |
| Poll service (`services/poll_service.go`) | none; the poll documents in MongoDB | Create, Get, GetOwned, ListForOwner, Update, Close, Delete | only the owner manages; a close or a delete is final; content is frozen by the first vote |
| Vote service (`services/vote_service.go`) | none; the vote documents in MongoDB | Cast, Results, VoteOf | one vote per voter; a vote is for an offered option of an open poll; the answer is the truth |
| Result service (`services/result_service.go`) | none; the counters in Redis | ForPoll, Rebuild, RecordVote, assemble | the counters agree with the votes, a cold or failing cache costs time only |
| Realtime service (`services/realtime_service.go`, `redis/publisher.go`, `redis/subscriber.go`) | two bounded Go channels | PublishResults, AnnouncePoll, Subscribe | the last standing reaches every viewer, or a later one does |
| WebSocket hub, client, manager (`websocket/`) | the rooms, a broadcast channel, a send channel and two goroutines per connection | Register, Unregister, Broadcast, Run, Send, the pumps | no send on a closed channel by the hub, a slow viewer costs nobody else, nothing leaks |
| Upgrade handler (`handlers/websocket_handler.go`) | none | Subscribe: snapshot, upgrade, register, start, send | a viewer starts with a standing, and what it misses after it has a reason |
| Repositories, indexes (`repositories/`, `database/`) | MongoDB collections | one atomic call each | the unique `(pollId, voterId)` index; partial updates |
| Redis counters (`redis/counters.go`) | a hash per poll, with a TTL | warm-only increment script, HGETALL, MULTI/EXEC replace, delete | never a partial hash |
| Rate limiter (`redis/rate_limit.go`, `middleware/rate_limit.go`) | a counter per window | Allow | fixed windows, fails open, every key expires |
| Accounts and sessions (`services/auth_service.go`) | users in MongoDB, tokens in cookies | register, login, logout | one account per address |
| Voter identity (`middleware/voter.go`) | a signed cookie | issue, read | a browser keeps one identity |
| Validation, models, responses | none | pure | bounds on texts, options, expiry |
| Handlers, router, other middleware, configuration, `cmd/server` | none | decode, call one service method, encode; shut down | order of shutdown |
| Browser socket (`frontend/src/hooks/usePollWebSocket.ts`) | a socket, an attempt counter, timers | connect, back off, reconnect | one live socket per mounted view |
| Browser results (`frontend/src/hooks/usePollResults.ts`, voting) | a cache entry | fetch, apply an update, vote | the newest standing is shown |
| Other pages and components | forms | rendering | - |

**How they interact.** A vote is `Cast`: load the poll, decide, insert the vote
(the unique index decides between racing duplicates), increment the counter if
the Redis key is warm or rebuild the key from MongoDB if it is not, read the
standing back, publish it. The publication goes through Redis to the subscriber
of every server, through a Go channel to the manager, through the hub's
broadcast channel into the room of the poll, and from each client's send channel
over its socket. No transaction spans the calls, and no lock spans the two stores.

**What is hard.** Requests interleave between any two database calls; a decision
is taken on a document read earlier; MongoDB may apply a write whose
acknowledgement is lost; Redis may lose the key or refuse a call at any moment;
a rebuild writes a tally taken earlier; the Redis driver sends again what it has no
reply to, counting included; standings are published in another order
than they are computed; on the socket side, the hub, two pumps per connection
and the upgrade handler meet on bounded and unbuffered channels while
connections come and go and the server shuts down; Redis Pub/Sub keeps nothing
and every channel on the way drops or blocks; in the browser, a fetch, a socket and
a mutation write one cache entry in the order in which they happen to answer, and
sockets and timers outlive the hook that made them. The list with lines and the
properties that look at each is `hazards` in `PROJECT.json`.

## 2. The modules

| module | what it is |
| --- | --- |
| `VotePath` | one poll: every request from its arrival to its answer, one database call per step, with MongoDB and Redis |
| `BallotBox` | the abstract promise: a box, admitted, stored and confirmed ballots; no databases, no requests |
| `VotePathBallots` | the refinement mapping; `ImplementsBallotBox` says `VotePath` implements `BallotBox` |
| `VotePathClaims` | three statements of the code's comments that concurrent requests refute |
| `Hub` | one server's hub, its upgrade handlers and the pumps of each connection |
| `HubClaims` | one statement of a comment that an early departure refutes |
| `Fanout` | extends `Hub`: Redis Pub/Sub, the subscriber, the relay and the manager, from a counted vote to a screen |
| `Server` | extends `Fanout`: the life of the process, from the connections of its start to the drain and the deferred closes |
| `RateLimit`, `Accounts`, `VoterIdentity` | the limiter's counters, the users and tokens, the voter's identity and ballot: state and operators |
| `Api` | composes those three: the routes with their middleware, overlapping requests, and the cookie jars of the browsers |
| `PollSocket` | the browser's `usePollWebSocket` |
| `LiveView` | extends `PollSocket`: `usePollResults` and the voting of `PollPage` over one cache entry |
| `MCVotePath`, `MCVotePathClaims`, `MCHub`, `MCHubClaims`, `MCServer`, `MCApi`, `MCLiveView` | the small instances, with the `.cfg` files |
| `VotePath_proofs`, `VotePathCounters_proofs`, `VotePathBallots_proofs` | the theorems about the vote path: votes and answers; counters and updates; the refinement of `BallotBox` |
| `Hub_proofs`, `Server_proofs` | the theorems about the hub, and about the fan-out and the process, which use them |
| `Api_proofs`, `Limiter_proofs`, `LiveView_proofs` | the theorems about the API, its limiter, and the page |

### VotePath and the code

`poll`, `votes` are the MongoDB documents and `minted` the option ids used so
far (an id is never reused for another text); `counters` is the Redis hash, where
no field means no key; `published` is the last message on the poll's channel. A
request `r` is at `pc[r]`, asked for `call[r]`, has loaded `snap[r]`, aggregated
`byOption[r]`, computed `results[r]` and answered `reply[r]`: the local variables
of the handlers and services that are alive across a database call.

| code | actions |
| --- | --- |
| `PollService.Create` | `CreatePoll` |
| `PollRepository.FindByID`, `GetOwned`, the early return of `Close` | `Load` |
| `VoteService.Cast` | `Admit`, `Insert`, `IncrementOption`, then as below, `PublishResults` |
| `ResultService.ForPoll`, `Rebuild` | `ForPoll`, `CountsByPoll`, `ReplaceResults` |
| `ResultService.RecordVote` | `IncrementOption`, then the rebuild at `"record aggregate"`, `"record replace"` |
| `PollService.Update` | `CountByPoll`, `Validate`, `UpdatePoll` |
| `PollService.Close`, `AnnouncePoll` | `ClosePoll`, then `ForPoll` ..., `PublishResults` |
| `PollService.Delete` | `DeletePoll`, `DeleteByPoll`, `DeleteResults` |
| errors of the drivers | `MongoFails`, `CountsByPollFails`, the `Unacknowledged` and `RedisFails` branches |
| outside | `Tick`, `Arrive`, `LoseKey`, `Crash` |

Faults are a constant: `"mongo"` (a call fails, or a write takes effect and its
answer is lost; a purge of many votes may stop half way), `"redis"` (a call fails, or takes effect and its reply is
lost; `redis/client.go:26-34` leaves the driver's retries on, so that `Resend` then has the same
step taken again, at most `MaxRetries` times), `"evict"` (the key is gone) and `"crash"` (a request stops where it is;
a stop of the whole process is every request stopping, so letting each stop by
itself allows more than a real crash does).

Texts are abstracted: an edit of the question or the options may be refused as
invalid whatever its value. `VoteOf` and `ListForOwner` change nothing and are
not requests of this model. Users and voters are taken as identified; how they
are is `Api`'s part. A call that the driver has given up and that the server carries out later still is not modelled.

### Hub and the code

A step is what one goroutine does between two operations on a channel or a
socket. The hub's loop over a room is a step per client (`pending` is what is left of the loop), because
pumps take messages out of the send channels while it runs. `rooms` holds the
clients of every room; a client's room is `Watch[c]`. A payload is the number of
the standing it carries, so that newer and older can be told apart. `snapshot`
is reset once sent and `message` once the fan-out is over: dead values would only
multiply states. `Announce` stands for the manager: `Hub.Broadcast` never blocks,
it drops the update when the channel is full, and when the hub has stopped its
select may take either ready case. `PeerLeaves` stands for a browser that closes, a
network that is gone, and one so slow that a read or write deadline passes. `due` is a history variable for `NextUpdateRepairs` alone.

### Fanout and Server and the code

`Fanout` replaces `Announce` by what really feeds the hub. `Publish` is an update that somebody publishes, by whatever
server, passed to this server's connection by Redis, or lost; `Stray` is a message that is none, or that names another poll than its
channel's. `Receive` is the subscriber's goroutine with its `select` that drops when the channel
`out` is full; `Decode` and `Forward` are the goroutine of `RealtimeService.Subscribe`, which holds
one event (`inHand`) between its receive and its send; `Rebroadcast` is one turn of
`Manager.Run`. `missed`, `overtaken` and `began` are history.

An update is known by its place in the order in which Redis passes the updates of its poll on, not by the votes it
counts. `vote_service.go:105-116` lets two requests publish in another order than they counted in, the driver may send a
`PUBLISH` twice, and whoever can write to Redis can publish what decodes as an update of the channel's poll: each of these
is one more update, and the last one is what a screen should show, right or wrong. That the last update
carries the newest standing is a matter of `VotePath` (`QuietUpdateCurrent` without overlap, the run `close` with it). Likewise a snapshot is the
update it agrees with: the last one at the time it was read, though it may already count a vote whose update comes next.

`Server` is `cmd/server`'s `run` as a program counter `main`: each step may fail and
return, and its deferred calls close what was opened. Serving means that a plain
request may be in progress (`busy`, it may hang) and that viewers may connect, which a request that was accepted
before may still do during the drain. `Confirm` is the read at `subscriber.go:38`, which has no deadline and
does not look at its context: it may wait for ever, and so may a server that is told to stop during it, whatever `subscriber.go:22`
says ("It stops when ctx is cancelled"). `cancelled` is the
signal of the operating system, which also reaches every goroutine of the pipeline.

### Api and the code

A request is sent with the cookies its browser holds at that moment, goes through the stages
of its route (`left`: `limit`, `auth`, `serve`, from `router.New`) one step each, and its answer
is delivered to the jar later or never. A stage that calls a store may fail, and a write may
have happened although the answer says it failed. A document or an identity minted for request `r` is named `r`.
All browsers share one client address, so that the limiter counts them together. The limiter's script is sent
again when its reply is lost (`Resend`): a hit `<<r, n>>` is the `n`-th time request `r` was counted. The voter's cookie has the
Max-Age of `voter.go:22`, `VoterLife`, and is never refreshed; a browser drops it then and is issued another identity. A password is the name of the
browser that knows it, so that "earned" can be said. Two spellings of one e-mail address stand for
what `NormaliseEmail` makes equal.

### PollSocket, LiveView and the code

The refs of the hook are variables; `socket[s]` is the state of each socket that exists, because the
hook's handlers run for sockets it no longer remembers. `retryTimer` is the timer
`retryTimer.current` names, `strays` counts the ones overwritten, which nobody can clear. `malformed` says that the page's address makes no URL, so that every `connect` gives up
at once. `LiveView` adds the
frames on the wire, the cache entry `data`, the query's request `fetch` and the mutation's answer `vote`. What `invalidateQueries`
and an unmounted query do to a running request is modelled from how the code uses react-query, with its
rule that a first fetch is never restarted. A standing is the number of votes; the page never compares two. What the servers put on a socket is left
open (`ServerSends`): any standing the poll has had, in any order, some of them never, and the snapshot too may be an old one. The
hub and the channels before it drop, and the snapshot is read before the upgrade; what becomes of an update there is `Fanout`'s part.
`fed` is the newest that was put on each socket.

Three things the model shows the hook to do, none of which breaks what the run checks:

- the flag `closingDeliberately` is one for all sockets. If the effect is set up again before the close
  event of the old socket arrives, `connect` has lowered it, and that event drops the
  reference to the new socket and starts a retry beside it (`usePollWebSocket.ts:137`); the same
  happens after `refresh` over a live socket;
- `retryTimer.current` can be overwritten by a second close, and the first timer then survives the cleanup;
- a reconnection while the first fetch is under way does not restart it, and what that fetch read may be older than the
  frames that came meanwhile and were discarded: the comment at `usePollResults.ts:52-53` says the fetch "will
  arrive with the same numbers anyway". `StaleScreensAreLate` says when a screen is no older than its socket.

## 3. What TLC checks

| run | instance | properties | distinct states |
| --- | --- | --- | --- |
| `three` | three overlapping requests of any kind, Redis faults, a repetition of each call, and evictions | `OneVotePerVoter`, `OwnRebuildCountsOwnVote`, `NoPartialHash`, `CountedOncePerAttempt`, `ImplementsBallotBox` | 2.5 M |
| `manage` | two overlapping requests, every fault, an expiring poll, an owner and a stranger | `TypeOK`, `AnswersAreTruthful`, `StrangersRefused`, `ManagementSticks`, `LiveVotesNeverVanish`, `ImplementsBallotBox`, `Answered` | 0.80 M |
| `serial` | any sequence of three requests, one at a time, evictions, a clock | `QuietCountersExact`, `QuietUpdateCurrent` | 0.38 M |
| `hub` | two viewers of one poll, a second poll, shutdown | `TypeOK`, `HubNeverPanics`, `NextUpdateRepairs`, `OnlyTheSlowAreDropped` | 4.4 M |
| `hub_ends` | two viewers, shutdown, fairness | `ConnectionsEnd` | 0.21 M |
| `fanout` | one viewer of one poll, a second channel, every start, stop and failure of the server, buffers of one message | `ServerOK`, `MissesAreExplained`, `ScreensAreGenuine`, `RequestsFindTheirStores`, `OnlyItsSnapshotSetsAScreenBack`, `UpdatesReachTheScreens`, `StopsWhenTold` | 0.76 M |
| `api` | three overlapping requests of three mixes, two browsers, limits of one or two, a repetition of each hit, a clock | `ApiOK`, `OneAccountPerAddress`, `SessionsAreEarned`, `LessThanTwiceTheLimit`, `RefusalsAreEarned`, `BallotsPerBrowser`, `OwnChoiceShown`, `OneIdentityOnceSettled` | 3.4 M |
| `viewer` | two sockets at a time with a frame each on its way, two attempts, two votes | `ViewOK`, `BadgeIsHonest`, `SomebodyTries`, `StaleScreensAreLate`, `NothingStaysMissed`, `RetriesEnd` | 0.79 M |
| `overcount`, `edit`, `close`, `hub_panic` | two requests without faults, or one viewer | one refuted statement each | - |

What they show:

- `three`: nothing but the unique index stands between two votes of one voter,
  and it is enough; a rebuild a vote runs for itself includes that vote; the
  script never leaves a hash of one field; overlap may count a vote in a rebuild of
  another request and again in its own increment, as often as the driver sends that, and nothing counts it more; and every vote stored was admitted
  while the poll was open and offered its option.
- `manage`: under lost acknowledgements and stops at every point, `ok`,
  `already voted` and the refusals about a vote stay true for as long as the
  poll exists; an acknowledged close or delete is never undone by a concurrent
  update (it is a `$set` of single fields); a delete that stops halfway never
  leaves a reachable poll without its votes; every request ends.
- `serial`: when requests do not overlap, warm counters show the tally of the
  votes, and the last message on the channel shows every vote and the close. What the next
  three runs refute is therefore due to overlap alone.
- `hub`: the hub's own goroutine never sends on a closed channel; a client that
  is neither leaving nor shut down is closed only for its own full buffer; and
  whatever was dropped before, a viewer that has drained its channel shows at
  least the last update that was queued while it was connected.
- `hub_ends`: whichever of the browser, the hub, the handler and the pumps ends
  first, all end, the client leaves its room, and the socket is closed.

- `fanout`: with everything quiet, a connected screen that does not show the last update published to Redis has a reason
  that can be named, a drop before the hub or an update that overtook its snapshot; there is no third. From Redis to
  the browser updates keep their order, and a screen goes
  back only at its snapshot. What is no update of its channel's poll reaches nobody. Apart from those reasons every viewer catches up, no goroutine waits
  for another for ever, and a server told to stop stops, whatever its requests are doing, and its start too, unless
  Redis leaves it waiting for the confirmation of its subscription. Only
  an error of `run`, the drain's deadline included, closes a store under a request.
- `api`: the unique index and the normal form keep one account per address, through overlapping registrations
  and lost answers; a browser never acts in the name of an account whose password it does not know,
  in whatever order answers set and clear its cookies; the counter allows less than twice the limit in any window (requests
  that fail open pass beside it and are not counted among them), and nobody is
  refused longer than a window after as many hits as the limit, of which one request may have made several; a browser has at most one ballot for each request it sent without an identity
  (overlapping first requests are the price of an anonymous cookie), and once those are answered it keeps one identity for as long as its cookie lives.
- `viewer`: "Live" is said only over a socket that is open or whose end is unreported;
  "connecting" and "reconnecting" only while something will happen; a quiet screen is older than what came on an open socket only if an
  answer read earlier, or an update out of its order, was written last; a reconnection makes up for what was missed even if the socket dies at once; and
  retries end.

### Statements of the code that the runs refute

- `overcount` (`result_service.go:141`): a vote is inserted; another request
  finds the key cold and rebuilds it, counting the vote; the increment then
  finds a warm key and counts it again. "Nothing here can return a wrong number"
  (`result_service.go:74`) does not hold until the key is next lost.
- `edit` (`poll_service.go:205`): `Update` counts no votes, a vote is stored, the
  new options are written. The vote is for an option that is gone.
- `close` (`vote_service.go:116`): a vote that loaded the poll before its close
  publishes it as active after the close was published; viewers see an open poll.
- `hub_panic` (`websocket_handler.go:116`): the handler sends the snapshot after the
  client is registered and its pumps run; the hub may have closed the channel in between.
  The panic is in the handler's goroutine, and the Recovery middleware catches it.

### Bounds, and why they are enough

- *Requests.* Each of the properties relates at most two requests and what a
  third leaves behind (two voters and an eviction-driven rebuild, an update and a
  close, a delete and a vote). `three` lets three overlap without the clock;
  `manage` has two with every fault, where the states of a third would
  multiply past what TLC visits in minutes. The theorems cover any number.
- *Voters, options.* Two voters; three ids of which a poll offers exactly two
  (`MinOptions = MaxOptions = 2`), so that an edit can keep one, replace one, and
  an old vote be for a new or a lost option.
- *Time.* `MaxTime` is 1 (`manage`) or 2 (`serial`): before and after an
  expiry; 0 where only the order of calls matters. `NoExpiry` is after the last instant.
- `MaxInFlight` bounds the requests served at once: 1 makes `serial`, otherwise it
  equals the number of requests and does not bind.
- *Hub.* Buffers of one message, full after one send, so every full-buffer branch is taken;
  `MaxTally = 2` standings per poll, so that one may be dropped and a newer one follow;
  the second poll competes for the broadcast channel without doubling the clients.
- *Repetitions.* `MaxRetries` 1 stands for the driver's 3: a call that takes effect twice. It is the least with
  which an increment counts twice and one request uses up two hits.
- *Fan-out.* One viewer: viewers meet in the hub only, which the run `hub` covers with two. Two messages of the poll,
  stray ones included, so that one can be lost and the other overtake; each channel holds one message, so each blocks or drops.
  The second channel is there for messages that name the poll on a channel not its own.
- *Api.* Three requests: two that overlap and one before or after them that sees what they left. `Mixes` bounds how often each
  operation is sent in one behaviour: operations on accounts, on polls, and on votes share the clock and no more than
  the accounts, so the mixes keep together what meets. The limit of `auth` is two and the others one,
  so that the second request of a scope, or the third, is at the limit; `MaxClock` 2 with windows of 1 and 2, tokens of 2 and voter cookies of 1 lets each window,
  token and cookie end while a request is in progress.
- *Viewer.* Two sockets at a time and any number one after another: one that closes and one that replaces it. An
  effect is not set up, nor a reconnection asked for, while a forgotten timer runs; otherwise timers could pile
  up without bound. `MaxAttempts` 2 stands for 8: a first attempt, and a last one. `MaxFrames` 1: each
  frame may carry any standing, so a second one on the wire would add no order of arrival.
- *Symmetry* is used for the request names, in `serial` also for voters and
  options, and for clients, and only in runs without liveness. No definition of these modules
  tells two of those names apart; in `three` the calls name voters and options, so
  only the requests are permuted there.
- `CHECK_DEADLOCK FALSE`: each request and each connection is made once and ends; a
  behaviour that has served them all stops.

### Fairness

`VotePath` assumes `WF(Serve(r))` for each request: a handler runs in a
goroutine of its own, the drivers' calls return (Redis calls have the timeouts of `client.go:30-32`; calls of MongoDB have no
timeout of their own and rely on the driver's defaults and the request's context), and the Go runtime schedules it. Arrivals, the clock, and faults have
no fairness. Where a fault and a success are both possible, either satisfies the assumption, so `Answered`
does not rely on a store recovering.

`Hub` assumes weak fairness of each goroutine. A case of the hub's `select` may
be disabled and enabled again while the hub fans out a broadcast; since a behaviour
announces finitely many updates (and Go's `select` chooses at random among ready
cases, so no ready case is passed over for ever), weak fairness is enough.
`PeerLeaves`, `Cancel`, `Announce` and the arrival of a connection are not fair.

`Server` assumes less: that some goroutine takes a step while any can (`WF(Goroutines)`). Every
step moves a message or ends something and nothing can be repeated for ever, so that is enough. `run`
moves on (`WF(Run)`), since its calls have deadlines, all but the confirmation of the subscription: `Confirm` is not part of `Run`
and has no fairness. Nothing need be published, no request need ever end, and nothing fails for certain.

`LiveView` assumes that a request is answered or fails (the browser gives up on a dead connection, and a query is retried once, `App.tsx:24`; react-query
holds a request back while the browser is offline, so the assumption includes that the network returns),
that a socket that connects or is being closed comes to do so, and that a timer goes off. An open socket
need not stay open, the servers need not send, frames need not arrive, the viewer need not do anything.

## 4. What is proved

TLAPS checks every step. The assumptions are the named ones of the modules and
nothing else: calls are well formed, the owner is a user, `OptionIDs` is finite,
`1 <= MinOptions <= MaxOptions`, the bounds are natural numbers, there is at
least one poll, each client watches one, and buffers hold at least one message; there are finitely many requests,
`"none"` is no request and no socket, the names of requests and browsers can serve as ids, passwords and choices, one spelling
of an address is its normal form, limits and windows are positive, lifetimes, repetitions and frames natural numbers, and every poll has its channel. TLC evaluates them in each run.

| theorem | statement |
| --- | --- |
| `TypeCorrect` | `Spec => []TypeOK` of `VotePath` |
| `VotersVoteOnce` | `Spec => []OneVotePerVoter` |
| `AnswersTellTheTruth` | `Spec => []AnswersAreTruthful` |
| `ManagementIsFinal` | `Spec => []ManagementSticks` |
| `StrangersStayOut` | `Spec => []StrangersRefused` |
| `VotesOutliveNothing` | `Spec => LiveVotesNeverVanish` |
| `KeysAreWhole`, `RebuildsCountTheirVote` | `Spec => []NoPartialHash`, `Spec => []OwnRebuildCountsOwnVote` |
| `SerialCountersExact`, `SerialUpdateCurrent` | `Spec => []QuietCountersExact`, `Spec => []QuietUpdateCurrent`, both assuming `OneAtATime` |
| `VotesCountOncePerAttempt` | `Spec => []CountedOncePerAttempt`, whatever overlaps, fails or is sent again |
| `VotePathIsABallotBox` | `Spec => ImplementsBallotBox` |
| `HubTypeCorrect`, `HubIsSafe`, `OnlyTheSlow` | `TypeOK`, `HubNeverPanics`, `OnlyTheSlowAreDropped` of `Hub` |
| `TheNextUpdateRepairs` | `Spec => []NextUpdateRepairs` of `Hub` |
| `ServerTypeCorrect`, `RequestsAreServed`, `NoScreenLies` | `ServerOK`, `RequestsFindTheirStores`, `ScreensAreGenuine` of `Server` |
| `NoUpdateIsLost`, `ScreensGoForward` | `SSpec => []MissesAreExplained`, `SSpec => OnlyItsSnapshotSetsAScreenBack` |
| `ApiTypeCorrect`, `AccountsAreUnique`, `SessionsBelong` | `ApiOK`, `OneAccountPerAddress`, `SessionsAreEarned` of `Api` |
| `ChoicesBelong`, `IdentitySettles`, `BallotsAreCounted` | `OwnChoiceShown`, `OneIdentityOnceSettled`, `BallotsPerBrowser` of `Api` |
| `TheLimitHolds`, `NobodyIsBanned` | `LessThanTwiceTheLimit`, `RefusalsAreEarned` of `Api` |
| `ViewTypeCorrect`, `LiveMeansLive`, `TryingMeansTrying` | `ViewOK`, `BadgeIsHonest`, `SomebodyTries` of `LiveView` |
| `OnlyTheLateAreStale` | `StaleScreensAreLate` of `LiveView` |

**The argument for the vote path.** `VotePath_proofs` proves `TypeOK` first; its part
`ControlOK` ties each step to an operation, so that, for instance, a request at
`"insert"` is known to be a vote. `AnswersAreTruthful` and `ManagementSticks` are not
inductive: they speak of answers only, and a request that is about to answer must
already be known to have done its part. The inductive invariant is

    IInv == TypeOK /\ Lifecycle /\ Ledger /\ OneVotePerVoter /\ Decided /\ StrangersRefused

- `Lifecycle`: before the poll exists no request has arrived; a request at the
  purge or the clearing of a delete finds the poll gone; only a request that is
  done has answered.
- `Ledger`: every stored vote is that of a request past its insert; while the poll
  exists, the vote of a request past its insert, or answered `ok`, is stored, and a
  voter told "already voted" has a vote stored. A stored vote bears the name of its
  request, which is why another request's vote is never mistaken for it.
- `Decided`: a close past its write has closed the poll, a delete that answered
  `ok` has deleted it.

Each action preserves `IInv`, with a lemma per group of actions that leave the
same variables alone. `LiveVotesNeverVanish` follows from `Lifecycle`: votes are
only removed at `"purge"`, where the poll is gone.

**The argument for the counters.** `CInv == IInv /\ Offered /\ Whole /\ OwnRebuildCountsOwnVote`.
`Offered` says that the poll and every copy of it a request works with offer a legal number of options, and that a vote past its
checks is for one of them; `Whole` that a tally on its way to Redis has a field for each of those. An increment
meets a warm key, which is whole, and a rebuild writes a whole hash, so no key is ever partial; and
a rebuild aggregates after its request's own insert, so it has read that vote.

That the counters are *right* holds of requests that do not overlap only, as the run `overcount` shows. The
theorems say so in a hypothesis, `OneAtATime == MaxInFlight = 1 /\ Faults \subseteq {"evict"}`, which is the run
`serial` for any number of requests, voters and options. Within a request the counters are late by its vote and the
last update by the whole request, so the invariant `Serial` says by how much: `Exact` (a warm counter plus the vote stored and not
yet counted is the tally), `Carried` (a tally or standing under way is that of the votes) and `Told` (unless a
request has still to announce, the last update is that of the votes and the close), over `Alone` and `Current`: who is served is alone,
so what it has loaded is still so.

Of requests that do overlap, `VotesCountOncePerAttempt` says how much can be counted too often: an increment counts once for each time the
driver sent it (`Attempts(o)`, which leaves out the attempt that is about to be made). `Limited` says that a tally under way has at most
the votes for `o`, and the counters, the standings and the last update at most those and `Attempts(o)`. Both numbers only
grow while there is a poll (`BoundsGrow`), so what is copied stays below them, however old; and an increment that adds one takes its
own attempt into `Attempts(o)` in the same step.

**The refinement.** `VotePathIsABallotBox` maps the initial state to an empty box and each step to a step of the
box or a stutter, one lemma per group of actions: a creation or an edit offers, the clock expires, the admission, the
insert, the answer and the failure of a vote are `Admit`, `Store`, `Confirm` and `Lapse`, a close is `Close`, a delete and
its purge are `Delete` and `Discard`. `CInv` supplies what the box demands: that an admitted option is on offer, that
the voter has no ballot stored, that a confirmed one is stored, and that only the votes of a poll that is gone are purged.

**The argument for the hub.** `HInv == TypeOK /\ HubNeverPanics /\ Membership`, where
`Membership` says that the clients still to be given a message watch its poll, that a client not
yet registered is in no room, open and not being read from, and that a reader ends only on a dead connection. The capacity of the
channels, the absence of a send on a closed channel and the reason of each closing follow step by step.

`NextUpdateRepairs` needs `RInv`, which adds two facts of each client. `AtHome`: once registered it is in its room
while the hub runs and has not closed it, so no broadcast passes it by. `DueComesLast`: of all that is on its way to a
connected client, the standing `due` comes last, be that in the hub's channel, in the hub's hand, in the send
channel or, when all of those are empty, on the screen.

**The argument for the server.** `SInv == HInv /\ PipelineOK /\ ProcessOK /\ Started /\ Pipeline /\ ToTheScreen`.
All but two kinds of a server's steps are steps of `Hub` or leave it alone, so `HInv` is taken over from
`Hub_proofs`; `Publish` and `Rebroadcast` are proved anew. `Started` lists what `run` has done before each of its steps.
`Pipeline` and `ToTheScreen` follow an update from the channel of Redis to the screen: each place holds only
updates of their poll, the stray messages excepted, which `Decode` stops. Updates are numbered as they come, so what was genuine stays so.

The two properties about order need to know where every update is. `OInv` says it of one poll at a time: `Line(p)` puts the
updates of `p` in a row, from the last one Redis passed through each channel and hand to the one the hub is
delivering, and says that the row is strictly increasing. A step moves one of them to the next place or drops it, and
`Handover` is the lemma for all the moves. `Explains(p)` follows for each step: what leaves the row without reaching the
hub's hand is no newer than `missed`, unless the server is told to stop. `EInv` adds what becomes of an update after that:

- `Passed(p)`: if the last update is neither missed nor in the row, the row is empty, since whatever is in it is older and would have come first;
- `Screen(c)`: what client `c` has been sent is increasing and older than all that is to come, its snapshot excepted, which may stand anywhere;
- `Overtaken(c)`: what overtook the snapshot is older than all that is to come;
- `Told(c)`: if nothing excuses `c`, its snapshot agrees with the last update and nothing was queued before it, or
  that update is the last thing queued, or it is on the screen.

When nothing is on its way any more, `Told` is `MissesAreExplained`. A screen changes with the first message of its queue only, so
`Screen` is `OnlyItsSnapshotSetsAScreenBack`.

The proof found an error in an earlier form of this model: `missed` held the last update dropped, but the
subscriber can drop a newer one before the hub drops an older one behind which it came, and the older one then hid it. With two
updates of a poll, the bound of the run, that cannot happen, and TLC had nothing to object; three show it. `missed`
is a history variable, so what the server does is not affected; it now holds the newest update dropped.

**The argument for the API.** `IInv == ApiOK /\ Fresh /\ OnRoute /\ StoresTruthful /\ JarsTruthful /\ RequestsTruthful`.
An account, a poll, a ballot and an identity are named after the request that made them, which has one sender for
ever; so whose they are never changes, and it is enough that no step puts a name where it does not belong. The three last
parts say so of the stores, of the cookies in the jars, and of the cookies a request carries, the caller it is taken for and the answer it
gets. `OnRoute` says that a request meets the limiter at one stage of its route, where the driver may send its hit several times.
`OneIdentityOnceSettled` speaks of a browser whose cookie lives: the jar's cookie changes only with an answer to a request that was sent without one.

**The argument for the limiter.** `LInv` adds `Windows`: a scope whose key exists has a window that began at some `s` with the hit of
some `f`; the hits since are as many as the key says, up to the limit; and fewer than the limit were allowed in the
length of a window before `s`. A scope without a key has allowed fewer than the limit in that time. Two adjacent windows therefore allow less than
twice the limit, which `LessThanTwiceTheLimit` says of every instant.

**The argument for the page.** `HookInv` needs one more fact than the properties: the flag that silences a close is down
while the effect is set up. `PageInv` adds what `StaleScreensAreLate` needs: the newest standing put on an open socket is still on its
way, or it or something newer has arrived (`Fed`); and what is on the screen is no older than what has arrived, or
marked as late (`Screen`). Nothing is asked of the servers.

**Model-checked only.** `Answered`, `ConnectionsEnd`, `UpdatesReachTheScreens`, `StopsWhenTold`, `NothingStaysMissed` and
`RetriesEnd` are liveness, which the installed provers do not reach. Every invariant and every action property of a
passing run, and the refinement, is proved.
Facts by induction over data (what a recursive function computes for every input) would be out of the
provers' reach; nothing here depends on one, and no module uses a `RECURSIVE` operator.

## 5. What is not modelled

- The announcement of an expiry: there is none; a screen shows the status of the last standing it was sent.
- How far counters may lag behind the votes: planned. How far they may exceed them is
  `CountedOncePerAttempt`. `../src/docs/realtime.md:22-24` ("the counters would simply be rebuilt on the
  next read") and `:65-66` ("Slower, still correct") do not hold of a warm hash that lacks a vote; `hazards` lists both.
- Signatures, hashes, and the secrecy of tokens and cookies: a token or cookie is what the server put in it, and one
  that does not verify is none.
- Texts, formatting, headers, logging, decoding, the DTOs, the parsing of the configuration, health probes, `useSubmitGuard`, pages
  and components: sequential code whose tests reach it.
- `Viewers` and the totals of `ListForOwner`: reads that change nothing.
- A call of Redis that the driver has given up and that takes effect later; whether the last update published carries the newest standing
  when requests overlap (it need not).
- In the browser: the garbage collection of the cache, several tabs, and the length of a backoff.

## 6. Plan

Done, in the order of importance: the vote path, its abstract box and the proof that it implements it; the hub and its proofs;
the four refuted statements; the fan-out and the process around it; the API with
accounts, identities and limits; the browser's page; the proofs of all their safety properties.

Next, in this order:

1. `CounterAudit`: an accounting of the counters over `VotePath`: warm counter =
   tally - increments not yet made or lost + votes a foreign rebuild has already counted. It bounds
   the lag after failed increments and stops, and sharpens the bound on the excess.
2. An abstract specification of a viewer's standing that `Server` and `LiveView` both implement.
3. Validation of texts and options as pure functions against a reference.

Proofs to add: the accounting of `CounterAudit`, of which `Exact` is the case without overlap, and the
refinement of the second item.
