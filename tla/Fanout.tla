------------------------------- MODULE Fanout -------------------------------
(***************************************************************************)
(* The way of a vote's update from Redis to the screens of one server:     *)
(* Redis Pub/Sub, which keeps nothing; the subscriber, which drops; the    *)
(* relay, which checks what it is given; the manager, and the hub.  Three  *)
(* goroutines in a row, each with a channel behind it that it closes when  *)
(* it ends.  Any server publishes, in whatever order: an update is known   *)
(* by its place in the order in which Redis passes them on.                *)
(***************************************************************************)
EXTENDS Hub

CONSTANTS
    SubscriberBuffer,  \* redis.subscriberBuffer
    Channels           \* the channels the pattern matches: a poll's bears its name

ASSUME SubscriberBufferAssumption == SubscriberBuffer \in Nat \ {0}
ASSUME ChannelsAssumption == Polls \subseteq Channels

VARIABLES
    strays,      \* the messages so far that were no updates
    subscriber,  \* the subscriber's goroutine
    out,         \* events.Message, from it to ...
    relay,       \* ... the goroutine of RealtimeService.Subscribe ...
    inHand,      \* ... with the events it has decoded and not passed on ...
    decoded,     \* ... and the channel behind it
    manager,     \* the goroutine of Manager.Run
    missed,      \* history: the newest update of each poll dropped before the hub
    overtaken,   \* history: the last update fanned out while a snapshot was on its way
    began        \* history: each client's snapshot

pipeline == <<subscriber, out, relay, inHand, decoded, manager>>
history == <<missed, overtaken, began>>
fvars == <<vars, strays, pipeline, history>>

\* A message of Redis: its channel, whether its payload decodes, and as what.
Messages == [channel : Channels, decodes : BOOLEAN, poll : Polls, tally : 0 .. MaxTally + 1]

Message(u) == [channel |-> u.poll, decodes |-> TRUE, poll |-> u.poll, tally |-> u.tally]

Event(m) == [poll |-> m.poll, tally |-> m.tally]

FInit ==
    /\ Init
    /\ strays = 0
    /\ out = <<>> /\ inHand = <<>> /\ decoded = <<>>
    /\ subscriber = "off" /\ relay = "off" /\ manager = "off"
    /\ missed = [p \in Polls |-> 0]
    /\ overtaken = [c \in Clients |-> 0]
    /\ began = [c \in Clients |-> 0]

\* Update u is dropped, perhaps behind a newer one that was dropped nearer to Redis;
\* nothing is missed before there is a subscription.
Miss(u) ==
    missed' = IF subscriber = "running" /\ u.tally > missed[u.poll]
              THEN [missed EXCEPT ![u.poll] = u.tally] ELSE missed

-----------------------------------------------------------------------------
(* What comes from Redis. *)

\* The subscriber never waits: a message that finds its channel full is dropped.
Receive(m) ==
    /\ subscriber = "running"
    /\ out' = IF Len(out) < SubscriberBuffer THEN Append(out, m) ELSE out

\* Somebody publishes an update of p: a server, fire and forget, its driver again when
\* the reply is lost, or whatever else writes what decodes as one.  Redis passes it,
\* sooner or later, to a subscriber that is connected, or nobody ever gets it.  Bound:
\* MaxTally messages of a poll, the stray ones among them.
Publish(p) ==
    LET u == [poll |-> p, tally |-> tally[p] + 1] IN
    /\ tally[p] + strays < MaxTally
    /\ tally' = [tally EXCEPT ![p] = @ + 1]
    /\ \/ Receive(Message(u)) /\ (IF out' = out THEN Miss(u) ELSE UNCHANGED missed)
       \/ Miss(u) /\ UNCHANGED out
    /\ UNCHANGED <<cancelled, due, hub, client, strays>>
    /\ UNCHANGED <<subscriber, relay, inHand, decoded, manager, overtaken, began>>

\* Something else comes on a channel: what does not decode, or names another poll than
\* the channel's, with a number that poll never had.
Stray(m) ==
    /\ m.tally = MaxTally + 1 /\ (m.decodes => m.channel # m.poll)
    /\ tally[m.poll] + strays < MaxTally
    /\ strays' = strays + 1
    /\ Receive(m)
    /\ UNCHANGED <<vars, subscriber, relay, inHand, decoded, manager, history>>

-----------------------------------------------------------------------------
(* The goroutines between Redis and the hub. *)

\* Manager.Run: the subscription is confirmed, the goroutines are started.
Subscribe ==
    /\ subscriber = "off"
    /\ subscriber' = "running" /\ relay' = "running" /\ manager' = "running"
    /\ UNCHANGED <<vars, strays, out, inHand, decoded, history>>

\* The channel of go-redis is left; out is closed behind.
SubscriberStops ==
    /\ subscriber = "running"
    /\ cancelled
    /\ subscriber' = "done"
    /\ UNCHANGED <<vars, strays, out, relay, inHand, decoded, manager, history>>

\* Mutant: the payload alone says whose update it is.
AnyChannel(m) == m.decodes

\* events.Decode accepts it, and its poll is the channel's.
Recognised(m) == m.decodes /\ m.poll = m.channel

Decode ==
    /\ relay = "running" /\ inHand = <<>>
    /\ out # <<>>
    /\ out' = Tail(out)
    /\ inHand' = IF Recognised(Head(out)) THEN <<Event(Head(out))>> ELSE <<>>
    /\ UNCHANGED <<vars, strays, subscriber, relay, decoded, manager, history>>

Forward ==
    /\ relay = "running" /\ inHand # <<>>
    /\ Len(decoded) < SubscriberBuffer
    /\ decoded' = decoded \o inHand
    /\ inHand' = <<>>
    /\ UNCHANGED <<vars, strays, subscriber, out, relay, manager, history>>

\* The relay ends with the channel it ranges over, or with ctx, an event in hand.
RelayEnds ==
    /\ relay = "running"
    /\ \/ cancelled /\ inHand # <<>>
       \/ subscriber = "done" /\ out = <<>> /\ inHand = <<>>
    /\ relay' = "done"
    /\ inHand' = <<>>
    /\ UNCHANGED <<vars, strays, subscriber, out, decoded, manager, history>>

\* One turn of the manager's loop.
Rebroadcast ==
    /\ manager = "running"
    /\ decoded # <<>>
    /\ decoded' = Tail(decoded)
    /\ Broadcast(Head(decoded))
    /\ IF broadcast' = broadcast
       THEN Miss(Head(decoded)) ELSE UNCHANGED missed
    /\ UNCHANGED <<tally, cancelled, running, rooms, pending, message, client>>
    /\ UNCHANGED <<strays, subscriber, out, relay, inHand, manager, overtaken, began>>

ManagerEnds ==
    /\ manager = "running"
    /\ decoded = <<>> /\ relay = "done"
    /\ manager' = "done"
    /\ UNCHANGED <<vars, strays, subscriber, out, relay, inHand, decoded, history>>

-----------------------------------------------------------------------------
(* The hub and the connections, with the history of what overtakes a snapshot. *)

\* c's handler has read the standing and has not queued it.
SnapshotOnItsWay(c) == handler[c] \in {"upgrade", "register", "start", "send"}

ReadSnapshot(c) ==
    /\ TakeSnapshot(c)
    /\ began' = [began EXCEPT ![c] = tally[Watch[c]]]
    /\ UNCHANGED overtaken

\* The hub takes an update past a viewer that is not registered yet ...
HubTakes ==
    /\ TakeBroadcast
    /\ overtaken' = [c \in Clients |->
          IF SnapshotOnItsWay(c) /\ c \in Watching(Head(broadcast).poll) \ rooms
          THEN Head(broadcast).tally ELSE overtaken[c]]
    /\ UNCHANGED began

\* ... or queues it before the viewer's own snapshot.
HubDelivers(c) ==
    /\ Deliver(c)
    /\ overtaken' =
          IF SnapshotOnItsWay(c) THEN [overtaken EXCEPT ![c] = message.tally] ELSE overtaken
    /\ UNCHANGED began

OtherGoroutine(A) == A /\ UNCHANGED <<overtaken, began>>

\* A step of the hub's loop, of a handler or of a pump.
HubSide(A) == A /\ UNCHANGED <<strays, pipeline, missed>>

HubGoroutines ==
    \/ HubTakes \/ OtherGoroutine(Stop)
    \/ \E c \in Clients :
        HubDelivers(c) \/ OtherGoroutine(Handle(c) \/ Read(c) \/ WritePump(c))

Pumps ==
    \/ SubscriberStops
    \/ Decode \/ Forward \/ RelayEnds
    \/ Rebroadcast \/ ManagerEnds

-----------------------------------------------------------------------------
(* What the fan-out promises. *)

Stages == {"off", "running", "done"}

\* Type invariant of the pipeline; of the rest it is Hub's.
PipelineOK ==
    /\ strays \in 0 .. MaxTally
    /\ out \in Seq(Messages) /\ Len(out) =< SubscriberBuffer
    /\ inHand \in Seq(Updates) /\ Len(inHand) =< 1
    /\ decoded \in Seq(Updates) /\ Len(decoded) =< SubscriberBuffer
    /\ subscriber \in Stages /\ relay \in Stages /\ manager \in Stages
    /\ missed \in [Polls -> 0 .. MaxTally]
    /\ overtaken \in [Clients -> 0 .. MaxTally]
    /\ began \in [Clients -> 0 .. MaxTally]

\* Nothing is on its way to the hub.
Delivered == out = <<>> /\ inHand = <<>> /\ decoded = <<>>

\* A screen that does not show the last update of its poll when all is still has one of
\* two reasons: that update was dropped before the hub, by Redis, by a full channel
\* (subscriber.go:60-67) or by a saturated hub (hub.go:156-163); or it was fanned out
\* while the viewer's snapshot, older, was on its way (websocket_handler.go:90-116).
\* There is no third way to miss an update and stay connected.
MissesAreExplained ==
    \A c \in Clients :
        ~cancelled /\ Drained(c) /\ Delivered /\ seen[c] # tally[Watch[c]] =>
            tally[Watch[c]] \in {missed[Watch[c]], overtaken[c]}

\* Updates never change places between Redis and the browser: a screen goes back to an
\* earlier one only at its snapshot, which may come behind an update that overtook it,
\* or ahead of one it overtook (websocket_handler.go:90-116); so at most once.
OnlyItsSnapshotSetsAScreenBack ==
    [][\A c \in Clients : seen'[c] < seen[c] => began[c] \in {seen[c], seen'[c]}]_fvars

\* No screen shows what no update of its poll said: what comes on the channels of Redis
\* and does not decode, or belongs on the channel of another poll, reaches nobody
\* (events.go:67-84, realtime_service.go:93-109).
ScreensAreGenuine == \A c \in Clients : seen[c] =< tally[Watch[c]]

=============================================================================
