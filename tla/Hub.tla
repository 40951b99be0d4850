-------------------------------- MODULE Hub --------------------------------
(***************************************************************************)
(* One server's WebSocket hub.  The hub goroutine alone owns the rooms;    *)
(* upgrade handlers, the manager and two pumps per connection reach it     *)
(* over channels.  A step is what one goroutine does between two channel   *)
(* or socket operations; the hub's loop over a room is a step per client.  *)
(* A payload is the number of the update it carries; a snapshot is as new  *)
(* as every update that had come when it was read.                         *)
(***************************************************************************)
EXTENDS Naturals, Sequences

CONSTANTS
    Clients,          \* connections, each made once
    Polls,
    Watch,            \* Client.pollID
    SendBuffer,       \* websocket.sendBuffer
    BroadcastBuffer,  \* the capacity of Hub.broadcast
    MaxTally          \* bound: the updates of a poll

ASSUME PollsAssumption == Polls # {}
ASSUME WatchAssumption == Watch \in [Clients -> Polls]
ASSUME BuffersAssumption ==
    SendBuffer \in Nat \ {0} /\ BroadcastBuffer \in Nat \ {0} /\ MaxTally \in Nat

VARIABLES
    tally,      \* the number of updates of each poll that have come here, or were lost on their way
    cancelled,  \* ctx is done: the server is shutting down
    running,    \* Run has not returned; when it has, done is closed
    rooms,      \* the clients in Hub.rooms
    broadcast,  \* the Hub.broadcast channel
    pending,    \* the clients the hub has still to give ...
    message,    \* ... the broadcast it is fanning out
    handler,    \* where each client's upgrade handler is
    snapshot,   \* the snapshot the handler has encoded
    send,       \* each Client.send channel ...
    open,       \* ... and whether it is not closed
    reader,     \* each client's readPump
    writer,     \* each client's writePump
    conn,       \* the server's end of each connection
    peer,       \* whether the browser is still there
    seen,       \* the last payload each browser received
    due         \* history: the newest update queued for a client with its handler over

rest == <<tally, cancelled, due>>
hub == <<running, rooms, broadcast, pending, message>>
client == <<handler, snapshot, send, open, reader, writer, conn, peer, seen>>
vars == <<rest, hub, client>>

Watching(p) == {c \in Clients : Watch[c] = p}

NoMessage == [poll |-> CHOOSE p \in Polls : TRUE, tally |-> 0]

Init ==
    /\ tally = [p \in Polls |-> 0]
    /\ cancelled = FALSE
    /\ running = TRUE
    /\ rooms = {}
    /\ broadcast = <<>>
    /\ pending = {}
    /\ message = NoMessage
    /\ handler = [c \in Clients |-> "idle"]
    /\ snapshot = [c \in Clients |-> 0]
    /\ send = [c \in Clients |-> <<>>]
    /\ open = [c \in Clients |-> TRUE]
    /\ reader = [c \in Clients |-> "off"]
    /\ writer = [c \in Clients |-> "off"]
    /\ conn = [c \in Clients |-> "none"]
    /\ peer = [c \in Clients |-> TRUE]
    /\ seen = [c \in Clients |-> 0]
    /\ due = [c \in Clients |-> 0]

-----------------------------------------------------------------------------
(* Client.Send and Client.close. *)

\* Mutants: a buffer of one message less, of one message more.
OneLess(c) == Len(send[c]) + 1 < SendBuffer
OneMore(c) == Len(send[c]) =< SendBuffer

\* Send into a channel that is not closed: false, and nothing sent, when it is full.
HasSpace(c) == Len(send[c]) < SendBuffer

Queue(c, n) == send' = [send EXCEPT ![c] = IF HasSpace(c) THEN Append(@, n) ELSE @]

\* Mutants: a removed client that stays in its room, one that is only skipped, one
\* whose channel is not closed.
StaysInRoom(cs) == UNCHANGED rooms /\ open' = [c \in Clients |-> open[c] /\ c \notin cs]
Skipped(cs) == UNCHANGED <<rooms, open>>
LeftOpen(cs) == rooms' = rooms \ cs /\ UNCHANGED open

\* Hub.remove of clients cs: those still in their room leave it and are closed.
Remove(cs) ==
    /\ rooms' = rooms \ cs
    /\ open' = [c \in Clients |-> open[c] /\ c \notin cs \cap rooms]

-----------------------------------------------------------------------------
(* The manager: an update of a poll reaches this server. *)

\* Hub.Broadcast never blocks: it drops the update when the channel is full, and may
\* when the hub has stopped.
Broadcast(u) ==
    \/ /\ Len(broadcast) < BroadcastBuffer
       /\ broadcast' = Append(broadcast, u)
       /\ due' = [c \in Clients |->
             IF c \in Watching(u.poll) /\ handler[c] = "returned" THEN u.tally ELSE due[c]]
    \/ /\ Len(broadcast) = BroadcastBuffer \/ ~running
       /\ UNCHANGED <<broadcast, due>>

Announce(p) ==
    /\ tally[p] < MaxTally
    /\ tally' = [tally EXCEPT ![p] = @ + 1]
    /\ Broadcast([poll |-> p, tally |-> tally[p] + 1])
    /\ UNCHANGED <<cancelled, running, rooms, pending, message, client>>

-----------------------------------------------------------------------------
(* WebSocketHandler.Subscribe. *)

\* The poll and its standing are read before the upgrade.
TakeSnapshot(c) ==
    /\ handler[c] = "idle"
    /\ snapshot' = [snapshot EXCEPT ![c] = tally[Watch[c]]]
    /\ handler' = [handler EXCEPT ![c] = "upgrade"]
    /\ UNCHANGED <<rest, hub, send, open, reader, writer, conn, peer, seen>>

Upgrade(c) ==
    /\ handler[c] = "upgrade"
    /\ \/ /\ handler' = [handler EXCEPT ![c] = "register"]
          /\ conn' = [conn EXCEPT ![c] = "open"]
       \/ /\ handler' = [handler EXCEPT ![c] = "failed"]
          /\ UNCHANGED conn
    /\ UNCHANGED <<rest, hub, snapshot, send, open, reader, writer, peer, seen>>

\* Register meets the hub in its select, or finds that it has stopped.
Register(c) ==
    /\ handler[c] = "register"
    /\ \/ /\ running /\ pending = {}
          /\ rooms' = rooms \cup {c}
          /\ handler' = [handler EXCEPT ![c] = "start"]
          /\ UNCHANGED conn
       \/ /\ ~running
          /\ conn' = [conn EXCEPT ![c] = "closed"]
          /\ handler' = [handler EXCEPT ![c] = "failed"]
          /\ UNCHANGED rooms
    /\ UNCHANGED <<rest, running, broadcast, pending, message>>
    /\ UNCHANGED <<snapshot, send, open, reader, writer, peer, seen>>

Start(c) ==
    /\ handler[c] = "start"
    /\ handler' = [handler EXCEPT ![c] = "send"]
    /\ reader' = [reader EXCEPT ![c] = "reading"]
    /\ writer' = [writer EXCEPT ![c] = "writing"]
    /\ UNCHANGED <<rest, hub, snapshot, send, open, conn, peer, seen>>

\* The snapshot is sent from the handler's goroutine, not from the hub's.  To send
\* on a closed channel is a panic, which the Recovery middleware logs.
SendSnapshot(c) ==
    /\ handler[c] = "send"
    /\ \/ /\ open[c]
          /\ Queue(c, snapshot[c])
          /\ handler' = [handler EXCEPT ![c] = "returned"]
       \/ /\ ~open[c]
          /\ handler' = [handler EXCEPT ![c] = "panicked"]
          /\ UNCHANGED send
    /\ snapshot' = [snapshot EXCEPT ![c] = 0]
    /\ UNCHANGED <<rest, hub, open, reader, writer, conn, peer, seen>>

-----------------------------------------------------------------------------
(* Hub.Run. *)

TakeBroadcast ==
    /\ running /\ pending = {}
    /\ broadcast # <<>>
    /\ broadcast' = Tail(broadcast)
    /\ pending' = rooms \cap Watching(Head(broadcast).poll)
    /\ message' = IF pending' = {} THEN NoMessage ELSE Head(broadcast)
    /\ UNCHANGED <<rest, running, rooms, client>>

\* One turn of the loop over the room: a client with a full buffer is dropped.
Deliver(c) ==
    /\ c \in pending
    /\ pending' = pending \ {c}
    /\ message' = IF pending' = {} THEN NoMessage ELSE message
    /\ \/ /\ HasSpace(c)
          /\ Queue(c, message.tally)
          /\ UNCHANGED <<rooms, open>>
       \/ /\ ~HasSpace(c)
          /\ Remove({c})
          /\ UNCHANGED send
    /\ UNCHANGED <<rest, running, broadcast>>
    /\ UNCHANGED <<handler, snapshot, reader, writer, conn, peer, seen>>

\* ctx.Done: closeAll, and done is closed behind it.
Stop ==
    /\ cancelled /\ running /\ pending = {}
    /\ Remove(rooms)
    /\ running' = FALSE
    /\ UNCHANGED <<rest, broadcast, pending, message>>
    /\ UNCHANGED <<handler, snapshot, send, reader, writer, conn, peer, seen>>

-----------------------------------------------------------------------------
(* The pumps of one client. *)

Dead(c) == conn[c] = "closed" \/ ~peer[c]

\* ReadMessage fails: the connection is closed, no pong came in pongWait, or the browser
\* sent more than maxMessageSize.
ReadFails(c) ==
    /\ reader[c] = "reading"
    /\ Dead(c)
    /\ reader' = [reader EXCEPT ![c] = "unregister"]
    /\ UNCHANGED <<rest, hub, handler, snapshot, send, open, writer, conn, peer, seen>>

\* Unregister meets the hub in its select, or finds that it has stopped.
Unregister(c) ==
    /\ reader[c] = "unregister"
    /\ \/ running /\ pending = {} /\ Remove({c})
       \/ ~running /\ UNCHANGED <<rooms, open>>
    /\ reader' = [reader EXCEPT ![c] = "close"]
    /\ UNCHANGED <<rest, running, broadcast, pending, message>>
    /\ UNCHANGED <<handler, snapshot, send, writer, conn, peer, seen>>

ReaderCloses(c) ==
    /\ reader[c] = "close"
    /\ reader' = [reader EXCEPT ![c] = "done"]
    /\ conn' = [conn EXCEPT ![c] = "closed"]
    /\ UNCHANGED <<rest, hub, handler, snapshot, send, open, writer, peer, seen>>

WriterEnds(c) ==
    /\ writer' = [writer EXCEPT ![c] = "done"]
    /\ conn' = [conn EXCEPT ![c] = "closed"]

\* A payload is written, or lost, or the write fails.
Write(c) ==
    /\ writer[c] = "writing"
    /\ send[c] # <<>>
    /\ send' = [send EXCEPT ![c] = Tail(@)]
    /\ \/ /\ conn[c] = "open"
          /\ seen' = [seen EXCEPT ![c] = Head(send[c])]
          /\ UNCHANGED <<writer, conn>>
       \/ /\ ~peer[c] /\ conn[c] = "open"
          /\ UNCHANGED <<writer, conn, seen>>
       \/ /\ Dead(c)
          /\ WriterEnds(c)
          /\ UNCHANGED seen
    /\ UNCHANGED <<rest, hub, handler, snapshot, open, reader, peer>>

\* The channel is closed and drained: the close frame is the last write.
WriteClose(c) ==
    /\ writer[c] = "writing"
    /\ send[c] = <<>> /\ ~open[c]
    /\ WriterEnds(c)
    /\ UNCHANGED <<rest, hub, handler, snapshot, send, open, reader, peer, seen>>

PingFails(c) ==
    /\ writer[c] = "writing"
    /\ Dead(c)
    /\ WriterEnds(c)
    /\ UNCHANGED <<rest, hub, handler, snapshot, send, open, reader, peer, seen>>

-----------------------------------------------------------------------------

\* The browser closes, its network is gone or slower than the deadlines allow, or it says
\* more than the reader allows; what is written to it now may still arrive.
PeerLeaves(c) ==
    /\ conn[c] = "open" /\ peer[c]
    /\ peer' = [peer EXCEPT ![c] = FALSE]
    /\ UNCHANGED <<rest, hub, handler, snapshot, send, open, reader, writer, conn, seen>>

Cancel ==
    /\ ~cancelled
    /\ cancelled' = TRUE
    /\ UNCHANGED <<tally, due, hub, client>>

Handle(c) == Upgrade(c) \/ Register(c) \/ Start(c) \/ SendSnapshot(c)
Read(c) == ReadFails(c) \/ Unregister(c) \/ ReaderCloses(c)
WritePump(c) == Write(c) \/ WriteClose(c) \/ PingFails(c)
Environment ==
    \/ Cancel
    \/ \E p \in Polls : Announce(p)
    \/ \E c \in Clients : TakeSnapshot(c) \/ PeerLeaves(c)

Next ==
    \/ Environment \/ TakeBroadcast \/ Stop
    \/ \E c \in Clients : Handle(c) \/ Deliver(c) \/ Read(c) \/ WritePump(c)

Spec == Init /\ [][Next]_vars

\* Every goroutine is scheduled.  Go's select takes at random among its ready
\* cases; as a behaviour announces finitely many updates, no case of the hub's
\* select can be passed over for ever, and weak fairness is enough.
FairSpec ==
    /\ Spec
    /\ WF_vars(TakeBroadcast) /\ WF_vars(Stop)
    /\ \A c \in Clients :
        WF_vars(Handle(c)) /\ WF_vars(Deliver(c)) /\ WF_vars(Read(c)) /\ WF_vars(WritePump(c))

-----------------------------------------------------------------------------
(* What the hub promises. *)

Handlers == {"idle", "upgrade", "register", "start", "send", "returned", "failed", "panicked"}

Updates == [poll : Polls, tally : 0 .. MaxTally]

\* No channel holds more than its capacity.
ChannelsOK ==
    /\ broadcast \in Seq(Updates) /\ Len(broadcast) =< BroadcastBuffer
    /\ send \in [Clients -> Seq(0 .. MaxTally)]
    /\ \A c \in Clients : Len(send[c]) =< SendBuffer

StateOK ==
    /\ tally \in [Polls -> 0 .. MaxTally]
    /\ cancelled \in BOOLEAN /\ running \in BOOLEAN
    /\ rooms \subseteq Clients /\ pending \subseteq Clients
    /\ message \in Updates
    /\ handler \in [Clients -> Handlers]
    /\ snapshot \in [Clients -> 0 .. MaxTally]
    /\ open \in [Clients -> BOOLEAN]
    /\ reader \in [Clients -> {"off", "reading", "unregister", "close", "done"}]
    /\ writer \in [Clients -> {"off", "writing", "done"}]
    /\ conn \in [Clients -> {"none", "open", "closed"}]
    /\ peer \in [Clients -> BOOLEAN]
    /\ seen \in [Clients -> 0 .. MaxTally] /\ due \in [Clients -> 0 .. MaxTally]

\* Type invariant.
TypeOK == ChannelsOK /\ StateOK

\* The hub's goroutine never sends on a closed channel, which would be a panic
\* nothing recovers: a client it has still to give a message is in its room, and
\* a client in a room is open (hub.go:83-93, 104-117; client.go:85-86).
HubNeverPanics == pending \subseteq rooms /\ \A c \in rooms : open[c]

\* No viewer pays for another's slowness: only a broadcast of its own poll and its
\* own full buffer cost it its place.  A client is closed by the hub while its browser
\* is there and the server is up only when it has sendBuffer messages unread
\* (hub.go:84-92).
OnlyTheSlowAreDropped ==
    [][\A c \in Clients :
        open[c] /\ ~open'[c] =>
            \/ Len(send[c]) = SendBuffer /\ c \in Watching(message.poll)
            \/ cancelled
            \/ Dead(c)]_vars

\* Nothing is left to come to client c.
Drained(c) ==
    /\ running /\ broadcast = <<>> /\ pending = {}
    /\ handler[c] = "returned" /\ open[c] /\ ~Dead(c) /\ send[c] = <<>>

\* A client that was connected when an update was queued, and still is when all
\* has been written, shows that update or a newer one, whatever updates were
\* dropped before it: the next message repairs (docs/realtime.md:78-79).
NextUpdateRepairs == \A c \in Clients : Drained(c) => seen[c] >= due[c]

\* No trace is left of client c: not in a room, both pumps ended, socket closed.
Gone(c) ==
    /\ c \notin rooms
    /\ reader[c] \in {"off", "done"} /\ writer[c] \in {"off", "done"}
    /\ conn[c] # "open"

\* Every connection whose browser goes away, or whose server shuts down, ends
\* without a trace, at whatever moment of its connecting, of a broadcast or of the
\* hub's own stop that happens: no goroutine waits for another for ever
\* (hub.go:66-69, 130-148; websocket_handler.go:105-109; client.go:97-100).
ConnectionsEnd ==
    \A c \in Clients : conn[c] = "open" /\ (~peer[c] \/ cancelled) ~> Gone(c)

=============================================================================
