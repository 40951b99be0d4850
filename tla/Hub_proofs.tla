----------------------------- MODULE Hub_proofs -----------------------------
(***************************************************************************)
(* Proofs about Hub, for any number of clients and polls and any buffers.  *)
(***************************************************************************)
EXTENDS Hub, SequenceTheorems, TLAPS

\* Whom the hub knows: nobody before Register returns; and why a reader has ended.
Membership ==
    /\ pending \subseteq Watching(message.poll)
    /\ \A c \in Clients :
        /\ handler[c] \in {"idle", "upgrade", "register"} =>
              open[c] /\ c \notin rooms /\ reader[c] = "off"
        /\ reader[c] \in {"unregister", "close", "done"} => Dead(c)

HInv == TypeOK /\ HubNeverPanics /\ Membership

LEMMA InitHub == Init => HInv
  <1>. SUFFICES ASSUME Init PROVE HInv
    OBVIOUS
  <1>1. NoMessage \in Updates
    BY PollsAssumption, BuffersAssumption DEF NoMessage, Updates
  <1>2. StateOK
    <2>1. 0 \in 0 .. MaxTally
      BY BuffersAssumption
    <2>. QED  BY <1>1, <2>1 DEF Init, StateOK, Handlers
  <1>3. ChannelsOK
    BY BuffersAssumption DEF Init, ChannelsOK
  <1>. QED  BY <1>2, <1>3 DEF Init, HInv, HubNeverPanics, Membership, TypeOK

\* Queueing keeps a channel within its capacity.
LEMMA QueueIsTyped ==
  ASSUME ChannelsOK, NEW c \in Clients, NEW n \in 0 .. MaxTally, Queue(c, n)
  PROVE  /\ send' \in [Clients -> Seq(0 .. MaxTally)]
         /\ \A d \in Clients : Len(send'[d]) =< SendBuffer
  <1>1. send[c] \in Seq(0 .. MaxTally)
    BY DEF ChannelsOK
  <1>2. /\ Append(send[c], n) \in Seq(0 .. MaxTally)
        /\ Len(Append(send[c], n)) = Len(send[c]) + 1
    BY <1>1, AppendProperties
  <1>3. Len(send[c]) \in Nat
    BY <1>1, LenProperties
  <1>4. CASE HasSpace(c)
    BY <1>2, <1>3, <1>4, BuffersAssumption DEF Queue, HasSpace, ChannelsOK
  <1>5. CASE ~HasSpace(c)
    BY <1>5 DEF Queue, ChannelsOK
  <1>. QED  BY <1>4, <1>5

\* The channels, which grow only where the code tests their capacity.
LEMMA NextKeepsChannels == TypeOK /\ [Next]_vars => ChannelsOK'
  <1>. SUFFICES ASSUME TypeOK, [Next]_vars PROVE ChannelsOK'
    OBVIOUS
  <1>. USE DEF TypeOK
  <1>1. CASE UNCHANGED <<broadcast, send>>
    BY <1>1 DEF ChannelsOK
  <1>2. ASSUME NEW p \in Polls, Announce(p) PROVE ChannelsOK'
    <2>1. tally[p] + 1 \in 0 .. MaxTally /\ send' = send
      BY <1>2, BuffersAssumption DEF Announce, StateOK, client
    <2>2. [poll |-> p, tally |-> tally[p] + 1] \in Updates
      BY <2>1 DEF Updates
    <2>3. CASE UNCHANGED broadcast
      BY <2>1, <2>3 DEF ChannelsOK
    <2>4. CASE /\ Len(broadcast) < BroadcastBuffer
               /\ broadcast' = Append(broadcast, [poll |-> p, tally |-> tally[p] + 1])
      <3>1. broadcast' \in Seq(Updates) /\ Len(broadcast') = Len(broadcast) + 1
        BY <2>2, <2>4, AppendProperties DEF ChannelsOK
      <3>2. Len(broadcast) \in Nat
        BY LenProperties DEF ChannelsOK
      <3>. QED  BY <2>1, <2>4, <3>1, <3>2, BuffersAssumption DEF ChannelsOK
    <2>. QED  BY <1>2, <2>3, <2>4 DEF Announce, Broadcast
  <1>3. ASSUME NEW c \in Clients, SendSnapshot(c) PROVE ChannelsOK'
    <2>1. snapshot[c] \in 0 .. MaxTally
      BY DEF StateOK
    <2>. QED  BY <1>3, <2>1, QueueIsTyped DEF SendSnapshot, ChannelsOK, hub
  <1>4. ASSUME NEW c \in Clients, Deliver(c) PROVE ChannelsOK'
    <2>1. message.tally \in 0 .. MaxTally
      BY DEF StateOK, Updates
    <2>. QED  BY <1>4, <2>1, QueueIsTyped DEF Deliver, ChannelsOK
  <1>5. CASE TakeBroadcast
    <2>1. Tail(broadcast) \in Seq(Updates) /\ Len(Tail(broadcast)) = Len(broadcast) - 1
      BY <1>5, HeadTailProperties DEF TakeBroadcast, ChannelsOK
    <2>2. Len(broadcast) \in Nat
      BY LenProperties DEF ChannelsOK
    <2>. QED  BY <1>5, <2>1, <2>2, BuffersAssumption DEF TakeBroadcast, ChannelsOK, client
  <1>6. ASSUME NEW c \in Clients, Write(c) PROVE ChannelsOK'
    <2>1. /\ Tail(send[c]) \in Seq(0 .. MaxTally)
          /\ Len(Tail(send[c])) = Len(send[c]) - 1
      BY <1>6, HeadTailProperties DEF Write, ChannelsOK
    <2>2. Len(send[c]) \in Nat
      BY LenProperties DEF ChannelsOK
    <2>. QED  BY <1>6, <2>1, <2>2, BuffersAssumption DEF Write, ChannelsOK, hub
  <1>7. ASSUME NEW c \in Clients,
               \/ TakeSnapshot(c) \/ PeerLeaves(c) \/ Upgrade(c) \/ Register(c) \/ Start(c)
               \/ Read(c) \/ WriteClose(c) \/ PingFails(c)
        PROVE  UNCHANGED <<broadcast, send>>
    BY <1>7
    DEF TakeSnapshot, PeerLeaves, Upgrade, Register, Start, Read, ReadFails, Unregister,
        ReaderCloses, WriteClose, PingFails, hub
  <1>8. CASE Cancel \/ Stop
    BY <1>8 DEF Cancel, Stop, ChannelsOK, hub, client
  <1>. QED
    BY <1>1, <1>2, <1>3, <1>4, <1>5, <1>6, <1>7, <1>8
    DEF Next, Environment, Handle, WritePump, vars, hub, client

LEMMA NextKeepsState == TypeOK /\ [Next]_vars => StateOK'
  <1>. SUFFICES ASSUME TypeOK, [Next]_vars PROVE StateOK'
    OBVIOUS
  <1>. USE DEF TypeOK, StateOK, rest, hub, client
  <1>1. CASE UNCHANGED vars
    BY <1>1 DEF vars
  <1>2. ASSUME NEW p \in Polls, Announce(p) PROVE StateOK'
    <2>1. tally' \in [Polls -> 0 .. MaxTally] /\ tally[p] + 1 \in 0 .. MaxTally
      BY <1>2, BuffersAssumption DEF Announce
    <2>2. due' \in [Clients -> 0 .. MaxTally]
      BY <1>2, <2>1 DEF Announce, Broadcast
    <2>. QED  BY <1>2, <2>1, <2>2 DEF Announce
  <1>3. ASSUME NEW c \in Clients, Upgrade(c) \/ Register(c) \/ Start(c) PROVE StateOK'
    <2>1. rooms' \subseteq Clients /\ UNCHANGED <<rest, running, broadcast, pending, message>>
      BY <1>3 DEF Upgrade, Register, Start
    <2>2. handler' \in [Clients -> Handlers] /\ conn' \in [Clients -> {"none", "open", "closed"}]
      BY <1>3 DEF Upgrade, Register, Start, Handlers
    <2>3. /\ reader' \in [Clients -> {"off", "reading", "unregister", "close", "done"}]
          /\ writer' \in [Clients -> {"off", "writing", "done"}]
          /\ UNCHANGED <<snapshot, open, peer, seen>>
      BY <1>3 DEF Upgrade, Register, Start
    <2>. QED  BY <2>1, <2>2, <2>3
  <1>4. ASSUME NEW c \in Clients, SendSnapshot(c) PROVE StateOK'
    <2>1. handler' \in [Clients -> Handlers]
      BY <1>4 DEF SendSnapshot, Handlers
    <2>2. snapshot' \in [Clients -> 0 .. MaxTally]
      BY <1>4, BuffersAssumption DEF SendSnapshot
    <2>. QED  BY <1>4, <2>1, <2>2 DEF SendSnapshot
  <1>5. ASSUME NEW c \in Clients, TakeSnapshot(c) \/ PeerLeaves(c) PROVE StateOK'
    <2>1. handler' \in [Clients -> Handlers]
      BY <1>5 DEF TakeSnapshot, PeerLeaves, Handlers
    <2>2. snapshot' \in [Clients -> 0 .. MaxTally]
      BY <1>5, WatchAssumption DEF TakeSnapshot, PeerLeaves
    <2>3. peer' \in [Clients -> BOOLEAN]
      BY <1>5 DEF TakeSnapshot, PeerLeaves
    <2>. QED  BY <1>5, <2>1, <2>2, <2>3 DEF TakeSnapshot, PeerLeaves
  <1>6. CASE Cancel \/ Stop
    BY <1>6 DEF Cancel, Stop, Remove
  <1>7. NoMessage \in Updates
    BY PollsAssumption, BuffersAssumption DEF NoMessage, Updates
  <1>8. CASE TakeBroadcast
    <2>1. Head(broadcast) \in Updates
      BY <1>8, HeadTailProperties DEF TakeBroadcast, ChannelsOK
    <2>. QED  BY <1>7, <1>8, <2>1 DEF TakeBroadcast
  <1>9. ASSUME NEW c \in Clients, Deliver(c) PROVE StateOK'
    BY <1>7, <1>9 DEF Deliver, Remove
  <1>10. ASSUME NEW c \in Clients, Read(c) PROVE StateOK'
    BY <1>10 DEF Read, ReadFails, Unregister, ReaderCloses, Remove
  <1>11. ASSUME NEW c \in Clients, Write(c) PROVE StateOK'
    <2>1. Head(send[c]) \in 0 .. MaxTally
      BY <1>11, HeadTailProperties DEF Write, ChannelsOK
    <2>2. seen' \in [Clients -> 0 .. MaxTally]
      BY <1>11, <2>1 DEF Write
    <2>3. writer' \in [Clients -> {"off", "writing", "done"}]
          /\ conn' \in [Clients -> {"none", "open", "closed"}]
      BY <1>11 DEF Write, WriterEnds
    <2>. QED  BY <1>11, <2>2, <2>3 DEF Write
  <1>12. ASSUME NEW c \in Clients, WriteClose(c) \/ PingFails(c) PROVE StateOK'
    BY <1>12 DEF WriteClose, PingFails, WriterEnds
  <1>. QED
    BY <1>1, <1>2, <1>3, <1>4, <1>5, <1>6, <1>8, <1>9, <1>10, <1>11, <1>12
    DEF Next, Environment, Handle, WritePump

LEMMA NextKeepsMembership ==
  HInv /\ [Next]_vars => HubNeverPanics' /\ Membership'
  <1>. SUFFICES ASSUME HInv, [Next]_vars PROVE HubNeverPanics' /\ Membership'
    OBVIOUS
  <1>. USE DEF HInv, TypeOK, StateOK, HubNeverPanics, Membership, Dead, Watching
  <1>1. CASE UNCHANGED <<rooms, open, pending, message, handler, reader, conn, peer>>
    BY <1>1
  <1>2. ASSUME NEW c \in Clients, TakeSnapshot(c) \/ Upgrade(c)
        PROVE  HubNeverPanics' /\ Membership'
    <2>1. UNCHANGED <<rooms, open, pending, message, reader, peer>>
      BY <1>2 DEF TakeSnapshot, Upgrade, hub
    <2>2. ASSUME NEW d \in Clients, handler'[d] \in {"idle", "upgrade", "register"}
          PROVE  handler[d] \in {"idle", "upgrade", "register"}
      BY <1>2, <2>2 DEF TakeSnapshot, Upgrade
    <2>3. ASSUME NEW d \in Clients, reader[d] # "off" PROVE conn'[d] = conn[d]
      BY <1>2, <2>3 DEF TakeSnapshot, Upgrade
    <2>. QED  BY <2>1, <2>2, <2>3
  <1>3. ASSUME NEW c \in Clients, Register(c) PROVE HubNeverPanics' /\ Membership'
    BY <1>3 DEF Register
  <1>4. ASSUME NEW c \in Clients, Start(c) \/ SendSnapshot(c)
        PROVE  HubNeverPanics' /\ Membership'
    BY <1>4 DEF Start, SendSnapshot, hub
  <1>5. ASSUME NEW c \in Clients, PeerLeaves(c) PROVE HubNeverPanics' /\ Membership'
    BY <1>5 DEF PeerLeaves, hub
  <1>6. CASE TakeBroadcast
    <2>1. pending' \subseteq rooms /\ rooms' = rooms /\ open' = open
      BY <1>6 DEF TakeBroadcast, client
    <2>2. pending' \subseteq Watching(message'.poll)
      BY <1>6 DEF TakeBroadcast
    <2>. QED  BY <1>6, <2>1, <2>2 DEF TakeBroadcast, client
  <1>7. ASSUME NEW c \in Clients, Deliver(c) PROVE HubNeverPanics' /\ Membership'
    <2>1. pending' \subseteq rooms' /\ \A d \in rooms' : open'[d]
      BY <1>7 DEF Deliver, Remove
    <2>2. pending' \subseteq Watching(message'.poll)
      BY <1>7 DEF Deliver
    <2>3. \A d \in Clients : handler'[d] \in {"idle", "upgrade", "register"} =>
              open'[d] /\ d \notin rooms' /\ reader'[d] = "off"
      BY <1>7 DEF Deliver, Remove
    <2>. QED  BY <1>7, <2>1, <2>2, <2>3 DEF Deliver
  <1>8. CASE Stop
    BY <1>8 DEF Stop, Remove
  <1>9. ASSUME NEW c \in Clients, ReadFails(c) \/ ReaderCloses(c)
        PROVE  HubNeverPanics' /\ Membership'
    BY <1>9 DEF ReadFails, ReaderCloses, hub
  <1>10. ASSUME NEW c \in Clients, Unregister(c) PROVE HubNeverPanics' /\ Membership'
    BY <1>10 DEF Unregister, Remove
  <1>11. ASSUME NEW c \in Clients, Write(c) PROVE HubNeverPanics' /\ Membership'
    BY <1>11 DEF Write, WriterEnds, hub
  <1>12. ASSUME NEW c \in Clients, WriteClose(c) \/ PingFails(c)
         PROVE  HubNeverPanics' /\ Membership'
    BY <1>12 DEF WriteClose, PingFails, WriterEnds, hub
  <1>13. ASSUME NEW p \in Polls, Announce(p)
         PROVE  UNCHANGED <<rooms, open, pending, message, handler, reader, conn, peer>>
    BY <1>13 DEF Announce, client
  <1>14. CASE Cancel
    BY <1>1, <1>14 DEF Cancel, hub, client
  <1>. QED
    BY <1>1, <1>2, <1>3, <1>4, <1>5, <1>6, <1>7, <1>8, <1>9, <1>10, <1>11, <1>12, <1>13, <1>14
    DEF Next, Environment, Handle, Read, WritePump, vars, hub, client

LEMMA HubInductive == Spec => []HInv
  <1>1. HInv /\ [Next]_vars => HInv'
    BY NextKeepsChannels, NextKeepsState, NextKeepsMembership DEF HInv, TypeOK
  <1>. QED  BY InitHub, <1>1, PTL DEF Spec

\* Every variable keeps its type, every channel its capacity.
THEOREM HubTypeCorrect == Spec => []TypeOK
  <1>1. HInv => TypeOK
    BY DEF HInv
  <1>. QED  BY <1>1, HubInductive, PTL

\* The hub's goroutine, which nothing would recover, never sends on a closed channel.
THEOREM HubIsSafe == Spec => []HubNeverPanics
  <1>1. HInv => HubNeverPanics
    BY DEF HInv
  <1>. QED  BY <1>1, HubInductive, PTL

\* A viewer whose browser is there loses its place only to a full buffer, while a
\* broadcast of its own poll is fanned out, or to the shutdown.
THEOREM OnlyTheSlow == Spec => OnlyTheSlowAreDropped
  <1>1. ASSUME HInv, [Next]_vars, NEW c \in Clients, open[c], ~open'[c]
        PROVE  \/ Len(send[c]) = SendBuffer /\ c \in Watching(message.poll)
               \/ cancelled
               \/ Dead(c)
    <2>. USE <1>1 DEF HInv, TypeOK, StateOK, ChannelsOK, Membership
    <2>1. ASSUME NEW d \in Clients, Deliver(d)
          PROVE  Len(send[c]) = SendBuffer /\ c \in Watching(message.poll)
      <3>1. ~HasSpace(d) /\ c = d
        BY <2>1 DEF Deliver, Remove
      <3>2. Len(send[c]) \in Nat
        BY LenProperties
      <3>. QED  BY <2>1, <3>1, <3>2, BuffersAssumption DEF Deliver, HasSpace
    <2>2. ASSUME NEW d \in Clients, Unregister(d) PROVE Dead(c)
      BY <2>2 DEF Unregister, Remove
    <2>3. CASE Stop
      BY <2>3 DEF Stop
    <2>4. Stop \/ \E d \in Clients : Deliver(d) \/ Unregister(d)
      BY DEF Next, Environment, Handle, Read, WritePump, Cancel, Announce, TakeSnapshot,
             PeerLeaves, TakeBroadcast, Upgrade, Register, Start, SendSnapshot, ReadFails,
             ReaderCloses, Write, WriteClose, PingFails, vars, client
    <2>. QED  BY <2>1, <2>2, <2>3, <2>4
  <1>2. HInv /\ [Next]_vars =>
          [\A c \in Clients :
              open[c] /\ ~open'[c] =>
                  \/ Len(send[c]) = SendBuffer /\ c \in Watching(message.poll)
                  \/ cancelled
                  \/ Dead(c)]_vars
    BY <1>1
  <1>. QED  BY <1>2, HubInductive, PTL DEF Spec, OnlyTheSlowAreDropped

-----------------------------------------------------------------------------
(* The next message repairs. *)

\* Client c is one that an update can still reach.
Attached(c) == handler[c] = "returned" /\ running /\ open[c] /\ ~Dead(c)

\* Registered is in the room: only its own end or the hub's takes a client out of it.
AtHome(c) == handler[c] \in {"start", "send", "returned"} /\ running /\ open[c] => c \in rooms

\* The i-th update in the hub's channel is the last one there for client c.
LastFor(c, i) ==
    /\ broadcast[i].poll = Watch[c]
    /\ \A j \in i + 1 .. Len(broadcast) : broadcast[j].poll # Watch[c]

NoneFor(c) == \A i \in 1 .. Len(broadcast) : broadcast[i].poll # Watch[c]

\* Standing n is the last thing the browser of c has received or will, by what the hub
\* holds in hand and what is queued for c.
EndsWith(c, n) ==
    IF c \in pending THEN message.tally = n
    ELSE IF send[c] # <<>> THEN send[c][Len(send[c])] = n
    ELSE seen[c] = n

\* Of all that is on its way to c the standing due comes last.
DueComesLast(c) ==
    /\ handler[c] # "returned" => due[c] = 0
    /\ Attached(c) /\ due[c] # 0 =>
          /\ \A i \in 1 .. Len(broadcast) : LastFor(c, i) => broadcast[i].tally = due[c]
          /\ NoneFor(c) => EndsWith(c, due[c])

RInv == HInv /\ \A c \in Clients : AtHome(c) /\ DueComesLast(c)

\* A channel whose first element is taken ...
LEMMA TakeFirst ==
  ASSUME NEW S, NEW q \in Seq(S), q # <<>>
  PROVE  /\ Len(q) \in Nat /\ Len(q) >= 1
         /\ Head(q) = q[1] /\ Head(q) \in S
         /\ Tail(q) \in Seq(S) /\ Len(Tail(q)) = Len(q) - 1
         /\ \A i \in 1 .. Len(Tail(q)) : Tail(q)[i] = q[i + 1]
  <1>1. /\ Head(q) = q[1] /\ Head(q) \in S /\ Tail(q) \in Seq(S)
        /\ Len(Tail(q)) = Len(q) - 1
        /\ \A i \in 1 .. Len(Tail(q)) : Tail(q)[i] = q[i + 1]
    BY HeadTailProperties
  <1>. QED  BY <1>1, LenProperties, EmptySeq

\* ... and one that is sent to.
LEMMA PutLast ==
  ASSUME NEW S, NEW q \in Seq(S), NEW e \in S
  PROVE  /\ Len(q) \in Nat
         /\ Append(q, e) \in Seq(S) /\ Append(q, e) # <<>>
         /\ Len(Append(q, e)) = Len(q) + 1
         /\ \A i \in 1 .. Len(q) : Append(q, e)[i] = q[i]
         /\ Append(q, e)[Len(q) + 1] = e
  BY AppendProperties, LenProperties

\* The last element stays the last when the first is taken; it is the first of one.
LEMMA LastStays ==
  ASSUME NEW S, NEW q \in Seq(S), q # <<>>
  PROVE  IF Tail(q) = <<>> THEN Head(q) = q[Len(q)] ELSE Tail(q)[Len(Tail(q))] = q[Len(q)]
  <1>. DEFINE n == Len(q)
              r == Tail(q)
  <1>1. /\ n \in Nat /\ n >= 1 /\ Head(q) = q[1]
        /\ r \in Seq(S) /\ Len(r) = n - 1
        /\ \A i \in 1 .. Len(r) : r[i] = q[i + 1]
    BY TakeFirst
  <1>3. r # <<>> => Len(r) # 0
    BY <1>1, EmptySeq
  <1>. HIDE DEF n, r
  <1>2. r = <<>> => Len(r) = 0
    BY EmptySeq
  <1>4. CASE r = <<>>
    <2>1. n = 1
      BY <1>1, <1>2, <1>4
    <2>. QED  BY <1>1, <1>4, <2>1 DEF n, r
  <1>5. CASE r # <<>>
    <2>1. Len(r) \in 1 .. Len(r) /\ Len(r) + 1 = n
      BY <1>1, <1>3, <1>5
    <2>. QED  BY <1>1, <1>5, <2>1 DEF n, r
  <1>. QED  BY <1>4, <1>5 DEF n, r

\* Nobody leaves its room and stays open under a hub that runs.
LEMMA NextKeepsHome ==
  ASSUME HInv, [Next]_vars, NEW c \in Clients, AtHome(c)
  PROVE  AtHome(c)'
  <1>. USE DEF HInv, TypeOK, StateOK, AtHome
  <1>1. ASSUME NEW d \in Clients, TakeSnapshot(d) \/ Upgrade(d) \/ Start(d) \/ SendSnapshot(d)
        PROVE  AtHome(c)'
    <2>1. UNCHANGED <<rooms, running, open>>
      BY <1>1 DEF TakeSnapshot, Upgrade, Start, SendSnapshot, hub
    <2>2. handler'[c] \in {"start", "send", "returned"} =>
              handler[c] \in {"start", "send", "returned"}
      BY <1>1 DEF TakeSnapshot, Upgrade, Start, SendSnapshot
    <2>. QED  BY <2>1, <2>2
  <1>7. ASSUME NEW d \in Clients, Register(d) PROVE AtHome(c)'
    BY <1>7 DEF Register
  <1>2. ASSUME NEW d \in Clients, Deliver(d) \/ Unregister(d) PROVE AtHome(c)'
    BY <1>2 DEF Deliver, Unregister, Remove
  <1>3. CASE Stop
    BY <1>3 DEF Stop
  <1>4. CASE UNCHANGED <<handler, running, open, rooms>>
    BY <1>4
  <1>5. ASSUME NEW d \in Clients,
               ReadFails(d) \/ ReaderCloses(d) \/ WritePump(d) \/ PeerLeaves(d)
        PROVE  UNCHANGED <<handler, running, open, rooms>>
    BY <1>5
    DEF ReadFails, ReaderCloses, WritePump, Write, WriteClose, PingFails, PeerLeaves, hub
  <1>6. CASE TakeBroadcast \/ Cancel \/ (\E p \in Polls : Announce(p)) \/ UNCHANGED vars
    BY <1>4, <1>6 DEF TakeBroadcast, Cancel, Announce, vars, hub, client
  <1>. QED  BY <1>1, <1>2, <1>3, <1>5, <1>4, <1>6, <1>7 DEF Next, Environment, Handle, Read

\* A step that moves nothing towards c.
LEMMA NothingMoves ==
  ASSUME NEW c \in Clients, DueComesLast(c), UNCHANGED <<broadcast, due>>,
         send'[c] = send[c], seen'[c] = seen[c],
         c \in pending' <=> c \in pending, c \in pending => message' = message,
         Attached(c)' => Attached(c), handler[c] = "returned" => handler'[c] = "returned"
  PROVE  DueComesLast(c)'
  BY DEF DueComesLast, LastFor, NoneFor, EndsWith

\* The writer takes the first of what is queued.
LEMMA WritingKeepsTheLast ==
  ASSUME HInv, NEW c \in Clients, DueComesLast(c), Write(c)
  PROVE  DueComesLast(c)'
  <1>. DEFINE n == Head(send[c])
  <1>1. /\ send[c] \in Seq(0 .. MaxTally) /\ send[c] # <<>>
        /\ send'[c] = Tail(send[c])
        /\ seen'[c] \in {seen[c], n}
        /\ Attached(c)' => Attached(c) /\ seen'[c] = n
        /\ UNCHANGED <<broadcast, pending, message, due, handler>>
    BY DEF HInv, TypeOK, ChannelsOK, StateOK, Write, WriterEnds, Attached, Dead, rest, hub
  <1>2. IF Tail(send[c]) = <<>> THEN n = send[c][Len(send[c])]
        ELSE Tail(send[c])[Len(Tail(send[c]))] = send[c][Len(send[c])]
    BY <1>1, LastStays
  <1>. HIDE DEF n
  <1>. QED  BY <1>1, <1>2 DEF DueComesLast, LastFor, NoneFor, EndsWith

\* The hub queues what it has in hand for c behind all the rest.
LEMMA DeliveryKeepsTheLast ==
  ASSUME HInv, NEW c \in Clients, DueComesLast(c), Deliver(c)
  PROVE  DueComesLast(c)'
  <1>1. /\ c \in pending /\ c \in rooms /\ c \notin pending'
        /\ send[c] \in Seq(0 .. MaxTally) /\ message.tally \in 0 .. MaxTally
        /\ UNCHANGED <<broadcast, due, handler, seen, running, conn, peer>>
    BY DEF HInv, TypeOK, ChannelsOK, StateOK, Updates, HubNeverPanics, Deliver, rest
  <1>2. CASE HasSpace(c) /\ open' = open
    <2>1. send'[c] = Append(send[c], message.tally)
      BY <1>2 DEF Deliver, Queue, HInv, TypeOK, ChannelsOK
    <2>2. send'[c] # <<>> /\ send'[c][Len(send'[c])] = message.tally
      BY <1>1, <2>1, PutLast
    <2>. QED
      BY <1>1, <1>2, <2>2 DEF DueComesLast, LastFor, NoneFor, EndsWith, Attached, Dead
  <1>3. CASE ~HasSpace(c) /\ Remove({c})
    BY <1>1, <1>3 DEF DueComesLast, Remove, Attached
  <1>. QED  BY <1>2, <1>3 DEF Deliver

\* The hub takes an update: for c, or for others.
LEMMA TakingKeepsTheLast ==
  ASSUME HInv, NEW c \in Clients, AtHome(c), DueComesLast(c), TakeBroadcast
  PROVE  DueComesLast(c)'
  <1>. DEFINE h == Head(broadcast)
  <1>1. /\ pending = {} /\ broadcast # <<>> /\ broadcast \in Seq(Updates)
        /\ broadcast' = Tail(broadcast)
        /\ pending' = rooms \cap Watching(h.poll)
        /\ message' = IF pending' = {} THEN NoMessage ELSE h
        /\ UNCHANGED <<due, handler, running, open, conn, peer, send, seen>>
    BY DEF TakeBroadcast, HInv, TypeOK, ChannelsOK, rest, client
  <1>2. /\ Len(broadcast) \in Nat /\ Len(broadcast) >= 1 /\ h = broadcast[1]
        /\ Len(broadcast') = Len(broadcast) - 1
        /\ \A i \in 1 .. Len(broadcast') : broadcast'[i] = broadcast[i + 1]
    BY <1>1, TakeFirst
  <1>. HIDE DEF h
  <1>. SUFFICES ASSUME Attached(c), due[c] # 0
                PROVE  /\ \A i \in 1 .. Len(broadcast') :
                              LastFor(c, i)' => broadcast'[i].tally = due[c]
                       /\ NoneFor(c)' => EndsWith(c, due[c])'
    BY <1>1 DEF DueComesLast, Attached, Dead
  <1>3. ASSUME NEW i \in 1 .. Len(broadcast'), LastFor(c, i)'
        PROVE  broadcast'[i].tally = due[c]
    <2>1. i + 1 \in 1 .. Len(broadcast) /\ broadcast'[i] = broadcast[i + 1]
      BY <1>2
    <2>2. ASSUME NEW j \in (i + 1) + 1 .. Len(broadcast) PROVE broadcast[j].poll # Watch[c]
      <3>1. j - 1 \in i + 1 .. Len(broadcast') /\ j - 1 \in 1 .. Len(broadcast')
            /\ (j - 1) + 1 = j
        BY <1>2, <2>2
      <3>2. broadcast'[j - 1] = broadcast[j]
        BY <1>2, <3>1
      <3>. QED  BY <1>3, <3>1, <3>2 DEF LastFor
    <2>3. LastFor(c, i + 1)
      BY <1>3, <2>1, <2>2 DEF LastFor
    <2>. QED  BY <2>1, <2>3 DEF DueComesLast
  <1>4. ASSUME NoneFor(c)' PROVE EndsWith(c, due[c])'
    <2>1. ASSUME NEW j \in 2 .. Len(broadcast) PROVE broadcast[j].poll # Watch[c]
      <3>1. j - 1 \in 1 .. Len(broadcast') /\ (j - 1) + 1 = j
        BY <1>2, <2>1
      <3>. QED  BY <1>2, <1>4, <3>1 DEF NoneFor
    <2>2. CASE h.poll = Watch[c]
      <3>1. 1 \in 1 .. Len(broadcast) /\ 1 + 1 = 2
        BY <1>2
      <3>2. LastFor(c, 1)
        BY <1>2, <2>1, <2>2, <3>1 DEF LastFor
      <3>3. h.tally = due[c]
        BY <1>2, <3>1, <3>2 DEF DueComesLast
      <3>4. c \in pending' /\ message' = h
        BY <1>1, <2>2 DEF AtHome, Attached, Watching
      <3>. QED  BY <1>1, <3>3, <3>4 DEF EndsWith
    <2>3. CASE h.poll # Watch[c]
      <3>1. NoneFor(c)
        <4>1. ASSUME NEW j \in 1 .. Len(broadcast) PROVE j = 1 \/ j \in 2 .. Len(broadcast)
          BY <1>2, <4>1
        <4>. QED  BY <1>2, <2>1, <2>3, <4>1 DEF NoneFor
      <3>2. c \notin pending /\ c \notin pending'
        BY <1>1, <2>3 DEF Watching
      <3>. QED  BY <1>1, <3>1, <3>2 DEF DueComesLast, EndsWith
    <2>. QED  BY <2>2, <2>3
  <1>. QED  BY <1>3, <1>4

\* An update is sent to the hub: it is due to every viewer of its poll, or it is lost.
LEMMA SendingKeepsTheLast ==
  ASSUME HInv, NEW c \in Clients, DueComesLast(c), NEW u \in Updates, Broadcast(u),
         UNCHANGED <<running, pending, message, client>>
  PROVE  DueComesLast(c)'
  <1>0. UNCHANGED <<handler, open, conn, peer, send, seen>>
    BY DEF client
  <1>1. CASE UNCHANGED <<broadcast, due>>
    BY <1>0, <1>1, NothingMoves DEF Attached, Dead
  <1>2. CASE /\ broadcast' = Append(broadcast, u)
             /\ due' = [d \in Clients |->
                  IF d \in Watching(u.poll) /\ handler[d] = "returned" THEN u.tally ELSE due[d]]
    <2>1. /\ Len(broadcast) \in Nat
          /\ Len(broadcast') = Len(broadcast) + 1
          /\ \A i \in 1 .. Len(broadcast) : broadcast'[i] = broadcast[i]
          /\ broadcast'[Len(broadcast) + 1] = u
      BY <1>2, PutLast DEF HInv, TypeOK, ChannelsOK
    <2>2. due'[c] = IF u.poll = Watch[c] /\ handler[c] = "returned" THEN u.tally ELSE due[c]
      BY <1>2 DEF Watching
    <2>3. handler'[c] # "returned" => due'[c] = 0
      BY <1>0, <2>2 DEF DueComesLast
    <2>. SUFFICES ASSUME Attached(c), due'[c] # 0
                  PROVE  /\ \A i \in 1 .. Len(broadcast') :
                                LastFor(c, i)' => broadcast'[i].tally = due'[c]
                         /\ NoneFor(c)' => EndsWith(c, due[c])'
      BY <1>0, <2>3 DEF DueComesLast, Attached, Dead
    <2>4. CASE u.poll = Watch[c]
      <3>1. due'[c] = u.tally
        BY <2>2, <2>4 DEF Attached
      <3>2. ~NoneFor(c)'
        BY <2>1, <2>4 DEF NoneFor
      <3>3. ASSUME NEW i \in 1 .. Len(broadcast'), LastFor(c, i)'
            PROVE  i = Len(broadcast) + 1
        <4>1. i # Len(broadcast) + 1 => Len(broadcast) + 1 \in i + 1 .. Len(broadcast')
          BY <2>1
        <4>. QED  BY <2>1, <2>4, <3>3, <4>1 DEF LastFor
      <3>. QED  BY <2>1, <3>1, <3>2, <3>3
    <2>5. CASE u.poll # Watch[c]
      <3>1. due'[c] = due[c]
        BY <2>2, <2>5
      <3>2. ASSUME NEW i \in 1 .. Len(broadcast'), LastFor(c, i)'
            PROVE  broadcast'[i].tally = due[c]
        <4>1. i \in 1 .. Len(broadcast)
          BY <2>1, <2>5, <3>2 DEF LastFor
        <4>2. ASSUME NEW j \in i + 1 .. Len(broadcast) PROVE broadcast[j].poll # Watch[c]
          <5>1. j \in 1 .. Len(broadcast) /\ j \in i + 1 .. Len(broadcast')
            BY <2>1, <4>1, <4>2
          <5>. QED  BY <2>1, <3>2, <5>1 DEF LastFor
        <4>3. LastFor(c, i)
          BY <2>1, <3>2, <4>1, <4>2 DEF LastFor
        <4>. QED  BY <2>1, <3>1, <4>1, <4>3 DEF DueComesLast
      <3>3. NoneFor(c)' => NoneFor(c)
        <4>1. \A i \in 1 .. Len(broadcast) : i \in 1 .. Len(broadcast')
          BY <2>1
        <4>. QED  BY <2>1, <4>1 DEF NoneFor
      <3>4. NoneFor(c)' => EndsWith(c, due[c])'
        BY <1>0, <3>1, <3>3 DEF DueComesLast, EndsWith
      <3>. QED  BY <3>1, <3>2, <3>4
    <2>. QED  BY <2>4, <2>5
  <1>. QED  BY <1>1, <1>2 DEF Broadcast

LEMMA NextKeepsTheLast ==
  ASSUME RInv, [Next]_vars, NEW c \in Clients
  PROVE  DueComesLast(c)'
  <1>0. HInv /\ AtHome(c) /\ DueComesLast(c)
    BY DEF RInv
  <1>. USE <1>0 DEF HInv, TypeOK, StateOK, ChannelsOK
  <1>1. CASE Cancel \/ Stop \/ UNCHANGED vars
    <2>1. UNCHANGED <<broadcast, pending, message, due, handler, send, seen, conn, peer>>
          /\ (open'[c] => open[c]) /\ (running' => running)
      BY <1>1 DEF Cancel, Stop, Remove, vars, rest, hub, client
    <2>. QED  BY <1>0, <2>1, NothingMoves DEF Attached, Dead
  <1>2. ASSUME NEW d \in Clients, TakeSnapshot(d) \/ Upgrade(d) \/ Register(d) \/ Start(d)
        PROVE  DueComesLast(c)'
    <2>1. UNCHANGED <<broadcast, running, pending, message, due, send, seen, open, peer>>
          /\ (handler[c] = "returned" <=> handler'[c] = "returned")
          /\ (handler[c] = "returned" => conn'[c] = conn[c])
      BY <1>2 DEF TakeSnapshot, Upgrade, Register, Start, rest, hub
    <2>. QED  BY <1>0, <2>1, NothingMoves DEF Attached, Dead
  <1>3. ASSUME NEW d \in Clients, Read(d) \/ WriteClose(d) \/ PingFails(d) \/ PeerLeaves(d)
        PROVE  DueComesLast(c)'
    <2>1. UNCHANGED <<broadcast, running, pending, message, due, handler, send, seen>>
          /\ (open'[c] => open[c])
      BY <1>3
      DEF Read, ReadFails, Unregister, Remove, ReaderCloses, WriteClose, PingFails,
          WriterEnds, PeerLeaves, rest, hub
    <2>2. Dead(c) => Dead(c)'
      BY <1>3
      DEF Read, ReadFails, Unregister, ReaderCloses, WriteClose, PingFails,
          WriterEnds, PeerLeaves, Dead
    <2>. QED  BY <1>0, <2>1, <2>2, NothingMoves DEF Attached
  <1>4. ASSUME NEW d \in Clients, SendSnapshot(d) PROVE DueComesLast(c)'
    <2>1. UNCHANGED <<broadcast, running, pending, message, due, seen, open, conn, peer>>
      BY <1>4 DEF SendSnapshot, rest, hub
    <2>2. CASE d = c
      <3>1. due'[c] = 0
        BY <1>0, <1>4, <2>1, <2>2 DEF SendSnapshot, DueComesLast
      <3>. QED  BY <3>1 DEF DueComesLast
    <2>3. CASE d # c
      <3>1. send'[c] = send[c] /\ handler'[c] = handler[c]
        BY <1>4, <2>3 DEF SendSnapshot, Queue
      <3>. QED  BY <1>0, <2>1, <3>1, NothingMoves DEF Attached, Dead
    <2>. QED  BY <2>2, <2>3
  <1>5. ASSUME NEW d \in Clients, Write(d) PROVE DueComesLast(c)'
    <2>1. CASE d # c
      <3>1. /\ UNCHANGED <<broadcast, running, pending, message, due, handler, open, peer>>
            /\ send'[c] = send[c] /\ seen'[c] = seen[c] /\ conn'[c] = conn[c]
        BY <1>5, <2>1 DEF Write, WriterEnds, rest, hub
      <3>. QED  BY <1>0, <3>1, NothingMoves DEF Attached, Dead
    <2>. QED  BY <1>0, <1>5, <2>1, WritingKeepsTheLast
  <1>6. ASSUME NEW d \in Clients, Deliver(d) PROVE DueComesLast(c)'
    <2>1. CASE d # c
      <3>1. /\ UNCHANGED <<broadcast, running, due, handler, conn, peer, seen>>
            /\ send'[c] = send[c] /\ open'[c] = open[c]
            /\ (c \in pending' <=> c \in pending) /\ (c \in pending => message' = message)
        BY <1>6, <2>1 DEF Deliver, Queue, Remove, rest
      <3>. QED  BY <1>0, <3>1, NothingMoves DEF Attached, Dead
    <2>. QED  BY <1>0, <1>6, <2>1, DeliveryKeepsTheLast
  <1>7. ASSUME NEW p \in Polls, Announce(p) PROVE DueComesLast(c)'
    <2>1. [poll |-> p, tally |-> tally[p] + 1] \in Updates
      BY <1>7, BuffersAssumption DEF Announce, Updates
    <2>. QED  BY <1>0, <1>7, <2>1, SendingKeepsTheLast DEF Announce
  <1>8. CASE TakeBroadcast
    BY <1>0, <1>8, TakingKeepsTheLast
  <1>. QED
    BY <1>1, <1>2, <1>3, <1>4, <1>5, <1>6, <1>7, <1>8 DEF Next, Environment, Handle, WritePump

\* A viewer that was connected when an update was queued for it, and still is when all
\* has been written, shows it or a newer one, whatever was dropped before it
\* (docs/realtime.md:78-79).
THEOREM TheNextUpdateRepairs == Spec => []NextUpdateRepairs
  <1>1. Init => RInv
    <2>. SUFFICES ASSUME Init PROVE RInv
      OBVIOUS
    <2>1. \A c \in Clients : AtHome(c) /\ DueComesLast(c)
      BY DEF Init, AtHome, DueComesLast
    <2>. QED  BY <2>1, InitHub DEF RInv
  <1>2. RInv /\ [Next]_vars => RInv'
    <2>. SUFFICES ASSUME RInv, [Next]_vars PROVE RInv'
      OBVIOUS
    <2>1. HInv'
      BY NextKeepsChannels, NextKeepsState, NextKeepsMembership DEF RInv, HInv, TypeOK
    <2>. QED  BY <2>1, NextKeepsHome, NextKeepsTheLast DEF RInv
  <1>3. RInv => NextUpdateRepairs
    <2>. SUFFICES ASSUME RInv, NEW c \in Clients, Drained(c) PROVE seen[c] >= due[c]
      BY DEF NextUpdateRepairs
    <2>1. seen[c] \in 0 .. MaxTally /\ due[c] \in 0 .. MaxTally
      BY DEF RInv, HInv, TypeOK, StateOK
    <2>2. Attached(c) /\ c \notin pending /\ send[c] = <<>> /\ DueComesLast(c)
      BY DEF Drained, Attached, RInv
    <2>3. NoneFor(c)
      BY EmptySeq DEF Drained, NoneFor
    <2>4. due[c] # 0 => seen[c] = due[c]
      BY <2>2, <2>3 DEF DueComesLast, EndsWith
    <2>. QED  BY <2>1, <2>4, BuffersAssumption
  <1>. QED  BY <1>1, <1>2, <1>3, PTL DEF Spec

=============================================================================
