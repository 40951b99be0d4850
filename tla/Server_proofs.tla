---------------------------- MODULE Server_proofs ----------------------------
(***************************************************************************)
(* Proofs about Server, for any number of viewers, polls and updates and   *)
(* any buffers.  What Hub_proofs says of the hub's steps is used here: of  *)
(* all the steps of a server only Publish and Rebroadcast are not also     *)
(* steps of Hub, whose Announce they replace.  Three invariants, each      *)
(* resting on the one before: SInv, what every place holds; OInv, the      *)
(* order of the updates up to the hub; EInv, what has become of those that *)
(* are gone.                                                               *)
(***************************************************************************)
EXTENDS Server, Hub_proofs

ProcessOK ==
    /\ main \in {"mongo", "indexes", "redis", "subscribe", "confirm", "serve", "drain", "exited"}
    /\ stores \subseteq {"mongo", "redis"}
    /\ indexed \in BOOLEAN /\ failed \in BOOLEAN /\ busy \in BOOLEAN

\* What run has done before the step it is at; a request begins behind all of it, and
\* is left behind by an error only.
Started ==
    /\ main \in {"indexes", "redis", "subscribe", "confirm", "serve", "drain"} => "mongo" \in stores
    /\ main \in {"redis", "subscribe", "confirm", "serve", "drain"} => indexed
    /\ main \in {"subscribe", "confirm", "serve", "drain"} => "redis" \in stores
    /\ main \in {"serve", "drain"} => subscriber # "off"
    /\ busy => main \in {"serve", "drain"} \/ failed

\* The updates that have come, and the messages that are taken for one.
Genuine == {u \in Updates : u.tally =< tally[u.poll]}
Passable == {m \in Messages : Recognised(m) => m.tally =< tally[m.poll]}

Pipeline ==
    /\ out \in Seq(Passable)
    /\ inHand \in Seq(Genuine) /\ decoded \in Seq(Genuine)

ToTheScreen ==
    /\ broadcast \in Seq(Genuine) /\ message \in Genuine
    /\ \A c \in Clients :
        /\ snapshot[c] =< tally[Watch[c]] /\ seen[c] =< tally[Watch[c]]
        /\ send[c] \in Seq(0 .. tally[Watch[c]])

SInv == HInv /\ PipelineOK /\ ProcessOK /\ Started /\ Pipeline /\ ToTheScreen

-----------------------------------------------------------------------------
(* Which steps are whose. *)

\* The steps of run and of its requests: of the rest they may change that it subscribes.
RunStep ==
    \/ Run \/ Confirm \/ ServeFails \/ BeginRequest \/ EndRequest

LEMMA RunTouchesNothingElse ==
  RunStep => UNCHANGED fvars \/ Subscribe
  BY DEF RunStep, Run, ConnectMongo, ConnectRedis, ConnectStore, EnsureIndexes, StartFanout,
         Confirm, ServeFails, BeginRequest, EndRequest, BeginShutdown, EndShutdown

\* The steps of the hub's side that history has nothing to say of.
Unremarkable ==
    \/ Stop \/ Cancel \/ UNCHANGED vars
    \/ \E c \in Clients : Handle(c) \/ Read(c) \/ WritePump(c) \/ PeerLeaves(c)

\* A step of the hub's side: one of Hub's, and what the history makes of it.  Before the
\* fan-out there is nothing for the hub to do.
HubsOwn ==
    /\ [Next]_vars
    /\ UNCHANGED <<tally, strays, pipeline, missed>>
    /\ \/ Unremarkable /\ UNCHANGED <<overtaken, began>>
       \/ HubTakes
       \/ \E c \in Clients : ReadSnapshot(c) \/ HubDelivers(c)
    /\ subscriber # "off" \/ UNCHANGED <<hub, handler>>

\* Of run and its requests only the one that becomes a viewer may end.
Onlookers ==
    /\ UNCHANGED <<main, stores, indexed, failed>>
    /\ UNCHANGED busy \/ busy' = FALSE

LEMMA StepsOfTheServer ==
  ASSUME Started, [SNext]_svars
  PROVE  \/ RunStep
         \/ /\ Onlookers
            /\ \/ HubsOwn
               \/ Pumps
               \/ \E p \in Polls : Publish(p)
               \/ \E m \in Messages : Stray(m)
  <1>0. UNCHANGED process => Onlookers
    BY DEF process, Onlookers
  <1>1. ASSUME NEW c \in Clients, Connect(c) PROVE Onlookers /\ HubsOwn
    <2>1. TakeSnapshot(c) /\ subscriber # "off"
      BY <1>1 DEF Connect, HubSide, ReadSnapshot, Started
    <2>2. Onlookers
      BY <1>1 DEF Connect, Onlookers
    <2>. QED
      BY <1>1, <2>1, <2>2 DEF Connect, HubSide, HubsOwn, TakeSnapshot, rest, Next, Environment
  <1>2. ASSUME UNCHANGED process, HubSide(HubGoroutines), subscriber # "off" PROVE HubsOwn
    <2>1. CASE HubSide(HubTakes)
      BY <1>2, <2>1 DEF HubSide, HubsOwn, HubTakes, TakeBroadcast, rest, Next
    <2>2. ASSUME NEW c \in Clients, HubSide(HubDelivers(c)) PROVE HubsOwn
      BY <1>2, <2>2 DEF HubSide, HubsOwn, HubDelivers, Deliver, rest, Next
    <2>3. CASE HubSide(OtherGoroutine(Stop))
      BY <1>2, <2>3 DEF HubSide, OtherGoroutine, HubsOwn, Unremarkable, Stop, rest, Next
    <2>4. ASSUME NEW c \in Clients, HubSide(OtherGoroutine(Handle(c) \/ Read(c) \/ WritePump(c)))
          PROVE  HubsOwn
      <3>1. Handle(c) \/ Read(c) \/ WritePump(c)
        BY <2>4 DEF HubSide, OtherGoroutine
      <3>2. UNCHANGED tally
        BY <3>1
        DEF Handle, Read, WritePump, Upgrade, Register, Start, SendSnapshot, ReadFails,
            Unregister, ReaderCloses, Write, WriteClose, PingFails, rest
      <3>. QED
        BY <1>2, <2>4, <3>1, <3>2 DEF HubSide, OtherGoroutine, HubsOwn, Unremarkable, Next
    <2>. QED  BY <1>2, <2>1, <2>2, <2>3, <2>4 DEF HubSide, HubGoroutines
  <1>3. CASE Elsewhere
    <2>1. ASSUME Cancel \/ \E c \in Clients : PeerLeaves(c),
                 UNCHANGED <<strays, pipeline, history>>
          PROVE  HubsOwn
      <3>1. UNCHANGED <<tally, hub, handler>>
        BY <2>1 DEF Cancel, PeerLeaves, rest, client
      <3>. QED
        BY <2>1, <3>1 DEF HubsOwn, Unremarkable, history, Next, Environment
    <2>. QED  BY <1>0, <1>3, <2>1 DEF Elsewhere
  <1>4. CASE Goroutines
    BY <1>0, <1>2, <1>4 DEF Goroutines
  <1>5. CASE UNCHANGED svars
    BY <1>0, <1>5 DEF svars, fvars, HubsOwn, Unremarkable, vars, rest, history, client
  <1>. QED  BY <1>0, <1>1, <1>3, <1>4, <1>5 DEF SNext, RunStep

LEMMA HubSteps == HInv /\ [Next]_vars => HInv'
  BY NextKeepsChannels, NextKeepsState, NextKeepsMembership DEF HInv, TypeOK

\* Sequences over a larger set.
LEMMA LargerSeq ==
  ASSUME NEW S, NEW T, S \subseteq T
  PROVE  Seq(S) \subseteq Seq(T)
  <1>1. ASSUME NEW q \in Seq(S) PROVE q \in Seq(T)
    <2>1. Len(q) \in Nat /\ q \in [1 .. Len(q) -> S]
      BY LenProperties
    <2>2. q \in [1 .. Len(q) -> T]
      BY <2>1
    <2>. QED  BY <2>1, <2>2
  <1>. QED  BY <1>1

-----------------------------------------------------------------------------
(* run and its requests. *)

LEMMA RunKeepsStarted == ProcessOK /\ Started /\ RunStep => ProcessOK' /\ Started'
  <1>. SUFFICES ASSUME ProcessOK, Started, RunStep PROVE ProcessOK' /\ Started'
    OBVIOUS
  <1>. USE DEF ProcessOK, Started
  <1>1. UNCHANGED subscriber \/ subscriber' = "running"
    BY RunTouchesNothingElse DEF fvars, pipeline, Subscribe
  <1>2. subscriber # "off" => subscriber' # "off"
    BY <1>1
  <1>0. ASSUME Fails, UNCHANGED <<indexed, busy>> PROVE ProcessOK' /\ Started'
    BY <1>0 DEF Fails, Exit
  <1>3. CASE ConnectMongo \/ ConnectRedis
    <2>1. CASE main = "mongo" /\ stores' = stores \cup {"mongo"} /\ main' = "indexes"
               /\ UNCHANGED <<indexed, failed, busy>>
      BY <1>2, <2>1
    <2>2. CASE main = "redis" /\ stores' = stores \cup {"redis"} /\ main' = "subscribe"
               /\ UNCHANGED <<indexed, failed, busy>>
      BY <1>2, <2>2
    <2>. QED
      BY <1>0, <1>3, <2>1, <2>2 DEF ConnectMongo, ConnectRedis, ConnectStore, Following
  <1>4. CASE EnsureIndexes
    BY <1>2, <1>4 DEF EnsureIndexes, Following, Fails, Exit
  <1>5. CASE StartFanout
    BY <1>0, <1>2, <1>5 DEF StartFanout, Following
  <1>8. CASE Confirm
    BY <1>0, <1>8 DEF Confirm, Subscribe, Following
  <1>6. CASE BeginShutdown \/ BeginRequest \/ EndRequest
    BY <1>2, <1>6 DEF BeginShutdown, BeginRequest, EndRequest
  <1>7. CASE EndShutdown \/ ServeFails
    <2>1. CASE ~busy /\ Exit /\ UNCHANGED <<failed, indexed, busy>>
      BY <2>1 DEF Exit
    <2>. QED  BY <1>0, <1>7, <2>1 DEF EndShutdown, BeingServed, ServeFails
  <1>. QED  BY <1>3, <1>4, <1>5, <1>6, <1>7, <1>8 DEF RunStep, Run

LEMMA OthersKeepStarted ==
  ASSUME ProcessOK, Started, Onlookers, subscriber # "off" => subscriber' # "off"
  PROVE  ProcessOK' /\ Started'
  <1>1. CASE UNCHANGED busy
    BY <1>1 DEF Onlookers, ProcessOK, Started
  <1>2. CASE busy' = FALSE
    BY <1>2 DEF Onlookers, ProcessOK, Started
  <1>. QED  BY <1>1, <1>2 DEF Onlookers

-----------------------------------------------------------------------------
(* The pipeline. *)

\* A message is accepted, or dropped because there is no room.
LEMMA Receiving ==
  ASSUME PipelineOK, Pipeline, Passable \subseteq Passable', NEW m, m \in Passable', Receive(m)
  PROVE  /\ out' \in Seq(Messages) /\ Len(out') =< SubscriberBuffer
         /\ out' \in Seq(Passable')
  <1>1. m \in Messages /\ Len(out) \in Nat /\ out \in Seq(Passable') /\ out \in Seq(Messages)
        /\ Len(out) =< SubscriberBuffer
    BY LenProperties, LargerSeq DEF PipelineOK, Pipeline, Passable
  <1>2. /\ Append(out, m) \in Seq(Messages) /\ Append(out, m) \in Seq(Passable')
        /\ Len(Append(out, m)) = Len(out) + 1
    BY <1>1, AppendProperties
  <1>3. CASE Len(out) < SubscriberBuffer
    <2>1. out' = Append(out, m)
      BY <1>3 DEF Receive
    <2>2. Len(out') =< SubscriberBuffer
      BY <1>1, <1>2, <1>3, <2>1, SubscriberBufferAssumption
    <2>. QED  BY <1>2, <2>1, <2>2
  <1>4. CASE ~(Len(out) < SubscriberBuffer)
    <2>1. out' = out
      BY <1>4 DEF Receive
    <2>. QED  BY <1>1, <2>1
  <1>. QED  BY <1>3, <1>4

LEMMA Dropping ==
  ASSUME PipelineOK, NEW u \in Updates, Miss(u)
  PROVE  missed' \in [Polls -> 0 .. MaxTally]
  BY DEF PipelineOK, Miss, Updates

\* The next update of p.
NextUpdate(p) == [poll |-> p, tally |-> tally[p] + 1]

\* Updates come, and what was genuine stays so.
LEMMA UpdateComes ==
  ASSUME SInv, NEW p \in Polls, Publish(p)
  PROVE  /\ tally' \in [Polls -> 0 .. MaxTally] /\ tally'[p] = tally[p] + 1
         /\ \A q \in Polls : tally[q] \in 0 .. MaxTally /\ tally[q] =< tally'[q]
         /\ Genuine \subseteq Genuine' /\ Passable \subseteq Passable'
         /\ NextUpdate(p) \in Updates /\ Message(NextUpdate(p)) \in Passable'
  <1>1. /\ tally' \in [Polls -> 0 .. MaxTally] /\ tally'[p] = tally[p] + 1
        /\ tally \in [Polls -> 0 .. MaxTally]
        /\ \A q \in Polls : tally[q] =< tally'[q]
    <2>1. tally \in [Polls -> 0 .. MaxTally] /\ strays \in Nat
      BY BuffersAssumption DEF SInv, HInv, TypeOK, StateOK, PipelineOK
    <2>2. tally[p] + strays < MaxTally /\ tally' = [tally EXCEPT ![p] = @ + 1]
      BY DEF Publish
    <2>. QED  BY <2>1, <2>2, BuffersAssumption
  <1>2. ASSUME NEW q \in Polls, NEW n \in Int, n =< tally[q] PROVE n =< tally'[q]
    BY <1>1, <1>2
  <1>3. Genuine \subseteq Genuine'
    BY <1>2, BuffersAssumption DEF Genuine, Updates
  <1>4. Passable \subseteq Passable'
    <2>1. ASSUME NEW m \in Messages PROVE m.poll \in Polls /\ m.tally \in Int
      BY BuffersAssumption DEF Messages
    <2>. QED  BY <1>2, <2>1 DEF Passable
  <1>5. NextUpdate(p) \in Updates
    BY <1>1 DEF NextUpdate, Updates
  <1>6. Message(NextUpdate(p)) \in Passable'
    <2>1. Message(NextUpdate(p)) \in Messages
      BY <1>5, ChannelsAssumption, BuffersAssumption DEF Message, Messages, Updates
    <2>2. /\ Message(NextUpdate(p)).poll = p
          /\ Message(NextUpdate(p)).tally = tally[p] + 1
      BY DEF Message, NextUpdate
    <2>. QED  BY <1>1, <2>1, <2>2 DEF Passable
  <1>. QED  BY <1>1, <1>3, <1>4, <1>5, <1>6

\* What becomes of an update in the pipeline: it joins the messages, or is missed.
LEMMA Fates ==
  ASSUME NEW p \in Polls, Publish(p)
  PROVE  \/ /\ Receive(Message(NextUpdate(p)))
            /\ IF out' = out THEN Miss(NextUpdate(p)) ELSE UNCHANGED missed
         \/ Miss(NextUpdate(p)) /\ UNCHANGED out
  BY DEF Publish, NextUpdate

LEMMA Publishing ==
  ASSUME SInv, NEW p \in Polls, Publish(p)
  PROVE  HInv' /\ PipelineOK' /\ Pipeline' /\ ToTheScreen'
  <1>1. /\ UNCHANGED <<cancelled, due, hub, client, strays>>
        /\ UNCHANGED <<subscriber, relay, inHand, decoded, manager, overtaken, began>>
    BY DEF Publish
  <1>2. HInv'
    BY <1>1, UpdateComes DEF SInv, HInv, TypeOK, ChannelsOK, StateOK, HubNeverPanics, Membership, Dead,
                hub, client
  <1>3. /\ out' \in Seq(Messages) /\ Len(out') =< SubscriberBuffer
        /\ out' \in Seq(Passable')
        /\ missed' \in [Polls -> 0 .. MaxTally]
    <2>1. missed' \in [Polls -> 0 .. MaxTally]
      BY UpdateComes, Fates, Dropping DEF SInv, PipelineOK
    <2>2. CASE Receive(Message(NextUpdate(p)))
      BY <2>1, <2>2, UpdateComes, Receiving DEF SInv
    <2>3. CASE UNCHANGED out
      BY <2>1, <2>3, UpdateComes, LargerSeq DEF SInv, PipelineOK, Pipeline
    <2>. QED  BY <2>2, <2>3, Fates
  <1>4. PipelineOK'
    BY <1>1, <1>3 DEF SInv, PipelineOK
  <1>5. Pipeline'
    BY <1>1, <1>3, UpdateComes, LargerSeq DEF SInv, Pipeline
  <1>6. ASSUME NEW c \in Clients
        PROVE  /\ snapshot'[c] =< tally'[Watch[c]] /\ seen'[c] =< tally'[Watch[c]]
               /\ send'[c] \in Seq(0 .. tally'[Watch[c]])
    <2>1. Watch[c] \in Polls /\ UNCHANGED <<snapshot, seen, send>>
      BY <1>1, WatchAssumption DEF client
    <2>2. snapshot[c] \in Int /\ seen[c] \in Int
      BY DEF SInv, HInv, TypeOK, StateOK
    <2>3. tally[Watch[c]] \in Int /\ tally'[Watch[c]] \in Int /\ tally[Watch[c]] =< tally'[Watch[c]]
      BY <2>1, UpdateComes
    <2>4. Seq(0 .. tally[Watch[c]]) \subseteq Seq(0 .. tally'[Watch[c]])
      BY <2>3, LargerSeq
    <2>. QED  BY <2>1, <2>2, <2>3, <2>4 DEF SInv, ToTheScreen
  <1>7. broadcast' \in Seq(Genuine') /\ message' \in Genuine'
    BY <1>1, UpdateComes, LargerSeq DEF SInv, ToTheScreen, hub
  <1>. QED  BY <1>2, <1>4, <1>5, <1>6, <1>7 DEF ToTheScreen

\* A message that is no update passes for none.
LEMMA Straying ==
  ASSUME SInv, NEW m \in Messages, Stray(m)
  PROVE  HInv' /\ PipelineOK' /\ Pipeline' /\ ToTheScreen'
  <1>1. UNCHANGED <<vars, subscriber, relay, inHand, decoded, manager, history>>
    BY DEF Stray
  <1>2. tally' = tally /\ Passable' = Passable /\ Genuine' = Genuine
    BY <1>1 DEF vars, rest, Passable, Genuine
  <1>3. m \in Passable'
    BY <1>2 DEF Stray, Recognised, Passable
  <1>4. /\ out' \in Seq(Messages) /\ Len(out') =< SubscriberBuffer
        /\ out' \in Seq(Passable')
    BY <1>2, <1>3, Receiving DEF SInv, Stray
  <1>5. strays' \in 0 .. MaxTally
    <2>1. strays \in 0 .. MaxTally /\ tally[m.poll] \in 0 .. MaxTally
      BY DEF SInv, PipelineOK, HInv, TypeOK, StateOK, Messages
    <2>. QED  BY <2>1, BuffersAssumption DEF Stray
  <1>6. PipelineOK' /\ Pipeline'
    BY <1>1, <1>2, <1>4, <1>5 DEF SInv, PipelineOK, Pipeline, history
  <1>7. HInv'
    BY <1>1, HubSteps DEF SInv
  <1>8. ToTheScreen'
    BY <1>1, <1>2 DEF SInv, ToTheScreen, vars, rest, hub, client
  <1>. QED  BY <1>6, <1>7, <1>8

\* A goroutine of the pipeline that keeps to it.
LEMMA PipelineAlone ==
  ASSUME SInv, UNCHANGED vars, UNCHANGED <<strays, history>>,
         out' \in Seq(Passable), Len(out') =< SubscriberBuffer,
         inHand' \in Seq(Genuine), Len(inHand') =< 1,
         decoded' \in Seq(Genuine), Len(decoded') =< SubscriberBuffer,
         subscriber' \in Stages, relay' \in Stages, manager' \in Stages
  PROVE  HInv' /\ PipelineOK' /\ Pipeline' /\ ToTheScreen'
  <1>1. tally' = tally /\ Passable' = Passable /\ Genuine' = Genuine
    BY DEF vars, rest, Passable, Genuine
  <1>2. /\ Seq(Passable) \subseteq Seq(Messages)
        /\ Seq(Genuine) \subseteq Seq(Updates)
    BY LargerSeq DEF Passable, Genuine
  <1>3. HInv'
    BY HubSteps DEF SInv
  <1>4. PipelineOK'
    BY <1>2 DEF SInv, PipelineOK, history
  <1>5. Pipeline'
    BY <1>1 DEF Pipeline
  <1>6. ToTheScreen'
    BY <1>1 DEF SInv, ToTheScreen, vars, hub, client
  <1>. QED  BY <1>3, <1>4, <1>5, <1>6

LEMMA Decoding ==
  ASSUME SInv, Decode
  PROVE  HInv' /\ PipelineOK' /\ Pipeline' /\ ToTheScreen'
  <1>. DEFINE m == Head(out)
  <1>1. /\ out \in Seq(Passable) /\ out # <<>> /\ Len(out) \in Nat
        /\ Len(out) =< SubscriberBuffer
    BY LenProperties DEF SInv, Pipeline, PipelineOK, Decode
  <1>2. m \in Passable /\ out' \in Seq(Passable) /\ Len(out') = Len(out) - 1
    BY <1>1, HeadTailProperties DEF Decode
  <1>3. Len(out') =< SubscriberBuffer
    BY <1>1, <1>2, SubscriberBufferAssumption
  <1>4. Recognised(m) => Event(m) \in Genuine
    <2>1. ASSUME Recognised(m) PROVE m.poll \in Polls /\ m.tally \in 0 .. MaxTally + 1 /\ m.tally =< tally[m.poll]
      BY <1>2, <2>1 DEF Passable, Messages
    <2>2. ASSUME NEW q \in Polls PROVE tally[q] \in 0 .. MaxTally
      BY <2>2 DEF SInv, HInv, TypeOK, StateOK
    <2>3. ASSUME Recognised(m) PROVE m.tally \in 0 .. MaxTally
      BY <2>1, <2>2, <2>3, BuffersAssumption
    <2>. QED  BY <2>1, <2>3 DEF Event, Genuine, Updates
  <1>5. inHand' \in Seq(Genuine) /\ Len(inHand') =< 1
    <2>1. CASE Recognised(m)
      <3>1. inHand' = <<Event(m)>>
        BY <2>1 DEF Decode
      <3>. QED  BY <1>4, <2>1, <3>1
    <2>2. CASE ~Recognised(m)
      <3>1. inHand' = <<>>
        BY <2>2 DEF Decode
      <3>. QED  BY <3>1, EmptySeq
    <2>. QED  BY <2>1, <2>2
  <1>6. UNCHANGED vars /\ UNCHANGED <<strays, history, subscriber, relay, decoded, manager>>
    BY DEF Decode
  <1>7. decoded \in Seq(Genuine) /\ Len(decoded) =< SubscriberBuffer
        /\ subscriber \in Stages /\ relay \in Stages /\ manager \in Stages
    BY DEF SInv, Pipeline, PipelineOK
  <1>. QED  BY <1>2, <1>3, <1>5, <1>6, <1>7, PipelineAlone

LEMMA Forwarding ==
  ASSUME SInv, Forward
  PROVE  HInv' /\ PipelineOK' /\ Pipeline' /\ ToTheScreen'
  <1>1. /\ decoded \in Seq(Genuine) /\ inHand \in Seq(Genuine)
        /\ Len(decoded) \in Nat /\ Len(inHand) \in Nat
        /\ Len(decoded) < SubscriberBuffer /\ Len(inHand) =< 1
    BY LenProperties DEF SInv, Pipeline, PipelineOK, Forward
  <1>2. /\ decoded' \in Seq(Genuine) /\ Len(decoded') = Len(decoded) + Len(inHand)
    BY <1>1, ConcatProperties DEF Forward
  <1>3. Len(decoded') =< SubscriberBuffer
    BY <1>1, <1>2, SubscriberBufferAssumption
  <1>4. inHand' \in Seq(Genuine) /\ Len(inHand') =< 1
    BY EmptySeq DEF Forward
  <1>5. UNCHANGED vars /\ UNCHANGED <<strays, history, subscriber, out, relay, manager>>
    BY DEF Forward
  <1>6. out \in Seq(Passable) /\ Len(out) =< SubscriberBuffer
        /\ subscriber \in Stages /\ relay \in Stages /\ manager \in Stages
    BY DEF SInv, Pipeline, PipelineOK
  <1>. QED  BY <1>2, <1>3, <1>4, <1>5, <1>6, PipelineAlone

LEMMA Ending ==
  ASSUME SInv, SubscriberStops \/ RelayEnds \/ ManagerEnds \/ (Subscribe \/ UNCHANGED fvars)
  PROVE  HInv' /\ PipelineOK' /\ Pipeline' /\ ToTheScreen'
  <1>1. UNCHANGED vars /\ UNCHANGED <<strays, history, out, decoded>>
    BY DEF SubscriberStops, RelayEnds, ManagerEnds, Subscribe, fvars, pipeline
  <1>2. inHand' \in {inHand, <<>>}
    BY DEF SubscriberStops, RelayEnds, ManagerEnds, Subscribe, fvars, pipeline
  <1>3. inHand \in Seq(Genuine) /\ Len(inHand) =< 1
    BY DEF SInv, Pipeline, PipelineOK
  <1>4. inHand' \in Seq(Genuine) /\ Len(inHand') =< 1
    <2>1. <<>> \in Seq(Genuine) /\ Len(<<>>) =< 1
      BY EmptySeq
    <2>. QED  BY <1>2, <1>3, <2>1
  <1>5. subscriber' \in Stages /\ relay' \in Stages /\ manager' \in Stages
    BY DEF SInv, PipelineOK, Stages, SubscriberStops, RelayEnds, ManagerEnds, Subscribe, fvars,
           pipeline
  <1>6. /\ out \in Seq(Passable) /\ Len(out) =< SubscriberBuffer
        /\ decoded \in Seq(Genuine) /\ Len(decoded) =< SubscriberBuffer
    BY DEF SInv, Pipeline, PipelineOK
  <1>. QED  BY <1>1, <1>4, <1>5, <1>6, PipelineAlone

\* The manager gives the hub an update, or the hub drops it.
LEMMA Rebroadcasting ==
  ASSUME SInv, Rebroadcast
  PROVE  HInv' /\ PipelineOK' /\ Pipeline' /\ ToTheScreen'
  <1>. DEFINE u == Head(decoded)
  <1>1. decoded \in Seq(Genuine) /\ decoded # <<>> /\ Len(decoded) \in Nat
        /\ Len(decoded) =< SubscriberBuffer
    BY LenProperties DEF SInv, Pipeline, PipelineOK, Rebroadcast
  <1>2. /\ u \in Genuine /\ u \in Updates
        /\ decoded' \in Seq(Genuine) /\ Len(decoded') = Len(decoded) - 1
    BY <1>1, HeadTailProperties DEF Rebroadcast, Genuine
  <1>3. Seq(Genuine) \subseteq Seq(Updates) /\ Len(decoded') =< SubscriberBuffer
    BY <1>1, <1>2, LargerSeq, SubscriberBufferAssumption DEF Genuine
  <1>4. UNCHANGED <<tally, cancelled, running, rooms, pending, message, client>>
        /\ UNCHANGED <<strays, subscriber, out, relay, inHand, manager, overtaken, began>>
    BY DEF Rebroadcast
  <1>5. Genuine' = Genuine /\ Passable' = Passable
    BY <1>4 DEF Genuine, Passable
  <1>6. /\ broadcast' \in Seq(Genuine) /\ broadcast' \in Seq(Updates)
        /\ Len(broadcast') =< BroadcastBuffer
    <2>1. broadcast \in Seq(Genuine) /\ broadcast \in Seq(Updates) /\ Len(broadcast) \in Nat
          /\ Len(broadcast) =< BroadcastBuffer
      BY LenProperties DEF SInv, ToTheScreen, HInv, TypeOK, ChannelsOK
    <2>2. CASE UNCHANGED broadcast
      BY <2>1, <2>2
    <2>3. CASE Len(broadcast) < BroadcastBuffer /\ broadcast' = Append(broadcast, u)
      <3>1. broadcast' \in Seq(Genuine) /\ Len(broadcast') = Len(broadcast) + 1
        BY <1>2, <2>1, <2>3, AppendProperties
      <3>2. Len(broadcast') =< BroadcastBuffer
        BY <2>1, <2>3, <3>1, BuffersAssumption
      <3>. QED  BY <1>3, <3>1, <3>2
    <2>. QED  BY <2>2, <2>3 DEF Rebroadcast, Broadcast
  <1>7. due' \in [Clients -> 0 .. MaxTally]
    <2>1. u.tally \in 0 .. MaxTally /\ due \in [Clients -> 0 .. MaxTally]
      BY <1>2 DEF Updates, SInv, HInv, TypeOK, StateOK
    <2>2. CASE UNCHANGED due
      BY <2>1, <2>2
    <2>3. CASE due' = [c \in Clients |->
                IF c \in Watching(u.poll) /\ handler[c] = "returned" THEN u.tally ELSE due[c]]
      <3>. HIDE DEF u
      <3>. QED  BY <2>1, <2>3
    <2>. QED  BY <2>2, <2>3 DEF Rebroadcast, Broadcast
  <1>8. missed' \in [Polls -> 0 .. MaxTally]
    BY <1>2, Dropping DEF Rebroadcast, SInv, PipelineOK
  <1>9. HInv'
    <2>1. ChannelsOK'
      BY <1>4, <1>6 DEF SInv, HInv, TypeOK, ChannelsOK, client
    <2>2. StateOK'
      BY <1>4, <1>7 DEF SInv, HInv, TypeOK, StateOK, client
    <2>. QED
      BY <1>4, <2>1, <2>2
      DEF SInv, HInv, TypeOK, HubNeverPanics, Membership, Dead, client
  <1>10. PipelineOK' /\ Pipeline'
    BY <1>2, <1>3, <1>4, <1>5, <1>8 DEF SInv, PipelineOK, Pipeline
  <1>11. ToTheScreen'
    BY <1>4, <1>5, <1>6 DEF SInv, ToTheScreen, client
  <1>. QED  BY <1>9, <1>10, <1>11

-----------------------------------------------------------------------------
(* The hub and the connections. *)

LEMMA QueueingTheGenuine ==
  ASSUME TypeOK, ToTheScreen, tally' = tally,
         NEW c \in Clients, NEW n \in 0 .. tally[Watch[c]], Queue(c, n)
  PROVE  \A d \in Clients : send'[d] \in Seq(0 .. tally'[Watch[d]])
  <1>1. send[c] \in Seq(0 .. tally[Watch[c]])
    BY DEF ToTheScreen
  <1>2. Append(send[c], n) \in Seq(0 .. tally[Watch[c]])
    BY <1>1, AppendProperties
  <1>3. send'[c] \in {send[c], Append(send[c], n)} /\ \A d \in Clients \ {c} : send'[d] = send[d]
    BY DEF Queue, TypeOK, ChannelsOK
  <1>. QED  BY <1>1, <1>2, <1>3 DEF ToTheScreen

\* On its way from the hub's channel or the handler to the browser no number grows.
LEMMA HubKeepsTheScreen ==
  ASSUME SInv, [Next]_vars, tally' = tally
  PROVE  ToTheScreen'
  <1>0. /\ Genuine' = Genuine /\ ToTheScreen /\ TypeOK /\ Membership
        /\ \A c \in Clients : Watch[c] \in Polls /\ tally[Watch[c]] \in 0 .. MaxTally
    BY WatchAssumption DEF Genuine, SInv, HInv, TypeOK, StateOK
  <1>1. CASE UNCHANGED <<broadcast, message, snapshot, seen, send>>
    BY <1>0, <1>1 DEF ToTheScreen
  <1>2. ASSUME NEW c \in Clients, TakeSnapshot(c) PROVE ToTheScreen'
    BY <1>0, <1>2, BuffersAssumption DEF TakeSnapshot, ToTheScreen, hub, TypeOK, StateOK
  <1>3. ASSUME NEW c \in Clients, SendSnapshot(c) PROVE ToTheScreen'
    <2>1. snapshot[c] \in 0 .. tally[Watch[c]]
      BY <1>0 DEF ToTheScreen, TypeOK, StateOK
    <2>2. \A d \in Clients : send'[d] \in Seq(0 .. tally'[Watch[d]])
      BY <1>0, <1>3, <2>1, QueueingTheGenuine DEF SendSnapshot, ToTheScreen
    <2>3. \A d \in Clients : snapshot'[d] =< tally[Watch[d]]
      BY <1>0, <1>3 DEF SendSnapshot, ToTheScreen, TypeOK, StateOK
    <2>. QED  BY <1>0, <1>3, <2>2, <2>3 DEF SendSnapshot, ToTheScreen, hub
  <1>4. NoMessage \in Genuine
    BY PollsAssumption, BuffersAssumption, <1>0
    DEF NoMessage, Genuine, Updates, TypeOK, StateOK
  <1>5. CASE TakeBroadcast
    <2>1. broadcast \in Seq(Genuine) /\ broadcast # <<>>
      BY <1>0, <1>5 DEF ToTheScreen, TakeBroadcast
    <2>2. Head(broadcast) \in Genuine /\ Tail(broadcast) \in Seq(Genuine)
      BY <2>1, HeadTailProperties
    <2>. QED  BY <1>0, <1>4, <1>5, <2>2 DEF TakeBroadcast, ToTheScreen, client
  <1>6. ASSUME NEW c \in Clients, Deliver(c) PROVE ToTheScreen'
    <2>1. message.tally \in 0 .. tally[Watch[c]]
      BY <1>0, <1>6 DEF Deliver, Membership, Watching, ToTheScreen, Genuine, Updates
    <2>2. \A d \in Clients : send'[d] \in Seq(0 .. tally'[Watch[d]])
      BY <1>0, <1>6, <2>1, QueueingTheGenuine DEF Deliver, ToTheScreen
    <2>. QED  BY <1>0, <1>4, <1>6, <2>2 DEF Deliver, ToTheScreen
  <1>7. ASSUME NEW c \in Clients, Write(c) PROVE ToTheScreen'
    <2>1. /\ Head(send[c]) \in 0 .. tally[Watch[c]]
          /\ Tail(send[c]) \in Seq(0 .. tally[Watch[c]])
      BY <1>0, <1>7, HeadTailProperties DEF Write, ToTheScreen
    <2>2. \A d \in Clients : /\ seen'[d] =< tally[Watch[d]]
                             /\ send'[d] \in Seq(0 .. tally[Watch[d]])
      <3>1. send'[c] = Tail(send[c]) /\ \A d \in Clients \ {c} : send'[d] = send[d]
        BY <1>0, <1>7 DEF Write, TypeOK, ChannelsOK
      <3>2. seen'[c] \in {seen[c], Head(send[c])} /\ \A d \in Clients \ {c} : seen'[d] = seen[d]
        BY <1>0, <1>7 DEF Write, TypeOK, StateOK
      <3>3. Head(send[c]) =< tally[Watch[c]]
        BY <1>0, <2>1
      <3>. QED  BY <1>0, <2>1, <3>1, <3>2, <3>3 DEF ToTheScreen
    <2>. QED  BY <1>0, <1>7, <2>2 DEF Write, ToTheScreen, hub
  <1>8. ASSUME NEW c \in Clients,
               \/ PeerLeaves(c) \/ Upgrade(c) \/ Register(c) \/ Start(c)
               \/ Read(c) \/ WriteClose(c) \/ PingFails(c)
        PROVE  ToTheScreen'
    BY <1>1, <1>8
    DEF PeerLeaves, Upgrade, Register, Start, Read, ReadFails, Unregister, ReaderCloses,
        WriteClose, PingFails, hub
  <1>9. ASSUME NEW p \in Polls, Announce(p) PROVE FALSE
    <2>1. tally[p] \in Nat /\ tally'[p] = tally[p] + 1
      BY <1>0, <1>9, BuffersAssumption DEF Announce, TypeOK, StateOK
    <2>. QED  BY <2>1
  <1>10. CASE Cancel \/ Stop \/ UNCHANGED vars
    BY <1>1, <1>10 DEF Cancel, Stop, vars, hub, client
  <1>. QED
    BY <1>2, <1>3, <1>5, <1>6, <1>7, <1>8, <1>9, <1>10
    DEF Next, Environment, Handle, WritePump

\* The history of the snapshots: standings of the polls, all of them.
LEMMA HistoryIsTyped ==
  ASSUME SInv, HubsOwn
  PROVE  PipelineOK'
  <1>1. /\ overtaken \in [Clients -> 0 .. MaxTally] /\ began \in [Clients -> 0 .. MaxTally]
        /\ \A c \in Clients : tally[Watch[c]] \in 0 .. MaxTally
        /\ message.tally \in 0 .. MaxTally
    BY WatchAssumption DEF SInv, PipelineOK, HInv, TypeOK, StateOK, Updates
  <1>2. overtaken' \in [Clients -> 0 .. MaxTally] /\ began' \in [Clients -> 0 .. MaxTally]
    <2>1. CASE HubTakes
      <3>1. Head(broadcast).tally \in 0 .. MaxTally
        <4>1. Head(broadcast) \in Updates
          BY <2>1, HeadTailProperties
          DEF HubTakes, TakeBroadcast, SInv, HInv, TypeOK, ChannelsOK
        <4>. QED  BY <4>1 DEF Updates
      <3>. DEFINE n == Head(broadcast).tally
      <3>2. n \in 0 .. MaxTally
        BY <3>1
      <3>3. \A c \in Clients : overtaken[c] \in 0 .. MaxTally
        BY <1>1
      <3>4. /\ began' = began
            /\ overtaken' = [c \in Clients |->
                  IF SnapshotOnItsWay(c) /\ c \in Watching(Head(broadcast).poll) \ rooms
                  THEN n ELSE overtaken[c]]
        BY <2>1 DEF HubTakes
      <3>. HIDE DEF n
      <3>. QED  BY <1>1, <3>2, <3>3, <3>4
    <2>2. CASE \E c \in Clients : ReadSnapshot(c) \/ HubDelivers(c)
      BY <1>1, <2>2 DEF ReadSnapshot, HubDelivers
    <2>3. CASE UNCHANGED <<overtaken, began>>
      BY <1>1, <2>3
    <2>. QED  BY <2>1, <2>2, <2>3 DEF HubsOwn
  <1>. QED  BY <1>2 DEF HubsOwn, SInv, PipelineOK, pipeline

-----------------------------------------------------------------------------
(* The invariant. *)

LEMMA ServerAtFirst == SInit => SInv
  <1>. SUFFICES ASSUME SInit PROVE SInv
    OBVIOUS
  <1>1. Init /\ HInv
    BY InitHub DEF SInit, FInit
  <1>2. /\ \A S : <<>> \in Seq(S)
        /\ Len(<<>>) = 0
    BY EmptySeq
  <1>3. 0 \in 0 .. MaxTally
    BY BuffersAssumption
  <1>4. PipelineOK
    BY <1>2, <1>3, SubscriberBufferAssumption DEF SInit, FInit, PipelineOK, Stages
  <1>5. ProcessOK /\ Started
    BY DEF SInit, ProcessOK, Started
  <1>6. Pipeline
    BY <1>2 DEF SInit, FInit, Pipeline
  <1>7. NoMessage \in Genuine
    BY <1>1, PollsAssumption, BuffersAssumption DEF Init, NoMessage, Genuine, Updates
  <1>8. ToTheScreen
    BY <1>1, <1>2, <1>7, WatchAssumption DEF Init, ToTheScreen
  <1>. QED  BY <1>1, <1>4, <1>5, <1>6, <1>8 DEF SInv

LEMMA ServerSteps == SInv /\ [SNext]_svars => SInv'
  <1>. SUFFICES ASSUME SInv, [SNext]_svars PROVE SInv'
    OBVIOUS
  <1>0. ProcessOK /\ Started /\ subscriber \in Stages
    BY DEF SInv, PipelineOK
  <1>1. CASE RunStep
    BY <1>0, <1>1, RunKeepsStarted, RunTouchesNothingElse, Ending DEF SInv
  <1>2. ASSUME Onlookers,
               \/ Pumps
               \/ \E p \in Polls : Publish(p)
               \/ \E m \in Messages : Stray(m)
        PROVE  SInv'
    <2>1. HInv' /\ PipelineOK' /\ Pipeline' /\ ToTheScreen'
      BY <1>2, Publishing, Straying, Decoding, Forwarding, Ending, Rebroadcasting DEF Pumps
    <2>2. subscriber # "off" => subscriber' # "off"
      BY <1>2
      DEF Pumps, Publish, Stray, SubscriberStops, Decode, Forward, RelayEnds,
          Rebroadcast, ManagerEnds
    <2>. QED  BY <1>0, <1>2, <2>1, <2>2, OthersKeepStarted DEF SInv
  <1>3. ASSUME Onlookers, HubsOwn PROVE SInv'
    <2>1. HInv' /\ ToTheScreen' /\ PipelineOK'
      BY <1>3, HubSteps, HubKeepsTheScreen, HistoryIsTyped DEF SInv, HubsOwn
    <2>2. Pipeline'
      BY <1>3 DEF HubsOwn, SInv, Pipeline, Genuine, Passable, pipeline
    <2>3. subscriber' = subscriber
      BY <1>3 DEF HubsOwn, pipeline
    <2>. QED  BY <1>0, <1>3, <2>1, <2>2, <2>3, OthersKeepStarted DEF SInv
  <1>. QED  BY <1>0, <1>1, <1>2, <1>3, StepsOfTheServer

LEMMA ServerInvariant == SSpec => []SInv
  BY ServerAtFirst, ServerSteps, PTL DEF SSpec

-----------------------------------------------------------------------------
(* The updates of one poll are in order all the way, from Redis to the hub's hand. *)

\* What message or update u says of poll p: its number, unless it is a stray.
Word(u, p) == {n \in 0 .. MaxTally : u.poll = p /\ u.tally = n}

\* What channel q has still to say of poll p.
Says(q, p) == UNION {Word(q[i], p) : i \in 1 .. Len(q)}

Before(S, T) == \A a \in S, b \in T : a < b

\* Channel q says it in the order of the updates.
InOrder(q, p) == \A i, j \in 1 .. Len(q) : i < j => Before(Word(q[i], p), Word(q[j], p))

\* What is still to come of poll p: behind the relay's channel, behind the hub's channel,
\* and behind what the hub has in hand.
Unpassed(p) == Says(inHand, p) \cup Says(out, p)
Unqueued(p) == Says(decoded, p) \cup Unpassed(p)
Ahead(p) == Says(broadcast, p) \cup Unqueued(p)

\* What the hub has in hand.
Held(p) == IF pending = {} THEN {} ELSE Word(message, p)

Line(p) ==
    /\ InOrder(out, p) /\ InOrder(decoded, p) /\ InOrder(broadcast, p)
    /\ Before(Says(inHand, p), Says(out, p))
    /\ Before(Says(decoded, p), Unpassed(p))
    /\ Before(Says(broadcast, p), Unqueued(p))
    /\ Before(Held(p), Ahead(p))
    /\ Held(p) \subseteq 1 .. tally[p] /\ Ahead(p) \subseteq 1 .. tally[p]
    /\ missed[p] =< tally[p]

\* A stray has no update's number.
Sent == {m \in Messages : ~Recognised(m) => m.tally > MaxTally}

\* Nothing moves before the subscription; what stops has been told to.
Times ==
    /\ subscriber = "off" =>
          /\ out = <<>> /\ inHand = <<>> /\ decoded = <<>> /\ broadcast = <<>>
          /\ pending = {} /\ \A c \in Clients : handler[c] = "idle"
    /\ subscriber = "done" => cancelled
    /\ ~running => cancelled

OInv == out \in Seq(Sent) /\ Times /\ \A p \in Polls : Line(p)

\* The first of a channel that is in order comes before the rest.
LEMMA TakeWord ==
  ASSUME NEW S, NEW q \in Seq(S), q # <<>>, NEW p, InOrder(q, p)
  PROVE  /\ InOrder(Tail(q), p)
         /\ Says(q, p) = Says(Tail(q), p) \cup Word(Head(q), p)
         /\ Before(Word(Head(q), p), Says(Tail(q), p))
  <1>. DEFINE n == Len(q)
              r == Tail(q)
              W(e) == Word(e, p)
  <1>1. /\ n \in Nat /\ n >= 1 /\ Head(q) = q[1] /\ Len(r) = n - 1
        /\ \A i \in 1 .. Len(r) : r[i] = q[i + 1]
    BY TakeFirst
  <1>2. \A i, j \in 1 .. n : i < j => Before(W(q[i]), W(q[j]))
    BY DEF InOrder
  <1>3. ASSUME NEW i \in 1 .. n PROVE i = 1 \/ (i - 1 \in 1 .. Len(r) /\ r[i - 1] = q[i])
    <2>1. i # 1 => i - 1 \in 1 .. Len(r) /\ (i - 1) + 1 = i
      BY <1>1
    <2>. QED  BY <1>1, <2>1
  <1>4. 1 \in 1 .. n /\ \A i \in 1 .. Len(r) : i + 1 \in 1 .. n /\ 1 < i + 1
    BY <1>1
  <1>. HIDE DEF n, r, W
  <1>5. ASSUME NEW i \in 1 .. Len(r), NEW j \in 1 .. Len(r), i < j
        PROVE  Before(W(r[i]), W(r[j]))
    <2>1. i + 1 < j + 1
      BY <1>5
    <2>. QED  BY <1>1, <1>2, <1>4, <2>1
  <1>6. (UNION {W(q[i]) : i \in 1 .. n}) = (UNION {W(r[i]) : i \in 1 .. Len(r)}) \cup W(q[1])
    <2>1. ASSUME NEW i \in 1 .. n
          PROVE  W(q[i]) \subseteq (UNION {W(r[j]) : j \in 1 .. Len(r)}) \cup W(q[1])
      BY <1>3
    <2>2. ASSUME NEW i \in 1 .. Len(r) PROVE W(r[i]) \subseteq UNION {W(q[j]) : j \in 1 .. n}
      BY <1>1, <1>4
    <2>. QED  BY <1>4, <2>1, <2>2
  <1>7. \A i \in 1 .. Len(r) : Before(W(q[1]), W(r[i]))
    BY <1>1, <1>2, <1>4
  <1>8. Before(W(q[1]), UNION {W(r[i]) : i \in 1 .. Len(r)})
    BY <1>7 DEF Before
  <1>. QED  BY <1>1, <1>5, <1>6, <1>8 DEF n, r, W, Says, InOrder

\* A channel stays in order when what is sent to it comes after all it holds.
LEMMA PutWord ==
  ASSUME NEW S, NEW q \in Seq(S), NEW e \in S, NEW p, InOrder(q, p),
         Before(Says(q, p), Word(e, p))
  PROVE  /\ InOrder(Append(q, e), p)
         /\ Says(Append(q, e), p) = Says(q, p) \cup Word(e, p)
  <1>. DEFINE n == Len(q)
              r == Append(q, e)
              W(u) == Word(u, p)
  <1>1. /\ n \in Nat /\ Len(r) = n + 1 /\ r[n + 1] = e
        /\ \A i \in 1 .. n : r[i] = q[i]
    BY PutLast
  <1>2. /\ \A i, j \in 1 .. n : i < j => Before(W(q[i]), W(q[j]))
        /\ Before(UNION {W(q[i]) : i \in 1 .. n}, W(e))
    BY DEF InOrder, Says
  <1>3. /\ \A i \in 1 .. n + 1 : i = n + 1 \/ i \in 1 .. n
        /\ n + 1 \in 1 .. n + 1
        /\ \A i \in 1 .. n : i \in 1 .. n + 1
        /\ \A j \in 1 .. n + 1 : ~(n + 1 < j)
    BY <1>1
  <1>. HIDE DEF n, r, W
  <1>4. \A i \in 1 .. n : Before(W(q[i]), W(e))
    BY <1>2 DEF Before
  <1>5. ASSUME NEW i \in 1 .. Len(r), NEW j \in 1 .. Len(r), i < j
        PROVE  Before(W(r[i]), W(r[j]))
    BY <1>1, <1>2, <1>3, <1>4, <1>5
  <1>6. (UNION {W(r[i]) : i \in 1 .. Len(r)}) = (UNION {W(q[i]) : i \in 1 .. n}) \cup W(e)
    BY <1>1, <1>3
  <1>. QED  BY <1>5, <1>6 DEF n, r, W, Says, InOrder

\* An empty channel, and one of a single element.
LEMMA FewWords ==
  ASSUME NEW p
  PROVE  /\ Says(<<>>, p) = {} /\ InOrder(<<>>, p)
         /\ \A e : Says(<<e>>, p) = Word(e, p)
  <1>1. /\ 1 .. Len(<<>>) = {}
        /\ \A e : Len(<<e>>) = 1 /\ <<e>>[1] = e
        /\ 1 .. 1 = {1}
    OBVIOUS
  <1>2. ASSUME NEW e PROVE Says(<<e>>, p) = Word(e, p)
    <2>1. Len(<<e>>) = 1 /\ <<e>>[1] = e
      OBVIOUS
    <2>. QED  BY <1>1, <2>1 DEF Says
  <1>. QED  BY <1>1, <1>2 DEF Says, InOrder

\* W leaves X, the channel before it in order, for Y, the one it goes to; L is behind X.
LEMMA Handover ==
  ASSUME NEW X, NEW Y, NEW L, NEW W,
         Before(W, X), Before(X \cup W, L), Before(Y, (X \cup W) \cup L)
  PROVE  /\ Before(X, L)
         /\ Before(Y \cup W, X \cup L)
         /\ Before(Y, W)
         /\ (Y \cup W) \cup (X \cup L) = Y \cup ((X \cup W) \cup L)
  BY DEF Before

\* What holds of more holds of less.
LEMMA LessBefore ==
  ASSUME NEW S, NEW T, NEW S1, NEW T1, Before(S, T), S1 \subseteq S, T1 \subseteq T
  PROVE  Before(S1, T1)
  BY DEF Before

\* What is still to come of poll p shrinks; what goes the hub does not get, and that is
\* written down as missed, unless the server is told to stop or has not subscribed.
Explains(p) ==
    /\ Ahead(p)' \subseteq Ahead(p)
    /\ missed[p] =< missed'[p]
    /\ \A n \in Ahead(p) \ Ahead(p)' :
          n =< missed'[p] \/ cancelled \/ (subscriber = "off" /\ Ahead(p)' = {})

LEMMA Typed ==
  ASSUME SInv
  PROVE  /\ out \in Seq(Messages) /\ inHand \in Seq(Updates) /\ decoded \in Seq(Updates)
         /\ broadcast \in Seq(Updates) /\ message \in Updates
         /\ MaxTally \in Nat
         /\ \A p \in Polls : tally[p] \in 0 .. MaxTally /\ missed[p] \in 0 .. MaxTally
  BY BuffersAssumption DEF SInv, PipelineOK, HInv, TypeOK, ChannelsOK, StateOK

LEMMA DecodingInOrder ==
  ASSUME SInv, OInv, Decode, NEW p \in Polls
  PROVE  Line(p)' /\ Explains(p)
  <1>. DEFINE h == Head(out)
              W == Word(h, p)
              X == Says(Tail(out), p)
  <1>1. /\ out \in Seq(Sent) /\ out # <<>> /\ out' = Tail(out)
        /\ inHand = <<>> /\ inHand' = IF Recognised(h) THEN <<Event(h)>> ELSE <<>>
        /\ UNCHANGED <<decoded, broadcast, pending, message, tally, missed>>
        /\ Line(p)
    BY DEF OInv, Decode, vars, rest, hub, history
  <1>2. /\ InOrder(Tail(out), p) /\ Says(out, p) = X \cup W /\ Before(W, X) /\ h \in Sent
    BY <1>1, TakeWord, TakeFirst DEF Line
  <1>3. Says(inHand, p) = {} /\ Says(inHand', p) = W
    <2>1. CASE Recognised(h)
      BY <1>1, <2>1, FewWords DEF Event, Word
    <2>2. CASE ~Recognised(h)
      <3>1. h.tally > MaxTally /\ MaxTally \in Nat /\ h.tally \in Nat
        BY <1>2, <2>2, BuffersAssumption DEF Sent, Messages
      <3>2. W = {}
        BY <3>1 DEF Word
      <3>. QED  BY <1>1, <2>2, <3>2, FewWords
    <2>. QED  BY <2>1, <2>2
  <1>. HIDE DEF h, W, X
  <1>4. Says(out', p) = X
    BY <1>1 DEF X
  <1>5. Unpassed(p)' = Unpassed(p)
    BY <1>2, <1>3, <1>4 DEF Unpassed
  <1>6. Unqueued(p)' = Unqueued(p) /\ Ahead(p)' = Ahead(p) /\ Held(p)' = Held(p)
    BY <1>1, <1>5 DEF Unqueued, Ahead, Held
  <1>7. Line(p)'
    BY <1>1, <1>2, <1>3, <1>4, <1>5, <1>6 DEF Line
  <1>. QED  BY <1>1, <1>6, <1>7, Typed DEF Explains

\* A hand that holds anything holds one event, and passes it on.
LEMMA OneInHand ==
  ASSUME NEW S, NEW q \in Seq(S), NEW r \in Seq(S), r # <<>>, Len(r) =< 1
  PROVE  r = <<Head(r)>> /\ q \o r = Append(q, Head(r)) /\ Head(r) \in S
  <1>1. Len(r) = 1 /\ Head(r) = r[1] /\ Head(r) \in S
    <2>. DEFINE n == Len(r)
    <2>1. n \in Nat /\ n >= 1 /\ n =< 1 /\ Head(r) = r[1] /\ Head(r) \in S
      BY TakeFirst
    <2>. HIDE DEF n
    <2>2. n = 1
      BY <2>1
    <2>. QED  BY <2>1, <2>2 DEF n
  <1>2. r = <<Head(r)>>
    <2>1. <<Head(r)>> \in Seq(S) /\ Len(<<Head(r)>>) = 1 /\ <<Head(r)>>[1] = Head(r)
      BY <1>1
    <2>2. \A i \in 1 .. Len(r) : r[i] = <<Head(r)>>[i]
      BY <1>1, <2>1
    <2>. QED  BY <1>1, <2>1, <2>2, SeqEqual
  <1>. DEFINE e == Head(r)
  <1>3. e \in S /\ r = <<e>>
    BY <1>1, <1>2
  <1>. HIDE DEF e
  <1>4. q \o <<e>> = Append(q, e)
    BY <1>3, AppendIsConcat
  <1>. QED  BY <1>1, <1>2, <1>3, <1>4 DEF e

LEMMA ForwardingInOrder ==
  ASSUME SInv, OInv, Forward, NEW p \in Polls
  PROVE  Line(p)' /\ Explains(p)
  <1>. DEFINE e == Head(inHand)
              W == Word(e, p)
              Y == Says(decoded, p)
              L == Says(out, p)
  <1>1. /\ inHand \in Seq(Updates) /\ inHand # <<>> /\ Len(inHand) =< 1
        /\ decoded \in Seq(Updates)
        /\ decoded' = decoded \o inHand /\ inHand' = <<>>
        /\ UNCHANGED <<out, broadcast, pending, message, tally, strays, missed>>
        /\ Line(p)
    BY DEF SInv, PipelineOK, OInv, Forward, vars, rest, hub, history
  <1>2. inHand = <<e>> /\ decoded' = Append(decoded, e) /\ e \in Updates
    BY <1>1, OneInHand
  <1>3. Says(inHand, p) = W /\ Says(inHand', p) = {}
    BY <1>1, <1>2, FewWords
  <1>4. Says(out, p)' = L /\ Says(out, p)' = Says(out, p)
    BY <1>1
  <1>. HIDE DEF e, W, Y, L
  <1>5. Before(W, L) /\ Before(Y, W \cup L)
    BY <1>1, <1>3 DEF Line, Unpassed, Y, L
  <1>6. Before(Y, W) /\ Before(Y \cup W, L) /\ (Y \cup W) \cup L = Y \cup (W \cup L)
    BY <1>5 DEF Before
  <1>7. InOrder(decoded', p) /\ Says(decoded', p) = Y \cup W
    <2>1. InOrder(decoded, p) /\ Before(Says(decoded, p), Word(e, p))
      BY <1>1, <1>6 DEF Line, W, Y
    <2>2. /\ InOrder(Append(decoded, e), p)
          /\ Says(Append(decoded, e), p) = Says(decoded, p) \cup Word(e, p)
      BY <1>1, <1>2, <2>1, PutWord
    <2>. QED  BY <1>2, <2>2 DEF W, Y
  <1>8. Unpassed(p)' = L /\ Unpassed(p) = W \cup L
    BY <1>3, <1>4 DEF Unpassed, L
  <1>9. Unqueued(p)' = Unqueued(p) /\ Ahead(p)' = Ahead(p) /\ Held(p)' = Held(p)
    BY <1>1, <1>6, <1>7, <1>8 DEF Unqueued, Ahead, Held, Y
  <1>10. Before({}, L)
    BY DEF Before
  <1>11. Line(p)'
    BY <1>1, <1>3, <1>4, <1>6, <1>7, <1>8, <1>9, <1>10 DEF Line
  <1>. QED  BY <1>1, <1>9, <1>11, Typed DEF Explains

\* A step that takes nothing from poll p on its way and puts nothing there.
LEMMA LineAlone ==
  ASSUME SInv, NEW p \in Polls, Line(p),
         UNCHANGED <<out, inHand, decoded, broadcast, pending, message>>,
         tally'[p] = tally[p], missed'[p] = missed[p]
  PROVE  Line(p)' /\ Explains(p)
  <1>1. /\ Unpassed(p)' = Unpassed(p)
        /\ Unqueued(p)' = Unqueued(p) /\ Ahead(p)' = Ahead(p) /\ Held(p)' = Held(p)
    BY DEF Unpassed, Unqueued, Ahead, Held
  <1>. QED  BY <1>1, Typed DEF Line, Explains

\* What the relay has in hand when it ends is given up because the server stops.
LEMMA EndingInOrder ==
  ASSUME SInv, OInv, NEW p \in Polls,
         SubscriberStops \/ RelayEnds \/ ManagerEnds \/ Subscribe \/ UNCHANGED fvars
  PROVE  Line(p)' /\ Explains(p)
  <1>1. /\ UNCHANGED <<out, decoded, broadcast, pending, message, tally, strays, missed>>
        /\ inHand' = inHand \/ (inHand' = <<>> /\ cancelled)
        /\ Line(p)
    BY DEF OInv, SubscriberStops, RelayEnds, ManagerEnds, Subscribe, fvars, pipeline, vars,
           rest, hub, history
  <1>2. CASE inHand' = inHand
    BY <1>1, <1>2, LineAlone
  <1>3. CASE inHand' = <<>> /\ cancelled
    <2>1. Says(inHand', p) = {}
      BY <1>3, FewWords
    <2>2. Says(out, p)' = Says(out, p) /\ Held(p)' = Held(p)
      BY <1>1 DEF Held
    <2>3. /\ Unpassed(p)' \subseteq Unpassed(p) /\ Unqueued(p)' \subseteq Unqueued(p)
          /\ Ahead(p)' \subseteq Ahead(p)
      BY <1>1, <2>1, <2>2 DEF Unpassed, Unqueued, Ahead
    <2>4. /\ Before(Says(inHand, p)', Says(out, p)') /\ Before(Says(decoded, p)', Unpassed(p)')
          /\ Before(Says(broadcast, p)', Unqueued(p)') /\ Before(Held(p)', Ahead(p)')
      BY <1>1, <2>1, <2>2, <2>3 DEF Line, Before
    <2>5. Line(p)'
      BY <1>1, <2>2, <2>3, <2>4 DEF Line
    <2>. QED  BY <1>1, <1>3, <2>3, <2>5, Typed DEF Explains
  <1>. QED  BY <1>1, <1>2, <1>3

\* What is dropped is written down, once there is a subscription that has not ended.
LEMMA Missing ==
  ASSUME SInv, OInv, NEW u \in Genuine, Miss(u), NEW p \in Polls, tally' = tally
  PROVE  /\ missed[p] =< missed'[p] /\ missed'[p] =< tally[p]
         /\ \A n \in Word(u, p) : n =< missed'[p] \/ cancelled \/ subscriber = "off"
  <1>1. /\ missed \in [Polls -> 0 .. MaxTally] /\ missed[p] \in Int /\ missed[p] =< tally[p]
        /\ u.poll \in Polls /\ u.tally \in Int /\ u.tally =< tally[u.poll]
        /\ missed[u.poll] \in Int /\ tally[p] \in Int
        /\ subscriber \in {"off", "running", "done"} /\ (subscriber = "done" => cancelled)
    <2>1. missed \in [Polls -> 0 .. MaxTally] /\ subscriber \in {"off", "running", "done"}
      BY DEF SInv, PipelineOK, Stages
    <2>2. u.poll \in Polls /\ u.tally \in 0 .. MaxTally /\ u.tally =< tally[u.poll]
      BY DEF Genuine, Updates
    <2>3. missed[p] =< tally[p] /\ (subscriber = "done" => cancelled)
      BY DEF OInv, Line, Times
    <2>4. missed[p] \in Int /\ missed[u.poll] \in Int /\ tally[p] \in Int /\ u.tally \in Int
      BY <2>2, Typed
    <2>. QED  BY <2>1, <2>2, <2>3, <2>4
  <1>2. missed'[p] = IF subscriber = "running" /\ u.poll = p /\ u.tally > missed[p]
                     THEN u.tally ELSE missed[p]
    BY <1>1 DEF Miss
  <1>3. missed[p] =< missed'[p] /\ missed'[p] =< tally[p]
    BY <1>1, <1>2
  <1>4. ASSUME NEW n \in Word(u, p), subscriber = "running" PROVE n =< missed'[p]
    <2>1. n = u.tally /\ u.poll = p
      BY DEF Word
    <2>. QED  BY <1>1, <1>2, <1>4, <2>1
  <1>. QED  BY <1>1, <1>3, <1>4

LEMMA RebroadcastingInOrder ==
  ASSUME SInv, OInv, Rebroadcast, NEW p \in Polls
  PROVE  Line(p)' /\ Explains(p)
  <1>. DEFINE u == Head(decoded)
              W == Word(u, p)
              X == Says(Tail(decoded), p)
              Y == Says(broadcast, p)
              L == Unpassed(p)
  <1>1. /\ decoded \in Seq(Genuine) /\ decoded \in Seq(Updates) /\ decoded # <<>>
        /\ decoded' = Tail(decoded) /\ broadcast \in Seq(Updates)
        /\ UNCHANGED <<out, inHand, pending, message, tally, strays>>
        /\ Line(p) /\ subscriber # "off"
    BY DEF SInv, Pipeline, PipelineOK, HInv, TypeOK, ChannelsOK, OInv, Times, Rebroadcast
  <1>2. /\ InOrder(Tail(decoded), p) /\ Says(decoded, p) = X \cup W /\ Before(W, X)
        /\ u \in Genuine /\ u \in Updates
    BY <1>1, TakeWord, TakeFirst DEF Line
  <1>3. \/ broadcast' = Append(broadcast, u) /\ UNCHANGED missed
        \/ broadcast' = broadcast /\ Miss(u)
    <2>1. Append(broadcast, u) # broadcast
      <3>1. Len(broadcast) \in Nat /\ Len(Append(broadcast, u)) = Len(broadcast) + 1
        BY <1>1, <1>2, PutLast
      <3>2. Len(Append(broadcast, u)) # Len(broadcast)
        BY <3>1
      <3>. QED  BY <3>2
    <2>. QED  BY <2>1 DEF Rebroadcast, Broadcast
  <1>. HIDE DEF u, W, X, Y, L
  <1>4. Before(X \cup W, L) /\ Before(Y, (X \cup W) \cup L)
    BY <1>1, <1>2 DEF Line, Unqueued, L, Y
  <1>5. /\ Before(X, L) /\ Before(Y \cup W, X \cup L) /\ Before(Y, W)
        /\ (Y \cup W) \cup (X \cup L) = Y \cup ((X \cup W) \cup L)
    BY <1>2, <1>4, Handover
  <1>6. /\ Says(out, p)' = Says(out, p) /\ Unpassed(p)' = L
        /\ Held(p)' = Held(p)
    BY <1>1 DEF Unpassed, Held, L
  <1>7. Says(decoded', p) = X /\ Unqueued(p)' = X \cup L
        /\ Ahead(p) = Y \cup ((X \cup W) \cup L)
    BY <1>1, <1>2, <1>6 DEF Unqueued, Ahead, X, Y, L
  <1>8. CASE broadcast' = Append(broadcast, u) /\ UNCHANGED missed
    <2>1. InOrder(broadcast', p) /\ Says(broadcast', p) = Y \cup W
      <3>1. InOrder(broadcast, p) /\ Before(Says(broadcast, p), Word(u, p))
        BY <1>1, <1>5 DEF Line, W, Y
      <3>2. /\ InOrder(Append(broadcast, u), p)
            /\ Says(Append(broadcast, u), p) = Says(broadcast, p) \cup Word(u, p)
        BY <1>1, <1>2, <3>1, PutWord
      <3>. QED  BY <1>8, <3>2 DEF W, Y
    <2>2. Ahead(p)' = Ahead(p)
      BY <1>5, <1>7, <2>1 DEF Ahead
    <2>3. Line(p)'
      BY <1>1, <1>2, <1>5, <1>6, <1>7, <1>8, <2>1, <2>2 DEF Line
    <2>. QED  BY <1>1, <1>8, <2>2, <2>3, Typed DEF Explains
  <1>9. CASE broadcast' = broadcast /\ Miss(u)
    <2>1. /\ missed[p] =< missed'[p] /\ missed'[p] =< tally[p]
          /\ \A n \in W : n =< missed'[p] \/ cancelled
      BY <1>1, <1>2, <1>9, Missing DEF W
    <2>2. Says(broadcast', p) = Y /\ Ahead(p)' = Y \cup (X \cup L)
      BY <1>7, <1>9 DEF Ahead, Y
    <2>3. Ahead(p)' \subseteq Ahead(p) /\ Ahead(p) \ Ahead(p)' \subseteq W
      BY <1>7, <2>2
    <2>4. Before(Y, X \cup L) /\ Before(Held(p), Ahead(p)')
      BY <1>1, <1>5, <2>3 DEF Line, Before
    <2>5. Ahead(p)' \subseteq 1 .. tally[p]
      BY <1>1, <2>3 DEF Line
    <2>6. Line(p)'
      BY <1>1, <1>2, <1>5, <1>6, <1>7, <1>9, <2>1, <2>2, <2>4, <2>5 DEF Line
    <2>. QED  BY <2>1, <2>3, <2>6 DEF Explains
  <1>. QED  BY <1>3, <1>8, <1>9

\* Something comes behind all that is on its way: it joins what is still to come ...
LEMMA JoiningInOrder ==
  ASSUME SInv, OInv, NEW p \in Polls, NEW m \in Sent, out' = Append(out, m),
         UNCHANGED <<inHand, decoded, broadcast, pending, message>>,
         tally'[p] \in Int, tally[p] =< tally'[p], missed'[p] =< tally'[p],
         Word(m, p) \subseteq 1 .. tally'[p], Before(1 .. tally[p], Word(m, p))
  PROVE  Line(p)' /\ Ahead(p)' = Ahead(p) \cup Word(m, p)
  <1>. DEFINE W == Word(m, p)
              N == 1 .. tally[p]
  <1>1. out \in Seq(Sent) /\ Line(p) /\ Before(N, W)
    BY DEF OInv
  <1>. HIDE DEF W, N
  <1>2. Ahead(p) \subseteq N /\ Held(p) \subseteq N
    BY <1>1 DEF Line, N
  <1>3. /\ Says(out, p) \subseteq N /\ Says(inHand, p) \subseteq N
        /\ Says(decoded, p) \subseteq N /\ Says(broadcast, p) \subseteq N
    BY <1>2 DEF Ahead, Unqueued, Unpassed
  <1>4. ASSUME NEW S \in SUBSET N, NEW T, Before(S, T) PROVE Before(S, T \cup W)
    BY <1>1, <1>4 DEF Before
  <1>5. InOrder(out', p) /\ Says(out', p) = Says(out, p) \cup W
    <2>1. InOrder(out, p) /\ Before(Says(out, p), Word(m, p))
      BY <1>1, <1>3 DEF Line, Before, W
    <2>2. /\ InOrder(Append(out, m), p)
          /\ Says(Append(out, m), p) = Says(out, p) \cup Word(m, p)
      BY <1>1, <2>1, PutWord
    <2>. QED  BY <2>2 DEF W
  <1>6. /\ Unpassed(p)' = Unpassed(p) \cup W /\ Unqueued(p)' = Unqueued(p) \cup W
        /\ Ahead(p)' = Ahead(p) \cup W /\ Held(p)' = Held(p)
    BY <1>5 DEF Unpassed, Unqueued, Ahead, Held
  <1>7. /\ Before(Says(inHand, p), Says(out', p)) /\ Before(Says(decoded, p), Unpassed(p)')
        /\ Before(Says(broadcast, p), Unqueued(p)') /\ Before(Held(p), Ahead(p)')
    BY <1>1, <1>2, <1>3, <1>4, <1>5, <1>6 DEF Line
  <1>8. Held(p)' \subseteq 1 .. tally'[p] /\ Ahead(p)' \subseteq 1 .. tally'[p]
    <2>1. N \subseteq 1 .. tally'[p] /\ W \subseteq 1 .. tally'[p]
      BY Typed DEF N, W
    <2>. QED  BY <1>2, <1>6, <2>1
  <1>9. Line(p)'
    BY <1>1, <1>5, <1>6, <1>7, <1>8 DEF Line
  <1>. QED  BY <1>6, <1>9 DEF W

\* ... or it does not come as far as the subscriber's channel.
LEMMA StayingInOrder ==
  ASSUME SInv, OInv, NEW p \in Polls,
         UNCHANGED <<out, inHand, decoded, broadcast, pending, message>>,
         tally'[p] \in Int, tally[p] =< tally'[p], missed'[p] =< tally'[p]
  PROVE  Line(p)' /\ Ahead(p)' = Ahead(p)
  <1>1. Line(p) /\ 1 .. tally[p] \subseteq 1 .. tally'[p]
    BY Typed DEF OInv
  <1>2. /\ Unpassed(p)' = Unpassed(p) /\ Unqueued(p)' = Unqueued(p)
        /\ Ahead(p)' = Ahead(p) /\ Held(p)' = Held(p)
    BY DEF Unpassed, Unqueued, Ahead, Held
  <1>3. Held(p)' \subseteq 1 .. tally'[p] /\ Ahead(p)' \subseteq 1 .. tally'[p]
    BY <1>1, <1>2 DEF Line
  <1>. QED  BY <1>1, <1>2, <1>3 DEF Line

\* What the subscriber is given is the last of its channel, or dropped.
LEMMA ReceivedOrNot ==
  ASSUME NEW S, out \in Seq(S), NEW m \in S, Receive(m)
  PROVE  \/ out' = Append(out, m) /\ out' # out
         \/ out' = out
  <1>1. Len(out) \in Nat /\ Len(Append(out, m)) = Len(out) + 1
    BY PutLast
  <1>2. Len(Append(out, m)) # Len(out)
    BY <1>1
  <1>. QED  BY <1>2 DEF Receive

\* The next update of q joins the others on their way, or is missed, unless the server is
\* told to stop or has not subscribed.
Arrives(p) ==
    \/ tally'[p] \in Ahead(p)' /\ Ahead(p)' = Ahead(p) \cup {tally'[p]}
    \/ /\ Ahead(p)' = Ahead(p)
       /\ missed'[p] = tally'[p] \/ cancelled \/ subscriber = "off"

LEMMA PublishingInOrder ==
  ASSUME SInv, OInv, NEW q \in Polls, Publish(q), NEW p \in Polls
  PROVE  /\ out' \in Seq(Sent) /\ Line(p)'
         /\ IF p = q THEN Arrives(p)
            ELSE tally'[p] = tally[p] /\ Ahead(p)' = Ahead(p) /\ missed'[p] = missed[p]
  <1>. DEFINE u == NextUpdate(q)
              m == Message(u)
  <1>1. /\ UNCHANGED <<inHand, decoded, broadcast, pending, message>>
        /\ out \in Seq(Sent) /\ Line(p) /\ Times
        /\ tally[p] \in 0 .. MaxTally /\ tally[q] \in 0 .. MaxTally /\ MaxTally \in Nat
        /\ tally' = [tally EXCEPT ![q] = @ + 1]
        /\ tally \in [Polls -> 0 .. MaxTally] /\ missed \in [Polls -> 0 .. MaxTally]
        /\ subscriber \in {"off", "running", "done"}
    BY Typed DEF OInv, Publish, hub, SInv, PipelineOK, Stages, HInv, TypeOK, StateOK
  <1>2. /\ p = q => tally'[p] = tally[p] + 1
        /\ p # q => tally'[p] = tally[p]
        /\ tally'[p] \in 0 .. MaxTally
    BY <1>1, UpdateComes
  <1>3. /\ u.poll = q /\ u.tally = tally[q] + 1
        /\ Word(m, p) = IF p = q THEN {tally[q] + 1} ELSE {}
    <2>1. u.poll = q /\ u.tally = tally[q] + 1 /\ m.poll = q /\ m.tally = tally[q] + 1
      BY DEF NextUpdate, Message
    <2>2. tally[q] + 1 \in 0 .. MaxTally
      BY UpdateComes
    <2>. HIDE DEF u, m
    <2>. QED  BY <2>1, <2>2 DEF Word
  <1>4. m \in Sent
    <2>1. m \in Messages
      BY UpdateComes DEF Passable
    <2>2. Recognised(m)
      BY DEF Recognised, Message
    <2>. HIDE DEF m
    <2>. QED  BY <2>1, <2>2 DEF Sent
  <1>5. missed[p] =< tally[p] /\ missed[p] \in 0 .. MaxTally
    BY <1>1 DEF Line
  <1>6. \/ out' = Append(out, m) /\ UNCHANGED missed
        \/ out' = out /\ Miss(u)
    BY <1>1, <1>4, Fates, ReceivedOrNot
  <1>. HIDE DEF u, m
  <1>7. CASE out' = Append(out, m) /\ UNCHANGED missed
    <2>1. /\ tally'[p] \in Int /\ tally[p] =< tally'[p] /\ missed'[p] =< tally'[p]
          /\ Word(m, p) \subseteq 1 .. tally'[p] /\ Before(1 .. tally[p], Word(m, p))
      BY <1>1, <1>2, <1>3, <1>5, <1>7 DEF Before
    <2>2. Line(p)' /\ Ahead(p)' = Ahead(p) \cup Word(m, p)
      BY <1>1, <1>4, <1>7, <2>1, JoiningInOrder
    <2>3. out' \in Seq(Sent)
      BY <1>1, <1>4, <1>7, PutLast
    <2>. QED  BY <1>2, <1>3, <1>7, <2>2, <2>3 DEF Arrives
  <1>8. CASE out' = out /\ Miss(u)
    <2>1. missed'[p] = IF subscriber = "running" /\ q = p /\ tally[q] + 1 > missed[q]
                       THEN tally[q] + 1 ELSE missed[p]
      BY <1>1, <1>3, <1>8 DEF Miss
    <2>2. /\ tally'[p] \in Int /\ tally[p] =< tally'[p] /\ missed'[p] =< tally'[p]
          /\ p # q => missed'[p] = missed[p]
          /\ p = q => missed'[p] = tally'[p] \/ subscriber # "running"
      BY <1>1, <1>2, <1>5, <2>1
    <2>3. subscriber # "running" => cancelled \/ subscriber = "off"
      BY <1>1 DEF Times
    <2>4. Line(p)' /\ Ahead(p)' = Ahead(p)
      BY <1>1, <1>8, <2>2, StayingInOrder
    <2>. QED  BY <1>1, <1>2, <1>8, <2>2, <2>3, <2>4 DEF Arrives
  <1>. QED  BY <1>6, <1>7, <1>8

LEMMA StrayingInOrder ==
  ASSUME SInv, OInv, NEW m \in Messages, Stray(m), NEW p \in Polls
  PROVE  out' \in Seq(Sent) /\ Line(p)' /\ Explains(p)
  <1>1. /\ UNCHANGED <<inHand, decoded, broadcast, pending, message, tally, missed>>
        /\ out \in Seq(Sent) /\ Line(p)
        /\ tally[p] \in 0 .. MaxTally /\ missed[p] \in 0 .. MaxTally /\ MaxTally \in Nat
    BY Typed DEF OInv, Stray, vars, rest, hub, history
  <1>2. m \in Sent /\ Word(m, p) = {}
    <2>1. m.tally = MaxTally + 1
      BY DEF Stray
    <2>. QED  BY <1>1, <2>1 DEF Sent, Word
  <1>3. out' = Append(out, m) \/ out' = out
    BY <1>1, <1>2, ReceivedOrNot DEF Stray
  <1>4. missed'[p] =< tally'[p] /\ tally'[p] \in Int /\ tally[p] =< tally'[p]
    BY <1>1 DEF Line
  <1>5. Line(p)' /\ Ahead(p)' = Ahead(p)
    <2>1. CASE out' = Append(out, m)
      <3>1. Word(m, p) \subseteq 1 .. tally'[p] /\ Before(1 .. tally[p], Word(m, p))
        BY <1>2 DEF Before
      <3>2. Line(p)' /\ Ahead(p)' = Ahead(p) \cup Word(m, p)
        BY <1>1, <1>2, <1>4, <2>1, <3>1, JoiningInOrder
      <3>. QED  BY <1>2, <3>2
    <2>2. CASE out' = out
      BY <1>1, <1>4, <2>2, StayingInOrder
    <2>. QED  BY <1>3, <2>1, <2>2
  <1>6. out' \in Seq(Sent)
    BY <1>1, <1>2, <1>3, PutLast
  <1>. QED  BY <1>1, <1>5, <1>6 DEF Explains

\* The hub takes the first of its channel in hand.
LEMMA TakingInOrder ==
  ASSUME SInv, OInv, TakeBroadcast, UNCHANGED <<strays, pipeline, missed>>, NEW p \in Polls
  PROVE  /\ Line(p)'
         /\ Ahead(p) = Ahead(p)' \cup Word(Head(broadcast), p)
         /\ Before(Word(Head(broadcast), p), Ahead(p)')
         /\ Held(p) = {} /\ Held(p)' \subseteq Word(Head(broadcast), p)
  <1>. DEFINE h == Head(broadcast)
              W == Word(h, p)
              X == Says(Tail(broadcast), p)
              L == Unqueued(p)
  <1>1. /\ broadcast \in Seq(Updates) /\ broadcast # <<>> /\ broadcast' = Tail(broadcast)
        /\ pending = {} /\ message' = IF pending' = {} THEN NoMessage ELSE h
        /\ UNCHANGED <<out, inHand, decoded, tally, strays, missed>>
        /\ Line(p)
    BY Typed DEF OInv, TakeBroadcast, rest, pipeline
  <1>2. InOrder(Tail(broadcast), p) /\ Says(broadcast, p) = X \cup W /\ Before(W, X)
    BY <1>1, TakeWord DEF Line
  <1>3. Held(p) = {} /\ Held(p)' \subseteq W
    BY <1>1 DEF Held
  <1>. HIDE DEF h, W, X, L
  <1>4. Before(X \cup W, L) /\ Ahead(p) = (X \cup W) \cup L
    BY <1>1, <1>2 DEF Line, Ahead, L
  <1>5. /\ Says(out, p)' = Says(out, p)
        /\ Unpassed(p)' = Unpassed(p) /\ Unqueued(p)' = L
    BY <1>1 DEF Unpassed, Unqueued, L
  <1>6. Says(broadcast, p)' = X /\ Ahead(p)' = X \cup L
    BY <1>1, <1>5 DEF Ahead, X
  <1>7. Before(X, L) /\ Before(W, X \cup L) /\ Ahead(p) = Ahead(p)' \cup W
    BY <1>2, <1>4, <1>6 DEF Before
  <1>8. Before(Held(p)', Ahead(p)')
    BY <1>3, <1>6, <1>7 DEF Before
  <1>9. Held(p)' \subseteq 1 .. tally[p] /\ Ahead(p)' \subseteq 1 .. tally[p]
    BY <1>1, <1>3, <1>7 DEF Line
  <1>10. Line(p)'
    BY <1>1, <1>2, <1>5, <1>6, <1>7, <1>8, <1>9 DEF Line
  <1>. QED  BY <1>3, <1>6, <1>7, <1>10 DEF h, W

\* No other step of the hub's side touches its channel; in hand it keeps what it has
\* until it has given it to all.
LEMMA HubKeepsTheLine ==
  ASSUME SInv, OInv, HubsOwn, ~TakeBroadcast, NEW p \in Polls
  PROVE  Line(p)' /\ Ahead(p)' = Ahead(p) /\ Held(p)' \subseteq Held(p)
  <1>1. /\ UNCHANGED <<out, inHand, decoded, strays, missed, tally>>
        /\ Line(p)
    BY DEF OInv, HubsOwn, pipeline
  <1>2. ASSUME NEW q \in Polls, Announce(q) PROVE FALSE
    <2>1. tally[q] \in Nat /\ tally'[q] = tally[q] + 1 /\ tally' = tally
      BY <1>1, <1>2, BuffersAssumption DEF Announce, SInv, HInv, TypeOK, StateOK
    <2>. QED  BY <2>1
  <1>3. broadcast' = broadcast /\ (pending' = {} \/ (pending # {} /\ message' = message))
    <2>1. CASE \E c \in Clients : Deliver(c)
      BY <2>1 DEF Deliver
    <2>2. CASE Cancel \/ Stop \/ UNCHANGED vars
      BY <2>2 DEF Cancel, Stop, vars, hub
    <2>3. CASE \E c \in Clients : TakeSnapshot(c) \/ PeerLeaves(c) \/ Handle(c)
      BY <2>3 DEF TakeSnapshot, PeerLeaves, Handle, Upgrade, Register, Start, SendSnapshot, hub
    <2>4. CASE \E c \in Clients : Read(c) \/ WritePump(c)
      BY <2>4
      DEF Read, ReadFails, Unregister, ReaderCloses, WritePump, Write, WriteClose, PingFails, hub
    <2>. QED  BY <1>2, <2>1, <2>2, <2>3, <2>4 DEF HubsOwn, Next, Environment
  <1>4. /\ Says(out, p)' = Says(out, p) /\ Unpassed(p)' = Unpassed(p)
        /\ Unqueued(p)' = Unqueued(p) /\ Ahead(p)' = Ahead(p) /\ Held(p)' \subseteq Held(p)
    BY <1>1, <1>3 DEF Unpassed, Unqueued, Ahead, Held
  <1>5. Before(Held(p)', Ahead(p)') /\ Held(p)' \subseteq 1 .. tally[p]
    BY <1>1, <1>4 DEF Line, Before
  <1>. QED  BY <1>1, <1>3, <1>4, <1>5 DEF Line

\* Which steps touch the hub's loop, the server's end and the subscription.
LEMMA TimesAreKept ==
  ASSUME SInv, OInv, [SNext]_svars
  PROVE  Times' /\ (cancelled => cancelled')
  <1>. USE DEF Times
  <1>0. Times /\ Started /\ HInv
    BY DEF OInv, SInv
  <1>1. ASSUME UNCHANGED fvars \/ Subscribe PROVE Times' /\ cancelled' = cancelled
    BY <1>0, <1>1 DEF Subscribe, fvars, pipeline, vars, rest, hub, client
  <1>2. ASSUME (\E q \in Polls : Publish(q)) \/ (\E m \in Messages : Stray(m))
        PROVE  Times' /\ cancelled' = cancelled
    <2>1. /\ UNCHANGED <<inHand, decoded, broadcast, pending, handler, subscriber, cancelled,
                         running>>
          /\ subscriber = "off" => out' = out
      BY <1>2, <1>0 DEF Publish, Stray, Receive, vars, rest, hub, client
    <2>. QED  BY <1>0, <2>1
  <1>3. ASSUME Pumps PROVE Times' /\ cancelled' = cancelled
    <2>1. CASE Rebroadcast
      BY <1>0, <2>1 DEF Rebroadcast
    <2>2. CASE Decode \/ Forward \/ RelayEnds \/ ManagerEnds
      <3>1. /\ UNCHANGED <<broadcast, pending, handler, subscriber, cancelled, running>>
            /\ out = <<>> /\ inHand = <<>> /\ decoded = <<>> =>
                  out' = <<>> /\ inHand' = <<>> /\ decoded' = <<>>
        BY <2>2 DEF Decode, Forward, RelayEnds, ManagerEnds, vars, rest, hub, client
      <3>. QED  BY <1>0, <3>1
    <2>3. CASE SubscriberStops
      BY <1>0, <2>3 DEF SubscriberStops, vars, rest, hub, client
    <2>. QED  BY <1>3, <2>1, <2>2, <2>3 DEF Pumps
  <1>4. ASSUME HubsOwn PROVE Times' /\ (cancelled => cancelled')
    <2>1. UNCHANGED <<out, inHand, decoded, subscriber>>
          /\ (subscriber = "off" => UNCHANGED <<broadcast, pending, handler>>)
      BY <1>4 DEF HubsOwn, pipeline, hub
    <2>2. (cancelled => cancelled') /\ (~running' => ~running \/ cancelled)
      <3>1. CASE Stop \/ Cancel \/ UNCHANGED vars \/ TakeBroadcast
        BY <3>1 DEF Stop, Cancel, TakeBroadcast, vars, rest, hub
      <3>2. ASSUME NEW c \in Clients,
                   TakeSnapshot(c) \/ PeerLeaves(c) \/ Handle(c) \/ Deliver(c)
            PROVE  UNCHANGED <<cancelled, running>>
        BY <3>2
        DEF TakeSnapshot, PeerLeaves, Handle, Upgrade, Register, Start, SendSnapshot, Deliver,
            rest, hub
      <3>3. ASSUME NEW c \in Clients, Read(c) \/ WritePump(c)
            PROVE  UNCHANGED <<cancelled, running>>
        BY <3>3
        DEF Read, ReadFails, Unregister, ReaderCloses, WritePump, Write, WriteClose,
            PingFails, rest, hub
      <3>4. ASSUME NEW q \in Polls, Announce(q) PROVE UNCHANGED <<cancelled, running>>
        BY <3>4 DEF Announce
      <3>. QED
        BY <1>4, <3>1, <3>2, <3>3, <3>4 DEF HubsOwn, Next, Environment
    <2>. QED  BY <1>0, <2>1, <2>2
  <1>. QED
    BY <1>0, <1>1, <1>2, <1>3, <1>4, StepsOfTheServer, RunTouchesNothingElse

LEMMA OrderIsKept ==
  ASSUME SInv, OInv, [SNext]_svars
  PROVE  OInv'
  <1>1. Started /\ out \in Seq(Sent) /\ Times' /\ \A p \in Polls : Line(p)
    BY TimesAreKept DEF SInv, OInv
  <1>2. ASSUME UNCHANGED fvars \/ Subscribe PROVE out' = out /\ \A p \in Polls : Line(p)'
    BY <1>2, EndingInOrder DEF fvars, pipeline, Subscribe
  <1>3. ASSUME Pumps PROVE out' \in Seq(Sent) /\ \A p \in Polls : Line(p)'
    <2>1. out' \in Seq(Sent)
      <3>1. out' = out \/ (out # <<>> /\ out' = Tail(out))
        BY <1>3
        DEF Pumps, SubscriberStops, Decode, Forward, RelayEnds, Rebroadcast, ManagerEnds
      <3>. QED  BY <1>1, <3>1, TakeFirst
    <2>2. ASSUME NEW p \in Polls PROVE Line(p)'
      BY <1>3, DecodingInOrder, ForwardingInOrder, EndingInOrder, RebroadcastingInOrder DEF Pumps
    <2>. QED  BY <2>1, <2>2
  <1>4. ASSUME (\E q \in Polls : Publish(q)) \/ (\E m \in Messages : Stray(m))
        PROVE  out' \in Seq(Sent) /\ \A p \in Polls : Line(p)'
    <2>1. ASSUME NEW p \in Polls PROVE out' \in Seq(Sent) /\ Line(p)'
      BY <1>4, <2>1, PublishingInOrder, StrayingInOrder
    <2>. QED  BY <2>1, PollsAssumption
  <1>5. ASSUME HubsOwn PROVE out' = out /\ \A p \in Polls : Line(p)'
    <2>1. UNCHANGED <<strays, pipeline, missed>>
      BY <1>5 DEF HubsOwn
    <2>. QED  BY <1>5, <2>1, TakingInOrder, HubKeepsTheLine DEF pipeline
  <1>6. Sent' = Sent
    BY DEF Sent, Messages, Recognised
  <1>. QED
    BY <1>1, <1>2, <1>3, <1>4, <1>5, <1>6, StepsOfTheServer, RunTouchesNothingElse DEF OInv

LEMMA OrderAtFirst == SInit => OInv
  <1>. SUFFICES ASSUME SInit PROVE OInv
    OBVIOUS
  <1>1. /\ out = <<>> /\ inHand = <<>> /\ decoded = <<>> /\ broadcast = <<>> /\ pending = {}
        /\ subscriber = "off" /\ running
        /\ \A c \in Clients : handler[c] = "idle"
        /\ \A p \in Polls : tally[p] = 0 /\ missed[p] = 0
    BY DEF SInit, FInit, Init
  <1>2. out \in Seq(Sent)
    BY <1>1, EmptySeq
  <1>3. ASSUME NEW p \in Polls PROVE Line(p)
    <2>1. /\ Unpassed(p) = {} /\ Unqueued(p) = {}
          /\ Ahead(p) = {} /\ Held(p) = {}
      BY <1>1, FewWords DEF Unpassed, Unqueued, Ahead, Held
    <2>. QED  BY <1>1, <2>1, FewWords DEF Line, Before
  <1>. QED  BY <1>1, <1>2, <1>3 DEF OInv, Times

-----------------------------------------------------------------------------
(* What becomes of an update: it is missed, it overtakes a snapshot, or it is shown. *)

\* When the newest standing of p is neither missed nor still to come, nothing is, and the
\* hub holds nothing older of p in hand.
Passed(p) ==
    ~cancelled /\ tally[p] \notin Ahead(p) \cup {missed[p]} =>
        Ahead(p) = {} /\ Held(p) \subseteq {tally[p]}

\* What the hub has still to give client c, and what comes behind it.
Given(c) == IF c \in pending THEN Word(message, Watch[c]) ELSE {}
Coming(c) == Given(c) \cup Ahead(Watch[c])

\* What client c has been sent is in order, and comes before all that is to come, but for
\* its snapshot, which may stand anywhere.
Apart(c, m, n) == m < n \/ began[c] \in {m, n}
Earlier(c, n) == n = began[c] \/ Before({n}, Coming(c))
Screen(c) ==
    /\ SnapshotOnItsWay(c) => snapshot[c] = began[c]
    /\ handler[c] = "idle" => send[c] = <<>> /\ seen[c] = 0
    /\ Earlier(c, seen[c])
    /\ \A i \in 1 .. Len(send[c]) :
          /\ Earlier(c, send[c][i]) /\ Apart(c, seen[c], send[c][i])
          /\ \A j \in 1 .. i - 1 : Apart(c, send[c][j], send[c][i])

\* What has overtaken the snapshot of c is older than all that is to come.
Overtaken(c) == overtaken[c] =< tally[Watch[c]] /\ Before({overtaken[c]}, Coming(c))

\* Nothing excuses c from showing the newest standing of its poll.
Expected(c) ==
    /\ ~cancelled /\ open[c]
    /\ tally[Watch[c]] \notin Coming(c) \cup {missed[Watch[c]], overtaken[c]}

\* Then its snapshot carries that standing and nothing has come before it; or it is the
\* last thing queued; or it is on the screen.
Told(c) ==
    Expected(c) =>
        /\ SnapshotOnItsWay(c) => snapshot[c] = tally[Watch[c]] /\ send[c] = <<>>
        /\ handler[c] = "returned" /\ ~Dead(c) =>
              IF send[c] = <<>> THEN seen[c] = tally[Watch[c]]
              ELSE send[c][Len(send[c])] = tally[Watch[c]]

Client(c) == AtHome(c) /\ Screen(c) /\ Overtaken(c) /\ Told(c)

EInv ==
    /\ SInv /\ OInv
    /\ \A p \in Polls : Passed(p)
    /\ \A c \in Clients : Client(c)

\* A standing that has been missed stays so until there is a newer one.
LEMMA PassedIsKept ==
  ASSUME EInv, SInv', NEW p \in Polls, Explains(p), Line(p)',
         UNCHANGED <<tally, cancelled, pending, message>>
  PROVE  /\ Passed(p)'
         /\ ~cancelled /\ subscriber # "off" /\ tally[p] \notin Ahead(p)' \cup {missed'[p]} =>
                tally[p] \notin Ahead(p) \cup {missed[p]}
  <1>1. /\ Passed(p) /\ Line(p) /\ Held(p)' = Held(p) /\ Times
        /\ missed[p] \in 0 .. MaxTally /\ tally[p] \in 0 .. MaxTally
        /\ missed'[p] \in 0 .. MaxTally /\ MaxTally \in Nat
    BY Typed DEF EInv, OInv, Held, SInv, PipelineOK
  <1>2. missed[p] =< tally[p] /\ missed'[p] =< tally[p] /\ missed[p] =< missed'[p]
    BY <1>1 DEF Line, Explains
  <1>3. missed[p] = tally[p] => missed'[p] = tally[p]
    BY <1>1, <1>2
  <1>4. tally[p] =< missed'[p] => missed'[p] = tally[p]
    BY <1>1, <1>2
  <1>5. ASSUME ~cancelled, tally[p] \notin Ahead(p)' \cup {missed'[p]}, tally[p] \in Ahead(p)
        PROVE  subscriber = "off" /\ Ahead(p)' = {}
    BY <1>4, <1>5 DEF Explains
  <1>6. ASSUME ~cancelled, tally[p] \notin Ahead(p)' \cup {missed'[p]}
        PROVE  Ahead(p)' = {} /\ Held(p) \subseteq {tally[p]}
    <2>1. CASE tally[p] \in Ahead(p)
      <3>1. pending = {}
        BY <1>1, <1>5, <1>6, <2>1 DEF Times
      <3>. QED  BY <1>5, <1>6, <2>1, <3>1 DEF Held
    <2>2. CASE tally[p] \notin Ahead(p)
      <3>1. Ahead(p) = {} /\ Held(p) \subseteq {tally[p]}
        BY <1>1, <1>3, <1>6, <2>2 DEF Passed
      <3>. QED  BY <3>1 DEF Explains
    <2>. QED  BY <2>1, <2>2
  <1>7. Passed(p)'
    BY <1>1, <1>6 DEF Passed
  <1>. QED  BY <1>3, <1>5, <1>7

\* A step that does not touch what client c is sent, while less is to come.
LEMMA ScreenAlone ==
  ASSUME NEW c \in Clients, Screen(c), Coming(c)' \subseteq Coming(c),
         send'[c] = send[c], seen'[c] = seen[c], began'[c] = began[c],
         SnapshotOnItsWay(c)' => SnapshotOnItsWay(c) /\ snapshot'[c] = snapshot[c],
         handler'[c] = "idle" => handler[c] = "idle"
  PROVE  Screen(c)'
  <1>1. \A n : Earlier(c, n) => n = began[c] \/ Before({n}, Coming(c)')
    BY DEF Earlier, Before
  <1>2. SnapshotOnItsWay(c)' => snapshot'[c] = began'[c]
    BY DEF Screen
  <1>. QED  BY <1>1, <1>2 DEF Screen, Earlier, Apart

LEMMA ToldAlone ==
  ASSUME NEW c \in Clients, Told(c), Expected(c)' => Expected(c),
         tally' = tally, send'[c] = send[c], seen'[c] = seen[c],
         SnapshotOnItsWay(c)' => SnapshotOnItsWay(c) /\ snapshot'[c] = snapshot[c],
         handler'[c] = "returned" /\ ~Dead(c)' => handler[c] = "returned" /\ ~Dead(c)
  PROVE  Told(c)'
  BY DEF Told

\* Beside the pipeline nothing happens to a client.
LEMMA PipelineKeepsClients ==
  ASSUME EInv, SInv', NEW c \in Clients, Explains(Watch[c]), Line(Watch[c])',
         UNCHANGED <<tally, cancelled, running, rooms, pending, message, client>>,
         UNCHANGED <<overtaken, began>>
  PROVE  Client(c)'
  <1>0. /\ UNCHANGED <<handler, snapshot, send, open, conn, peer, seen>>
        /\ Client(c) /\ Watch[c] \in Polls /\ Times
    BY WatchAssumption DEF client, EInv, OInv
  <1>1. Coming(c)' \subseteq Coming(c) /\ Given(c)' = Given(c)
    BY DEF Explains, Coming, Given
  <1>2. AtHome(c)'
    BY <1>0 DEF Client, AtHome
  <1>3. Screen(c)'
    BY <1>0, <1>1, ScreenAlone DEF Client, SnapshotOnItsWay
  <1>4. Overtaken(c)'
    BY <1>0, <1>1 DEF Client, Overtaken, Before
  <1>5. Told(c)'
    <2>1. CASE subscriber = "off"
      BY <1>0, <2>1 DEF Times, Told, SnapshotOnItsWay
    <2>2. CASE subscriber # "off"
      <3>1. Expected(c)' => Expected(c)
        BY <1>0, <1>1, <2>2, PassedIsKept DEF Expected, Coming
      <3>. QED  BY <1>0, <3>1, ToldAlone DEF Client, SnapshotOnItsWay, Dead
    <2>. QED  BY <2>1, <2>2
  <1>. QED  BY <1>2, <1>3, <1>4, <1>5 DEF Client

\* An update that comes is behind all that a client has been sent.
LEMMA PublishingKeepsClients ==
  ASSUME EInv, NEW q \in Polls, Publish(q)
  PROVE  (\A p \in Polls : Passed(p)') /\ (\A c \in Clients : Client(c)')
  <1>0. /\ UNCHANGED <<handler, snapshot, send, open, conn, peer, seen, running, rooms,
                       pending, message, cancelled, overtaken, began>>
        /\ SInv /\ OInv /\ Times
        /\ \A p \in Polls : tally[p] \in 0 .. MaxTally /\ Line(p)
        /\ tally' = [tally EXCEPT ![q] = @ + 1] /\ tally \in [Polls -> 0 .. MaxTally]
        /\ MaxTally \in Nat
    BY Typed DEF EInv, OInv, Publish, hub, client, SInv, HInv, TypeOK, StateOK
  <1>1. \A p \in Polls :
          IF p = q THEN Arrives(p)
          ELSE tally'[p] = tally[p] /\ Ahead(p)' = Ahead(p) /\ missed'[p] = missed[p]
    BY <1>0, PublishingInOrder
  <1>2. ASSUME NEW p \in Polls PROVE Passed(p)'
    <2>1. Held(p)' = Held(p) /\ Passed(p)
      BY <1>0 DEF Held, EInv
    <2>2. CASE p # q
      BY <1>0, <1>1, <2>1, <2>2 DEF Passed
    <2>3. CASE p = q /\ subscriber = "off"
      <3>1. Ahead(p) = {} /\ Held(p) = {}
        BY <1>0, <2>3, FewWords DEF Times, Ahead, Unqueued, Unpassed, Held
      <3>. QED  BY <1>1, <2>1, <2>3, <3>1 DEF Arrives, Passed
    <2>4. CASE p = q /\ subscriber # "off"
      BY <1>0, <1>1, <2>4 DEF Arrives, Passed
    <2>. QED  BY <2>2, <2>3, <2>4
  <1>3. ASSUME NEW c \in Clients PROVE Client(c)'
    <2>. DEFINE w == Watch[c]
                t == tally'[w]
    <2>1. /\ w \in Polls /\ Client(c) /\ Given(c)' = Given(c)
          /\ w # q => t = tally[w]
          /\ w = q => \A n \in Int : n =< tally[w] => n < t
      <3>1. w = q => tally[w] \in Nat /\ t = tally[w] + 1
        BY <1>0
      <3>. QED  BY <1>0, <1>1, <3>1, WatchAssumption DEF Given, EInv
    <2>2. /\ Coming(c)' \in {Coming(c), Coming(c) \cup {t}}
          /\ w # q => Coming(c)' = Coming(c)
      BY <1>1, <2>1 DEF Coming, Arrives
    <2>3. /\ seen[c] \in Int /\ seen[c] =< tally[w]
          /\ overtaken[c] \in Int /\ overtaken[c] =< tally[w]
          /\ \A i \in 1 .. Len(send[c]) : send[c][i] \in Int /\ send[c][i] =< tally[w]
      <3>1. /\ seen[c] \in 0 .. MaxTally /\ overtaken[c] \in 0 .. MaxTally
            /\ send[c] \in Seq(0 .. tally[w]) /\ tally[w] \in Int /\ seen[c] =< tally[w]
        BY <1>0, <2>1 DEF SInv, PipelineOK, ToTheScreen, HInv, TypeOK, StateOK
      <3>2. \A i \in 1 .. Len(send[c]) : send[c][i] \in 0 .. tally[w]
        BY <3>1, ElementOfSeq
      <3>. QED  BY <1>0, <2>1, <3>1, <3>2 DEF Client, Overtaken
    <2>. HIDE DEF t, w
    <2>4. ASSUME NEW n \in Int, n =< tally[w], Before({n}, Coming(c)) PROVE Before({n}, Coming(c)')
      BY <2>1, <2>2, <2>4 DEF Before
    <2>5. Screen(c)'
      <3>1. SnapshotOnItsWay(c)' = SnapshotOnItsWay(c)
        BY <1>0 DEF SnapshotOnItsWay
      <3>. QED  BY <1>0, <2>1, <2>3, <2>4, <3>1 DEF Client, Screen, Earlier, Apart
    <2>6. Overtaken(c)'
      <3>1. overtaken[c] =< t
        <4>1. w = q => overtaken[c] < t
          BY <2>1, <2>3
        <4>2. w # q => overtaken[c] =< t
          BY <2>1, <2>3
        <4>3. t \in Int
          BY <1>0, <2>1 DEF t
        <4>. QED  BY <2>3, <4>1, <4>2, <4>3
      <3>. QED  BY <1>0, <2>1, <2>3, <2>4, <3>1 DEF Client, Overtaken, t, w
    <2>7. Told(c)'
      <3>1. CASE w = q /\ subscriber # "off"
        <4>1. Arrives(w)
          BY <1>1, <2>1, <3>1
        <4>2. cancelled' = cancelled /\ (t \in Ahead(w)' \/ missed'[w] = t \/ cancelled)
          BY <1>0, <3>1, <4>1 DEF Arrives, t
        <4>. QED  BY <4>2 DEF Told, Expected, Coming, t, w
      <3>2. CASE w # q
        BY <1>0, <1>1, <2>1, <2>2, <3>2 DEF Client, Told, Expected, SnapshotOnItsWay, Dead, t, w
      <3>3. CASE subscriber = "off"
        BY <1>0, <3>3 DEF Times, Told, SnapshotOnItsWay
      <3>. QED  BY <3>1, <3>2, <3>3
    <2>8. AtHome(c)'
      BY <1>0, <2>1 DEF Client, AtHome
    <2>. QED  BY <2>5, <2>6, <2>7, <2>8 DEF Client
  <1>. QED  BY <1>2, <1>3

\* The hub takes an update in hand: for the viewers in the room, and past the snapshot of
\* one that is not there yet.
LEMMA TakingKeepsClients ==
  ASSUME EInv, HubTakes, UNCHANGED <<tally, strays, pipeline, missed>>
  PROVE  (\A p \in Polls : Passed(p)') /\ (\A c \in Clients : Client(c)')
  <1>. DEFINE h == Head(broadcast)
  <1>0. /\ TakeBroadcast /\ SInv /\ OInv /\ HInv /\ [Next]_vars
        /\ running /\ pending = {} /\ pending' = rooms \cap Watching(h.poll)
        /\ message' = IF pending' = {} THEN NoMessage ELSE h
        /\ UNCHANGED <<handler, snapshot, send, open, conn, peer, seen, running, rooms,
                       cancelled, tally, missed, began>>
        /\ \A p \in Polls : tally[p] \in 0 .. MaxTally /\ Line(p) /\ Passed(p)
        /\ MaxTally \in Nat
    BY Typed DEF EInv, OInv, SInv, HubTakes, TakeBroadcast, rest, client, Next
  <1>1. h \in Genuine /\ h.tally \in 0 .. MaxTally
    <2>1. broadcast \in Seq(Genuine) /\ broadcast # <<>>
      BY <1>0 DEF SInv, ToTheScreen, TakeBroadcast
    <2>2. h \in Genuine
      BY <2>1, TakeFirst
    <2>. QED  BY <2>2 DEF Genuine, Updates
  <1>. HIDE DEF h
  <1>2. ASSUME NEW p \in Polls
        PROVE  /\ Line(p)' /\ Ahead(p) = Ahead(p)' \cup Word(h, p)
               /\ Before(Word(h, p), Ahead(p)')
               /\ Held(p)' \subseteq Word(h, p)
               /\ \A n \in Word(h, p) : n = h.tally /\ h.poll = p
               /\ h.poll = p => Word(h, p) = {h.tally}
    BY <1>0, <1>1, TakingInOrder DEF h, Word
  <1>3. ASSUME NEW p \in Polls PROVE Passed(p)'
    <2>. DEFINE n == tally[p]
                W == Word(h, p)
    <2>1. n \in Int /\ Ahead(p)' \subseteq 1 .. n
      BY <1>0, <1>2 DEF Line
    <2>. HIDE DEF n, W
    <2>2. CASE n \in W
      <3>1. Ahead(p)' = {}
        <4>1. ASSUME NEW a \in Ahead(p)' PROVE FALSE
          <5>1. n < a /\ a \in 1 .. n
            BY <1>2, <2>1, <2>2 DEF Before, W
          <5>. QED  BY <2>1, <5>1
        <4>. QED  BY <4>1
      <3>2. Held(p)' \subseteq {n}
        BY <1>2, <2>2 DEF W
      <3>. QED  BY <1>0, <3>1, <3>2 DEF Passed, n
    <2>3. CASE n \notin W
      BY <1>0, <1>2, <2>3 DEF Passed, n, W
    <2>. QED  BY <2>2, <2>3
  <1>4. ASSUME NEW c \in Clients PROVE Client(c)'
    <2>. DEFINE w == Watch[c]
                past == SnapshotOnItsWay(c) /\ h.poll = w /\ c \notin rooms
    <2>1. w \in Polls /\ Client(c) /\ Coming(c) = Ahead(w)
      BY <1>0, WatchAssumption DEF Coming, Given, EInv
    <2>2. Given(c)' = IF c \in rooms /\ h.poll = w THEN Word(h, w) ELSE {}
      <3>1. c \in pending' <=> c \in rooms /\ h.poll = w
        BY <1>0 DEF Watching
      <3>2. c \in pending' => message' = h
        BY <1>0
      <3>. QED  BY <3>1, <3>2 DEF Given
    <2>3. overtaken'[c] = IF past THEN h.tally ELSE overtaken[c]
      BY DEF HubTakes, h, Watching
    <2>4. Coming(c)' = Given(c)' \cup Ahead(w)' /\ Coming(c)' \subseteq Coming(c)
      BY <1>2, <2>1, <2>2 DEF Coming
    <2>5. AtHome(c)' /\ SnapshotOnItsWay(c)' = SnapshotOnItsWay(c) /\ Dead(c)' = Dead(c)
      BY <1>0, <2>1, NextKeepsHome DEF Client, SnapshotOnItsWay, Dead
    <2>6. Screen(c)'
      BY <1>0, <2>1, <2>4, <2>5, ScreenAlone DEF Client
    <2>7. past => Coming(c)' = Ahead(w)' /\ Before({h.tally}, Ahead(w)')
      BY <1>2, <2>1, <2>2, <2>4
    <2>8. past => h.tally =< tally[w] /\ h.tally \in Ahead(w) /\ h.tally \in Int /\ tally[w] \in Int
      BY <1>0, <1>1, <1>2, <2>1 DEF Genuine
    <2>. HIDE DEF past, w
    <2>9. Overtaken(c)'
      BY <1>0, <2>1, <2>3, <2>4, <2>7, <2>8 DEF Client, Overtaken, Before, w
    <2>10. Told(c)'
      <3>1. CASE past
        <4>1. Expected(c)' => Expected(c)
          <5>. SUFFICES ASSUME Expected(c)' PROVE Expected(c)
            OBVIOUS
          <5>1. /\ ~cancelled /\ open[c] /\ tally[w] # missed[w]
                /\ tally[w] \notin Ahead(w)' /\ tally[w] # h.tally
            BY <1>0, <2>3, <2>7, <3>1 DEF Expected, w
          <5>2. tally[w] \notin Ahead(w)
            BY <1>2, <2>1, <5>1
          <5>3. overtaken[c] < h.tally /\ overtaken[c] \in Int
            <6>1. overtaken[c] \in 0 .. MaxTally
              BY <1>0 DEF SInv, PipelineOK
            <6>. QED  BY <2>1, <2>8, <3>1, <6>1 DEF Client, Overtaken, Before
          <5>4. overtaken[c] # tally[w]
            BY <2>8, <3>1, <5>3
          <5>. QED  BY <2>1, <5>1, <5>2, <5>4 DEF Expected, w
        <4>. QED  BY <1>0, <2>1, <2>5, <4>1, ToldAlone DEF Client
      <3>2. CASE ~past
        <4>1. CASE h.poll = w /\ c \notin rooms
          <5>1. ~SnapshotOnItsWay(c)
            BY <3>2, <4>1 DEF past
          <5>2. handler[c] = "returned" => ~open[c]
            BY <1>0, <2>1, <4>1 DEF Client, AtHome
          <5>. QED  BY <1>0, <2>5, <5>1, <5>2 DEF Told, Expected
        <4>2. CASE h.poll # w \/ c \in rooms
          <5>1. Coming(c)' = Coming(c)
            BY <1>2, <2>1, <2>2, <2>4, <4>2
          <5>2. Expected(c)' => Expected(c)
            BY <1>0, <2>3, <3>2, <5>1 DEF Expected
          <5>. QED  BY <1>0, <2>1, <2>5, <5>2, ToldAlone DEF Client
        <4>. QED  BY <4>1, <4>2
      <3>. QED  BY <3>1, <3>2
    <2>. QED  BY <2>5, <2>6, <2>9, <2>10 DEF Client
  <1>. QED  BY <1>3, <1>4

\* What is queued for a client is its snapshot, or the next of what is to come.
LEMMA ScreenQueues ==
  ASSUME NEW c \in Clients, NEW S, send[c] \in Seq(S), Screen(c), NEW n \in S,
         send'[c] = Append(send[c], n),
         n = began[c] \/ (n \in Coming(c) /\ Before({n}, Coming(c)')),
         Coming(c)' \subseteq Coming(c), seen'[c] = seen[c], began'[c] = began[c],
         SnapshotOnItsWay(c)' => SnapshotOnItsWay(c) /\ snapshot'[c] = snapshot[c],
         handler'[c] # "idle"
  PROVE  Screen(c)'
  <1>. DEFINE q == send[c]
              r == send'[c]
              l == Len(q)
  <1>1. /\ l \in Nat /\ Len(r) = l + 1 /\ r[l + 1] = n
        /\ \A i \in 1 .. l : r[i] = q[i]
    BY PutLast
  <1>2. /\ \A i \in 1 .. l + 1 : i \in 1 .. l \/ i = l + 1
        /\ \A i \in 1 .. l + 1 : \A j \in 1 .. i - 1 : j \in 1 .. l
        /\ \A i \in 1 .. l : i \in 1 .. l + 1
    BY <1>1
  <1>3. /\ Earlier(c, seen[c])
        /\ \A i \in 1 .. l : Earlier(c, q[i]) /\ Apart(c, seen[c], q[i])
        /\ \A i \in 1 .. l : \A j \in 1 .. i - 1 : Apart(c, q[j], q[i])
    BY DEF Screen
  <1>. HIDE DEF q, r, l
  <1>4. \A m : Earlier(c, m) => m = began[c] \/ Before({m}, Coming(c)')
    BY DEF Earlier, Before
  <1>5. \A m : Earlier(c, m) => Apart(c, m, n)
    BY DEF Earlier, Before, Apart
  <1>6. n = began[c] \/ Before({n}, Coming(c)')
    OBVIOUS
  <1>7. ASSUME NEW i \in 1 .. Len(r)
        PROVE  /\ r[i] = began[c] \/ Before({r[i]}, Coming(c)')
               /\ Apart(c, seen[c], r[i])
               /\ \A j \in 1 .. i - 1 : Apart(c, r[j], r[i])
    <2>1. CASE i = l + 1
      <3>1. ASSUME NEW j \in 1 .. i - 1 PROVE Apart(c, r[j], r[i])
        BY <1>1, <1>2, <1>3, <1>5, <2>1
      <3>. QED  BY <1>1, <1>3, <1>5, <1>6, <2>1, <3>1
    <2>2. CASE i \in 1 .. l
      <3>1. ASSUME NEW j \in 1 .. i - 1 PROVE Apart(c, r[j], r[i])
        BY <1>1, <1>2, <1>3, <2>2
      <3>. QED  BY <1>1, <1>3, <1>4, <2>2, <3>1
    <2>. QED  BY <1>1, <1>2, <2>1, <2>2
  <1>8. SnapshotOnItsWay(c)' => snapshot'[c] = began'[c]
    BY DEF Screen
  <1>. QED  BY <1>3, <1>4, <1>7, <1>8 DEF Screen, Earlier, Apart, r

\* The hub gives a client what it has in hand, or gives it up.
LEMMA DeliveringKeepsClients ==
  ASSUME EInv, HubsOwn, NEW d \in Clients, HubDelivers(d)
  PROVE  (\A p \in Polls : Passed(p)') /\ (\A c \in Clients : Client(c)')
  <1>0. /\ Deliver(d) /\ SInv /\ OInv /\ HInv /\ [Next]_vars /\ ~TakeBroadcast
        /\ d \in pending /\ pending' = pending \ {d} /\ pending \subseteq Watching(message.poll)
        /\ message' = IF pending' = {} THEN NoMessage ELSE message
        /\ pending \subseteq rooms /\ (\A c \in rooms : open[c]) /\ rooms \subseteq Clients
        /\ UNCHANGED <<handler, snapshot, conn, peer, seen, running, cancelled, tally, missed,
                       began>>
        /\ \A p \in Polls : tally[p] \in 0 .. MaxTally /\ Line(p) /\ Passed(p)
        /\ message \in Genuine /\ message.tally \in 0 .. MaxTally
    BY Typed
    DEF EInv, OInv, SInv, HInv, HubsOwn, HubDelivers, Deliver, rest, TakeBroadcast,
        HubNeverPanics, Membership, ToTheScreen, TypeOK, StateOK, Updates
  <1>1. ASSUME NEW p \in Polls PROVE Line(p)' /\ Ahead(p)' = Ahead(p) /\ Held(p)' \subseteq Held(p)
    BY <1>0, HubKeepsTheLine
  <1>2. ASSUME NEW p \in Polls PROVE Passed(p)'
    BY <1>0, <1>1 DEF Passed
  <1>3. ASSUME NEW c \in Clients PROVE AtHome(c)' /\ Client(c) /\ Watch[c] \in Polls
    BY <1>0, NextKeepsHome, WatchAssumption DEF EInv, Client
  <1>4. ASSUME NEW c \in Clients, c # d PROVE Client(c)'
    <2>1. /\ send'[c] = send[c] /\ open'[c] = open[c] /\ overtaken'[c] = overtaken[c]
          /\ c \in pending' <=> c \in pending
          /\ c \in pending => message' = message
      <3>1. send'[c] = send[c] /\ open'[c] = open[c]
        <4>1. /\ send \in [Clients -> Seq(0 .. MaxTally)] /\ open \in [Clients -> BOOLEAN]
              /\ send' = send \/ Queue(d, message.tally)
              /\ UNCHANGED open \/ Remove({d})
          BY <1>0 DEF Deliver, HInv, TypeOK, StateOK, ChannelsOK
        <4>2. send'[c] = send[c]
          BY <1>4, <4>1 DEF Queue
        <4>3. open'[c] = open[c]
          BY <1>4, <4>1 DEF Remove
        <4>. QED  BY <4>2, <4>3
      <3>2. overtaken'[c] = overtaken[c]
        BY <1>0, <1>4 DEF HubDelivers, SInv, PipelineOK
      <3>3. (c \in pending' <=> c \in pending) /\ (c \in pending => message' = message)
        BY <1>0, <1>4
      <3>. QED  BY <3>1, <3>2, <3>3
    <2>2. Coming(c)' = Coming(c)
      BY <1>1, <1>3, <2>1 DEF Coming, Given
    <2>3. Screen(c)'
      BY <1>0, <1>3, <2>1, <2>2, ScreenAlone DEF Client, SnapshotOnItsWay
    <2>4. Overtaken(c)'
      BY <1>0, <1>3, <2>1, <2>2 DEF Client, Overtaken
    <2>5. Told(c)'
      <3>1. Expected(c)' => Expected(c)
        BY <1>0, <2>1, <2>2 DEF Expected
      <3>. QED  BY <1>0, <1>3, <2>1, <3>1, ToldAlone DEF Client, SnapshotOnItsWay, Dead
    <2>. QED  BY <1>3, <2>3, <2>4, <2>5 DEF Client
  <1>5. Client(d)'
    <2>. DEFINE m == message.tally
                w == Watch[d]
    <2>1. /\ message.poll = w /\ Word(message, w) = {m} /\ Held(w) = {m} /\ w \in Polls
          /\ Given(d) = {m} /\ Coming(d) = {m} \cup Ahead(w)
          /\ Given(d)' = {} /\ Coming(d)' = Ahead(w)
      BY <1>0, <1>1, <1>3 DEF Watching, Word, Held, Given, Coming
    <2>2. Before({m}, Ahead(w)) /\ m =< tally[w]
      BY <1>0, <2>1 DEF Line, Genuine
    <2>3. /\ \/ send'[d] = Append(send[d], m) /\ open'[d] = open[d]
             \/ send'[d] = send[d] /\ ~open'[d]
          /\ overtaken'[d] = IF SnapshotOnItsWay(d) THEN m ELSE overtaken[d]
          /\ send[d] \in Seq(0 .. MaxTally) /\ m \in 0 .. MaxTally
      <3>1. \/ send'[d] = Append(send[d], m) /\ open'[d] = open[d]
            \/ send'[d] = send[d] /\ ~open'[d]
        BY <1>0 DEF Deliver, Queue, Remove, HInv, TypeOK, StateOK, ChannelsOK
      <3>2. overtaken'[d] = IF SnapshotOnItsWay(d) THEN m ELSE overtaken[d]
        BY <1>0 DEF HubDelivers, SInv, PipelineOK
      <3>3. send[d] \in Seq(0 .. MaxTally) /\ m \in 0 .. MaxTally
        BY <1>0 DEF HInv, TypeOK, ChannelsOK
      <3>. QED  BY <3>1, <3>2, <3>3
    <2>4. handler'[d] # "idle" /\ SnapshotOnItsWay(d)' = SnapshotOnItsWay(d) /\ Dead(d)' = Dead(d)
      BY <1>0 DEF HInv, Membership, SnapshotOnItsWay, Dead
    <2>. HIDE DEF m, w
    <2>5. Screen(d)'
      <3>1. CASE send'[d] = Append(send[d], m)
        <4>1. m \in Coming(d) /\ Before({m}, Coming(d)') /\ Coming(d)' \subseteq Coming(d)
          BY <2>1, <2>2
        <4>. QED  BY <1>0, <1>3, <2>3, <2>4, <3>1, <4>1, ScreenQueues DEF Client
      <3>2. CASE send'[d] = send[d]
        BY <1>0, <1>3, <2>1, <2>4, <3>2, ScreenAlone DEF Client
      <3>. QED  BY <2>3, <3>1, <3>2
    <2>6. Overtaken(d)'
      BY <1>0, <1>3, <2>1, <2>2, <2>3 DEF Client, Overtaken, Before, w
    <2>7. ASSUME Expected(d)'
          PROVE  /\ m = tally[w] /\ ~SnapshotOnItsWay(d)
                 /\ send'[d] # <<>> /\ send'[d][Len(send'[d])] = m
      <3>1. /\ ~cancelled /\ open'[d]
            /\ tally[w] \notin Ahead(w) \cup {missed[w]} /\ tally[w] # overtaken'[d]
        BY <1>0, <2>1, <2>7 DEF Expected, w
      <3>2. m = tally[w]
        BY <1>0, <2>1, <3>1 DEF Passed
      <3>3. send'[d] = Append(send[d], m)
        BY <2>3, <3>1
      <3>. QED  BY <2>3, <3>1, <3>2, <3>3, PutLast
    <2>8. Told(d)'
      BY <1>0, <2>4, <2>7 DEF Told, w
    <2>. QED  BY <1>3, <2>5, <2>6, <2>8 DEF Client
  <1>. QED  BY <1>2, <1>4, <1>5

\* A client's handler reads the standing: all that is to come is newer than nothing.
LEMMA ReadingKeepsClients ==
  ASSUME EInv, HubsOwn, NEW d \in Clients, ReadSnapshot(d)
  PROVE  (\A p \in Polls : Passed(p)') /\ (\A c \in Clients : Client(c)')
  <1>0. /\ TakeSnapshot(d) /\ SInv /\ OInv /\ HInv /\ [Next]_vars
        /\ handler[d] = "idle" /\ handler' = [handler EXCEPT ![d] = "upgrade"]
        /\ snapshot' = [snapshot EXCEPT ![d] = tally[Watch[d]]]
        /\ began' = [began EXCEPT ![d] = tally[Watch[d]]]
        /\ UNCHANGED <<out, inHand, decoded, strays, missed, broadcast, pending, message,
                       running, rooms, cancelled, tally, send, open, conn, peer, seen,
                       overtaken>>
        /\ \A p \in Polls : tally[p] \in 0 .. MaxTally /\ Line(p) /\ Passed(p)
        /\ handler \in [Clients -> Handlers] /\ snapshot \in [Clients -> 0 .. MaxTally]
        /\ began \in [Clients -> 0 .. MaxTally] /\ pending \subseteq rooms /\ d \notin rooms
    BY Typed
    DEF EInv, OInv, SInv, HInv, HubsOwn, ReadSnapshot, TakeSnapshot, rest, hub, pipeline,
        HubNeverPanics, Membership, TypeOK, StateOK, PipelineOK
  <1>1. /\ \A p \in Polls : Ahead(p)' = Ahead(p) /\ Held(p)' = Held(p)
        /\ \A c \in Clients : Coming(c)' = Coming(c)
    BY <1>0, WatchAssumption
    DEF Ahead, Unqueued, Unpassed, Held, Coming, Given
  <1>2. \A p \in Polls : Passed(p)'
    BY <1>0, <1>1 DEF Passed
  <1>3. ASSUME NEW c \in Clients PROVE AtHome(c)' /\ Client(c)
    BY <1>0, NextKeepsHome DEF EInv, Client
  <1>4. ASSUME NEW c \in Clients, c # d PROVE Client(c)'
    <2>1. handler'[c] = handler[c] /\ snapshot'[c] = snapshot[c] /\ began'[c] = began[c]
      BY <1>0, <1>4
    <2>2. Screen(c)' /\ Overtaken(c)'
      BY <1>0, <1>1, <1>3, <2>1, ScreenAlone DEF Client, Overtaken, SnapshotOnItsWay
    <2>3. Expected(c)' => Expected(c)
      BY <1>0, <1>1 DEF Expected
    <2>4. Told(c)'
      BY <1>0, <1>3, <2>1, <2>3, ToldAlone DEF Client, SnapshotOnItsWay, Dead
    <2>. QED  BY <1>3, <2>2, <2>4 DEF Client
  <1>5. Client(d)'
    <2>1. /\ handler'[d] = "upgrade" /\ snapshot'[d] = tally[Watch[d]]
          /\ began'[d] = tally[Watch[d]] /\ send[d] = <<>> /\ seen[d] = 0
      BY <1>0, <1>3 DEF Client, Screen
    <2>2. Before({0}, Coming(d))
      <3>0. Watch[d] \in Polls /\ Given(d) = {}
        BY <1>0, WatchAssumption DEF Given
      <3>1. Watch[d] \in Polls /\ tally[Watch[d]] \in Int /\ Given(d) = {}
        BY <1>0, <3>0, BuffersAssumption
      <3>2. Ahead(Watch[d]) \subseteq 1 .. tally[Watch[d]]
        BY <1>0, <3>1 DEF Line
      <3>3. \A a \in Ahead(Watch[d]) : 0 < a
        BY <3>1, <3>2
      <3>. QED  BY <3>1, <3>3 DEF Before, Coming
    <2>3. Screen(d)'
      BY <1>0, <1>1, <2>1, <2>2 DEF Screen, Earlier
    <2>4. Overtaken(d)'
      BY <1>0, <1>1, <1>3 DEF Client, Overtaken
    <2>5. Told(d)'
      BY <1>0, <2>1 DEF Told
    <2>. QED  BY <1>3, <2>3, <2>4, <2>5 DEF Client
  <1>. QED  BY <1>2, <1>4, <1>5

\* The writer takes the first of what is queued: it is shown, or lost.
LEMMA ScreenWrites ==
  ASSUME NEW c \in Clients, NEW S, send[c] \in Seq(S), send[c] # <<>>, Screen(c),
         send'[c] = Tail(send[c]), seen'[c] \in {seen[c], Head(send[c])},
         Coming(c)' = Coming(c), began'[c] = began[c], handler'[c] # "idle",
         SnapshotOnItsWay(c)' => SnapshotOnItsWay(c) /\ snapshot'[c] = snapshot[c]
  PROVE  Screen(c)'
  <1>. DEFINE q == send[c]
              r == send'[c]
              l == Len(q)
  <1>1. /\ l \in Nat /\ l >= 1 /\ Len(r) = l - 1 /\ Head(q) = q[1]
        /\ \A i \in 1 .. Len(r) : r[i] = q[i + 1]
    BY TakeFirst
  <1>2. /\ \A i \in 1 .. Len(r) : i + 1 \in 1 .. l /\ 1 \in 1 .. (i + 1) - 1
        /\ \A i \in 1 .. Len(r) : \A j \in 1 .. i - 1 :
              j \in 1 .. Len(r) /\ j + 1 \in 1 .. (i + 1) - 1
        /\ 1 \in 1 .. l
    BY <1>1
  <1>3. /\ Earlier(c, seen[c])
        /\ \A i \in 1 .. l : Earlier(c, q[i]) /\ Apart(c, seen[c], q[i])
        /\ \A i \in 1 .. l : \A j \in 1 .. i - 1 : Apart(c, q[j], q[i])
    BY DEF Screen
  <1>4. seen'[c] = seen[c] \/ seen'[c] = q[1]
    BY <1>1
  <1>. HIDE DEF q, r, l
  <1>5. Earlier(c, seen'[c])
    BY <1>2, <1>3, <1>4
  <1>6. ASSUME NEW i \in 1 .. Len(r)
        PROVE  /\ Earlier(c, r[i]) /\ Apart(c, seen'[c], r[i])
               /\ \A j \in 1 .. i - 1 : Apart(c, r[j], r[i])
    <2>1. Earlier(c, r[i]) /\ Apart(c, seen[c], r[i]) /\ Apart(c, q[1], r[i])
      BY <1>1, <1>2, <1>3
    <2>2. ASSUME NEW j \in 1 .. i - 1 PROVE Apart(c, r[j], r[i])
      BY <1>1, <1>2, <1>3
    <2>. QED  BY <1>4, <2>1, <2>2
  <1>7. SnapshotOnItsWay(c)' => snapshot'[c] = began'[c]
    BY DEF Screen
  <1>. QED  BY <1>5, <1>6, <1>7 DEF Screen, Earlier, Apart, r

LEMMA WritingKeepsClients ==
  ASSUME EInv, NEW c \in Clients, Write(c), Coming(c)' = Coming(c),
         UNCHANGED <<missed, overtaken, began>>
  PROVE  Screen(c)' /\ Overtaken(c)' /\ Told(c)'
  <1>0. /\ Client(c) /\ send[c] \in Seq(0 .. MaxTally) /\ send[c] # <<>>
        /\ send'[c] = Tail(send[c])
        /\ seen'[c] \in {seen[c], Head(send[c])}
        /\ ~Dead(c)' => ~Dead(c) /\ seen'[c] = Head(send[c])
        /\ UNCHANGED <<handler, snapshot, open, cancelled, tally>>
    BY DEF EInv, SInv, HInv, TypeOK, ChannelsOK, StateOK, Write, WriterEnds, Dead, rest
  <1>1. handler'[c] # "idle" /\ SnapshotOnItsWay(c)' = SnapshotOnItsWay(c)
    BY <1>0 DEF Client, Screen, SnapshotOnItsWay
  <1>2. Screen(c)'
    BY <1>0, <1>1, ScreenWrites DEF Client
  <1>3. Overtaken(c)'
    BY <1>0 DEF Client, Overtaken
  <1>4. IF Tail(send[c]) = <<>> THEN Head(send[c]) = send[c][Len(send[c])]
        ELSE Tail(send[c])[Len(Tail(send[c]))] = send[c][Len(send[c])]
    BY <1>0, LastStays
  <1>5. ASSUME Expected(c)'
        PROVE  /\ ~SnapshotOnItsWay(c)
               /\ handler[c] = "returned" /\ ~Dead(c) => send[c][Len(send[c])] = tally[Watch[c]]
    <2>1. Expected(c)
      BY <1>0, <1>5 DEF Expected
    <2>. QED  BY <1>0, <2>1 DEF Client, Told
  <1>6. Told(c)'
    BY <1>0, <1>1, <1>4, <1>5 DEF Told
  <1>. QED  BY <1>2, <1>3, <1>6

\* The snapshot is queued behind what has overtaken it; it is dropped only if something
\* has, and filled the buffer.
LEMMA AnsweringKeepsClients ==
  ASSUME EInv, NEW c \in Clients, SendSnapshot(c), Coming(c)' = Coming(c),
         UNCHANGED <<missed, overtaken, began>>
  PROVE  Screen(c)' /\ Overtaken(c)' /\ Told(c)'
  <1>. DEFINE n == snapshot[c]
  <1>0. /\ Client(c) /\ send[c] \in Seq(0 .. MaxTally) /\ n \in 0 .. MaxTally
        /\ SnapshotOnItsWay(c) /\ n = began[c]
        /\ handler'[c] \in {"returned", "panicked"}
        /\ open[c] => send'[c] = IF HasSpace(c) THEN Append(send[c], n) ELSE send[c]
        /\ ~open[c] => send'[c] = send[c]
        /\ UNCHANGED <<seen, open, cancelled, tally>>
    <2>1. /\ handler'[c] \in {"returned", "panicked"} /\ handler[c] = "send"
          /\ open[c] => send'[c] = IF HasSpace(c) THEN Append(send[c], n) ELSE send[c]
          /\ ~open[c] => send'[c] = send[c]
          /\ UNCHANGED <<seen, open, cancelled, tally>>
      BY DEF EInv, SInv, HInv, TypeOK, ChannelsOK, StateOK, SendSnapshot, Queue, rest
    <2>2. Client(c) /\ send[c] \in Seq(0 .. MaxTally) /\ n \in 0 .. MaxTally
      BY DEF EInv, SInv, HInv, TypeOK, ChannelsOK, StateOK
    <2>. QED  BY <2>1, <2>2 DEF SnapshotOnItsWay, Client, Screen
  <1>. HIDE DEF n
  <1>1. handler'[c] # "idle" /\ ~SnapshotOnItsWay(c)'
    BY <1>0 DEF SnapshotOnItsWay
  <1>2. Screen(c)'
    <2>1. CASE send'[c] = Append(send[c], n)
      BY <1>0, <1>1, <2>1, ScreenQueues DEF Client
    <2>2. CASE send'[c] = send[c]
      BY <1>0, <1>1, <2>2, ScreenAlone DEF Client
    <2>. QED  BY <1>0, <2>1, <2>2
  <1>3. Overtaken(c)'
    BY <1>0 DEF Client, Overtaken
  <1>4. ASSUME Expected(c)'
        PROVE  send'[c] # <<>> /\ send'[c][Len(send'[c])] = tally[Watch[c]]
    <2>1. Expected(c) /\ open[c]
      BY <1>0, <1>4 DEF Expected
    <2>2. n = tally[Watch[c]] /\ send[c] = <<>>
      BY <1>0, <2>1 DEF Client, Told, n
    <2>3. HasSpace(c)
      <3>1. Len(send[c]) = 0 /\ SendBuffer \in Nat \ {0}
        BY <2>2, EmptySeq, BuffersAssumption
      <3>. QED  BY <3>1 DEF HasSpace
    <2>4. send'[c] = Append(send[c], n)
      BY <1>0, <2>1, <2>3
    <2>. QED  BY <1>0, <2>2, <2>4, PutLast
  <1>5. Told(c)'
    BY <1>0, <1>1, <1>4 DEF Told
  <1>. QED  BY <1>2, <1>3, <1>5

\* Of the other steps some end a client, and none moves anything towards it.
LEMMA OthersKeepClients ==
  ASSUME EInv, HubsOwn, Unremarkable, UNCHANGED <<overtaken, began>>
  PROVE  (\A p \in Polls : Passed(p)') /\ (\A c \in Clients : Client(c)')
  <1>. DEFINE Alone(c) ==
                 /\ send'[c] = send[c] /\ seen'[c] = seen[c]
                 /\ SnapshotOnItsWay(c)' => SnapshotOnItsWay(c) /\ snapshot'[c] = snapshot[c]
                 /\ handler'[c] = "idle" => handler[c] = "idle"
                 /\ handler'[c] = "returned" /\ ~Dead(c)' => handler[c] = "returned" /\ ~Dead(c)
                 /\ open'[c] => open[c]
              Sends(c) == (Write(c) \/ SendSnapshot(c)) /\ UNCHANGED cancelled
              Still == UNCHANGED <<broadcast, pending, message>> /\ (cancelled => cancelled')
  <1>0. /\ SInv /\ OInv /\ HInv /\ TypeOK /\ [Next]_vars
        /\ UNCHANGED <<out, inHand, decoded, strays, missed, tally>>
        /\ \A p \in Polls : Passed(p)
        /\ \A c \in Clients : Client(c) /\ Watch[c] \in Polls
    BY WatchAssumption DEF EInv, SInv, HInv, HubsOwn, pipeline
  <1>1. Still /\ \A c \in Clients : Alone(c) \/ Sends(c)
    <2>. USE <1>0 DEF TypeOK, StateOK, ChannelsOK
    <2>1. CASE Stop \/ Cancel \/ UNCHANGED vars
      BY <2>1 DEF Stop, Cancel, Remove, vars, rest, hub, client, SnapshotOnItsWay, Dead
    <2>2. ASSUME NEW d \in Clients, Upgrade(d) \/ Register(d) \/ Start(d) \/ PeerLeaves(d)
          PROVE  Still /\ \A c \in Clients : Alone(c)
      <3>1. UNCHANGED <<broadcast, pending, message, cancelled, send, seen, open, snapshot>>
        BY <2>2 DEF Upgrade, Register, Start, PeerLeaves, rest, hub
      <3>2. ASSUME NEW c \in Clients PROVE Alone(c)
        BY <2>2, <3>1 DEF Upgrade, Register, Start, PeerLeaves, SnapshotOnItsWay, Dead
      <3>. QED  BY <3>1, <3>2
    <2>3. ASSUME NEW d \in Clients, Read(d) \/ WriteClose(d) \/ PingFails(d)
          PROVE  Still /\ \A c \in Clients : Alone(c)
      <3>1. UNCHANGED <<broadcast, pending, message, cancelled, send, seen, handler, snapshot,
                        peer>>
        BY <2>3 DEF Read, ReadFails, Unregister, ReaderCloses, WriteClose, PingFails, rest, hub
      <3>2. ASSUME NEW c \in Clients PROVE conn'[c] \in {conn[c], "closed"} /\ (open'[c] => open[c])
        BY <2>3
        DEF Read, ReadFails, Unregister, ReaderCloses, WriteClose, PingFails, WriterEnds,
            Remove, hub
      <3>3. ASSUME NEW c \in Clients PROVE Alone(c)
        BY <3>1, <3>2 DEF SnapshotOnItsWay, Dead
      <3>. QED  BY <3>1, <3>3
    <2>4. ASSUME NEW d \in Clients, Write(d) \/ SendSnapshot(d)
          PROVE  Still /\ UNCHANGED cancelled /\ \A c \in Clients \ {d} : Alone(c)
      <3>1. UNCHANGED <<broadcast, pending, message, cancelled, open, peer>>
        BY <2>4 DEF Write, SendSnapshot, rest, hub
      <3>2. ASSUME NEW c \in Clients \ {d}
            PROVE  /\ send'[c] = send[c] /\ seen'[c] = seen[c] /\ handler'[c] = handler[c]
                   /\ snapshot'[c] = snapshot[c] /\ conn'[c] = conn[c]
        BY <2>4 DEF Write, WriterEnds, SendSnapshot, Queue
      <3>3. ASSUME NEW c \in Clients \ {d} PROVE Alone(c)
        BY <3>1, <3>2 DEF SnapshotOnItsWay, Dead
      <3>. QED  BY <3>1, <3>3
    <2>5. CASE \E d \in Clients : Write(d) \/ SendSnapshot(d)
      <3>1. PICK d \in Clients : Write(d) \/ SendSnapshot(d)
        BY <2>5
      <3>2. Still /\ UNCHANGED cancelled /\ \A c \in Clients \ {d} : Alone(c)
        BY <2>4, <3>1
      <3>. HIDE DEF Still, Alone
      <3>. QED  BY <3>1, <3>2
    <2>. HIDE DEF Still, Alone, Sends
    <2>. QED  BY <2>1, <2>2, <2>3, <2>5 DEF Unremarkable, Handle, WritePump
  <1>2. /\ \A p \in Polls : Ahead(p)' = Ahead(p) /\ Held(p)' = Held(p)
        /\ \A c \in Clients : Coming(c)' = Coming(c)
    <2>1. \A p \in Polls : Ahead(p)' = Ahead(p) /\ Held(p)' = Held(p)
      BY <1>0, <1>1 DEF Ahead, Unqueued, Unpassed, Held
    <2>2. \A c \in Clients : Given(c)' = Given(c)
      BY <1>1 DEF Given
    <2>. QED  BY <1>0, <2>1, <2>2 DEF Coming
  <1>3. ASSUME NEW p \in Polls PROVE Passed(p)'
    BY <1>0, <1>1, <1>2 DEF Passed
  <1>4. ASSUME NEW c \in Clients PROVE Client(c)'
    <2>1. AtHome(c)'
      BY <1>0, NextKeepsHome DEF Client
    <2>2. CASE Alone(c)
      <3>1. Screen(c)'
        BY <1>0, <1>2, <2>2, ScreenAlone DEF Client
      <3>2. Overtaken(c)'
        BY <1>0, <1>2 DEF Client, Overtaken
      <3>3. Expected(c)' => Expected(c)
        BY <1>0, <1>1, <1>2, <2>2 DEF Expected
      <3>4. Told(c)'
        BY <1>0, <2>2, <3>3, ToldAlone DEF Client
      <3>. QED  BY <2>1, <3>1, <3>2, <3>4 DEF Client
    <2>3. CASE Sends(c)
      <3>1. Screen(c)' /\ Overtaken(c)' /\ Told(c)'
        BY <1>0, <1>2, <2>3, WritingKeepsClients, AnsweringKeepsClients
      <3>. QED  BY <2>1, <3>1 DEF Client
    <2>. QED  BY <1>1, <2>2, <2>3
  <1>. QED  BY <1>3, <1>4

LEMMA NothingComesAtFirst == SInit => EInv
  <1>. SUFFICES ASSUME SInit PROVE EInv
    OBVIOUS
  <1>1. SInv /\ OInv
    BY ServerAtFirst, OrderAtFirst
  <1>2. /\ out = <<>> /\ inHand = <<>> /\ decoded = <<>> /\ broadcast = <<>> /\ pending = {}
        /\ \A p \in Polls : tally[p] = 0 /\ missed[p] = 0
        /\ \A c \in Clients : /\ handler[c] = "idle" /\ send[c] = <<>> /\ seen[c] = 0
                              /\ overtaken[c] = 0 /\ began[c] = 0
    BY DEF SInit, FInit, Init
  <1>3. \A p : Ahead(p) = {} /\ Held(p) = {}
    BY <1>2, FewWords DEF Unpassed, Unqueued, Ahead, Held
  <1>4. \A c \in Clients : Coming(c) = {}
    BY <1>2, <1>3 DEF Coming, Given
  <1>5. \A p \in Polls : Passed(p)
    BY <1>3 DEF Passed
  <1>6. ASSUME NEW c \in Clients PROVE Client(c)
    <2>1. AtHome(c) /\ Told(c)
      BY <1>2 DEF AtHome, Told, SnapshotOnItsWay
    <2>2. Overtaken(c)
      BY <1>2, <1>4, WatchAssumption DEF Overtaken, Before
    <2>3. Len(send[c]) = 0
      BY <1>2
    <2>4. Screen(c)
      BY <1>2, <2>3 DEF Screen, SnapshotOnItsWay, Earlier
    <2>. QED  BY <2>1, <2>2, <2>4 DEF Client
  <1>. QED  BY <1>1, <1>5, <1>6 DEF EInv

LEMMA WhatBecomesOfUpdates == EInv /\ [SNext]_svars => EInv'
  <1>. SUFFICES ASSUME EInv, [SNext]_svars PROVE EInv'
    OBVIOUS
  <1>1. SInv /\ OInv /\ SInv' /\ OInv' /\ Started /\ \A c \in Clients : Watch[c] \in Polls
    BY ServerSteps, OrderIsKept, WatchAssumption DEF EInv, SInv
  <1>. DEFINE Kept == (\A p \in Polls : Passed(p)') /\ (\A c \in Clients : Client(c)')
  <1>. SUFFICES Kept
    BY <1>1 DEF EInv
  <1>2. ASSUME \A p \in Polls : Explains(p),
               UNCHANGED <<tally, cancelled, running, rooms, pending, message, client>>,
               UNCHANGED <<overtaken, began>>
        PROVE  Kept
    <2>1. \A p \in Polls : Line(p)'
      BY <1>1 DEF OInv
    <2>. QED  BY <1>1, <1>2, <2>1, PassedIsKept, PipelineKeepsClients
  <1>3. CASE UNCHANGED fvars \/ Subscribe
    <2>1. \A p \in Polls : Explains(p)
      BY <1>1, <1>3, EndingInOrder
    <2>. QED
      BY <1>2, <1>3, <2>1 DEF fvars, Subscribe, vars, rest, hub, history
  <1>4. CASE Pumps
    <2>1. \A p \in Polls : Explains(p)
      BY <1>1, <1>4, DecodingInOrder, ForwardingInOrder, EndingInOrder, RebroadcastingInOrder
      DEF Pumps
    <2>2. /\ UNCHANGED <<tally, cancelled, running, rooms, pending, message, client>>
          /\ UNCHANGED <<overtaken, began>>
      BY <1>4
      DEF Pumps, SubscriberStops, Decode, Forward, RelayEnds, Rebroadcast, ManagerEnds, vars,
          rest, hub, history
    <2>. QED  BY <1>2, <2>1, <2>2
  <1>5. ASSUME NEW m \in Messages, Stray(m) PROVE Kept
    <2>1. \A p \in Polls : Explains(p)
      BY <1>1, <1>5, StrayingInOrder
    <2>2. /\ UNCHANGED <<tally, cancelled, running, rooms, pending, message, client>>
          /\ UNCHANGED <<overtaken, began>>
      BY <1>5 DEF Stray, vars, rest, hub, history
    <2>. QED  BY <1>2, <2>1, <2>2
  <1>6. ASSUME NEW q \in Polls, Publish(q) PROVE Kept
    BY <1>6, PublishingKeepsClients
  <1>7. CASE HubsOwn
    <2>1. CASE Unremarkable /\ UNCHANGED <<overtaken, began>>
      BY <1>7, <2>1, OthersKeepClients
    <2>2. CASE HubTakes
      BY <1>7, <2>2, TakingKeepsClients DEF HubsOwn
    <2>3. ASSUME NEW c \in Clients, ReadSnapshot(c) \/ HubDelivers(c) PROVE Kept
      BY <1>7, <2>3, ReadingKeepsClients, DeliveringKeepsClients
    <2>. QED  BY <1>7, <2>1, <2>2, <2>3 DEF HubsOwn
  <1>. QED
    BY <1>1, <1>3, <1>4, <1>5, <1>6, <1>7, StepsOfTheServer, RunTouchesNothingElse

LEMMA UpdatesInvariant == SSpec => []EInv
  BY NothingComesAtFirst, WhatBecomesOfUpdates, PTL DEF SSpec

\* When nothing is left to come, the newest standing was missed, or overtook the snapshot,
\* or is what the client was told.
LEMMA NothingIsLost == EInv => MissesAreExplained
  <1>. SUFFICES ASSUME EInv, NEW c \in Clients, ~cancelled, Drained(c), Delivered,
                       tally[Watch[c]] \notin {missed[Watch[c]], overtaken[c]}
                PROVE  seen[c] = tally[Watch[c]]
    BY DEF MissesAreExplained
  <1>1. Client(c)
    BY DEF EInv
  <1>2. Ahead(Watch[c]) = {}
    BY FewWords
    DEF Delivered, Drained, Unpassed, Unqueued, Ahead
  <1>3. Expected(c)
    BY <1>2 DEF Expected, Coming, Given, Drained
  <1>. QED  BY <1>1, <1>3 DEF Client, Told, Drained

\* A screen changes with the first of what is queued for it, which is newer unless one of
\* the two is the snapshot.
LEMMA ScreensGoBackOnce ==
  ASSUME EInv, EInv', [SNext]_svars
  PROVE  \A c \in Clients : seen'[c] < seen[c] => began[c] \in {seen[c], seen'[c]}
  <1>. SUFFICES ASSUME NEW c \in Clients, seen'[c] < seen[c]
                PROVE  began[c] \in {seen[c], seen'[c]}
    OBVIOUS
  <1>1. seen[c] \in Nat /\ seen'[c] \in Nat /\ seen \in [Clients -> 0 .. MaxTally]
    BY BuffersAssumption DEF EInv, SInv, HInv, TypeOK, StateOK
  <1>2. seen' # seen
    BY <1>1
  <1>3. \E d \in Clients : Write(d)
    <2>1. ASSUME UNCHANGED fvars \/ Subscribe \/ Pumps PROVE FALSE
      BY <1>2, <2>1
      DEF Subscribe, Pumps, SubscriberStops, Decode, Forward, RelayEnds, Rebroadcast,
          ManagerEnds, fvars, vars, client
    <2>2. ASSUME (\E p \in Polls : Publish(p)) \/ (\E m \in Messages : Stray(m)) PROVE FALSE
      BY <1>2, <2>2 DEF Publish, Stray, vars, client
    <2>3. ASSUME HubTakes \/ Stop \/ Cancel \/ UNCHANGED vars PROVE FALSE
      BY <1>2, <2>3 DEF HubTakes, TakeBroadcast, Stop, Cancel, vars, client
    <2>4. ASSUME NEW d \in Clients,
                 ReadSnapshot(d) \/ HubDelivers(d) \/ Handle(d) \/ Read(d) \/ PeerLeaves(d)
                    \/ WriteClose(d) \/ PingFails(d)
          PROVE  FALSE
      BY <1>2, <2>4
      DEF ReadSnapshot, TakeSnapshot, HubDelivers, Deliver, Handle, Upgrade, Register, Start,
          SendSnapshot, Read, ReadFails, Unregister, ReaderCloses, PeerLeaves, WriteClose,
          PingFails
    <2>5. Started
      BY DEF EInv, SInv
    <2>. QED
      BY <2>1, <2>2, <2>3, <2>4, <2>5, StepsOfTheServer, RunTouchesNothingElse
      DEF HubsOwn, Unremarkable, WritePump
  <1>4. PICK d \in Clients : Write(d)
    BY <1>3
  <1>5. d = c /\ send[c] # <<>> /\ seen'[c] = Head(send[c])
    BY <1>1, <1>4 DEF Write
  <1>6. Screen(c) /\ send[c] \in Seq(0 .. MaxTally)
    BY DEF EInv, Client, SInv, HInv, TypeOK, ChannelsOK
  <1>7. 1 \in 1 .. Len(send[c]) /\ Head(send[c]) = send[c][1]
    <2>1. Len(send[c]) \in Nat /\ Len(send[c]) >= 1 /\ Head(send[c]) = send[c][1]
      BY <1>5, <1>6, TakeFirst
    <2>. QED  BY <2>1
  <1>8. Apart(c, seen[c], seen'[c])
    BY <1>5, <1>6, <1>7 DEF Screen
  <1>. QED  BY <1>1, <1>8 DEF Apart

-----------------------------------------------------------------------------
(* What it is for. *)

\* Every variable of a server keeps its type, every channel of the fan-out and the hub its
\* capacity.
THEOREM ServerTypeCorrect == SSpec => []ServerOK
  <1>1. SInv => ServerOK
    BY DEF SInv, HInv, ProcessOK, ServerOK
  <1>. QED  BY <1>1, ServerInvariant, PTL

\* Whatever fails, a request that is served finds the stores, the indexes and the
\* fan-out; only an error of run takes them away (main.go:47-98, 132-146).
THEOREM RequestsAreServed == SSpec => []RequestsFindTheirStores
  <1>1. SInv => RequestsFindTheirStores
    BY DEF SInv, Started, ProcessOK, RequestsFindTheirStores
  <1>. QED  BY <1>1, ServerInvariant, PTL

\* No screen shows what no update of its poll said, whatever comes on the channels of
\* Redis: what does not decode, or names another poll than its channel, reaches nobody
\* (events.go:67-84, realtime_service.go:93-109).
THEOREM NoScreenLies == SSpec => []ScreensAreGenuine
  <1>1. SInv => ScreensAreGenuine
    BY DEF SInv, ToTheScreen, ScreensAreGenuine
  <1>. QED  BY <1>1, ServerInvariant, PTL

\* When all is still, a screen that does not show the last update of its poll missed it for
\* one of two reasons: it was dropped before the hub, by Redis, a full channel or a saturated
\* hub (subscriber.go:60-67, hub.go:156-163), or it was fanned out while the viewer's
\* snapshot was on its way (websocket_handler.go:90-116).
THEOREM NoUpdateIsLost == SSpec => []MissesAreExplained
  BY UpdatesInvariant, NothingIsLost, PTL

\* A screen goes back to an earlier update only at its snapshot, so at most once: from
\* Redis to the browser no two updates of a poll change places (websocket_handler.go:90-116).
THEOREM ScreensGoForward == SSpec => OnlyItsSnapshotSetsAScreenBack
  <1>1. EInv /\ EInv' /\ [SNext]_svars =>
            [\A c \in Clients : seen'[c] < seen[c] => began[c] \in {seen[c], seen'[c]}]_fvars
    BY ScreensGoBackOnce
  <1>. QED
    BY <1>1, UpdatesInvariant, PTL DEF SSpec, OnlyItsSnapshotSetsAScreenBack

=============================================================================
