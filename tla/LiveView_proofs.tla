--------------------------- MODULE LiveView_proofs ---------------------------
(***************************************************************************)
(* Proofs about LiveView, for any number of sockets, attempts and votes:   *)
(* the hook's badge first, which needs only PollSocket's variables, then   *)
(* what the screen shows.                                                  *)
(***************************************************************************)
EXTENDS LiveView, SequenceTheorems, TLAPS

-----------------------------------------------------------------------------
(* The hook. *)

\* The flag that silences a close is down while the effect is set up.
FlagIsDown == enabled => ~closingDeliberately

HookInv == SocketOK /\ FlagIsDown /\ BadgeIsHonest /\ SomebodyTries

\* What any step of the page does to the hook.
HookStep ==
    \/ \E s \in Sockets :
        Enable(s) \/ TimerFires(s) \/ reconnect(s) \/ Opens(s) \/ Closes(s)
    \/ Disable \/ GoesOffline \/ Hides \/ Wakes
    \/ UNCHANGED pvars

LEMMA InitHook == Init => HookInv
  <1>. SUFFICES ASSUME PInit PROVE HookInv
    BY DEF Init
  <1>1. 0 \in 0 .. MaxAttempts /\ 0 \in Nat
    BY MaxAttemptsAssumption
  <1>2. SocketOK
    BY <1>1 DEF PInit, SocketOK
  <1>. QED  BY <1>2 DEF PInit, HookInv, FlagIsDown, BadgeIsHonest, SomebodyTries

LEMMA StepsOfTheHook == [Next]_vars => HookStep
  BY DEF Next, vars, HookStep, Appear, refresh, SocketOpens, ServerSends, SocketCloses, applyEvent,
         Vanish, Retry, Signal, VoteElsewhere, CastVote, VoteAnswered, ResultsRead, FetchAnswered

\* connect, whoever calls it, leaves a socket that will open or close, or gives up.
LEMMA ConnectTries ==
  ASSUME SocketOK, NEW s \in Sockets, NEW ever, connect(s, ever)
  PROVE  /\ socket' \in [Sockets -> {"closed", "connecting", "open", "closing"}]
         /\ socketRef' \in Sockets \cup {"none"}
         /\ retryTimer' = FALSE /\ closingDeliberately' = FALSE
         /\ \/ status' = "disconnected"
            \/ status' \in {"connecting", "reconnecting"} /\ socket'[s] = "connecting"
  BY DEF SocketOK, connect, ResetFlag

LEMMA ClosingKeepsTheOthers ==
  ASSUME SocketOK
  PROVE  /\ CloseRef(socket) \in [Sockets -> {"closed", "connecting", "open", "closing"}]
         /\ \A s \in Sockets : CloseRef(socket)[s] = "closed" <=> socket[s] = "closed"
         /\ \A s \in Sockets : socket[s] \in {"open", "closing"} =>
               CloseRef(socket)[s] \in {"open", "closing"}
         /\ \A s \in Sockets : CloseRef(socket)[s] = "open" => socket[s] = "open"
  BY DEF SocketOK, CloseRef

LEMMA HookInductive == HookInv /\ HookStep => HookInv'
  <1>. SUFFICES ASSUME HookInv, HookStep PROVE HookInv'
    OBVIOUS
  <1>0. SocketOK
    BY DEF HookInv
  <1>1. ASSUME NEW s \in Sockets, NEW ever, connect(s, ever),
               enabled' \in BOOLEAN, awake' \in BOOLEAN, malformed' \in BOOLEAN,
               strays' \in Nat, attempts' \in 0 .. MaxAttempts, everConnected' \in BOOLEAN
        PROVE  HookInv'
    BY <1>0, <1>1, ConnectTries DEF HookInv, SocketOK, FlagIsDown, BadgeIsHonest, SomebodyTries
  <1>2. ASSUME NEW s \in Sockets, Enable(s) \/ TimerFires(s) \/ reconnect(s) PROVE HookInv'
    <2>1. /\ connect(s, FALSE) \/ connect(s, everConnected)
          /\ enabled' \in BOOLEAN /\ awake' \in BOOLEAN /\ malformed' \in BOOLEAN
          /\ everConnected' \in BOOLEAN
      BY <1>0, <1>2 DEF Enable, TimerFires, reconnect, SocketOK
    <2>2. strays' \in Nat
      <3>1. strays' = strays \/ (strays > 0 /\ strays' = strays - 1)
        BY <1>2 DEF Enable, TimerFires, reconnect
      <3>. QED  BY <1>0, <3>1 DEF SocketOK
    <2>3. attempts' \in 0 .. MaxAttempts
      <3>1. attempts' \in {0, attempts}
        BY <1>2 DEF Enable, TimerFires, reconnect
      <3>. QED  BY <1>0, <3>1, MaxAttemptsAssumption DEF SocketOK
    <2>. QED  BY <1>1, <2>1, <2>2, <2>3
  <1>3. ASSUME NEW s \in Sockets, Opens(s) PROVE HookInv'
    BY <1>3, MaxAttemptsAssumption
    DEF Opens, HookInv, SocketOK, FlagIsDown, BadgeIsHonest, SomebodyTries
  <1>4. ASSUME NEW s \in Sockets, Closes(s) PROVE HookInv'
    <2>1. SocketOK'
      <3>1. attempts' \in 0 .. MaxAttempts
        BY <1>0, <1>4, MaxAttemptsAssumption DEF Closes, SocketOK, Exhausted, Attempt
      <3>2. strays' \in Nat /\ retryTimer' \in BOOLEAN
        <4>1. strays' \in {strays, strays + 1} /\ retryTimer' \in {retryTimer, TRUE}
          BY <1>4 DEF Closes
        <4>2. strays \in Nat /\ retryTimer \in BOOLEAN
          BY <1>0 DEF SocketOK
        <4>3. strays' \in Nat
          BY <4>1, <4>2
        <4>4. retryTimer' \in BOOLEAN
          BY <4>1, <4>2
        <4>. QED  BY <4>3, <4>4
      <3>3. status' \in {"connecting", "connected", "reconnecting", "disconnected"}
        BY <1>0, <1>4 DEF Closes, SocketOK, Dropped
      <3>. QED  BY <1>0, <1>4, <3>1, <3>2, <3>3 DEF Closes, SocketOK
    <2>2. enabled' => \/ status' = "disconnected"
                      \/ status' = "reconnecting" /\ retryTimer'
      BY <1>4 DEF Closes, HookInv, FlagIsDown, Dropped
    <2>. QED
      BY <1>4, <2>1, <2>2 DEF Closes, HookInv, FlagIsDown, BadgeIsHonest, SomebodyTries
  <1>5. CASE Disable
    BY <1>0, <1>5, ClosingKeepsTheOthers
    DEF Disable, HookInv, SocketOK, FlagIsDown, BadgeIsHonest, SomebodyTries
  <1>6. CASE GoesOffline
    <2>1. /\ socket' \in [Sockets -> {"closed", "connecting", "open", "closing"}]
          /\ \A s \in Sockets : socket'[s] = "closed" <=> socket[s] = "closed"
          /\ \A s \in Sockets : socket[s] \in {"open", "closing"} =>
                socket'[s] \in {"open", "closing"}
      BY <1>0, <1>6, ClosingKeepsTheOthers DEF GoesOffline, SocketOK
    <2>. QED
      BY <1>6, <2>1
      DEF GoesOffline, refs, HookInv, SocketOK, FlagIsDown, BadgeIsHonest, SomebodyTries
  <1>7. CASE Hides \/ UNCHANGED pvars
    <2>1. UNCHANGED <<enabled, malformed, socket, refs, status>> /\ awake' \in BOOLEAN
      BY <1>0, <1>7 DEF Hides, pvars, SocketOK
    <2>2. SocketOK'
      BY <1>0, <2>1 DEF refs, SocketOK
    <2>. QED
      BY <2>1, <2>2 DEF refs, HookInv, FlagIsDown, BadgeIsHonest, SomebodyTries
  <1>8. CASE Wakes
    <2>1. CASE enabled /\ socketRef = "none"
      <3>1. PICK s \in Sockets : connect(s, everConnected)
        BY <1>8, <2>1 DEF Wakes
      <3>2. attempts' \in 0 .. MaxAttempts
        BY <1>8, <2>1, MaxAttemptsAssumption DEF Wakes
      <3>. QED  BY <1>0, <1>1, <1>8, <2>1, <3>1, <3>2 DEF Wakes, SocketOK
    <2>2. CASE ~(enabled /\ socketRef = "none")
      BY <1>8, <2>2
      DEF Wakes, refs, HookInv, SocketOK, FlagIsDown, BadgeIsHonest, SomebodyTries
    <2>. QED  BY <2>1, <2>2
  <1>. QED  BY <1>2, <1>3, <1>4, <1>5, <1>6, <1>7, <1>8 DEF HookStep

LEMMA HookInvariant == Spec => []HookInv
  <1>1. HookInv /\ [Next]_vars => HookInv'
    BY HookInductive, StepsOfTheHook
  <1>. QED  BY <1>1, InitHook, PTL DEF Spec

\* "Live" is said only over a socket that is open, or whose end is unreported
\* (usePollWebSocket.ts:179-193).
THEOREM LiveMeansLive == Spec => []BadgeIsHonest
  <1>1. HookInv => BadgeIsHonest
    BY DEF HookInv
  <1>. QED  BY <1>1, HookInvariant, PTL

\* While the badge says that the hook is at it, a socket is there to open or close, or a
\* timer runs (usePollWebSocket.ts:6-13).
THEOREM TryingMeansTrying == Spec => []SomebodyTries
  <1>1. HookInv => SomebodyTries
    BY DEF HookInv
  <1>. QED  BY <1>1, HookInvariant, PTL

-----------------------------------------------------------------------------
(* The screen. *)

PageOK ==
    /\ tally \in Standings
    /\ wire \in [Sockets -> Seq(Standings)] /\ fed \in [Sockets -> Standings]
    /\ data \in SUBSET Standings
    /\ fetch \in Requests /\ vote \in Requests
    /\ arrived \in Standings /\ late \in BOOLEAN /\ owed \in Standings

\* What was put on an open socket is still on its way, or that or something newer has
\* arrived.
OnItsWay(s) == \E i \in 1 .. Len(wire[s]) : wire[s][i] = fed[s]

Fed == \A s \in Sockets : socket[s] = "open" => OnItsWay(s) \/ arrived >= fed[s]

\* One standing is on the screen, and it is late or no older than what has arrived.
Screen ==
    /\ \A m, n \in data : m = n
    /\ ~late => \A n \in data : n >= arrived

PageInv == PageOK /\ Fed /\ Screen

LEMMA InitPage == Init => PageInv
  <1>. SUFFICES ASSUME Init PROVE PageInv
    OBVIOUS
  <1>1. 0 \in Standings /\ {} \in SUBSET Standings
    BY MaxTallyAssumption DEF Standings
  <1>2. Idle \in Requests
    BY <1>1 DEF Idle, Requests
  <1>3. PageOK
    <2>1. <<>> \in Seq(Standings)
      BY EmptySeq
    <2>2. wire \in [Sockets -> Seq(Standings)] /\ fed \in [Sockets -> Standings]
      BY <1>1, <2>1 DEF Init
    <2>. QED  BY <1>1, <1>2, <2>2 DEF Init, PageOK
  <1>4. Fed /\ Screen
    BY DEF Init, PInit, Fed, Screen
  <1>. QED  BY <1>3, <1>4 DEF PageInv

\* What a request may carry.
LEMMA Answers ==
  /\ Idle \in Requests /\ Asked \in Requests
  /\ \A n \in Standings : Answer(n) \in Requests
  BY MaxTallyAssumption DEF Idle, Asked, Answer, Requests, Standings

\* A frame f of a socket stays on its way when the first is taken, if it is not that one.
LEMMA TakeFrame ==
  ASSUME NEW q \in Seq(Standings), q # <<>>
  PROVE  /\ Head(q) \in Standings /\ Tail(q) \in Seq(Standings)
         /\ \A f : (\E i \in 1 .. Len(q) : q[i] = f) =>
               Head(q) = f \/ \E i \in 1 .. Len(Tail(q)) : Tail(q)[i] = f
  <1>1. /\ Head(q) = q[1] /\ Tail(q) \in Seq(Standings)
        /\ Len(Tail(q)) = Len(q) - 1
        /\ \A i \in 1 .. Len(Tail(q)) : Tail(q)[i] = q[i + 1]
    BY HeadTailProperties
  <1>2. Len(q) \in Nat /\ Len(q) >= 1
    BY LenProperties, EmptySeq
  <1>3. q[1] \in Standings
    BY <1>2, ElementOfSeq
  <1>4. ASSUME NEW i \in 1 .. Len(q), i # 1
        PROVE  i - 1 \in 1 .. Len(Tail(q)) /\ Tail(q)[i - 1] = q[i]
    <2>1. i - 1 \in 1 .. Len(Tail(q)) /\ (i - 1) + 1 = i
      BY <1>1, <1>2, <1>4
    <2>. QED  BY <1>1, <2>1
  <1>. QED  BY <1>1, <1>3, <1>4

\* A frame put behind the others.
LEMMA PutFrame ==
  ASSUME NEW q \in Seq(Standings), NEW t \in Standings
  PROVE  /\ Append(q, t) \in Seq(Standings)
         /\ \E i \in 1 .. Len(Append(q, t)) : Append(q, t)[i] = t
         /\ \A f : (\E i \in 1 .. Len(q) : q[i] = f) =>
               \E i \in 1 .. Len(Append(q, t)) : Append(q, t)[i] = f
  <1>1. /\ Append(q, t) \in Seq(Standings)
        /\ Len(Append(q, t)) = Len(q) + 1
        /\ \A i \in 1 .. Len(q) : Append(q, t)[i] = q[i]
        /\ Append(q, t)[Len(q) + 1] = t
    BY AppendProperties
  <1>2. Len(q) \in Nat
    BY LenProperties
  <1>3. /\ Len(q) + 1 \in 1 .. Len(Append(q, t))
        /\ \A i \in 1 .. Len(q) : i \in 1 .. Len(Append(q, t))
    BY <1>1, <1>2
  <1>. QED  BY <1>1, <1>3

\* A step that opens no socket and moves no frame changes nothing of this.
LEMMA HookAlone ==
  ASSUME PageInv, UNCHANGED <<wire, fed, data, arrived, late>>,
         tally' \in Standings, owed' \in Standings, fetch' \in Requests, vote' \in Requests,
         \A s \in Sockets : socket'[s] = "open" => socket[s] = "open"
  PROVE  PageInv'
  BY DEF PageInv, PageOK, Fed, OnItsWay, Screen

\* Whatever is shown before what has arrived is marked as late.
LEMMA ShowingTellsLate ==
  ASSUME NEW n \in Standings, arrived \in Standings, Show(n),
         arrived' \in {arrived, n}
  PROVE  Screen'
  <1>1. data' = {n}
    BY DEF Show
  <1>2. CASE n < arrived
    <2>1. late'
      BY <1>2 DEF Show
    <2>. QED  BY <1>1, <2>1 DEF Screen
  <1>3. CASE ~(n < arrived)
    <2>1. n >= arrived /\ n >= n
      BY <1>3, MaxTallyAssumption DEF Standings
    <2>2. n >= arrived'
      BY <2>1
    <2>. QED  BY <1>1, <2>2 DEF Screen
  <1>. QED  BY <1>2, <1>3

\* To show the answer to a request.
LEMMA Showing ==
  ASSUME PageInv, NEW n \in Standings, Show(n), fetch' \in Requests, vote' \in Requests,
         UNCHANGED <<pvars, tally, wire, fed, arrived>>
  PROVE  PageInv'
  <1>1. PageOK'
    <2>1. owed' \in Standings /\ data' \in SUBSET Standings /\ late' \in BOOLEAN
      BY MaxTallyAssumption DEF PageInv, PageOK, Show, Standings
    <2>. QED  BY <2>1 DEF PageInv, PageOK
  <1>2. Fed'
    BY DEF PageInv, Fed, OnItsWay, pvars
  <1>3. Screen'
    BY ShowingTellsLate DEF PageInv, PageOK
  <1>. QED  BY <1>1, <1>2, <1>3 DEF PageInv

\* A frame arrives.
LEMMA Applying ==
  ASSUME PageInv, NEW s \in Sockets, applyEvent(s)
  PROVE  PageInv'
  <1>. USE MaxTallyAssumption DEF PageInv
  <1>. DEFINE n == Head(wire[s])
  <1>1. wire[s] \in Seq(Standings) /\ wire[s] # <<>> /\ wire'[s] = Tail(wire[s])
    BY DEF applyEvent, PageOK
  <1>2. n \in Standings /\ wire'[s] \in Seq(Standings)
    BY <1>1, TakeFrame
  <1>3. /\ \A d \in Sockets \ {s} : wire'[d] = wire[d]
        /\ wire' \in [Sockets -> Seq(Standings)]
        /\ UNCHANGED <<pvars, tally, fed, fetch, vote>>
    BY <1>1, <1>2 DEF applyEvent, PageOK
  <1>4. /\ arrived' \in Standings /\ arrived' >= arrived /\ arrived' >= n
        /\ arrived' \in {arrived, n}
    BY <1>2 DEF applyEvent, PageOK, Standings
  <1>5. Fed'
    <2>1. ASSUME NEW d \in Sockets, socket'[d] = "open" PROVE OnItsWay(d)' \/ arrived' >= fed'[d]
      <3>1. OnItsWay(d) \/ arrived >= fed[d]
        BY <1>3, <2>1 DEF Fed, pvars
      <3>2. CASE arrived >= fed[d]
        BY <1>3, <1>4, <3>2 DEF PageOK, Standings
      <3>3. CASE OnItsWay(d) /\ d # s
        BY <1>3, <3>3 DEF OnItsWay
      <3>4. CASE OnItsWay(d) /\ d = s
        <4>1. \E i \in 1 .. Len(wire[s]) : wire[s][i] = fed[s]
          BY <3>4 DEF OnItsWay
        <4>2. n = fed[s] \/ \E i \in 1 .. Len(Tail(wire[s])) : Tail(wire[s])[i] = fed[s]
          BY <1>1, <4>1, TakeFrame
        <4>3. n = fed[s] \/ OnItsWay(s)'
          BY <1>1, <1>3, <4>2 DEF OnItsWay
        <4>. QED  BY <1>3, <1>4, <3>4, <4>3
      <3>. QED  BY <3>1, <3>2, <3>3, <3>4
    <2>. QED  BY <2>1 DEF Fed
  <1>6. CASE Mergeable
    <2>1. Show(n)
      BY <1>6 DEF applyEvent
    <2>2. data' \in SUBSET Standings /\ late' \in BOOLEAN /\ owed' \in Standings
      BY <1>2, <2>1 DEF Show, PageOK, Standings
    <2>3. Screen'
      BY <1>2, <1>4, <2>1, ShowingTellsLate DEF PageOK
    <2>. QED  BY <1>3, <1>4, <1>5, <2>2, <2>3 DEF PageOK
  <1>7. CASE ~Mergeable
    <2>1. UNCHANGED <<data, late, owed>> /\ data = {}
      BY <1>7 DEF applyEvent, Mergeable
    <2>. QED  BY <1>3, <1>4, <1>5, <2>1 DEF PageOK, Screen
  <1>. QED  BY <1>6, <1>7

\* A socket opens with a first frame.
LEMMA Opening ==
  ASSUME PageInv, SocketOK, NEW s \in Sockets, SocketOpens(s)
  PROVE  PageInv'
  <1>. USE MaxTallyAssumption DEF PageInv
  <1>1. PICK n \in 0 .. tally : wire' = [wire EXCEPT ![s] = <<n>>] /\ fed' = [fed EXCEPT ![s] = n]
    BY DEF SocketOpens
  <1>2. n \in Standings /\ tally \in Standings
    BY DEF PageOK, Standings
  <1>3. <<n>> \in Seq(Standings) /\ Len(<<n>>) = 1 /\ <<n>>[1] = n
    BY <1>2
  <1>4. /\ wire' \in [Sockets -> Seq(Standings)] /\ fed' \in [Sockets -> Standings]
        /\ wire'[s] = <<n>> /\ fed'[s] = n
        /\ \A d \in Sockets \ {s} : wire'[d] = wire[d] /\ fed'[d] = fed[d]
    BY <1>1, <1>2, <1>3 DEF PageOK
  <1>5. fetch' \in Requests /\ owed' \in Standings
    BY <1>2, Answers DEF SocketOpens, refetch, Invalidate, PageOK, Standings
  <1>6. UNCHANGED <<tally, data, vote, arrived, late>>
    BY DEF SocketOpens
  <1>7. PageOK' /\ Screen'
    BY <1>4, <1>5, <1>6 DEF PageOK, Screen
  <1>8. \A d \in Sockets \ {s} : socket'[d] = socket[d]
    BY DEF SocketOpens, Opens, SocketOK
  <1>9. OnItsWay(s)'
    BY <1>3, <1>4 DEF OnItsWay
  <1>10. Fed'
    BY <1>4, <1>6, <1>8, <1>9 DEF Fed, OnItsWay
  <1>. QED  BY <1>7, <1>10

\* Another frame is put on a socket.
LEMMA Sending ==
  ASSUME PageInv, NEW s \in Sockets, ServerSends(s)
  PROVE  PageInv'
  <1>. USE MaxTallyAssumption DEF PageInv
  <1>1. PICK n \in 0 .. tally :
          /\ wire' = [wire EXCEPT ![s] = Append(@, n)]
          /\ fed' = [fed EXCEPT ![s] = IF n > @ THEN n ELSE @]
    BY DEF ServerSends
  <1>2. n \in Standings /\ wire[s] \in Seq(Standings)
    BY DEF PageOK, Standings
  <1>3. /\ wire'[s] = Append(wire[s], n) /\ wire' \in [Sockets -> Seq(Standings)]
        /\ fed'[s] \in {n, fed[s]} /\ fed' \in [Sockets -> Standings]
        /\ \A d \in Sockets \ {s} : wire'[d] = wire[d] /\ fed'[d] = fed[d]
    BY <1>1, <1>2, PutFrame DEF PageOK
  <1>4. UNCHANGED <<pvars, tally, data, fetch, vote, arrived, late, owed>>
    BY DEF ServerSends
  <1>5. PageOK' /\ Screen'
    BY <1>3, <1>4 DEF PageOK, Screen
  <1>6. fed'[s] = n => OnItsWay(s)'
    BY <1>2, <1>3, PutFrame DEF OnItsWay
  <1>7. fed'[s] = fed[s] /\ OnItsWay(s) => OnItsWay(s)'
    BY <1>2, <1>3, PutFrame DEF OnItsWay
  <1>8. \A d \in Sockets \ {s} : OnItsWay(d) => OnItsWay(d)'
    BY <1>3 DEF OnItsWay
  <1>9. Fed'
    BY <1>3, <1>4, <1>6, <1>7, <1>8 DEF Fed, pvars
  <1>. QED  BY <1>5, <1>9

LEMMA Closing ==
  ASSUME PageInv, SocketOK, NEW s \in Sockets, SocketCloses(s)
  PROVE  PageInv'
  <1>1. <<>> \in Seq(Standings) /\ 0 \in Standings
    BY MaxTallyAssumption, EmptySeq DEF Standings
  <1>2. /\ wire' \in [Sockets -> Seq(Standings)] /\ fed' \in [Sockets -> Standings]
        /\ \A d \in Sockets \ {s} : wire'[d] = wire[d] /\ fed'[d] = fed[d]
    BY <1>1 DEF SocketCloses, PageInv, PageOK
  <1>3. /\ socket'[s] = "closed" /\ \A d \in Sockets \ {s} : socket'[d] = socket[d]
        /\ UNCHANGED <<tally, data, fetch, vote, arrived, late, owed>>
    BY DEF SocketCloses, Closes, SocketOK
  <1>. QED  BY <1>2, <1>3 DEF PageInv, PageOK, Fed, OnItsWay, Screen

LEMMA PageInductive == PageInv /\ HookInv /\ [Next]_vars => PageInv'
  <1>. SUFFICES ASSUME PageInv, HookInv, [Next]_vars PROVE PageInv'
    OBVIOUS
  <1>0. SocketOK
    BY DEF HookInv
  <1>1. /\ tally \in Standings /\ owed \in Standings /\ 0 \in Standings
        /\ fetch \in Requests /\ vote \in Requests
        /\ fetch.standing \in Standings /\ vote.standing \in Standings
    BY MaxTallyAssumption DEF PageInv, PageOK, Requests, Standings
  <1>2. /\ Idle \in Requests /\ Asked \in Requests
        /\ Invalidate(fetch) \in Requests /\ refetch(fetch) \in Requests
    BY <1>1, Answers DEF Invalidate, refetch
  <1>3. ASSUME NEW s \in Sockets, NEW ever, connect(s, ever)
        PROVE  \A d \in Sockets : socket'[d] = "open" => socket[d] = "open"
    BY <1>0, <1>3 DEF connect, SocketOK
  <1>4. ASSUME NEW s \in Sockets, Appear(s) \/ refresh(s) PROVE PageInv'
    <2>1. connect(s, FALSE) \/ connect(s, everConnected)
      BY <1>4 DEF Appear, refresh, Enable, reconnect
    <2>2. \A d \in Sockets : socket'[d] = "open" => socket[d] = "open"
      BY <1>3, <2>1
    <2>. QED  BY <1>1, <1>2, <1>4, <2>2, HookAlone DEF Appear, refresh
  <1>5. CASE Retry
    <2>1. PICK s \in Sockets : connect(s, everConnected)
      BY <1>5 DEF Retry, TimerFires
    <2>2. \A d \in Sockets : socket'[d] = "open" => socket[d] = "open"
      BY <1>3, <2>1
    <2>. QED  BY <1>1, <1>5, <2>2, HookAlone DEF Retry
  <1>6. CASE Vanish
    BY <1>0, <1>1, <1>2, <1>6, HookAlone, ClosingKeepsTheOthers DEF Vanish, Disable
  <1>7. CASE Signal
    <2>1. \A d \in Sockets : socket'[d] = "open" => socket[d] = "open"
      BY <1>0, <1>3, <1>7, ClosingKeepsTheOthers DEF Signal, GoesOffline, Hides, Wakes
    <2>. QED  BY <1>1, <1>7, <2>1, HookAlone DEF Signal
  <1>8. CASE VoteElsewhere \/ CastVote
    <2>1. tally' \in Standings
      BY <1>8, <1>1, MaxTallyAssumption DEF VoteElsewhere, CastVote, Counted, Standings
    <2>2. vote' \in Requests
      BY <1>1, <1>8, <2>1, Answers DEF VoteElsewhere, CastVote
    <2>. QED  BY <1>1, <1>8, <2>1, <2>2, HookAlone DEF VoteElsewhere, CastVote, pvars
  <1>9. CASE VoteAnswered
    <2>1. CASE Show(vote.standing) /\ UNCHANGED fetch
      BY <1>1, <1>2, <1>9, <2>1, Showing DEF VoteAnswered
    <2>2. CASE (fetch' = refetch(fetch) \/ UNCHANGED fetch) /\ UNCHANGED <<data, late, owed>>
      BY <1>1, <1>2, <1>9, <2>2, HookAlone DEF VoteAnswered, pvars
    <2>. QED  BY <1>9, <2>1, <2>2 DEF VoteAnswered
  <1>10. CASE ResultsRead
    <2>1. fetch' \in Requests
      BY <1>1, <1>10, Answers DEF ResultsRead
    <2>. QED  BY <1>1, <1>10, <2>1, HookAlone DEF ResultsRead, pvars
  <1>11. CASE FetchAnswered
    <2>1. CASE fetch # Asked /\ Show(fetch.standing)
      BY <1>1, <1>2, <1>11, <2>1, Showing DEF FetchAnswered
    <2>2. CASE owed' = 0 /\ UNCHANGED <<data, late>>
      BY <1>1, <1>2, <1>11, <2>2, HookAlone DEF FetchAnswered, pvars
    <2>. QED  BY <1>11, <2>1, <2>2 DEF FetchAnswered
  <1>12. CASE UNCHANGED vars
    BY <1>1, <1>12, HookAlone DEF vars, pvars
  <1>. QED
    BY <1>0, <1>4, <1>5, <1>6, <1>7, <1>8, <1>9, <1>10, <1>11, <1>12,
       Opening, Sending, Closing, Applying
    DEF Next

LEMMA PageInvariant == Spec => [](HookInv /\ PageInv)
  <1>1. Init => PageInv
    BY InitPage
  <1>2. HookInv /\ PageInv /\ [Next]_vars => PageInv'
    BY PageInductive
  <1>. QED  BY <1>1, <1>2, HookInvariant, PTL DEF Spec

-----------------------------------------------------------------------------
(* What it is for. *)

\* Every variable of the page keeps its type; the attempts stay within their limit.
THEOREM ViewTypeCorrect == Spec => []ViewOK
  <1>1. HookInv /\ PageInv => ViewOK
    BY DEF HookInv, PageInv, PageOK, ViewOK
  <1>. QED  BY <1>1, PageInvariant, PTL

\* When all is quiet, a screen is older than what the servers put on an open socket only if
\* what it shows came after something newer (usePollResults.ts:48-70).
THEOREM OnlyTheLateAreStale == Spec => []StaleScreensAreLate
  <1>1. PageInv => StaleScreensAreLate
    <2>. SUFFICES ASSUME PageInv, Quiet, ~late,
                         NEW s \in Sockets, socket[s] = "open", NEW n \in data
                  PROVE  n >= fed[s]
      BY DEF StaleScreensAreLate
    <2>1. ~OnItsWay(s)
      <3>1. wire[s] = <<>>
        BY DEF Quiet
      <3>2. Len(wire[s]) = 0
        BY <3>1, EmptySeq
      <3>. QED  BY <3>2 DEF OnItsWay
    <2>2. arrived >= fed[s] /\ n >= arrived
      BY <2>1 DEF PageInv, Fed, Screen
    <2>3. arrived \in Nat /\ fed[s] \in Nat /\ n \in Nat
      BY MaxTallyAssumption DEF PageInv, PageOK, Standings
    <2>. QED  BY <2>2, <2>3
  <1>. QED  BY <1>1, PageInvariant, PTL

=============================================================================
