----------------------------- MODULE Api_proofs -----------------------------
(***************************************************************************)
(* What TLAPS proves of Api, for any number of requests, browsers and      *)
(* addresses, any limits and any clock: accounts, sessions and identities  *)
(* stay with whom they belong to.  A request is the origin of the account, *)
(* the poll, the ballot and the identity that are named after it; so who a *)
(* thing belongs to can be told from its name and never changes.           *)
(***************************************************************************)
EXTENDS Api, FiniteSetTheorems, TLAPS

-----------------------------------------------------------------------------
(* The inductive invariant. *)

\* The account named id was asked for by browser b.
Mine(b, id) == id \in Requests /\ sent[id] # NotSent /\ sent[id].browser = b

\* Identity v was issued to browser b, on a request that had none.
IssuedTo(b, v) ==
    /\ v \in Requests /\ sent[v] # NotSent
    /\ sent[v].op \in VoterOps /\ sent[v].voter = NoVoter
    /\ sent[v].browser = b

\* An answer to r sets and names only what is its sender's.
Truthful(r, session, voter, shows) ==
    /\ session \subseteq Tokens
    /\ \A t \in session : t = NoToken \/ Mine(Sender(r), t.user)
    /\ \A v \in voter : v = r /\ IssuedTo(Sender(r), r)
    /\ IF sent[r].op \in VoterOps
       THEN shows \subseteq {Sender(r)}
       ELSE \A id \in shows : id \in UserIDs /\ Mine(Sender(r), id)

\* The next time r is sent to the limiter, and all after it, are still to come.
Uncounted(r) == \A n \in resent[r] .. MaxRetries : hit[<<r, n>>] = NotCounted

Fresh ==
    \A r \in Requests : sent[r] = NotSent =>
        /\ left[r] = <<>> /\ caller[r] = {} /\ answer[r] = NoAnswer
        /\ resent[r] = 0 /\ Uncounted(r)

\* What can be left of a route: the limiter is met at one stage.
OnRoute ==
    \A r \in Requests :
        \/ left[r] \in {<<>>, <<"serve">>, <<"auth", "serve">>}
        \/ /\ left[r] = <<"limit", "serve">>
           /\ sent[r].op \in {"register", "login", "create", "vote"}
           /\ Uncounted(r)
        \/ left[r] = <<"auth", "limit", "serve">> /\ sent[r].op = "create" /\ Uncounted(r)

StoresTruthful ==
    /\ \A u \in users : Mine(u.password, u.id) /\ u.email.spelling = "normal"
    /\ OneAccountPerAddress
    /\ \A p \in polls : sent[p.id] # NotSent /\ Mine(Sender(p.id), p.owner)
    /\ \A v \in ballots :
        /\ sent[v.id] # NotSent
        /\ v.option = Sender(v.id)
        /\ IssuedTo(Sender(v.id), v.voter)
    /\ \A v, w \in ballots : v.voter = w.voter => v = w

JarsTruthful ==
    \A b \in Browsers :
        /\ jar[b].session = NoToken \/ Mine(b, jar[b].session.user)
        /\ jar[b].voter.id = NoVoter \/ IssuedTo(b, jar[b].voter.id)

RequestsTruthful ==
    \A r \in Requests : sent[r] # NotSent =>
        /\ sent[r].session = NoToken \/ Mine(Sender(r), sent[r].session.user)
        /\ sent[r].voter = NoVoter \/ IssuedTo(Sender(r), sent[r].voter)
        /\ \A id \in caller[r] : Mine(Sender(r), id)
        /\ Truthful(r, answer[r].session, answer[r].voter, answer[r].shows)

IInv ==
    /\ ApiOK /\ Fresh /\ OnRoute
    /\ StoresTruthful /\ JarsTruthful /\ RequestsTruthful

-----------------------------------------------------------------------------
(* What a step needs to know of the state. *)

LEMMA NoTokenIsToken == NoToken \in Tokens
  BY DEF Tokens

LEMMA TokenIsToken ==
  ASSUME NEW id \in UserIDs, NEW t \in Nat
  PROVE  Token(id, t) \in Tokens /\ Token(id, t).user = id
  BY TokenLifeAssumption DEF Token, Tokens

\* A request that has been sent.
LEMMA SentRequest ==
  ASSUME ApiOK, NEW r \in Requests, sent[r] # NotSent
  PROVE  /\ sent[r].op \in Ops /\ Sender(r) \in Browsers
         /\ sent[r].session \in Tokens /\ sent[r].voter \in Identities
  BY DEF ApiOK, Messages, Sender

\* A request with a stage before it has been sent.
LEMMA AtIsSent ==
  ASSUME Fresh, NEW r \in Requests, NEW stage, At(r, stage)
  PROVE  sent[r] # NotSent /\ left[r] # <<>>
  BY DEF Fresh, At

\* What belongs to somebody goes on doing so, as no request is sent twice.
LEMMA BelongingsStay ==
  ASSUME \A q \in Requests : sent[q] # NotSent => sent'[q] = sent[q],
         NEW b, NEW x
  PROVE  /\ Mine(b, x) => Mine(b, x)'
         /\ IssuedTo(b, x) => IssuedTo(b, x)'
  BY DEF Mine, IssuedTo

LEMMA SameBelongings ==
  ASSUME UNCHANGED sent, NEW b, NEW x
  PROVE  (Mine(b, x)' <=> Mine(b, x)) /\ (IssuedTo(b, x)' <=> IssuedTo(b, x))
  BY DEF Mine, IssuedTo

\* A truthful answer is one of the right type.
LEMMA TruthfulIsAnswer ==
  ASSUME ApiOK, NEW r \in Requests, sent[r] # NotSent,
         NEW S, NEW V, NEW W, Truthful(r, S, V, W), NEW d \in BOOLEAN
  PROVE  [session |-> S, voter |-> V, shows |-> W, delivered |-> d] \in Answers
  <1>1. Sender(r) \in Choices /\ r \in VoterIDs
    BY NamesAssumption, SentRequest
  <1>2. S \in SUBSET Tokens /\ V \in SUBSET VoterIDs
    BY <1>1 DEF Truthful
  <1>3. W \in SUBSET (UserIDs \cup Choices)
    BY <1>1 DEF Truthful
  <1>. QED  BY <1>2, <1>3 DEF Answers

-----------------------------------------------------------------------------
(* Answering a request. *)

HitTypes == [at : Nat, answer : {"none", "allowed", "refused", "unknown"}]

\* The counts of a request that is not concerned.
LEMMA CountsStay ==
  ASSUME ApiOK, NEW q \in Requests, resent'[q] = resent[q],
         \A h \in Hits : h[1] = q => hit'[h] = hit[h]
  PROVE  Uncounted(q)' <=> Uncounted(q)
  <1>1. resent[q] \in 0 .. MaxRetries /\ MaxRetries \in Nat
    BY LimitAssumption DEF ApiOK
  <1>2. \A n \in resent[q] .. MaxRetries : <<q, n>> \in Hits /\ <<q, n>>[1] = q
    BY <1>1 DEF Hits
  <1>3. \A n \in resent[q] .. MaxRetries : hit'[<<q, n>>] = hit[<<q, n>>]
    BY <1>2
  <1>. QED  BY <1>3 DEF Uncounted

\* A truthful answer leaves the requests as they should be.
LEMMA ReplyKeeps ==
  ASSUME IInv, NEW r \in Requests, sent[r] # NotSent,
         NEW S, NEW V, NEW W, Truthful(r, S, V, W), Reply(r, S, V, W),
         UNCHANGED <<sent, caller>>,
         UNCHANGED resent, \A h \in Hits : h[1] # r => hit'[h] = hit[h]
  PROVE  /\ left' \in [Requests -> Seq({"limit", "auth", "serve"})]
         /\ answer' \in [Requests -> Answers]
         /\ Fresh' /\ OnRoute' /\ RequestsTruthful'
  <1>. DEFINE a == [session |-> S, voter |-> V, shows |-> W,
                    delivered |-> S = {} /\ V = {}]
  <1>0. ApiOK /\ Fresh /\ OnRoute /\ RequestsTruthful
    BY DEF IInv
  <1>1. left' = [left EXCEPT ![r] = <<>>] /\ answer' = [answer EXCEPT ![r] = a]
    BY DEF Reply
  <1>2. a \in Answers
    BY <1>0, TruthfulIsAnswer
  <1>3. left \in [Requests -> Seq({"limit", "auth", "serve"})] /\ answer \in [Requests -> Answers]
    BY <1>0 DEF ApiOK
  <1>4. /\ left'[r] = <<>> /\ answer'[r] = a
        /\ \A q \in Requests \ {r} : left'[q] = left[q] /\ answer'[q] = answer[q]
    BY <1>1, <1>3
  <1>5. left' \in [Requests -> Seq({"limit", "auth", "serve"})] /\ answer' \in [Requests -> Answers]
    BY <1>1, <1>2, <1>3
  <1>. HIDE DEF a
  <1>6. \A q \in Requests \ {r} : Uncounted(q)' <=> Uncounted(q)
    BY <1>0, CountsStay
  <1>7. Fresh' /\ OnRoute'
    BY <1>0, <1>4, <1>6 DEF Fresh, OnRoute
  <1>8. RequestsTruthful'
    <2>. SUFFICES ASSUME NEW q \in Requests, sent[q] # NotSent
                  PROVE  /\ (sent[q].session = NoToken \/ Mine(Sender(q), sent[q].session.user))'
                         /\ (sent[q].voter = NoVoter \/ IssuedTo(Sender(q), sent[q].voter))'
                         /\ (\A id \in caller[q] : Mine(Sender(q), id))'
                         /\ Truthful(q, answer[q].session, answer[q].voter, answer[q].shows)'
      BY DEF RequestsTruthful
    <2>1. Sender(q)' = Sender(q)
      BY DEF Sender
    <2>2. /\ sent[q].session = NoToken \/ Mine(Sender(q), sent[q].session.user)
          /\ sent[q].voter = NoVoter \/ IssuedTo(Sender(q), sent[q].voter)
          /\ \A id \in caller[q] : Mine(Sender(q), id)
          /\ Truthful(q, answer[q].session, answer[q].voter, answer[q].shows)
      BY <1>0 DEF RequestsTruthful
    <2>3. Truthful(q, answer[q].session, answer[q].voter, answer[q].shows)'
      <3>1. CASE q = r
        BY <3>1, <1>4, <2>1 DEF Truthful, Mine, IssuedTo, a
      <3>2. CASE q # r
        <4>1. answer'[q] = answer[q]
          BY <3>2, <1>4
        <4>. QED  BY <4>1, <2>1, <2>2 DEF Truthful, Mine, IssuedTo
      <3>. QED  BY <3>1, <3>2
    <2>. QED  BY <2>1, <2>2, <2>3 DEF Mine, IssuedTo
  <1>. QED  BY <1>5, <1>7, <1>8

\* An error names nobody.
LEMMA FailIsTruthful ==
  ASSUME NEW r
  PROVE  Truthful(r, {}, {}, {})
  BY DEF Truthful

\* The identity a request is served with is its browser's, old or new.
LEMMA VoterIsIssued ==
  ASSUME IInv, NEW r \in Requests, sent[r] # NotSent, sent[r].op \in VoterOps
  PROVE  /\ IssuedTo(Sender(r), Voter(r))
         /\ \A v \in Issued(r) : v = r /\ IssuedTo(Sender(r), r)
  <1>1. sent[r].voter = NoVoter \/ IssuedTo(Sender(r), sent[r].voter)
    BY DEF IInv, RequestsTruthful
  <1>2. sent[r].voter = NoVoter => IssuedTo(Sender(r), r)
    BY DEF IssuedTo, Sender
  <1>3. Voter(r) = IF sent[r].voter = NoVoter THEN r ELSE sent[r].voter
    BY DEF Voter, Identify
  <1>. QED  BY <1>1, <1>2, <1>3 DEF Issued

\* What is found of a token or of a password is its holder's.
LEMMA FoundIsMine ==
  ASSUME IInv, NEW r \in Requests, sent[r] # NotSent
  PROVE  /\ \A u \in UserFromToken(sent[r].session, clock) : u.id \in UserIDs /\ Mine(Sender(r), u.id)
         /\ \A u \in Authenticated(Types[Sender(r)], Sender(r)) : u.id \in UserIDs /\ Mine(Sender(r), u.id)
  <1>1. \A u \in users : u.id \in UserIDs /\ Mine(u.password, u.id)
    BY DEF IInv, ApiOK, Users, StoresTruthful
  <1>2. sent[r].session = NoToken \/ Mine(Sender(r), sent[r].session.user)
    BY DEF IInv, RequestsTruthful
  <1>3. NoToken.user \notin Requests
    BY NamesAssumption DEF NoToken
  <1>. QED  BY <1>1, <1>2, <1>3 DEF UserFromToken, Authenticated, Mine

\* Every handler answers truthfully.
LEMMA HandlersAreTruthful ==
  ASSUME IInv, NEW r \in Requests, Handle(r)
  PROVE  /\ sent[r] # NotSent
         /\ UNCHANGED <<clock, hits, jar, sent, caller, resent, hit>>
         /\ \E S, V, W : Truthful(r, S, V, W) /\ Reply(r, S, V, W)
  <1>0. ApiOK /\ Fresh /\ StoresTruthful /\ RequestsTruthful
    BY DEF IInv
  <1>1. At(r, "serve") /\ sent[r] # NotSent
    BY <1>0, AtIsSent DEF Handle, Register, Login, Logout, Me, CreatePoll, List, Vote, Results, Serves
  <1>2. UNCHANGED <<clock, hits, jar, sent, caller, resent, hit>>
    BY DEF Handle, Register, Login, Logout, Me, CreatePoll, List, Vote, Results, stores
  <1>3. r \in UserIDs /\ clock \in Nat
    BY <1>0, NamesAssumption, LimitAssumption DEF ApiOK, LimiterOK
  <1>4. \A id \in caller[r] : id \in UserIDs /\ Mine(Sender(r), id)
    BY <1>0, <1>1 DEF ApiOK, RequestsTruthful
  <1>5. CASE Fail(r)
    BY <1>1, <1>2, <1>5, FailIsTruthful DEF Fail
  <1>6. CASE Register(r) /\ Reply(r, {Token(r, clock)}, {}, {r})
    <2>1. Mine(Sender(r), r)
      BY <1>1 DEF Mine, Sender
    <2>2. Token(r, clock) \in Tokens /\ Token(r, clock).user = r
      BY <1>3, TokenIsToken
    <2>3. sent[r].op \notin VoterOps
      BY <1>6 DEF Register, Serves, VoterOps
    <2>4. Truthful(r, {Token(r, clock)}, {}, {r})
      BY <2>1, <2>2, <2>3, <1>3 DEF Truthful
    <2>. QED  BY <1>1, <1>2, <1>6, <2>4
  <1>7. CASE Login(r) /\ ~Fail(r)
    <2>1. PICK u \in Authenticated(Types[Sender(r)], Sender(r)) :
              Reply(r, {Token(u.id, clock)}, {}, {u.id})
      BY <1>7 DEF Login
    <2>2. u.id \in UserIDs /\ Mine(Sender(r), u.id)
      BY <1>1, FoundIsMine
    <2>3. Token(u.id, clock) \in Tokens /\ Token(u.id, clock).user = u.id
      BY <2>2, <1>3, TokenIsToken
    <2>4. sent[r].op \notin VoterOps
      BY <1>7 DEF Login, Serves, VoterOps
    <2>5. Truthful(r, {Token(u.id, clock)}, {}, {u.id})
      BY <2>2, <2>3, <2>4 DEF Truthful
    <2>. QED  BY <1>1, <1>2, <2>1, <2>5
  <1>8. CASE Logout(r)
    <2>1. Truthful(r, {NoToken}, {}, {})
      BY NoTokenIsToken DEF Truthful
    <2>. QED  BY <1>1, <1>2, <1>8, <2>1 DEF Logout
  <1>9. CASE (Me(r) \/ CreatePoll(r)) /\ Reply(r, {}, {}, caller[r])
    <2>1. sent[r].op \notin VoterOps
      BY <1>9 DEF Me, CreatePoll, Serves, VoterOps
    <2>2. Truthful(r, {}, {}, caller[r])
      BY <2>1, <1>4 DEF Truthful
    <2>. QED  BY <1>1, <1>2, <1>9, <2>2
  <1>10. CASE List(r) /\ ~Fail(r)
    <2>. DEFINE W == {p.owner : p \in {q \in polls : q.owner \in caller[r]}}
    <2>1. sent[r].op \notin VoterOps /\ Reply(r, {}, {}, W)
      BY <1>10 DEF List, Serves, VoterOps
    <2>2. W \subseteq caller[r]
      OBVIOUS
    <2>3. Truthful(r, {}, {}, W)
      BY <2>1, <2>2, <1>4 DEF Truthful
    <2>. QED  BY <1>1, <1>2, <2>1, <2>3
  <1>11. CASE Vote(r) /\ ~Fail(r)
    <2>1. sent[r].op \in VoterOps
      BY <1>11 DEF Vote, Serves, VoterOps
    <2>2. \A v \in Issued(r) : v = r /\ IssuedTo(Sender(r), r)
      BY <2>1, <1>1, VoterIsIssued
    <2>3. Truthful(r, {}, Issued(r), {}) /\ Truthful(r, {}, Issued(r), {Sender(r)})
      BY <2>1, <2>2 DEF Truthful
    <2>4. Reply(r, {}, Issued(r), {}) \/ Reply(r, {}, Issued(r), {Sender(r)})
      BY <1>11 DEF Vote
    <2>. QED  BY <1>1, <1>2, <2>3, <2>4
  <1>12. CASE Results(r) /\ ~Fail(r)
    <2>1. sent[r].op \in VoterOps
      BY <1>12 DEF Results, Serves, VoterOps
    <2>2. /\ \A v \in Issued(r) : v = r /\ IssuedTo(Sender(r), r)
          /\ IssuedTo(Sender(r), Voter(r))
      BY <2>1, <1>1, VoterIsIssued
    <2>3. VoteOf(Voter(r)) \subseteq {Sender(r)}
      BY <1>0, <2>2 DEF VoteOf, StoresTruthful, IssuedTo
    <2>4. Truthful(r, {}, Issued(r), {}) /\ Truthful(r, {}, Issued(r), VoteOf(Voter(r)))
      BY <2>1, <2>2, <2>3 DEF Truthful
    <2>5. Reply(r, {}, Issued(r), {}) \/ Reply(r, {}, Issued(r), VoteOf(Voter(r)))
      BY <1>12 DEF Results
    <2>. QED  BY <1>1, <1>2, <2>4, <2>5
  <1>. QED
    BY <1>5, <1>6, <1>7, <1>8, <1>9, <1>10, <1>11, <1>12 DEF Handle, Register, Me, CreatePoll

-----------------------------------------------------------------------------
(* The stores. *)

Stored ==
    /\ users \in SUBSET Users
    /\ ballots \in SUBSET [id : Requests, voter : VoterIDs, option : Choices]
    /\ polls \in SUBSET [id : Requests, owner : UserIDs]

\* Nothing stored changes hands while no request is sent anew.
LEMMA StoresStay ==
  ASSUME IInv, UNCHANGED <<users, ballots, polls>>,
         \A q \in Requests : sent[q] # NotSent => sent'[q] = sent[q]
  PROVE  Stored' /\ StoresTruthful'
  <1>1. Stored /\ StoresTruthful
    BY DEF IInv, ApiOK, Stored
  <1>2. Stored' /\ OneAccountPerAddress'
    BY <1>1 DEF Stored, OneAccountPerAddress, StoresTruthful
  <1>3. \A u \in users : Mine(u.password, u.id)'
    BY <1>1 DEF StoresTruthful, Mine
  <1>4. \A p \in polls : p.id \in Requests /\ sent'[p.id] = sent[p.id]
    BY <1>1 DEF StoresTruthful, Stored
  <1>5. \A v \in ballots : v.id \in Requests /\ sent'[v.id] = sent[v.id]
    BY <1>1 DEF StoresTruthful, Stored
  <1>6. \A p \in polls : (sent[p.id] # NotSent /\ Mine(Sender(p.id), p.owner))'
    BY <1>1, <1>4 DEF StoresTruthful, Mine, Sender
  <1>7. \A v \in ballots :
          (sent[v.id] # NotSent /\ v.option = Sender(v.id) /\ IssuedTo(Sender(v.id), v.voter))'
    BY <1>1, <1>5 DEF StoresTruthful, IssuedTo, Sender
  <1>. QED  BY <1>1, <1>2, <1>3, <1>6, <1>7 DEF StoresTruthful

\* The unique index, on the normal form.
LEMMA RegisterKeepsStores ==
  ASSUME IInv, NEW r \in Requests, sent[r] # NotSent,
         ~HasAccount(Types[Sender(r)]), CreateUser(r, Types[Sender(r)], Sender(r)),
         UNCHANGED <<ballots, polls, sent>>
  PROVE  Stored' /\ StoresTruthful'
  <1>. DEFINE e == NormaliseEmail(Types[Sender(r)])
              new == [id |-> r, email |-> e, password |-> Sender(r)]
  <1>1. Stored /\ StoresTruthful /\ ApiOK
    BY DEF IInv, ApiOK, Stored
  <1>2. Sender(r) \in Browsers /\ Sender(r) \in Passwords /\ r \in UserIDs
    BY <1>1, SentRequest, NamesAssumption
  <1>3. Types[Sender(r)] \in Emails
    BY <1>2, NamesAssumption
  <1>4. e \in Emails /\ e.spelling = "normal" /\ e = [address |-> e.address, spelling |-> "normal"]
    BY <1>3, SpellingsAssumption DEF Emails, NormaliseEmail
  <1>5. users' = users \cup {new}
    BY DEF CreateUser
  <1>6. new \in Users
    BY <1>2, <1>4 DEF Users
  <1>7. Mine(Sender(r), r)
    BY DEF Mine, Sender
  <1>8. \A u \in users' : Mine(u.password, u.id)' /\ u.email.spelling = "normal"
    BY <1>1, <1>4, <1>5, <1>7 DEF StoresTruthful, Mine
  <1>9. OneAccountPerAddress'
    <2>1. \A u \in users : u.email \in Emails /\ u.email.spelling = "normal" /\ u.email # e
      BY <1>1 DEF Stored, Users, StoresTruthful, HasAccount
    <2>2. \A u \in users : u.email.address # e.address
      BY <2>1, <1>4 DEF Emails
    <2>3. new.email.address = e.address
      OBVIOUS
    <2>4. \A u, v \in users : u.email.address = v.email.address => u = v
      BY <1>1 DEF StoresTruthful, OneAccountPerAddress
    <2>. HIDE DEF new, e
    <2>. QED  BY <1>5, <2>2, <2>3, <2>4 DEF OneAccountPerAddress
  <1>. QED
    BY <1>1, <1>5, <1>6, <1>8, <1>9 DEF Stored, StoresTruthful, Mine, IssuedTo, Sender

LEMMA CreatePollKeepsStores ==
  ASSUME IInv, NEW r \in Requests, sent[r] # NotSent,
         polls' = polls \cup {[id |-> r, owner |-> u] : u \in caller[r]},
         UNCHANGED <<users, ballots, sent>>
  PROVE  Stored' /\ StoresTruthful'
  <1>1. Stored /\ StoresTruthful
    BY DEF IInv, ApiOK, Stored
  <1>2. \A id \in caller[r] : id \in UserIDs /\ Mine(Sender(r), id)
    BY DEF IInv, ApiOK, RequestsTruthful
  <1>3. \A p \in polls' \ polls : p.id = r /\ p.owner \in caller[r] /\ p \in [id : Requests, owner : UserIDs]
    BY <1>2
  <1>4. \A p \in polls' : sent[p.id] # NotSent /\ Mine(Sender(p.id), p.owner)
    BY <1>1, <1>2, <1>3 DEF StoresTruthful
  <1>5. \A p \in polls' : (sent[p.id] # NotSent /\ Mine(Sender(p.id), p.owner))'
    BY <1>4 DEF Mine, Sender
  <1>6. Stored'
    BY <1>1, <1>3 DEF Stored
  <1>. QED
    BY <1>1, <1>5, <1>6 DEF StoresTruthful, OneAccountPerAddress, Mine, IssuedTo, Sender

\* The unique index, on the voter.
LEMMA VoteKeepsStores ==
  ASSUME IInv, NEW r \in Requests, sent[r] # NotSent, sent[r].op \in VoterOps,
         ~VotedAs(Voter(r)), StoreBallot(r, Voter(r), Sender(r)),
         UNCHANGED <<users, polls, sent>>
  PROVE  Stored' /\ StoresTruthful'
  <1>. DEFINE new == [id |-> r, voter |-> Voter(r), option |-> Sender(r)]
  <1>1. Stored /\ StoresTruthful /\ ApiOK
    BY DEF IInv, ApiOK, Stored
  <1>2. Sender(r) \in Choices
    BY <1>1, SentRequest, NamesAssumption
  <1>3. IssuedTo(Sender(r), Voter(r))
    BY VoterIsIssued
  <1>4. Voter(r) \in VoterIDs
    BY <1>3, NamesAssumption DEF IssuedTo
  <1>5. ballots' = ballots \cup {new}
    BY DEF StoreBallot
  <1>6. new \in [id : Requests, voter : VoterIDs, option : Choices]
    BY <1>2, <1>4
  <1>7. \A v \in ballots' :
          (sent[v.id] # NotSent /\ v.option = Sender(v.id) /\ IssuedTo(Sender(v.id), v.voter))
    BY <1>1, <1>3, <1>5 DEF StoresTruthful
  <1>8. \A v \in ballots' :
          (sent[v.id] # NotSent /\ v.option = Sender(v.id) /\ IssuedTo(Sender(v.id), v.voter))'
    BY <1>7 DEF IssuedTo, Sender
  <1>9. \A v, w \in ballots' : v.voter = w.voter => v = w
    BY <1>1, <1>5 DEF StoresTruthful, VotedAs
  <1>10. Stored'
    BY <1>1, <1>5, <1>6 DEF Stored
  <1>. QED
    BY <1>1, <1>8, <1>9, <1>10 DEF StoresTruthful, OneAccountPerAddress, Mine, Sender

LEMMA HandlersKeepStores ==
  ASSUME IInv, NEW r \in Requests, Handle(r)
  PROVE  Stored' /\ StoresTruthful'
  <1>1. sent[r] # NotSent /\ UNCHANGED sent
    BY HandlersAreTruthful
  <1>2. CASE UNCHANGED <<users, ballots, polls>>
    BY <1>1, <1>2, StoresStay
  <1>3. CASE Register(r) /\ ~(UNCHANGED users)
    BY <1>1, <1>3, RegisterKeepsStores DEF Register
  <1>4. CASE CreatePoll(r) /\ ~(UNCHANGED polls)
    BY <1>1, <1>4, CreatePollKeepsStores DEF CreatePoll
  <1>5. CASE Vote(r) /\ ~(UNCHANGED ballots)
    <2>1. sent[r].op \in VoterOps
      BY <1>5 DEF Vote, Serves, VoterOps
    <2>. QED  BY <1>1, <1>5, <2>1, VoteKeepsStores DEF Vote
  <1>. QED
    BY <1>2, <1>3, <1>4, <1>5
    DEF Handle, Register, Login, Logout, Me, CreatePoll, List, Vote, Results, stores

-----------------------------------------------------------------------------
(* Every step keeps the invariant. *)

LEMMA InitIInv == Init => IInv
  <1>. SUFFICES ASSUME Init PROVE IInv
    OBVIOUS
  <1>1. LimiterOK
    BY LimitAssumption DEF Init, LimitInit, LimiterOK, NoKey
  <1>2. NoAnswer \in Answers /\ NotCounted \in HitTypes
    BY DEF NoAnswer, Answers, NotCounted, HitTypes
  <1>3. ApiOK
    BY <1>1, <1>2, NoTokenIsToken, LimitAssumption
    DEF Init, ApiOK, Messages, Identities, HitTypes, NoCookie, VoterCookies
  <1>4. Fresh /\ OnRoute /\ JarsTruthful /\ RequestsTruthful
    <2>1. \A r \in Requests : Uncounted(r)
      BY DEF Init, Uncounted, Hits
    <2>. QED  BY <2>1 DEF Init, Fresh, OnRoute, JarsTruthful, RequestsTruthful, NoCookie
  <1>5. StoresTruthful
    BY DEF Init, StoresTruthful, OneAccountPerAddress
  <1>. QED  BY <1>3, <1>4, <1>5 DEF IInv

\* A jar keeps what it holds.
LEMMA JarsStay ==
  ASSUME IInv, UNCHANGED jar,
         \A q \in Requests : sent[q] # NotSent => sent'[q] = sent[q]
  PROVE  JarsTruthful'
  BY DEF IInv, JarsTruthful, Mine, IssuedTo

\* A request that is not concerned stays as it is.
LEMMA RequestStays ==
  ASSUME IInv, NEW q \in Requests, sent[q] # NotSent,
         caller'[q] = caller[q], answer'[q] = answer[q],
         \A p \in Requests : sent[p] # NotSent => sent'[p] = sent[p]
  PROVE  /\ (sent[q].session = NoToken \/ Mine(Sender(q), sent[q].session.user))'
         /\ (sent[q].voter = NoVoter \/ IssuedTo(Sender(q), sent[q].voter))'
         /\ (\A id \in caller[q] : Mine(Sender(q), id))'
         /\ Truthful(q, answer[q].session, answer[q].voter, answer[q].shows)'
  <1>1. Sender(q)' = Sender(q) /\ sent'[q] = sent[q]
    BY DEF Sender
  <1>2. /\ sent[q].session = NoToken \/ Mine(Sender(q), sent[q].session.user)
        /\ sent[q].voter = NoVoter \/ IssuedTo(Sender(q), sent[q].voter)
        /\ \A id \in caller[q] : Mine(Sender(q), id)
        /\ Truthful(q, answer[q].session, answer[q].voter, answer[q].shows)
    BY DEF IInv, RequestsTruthful
  <1>3. Truthful(q, answer[q].session, answer[q].voter, answer[q].shows)'
    BY <1>1, <1>2 DEF Truthful, Mine, IssuedTo
  <1>. QED  BY <1>1, <1>2, <1>3 DEF Mine, IssuedTo

LEMMA TickKeeps == IInv /\ Tick => IInv'
  <1>. SUFFICES ASSUME IInv, Tick PROVE IInv'
    OBVIOUS
  <1>1. UNCHANGED <<users, ballots, polls, jar, sent, left, caller, resent, hit, answer>>
    BY DEF Tick, stores, request
  <1>2. LimiterOK'
    BY LimitAssumption DEF IInv, ApiOK, LimiterOK, Tick, TickClock, NoKey
  <1>3. Stored' /\ StoresTruthful' /\ JarsTruthful'
    BY <1>1, StoresStay, JarsStay
  <1>4. RequestsTruthful'
    BY <1>1, RequestStays DEF RequestsTruthful
  <1>. QED
    BY <1>1, <1>2, <1>3, <1>4 DEF IInv, ApiOK, Stored, Fresh, OnRoute, Uncounted

LEMMA SendKeeps ==
  ASSUME IInv, NEW r \in Requests, NEW b \in Browsers, NEW op \in Ops, Send(r, b, op)
  PROVE  IInv'
  <1>. DEFINE m == [op |-> op, browser |-> b,
           session |-> IF op \in AccountOps THEN Attached(b) ELSE NoToken,
           voter |-> IF op \in VoterOps THEN AttachedVoter(b) ELSE NoVoter]
  <1>0. ApiOK /\ Fresh /\ OnRoute /\ JarsTruthful /\ RequestsTruthful
    BY DEF IInv
  <1>1. /\ sent[r] = NotSent
        /\ sent' = [sent EXCEPT ![r] = m] /\ left' = [left EXCEPT ![r] = Route[op]]
        /\ UNCHANGED <<clock, hits, users, ballots, polls, jar, caller, resent, hit, answer>>
    BY DEF Send, stores
  <1>2. Attached(b) \in Tokens /\ (Attached(b) = NoToken \/ Mine(b, Attached(b).user))
    BY <1>0, NoTokenIsToken DEF ApiOK, Attached, JarsTruthful
  <1>2a. AttachedVoter(b) \in Identities /\ (AttachedVoter(b) = NoVoter \/ IssuedTo(b, AttachedVoter(b)))
    BY <1>0 DEF ApiOK, AttachedVoter, JarsTruthful, VoterCookies, Identities
  <1>3. m \in Messages /\ m # NotSent
    BY <1>0, <1>2, <1>2a, NoTokenIsToken DEF ApiOK, Messages, Identities, NotSent
  <1>4. \A q \in Requests : sent[q] # NotSent => sent'[q] = sent[q]
    BY <1>0, <1>1 DEF ApiOK
  <1>5. sent \in [Requests -> Messages] /\ left \in [Requests -> Seq({"limit", "auth", "serve"})]
    BY <1>0 DEF ApiOK
  <1>6. sent'[r] = m /\ left'[r] = Route[op] /\ \A q \in Requests \ {r} : sent'[q] = sent[q] /\ left'[q] = left[q]
    BY <1>1, <1>5
  <1>7. \/ Route[op] = <<"serve">> \/ Route[op] = <<"auth", "serve">>
        \/ Route[op] = <<"limit", "serve">> /\ op \in {"register", "login", "create", "vote"}
        \/ Route[op] = <<"auth", "limit", "serve">> /\ op = "create"
    BY DEF Ops, Route
  <1>8. /\ left[r] = <<>> /\ caller[r] = {} /\ answer[r] = NoAnswer
        /\ \A q \in Requests : Uncounted(q)' <=> Uncounted(q)
        /\ Uncounted(r)
    BY <1>0, <1>1 DEF Fresh, Uncounted
  <1>9. Fresh'
    <2>1. sent'[r] # NotSent
      BY <1>3, <1>6
    <2>. HIDE DEF m
    <2>. QED  BY <1>0, <1>1, <1>6, <1>8, <2>1 DEF Fresh
  <1>10. OnRoute'
    <2>1. m.op = op
      OBVIOUS
    <2>. HIDE DEF m
    <2>. QED  BY <1>0, <1>1, <1>6, <1>7, <1>8, <2>1 DEF OnRoute
  <1>11. Route[op] \in Seq({"limit", "auth", "serve"})
    <2>1. /\ <<"serve">> \in Seq({"limit", "auth", "serve"})
          /\ <<"auth", "serve">> \in Seq({"limit", "auth", "serve"})
          /\ <<"limit", "serve">> \in Seq({"limit", "auth", "serve"})
          /\ <<"auth", "limit", "serve">> \in Seq({"limit", "auth", "serve"})
      OBVIOUS
    <2>. QED  BY <1>7, <2>1
  <1>12. Stored' /\ StoresTruthful' /\ JarsTruthful'
    BY <1>1, <1>4, StoresStay, JarsStay
  <1>13. RequestsTruthful'
    <2>. SUFFICES ASSUME NEW q \in Requests, sent'[q] # NotSent
                  PROVE  /\ (sent[q].session = NoToken \/ Mine(Sender(q), sent[q].session.user))'
                         /\ (sent[q].voter = NoVoter \/ IssuedTo(Sender(q), sent[q].voter))'
                         /\ (\A id \in caller[q] : Mine(Sender(q), id))'
                         /\ Truthful(q, answer[q].session, answer[q].voter, answer[q].shows)'
      BY DEF RequestsTruthful
    <2>1. CASE q # r
      BY <2>1, <1>1, <1>4, <1>6, RequestStays
    <2>2. CASE q = r
      <3>1. Sender(r)' = b
        BY <1>6 DEF Sender
      <3>2. m.session = NoToken \/ Mine(b, m.session.user)
        BY <1>2
      <3>3. m.voter = NoVoter \/ IssuedTo(b, m.voter)
        BY <1>2a
      <3>4. (sent[r].session = NoToken \/ Mine(Sender(r), sent[r].session.user))'
        BY <1>4, <1>6, <3>1, <3>2 DEF Mine
      <3>5. (sent[r].voter = NoVoter \/ IssuedTo(Sender(r), sent[r].voter))'
        BY <1>4, <1>6, <3>1, <3>3 DEF IssuedTo
      <3>6. caller'[r] = {} /\ answer'[r] = NoAnswer
        BY <1>1, <1>8
      <3>7. Truthful(r, answer[r].session, answer[r].voter, answer[r].shows)'
        BY <3>6 DEF Truthful, NoAnswer
      <3>. QED  BY <2>2, <3>4, <3>5, <3>6, <3>7
    <2>. QED  BY <2>1, <2>2
  <1>14. LimiterOK' /\ sent' \in [Requests -> Messages] /\ left' \in [Requests -> Seq({"limit", "auth", "serve"})]
    BY <1>0, <1>1, <1>3, <1>5, <1>11 DEF ApiOK, LimiterOK
  <1>. QED
    BY <1>0, <1>1, <1>9, <1>10, <1>12, <1>13, <1>14 DEF IInv, ApiOK, Stored

\* What is left of a route when a stage is passed.
LEMMA PassKeepsRoute ==
  ASSUME IInv, NEW r \in Requests, left[r] # <<>>, Pass(r),
         UNCHANGED <<sent, answer>>,
         \/ At(r, "limit")
         \/ At(r, "auth") /\ UNCHANGED hit,
         UNCHANGED resent, \A h \in Hits : h[1] # r => hit'[h] = hit[h],
         \A q \in Requests \ {r} : caller'[q] = caller[q]
  PROVE  /\ left' \in [Requests -> Seq({"limit", "auth", "serve"})]
         /\ Fresh' /\ OnRoute'
  <1>0. ApiOK /\ Fresh /\ OnRoute
    BY DEF IInv
  <1>1. left \in [Requests -> Seq({"limit", "auth", "serve"})]
    BY <1>0 DEF ApiOK
  <1>2. left' = [left EXCEPT ![r] = Tail(left[r])]
    BY DEF Pass
  <1>3. left'[r] = Tail(left[r]) /\ \A q \in Requests \ {r} : left'[q] = left[q]
    BY <1>1, <1>2
  <1>4. Tail(left[r]) \in Seq({"limit", "auth", "serve"})
    BY <1>1
  <1>5. left' \in [Requests -> Seq({"limit", "auth", "serve"})]
    BY <1>1, <1>2, <1>4
  <1>5a. \A q \in Requests \ {r} : Uncounted(q)' <=> Uncounted(q)
    BY <1>0, CountsStay
  <1>6. Fresh'
    BY <1>0, <1>3, <1>5a DEF Fresh
  <1>7. /\ Tail(<<"auth", "serve">>) = <<"serve">>
        /\ Tail(<<"limit", "serve">>) = <<"serve">>
        /\ Tail(<<"auth", "limit", "serve">>) = <<"limit", "serve">>
    OBVIOUS
  <1>8. \/ left'[r] = <<"serve">>
        \/ left'[r] = <<"limit", "serve">> /\ sent[r].op = "create" /\ Uncounted(r)'
    <2>1. /\ Head(<<"serve">>) = "serve"
          /\ Head(<<"auth", "serve">>) = "auth"
          /\ Head(<<"limit", "serve">>) = "limit"
          /\ Head(<<"auth", "limit", "serve">>) = "auth"
      OBVIOUS
    <2>2. \/ left[r] = <<"serve">> \/ left[r] = <<"auth", "serve">>
          \/ left[r] = <<"limit", "serve">>
          \/ left[r] = <<"auth", "limit", "serve">> /\ sent[r].op = "create" /\ Uncounted(r)
      BY <1>0 DEF OnRoute
    <2>3. CASE left[r] = <<"serve">>
      BY <2>1, <2>3 DEF At
    <2>4. CASE left[r] = <<"auth", "serve">> \/ left[r] = <<"limit", "serve">>
      BY <2>4, <1>3, <1>7
    <2>5. CASE left[r] = <<"auth", "limit", "serve">> /\ sent[r].op = "create" /\ Uncounted(r)
      <3>1. Uncounted(r)'
        <4>1. UNCHANGED hit
          BY <2>1, <2>5 DEF At
        <4>. QED  BY <2>5, <4>1, <1>0, CountsStay
      <3>. QED  BY <2>5, <3>1, <1>3, <1>7
    <2>. QED  BY <2>2, <2>3, <2>4, <2>5
  <1>9. OnRoute'
    BY <1>0, <1>3, <1>5a, <1>8 DEF OnRoute
  <1>. QED  BY <1>5, <1>6, <1>9

\* The limiter's counter is met again.
LEMMA ResendKeepsRoute ==
  ASSUME IInv, NEW r \in Requests, At(r, "limit"), sent[r] # NotSent, Resend(r),
         UNCHANGED <<sent, caller>>,
         \A h \in Hits : h # <<r, resent[r]>> => hit'[h] = hit[h]
  PROVE  resent' \in [Requests -> 0 .. MaxRetries] /\ Fresh' /\ OnRoute'
  <1>0. ApiOK /\ Fresh /\ OnRoute
    BY DEF IInv
  <1>1. /\ resent[r] \in 0 .. MaxRetries /\ resent[r] < MaxRetries /\ MaxRetries \in Nat
        /\ resent' = [resent EXCEPT ![r] = resent[r] + 1] /\ UNCHANGED <<left, answer>>
    BY <1>0, LimitAssumption DEF Resend, ApiOK
  <1>2. /\ resent' \in [Requests -> 0 .. MaxRetries] /\ resent'[r] = resent[r] + 1
        /\ \A q \in Requests \ {r} : resent'[q] = resent[q]
    BY <1>0, <1>1 DEF ApiOK
  <1>3. \A q \in Requests \ {r} : Uncounted(q)' <=> Uncounted(q)
    BY <1>0, <1>2, CountsStay
  <1>4. Uncounted(r) => Uncounted(r)'
    <2>. SUFFICES ASSUME Uncounted(r), NEW n \in resent'[r] .. MaxRetries
                  PROVE  hit'[<<r, n>>] = NotCounted
      BY DEF Uncounted
    <2>1. n \in resent[r] .. MaxRetries /\ n # resent[r] /\ n \in 0 .. MaxRetries
      BY <1>1, <1>2
    <2>2. <<r, n>> \in Hits /\ <<r, n>> # <<r, resent[r]>>
      BY <2>1 DEF Hits
    <2>. QED  BY <2>1, <2>2 DEF Uncounted
  <1>. QED  BY <1>0, <1>1, <1>2, <1>3, <1>4 DEF Fresh, OnRoute

LEMMA RateLimitKeeps ==
  ASSUME IInv, NEW r \in Requests, RateLimit(r)
  PROVE  IInv'
  <1>. DEFINE k == Scope[sent[r].op]
  <1>0. ApiOK /\ Fresh /\ OnRoute
    BY DEF IInv
  <1>1. At(r, "limit") /\ sent[r] # NotSent /\ left[r] # <<>>
    BY <1>0, AtIsSent DEF RateLimit
  <1>2. UNCHANGED <<clock, users, ballots, polls, jar, sent, caller>>
    BY DEF RateLimit, stores
  <1>3. k \in Scopes
    BY <1>0, <1>1, NamesAssumption DEF OnRoute, At, Scope
  <1>4. hits' = hits \/ Hit(k)
    BY DEF RateLimit
  <1>5. LimiterOK'
    <2>1. CASE hits' = hits
      BY <2>1, <1>0, <1>2 DEF ApiOK, LimiterOK
    <2>2. CASE Hit(k)
      <3>1. Incr(k) \in Nat /\ Expiry(k) \in Nat
        <4>1. Incr(k) \in Nat
          BY <1>0, <1>3 DEF ApiOK, LimiterOK, Incr
        <4>2. Expiry(k) \in Nat
          BY <1>0, <1>3, LimitAssumption DEF ApiOK, LimiterOK, Expiry
        <4>. QED  BY <4>1, <4>2
      <3>. QED  BY <2>2, <3>1, <1>0, <1>2 DEF ApiOK, LimiterOK, Hit
    <2>. QED  BY <1>4, <2>1, <2>2
  <1>6. /\ hit' \in [Hits -> HitTypes]
        /\ \A h \in Hits : h # <<r, resent[r]>> => hit'[h] = hit[h]
        /\ \A h \in Hits : h[1] # r => hit'[h] = hit[h]
    <2>1. hit \in [Hits -> HitTypes] /\ clock \in Nat
      BY <1>0, LimitAssumption DEF ApiOK, LimiterOK, HitTypes
    <2>2. hit' = hit \/ \E a \in {"allowed", "refused", "unknown"} :
              hit' = [hit EXCEPT ![<<r, resent[r]>>] = [at |-> clock, answer |-> a]]
      BY DEF RateLimit
    <2>3. hit' \in [Hits -> HitTypes] /\ \A h \in Hits : h # <<r, resent[r]>> => hit'[h] = hit[h]
      BY <2>1, <2>2 DEF HitTypes
    <2>4. \A h : h[1] # r => h # <<r, resent[r]>>
      OBVIOUS
    <2>. QED  BY <2>3, <2>4
  <1>7. Stored' /\ StoresTruthful' /\ JarsTruthful'
    BY <1>2, StoresStay, JarsStay
  <1>8. /\ left' \in [Requests -> Seq({"limit", "auth", "serve"})] /\ answer' \in [Requests -> Answers]
        /\ resent' \in [Requests -> 0 .. MaxRetries]
        /\ Fresh' /\ OnRoute' /\ RequestsTruthful'
    <2>1. CASE Fail(r) /\ UNCHANGED resent
      <3>1. /\ left' \in [Requests -> Seq({"limit", "auth", "serve"})]
            /\ answer' \in [Requests -> Answers]
            /\ Fresh' /\ OnRoute' /\ RequestsTruthful'
        BY <2>1, <1>1, <1>2, <1>6, FailIsTruthful, ReplyKeeps DEF Fail
      <3>. QED  BY <2>1, <3>1, <1>0 DEF ApiOK
    <2>2. CASE Pass(r) /\ UNCHANGED <<resent, answer>>
      <3>1. left' \in [Requests -> Seq({"limit", "auth", "serve"})] /\ Fresh' /\ OnRoute'
        BY <2>2, <1>1, <1>2, <1>6, PassKeepsRoute
      <3>2. RequestsTruthful'
        BY <2>2, <1>2, RequestStays DEF RequestsTruthful
      <3>. QED  BY <2>2, <3>1, <3>2, <1>0 DEF ApiOK
    <2>3. CASE Resend(r)
      <3>1. resent' \in [Requests -> 0 .. MaxRetries] /\ Fresh' /\ OnRoute'
        BY <2>3, <1>1, <1>2, <1>6, ResendKeepsRoute
      <3>2. UNCHANGED <<left, answer>>
        BY <2>3 DEF Resend
      <3>3. RequestsTruthful'
        BY <3>2, <1>2, RequestStays DEF RequestsTruthful
      <3>. QED  BY <3>1, <3>2, <3>3, <1>0 DEF ApiOK
    <2>. QED  BY <2>1, <2>2, <2>3 DEF RateLimit
  <1>. QED
    BY <1>0, <1>2, <1>5, <1>6, <1>7, <1>8 DEF IInv, ApiOK, Stored, HitTypes

LEMMA RequireAuthKeeps ==
  ASSUME IInv, NEW r \in Requests, RequireAuth(r)
  PROVE  IInv'
  <1>. DEFINE found == UserFromToken(sent[r].session, clock)
  <1>0. ApiOK /\ Fresh /\ OnRoute /\ RequestsTruthful
    BY DEF IInv
  <1>1. At(r, "auth") /\ sent[r] # NotSent /\ left[r] # <<>>
    BY <1>0, AtIsSent DEF RequireAuth
  <1>2. UNCHANGED <<clock, hits, users, ballots, polls, jar, sent, resent, hit>>
    BY DEF RequireAuth, stores
  <1>3. hit' \in [Hits -> HitTypes] /\ LimiterOK'
    BY <1>0, <1>2 DEF ApiOK, LimiterOK, HitTypes
  <1>4. Stored' /\ StoresTruthful' /\ JarsTruthful'
    BY <1>2, StoresStay, JarsStay
  <1>5. CASE Fail(r) /\ UNCHANGED caller
    <2>1. /\ left' \in [Requests -> Seq({"limit", "auth", "serve"})] /\ answer' \in [Requests -> Answers]
          /\ Fresh' /\ OnRoute' /\ RequestsTruthful'
      BY <1>5, <1>1, <1>2, <1>3, FailIsTruthful, ReplyKeeps DEF Fail
    <2>. QED  BY <1>0, <1>2, <1>3, <1>4, <1>5, <2>1 DEF IInv, ApiOK, Stored, HitTypes
  <1>6. CASE /\ caller' = [caller EXCEPT ![r] = {u.id : u \in found}]
             /\ Pass(r) /\ UNCHANGED answer
    <2>1. caller \in [Requests -> SUBSET UserIDs]
      BY <1>0 DEF ApiOK
    <2>2. \A id \in {u.id : u \in found} : id \in UserIDs /\ Mine(Sender(r), id)
      BY <1>1, FoundIsMine
    <2>3. /\ caller' \in [Requests -> SUBSET UserIDs]
          /\ caller'[r] = {u.id : u \in found}
          /\ \A q \in Requests \ {r} : caller'[q] = caller[q]
      BY <1>6, <2>1, <2>2
    <2>4. left' \in [Requests -> Seq({"limit", "auth", "serve"})] /\ Fresh' /\ OnRoute'
      BY <1>1, <1>2, <1>6, <2>3, PassKeepsRoute
    <2>5. RequestsTruthful'
      <3>. SUFFICES ASSUME NEW q \in Requests, sent[q] # NotSent
                    PROVE  /\ (sent[q].session = NoToken \/ Mine(Sender(q), sent[q].session.user))'
                           /\ (sent[q].voter = NoVoter \/ IssuedTo(Sender(q), sent[q].voter))'
                           /\ (\A id \in caller[q] : Mine(Sender(q), id))'
                           /\ Truthful(q, answer[q].session, answer[q].voter, answer[q].shows)'
        BY <1>2 DEF RequestsTruthful
      <3>1. CASE q # r
        BY <3>1, <1>2, <1>6, <2>3, RequestStays
      <3>2. CASE q = r
        <4>1. /\ sent[q].session = NoToken \/ Mine(Sender(q), sent[q].session.user)
              /\ sent[q].voter = NoVoter \/ IssuedTo(Sender(q), sent[q].voter)
              /\ Truthful(q, answer[q].session, answer[q].voter, answer[q].shows)
          BY <1>0 DEF RequestsTruthful
        <4>2. Truthful(q, answer[q].session, answer[q].voter, answer[q].shows)'
          BY <4>1, <1>2, <1>6 DEF Truthful, Mine, IssuedTo, Sender
        <4>3. (\A id \in caller[q] : Mine(Sender(q), id))'
          BY <3>2, <1>2, <2>2, <2>3 DEF Mine, Sender
        <4>. QED  BY <4>1, <4>2, <4>3, <1>2 DEF Mine, IssuedTo, Sender
      <3>. QED  BY <3>1, <3>2
    <2>. QED
      BY <1>0, <1>2, <1>3, <1>4, <1>6, <2>3, <2>4, <2>5 DEF IInv, ApiOK, Stored, HitTypes
  <1>. QED  BY <1>5, <1>6 DEF RequireAuth

LEMMA HandleKeeps ==
  ASSUME IInv, NEW r \in Requests, Handle(r)
  PROVE  IInv'
  <1>1. /\ sent[r] # NotSent
        /\ UNCHANGED <<clock, hits, jar, sent, caller, resent, hit>>
        /\ \E S, V, W : Truthful(r, S, V, W) /\ Reply(r, S, V, W)
    BY HandlersAreTruthful
  <1>2. hit' \in [Hits -> HitTypes]
    BY <1>1 DEF IInv, ApiOK, HitTypes
  <1>3. /\ left' \in [Requests -> Seq({"limit", "auth", "serve"})] /\ answer' \in [Requests -> Answers]
        /\ Fresh' /\ OnRoute' /\ RequestsTruthful'
    BY <1>1, <1>2, ReplyKeeps
  <1>4. Stored' /\ StoresTruthful' /\ JarsTruthful'
    BY <1>1, HandlersKeepStores, JarsStay
  <1>. QED
    BY <1>1, <1>2, <1>3, <1>4 DEF IInv, ApiOK, LimiterOK, Stored, HitTypes

LEMMA DeliverKeeps ==
  ASSUME IInv, NEW r \in Requests, Deliver(r)
  PROVE  IInv'
  <1>. DEFINE b == Sender(r)
              S == answer[r].session
              V == answer[r].voter
              new == [session |-> IF S = {} THEN jar[b].session ELSE CHOOSE t \in S : TRUE,
                      voter   |-> IF V = {} THEN jar[b].voter
                                  ELSE VoterCookie(CHOOSE v \in V : TRUE, clock)]
  <1>0. ApiOK /\ Fresh /\ OnRoute /\ JarsTruthful /\ RequestsTruthful
    BY DEF IInv
  <1>1. sent[r] # NotSent
    BY DEF Deliver, Answered
  <1>2. UNCHANGED <<clock, hits, users, ballots, polls, sent, left, caller, resent, hit>>
    BY DEF Deliver, stores
  <1>3. jar' = [jar EXCEPT ![b] = new]
    BY DEF Deliver
  <1>4. b \in Browsers
    BY <1>0, <1>1, SentRequest
  <1>5. Truthful(r, S, V, answer[r].shows)
    BY <1>0, <1>1 DEF RequestsTruthful
  <1>6. new.session \in Tokens /\ (new.session = NoToken \/ Mine(b, new.session.user))
    BY <1>0, <1>4, <1>5 DEF ApiOK, JarsTruthful, Truthful
  <1>7. new.voter \in VoterCookies /\ (new.voter.id = NoVoter \/ IssuedTo(b, new.voter.id))
    <2>1. \A v \in V : v \in Identities /\ IssuedTo(b, v)
      BY <1>5, NamesAssumption DEF Truthful, Identities
    <2>2. \A v \in Identities : VoterCookie(v, clock) \in VoterCookies /\ VoterCookie(v, clock).id = v
      BY <1>0, LimitAssumption, VoterLifeAssumption DEF ApiOK, LimiterOK, VoterCookie, VoterCookies
    <2>3. CASE V = {}
      BY <2>3, <1>0, <1>4 DEF ApiOK, JarsTruthful
    <2>4. CASE V # {}
      <3>1. (CHOOSE v \in V : TRUE) \in V
        BY <2>4
      <3>2. new.voter = VoterCookie(CHOOSE v \in V : TRUE, clock)
        BY <2>4
      <3>. HIDE DEF new, V
      <3>. QED  BY <2>1, <2>2, <3>1, <3>2
    <2>. QED  BY <2>3, <2>4
  <1>. HIDE DEF new
  <1>8. new \in [session : Tokens, voter : VoterCookies]
    BY <1>6, <1>7 DEF new
  <1>9. /\ jar' \in [Browsers -> [session : Tokens, voter : VoterCookies]]
        /\ jar'[b] = new /\ \A c \in Browsers \ {b} : jar'[c] = jar[c]
    BY <1>0, <1>3, <1>4, <1>8 DEF ApiOK
  <1>10. JarsTruthful'
    BY <1>0, <1>2, <1>6, <1>7, <1>9 DEF JarsTruthful, Mine, IssuedTo
  <1>11. answer' = [answer EXCEPT ![r].delivered = TRUE]
    BY DEF Deliver
  <1>12. answer[r] \in Answers /\ answer \in [Requests -> Answers]
    BY <1>0 DEF ApiOK
  <1>13. /\ answer' \in [Requests -> Answers]
         /\ \A q \in Requests :
               /\ answer'[q].session = answer[q].session /\ answer'[q].voter = answer[q].voter
               /\ answer'[q].shows = answer[q].shows
         /\ \A q \in Requests \ {r} : answer'[q] = answer[q]
    BY <1>11, <1>12 DEF Answers
  <1>14. Fresh' /\ OnRoute'
    BY <1>0, <1>1, <1>2, <1>13 DEF Fresh, OnRoute, Uncounted
  <1>15. RequestsTruthful'
    <2>. SUFFICES ASSUME NEW q \in Requests, sent[q] # NotSent
                  PROVE  /\ (sent[q].session = NoToken \/ Mine(Sender(q), sent[q].session.user))'
                         /\ (sent[q].voter = NoVoter \/ IssuedTo(Sender(q), sent[q].voter))'
                         /\ (\A id \in caller[q] : Mine(Sender(q), id))'
                         /\ Truthful(q, answer[q].session, answer[q].voter, answer[q].shows)'
      BY <1>2 DEF RequestsTruthful
    <2>1. /\ sent[q].session = NoToken \/ Mine(Sender(q), sent[q].session.user)
          /\ sent[q].voter = NoVoter \/ IssuedTo(Sender(q), sent[q].voter)
          /\ \A id \in caller[q] : Mine(Sender(q), id)
          /\ Truthful(q, answer[q].session, answer[q].voter, answer[q].shows)
      BY <1>0 DEF RequestsTruthful
    <2>2. Truthful(q, answer[q].session, answer[q].voter, answer[q].shows)'
      BY <2>1, <1>2, <1>13 DEF Truthful, Mine, IssuedTo, Sender
    <2>. QED  BY <2>1, <2>2, <1>2 DEF Mine, IssuedTo, Sender
  <1>16. Stored' /\ StoresTruthful'
    BY <1>2, StoresStay
  <1>. QED
    BY <1>0, <1>2, <1>9, <1>10, <1>13, <1>14, <1>15, <1>16
    DEF IInv, ApiOK, LimiterOK, Stored

LEMMA NextKeeps == IInv /\ [Next]_vars => IInv'
  <1>. SUFFICES ASSUME IInv, [Next]_vars PROVE IInv'
    OBVIOUS
  <1>1. CASE Tick
    BY <1>1, TickKeeps
  <1>2. ASSUME NEW r \in Requests, NEW b \in Browsers, NEW op \in Ops, Send(r, b, op) PROVE IInv'
    BY <1>2, SendKeeps
  <1>3. ASSUME NEW r \in Requests, RateLimit(r) PROVE IInv'
    BY <1>3, RateLimitKeeps
  <1>4. ASSUME NEW r \in Requests, RequireAuth(r) PROVE IInv'
    BY <1>4, RequireAuthKeeps
  <1>5. ASSUME NEW r \in Requests, Handle(r) PROVE IInv'
    BY <1>5, HandleKeeps
  <1>6. ASSUME NEW r \in Requests, Deliver(r) PROVE IInv'
    BY <1>6, DeliverKeeps
  <1>7. CASE UNCHANGED vars
    <2>1. UNCHANGED <<clock, hits, users, ballots, polls, jar, sent, left, caller, resent, hit, answer>>
      BY <1>7 DEF vars, stores, request
    <2>2. Stored' /\ StoresTruthful' /\ JarsTruthful'
      BY <2>1, StoresStay, JarsStay
    <2>3. RequestsTruthful'
      BY <2>1, RequestStays DEF RequestsTruthful
    <2>. QED  BY <2>1, <2>2, <2>3 DEF IInv, ApiOK, LimiterOK, Stored, Fresh, OnRoute, Uncounted
  <1>. QED  BY <1>1, <1>2, <1>3, <1>4, <1>5, <1>6, <1>7 DEF Next

LEMMA Invariant == Spec => []IInv
  <1>. QED  BY InitIInv, NextKeeps, PTL DEF Spec

-----------------------------------------------------------------------------
(* What it is for. *)

\* Type invariant.
THEOREM ApiTypeCorrect == Spec => []ApiOK
  <1>1. IInv => ApiOK
    BY DEF IInv
  <1>. QED  BY <1>1, Invariant, PTL

\* One account per address, whichever registrations overlap (user_repository.go:23-27).
THEOREM AccountsAreUnique == Spec => []OneAccountPerAddress
  <1>1. IInv => OneAccountPerAddress
    BY DEF IInv, StoresTruthful
  <1>. QED  BY <1>1, Invariant, PTL

\* No browser holds a session, sees or creates anything in the name of an account whose
\* password it does not know (auth_service.go:138-202).
THEOREM SessionsBelong == Spec => []SessionsAreEarned
  <1>1. ASSUME IInv PROVE SessionsAreEarned
    <2>1. ASSUME NEW b, NEW id, id = "none" \/ Mine(b, id) PROVE Owns(b, id)
      <3>1. \A u \in users : Mine(u.password, u.id) /\ u.id \in Requests
        BY <1>1 DEF IInv, StoresTruthful, Mine
      <3>. QED  BY <2>1, <3>1, NamesAssumption DEF Owns, Mine
    <2>2. NoToken.user = "none"
      BY DEF NoToken
    <2>3. \A b \in Browsers : Owns(b, jar[b].session.user)
      BY <1>1, <2>1, <2>2 DEF IInv, JarsTruthful
    <2>4. \A p \in polls : Owns(Sender(p.id), p.owner)
      BY <1>1, <2>1 DEF IInv, StoresTruthful
    <2>5. ASSUME NEW r \in Requests, Answered(r), sent[r].op \notin VoterOps
          PROVE  /\ \A id \in answer[r].shows : Owns(Sender(r), id)
                 /\ \A t \in answer[r].session : Owns(Sender(r), t.user)
      <3>1. Truthful(r, answer[r].session, answer[r].voter, answer[r].shows)
        BY <1>1, <2>5 DEF IInv, RequestsTruthful, Answered
      <3>. QED  BY <2>1, <2>2, <2>5, <3>1 DEF Truthful
    <2>. QED  BY <2>3, <2>4, <2>5 DEF SessionsAreEarned
  <1>. QED  BY <1>1, Invariant, PTL

\* The choice shown as a voter's own is its own (vote_service.go:130-153).
THEOREM ChoicesBelong == Spec => []OwnChoiceShown
  <1>1. IInv => OwnChoiceShown
    BY DEF IInv, RequestsTruthful, Truthful, OwnChoiceShown, Answered
  <1>. QED  BY <1>1, Invariant, PTL

\* A browser whose first answers have arrived keeps its identity while the cookie it came
\* in lives (voter.go:20-23).
THEOREM IdentitySettles == Spec => OneIdentityOnceSettled
  <1>. DEFINE Kept(b) ==
           clock < jar[b].voter.expires /\ ~Unsettled(b) => jar'[b].voter = jar[b].voter
  <1>1. ASSUME IInv, [Next]_vars, NEW b \in Browsers PROVE Kept(b)
    <2>1. CASE UNCHANGED jar
      BY <2>1
    <2>2. ASSUME NEW r \in Requests, Deliver(r) PROVE Kept(b)
      <3>1. jar \in [Browsers -> [session : Tokens, voter : VoterCookies]] /\ sent[r] # NotSent
        BY <1>1, <2>2 DEF IInv, ApiOK, Deliver, Answered
      <3>2. CASE b # Sender(r)
        BY <2>2, <3>1, <3>2 DEF Deliver
      <3>3. CASE b = Sender(r) /\ answer[r].voter = {}
        BY <2>2, <3>1, <3>3 DEF Deliver
      <3>4. CASE b = Sender(r) /\ answer[r].voter # {}
        <4>1. IssuedTo(b, r)
          BY <1>1, <3>1, <3>4 DEF IInv, RequestsTruthful, Truthful
        <4>2. Unsettled(b)
          BY <2>2, <4>1 DEF IssuedTo, Unsettled, Deliver, Sender
        <4>. QED  BY <4>2
      <3>. QED  BY <3>2, <3>3, <3>4
    <2>. QED
      BY <1>1, <2>1, <2>2, HandlersAreTruthful DEF Next, vars, Tick, Send, RateLimit, RequireAuth
  <1>2. IInv /\ [Next]_vars => [\A b \in Browsers : Kept(b)]_vars
    BY <1>1
  <1>. QED  BY <1>2, Invariant, PTL DEF Spec, OneIdentityOnceSettled

\* A browser has at most one ballot for each request it sent without an identity: the
\* identity of a ballot was issued on one, and no other ballot bears it (voter.go:27-32).
THEOREM BallotsAreCounted == Spec => []BallotsPerBrowser
  <1>1. ASSUME IInv, NEW b \in Browsers
        PROVE  Cardinality({v \in ballots : Sender(v.id) = b}) =<
               Cardinality({r \in Requests :
                   /\ sent[r].op \in VoterOps
                   /\ Sender(r) = b /\ sent[r].voter = NoVoter})
    <2>. DEFINE B == {v \in ballots : Sender(v.id) = b}
                R == {r \in Requests :
                        /\ sent[r].op \in VoterOps
                        /\ Sender(r) = b /\ sent[r].voter = NoVoter}
                f == [v \in B |-> v.voter]
    <2>1. IsFiniteSet(R)
      BY NamesAssumption, FS_Subset
    <2>2. \A v \in B : v.voter \in R
      BY <1>1 DEF IInv, StoresTruthful, IssuedTo, Sender
    <2>3. \A v, w \in B : v.voter = w.voter => v = w
      BY <1>1 DEF IInv, StoresTruthful
    <2>4. f \in Injection(B, R)
      BY <2>2, <2>3 DEF Injection, IsInjective
    <2>. HIDE DEF B, R, f
    <2>5. Cardinality(B) =< Cardinality(R)
      BY <2>1, <2>4, FS_Injection
    <2>. QED  BY <2>5 DEF B, R
  <1>2. IInv => BallotsPerBrowser
    BY <1>1 DEF BallotsPerBrowser
  <1>. QED  BY <1>2, Invariant, PTL

=============================================================================
