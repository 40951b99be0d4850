-------------------------------- MODULE Api --------------------------------
(***************************************************************************)
(* The HTTP API as browsers use it: each request carries the cookies its   *)
(* browser has when it is sent, goes through the chain of its route, which *)
(* counts it, finds its account or its voter, and is answered; the answers *)
(* reach the browser's cookie jar in any order, or never.  Requests of one *)
(* browser and of several overlap, the stores fail, the clock runs.        *)
(* A document or identity minted for a request is named after it.          *)
(***************************************************************************)
EXTENDS RateLimit, Accounts, VoterIdentity, Sequences, FiniteSets

CONSTANTS
    Requests,  \* the requests ever sent
    Browsers,  \* each knows one password and prefers one option, named after it
    Types,     \* the e-mail address each browser types
    Mixes      \* bound: how often each operation is sent in one behaviour

ASSUME NamesAssumption ==
    /\ IsFiniteSet(Requests)
    /\ Requests \subseteq UserIDs \cap VoterIDs
    /\ Browsers \subseteq Passwords \cap Choices
    /\ Types \in [Browsers -> Emails]
    /\ "none" \notin Requests
    /\ Scopes = {"auth", "create", "vote"}

VARIABLES
    polls,   \* MongoDB: the poll documents
    jar,     \* each browser's cookies
    sent,    \* each request, as it was sent; NotSent before
    left,    \* the stages of its route it has not passed
    caller,  \* the account its session stands for
    resent,  \* how often the driver has sent it to the limiter again
    hit,     \* the limiter's count of it, each time
    answer   \* what it is answered, and whether its browser has that

stores == <<users, ballots, polls>>
request == <<sent, left, caller, resent, hit, answer>>
vars == <<clock, hits, stores, jar, request>>

\* The times a request may be counted.
Hits == Requests \X (0 .. MaxRetries)

NotSent == [op |-> "none"]
NotCounted == [at |-> 0, answer |-> "none"]
NoAnswer == [session |-> {}, voter |-> {}, shows |-> {}, delivered |-> FALSE]

\* router.New: the stages of each route, and what a limit is shared by.
Route ==
    [register |-> <<"limit", "serve">>,
     login    |-> <<"limit", "serve">>,
     logout   |-> <<"serve">>,
     me       |-> <<"auth", "serve">>,
     create   |-> <<"auth", "limit", "serve">>,
     list     |-> <<"auth", "serve">>,
     vote     |-> <<"limit", "serve">>,
     results  |-> <<"serve">>]

Scope == [register |-> "auth", login |-> "auth", create |-> "create", vote |-> "vote"]

Ops == DOMAIN Route
AccountOps == {"me", "create", "list"}  \* the routes behind RequireAuth
VoterOps == {"vote", "results"}         \* the routes behind the voter middleware

Init ==
    /\ LimitInit
    /\ users = {} /\ ballots = {} /\ polls = {}
    /\ jar = [b \in Browsers |-> [session |-> NoToken, voter |-> NoCookie]]
    /\ sent = [r \in Requests |-> NotSent]
    /\ left = [r \in Requests |-> <<>>]
    /\ caller = [r \in Requests |-> {}]
    /\ resent = [r \in Requests |-> 0]
    /\ hit = [h \in Hits |-> NotCounted]
    /\ answer = [r \in Requests |-> NoAnswer]

Sender(r) == sent[r].browser

At(r, stage) == left[r] # <<>> /\ Head(left[r]) = stage

Serves(r, op) == At(r, "serve") /\ sent[r].op = op

Answered(r) == sent[r] # NotSent /\ left[r] = <<>>

Pass(r) == left' = [left EXCEPT ![r] = Tail(@)]

\* r is answered: the cookies that sets, if any, and the users or choices it
\* names.  An answer without cookies has nothing to deliver.
Reply(r, session, voter, shows) ==
    /\ left' = [left EXCEPT ![r] = <<>>]
    /\ answer' = [answer EXCEPT ![r] =
          [session |-> session, voter |-> voter, shows |-> shows,
           delivered |-> session = {} /\ voter = {}]]

\* An error of any kind: it names nobody.
Fail(r) == Reply(r, {}, {}, {})

-----------------------------------------------------------------------------
(* The browsers.  CookieSettings.Set: every cookie goes with every request; what its
   route does not look at is left out here. *)

\* A session cookie lives as long as its token.
Attached(b) == IF clock < jar[b].session.expires THEN jar[b].session ELSE NoToken

\* A voter cookie lives for its Max-Age, which no later answer renews.
AttachedVoter(b) == IF clock < jar[b].voter.expires THEN jar[b].voter.id ELSE NoVoter

Send(r, b, op) ==
    /\ sent[r] = NotSent
    /\ sent' = [sent EXCEPT ![r] =
          [op |-> op, browser |-> b,
           session |-> IF op \in AccountOps THEN Attached(b) ELSE NoToken,
           voter |-> IF op \in VoterOps THEN AttachedVoter(b) ELSE NoVoter]]
    /\ \E mix \in Mixes : \A o \in Ops :
          Cardinality({q \in Requests : sent'[q].op = o}) =< mix[o]
    /\ left' = [left EXCEPT ![r] = Route[op]]
    /\ UNCHANGED <<clock, hits, stores, jar, caller, resent, hit, answer>>

\* The answer arrives, and the cookies it sets replace the browser's.
Deliver(r) ==
    /\ Answered(r) /\ ~answer[r].delivered
    /\ answer' = [answer EXCEPT ![r].delivered = TRUE]
    /\ jar' = [jar EXCEPT ![Sender(r)] =
          [session |-> IF answer[r].session = {} THEN @.session
                       ELSE CHOOSE t \in answer[r].session : TRUE,
           voter   |-> IF answer[r].voter = {} THEN @.voter
                       ELSE VoterCookie(CHOOSE v \in answer[r].voter : TRUE, clock)]]
    /\ UNCHANGED <<clock, hits, stores, sent, left, caller, resent, hit>>

Tick == TickClock /\ UNCHANGED <<stores, jar, request>>

-----------------------------------------------------------------------------
(* The middleware. *)

\* redis.NewClient leaves the driver's retries as they are: a script whose answer does
\* not come is sent again, and counts again.
Resend(r) ==
    /\ resent[r] < MaxRetries
    /\ resent' = [resent EXCEPT ![r] = @ + 1]
    /\ UNCHANGED <<left, answer>>

\* RateLimit.  All browsers are behind one address.  When Redis does not answer in the
\* end, counted or not, the request passes.
RateLimit(r) ==
    LET k == Scope[sent[r].op]
        CountAs(a) ==
            /\ Hit(k)
            /\ hit' = [hit EXCEPT ![<<r, resent[r]>>] = [at |-> clock, answer |-> a]]
        GoOn == Pass(r) /\ UNCHANGED <<resent, answer>>
    IN  /\ At(r, "limit")
        /\ \/ Allow(k) /\ CountAs("allowed") /\ GoOn
           \/ ~Allow(k) /\ CountAs("refused") /\ Fail(r) /\ UNCHANGED resent
           \/ CountAs("unknown") /\ (GoOn \/ Resend(r))
           \/ GoOn /\ UNCHANGED <<hits, hit>>
        /\ UNCHANGED <<clock, stores, jar, sent, caller>>

\* RequireAuth and AuthService.UserFromToken.
RequireAuth(r) ==
    LET found == UserFromToken(sent[r].session, clock)
    IN  /\ At(r, "auth")
        /\ \/ Fail(r) /\ UNCHANGED caller
           \/ /\ found # {}
              /\ caller' = [caller EXCEPT ![r] = {u.id : u \in found}]
              /\ Pass(r)
              /\ UNCHANGED answer
        /\ UNCHANGED <<clock, hits, stores, jar, sent, resent, hit>>

\* VoterIdentity.Middleware: the identity r is served with, and the cookie that sets.
Voter(r) == Identify(sent[r].voter, r)

Issued(r) == IF Voter(r) = sent[r].voter THEN {} ELSE {Voter(r)}

-----------------------------------------------------------------------------
(* The handlers, with the services they call: a store that fails may have done what
   it was asked for. *)

Register(r) ==
    LET email == Types[Sender(r)]
    IN  /\ Serves(r, "register")
        /\ \/ Fail(r) /\ UNCHANGED users
           \/ /\ ~HasAccount(email)
              /\ CreateUser(r, email, Sender(r))
              /\ Fail(r) \/ Reply(r, {Token(r, clock)}, {}, {r})
        /\ UNCHANGED <<clock, hits, ballots, polls, jar, sent, caller, resent, hit>>

Login(r) ==
    LET found == Authenticated(Types[Sender(r)], Sender(r))
    IN  /\ Serves(r, "login")
        /\ \/ Fail(r)
           \/ \E u \in found : Reply(r, {Token(u.id, clock)}, {}, {u.id})
        /\ UNCHANGED <<clock, hits, stores, jar, sent, caller, resent, hit>>

Logout(r) ==
    /\ Serves(r, "logout")
    /\ Reply(r, {NoToken}, {}, {})
    /\ UNCHANGED <<clock, hits, stores, jar, sent, caller, resent, hit>>

Me(r) ==
    /\ Serves(r, "me")
    /\ Reply(r, {}, {}, caller[r])
    /\ UNCHANGED <<clock, hits, stores, jar, sent, caller, resent, hit>>

\* PollHandler.Create and PollService.Create: the owner is the caller.
CreatePoll(r) ==
    /\ Serves(r, "create")
    /\ \/ Fail(r) /\ UNCHANGED polls
       \/ /\ polls' = polls \cup {[id |-> r, owner |-> u] : u \in caller[r]}
          /\ Fail(r) \/ Reply(r, {}, {}, caller[r])
    /\ UNCHANGED <<clock, hits, users, ballots, jar, sent, caller, resent, hit>>

\* PollHandler.List and PollService.ListForOwner, by the owners of what is listed.
List(r) ==
    /\ Serves(r, "list")
    /\ \/ Fail(r)
       \/ Reply(r, {}, {}, {p.owner : p \in {q \in polls : q.owner \in caller[r]}})
    /\ UNCHANGED <<clock, hits, stores, jar, sent, caller, resent, hit>>

\* VoteHandler.Vote and VoteService.Cast.  Whatever fails, a new identity stays issued;
\* there is none if minting it fails, and then no vote.
Vote(r) ==
    /\ Serves(r, "vote")
    /\ \/ Fail(r) /\ UNCHANGED ballots
       \/ Reply(r, {}, Issued(r), {}) /\ UNCHANGED ballots
       \/ /\ ~VotedAs(Voter(r))
          /\ StoreBallot(r, Voter(r), Sender(r))
          /\ \/ Reply(r, {}, Issued(r), {})
             \/ Reply(r, {}, Issued(r), {Sender(r)})
    /\ UNCHANGED <<clock, hits, users, polls, jar, sent, caller, resent, hit>>

\* VoteHandler.Results: a choice that cannot be looked up is shown as none, and so is
\* that of a browser without an identity.
Results(r) ==
    /\ Serves(r, "results")
    /\ \/ Fail(r)
       \/ Reply(r, {}, Issued(r), {})
       \/ Reply(r, {}, Issued(r), VoteOf(Voter(r)))
    /\ UNCHANGED <<clock, hits, stores, jar, sent, caller, resent, hit>>

Handle(r) ==
    \/ Register(r) \/ Login(r) \/ Logout(r) \/ Me(r)
    \/ CreatePoll(r) \/ List(r)
    \/ Vote(r) \/ Results(r)

Next ==
    \/ Tick
    \/ \E r \in Requests :
        \/ \E b \in Browsers, op \in Ops : Send(r, b, op)
        \/ RateLimit(r) \/ RequireAuth(r) \/ Handle(r)
        \/ Deliver(r)

Spec == Init /\ [][Next]_vars

-----------------------------------------------------------------------------
(* What the API promises. *)

Messages ==
    [op : Ops, browser : Browsers, session : Tokens, voter : Identities] \cup {NotSent}

Answers ==
    [session : SUBSET Tokens, voter : SUBSET VoterIDs,
     shows : SUBSET (UserIDs \cup Choices), delivered : BOOLEAN]

\* Type invariant.
ApiOK ==
    /\ LimiterOK
    /\ users \in SUBSET Users
    /\ ballots \in SUBSET [id : Requests, voter : VoterIDs, option : Choices]
    /\ polls \in SUBSET [id : Requests, owner : UserIDs]
    /\ jar \in [Browsers -> [session : Tokens, voter : VoterCookies]]
    /\ sent \in [Requests -> Messages]
    /\ left \in [Requests -> Seq({"limit", "auth", "serve"})]
    /\ caller \in [Requests -> SUBSET UserIDs]
    /\ resent \in [Requests -> 0 .. MaxRetries]
    /\ hit \in [Hits -> [at : Nat, answer : {"none", "allowed", "refused", "unknown"}]]
    /\ answer \in [Requests -> Answers]

\* The account was made by browser b.
Owns(b, id) == \A u \in users : u.id = id => u.password = b

\* No browser comes to hold a session of an account whose password it does not know,
\* and nothing it is shown or that is created in its name belongs to such an account,
\* however requests, answers and expiries overlap (auth_service.go:138-202).
SessionsAreEarned ==
    /\ \A b \in Browsers : Owns(b, jar[b].session.user)
    /\ \A p \in polls : Owns(Sender(p.id), p.owner)
    /\ \A r \in Requests :
        Answered(r) /\ sent[r].op \notin VoterOps =>
            /\ \A id \in answer[r].shows : Owns(Sender(r), id)
            /\ \A t \in answer[r].session : Owns(Sender(r), t.user)

\* What hit h counts in.
ScopeOf(h) == Scope[sent[h[1]].op]

\* The hits of scope k in the window's length that ends at t, of the given answers.
Counted(k, t, as) ==
    {h \in Hits :
        /\ hit[h].answer \in as
        /\ ScopeOf(h) = k
        /\ hit[h].at =< t /\ t < hit[h].at + Window[k]}

\* Whatever the turns of the fixed window, the limiter allows less than twice the limit
\* in any interval of its length: the first hit starts the window (rate_limit.go:32-36).
\* Requests it could not decide on pass besides.
LessThanTwiceTheLimit ==
    \A k \in Scopes, t \in 0 .. clock :
        Cardinality(Counted(k, t, {"allowed"})) < 2 * Limit[k]

\* Nobody is turned away before the address has taken the limit's hits within the last
\* window's length, refusals apart: being refused costs nothing more
\* (rate_limit.go:14-17).  A request takes a hit each time the driver sends it.
RefusalsAreEarned ==
    \A h \in Hits :
        hit[h].answer = "refused" =>
            Limit[ScopeOf(h)] =< Cardinality(
                Counted(ScopeOf(h), hit[h].at, {"allowed", "unknown"}))

\* A browser has as many ballots as it has sent requests without a voter cookie, at
\* most: while the cookie lives it votes once, whatever it repeats (voter.go:27-32).
BallotsPerBrowser ==
    \A b \in Browsers :
        Cardinality({v \in ballots : Sender(v.id) = b}) =<
        Cardinality({r \in Requests :
            /\ sent[r].op \in VoterOps
            /\ Sender(r) = b /\ sent[r].voter = NoVoter})

\* A request of b that may yet be given a new identity.
Unsettled(b) ==
    \E r \in Requests :
        /\ sent[r].op \in VoterOps
        /\ Sender(r) = b /\ sent[r].voter = NoVoter
        /\ Answered(r) => ~answer[r].delivered

\* A browser whose first answers have arrived keeps its identity while the cookie lives
\* (voter.go:20-23).
OneIdentityOnceSettled ==
    [][\A b \in Browsers :
        clock < jar[b].voter.expires /\ ~Unsettled(b) => jar'[b].voter = jar[b].voter]_vars

\* The choice a voter is shown as its own is its own (vote_service.go:130-153).
OwnChoiceShown ==
    \A r \in Requests :
        Answered(r) /\ sent[r].op \in VoterOps => answer[r].shows \subseteq {Sender(r)}

=============================================================================
