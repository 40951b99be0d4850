--------------------------- MODULE VoterIdentity ---------------------------
(***************************************************************************)
(* The anonymous voter: an identity the server mints, signs and gives to   *)
(* the browser in a cookie, and the one ballot it may store in a poll.     *)
(***************************************************************************)
EXTENDS Naturals

CONSTANTS
    VoterIDs,   \* identities, each minted once
    Choices,    \* the options of the poll
    VoterLife   \* voterCookieMaxAge

ASSUME VoterLifeAssumption == VoterLife \in Nat

VARIABLE ballots  \* MongoDB: the votes of one poll

\* The browser has no voter cookie, or one that was not signed here.
NoVoter == "none"

\* Mutants: an identity is issued to every request; to none.
AlwaysIssued(cookie, new) == new
NeverIssued(cookie, new) == cookie

\* VoterIdentity.Middleware: the identity of a request that carries cookie, new if
\* it carries none.
Identify(cookie, new) == IF cookie = NoVoter THEN new ELSE cookie

\* Mutant: the collection without its unique index.
NeverVoted(v) == FALSE

\* The unique (pollId, voterId) index.
VotedAs(v) == \E b \in ballots : b.voter = v

StoreBallot(id, v, o) == ballots' = ballots \cup {[id |-> id, voter |-> v, option |-> o]}

\* Mutant: anybody's choice.
AnyChoice(v) == {b.option : b \in ballots}

\* VoteService.VoteOf: the recorded choice, if any.
VoteOf(v) == {b.option : b \in {c \in ballots : c.voter = v}}

Identities == VoterIDs \cup {NoVoter}

\* VoterIdentity.Middleware: the cookie an identity is issued in, as a browser keeps it
\* from t on.
VoterCookie(v, t) == [id |-> v, expires |-> t + VoterLife]

NoCookie == [id |-> NoVoter, expires |-> 0]

VoterCookies == [id : Identities, expires : Nat]

=============================================================================
