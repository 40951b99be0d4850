------------------------------ MODULE Accounts ------------------------------
(***************************************************************************)
(* Accounts and sessions: the users collection under its unique index on   *)
(* the address, and signed tokens that say whose session it is and how     *)
(* long it lasts.  A password is modelled by who knows it.                 *)
(***************************************************************************)
EXTENDS Naturals

CONSTANTS
    UserIDs,    \* document ids, each minted once
    Addresses,  \* e-mail addresses
    Spellings,  \* ways to type one; "normal" is the normal form
    Passwords,
    TokenLife   \* AuthService.jwtExpiry

ASSUME SpellingsAssumption == "normal" \in Spellings
ASSUME TokenLifeAssumption == TokenLife \in Nat

VARIABLE users  \* MongoDB: the user documents

Emails == [address : Addresses, spelling : Spellings]

\* Mutant: the address is kept as it was typed.
AsTyped(e) == e

\* Lower case, trimmed: one form per address.
NormaliseEmail(e) == [e EXCEPT !.spelling = "normal"]

HasAccount(e) == \E u \in users : u.email = NormaliseEmail(e)

\* UserRepository.Create.
CreateUser(id, e, password) ==
    users' = users \cup {[id |-> id, email |-> NormaliseEmail(e), password |-> password]}

\* Mutant: whoever names the account has it.
AnyPassword(e, password) == {u \in users : u.email = NormaliseEmail(e)}

\* FindByEmail and the comparison with the hash: the user Login finds, if any.
Authenticated(e, password) ==
    {u \in users : u.email = NormaliseEmail(e) /\ u.password = password}

\* newSession.
Token(id, t) == [user |-> id, expires |-> t + TokenLife]

NoToken == [user |-> "none", expires |-> 0]

\* UserFromToken: the user behind a token that is signed and not expired, if any.
UserFromToken(token, t) == {u \in users : u.id = token.user /\ t < token.expires}

Users == [id : UserIDs, email : Emails, password : Passwords]

Tokens == [user : UserIDs, expires : Nat] \cup {NoToken}

\* One account per address, not per spelling and whichever registrations overlap
\* (user_repository.go:23-27, validation.go:60-64).
OneAccountPerAddress == \A u, v \in users : u.email.address = v.email.address => u = v

=============================================================================
