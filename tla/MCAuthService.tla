---------------------------- MODULE MCAuthService ----------------------------
(* Small instances of AuthService for TLC. *)
EXTENDS AuthService, TLC

CONSTANTS o, o2, x, y, google, apple, e1, e2

\* A table with the entries of f, and no others.
Table(f) == [i \in Ids |-> IF i \in DOMAIN f THEN f[i] ELSE None]

Person(e, p, s) == [email |-> e, status |-> s, pw |-> p, tv |-> 1, fails |-> 0,
                    locked |-> FALSE]
Live == [tv |-> 1, user |-> o, family |-> o, revoked |-> FALSE]

State(user, pair, code, link) ==
    [users |-> Table(user), pairs |-> Table(pair), codes |-> Table(code), links |-> Table(link)]

\* A user who is signed in and has asked for a password reset.
SignedIn == State(o :> Person(e1, TRUE, "active"), o :> Live,
                  o :> [user |-> o, kind |-> "reset", used |-> FALSE], <<>>)

\* A user who has registered and not verified the address.
Registered == State(o :> Person(e1, TRUE, "unverified"), <<>>,
                    o :> [user |-> o, kind |-> "verify", used |-> FALSE], <<>>)

\* A user who signs in with two identities and has no password.
Federated == State(o :> Person(e1, FALSE, "active"), o :> Live, <<>>,
                   o :> [user |-> o, identity |-> x] @@ o2 :> [user |-> o, identity |-> y])

\* A user with a password, signed in.
Local == State(o :> Person(e1, TRUE, "active"), o :> Live, <<>>, <<>>)

SessionStarts == {SignedIn}
AccountStarts == {Registered, Federated, Local}

Sessions == {"login", "mistake", "refresh", "logout", "update", "password", "forgot", "reset"}
Accounts == {"register", "verify", "email", "oauth", "link", "unlink", "delete"}

\* x is an account at Google with the address e1, y one at Apple without any.
Address == x :> e1 @@ y :> None
Issuer == x :> google @@ y :> apple

Symmetry == Permutations(Calls)

=============================================================================
