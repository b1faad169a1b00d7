----------------------------- MODULE AuthService -----------------------------
(***************************************************************************)
(* Users, sessions, one-time codes and linked identities of the Auth       *)
(* service (internal/auth), within one app: apps share nothing but the     *)
(* database.                                                               *)
(*                                                                         *)
(* A request is a series of repository calls, each an action.  It reads a  *)
(* user, changes its copy and writes it back whole, without a lock or a    *)
(* version check, so every other request may come in between.  Program     *)
(* says in which order an operation makes its calls.                       *)
(*                                                                         *)
(* Ids are drawn fresh (idgen), and no operation draws two of a kind: a    *)
(* user, a token pair, a code and a link have the name of the call that    *)
(* made them.  A call begins with its first repository call.  One that is  *)
(* refused there (the tenant gate, the rate limiter, a wrong password of a *)
(* signed-in user, an expired token) has changed nothing and is left out.  *)
(***************************************************************************)
EXTENDS Naturals, FiniteSets

CONSTANTS
    Calls,       \* requests; also the ids they draw
    Old,         \* ids drawn earlier
    Starts,      \* what the database may hold at first
    Operations,  \* the operations that are called
    Emails,
    Identities,  \* accounts at Google or Apple
    Providers,
    EmailOf,     \* EmailOf[x]: the address that identity x has, or None
    ProviderOf,
    Backends,    \* "memory", "firestore"
    LockAfter,   \* wrong passwords in a row that lock an account (5)
    None,
    MaxFaults    \* bound: failing repository calls

Ids == Calls \cup Old

\* email_verified says nothing that status and email do not: it is left out.
\* pw: whether there is a password; a request has the right one or a wrong one.
User == [email : Emails \cup {None}, status : {"unverified", "active", "deleted"},
         pw : BOOLEAN, tv : Nat, fails : Nat, locked : BOOLEAN]

\* An access and a refresh token that were issued together.
Pair == [tv : Nat, user : Ids, family : Ids, revoked : BOOLEAN]

Code == [user : Ids, kind : {"verify", "reset"}, used : BOOLEAN]

Link == [user : Ids, identity : Identities]

\* A request: its operation, the token or code it presents, what else it names.
Request == [op : Operations, by : Ids \cup {None},
            to : Emails \cup Identities \cup Providers \cup {None}]

Database == [users : [Ids -> User \cup {None}], pairs : [Ids -> Pair \cup {None}],
             codes : [Ids -> Code \cup {None}], links : [Ids -> Link \cup {None}]]

ASSUME IdsAssumption == Calls \cap Old = {}

ASSUME EmailAssumption == \A x \in Identities : EmailOf[x] \in Emails \cup {None}

\* What is stored at first has old ids, belongs to stored users (their documents
\* are never deleted), and has one link for an identity.
ASSUME StartsAssumption ==
    \A s \in Starts :
        /\ s \in Database
        /\ \A c \in Calls : /\ s.users[c] = None /\ s.pairs[c] = None
                            /\ s.codes[c] = None /\ s.links[c] = None
        /\ \A i \in Ids : /\ s.pairs[i] # None => s.users[s.pairs[i].user] # None
                          /\ s.codes[i] # None => s.users[s.codes[i].user] # None
                          /\ s.links[i] # None => s.users[s.links[i].user] # None
        /\ \A l, m \in Ids : l # m /\ s.links[l] # None /\ s.links[m] # None
                              => s.links[l].identity # s.links[m].identity

\* It is what requests leave behind that came one after the other: addresses
\* differ, a deleted user has none, no token is ahead of its user's version, and
\* a user without a password, who cannot ask for a reset, has a link.
ASSUME SettledAssumption ==
    \A s \in Starts : \A u \in Ids :
        LET d == s.users[u]
        IN  d # None =>
              /\ \A v \in Ids \ {u} :
                    s.users[v] = None \/ s.users[v].email # d.email \/ d.email = None
              /\ d.status # "deleted" \/ d.email = None
              /\ \A i \in Ids : s.pairs[i] = None \/ s.pairs[i].user # u \/ s.pairs[i].tv <= d.tv
              /\ \/ d.status = "deleted" \/ d.pw
                 \/ /\ \E l \in Ids : s.links[l] # None /\ s.links[l].user = u
                    /\ \A k \in Ids : \/ s.codes[k] = None \/ s.codes[k].user # u
                                      \/ s.codes[k].kind # "reset"

ASSUME NoneAssumption == None \notin Pair \cup User \cup Code \cup Link \cup Emails \cup Ids

ASSUME LockAssumption == LockAfter \in Nat \ {0}

ASSUME FaultsAssumption == MaxFaults \in Nat

VARIABLES
    backend,
    users,    \* users
    index,    \* the memory store's index: index[e], a user id
    pairs,    \* refresh_tokens, and the access tokens that went with them
    codes,    \* verification_tokens
    links,    \* oauth_accounts
    pc,       \* the next repository call of each request, or how it ended
    call,     \* what it was called with
    who,      \* the user it works on
    copy,     \* its local copy of that user
    pending,  \* documents that its query has found and that it has yet to change
    before,   \* history: the calls that were over when it began
    faults

stored == <<users, index, pairs, codes, links>>
locals == <<call, who, before>>
vars == <<backend, stored, pc, copy, locals, pending, faults>>

\* How a request is answered: "ok", or with a code: "taken" is CodeEmailExists,
\* "bad" CodeBadCreds, "locked" CodeLocked, "reuse" CodeTokenInvalid for a revoked
\* refresh token; "refused" is any other refusal, "failed" a repository error.
Ends == {"ok", "refused", "taken", "failed", "bad", "locked", "reuse"}
Steps == {"idle", "create", "insert", "check", "match", "user", "write", "set", "issue", "spend",
          "revoke", "revoking", "mail", "mark", "owner", "link", "add", "list", "drop"}
Ended == Old \cup {c \in Calls : pc[c] \in Ends}
Answered == Old \cup {c \in Calls : pc[c] = "ok"}
InFlight == {c \in Calls : pc[c] \notin Ends \cup {"idle"}}

Init ==
    /\ backend \in Backends
    /\ \E s \in Starts : /\ users = s.users
                         /\ pairs = s.pairs
                         /\ codes = s.codes
                         /\ links = s.links
    /\ index = [e \in Emails |->
                  IF backend = "memory" /\ \E u \in Ids : users[u] # None /\ users[u].email = e
                  THEN CHOOSE u \in Ids : users[u] # None /\ users[u].email = e
                  ELSE None]
    /\ pc = [c \in Calls |-> "idle"]
    /\ call = [c \in Calls |-> None]
    /\ who = [c \in Calls |-> None]
    /\ copy = [c \in Calls |-> None]
    /\ pending = [c \in Calls |-> {}]
    /\ before = [c \in Calls |-> {}]
    /\ faults = 0

-----------------------------------------------------------------------------
(* Which repository call follows which                                      *)

RegisterProgram == [create |-> "mail", mail |-> "ok"]
LoginProgram    == [write |-> "issue", issue |-> "ok"]
MistakeProgram  == [write |-> "bad"]
RefreshProgram  == [spend |-> "user", user |-> "issue", issue |-> "ok", revoke |-> "reuse"]
LogoutProgram   == [revoke |-> "write", write |-> "ok"]
VerifyProgram   == [user |-> "write", write |-> "mark", mark |-> "ok"]
ForgotProgram   == [mail |-> "ok"]
ResetProgram    == [user |-> "write", write |-> "revoke", revoke |-> "mark", mark |-> "ok"]
OAuthProgram    == [user |-> "write", create |-> "link", link |-> "write",
                    write |-> "issue", issue |-> "ok"]
LinkProgram     == [link |-> "ok"]
UnlinkProgram   == [drop |-> "ok"]
UpdateProgram   == [write |-> "ok"]
PasswordProgram == [write |-> "revoke", revoke |-> "ok"]
EmailProgram    == [write |-> "revoke", revoke |-> "mail", mail |-> "ok"]
DeleteProgram   == [write |-> "revoke", revoke |-> "list", drop |-> "ok"]

Program == [register |-> RegisterProgram, login |-> LoginProgram, mistake |-> MistakeProgram,
            refresh |-> RefreshProgram, logout |-> LogoutProgram, verify |-> VerifyProgram,
            forgot |-> ForgotProgram, reset |-> ResetProgram, oauth |-> OAuthProgram,
            link |-> LinkProgram, unlink |-> UnlinkProgram, update |-> UpdateProgram,
            password |-> PasswordProgram, email |-> EmailProgram, delete |-> DeleteProgram]

Op(c) == call[c].op

\* On to the call at `step`, with the copy d.
Advance(c, step, d) ==
    /\ pc' = [pc EXCEPT ![c] = step]
    /\ copy' = [copy EXCEPT ![c] = d]

Goto(c, step) == Advance(c, step, IF step \in Ends THEN None ELSE copy[c])

\* The call at `step` is done: the next one.
Proceed(c, step) == Goto(c, Program[Op(c)][step])

-----------------------------------------------------------------------------
(* How a request begins                                                     *)

Req(op, by, to) == [op |-> op, by |-> by, to |-> to]

\* Request r of user u, with the copy d, goes on with the call at `step`.
Start(c, r, u, d, step) ==
    /\ pc[c] = "idle"
    /\ r.op \in Operations
    /\ pc' = [pc EXCEPT ![c] = step]
    /\ call' = [call EXCEPT ![c] = r]
    /\ who' = [who EXCEPT ![c] = u]
    /\ copy' = [copy EXCEPT ![c] = d]
    /\ before' = [before EXCEPT ![c] = Ended]
    /\ UNCHANGED <<backend, stored, pending, faults>>

\* GetByEmail asks the index of the memory store.
FoundInMemory(e) == {u \in Ids : u = index[e] /\ users[u] # None}

\* In Firestore it takes whichever user Limit(1) yields.
FoundInFirestore(e) == {u \in Ids : users[u] # None /\ users[u].email = e}

Found(e) == IF backend = "memory" THEN FoundInMemory(e) ELSE FoundInFirestore(e)

NewUser(e, p, s) ==
    [email |-> e, status |-> s, pw |-> p, tv |-> 1, fails |-> 0, locked |-> FALSE]

Register(c) ==
    \E e \in Emails :
        /\ \A u \in Found(e) : users[u].status = "deleted"
        /\ Start(c, Req("register", None, None), c, NewUser(e, TRUE, "unverified"), "create")

Login(c) ==
    \E e \in Emails, op \in {"login", "mistake"} : \E u \in Found(e) :
        /\ ~users[u].locked
        /\ users[u].status = "active"
        /\ op = "login" => users[u].pw
        /\ Start(c, Req(op, None, None), u, users[u], "write")

\* Pairs that a client has been answered with.
Held == {i \in Answered : pairs[i] # None}

\* The record of the token: a revoked one means that the token is used again.
Refresh(c) ==
    \E i \in Held :
        Start(c, Req("refresh", i, None), pairs[i].user, None,
              IF pairs[i].revoked THEN "revoke" ELSE "spend")

\* Mutant: the version of the access token is not compared.
AuthenticActive(i) == users[pairs[i].user] # None /\ users[pairs[i].user].status = "active"

\* LoadUserForAccess: pair i's access token admits its user.
Authentic(i) ==
    LET d == users[pairs[i].user]
    IN  d # None /\ d.status = "active" /\ d.tv = pairs[i].tv

\* A request with a bearer token; the user that admitted it is its copy.
Bearer(c, op, i, to, step) ==
    /\ Authentic(i)
    /\ Start(c, Req(op, i, to), pairs[i].user, users[pairs[i].user], step)

HasPassword(i) == users[pairs[i].user].pw

Logout(c) == \E i \in Held : Bearer(c, "logout", i, None, "revoke")

UpdateMe(c) == \E i \in Held : Bearer(c, "update", i, None, "write")

ChangePassword(c) ==
    \E i \in Held : Bearer(c, "password", i, None, "write") /\ HasPassword(i)

ChangeEmail(c) ==
    \E i \in Held, e \in Emails :
        Bearer(c, "email", i, e, "check") /\ HasPassword(i)

DeleteAccount(c) == \E i \in Held : Bearer(c, "delete", i, None, "write")

OAuthLink(c) ==
    \E i \in Held, x \in Identities : Bearer(c, "link", i, x, "owner")

OAuthUnlink(c) ==
    \E i \in Held, p \in Providers : Bearer(c, "unlink", i, p, "list")

Mailed(k) == k \in Answered /\ codes[k] # None

\* Mutant: a used code is good for another time.
UsableCode(k, kind) == Mailed(k) /\ codes[k].kind = kind

\* A code that was mailed, and that a request presents.
ValidCode(k, kind) == Mailed(k) /\ codes[k].kind = kind /\ ~codes[k].used

VerifyEmail(c) ==
    \E k \in Ids :
        /\ ValidCode(k, "verify")
        /\ Start(c, Req("verify", k, None), codes[k].user, None, "user")

ResetPassword(c) ==
    \E k \in Ids :
        /\ ValidCode(k, "reset")
        /\ Start(c, Req("reset", k, None), codes[k].user, None, "user")

ForgotPassword(c) ==
    \E e \in Emails : \E u \in Found(e) :
        /\ users[u].status # "deleted"
        /\ users[u].pw
        /\ Start(c, Req("forgot", None, None), u, None, "mail")

Linked(x) == {l \in Ids : links[l] # None /\ links[l].identity = x}

\* GetByProvider decides how the identity signs in.
OAuthCallback(c) ==
    \E x \in Identities :
        \/ \E l \in Linked(x) :
              Start(c, Req("oauth", None, x), links[l].user, None, "user")
        \/ /\ Linked(x) = {}
           /\ IF EmailOf[x] = None
              THEN Start(c, Req("oauth", None, x), c, NewUser(None, FALSE, "active"), "create")
              ELSE Start(c, Req("oauth", None, x), c, None, "match")

Begin(c) ==
    \/ Register(c) \/ Login(c) \/ Refresh(c) \/ Logout(c)
    \/ UpdateMe(c) \/ ChangePassword(c) \/ ChangeEmail(c) \/ DeleteAccount(c)
    \/ VerifyEmail(c) \/ ForgotPassword(c) \/ ResetPassword(c)
    \/ OAuthCallback(c) \/ OAuthLink(c) \/ OAuthUnlink(c)

-----------------------------------------------------------------------------
(* Reading users                                                            *)

\* Mutant: whoever is found will do.
AnyUser(c, d) == d # None

\* What the operation asks of the user that it finds.
FitUser(c, d) == /\ d # None
                 /\ Op(c) = "refresh" => d.status = "active"
                 /\ Op(c) = "oauth" => d.status # "deleted"

\* GetByID
ReadUser(c) ==
    LET d == users[who[c]]
    IN  /\ pc[c] = "user"
        /\ \/ /\ FitUser(c, d)
              /\ Advance(c, Program[Op(c)].user, d)
           \/ /\ ~FitUser(c, d)
              /\ Goto(c, "refused")
        /\ UNCHANGED <<backend, stored, locals, pending, faults>>

\* OAuthCallback of an unknown identity: an active user with its address is
\* linked to it, otherwise it gets a user of its own.
MatchEmail(c) ==
    LET e == EmailOf[call[c].to]
    IN  /\ pc[c] = "match"
        /\ \/ \E u \in Found(e) :
                 /\ users[u].status = "active"
                 /\ who' = [who EXCEPT ![c] = u]
                 /\ Advance(c, "link", users[u])
           \/ /\ Found(e) = {} \/ \E u \in Found(e) : users[u].status # "active"
              /\ Advance(c, "create", NewUser(e, FALSE, "active"))
              /\ UNCHANGED who
        /\ UNCHANGED <<backend, stored, call, before, pending, faults>>

\* ChangeEmail: is the address somebody else's?
CheckEmail(c) ==
    LET e == call[c].to
        other(u) == u # who[c] /\ users[u].status # "deleted"
    IN  /\ pc[c] = "check"
        /\ \/ /\ Found(e) = {} \/ \E u \in Found(e) : ~other(u)
              /\ Goto(c, "write")
           \/ /\ \E u \in Found(e) : other(u)
              /\ Goto(c, "refused")
        /\ UNCHANGED <<backend, stored, locals, pending, faults>>

-----------------------------------------------------------------------------
(* Writing users                                                            *)

\* Mutant: one wrong password too many.
MistakenOnce(d) == IF d.fails >= LockAfter THEN [d EXCEPT !.fails = 0, !.locked = TRUE]
                   ELSE [d EXCEPT !.fails = @ + 1]

\* A wrong password; the last one of a series locks the account.
Mistaken(d) == IF d.fails + 1 >= LockAfter THEN [d EXCEPT !.fails = 0, !.locked = TRUE]
               ELSE [d EXCEPT !.fails = @ + 1]

\* What each handler makes of its copy of the user.
Edited(c) ==
    LET d == copy[c]
    IN  CASE Op(c) = "login"    -> [d EXCEPT !.fails = 0, !.locked = FALSE]
          [] Op(c) = "mistake"  -> Mistaken(d)
          [] Op(c) = "logout"   -> [d EXCEPT !.tv = @ + 1]
          [] Op(c) = "verify"   -> [d EXCEPT !.status = IF @ = "unverified" THEN "active" ELSE @]
          [] Op(c) = "reset"    -> [d EXCEPT !.pw = TRUE, !.tv = @ + 1, !.fails = 0,
                                             !.locked = FALSE]
          [] Op(c) = "oauth"    -> [d EXCEPT !.status = "active"]
          [] Op(c) = "password" -> [d EXCEPT !.pw = TRUE, !.tv = @ + 1]
          [] Op(c) = "email"    -> [d EXCEPT !.email = call[c].to, !.status = "unverified",
                                             !.tv = @ + 1]
          [] Op(c) = "delete"   -> [d EXCEPT !.status = "deleted", !.email = None,
                                             !.pw = FALSE, !.tv = @ + 1]
          [] OTHER -> d

\* The user is written: a wrong password is answered by what came of it.
Written(c) ==
    IF Op(c) = "mistake" /\ Edited(c).locked THEN Goto(c, "locked") ELSE Proceed(c, "write")

AddressOf(u) == IF users[u] = None THEN None ELSE users[u].email

\* The memory store drops the index entry of a user's old address before it
\* looks at the new one.
Freed(u, d) == IF AddressOf(u) \in {None, d.email} THEN index
               ELSE [index EXCEPT ![AddressOf(u)] = None]

Clash(u, d) == d.email # None /\ Freed(u, d)[d.email] \notin {None, u}

\* Mutant: the new address is not looked up in the index.
StoreUnchecked(u, d, done, clash) ==
    /\ users' = [users EXCEPT ![u] = d]
    /\ index' = IF d.email = None THEN Freed(u, d) ELSE [Freed(u, d) EXCEPT ![d.email] = u]
    /\ done

\* Mutant: the new address is not entered in the index.
StoreUnindexed(u, d, done, clash) ==
    \/ /\ ~Clash(u, d)
       /\ users' = [users EXCEPT ![u] = d]
       /\ index' = Freed(u, d)
       /\ done
    \/ /\ Clash(u, d)
       /\ index' = Freed(u, d)
       /\ UNCHANGED users
       /\ clash

\* Create and Update of the memory store, under one lock.
StoreInMemory(u, d, done, clash) ==
    \/ /\ ~Clash(u, d)
       /\ users' = [users EXCEPT ![u] = d]
       /\ index' = IF d.email = None THEN Freed(u, d) ELSE [Freed(u, d) EXCEPT ![d.email] = u]
       /\ done
    \/ /\ Clash(u, d)
       /\ index' = Freed(u, d)
       /\ UNCHANGED users
       /\ clash

\* Firestore's Create and Update first ask who has the address, when it is new.
Queried(u, d, free, clash) ==
    LET new == d.email \notin {None, AddressOf(u)}
    IN  /\ \/ /\ new => Found(d.email) = {} \/ u \in Found(d.email)
              /\ free
           \/ /\ new
              /\ \E x \in Found(d.email) : x # u
              /\ clash
        /\ UNCHANGED <<users, index>>

CreateUser(c) ==
    /\ pc[c] = "create"
    /\ IF backend = "memory"
       THEN StoreInMemory(c, copy[c], Proceed(c, "create"), Goto(c, "taken"))
       ELSE Queried(c, copy[c], Goto(c, "insert"), Goto(c, "taken"))
    /\ UNCHANGED <<backend, pairs, codes, links, locals, pending, faults>>

\* An error of the update is returned, but for that of a failed login.
UpdateUser(c) ==
    LET clash == IF Op(c) = "mistake" THEN Written(c) ELSE Goto(c, "taken")
    IN  /\ pc[c] = "write"
        /\ IF backend = "memory"
           THEN StoreInMemory(who[c], Edited(c), Written(c), clash)
           ELSE Queried(who[c], Edited(c), Goto(c, "set"), clash)
        /\ UNCHANGED <<backend, pairs, codes, links, locals, pending, faults>>

\* Firestore's write of the whole document.
SetUser(c) ==
    /\ \/ pc[c] = "insert" /\ users' = [users EXCEPT ![c] = copy[c]] /\ Proceed(c, "create")
       \/ pc[c] = "set" /\ users' = [users EXCEPT ![who[c]] = Edited(c)] /\ Written(c)
    /\ UNCHANGED <<backend, index, pairs, codes, links, locals, pending, faults>>

-----------------------------------------------------------------------------
(* Tokens and codes                                                         *)

\* Mutant: a refresh starts a family of its own.
FamilyAnew(c) == c

\* Mutant: a sign-in starts no family.
FamilyUnset(c) == IF Op(c) = "refresh" THEN pairs[call[c].by].family ELSE None

FamilyOf(c) == IF Op(c) = "refresh" THEN pairs[call[c].by].family ELSE c

\* issueTokens
IssueTokens(c) ==
    /\ pc[c] = "issue"
    /\ pairs' = [pairs EXCEPT ![c] = [tv |-> copy[c].tv, user |-> who[c],
                                      family |-> FamilyOf(c), revoked |-> FALSE]]
    /\ Proceed(c, "issue")
    /\ UNCHANGED <<backend, users, index, codes, links, locals, pending, faults>>

\* Mutant: the presented token stays valid.
SpendNothing(c) ==
    /\ pc[c] = "spend"
    /\ Proceed(c, "spend")
    /\ UNCHANGED <<backend, stored, locals, pending, faults>>

\* Refresh revokes the token that it was given.
SpendToken(c) ==
    /\ pc[c] = "spend"
    /\ pairs' = [pairs EXCEPT ![call[c].by].revoked = TRUE]
    /\ Proceed(c, "spend")
    /\ UNCHANGED <<backend, users, index, codes, links, locals, pending, faults>>

\* Mutant: only the presented token is revoked.
ToRevokeOne(c) == {i \in Ids : pairs[i] # None /\ ~pairs[i].revoked /\ i = call[c].by}

\* RevokeFamily for a reused token, RevokeAllForUser for all else.
ToRevoke(c) ==
    {i \in Ids : /\ pairs[i] # None /\ ~pairs[i].revoked
                 /\ IF Op(c) = "refresh" THEN pairs[i].family = pairs[call[c].by].family
                    ELSE pairs[i].user = who[c]}

\* The memory store revokes all under one lock.
RevokeInMemory(c) ==
    /\ pc[c] = "revoke" /\ backend = "memory"
    /\ pairs' = [i \in Ids |-> IF i \in ToRevoke(c) THEN [pairs[i] EXCEPT !.revoked = TRUE]
                              ELSE pairs[i]]
    /\ Proceed(c, "revoke")
    /\ UNCHANGED <<backend, users, index, codes, links, locals, pending, faults>>

\* Firestore revokes what its query found, one by one.
QueryTokens(c) ==
    /\ pc[c] = "revoke" /\ backend = "firestore"
    /\ pending' = [pending EXCEPT ![c] = ToRevoke(c)]
    /\ IF ToRevoke(c) = {} THEN Proceed(c, "revoke") ELSE Goto(c, "revoking")
    /\ UNCHANGED <<backend, stored, locals, faults>>

RevokeNext(c) ==
    /\ pc[c] = "revoking"
    /\ \E i \in pending[c] :
          /\ pairs' = [pairs EXCEPT ![i].revoked = TRUE]
          /\ pending' = [pending EXCEPT ![c] = @ \ {i}]
          /\ IF pending[c] = {i} THEN Proceed(c, "revoke") ELSE UNCHANGED <<pc, copy>>
    /\ UNCHANGED <<backend, users, index, codes, links, locals, faults>>

\* A new code, which is mailed when it is stored.
MailCode(c) ==
    /\ pc[c] = "mail"
    /\ codes' = [codes EXCEPT ![c] =
          [user |-> who[c], kind |-> IF Op(c) = "forgot" THEN "reset" ELSE "verify",
           used |-> FALSE]]
    /\ Proceed(c, "mail")
    /\ UNCHANGED <<backend, users, index, pairs, links, locals, pending, faults>>

MarkUsed(c) ==
    /\ pc[c] = "mark"
    /\ codes' = [codes EXCEPT ![call[c].by].used = TRUE]
    /\ Proceed(c, "mark")
    /\ UNCHANGED <<backend, users, index, pairs, links, locals, pending, faults>>

-----------------------------------------------------------------------------
(* Linked identities                                                        *)

NewLink(c) == [links EXCEPT ![c] = [user |-> who[c], identity |-> call[c].to]]

\* OAuthLink: is the identity linked already?
CheckOwner(c) ==
    /\ pc[c] = "owner"
    /\ \/ \E l \in Linked(call[c].to) :
             Goto(c, IF links[l].user = who[c] THEN "ok" ELSE "refused")
       \/ /\ Linked(call[c].to) = {}
          /\ Goto(c, "link")
    /\ UNCHANGED <<backend, stored, locals, pending, faults>>

Linkable(c) == Linked(call[c].to) = {}

\* Mutant: a link is created whether or not the identity has one.
LinkUnchecked(c) ==
    /\ pc[c] = "link" /\ backend = "memory"
    /\ links' = NewLink(c)
    /\ Proceed(c, "link")
    /\ UNCHANGED <<backend, users, index, pairs, codes, locals, pending, faults>>

\* The memory store looks and creates under one lock.
LinkInMemory(c) ==
    /\ pc[c] = "link" /\ backend = "memory"
    /\ \/ /\ Linkable(c)
          /\ links' = NewLink(c)
          /\ Proceed(c, "link")
       \/ /\ ~Linkable(c)
          /\ Goto(c, "refused")
          /\ UNCHANGED links
    /\ UNCHANGED <<backend, users, index, pairs, codes, locals, pending, faults>>

\* Firestore looks first.
QueryLink(c) ==
    /\ pc[c] = "link" /\ backend = "firestore"
    /\ Goto(c, IF Linkable(c) THEN "add" ELSE "refused")
    /\ UNCHANGED <<backend, stored, locals, pending, faults>>

AddLink(c) ==
    /\ pc[c] = "add"
    /\ links' = NewLink(c)
    /\ Proceed(c, "link")
    /\ UNCHANGED <<backend, users, index, pairs, codes, locals, pending, faults>>

LinksOf(u) == {l \in Ids : links[l] # None /\ links[l].user = u}

\* Mutant: the last way to sign in may go.
LastWay(c, l) == FALSE

\* Without link l, nothing is left that the user can sign in with.
OnlyWay(c, l) == LinksOf(who[c]) = {l} /\ ~copy[c].pw

\* OAuthUnlink picks a link of the provider, DeleteAccount all.
ListLinks(c) ==
    LET own == LinksOf(who[c])
        fit == {l \in own : ProviderOf[links[l].identity] = call[c].to}
    IN  /\ pc[c] = "list"
        /\ \/ /\ Op(c) = "unlink"
              /\ \E l \in fit : /\ ~OnlyWay(c, l)
                                /\ pending' = [pending EXCEPT ![c] = {l}]
              /\ Goto(c, "drop")
           \/ /\ Op(c) = "unlink"
              /\ fit = {} \/ \E l \in fit : OnlyWay(c, l)
              /\ Goto(c, "refused")
              /\ UNCHANGED pending
           \/ /\ Op(c) = "delete"
              /\ pending' = [pending EXCEPT ![c] = own]
              /\ Goto(c, IF own = {} THEN "ok" ELSE "drop")
        /\ UNCHANGED <<backend, stored, locals, faults>>

\* Mutant: one link is deleted, the others stay.
DropFirst(c) ==
    /\ pc[c] = "drop"
    /\ \E l \in pending[c] :
          /\ links' = [links EXCEPT ![l] = None]
          /\ pending' = [pending EXCEPT ![c] = @ \ {l}]
          /\ Proceed(c, "drop")
    /\ UNCHANGED <<backend, users, index, pairs, codes, locals, faults>>

DropLink(c) ==
    /\ pc[c] = "drop"
    /\ \E l \in pending[c] :
          /\ links' = [links EXCEPT ![l] = None]
          /\ pending' = [pending EXCEPT ![c] = @ \ {l}]
          /\ IF pending[c] = {l} THEN Proceed(c, "drop") ELSE UNCHANGED <<pc, copy>>
    /\ UNCHANGED <<backend, users, index, pairs, codes, locals, faults>>

-----------------------------------------------------------------------------
(* Failures and time                                                        *)

\* A repository call of Firestore fails, or the request's server stops.
Fail(c) ==
    /\ backend = "firestore" /\ faults < MaxFaults
    /\ c \in InFlight
    /\ Goto(c, "failed")
    /\ pending' = [pending EXCEPT ![c] = {}]
    /\ faults' = faults + 1
    /\ UNCHANGED <<backend, stored, locals>>

\* A repository call fails whose error is ignored.
Skip(c) ==
    /\ backend = "firestore" /\ faults < MaxFaults
    /\ \/ pc[c] = "spend" /\ Proceed(c, "spend")
       \/ pc[c] \in {"revoke", "revoking"} /\ Proceed(c, "revoke")
       \/ pc[c] \in {"write", "set"} /\ Op(c) = "mistake" /\ Written(c)
       \/ pc[c] = "list" /\ Op(c) = "delete" /\ Proceed(c, "drop")
    /\ pending' = [pending EXCEPT ![c] = {}]
    /\ faults' = faults + 1
    /\ UNCHANGED <<backend, stored, locals>>

\* DeleteAccount goes on to the next link when one cannot be deleted.
SkipLink(c) ==
    /\ backend = "firestore" /\ faults < MaxFaults
    /\ pc[c] = "drop" /\ Op(c) = "delete"
    /\ \E l \in pending[c] :
          /\ pending' = [pending EXCEPT ![c] = @ \ {l}]
          /\ IF pending[c] = {l} THEN Proceed(c, "drop") ELSE UNCHANGED <<pc, copy>>
    /\ faults' = faults + 1
    /\ UNCHANGED <<backend, stored, locals>>

Unlocked(d) == IF d = None THEN None ELSE [d EXCEPT !.locked = FALSE]

\* locked_until passes, in the copies of the user as well.
Expire(u) ==
    /\ users[u] # None /\ users[u].locked
    /\ users' = [users EXCEPT ![u] = Unlocked(@)]
    /\ copy' = [c \in Calls |-> IF who[c] = u THEN Unlocked(copy[c]) ELSE copy[c]]
    /\ UNCHANGED <<backend, index, pairs, codes, links, pc, locals, pending, faults>>

Step(c) ==
    \/ ReadUser(c) \/ MatchEmail(c) \/ CheckEmail(c)
    \/ CreateUser(c) \/ UpdateUser(c) \/ SetUser(c)
    \/ IssueTokens(c) \/ SpendToken(c) \/ MailCode(c) \/ MarkUsed(c)
    \/ RevokeInMemory(c) \/ QueryTokens(c) \/ RevokeNext(c)
    \/ CheckOwner(c) \/ LinkInMemory(c) \/ QueryLink(c) \/ AddLink(c)
    \/ ListLinks(c) \/ DropLink(c)
    \/ Fail(c) \/ Skip(c) \/ SkipLink(c)

Next ==
    \/ \E c \in Calls : Begin(c) \/ Step(c)
    \/ \E u \in Ids : Expire(u)

Spec == Init /\ [][Next]_vars

-----------------------------------------------------------------------------
(* Properties                                                               *)

\* The type of the state: no request leaves a document that cannot be read.
TypeOK ==
    /\ backend \in Backends
    /\ [users |-> users, pairs |-> pairs, codes |-> codes, links |-> links] \in Database
    /\ index \in [Emails -> Ids \cup {None}]
    /\ pc \in [Calls -> Steps \cup Ends]
    /\ call \in [Calls -> Request \cup {None}]
    /\ who \in [Calls -> Ids \cup {None}]
    /\ copy \in [Calls -> User \cup {None}]
    /\ pending \in [Calls -> SUBSET Ids]
    /\ before \in [Calls -> SUBSET Ids]
    /\ faults \in 0 .. MaxFaults

Started == {c \in Calls : pc[c] # "idle"}

\* Two requests were in flight together.
Overlap(c, d) == {c, d} \subseteq Started /\ c # d /\ c \notin before[d] /\ d \notin before[c]

Done(c, ops) == c \in Started /\ pc[c] = "ok" /\ Op(c) \in ops

\* Operations that write the whole user.
Writing == {"register", "login", "mistake", "logout", "verify", "reset", "oauth", "update",
            "password", "email", "delete"}

Writers(u) == {c \in Started : Op(c) \in Writing /\ who[c] = u}

\* No other request that writes its user was in flight with this one.
Alone(c) == \A d \in Writers(who[c]) : ~Overlap(c, d)

\* No two requests that write user u were in flight together.
Serial(u) == \A c \in Writers(u) : Alone(c)

\* The request has got a pair for a refresh token.
Rotated(c) == c \in Started /\ Op(c) = "refresh" /\ pairs[c] # None

\* A refresh token is good for one pair: it gets a second one only when two
\* requests present it at the same time or the store fails to revoke it
\* (Refresh checks the record, and only then revokes it).
RefreshIsSingleUse ==
    \A c, d \in Calls :
        Rotated(c) /\ Rotated(d) /\ c # d /\ call[c].by = call[d].by
            => Overlap(c, d) \/ faults > 0

\* Tokens of one family, or one rotated from the other.
Kin(i, j) == \/ pairs[i].family = pairs[j].family
             \/ i \in Calls /\ Rotated(i) /\ call[i].by = j

\* Once the reuse of a token is answered, none of its family works that was
\* issued before the reuse (Refresh, RevokeFamily).
ReuseEndsFamily ==
    \A c \in Started : \A i \in before[c] :
        pc[c] = "reuse" /\ faults = 0 /\ pairs[i] # None /\ Kin(i, call[c].by)
            => pairs[i].revoked

Ending == {"logout", "password", "reset", "email", "delete"}

\* A refresh token that was issued before a logout, a new password, a new
\* address or a deletion stays revoked afterwards, whatever other requests were
\* in flight (RevokeAllForUser).
EndedSessionsStayEnded ==
    \A c \in Started : \A i \in before[c] :
        Done(c, Ending) /\ faults = 0 /\ pairs[i] # None /\ pairs[i].user = who[c]
            => pairs[i].revoked

\* Neither do the access tokens admit anyone, provided that no two requests
\* wrote the user at the same time: a stale copy may bring the old version back.
AccessEndsWithSession ==
    \A c \in Started : \A i \in before[c] :
        Done(c, Ending) /\ Serial(who[c]) /\ pairs[i] # None /\ pairs[i].user = who[c]
            => ~Authentic(i)

\* A mailed code is good once, or twice for two requests at the same time: it is
\* marked as used after everything else.
CodesWorkOnce ==
    \A c, d \in Calls :
        LET used(r) == Done(r, {"verify", "reset"})
        IN  used(c) /\ used(d) /\ c # d /\ call[c].by = call[d].by => Overlap(c, d)

\* A write of the memory store was refused, or may have been: such a write takes
\* the address of its user out of the index.
Unindexed ==
    backend = "memory" /\ \E c \in Started : pc[c] = "taken" \/ (Op(c) = "mistake" /\ ~Alone(c))

\* LockAfter wrong passwords in a row, one after the other, lock the account:
\* the last is not answered like the others, unless another request wrote the
\* user in between, or the memory store refused a write (a user that is not in
\* the index may lose the address, and then its failures are not stored).
FailuresLock ==
    \A u \in Ids : \A C \in SUBSET {c \in Writers(u) : pc[c] = "bad"} :
            /\ Cardinality(C) >= LockAfter
            /\ \A c, d \in C : ~Overlap(c, d)
        => \/ faults > 0 \/ Unindexed
           \/ \E e \in Writers(u) \ C : /\ \E c \in C : e \notin before[c]
                                        /\ \E c \in C : c \notin before[e]

Raced == \E c, d \in Started : {Op(c), Op(d)} \subseteq Writing /\ Overlap(c, d)

\* Two users have the same address only after two requests that write users
\* were in flight together (the stores look for the address first): in Firestore
\* one that writes the one user, and one that writes the other; in memory only
\* when a user is missing in the index, besides.
EmailsUnique ==
    \A u, v \in Ids :
        u # v /\ AddressOf(u) # None /\ AddressOf(u) = AddressOf(v)
            => IF backend = "memory" THEN Raced /\ Unindexed
               ELSE \E c \in Writers(u), d \in Writers(v) : Overlap(c, d)

\* As long as no write was refused, the memory store finds every user by the
\* address that is stored with it.
EmailFindsUser ==
    \A u \in Ids :
        backend = "memory" /\ AddressOf(u) # None => index[AddressOf(u)] = u \/ Unindexed

\* An identity signs in one user: Firestore links it twice only when two
\* requests do so at the same time, the memory store never.
OneUserPerIdentity ==
    \A l, m \in Ids :
        l # m /\ links[l] # None /\ links[m] # None /\ links[l].identity = links[m].identity
            => backend = "firestore" /\ {l, m} \subseteq Calls /\ Overlap(l, m)

\* Requests that take the user's way to sign in away: two that unlink, one that
\* links the identity of a user that is being made, one that deletes the user.
Contend(c, d, u) ==
    /\ Overlap(c, d)
    /\ \/ {Op(c), Op(d)} = {"unlink"} /\ who[c] = u /\ who[d] = u
       \/ c = u /\ {Op(c), Op(d)} \subseteq {"oauth", "link"} /\ call[c].to = call[d].to
       \/ Op(c) = "delete" /\ who[c] = u /\ who[d] = u

\* Every active user has a password or a linked identity to sign in with, but
\* for a sign-in under way or cut short, and for two requests that each count on
\* what the other takes away.
CanSignIn ==
    \A u \in Ids :
            /\ users[u] # None /\ users[u].status = "active" /\ ~users[u].pw
            /\ LinksOf(u) = {}
        => faults > 0 \/ u \in InFlight \/ \E c, d \in Calls : Contend(c, d, u)

\* A deleted account stays deleted, and nobody is signed in to it any more,
\* unless another request that writes it was in flight.
DeletedStaysDeleted ==
    \A c \in Started :
        Done(c, {"delete"}) /\ Alone(c)
            => /\ users[who[c]].status = "deleted"
               /\ \A i \in Calls : pairs[i] # None /\ pairs[i].user = who[c] => c \notin before[i]

\* The identities that were linked to a deleted account are free again.
LinksGoWithUser ==
    \A c \in Started : \A l \in before[c] :
        Done(c, {"delete"}) /\ faults = 0 /\ links[l] # None => links[l].user # who[c]

-----------------------------------------------------------------------------
(* What the documents say of rotation, also for requests that overlap        *)

\* "Valid and not revoked: revoke RT0, issue AT1+RT1": without failures, a refresh
\* token yields one pair (service.go:542-550).
RotationIsSingle ==
    \A c, d \in Calls :
        Rotated(c) /\ Rotated(d) /\ c # d /\ faults = 0 => call[c].by # call[d].by

=============================================================================
