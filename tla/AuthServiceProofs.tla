--------------------------- MODULE AuthServiceProofs ---------------------------
(***************************************************************************)
(* Proofs about AuthService, for any requests, users, sessions, codes and  *)
(* links, and for both stores.                                             *)
(***************************************************************************)
EXTENDS AuthService, TLAPS

USE IdsAssumption, EmailAssumption, StartsAssumption, FaultsAssumption

-----------------------------------------------------------------------------
(* The inductive invariant                                                  *)

\* Operations that get to a repository call.
Placed(op, step) ==
    /\ step \in {"create", "insert"} => op \in {"register", "oauth"}
    /\ step \in {"check"} => op = "email"
    /\ step \in {"match"} => op = "oauth"
    /\ step \in {"user"} => op \in {"refresh", "verify", "reset", "oauth"}
    /\ step \in {"write", "set"} => op \in Writing \ {"register"}
    /\ step \in {"issue"} => op \in {"login", "refresh", "oauth"}
    /\ step \in {"spend"} => op = "refresh"
    /\ step \in {"revoke", "revoking"} => op \in Ending \cup {"refresh"}
    /\ step \in {"mail"} => op \in {"register", "forgot", "email"}
    /\ step \in {"mark"} => op \in {"verify", "reset"}
    /\ step \in {"owner"} => op = "link"
    /\ step \in {"link", "add"} => op \in {"oauth", "link"}
    /\ step \in {"list", "drop"} => op \in {"unlink", "delete"}
    /\ step \in {"reuse"} => op = "refresh"

\* Before these repository calls the operation has a copy of its user.
Carries(op, step) ==
    /\ step \in Steps \ {"idle", "user", "match", "spend"}
    /\ op = "refresh" => step = "issue"
    /\ op # "forgot"

\* What the request names is there, and was before it began.
Named(c) ==
    /\ Op(c) = "refresh" => call[c].by \in before[c] /\ pairs[call[c].by] \in Pair
    /\ Op(c) \in {"verify", "reset"} => call[c].by \in before[c] /\ codes[call[c].by] \in Code
    /\ Op(c) = "email" => call[c].to \in Emails
    /\ Op(c) \in {"oauth", "link"} => call[c].to \in Identities
    /\ pc[c] = "revoking" => \A i \in pending[c] : pairs[i] \in Pair

CallInv ==
    \A c \in Calls :
        /\ before[c] \subseteq Ended
        /\ pc[c] # "idle" => /\ call[c] \in Request /\ who[c] \in Ids
                             /\ Placed(Op(c), pc[c]) /\ Named(c)
                             /\ Carries(Op(c), pc[c]) => copy[c] \in User

IInv == TypeOK /\ CallInv

\* The types of the tables, one by one.
LEMMA Tables ==
  ASSUME TypeOK
  PROVE  /\ users \in [Ids -> User \cup {None}] /\ pairs \in [Ids -> Pair \cup {None}]
         /\ codes \in [Ids -> Code \cup {None}] /\ links \in [Ids -> Link \cup {None}]
BY DEF TypeOK, Database

\* The repository calls that follow each other.
LEMMA Programs ==
  /\ Program["register"]["create"] = "mail" /\ Program["register"]["mail"] = "ok"
  /\ Program["login"]["write"] = "issue" /\ Program["login"]["issue"] = "ok"
  /\ Program["mistake"]["write"] = "bad"
  /\ Program["refresh"]["spend"] = "user" /\ Program["refresh"]["user"] = "issue"
  /\ Program["refresh"]["issue"] = "ok" /\ Program["refresh"]["revoke"] = "reuse"
  /\ Program["logout"]["revoke"] = "write" /\ Program["logout"]["write"] = "ok"
  /\ Program["verify"]["user"] = "write" /\ Program["verify"]["write"] = "mark"
  /\ Program["verify"]["mark"] = "ok"
  /\ Program["forgot"]["mail"] = "ok"
  /\ Program["reset"]["user"] = "write" /\ Program["reset"]["write"] = "revoke"
  /\ Program["reset"]["revoke"] = "mark" /\ Program["reset"]["mark"] = "ok"
  /\ Program["oauth"]["user"] = "write" /\ Program["oauth"]["create"] = "link"
  /\ Program["oauth"]["link"] = "write" /\ Program["oauth"]["write"] = "issue"
  /\ Program["oauth"]["issue"] = "ok"
  /\ Program["link"]["link"] = "ok"
  /\ Program["unlink"]["drop"] = "ok"
  /\ Program["update"]["write"] = "ok"
  /\ Program["password"]["write"] = "revoke" /\ Program["password"]["revoke"] = "ok"
  /\ Program["email"]["write"] = "revoke" /\ Program["email"]["revoke"] = "mail"
  /\ Program["email"]["mail"] = "ok"
  /\ Program["delete"]["write"] = "revoke" /\ Program["delete"]["revoke"] = "list"
  /\ Program["delete"]["drop"] = "ok"
BY DEF Program, RegisterProgram, LoginProgram, MistakeProgram, RefreshProgram, LogoutProgram,
       VerifyProgram, ForgotProgram, ResetProgram, OAuthProgram, LinkProgram, UnlinkProgram,
       UpdateProgram, PasswordProgram, EmailProgram, DeleteProgram

-----------------------------------------------------------------------------
(* The invariant holds at first                                             *)

LEMMA InitIInv == Init => IInv
<1> SUFFICES ASSUME Init PROVE IInv
  OBVIOUS
<1>1. PICK s \in Starts : users = s.users /\ pairs = s.pairs /\ codes = s.codes /\ links = s.links
  BY DEF Init
<1>2. [users |-> users, pairs |-> pairs, codes |-> codes, links |-> links] \in Database
  BY <1>1 DEF Database
<1>3. index \in [Emails -> Ids \cup {None}]
  BY DEF Init
<1>4. TypeOK
  BY <1>2, <1>3 DEF Init, TypeOK, Steps
<1>5. CallInv
  BY DEF Init, CallInv
<1> QED BY <1>4, <1>5 DEF IInv

-----------------------------------------------------------------------------
(* A request moves on                                                       *)

\* What the step of request c leaves of the others and of the tables.
Leaves(c) ==
    /\ backend' = backend /\ call' = call /\ before' = before /\ who'[c] \in Ids
    /\ \A e \in Calls \ {c} : who'[e] = who[e] /\ pending'[e] = pending[e]
    /\ \A i \in Ids : pairs[i] \in Pair => pairs'[i] \in Pair
    /\ \A i \in Ids : codes[i] \in Code => codes'[i] \in Code

\* The part of the invariant that is about the requests' own variables.
Local ==
    /\ backend \in Backends
    /\ pc \in [Calls -> Steps \cup Ends] /\ copy \in [Calls -> User \cup {None}]
    /\ call \in [Calls -> Request \cup {None}] /\ before \in [Calls -> SUBSET Ids]
    /\ CallInv

LEMMA MovePreserves ==
  ASSUME IInv, NEW c \in Calls, pc[c] \notin Ends \cup {"idle"},
         NEW step \in (Steps \ {"idle"}) \cup Ends, NEW d \in User \cup {None},
         Advance(c, step, d), Placed(Op(c), step), Carries(Op(c), step) => d \in User,
         Leaves(c), step = "revoking" => \A i \in pending'[c] : pairs'[i] \in Pair
  PROVE  Local'
<1>1. /\ pc'[c] = step /\ copy'[c] = d
      /\ \A e \in Calls \ {c} : pc'[e] = pc[e] /\ copy'[e] = copy[e]
      /\ pc' \in [Calls -> Steps \cup Ends] /\ copy' \in [Calls -> User \cup {None}]
      /\ call' \in [Calls -> Request \cup {None}] /\ before' \in [Calls -> SUBSET Ids]
      /\ backend' \in Backends
  BY DEF Advance, Leaves, IInv, TypeOK
<1>2. Ended \subseteq Ended'
  BY <1>1 DEF Ended
<1>3. ASSUME NEW e \in Calls, pc'[e] # "idle"
      PROVE  /\ call[e] \in Request /\ who'[e] \in Ids /\ Op(e)' = Op(e)
             /\ Placed(Op(e), pc'[e]) /\ Named(e)'
             /\ Carries(Op(e), pc'[e]) => copy'[e] \in User
  <2>1. pc[e] # "idle"
    BY <1>1, <1>3
  <2>2. /\ call[e] \in Request /\ Op(e)' = Op(e) /\ who'[e] \in Ids
        /\ before[e] \subseteq Ids /\ Named(e)
    BY <1>1, <2>1 DEF Leaves, IInv, CallInv, Op
  <2>3. Placed(Op(e), pc'[e]) /\ (Carries(Op(e), pc'[e]) => copy'[e] \in User)
    BY <1>1, <2>1 DEF IInv, CallInv
  <2>4. pc'[e] = "revoking" => \A i \in pending'[e] : pairs'[i] \in Pair
    <3>1. CASE e = c
      BY <1>1, <3>1
    <3>2. CASE e # c
      <4>1. pending[e] \subseteq Ids
        BY DEF IInv, TypeOK
      <4> QED BY <1>1, <2>2, <3>2, <4>1 DEF Named, Leaves
    <3> QED BY <3>1, <3>2
  <2>5. Named(e)'
    BY <2>2, <2>4 DEF Named, Leaves
  <2> QED BY <2>2, <2>3, <2>5
<1>4. CallInv'
  BY <1>2, <1>3 DEF IInv, CallInv, Leaves
<1> QED BY <1>1, <1>4 DEF Local

LEMMA GotoPreserves ==
  ASSUME IInv, NEW c \in Calls, pc[c] \notin Ends \cup {"idle"},
         NEW step \in (Steps \ {"idle"}) \cup Ends,
         Goto(c, step), Placed(Op(c), step), Carries(Op(c), step) => Carries(Op(c), pc[c]),
         Leaves(c), step = "revoking" => \A i \in pending'[c] : pairs'[i] \in Pair
  PROVE  Local'
<1> DEFINE d == IF step \in Ends THEN None ELSE copy[c]
<1>1. Advance(c, step, d) /\ d \in User \cup {None}
  BY DEF Goto, IInv, TypeOK
<1>2. Carries(Op(c), step) => d \in User
  BY DEF IInv, CallInv, Carries, Steps, Ends
<1> HIDE DEF d
<1> QED BY <1>1, <1>2, MovePreserves

\* The request goes on as its program says.
LEMMA ProceedPreserves ==
  ASSUME IInv, NEW c \in Calls, NEW step \in Steps \ {"idle"},
         pc[c] = step \/ (pc[c] = "revoking" /\ step = "revoke")
           \/ (pc[c] = "insert" /\ step = "create") \/ (pc[c] = "set" /\ step = "write")
           \/ (pc[c] = "add" /\ step = "link") \/ (pc[c] = "list" /\ step = "drop"),
         step \in {"create", "write", "issue", "spend", "revoke", "mail", "mark", "link", "drop"},
         Proceed(c, step), Leaves(c)
  PROVE  Local'
<1> DEFINE next == Program[Op(c)][step]
<1>1. Placed(Op(c), step) /\ Placed(Op(c), pc[c])
  BY DEF IInv, CallInv, Placed, Steps
<1>2. /\ next \in (Steps \ {"idle", "revoking"}) \cup Ends /\ Placed(Op(c), next)
      /\ Carries(Op(c), next) => Carries(Op(c), pc[c])
  BY <1>1, Programs DEF Placed, Carries, Writing, Ending, Steps, Ends
<1>3. Goto(c, next)
  BY DEF Proceed
<1>4. pc[c] \notin Ends \cup {"idle"}
  BY DEF Steps, Ends
<1>5. next # "revoking"
  BY <1>2 DEF Ends
<1> HIDE DEF next
<1> QED BY <1>2, <1>3, <1>4, <1>5, GotoPreserves

-----------------------------------------------------------------------------
(* A request begins                                                         *)

LEMMA StartPreserves ==
  ASSUME IInv, NEW c \in Calls, NEW op \in Operations, NEW by \in Ids \cup {None},
         NEW to \in Emails \cup Identities \cup Providers \cup {None},
         NEW u \in Ids, NEW d \in User \cup {None}, NEW step \in Steps \ {"idle", "revoking"},
         Start(c, Req(op, by, to), u, d, step),
         Placed(op, step), Carries(op, step) => d \in User,
         op = "refresh" => by \in Ended /\ pairs[by] \in Pair,
         op \in {"verify", "reset"} => by \in Ended /\ codes[by] \in Code,
         op = "email" => to \in Emails,
         op \in {"oauth", "link"} => to \in Identities
  PROVE  IInv'
<1> DEFINE r == Req(op, by, to)
<1>1. /\ r \in Request /\ r.op = op /\ r.by = by /\ r.to = to
      /\ Ended \subseteq Ids
  BY DEF Req, Request, Ended, Ids
<1> HIDE DEF r
<1>2. /\ pc[c] = "idle" /\ pc'[c] = step /\ call'[c] = r /\ who'[c] = u /\ copy'[c] = d
      /\ before'[c] = Ended
      /\ \A e \in Calls \ {c} : /\ pc'[e] = pc[e] /\ call'[e] = call[e] /\ who'[e] = who[e]
                                /\ copy'[e] = copy[e] /\ before'[e] = before[e]
      /\ users' = users /\ index' = index /\ pairs' = pairs /\ codes' = codes /\ links' = links
      /\ backend' = backend /\ pending' = pending /\ faults' = faults
  BY DEF Start, stored, r, IInv, TypeOK
<1>3. TypeOK'
  BY <1>1, <1>2 DEF Start, r, IInv, TypeOK
<1>4. Ended \subseteq Ended'
  BY <1>2 DEF Ended, Ends
<1>5. ASSUME NEW e \in Calls, pc'[e] # "idle"
      PROVE  /\ call'[e] \in Request /\ who'[e] \in Ids
             /\ Placed(Op(e)', pc'[e]) /\ Named(e)'
             /\ Carries(Op(e)', pc'[e]) => copy'[e] \in User
  <2>1. CASE e = c
    <3>1. Op(c)' = op
      BY <1>1, <1>2 DEF Op
    <3> QED BY <1>1, <1>2, <2>1, <3>1 DEF Named
  <2>2. CASE e # c
    <3>1. Op(e)' = Op(e) /\ pc[e] # "idle"
      BY <1>2, <1>5, <2>2 DEF Op
    <3> QED BY <1>2, <2>2, <3>1 DEF IInv, CallInv, Named
  <2> QED BY <2>1, <2>2
<1>6. CallInv'
  BY <1>2, <1>4, <1>5 DEF IInv, CallInv
<1> QED BY <1>3, <1>6 DEF IInv

\* Whoever is found by an address is stored with it.
LEMMA FoundUsers ==
  ASSUME TypeOK, NEW e \in Emails, NEW u \in Found(e)
  PROVE  u \in Ids /\ users[u] \in User
BY Tables DEF Found, FoundInMemory, FoundInFirestore

\* A new user has the type of one.
LEMMA NewUserType ==
  ASSUME NEW e \in Emails \cup {None}, NEW p \in BOOLEAN, NEW s \in {"unverified", "active"}
  PROVE  NewUser(e, p, s) \in User
BY DEF NewUser, User

\* A pair that is held belongs to a user's session; its user may be gone.
LEMMA HeldPairs ==
  ASSUME TypeOK, NEW i \in Held
  PROVE  i \in Ids /\ i \in Ended /\ pairs[i] \in Pair /\ pairs[i].user \in Ids
BY Tables DEF Held, Answered, Ended, Ends, Ids, Pair

LEMMA RegisterPreserves == ASSUME IInv, NEW c \in Calls, Register(c) PROVE IInv'
<1>1. PICK e \in Emails :
         Start(c, Req("register", None, None), c, NewUser(e, TRUE, "unverified"), "create")
  BY DEF Register
<1>2. "register" \in Operations /\ c \in Ids /\ NewUser(e, TRUE, "unverified") \in User
  BY <1>1, NewUserType DEF Start, Req, Ids
<1>3. Placed("register", "create") /\ "create" \in Steps \ {"idle", "revoking"}
  BY DEF Placed, Steps
<1> QED BY <1>1, <1>2, <1>3, StartPreserves

LEMMA LoginPreserves == ASSUME IInv, NEW c \in Calls, Login(c) PROVE IInv'
<1>1. PICK e \in Emails, op \in {"login", "mistake"} : \E u \in Found(e) :
         Start(c, Req(op, None, None), u, users[u], "write")
  BY DEF Login
<1> PICK u \in Found(e) : Start(c, Req(op, None, None), u, users[u], "write")
  BY <1>1
<1>2. op \in Operations /\ u \in Ids /\ users[u] \in User
  BY <1>1, FoundUsers DEF Start, Req, IInv
<1>3. Placed(op, "write") /\ "write" \in Steps \ {"idle", "revoking"}
  BY DEF Placed, Writing, Steps
<1> QED BY <1>1, <1>2, <1>3, StartPreserves

LEMMA RefreshPreserves == ASSUME IInv, NEW c \in Calls, Refresh(c) PROVE IInv'
<1>1. PICK i \in Held, step \in {"revoke", "spend"} :
         Start(c, Req("refresh", i, None), pairs[i].user, None, step)
  BY DEF Refresh
<1>2. "refresh" \in Operations
  BY <1>1 DEF Start, Req
<1>3. i \in Ids /\ i \in Ended /\ pairs[i] \in Pair /\ pairs[i].user \in Ids
  BY HeldPairs DEF IInv
<1>4. /\ Placed("refresh", step) /\ step \in Steps \ {"idle", "revoking"}
      /\ ~Carries("refresh", step)
  BY DEF Placed, Carries, Ending, Steps
<1> QED BY <1>1, <1>2, <1>3, <1>4, StartPreserves

\* Requests with a bearer token have a copy of the user that it admits.
LEMMA BearerPreserves ==
  ASSUME IInv, NEW c \in Calls,
         NEW op \in Ending \cup {"update", "link", "unlink"}, NEW i \in Held,
         NEW to \in Emails \cup Identities \cup Providers \cup {None},
         NEW step \in Steps \ {"idle", "revoking"},
         Bearer(c, op, i, to, step), op # "reset", Placed(op, step),
         op = "email" => to \in Emails, op = "link" => to \in Identities
  PROVE  IInv'
<1>1. /\ Start(c, Req(op, i, to), pairs[i].user, users[pairs[i].user], step)
      /\ users[pairs[i].user] # None
  BY DEF Bearer, Authentic
<1>2. op \in Operations
  BY <1>1 DEF Start, Req
<1>3. i \in Ids /\ pairs[i].user \in Ids /\ users[pairs[i].user] \in User
  BY <1>1, HeldPairs, Tables DEF IInv
<1>4. op \notin {"refresh", "verify", "reset", "oauth"}
  BY DEF Ending
<1> QED BY <1>1, <1>2, <1>3, <1>4, StartPreserves

LEMMA BearersPreserve ==
  ASSUME IInv, NEW c \in Calls,
         \/ Logout(c) \/ UpdateMe(c) \/ ChangePassword(c) \/ ChangeEmail(c)
         \/ DeleteAccount(c) \/ OAuthLink(c) \/ OAuthUnlink(c)
  PROVE  IInv'
<1>1. {"revoke", "write", "check", "owner", "list"} \subseteq Steps \ {"idle", "revoking"}
  BY DEF Steps
<1>2. /\ Placed("logout", "revoke") /\ Placed("update", "write") /\ Placed("password", "write")
      /\ Placed("email", "check") /\ Placed("delete", "write")
      /\ Placed("link", "owner") /\ Placed("unlink", "list")
      /\ {"logout", "password", "email", "delete"} \subseteq Ending
  BY DEF Placed, Ending, Writing
<1>3. CASE Logout(c)
  BY <1>1, <1>2, <1>3, BearerPreserves DEF Logout
<1>4. CASE UpdateMe(c)
  BY <1>1, <1>2, <1>4, BearerPreserves DEF UpdateMe
<1>5. CASE ChangePassword(c)
  BY <1>1, <1>2, <1>5, BearerPreserves DEF ChangePassword
<1>6. CASE ChangeEmail(c)
  BY <1>1, <1>2, <1>6, BearerPreserves DEF ChangeEmail
<1>7. CASE DeleteAccount(c)
  BY <1>1, <1>2, <1>7, BearerPreserves DEF DeleteAccount
<1>8. CASE OAuthLink(c)
  BY <1>1, <1>2, <1>8, BearerPreserves DEF OAuthLink
<1>9. CASE OAuthUnlink(c)
  BY <1>1, <1>2, <1>9, BearerPreserves DEF OAuthUnlink
<1> QED BY <1>3, <1>4, <1>5, <1>6, <1>7, <1>8, <1>9

\* A code that can be used is there, and was before.
LEMMA ValidCodes ==
  ASSUME TypeOK, NEW k \in Ids, NEW kind, ValidCode(k, kind)
  PROVE  k \in Ended /\ codes[k] \in Code /\ codes[k].user \in Ids
BY Tables DEF ValidCode, Mailed, Answered, Ended, Ends, Code

LEMMA CodesPreserve ==
  ASSUME IInv, NEW c \in Calls, VerifyEmail(c) \/ ResetPassword(c)
  PROVE  IInv'
<1>1. PICK op \in {"verify", "reset"}, k \in Ids :
         /\ ValidCode(k, op)
         /\ Start(c, Req(op, k, None), codes[k].user, None, "user")
  BY DEF VerifyEmail, ResetPassword
<1>2. op \in Operations
  BY <1>1 DEF Start, Req
<1>3. k \in Ended /\ codes[k] \in Code /\ codes[k].user \in Ids
  BY <1>1, ValidCodes DEF IInv
<1>4. /\ Placed(op, "user") /\ "user" \in Steps \ {"idle", "revoking"}
      /\ ~Carries(op, "user")
  BY DEF Placed, Carries, Steps
<1> QED BY <1>1, <1>2, <1>3, <1>4, StartPreserves

LEMMA ForgotPreserves == ASSUME IInv, NEW c \in Calls, ForgotPassword(c) PROVE IInv'
<1>1. PICK e \in Emails : \E u \in Found(e) : Start(c, Req("forgot", None, None), u, None, "mail")
  BY DEF ForgotPassword
<1> PICK u \in Found(e) : Start(c, Req("forgot", None, None), u, None, "mail")
  BY <1>1
<1>2. "forgot" \in Operations /\ u \in Ids
  BY <1>1, FoundUsers DEF Start, Req, IInv
<1>3. /\ Placed("forgot", "mail") /\ "mail" \in Steps \ {"idle", "revoking"}
      /\ ~Carries("forgot", "mail")
  BY DEF Placed, Carries, Steps
<1> QED BY <1>1, <1>2, <1>3, StartPreserves

LEMMA SignInPreserves == ASSUME IInv, NEW c \in Calls, OAuthCallback(c) PROVE IInv'
<1>1. PICK x \in Identities, u \in Ids, d \in User \cup {None},
           step \in {"user", "create", "match"} :
         /\ Start(c, Req("oauth", None, x), u, d, step)
         /\ step = "create" => d \in User
  <2>1. ASSUME NEW x \in Identities, NEW l \in Linked(x)
        PROVE  links[l].user \in Ids
    BY <2>1, Tables DEF Linked, Link, IInv
  <2>2. NewUser(None, FALSE, "active") \in User /\ c \in Ids
    BY NewUserType DEF Ids
  <2> QED BY <2>1, <2>2 DEF OAuthCallback
<1>2. "oauth" \in Operations
  BY <1>1 DEF Start, Req
<1>3. /\ Placed("oauth", step) /\ step \in Steps \ {"idle", "revoking"}
      /\ Carries("oauth", step) => d \in User
  BY <1>1 DEF Placed, Carries, Steps
<1> QED BY <1>1, <1>2, <1>3, StartPreserves

LEMMA BeginPreserves == ASSUME IInv, NEW c \in Calls, Begin(c) PROVE IInv'
BY RegisterPreserves, LoginPreserves, RefreshPreserves, BearersPreserve, CodesPreserve,
   ForgotPreserves, SignInPreserves DEF Begin

-----------------------------------------------------------------------------
(* Reading users                                                            *)

LEMMA ReadUserPreserves == ASSUME IInv, NEW c \in Calls, ReadUser(c) PROVE IInv'
<1>1. /\ pc[c] = "user" /\ who[c] \in Ids /\ Placed(Op(c), "user") /\ Leaves(c)
  BY DEF ReadUser, stored, locals, Leaves, IInv, CallInv
<1>2. pending' = pending /\ pc[c] \notin Ends \cup {"idle"}
  BY <1>1 DEF ReadUser, Ends
<1>3. CASE FitUser(c, users[who[c]])
  <2>1. users[who[c]] \in User
    BY <1>1, <1>3, Tables DEF FitUser, IInv
  <2>2. Program[Op(c)]["user"] \in {"issue", "write"} /\ Placed(Op(c), Program[Op(c)]["user"])
    BY <1>1, Programs DEF Placed, Writing
  <2>3. {"issue", "write"} \subseteq Steps \ {"idle", "revoking"}
    BY DEF Steps
  <2>4. Advance(c, Program[Op(c)]["user"], users[who[c]])
    BY <1>3 DEF ReadUser
  <2>5. Local'
    BY <1>1, <1>2, <2>1, <2>2, <2>3, <2>4, MovePreserves
  <2> QED BY <2>5 DEF ReadUser, stored, locals, Local, IInv, TypeOK
<1>4. CASE ~FitUser(c, users[who[c]])
  <2>1. "refused" \in Ends /\ Placed(Op(c), "refused") /\ ~Carries(Op(c), "refused")
    BY DEF Ends, Placed, Carries, Steps
  <2>2. Goto(c, "refused")
    BY <1>4 DEF ReadUser
  <2>3. Local'
    BY <1>1, <1>2, <2>1, <2>2, GotoPreserves
  <2> QED BY <2>3 DEF ReadUser, stored, locals, Local, IInv, TypeOK
<1> QED BY <1>3, <1>4

LEMMA MatchEmailPreserves == ASSUME IInv, NEW c \in Calls, MatchEmail(c) PROVE IInv'
<1>1. /\ pc[c] = "match" /\ who[c] \in Ids /\ Op(c) = "oauth" /\ call[c].to \in Identities
      /\ pc[c] \notin Ends \cup {"idle"} /\ pending' = pending
  BY DEF MatchEmail, IInv, CallInv, Placed, Named, Ends
<1>2. /\ {"link", "create"} \subseteq Steps \ {"idle", "revoking"}
      /\ Placed(Op(c), "link") /\ Placed(Op(c), "create")
  BY <1>1 DEF Placed, Steps
<1>3. ASSUME NEW u \in Found(EmailOf[call[c].to]), who' = [who EXCEPT ![c] = u],
             Advance(c, "link", users[u])
      PROVE  IInv'
  <2>1. u \in Ids /\ users[u] \in User \cup {None} /\ users[u] \in User
    BY Tables DEF Found, FoundInMemory, FoundInFirestore, IInv
  <2>2. Leaves(c) /\ who' \in [Calls -> Ids \cup {None}]
    BY <1>3, <2>1 DEF MatchEmail, stored, Leaves, IInv, TypeOK
  <2>3. Local'
    BY <1>1, <1>2, <1>3, <2>1, <2>2, MovePreserves
  <2> QED BY <2>2, <2>3 DEF MatchEmail, stored, Local, IInv, TypeOK
<1>4. ASSUME Advance(c, "create", NewUser(EmailOf[call[c].to], FALSE, "active")), who' = who
      PROVE  IInv'
  <2>1. NewUser(EmailOf[call[c].to], FALSE, "active") \in User
    BY <1>1, NewUserType
  <2>2. Leaves(c)
    BY <1>1, <1>4 DEF MatchEmail, stored, Leaves
  <2>3. Local'
    BY <1>1, <1>2, <1>4, <2>1, <2>2, MovePreserves
  <2> QED BY <1>4, <2>3 DEF MatchEmail, stored, Local, IInv, TypeOK
<1> QED BY <1>3, <1>4 DEF MatchEmail

LEMMA CheckEmailPreserves == ASSUME IInv, NEW c \in Calls, CheckEmail(c) PROVE IInv'
<1>1. /\ pc[c] = "check" /\ Op(c) = "email" /\ pc[c] \notin Ends \cup {"idle"}
      /\ Leaves(c) /\ pending' = pending
  BY DEF CheckEmail, stored, locals, Leaves, IInv, CallInv, Placed, Ends
<1>2. PICK step \in {"write", "refused"} : Goto(c, step)
  BY DEF CheckEmail
<1>3. /\ step \in (Steps \ {"idle"}) \cup Ends /\ step # "revoking" /\ Placed(Op(c), step)
      /\ Carries(Op(c), pc[c])
  BY <1>1 DEF Placed, Carries, Writing, Steps, Ends
<1>4. Local'
  BY <1>1, <1>2, <1>3, GotoPreserves
<1> QED BY <1>4 DEF CheckEmail, stored, locals, Local, IInv, TypeOK

-----------------------------------------------------------------------------
(* Writing users                                                            *)

\* What a handler makes of its copy of a user is a user.
LEMMA EditedType ==
  ASSUME IInv, NEW c \in Calls, pc[c] \in {"write", "set"}
  PROVE  Edited(c) \in User
<1>1. copy[c] \in User /\ (Op(c) = "email" => call[c].to \in Emails)
  BY DEF IInv, CallInv, Placed, Carries, Named, Writing, Steps
<1>2. copy[c].tv + 1 \in Nat /\ copy[c].fails + 1 \in Nat
  BY <1>1 DEF User
<1>3. Mistaken(copy[c]) \in User
  BY <1>1, <1>2 DEF Mistaken, User
<1>4. CASE Op(c) \in {"login", "update", "verify", "oauth"}
  BY <1>1, <1>4 DEF Edited, User
<1>5. CASE Op(c) = "logout"
  BY <1>1, <1>2, <1>5 DEF Edited, User
<1>6. CASE Op(c) = "password"
  BY <1>1, <1>2, <1>6 DEF Edited, User
<1>7. CASE Op(c) = "reset"
  BY <1>1, <1>2, <1>7 DEF Edited, User
<1>8. CASE Op(c) = "email"
  BY <1>1, <1>2, <1>8 DEF Edited, User
<1>9. CASE Op(c) = "delete"
  BY <1>1, <1>2, <1>9 DEF Edited, User
<1>10. CASE Op(c) = "mistake"
  BY <1>3, <1>10 DEF Edited
<1>11. Op(c) \in Writing \ {"register"}
  BY DEF IInv, CallInv, Placed
<1> QED BY <1>4, <1>5, <1>6, <1>7, <1>8, <1>9, <1>10, <1>11 DEF Writing

LEMMA AddressType == ASSUME IInv, NEW u \in Ids PROVE AddressOf(u) \in Emails \cup {None}
BY Tables DEF AddressOf, User, IInv

LEMMA FreedType ==
  ASSUME IInv, NEW u \in Ids, NEW d PROVE Freed(u, d) \in [Emails -> Ids \cup {None}]
BY AddressType DEF Freed, IInv, TypeOK

\* Storing a user keeps the types of the users and of the index.
LEMMA StoreKeepsTypes ==
  ASSUME IInv, NEW u \in Ids, NEW d \in User, NEW ACTION A, NEW ACTION B,
         StoreInMemory(u, d, A, B)
  PROVE  /\ users' \in [Ids -> User \cup {None}] /\ index' \in [Emails -> Ids \cup {None}]
         /\ A \/ B
<1>1. users' \in [Ids -> User \cup {None}]
  BY Tables DEF StoreInMemory, IInv
<1>2. index' \in [Emails -> Ids \cup {None}]
  BY FreedType DEF StoreInMemory
<1> QED BY <1>1, <1>2 DEF StoreInMemory

\* The request goes on after a write.
LEMMA WrittenPreserves ==
  ASSUME IInv, NEW c \in Calls, pc[c] \in {"write", "set"}, Written(c), Leaves(c)
  PROVE  Local'
<1>1. CASE Op(c) = "mistake" /\ Edited(c).locked
  <2>1. Goto(c, "locked") /\ "locked" \in Ends /\ Placed(Op(c), "locked")
    BY <1>1 DEF Written, Placed, Ends
  <2> QED BY <2>1, GotoPreserves DEF Carries, Steps, Ends
<1>2. CASE ~(Op(c) = "mistake" /\ Edited(c).locked)
  BY <1>2, ProceedPreserves DEF Written, Steps
<1> QED BY <1>1, <1>2

\* The variables that a write of a user leaves alone.
OthersSame ==
    UNCHANGED <<backend, pairs, codes, links, call, who, before, pending, faults>>

LEMMA UserStepPreserves ==
  ASSUME IInv, OthersSame, Local', users' \in [Ids -> User \cup {None}],
         index' \in [Emails -> Ids \cup {None}]
  PROVE  IInv'
BY DEF OthersSame, Local, IInv, TypeOK, Database

LEMMA CreateUserPreserves == ASSUME IInv, NEW c \in Calls, CreateUser(c) PROVE IInv'
<1>1. /\ pc[c] = "create" /\ copy[c] \in User /\ c \in Ids /\ Op(c) \in {"register", "oauth"}
      /\ pc[c] \notin Ends \cup {"idle"} /\ OthersSame /\ Leaves(c)
  BY DEF CreateUser, locals, OthersSame, Leaves, IInv, CallInv, Placed, Carries, Ids, Steps, Ends
<1>2. /\ users' \in [Ids -> User \cup {None}] /\ index' \in [Emails -> Ids \cup {None}]
      /\ Proceed(c, "create") \/ Goto(c, "taken") \/ Goto(c, "insert")
  <2>1. CASE backend = "memory"
    BY <1>1, <2>1, StoreKeepsTypes DEF CreateUser
  <2>2. CASE backend # "memory"
    BY <2>2, Tables DEF CreateUser, Queried, IInv, TypeOK
  <2> QED BY <2>1, <2>2
<1>3. Local'
  <2>1. CASE Proceed(c, "create")
    BY <1>1, <2>1, ProceedPreserves DEF Steps
  <2>2. ASSUME NEW step \in {"taken", "insert"}, Goto(c, step) PROVE Local'
    <3>1. /\ step \in (Steps \ {"idle"}) \cup Ends /\ step # "revoking"
          /\ Placed(Op(c), step) /\ Carries(Op(c), pc[c])
      BY <1>1 DEF Placed, Carries, Steps, Ends
    <3> QED BY <1>1, <2>2, <3>1, GotoPreserves
  <2> QED BY <1>2, <2>1, <2>2
<1> QED BY <1>1, <1>2, <1>3, UserStepPreserves

LEMMA UpdateUserPreserves == ASSUME IInv, NEW c \in Calls, UpdateUser(c) PROVE IInv'
<1>1. /\ pc[c] = "write" /\ Edited(c) \in User /\ who[c] \in Ids
      /\ pc[c] \notin Ends \cup {"idle"} /\ OthersSame /\ Leaves(c)
  BY EditedType DEF UpdateUser, locals, OthersSame, Leaves, IInv, CallInv, Ends
<1>2. /\ users' \in [Ids -> User \cup {None}] /\ index' \in [Emails -> Ids \cup {None}]
      /\ Written(c) \/ Goto(c, "taken") \/ Goto(c, "set")
  <2>1. CASE backend = "memory"
    BY <1>1, <2>1, StoreKeepsTypes DEF UpdateUser
  <2>2. CASE backend # "memory"
    BY <2>2, Tables DEF UpdateUser, Queried, IInv, TypeOK
  <2> QED BY <2>1, <2>2
<1>3. Local'
  <2>1. CASE Written(c)
    BY <1>1, <2>1, WrittenPreserves
  <2>2. ASSUME NEW step \in {"taken", "set"}, Goto(c, step) PROVE Local'
    <3>1. Placed(Op(c), "write")
      BY <1>1 DEF IInv, CallInv
    <3>2. /\ step \in (Steps \ {"idle"}) \cup Ends /\ step # "revoking"
          /\ Placed(Op(c), step) /\ Carries(Op(c), pc[c])
      BY <1>1, <3>1 DEF Placed, Carries, Writing, Steps, Ends
    <3> QED BY <1>1, <2>2, <3>2, GotoPreserves
  <2> QED BY <1>2, <2>1, <2>2
<1> QED BY <1>1, <1>2, <1>3, UserStepPreserves

LEMMA SetUserPreserves == ASSUME IInv, NEW c \in Calls, SetUser(c) PROVE IInv'
<1>1. OthersSame /\ Leaves(c) /\ index' = index /\ c \in Ids
  BY DEF SetUser, locals, OthersSame, Leaves, IInv, CallInv, Ids
<1>2. CASE pc[c] = "insert"
  <2>1. copy[c] \in User /\ Proceed(c, "create") /\ users' = [users EXCEPT ![c] = copy[c]]
    BY <1>2 DEF SetUser, IInv, CallInv, Placed, Carries, Steps
  <2>2. users' \in [Ids -> User \cup {None}]
    BY <1>1, <2>1, Tables DEF IInv
  <2>3. Local'
    BY <1>1, <1>2, <2>1, ProceedPreserves DEF Steps
  <2> QED BY <1>1, <2>2, <2>3, UserStepPreserves DEF IInv, TypeOK
<1>3. CASE pc[c] = "set"
  <2>1. Edited(c) \in User /\ Written(c) /\ users' = [users EXCEPT ![who[c]] = Edited(c)]
    BY <1>3, EditedType DEF SetUser
  <2>2. users' \in [Ids -> User \cup {None}]
    BY <2>1, Tables DEF IInv
  <2>3. Local'
    BY <1>1, <1>3, <2>1, WrittenPreserves
  <2> QED BY <1>1, <2>2, <2>3, UserStepPreserves DEF IInv, TypeOK
<1> QED BY <1>2, <1>3 DEF SetUser

-----------------------------------------------------------------------------
(* Tokens and codes                                                         *)

\* A step that goes on after changing the pairs.
LEMMA PairStepPreserves ==
  ASSUME IInv, Local', pairs' \in [Ids -> Pair \cup {None}],
         pending' \in [Calls -> SUBSET Ids], faults' \in 0 .. MaxFaults,
         UNCHANGED <<users, index, codes, links, who>>
  PROVE  IInv'
BY DEF Local, IInv, TypeOK, Database

LEMMA IssueTokensPreserves == ASSUME IInv, NEW c \in Calls, IssueTokens(c) PROVE IInv'
<1> DEFINE new == [tv |-> copy[c].tv, user |-> who[c], family |-> FamilyOf(c), revoked |-> FALSE]
<1>1. /\ pc[c] = "issue" /\ copy[c] \in User /\ who[c] \in Ids /\ c \in Ids
      /\ Op(c) = "refresh" => pairs[call[c].by] \in Pair
  BY DEF IssueTokens, IInv, CallInv, Placed, Carries, Named, Ids, Steps
<1>2. new \in Pair
  BY <1>1 DEF FamilyOf, User, Pair
<1> HIDE DEF new
<1>3. pairs' = [pairs EXCEPT ![c] = new] /\ pairs' \in [Ids -> Pair \cup {None}]
  BY <1>1, <1>2, Tables DEF IssueTokens, new, IInv
<1>4. Leaves(c)
  BY <1>1, <1>2, <1>3, Tables DEF IssueTokens, locals, Leaves, IInv
<1>5. Local'
  BY <1>1, <1>4, ProceedPreserves DEF IssueTokens, Steps
<1> QED BY <1>3, <1>5, PairStepPreserves DEF IssueTokens, locals, IInv, TypeOK

\* Revoking a pair leaves a pair.
LEMMA RevokedPair == ASSUME NEW p \in Pair PROVE [p EXCEPT !.revoked = TRUE] \in Pair
BY DEF Pair

LEMMA SpendTokenPreserves == ASSUME IInv, NEW c \in Calls, SpendToken(c) PROVE IInv'
<1>1. pc[c] = "spend" /\ who[c] \in Ids /\ pairs[call[c].by] \in Pair
  BY DEF SpendToken, IInv, CallInv, Placed, Named
<1>2. /\ pairs' \in [Ids -> Pair \cup {None}]
      /\ \A i \in Ids : pairs[i] \in Pair => pairs'[i] \in Pair
  BY <1>1, RevokedPair, Tables DEF SpendToken, IInv
<1>3. Leaves(c)
  BY <1>1, <1>2 DEF SpendToken, locals, Leaves
<1>4. Local'
  BY <1>1, <1>3, ProceedPreserves DEF SpendToken, Steps
<1> QED BY <1>2, <1>4, PairStepPreserves DEF SpendToken, locals, IInv, TypeOK

LEMMA RevokeInMemoryPreserves == ASSUME IInv, NEW c \in Calls, RevokeInMemory(c) PROVE IInv'
<1>1. pc[c] = "revoke" /\ who[c] \in Ids
  BY DEF RevokeInMemory, IInv, CallInv
<1>2. \A i \in ToRevoke(c) : i \in Ids /\ pairs[i] \in Pair
  BY Tables DEF ToRevoke, IInv
<1>3. /\ pairs' \in [Ids -> Pair \cup {None}]
      /\ \A i \in Ids : pairs[i] \in Pair => pairs'[i] \in Pair
  BY <1>2, RevokedPair, Tables DEF RevokeInMemory, IInv
<1>4. Leaves(c)
  BY <1>1, <1>3 DEF RevokeInMemory, locals, Leaves
<1>5. Local'
  BY <1>1, <1>4, ProceedPreserves DEF RevokeInMemory, Steps
<1> QED BY <1>3, <1>5, PairStepPreserves DEF RevokeInMemory, locals, IInv, TypeOK

LEMMA QueryTokensPreserves == ASSUME IInv, NEW c \in Calls, QueryTokens(c) PROVE IInv'
<1>1. pc[c] = "revoke" /\ who[c] \in Ids /\ Placed(Op(c), "revoke")
  BY DEF QueryTokens, IInv, CallInv
<1>2. /\ pending' = [pending EXCEPT ![c] = ToRevoke(c)] /\ pairs' = pairs
      /\ pending' \in [Calls -> SUBSET Ids] /\ pending'[c] = ToRevoke(c)
      /\ pairs' \in [Ids -> Pair \cup {None}]
  BY Tables DEF QueryTokens, stored, ToRevoke, IInv, TypeOK
<1>3. Leaves(c)
  BY <1>1, <1>2 DEF QueryTokens, stored, locals, Leaves, IInv, TypeOK
<1>4. CASE Proceed(c, "revoke")
  <2>1. Local'
    BY <1>1, <1>3, <1>4, ProceedPreserves DEF Steps
  <2> QED BY <1>2, <2>1, PairStepPreserves DEF QueryTokens, stored, locals, IInv, TypeOK
<1>5. CASE Goto(c, "revoking")
  <2>1. \A i \in pending'[c] : pairs'[i] \in Pair
    BY <1>2, Tables DEF ToRevoke, IInv
  <2>2. /\ "revoking" \in (Steps \ {"idle"}) \cup Ends /\ Placed(Op(c), "revoking")
        /\ Carries(Op(c), "revoking") => Carries(Op(c), pc[c])
        /\ pc[c] \notin Ends \cup {"idle"}
    BY <1>1 DEF Placed, Carries, Steps, Ends
  <2>3. Local'
    BY <1>3, <1>5, <2>1, <2>2, GotoPreserves
  <2> QED BY <1>2, <2>3, PairStepPreserves DEF QueryTokens, stored, locals, IInv, TypeOK
<1> QED BY <1>4, <1>5 DEF QueryTokens

LEMMA RevokeNextPreserves == ASSUME IInv, NEW c \in Calls, RevokeNext(c) PROVE IInv'
<1>1. PICK i \in pending[c] :
         /\ pairs' = [pairs EXCEPT ![i].revoked = TRUE]
         /\ pending' = [pending EXCEPT ![c] = @ \ {i}]
         /\ IF pending[c] = {i} THEN Proceed(c, "revoke") ELSE UNCHANGED <<pc, copy>>
  BY DEF RevokeNext
<1>2. /\ pc[c] = "revoking" /\ who[c] \in Ids /\ Placed(Op(c), "revoking")
      /\ \A j \in pending[c] : j \in Ids /\ pairs[j] \in Pair
  BY DEF RevokeNext, IInv, CallInv, Named, TypeOK
<1>3. /\ pairs' \in [Ids -> Pair \cup {None}] /\ pending' \in [Calls -> SUBSET Ids]
      /\ \A j \in Ids : pairs[j] \in Pair => pairs'[j] \in Pair
      /\ pending'[c] = pending[c] \ {i} /\ \A e \in Calls \ {c} : pending'[e] = pending[e]
  BY <1>1, <1>2, RevokedPair, Tables DEF IInv, TypeOK
<1>4. Leaves(c)
  BY <1>2, <1>3 DEF RevokeNext, locals, Leaves
<1>5. Local'
  <2>1. CASE Proceed(c, "revoke")
    BY <1>2, <1>4, <2>1, ProceedPreserves DEF Steps
  <2>2. CASE UNCHANGED <<pc, copy>>
    <3>1. Advance(c, "revoking", copy[c]) /\ copy[c] \in User \cup {None}
      BY <1>2, <2>2 DEF Advance, IInv, TypeOK
    <3>2. Carries(Op(c), "revoking") => copy[c] \in User
      BY <1>2 DEF IInv, CallInv
    <3>3. "revoking" \in (Steps \ {"idle"}) \cup Ends /\ pc[c] \notin Ends \cup {"idle"}
      BY <1>2 DEF Steps, Ends
    <3> QED BY <1>2, <1>3, <1>4, <3>1, <3>2, <3>3, MovePreserves
  <2> QED BY <1>1, <2>1, <2>2
<1> QED BY <1>3, <1>5, PairStepPreserves DEF RevokeNext, locals, IInv, TypeOK

LEMMA MailCodePreserves == ASSUME IInv, NEW c \in Calls, MailCode(c) PROVE IInv'
<1> DEFINE new == [user |-> who[c], kind |-> IF Op(c) = "forgot" THEN "reset" ELSE "verify",
                   used |-> FALSE]
<1>1. pc[c] = "mail" /\ who[c] \in Ids /\ c \in Ids
  BY DEF MailCode, IInv, CallInv, Ids
<1>2. new \in Code
  BY <1>1 DEF Code
<1> HIDE DEF new
<1>3. /\ codes' = [codes EXCEPT ![c] = new] /\ codes' \in [Ids -> Code \cup {None}]
      /\ \A i \in Ids : codes[i] \in Code => codes'[i] \in Code
  BY <1>1, <1>2, Tables DEF MailCode, new, IInv
<1>4. Leaves(c)
  BY <1>1, <1>3 DEF MailCode, locals, Leaves
<1>5. Local'
  BY <1>1, <1>4, ProceedPreserves DEF MailCode, Steps
<1> QED BY <1>3, <1>5 DEF MailCode, locals, Local, IInv, TypeOK, Database

LEMMA MarkUsedPreserves == ASSUME IInv, NEW c \in Calls, MarkUsed(c) PROVE IInv'
<1>1. pc[c] = "mark" /\ who[c] \in Ids /\ codes[call[c].by] \in Code
  BY DEF MarkUsed, IInv, CallInv, Placed, Named
<1>2. [codes[call[c].by] EXCEPT !.used = TRUE] \in Code
  BY <1>1 DEF Code
<1>3. /\ codes' \in [Ids -> Code \cup {None}]
      /\ \A i \in Ids : codes[i] \in Code => codes'[i] \in Code
  BY <1>1, <1>2, Tables DEF MarkUsed, IInv
<1>4. Leaves(c)
  BY <1>1, <1>3 DEF MarkUsed, locals, Leaves
<1>5. Local'
  BY <1>1, <1>4, ProceedPreserves DEF MarkUsed, Steps
<1> QED BY <1>3, <1>5 DEF MarkUsed, locals, Local, IInv, TypeOK, Database

-----------------------------------------------------------------------------
(* Linked identities                                                        *)

\* A step that goes on after changing the links.
LEMMA LinkStepPreserves ==
  ASSUME IInv, Local', links' \in [Ids -> Link \cup {None}],
         pending' \in [Calls -> SUBSET Ids], faults' \in 0 .. MaxFaults,
         UNCHANGED <<users, index, pairs, codes, who>>
  PROVE  IInv'
BY DEF Local, IInv, TypeOK, Database

\* Requests at the link steps may go to these.
LEMMA LinkMoves ==
  ASSUME IInv, NEW c \in Calls, pc[c] \in {"owner", "link", "add", "list"},
         NEW step \in {"ok", "refused", "link", "add", "drop"}, Goto(c, step), Leaves(c),
         step = "link" => pc[c] = "owner", step = "add" => pc[c] = "link",
         step = "drop" => pc[c] = "list"
  PROVE  Local'
<1>1. Placed(Op(c), pc[c])
  BY DEF IInv, CallInv, Steps
<1>2. /\ step \in (Steps \ {"idle"}) \cup Ends /\ step # "revoking" /\ Placed(Op(c), step)
      /\ Carries(Op(c), pc[c]) /\ pc[c] \notin Ends \cup {"idle"}
  BY <1>1 DEF Placed, Carries, Steps, Ends
<1> QED BY <1>2, GotoPreserves

LEMMA CheckOwnerPreserves == ASSUME IInv, NEW c \in Calls, CheckOwner(c) PROVE IInv'
<1>1. pc[c] = "owner" /\ who[c] \in Ids /\ Leaves(c)
  BY DEF CheckOwner, stored, locals, Leaves, IInv, CallInv
<1>2. PICK step \in {"ok", "refused", "link"} : Goto(c, step)
  BY DEF CheckOwner
<1>3. Local'
  BY <1>1, <1>2, LinkMoves
<1> QED BY <1>3 DEF CheckOwner, stored, locals, Local, IInv, TypeOK

\* The new link has the type of one.
LEMMA NewLinkType ==
  ASSUME IInv, NEW c \in Calls, pc[c] \in {"link", "add"}
  PROVE  NewLink(c) \in [Ids -> Link \cup {None}] /\ who[c] \in Ids
<1>1. who[c] \in Ids /\ call[c].to \in Identities /\ c \in Ids
  BY DEF IInv, CallInv, Placed, Named, Ids
<1>2. [user |-> who[c], identity |-> call[c].to] \in Link
  BY <1>1 DEF Link
<1> QED BY <1>1, <1>2, Tables DEF NewLink, IInv

LEMMA LinkInMemoryPreserves == ASSUME IInv, NEW c \in Calls, LinkInMemory(c) PROVE IInv'
<1>1. pc[c] = "link" /\ NewLink(c) \in [Ids -> Link \cup {None}] /\ who[c] \in Ids
  BY NewLinkType DEF LinkInMemory
<1>2. links' \in [Ids -> Link \cup {None}] /\ Leaves(c)
  BY <1>1, Tables DEF LinkInMemory, locals, Leaves, IInv
<1>3. Local'
  <2>1. CASE Proceed(c, "link")
    BY <1>1, <1>2, <2>1, ProceedPreserves DEF Steps
  <2>2. CASE Goto(c, "refused")
    BY <1>1, <1>2, <2>2, LinkMoves
  <2> QED BY <2>1, <2>2 DEF LinkInMemory
<1> QED BY <1>2, <1>3, LinkStepPreserves DEF LinkInMemory, locals, IInv, TypeOK

LEMMA QueryLinkPreserves == ASSUME IInv, NEW c \in Calls, QueryLink(c) PROVE IInv'
<1>1. pc[c] = "link" /\ who[c] \in Ids /\ Leaves(c)
  BY DEF QueryLink, stored, locals, Leaves, IInv, CallInv
<1>2. PICK step \in {"add", "refused"} : Goto(c, step)
  BY DEF QueryLink
<1>3. Local'
  BY <1>1, <1>2, LinkMoves
<1> QED BY <1>3 DEF QueryLink, stored, locals, Local, IInv, TypeOK

LEMMA AddLinkPreserves == ASSUME IInv, NEW c \in Calls, AddLink(c) PROVE IInv'
<1>1. pc[c] = "add" /\ links' \in [Ids -> Link \cup {None}] /\ who[c] \in Ids
  BY NewLinkType DEF AddLink
<1>2. Leaves(c)
  BY <1>1 DEF AddLink, locals, Leaves
<1>3. Local'
  BY <1>1, <1>2, ProceedPreserves DEF AddLink, Steps
<1> QED BY <1>1, <1>3, LinkStepPreserves DEF AddLink, locals, IInv, TypeOK

LEMMA ListLinksPreserves == ASSUME IInv, NEW c \in Calls, ListLinks(c) PROVE IInv'
<1>1. pc[c] = "list" /\ who[c] \in Ids
  BY DEF ListLinks, IInv, CallInv
<1>2. PICK step \in {"ok", "refused", "drop"} : Goto(c, step)
  BY DEF ListLinks
<1>3. PICK L \in SUBSET Ids : pending' = pending \/ pending' = [pending EXCEPT ![c] = L]
  BY DEF ListLinks, LinksOf
<1>4. pending' \in [Calls -> SUBSET Ids] /\ Leaves(c)
  BY <1>1, <1>3 DEF ListLinks, stored, locals, Leaves, IInv, TypeOK
<1>5. Local'
  BY <1>1, <1>2, <1>4, LinkMoves
<1> QED BY <1>4, <1>5 DEF ListLinks, stored, locals, Local, IInv, TypeOK

\* A step of a request that deletes links: to the next one, or on.
LEMMA DropMoves ==
  ASSUME IInv, NEW c \in Calls, pc[c] = "drop", NEW l \in pending[c],
         pending' = [pending EXCEPT ![c] = @ \ {l}],
         IF pending[c] = {l} THEN Proceed(c, "drop") ELSE UNCHANGED <<pc, copy>>,
         UNCHANGED <<backend, users, index, pairs, codes, locals>>
  PROVE  Local' /\ pending' \in [Calls -> SUBSET Ids]
<1>1. pending' \in [Calls -> SUBSET Ids] /\ Leaves(c) /\ Placed(Op(c), "drop")
  BY DEF locals, Leaves, IInv, TypeOK, CallInv
<1>2. CASE Proceed(c, "drop")
  BY <1>1, <1>2, ProceedPreserves DEF Steps
<1>3. CASE UNCHANGED <<pc, copy>>
  <2>1. Advance(c, "drop", copy[c]) /\ copy[c] \in User \cup {None}
    BY <1>3 DEF Advance, IInv, TypeOK
  <2>2. Carries(Op(c), "drop") => copy[c] \in User
    BY DEF IInv, CallInv
  <2>3. "drop" \in (Steps \ {"idle"}) \cup Ends /\ pc[c] \notin Ends \cup {"idle"}
    BY DEF Steps, Ends
  <2> QED BY <1>1, <2>1, <2>2, <2>3, MovePreserves
<1> QED BY <1>1, <1>2, <1>3

LEMMA DropLinkPreserves == ASSUME IInv, NEW c \in Calls, DropLink(c) PROVE IInv'
<1>1. PICK l \in pending[c] :
         /\ links' = [links EXCEPT ![l] = None]
         /\ pending' = [pending EXCEPT ![c] = @ \ {l}]
         /\ IF pending[c] = {l} THEN Proceed(c, "drop") ELSE UNCHANGED <<pc, copy>>
  BY DEF DropLink
<1>2. Local' /\ pending' \in [Calls -> SUBSET Ids]
  BY <1>1, DropMoves DEF DropLink
<1>3. links' \in [Ids -> Link \cup {None}]
  BY <1>1, Tables DEF IInv
<1> QED BY <1>2, <1>3, LinkStepPreserves DEF DropLink, locals, IInv, TypeOK

-----------------------------------------------------------------------------
(* Failures and time                                                        *)

LEMMA FailPreserves == ASSUME IInv, NEW c \in Calls, Fail(c) PROVE IInv'
<1>1. /\ pc[c] \notin Ends \cup {"idle"} /\ who[c] \in Ids
      /\ pending' \in [Calls -> SUBSET Ids] /\ Leaves(c)
      /\ faults' \in 0 .. MaxFaults
  BY DEF Fail, InFlight, stored, locals, Leaves, IInv, CallInv, TypeOK
<1>2. "failed" \in Ends /\ Placed(Op(c), "failed") /\ ~Carries(Op(c), "failed")
  BY DEF Ends, Placed, Carries, Steps
<1>3. Local'
  BY <1>1, <1>2, GotoPreserves DEF Fail
<1> QED BY <1>1, <1>3 DEF Fail, stored, locals, Local, IInv, TypeOK

LEMMA SkipPreserves == ASSUME IInv, NEW c \in Calls, Skip(c) PROVE IInv'
<1>1. /\ pc[c] \in {"spend", "revoke", "revoking", "write", "set", "list"}
      /\ faults' \in 0 .. MaxFaults
  BY DEF Skip, IInv, TypeOK
<1>2. who[c] \in Ids
  BY <1>1 DEF IInv, CallInv
<1>3. pending' \in [Calls -> SUBSET Ids] /\ Leaves(c)
  BY <1>2 DEF Skip, stored, locals, Leaves, IInv, TypeOK
<1>4. Local'
  <2>1. CASE pc[c] \in {"write", "set"} /\ Written(c)
    BY <1>3, <2>1, WrittenPreserves
  <2>2. CASE pc[c] = "spend" /\ Proceed(c, "spend")
    BY <1>3, <2>2, ProceedPreserves DEF Steps
  <2>3. CASE pc[c] \in {"revoke", "revoking"} /\ Proceed(c, "revoke")
    BY <1>3, <2>3, ProceedPreserves DEF Steps
  <2>4. CASE pc[c] = "list" /\ Proceed(c, "drop")
    BY <1>3, <2>4, ProceedPreserves DEF Steps
  <2> QED BY <2>1, <2>2, <2>3, <2>4 DEF Skip
<1> QED BY <1>1, <1>3, <1>4 DEF Skip, stored, locals, Local, IInv, TypeOK

LEMMA SkipLinkPreserves == ASSUME IInv, NEW c \in Calls, SkipLink(c) PROVE IInv'
<1>1. PICK l \in pending[c] :
         /\ pending' = [pending EXCEPT ![c] = @ \ {l}]
         /\ IF pending[c] = {l} THEN Proceed(c, "drop") ELSE UNCHANGED <<pc, copy>>
  BY DEF SkipLink
<1>2. Local' /\ pending' \in [Calls -> SUBSET Ids]
  BY <1>1, DropMoves DEF SkipLink, stored
<1>3. faults' \in 0 .. MaxFaults
  BY DEF SkipLink, IInv, TypeOK
<1> QED BY <1>2, <1>3 DEF SkipLink, stored, locals, Local, IInv, TypeOK

LEMMA ExpirePreserves == ASSUME IInv, NEW u \in Ids, Expire(u) PROVE IInv'
<1>1. \A d \in User : d = None \/ Unlocked(d) \in User
  BY DEF Unlocked, User
<1>2. /\ users[u] # None /\ users' = [users EXCEPT ![u] = Unlocked(users[u])]
      /\ users' \in [Ids -> User \cup {None}]
  BY <1>1, Tables DEF Expire, IInv
<1>3. /\ copy' \in [Calls -> User \cup {None}]
      /\ \A c \in Calls : copy[c] \in User => copy'[c] \in User
  BY <1>1 DEF Expire, Unlocked, IInv, TypeOK
<1>4. CallInv'
  <2>1. UNCHANGED <<pc, call, who, before, pending, pairs, codes>>
    BY DEF Expire, locals
  <2> QED BY <1>3, <2>1 DEF IInv, CallInv, Named, Op, Ended
<1> QED BY <1>2, <1>3, <1>4 DEF Expire, locals, IInv, TypeOK, Database

LEMMA StutterPreserves == ASSUME IInv, UNCHANGED vars PROVE IInv'
<1>1. TypeOK'
  BY DEF vars, stored, locals, IInv, TypeOK
<1>2. CallInv'
  BY DEF vars, stored, locals, IInv, CallInv, Named, Op, Ended
<1> QED BY <1>1, <1>2 DEF IInv

LEMMA NextIInv == IInv /\ [Next]_vars => IInv'
<1> SUFFICES ASSUME IInv, [Next]_vars PROVE IInv'
  OBVIOUS
<1>1. ASSUME NEW c \in Calls, Step(c) PROVE IInv'
  BY <1>1, ReadUserPreserves, MatchEmailPreserves, CheckEmailPreserves, CreateUserPreserves,
     UpdateUserPreserves, SetUserPreserves, IssueTokensPreserves, SpendTokenPreserves,
     MailCodePreserves, MarkUsedPreserves, RevokeInMemoryPreserves, QueryTokensPreserves,
     RevokeNextPreserves, CheckOwnerPreserves, LinkInMemoryPreserves, QueryLinkPreserves,
     AddLinkPreserves, ListLinksPreserves, DropLinkPreserves, FailPreserves, SkipPreserves,
     SkipLinkPreserves DEF Step
<1> QED BY <1>1, BeginPreserves, ExpirePreserves, StutterPreserves DEF Next

\* The inductive invariant holds of every behaviour.
THEOREM Invariance == Spec => []IInv
BY InitIInv, NextIInv, PTL DEF Spec

\* No request of any kind, in any order with others, leaves a document that
\* cannot be read, for either store.
THEOREM TypeCorrectness == Spec => []TypeOK
<1>1. IInv => TypeOK
  BY DEF IInv
<1> QED BY <1>1, Invariance, PTL

=============================================================================
