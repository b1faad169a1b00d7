---------------------------- MODULE AuthUserProofs ----------------------------
(***************************************************************************)
(* Proofs of what AuthService promises about users: requests read a user,  *)
(* change their copy and write it back whole.  The argument is the same    *)
(* throughout: as long as no other request that writes the user overlaps,  *)
(* the copy that a request is about to change is what is stored.           *)
(***************************************************************************)
EXTENDS AuthSafetyProofs, FiniteSetTheorems

USE IdsAssumption, NoneAssumption, LockAssumption, FaultsAssumption

-----------------------------------------------------------------------------
(* Where a request goes, and what it carries                                *)

AfterWrite(op) == IF op \in {"login", "oauth"} THEN "issue"
                  ELSE IF op = "mistake" THEN "bad"
                  ELSE IF op \in {"logout", "update"} THEN "ok"
                  ELSE IF op = "verify" THEN "mark" ELSE "revoke"

AfterRevoke(op) == IF op = "refresh" THEN "reuse"
                   ELSE IF op = "logout" THEN "write"
                   ELSE IF op = "reset" THEN "mark"
                   ELSE IF op = "email" THEN "mail"
                   ELSE IF op = "delete" THEN "list" ELSE "ok"

Refusals == {"failed", "taken", "refused", "locked"}

\* The steps of a request of this operation, one by one.
Goes(op, from, to) ==
    \/ to \in Refusals
    \/ from \in {"create", "insert"} /\ to \in {"insert", IF op = "register" THEN "mail" ELSE "link"}
    \/ from = "match" /\ to \in {"create", "link"}
    \/ from = "check" /\ to = "write"
    \/ from = "user" /\ to = IF op = "refresh" THEN "issue" ELSE "write"
    \/ from \in {"write", "set"} /\ to \in {"set", AfterWrite(op)}
    \/ from = "spend" /\ to = "user"
    \/ from \in {"issue", "mail", "mark"} /\ to = "ok"
    \/ from \in Revs /\ to \in {"revoking", AfterRevoke(op)}
    \/ from = "owner" /\ to \in {"ok", "link"}
    \/ from \in {"link", "add"} /\ to \in {"add", IF op = "oauth" THEN "write" ELSE "ok"}
    \/ from \in {"list", "drop"} /\ to \in {"drop", "ok"}

\* The program goes on as Goes says.
LEMMA ProgramGoes ==
  ASSUME NEW op, NEW from,
         NEW step \in {"create", "user", "write", "issue", "spend", "revoke", "mail", "mark",
                       "link", "drop"},
         Placed(op, step), Placed(op, from),
         \/ from = step
         \/ <<from, step>> \in {<<"insert", "create">>, <<"set", "write">>,
                                <<"revoking", "revoke">>, <<"add", "link">>, <<"list", "drop">>}
  PROVE  Goes(op, from, Program[op][step])
<1>1. CASE step \in {"create", "user"}
  BY <1>1, Programs DEF Placed, Goes
<1>2. CASE step = "write"
  BY <1>2, Programs DEF Placed, Writing, Goes, AfterWrite
<1>3. CASE step \in {"issue", "spend"}
  BY <1>3, Programs DEF Placed, Goes
<1>4. CASE step = "revoke"
  BY <1>4, Programs DEF Placed, Ending, Goes, Revs, AfterRevoke
<1>5. CASE step \in {"mail", "mark"}
  BY <1>5, Programs DEF Placed, Goes
<1>6. CASE step \in {"link", "drop"}
  BY <1>6, Programs DEF Placed, Goes
<1> QED BY <1>1, <1>2, <1>3, <1>4, <1>5, <1>6

\* What the step of request c does to it and to its copy.
Walks(c) ==
    /\ Goes(Op(c), pc[c], pc'[c])
    /\ pc[c] # "match" => who' = who
    /\ \A e \in Calls \ {c} : copy'[e] = copy[e]
    /\ pc'[c] \in Ends => copy'[c] = None
    /\ pc[c] \notin {"user", "match"} /\ pc'[c] \notin Ends => copy'[c] = copy[c]
    /\ pc[c] = "user" /\ pc'[c] \notin Ends =>
         FitUser(c, users[who[c]]) /\ copy'[c] = users[who[c]]
    /\ pc[c] = "match" /\ pc'[c] = "create" =>
         who' = who /\ copy'[c] = NewUser(EmailOf[call[c].to], FALSE, "active")
    /\ pc[c] = "match" /\ pc'[c] = "link" =>
         /\ who'[c] \in Ids /\ users[who'[c]] # None /\ users[who'[c]].status = "active"
         /\ copy'[c] = users[who'[c]]

LEMMA GotoWalks ==
  ASSUME IInv, NEW c \in Calls, pc[c] \in Steps \ {"idle", "match"}, NEW step, Goto(c, step),
         Goes(Op(c), pc[c], step), who' = who, pc[c] = "user" => step \in Ends
  PROVE  Walks(c)
<1>1. pc'[c] = step /\ (\A e \in Calls \ {c} : copy'[e] = copy[e])
  BY DEF Goto, Advance, IInv, TypeOK
<1>2. copy'[c] = IF step \in Ends THEN None ELSE copy[c]
  BY DEF Goto, Advance, IInv, TypeOK
<1> QED BY <1>1, <1>2 DEF Walks

LEMMA ProceedWalks ==
  ASSUME IInv, NEW c \in Calls, NEW from \in Steps \ {"idle", "match", "user"}, pc[c] = from,
         NEW step \in {"create", "write", "issue", "spend", "revoke", "mail", "mark", "link", "drop"},
         \/ from = step
         \/ <<from, step>> \in {<<"insert", "create">>, <<"set", "write">>,
                                <<"revoking", "revoke">>, <<"add", "link">>, <<"list", "drop">>},
         Proceed(c, step), who' = who
  PROVE  Walks(c)
<1>1. Placed(Op(c), from) /\ Placed(Op(c), step)
  BY DEF IInv, CallInv, Placed, Steps
<1>2. Goes(Op(c), from, Program[Op(c)][step])
  BY <1>1, ProgramGoes
<1> QED BY <1>2, GotoWalks DEF Proceed

LEMMA ReadUserWalks == ASSUME IInv, NEW c \in Calls, ReadUser(c) PROVE Walks(c)
<1>1. /\ pc[c] = "user" /\ who' = who /\ pc \in [Calls -> Steps \cup Ends]
      /\ copy \in [Calls -> User \cup {None}] /\ Placed(Op(c), "user")
  BY DEF ReadUser, locals, IInv, TypeOK, CallInv
<1>2. CASE Goto(c, "refused")
  BY <1>1, <1>2, GotoWalks DEF Goes, Refusals, Steps, Ends
<1>3. CASE FitUser(c, users[who[c]]) /\ Advance(c, Program[Op(c)]["user"], users[who[c]])
  <2>1. Goes(Op(c), "user", Program[Op(c)]["user"])
    BY <1>1, ProgramGoes
  <2>2. Program[Op(c)]["user"] \notin Ends
    BY <1>1, Programs DEF Placed, Ends
  <2>3. /\ pc'[c] = Program[Op(c)]["user"] /\ copy'[c] = users[who[c]]
        /\ \A e \in Calls \ {c} : copy'[e] = copy[e]
    BY <1>1, <1>3 DEF Advance
  <2> QED BY <1>1, <1>3, <2>1, <2>2, <2>3 DEF Walks
<1> QED BY <1>2, <1>3 DEF ReadUser

LEMMA MatchEmailWalks == ASSUME IInv, NEW c \in Calls, MatchEmail(c) PROVE Walks(c)
<1>1. /\ pc[c] = "match" /\ pc \in [Calls -> Steps \cup Ends]
      /\ copy \in [Calls -> User \cup {None}] /\ who \in [Calls -> Ids \cup {None}]
  BY DEF MatchEmail, IInv, TypeOK
<1>2. ASSUME NEW u \in Found(EmailOf[call[c].to]), users[u].status = "active",
             who' = [who EXCEPT ![c] = u], Advance(c, "link", users[u])
      PROVE  Walks(c)
  <2>1. u \in Ids /\ users[u] # None
    BY DEF Found, FoundInMemory, FoundInFirestore
  <2>2. /\ pc'[c] = "link" /\ copy'[c] = users[u] /\ who'[c] = u
        /\ \A e \in Calls \ {c} : copy'[e] = copy[e]
    BY <1>1, <1>2 DEF Advance
  <2> QED BY <1>1, <1>2, <2>1, <2>2 DEF Walks, Goes, Ends
<1>3. ASSUME who' = who,
             Advance(c, "create", NewUser(EmailOf[call[c].to], FALSE, "active"))
      PROVE  Walks(c)
  <2>1. /\ pc'[c] = "create" /\ copy'[c] = NewUser(EmailOf[call[c].to], FALSE, "active")
        /\ \A e \in Calls \ {c} : copy'[e] = copy[e]
    BY <1>1, <1>3 DEF Advance
  <2> QED BY <1>1, <1>3, <2>1 DEF Walks, Goes, Ends
<1> QED BY <1>2, <1>3 DEF MatchEmail

\* Steps that end a request, or only look, go as Goes says.
LEMMA OtherGoes ==
  ASSUME NEW op, NEW from
  PROVE  /\ \A to \in Refusals : Goes(op, from, to)
         /\ from \in {"revoking", "drop"} => Goes(op, from, from)
         /\ from = "check" => Goes(op, from, "write")
         /\ from = "create" => Goes(op, from, "insert")
         /\ from = "write" => Goes(op, from, "set")
         /\ from = "owner" => Goes(op, from, "link") /\ Goes(op, from, "ok")
         /\ from = "link" => Goes(op, from, "add")
         /\ from = "list" => Goes(op, from, "drop") /\ Goes(op, from, "ok")
         /\ from = "revoke" => Goes(op, from, "revoking")
BY DEF Goes, Revs

LEMMA WrittenWalks ==
  ASSUME IInv, NEW c \in Calls, pc[c] \in {"write", "set"}, Written(c), who' = who
  PROVE  Walks(c)
<1>1. CASE Proceed(c, "write")
  BY <1>1, ProceedWalks DEF Steps
<1>2. CASE Goto(c, "locked")
  BY <1>2, OtherGoes, GotoWalks DEF Steps, Refusals
<1> QED BY <1>1, <1>2 DEF Written

LEMMA UserStepWalks ==
  ASSUME IInv, NEW c \in Calls, CheckEmail(c) \/ CreateUser(c) \/ UpdateUser(c) \/ SetUser(c)
  PROVE  Walks(c)
<1>1. who' = who
  BY DEF CheckEmail, CreateUser, UpdateUser, SetUser, locals
<1>2. CASE CheckEmail(c)
  <2>1. PICK step \in {"write", "refused"} : Goto(c, step)
    BY <1>2 DEF CheckEmail
  <2> QED BY <1>1, <1>2, <2>1, Guards, OtherGoes, GotoWalks DEF Steps, Refusals
<1>3. CASE CreateUser(c)
  <2>1. pc[c] = "create"
    BY <1>3, Guards
  <2>2. Proceed(c, "create") \/ \E step \in {"insert", "taken"} : Goto(c, step)
    BY <1>3 DEF CreateUser, StoreInMemory, Queried
  <2>3. CASE Proceed(c, "create")
    BY <1>1, <2>1, <2>3, ProceedWalks DEF Steps
  <2>4. CASE \E step \in {"insert", "taken"} : Goto(c, step)
    BY <1>1, <2>1, <2>4, OtherGoes, GotoWalks DEF Steps, Refusals
  <2> QED BY <2>2, <2>3, <2>4
<1>4. CASE UpdateUser(c)
  <2>1. pc[c] = "write"
    BY <1>4, Guards
  <2>2. Written(c) \/ \E step \in {"set", "taken"} : Goto(c, step)
    BY <1>4 DEF UpdateUser, StoreInMemory, Queried
  <2>3. CASE \E step \in {"set", "taken"} : Goto(c, step)
    BY <1>1, <2>1, <2>3, OtherGoes, GotoWalks DEF Steps, Refusals
  <2> QED BY <1>1, <2>1, <2>2, <2>3, WrittenWalks
<1>5. CASE SetUser(c)
  <2>1. (pc[c] = "insert" /\ Proceed(c, "create")) \/ (pc[c] = "set" /\ Written(c))
    BY <1>5 DEF SetUser
  <2>2. CASE pc[c] = "insert" /\ Proceed(c, "create")
    BY <1>1, <2>2, ProceedWalks DEF Steps
  <2>3. CASE pc[c] = "set" /\ Written(c)
    BY <1>1, <2>3, WrittenWalks
  <2> QED BY <2>1, <2>2, <2>3
<1> QED BY <1>2, <1>3, <1>4, <1>5

LEMMA TokenStepWalks ==
  ASSUME IInv, NEW c \in Calls,
         \/ IssueTokens(c) \/ SpendToken(c) \/ MailCode(c) \/ MarkUsed(c)
         \/ RevokeInMemory(c) \/ QueryTokens(c) \/ RevokeNext(c)
  PROVE  Walks(c)
<1>1. who' = who
  BY DEF IssueTokens, SpendToken, MailCode, MarkUsed, RevokeInMemory, QueryTokens, RevokeNext,
         locals
<1>2. ASSUME NEW step \in {"issue", "spend", "mail", "mark", "revoke"}, pc[c] = step,
             Proceed(c, step)
      PROVE  Walks(c)
  BY <1>1, <1>2, ProceedWalks DEF Steps
<1>3. ASSUME pc[c] = "revoking", Proceed(c, "revoke") PROVE Walks(c)
  BY <1>1, <1>3, ProceedWalks DEF Steps
<1>4. ASSUME pc[c] = "revoke", Goto(c, "revoking") PROVE Walks(c)
  BY <1>1, <1>4, OtherGoes, GotoWalks DEF Steps
<1>5. ASSUME pc[c] = "revoking", UNCHANGED <<pc, copy>> PROVE Walks(c)
  BY <1>1, <1>5, OtherGoes DEF Walks, Ends
<1>6. CASE IssueTokens(c) \/ SpendToken(c)
  BY <1>2, <1>6 DEF IssueTokens, SpendToken
<1>7. CASE MailCode(c) \/ MarkUsed(c)
  BY <1>2, <1>7 DEF MailCode, MarkUsed
<1>8. CASE RevokeInMemory(c)
  BY <1>2, <1>8 DEF RevokeInMemory
<1>9. CASE QueryTokens(c)
  BY <1>2, <1>4, <1>9 DEF QueryTokens
<1>10. CASE RevokeNext(c)
  BY <1>3, <1>5, <1>10 DEF RevokeNext
<1> QED BY <1>6, <1>7, <1>8, <1>9, <1>10

LEMMA LinkStepWalks ==
  ASSUME IInv, NEW c \in Calls,
         \/ CheckOwner(c) \/ LinkInMemory(c) \/ QueryLink(c) \/ AddLink(c)
         \/ ListLinks(c) \/ DropLink(c)
  PROVE  Walks(c)
<1>1. who' = who
  BY DEF CheckOwner, LinkInMemory, QueryLink, AddLink, ListLinks, DropLink, locals
<1>2. CASE CheckOwner(c)
  <2>1. pc[c] = "owner" /\ \E step \in {"ok", "refused", "link"} : Goto(c, step)
    BY <1>2 DEF CheckOwner
  <2> QED BY <1>1, <2>1, OtherGoes, GotoWalks DEF Steps, Refusals
<1>3. ASSUME pc[c] = "link" \/ pc[c] = "add", Proceed(c, "link") PROVE Walks(c)
  BY <1>1, <1>3, ProceedWalks DEF Steps
<1>4. ASSUME pc[c] = "link", NEW step \in {"add", "refused"}, Goto(c, step) PROVE Walks(c)
  BY <1>1, <1>4, OtherGoes, GotoWalks DEF Steps, Refusals
<1>5. ASSUME pc[c] = "list", NEW step \in {"ok", "refused", "drop"}, Goto(c, step)
      PROVE  Walks(c)
  BY <1>1, <1>5, OtherGoes, GotoWalks DEF Steps, Refusals
<1>6. CASE DropLink(c)
  <2>1. pc[c] = "drop" /\ (Proceed(c, "drop") \/ UNCHANGED <<pc, copy>>)
    BY <1>6 DEF DropLink
  <2>2. CASE Proceed(c, "drop")
    BY <1>1, <2>1, <2>2, ProceedWalks DEF Steps
  <2>3. CASE UNCHANGED <<pc, copy>>
    BY <1>1, <2>1, <2>3, OtherGoes DEF Walks, Ends
  <2> QED BY <2>1, <2>2, <2>3
<1>7. CASE LinkInMemory(c)
  BY <1>3, <1>4, <1>7 DEF LinkInMemory
<1>8. CASE QueryLink(c) \/ AddLink(c)
  BY <1>3, <1>4, <1>8 DEF QueryLink, AddLink
<1>9. CASE ListLinks(c)
  BY <1>5, <1>9 DEF ListLinks
<1> QED BY <1>2, <1>6, <1>7, <1>8, <1>9

LEMMA FailWalks == ASSUME IInv, NEW c \in Calls, Fail(c) PROVE Walks(c)
<1>1. /\ Goto(c, "failed") /\ who' = who /\ pc[c] \notin Ends \cup {"idle"}
      /\ pc \in [Calls -> Steps \cup Ends] /\ copy \in [Calls -> User \cup {None}]
  BY DEF Fail, locals, InFlight, IInv, TypeOK
<1>2. pc'[c] = "failed" /\ copy'[c] = None /\ \A e \in Calls \ {c} : copy'[e] = copy[e]
  BY <1>1 DEF Goto, Advance, Ends
<1> QED BY <1>1, <1>2, OtherGoes DEF Walks, Ends, Refusals

LEMMA SkipWalks == ASSUME IInv, NEW c \in Calls, Skip(c) \/ SkipLink(c) PROVE Walks(c)
<1>1. who' = who
  BY DEF Skip, SkipLink, locals
<1>2. ASSUME pc[c] = "spend", Proceed(c, "spend") PROVE Walks(c)
  BY <1>1, <1>2, ProceedWalks DEF Steps
<1>3. ASSUME NEW from \in Revs, pc[c] = from, Proceed(c, "revoke") PROVE Walks(c)
  BY <1>1, <1>3, ProceedWalks DEF Steps, Revs
<1>4. ASSUME pc[c] \in {"write", "set"}, Written(c) PROVE Walks(c)
  BY <1>1, <1>4, WrittenWalks
<1>5. ASSUME NEW from \in {"list", "drop"}, pc[c] = from, Proceed(c, "drop") PROVE Walks(c)
  BY <1>1, <1>5, ProceedWalks DEF Steps
<1>6. ASSUME pc[c] = "drop", UNCHANGED <<pc, copy>> PROVE Walks(c)
  BY <1>1, <1>6, OtherGoes DEF Walks, Ends
<1>7. CASE Skip(c)
  BY <1>2, <1>3, <1>4, <1>5, <1>7 DEF Skip, Revs
<1>8. CASE SkipLink(c)
  BY <1>5, <1>6, <1>8 DEF SkipLink
<1> QED BY <1>7, <1>8

LEMMA StepWalks == ASSUME IInv, NEW c \in Calls, Step(c) PROVE Walks(c)
BY ReadUserWalks, MatchEmailWalks, UserStepWalks, TokenStepWalks, LinkStepWalks, FailWalks,
   SkipWalks DEF Step

-----------------------------------------------------------------------------
(* What is written                                                          *)

\* What each handler makes of its copy, field by field.
LEMMA EditedFields ==
  ASSUME IInv, NEW c \in Calls, pc[c] \in {"write", "set"}
  PROVE  LET d == copy[c]
             e == Edited(c)
             op == Op(c)
         IN  /\ d \in User /\ e \in User
             /\ e.email = IF op = "email" THEN call[c].to
                          ELSE IF op = "delete" THEN None ELSE d.email
             /\ e.status = IF op = "email" THEN "unverified"
                           ELSE IF op = "delete" THEN "deleted"
                           ELSE IF op = "oauth" THEN "active"
                           ELSE IF op = "verify" /\ d.status = "unverified" THEN "active"
                           ELSE d.status
             /\ e.pw = IF op = "delete" THEN FALSE
                       ELSE IF op \in {"reset", "password"} THEN TRUE ELSE d.pw
             /\ e.tv = IF op \in Ending THEN d.tv + 1 ELSE d.tv
             /\ op = "mistake" => e.locked \/ (e.fails = d.fails + 1 /\ e.fails < LockAfter)
<1>1. copy[c] \in User /\ (Op(c) = "email" => call[c].to \in Emails)
  BY DEF IInv, CallInv, Placed, Carries, Named, Writing, Steps
<1>2. copy[c].tv + 1 \in Nat /\ copy[c].fails + 1 \in Nat
  BY <1>1 DEF User
<1>3. Edited(c) \in User
  BY EditedType
<1>4. CASE Op(c) \in {"login", "update", "verify", "oauth"}
  BY <1>1, <1>3, <1>4 DEF Edited, User, Ending
<1>5. CASE Op(c) = "logout"
  BY <1>1, <1>2, <1>3, <1>5 DEF Edited, User, Ending
<1>6. CASE Op(c) = "password"
  BY <1>1, <1>2, <1>3, <1>6 DEF Edited, User, Ending
<1>7. CASE Op(c) = "reset"
  BY <1>1, <1>2, <1>3, <1>7 DEF Edited, User, Ending
<1>8. CASE Op(c) = "email"
  BY <1>1, <1>2, <1>3, <1>8 DEF Edited, User, Ending
<1>9. CASE Op(c) = "delete"
  BY <1>1, <1>2, <1>3, <1>9 DEF Edited, User, Ending
<1>10. CASE Op(c) = "mistake"
  <2>1. Edited(c) = Mistaken(copy[c])
    BY <1>10 DEF Edited
  <2>2. CASE copy[c].fails + 1 >= LockAfter
    <3>1. Edited(c) = [copy[c] EXCEPT !.fails = 0, !.locked = TRUE]
      BY <2>1, <2>2 DEF Mistaken
    <3> QED BY <1>1, <1>3, <1>10, <3>1 DEF User, Ending
  <2>3. CASE ~(copy[c].fails + 1 >= LockAfter)
    <3>1. Edited(c) = [copy[c] EXCEPT !.fails = copy[c].fails + 1]
      BY <2>1, <2>3 DEF Mistaken
    <3>2. copy[c].fails + 1 < LockAfter
      BY <1>2, <2>3
    <3> QED BY <1>1, <1>2, <1>3, <1>10, <3>1, <3>2 DEF User, Ending
  <2> QED BY <2>2, <2>3
<1>11. Op(c) \in Writing \ {"register"}
  BY DEF IInv, CallInv, Placed
<1> QED BY <1>4, <1>5, <1>6, <1>7, <1>8, <1>9, <1>10, <1>11 DEF Writing

\* Request c stores the user that it creates.
Creates(c) ==
    /\ pc[c] \in {"create", "insert"} /\ pc'[c] \in {"mail", "link"}
    /\ users' = [users EXCEPT ![c] = copy[c]]

\* Request c stores what it has made of its copy.
Edits(c) ==
    /\ pc[c] \in {"write", "set"} /\ pc'[c] \in {AfterWrite(Op(c)), "locked"}
    /\ users' = [users EXCEPT ![who[c]] = Edited(c)]

\* The program after a user is stored.
LEMMA StoredNext ==
  ASSUME IInv, NEW c \in Calls
  PROVE  /\ pc[c] \in {"create", "insert"} =>
              /\ Program[Op(c)]["create"] \in {"mail", "link"}
              /\ Program[Op(c)]["create"] = IF Op(c) = "register" THEN "mail" ELSE "link"
         /\ pc[c] \in {"write", "set"} => /\ Program[Op(c)]["write"] = AfterWrite(Op(c))
                                          /\ AfterWrite(Op(c)) \notin {"taken", "failed", "set"}
<1>1. pc[c] \in {"create", "insert", "write", "set"} => Placed(Op(c), pc[c])
  BY DEF IInv, CallInv
<1>2. pc[c] \in {"create", "insert"} => Op(c) \in {"register", "oauth"}
  BY <1>1 DEF Placed
<1>3. pc[c] \in {"write", "set"} => Op(c) \in Writing \ {"register"}
  BY <1>1 DEF Placed
<1> QED BY <1>2, <1>3, Programs DEF Writing, AfterWrite

\* The step at which a request that goes on is.
LEMMA GoesTo ==
  ASSUME IInv, NEW c \in Calls, NEW step, Goto(c, step)
  PROVE  pc'[c] = step
BY DEF Goto, Advance, IInv, TypeOK

LEMMA CreateUserPuts ==
  ASSUME IInv, NEW c \in Calls, CreateUser(c)
  PROVE  (users' = users /\ pc'[c] \in {"insert", "taken"}) \/ Creates(c)
<1>1. pc[c] = "create"
  BY Guards
<1>2. CASE backend = "memory"
  <2>1. \/ users' = [users EXCEPT ![c] = copy[c]] /\ Proceed(c, "create")
        \/ users' = users /\ Goto(c, "taken")
    BY <1>2 DEF CreateUser, StoreInMemory
  <2> QED BY <1>1, <2>1, StoredNext, GoesTo DEF Proceed, Creates
<1>3. CASE backend # "memory"
  <2>1. users' = users /\ \E step \in {"insert", "taken"} : Goto(c, step)
    BY <1>3 DEF CreateUser, Queried
  <2> QED BY <2>1, GoesTo
<1> QED BY <1>2, <1>3

LEMMA WrittenTo ==
  ASSUME IInv, NEW c \in Calls, pc[c] \in {"write", "set"}, Written(c)
  PROVE  pc'[c] \in {AfterWrite(Op(c)), "locked"}
BY StoredNext, GoesTo DEF Written, Proceed

LEMMA UpdateUserPuts ==
  ASSUME IInv, NEW c \in Calls, UpdateUser(c)
  PROVE  \/ users' = users /\ (pc'[c] \in {"set", "taken"} \/ Op(c) = "mistake")
         \/ Edits(c)
<1>1. pc[c] = "write"
  BY Guards
<1>2. CASE backend = "memory"
  <2>1. \/ users' = [users EXCEPT ![who[c]] = Edited(c)] /\ Written(c)
        \/ users' = users /\ (Goto(c, "taken") \/ Op(c) = "mistake")
    BY <1>2 DEF UpdateUser, StoreInMemory
  <2> QED BY <1>1, <2>1, WrittenTo, GoesTo DEF Edits
<1>3. CASE backend # "memory"
  <2>1. users' = users /\ (Op(c) = "mistake" \/ \E step \in {"set", "taken"} : Goto(c, step))
    BY <1>3 DEF UpdateUser, Queried
  <2> QED BY <2>1, GoesTo
<1> QED BY <1>2, <1>3

LEMMA SetUserPuts ==
  ASSUME IInv, NEW c \in Calls, SetUser(c)
  PROVE  Creates(c) \/ Edits(c)
<1>1. CASE pc[c] = "insert" /\ users' = [users EXCEPT ![c] = copy[c]] /\ Proceed(c, "create")
  BY <1>1, StoredNext, GoesTo DEF Proceed, Creates
<1>2. CASE pc[c] = "set" /\ users' = [users EXCEPT ![who[c]] = Edited(c)] /\ Written(c)
  BY <1>2, WrittenTo DEF Edits
<1> QED BY <1>1, <1>2 DEF SetUser

\* No other step stores a user.
LEMMA OthersPut ==
  ASSUME NEW c \in Calls, Step(c), ~CreateUser(c), ~UpdateUser(c), ~SetUser(c)
  PROVE  users' = users /\ index' = index
<1>1. CASE ReadUser(c) \/ MatchEmail(c) \/ CheckEmail(c)
  BY <1>1 DEF ReadUser, MatchEmail, CheckEmail, stored
<1>2. CASE \/ IssueTokens(c) \/ SpendToken(c) \/ MailCode(c) \/ MarkUsed(c)
           \/ RevokeInMemory(c) \/ QueryTokens(c) \/ RevokeNext(c)
  BY <1>2 DEF IssueTokens, SpendToken, MailCode, MarkUsed, RevokeInMemory, QueryTokens,
              RevokeNext, stored
<1>3. CASE \/ CheckOwner(c) \/ LinkInMemory(c) \/ QueryLink(c) \/ AddLink(c)
           \/ ListLinks(c) \/ DropLink(c)
  BY <1>3 DEF CheckOwner, LinkInMemory, QueryLink, AddLink, ListLinks, DropLink, stored
<1>4. CASE Fail(c) \/ Skip(c) \/ SkipLink(c)
  BY <1>4 DEF Fail, Skip, SkipLink, stored
<1> QED BY <1>1, <1>2, <1>3, <1>4 DEF Step

\* A request that fails goes on only where the error is ignored.
LEMMA FaultTo ==
  ASSUME IInv, NEW c \in Calls, Fail(c) \/ Skip(c) \/ SkipLink(c)
  PROVE  /\ faults' = faults + 1
         /\ \/ pc'[c] = "failed" \/ pc[c] \in {"spend", "list", "drop"} \cup Revs
            \/ pc[c] \in {"write", "set"} /\ Op(c) = "mistake"
<1>1. CASE Fail(c)
  BY <1>1, GoesTo DEF Fail
<1>2. CASE Skip(c) \/ SkipLink(c)
  BY <1>2 DEF Skip, SkipLink, Revs
<1> QED BY <1>1, <1>2

\* What a step makes of the users.
LEMMA StepPuts ==
  ASSUME IInv, NEW c \in Calls, Step(c)
  PROVE  /\ users' = users \/ Creates(c) \/ Edits(c)
         /\ pc[c] \in {"create", "insert"} /\ pc'[c] \in {"mail", "link"} => Creates(c)
         /\ pc[c] \in {"write", "set"} /\ pc'[c] \notin {"set", "taken", "failed"}
              => Edits(c) \/ Op(c) = "mistake"
<1>1. CASE CreateUser(c)
  BY <1>1, CreateUserPuts, Guards
<1>2. CASE UpdateUser(c)
  BY <1>2, UpdateUserPuts, Guards
<1>3. CASE SetUser(c)
  BY <1>3, SetUserPuts DEF Creates, Edits
<1>4. CASE ~CreateUser(c) /\ ~UpdateUser(c) /\ ~SetUser(c)
  <2>1. users' = users
    BY <1>4, OthersPut
  <2>2. CASE Fail(c) \/ Skip(c) \/ SkipLink(c)
    BY <2>1, <2>2, FaultTo DEF Revs
  <2>3. CASE ~Fail(c) /\ ~Skip(c) /\ ~SkipLink(c)
    BY <1>4, <2>1, <2>3, Guards DEF Step
  <2> QED BY <2>2, <2>3
<1> QED BY <1>1, <1>2, <1>3, <1>4

-----------------------------------------------------------------------------
(* How a request begins                                                     *)

\* Operations that a signed-in user calls, and their first repository calls.
Bearers == {"logout", "update", "password", "email", "delete", "link", "unlink"}
First(op) == IF op = "logout" THEN "revoke" ELSE IF op = "email" THEN "check"
             ELSE IF op = "link" THEN "owner" ELSE IF op = "unlink" THEN "list" ELSE "write"

Known(u) == u \in Ids /\ users[u] # None

\* Request c of this operation may begin, for user u and with the copy d.
Admits(c, op, by, to, u, d, step) ==
    \/ op = "register" /\ step = "create" /\ u = c
       /\ \E e \in Emails : /\ d = NewUser(e, TRUE, "unverified")
                            /\ \A v \in Found(e) : users[v].status = "deleted"
    \/ op \in {"login", "mistake"} /\ step = "write" /\ Known(u) /\ d = users[u]
       /\ d.status = "active"
    \/ op \in Bearers /\ step = First(op) /\ by \in Ids /\ pairs[by] # None
       /\ u = pairs[by].user /\ Known(u) /\ d = users[u] /\ d.status = "active"
       /\ (op = "password" => d.pw) /\ (op = "email" => to \in Emails)
    \/ op = "refresh" /\ step \in {"revoke", "spend"} /\ by \in Ids /\ pairs[by] # None
       /\ u = pairs[by].user /\ d = None
    \/ op \in {"verify", "reset"} /\ step = "user" /\ by \in Ids /\ codes[by] # None
       /\ codes[by].kind = op /\ u = codes[by].user /\ d = None
    \/ op = "forgot" /\ step = "mail" /\ Known(u) /\ d = None
       /\ users[u].status # "deleted" /\ users[u].pw
    \/ op = "oauth" /\ step = "user" /\ d = None
       /\ \E l \in Linked(to) : u = links[l].user
    \/ op = "oauth" /\ u = c /\ to \in Identities /\ Linked(to) = {}
       /\ \/ step = "match" /\ d = None
          \/ step = "create" /\ d = NewUser(None, FALSE, "active")

Enters(c) ==
    /\ Begins(c)
    /\ who'[c] \in Ids
    /\ \A e \in Calls \ {c} : copy'[e] = copy[e]
    /\ Admits(c, call'[c].op, call'[c].by, call'[c].to, who'[c], copy'[c], pc'[c])

LEMMA StartEnters ==
  ASSUME IInv, NEW c \in Calls, NEW op, NEW by, NEW to, NEW u, NEW d, NEW step,
         Start(c, Req(op, by, to), u, d, step), Begin(c), Admits(c, op, by, to, u, d, step)
  PROVE  Enters(c)
<1>1. /\ call'[c] = Req(op, by, to) /\ who'[c] = u /\ copy'[c] = d /\ pc'[c] = step
      /\ \A e \in Calls \ {c} : copy'[e] = copy[e]
  BY DEF Start, IInv, TypeOK
<1>2. call'[c].op = op /\ call'[c].by = by /\ call'[c].to = to
  BY <1>1 DEF Req
<1>3. IInv' /\ pc'[c] # "idle"
  BY BeginPreserves, BeginBegins DEF Begins
<1> QED BY <1>1, <1>2, <1>3, BeginBegins DEF Enters, IInv, CallInv

\* A bearer request is that of the user whose token it has.
LEMMA BearerEnters ==
  ASSUME IInv, NEW c \in Calls, Begin(c), NEW op \in Bearers, NEW i \in Held, NEW to,
         Bearer(c, op, i, to, First(op)), op = "password" => HasPassword(i),
         op = "email" => to \in Emails
  PROVE  Enters(c)
<1>1. i \in Ids /\ pairs[i] # None /\ pairs[i] \in Pair
  BY HeldPairs, Tables DEF Held, IInv
<1>2. Known(pairs[i].user) /\ users[pairs[i].user].status = "active"
  BY <1>1 DEF Bearer, Authentic, Known, Pair
<1>3. Admits(c, op, i, to, pairs[i].user, users[pairs[i].user], First(op))
  BY <1>1, <1>2 DEF Admits, HasPassword
<1> QED BY <1>3, StartEnters DEF Bearer

LEMMA BeginEnters == ASSUME IInv, NEW c \in Calls, Begin(c) PROVE Enters(c)
<1>1. CASE Register(c)
  <2>1. PICK e \in Emails :
           /\ \A u \in Found(e) : users[u].status = "deleted"
           /\ Start(c, Req("register", None, None), c, NewUser(e, TRUE, "unverified"), "create")
    BY <1>1 DEF Register
  <2>2. Admits(c, "register", None, None, c, NewUser(e, TRUE, "unverified"), "create")
    BY <2>1 DEF Admits
  <2> QED BY <2>1, <2>2, StartEnters
<1>2. CASE Login(c)
  <2>1. PICK e \in Emails, op \in {"login", "mistake"} : \E u \in Found(e) :
           /\ users[u].status = "active"
           /\ Start(c, Req(op, None, None), u, users[u], "write")
    BY <1>2 DEF Login
  <2>2. PICK u \in Found(e) : /\ users[u].status = "active"
                              /\ Start(c, Req(op, None, None), u, users[u], "write")
    BY <2>1
  <2>3. Known(u)
    BY DEF Found, FoundInMemory, FoundInFirestore, Known
  <2>4. Admits(c, op, None, None, u, users[u], "write")
    BY <2>2, <2>3 DEF Admits
  <2> QED BY <2>2, <2>4, StartEnters
<1>3. CASE Refresh(c)
  <2>1. PICK i \in Held :
           Start(c, Req("refresh", i, None), pairs[i].user, None,
                 IF pairs[i].revoked THEN "revoke" ELSE "spend")
    BY <1>3 DEF Refresh
  <2>2. i \in Ids /\ pairs[i] # None
    BY HeldPairs DEF Held, IInv
  <2>3. Admits(c, "refresh", i, None, pairs[i].user, None,
               IF pairs[i].revoked THEN "revoke" ELSE "spend")
    BY <2>2 DEF Admits
  <2> QED BY <2>1, <2>3, StartEnters
<1>4. CASE Logout(c)
  <2>1. PICK i \in Held : Bearer(c, "logout", i, None, "revoke")
    BY <1>4 DEF Logout
  <2> QED BY <2>1, BearerEnters DEF Bearers, First
<1>5. CASE UpdateMe(c) \/ DeleteAccount(c)
  <2>1. PICK op \in {"update", "delete"}, i \in Held : Bearer(c, op, i, None, "write")
    BY <1>5 DEF UpdateMe, DeleteAccount
  <2> QED BY <2>1, BearerEnters DEF Bearers, First
<1>6. CASE ChangePassword(c)
  <2>1. PICK i \in Held : Bearer(c, "password", i, None, "write") /\ HasPassword(i)
    BY <1>6 DEF ChangePassword
  <2> QED BY <2>1, BearerEnters DEF Bearers, First
<1>7. CASE ChangeEmail(c)
  <2>1. PICK i \in Held, e \in Emails : Bearer(c, "email", i, e, "check")
    BY <1>7 DEF ChangeEmail
  <2> QED BY <2>1, BearerEnters DEF Bearers, First
<1>8. CASE OAuthLink(c)
  <2>1. PICK i \in Held, x \in Identities : Bearer(c, "link", i, x, "owner")
    BY <1>8 DEF OAuthLink
  <2> QED BY <2>1, BearerEnters DEF Bearers, First
<1>9. CASE OAuthUnlink(c)
  <2>1. PICK i \in Held, p \in Providers : Bearer(c, "unlink", i, p, "list")
    BY <1>9 DEF OAuthUnlink
  <2> QED BY <2>1, BearerEnters DEF Bearers, First
<1>10. CASE VerifyEmail(c) \/ ResetPassword(c)
  <2>1. PICK kind \in {"verify", "reset"}, k \in Ids :
           /\ ValidCode(k, kind)
           /\ Start(c, Req(kind, k, None), codes[k].user, None, "user")
    BY <1>10 DEF VerifyEmail, ResetPassword
  <2>2. Admits(c, kind, k, None, codes[k].user, None, "user")
    BY <2>1 DEF ValidCode, Mailed, Admits
  <2> QED BY <2>1, <2>2, StartEnters
<1>11. CASE ForgotPassword(c)
  <2>1. PICK e \in Emails : \E u \in Found(e) :
           /\ users[u].status # "deleted" /\ users[u].pw
           /\ Start(c, Req("forgot", None, None), u, None, "mail")
    BY <1>11 DEF ForgotPassword
  <2>2. PICK u \in Found(e) : /\ users[u].status # "deleted" /\ users[u].pw
                              /\ Start(c, Req("forgot", None, None), u, None, "mail")
    BY <2>1
  <2>3. Known(u)
    BY DEF Found, FoundInMemory, FoundInFirestore, Known
  <2>4. Admits(c, "forgot", None, None, u, None, "mail")
    BY <2>2, <2>3 DEF Admits
  <2> QED BY <2>2, <2>4, StartEnters
<1>12. CASE OAuthCallback(c)
  <2>1. PICK x \in Identities :
        \/ \E l \in Linked(x) : Start(c, Req("oauth", None, x), links[l].user, None, "user")
        \/ /\ Linked(x) = {}
           /\ \/ Start(c, Req("oauth", None, x), c, NewUser(None, FALSE, "active"), "create")
              \/ Start(c, Req("oauth", None, x), c, None, "match")
    BY <1>12 DEF OAuthCallback
  <2>2. ASSUME NEW l \in Linked(x), Start(c, Req("oauth", None, x), links[l].user, None, "user")
        PROVE  Enters(c)
    <3>1. Admits(c, "oauth", None, x, links[l].user, None, "user")
      BY DEF Admits
    <3> QED BY <2>2, <3>1, StartEnters
  <2>3. ASSUME Linked(x) = {},
               Start(c, Req("oauth", None, x), c, NewUser(None, FALSE, "active"), "create")
        PROVE  Enters(c)
    <3>1. Admits(c, "oauth", None, x, c, NewUser(None, FALSE, "active"), "create")
      BY <2>3 DEF Admits
    <3> QED BY <2>3, <3>1, StartEnters
  <2>4. ASSUME Linked(x) = {}, Start(c, Req("oauth", None, x), c, None, "match")
        PROVE  Enters(c)
    <3>1. Admits(c, "oauth", None, x, c, None, "match")
      BY <2>4 DEF Admits
    <3> QED BY <2>4, <3>1, StartEnters
  <2> QED BY <2>1, <2>2, <2>3, <2>4
<1> QED BY <1>1, <1>2, <1>3, <1>4, <1>5, <1>6, <1>7, <1>8, <1>9, <1>10, <1>11, <1>12 DEF Begin

-----------------------------------------------------------------------------
(* What is stored belongs to a user                                         *)

\* Documents stay those of their users, and new ones are those of the request
\* that makes them.
LEMMA PairOwners ==
  ASSUME IInv, NEW a \in Calls, Step(a), NEW i \in Ids, pairs'[i] # None
  PROVE  \/ /\ pairs[i] # None
            /\ pairs'[i].user = pairs[i].user /\ pairs'[i].tv = pairs[i].tv
         \/ /\ i = a /\ pc[a] = "issue"
            /\ pairs'[a].user = who[a] /\ pairs'[a].tv = copy[a].tv
<1>1. \A p \in Pair : LET q == [p EXCEPT !.revoked = TRUE]
                      IN  q \in Pair /\ q.user = p.user /\ q.tv = p.tv /\ q # None
  BY DEF Pair
<1>2. CASE IssueTokens(a)
  BY <1>2, Guards, Tables DEF IssueTokens, IInv
<1>3. CASE SpendToken(a)
  <2>1. pairs[call[a].by] \in Pair
    BY <1>3, Guards DEF IInv, CallInv, Placed, Named
  <2>2. pairs'[i] = pairs[i] \/ (i = call[a].by /\ pairs'[i] = [pairs[i] EXCEPT !.revoked = TRUE])
    BY <1>3, Tables DEF SpendToken, IInv
  <2> QED BY <1>1, <2>1, <2>2
<1>4. CASE RevokeInMemory(a)
  <2>1. i \in ToRevoke(a) => pairs[i] \in Pair
    BY Tables DEF ToRevoke, IInv
  <2>2. pairs'[i] = IF i \in ToRevoke(a) THEN [pairs[i] EXCEPT !.revoked = TRUE] ELSE pairs[i]
    BY <1>4 DEF RevokeInMemory
  <2> QED BY <1>1, <2>1, <2>2
<1>5. CASE RevokeNext(a)
  <2>1. PICK j \in pending[a] : pairs' = [pairs EXCEPT ![j].revoked = TRUE]
    BY <1>5 DEF RevokeNext
  <2>2. pairs[j] \in Pair
    BY <1>5, Guards DEF IInv, CallInv, Named
  <2>3. pairs'[i] = pairs[i] \/ (i = j /\ pairs'[i] = [pairs[i] EXCEPT !.revoked = TRUE])
    BY <2>1, Tables DEF IInv
  <2> QED BY <1>1, <2>2, <2>3
<1>6. pairs' = pairs => pairs'[i] = pairs[i]
  OBVIOUS
<1> QED BY <1>2, <1>3, <1>4, <1>5, <1>6, Effects

LEMMA CodeOwners ==
  ASSUME IInv, NEW a \in Calls, Step(a), NEW k \in Ids, codes'[k] # None
  PROVE  \/ /\ codes[k] # None
            /\ codes'[k].user = codes[k].user /\ codes'[k].kind = codes[k].kind
         \/ /\ k = a /\ pc[a] = "mail" /\ codes'[a].user = who[a]
            /\ codes'[a].kind = "reset" => Op(a) = "forgot"
<1>1. \A p \in Code : LET q == [p EXCEPT !.used = TRUE]
                      IN  q \in Code /\ q.user = p.user /\ q.kind = p.kind
  BY DEF Code
<1>2. CASE MailCode(a)
  BY <1>2, Guards, Tables DEF MailCode, IInv
<1>3. CASE MarkUsed(a)
  <2>1. codes[call[a].by] \in Code
    BY <1>3, Guards DEF IInv, CallInv, Placed, Named
  <2>2. codes'[k] = codes[k] \/ (k = call[a].by /\ codes'[k] = [codes[k] EXCEPT !.used = TRUE])
    BY <1>3, Tables DEF MarkUsed, IInv
  <2> QED BY <1>1, <2>1, <2>2
<1>4. codes' = codes => codes'[k] = codes[k]
  OBVIOUS
<1> QED BY <1>2, <1>3, <1>4, Effects

LEMMA LinkOwners ==
  ASSUME IInv, NEW a \in Calls, Step(a), NEW l \in Ids, links'[l] # None
  PROVE  \/ links[l] = links'[l]
         \/ /\ l = a /\ pc[a] \in {"link", "add"}
            /\ links'[a].user = who[a] /\ links'[a].identity = call[a].to
<1>1. ASSUME links' = NewLink(a), pc[a] \in {"link", "add"}
      PROVE  \/ links[l] = links'[l]
             \/ /\ l = a /\ pc[a] \in {"link", "add"}
                /\ links'[a].user = who[a] /\ links'[a].identity = call[a].to
  <2>1. links'[l] = IF l = a THEN [user |-> who[a], identity |-> call[a].to] ELSE links[l]
    BY <1>1, Tables DEF NewLink, IInv
  <2> QED BY <1>1, <2>1
<1>2. CASE DropLink(a)
  BY <1>2, Tables DEF DropLink, IInv
<1>3. CASE LinkInMemory(a) \/ AddLink(a)
  <2>1. links' = NewLink(a) \/ links' = links
    BY <1>3 DEF LinkInMemory, AddLink
  <2>2. pc[a] \in {"link", "add"}
    BY <1>3, Guards
  <2> QED BY <1>1, <2>1, <2>2
<1> QED BY <1>2, <1>3, Effects

\* A request that makes a user works on it, and the user has its name.  Whom a
\* request works on, or whatever is stored belongs to, is stored as well, but
\* for a user that is being made.  A request without need of its copy has none.
RefInv ==
    /\ \A c \in Calls :
          /\ pc[c] \in {"idle", "match", "user", "spend"} \cup Ends => copy[c] = None
          /\ pc[c] \in {"match", "create", "insert"} => who[c] = c
          /\ users[c] # None => /\ pc[c] \notin {"idle", "match", "create", "insert"}
                                /\ Op(c) \in {"register", "oauth"} /\ who[c] = c
          /\ pc[c] # "idle" /\ users[who[c]] = None =>
               /\ who[c] = c /\ Op(c) \in {"register", "oauth"}
               /\ pc[c] \in {"match", "create", "insert"} \cup Refusals
    /\ \A i \in Ids : /\ pairs[i] # None => users[pairs[i].user] # None
                      /\ codes[i] # None => users[codes[i].user] # None
                      /\ links[i] # None => users[links[i].user] # None

LEMMA InitRefInv == Init => RefInv
<1> SUFFICES ASSUME Init PROVE RefInv
  OBVIOUS
<1>1. PICK s \in Starts : users = s.users /\ pairs = s.pairs /\ codes = s.codes /\ links = s.links
  BY DEF Init
<1>2. /\ \A c \in Calls : users[c] = None
      /\ \A i \in Ids : /\ pairs[i] # None => users[pairs[i].user] # None
                        /\ codes[i] # None => users[codes[i].user] # None
                        /\ links[i] # None => users[links[i].user] # None
  BY <1>1, StartsAssumption
<1> QED BY <1>2 DEF Init, RefInv

\* What a request stores is a user.
LEMMA PutsUsers ==
  ASSUME IInv, NEW c \in Calls
  PROVE  /\ pc[c] \in {"create", "insert"} => copy[c] \in User
         /\ pc[c] \in {"write", "set"} => Edited(c) \in User /\ copy[c] \in User
  <1>1. pc[c] \in {"create", "insert"} => copy[c] \in User
    BY DEF IInv, CallInv, Placed, Carries, Steps
  <1> QED BY <1>1, EditedFields

\* A step changes no user but the one that its request makes or works on.
LEMMA StepUsers ==
  ASSUME IInv, NEW a \in Calls, Step(a), NEW u \in Ids
  PROVE  /\ users[u] # None => users'[u] # None
         /\ \/ users'[u] = users[u]
            \/ Creates(a) /\ u = a /\ users'[u] = copy[a]
            \/ Edits(a) /\ u = who[a] /\ users'[u] = Edited(a)
<1>1. users \in [Ids -> User \cup {None}]
  BY Tables DEF IInv
<1>2. CASE Creates(a)
  <2>1. copy[a] # None
    BY <1>2, PutsUsers DEF Creates
  <2> QED BY <1>1, <1>2, <2>1 DEF Creates
<1>3. CASE Edits(a)
  <2>1. Edited(a) # None
    BY <1>3, PutsUsers DEF Edits
  <2> QED BY <1>1, <1>3, <2>1 DEF Edits
<1> QED BY <1>2, <1>3, StepPuts

\* Where a request of these operations comes from.
LEMMA ComesFrom ==
  ASSUME NEW op, NEW from, NEW to, Goes(op, from, to)
  PROVE  /\ to \in {"idle", "match", "check", "owner", "spend"} => FALSE
         /\ to = "create" => from = "match"
         /\ to = "insert" => from \in {"create", "insert"}
         /\ to = "user" => from = "spend"
BY DEF Goes, AfterRevoke, AfterWrite, Refusals

\* A request whose match fails works on the user that it was to make.
LEMMA RefusedStays ==
  ASSUME IInv, NEW a \in Calls, Step(a), pc[a] = "match", pc'[a] \in Refusals
  PROVE  who' = who
<1>1. MatchEmail(a) \/ Fail(a)
  BY Guards DEF Step, Skip, SkipLink
<1>2. ASSUME MatchEmail(a) PROVE FALSE
  <2>1. PICK step \in {"link", "create"} : \E d : Advance(a, step, d)
    BY <1>2 DEF MatchEmail
  <2>2. pc'[a] = step
    BY <2>1 DEF Advance, IInv, TypeOK
  <2> QED BY <2>1, <2>2 DEF Refusals
<1> QED BY <1>1, <1>2 DEF Fail, locals

LEMMA StepRefInv == ASSUME IInv, RefInv, NEW a \in Calls, Step(a) PROVE RefInv'
<1>1. Acts(a) /\ Walks(a) /\ a \in Ids
  BY StepActs, StepWalks DEF Ids
<1>2. /\ who \in [Calls -> Ids \cup {None}] /\ who[a] \in Ids
      /\ \A i \in Ids : /\ pairs[i] # None => pairs[i].user \in Ids
                        /\ codes[i] # None => codes[i].user \in Ids
                        /\ links[i] # None => links[i].user \in Ids
  BY <1>1, Tables DEF Acts, IInv, TypeOK, CallInv, Pair, Code, Link
<1>3. \A u \in Ids : users[u] # None => users'[u] # None
  BY StepUsers
<1>4. \A e \in Calls : Op(e)' = Op(e)
  BY <1>1 DEF Acts, Op
<1>5. Goes(Op(a), pc[a], pc'[a])
  BY <1>1 DEF Walks
<1>6. ASSUME NEW c \in Calls, pc'[c] \in {"idle", "match", "user", "spend"} \cup Ends
      PROVE  copy'[c] = None
  <2>1. CASE c # a
    BY <1>1, <1>6, <2>1 DEF Acts, Walks, RefInv
  <2>2. CASE c = a /\ pc'[a] \in Ends
    BY <1>1, <2>2 DEF Walks
  <2>3. CASE c = a /\ pc'[a] \notin Ends
    <3>1. pc[a] = "spend" /\ pc'[a] = "user"
      BY <1>6, <2>3, <1>5, ComesFrom
    <3> QED BY <1>1, <2>3, <3>1 DEF Walks, RefInv, Ends
  <2> QED BY <2>1, <2>2, <2>3
<1>7. ASSUME NEW c \in Calls, pc'[c] \in {"match", "create", "insert"}
      PROVE  who'[c] = c
  <2>1. CASE c # a
    BY <1>1, <1>7, <2>1 DEF Acts, RefInv
  <2>2. CASE c = a
    <3>1. pc[a] \in {"create", "insert"} \/ (pc[a] = "match" /\ pc'[a] = "create")
      BY <1>7, <2>2, <1>5, ComesFrom
    <3>2. who'[a] = who[a]
      BY <1>1, <3>1 DEF Walks
    <3> QED BY <2>2, <3>1, <3>2 DEF RefInv
  <2> QED BY <2>1, <2>2
<1>8. ASSUME NEW c \in Calls, users'[c] # None
      PROVE  /\ pc'[c] \notin {"idle", "match", "create", "insert"}
             /\ Op(c)' \in {"register", "oauth"} /\ who'[c] = c
  <2>1. c \in Ids
    BY DEF Ids
  <2>2. CASE users[c] # None
    <3>1. /\ pc[c] \notin {"idle", "match", "create", "insert"}
          /\ Op(c) \in {"register", "oauth"} /\ who[c] = c
      BY <2>2 DEF RefInv
    <3>2. who'[c] = who[c]
      BY <1>1, <3>1 DEF Acts, Walks
    <3>3. pc'[c] \notin {"idle", "match", "create", "insert"}
      BY <1>1, <3>1, <1>5, ComesFrom DEF Acts
    <3> QED BY <1>4, <3>1, <3>2, <3>3
  <2>3. CASE users[c] = None /\ Creates(a) /\ c = a
    <3>1. pc[a] \in {"create", "insert"} /\ pc'[a] \in {"mail", "link"}
      BY <2>3 DEF Creates
    <3>2. who'[a] = a /\ Op(a) \in {"register", "oauth"}
      BY <1>1, <3>1 DEF Walks, RefInv, IInv, CallInv, Placed
    <3> QED BY <1>4, <2>3, <3>1, <3>2
  <2>4. CASE users[c] = None /\ Edits(a) /\ c = who[a]
    BY <1>1, <2>4 DEF Edits, RefInv, Refusals
  <2> QED BY <1>8, <2>1, <2>2, <2>3, <2>4, StepUsers
<1>9. ASSUME NEW c \in Calls, pc'[c] # "idle", users'[who'[c]] = None
      PROVE  /\ who'[c] = c /\ Op(c)' \in {"register", "oauth"}
             /\ pc'[c] \in {"match", "create", "insert"} \cup Refusals
  <2>1. CASE c # a
    <3>1. pc[c] # "idle" /\ who'[c] = who[c] /\ pc'[c] = pc[c] /\ who[c] \in Ids
      BY <1>1, <1>9, <2>1 DEF Acts, IInv, CallInv
    <3> QED BY <1>3, <1>4, <1>9, <3>1 DEF RefInv
  <2>2. CASE c = a /\ pc[a] # "match"
    <3>1. who'[a] = who[a] /\ users[who[a]] = None /\ pc[a] # "idle"
      BY <1>1, <1>2, <1>3, <1>9, <2>2 DEF Acts, Walks
    <3>2. /\ who[a] = a /\ Op(a) \in {"register", "oauth"}
          /\ pc[a] \in {"create", "insert"}
      BY <1>1, <2>2, <3>1 DEF RefInv, Acts, Refusals, Ends
    <3>3. ~Creates(a)
      BY <1>1, <1>2, <1>9, <2>2, <3>1, <3>2, PutsUsers, Tables DEF Creates, IInv
    <3>4. pc'[a] \in {"insert"} \cup Refusals
      BY <1>1, <3>2, <3>3, StepPuts DEF Walks, Goes, Revs
    <3> QED BY <1>4, <2>2, <3>1, <3>2, <3>4
  <2>3. CASE c = a /\ pc[a] = "match"
    <3>1. who[a] = a /\ Op(a) = "oauth" /\ users[a] = None
      BY <2>3 DEF RefInv, IInv, CallInv, Placed
    <3>2. pc'[a] \in Refusals \/ pc'[a] = "create" \/ pc'[a] = "link"
      BY <1>1, <2>3 DEF Walks, Goes, Revs
    <3>3. CASE pc'[a] = "link"
      <4>1. who'[a] \in Ids /\ users[who'[a]] # None
        BY <1>1, <2>3, <3>3 DEF Walks
      <4> QED BY <1>3, <1>9, <2>3, <4>1
    <3>4. CASE pc'[a] = "create"
      BY <1>1, <1>4, <2>3, <3>1, <3>4 DEF Walks
    <3>5. CASE pc'[a] \in Refusals
      <4>1. who' = who
        BY <2>3, <3>5, RefusedStays
      <4> QED BY <1>4, <2>3, <3>1, <3>5, <4>1
    <3> QED BY <3>2, <3>3, <3>4, <3>5
  <2> QED BY <2>1, <2>2, <2>3
<1>10. ASSUME NEW i \in Ids
      PROVE  /\ pairs'[i] # None => users'[pairs'[i].user] # None
             /\ codes'[i] # None => users'[codes'[i].user] # None
             /\ links'[i] # None => users'[links'[i].user] # None
  <2>1. pc[a] \in {"issue", "mail", "link", "add"} => users[who[a]] # None
    BY DEF RefInv, Refusals
  <2>2. pairs'[i] # None => users'[pairs'[i].user] # None
    BY <1>1, <1>2, <1>3, <2>1, PairOwners DEF RefInv
  <2>3. codes'[i] # None => users'[codes'[i].user] # None
    BY <1>1, <1>2, <1>3, <2>1, CodeOwners DEF RefInv
  <2>4. links'[i] # None => users'[links'[i].user] # None
    BY <1>1, <1>2, <1>3, <2>1, LinkOwners DEF RefInv
  <2> QED BY <2>2, <2>3, <2>4
<1> QED BY <1>6, <1>7, <1>8, <1>9, <1>10 DEF RefInv

LEMMA BeginRefInv == ASSUME IInv, RefInv, NEW a \in Calls, Begin(a) PROVE RefInv'
<1>1. Begins(a) /\ Enters(a) /\ a \in Ids /\ who'[a] \in Ids
  BY BeginBegins, BeginEnters DEF Enters, Ids
<1>2. /\ \A c \in Calls \ {a} : /\ pc'[c] = pc[c] /\ who'[c] = who[c] /\ copy'[c] = copy[c]
                                /\ Op(c)' = Op(c)
      /\ UNCHANGED <<users, pairs, codes, links>>
  BY <1>1 DEF Begins, Enters, Op
<1>3. users[a] = None
  BY <1>1 DEF Begins, RefInv
<1>4. /\ pc'[a] \in {"match", "user", "spend"} => copy'[a] = None
      /\ pc'[a] \in {"match", "create", "insert"} => who'[a] = a
      /\ pc'[a] \notin Ends \cup {"idle"}
      /\ \/ users[who'[a]] # None
         \/ /\ who'[a] = a /\ Op(a)' \in {"register", "oauth"}
            /\ pc'[a] \in {"match", "create"}
  <2> DEFINE A == Admits(a, call'[a].op, call'[a].by, call'[a].to, who'[a], copy'[a], pc'[a])
  <2>1. A
    BY <1>1 DEF Enters
  <2>2. /\ \A i \in Ids : /\ pairs[i] # None => users[pairs[i].user] # None
                          /\ codes[i] # None => users[codes[i].user] # None
        /\ \A x : \A l \in Linked(x) : users[links[l].user] # None
    BY DEF RefInv, Linked
  <2>3. pc'[a] \notin Ends \cup {"idle"}
    BY <1>1 DEF Begins
  <2> QED BY <2>1, <2>2, <2>3 DEF Admits, Op, Known, First, Bearers
<1>5. ASSUME NEW c \in Calls
      PROVE  /\ pc'[c] \in {"idle", "match", "user", "spend"} \cup Ends => copy'[c] = None
             /\ pc'[c] \in {"match", "create", "insert"} => who'[c] = c
             /\ users[c] # None => /\ pc'[c] \notin {"idle", "match", "create", "insert"}
                                   /\ Op(c)' \in {"register", "oauth"} /\ who'[c] = c
             /\ pc'[c] # "idle" /\ users[who'[c]] = None =>
                  /\ who'[c] = c /\ Op(c)' \in {"register", "oauth"}
                  /\ pc'[c] \in {"match", "create", "insert"} \cup Refusals
  <2>1. CASE c = a
    BY <1>3, <1>4, <2>1
  <2>2. CASE c # a
    BY <1>2, <2>2 DEF RefInv
  <2> QED BY <2>1, <2>2
<1> QED BY <1>2, <1>5 DEF RefInv

\* What the end of a lock does to the users and the copies.
LEMMA Expires ==
  ASSUME IInv, NEW u \in Ids, Expire(u)
  PROVE  /\ UNCHANGED <<backend, index, pairs, codes, links, pc, call, who, before, pending, faults>>
         /\ \A v \in Ids : users'[v] = IF v = u THEN Unlocked(users[v]) ELSE users[v]
         /\ \A c \in Calls : copy'[c] = IF who[c] = u THEN Unlocked(copy[c]) ELSE copy[c]
         /\ Unlocked(None) = None
         /\ \A d \in User : LET e == Unlocked(d)
                            IN  /\ e \in User /\ e # None /\ d # None
                                /\ e.email = d.email /\ e.status = d.status
                                /\ e.pw = d.pw /\ e.tv = d.tv /\ e.fails = d.fails
<1>1. \A v \in Ids : users'[v] = IF v = u THEN Unlocked(users[v]) ELSE users[v]
  BY Tables DEF Expire, IInv
<1>2. \A d \in User : /\ [d EXCEPT !.locked = FALSE] \in User
                      /\ [d EXCEPT !.locked = FALSE].email = d.email
                      /\ [d EXCEPT !.locked = FALSE].status = d.status
                      /\ [d EXCEPT !.locked = FALSE].pw = d.pw
                      /\ [d EXCEPT !.locked = FALSE].tv = d.tv
                      /\ [d EXCEPT !.locked = FALSE].fails = d.fails
  BY DEF User
<1>3. /\ Unlocked(None) = None
      /\ \A d \in User : d # None /\ Unlocked(d) = [d EXCEPT !.locked = FALSE]
  BY DEF Unlocked
<1> QED BY <1>1, <1>2, <1>3 DEF Expire, locals

\* The same, for what may be stored or missing.
LEMMA ExpiresAll ==
  ASSUME IInv, NEW u \in Ids, Expire(u)
  PROVE  /\ \A v \in Ids : users'[v] = None <=> users[v] = None
         /\ \A c \in Calls : copy'[c] = None <=> copy[c] = None
         /\ \A v \in Ids : users[v] # None =>
              /\ users'[v].email = users[v].email /\ users'[v].status = users[v].status
              /\ users'[v].pw = users[v].pw /\ users'[v].tv = users[v].tv
              /\ users'[v].fails = users[v].fails
         /\ \A c \in Calls : copy[c] # None =>
              /\ copy'[c].email = copy[c].email /\ copy'[c].status = copy[c].status
              /\ copy'[c].pw = copy[c].pw /\ copy'[c].tv = copy[c].tv
<1>1. users \in [Ids -> User \cup {None}] /\ copy \in [Calls -> User \cup {None}]
  BY Tables DEF IInv, TypeOK
<1> QED BY <1>1, Expires

LEMMA ExpireRefInv == ASSUME IInv, RefInv, NEW u \in Ids, Expire(u) PROVE RefInv'
<1>1. /\ UNCHANGED <<pairs, codes, links, pc, call, who>>
      /\ \A v \in Ids : users'[v] = None <=> users[v] = None
      /\ \A c \in Calls : copy'[c] = None <=> copy[c] = None
  BY Expires, ExpiresAll
<1>2. /\ \A c \in Calls : c \in Ids /\ (pc[c] # "idle" => who[c] \in Ids)
      /\ \A i \in Ids : /\ pairs[i] # None => pairs[i].user \in Ids
                        /\ codes[i] # None => codes[i].user \in Ids
                        /\ links[i] # None => links[i].user \in Ids
  BY Tables DEF IInv, CallInv, Pair, Code, Link, Ids
<1> QED BY <1>1, <1>2 DEF RefInv, Op

LEMMA NextRefInv == IInv /\ RefInv /\ [Next]_vars => RefInv'
<1>1. UNCHANGED vars /\ RefInv => RefInv'
  BY DEF vars, stored, locals, RefInv, Op
<1> QED BY <1>1, StepRefInv, BeginRefInv, ExpireRefInv DEF Next

\* What a request makes or works on is there.
LEMMA RefInvariance == Spec => []RefInv
BY InitRefInv, NextRefInv, Invariance, PTL DEF Spec

-----------------------------------------------------------------------------
(* Requests that overlap                                                    *)

\* What every step leaves of the requests that have begun.
Keeps ==
    /\ Started \subseteq Started' /\ backend' = backend /\ (faults' = 0 => faults = 0)
    /\ \A c \in Started : /\ Op(c)' = Op(c) /\ call'[c] = call[c] /\ before'[c] = before[c]
                          /\ pc[c] \in Ends => pc'[c] = pc[c]
                          /\ users[who[c]] # None => who'[c] = who[c]
    /\ \A u \in Ids : users[u] # None => users'[u] # None

LEMMA NextKeeps == ASSUME IInv, RefInv, [Next]_vars PROVE Keeps
<1>1. faults \in Nat
  BY DEF IInv, TypeOK
<1>2. ASSUME NEW a \in Calls, Step(a) PROVE Keeps
  <2>1. Acts(a) /\ Walks(a)
    BY <1>2, StepActs, StepWalks
  <2>2. \A u \in Ids : users[u] # None => users'[u] # None
    BY <1>2, StepUsers
  <2>3. \A c \in Calls : users[who[c]] # None => who'[c] = who[c]
    BY <2>1 DEF Acts, Walks, RefInv
  <2>4. \A c \in Started : /\ pc'[c] # "idle" /\ Op(c)' = Op(c)
                           /\ call'[c] = call[c] /\ before'[c] = before[c]
                           /\ pc[c] \in Ends => pc'[c] = pc[c]
    BY <2>1, OverStays DEF Started
  <2>5. faults' = 0 => faults = 0
    BY <1>1, <2>1 DEF Acts
  <2> QED BY <2>1, <2>2, <2>3, <2>4, <2>5 DEF Keeps, Started, Acts
<1>3. ASSUME NEW a \in Calls, Begin(a) PROVE Keeps
  <2>1. Begins(a)
    BY <1>3, BeginBegins
  <2> QED BY <2>1 DEF Begins, Keeps, Started, Op
<1>4. ASSUME NEW u \in Ids, Expire(u) PROVE Keeps
  BY <1>4, Expires, ExpiresAll DEF Keeps, Started, Op
<1>5. UNCHANGED vars => Keeps
  BY DEF vars, stored, locals, Keeps, Started, Op
<1> QED BY <1>2, <1>3, <1>4, <1>5 DEF Next

LEMMA OverlapStays ==
  ASSUME Keeps, NEW c \in Started, NEW d \in Started
  PROVE  Overlap(c, d)' <=> Overlap(c, d)
BY DEF Keeps, Overlap

LEMMA WritersStay ==
  ASSUME Keeps, NEW u, users[u] # None, NEW c \in Writers(u)
  PROVE  c \in Writers(u)'
BY DEF Keeps, Writers

\* Whoever has been alone is no more when another request overlaps, and is not
\* alone again.
LEMMA AloneBefore ==
  ASSUME Keeps, NEW c \in Started, users[who[c]] # None, Alone(c)'
  PROVE  Alone(c)
<1> SUFFICES ASSUME NEW d \in Writers(who[c]), Overlap(c, d) PROVE FALSE
  BY DEF Alone
<1>1. d \in Writers(who[c])' /\ who'[c] = who[c] /\ d \in Started
  BY WritersStay DEF Keeps, Writers
<1> QED BY <1>1, OverlapStays DEF Alone

LEMMA SerialBefore ==
  ASSUME Keeps, NEW u, users[u] # None, Serial(u)'
  PROVE  Serial(u)
<1> SUFFICES ASSUME NEW c \in Writers(u) PROVE Alone(c)
  BY DEF Serial
<1>1. c \in Writers(u)' /\ c \in Started /\ who[c] = u
  BY WritersStay DEF Writers
<1> QED BY <1>1, AloneBefore DEF Serial

\* Two requests in flight overlap.
LEMMA FlightsOverlap ==
  ASSUME IInv, NEW c \in InFlight, NEW d \in InFlight, c # d
  PROVE  Overlap(c, d)
<1>1. c \notin Ended /\ d \notin Ended /\ c \in Calls /\ d \in Calls
  BY DEF InFlight, Ended
<1> QED BY <1>1 DEF IInv, CallInv, Overlap, Started, InFlight

\* A request does not overlap with one that was over when it began.
LEMMA BeganAfter ==
  ASSUME IInv, NEW c \in InFlight, NEW d \in Started, c # d, ~Overlap(c, d)
  PROVE  d \in before[c]
<1>1. c \notin Ended /\ c \in Calls /\ d \in Calls
  BY DEF InFlight, Ended, Started
<1> QED BY <1>1 DEF IInv, CallInv, Overlap, Started, InFlight

\* Whoever stores its copy is in flight, and writes its user.
LEMMA Storing ==
  ASSUME IInv, RefInv, NEW a \in Calls, Step(a), Edits(a)
  PROVE  /\ a \in InFlight /\ a \in Started /\ a \in Writers(who[a])
         /\ who[a] \in Ids /\ users[who[a]] # None /\ who' = who
<1>1. pc[a] \in {"write", "set"} /\ Op(a) \in Writing /\ who[a] \in Ids
  BY DEF Edits, IInv, CallInv, Placed
<1>2. users[who[a]] # None
  BY <1>1 DEF RefInv, Refusals
<1> QED BY <1>1, <1>2, StepWalks DEF InFlight, Started, Writers, Walks, Ends

-----------------------------------------------------------------------------
(* The copy of a request that is alone                                      *)

\* The request is yet to write its user.
Fresh(c) ==
    \/ pc[c] \in {"check", "write", "set"}
    \/ Op(c) = "oauth" /\ pc[c] \in {"link", "add"}
    \/ Op(c) = "logout" /\ pc[c] \in Revs

\* As long as no other request that writes its user is in flight, the copy that
\* a request is yet to write is what is stored.
CopyInv ==
    \A c \in Started : Fresh(c) /\ Alone(c) => copy[c] = users[who[c]]

LEMMA FreshFlies ==
  ASSUME IInv, RefInv, NEW c \in Started, Fresh(c)
  PROVE  /\ c \in Calls /\ c \in InFlight /\ c \in Writers(who[c]) /\ Op(c) \in Writing
         /\ who[c] \in Ids /\ users[who[c]] # None
<1>1. c \in Calls /\ Placed(Op(c), pc[c]) /\ who[c] \in Ids
  BY DEF Started, IInv, CallInv
<1>2. Op(c) \in Writing
  BY <1>1 DEF Fresh, Placed, Writing
<1>3. pc[c] \notin Ends \cup {"idle", "match", "create", "insert"} \cup Refusals
  BY DEF Fresh, Revs, Ends, Refusals
<1> QED BY <1>1, <1>2, <1>3 DEF InFlight, Writers, RefInv

\* How a request gets to a write.
LEMMA FreshFrom ==
  ASSUME IInv, NEW a \in Calls, Step(a), Fresh(a)'
  PROVE  \/ pc[a] \in {"user", "match"}
         \/ Op(a) = "oauth" /\ pc[a] \in {"create", "insert"} /\ pc'[a] = "link"
         \/ Fresh(a) /\ users' = users
<1>1. Goes(Op(a), pc[a], pc'[a]) /\ Placed(Op(a), pc[a]) /\ Op(a)' = Op(a)
  BY StepWalks, StepActs DEF Walks, Acts, Op, IInv, CallInv, Ends
<1>2. Op(a) = "logout" => pc[a] \notin {"create", "insert", "link", "add", "user", "match"}
  BY <1>1 DEF Placed
<1>3. \/ pc[a] \in {"user", "match"}
      \/ Op(a) = "oauth" /\ pc[a] \in {"create", "insert"} /\ pc'[a] = "link"
      \/ Fresh(a) /\ pc'[a] \notin {AfterWrite(Op(a)), "locked", "mail"}
  <2>1. CASE pc'[a] \in {"check", "write", "set"}
    BY <1>1, <2>1 DEF Goes, Fresh, AfterWrite, AfterRevoke, Refusals, Revs, Placed
  <2>2. CASE Op(a) = "oauth" /\ pc'[a] \in {"link", "add"}
    BY <1>1, <2>2 DEF Goes, Fresh, AfterWrite, AfterRevoke, Refusals, Revs, Placed
  <2>3. CASE Op(a) = "logout" /\ pc'[a] \in Revs
    BY <1>1, <1>2, <2>3 DEF Goes, Fresh, AfterWrite, AfterRevoke, Refusals, Revs, Placed
  <2> QED BY <1>1, <2>1, <2>2, <2>3 DEF Fresh
<1>4. Fresh(a) /\ pc'[a] \notin {AfterWrite(Op(a)), "locked", "mail"} => users' = users
  BY StepPuts DEF Creates, Edits, Fresh, Revs
<1> QED BY <1>3, <1>4

LEMMA StepCopyInv ==
  ASSUME IInv, RefInv, CopyInv, NEW a \in Calls, Step(a)
  PROVE  CopyInv'
<1> SUFFICES ASSUME NEW c \in Started', Fresh(c)', Alone(c)' PROVE copy'[c] = users'[who'[c]]
  BY DEF CopyInv
<1>1. Acts(a) /\ Walks(a) /\ Keeps /\ IInv' /\ RefInv'
  BY StepActs, StepWalks, NextKeeps, NextIInv, NextRefInv DEF Next
<1>2. c \in Started /\ c \in Calls /\ Op(c)' = Op(c)
  BY <1>1 DEF Acts, Started, Keeps, Op
<1>3. CASE c = a
  <2>1. pc'[a] \notin Ends
    BY <1>1, <1>3, FreshFlies DEF InFlight, Fresh, Ends, Revs
  <2>2. CASE pc[a] = "user"
    <3>1. copy'[a] = users[who[a]] /\ who' = who /\ users' = users
      BY <1>1, <2>1, <2>2, StepPuts DEF Walks, Creates, Edits
    <3> QED BY <1>3, <3>1
  <2>3. CASE pc[a] = "match"
    <3>1. users' = users /\ pc'[a] = "link"
      BY <1>1, <1>2, <1>3, <2>1, <2>3, StepPuts DEF Walks, Creates, Edits, Goes, Fresh, Revs,
         Refusals, Ends
    <3> QED BY <1>1, <1>3, <2>3, <3>1 DEF Walks
  <2>4. CASE Op(a) = "oauth" /\ pc[a] \in {"create", "insert"} /\ pc'[a] = "link"
    <3>1. Creates(a) /\ who' = who /\ who[a] = a /\ copy'[a] = copy[a]
      BY <1>1, <2>1, <2>4, StepPuts DEF Walks, RefInv
    <3> QED BY <1>3, <3>1, Tables DEF Creates, IInv, Ids
  <2>5. CASE Fresh(a) /\ users' = users
    <3>1. who'[a] = who[a] /\ users[who[a]] # None /\ copy'[a] = copy[a]
      BY <1>1, <1>2, <1>3, <2>1, <2>5, FreshFlies DEF Walks, Fresh, Revs
    <3>2. Alone(a)
      BY <1>1, <1>2, <1>3, <3>1, AloneBefore
    <3> QED BY <1>2, <1>3, <2>5, <3>1, <3>2 DEF CopyInv
  <2> QED BY <1>3, <2>2, <2>3, <2>4, <2>5, FreshFrom
<1>4. CASE c # a
  <2>1. pc'[c] = pc[c] /\ who'[c] = who[c] /\ copy'[c] = copy[c] /\ Fresh(c)
    BY <1>1, <1>2, <1>4 DEF Acts, Walks, Fresh
  <2>2. c \in InFlight /\ who[c] \in Ids /\ users[who[c]] # None
    BY <1>2, <2>1, FreshFlies
  <2>3. copy[c] = users[who[c]]
    BY <1>1, <1>2, <2>1, <2>2, AloneBefore DEF CopyInv
  <2>4. ASSUME Edits(a), who[a] = who[c] PROVE FALSE
    <3>1. a \in InFlight /\ a \in Started /\ a \in Writers(who[c])
      BY <2>4, Storing
    <3>2. Overlap(c, a)' /\ a \in Writers(who[c])'
      BY <1>1, <1>2, <1>4, <2>1, <2>2, <3>1, FlightsOverlap, OverlapStays, WritersStay
    <3> QED BY <2>1, <3>2 DEF Alone
  <2>5. ASSUME Creates(a), who[c] = a PROVE FALSE
    BY <2>2, <2>5 DEF Creates, RefInv
  <2>6. users'[who[c]] = users[who[c]]
    BY <2>2, <2>4, <2>5, StepUsers
  <2> QED BY <2>1, <2>3, <2>6
<1> QED BY <1>3, <1>4

LEMMA BeginCopyInv ==
  ASSUME IInv, RefInv, CopyInv, NEW a \in Calls, Begin(a)
  PROVE  CopyInv'
<1> SUFFICES ASSUME NEW c \in Started', Fresh(c)', Alone(c)' PROVE copy'[c] = users'[who'[c]]
  BY DEF CopyInv
<1>1. Begins(a) /\ Enters(a) /\ Keeps /\ users' = users /\ c \in Calls
  BY BeginBegins, BeginEnters, NextKeeps DEF Next, Begins, Started
<1>2. CASE c = a
  <2>1. Admits(a, Op(a)', call'[a].by, call'[a].to, who'[a], copy'[a], pc'[a])
    BY <1>1 DEF Enters, Op
  <2>2. copy'[a] = users[who'[a]]
    <3> DEFINE op == Op(a)'
               step == pc'[a]
    <3> HIDE DEF op, step
    <3>1. Admits(a, op, call'[a].by, call'[a].to, who'[a], copy'[a], step)
      BY <2>1 DEF op, step
    <3>2. \/ step \in {"check", "write", "set"} \/ (op = "logout" /\ step \in Revs)
          \/ (op = "oauth" /\ step \in {"link", "add"})
      BY <1>2 DEF op, step, Fresh
    <3> QED BY <3>1, <3>2 DEF Admits, Bearers, First, Revs
  <2> QED BY <1>1, <1>2, <2>2
<1>3. CASE c # a
  <2>1. c \in Started /\ pc'[c] = pc[c] /\ who'[c] = who[c] /\ copy'[c] = copy[c] /\ Fresh(c)
    BY <1>1, <1>3 DEF Begins, Enters, Started, Fresh, Op
  <2>2. Alone(c)
    BY <1>1, <2>1, FreshFlies, AloneBefore
  <2> QED BY <1>1, <2>1, <2>2 DEF CopyInv
<1> QED BY <1>2, <1>3

LEMMA NextCopyInv == IInv /\ RefInv /\ CopyInv /\ [Next]_vars => CopyInv'
<1>1. ASSUME IInv, RefInv, CopyInv, NEW u \in Ids, Expire(u) PROVE CopyInv'
  <2> SUFFICES ASSUME NEW c \in Started', Fresh(c)', Alone(c)'
               PROVE  copy'[c] = users'[who'[c]]
    BY DEF CopyInv
  <2>1. /\ c \in Started /\ who'[c] = who[c] /\ Fresh(c) /\ Keeps
    BY <1>1, Expires, NextKeeps DEF Started, Fresh, Op, Next
  <2>2. copy[c] = users[who[c]] /\ c \in Calls /\ who[c] \in Ids
    BY <1>1, <2>1, FreshFlies, AloneBefore DEF CopyInv
  <2> QED BY <1>1, <2>1, <2>2, Expires
<1>2. UNCHANGED vars /\ CopyInv => CopyInv'
  BY DEF vars, stored, locals, CopyInv, Started, Fresh, Alone, Writers, Overlap, Op
<1> QED BY <1>1, <1>2, StepCopyInv, BeginCopyInv DEF Next

LEMMA CopyInvariance == Spec => []CopyInv
<1>1. Init => CopyInv
  BY DEF Init, CopyInv, Started
<1> QED BY <1>1, NextCopyInv, RefInvariance, Invariance, PTL DEF Spec

-----------------------------------------------------------------------------
(* Token versions                                                           *)

\* A request that ends sessions has raised the version of its user.
Raised(op, step) ==
    /\ op \in Ending
    /\ step \in (IF op = "logout" THEN {"ok"} ELSE Revs \cup {"mark", "mail", "list", "drop", "ok"})

LEMMA RaisedFrom ==
  ASSUME IInv, NEW a \in Calls, Step(a), Raised(Op(a), pc'[a])
  PROVE  Raised(Op(a), pc[a]) \/ Edits(a)
<1>1. Goes(Op(a), pc[a], pc'[a]) /\ Placed(Op(a), pc[a])
  BY StepWalks, StepActs DEF Walks, Acts, IInv, CallInv
<1>2. Op(a) \in Ending /\ pc'[a] \notin Refusals \cup {"set", "write"}
  BY DEF Raised, Refusals, Revs
<1>3. CASE pc[a] \in {"write", "set"}
  BY <1>2, <1>3, StepPuts DEF Refusals, Ending
<1>4. CASE pc[a] \notin {"write", "set"}
  BY <1>1, <1>2, <1>4 DEF Goes, Placed, Raised, Ending, Revs, AfterRevoke
<1> QED BY <1>3, <1>4

\* As long as the requests that write a user come one after the other, no token
\* and no copy is ahead of its version, and those tokens are behind that were
\* issued before a request began that has raised it.
TvInv ==
    \A u \in Ids : users[u] # None /\ Serial(u) =>
        /\ \A i \in Ids : pairs[i] # None /\ pairs[i].user = u => pairs[i].tv <= users[u].tv
        /\ \A c \in Calls : copy[c] # None /\ who[c] = u => copy[c].tv <= users[u].tv
        /\ \A c \in Started : \A i \in before[c] :
              /\ Raised(Op(c), pc[c]) /\ who[c] = u
              /\ pairs[i] # None /\ pairs[i].user = u
              => pairs[i].tv < users[u].tv

LEMMA InitTvInv == Init => TvInv
<1> SUFFICES ASSUME Init PROVE TvInv
  OBVIOUS
<1>1. PICK s \in Starts : users = s.users /\ pairs = s.pairs
  BY DEF Init
<1>2. \A u, i \in Ids : users[u] # None /\ pairs[i] # None /\ pairs[i].user = u
                           => pairs[i].tv <= users[u].tv
  BY <1>1, SettledAssumption
<1>3. Started = {} /\ \A c \in Calls : copy[c] = None
  BY DEF Init, Started
<1> QED BY <1>2, <1>3 DEF TvInv

\* What is about a user that is being made belongs to the request that makes it.
LEMMA OwnMaking ==
  ASSUME IInv, RefInv, NEW a \in Calls, Creates(a)
  PROVE  /\ users[a] = None /\ \A i \in Ids : pairs[i] # None => pairs[i].user # a
         /\ \A i \in Ids : codes[i] # None => codes[i].user # a
         /\ \A i \in Ids : links[i] # None => links[i].user # a
         /\ \A c \in Started : who[c] = a => c = a
         /\ Op(a) \in {"register", "oauth"} /\ who[a] = a
<1>1. users[a] = None /\ Op(a) \in {"register", "oauth"} /\ who[a] = a
  BY DEF Creates, RefInv, IInv, CallInv, Placed
<1> QED BY <1>1 DEF RefInv, Started

\* The version of a user never falls when its requests are not concurrent.
LEMMA VersionRises ==
  ASSUME IInv, RefInv, CopyInv, NEW a \in Calls, Step(a), NEW u \in Ids, users[u] # None,
         Serial(u)
  PROVE  /\ users[u].tv \in Nat /\ users'[u].tv \in Nat /\ users[u].tv <= users'[u].tv
         /\ Edits(a) /\ who[a] = u /\ Op(a) \in Ending => users'[u].tv = users[u].tv + 1
<1>1. users[u] \in User /\ users[u].tv \in Nat
  BY Tables DEF IInv, User
<1>2. ASSUME Edits(a), who[a] = u
      PROVE  users'[u].tv = IF Op(a) \in Ending THEN users[u].tv + 1 ELSE users[u].tv
  <2>1. pc[a] \in {"write", "set"} /\ a \in Started /\ a \in Writers(u)
    BY <1>2, Storing DEF Edits
  <2>2. copy[a] = users[u]
    BY <1>2, <2>1 DEF Serial, CopyInv, Fresh
  <2>3. users'[u] = Edited(a)
    BY <1>2, Tables DEF Edits, IInv
  <2> QED BY <2>1, <2>2, <2>3, EditedFields
<1>3. ~Creates(a) \/ u # a
  BY OwnMaking
<1> QED BY <1>1, <1>2, <1>3, StepUsers

LEMMA StepTvInv ==
  ASSUME IInv, RefInv, CopyInv, TvInv, NEW a \in Calls, Step(a)
  PROVE  TvInv'
<1> SUFFICES ASSUME NEW u \in Ids, users'[u] # None, Serial(u)'
             PROVE  /\ \A i \in Ids : pairs'[i] # None /\ pairs'[i].user = u
                                         => pairs'[i].tv <= users'[u].tv
                    /\ \A c \in Calls : copy'[c] # None /\ who'[c] = u
                                         => copy'[c].tv <= users'[u].tv
                    /\ \A c \in Started' : \A i \in before'[c] :
                          /\ Raised(Op(c)', pc'[c]) /\ who'[c] = u
                          /\ pairs'[i] # None /\ pairs'[i].user = u
                          => pairs'[i].tv < users'[u].tv
  BY DEF TvInv
<1>1. Acts(a) /\ Walks(a) /\ Keeps /\ a \in Ids
  BY StepActs, StepWalks, NextKeeps DEF Next, Ids
<1>2. Started' = Started /\ (\A c \in Calls : Op(c)' = Op(c)) /\ before' = before
  BY <1>1, OverStays DEF Acts, Started, Op
<1>3. /\ copy \in [Calls -> User \cup {None}] /\ (\A d \in User : d.tv \in Nat)
      /\ \A c \in Calls : before[c] \subseteq Ended /\ Ended \subseteq Ids /\ a \notin Ended
  BY <1>1 DEF IInv, TypeOK, CallInv, User, Ended, Ids, Acts
<1>4. CASE users[u] = None
  <2>1. Creates(a) /\ u = a /\ users'[u] = copy[a]
    BY <1>4, StepUsers, Storing
  <2>2. ASSUME NEW i \in Ids, pairs'[i] # None PROVE pairs'[i].user # u
    <3>1. pc[a] # "issue" /\ \A j \in Ids : pairs[j] # None => pairs[j].user # a
      BY <2>1, OwnMaking DEF Creates
    <3>2. pairs[i] # None /\ pairs'[i].user = pairs[i].user
      BY <2>2, <3>1, PairOwners
    <3> QED BY <2>1, <3>1, <3>2
  <2>3. ASSUME NEW c \in Calls, copy'[c] # None \/ c \in Started, who'[c] = u PROVE c = a
    <3>1. c # a => c \in Started /\ who[c] = u
      BY <1>1, <2>3 DEF Acts, Walks, RefInv, Started
    <3> QED BY <2>1, <3>1, OwnMaking
  <2>4. copy'[a] # None => copy'[a] = copy[a] /\ copy[a].tv \in Nat
    BY <1>1, <1>3, <2>1, PutsUsers DEF Walks, Creates
  <2>5. \A c \in Calls : copy'[c] # None /\ who'[c] = u => copy'[c].tv <= users'[u].tv
    BY <2>1, <2>3, <2>4
  <2> QED BY <1>2, <1>3, <2>2, <2>5 DEF Started
<1>5. CASE users[u] # None
  <2>1. /\ \A i \in Ids : pairs[i] # None /\ pairs[i].user = u => pairs[i].tv <= users[u].tv
        /\ \A c \in Calls : copy[c] # None /\ who[c] = u => copy[c].tv <= users[u].tv
        /\ \A c \in Started : \A i \in before[c] :
              /\ Raised(Op(c), pc[c]) /\ who[c] = u
              /\ pairs[i] # None /\ pairs[i].user = u
              => pairs[i].tv < users[u].tv
        /\ Serial(u)
    BY <1>1, <1>5, SerialBefore DEF TvInv
  <2>2. /\ users[u].tv \in Nat /\ users'[u].tv \in Nat /\ users[u].tv <= users'[u].tv
        /\ Edits(a) /\ who[a] = u /\ Op(a) \in Ending => users'[u].tv = users[u].tv + 1
    BY <1>5, <2>1, VersionRises
  <2>3. /\ \A i \in Ids : pairs[i] # None => pairs[i].tv \in Nat
        /\ \A c \in Calls : copy[c] # None => copy[c].tv \in Nat
    BY <1>3, Tables DEF IInv, Pair
  <2>4. ASSUME NEW i \in Ids, pairs'[i] # None, pairs'[i].user = u
        PROVE  pairs'[i].tv <= users'[u].tv
    <3>1. CASE pairs[i] # None /\ pairs'[i].user = pairs[i].user /\ pairs'[i].tv = pairs[i].tv
      BY <2>1, <2>2, <2>3, <2>4, <3>1
    <3>2. CASE i = a /\ pc[a] = "issue" /\ pairs'[a].user = who[a] /\ pairs'[a].tv = copy[a].tv
      <4>1. copy[a] # None
        BY <3>2 DEF IInv, CallInv, Placed, Carries, Steps
      <4> QED BY <2>1, <2>2, <2>3, <2>4, <3>2, <4>1
    <3> QED BY <2>4, <3>1, <3>2, PairOwners
  <2>5. ASSUME NEW c \in Calls, copy'[c] # None, who'[c] = u
        PROVE  copy'[c].tv <= users'[u].tv
    <3>1. CASE copy'[c] = copy[c] /\ who'[c] = who[c]
      BY <2>1, <2>2, <2>3, <2>5, <3>1
    <3>2. CASE copy'[c] = users[u]
      BY <2>2, <3>2
    <3>3. CASE c = a /\ pc[a] = "match"
      <4>1. pc'[a] \in Refusals \cup {"create", "link"} /\ who[a] = a /\ users[a] = None
        BY <1>1, <3>3 DEF Walks, RefInv, Goes, Revs
      <4>2. pc'[a] = "link"
        BY <1>1, <1>5, <2>5, <3>3, <4>1 DEF Walks, Refusals, Ends
      <4> QED BY <1>1, <2>5, <3>2, <3>3, <4>2 DEF Walks
    <3>4. c # a \/ pc[a] # "match" => (copy'[c] = copy[c] /\ who'[c] = who[c]) \/ copy'[c] = users[u]
      BY <1>1, <2>5 DEF Acts, Walks
    <3> QED BY <3>1, <3>2, <3>3, <3>4
  <2>6. ASSUME NEW c \in Started, NEW i \in before[c], Raised(Op(c), pc'[c]), who'[c] = u,
               pairs'[i] # None, pairs'[i].user = u
        PROVE  pairs'[i].tv < users'[u].tv
    <3>1. /\ c \in Calls /\ i \in Ids /\ i # a
          /\ pairs[i] # None /\ pairs[i].user = u /\ pairs'[i].tv = pairs[i].tv
      BY <1>3, <2>6, PairOwners DEF Started
    <3>2. who[c] = u
      <4>1. c = a => pc[a] # "match"
        BY <2>6 DEF Raised, Ending, IInv, CallInv, Placed, Started
      <4> QED BY <1>1, <2>6, <3>1, <4>1 DEF Acts, Walks
    <3>3. CASE Raised(Op(c), pc[c])
      BY <2>1, <2>2, <2>3, <3>1, <3>2, <3>3
    <3>4. CASE ~Raised(Op(c), pc[c])
      <4>1. c = a
        BY <1>1, <2>6, <3>1, <3>4 DEF Acts
      <4>2. Edits(a) /\ Op(a) \in Ending
        BY <2>6, <3>4, <4>1, RaisedFrom DEF Raised
      <4>3. pairs[i].tv \in Nat /\ pairs[i].tv <= users[u].tv
        BY <2>1, <2>3, <3>1
      <4>4. users'[u].tv = users[u].tv + 1
        BY <2>2, <3>2, <4>1, <4>2
      <4> QED BY <2>2, <3>1, <4>3, <4>4
    <3> QED BY <3>3, <3>4
  <2> QED BY <1>2, <2>4, <2>5, <2>6 DEF Started
<1> QED BY <1>4, <1>5

LEMMA BeginTvInv ==
  ASSUME IInv, RefInv, TvInv, NEW a \in Calls, Begin(a)
  PROVE  TvInv'
<1> SUFFICES ASSUME NEW u \in Ids, users[u] # None, Serial(u)'
             PROVE  /\ \A i \in Ids : pairs[i] # None /\ pairs[i].user = u
                                         => pairs[i].tv <= users[u].tv
                    /\ \A c \in Calls : copy'[c] # None /\ who'[c] = u
                                         => copy'[c].tv <= users[u].tv
                    /\ \A c \in Started' : \A i \in before'[c] :
                          /\ Raised(Op(c)', pc'[c]) /\ who'[c] = u
                          /\ pairs[i] # None /\ pairs[i].user = u
                          => pairs[i].tv < users[u].tv
  BY BeginBegins DEF Begins, TvInv
<1>1. Begins(a) /\ Enters(a) /\ Keeps
  BY BeginBegins, BeginEnters, NextKeeps DEF Next
<1>2. /\ \A i \in Ids : pairs[i] # None /\ pairs[i].user = u => pairs[i].tv <= users[u].tv
      /\ \A c \in Calls : copy[c] # None /\ who[c] = u => copy[c].tv <= users[u].tv
      /\ \A c \in Started : \A i \in before[c] :
            /\ Raised(Op(c), pc[c]) /\ who[c] = u
            /\ pairs[i] # None /\ pairs[i].user = u
            => pairs[i].tv < users[u].tv
  BY <1>1, SerialBefore DEF TvInv
<1>3. users[u].tv \in Nat
  BY Tables DEF IInv, User
<1>4. ASSUME NEW c \in Calls, copy'[c] # None, who'[c] = u
      PROVE  copy'[c].tv <= users[u].tv
  <2>1. CASE c = a
    <3>1. users[a] = None
      BY <1>1 DEF Begins, RefInv
    <3>2. copy'[a] = users[who'[a]]
      BY <1>1, <1>4, <2>1, <3>1 DEF Enters, Admits
    <3> QED BY <1>3, <1>4, <2>1, <3>2
  <2>2. CASE c # a
    BY <1>1, <1>2, <1>4, <2>2 DEF Begins, Enters
  <2> QED BY <2>1, <2>2
<1>5. ASSUME NEW c \in Started', Raised(Op(c)', pc'[c])
      PROVE  /\ c \in Started /\ who'[c] = who[c] /\ before'[c] = before[c]
             /\ Raised(Op(c), pc[c])
  <2>1. c # a
    BY <1>1, <1>5 DEF Begins, Raised, Ends, Ending, Revs
  <2> QED BY <1>1, <1>5, <2>1 DEF Begins, Started, Op
<1> QED BY <1>2, <1>4, <1>5

LEMMA NextTvInv == IInv /\ RefInv /\ CopyInv /\ TvInv /\ [Next]_vars => TvInv'
<1>1. ASSUME IInv, RefInv, TvInv, NEW v \in Ids, Expire(v) PROVE TvInv'
  <2> SUFFICES ASSUME NEW u \in Ids, users'[u] # None, Serial(u)'
               PROVE  /\ \A i \in Ids : pairs[i] # None /\ pairs[i].user = u
                                           => pairs[i].tv <= users'[u].tv
                      /\ \A c \in Calls : copy'[c] # None /\ who[c] = u
                                           => copy'[c].tv <= users'[u].tv
                      /\ \A c \in Started : \A i \in before[c] :
                            /\ Raised(Op(c), pc[c]) /\ who[c] = u
                            /\ pairs[i] # None /\ pairs[i].user = u
                            => pairs[i].tv < users'[u].tv
    BY <1>1, Expires DEF TvInv, Started, Op
  <2>1. users[u] # None /\ users'[u].tv = users[u].tv /\ Keeps
    BY <1>1, ExpiresAll, NextKeeps DEF Next
  <2>2. Serial(u)
    BY <2>1, SerialBefore
  <2> QED BY <1>1, <2>1, <2>2, ExpiresAll DEF TvInv
<1>2. UNCHANGED vars /\ TvInv => TvInv'
  BY DEF vars, stored, locals, TvInv, Started, Serial, Alone, Writers, Overlap, Op
<1> QED BY <1>1, <1>2, StepTvInv, BeginTvInv DEF Next

\* LoadUserForAccess: an access token that was issued before a logout, a new
\* password or address, a reset or a deletion admits nobody afterwards, provided
\* that no two requests that write the user overlap.
THEOREM AccessEnds == Spec => []AccessEndsWithSession
<1>1. IInv /\ TvInv => AccessEndsWithSession
  <2> SUFFICES ASSUME IInv, TvInv, NEW c \in Started, NEW i \in before[c], Done(c, Ending),
                      Serial(who[c]), pairs[i] # None, pairs[i].user = who[c], Authentic(i)
               PROVE  FALSE
    BY DEF AccessEndsWithSession
  <2>1. Raised(Op(c), pc[c]) /\ who[c] \in Ids /\ i \in Ids
    BY DEF Done, Raised, Started, IInv, CallInv, Ended, Ids
  <2>2. users[who[c]] # None /\ users[who[c]].tv = pairs[i].tv /\ pairs[i].tv \in Nat
    BY <2>1, Tables DEF Authentic, IInv, Pair
  <2>3. pairs[i].tv < users[who[c]].tv
    BY <2>1, <2>2 DEF TvInv
  <2> QED BY <2>2, <2>3
<1> QED BY <1>1, InitTvInv, NextTvInv, CopyInvariance, RefInvariance, Invariance, PTL DEF Spec

-----------------------------------------------------------------------------
(* Deleted accounts                                                         *)

\* A deletion that no other writing request overlaps, and that has written its
\* user: the user is deleted, and whoever comes later gets to know, has no token
\* for the user, and can only present a code.
DelInv ==
    \A c \in Started : Op(c) = "delete" /\ Raised("delete", pc[c]) /\ Alone(c) =>
        /\ users[who[c]].status = "deleted"
        /\ \A d \in Calls : c \in before[d] =>
              /\ pairs[d] # None => pairs[d].user # who[c]
              /\ who[d] = who[c] /\ copy[d] # None
                   => copy[d].status = "deleted" /\ Op(d) \in {"verify", "reset"}

LEMMA DeletingUser ==
  ASSUME IInv, RefInv, NEW c \in Started, Op(c) = "delete"
  PROVE  c \in Calls /\ who[c] \in Ids /\ users[who[c]] # None /\ pc[c] # "match"
BY DEF Started, IInv, CallInv, RefInv, Placed

LEMMA StepDelInv ==
  ASSUME IInv, RefInv, CopyInv, DelInv, NEW a \in Calls, Step(a)
  PROVE  DelInv'
<1> SUFFICES ASSUME NEW c \in Started', Op(c)' = "delete", Raised("delete", pc'[c]), Alone(c)'
             PROVE  /\ users'[who'[c]].status = "deleted"
                    /\ \A d \in Calls : c \in before'[d] =>
                          /\ pairs'[d] # None => pairs'[d].user # who'[c]
                          /\ who'[d] = who'[c] /\ copy'[d] # None =>
                               copy'[d].status = "deleted" /\ Op(d)' \in {"verify", "reset"}
  BY DEF DelInv
<1> DEFINE u == who[c]
<1>1. Acts(a) /\ Walks(a) /\ Keeps /\ before' = before /\ \A d \in Calls : Op(d)' = Op(d)
  BY StepActs, StepWalks, NextKeeps DEF Next, Acts, Op
<1>2. c \in Started /\ Op(c) = "delete"
  BY <1>1, OverStays DEF Acts, Started
<1>3. c \in Calls /\ u \in Ids /\ users[u] # None /\ who'[c] = u /\ Alone(c)
  BY <1>1, <1>2, DeletingUser, AloneBefore DEF Keeps
<1>4. a \in InFlight /\ a \in Started
  BY <1>1 DEF Acts, InFlight, Started
<1>5. CASE ~Raised("delete", pc[c])
  <2>1. c = a
    BY <1>1, <1>3, <1>5 DEF Acts
  <2>2. Edits(a)
    BY <1>2, <1>5, <2>1, RaisedFrom
  <2>3. users'[u] = Edited(a) /\ pc[a] \in {"write", "set"}
    BY <1>3, <2>1, <2>2, Tables DEF Edits, IInv
  <2>4. users'[u].status = "deleted"
    BY <1>2, <2>1, <2>3, EditedFields
  <2>5. \A d \in Calls : c \notin before[d]
    BY <1>4, <2>1 DEF IInv, CallInv, InFlight, Ended
  <2> QED BY <1>1, <1>3, <2>4, <2>5
<1>6. CASE Raised("delete", pc[c])
  <2>1. /\ users[u].status = "deleted"
        /\ \A d \in Calls : c \in before[d] =>
              /\ pairs[d] # None => pairs[d].user # u
              /\ who[d] = u /\ copy[d] # None
                   => copy[d].status = "deleted" /\ Op(d) \in {"verify", "reset"}
    BY <1>2, <1>3, <1>6 DEF DelInv
  <2>2. ASSUME Edits(a), who[a] = u PROVE Edited(a).status = "deleted"
    <3>1. c # a /\ pc[a] \in {"write", "set"}
      BY <1>6, <2>2 DEF Edits, Raised, Revs
    <3>2. ~Overlap(c, a)
      BY <1>3, <2>2, Storing DEF Alone
    <3>3. c \in before[a]
      BY <1>2, <1>4, <3>1, <3>2, BeganAfter DEF Overlap
    <3>4. copy[a] # None
      BY <3>1, PutsUsers
    <3> QED BY <2>1, <2>2, <3>1, <3>3, <3>4, EditedFields
  <2>3. users'[u].status = "deleted"
    BY <1>3, <2>1, <2>2, StepUsers, OwnMaking
  <2>4. ASSUME NEW d \in Calls, c \in before[d], pairs'[d] # None PROVE pairs'[d].user # u
    <3>1. CASE pairs[d] # None /\ pairs'[d].user = pairs[d].user
      BY <2>1, <2>4, <3>1
    <3>2. CASE d = a /\ pc[a] = "issue" /\ pairs'[a].user = who[a]
      <4>1. copy[a] # None /\ Op(a) \notin {"verify", "reset"}
        BY <3>2 DEF IInv, CallInv, Placed, Carries, Steps
      <4> QED BY <2>1, <2>4, <3>2, <4>1
    <3> QED BY <2>4, <3>1, <3>2, PairOwners DEF Ids
  <2>5. ASSUME NEW d \in Calls, c \in before[d], who'[d] = u, copy'[d] # None
        PROVE  copy'[d].status = "deleted" /\ Op(d) \in {"verify", "reset"}
    <3>1. CASE copy'[d] = copy[d] /\ who'[d] = who[d]
      BY <2>1, <2>5, <3>1
    <3>2. CASE d = a /\ pc[a] = "user"
      <4>1. who'[a] = who[a] /\ FitUser(a, users[u]) /\ copy'[a] = users[u]
        BY <1>1, <2>5, <3>2 DEF Walks
      <4>2. Op(a) \in {"refresh", "verify", "reset", "oauth"}
        BY <3>2 DEF IInv, CallInv, Placed
      <4> QED BY <2>1, <3>2, <4>1, <4>2 DEF FitUser
    <3>3. CASE d = a /\ pc[a] = "match"
      <4>1. pc'[a] \in Refusals \cup {"create", "link"} /\ who[a] = a /\ users[a] = None
        BY <1>1, <3>3 DEF Walks, RefInv, Goes, Revs
      <4>2. pc'[a] = "link"
        BY <1>1, <1>3, <2>5, <3>3, <4>1 DEF Walks, Refusals, Ends
      <4> QED BY <1>1, <2>1, <2>5, <3>3, <4>2 DEF Walks
    <3>4. CASE d # a \/ pc[a] \notin {"user", "match"}
      BY <1>1, <2>5, <3>1, <3>4 DEF Acts, Walks
    <3> QED BY <3>2, <3>3, <3>4
  <2> QED BY <1>1, <1>3, <2>3, <2>4, <2>5
<1> QED BY <1>5, <1>6

LEMMA BeginDelInv ==
  ASSUME IInv, RefInv, DelInv, PairInv, NEW a \in Calls, Begin(a)
  PROVE  DelInv'
<1> SUFFICES ASSUME NEW c \in Started', Op(c)' = "delete", Raised("delete", pc'[c]), Alone(c)'
             PROVE  /\ users'[who'[c]].status = "deleted"
                    /\ \A d \in Calls : c \in before'[d] =>
                          /\ pairs'[d] # None => pairs'[d].user # who'[c]
                          /\ who'[d] = who'[c] /\ copy'[d] # None =>
                               copy'[d].status = "deleted" /\ Op(d)' \in {"verify", "reset"}
  BY DEF DelInv
<1>1. Begins(a) /\ Enters(a) /\ Keeps /\ UNCHANGED <<users, pairs>>
  BY BeginBegins, BeginEnters, NextKeeps DEF Next, Begins
<1>2. c # a
  BY <1>1 DEF Begins, Raised, Ends, Revs
<1>3. /\ c \in Started /\ Op(c) = "delete" /\ who'[c] = who[c] /\ Raised("delete", pc[c])
      /\ \A d \in Calls \ {a} : /\ before'[d] = before[d] /\ who'[d] = who[d]
                                /\ copy'[d] = copy[d] /\ Op(d)' = Op(d)
  BY <1>1, <1>2 DEF Begins, Enters, Started, Op
<1>4. Alone(c) /\ users[who[c]] # None
  BY <1>1, <1>3, DeletingUser, AloneBefore
<1>5. pairs[a] = None /\ users[a] = None
  BY <1>1 DEF Begins, PairInv, RefInv
<1>6. users[who[c]].status = "deleted"
  BY <1>3, <1>4 DEF DelInv
<1>7. ASSUME who'[a] = who[c], copy'[a] # None PROVE FALSE
  <2>1. copy'[a] = users[who'[a]] /\ copy'[a].status = "active"
    BY <1>1, <1>4, <1>5, <1>7 DEF Enters, Admits
  <2> QED BY <1>6, <1>7, <2>1
<1> QED BY <1>1, <1>3, <1>4, <1>5, <1>6, <1>7 DEF DelInv

LEMMA NextDelInv == IInv /\ RefInv /\ CopyInv /\ PairInv /\ DelInv /\ [Next]_vars => DelInv'
<1>1. ASSUME IInv, RefInv, DelInv, NEW v \in Ids, Expire(v) PROVE DelInv'
  <2> SUFFICES ASSUME NEW c \in Started, Op(c) = "delete", Raised("delete", pc[c]), Alone(c)'
               PROVE  /\ users'[who[c]].status = "deleted"
                      /\ \A d \in Calls : c \in before[d] =>
                            /\ pairs[d] # None => pairs[d].user # who[c]
                            /\ who[d] = who[c] /\ copy'[d] # None =>
                                 copy'[d].status = "deleted" /\ Op(d) \in {"verify", "reset"}
    BY <1>1, Expires DEF DelInv, Started, Op
  <2>1. Keeps /\ who[c] \in Ids /\ users[who[c]] # None
    BY <1>1, NextKeeps, DeletingUser DEF Next
  <2>2. Alone(c)
    BY <2>1, AloneBefore
  <2> QED BY <1>1, <2>1, <2>2, ExpiresAll DEF DelInv
<1>2. UNCHANGED vars /\ DelInv => DelInv'
  BY DEF vars, stored, locals, DelInv, Started, Alone, Writers, Overlap, Op
<1> QED BY <1>1, <1>2, StepDelInv, BeginDelInv DEF Next

\* DeleteAccount: when no other request that writes the user overlaps, the
\* account stays deleted, and no request that begins afterwards is given tokens
\* for it.
THEOREM DeletionLasts == Spec => []DeletedStaysDeleted
<1>1. Init => DelInv
  BY DEF Init, DelInv, Started
<1>2. IInv /\ RotateInv => PairInv
  BY DEF RotateInv
<1>3. IInv /\ DelInv => DeletedStaysDeleted
  <2> SUFFICES ASSUME IInv, DelInv, NEW c \in Started, Done(c, {"delete"}), Alone(c)
               PROVE  /\ users[who[c]].status = "deleted"
                      /\ \A i \in Calls : pairs[i] # None /\ pairs[i].user = who[c]
                                            => c \notin before[i]
    BY DEF DeletedStaysDeleted
  <2>1. Op(c) = "delete" /\ Raised("delete", pc[c])
    BY DEF Done, Raised, Ending
  <2> QED BY <2>1 DEF DelInv
<1> QED BY <1>1, <1>2, <1>3, NextDelInv, CopyInvariance, RefInvariance, RotateInvariance,
           Invariance, PTL DEF Spec

=============================================================================
