--------------------------- MODULE AuthSafetyProofs ---------------------------
(***************************************************************************)
(* Proofs of what AuthService promises about sessions, codes and links,    *)
(* for any requests in any order and for both stores.                      *)
(***************************************************************************)
EXTENDS AuthServiceProofs

USE IdsAssumption, StartsAssumption, NoneAssumption, FaultsAssumption

-----------------------------------------------------------------------------
(* What any step does                                                       *)

\* The repository call at which each action is taken.
LEMMA Guards ==
  ASSUME NEW c \in Calls
  PROVE  /\ ReadUser(c) => pc[c] = "user"
         /\ MatchEmail(c) => pc[c] = "match"
         /\ CheckEmail(c) => pc[c] = "check"
         /\ CreateUser(c) => pc[c] = "create"
         /\ UpdateUser(c) => pc[c] = "write"
         /\ SetUser(c) => pc[c] \in {"insert", "set"}
         /\ IssueTokens(c) => pc[c] = "issue"
         /\ SpendToken(c) => pc[c] = "spend"
         /\ MailCode(c) => pc[c] = "mail"
         /\ MarkUsed(c) => pc[c] = "mark"
         /\ RevokeInMemory(c) => pc[c] = "revoke"
         /\ QueryTokens(c) => pc[c] = "revoke"
         /\ RevokeNext(c) => pc[c] = "revoking"
         /\ CheckOwner(c) => pc[c] = "owner"
         /\ LinkInMemory(c) => pc[c] = "link"
         /\ QueryLink(c) => pc[c] = "link"
         /\ AddLink(c) => pc[c] = "add"
         /\ ListLinks(c) => pc[c] = "list"
         /\ DropLink(c) => pc[c] = "drop"
BY DEF ReadUser, MatchEmail, CheckEmail, CreateUser, UpdateUser, SetUser, IssueTokens,
       SpendToken, MailCode, MarkUsed, RevokeInMemory, QueryTokens, RevokeNext, CheckOwner,
       LinkInMemory, QueryLink, AddLink, ListLinks, DropLink

Revs == {"revoke", "revoking"}

\* How a request of this operation gets to `to`, in one step from `from`.
Follows(op, from, to) ==
    /\ to \in (Steps \ {"idle"}) \cup Ends
    /\ to # from =>
         /\ to # "spend"
         /\ to = "revoking" => from = "revoke"
         /\ to = "add" => from = "link"
         /\ to = "drop" => from = "list"
         /\ op = "verify" => (to = "ok" => from = "mark")
         /\ op = "reset" => (to = "ok" => from = "mark") /\ (to = "mark" => from \in Revs)
         /\ op = "logout" => /\ to = "write" => from \in Revs
                             /\ to \in {"set", "ok"} => from \in {"write", "set"}
         /\ op = "password" => (to = "ok" => from \in Revs)
         /\ op = "email" => (to = "ok" => from = "mail") /\ (to = "mail" => from \in Revs)
         /\ op = "delete" => /\ to = "ok" => from \in {"list", "drop"}
                             /\ to = "list" => from \in Revs
         /\ op = "refresh" => /\ to = "user" => from = "spend"
                              /\ to = "issue" => from = "user"
                              /\ to = "ok" => from = "issue"
                              /\ to = "reuse" => from \in Revs

\* The program goes on as Follows says.
LEMMA ProgramFollows ==
  ASSUME NEW op, NEW from \in Steps,
         NEW step \in {"create", "user", "write", "issue", "spend", "revoke", "mail", "mark",
                       "link", "drop"},
         Placed(op, step), Placed(op, from),
         \/ from = step
         \/ <<from, step>> \in {<<"insert", "create">>, <<"set", "write">>,
                                <<"revoking", "revoke">>, <<"add", "link">>, <<"list", "drop">>}
  PROVE  Follows(op, from, Program[op][step])
<1>1. CASE step \in {"create", "user"}
  BY <1>1, Programs DEF Placed, Follows, Steps, Ends
<1>2. CASE step = "write"
  BY <1>2, Programs DEF Placed, Writing, Follows, Revs, Steps, Ends
<1>3. CASE step \in {"issue", "spend"}
  BY <1>3, Programs DEF Placed, Follows, Steps, Ends
<1>4. CASE step = "revoke"
  BY <1>4, Programs DEF Placed, Ending, Follows, Revs, Steps, Ends
<1>5. CASE step \in {"mail", "mark"}
  BY <1>5, Programs DEF Placed, Follows, Steps, Ends
<1>6. CASE step \in {"link", "drop"}
  BY <1>6, Programs DEF Placed, Follows, Steps, Ends
<1> QED BY <1>1, <1>2, <1>3, <1>4, <1>5, <1>6

\* What the step of request c does to the requests.
Acts(c) ==
    /\ pc[c] \notin Ends \cup {"idle"}
    /\ call' = call /\ before' = before /\ backend' = backend
    /\ \A e \in Calls \ {c} : pc'[e] = pc[e] /\ pending'[e] = pending[e] /\ who'[e] = who[e]
    /\ Op(c) # "oauth" => who'[c] = who[c]
    /\ faults' \in Nat /\ faults <= faults'
    /\ Follows(Op(c), pc[c], pc'[c])

\* A request that moves to `step`, or stays, has acted.
LEMMA MoveActs ==
  ASSUME IInv, NEW c \in Calls, pc[c] \in Steps \ {"idle"}, NEW step, NEW d,
         Advance(c, step, d) \/ (UNCHANGED <<pc, copy>> /\ step = pc[c]),
         Follows(Op(c), pc[c], step), UNCHANGED <<backend, call, before>>,
         pending' = pending \/ \E P \in SUBSET Ids : pending' = [pending EXCEPT ![c] = P],
         who' = who \/ (Op(c) = "oauth" /\ \E u \in Ids : who' = [who EXCEPT ![c] = u]),
         faults' \in {faults, faults + 1}
  PROVE  Acts(c)
<1>1. pc[c] \notin Ends \cup {"idle"}
  BY DEF Steps, Ends
<1>2. pc'[c] = step /\ \A e \in Calls \ {c} : pc'[e] = pc[e]
  BY DEF Advance, IInv, TypeOK
<1>3. /\ \A e \in Calls \ {c} : pending'[e] = pending[e] /\ who'[e] = who[e]
      /\ Op(c) # "oauth" => who'[c] = who[c]
  BY DEF IInv, TypeOK
<1>4. faults' \in Nat /\ faults <= faults'
  BY DEF IInv, TypeOK
<1> QED BY <1>1, <1>2, <1>3, <1>4 DEF Acts

LEMMA GotoActs ==
  ASSUME IInv, NEW c \in Calls, pc[c] \in Steps \ {"idle"}, NEW step, Goto(c, step),
         Follows(Op(c), pc[c], step), UNCHANGED <<backend, call, before, who>>,
         pending' = pending \/ \E P \in SUBSET Ids : pending' = [pending EXCEPT ![c] = P],
         faults' \in {faults, faults + 1}
  PROVE  Acts(c)
BY MoveActs DEF Goto

LEMMA ProceedActs ==
  ASSUME IInv, NEW c \in Calls, NEW from \in Steps \ {"idle"}, pc[c] = from,
         NEW step \in {"create", "user", "write", "issue", "spend", "revoke", "mail", "mark",
                       "link", "drop"},
         \/ from = step
         \/ <<from, step>> \in {<<"insert", "create">>, <<"set", "write">>,
                                <<"revoking", "revoke">>, <<"add", "link">>, <<"list", "drop">>},
         Proceed(c, step), UNCHANGED <<backend, call, before, who>>,
         pending' = pending \/ \E P \in SUBSET Ids : pending' = [pending EXCEPT ![c] = P],
         faults' \in {faults, faults + 1}
  PROVE  Acts(c)
<1>1. Placed(Op(c), from) /\ Placed(Op(c), step)
  BY DEF IInv, CallInv, Placed, Steps
<1>2. Follows(Op(c), from, Program[Op(c)][step])
  BY <1>1, ProgramFollows DEF Steps
<1> QED BY <1>2, GotoActs DEF Proceed

\* Steps that end a request, or only look, follow on anything.
LEMMA OtherFollows ==
  ASSUME NEW op, NEW from
  PROVE  /\ \A to \in {"failed", "taken", "refused", "locked"} : Follows(op, from, to)
         /\ from \in Steps \ {"idle"} => Follows(op, from, from)
         /\ op = "oauth" => Follows(op, from, "link") /\ Follows(op, from, "create")
         /\ op = "email" => Follows(op, from, "write")
         /\ op # "logout" \/ from \in {"write", "set"} => Follows(op, from, "set")
         /\ Follows(op, from, "insert")
         /\ op = "link" => Follows(op, from, "link") /\ Follows(op, from, "ok")
         /\ from = "link" => Follows(op, from, "add")
         /\ from = "list" => Follows(op, from, "drop")
         /\ from = "list" /\ op \in {"unlink", "delete"} => Follows(op, from, "ok")
         /\ from = "revoke" => Follows(op, from, "revoking")
BY DEF Follows, Steps, Ends

LEMMA UserStepActs ==
  ASSUME IInv, NEW c \in Calls,
         ReadUser(c) \/ MatchEmail(c) \/ CheckEmail(c) \/ CreateUser(c) \/ UpdateUser(c) \/ SetUser(c)
  PROVE  Acts(c)
<1>1. /\ Placed(Op(c), pc[c]) /\ pc[c] \in Steps \ {"idle"}
      /\ UNCHANGED <<backend, call, before, pending, faults>>
  BY Guards DEF ReadUser, MatchEmail, CheckEmail, CreateUser, UpdateUser, SetUser, stored, locals,
                IInv, CallInv, Steps
<1>2. CASE ReadUser(c)
  <2>1. pc[c] = "user" /\ who' = who
    BY <1>2 DEF ReadUser, locals
  <2>2. CASE Advance(c, Program[Op(c)]["user"], users[who[c]])
    <3>1. Follows(Op(c), pc[c], Program[Op(c)]["user"])
      BY <1>1, <2>1, ProgramFollows
    <3> QED BY <1>1, <2>1, <2>2, <3>1, MoveActs
  <2>3. CASE Goto(c, "refused")
    BY <1>1, <2>1, <2>3, OtherFollows, GotoActs
  <2> QED BY <1>2, <2>2, <2>3 DEF ReadUser
<1>3. CASE MatchEmail(c)
  <2>1. Op(c) = "oauth"
    BY <1>3 DEF MatchEmail, IInv, CallInv, Placed
  <2>2. \A u \in Found(EmailOf[call[c].to]) : u \in Ids
    BY DEF Found, FoundInMemory, FoundInFirestore
  <2>3. PICK step \in {"link", "create"}, d \in {copy'[c]} : Advance(c, step, d)
    BY <1>3 DEF MatchEmail, Advance, IInv, TypeOK
  <2>4. who' = who \/ \E u \in Ids : who' = [who EXCEPT ![c] = u]
    BY <1>3, <2>2 DEF MatchEmail
  <2> QED BY <1>1, <2>1, <2>3, <2>4, OtherFollows, MoveActs
<1>4. CASE CheckEmail(c)
  <2>1. Op(c) = "email" /\ who' = who
    BY <1>4 DEF CheckEmail, locals, IInv, CallInv, Placed
  <2>2. PICK step \in {"write", "refused"} : Goto(c, step)
    BY <1>4 DEF CheckEmail
  <2> QED BY <1>1, <2>1, <2>2, OtherFollows, GotoActs
<1>5. CASE CreateUser(c)
  <2>1. pc[c] = "create" /\ who' = who
    BY <1>5 DEF CreateUser, locals
  <2>2. Proceed(c, "create") \/ \E step \in {"insert", "taken"} : Goto(c, step)
    BY <1>5 DEF CreateUser, StoreInMemory, Queried
  <2>3. CASE Proceed(c, "create")
    BY <1>1, <2>1, <2>3, ProceedActs
  <2>4. CASE \E step \in {"insert", "taken"} : Goto(c, step)
    BY <1>1, <2>1, <2>4, OtherFollows, GotoActs
  <2> QED BY <2>2, <2>3, <2>4
<1>6. CASE UpdateUser(c)
  <2>1. pc[c] = "write" /\ who' = who
    BY <1>6 DEF UpdateUser, locals
  <2>2. Proceed(c, "write") \/ \E step \in {"set", "taken", "locked"} : Goto(c, step)
    BY <1>6 DEF UpdateUser, StoreInMemory, Queried, Written
  <2>3. CASE Proceed(c, "write")
    BY <1>1, <2>1, <2>3, ProceedActs
  <2>4. CASE \E step \in {"set", "taken", "locked"} : Goto(c, step)
    BY <1>1, <2>1, <2>4, OtherFollows, GotoActs
  <2> QED BY <2>2, <2>3, <2>4
<1>7. CASE SetUser(c)
  <2>1. who' = who
    BY <1>7 DEF SetUser, locals
  <2>2. CASE pc[c] = "insert"
    <3>1. Proceed(c, "create")
      BY <1>7, <2>2 DEF SetUser
    <3> QED BY <1>1, <2>1, <2>2, <3>1, ProceedActs
  <2>3. CASE pc[c] = "set"
    <3>1. Proceed(c, "write") \/ Goto(c, "locked")
      BY <1>7, <2>3 DEF SetUser, Written
    <3>2. CASE Proceed(c, "write")
      BY <1>1, <2>1, <2>3, <3>2, ProceedActs
    <3>3. CASE Goto(c, "locked")
      BY <1>1, <2>1, <3>3, OtherFollows, GotoActs
    <3> QED BY <3>1, <3>2, <3>3
  <2> QED BY <1>7, <2>2, <2>3 DEF SetUser
<1> QED BY <1>2, <1>3, <1>4, <1>5, <1>6, <1>7

LEMMA TokenStepActs ==
  ASSUME IInv, NEW c \in Calls,
         \/ IssueTokens(c) \/ SpendToken(c) \/ MailCode(c) \/ MarkUsed(c)
         \/ RevokeInMemory(c) \/ QueryTokens(c) \/ RevokeNext(c)
  PROVE  Acts(c)
<1>1. /\ pc[c] \in Steps \ {"idle"} /\ UNCHANGED <<backend, call, before, who, faults>>
      /\ pending' = pending \/ \E P \in SUBSET Ids : pending' = [pending EXCEPT ![c] = P]
  <2>1. ToRevoke(c) \in SUBSET Ids /\ \A i : pending[c] \ {i} \in SUBSET Ids
    BY DEF ToRevoke, IInv, TypeOK
  <2> QED BY <2>1, Guards DEF IssueTokens, SpendToken, MailCode, MarkUsed, RevokeInMemory,
                              QueryTokens, RevokeNext, locals, Steps
<1>2. ASSUME NEW step \in {"issue", "spend", "mail", "mark", "revoke"}, pc[c] = step,
             Proceed(c, step)
      PROVE  Acts(c)
  BY <1>1, <1>2, ProceedActs
<1>3. ASSUME pc[c] = "revoking", Proceed(c, "revoke") PROVE Acts(c)
  BY <1>1, <1>3, ProceedActs
<1>4. ASSUME pc[c] = "revoke", Goto(c, "revoking") PROVE Acts(c)
  BY <1>1, <1>4, OtherFollows, GotoActs
<1>5. ASSUME pc[c] = "revoking", UNCHANGED <<pc, copy>> PROVE Acts(c)
  BY <1>1, <1>5, OtherFollows, MoveActs
<1> QED BY <1>2, <1>3, <1>4, <1>5 DEF IssueTokens, SpendToken, MailCode, MarkUsed,
                                      RevokeInMemory, QueryTokens, RevokeNext

LEMMA LinkStepActs ==
  ASSUME IInv, NEW c \in Calls,
         \/ CheckOwner(c) \/ LinkInMemory(c) \/ QueryLink(c) \/ AddLink(c)
         \/ ListLinks(c) \/ DropLink(c)
  PROVE  Acts(c)
<1>1. /\ pc[c] \in Steps \ {"idle"} /\ UNCHANGED <<backend, call, before, who, faults>>
      /\ Placed(Op(c), pc[c])
  BY Guards DEF CheckOwner, LinkInMemory, QueryLink, AddLink, ListLinks, DropLink, locals, Steps,
                IInv, CallInv
<1>2. pending' = pending \/ \E P \in SUBSET Ids : pending' = [pending EXCEPT ![c] = P]
  <2>1. LinksOf(who[c]) \in SUBSET Ids /\ \A l : pending[c] \ {l} \in SUBSET Ids
    BY DEF LinksOf, IInv, TypeOK
  <2> QED BY <2>1 DEF CheckOwner, LinkInMemory, QueryLink, AddLink, ListLinks, DropLink, stored
<1>3. CASE CheckOwner(c)
  <2>1. Op(c) = "link" /\ \E step \in {"ok", "refused", "link"} : Goto(c, step)
    BY <1>1, <1>3 DEF CheckOwner, Placed
  <2> QED BY <1>1, <1>2, <2>1, OtherFollows, GotoActs
<1>4. ASSUME pc[c] = "link" \/ pc[c] = "add", Proceed(c, "link") PROVE Acts(c)
  BY <1>1, <1>2, <1>4, ProceedActs
<1>5. ASSUME pc[c] = "link", NEW step \in {"add", "refused"}, Goto(c, step) PROVE Acts(c)
  BY <1>1, <1>2, <1>5, OtherFollows, GotoActs
<1>6. ASSUME pc[c] = "list", NEW step \in {"ok", "refused", "drop"}, Goto(c, step) PROVE Acts(c)
  <2>1. Op(c) \in {"unlink", "delete"}
    BY <1>1, <1>6 DEF Placed
  <2> QED BY <1>1, <1>2, <1>6, <2>1, OtherFollows, GotoActs
<1>7. CASE DropLink(c)
  <2>1. pc[c] = "drop" /\ (Proceed(c, "drop") \/ UNCHANGED <<pc, copy>>)
    BY <1>7 DEF DropLink
  <2>2. CASE Proceed(c, "drop")
    BY <1>1, <1>2, <2>1, <2>2, ProceedActs
  <2>3. CASE UNCHANGED <<pc, copy>>
    BY <1>1, <1>2, <2>1, <2>3, OtherFollows, MoveActs
  <2> QED BY <2>1, <2>2, <2>3
<1>8. CASE LinkInMemory(c)
  BY <1>4, <1>5, <1>8 DEF LinkInMemory
<1>9. CASE QueryLink(c) \/ AddLink(c)
  BY <1>4, <1>5, <1>9 DEF QueryLink, AddLink
<1>10. CASE ListLinks(c)
  BY <1>6, <1>10 DEF ListLinks
<1> QED BY <1>3, <1>7, <1>8, <1>9, <1>10

LEMMA FaultStepActs ==
  ASSUME IInv, NEW c \in Calls, Fail(c) \/ Skip(c) \/ SkipLink(c)
  PROVE  Acts(c)
<1>1. /\ pc[c] \in Steps \ {"idle"} /\ UNCHANGED <<backend, call, before, who>>
      /\ faults' = faults + 1
  BY DEF Fail, Skip, SkipLink, InFlight, stored, locals, IInv, TypeOK, Steps
<1>2. \E P \in SUBSET Ids : pending' = [pending EXCEPT ![c] = P]
  BY DEF Fail, Skip, SkipLink, IInv, TypeOK
<1>3. CASE Fail(c)
  BY <1>1, <1>2, <1>3, OtherFollows, GotoActs DEF Fail
<1>4. ASSUME pc[c] = "spend", Proceed(c, "spend") PROVE Acts(c)
  BY <1>1, <1>2, <1>4, ProceedActs
<1>5. ASSUME pc[c] \in Revs, Proceed(c, "revoke") PROVE Acts(c)
  BY <1>1, <1>2, <1>5, ProceedActs DEF Revs
<1>6. ASSUME pc[c] \in {"write", "set"}, Written(c) PROVE Acts(c)
  <2>1. CASE Proceed(c, "write")
    BY <1>1, <1>2, <1>6, <2>1, ProceedActs
  <2>2. CASE Goto(c, "locked")
    BY <1>1, <1>2, <2>2, OtherFollows, GotoActs
  <2> QED BY <1>6, <2>1, <2>2 DEF Written
<1>7. ASSUME pc[c] \in {"list", "drop"}, Proceed(c, "drop") PROVE Acts(c)
  BY <1>1, <1>2, <1>7, ProceedActs
<1>8. ASSUME UNCHANGED <<pc, copy>> PROVE Acts(c)
  BY <1>1, <1>2, <1>8, OtherFollows, MoveActs
<1>9. CASE Skip(c)
  BY <1>4, <1>5, <1>6, <1>7, <1>9 DEF Skip, Revs
<1>10. CASE SkipLink(c)
  BY <1>7, <1>8, <1>10 DEF SkipLink
<1> QED BY <1>3, <1>9, <1>10

LEMMA StepActs == ASSUME IInv, NEW c \in Calls, Step(c) PROVE Acts(c)
BY UserStepActs, TokenStepActs, LinkStepActs, FaultStepActs DEF Step

\* Which steps change what is stored.
LEMMA Effects ==
  ASSUME NEW c \in Calls, Step(c)
  PROVE  /\ codes' = codes \/ MailCode(c) \/ MarkUsed(c)
         /\ links' = links \/ LinkInMemory(c) \/ AddLink(c) \/ DropLink(c)
         /\ \/ pairs' = pairs \/ IssueTokens(c) \/ SpendToken(c)
            \/ RevokeInMemory(c) \/ RevokeNext(c)
<1>1. CASE \/ ReadUser(c) \/ MatchEmail(c) \/ CheckEmail(c)
           \/ CreateUser(c) \/ UpdateUser(c) \/ SetUser(c)
  BY <1>1 DEF ReadUser, MatchEmail, CheckEmail, CreateUser, UpdateUser, SetUser, stored
<1>2. CASE \/ IssueTokens(c) \/ SpendToken(c) \/ MailCode(c) \/ MarkUsed(c)
           \/ RevokeInMemory(c) \/ QueryTokens(c) \/ RevokeNext(c)
  BY <1>2 DEF IssueTokens, SpendToken, MailCode, MarkUsed, RevokeInMemory, QueryTokens,
              RevokeNext, stored
<1>3. CASE \/ CheckOwner(c) \/ LinkInMemory(c) \/ QueryLink(c) \/ AddLink(c)
           \/ ListLinks(c) \/ DropLink(c)
  BY <1>3 DEF CheckOwner, LinkInMemory, QueryLink, AddLink, ListLinks, DropLink, stored
<1>4. CASE Fail(c) \/ Skip(c) \/ SkipLink(c)
  BY <1>4 DEF Fail, Skip, SkipLink, stored
<1> QED BY <1>1, <1>2, <1>3, <1>4 DEF Step

\* Which steps a request can take from a repository call, but for failures.
LEMMA Choices ==
  ASSUME IInv, NEW c \in Calls, Step(c), faults' = 0
  PROVE  /\ pc[c] = "issue" => IssueTokens(c)
         /\ pc[c] = "spend" => SpendToken(c)
         /\ pc[c] = "mark" => MarkUsed(c)
         /\ pc[c] = "revoke" => RevokeInMemory(c) \/ QueryTokens(c)
         /\ pc[c] = "revoking" => RevokeNext(c)
         /\ pc[c] = "list" => ListLinks(c)
         /\ pc[c] = "drop" => DropLink(c)
<1>1. ~Fail(c) /\ ~Skip(c) /\ ~SkipLink(c)
  BY DEF Fail, Skip, SkipLink, IInv, TypeOK
<1> QED BY <1>1, Guards DEF Step

\* A failing repository call does not count as done.
LEMMA FailsOrMarks ==
  ASSUME IInv, NEW c \in Calls, Step(c), pc[c] = "mark"
  PROVE  pc'[c] = "failed" \/ MarkUsed(c)
<1>1. Fail(c) => pc'[c] = "failed"
  BY DEF Fail, Goto, Advance, IInv, TypeOK
<1>2. ~Skip(c) /\ ~SkipLink(c)
  BY DEF Skip, SkipLink
<1> QED BY <1>1, <1>2, Guards DEF Step

\* What the beginning of request c does.
Begins(c) ==
    /\ pc[c] = "idle" /\ before'[c] = Ended
    /\ \A e \in Calls \ {c} : /\ pc'[e] = pc[e] /\ call'[e] = call[e] /\ who'[e] = who[e]
                              /\ before'[e] = before[e]
    /\ pc'[c] \notin Ends \cup {"idle", "issue", "add", "drop", "mark", "revoking"}
    /\ UNCHANGED <<backend, users, index, pairs, codes, links, pending, faults>>
    /\ Op(c)' = "refresh" => pc'[c] \in {"revoke", "spend"}
    /\ pc'[c] = "spend" => ~pairs[call'[c].by].revoked
    /\ Op(c)' \in {"verify", "reset"} => pc'[c] = "user" /\ ~codes[call'[c].by].used
    /\ Op(c)' = "logout" => pc'[c] = "revoke"
    /\ Op(c)' = "email" => pc'[c] = "check"
    /\ Op(c)' \in {"password", "delete"} => pc'[c] = "write"

LEMMA StartBegins ==
  ASSUME IInv, NEW c \in Calls, NEW op, NEW by, NEW to, NEW u, NEW d, NEW step,
         Start(c, Req(op, by, to), u, d, step),
         step \notin Ends \cup {"idle", "issue", "add", "drop", "mark", "revoking"},
         op = "refresh" => step \in {"revoke", "spend"},
         step = "spend" => ~pairs[by].revoked,
         op \in {"verify", "reset"} => step = "user" /\ ~codes[by].used,
         op = "logout" => step = "revoke", op = "email" => step = "check",
         op \in {"password", "delete"} => step = "write"
  PROVE  Begins(c)
<1>1. /\ pc[c] = "idle" /\ pc'[c] = step /\ call'[c] = Req(op, by, to) /\ before'[c] = Ended
      /\ \A e \in Calls \ {c} : /\ pc'[e] = pc[e] /\ call'[e] = call[e] /\ who'[e] = who[e]
                                /\ before'[e] = before[e]
      /\ UNCHANGED <<backend, users, index, pairs, codes, links, pending, faults>>
  BY DEF Start, stored, IInv, TypeOK
<1>2. Op(c)' = op /\ call'[c].by = by
  BY <1>1 DEF Op, Req
<1> QED BY <1>1, <1>2 DEF Begins

LEMMA BeginBegins == ASSUME IInv, NEW c \in Calls, Begin(c) PROVE Begins(c)
<1>1. {"create", "write", "spend", "revoke", "check", "owner", "list", "user", "mail", "match"}
        \cap (Ends \cup {"idle", "issue", "add", "drop", "mark", "revoking"}) = {}
  BY DEF Ends
<1>2. ASSUME NEW op \in {"register", "login", "mistake", "forgot", "oauth"},
             NEW step \in {"create", "write", "mail", "user", "match"}, NEW to, NEW u, NEW d,
             Start(c, Req(op, None, to), u, d, step)
      PROVE  Begins(c)
  BY <1>1, <1>2, StartBegins
<1>3. CASE Refresh(c)
  <2>1. PICK i \in Held :
           Start(c, Req("refresh", i, None), pairs[i].user, None,
                 IF pairs[i].revoked THEN "revoke" ELSE "spend")
    BY <1>3 DEF Refresh
  <2>2. CASE pairs[i].revoked
    <3>1. Start(c, Req("refresh", i, None), pairs[i].user, None, "revoke")
      BY <2>1, <2>2
    <3> QED BY <1>1, <3>1, StartBegins
  <2>3. CASE ~pairs[i].revoked
    <3>1. Start(c, Req("refresh", i, None), pairs[i].user, None, "spend")
      BY <2>1, <2>3
    <3> QED BY <1>1, <2>3, <3>1, StartBegins
  <2> QED BY <2>2, <2>3
<1>4. CASE VerifyEmail(c) \/ ResetPassword(c)
  BY <1>1, <1>4, StartBegins DEF VerifyEmail, ResetPassword, ValidCode
<1>5. CASE Register(c)
  BY <1>2, <1>5 DEF Register
<1>6. CASE Login(c)
  BY <1>2, <1>6 DEF Login
<1>7. CASE ForgotPassword(c)
  BY <1>2, <1>7 DEF ForgotPassword
<1>8. CASE OAuthCallback(c)
  BY <1>2, <1>8 DEF OAuthCallback
<1>9. CASE Logout(c) \/ UpdateMe(c) \/ ChangePassword(c)
  BY <1>1, <1>9, StartBegins DEF Logout, UpdateMe, ChangePassword, Bearer
<1>10. CASE ChangeEmail(c) \/ DeleteAccount(c)
  BY <1>1, <1>10, StartBegins DEF ChangeEmail, DeleteAccount, Bearer
<1>11. CASE OAuthLink(c) \/ OAuthUnlink(c)
  BY <1>1, <1>11, StartBegins DEF OAuthLink, OAuthUnlink, Bearer
<1> QED BY <1>3, <1>4, <1>5, <1>6, <1>7, <1>8, <1>9, <1>10, <1>11 DEF Begin

\* What is over stays over, and what a request began with stays.
LEMMA OverStays ==
  ASSUME IInv, NEW c \in Calls, Acts(c) \/ Begins(c)
  PROVE  /\ Ended \subseteq Ended'
         /\ \A e \in Calls : pc[e] \in Ends => pc'[e] = pc[e]
         /\ \A e \in Calls : pc[e] # "idle" => /\ pc'[e] # "idle" /\ call'[e] = call[e]
                                               /\ before'[e] = before[e] /\ Op(e)' = Op(e)
<1>1. \A e \in Calls : pc[e] \in Ends => pc'[e] = pc[e]
  BY DEF Acts, Begins, Ends
<1>2. \A e \in Calls : pc[e] # "idle" => /\ pc'[e] # "idle" /\ call'[e] = call[e]
                                         /\ before'[e] = before[e] /\ Op(e)' = Op(e)
  BY DEF Acts, Begins, Follows, Op, Steps, Ends
<1> QED BY <1>1, <1>2 DEF Ended

-----------------------------------------------------------------------------
(* Codes                                                                    *)

Presenting == {"verify", "reset"}

\* The code of a request that is done has been used, and a request that began
\* afterwards presented another.
CodeInv ==
    /\ \A c \in Calls : Done(c, Presenting) => codes[call[c].by].used
    /\ \A c, d \in Calls :
          Done(c, Presenting) /\ pc[d] # "idle" /\ Op(d) \in Presenting /\ c \in before[d]
             => call[c].by # call[d].by

\* Codes that were there before stay, and stay used.
LEMMA OldCodes ==
  ASSUME IInv, NEW c \in Calls, Step(c), NEW k \in Ended
  PROVE  codes[k] \in Code /\ codes[k].used => codes'[k] = codes[k] \/ codes'[k].used
<1>1. CASE MailCode(c)
  <2>1. k # c
    BY <1>1 DEF MailCode, Ended, Ends
  <2> QED BY <1>1, <2>1, Tables DEF MailCode, IInv
<1>2. CASE MarkUsed(c)
  <2>1. k \in Ids /\ codes[call[c].by] \in Code
    BY <1>2 DEF MarkUsed, Ended, Ids, IInv, CallInv, Placed, Named
  <2>2. [codes[call[c].by] EXCEPT !.used = TRUE].used
    BY <2>1 DEF Code
  <2> QED BY <1>2, <2>1, <2>2, Tables DEF MarkUsed, IInv
<1> QED BY <1>1, <1>2, Effects

LEMMA NextCodeInv == IInv /\ CodeInv /\ [Next]_vars => CodeInv'
<1> SUFFICES ASSUME IInv, CodeInv, [Next]_vars PROVE CodeInv'
  OBVIOUS
<1>1. ASSUME NEW a \in Calls, Acts(a) \/ Begins(a),
             \A c \in Calls : Done(c, Presenting)' => codes'[call'[c].by].used
      PROVE  CodeInv'
  <2> SUFFICES ASSUME NEW c \in Calls, NEW d \in Calls, Done(c, Presenting)',
                      pc'[d] # "idle", Op(d)' \in Presenting, c \in before'[d]
               PROVE  call'[c].by # call'[d].by
    BY <1>1 DEF CodeInv
  <2>1. c \in Ended
    BY <1>1 DEF Acts, Begins, IInv, CallInv
  <2>2. c \notin Old /\ pc[c] \in Ends
    BY <2>1 DEF Ended
  <2>3. Done(c, Presenting) /\ call'[c] = call[c]
    BY <1>1, <2>2, OverStays DEF Done, Started, Ends
  <2>4. CASE pc[d] # "idle"
    BY <1>1, <2>3, <2>4, OverStays DEF CodeInv
  <2>5. CASE pc[d] = "idle"
    <3>1. d = a /\ Begins(a)
      BY <1>1, <2>5 DEF Acts, Begins
    <3>2. ~codes[call'[d].by].used
      BY <3>1 DEF Begins, Presenting
    <3> QED BY <2>3, <3>2 DEF CodeInv
  <2> QED BY <2>4, <2>5
<1>2. ASSUME NEW a \in Calls, Step(a) PROVE CodeInv'
  <2>1. Acts(a)
    BY <1>2, StepActs
  <2>2. ASSUME NEW c \in Calls, Done(c, Presenting)' PROVE codes'[call'[c].by].used
    <3>1. call'[c] = call[c] /\ Op(c)' = Op(c)
      BY <2>1 DEF Acts, Op
    <3>2. CASE pc[c] = "ok"
      <4>1. Done(c, Presenting) /\ call[c].by \in before[c] /\ codes[call[c].by] \in Code
        BY <2>2, <3>1, <3>2 DEF Done, Started, Presenting, IInv, CallInv, Named
      <4>2. call[c].by \in Ended /\ codes[call[c].by].used
        BY <4>1 DEF CodeInv, IInv, CallInv
      <4> QED BY <1>2, <3>1, <4>1, <4>2, OldCodes
    <3>3. CASE pc[c] # "ok"
      <4>1. c = a /\ pc[c] = "mark"
        BY <2>1, <2>2, <3>1, <3>3 DEF Acts, Done, Presenting, Follows
      <4>2. MarkUsed(c) /\ codes[call[c].by] \in Code /\ call[c].by \in Ids
        BY <1>2, <2>2, <4>1, FailsOrMarks DEF Done, IInv, CallInv, Placed, Named, TypeOK
      <4>3. [codes[call[c].by] EXCEPT !.used = TRUE].used
        BY <4>2 DEF Code
      <4> QED BY <3>1, <4>2, <4>3, Tables DEF MarkUsed, IInv
    <3> QED BY <3>2, <3>3
  <2> QED BY <1>1, <2>1, <2>2
<1>3. ASSUME NEW a \in Calls, Begin(a) PROVE CodeInv'
  <2>1. Begins(a)
    BY <1>3, BeginBegins
  <2>2. ASSUME NEW c \in Calls, Done(c, Presenting)' PROVE codes'[call'[c].by].used
    BY <2>1, <2>2 DEF Begins, Done, Started, Op, CodeInv, Ends
  <2> QED BY <1>1, <2>1, <2>2
<1>4. CASE UNCHANGED <<pc, call, before, codes>>
  BY <1>4 DEF CodeInv, Done, Started, Op
<1>5. (\E u \in Ids : Expire(u)) \/ UNCHANGED vars => UNCHANGED <<pc, call, before, codes>>
  BY DEF Expire, vars, stored, locals
<1> QED BY <1>2, <1>3, <1>4, <1>5 DEF Next

\* VerifyEmail and ResetPassword: a mailed code is good once, or for requests
\* that present it at the same time.
THEOREM CodesAreUsedOnce == Spec => []CodesWorkOnce
<1>1. Init => CodeInv
  BY DEF Init, CodeInv, Done, Started
<1>2. IInv /\ CodeInv => CodesWorkOnce
  BY DEF CodesWorkOnce, CodeInv, Overlap, Done, Started, Presenting
<1> QED BY <1>1, <1>2, NextCodeInv, Invariance, PTL DEF Spec

-----------------------------------------------------------------------------
(* Links of a deleted user                                                  *)

\* A deletion that gets to the links has those of its user to delete that were
\* there when it began.
DropInv ==
    faults = 0 =>
        \A c \in Calls : \A l \in before[c] :
            pc[c] # "idle" /\ Op(c) = "delete" /\ links[l] # None /\ links[l].user = who[c]
                => pc[c] # "ok" /\ (pc[c] = "drop" => l \in pending[c])

\* Links that were there before are deleted at most.
LEMMA OldLinks ==
  ASSUME IInv, NEW c \in Calls, Step(c), NEW l \in Ended
  PROVE  links'[l] \in {links[l], None}
<1>1. l \in Ids /\ (l = c => pc[c] \in Ends)
  BY DEF Ended, Ids
<1>2. CASE LinkInMemory(c) \/ AddLink(c)
  <2>1. l # c
    BY <1>1, <1>2, Guards DEF Ends
  <2> QED BY <1>1, <1>2, <2>1, Tables DEF LinkInMemory, AddLink, NewLink, IInv
<1>3. CASE DropLink(c)
  BY <1>1, <1>3, Tables DEF DropLink, IInv
<1> QED BY <1>2, <1>3, Effects

LEMMA StepDropInv ==
  ASSUME IInv, DropInv, NEW a \in Calls, Step(a)
  PROVE  DropInv'
<1> SUFFICES ASSUME faults' = 0, NEW c \in Calls, NEW l \in before'[c], pc'[c] # "idle",
                    Op(c)' = "delete", links'[l] # None, links'[l].user = who'[c]
             PROVE  pc'[c] # "ok" /\ (pc'[c] = "drop" => l \in pending'[c])
  BY DEF DropInv
<1>1. Acts(a) /\ faults = 0
  BY StepActs DEF Acts, IInv, TypeOK
<1>2. l \in before[c] /\ l \in Ended /\ Op(c) = "delete" /\ before[c] \subseteq Ended
  BY <1>1 DEF Acts, Op, IInv, CallInv
<1>3. links[l] # None /\ links[l] = links'[l] /\ who'[c] = who[c] /\ l \in Ids
  BY <1>1, <1>2, OldLinks DEF Acts, Ended, Ids
<1>4. CASE c # a
  BY <1>1, <1>2, <1>3, <1>4 DEF Acts, DropInv
<1>5. CASE c = a
  <2>1. /\ pc[a] # "ok"
        /\ pc'[a] = "ok" => pc[a] \in {"list", "drop"}
        /\ pc'[a] = "drop" => pc[a] \in {"list", "drop"}
    BY <1>1, <1>2, <1>5 DEF Acts, Follows, Ends
  <2>2. CASE pc[a] = "list"
    <3>1. ListLinks(a)
      BY <1>1, <2>2, Choices
    <3>2. /\ pending' = [pending EXCEPT ![a] = LinksOf(who[a])]
          /\ Goto(a, IF LinksOf(who[a]) = {} THEN "ok" ELSE "drop")
      BY <1>2, <1>5, <3>1 DEF ListLinks
    <3>3. l \in LinksOf(who[a])
      BY <1>3, <1>5 DEF LinksOf
    <3>4. pc'[a] = "drop" /\ pending'[a] = LinksOf(who[a])
      BY <3>2, <3>3 DEF Goto, Advance, IInv, TypeOK
    <3> QED BY <1>5, <3>3, <3>4
  <2>3. CASE pc[a] = "drop"
    <3>1. DropLink(a)
      BY <1>1, <2>3, Choices
    <3>2. PICK m \in pending[a] :
             /\ links' = [links EXCEPT ![m] = None]
             /\ pending' = [pending EXCEPT ![a] = @ \ {m}]
             /\ IF pending[a] = {m} THEN Proceed(a, "drop") ELSE UNCHANGED <<pc, copy>>
      BY <3>1 DEF DropLink
    <3>3. l \in pending[a]
      BY <1>1, <1>2, <1>3, <1>5, <2>3 DEF DropInv
    <3>4. l # m
      BY <1>3, <3>2, Tables DEF IInv
    <3>5. pc'[a] = "drop" /\ pending'[a] = pending[a] \ {m}
      BY <2>3, <3>2, <3>3, <3>4 DEF IInv, TypeOK
    <3> QED BY <1>5, <3>3, <3>4, <3>5
  <2> QED BY <1>5, <2>1, <2>2, <2>3
<1> QED BY <1>4, <1>5

LEMMA NextDropInv == IInv /\ DropInv /\ [Next]_vars => DropInv'
<1> SUFFICES ASSUME IInv, DropInv, [Next]_vars PROVE DropInv'
  OBVIOUS
<1>1. ASSUME NEW a \in Calls, Begin(a) PROVE DropInv'
  <2>1. Begins(a)
    BY <1>1, BeginBegins
  <2> QED BY <2>1 DEF Begins, DropInv, Op, Ends
<1>2. CASE UNCHANGED <<pc, call, who, before, pending, links, faults>>
  BY <1>2 DEF DropInv, Op
<1>3. (\E u \in Ids : Expire(u)) \/ UNCHANGED vars
        => UNCHANGED <<pc, call, who, before, pending, links, faults>>
  BY DEF Expire, vars, stored, locals
<1> QED BY <1>1, <1>2, <1>3, StepDropInv DEF Next

\* DeleteAccount: without failures, the identities that were linked to the user
\* when the deletion began are free when it is done, whatever comes in between.
THEOREM LinksAreDropped == Spec => []LinksGoWithUser
<1>1. Init => DropInv
  BY DEF Init, DropInv
<1>2. IInv /\ DropInv => LinksGoWithUser
  BY DEF LinksGoWithUser, DropInv, Done, Started
<1> QED BY <1>1, <1>2, NextDropInv, Invariance, PTL DEF Spec

-----------------------------------------------------------------------------
(* Sessions                                                                 *)

\* The pairs that request c has to revoke.
Victim(i, c) ==
    IF Op(c) = "refresh" THEN pairs[i].family = pairs[call[c].by].family
    ELSE pairs[i].user = who[c]

\* The request has got past its revocation.
After(op, step) ==
    \/ op = "logout" /\ step \in {"write", "set", "ok"}
    \/ op = "password" /\ step = "ok"
    \/ op = "email" /\ step \in {"mail", "ok"}
    \/ op = "reset" /\ step \in {"mark", "ok"}
    \/ op = "delete" /\ step \in {"list", "drop", "ok"}
    \/ op = "refresh" /\ step = "reuse"

\* Of what was there when a request began, nothing stays valid that it has to
\* revoke, but for what its query has found and it has yet to change.
RevokeInv ==
    faults = 0 =>
        \A c \in Calls : \A i \in before[c] :
            pc[c] # "idle" /\ pairs[i] # None /\ Victim(i, c) /\ ~pairs[i].revoked
                => ~After(Op(c), pc[c]) /\ (pc[c] = "revoking" => i \in pending[c])

\* Pairs that were there before stay, and stay revoked.
LEMMA OldPairs ==
  ASSUME IInv, NEW c \in Calls, Step(c), NEW i \in Ended
  PROVE  /\ pairs[i] = None <=> pairs'[i] = None
         /\ pairs[i] # None => /\ pairs'[i].user = pairs[i].user
                               /\ pairs'[i].family = pairs[i].family
                               /\ pairs[i].revoked => pairs'[i].revoked
<1>1. i \in Ids /\ (i = c => pc[c] \in Ends)
  BY DEF Ended, Ids
<1>2. \A p \in Pair : LET q == [p EXCEPT !.revoked = TRUE]
                      IN  /\ q \in Pair /\ q.user = p.user /\ q.family = p.family
                          /\ q.revoked
  BY DEF Pair
<1>3. CASE IssueTokens(c)
  <2>1. i # c
    BY <1>1, <1>3, Guards DEF Ends
  <2> QED BY <1>1, <1>3, <2>1, Tables DEF IssueTokens, IInv
<1>4. CASE pairs'[i] = pairs[i]
  BY <1>4
<1>5. CASE pairs[i] \in Pair /\ pairs'[i] = [pairs[i] EXCEPT !.revoked = TRUE]
  BY <1>2, <1>5
<1>6. CASE SpendToken(c)
  <2>1. pairs[call[c].by] \in Pair
    BY <1>6, Guards DEF IInv, CallInv, Placed, Named
  <2>2. pairs'[i] = pairs[i] \/ (i = call[c].by /\ pairs'[i] = [pairs[i] EXCEPT !.revoked = TRUE])
    BY <1>1, <1>6, Tables DEF SpendToken, IInv
  <2> QED BY <1>4, <1>5, <2>1, <2>2
<1>7. CASE RevokeInMemory(c)
  <2>1. i \in ToRevoke(c) => pairs[i] \in Pair
    BY Tables DEF ToRevoke, IInv
  <2>2. pairs'[i] = IF i \in ToRevoke(c) THEN [pairs[i] EXCEPT !.revoked = TRUE] ELSE pairs[i]
    BY <1>1, <1>7 DEF RevokeInMemory
  <2> QED BY <1>4, <1>5, <2>1, <2>2
<1>8. CASE RevokeNext(c)
  <2>1. PICK j \in pending[c] : pairs' = [pairs EXCEPT ![j].revoked = TRUE]
    BY <1>8 DEF RevokeNext
  <2>2. pairs[j] \in Pair
    BY <1>8, Guards DEF IInv, CallInv, Named
  <2>3. pairs'[i] = pairs[i] \/ (i = j /\ pairs'[i] = [pairs[i] EXCEPT !.revoked = TRUE])
    BY <1>1, <2>1, Tables DEF IInv
  <2> QED BY <1>4, <1>5, <2>2, <2>3
<1>9. pairs' = pairs => pairs'[i] = pairs[i]
  OBVIOUS
<1> QED BY <1>3, <1>4, <1>6, <1>7, <1>8, <1>9, Effects

\* A request gets past its revocation, or to it, by the revocation.
LEMMA RevokingFollows ==
  ASSUME NEW op, NEW from, NEW to, Follows(op, from, to), to # from,
         After(op, to) /\ ~After(op, from)
  PROVE  from \in Revs
BY DEF Follows, After, Revs

LEMMA StepRevokeInv ==
  ASSUME IInv, RevokeInv, NEW a \in Calls, Step(a)
  PROVE  RevokeInv'
<1> SUFFICES ASSUME faults' = 0, NEW c \in Calls, NEW i \in before'[c], pc'[c] # "idle",
                    pairs'[i] # None, Victim(i, c)', ~pairs'[i].revoked
             PROVE  ~After(Op(c)', pc'[c]) /\ (pc'[c] = "revoking" => i \in pending'[c])
  BY DEF RevokeInv
<1>1. Acts(a) /\ faults = 0
  BY StepActs DEF Acts, IInv, TypeOK
<1>2. /\ i \in before[c] /\ i \in Ended /\ i \in Ids /\ before[c] \subseteq Ended
      /\ Op(c)' = Op(c) /\ call'[c] = call[c] /\ pc[c] # "idle"
  BY <1>1 DEF Acts, Op, Ended, Ids, IInv, CallInv
<1>3. pairs[i] # None /\ ~pairs[i].revoked
  BY <1>2, OldPairs
<1>4. Victim(i, c) \/ (c = a /\ Op(c) = "oauth")
  <2>1. CASE Op(c) = "refresh"
    <3>1. call[c].by \in Ended /\ pairs[call[c].by] # None
      BY <1>2, <2>1 DEF IInv, CallInv, Named
    <3> QED BY <1>2, <1>3, <2>1, <3>1, OldPairs DEF Victim
  <2>2. CASE Op(c) # "refresh"
    <3>1. who'[c] = who[c] \/ (c = a /\ Op(c) = "oauth")
      BY <1>1 DEF Acts
    <3> QED BY <1>2, <1>3, <2>2, <3>1, OldPairs DEF Victim
  <2> QED BY <2>1, <2>2
<1>5. CASE c # a
  BY <1>1, <1>2, <1>3, <1>4, <1>5 DEF Acts, RevokeInv
<1>6. CASE c = a /\ Op(c) = "oauth"
  <2>1. ~After(Op(c), pc'[c])
    BY <1>6 DEF After
  <2>2. pc'[c] # "revoking"
    <3>1. pc[c] \notin Revs
      BY <1>2, <1>6 DEF IInv, CallInv, Placed, Ending, Revs
    <3> QED BY <1>1, <1>6, <3>1 DEF Acts, Follows, Revs
  <2> QED BY <1>2, <2>1, <2>2
<1>7. CASE c = a /\ Victim(i, a)
  <2>1. ~After(Op(a), pc[a]) /\ (pc[a] = "revoking" => i \in pending[a])
    BY <1>1, <1>2, <1>3, <1>7 DEF RevokeInv
  <2>2. CASE pc[a] \notin Revs
    BY <1>1, <1>2, <1>7, <2>1, <2>2, RevokingFollows DEF Acts, Follows, Revs
  <2>3. CASE pc[a] = "revoke"
    <3>1. i \in ToRevoke(a)
      BY <1>2, <1>3, <1>7 DEF ToRevoke, Victim
    <3>2. CASE RevokeInMemory(a)
      <4>1. pairs'[i] = [pairs[i] EXCEPT !.revoked = TRUE] /\ pairs[i] \in Pair
        BY <1>2, <1>3, <3>1, <3>2, Tables DEF RevokeInMemory, IInv
      <4>2. pairs'[i].revoked
        BY <4>1 DEF Pair
      <4> QED BY <4>2
    <3>3. CASE QueryTokens(a)
      <4>1. pc'[a] = "revoking" /\ pending'[a] = ToRevoke(a)
        BY <3>1, <3>3 DEF QueryTokens, Goto, Advance, IInv, TypeOK
      <4> QED BY <1>2, <1>7, <3>1, <4>1 DEF After
    <3> QED BY <1>1, <2>3, <3>2, <3>3, Choices
  <2>4. CASE pc[a] = "revoking"
    <3>1. RevokeNext(a)
      BY <1>1, <2>4, Choices
    <3>2. PICK j \in pending[a] :
             /\ pairs' = [pairs EXCEPT ![j].revoked = TRUE]
             /\ pending' = [pending EXCEPT ![a] = @ \ {j}]
             /\ IF pending[a] = {j} THEN Proceed(a, "revoke") ELSE UNCHANGED <<pc, copy>>
      BY <3>1 DEF RevokeNext
    <3>3. i # j
      <4>1. i = j => pairs'[i] = [pairs[i] EXCEPT !.revoked = TRUE] /\ pairs[i] \in Pair
        BY <1>2, <1>3, <3>2, Tables DEF IInv
      <4>2. i = j => pairs'[i].revoked
        BY <4>1 DEF Pair
      <4> QED BY <4>2
    <3>4. pc'[a] = "revoking" /\ pending'[a] = pending[a] \ {j}
      BY <2>1, <2>4, <3>2, <3>3 DEF IInv, TypeOK
    <3> QED BY <1>2, <1>7, <2>1, <2>4, <3>3, <3>4 DEF After
  <2> QED BY <2>2, <2>3, <2>4 DEF Revs
<1> QED BY <1>4, <1>5, <1>6, <1>7

LEMMA NextRevokeInv == IInv /\ RevokeInv /\ [Next]_vars => RevokeInv'
<1> SUFFICES ASSUME IInv, RevokeInv, [Next]_vars PROVE RevokeInv'
  OBVIOUS
<1>1. ASSUME NEW a \in Calls, Begin(a) PROVE RevokeInv'
  <2>1. Begins(a)
    BY <1>1, BeginBegins
  <2>2. ~After(Op(a)', pc'[a]) /\ pc'[a] # "revoking"
    BY <2>1 DEF Begins, After, Ends
  <2>3. \A c \in Calls \ {a} : Op(c)' = Op(c) /\ \A i : Victim(i, c)' <=> Victim(i, c)
    BY <2>1 DEF Begins, Op, Victim
  <2>4. ASSUME NEW c \in Calls, NEW i \in before'[c], faults' = 0, pc'[c] # "idle",
               pairs'[i] # None, Victim(i, c)', ~pairs'[i].revoked
        PROVE  ~After(Op(c)', pc'[c]) /\ (pc'[c] = "revoking" => i \in pending'[c])
    <3>1. CASE c = a
      BY <2>2, <3>1
    <3>2. CASE c # a
      BY <2>1, <2>3, <2>4, <3>2 DEF Begins, RevokeInv
    <3> QED BY <3>1, <3>2
  <2> QED BY <2>4 DEF RevokeInv
<1>2. CASE UNCHANGED <<pc, call, who, before, pending, pairs, faults>>
  BY <1>2 DEF RevokeInv, Victim, Op
<1>3. (\E u \in Ids : Expire(u)) \/ UNCHANGED vars
        => UNCHANGED <<pc, call, who, before, pending, pairs, faults>>
  BY DEF Expire, vars, stored, locals
<1> QED BY <1>1, <1>2, <1>3, StepRevokeInv DEF Next

LEMMA RevokeInvariance == Spec => []RevokeInv
<1>1. Init => RevokeInv
  BY DEF Init, RevokeInv
<1> QED BY <1>1, NextRevokeInv, Invariance, PTL DEF Spec

\* RevokeAllForUser: without failures, no refresh token that was issued before a
\* logout, a new password or address, a reset or a deletion is valid after it,
\* however many requests are in flight, and with the one-by-one revocation of
\* Firestore as well.
THEOREM SessionsEnd == Spec => []EndedSessionsStayEnded
<1>1. IInv /\ RevokeInv => EndedSessionsStayEnded
  BY DEF EndedSessionsStayEnded, RevokeInv, Victim, After, Done, Started, Ending
<1> QED BY <1>1, RevokeInvariance, Invariance, PTL

-----------------------------------------------------------------------------
(* Rotation                                                                 *)

Rotating == {"user", "issue", "ok"}

\* Only requests that are done have pairs.
PairInv == \A c \in Calls : pairs[c] # None => pc[c] = "ok"

\* A rotated pair is of the family of the pair that it was rotated from.
FamilyInv == \A c \in Calls : Rotated(c) => pairs[c].family = pairs[call[c].by].family

\* The token that a request rotates was revoked first, and is refused to those
\* that begin after the request is done.
SpentInv ==
    faults = 0 =>
        /\ \A c \in Calls :
              pc[c] \in Rotating /\ Op(c) = "refresh" => pairs[call[c].by].revoked
        /\ \A c, d \in Calls :
              Rotated(c) /\ Op(d) = "refresh" /\ c \in before[d] /\ call[c].by = call[d].by
                  => pc[d] \notin Rotating \cup {"spend"}

RotateInv == PairInv /\ FamilyInv /\ SpentInv

LEMMA InitRotateInv == Init => RotateInv
<1> SUFFICES ASSUME Init PROVE RotateInv
  OBVIOUS
<1>1. PICK s \in Starts : pairs = s.pairs
  BY DEF Init
<1>2. \A c \in Calls : pairs[c] = None
  BY <1>1
<1> QED BY <1>2 DEF Init, RotateInv, PairInv, FamilyInv, SpentInv, Rotated, Started, Rotating

\* The pair of a request appears when it is issued, and by no other step.
LEMMA NewPairs ==
  ASSUME IInv, PairInv, NEW a \in Calls, Step(a), NEW c \in Calls, pairs'[c] # None
  PROVE  \/ c = a /\ IssueTokens(a) /\ pc'[c] = "ok"
         \/ pairs[c] # None /\ pc[c] = "ok" /\ pc'[c] = "ok"
<1>1. Acts(a)
  BY StepActs
<1>2. CASE pairs[c] # None
  BY <1>1, <1>2 DEF PairInv, Acts, Ends
<1>3. CASE pairs[c] = None
  <2>1. c \in Ids
    BY DEF Ids
  <2>2. ~SpendToken(a)
    <3>1. SpendToken(a) => pairs[call[a].by] # None
      BY Guards DEF IInv, CallInv, Placed, Named
    <3> QED BY <1>3, <2>1, <3>1, Tables DEF SpendToken, IInv
  <2>3. ~RevokeInMemory(a)
    BY <1>3, <2>1 DEF RevokeInMemory, ToRevoke
  <2>4. ~RevokeNext(a)
    <3>1. RevokeNext(a) => \A j \in pending[a] : pairs[j] # None
      BY Guards DEF IInv, CallInv, Named
    <3> QED BY <1>3, <2>1, <3>1, Tables DEF RevokeNext, IInv
  <2>5. IssueTokens(a)
    BY <1>3, <2>2, <2>3, <2>4, Effects
  <2>6. c = a
    BY <1>3, <2>1, <2>5, Tables DEF IssueTokens, IInv
  <2>7. Program[Op(a)]["issue"] = "ok"
    BY <2>5, Programs, Guards DEF IInv, CallInv, Placed
  <2>8. pc'[a] = "ok"
    BY <2>5, <2>7 DEF IssueTokens, Proceed, Goto, Advance, IInv, TypeOK
  <2> QED BY <2>5, <2>6, <2>8
<1> QED BY <1>2, <1>3

\* The pair that a refresh presents is there and was issued before.
LEMMA Presented ==
  ASSUME IInv, NEW c \in Calls, pc[c] # "idle", Op(c) = "refresh"
  PROVE  call[c].by \in before[c] /\ call[c].by \in Ended /\ pairs[call[c].by] \in Pair
BY DEF IInv, CallInv, Named

LEMMA StepPairInv ==
  ASSUME IInv, PairInv, FamilyInv, NEW a \in Calls, Step(a)
  PROVE  PairInv' /\ FamilyInv'
<1>1. Acts(a)
  BY StepActs
<1>2. PairInv'
  BY NewPairs DEF PairInv
<1>3. FamilyInv'
  <2> SUFFICES ASSUME NEW c \in Calls, Rotated(c)'
               PROVE  pairs'[c].family = pairs'[call'[c].by].family
    BY DEF FamilyInv
  <2>1. call'[c] = call[c] /\ pairs'[c] # None /\ Op(c) = "refresh"
    BY <1>1 DEF Acts, Rotated, Op
  <2>2. CASE pairs[c] # None /\ pc[c] = "ok"
    <3>1. Rotated(c) /\ c \in Ended
      BY <2>1, <2>2 DEF Rotated, Started, Ended, Ends
    <3>2. call[c].by \in Ended /\ pairs[call[c].by] # None
      BY <2>1, <2>2, Presented
    <3>3. pairs[c].family = pairs[call[c].by].family
      BY <3>1 DEF FamilyInv
    <3>4. pairs'[c].family = pairs[c].family
      BY <2>2, <3>1, OldPairs
    <3>5. pairs'[call[c].by].family = pairs[call[c].by].family
      BY <3>2, OldPairs
    <3> QED BY <2>1, <3>3, <3>4, <3>5
  <2>3. CASE c = a /\ IssueTokens(a)
    <3>1. pc[a] = "issue"
      BY <2>3, Guards
    <3>2. call[a].by \in Ended /\ call[a].by \in Ids /\ pairs[call[a].by] # None /\ call[a].by # a
      BY <2>1, <2>3, <3>1, Presented DEF Ended, Ids, Ends
    <3>3. pairs'[a].family = pairs[call[a].by].family /\ pairs'[call[a].by] = pairs[call[a].by]
      BY <2>1, <2>3, <3>2, Tables DEF IssueTokens, FamilyOf, IInv, Ids
    <3> QED BY <2>1, <2>3, <3>3
  <2> QED BY <2>1, <2>2, <2>3, NewPairs
<1> QED BY <1>2, <1>3

LEMMA StepSpentInv ==
  ASSUME IInv, PairInv, SpentInv, NEW a \in Calls, Step(a)
  PROVE  SpentInv'
<1> SUFFICES ASSUME faults' = 0 PROVE SpentInv'
  BY DEF SpentInv
<1>1. Acts(a) /\ faults = 0
  BY StepActs DEF Acts, IInv, TypeOK
<1>2. ASSUME NEW c \in Calls, pc'[c] \in Rotating, Op(c)' = "refresh"
      PROVE  pairs'[call'[c].by].revoked
  <2>1. call'[c] = call[c] /\ Op(c) = "refresh" /\ pc[c] # "idle"
    BY <1>1, <1>2 DEF Acts, Op, Rotating
  <2>2. call[c].by \in Ended /\ call[c].by \in Ids /\ pairs[call[c].by] \in Pair
    BY <2>1, Presented DEF Ended, Ids
  <2>3. CASE pc[c] \in Rotating
    <3>1. pairs[call[c].by].revoked
      BY <1>1, <2>1, <2>3 DEF SpentInv
    <3> QED BY <2>1, <2>2, <3>1, OldPairs
  <2>4. CASE pc[c] \notin Rotating
    <3>1. c = a /\ pc[a] = "spend"
      BY <1>1, <1>2, <2>1, <2>4 DEF Acts, Follows, Rotating
    <3>2. pairs' = [pairs EXCEPT ![call[a].by].revoked = TRUE]
      BY <1>1, <3>1, Choices DEF SpendToken
    <3>3. pairs'[call[a].by] = [pairs[call[a].by] EXCEPT !.revoked = TRUE]
      BY <2>2, <3>1, <3>2, Tables DEF IInv
    <3>4. pairs'[call[a].by].revoked
      BY <2>2, <3>1, <3>3 DEF Pair
    <3> QED BY <2>1, <3>1, <3>4
  <2> QED BY <2>3, <2>4
<1>3. ASSUME NEW c \in Calls, NEW d \in Calls, Rotated(c)', Op(d)' = "refresh",
             c \in before'[d], call'[c].by = call'[d].by
      PROVE  pc'[d] \notin Rotating \cup {"spend"}
  <2>1. c \in Ended /\ c \notin Old
    BY <1>1, <1>3 DEF Acts, IInv, CallInv
  <2>2. pc[c] \in Ends /\ c # a
    BY <1>1, <2>1 DEF Acts, Ended
  <2>3. pairs[c] # None
    BY <1>3, <2>2, NewPairs DEF Rotated
  <2>4. Rotated(c)
    BY <1>1, <1>3, <2>2, <2>3 DEF Acts, Rotated, Started, Op, Ends
  <2>5. pc[d] \notin Rotating \cup {"spend"}
    BY <1>1, <1>3, <2>4 DEF Acts, Op, SpentInv
  <2>6. CASE d # a
    BY <1>1, <2>5, <2>6 DEF Acts
  <2>7. CASE d = a
    BY <1>1, <1>3, <2>5, <2>7 DEF Acts, Op, Follows, Rotating
  <2> QED BY <2>6, <2>7
<1> QED BY <1>2, <1>3 DEF SpentInv

LEMMA BeginRotateInv ==
  ASSUME IInv, RotateInv, NEW a \in Calls, Begin(a)
  PROVE  RotateInv'
<1>1. Begins(a)
  BY BeginBegins
<1>2. PairInv' /\ (\A c \in Calls : Rotated(c)' => Rotated(c) /\ c # a /\ call'[c] = call[c])
  BY <1>1 DEF Begins, RotateInv, PairInv, Rotated, Started, Op
<1>3. FamilyInv'
  BY <1>1, <1>2 DEF Begins, RotateInv, FamilyInv
<1>4. SpentInv'
  <2> SUFFICES ASSUME faults' = 0 PROVE SpentInv'
    BY DEF SpentInv
  <2>1. \A c \in Calls : pc'[c] \in Rotating /\ Op(c)' = "refresh" => pairs'[call'[c].by].revoked
    BY <1>1 DEF Begins, RotateInv, SpentInv, Rotating, Op
  <2>2. ASSUME NEW c \in Calls, NEW d \in Calls, Rotated(c)', Op(d)' = "refresh",
               c \in before'[d], call'[c].by = call'[d].by
        PROVE  pc'[d] \notin Rotating \cup {"spend"}
    <3>1. CASE d # a
      BY <1>1, <1>2, <2>2, <3>1 DEF Begins, RotateInv, SpentInv, Op
    <3>2. CASE d = a
      <4>1. Op(c) = "refresh" /\ pc[c] = "ok" /\ call'[a].by = call[c].by
        BY <1>2, <2>2, <3>2 DEF RotateInv, PairInv, Rotated
      <4>2. pairs[call[c].by].revoked
        BY <1>1, <4>1 DEF Begins, RotateInv, SpentInv, Rotating
      <4>3. pc'[a] = "revoke"
        BY <1>1, <2>2, <3>2, <4>1, <4>2 DEF Begins
      <4> QED BY <3>2, <4>3 DEF Rotating
    <3> QED BY <3>1, <3>2
  <2> QED BY <2>1, <2>2 DEF SpentInv
<1> QED BY <1>2, <1>3, <1>4 DEF RotateInv

LEMMA NextRotateInv == IInv /\ RotateInv /\ [Next]_vars => RotateInv'
<1> SUFFICES ASSUME IInv, RotateInv, [Next]_vars PROVE RotateInv'
  OBVIOUS
<1>1. CASE UNCHANGED <<pc, call, before, pairs, faults>>
  BY <1>1 DEF RotateInv, PairInv, FamilyInv, SpentInv, Rotated, Started, Op
<1>2. (\E u \in Ids : Expire(u)) \/ UNCHANGED vars => UNCHANGED <<pc, call, before, pairs, faults>>
  BY DEF Expire, vars, stored, locals
<1> QED BY <1>1, <1>2, BeginRotateInv, StepPairInv, StepSpentInv DEF Next, RotateInv

LEMMA RotateInvariance == Spec => []RotateInv
BY InitRotateInv, NextRotateInv, Invariance, PTL DEF Spec

\* Refresh: without failures, a refresh token that has been rotated is refused
\* to every request that begins afterwards.
THEOREM TokensAreSingleUse == Spec => []RefreshIsSingleUse
<1>1. IInv /\ RotateInv => RefreshIsSingleUse
  <2> SUFFICES ASSUME IInv, RotateInv, NEW c \in Calls, NEW d \in Calls,
                      Rotated(c), Rotated(d), c # d, call[c].by = call[d].by, ~(faults > 0)
               PROVE  Overlap(c, d)
    BY DEF RefreshIsSingleUse
  <2>1. faults = 0
    BY DEF IInv, TypeOK
  <2>2. pc[c] = "ok" /\ pc[d] = "ok" /\ Op(c) = "refresh" /\ Op(d) = "refresh"
    BY DEF RotateInv, PairInv, Rotated
  <2>3. c \notin before[d] /\ d \notin before[c]
    BY <2>1, <2>2 DEF RotateInv, SpentInv, Rotating
  <2> QED BY <2>2, <2>3 DEF Overlap, Started
<1> QED BY <1>1, RotateInvariance, Invariance, PTL

\* RevokeFamily: without failures, once a reuse is answered none of the tokens
\* of the family that were issued before it is valid.
THEOREM ReuseIsAnswered == Spec => []ReuseEndsFamily
<1>1. IInv /\ RevokeInv /\ RotateInv => ReuseEndsFamily
  <2> SUFFICES ASSUME IInv, RevokeInv, RotateInv, NEW c \in Started, NEW i \in before[c],
                      pc[c] = "reuse", faults = 0, pairs[i] # None, Kin(i, call[c].by)
               PROVE  pairs[i].revoked
    BY DEF ReuseEndsFamily
  <2>1. Op(c) = "refresh"
    BY DEF Started, IInv, CallInv, Placed
  <2>2. pairs[i].family = pairs[call[c].by].family
    BY DEF Kin, RotateInv, FamilyInv
  <2> QED BY <2>1, <2>2 DEF RevokeInv, Victim, After, Started
<1> QED BY <1>1, RevokeInvariance, RotateInvariance, Invariance, PTL

-----------------------------------------------------------------------------
(* Identities                                                               *)

\* Whoever has linked an identity that a request is about to link is in flight
\* with that request.
AddInv ==
    \A c \in Calls : pc[c] = "add" =>
        /\ backend = "firestore"
        /\ \A l \in Ids \ {c} : links[l] # None /\ links[l].identity = call[c].to
                                 => l \in Calls /\ l \notin before[c]

LinkInv ==
    /\ \A l \in Calls : links[l] # None => pc[l] # "idle"
    /\ OneUserPerIdentity
    /\ AddInv

LEMMA InitLinkInv == Init => LinkInv
<1> SUFFICES ASSUME Init PROVE LinkInv
  OBVIOUS
<1>1. PICK s \in Starts : links = s.links
  BY DEF Init
<1>2. /\ \A l \in Calls : links[l] = None
      /\ \A l, m \in Ids : l # m /\ links[l] # None /\ links[m] # None
                              => links[l].identity # links[m].identity
  BY <1>1
<1> QED BY <1>2 DEF Init, LinkInv, OneUserPerIdentity, AddInv

\* What a step makes of the links: nothing, one less, or one more of a request
\* that was to add it.
LEMMA LinkEffects ==
  ASSUME IInv, NEW a \in Calls, Step(a), NEW l \in Ids
  PROVE  \/ links'[l] = links[l] \/ links'[l] = None
         \/ /\ l = a /\ links'[a].identity = call[a].to
            /\ \/ pc[a] = "add"
               \/ pc[a] = "link" /\ Linked(call[a].to) = {}
<1>1. CASE LinkInMemory(a)
  <2>1. CASE links' = NewLink(a) /\ Linkable(a)
    <3>1. links'[l] = IF l = a THEN [user |-> who[a], identity |-> call[a].to] ELSE links[l]
      BY <2>1, Tables DEF NewLink, IInv
    <3> QED BY <1>1, <2>1, <3>1, Guards DEF Linkable
  <2> QED BY <1>1, <2>1 DEF LinkInMemory
<1>2. CASE AddLink(a)
  <2>1. links'[l] = IF l = a THEN [user |-> who[a], identity |-> call[a].to] ELSE links[l]
    BY <1>2, Tables DEF AddLink, NewLink, IInv
  <2> QED BY <1>2, <2>1, Guards
<1>3. CASE DropLink(a)
  BY <1>3, Tables DEF DropLink, IInv
<1> QED BY <1>1, <1>2, <1>3, Effects

\* A request gets to add a link by the query that finds none.
LEMMA AddFollows ==
  ASSUME IInv, NEW a \in Calls, Step(a), pc'[a] = "add", pc[a] # "add"
  PROVE  backend = "firestore" /\ Linked(call[a].to) = {} /\ links' = links
<1>1. pc[a] = "link"
  BY StepActs DEF Acts, Follows
<1>2. ~LinkInMemory(a)
  <2>1. Placed(Op(a), "link")
    BY <1>1 DEF IInv, CallInv
  <2>2. Program[Op(a)]["link"] # "add"
    BY <2>1, Programs DEF Placed
  <2> QED BY <2>2 DEF LinkInMemory, Proceed, Goto, Advance, IInv, TypeOK
<1>3. ~Fail(a) /\ ~Skip(a) /\ ~SkipLink(a)
  BY <1>1 DEF Fail, Skip, SkipLink, Goto, Advance, IInv, TypeOK
<1>4. QueryLink(a)
  BY <1>1, <1>2, <1>3, Guards DEF Step
<1> QED BY <1>4 DEF QueryLink, stored, Linkable, Goto, Advance, IInv, TypeOK

LEMMA StepLinkInv ==
  ASSUME IInv, LinkInv, NEW a \in Calls, Step(a)
  PROVE  LinkInv'
<1>1. Acts(a) /\ a \notin Ended /\ a \in Ids
  BY StepActs DEF Acts, Ended, Ids
<1>2. \A c \in Calls : a \notin before[c]
  BY <1>1 DEF IInv, CallInv
<1>3. \A l \in Calls : links'[l] # None => pc'[l] # "idle"
  <2> SUFFICES ASSUME NEW l \in Calls, links'[l] # None PROVE pc'[l] # "idle"
    OBVIOUS
  <2>1. l \in Ids /\ pc[a] # "idle"
    BY <1>1 DEF Acts, Ids
  <2>2. pc[l] # "idle"
    BY <2>1, LinkEffects DEF LinkInv
  <2> QED BY <1>1, <2>2, OverStays
<1>4. ASSUME NEW m \in Ids \ {a}, links[m] # None, links[m].identity = call[a].to,
             pc[a] = "add" \/ (pc[a] = "link" /\ Linked(call[a].to) = {})
      PROVE  backend = "firestore" /\ m \in Calls /\ Overlap(a, m)'
  <2>1. pc[a] = "add"
    BY <1>4 DEF Linked
  <2>2. backend = "firestore" /\ m \in Calls /\ m \notin before[a] /\ pc[m] # "idle"
    BY <1>4, <2>1 DEF LinkInv, AddInv
  <2> QED BY <1>1, <1>2, <2>2, OverStays DEF Acts, Overlap, Started
<1>5. OneUserPerIdentity'
  <2> SUFFICES ASSUME NEW l \in Ids, NEW m \in Ids, l # m, links'[l] # None, links'[m] # None,
                      links'[l].identity = links'[m].identity
               PROVE  backend' = "firestore" /\ {l, m} \subseteq Calls /\ Overlap(l, m)'
    BY DEF OneUserPerIdentity
  <2>1. CASE links'[l] = links[l] /\ links'[m] = links[m]
    <3>1. backend = "firestore" /\ {l, m} \subseteq Calls /\ Overlap(l, m)
      BY <2>1 DEF LinkInv, OneUserPerIdentity
    <3> QED BY <1>1, <3>1, OverStays DEF Acts, Overlap, Started
  <2>2. CASE links'[l] # links[l]
    <3>1. l = a /\ links'[l].identity = call[a].to /\ links'[m] = links[m]
      BY <2>2, LinkEffects
    <3>2. pc[a] = "add" \/ (pc[a] = "link" /\ Linked(call[a].to) = {})
      BY <2>2, <3>1, LinkEffects
    <3> QED BY <1>1, <1>4, <3>1, <3>2 DEF Acts
  <2>3. CASE links'[m] # links[m]
    <3>1. m = a /\ links'[m].identity = call[a].to /\ links'[l] = links[l]
      BY <2>3, LinkEffects
    <3>2. pc[a] = "add" \/ (pc[a] = "link" /\ Linked(call[a].to) = {})
      BY <2>3, <3>1, LinkEffects
    <3>3. backend = "firestore" /\ l \in Calls /\ Overlap(a, l)'
      BY <1>4, <3>1, <3>2
    <3> QED BY <1>1, <3>1, <3>3 DEF Acts, Overlap
  <2> QED BY <2>1, <2>2, <2>3
<1>6. AddInv'
  <2> SUFFICES ASSUME NEW c \in Calls, pc'[c] = "add"
               PROVE  /\ backend' = "firestore"
                      /\ \A l \in Ids \ {c} : links'[l] # None /\ links'[l].identity = call'[c].to
                                              => l \in Calls /\ l \notin before'[c]
    BY DEF AddInv
  <2>1. CASE pc[c] = "add"
    <3>1. backend = "firestore"
      BY <2>1 DEF LinkInv, AddInv
    <3>2. ASSUME NEW l \in Ids \ {c}, links'[l] # None, links'[l].identity = call[c].to
          PROVE  l \in Calls /\ l \notin before[c]
      <4>1. CASE links'[l] = links[l]
        BY <2>1, <3>2, <4>1 DEF LinkInv, AddInv
      <4>2. CASE links'[l] # links[l]
        BY <1>2, <3>2, <4>2, LinkEffects
      <4> QED BY <4>1, <4>2
    <3> QED BY <1>1, <3>1, <3>2 DEF Acts
  <2>2. CASE pc[c] # "add"
    <3>1. c = a
      BY <1>1, <2>2 DEF Acts
    <3> QED BY <1>1, <2>2, <3>1, AddFollows DEF Acts, Linked
  <2> QED BY <2>1, <2>2
<1> QED BY <1>3, <1>5, <1>6 DEF LinkInv

LEMMA NextLinkInv == IInv /\ LinkInv /\ [Next]_vars => LinkInv'
<1> SUFFICES ASSUME IInv, LinkInv, [Next]_vars PROVE LinkInv'
  OBVIOUS
<1>1. ASSUME NEW a \in Calls, Begin(a) PROVE LinkInv'
  <2>1. Begins(a)
    BY <1>1, BeginBegins
  <2>2. \A l, m \in Calls : Overlap(l, m) => Overlap(l, m)'
    BY <2>1, OverStays DEF Overlap, Started
  <2>3. OneUserPerIdentity'
    BY <2>1, <2>2 DEF Begins, LinkInv, OneUserPerIdentity
  <2>4. AddInv'
    BY <2>1 DEF Begins, LinkInv, AddInv
  <2> QED BY <2>1, <2>3, <2>4 DEF Begins, LinkInv
<1>2. CASE UNCHANGED <<backend, pc, call, before, links>>
  BY <1>2 DEF LinkInv, OneUserPerIdentity, AddInv, Overlap, Started
<1>3. (\E u \in Ids : Expire(u)) \/ UNCHANGED vars
        => UNCHANGED <<backend, pc, call, before, links>>
  BY DEF Expire, vars, stored, locals
<1> QED BY <1>1, <1>2, <1>3, StepLinkInv DEF Next

\* CreateLink: the memory store never links an identity twice, and Firestore only
\* for requests that are in flight together.
THEOREM IdentitiesAreLinkedOnce == Spec => []OneUserPerIdentity
<1>1. LinkInv => OneUserPerIdentity
  BY DEF LinkInv
<1> QED BY <1>1, InitLinkInv, NextLinkInv, Invariance, PTL DEF Spec

=============================================================================
