-------------------------- MODULE AuthAccountProofs --------------------------
(***************************************************************************)
(* Proofs of what AuthService promises about accounts: users are found by  *)
(* their addresses, an address has one user, wrong passwords lock the      *)
(* account, and who is active can sign in.                                 *)
(***************************************************************************)
EXTENDS AuthUserProofs

USE IdsAssumption, NoneAssumption, LockAssumption, FaultsAssumption

-----------------------------------------------------------------------------
(* Addresses and the index                                                  *)

\* Request a stores d, or tries to, as the user u.
Puts(a, u, d) ==
    \/ pc[a] \in {"create", "insert"} /\ u = a /\ d = copy[a]
    \/ pc[a] \in {"write", "set"} /\ u = who[a] /\ d = Edited(a)

\* The index when d is stored as u.
Indexed(u, d) == [e \in Emails |-> IF e = d.email THEN u
                                  ELSE IF e = AddressOf(u) THEN None ELSE index[e]]

LEMMA Addresses ==
  ASSUME IInv, NEW u \in Ids
  PROVE  /\ AddressOf(u) \in Emails \cup {None}
         /\ users[u] # None => users[u] \in User /\ AddressOf(u) = users[u].email
         /\ users[u] = None => AddressOf(u) = None
BY AddressType, Tables DEF AddressOf, IInv

\* The address of a user after a step.
LEMMA NewAddresses ==
  ASSUME IInv, NEW u \in Ids, NEW d \in User, users' = [users EXCEPT ![u] = d]
  PROVE  \A v \in Ids : AddressOf(v)' = IF v = u THEN d.email ELSE AddressOf(v)
BY Tables DEF AddressOf, IInv

LEMMA FreedAt ==
  ASSUME IInv, NEW u \in Ids, NEW d, NEW e \in Emails
  PROVE  Freed(u, d)[e] = IF e = AddressOf(u) /\ e # d.email THEN None ELSE index[e]
BY DEF Freed, IInv, TypeOK

LEMMA IndexedAt ==
  ASSUME IInv, NEW u \in Ids, NEW d \in User
  PROVE  Indexed(u, d) = IF d.email = None THEN Freed(u, d)
                         ELSE [Freed(u, d) EXCEPT ![d.email] = u]
<1>1. index \in [Emails -> Ids \cup {None}] /\ d.email \in Emails \cup {None}
  BY DEF IInv, TypeOK, User
<1>2. Freed(u, d) \in [Emails -> Ids \cup {None}]
  BY <1>1, FreedType DEF IInv
<1>3. \A e \in Emails : Freed(u, d)[e] = IF e = AddressOf(u) /\ e # d.email THEN None ELSE index[e]
  BY FreedAt
<1>4. CASE d.email = None
  <2>1. \A e \in Emails : Indexed(u, d)[e] = Freed(u, d)[e]
    BY <1>3, <1>4 DEF Indexed
  <2> QED BY <1>2, <1>4, <2>1 DEF Indexed
<1>5. CASE d.email # None
  <2> DEFINE F == [Freed(u, d) EXCEPT ![d.email] = u]
  <2>1. \A e \in Emails : Indexed(u, d)[e] = F[e]
    BY <1>1, <1>2, <1>3, <1>5 DEF Indexed
  <2>2. F = [e \in Emails |-> F[e]]
    BY <1>2
  <2> QED BY <1>5, <2>1, <2>2 DEF Indexed
<1> QED BY <1>4, <1>5

\* The memory store never gets to a second call of a write.
PlaceInv == \A c \in Calls : pc[c] \in {"insert", "set"} => backend # "memory"

\* What the memory store makes of the users and the index.
LEMMA MemoryPuts ==
  ASSUME IInv, PlaceInv, NEW a \in Calls, Step(a), backend = "memory"
  PROVE  /\ pc'[a] \notin {"insert", "set"}
         /\ \/ users' = users /\ index' = index
            \/ \E u \in Ids, d \in User :
                 /\ Puts(a, u, d) /\ pc[a] \in {"create", "write"}
                 /\ \/ /\ ~Clash(u, d) /\ users' = [users EXCEPT ![u] = d]
                       /\ index' = Indexed(u, d) /\ (Creates(a) \/ Edits(a))
                    \/ /\ Clash(u, d) /\ users' = users /\ index' = Freed(u, d)
                       /\ pc'[a] = "taken" \/ Op(a) = "mistake"
<1>1. Goes(Op(a), pc[a], pc'[a]) /\ a \in Ids
  BY StepWalks DEF Walks, Ids
<1>2. CASE CreateUser(a)
  <2>1. pc[a] = "create" /\ copy[a] \in User
    BY <1>2, Guards, PutsUsers
  <2>2. PICK step \in {"mail", "link", "taken"} : Goto(a, step) /\
          (\/ ~Clash(a, copy[a]) /\ users' = [users EXCEPT ![a] = copy[a]]
              /\ index' = Indexed(a, copy[a]) /\ step # "taken"
           \/ Clash(a, copy[a]) /\ users' = users /\ index' = Freed(a, copy[a]) /\ step = "taken")
    BY <1>1, <1>2, <2>1, StoredNext, IndexedAt DEF CreateUser, StoreInMemory, Proceed
  <2>3. pc'[a] = step
    BY <2>2, GoesTo
  <2>4. Puts(a, a, copy[a])
    BY <2>1 DEF Puts
  <2> QED BY <1>1, <2>1, <2>2, <2>3, <2>4 DEF Creates
<1>3. CASE UpdateUser(a)
  <2>1. pc[a] = "write" /\ Edited(a) \in User /\ who[a] \in Ids
    BY <1>3, Guards, PutsUsers DEF IInv, CallInv
  <2>2. \/ /\ ~Clash(who[a], Edited(a)) /\ users' = [users EXCEPT ![who[a]] = Edited(a)]
           /\ index' = Indexed(who[a], Edited(a)) /\ Written(a)
        \/ /\ Clash(who[a], Edited(a)) /\ users' = users /\ index' = Freed(who[a], Edited(a))
           /\ Goto(a, "taken") \/ (Op(a) = "mistake" /\ Written(a))
    BY <1>3, <2>1, IndexedAt DEF UpdateUser, StoreInMemory
  <2>3. pc'[a] \in {AfterWrite(Op(a)), "locked", "taken"} /\ (Goto(a, "taken") => pc'[a] = "taken")
    BY <2>1, <2>2, GoesTo, WrittenTo
  <2>4. Written(a) => pc'[a] \in {AfterWrite(Op(a)), "locked"}
    BY <2>1, WrittenTo
  <2>5. Puts(a, who[a], Edited(a))
    BY <2>1 DEF Puts
  <2>6. pc'[a] \notin {"insert", "set"}
    BY <2>3 DEF AfterWrite
  <2> QED BY <2>1, <2>2, <2>3, <2>4, <2>5, <2>6 DEF Edits
<1>4. ~SetUser(a) /\ ~Fail(a) /\ ~Skip(a) /\ ~SkipLink(a)
  BY DEF SetUser, Fail, Skip, SkipLink, PlaceInv
<1>5. CASE ~CreateUser(a) /\ ~UpdateUser(a)
  <2>1. users' = users /\ index' = index
    BY <1>4, <1>5, OthersPut
  <2>2. pc[a] \notin {"create", "write", "insert", "set"}
    BY <1>4, <1>5, Guards DEF Step, PlaceInv
  <2>3. pc'[a] \notin {"insert", "set"}
    BY <1>1, <2>2 DEF Goes, AfterWrite, AfterRevoke, Refusals
  <2> QED BY <2>1, <2>3
<1> QED BY <1>2, <1>3, <1>5

LEMMA NextPlaceInv == IInv /\ RefInv /\ PlaceInv /\ [Next]_vars => PlaceInv'
<1>1. ASSUME IInv, PlaceInv, NEW a \in Calls, Step(a) PROVE PlaceInv'
  <2>1. Acts(a)
    BY <1>1, StepActs
  <2>2. backend = "memory" => pc'[a] \notin {"insert", "set"}
    BY <1>1, MemoryPuts
  <2> QED BY <1>1, <2>1, <2>2 DEF Acts, PlaceInv
<1>2. ASSUME IInv, PlaceInv, NEW a \in Calls, Begin(a) PROVE PlaceInv'
  <2>1. Begins(a) /\ Enters(a)
    BY <1>2, BeginBegins, BeginEnters
  <2>2. pc'[a] \notin {"insert", "set"}
    BY <2>1 DEF Enters, Admits, First
  <2> QED BY <1>2, <2>1, <2>2 DEF Begins, PlaceInv
<1>3. ASSUME IInv, PlaceInv, NEW u \in Ids, Expire(u) PROVE PlaceInv'
  BY <1>3, Expires DEF PlaceInv
<1>4. UNCHANGED vars /\ PlaceInv => PlaceInv'
  BY DEF vars, PlaceInv
<1> QED BY <1>1, <1>2, <1>3, <1>4 DEF Next

\* As long as no write was refused, the index of the memory store has everyone.
IndexInv ==
    backend = "memory" /\ ~Unindexed =>
        \A u \in Ids : AddressOf(u) # None => index[AddressOf(u)] = u

LEMMA InitIndexInv == Init => IndexInv
<1> SUFFICES ASSUME Init, backend = "memory", NEW u \in Ids, AddressOf(u) # None
             PROVE  index[AddressOf(u)] = u
  BY DEF IndexInv
<1>1. IInv
  BY InitIInv
<1>2. PICK s \in Starts : users = s.users
  BY DEF Init
<1>3. users[u] # None /\ users[u].email = AddressOf(u) /\ AddressOf(u) \in Emails
  BY <1>1, Addresses
<1>4. \A v \in Ids : users[v] # None /\ users[v].email = AddressOf(u) => v = u
  BY <1>2, <1>3, SettledAssumption
<1>5. (CHOOSE v \in Ids : users[v] # None /\ users[v].email = AddressOf(u)) = u
  BY <1>3, <1>4
<1>6. index[AddressOf(u)] =
        IF backend = "memory" /\ \E v \in Ids : users[v] # None /\ users[v].email = AddressOf(u)
        THEN CHOOSE v \in Ids : users[v] # None /\ users[v].email = AddressOf(u) ELSE None
  BY <1>3 DEF Init
<1> QED BY <1>3, <1>5, <1>6

\* Once a write was refused, it was.
LEMMA UnindexedStays ==
  ASSUME IInv, RefInv, Keeps, Unindexed
  PROVE  Unindexed'
<1>1. PICK c \in Started : pc[c] = "taken" \/ (Op(c) = "mistake" /\ ~Alone(c))
  BY DEF Unindexed
<1>2. backend' = "memory" /\ c \in Started'
  BY DEF Unindexed, Keeps
<1>3. CASE pc[c] = "taken"
  BY <1>2, <1>3 DEF Unindexed, Keeps, Ends
<1>4. CASE Op(c) = "mistake" /\ ~Alone(c)
  <2>1. users[who[c]] # None
    BY <1>4 DEF RefInv, Started
  <2>2. ~Alone(c)' /\ Op(c)' = "mistake"
    BY <1>1, <1>4, <2>1, AloneBefore DEF Keeps
  <2> QED BY <1>2, <2>2 DEF Unindexed
<1> QED BY <1>1, <1>3, <1>4

\* Two users that the index has do not have the same address.
LEMMA IndexedOnce ==
  ASSUME IInv, NEW u \in Ids, NEW v \in Ids, AddressOf(v) # None,
         index[AddressOf(v)] = v, u # v
  PROVE  /\ AddressOf(u) # None /\ index[AddressOf(u)] = u => AddressOf(u) # AddressOf(v)
         /\ \A d \in User : d.email = AddressOf(v) /\ AddressOf(u) # AddressOf(v) => Clash(u, d)
<1>1. AddressOf(v) \in Emails /\ v # None
  BY Addresses DEF IInv
<1>2. ASSUME NEW d \in User, d.email = AddressOf(v) PROVE Freed(u, d)[AddressOf(v)] = v
  BY <1>1, <1>2, FreedAt
<1> QED BY <1>1, <1>2 DEF Clash

LEMMA StepIndexInv ==
  ASSUME IInv, RefInv, CopyInv, PlaceInv, IndexInv, NEW a \in Calls, Step(a)
  PROVE  IndexInv'
<1> SUFFICES ASSUME backend = "memory", ~Unindexed', NEW v \in Ids, AddressOf(v)' # None
             PROVE  index'[AddressOf(v)'] = v
  BY StepActs DEF IndexInv, Acts
<1>1. Keeps /\ ~Unindexed /\ Acts(a) /\ IInv'
  BY NextKeeps, UnindexedStays, StepActs, NextIInv DEF Next
<1>2. \A x \in Ids : AddressOf(x) # None => index[AddressOf(x)] = x
  BY <1>1 DEF IndexInv
<1>3. CASE users' = users /\ index' = index
  BY <1>2, <1>3 DEF AddressOf
<1>4. ASSUME NEW u \in Ids, NEW d \in User, ~Clash(u, d), users' = [users EXCEPT ![u] = d],
             index' = Indexed(u, d)
      PROVE  index'[AddressOf(v)'] = v
  <2>1. AddressOf(v)' = IF v = u THEN d.email ELSE AddressOf(v)
    BY <1>4, NewAddresses
  <2>2. AddressOf(v)' \in Emails
    BY <2>1, Addresses DEF User
  <2>3. v # u => AddressOf(v) \notin {AddressOf(u), d.email}
    BY <1>2, <1>4, <2>1, IndexedOnce
  <2> QED BY <1>2, <1>4, <2>1, <2>2, <2>3 DEF Indexed
<1>5. ASSUME NEW u \in Ids, NEW d \in User, Puts(a, u, d), pc[a] \in {"create", "write"},
             Clash(u, d), pc'[a] = "taken" \/ Op(a) = "mistake"
      PROVE  FALSE
  <2>1. a \in Started /\ a \in Started'
    BY <1>1 DEF Acts, Started, Keeps
  <2>2. pc'[a] # "taken"
    BY <1>1, <2>1 DEF Unindexed, Keeps
  <2>3. Op(a)' = "mistake" /\ Alone(a)'
    BY <1>1, <1>5, <2>1, <2>2 DEF Unindexed, Keeps
  <2>4. Op(a) = "mistake" /\ users[who[a]] # None /\ pc[a] = "write" /\ u = who[a] /\ d = Edited(a)
    BY <1>1, <1>5, <2>1, <2>3 DEF Keeps, RefInv, Started, Puts, IInv, CallInv, Placed
  <2>5. copy[a] = users[u]
    BY <1>1, <2>1, <2>3, <2>4, AloneBefore DEF CopyInv, Fresh
  <2>6. d.email = AddressOf(u)
    <3>1. Edited(a).email = copy[a].email
      BY <2>4, EditedFields
    <3> QED BY <2>4, <2>5, <3>1, Addresses
  <2>7. AddressOf(u) # None => AddressOf(u) \in Emails /\ Freed(u, d)[AddressOf(u)] = u
    BY <1>2, <2>6, Addresses, FreedAt
  <2> QED BY <1>5, <2>6, <2>7 DEF Clash
<1> QED BY <1>3, <1>4, <1>5, MemoryPuts

LEMMA NextIndexInv ==
  IInv /\ RefInv /\ CopyInv /\ PlaceInv /\ IndexInv /\ [Next]_vars => IndexInv'
<1> SUFFICES ASSUME IInv, RefInv, CopyInv, PlaceInv, IndexInv, [Next]_vars PROVE IndexInv'
  OBVIOUS
<1>1. Keeps /\ (~Unindexed' => ~Unindexed)
  BY NextKeeps, UnindexedStays
<1>2. ASSUME UNCHANGED <<backend, index>>, \A u \in Ids : AddressOf(u)' = AddressOf(u)
      PROVE  IndexInv'
  BY <1>1, <1>2 DEF IndexInv
<1>3. ASSUME NEW a \in Calls, Begin(a) PROVE IndexInv'
  BY <1>2, <1>3, BeginBegins DEF Begins, AddressOf
<1>4. ASSUME NEW u \in Ids, Expire(u) PROVE IndexInv'
  BY <1>2, <1>4, Expires, ExpiresAll DEF AddressOf
<1>5. UNCHANGED vars => IndexInv'
  BY <1>2 DEF vars, stored, AddressOf
<1> QED BY <1>3, <1>4, <1>5, StepIndexInv DEF Next

LEMMA PlaceInvariance == Spec => []PlaceInv
<1>1. Init => PlaceInv
  BY DEF Init, PlaceInv
<1> QED BY <1>1, NextPlaceInv, RefInvariance, Invariance, PTL DEF Spec

LEMMA IndexInvariance == Spec => []IndexInv
BY InitIndexInv, NextIndexInv, PlaceInvariance, CopyInvariance, RefInvariance, Invariance, PTL
   DEF Spec

\* GetByEmail: as long as the memory store has refused no write, it finds every
\* user by the address that is stored with it.
THEOREM EmailsAreFound == Spec => []EmailFindsUser
<1>1. IndexInv => EmailFindsUser
  BY DEF IndexInv, EmailFindsUser
<1> QED BY <1>1, IndexInvariance, PTL

-----------------------------------------------------------------------------
(* Wrong passwords                                                          *)

\* Wrong passwords of user u that were answered one after the other.
Series(u, C) ==
    /\ C \subseteq {c \in Writers(u) : pc[c] = "bad"}
    /\ \A c, d \in C : ~Overlap(c, d)

\* Request e was over when those of C began.
Prior(e, C) == \A c \in C : e \in before[c]

\* No other request has written the user between two of C.
Unbroken(u, C) == \A e \in Writers(u) \ C : C \subseteq before[e] \/ Prior(e, C)

\* Nor after them: only another wrong password is under way.
Lasting(u, C) ==
    \A e \in Writers(u) \ C :
        \/ Op(e) = "mistake" /\ pc[e] \in {"write", "set"} /\ C \subseteq before[e]
        \/ Prior(e, C)

\* Wrong passwords in a row are counted, and never get to LockAfter.
FailInv ==
    faults = 0 /\ ~Unindexed =>
        \A u \in Ids : \A C : Series(u, C) =>
            /\ Unbroken(u, C) => Cardinality(C) < LockAfter
            /\ Lasting(u, C) => C = {} \/ Cardinality(C) <= users[u].fails

LEMMA NoSeries == IsFiniteSet({}) /\ Cardinality({}) = 0 /\ 0 < LockAfter
BY FS_EmptySet

\* Only finitely many requests have begun.
FiniteInv == IsFiniteSet(Started)

LEMMA NextFiniteInv == IInv /\ FiniteInv /\ [Next]_vars => FiniteInv'
<1>1. ASSUME IInv, NEW a \in Calls, Step(a) PROVE Started' = Started
  BY <1>1, StepActs, OverStays DEF Acts, Started
<1>2. ASSUME IInv, NEW a \in Calls, Begin(a) PROVE Started' = Started \cup {a}
  BY <1>2, BeginBegins, OverStays DEF Begins, Started, Ends
<1>3. ASSUME NEW u \in Ids, Expire(u) PROVE Started' = Started
  BY <1>3 DEF Expire, Started
<1>4. UNCHANGED vars => Started' = Started
  BY DEF vars, Started
<1> QED BY <1>1, <1>2, <1>3, <1>4, FS_AddElement DEF Next, FiniteInv

LEMMA FiniteInvariance == Spec => []FiniteInv
<1>1. Init => FiniteInv
  <2>1. Init => Started = {}
    BY DEF Init, Started
  <2> QED BY <2>1, FS_EmptySet DEF FiniteInv
<1> QED BY <1>1, NextFiniteInv, Invariance, PTL DEF Spec

\* A wrong password that is answered as one, and that is alone, is stored.
LEMMA MistakeStored ==
  ASSUME IInv, RefInv, CopyInv, PlaceInv, IndexInv, NEW a \in Calls, Step(a), Alone(a),
         Op(a) = "mistake", pc'[a] = "bad", faults' = 0, ~Unindexed
  PROVE  /\ pc[a] \in {"write", "set"} /\ copy[a] = users[who[a]]
         /\ Edits(a) /\ ~Edited(a).locked
<1>1. pc[a] \in {"write", "set"} /\ a \in Started
  <2>1. /\ Goes("mistake", pc[a], "bad") /\ Placed("mistake", pc[a])
        /\ pc[a] \notin Ends \cup {"idle"}
    BY StepWalks, StepActs DEF Walks, Acts, IInv, CallInv, Ends
  <2> QED BY <2>1 DEF Goes, Placed, Started, Refusals, AfterRevoke, Ending, Revs
<1>2. copy[a] = users[who[a]] /\ who[a] \in Ids
  BY <1>1 DEF CopyInv, Fresh, IInv, CallInv, Started
<1>3. ~Fail(a) /\ ~Skip(a) /\ ~SkipLink(a)
  BY DEF Fail, Skip, SkipLink, IInv, TypeOK
<1>4. Edited(a).email = AddressOf(who[a]) /\ Edited(a) \in User
  <2>1. Edited(a).email = copy[a].email /\ Edited(a) \in User /\ copy[a] \in User
    BY <1>1, EditedFields
  <2> QED BY <1>2, <2>1, Addresses
<1>5. (pc[a] = "write" /\ UpdateUser(a)) \/ (pc[a] = "set" /\ SetUser(a))
  BY <1>1, <1>3, Guards DEF Step
<1>6. ASSUME Written(a) PROVE ~Edited(a).locked
  BY <1>6, GoesTo DEF Written
<1>7. CASE pc[a] = "set" /\ SetUser(a)
  BY <1>1, <1>2, <1>6, <1>7, SetUserPuts DEF SetUser, Creates
<1>8. CASE pc[a] = "write" /\ UpdateUser(a) /\ backend = "memory"
  <2>1. ~Clash(who[a], Edited(a))
    <3>1. AddressOf(who[a]) # None => Freed(who[a], Edited(a))[AddressOf(who[a])] = who[a]
      BY <1>2, <1>4, <1>8, Addresses, FreedAt DEF IndexInv
    <3> QED BY <1>4, <3>1 DEF Clash
  <2>2. users' = [users EXCEPT ![who[a]] = Edited(a)] /\ Written(a)
    BY <1>8, <2>1 DEF UpdateUser, StoreInMemory
  <2> QED BY <1>1, <1>2, <1>6, <2>2, WrittenTo DEF Edits
<1>9. CASE pc[a] = "write" /\ UpdateUser(a) /\ backend # "memory"
  <2>1. Goto(a, "set")
    BY <1>4, <1>9 DEF UpdateUser, Queried
  <2> QED BY <2>1, GoesTo
<1> QED BY <1>5, <1>7, <1>8, <1>9

LEMMA SeriesUsers ==
  ASSUME IInv, RefInv, NEW u, NEW C, Series(u, C), C # {}
  PROVE  users[u] # None /\ C \subseteq Started /\ C \subseteq Ended /\ C \subseteq Calls
<1>1. PICK c \in C : c \in Started /\ pc[c] = "bad" /\ who[c] = u
  BY DEF Series, Writers
<1>2. users[u] # None
  BY <1>1 DEF RefInv, Started, Refusals
<1> QED BY <1>2 DEF Series, Writers, Started, Ended, Ends

\* A series that was there already has the same requests around it, or more.
LEMMA SeriesStays ==
  ASSUME IInv, RefInv, Keeps, NEW u, NEW C, Series(u, C), C # {}
  PROVE  /\ Unbroken(u, C)' => Unbroken(u, C)
         /\ (\A e \in Writers(u) \ C : pc'[e] \in {"write", "set"} /\ Op(e) = "mistake"
                                         => pc[e] \in {"write", "set"})
            => (Lasting(u, C)' => Lasting(u, C))
<1>1. users[u] # None /\ C \subseteq Started
  BY SeriesUsers
<1>2. \A e \in Writers(u) : /\ e \in Writers(u)' /\ before'[e] = before[e] /\ Op(e)' = Op(e)
                            /\ Prior(e, C)' = Prior(e, C)
  BY <1>1, WritersStay DEF Keeps, Writers, Prior
<1>3. ASSUME Unbroken(u, C)' PROVE Unbroken(u, C)
  BY <1>2, <1>3 DEF Unbroken
<1>4. ASSUME Lasting(u, C)',
             \A e \in Writers(u) \ C : pc'[e] \in {"write", "set"} /\ Op(e) = "mistake"
                                         => pc[e] \in {"write", "set"}
      PROVE  Lasting(u, C)
  BY <1>2, <1>4 DEF Lasting
<1> QED BY <1>3, <1>4

LEMMA StepFailInv ==
  ASSUME IInv, RefInv, CopyInv, PlaceInv, IndexInv, FiniteInv, FailInv, NEW a \in Calls, Step(a)
  PROVE  FailInv'
<1> SUFFICES ASSUME faults' = 0, ~Unindexed', NEW u \in Ids, NEW C, Series(u, C)',
                    Unbroken(u, C)', C # {}
             PROVE  /\ Cardinality(C) < LockAfter
                    /\ Lasting(u, C)' => Cardinality(C) <= users'[u].fails
  BY NoSeries DEF FailInv, Lasting, Unbroken
<1>1. /\ Acts(a) /\ Keeps /\ IInv' /\ RefInv' /\ ~Unindexed /\ faults = 0
      /\ Goes(Op(a), pc[a], pc'[a]) /\ a \notin Ended /\ a \in InFlight /\ a \in Started
      /\ pc[a] \notin Ends
  BY StepActs, StepWalks, NextKeeps, NextIInv, NextRefInv, UnindexedStays
     DEF Next, Keeps, Acts, Ended, InFlight, Started, Walks
<1>2. Started' = Started /\ before' = before /\ \A e \in Calls : Op(e)' = Op(e)
  BY <1>1, OverStays DEF Acts, Started, Op
<1>3. \A e \in Calls : a \notin before[e]
  BY <1>1 DEF IInv, CallInv
<1>4. ASSUME NEW c \in C, c # a PROVE c \in Writers(u) /\ pc[c] = "bad" /\ c \in Calls
  BY <1>1, <1>2, <1>4 DEF Series, Writers, Acts, Started
<1>5. ASSUME NEW c \in C, NEW d \in C, c \in Started, d \in Started PROVE ~Overlap(c, d)
  BY <1>1, <1>5, OverlapStays DEF Series
<1>6. CASE a \notin C
  <2>1. Series(u, C)
    BY <1>4, <1>5, <1>6 DEF Series, Writers
  <2>2. users[u] # None /\ Unbroken(u, C)
    BY <1>1, <2>1, SeriesUsers, SeriesStays
  <2>3. ASSUME Lasting(u, C)' PROVE Lasting(u, C) /\ users'[u] = users[u]
    <3>1. ASSUME Op(a) = "mistake" PROVE pc[a] \in {"write", "set"}
      BY <1>1, <3>1 DEF IInv, CallInv, Placed, InFlight, TypeOK, Steps, Ending
    <3>2. Lasting(u, C)
      BY <1>1, <2>1, <2>3, <3>1, SeriesStays DEF Acts, Writers, Started
    <3>3. ASSUME Edits(a), who[a] = u PROVE FALSE
      <4>1. a \in Writers(u)' /\ pc'[a] \notin {"write", "set"}
        BY <1>1, <2>2, <3>3, Storing, WritersStay DEF Edits, AfterWrite
      <4>2. Prior(a, C)'
        BY <1>6, <2>3, <4>1 DEF Lasting
      <4> QED BY <1>2, <1>3, <1>4, <1>6, <4>2 DEF Prior
    <3>4. ~Creates(a) \/ u # a
      BY <2>2, OwnMaking
    <3> QED BY <3>2, <3>3, <3>4, StepUsers
  <2> QED BY <1>1, <2>1, <2>2, <2>3 DEF FailInv
<1>7. CASE a \in C
  <2> DEFINE D == C \ {a}
  <2>1. Op(a) = "mistake" /\ pc'[a] = "bad" /\ who[a] = u
    <3>1. pc'[a] = "bad" /\ who'[a] = u
      BY <1>7 DEF Series, Writers
    <3>2. Op(a) = "mistake"
      BY <1>1, <3>1 DEF Goes, Refusals, AfterWrite, AfterRevoke
    <3> QED BY <1>1, <3>1, <3>2 DEF Acts
  <2>2. Series(u, D)
    BY <1>4, <1>5 DEF Series, Writers
  <2>3. ASSUME NEW e \in Writers(u), e \notin C PROVE Prior(e, C)
    <3>1. e \in Writers(u)' /\ e \in Calls
      <4>1. users[u] # None
        BY <1>1, <2>1 DEF RefInv, Started, IInv, CallInv, Placed
      <4> QED BY <1>1, <4>1, WritersStay DEF Writers, Started
    <3>2. Prior(e, C)'
      BY <1>2, <1>3, <1>7, <2>3, <3>1 DEF Unbroken
    <3> QED BY <1>2, <3>2 DEF Prior
  <2>4. Alone(a)
    <3> SUFFICES ASSUME NEW e \in Writers(u), Overlap(a, e) PROVE FALSE
      BY <2>1 DEF Alone
    <3>1. CASE e \in C
      BY <1>1, <1>5, <1>7, <3>1 DEF Writers
    <3>2. CASE e \notin C
      BY <1>7, <2>3, <3>2 DEF Prior, Overlap
    <3> QED BY <3>1, <3>2
  <2>5. /\ pc[a] \in {"write", "set"} /\ copy[a] = users[u]
        /\ Edits(a) /\ ~Edited(a).locked
    BY <1>1, <2>1, <2>4, MistakeStored
  <2>6. D \subseteq before[a]
    <3> SUFFICES ASSUME NEW c \in D PROVE c \in before[a]
      OBVIOUS
    <3>1. c \in Started /\ c # a /\ ~Overlap(a, c)
      BY <1>1, <1>4, <1>5, <1>7 DEF Writers
    <3> QED BY <1>1, <3>1, BeganAfter
  <2>7. Lasting(u, D)
    BY <2>1, <2>3, <2>5, <2>6 DEF Lasting, Prior
  <2>8. D = {} \/ Cardinality(D) <= users[u].fails
    BY <1>1, <2>2, <2>7 DEF FailInv
  <2>9. IsFiniteSet(D) /\ Cardinality(D) \in Nat /\ Cardinality(C) = Cardinality(D) + 1
    <3>1. D \subseteq Started
      BY <2>2 DEF Series, Writers
    <3>2. IsFiniteSet(D)
      BY <3>1, FS_Subset DEF FiniteInv
    <3>3. C = D \cup {a} /\ a \notin D
      BY <1>7
    <3> QED BY <3>2, <3>3, FS_AddElement, FS_CardinalityType
  <2>10. /\ users[u].fails \in Nat /\ users'[u].fails = users[u].fails + 1
         /\ users[u].fails + 1 < LockAfter
    <3>1. /\ copy[a] \in User /\ Edited(a).fails = copy[a].fails + 1
          /\ Edited(a).fails < LockAfter
      BY <2>1, <2>5, EditedFields
    <3>2. users'[u] = Edited(a)
      BY <2>1, <2>5, Tables DEF Edits, IInv
    <3> QED BY <2>5, <3>1, <3>2 DEF User
  <2>11. Cardinality(D) <= users[u].fails
    <3>1. D = {} => Cardinality(D) = 0
      BY NoSeries
    <3> HIDE DEF D
    <3> QED BY <2>8, <2>10, <3>1
  <2> HIDE DEF D
  <2> QED BY <2>9, <2>10, <2>11
<1> QED BY <1>6, <1>7

LEMMA NextFailInv ==
  IInv /\ RefInv /\ CopyInv /\ PlaceInv /\ IndexInv /\ FiniteInv /\ FailInv /\ [Next]_vars
    => FailInv'
<1> SUFFICES ASSUME IInv, RefInv, CopyInv, PlaceInv, IndexInv, FiniteInv, FailInv, [Next]_vars
             PROVE  FailInv'
  OBVIOUS
<1>1. ASSUME \A c \in Started' : pc'[c] \in Ends => c \in Started,
             \A c \in Started : pc'[c] = pc[c] /\ who'[c] = who[c],
             \A u \in Ids : users[u] # None => users'[u].fails = users[u].fails
      PROVE  FailInv'
  <2> SUFFICES ASSUME faults' = 0, ~Unindexed', NEW u \in Ids, NEW C, Series(u, C)',
                      Unbroken(u, C)', C # {}
               PROVE  /\ Cardinality(C) < LockAfter
                      /\ Lasting(u, C)' => Cardinality(C) <= users'[u].fails
    BY NoSeries DEF FailInv, Lasting, Unbroken
  <2>1. Keeps /\ faults = 0 /\ ~Unindexed
    BY NextKeeps, UnindexedStays DEF Keeps
  <2>2. ASSUME NEW c \in C PROVE c \in Writers(u) /\ pc[c] = "bad" /\ c \in Started
    BY <1>1, <2>1, <2>2 DEF Series, Writers, Ends, Keeps
  <2>3. Series(u, C)
    BY <2>1, <2>2, OverlapStays DEF Series
  <2>4. users[u] # None /\ Unbroken(u, C) /\ (Lasting(u, C)' => Lasting(u, C))
    BY <1>1, <2>1, <2>3, SeriesUsers, SeriesStays DEF Writers
  <2> QED BY <1>1, <2>1, <2>3, <2>4 DEF FailInv
<1>2. ASSUME NEW a \in Calls, Begin(a) PROVE FailInv'
  <2>1. Begins(a)
    BY <1>2, BeginBegins
  <2> QED BY <1>1, <2>1 DEF Begins, Started, Ends
<1>3. ASSUME NEW u \in Ids, Expire(u) PROVE FailInv'
  BY <1>1, <1>3, Expires, ExpiresAll DEF Started
<1>4. UNCHANGED vars => FailInv'
  BY <1>1 DEF vars, stored, locals, Started
<1> QED BY <1>2, <1>3, <1>4, StepFailInv DEF Next

\* Login: LockAfter wrong passwords in a row lock the account, one after the
\* other and with no other request that writes the user between them, provided
\* that no repository call failed and the memory store refused no write.
THEOREM FailuresAreCounted == Spec => []FailuresLock
<1>1. Init => FailInv
  <2> SUFFICES ASSUME Init, NEW u, NEW C, Series(u, C) PROVE C = {}
    BY NoSeries DEF FailInv
  <2> QED BY DEF Init, Series, Writers, Started
<1>2. IInv /\ FiniteInv /\ FailInv => FailuresLock
  <2> SUFFICES ASSUME IInv, FiniteInv, FailInv, NEW u \in Ids,
                      NEW C \in SUBSET {c \in Writers(u) : pc[c] = "bad"},
                      Cardinality(C) >= LockAfter, \A c, d \in C : ~Overlap(c, d),
                      faults = 0, ~Unindexed, Unbroken(u, C)
               PROVE  FALSE
    BY DEF FailuresLock, Unbroken, Prior, IInv, TypeOK
  <2>1. Series(u, C) /\ Cardinality(C) < LockAfter
    BY DEF Series, FailInv
  <2>2. Cardinality(C) \in Nat
    <3>1. C \subseteq Started
      BY DEF Writers
    <3> QED BY <3>1, FS_Subset, FS_CardinalityType DEF FiniteInv
  <2> QED BY <2>1, <2>2
<1> QED BY <1>1, <1>2, NextFailInv, FiniteInvariance, IndexInvariance, PlaceInvariance,
           CopyInvariance, RefInvariance, Invariance, PTL DEF Spec

-----------------------------------------------------------------------------
(* One user for an address                                                  *)

\* No other user than u has the address of d.
Free(d, u) == d.email # None => \A v \in Ids \ {u} : AddressOf(v) # d.email

\* Addresses differ, and who is deleted has none.
UsersApart ==
    /\ \A u, v \in Ids : u # v /\ AddressOf(u) # None => AddressOf(u) # AddressOf(v)
    /\ \A u \in Ids : users[u] # None /\ users[u].status = "deleted" => users[u].email = None

\* The index of the memory store has every address, and nothing else.
Exact ==
    backend = "memory" =>
        /\ \A u \in Ids : AddressOf(u) # None => index[AddressOf(u)] = u
        /\ \A e \in Emails : index[e] # None => index[e] \in Ids /\ AddressOf(index[e]) = e

\* What the request has looked up is still so.
Checked(c) ==
    /\ pc[c] \in {"create", "insert"} => copy[c].status # "deleted"
    /\ pc[c] = "insert" => Free(copy[c], c)
    /\ pc[c] = "set" => Free(Edited(c), who[c])
    /\ backend = "memory" /\ pc[c] = "write" /\ Op(c) = "email"
          => index[call[c].to] \in {None, who[c]}

\* Until two requests that write users are in flight together.
UniqueInv == ~Raced => UsersApart /\ Exact /\ \A c \in Calls : Checked(c)

LEMMA RacedStays == ASSUME Keeps, Raced PROVE Raced'
BY OverlapStays DEF Raced, Keeps

\* Only one request that writes users is in flight.
LEMMA OneWriter ==
  ASSUME IInv, ~Raced, NEW a \in InFlight, NEW c \in InFlight, a # c,
         Op(a) \in Writing, Op(c) \in Writing
  PROVE  FALSE
BY FlightsOverlap DEF Raced, InFlight, Started

\* What Firestore makes of the users.
LEMMA FirestorePuts ==
  ASSUME IInv, PlaceInv, NEW a \in Calls, Step(a), backend # "memory"
  PROVE  /\ index' = index
         /\ \/ users' = users
            \/ pc[a] = "insert" /\ users' = [users EXCEPT ![a] = copy[a]]
            \/ pc[a] = "set" /\ users' = [users EXCEPT ![who[a]] = Edited(a)]
<1>1. CreateUser(a) \/ UpdateUser(a) => users' = users /\ index' = index
  BY DEF CreateUser, UpdateUser, Queried
<1>2. CASE SetUser(a)
  BY <1>2 DEF SetUser
<1> QED BY <1>1, <1>2, OthersPut

\* The address of d is that of u, or nobody's.
Asked(d, u) ==
    d.email # None => d.email = AddressOf(u) \/ \A v \in Ids : AddressOf(v) # d.email

\* What it has asked before.
LEMMA FirestoreAsks ==
  ASSUME IInv, RefInv, PlaceInv, NEW a \in Calls, Step(a)
  PROVE  /\ pc[a] = "create" /\ pc'[a] = "insert" => users' = users /\ Asked(copy[a], a)
         /\ pc[a] = "write" /\ pc'[a] = "set" => users' = users /\ Asked(Edited(a), who[a])
<1>1. a \in Ids /\ (pc'[a] \in {"insert", "set"} => backend # "memory")
  BY MemoryPuts DEF Ids
<1>2. ASSUME NEW u \in Ids, NEW d \in User, NEW free, NEW clash, Queried(u, d, free, clash), ~clash,
             backend # "memory"
      PROVE  users' = users /\ Asked(d, u)
  <2>1. /\ users' = users
        /\ d.email \notin {None, AddressOf(u)} => Found(d.email) = {} \/ u \in Found(d.email)
    BY <1>2 DEF Queried
  <2>2. CASE d.email \in {None, AddressOf(u)}
    BY <2>1, <2>2 DEF Asked
  <2>3. CASE d.email \notin {None, AddressOf(u)}
    <3>1. u \notin Found(d.email)
      BY <1>2, <2>3 DEF Found, FoundInFirestore, AddressOf
    <3>2. \A v \in Ids : AddressOf(v) # d.email
      BY <1>2, <2>1, <2>3, <3>1 DEF Found, FoundInFirestore, AddressOf
    <3> QED BY <2>1, <3>2 DEF Asked
  <2> QED BY <2>2, <2>3
<1>3. CASE pc[a] = "create" /\ pc'[a] = "insert"
  <2>1. CreateUser(a)
    BY <1>3, Guards, FaultTo DEF Step, Revs
  <2>2. ~Goto(a, "taken") /\ copy[a] \in User
    BY <1>3, GoesTo, PutsUsers
  <2> QED BY <1>1, <1>2, <1>3, <2>1, <2>2 DEF CreateUser
<1>4. CASE pc[a] = "write" /\ pc'[a] = "set"
  <2>1. ~Written(a)
    BY <1>4, WrittenTo DEF AfterWrite
  <2>2. UpdateUser(a)
    <3>1. ~Fail(a)
      BY <1>4, GoesTo DEF Fail
    <3>2. ~Skip(a) /\ ~SkipLink(a)
      BY <1>4, <2>1 DEF Skip, SkipLink
    <3> QED BY <1>4, <3>1, <3>2, Guards DEF Step
  <2>3. ~Goto(a, "taken") /\ Edited(a) \in User /\ who[a] \in Ids
    BY <1>4, GoesTo, PutsUsers DEF IInv, CallInv
  <2> QED BY <1>1, <1>2, <1>4, <2>1, <2>2, <2>3 DEF UpdateUser
<1> QED BY <1>3, <1>4

LEMMA AskedFree ==
  ASSUME UsersApart, NEW u \in Ids, NEW d, Asked(d, u)
  PROVE  Free(d, u)
BY DEF UsersApart, Asked, Free

\* ChangeEmail goes on when nobody else has the new address.
LEMMA EmailAsks ==
  ASSUME IInv, UsersApart, Exact, NEW a \in Calls, Step(a), backend = "memory",
         pc[a] = "check", pc'[a] = "write"
  PROVE  index[call[a].to] \in {None, who[a]} /\ index' = index
<1>1. CheckEmail(a)
  BY Guards, FaultTo DEF Step, Revs
<1>2. call[a].to \in Emails
  BY DEF IInv, CallInv, Named, Placed
<1>3. /\ index' = index
      /\ \/ Found(call[a].to) = {}
         \/ \E u \in Found(call[a].to) : u = who[a] \/ users[u].status = "deleted"
  BY <1>1, GoesTo DEF CheckEmail, stored
<1>4. index[call[a].to] # None =>
         /\ index[call[a].to] \in Found(call[a].to) /\ users[index[call[a].to]].status # "deleted"
         /\ \A u \in Found(call[a].to) : u = index[call[a].to]
  BY <1>2, Addresses DEF Exact, Found, FoundInMemory, UsersApart
<1> QED BY <1>3, <1>4

\* A stored user whose address nobody else has keeps the addresses apart.
LEMMA StoresApart ==
  ASSUME IInv, UsersApart, NEW u \in Ids, NEW d \in User, Free(d, u),
         d.status = "deleted" => d.email = None, users' = [users EXCEPT ![u] = d]
  PROVE  UsersApart'
<1>1. \A v \in Ids : AddressOf(v)' = IF v = u THEN d.email ELSE AddressOf(v)
  BY NewAddresses
<1>2. \A v \in Ids : users'[v] = IF v = u THEN d ELSE users[v]
  BY Tables DEF IInv
<1>3. \A v, w \in Ids : v # w /\ AddressOf(v)' # None => AddressOf(v)' # AddressOf(w)'
  BY <1>1 DEF UsersApart, Free
<1>4. \A v \in Ids : users'[v] # None /\ users'[v].status = "deleted" => users'[v].email = None
  BY <1>2 DEF UsersApart
<1> QED BY <1>3, <1>4 DEF UsersApart

LEMMA StoresExact ==
  ASSUME IInv, UsersApart, Exact, NEW u \in Ids, NEW d \in User, Free(d, u), backend' = backend,
         users' = [users EXCEPT ![u] = d], backend = "memory" => index' = Indexed(u, d)
  PROVE  Exact'
<1> SUFFICES ASSUME backend = "memory"
             PROVE  /\ \A v \in Ids : AddressOf(v)' # None => index'[AddressOf(v)'] = v
                    /\ \A e \in Emails : index'[e] # None =>
                          index'[e] \in Ids /\ AddressOf(index[e])' = e
  BY DEF Exact, AddressOf
<1>1. \A v \in Ids : /\ AddressOf(v)' = IF v = u THEN d.email ELSE AddressOf(v)
                     /\ AddressOf(v) \in Emails \cup {None} /\ d.email \in Emails \cup {None}
  BY NewAddresses, Addresses DEF User
<1>2. \A e \in Emails : index'[e] = IF e = d.email THEN u
                                   ELSE IF e = AddressOf(u) THEN None ELSE index[e]
  BY DEF Indexed
<1>3. \A v \in Ids : AddressOf(v)' # None => index'[AddressOf(v)'] = v
  BY <1>1, <1>2 DEF Exact, UsersApart, Free
<1>4. ASSUME NEW e \in Emails, index'[e] # None
      PROVE  index'[e] \in Ids /\ AddressOf(index[e])' = e
  <2>1. CASE e = d.email
    BY <1>1, <1>2, <2>1
  <2>2. CASE e # d.email
    <3>1. e # AddressOf(u) /\ index'[e] = index[e] /\ index[e] \in Ids /\ AddressOf(index[e]) = e
      BY <1>2, <1>4, <2>2 DEF Exact
    <3> QED BY <1>1, <3>1
  <2> QED BY <2>1, <2>2
<1> QED BY <1>3, <1>4

\* The memory store refuses no write.
LEMMA NoClash ==
  ASSUME IInv, RefInv, CopyInv, Exact, NEW a \in Calls, pc[a] = "write", Alone(a), Checked(a),
         backend = "memory"
  PROVE  ~Clash(who[a], Edited(a))
<1> DEFINE u == who[a]
           d == Edited(a)
<1>1. a \in Started /\ u \in Ids /\ copy[a] = users[u] /\ copy[a] \in User /\ d \in User
  BY PutsUsers DEF Started, CopyInv, Fresh, IInv, CallInv
<1>2. d.email = IF Op(a) = "email" THEN call[a].to
                ELSE IF Op(a) = "delete" THEN None ELSE AddressOf(u)
  <2>1. d.email = IF Op(a) = "email" THEN call[a].to
                  ELSE IF Op(a) = "delete" THEN None ELSE copy[a].email
    BY EditedFields
  <2> QED BY <1>1, <2>1, Addresses
<1>3. d.email # None => d.email \in Emails /\ Freed(u, d)[d.email] = index[d.email]
  BY <1>1, FreedAt DEF User
<1>4. d.email # None => index[d.email] \in {None, u}
  BY <1>1, <1>2 DEF Checked, Exact
<1> QED BY <1>3, <1>4 DEF Clash

\* What a request that is alone stores has an address that is free.
LEMMA StoredFree ==
  ASSUME IInv, RefInv, CopyInv, UsersApart, NEW a \in Calls, Checked(a), Alone(a),
         NEW u \in Ids, NEW d \in User, Puts(a, u, d),
         \/ pc[a] \in {"insert", "set"} \/ (backend = "memory" /\ Exact /\ ~Clash(u, d))
  PROVE  Free(d, u) /\ (d.status = "deleted" => d.email = None)
<1>1. ASSUME backend = "memory", Exact, ~Clash(u, d) PROVE Free(d, u)
  <2> SUFFICES ASSUME NEW v \in Ids \ {u}, d.email # None, AddressOf(v) = d.email PROVE FALSE
    BY DEF Free
  <2> QED BY <1>1, IndexedOnce DEF Exact, UsersApart
<1>2. Free(d, u)
  BY <1>1 DEF Puts, Checked
<1>3. CASE pc[a] \in {"create", "insert"}
  BY <1>2, <1>3 DEF Puts, Checked
<1>4. CASE pc[a] \in {"write", "set"}
  <2>1. copy[a] = users[u] /\ u = who[a] /\ d = Edited(a)
    BY <1>4 DEF Puts, CopyInv, Fresh, Started
  <2>2. /\ copy[a] # None
        /\ d.email = IF Op(a) = "email" THEN call[a].to
                     ELSE IF Op(a) = "delete" THEN None ELSE copy[a].email
        /\ d.status = "deleted" => Op(a) = "delete" \/ (copy[a].status = "deleted" /\ Op(a) # "email")
    BY <1>4, <2>1, EditedFields
  <2> QED BY <1>2, <2>1, <2>2 DEF UsersApart
<1> QED BY <1>2, <1>3, <1>4 DEF Puts

\* What is written stays the same as long as the copy does, or its address.
LEMMA EditedStays ==
  ASSUME NEW c, call'[c] = call[c], copy'[c] = copy[c]
  PROVE  Edited(c)' = Edited(c)
BY Zenon DEF Edited, Op, Mistaken

LEMMA EditedAddress ==
  ASSUME IInv, IInv', NEW c \in Calls, pc[c] \in {"write", "set"}, pc'[c] = pc[c],
         call'[c] = call[c], copy'[c].email = copy[c].email
  PROVE  Edited(c)'.email = Edited(c).email
<1> DEFINE Address == IF Op(c) = "email" THEN call[c].to
                      ELSE IF Op(c) = "delete" THEN None ELSE copy[c].email
<1>1. IInv /\ c \in Calls /\ pc[c] \in {"write", "set"} => Edited(c).email = Address
  BY EditedFields
<1>2. (IInv /\ c \in Calls /\ pc[c] \in {"write", "set"} => Edited(c).email = Address)'
  BY EditedFields, PTL
<1> QED BY <1>1, <1>2 DEF Op

LEMMA StepChecked ==
  ASSUME IInv, RefInv, PlaceInv, UsersApart, Exact, ~Raced, NEW a \in Calls, Step(a),
         NEW c \in Calls, Checked(c),
         c # a => UNCHANGED <<users, index>> \/ Op(a) \in Writing
  PROVE  Checked(c)'
<1>1. /\ Acts(a) /\ Walks(a) /\ Goes(Op(a), pc[a], pc'[a]) /\ a \in InFlight
      /\ \A e \in Calls : call'[e] = call[e] /\ Op(e)' = Op(e)
  BY StepActs, StepWalks DEF Walks, Acts, InFlight, Op
<1>2. CASE c # a /\ UNCHANGED <<users, index>>
  <2>1. pc'[c] = pc[c] /\ copy'[c] = copy[c] /\ who'[c] = who[c] /\ Edited(c)' = Edited(c)
    BY <1>1, <1>2, EditedStays DEF Acts, Walks
  <2> QED BY <1>1, <1>2, <2>1 DEF Acts, Checked, Free, AddressOf
<1>3. CASE c # a /\ Op(a) \in Writing
  <2>1. c \in InFlight /\ Op(c) \in Writing => FALSE
    BY <1>1, <1>3, OneWriter
  <2>2. pc'[c] \notin {"create", "insert", "write", "set"}
    BY <1>1, <1>3, <2>1 DEF Acts, InFlight, IInv, CallInv, Placed, Writing, Ends
  <2> QED BY <2>2 DEF Checked
<1>4. CASE c = a
  <2>1. pc'[a] \in {"insert", "set", "write"} /\ pc[a] \notin {"user", "match"}
          => /\ copy'[a] = copy[a] /\ who'[a] = who[a] /\ Edited(a)' = Edited(a)
    BY <1>1, EditedStays DEF Walks, Ends
  <2>2. \A d, u : users' = users => Free(d, u)' = Free(d, u)
    BY DEF Free, AddressOf
  <2>3. pc'[a] \in {"create", "insert"} => copy'[a].status # "deleted"
    <3>1. pc'[a] = "create" => copy'[a].status = "active"
      BY <1>1, ComesFrom DEF Walks, NewUser
    <3>2. pc'[a] = "insert" => pc[a] \in {"create", "insert"} /\ copy'[a] = copy[a]
      BY <1>1, <2>1, ComesFrom
    <3> QED BY <1>4, <3>1, <3>2 DEF Checked
  <2>4. ASSUME pc'[a] = "insert" PROVE Free(copy[a], a)'
    <3>1. users' = users /\ (pc[a] \in {"create", "insert"}) /\ copy'[a] = copy[a]
      <4>1. pc[a] \in {"create", "insert"}
        BY <1>1, <2>4, ComesFrom
      <4> QED BY <2>1, <2>4, <4>1, StepPuts DEF Creates, Edits
    <3>2. Free(copy[a], a)
      BY <1>4, <2>4, <3>1, FirestoreAsks, AskedFree DEF Checked, Ids
    <3> QED BY <2>2, <3>1, <3>2
  <2>5. ASSUME pc'[a] = "set" PROVE Free(Edited(a), who[a])'
    <3>1. pc[a] \in {"write", "set"}
      BY <1>1, <2>5 DEF Goes, AfterWrite, AfterRevoke, Refusals
    <3>2. users' = users
      BY <2>5, <3>1, StepPuts DEF Creates, Edits, AfterWrite
    <3>3. Free(Edited(a), who[a])
      <4>1. who[a] \in Ids
        BY <3>1 DEF IInv, CallInv
      <4> QED BY <1>4, <2>5, <3>1, <4>1, FirestoreAsks, AskedFree DEF Checked
    <3> QED BY <2>1, <2>2, <2>5, <3>1, <3>2, <3>3
  <2>6. ASSUME backend' = "memory", pc'[a] = "write", Op(a)' = "email"
        PROVE  index'[call'[a].to] \in {None, who'[a]}
    <3>1. pc[a] = "check"
      BY <1>1, <2>6 DEF Goes, AfterWrite, AfterRevoke, Refusals, IInv, CallInv, Placed, Acts, Ends
    <3>2. index[call[a].to] \in {None, who[a]} /\ index' = index
      BY <1>1, <2>6, <3>1, EmailAsks DEF Acts
    <3> QED BY <1>1, <2>1, <2>6, <3>1, <3>2
  <2> QED BY <1>4, <2>3, <2>4, <2>5, <2>6 DEF Checked
<1> QED BY <1>2, <1>3, <1>4

LEMMA StepUniqueInv ==
  ASSUME IInv, RefInv, CopyInv, PlaceInv, UniqueInv, NEW a \in Calls, Step(a)
  PROVE  UniqueInv'
<1> SUFFICES ASSUME ~Raced' PROVE UsersApart' /\ Exact' /\ \A c \in Calls : Checked(c)'
  BY DEF UniqueInv
<1>1. ~Raced /\ Acts(a) /\ a \in Started /\ a \in Ids
  BY NextKeeps, RacedStays, StepActs DEF Next, Acts, Started, Ids
<1>2. UsersApart /\ Exact /\ \A c \in Calls : Checked(c)
  BY <1>1 DEF UniqueInv
<1>3. ASSUME users' = users, index' = index
      PROVE  UsersApart' /\ Exact' /\ \A c \in Calls : Checked(c)'
  <2>1. UsersApart' /\ Exact'
    BY <1>1, <1>2, <1>3 DEF UsersApart, Exact, AddressOf, Acts
  <2> QED BY <1>1, <1>2, <1>3, <2>1, StepChecked
<1>4. ASSUME Op(a) \in Writing PROVE Alone(a)
  BY <1>1, <1>4 DEF Raced, Alone, Writers
<1>5. \A u, d : Puts(a, u, d) => Op(a) \in Writing
  BY DEF Puts, IInv, CallInv, Placed, Writing
<1>6. ASSUME NEW u \in Ids, NEW d \in User, Puts(a, u, d), users' = [users EXCEPT ![u] = d],
             backend = "memory" => index' = Indexed(u, d),
             pc[a] \in {"insert", "set"} \/ (backend = "memory" /\ ~Clash(u, d))
      PROVE  UsersApart' /\ Exact' /\ \A c \in Calls : Checked(c)'
  <2>1. Free(d, u) /\ (d.status = "deleted" => d.email = None)
    BY <1>2, <1>4, <1>5, <1>6, StoredFree
  <2>2. UsersApart'
    BY <1>2, <1>6, <2>1, StoresApart
  <2>3. Exact'
    BY <1>1, <1>2, <1>6, <2>1, StoresExact DEF Acts
  <2> QED BY <1>1, <1>2, <1>5, <1>6, <2>2, <2>3, StepChecked
<1>7. CASE backend # "memory"
  <2>1. pc[a] = "insert" => copy[a] \in User /\ Puts(a, a, copy[a])
    BY PutsUsers DEF Puts
  <2>2. pc[a] = "set" => /\ Edited(a) \in User /\ Puts(a, who[a], Edited(a))
                         /\ who[a] \in Ids
    BY PutsUsers DEF Puts, IInv, CallInv
  <2> QED BY <1>1, <1>3, <1>6, <1>7, <2>1, <2>2, FirestorePuts
<1>8. CASE backend = "memory"
  <2>1. ASSUME NEW u \in Ids, NEW d \in User, Puts(a, u, d), pc[a] \in {"create", "write"},
               Clash(u, d), users' = users, index' = Freed(u, d)
        PROVE  index' = index
    <3>1. CASE pc[a] = "create"
      BY <2>1, <3>1 DEF Puts, Freed, AddressOf, RefInv
    <3>2. CASE pc[a] = "write"
      BY <1>2, <1>4, <1>5, <1>8, <2>1, <3>2, NoClash DEF Puts
    <3> QED BY <2>1, <3>1, <3>2
  <2> QED BY <1>3, <1>6, <1>8, <2>1, MemoryPuts
<1> QED BY <1>7, <1>8

\* The beginning of a request, or the end of a lock.
LEMMA CheckedStays ==
  ASSUME IInv, IInv', NEW c \in Calls, Checked(c), UNCHANGED <<backend, index>>,
         pc'[c] = pc[c], who'[c] = who[c], call'[c] = call[c],
         \A v \in Ids : AddressOf(v)' = AddressOf(v),
         copy[c] # None => copy'[c].email = copy[c].email /\ copy'[c].status = copy[c].status
  PROVE  Checked(c)'
<1>1. pc[c] \in {"create", "insert", "write", "set"} => copy[c] # None
  BY PutsUsers
<1>2. pc[c] = "set" => Edited(c)'.email = Edited(c).email
  BY <1>1, EditedAddress
<1> QED BY <1>1, <1>2 DEF Checked, Free, Op

LEMMA NextUniqueInv ==
  IInv /\ RefInv /\ CopyInv /\ PlaceInv /\ UniqueInv /\ [Next]_vars => UniqueInv'
<1> SUFFICES ASSUME IInv, RefInv, CopyInv, PlaceInv, UniqueInv, [Next]_vars PROVE UniqueInv'
  OBVIOUS
<1>1. IInv' /\ (~Raced' => ~Raced)
  BY NextIInv, NextKeeps, RacedStays
<1>2. ASSUME UNCHANGED <<backend, index>>, \A v \in Ids : AddressOf(v)' = AddressOf(v),
             \A v \in Ids : /\ users[v] # None => users'[v].status = users[v].status
                            /\ users'[v] # None =>
                                 users[v] # None /\ users'[v].email = users[v].email,
             ~Raced => \A c \in Calls : Checked(c)'
      PROVE  UniqueInv'
  BY <1>1, <1>2 DEF UniqueInv, UsersApart, Exact
<1>3. ASSUME NEW a \in Calls, Begin(a) PROVE UniqueInv'
  <2>1. Begins(a) /\ Enters(a)
    BY <1>3, BeginBegins, BeginEnters
  <2>2. \A v \in Ids : AddressOf(v)' = AddressOf(v)
    BY <2>1 DEF Begins, AddressOf
  <2>3. ASSUME ~Raced, NEW c \in Calls PROVE Checked(c)'
    <3>1. CASE c # a
      <4>1. UNCHANGED <<pc[c], who[c], call[c], copy[c]>>
        BY <2>1, <3>1 DEF Begins, Enters
      <4> QED BY <1>1, <2>1, <2>2, <2>3, <4>1, CheckedStays DEF UniqueInv, Begins
    <3>2. CASE c = a
      <4>1. pc'[a] \notin {"insert", "set"}
        BY <2>1 DEF Enters, Admits, First
      <4>2. /\ \A e : NewUser(e, TRUE, "unverified").status # "deleted"
            /\ NewUser(None, FALSE, "active").status # "deleted"
        BY DEF NewUser
      <4>3. pc'[a] = "create" => copy'[a].status # "deleted"
        <5>1. pc'[a] = "create" => \/ \E e : copy'[a] = NewUser(e, TRUE, "unverified")
                                  \/ copy'[a] = NewUser(None, FALSE, "active")
          BY <2>1 DEF Enters, Admits, First
        <5> QED BY <4>2, <5>1
      <4> QED BY <2>1, <3>2, <4>1, <4>3 DEF Checked, Begins
    <3> QED BY <3>1, <3>2
  <2> QED BY <1>2, <2>1, <2>2, <2>3 DEF Begins
<1>4. ASSUME NEW u \in Ids, Expire(u) PROVE UniqueInv'
  <2>1. \A v \in Ids : AddressOf(v)' = AddressOf(v)
    BY <1>4, ExpiresAll DEF AddressOf
  <2>2. ASSUME ~Raced, NEW c \in Calls PROVE Checked(c)'
    BY <1>1, <1>4, <2>1, <2>2, Expires, ExpiresAll, CheckedStays DEF UniqueInv
  <2> QED BY <1>2, <1>4, <2>1, <2>2, Expires, ExpiresAll
<1>5. ASSUME UNCHANGED vars PROVE UniqueInv'
  <2>1. \A v \in Ids : AddressOf(v)' = AddressOf(v)
    BY <1>5 DEF vars, stored, AddressOf
  <2>2. ASSUME ~Raced, NEW c \in Calls PROVE Checked(c)'
    BY <1>1, <1>5, <2>1, <2>2, CheckedStays DEF vars, stored, locals, UniqueInv
  <2> QED BY <1>2, <1>5, <2>1, <2>2 DEF vars, stored
<1> QED BY <1>3, <1>4, <1>5, StepUniqueInv DEF Next

\* The requests that write u and those that write v never overlapped.
Apart(u, v) == \A c \in Writers(u), d \in Writers(v) : ~Overlap(c, d)

\* The address that a request is about to write.
Coming(c) == IF pc[c] = "insert" THEN copy[c].email ELSE Edited(c).email

\* In Firestore the addresses of two users differ until requests that write them
\* overlap, and so does the address that one of them is about to get.
ApartInv ==
    backend # "memory" => \A u, v \in Ids : u # v /\ Apart(u, v) =>
        /\ AddressOf(u) # None => AddressOf(u) # AddressOf(v)
        /\ \A c \in Calls : pc[c] \in {"insert", "set"} /\ who[c] = u =>
              Coming(c) = None \/ AddressOf(v) # Coming(c)

\* A user that is about to be written has its writer.
LEMMA ComingWriter ==
  ASSUME IInv, RefInv, NEW c \in Calls, pc[c] \in {"insert", "set"}
  PROVE  /\ c \in InFlight /\ Op(c) \in Writing /\ c \in Writers(who[c]) /\ who[c] \in Ids
         /\ users[who[c]] = None => c = who[c]
<1>1. Op(c) \in Writing /\ who[c] \in Ids
  BY DEF IInv, CallInv, Placed, Writing
<1> QED BY <1>1 DEF Writers, Started, InFlight, Ends, RefInv

\* Whoever has not overlapped had not before.
LEMMA ApartBefore ==
  ASSUME RefInv, Keeps, NEW u, NEW v, users[v] # None, users[u] # None \/ u \in Writers(u)',
         Apart(u, v)'
  PROVE  Apart(u, v)
<1> SUFFICES ASSUME NEW c \in Writers(u), NEW d \in Writers(v), Overlap(c, d) PROVE FALSE
  BY DEF Apart
<1>1. d \in Writers(v)'
  BY WritersStay
<1>2. c \in Writers(u)'
  <2>1. CASE users[u] # None
    BY <2>1, WritersStay
  <2>2. CASE users[u] = None
    BY <2>2 DEF Writers, Started, RefInv
  <2> QED BY <2>1, <2>2
<1>3. Overlap(c, d)'
  BY OverlapStays DEF Writers
<1> QED BY <1>1, <1>2, <1>3 DEF Apart

\* The invariant of two users whose addresses a step leaves alone.
LEMMA ApartKept ==
  ASSUME IInv, RefInv, Keeps, ApartInv, backend # "memory", NEW u \in Ids, NEW v \in Ids, u # v,
         Apart(u, v)', AddressOf(u)' = AddressOf(u), AddressOf(v)' = AddressOf(v)
  PROVE  /\ AddressOf(u)' # None => AddressOf(u)' # AddressOf(v)'
         /\ \A c \in Calls : pc[c] \in {"insert", "set"} /\ who[c] = u /\ who'[c] = u =>
               Coming(c) = None \/ AddressOf(v)' # Coming(c)
<1> SUFFICES ASSUME users[v] # None
             PROVE  /\ AddressOf(u) # None => AddressOf(u) # AddressOf(v)
                    /\ \A c \in Calls : pc[c] \in {"insert", "set"} /\ who[c] = u /\ who'[c] = u =>
                          Coming(c) = None \/ AddressOf(v) # Coming(c)
  BY Addresses
<1>1. users[u] # None => Apart(u, v)
  BY ApartBefore
<1>2. ASSUME AddressOf(u) # None PROVE AddressOf(u) # AddressOf(v)
  BY <1>1, <1>2, Addresses DEF ApartInv
<1>3. ASSUME NEW c \in Calls, pc[c] \in {"insert", "set"}, who[c] = u, who'[c] = u
      PROVE  Coming(c) = None \/ AddressOf(v) # Coming(c)
  <2>1. c \in Writers(u)' /\ (users[u] = None => c = u)
    BY <1>3, ComingWriter DEF Keeps, Writers
  <2>2. Apart(u, v)
    BY <1>1, <2>1, ApartBefore
  <2> QED BY <1>3, <2>2 DEF ApartInv
<1> QED BY <1>2, <1>3

\* A request that does not act is about to write the same.
LEMMA ComingStays ==
  ASSUME IInv, IInv', NEW c \in Calls, pc[c] \in {"insert", "set"}, pc'[c] = pc[c],
         call'[c] = call[c], copy'[c].email = copy[c].email
  PROVE  Coming(c)' = Coming(c)
BY EditedAddress DEF Coming

\* What a request is about to write when it has just asked.
LEMMA ComingAsked ==
  ASSUME IInv, RefInv, PlaceInv, NEW a \in Calls, Step(a), pc'[a] \in {"insert", "set"},
         users' = users
  PROVE  /\ who' = who /\ copy'[a] = copy[a]
         /\ \/ pc[a] = pc'[a] /\ Coming(a)' = Coming(a)
            \/ Coming(a)' # None => \/ Coming(a)' = AddressOf(who[a])
                                    \/ \A v \in Ids : AddressOf(v) # Coming(a)'
<1>1. Acts(a) /\ Walks(a) /\ call'[a] = call[a]
  BY StepActs, StepWalks DEF Acts
<1>2. /\ pc'[a] = "insert" => pc[a] \in {"create", "insert"}
      /\ pc'[a] = "set" => pc[a] \in {"write", "set"}
  BY <1>1 DEF Walks, Goes, AfterWrite, AfterRevoke, Refusals
<1>3. who' = who /\ copy'[a] = copy[a] /\ Edited(a)' = Edited(a)
  BY <1>1, <1>2, EditedStays DEF Walks, Ends
<1>4. Coming(a)' = IF pc'[a] = "insert" THEN copy[a].email ELSE Edited(a).email
  BY <1>3 DEF Coming
<1>5. pc[a] = "create" => who[a] = a
  BY DEF RefInv
<1> QED BY <1>2, <1>3, <1>4, <1>5, FirestoreAsks DEF Coming, Asked

\* A request that stores its user.
LEMMA StepStores ==
  ASSUME IInv, RefInv, PlaceInv, ApartInv, NEW a \in Calls, Step(a), backend # "memory",
         pc[a] \in {"insert", "set"}, NEW d \in User, d.email = Coming(a),
         users' = [users EXCEPT ![who[a]] = d], pc'[a] \notin {"insert", "set"}
  PROVE  ApartInv'
<1> PICK w : w = who[a]
  OBVIOUS
<1>1. /\ Acts(a) /\ Walks(a) /\ Keeps /\ IInv' /\ who' = who
      /\ \A e \in Calls : call'[e] = call[e]
  BY StepActs, StepWalks, NextKeeps, NextIInv DEF Next, Acts, Walks
<1>2. a \in InFlight /\ a \in Writers(w) /\ w \in Ids /\ (users[w] = None => a = w)
  BY ComingWriter
<1>3. a \in Writers(w)'
  BY <1>1, <1>2 DEF Writers, Keeps
<1>4. \A v \in Ids : AddressOf(v)' = IF v = w THEN d.email ELSE AddressOf(v)
  BY <1>2, NewAddresses
<1>5. ASSUME NEW v \in Ids \ {w}, Apart(w, v)', d.email # None
      PROVE  AddressOf(v) # d.email
  <2>1. CASE users[v] = None
    BY <1>5, <2>1, Addresses
  <2>2. CASE users[v] # None
    <3>1. Apart(w, v)
      BY <1>1, <1>2, <1>3, <1>5, <2>2, ApartBefore
    <3> QED BY <1>2, <1>5, <3>1 DEF ApartInv
  <2> QED BY <2>1, <2>2
<1> SUFFICES ASSUME NEW u \in Ids, NEW v \in Ids, u # v, Apart(u, v)'
             PROVE  /\ AddressOf(u)' # None => AddressOf(u)' # AddressOf(v)'
                    /\ \A c \in Calls : pc'[c] \in {"insert", "set"} /\ who'[c] = u =>
                          Coming(c)' = None \/ AddressOf(v)' # Coming(c)'
  BY DEF ApartInv
<1>6. Apart(v, u)'
  BY DEF Apart, Overlap
<1>7. ASSUME AddressOf(u)' # None PROVE AddressOf(u)' # AddressOf(v)'
  <2>1. CASE u = w
    BY <1>4, <1>5, <1>7, <2>1
  <2>2. CASE v = w
    BY <1>4, <1>5, <1>6, <1>7, <2>2
  <2>3. CASE u # w /\ v # w
    BY <1>1, <1>4, <1>7, <2>3, ApartKept
  <2> QED BY <2>1, <2>2, <2>3
<1>8. ASSUME NEW c \in Calls, pc'[c] \in {"insert", "set"}, who'[c] = u
      PROVE  Coming(c)' = None \/ AddressOf(v)' # Coming(c)'
  <2>1. c # a
    BY <1>8
  <2>2. pc'[c] = pc[c] /\ copy'[c] = copy[c] /\ who[c] = u /\ Coming(c)' = Coming(c)
    BY <1>1, <1>8, <2>1, ComingStays DEF Acts, Walks
  <2>3. c \in InFlight /\ c \in Writers(u) /\ (users[u] = None => c = u)
    BY <1>8, <2>2, ComingWriter
  <2>4. c \in Writers(u)'
    BY <1>1, <1>8, <2>3 DEF Writers, Keeps
  <2>5. v # w
    <3>1. Overlap(c, a)'
      BY <1>1, <1>2, <2>1, <2>3, FlightsOverlap, OverlapStays DEF Writers
    <3> QED BY <1>3, <2>4, <3>1 DEF Apart
  <2>6. AddressOf(v)' = AddressOf(v)
    BY <1>4, <2>5
  <2>7. CASE users[v] = None
    BY <2>6, <2>7, Addresses
  <2>8. CASE users[v] # None
    <3>1. Apart(u, v)
      BY <1>1, <2>3, <2>4, <2>8, ApartBefore
    <3> QED BY <1>8, <2>2, <2>6, <3>1 DEF ApartInv
  <2> QED BY <2>7, <2>8
<1> QED BY <1>7, <1>8

\* A request that asks, or does something else.
LEMMA StepAsks ==
  ASSUME IInv, RefInv, PlaceInv, ApartInv, NEW a \in Calls, Step(a), users' = users
  PROVE  ApartInv'
<1>1. /\ Acts(a) /\ Walks(a) /\ Keeps /\ IInv' /\ (\A e \in Calls : call'[e] = call[e])
      /\ \A v \in Ids : AddressOf(v)' = AddressOf(v)
  BY StepActs, StepWalks, NextKeeps, NextIInv DEF Next, Acts, AddressOf
<1> SUFFICES ASSUME backend # "memory", NEW u \in Ids, NEW v \in Ids, u # v, Apart(u, v)'
             PROVE  /\ AddressOf(u)' # None => AddressOf(u)' # AddressOf(v)'
                    /\ \A c \in Calls : pc'[c] \in {"insert", "set"} /\ who'[c] = u =>
                          Coming(c)' = None \/ AddressOf(v)' # Coming(c)'
  BY <1>1 DEF ApartInv, Acts
<1>2. /\ AddressOf(u)' # None => AddressOf(u)' # AddressOf(v)'
      /\ \A c \in Calls : pc[c] \in {"insert", "set"} /\ who[c] = u /\ who'[c] = u =>
            Coming(c) = None \/ AddressOf(v)' # Coming(c)
  BY <1>1, ApartKept
<1>3. ASSUME NEW c \in Calls, pc'[c] \in {"insert", "set"}, who'[c] = u
      PROVE  Coming(c)' = None \/ AddressOf(v)' # Coming(c)'
  <2>1. CASE c # a
    <3>1. pc'[c] = pc[c] /\ copy'[c] = copy[c] /\ who[c] = u
      BY <1>1, <1>3, <2>1 DEF Acts, Walks, RefInv
    <3>2. Coming(c)' = Coming(c)
      BY <1>1, <1>3, <2>1, <3>1, ComingStays
    <3> QED BY <1>2, <1>3, <3>1, <3>2
  <2>2. CASE c = a
    <3>1. /\ who' = who
          /\ \/ pc[a] = pc'[a] /\ Coming(a)' = Coming(a)
             \/ Coming(a)' # None => \/ Coming(a)' = AddressOf(u)
                                     \/ AddressOf(v) # Coming(a)'
      BY <1>3, <2>2, ComingAsked
    <3> QED BY <1>1, <1>2, <1>3, <2>2, <3>1
  <2> QED BY <2>1, <2>2
<1> QED BY <1>2, <1>3

LEMMA StepApartInv ==
  ASSUME IInv, RefInv, PlaceInv, ApartInv, NEW a \in Calls, Step(a)
  PROVE  ApartInv'
<1>1. CASE backend = "memory"
  BY <1>1, StepActs DEF Acts, ApartInv
<1>2. CASE users' = users
  BY <1>2, StepAsks
<1>3. CASE backend # "memory" /\ pc[a] = "insert" /\ users' = [users EXCEPT ![a] = copy[a]]
           /\ users' # users
  <2>1. copy[a] \in User /\ who[a] = a /\ Coming(a) = copy[a].email
    BY <1>3, PutsUsers DEF RefInv, Coming
  <2>2. pc'[a] \notin {"insert", "set"}
    BY <1>3, StepPuts DEF Creates, Edits
  <2> QED BY <1>3, <2>1, <2>2, StepStores
<1>4. CASE backend # "memory" /\ pc[a] = "set" /\ users' = [users EXCEPT ![who[a]] = Edited(a)]
           /\ users' # users
  <2>1. Edited(a) \in User /\ Coming(a) = Edited(a).email
    BY <1>4, PutsUsers DEF Coming
  <2>2. pc'[a] \notin {"insert", "set"}
    BY <1>4, StepPuts DEF Creates, Edits, AfterWrite
  <2> QED BY <1>4, <2>1, <2>2, StepStores
<1> QED BY <1>1, <1>2, <1>3, <1>4, FirestorePuts

LEMMA NextApartInv == IInv /\ RefInv /\ PlaceInv /\ ApartInv /\ [Next]_vars => ApartInv'
<1> SUFFICES ASSUME IInv, RefInv, PlaceInv, ApartInv, [Next]_vars PROVE ApartInv'
  OBVIOUS
<1>1. IInv' /\ Keeps
  BY NextIInv, NextKeeps
<1>2. ASSUME \A v \in Ids : AddressOf(v)' = AddressOf(v),
             \A c \in Calls : pc'[c] \in {"insert", "set"} =>
                /\ pc[c] = pc'[c] /\ who[c] = who'[c] /\ call[c] = call'[c]
                /\ copy[c] # None => copy'[c].email = copy[c].email
      PROVE  ApartInv'
  <2> SUFFICES ASSUME backend # "memory", NEW u \in Ids, NEW v \in Ids, u # v, Apart(u, v)'
               PROVE  /\ AddressOf(u)' # None => AddressOf(u)' # AddressOf(v)'
                      /\ \A c \in Calls : pc'[c] \in {"insert", "set"} /\ who'[c] = u =>
                            Coming(c)' = None \/ AddressOf(v)' # Coming(c)'
    BY <1>1 DEF ApartInv, Keeps
  <2>1. /\ AddressOf(u)' # None => AddressOf(u)' # AddressOf(v)'
        /\ \A c \in Calls : pc[c] \in {"insert", "set"} /\ who[c] = u /\ who'[c] = u =>
              Coming(c) = None \/ AddressOf(v)' # Coming(c)
    BY <1>1, <1>2, ApartKept
  <2>2. ASSUME NEW c \in Calls, pc'[c] \in {"insert", "set"}, who'[c] = u
        PROVE  Coming(c)' = Coming(c)
    <3>1. pc[c] = pc'[c] /\ copy[c] # None
      BY <1>2, <2>2, PutsUsers
    <3> QED BY <1>1, <1>2, <2>2, <3>1, ComingStays
  <2> QED BY <1>2, <2>1, <2>2
<1>3. ASSUME NEW a \in Calls, Begin(a) PROVE ApartInv'
  <2>1. Begins(a) /\ Enters(a)
    BY <1>3, BeginBegins, BeginEnters
  <2>2. \A v \in Ids : AddressOf(v)' = AddressOf(v)
    BY <2>1 DEF Begins, AddressOf
  <2>3. pc'[a] \notin {"insert", "set"}
    BY <2>1 DEF Enters, Admits, First
  <2>4. \A c \in Calls \ {a} : UNCHANGED <<pc[c], who[c], call[c], copy[c]>>
    BY <2>1 DEF Begins, Enters
  <2> QED BY <1>2, <2>2, <2>3, <2>4
<1>4. ASSUME NEW u \in Ids, Expire(u) PROVE ApartInv'
  <2>1. \A v \in Ids : AddressOf(v)' = AddressOf(v)
    BY <1>4, ExpiresAll DEF AddressOf
  <2> QED BY <1>2, <1>4, <2>1, Expires, ExpiresAll
<1>5. ASSUME UNCHANGED vars PROVE ApartInv'
  BY <1>2, <1>5 DEF vars, stored, locals, AddressOf
<1> QED BY <1>3, <1>4, <1>5, StepApartInv DEF Next

\* Register, ChangeEmail, OAuthCallback, and the writes of both stores: two users
\* get the same address in Firestore only when a request that writes the one
\* overlaps with one that writes the other, and in memory only when requests that
\* write users overlap and a write is refused, or may have been.
THEOREM AddressesDiffer == Spec => []EmailsUnique
<1>1. Init => UniqueInv
  <2> SUFFICES ASSUME Init PROVE UsersApart /\ Exact /\ \A c \in Calls : Checked(c)
    BY DEF UniqueInv
  <2>1. PICK s \in Starts : users = s.users
    BY DEF Init
  <2>2. IInv /\ IndexInv /\ ~Unindexed
    BY InitIInv, InitIndexInv DEF Init, Unindexed, Started
  <2>3. \A u \in Ids : users[u] # None =>
           /\ \A v \in Ids \ {u} : users[v] = None \/ users[v].email # users[u].email
                                    \/ users[u].email = None
           /\ users[u].status # "deleted" \/ users[u].email = None
    BY <2>1, SettledAssumption
  <2>4. UsersApart
    BY <2>3 DEF UsersApart, AddressOf
  <2>5. ASSUME backend = "memory", NEW e \in Emails, index[e] # None
        PROVE  index[e] \in Ids /\ AddressOf(index[e]) = e
    <3>1. /\ \E u \in Ids : users[u] # None /\ users[u].email = e
          /\ index[e] = CHOOSE u \in Ids : users[u] # None /\ users[u].email = e
      BY <2>5 DEF Init
    <3> QED BY <3>1 DEF AddressOf
  <2>6. Exact
    BY <2>2, <2>5 DEF Exact, IndexInv
  <2> QED BY <2>4, <2>6 DEF Init, Checked
<1>2. Init => ApartInv
  <2> SUFFICES ASSUME Init PROVE \A u, v \in Ids : u # v /\ AddressOf(u) # None
                                                      => AddressOf(u) # AddressOf(v)
    BY DEF Init, ApartInv
  <2>1. PICK s \in Starts : users = s.users
    BY DEF Init
  <2>2. \A u, v \in Ids : u # v /\ users[u] # None =>
           users[v] = None \/ users[v].email # users[u].email \/ users[u].email = None
    BY <2>1, SettledAssumption
  <2> QED BY <2>2 DEF AddressOf
<1>3. IInv /\ UniqueInv /\ IndexInv /\ ApartInv => EmailsUnique
  <2> SUFFICES ASSUME IInv, UniqueInv, IndexInv, ApartInv, NEW u \in Ids, NEW v \in Ids, u # v,
                      AddressOf(u) # None, AddressOf(u) = AddressOf(v)
               PROVE  IF backend = "memory" THEN Raced /\ Unindexed
                      ELSE \E c \in Writers(u), d \in Writers(v) : Overlap(c, d)
    BY DEF EmailsUnique
  <2>1. CASE backend = "memory"
    BY <2>1 DEF UniqueInv, UsersApart, IndexInv
  <2>2. CASE backend # "memory"
    BY <2>2 DEF ApartInv, Apart
  <2> QED BY <2>1, <2>2
<1> QED BY <1>1, <1>2, <1>3, NextUniqueInv, NextApartInv, IndexInvariance, PlaceInvariance,
           CopyInvariance, RefInvariance, Invariance, PTL DEF Spec

-----------------------------------------------------------------------------
(* Passwords                                                                *)

Lives(d) == d # None /\ d.status # "deleted"

\* What is stored of user u, or what a request has of it.
Version(u, d) == d = users[u] \/ \E c \in Calls : who[c] = u /\ d = copy[c]

\* Somebody may set or replace a password of u.
Keyed(u) ==
    \/ \E k \in Ids : codes[k] # None /\ codes[k].user = u /\ codes[k].kind = "reset"
    \/ \E c \in Started : Op(c) \in {"forgot", "reset", "password"} /\ who[c] = u

\* Nobody gets a first password, or loses one but with the account: all that
\* requests have of a user agrees on it.
PwInv ==
    \A u \in Ids : \A d : Version(u, d) /\ Lives(d) =>
        /\ Keyed(u) => d.pw
        /\ \A e : Version(u, e) /\ Lives(e) => e.pw = d.pw

\* Some operations go on only with a user that is not deleted.
LivesInv ==
    \A c \in Calls : copy[c] # None =>
        /\ Op(c) \in {"oauth", "unlink", "email"} \/ pc[c] \in {"create", "insert"} => Lives(copy[c])
        /\ pc[c] \in {"create", "insert"} /\ Op(c) = "register" => copy[c].pw

\* A new user, with or without a password.
LEMMA NewUsers ==
  /\ \A e : LET d == NewUser(e, TRUE, "unverified") IN d.status = "unverified" /\ d.pw
  /\ \A e : LET d == NewUser(e, FALSE, "active") IN d.status = "active" /\ ~d.pw
BY DEF NewUser

\* What the copy of a request is after its beginning.
LEMMA NewCopies ==
  ASSUME IInv, RefInv, NEW a \in Calls, Begin(a)
  PROVE  LET d == copy'[a]
             u == who'[a]
             op == Op(a)'
         IN  \/ d = None
             \/ /\ d = users[u] /\ users[u] # None /\ pc'[a] \notin {"create", "insert"}
                /\ op = "oauth" => FALSE
                /\ d.status = "active"
             \/ /\ u = a /\ users[a] = None /\ pc'[a] = "create"
                /\ \/ op = "register" /\ \E e : d = NewUser(e, TRUE, "unverified")
                   \/ op = "oauth" /\ \E e : d = NewUser(e, FALSE, "active")
<1>1. Enters(a) /\ users[a] = None
  BY BeginEnters, BeginBegins DEF Begins, RefInv
<1>2. Admits(a, Op(a)', call'[a].by, call'[a].to, who'[a], copy'[a], pc'[a])
  BY <1>1 DEF Enters, Op
<1>3. Op(a)' \in Bearers => Op(a)' # "oauth" /\ First(Op(a)') \notin {"create", "insert"}
  BY DEF Bearers, First
<1> HIDE DEF Op
<1> QED BY <1>1, <1>2, <1>3 DEF Admits, Known

\* What it is after a step: what it was, what is stored, or a new user.
LEMMA StepCopies ==
  ASSUME IInv, RefInv, NEW a \in Calls, Step(a), NEW c \in Calls, copy'[c] # None
  PROVE  \/ copy'[c] = copy[c] /\ who'[c] = who[c]
         \/ /\ c = a /\ copy'[c] = users[who'[c]] /\ users[who'[c]] # None
            /\ who'[c] \in Ids /\ users' = users
            /\ pc[a] \in {"user", "match"} /\ pc'[a] \notin {"create", "insert"}
            /\ Op(c) = "oauth" => copy'[c].status # "deleted"
         \/ /\ c = a /\ who'[c] = a /\ users[a] = None /\ users' = users /\ pc'[a] = "create"
            /\ pc[a] = "match" /\ Op(c) = "oauth"
            /\ \E e : copy'[c] = NewUser(e, FALSE, "active")
<1>1. Acts(a) /\ Walks(a) /\ pc[a] # "idle"
  BY StepActs, StepWalks DEF Acts
<1>2. CASE c # a \/ pc[a] \notin {"user", "match"}
  BY <1>1, <1>2 DEF Acts, Walks
<1>3. pc[a] \in {"user", "match"} => users' = users
  BY StepPuts DEF Creates, Edits
<1>4. CASE c = a /\ pc[a] = "user"
  <2>1. FitUser(a, users[who[a]]) /\ copy'[a] = users[who[a]] /\ who' = who /\ who[a] \in Ids
    BY <1>1, <1>4 DEF Walks, IInv, CallInv
  <2>2. pc'[a] \notin {"create", "insert"}
    BY <1>1, <1>4, ComesFrom DEF Walks
  <2> QED BY <1>3, <1>4, <2>1, <2>2 DEF FitUser
<1>5. CASE c = a /\ pc[a] = "match"
  <2>1. Op(a) = "oauth" /\ who[a] = a /\ users[a] = None
    BY <1>1, <1>5 DEF RefInv, IInv, CallInv, Placed, Refusals
  <2>2. pc'[a] \in Refusals \cup {"create", "link"}
    BY <1>1, <1>5 DEF Walks, Goes, Revs
  <2>3. pc'[a] \notin Refusals
    BY <1>1, <1>5 DEF Walks, Refusals, Ends
  <2> QED BY <1>1, <1>3, <1>5, <2>1, <2>2, <2>3 DEF Walks
<1> QED BY <1>2, <1>4, <1>5

LEMMA NextLivesInv == IInv /\ RefInv /\ LivesInv /\ [Next]_vars => LivesInv'
<1> SUFFICES ASSUME IInv, RefInv, LivesInv, [Next]_vars PROVE LivesInv'
  OBVIOUS
<1>1. ASSUME NEW a \in Calls, Begin(a) PROVE LivesInv'
  <2> SUFFICES ASSUME NEW c \in Calls, copy'[c] # None
               PROVE  /\ Op(c)' \in {"oauth", "unlink", "email"} \/ pc'[c] \in {"create", "insert"}
                           => Lives(copy'[c])
                      /\ pc'[c] \in {"create", "insert"} /\ Op(c)' = "register" => copy'[c].pw
    BY DEF LivesInv, Lives
  <2>1. CASE c # a
    <3>1. UNCHANGED <<pc[c], copy[c]>> /\ Op(c)' = Op(c)
      BY <1>1, <2>1, BeginBegins, BeginEnters DEF Begins, Enters, Op
    <3> QED BY <3>1 DEF LivesInv
  <2>2. CASE c = a
    <3>1. CASE copy'[a] = users[who'[a]] /\ users[who'[a]] # None /\ copy'[a].status = "active"
               /\ pc'[a] \notin {"create", "insert"}
      BY <2>2, <3>1 DEF Lives
    <3>2. CASE Op(a)' = "register" /\ \E e : copy'[a] = NewUser(e, TRUE, "unverified")
      BY <2>2, <3>2, NewUsers DEF Lives
    <3>3. CASE Op(a)' = "oauth" /\ \E e : copy'[a] = NewUser(e, FALSE, "active")
      BY <2>2, <3>3, NewUsers DEF Lives
    <3> QED BY <1>1, <2>2, <3>1, <3>2, <3>3, NewCopies
  <2> QED BY <2>1, <2>2
<1>2. ASSUME NEW a \in Calls, Step(a) PROVE LivesInv'
  <2> SUFFICES ASSUME NEW c \in Calls, copy'[c] # None
               PROVE  /\ Op(c) \in {"oauth", "unlink", "email"} \/ pc'[c] \in {"create", "insert"}
                           => Lives(copy'[c])
                      /\ pc'[c] \in {"create", "insert"} /\ Op(c) = "register" => copy'[c].pw
    BY <1>2, StepActs DEF LivesInv, Lives, Acts, Op
  <2>1. /\ Acts(a) /\ Goes(Op(a), pc[a], pc'[a])
        /\ pc[a] \notin Ends \cup {"idle"} /\ Placed(Op(a), pc[a])
    BY <1>2, StepActs, StepWalks DEF Acts, Walks, IInv, CallInv
  <2>2. CASE copy'[c] = copy[c]
    <3>1. ASSUME pc'[c] \in {"create", "insert"} PROVE pc[c] \in {"create", "insert"}
      <4>1. c = a /\ pc[a] = "match" => FALSE
        BY <2>2 DEF RefInv
      <4> QED BY <2>1, <3>1, <4>1, ComesFrom DEF Acts
    <3> QED BY <2>2, <3>1 DEF LivesInv
  <2>3. CASE /\ c = a /\ copy'[c] = users[who'[c]] /\ users[who'[c]] # None
             /\ pc[a] \in {"user", "match"} /\ pc'[a] \notin {"create", "insert"}
             /\ Op(c) = "oauth" => copy'[c].status # "deleted"
    <3>1. Op(a) \in {"oauth", "refresh", "verify", "reset"}
      BY <2>1, <2>3 DEF Placed
    <3> QED BY <2>3, <3>1 DEF Lives
  <2>4. CASE c = a /\ Op(c) = "oauth" /\ \E e : copy'[c] = NewUser(e, FALSE, "active")
    BY <2>4, NewUsers DEF Lives
  <2> QED BY <1>2, <2>2, <2>3, <2>4, StepCopies
<1>3. ASSUME NEW u \in Ids, Expire(u) PROVE LivesInv'
  BY <1>3, Expires, ExpiresAll DEF LivesInv, Lives, Op
<1>4. UNCHANGED vars => LivesInv'
  BY DEF vars, locals, LivesInv, Lives, Op
<1> QED BY <1>1, <1>2, <1>3, <1>4 DEF Next

LEMMA LivesInvariance == Spec => []LivesInv
<1>1. Init => LivesInv
  BY DEF Init, LivesInv
<1> QED BY <1>1, NextLivesInv, RefInvariance, Invariance, PTL DEF Spec

\* What is written of a user that is not deleted has the password that the copy has.
LEMMA EditedLives ==
  ASSUME IInv, LivesInv, PwInv, NEW a \in Calls, pc[a] \in {"write", "set"}, Lives(Edited(a))
  PROVE  Lives(copy[a]) /\ Edited(a).pw = copy[a].pw
<1>1. who[a] \in Ids /\ a \in Started /\ copy[a] \in User /\ copy[a] # None
  BY EditedFields, NoneAssumption DEF IInv, CallInv, Started
<1>2. Op(a) # "delete"
  BY EditedFields DEF Lives
<1>3. Lives(copy[a])
  <2>1. CASE Op(a) \in {"oauth", "email"}
    BY <1>1, <2>1 DEF LivesInv
  <2>2. CASE Op(a) \notin {"oauth", "email"}
    BY <1>1, <1>2, <2>2, EditedFields DEF Lives
  <2> QED BY <2>1, <2>2
<1>4. CASE Op(a) \in {"reset", "password"}
  <2>1. Keyed(who[a]) /\ Version(who[a], copy[a])
    BY <1>1, <1>4 DEF Keyed, Version
  <2>2. copy[a].pw
    BY <1>1, <1>3, <2>1 DEF PwInv
  <2>3. Edited(a).pw = TRUE /\ copy[a].pw \in BOOLEAN
    BY <1>1, <1>2, <1>4, EditedFields DEF User
  <2> QED BY <1>3, <2>2, <2>3
<1>5. CASE Op(a) \notin {"reset", "password"}
  BY <1>2, <1>3, <1>5, EditedFields
<1> QED BY <1>4, <1>5

\* What there is of user u has the password that there was before.
Kept(u) ==
    /\ Keyed(u)' => Keyed(u) \/ (Lives(users[u]) /\ users[u].pw)
    /\ \A d : Version(u, d)' /\ Lives(d) => \E e : Version(u, e) /\ Lives(e) /\ e.pw = d.pw

LEMMA PwKept ==
  ASSUME PwInv, NEW u \in Ids, Kept(u)
  PROVE  \A d : Version(u, d)' /\ Lives(d) =>
           /\ Keyed(u)' => d.pw
           /\ \A e : Version(u, e)' /\ Lives(e) => e.pw = d.pw
<1> SUFFICES ASSUME NEW d, Version(u, d)', Lives(d)
             PROVE  /\ Keyed(u)' => d.pw
                    /\ \A e : Version(u, e)' /\ Lives(e) => e.pw = d.pw
  OBVIOUS
<1>1. PICK f : Version(u, f) /\ Lives(f) /\ f.pw = d.pw
  BY DEF Kept
<1>2. ASSUME NEW e, Version(u, e)', Lives(e) PROVE e.pw = d.pw
  <2>1. PICK g : Version(u, g) /\ Lives(g) /\ g.pw = e.pw
    BY <1>2 DEF Kept
  <2>2. g.pw = f.pw
    BY <1>1, <2>1 DEF PwInv
  <2> QED BY <1>1, <2>1, <2>2
<1>3. ASSUME Keyed(u)' PROVE d.pw
  <2>1. CASE Keyed(u)
    <3>1. f.pw
      BY <1>1, <2>1 DEF PwInv
    <3> QED BY <1>1, <3>1
  <2>2. CASE Lives(users[u]) /\ users[u].pw
    <3>1. Version(u, users[u])
      BY DEF Version
    <3>2. users[u].pw = f.pw
      BY <1>1, <2>2, <3>1 DEF PwInv
    <3> QED BY <1>1, <2>2, <3>2
  <2> QED BY <1>3, <2>1, <2>2 DEF Kept
<1> QED BY <1>2, <1>3

\* Of a user that is being made there is but the copy of its request.
OnlyCopy ==
    \A a \in Calls : users[a] = None =>
        ~Keyed(a) /\ \A d : Version(a, d) /\ Lives(d) => d = copy[a]

LEMMA MakingCopy == IInv /\ RefInv => OnlyCopy
<1> SUFFICES ASSUME IInv, RefInv, NEW a \in Calls, users[a] = None
             PROVE  ~Keyed(a) /\ \A d : Version(a, d) /\ Lives(d) => d = copy[a]
  BY DEF OnlyCopy
<1>1. a \in Ids
  BY DEF Ids
<1>2. ~Keyed(a)
  <2>1. \A k \in Ids : codes[k] # None => codes[k].user # a
    BY DEF RefInv
  <2>2. \A c \in Started : who[c] = a => Op(c) \in {"register", "oauth"}
    BY DEF Started, RefInv
  <2> QED BY <2>1, <2>2 DEF Keyed
<1>3. ASSUME NEW d, Version(a, d), Lives(d) PROVE d = copy[a]
  <2>1. PICK c \in Calls : who[c] = a /\ d = copy[c]
    BY <1>3 DEF Version, Lives
  <2>2. c = a
    BY <1>3, <2>1 DEF Lives, RefInv
  <2> QED BY <2>1, <2>2
<1> QED BY <1>2, <1>3

LEMMA StepKeyed ==
  ASSUME IInv, NEW a \in Calls, Step(a), NEW u \in Ids, Keyed(u)'
  PROVE  Keyed(u)
<1>1. CASE \E k \in Ids : codes'[k] # None /\ codes'[k].user = u /\ codes'[k].kind = "reset"
  <2>1. PICK k \in Ids : codes'[k] # None /\ codes'[k].user = u /\ codes'[k].kind = "reset"
    BY <1>1
  <2>2. CASE codes[k] # None /\ codes'[k].user = codes[k].user /\ codes'[k].kind = codes[k].kind
    BY <2>1, <2>2 DEF Keyed
  <2>3. CASE pc[a] = "mail" /\ who[a] = u /\ Op(a) = "forgot"
    BY <2>3 DEF Keyed, Started
  <2> QED BY <2>1, <2>2, <2>3, CodeOwners
<1>2. CASE \E c \in Started' : Op(c)' \in {"forgot", "reset", "password"} /\ who'[c] = u
  <2>1. PICK c \in Started' : Op(c)' \in {"forgot", "reset", "password"} /\ who'[c] = u
    BY <1>2
  <2>2. c \in Started /\ Op(c) = Op(c)' /\ who'[c] = who[c]
    BY <2>1, StepActs DEF Acts, Started, Op
  <2> QED BY <2>1, <2>2 DEF Keyed
<1> QED BY <1>1, <1>2 DEF Keyed

LEMMA StepPwInv ==
  ASSUME IInv, RefInv, LivesInv, PwInv, NEW a \in Calls, Step(a)
  PROVE  PwInv'
<1> SUFFICES ASSUME NEW u \in Ids
             PROVE  \A d : Version(u, d)' /\ Lives(d) =>
                      /\ Keyed(u)' => d.pw
                      /\ \A e : Version(u, e)' /\ Lives(e) => e.pw = d.pw
  BY DEF PwInv, Ids, Lives
<1>1. CASE u = a /\ users'[a] = None
  <2>1. IInv' /\ RefInv'
    BY NextIInv, NextRefInv DEF Next
  <2>2. OnlyCopy'
    BY <2>1, MakingCopy, PTL
  <2> QED BY <1>1, <2>2 DEF OnlyCopy
<1>2. CASE ~(u = a /\ users'[a] = None)
  <2>1. ASSUME NEW d, Version(u, d)', Lives(d)
        PROVE  \E e : Version(u, e) /\ Lives(e) /\ e.pw = d.pw
    <3>1. CASE d = users'[u]
      <4>1. CASE users'[u] = users[u]
        BY <2>1, <3>1, <4>1 DEF Version
      <4>2. CASE Creates(a) /\ u = a /\ users'[u] = copy[a]
        <5>1. who[a] = u
          BY <4>2, OwnMaking
        <5> QED BY <2>1, <3>1, <4>2, <5>1 DEF Version
      <4>3. CASE Edits(a) /\ u = who[a] /\ users'[u] = Edited(a)
        <5>1. Lives(copy[a]) /\ copy[a].pw = d.pw
          BY <2>1, <3>1, <4>3, EditedLives DEF Edits
        <5> QED BY <4>3, <5>1 DEF Version
      <4> QED BY <4>1, <4>2, <4>3, StepUsers
    <3>2. ASSUME NEW c \in Calls, who'[c] = u, d = copy'[c]
          PROVE  \E e : Version(u, e) /\ Lives(e) /\ e.pw = d.pw
      <4>1. copy'[c] # None
        BY <2>1, <3>2 DEF Lives
      <4>2. CASE copy'[c] = copy[c] /\ who'[c] = who[c]
        BY <2>1, <3>2, <4>2 DEF Version
      <4>3. CASE copy'[c] = users[who'[c]]
        BY <2>1, <3>2, <4>3 DEF Version
      <4>4. ~(c = a /\ who'[c] = a /\ users[a] = None /\ users' = users)
        BY <1>2, <3>2
      <4> QED BY <4>1, <4>2, <4>3, <4>4, StepCopies
    <3> QED BY <2>1, <3>1, <3>2 DEF Version
  <2>2. Kept(u)
    BY <2>1, StepKeyed DEF Kept
  <2> QED BY <2>2, PwKept
<1> QED BY <1>1, <1>2

\* Whoever asks for a reset, resets a password or changes one has one, or a code.
LEMMA BeginKeyed ==
  ASSUME IInv, RefInv, NEW a \in Calls, Begin(a), NEW u \in Ids, Keyed(u)'
  PROVE  Keyed(u) \/ (Lives(users[u]) /\ users[u].pw)
<1>1. codes' = codes
  BY BeginBegins DEF Begins
<1>2. CASE \E k \in Ids : codes'[k] # None /\ codes'[k].user = u /\ codes'[k].kind = "reset"
  BY <1>1, <1>2 DEF Keyed
<1>3. CASE \E c \in Started' : Op(c)' \in {"forgot", "reset", "password"} /\ who'[c] = u
  <2>1. PICK c \in Started' : Op(c)' \in {"forgot", "reset", "password"} /\ who'[c] = u
    BY <1>3
  <2>2. CASE c # a
    <3>1. c \in Started /\ Op(c) = Op(c)' /\ who'[c] = who[c]
      BY <2>1, <2>2, BeginBegins DEF Begins, Started, Op
    <3> QED BY <2>1, <3>1 DEF Keyed
  <2>3. CASE c = a
    <3>1. Admits(a, Op(a)', call'[a].by, call'[a].to, who'[a], copy'[a], pc'[a])
      BY BeginEnters DEF Enters, Op
    <3>2. Op(a)' \in {"forgot", "reset", "password"} /\ who'[a] = u
      BY <2>1, <2>3
    <3> HIDE DEF Op
    <3>3. CASE Op(a)' = "forgot"
      BY <3>1, <3>2, <3>3 DEF Admits, Known, Bearers, Lives
    <3>4. CASE Op(a)' = "reset"
      BY <3>1, <3>2, <3>4 DEF Admits, Known, Bearers, Keyed
    <3>5. CASE Op(a)' = "password"
      BY <3>1, <3>2, <3>5 DEF Admits, Known, Bearers, Lives
    <3> QED BY <3>2, <3>3, <3>4, <3>5
  <2> QED BY <2>2, <2>3
<1> QED BY <1>2, <1>3 DEF Keyed

LEMMA BeginPwInv ==
  ASSUME IInv, RefInv, PwInv, NEW a \in Calls, Begin(a)
  PROVE  PwInv'
<1> SUFFICES ASSUME NEW u \in Ids
             PROVE  \A d : Version(u, d)' /\ Lives(d) =>
                      /\ Keyed(u)' => d.pw
                      /\ \A e : Version(u, e)' /\ Lives(e) => e.pw = d.pw
  BY DEF PwInv, Ids, Lives
<1>1. CASE u = a
  <2>1. IInv' /\ RefInv'
    BY NextIInv, NextRefInv DEF Next
  <2>2. OnlyCopy'
    BY <2>1, MakingCopy, PTL
  <2>3. users'[a] = None
    BY BeginBegins DEF Begins, RefInv
  <2> QED BY <1>1, <2>2, <2>3 DEF OnlyCopy
<1>2. CASE u # a
  <2>1. ASSUME NEW d, Version(u, d)', Lives(d) PROVE Version(u, d)
    <3>1. /\ users' = users
          /\ \A c \in Calls \ {a} : who'[c] = who[c] /\ copy'[c] = copy[c]
      BY BeginBegins, BeginEnters DEF Begins, Enters
    <3>2. who'[a] = u /\ d = copy'[a] => d = users[u]
      BY <1>2, <2>1, NewCopies DEF Lives
    <3> QED BY <2>1, <3>1, <3>2 DEF Version
  <2>2. Kept(u)
    BY <2>1, BeginKeyed DEF Kept
  <2> QED BY <2>2, PwKept
<1> QED BY <1>1, <1>2

LEMMA NextPwInv == IInv /\ RefInv /\ LivesInv /\ PwInv /\ [Next]_vars => PwInv'
<1>1. ASSUME IInv, PwInv, NEW v \in Ids, Expire(v) PROVE PwInv'
  <2> SUFFICES ASSUME NEW u \in Ids
               PROVE  \A d : Version(u, d)' /\ Lives(d) =>
                        /\ Keyed(u)' => d.pw
                        /\ \A e : Version(u, e)' /\ Lives(e) => e.pw = d.pw
    BY DEF PwInv, Ids, Lives
  <2>1. Keyed(u)' => Keyed(u)
    BY <1>1, Expires DEF Keyed, Started, Op
  <2>2. ASSUME NEW d, Version(u, d)', Lives(d)
        PROVE  \E e : Version(u, e) /\ Lives(e) /\ e.pw = d.pw
    <3>1. CASE d = users'[u]
      <4>1. Lives(users[u]) /\ users[u].pw = d.pw
        BY <1>1, <2>2, <3>1, ExpiresAll DEF Lives
      <4> QED BY <4>1 DEF Version
    <3>2. ASSUME NEW c \in Calls, who'[c] = u, d = copy'[c]
          PROVE  \E e : Version(u, e) /\ Lives(e) /\ e.pw = d.pw
      <4>1. Lives(copy[c]) /\ copy[c].pw = d.pw /\ who[c] = u
        BY <1>1, <2>2, <3>2, Expires, ExpiresAll DEF Lives
      <4> QED BY <4>1 DEF Version
    <3> QED BY <2>2, <3>1, <3>2 DEF Version
  <2>3. Kept(u)
    BY <2>1, <2>2 DEF Kept
  <2> QED BY <1>1, <2>3, PwKept
<1>2. UNCHANGED vars => (PwInv => PwInv')
  BY DEF vars, stored, locals, PwInv, Version, Keyed, Lives, Started, Op
<1> QED BY <1>1, <1>2, StepPwInv, BeginPwInv DEF Next

LEMMA PwInvariance == Spec => []PwInv
<1>1. Init => PwInv
  <2> SUFFICES ASSUME Init, NEW u \in Ids, NEW d, Version(u, d), Lives(d)
               PROVE  /\ Keyed(u) => d.pw
                      /\ \A e : Version(u, e) /\ Lives(e) => e.pw = d.pw
    BY DEF PwInv
  <2>1. \A e : Version(u, e) /\ Lives(e) => e = users[u]
    BY DEF Version, Lives, Init
  <2>2. PICK s \in Starts : users = s.users /\ codes = s.codes
    BY DEF Init
  <2>3. Keyed(u) => \E k \in Ids : codes[k] # None /\ codes[k].user = u /\ codes[k].kind = "reset"
    BY DEF Keyed, Started, Init
  <2>4. users[u] # None /\ users[u].status # "deleted" /\ d = users[u]
    BY <2>1 DEF Lives
  <2>5. Keyed(u) => d.pw
    BY <2>2, <2>3, <2>4, SettledAssumption
  <2> QED BY <2>1, <2>5
<1> QED BY <1>1, NextPwInv, LivesInvariance, RefInvariance, Invariance, PTL DEF Spec

-----------------------------------------------------------------------------
(* Deletion                                                                 *)

Contended(u) == \E c, d \in Calls : Contend(c, d, u)

\* As long as no request overlaps with a deletion of its user, all that requests
\* have of a user agrees on whether it is deleted.
AgreeInv ==
    \A u \in Ids : \A c \in Started :
        copy[c] # None /\ who[c] = u /\ users[u] # None /\ ~Contended(u) =>
            /\ Raised(Op(c), pc[c]) \/ (copy[c].status = "deleted" <=> users[u].status = "deleted")
            /\ Op(c) = "delete" /\ Raised("delete", pc[c]) => users[u].status = "deleted"

LEMMA ContendedStays ==
  ASSUME RefInv, Keeps, NEW u, Contended(u)
  PROVE  Contended(u)'
<1>1. PICK c, d \in Calls : Contend(c, d, u)
  BY DEF Contended
<1>2. c \in Started /\ d \in Started /\ Overlap(c, d) /\ Overlap(c, d)'
  BY <1>1, OverlapStays DEF Contend, Overlap
<1>3. /\ Op(c)' = Op(c) /\ call'[c] = call[c] /\ (users[who[c]] # None => who'[c] = who[c])
      /\ Op(d)' = Op(d) /\ call'[d] = call[d] /\ (users[who[d]] # None => who'[d] = who[d])
  BY <1>2 DEF Keeps
<1>4. Op(c) \notin {"register", "oauth"} => users[who[c]] # None
  BY <1>2 DEF Started, RefInv
<1>5. Op(d) \notin {"register", "oauth"} => users[who[d]] # None
  BY <1>2 DEF Started, RefInv
<1>6. CASE {Op(c), Op(d)} = {"unlink"} /\ who[c] = u /\ who[d] = u
  <2>1. Op(c) = "unlink" /\ Op(d) = "unlink"
    BY <1>6
  <2>2. Contend(c, d, u)'
    BY <1>2, <1>3, <1>4, <1>5, <1>6, <2>1 DEF Contend
  <2> QED BY <2>2 DEF Contended
<1>7. CASE c = u /\ {Op(c), Op(d)} \subseteq {"oauth", "link"} /\ call[c].to = call[d].to
  <2>1. Contend(c, d, u)'
    BY <1>2, <1>3, <1>7 DEF Contend
  <2> QED BY <2>1 DEF Contended
<1>8. CASE Op(c) = "delete" /\ who[c] = u /\ who[d] = u
  <2>1. Contend(c, d, u)'
    BY <1>2, <1>3, <1>4, <1>8 DEF Contend
  <2> QED BY <2>1 DEF Contended
<1> QED BY <1>1, <1>6, <1>7, <1>8 DEF Contend

\* Nothing but a deletion deletes a user or brings it back.
LEMMA EditedDeletes ==
  ASSUME IInv, LivesInv, NEW a \in Calls, pc[a] \in {"write", "set"}, Op(a) # "delete"
  PROVE  Edited(a).status = "deleted" <=> copy[a].status = "deleted"
<1>1. copy[a] # None
  BY EditedFields, NoneAssumption
<1>2. Op(a) \in {"oauth", "email"} => copy[a].status # "deleted"
  BY <1>1 DEF LivesInv, Lives
<1> QED BY <1>2, EditedFields

\* A request that has raised the version of its user still has when it goes on.
LEMMA RaisedStays ==
  ASSUME IInv, NEW a \in Calls, Step(a), Raised(Op(a), pc[a]), pc'[a] \notin Ends
  PROVE  Raised(Op(a), pc'[a])
<1>1. Goes(Op(a), pc[a], pc'[a]) /\ pc[a] \notin Ends /\ Placed(Op(a), pc[a])
  BY StepWalks, StepActs DEF Walks, Acts, IInv, CallInv
<1>2. pc[a] \in Revs \cup {"mark", "mail", "list", "drop"} /\ Op(a) \in Ending \ {"logout"}
  BY <1>1 DEF Raised, Ends
<1>3. pc'[a] \in Revs \cup {"mark", "mail", "list", "drop", "ok"}
  BY <1>1, <1>2 DEF Goes, AfterRevoke, Revs, Refusals, Ends, Ending
<1> QED BY <1>2, <1>3 DEF Raised

LEMMA StepAgreeInv ==
  ASSUME IInv, RefInv, LivesInv, AgreeInv, NEW a \in Calls, Step(a)
  PROVE  AgreeInv'
<1> SUFFICES ASSUME NEW u \in Ids, NEW c \in Started', copy'[c] # None, who'[c] = u,
                    users'[u] # None, ~Contended(u)'
             PROVE  /\ \/ Raised(Op(c), pc[c])'
                       \/ copy'[c].status = "deleted" <=> users'[u].status = "deleted"
                    /\ Op(c)' = "delete" /\ Raised("delete", pc[c])' => users'[u].status = "deleted"
  BY DEF AgreeInv, Ids
<1>1. Acts(a) /\ Walks(a) /\ Keeps
  BY StepActs, StepWalks, NextKeeps DEF Next
<1>2. /\ c \in Calls /\ c \in Started /\ Op(c)' = Op(c) /\ ~Contended(u)
      /\ Placed(Op(a), pc[a]) /\ (c # a => pc'[c] = pc[c])
  BY <1>1, ContendedStays DEF Acts, Started, Op, IInv, CallInv
<1>3. CASE copy'[c] = copy[c] /\ who'[c] = who[c]
  <2>1. u \in Ids /\ pc'[c] \notin Ends
    <3>1. c = a => pc'[c] \notin Ends
      BY <1>1 DEF Walks
    <3>2. c # a => pc'[c] \notin Ends
      BY <1>2, <1>3 DEF RefInv
    <3> QED BY <1>2, <1>3, <3>1, <3>2 DEF Started, IInv, CallInv
  <2>2. CASE users[u] = None
    <3>1. Creates(a) /\ u = a /\ users'[u] = copy[a]
      BY <2>1, <2>2, StepUsers, Storing DEF Edits
    <3>2. who[c] = a
      BY <1>3, <3>1
    <3>3. \A b \in Started : who[b] = a => b = a
      BY <3>1, OwnMaking
    <3>4. Op(a) # "delete"
      BY <3>1, OwnMaking
    <3>5. c = a
      BY <1>2, <3>2, <3>3
    <3> QED BY <1>2, <1>3, <3>1, <3>4, <3>5
  <2>3. CASE users'[u] = users[u] /\ users[u] # None /\ ~(Edits(a) /\ u = who[a])
    <3>1. Raised(Op(c), pc[c]) => Raised(Op(c), pc'[c])
      <4>1. CASE c = a
        BY <2>1, <4>1, RaisedStays
      <4>2. CASE c # a
        BY <1>2, <4>2
      <4> QED BY <4>1, <4>2
    <3>2. Op(c) = "delete" /\ Raised("delete", pc'[c]) => Raised("delete", pc[c])
      BY <1>2, <1>3, <2>3, RaisedFrom
    <3> QED BY <1>2, <1>3, <2>3, <3>1, <3>2 DEF AgreeInv
  <2>4. CASE Edits(a) /\ u = who[a] /\ users[u] # None
    <3>1. users'[u] = Edited(a)
      BY <2>4, Tables DEF Edits, IInv
    <3>2. pc[a] \in {"write", "set"} /\ pc'[a] \in {AfterWrite(Op(a)), "locked"}
      BY <2>4 DEF Edits
    <3>3. Op(a) = "delete" => Edited(a).status = "deleted"
      BY <3>2, EditedFields
    <3>4. CASE c = a
      <4>1. pc'[a] = AfterWrite(Op(a)) /\ Op(a) \in Writing \ {"register"}
        BY <1>2, <2>1, <3>2, <3>4 DEF Ends, Placed
      <4>2. Op(a) \in {"login", "oauth", "verify"} \/ Raised(Op(a), pc'[a])
        BY <2>1, <3>4, <4>1 DEF AfterWrite, Raised, Ending, Writing, Revs, Ends
      <4>3. Op(a) # "delete" => Edited(a).status = "deleted" <=> copy[a].status = "deleted"
        BY <3>2, EditedDeletes
      <4> QED BY <1>2, <1>3, <3>1, <3>3, <3>4, <4>2, <4>3
    <3>5. CASE c # a
      <4>1. c \in InFlight /\ a \in InFlight /\ a \in Started
        BY <1>1, <1>2, <2>1, <3>5, Storing, <2>4 DEF InFlight, Started
      <4>2. Op(a) # "delete"
        BY <1>2, <1>3, <2>4, <3>5, <4>1, FlightsOverlap DEF Contended, Contend
      <4>3. copy[a] # None /\ ~Raised(Op(a), pc[a])
        BY <3>2, EditedFields, NoneAssumption DEF Raised, Revs
      <4>4. copy[a].status = "deleted" <=> users[u].status = "deleted"
        BY <1>2, <2>4, <4>1, <4>3 DEF AgreeInv
      <4>5. users'[u].status = "deleted" <=> users[u].status = "deleted"
        BY <3>1, <3>2, <4>2, <4>4, EditedDeletes
      <4> QED BY <1>2, <1>3, <2>4, <3>5, <4>5 DEF AgreeInv
    <3> QED BY <3>4, <3>5
  <2> QED BY <2>1, <2>2, <2>3, <2>4, StepUsers, OwnMaking
<1>4. CASE c = a /\ copy'[c] = users[who'[c]] /\ users' = users /\ pc[a] \in {"user", "match"}
  <2>1. Op(c) # "delete"
    BY <1>2, <1>4 DEF Placed
  <2> QED BY <1>2, <1>4, <2>1
<1>5. ~(c = a /\ who'[c] = a /\ users[a] = None /\ users' = users)
  OBVIOUS
<1> QED BY <1>2, <1>3, <1>4, <1>5, StepCopies

LEMMA NextAgreeInv == IInv /\ RefInv /\ LivesInv /\ AgreeInv /\ [Next]_vars => AgreeInv'
<1>1. ASSUME IInv, RefInv, AgreeInv, NEW a \in Calls, Begin(a) PROVE AgreeInv'
  <2> SUFFICES ASSUME NEW u \in Ids, NEW c \in Started', copy'[c] # None, who'[c] = u,
                      users'[u] # None, ~Contended(u)'
               PROVE  /\ \/ Raised(Op(c), pc[c])'
                         \/ copy'[c].status = "deleted" <=> users'[u].status = "deleted"
                      /\ Op(c)' = "delete" /\ Raised("delete", pc[c])'
                           => users'[u].status = "deleted"
    BY DEF AgreeInv, Ids
  <2>1. Begins(a) /\ Enters(a) /\ Keeps
    BY <1>1, BeginBegins, BeginEnters, NextKeeps DEF Next
  <2>2. users' = users /\ ~Contended(u)
    BY <1>1, <2>1, ContendedStays DEF Begins
  <2>3. CASE c # a
    <3>1. c \in Started /\ Op(c)' = Op(c) /\ UNCHANGED <<pc[c], who[c], copy[c]>>
      BY <2>1, <2>3 DEF Begins, Enters, Started, Op
    <3> QED BY <1>1, <2>2, <3>1 DEF AgreeInv
  <2>4. CASE c = a
    <3>1. copy'[a] = users[u]
      BY <1>1, <2>2, <2>4, NewCopies
    <3>2. Op(a)' = "delete" => ~Raised("delete", pc'[a])
      BY <2>1 DEF Begins, Raised, Revs
    <3> QED BY <2>2, <2>4, <3>1, <3>2
  <2> QED BY <2>3, <2>4
<1>2. ASSUME IInv, RefInv, AgreeInv, NEW v \in Ids, Expire(v) PROVE AgreeInv'
  <2>1. Keeps
    BY <1>2, NextKeeps DEF Next
  <2>2. \A u : Contended(u) => Contended(u)'
    BY <1>2, <2>1, ContendedStays
  <2>3. Started' = Started /\ UNCHANGED <<pc, who>> /\ \A c \in Calls : Op(c)' = Op(c)
    BY <1>2, Expires DEF Started, Op
  <2>4. Started \subseteq Calls
    BY DEF Started
  <2>5. \A c \in Calls : copy'[c] # None => copy[c] # None /\ copy'[c].status = copy[c].status
    BY <1>2, ExpiresAll
  <2>6. \A u \in Ids : users'[u] # None => users[u] # None /\ users'[u].status = users[u].status
    BY <1>2, ExpiresAll
  <2> QED BY <1>2, <2>2, <2>3, <2>4, <2>5, <2>6 DEF AgreeInv
<1>3. ASSUME AgreeInv, UNCHANGED vars PROVE AgreeInv'
  <2>1. \A u : Contended(u)' <=> Contended(u)
    BY <1>3 DEF vars, stored, locals, Contended, Contend, Overlap, Started, Op
  <2>2. Started' = Started /\ UNCHANGED <<users, copy, who, pc>> /\ \A c : Op(c)' = Op(c)
    BY <1>3 DEF vars, stored, locals, Started, Op
  <2> QED BY <1>3, <2>1, <2>2 DEF AgreeInv
<1> QED BY <1>1, <1>2, <1>3, StepAgreeInv DEF Next

LEMMA AgreeInvariance == Spec => []AgreeInv
<1>1. Init => AgreeInv
  BY DEF Init, AgreeInv, Started
<1> QED BY <1>1, NextAgreeInv, LivesInvariance, RefInvariance, Invariance, PTL DEF Spec

-----------------------------------------------------------------------------
(* Ways to sign in                                                          *)

\* Whoever made link l, if anybody did, is done with it.
LinkDone(l) ==
    l \in Old \/ (l \in Started /\ pc[l] \in {"write", "set", "issue"} \cup Ends
                  /\ Op(l) \in {"oauth", "link"})

\* The request is to link an identity, that nobody had, to a user that it makes.
Claims(c) ==
    \/ users[c] # None /\ pc[c] \in {"link", "add"}
    \/ Op(c) = "oauth" /\ pc[c] \in {"match", "create", "insert"}

\* A link belongs to the request that made it, and a request drops links of its
\* own user; who else links an identity that a new user claims came in between.
OwnInv ==
    /\ \A l \in Ids : links[l] # None =>
          LinkDone(l) /\ (l \in Calls => links[l].identity = call[l].to)
    /\ \A c \in Started : pc[c] = "drop" =>
          \A l \in pending[c] : LinkDone(l) /\ (links[l] = None \/ links[l].user = who[c])
    /\ \A c \in Started : Claims(c) =>
          \A l \in Linked(call[c].to) : l \in Calls /\ l \notin before[c]

LEMMA LinkDoneStays ==
  ASSUME IInv, NEW a \in Calls, (Acts(a) /\ Walks(a)) \/ Begins(a), NEW l \in Ids, LinkDone(l)
  PROVE  LinkDone(l)'
<1>1. CASE l \in Old
  BY <1>1 DEF LinkDone
<1>2. CASE /\ l \in Started /\ pc[l] \in {"write", "set", "issue"} \cup Ends
           /\ Op(l) \in {"oauth", "link"}
  <2>1. l \in Calls /\ Op(l)' = Op(l) /\ l \in Started' /\ Placed(Op(l), pc[l])
    BY <1>2, OverStays DEF Started, IInv, CallInv
  <2>2. pc'[l] \in {"write", "set", "issue"} \cup Ends
    <3>1. CASE pc[l] \in Ends
      BY <2>1, <3>1, OverStays
    <3>2. CASE l # a \/ Begins(a)
      BY <1>2, <2>1, <3>2 DEF Acts, Begins, Started
    <3>3. CASE l = a /\ Goes(Op(a), pc[a], pc'[a]) /\ pc[a] \notin Ends
      BY <1>2, <2>1, <3>3 DEF Placed, Writing, Goes, AfterWrite, Refusals, Revs, Ends
    <3> QED BY <3>1, <3>2, <3>3 DEF Walks
  <2> QED BY <1>2, <2>1, <2>2 DEF LinkDone
<1> QED BY <1>1, <1>2 DEF LinkDone

\* A request that has linked an identity goes on to its next call.
LEMMA LinkNext ==
  ASSUME IInv, NEW a \in Calls, Step(a), pc[a] \in {"link", "add"}, links' # links
  PROVE  /\ pc'[a] = IF Op(a) = "oauth" THEN "write" ELSE "ok"
         /\ Op(a) \in {"oauth", "link"}
         /\ links' = [links EXCEPT ![a] = [user |-> who[a], identity |-> call[a].to]]
         /\ pc[a] = "link" => Linkable(a)
<1>1. Op(a) \in {"oauth", "link"}
  BY DEF IInv, CallInv, Placed
<1>2. ~DropLink(a)
  BY Guards
<1>3. /\ Proceed(a, "link")
      /\ links' = [links EXCEPT ![a] = [user |-> who[a], identity |-> call[a].to]]
      /\ pc[a] = "link" => Linkable(a)
  BY <1>2, Effects DEF LinkInMemory, AddLink, NewLink
<1>4. pc'[a] = Program[Op(a)]["link"]
  BY <1>3, GoesTo DEF Proceed
<1> QED BY <1>1, <1>3, <1>4, Programs

\* A request that is to drop links has found them, or has dropped one of them.
LEMMA Dropping ==
  ASSUME IInv, NEW a \in Calls, Step(a), pc'[a] = "drop"
  PROVE  /\ who'[a] = who[a] /\ Op(a) \in {"unlink", "delete"}
         /\ \/ /\ pc[a] = "list" /\ ListLinks(a)
               /\ pending'[a] \subseteq LinksOf(who[a]) /\ links' = links
            \/ pc[a] = "drop" /\ pending'[a] \subseteq pending[a]
<1>1. /\ Placed(Op(a), pc[a]) /\ Goes(Op(a), pc[a], pc'[a])
      /\ Op(a) # "oauth" => who'[a] = who[a]
  BY StepWalks, StepActs DEF Walks, Acts, IInv, CallInv
<1>2. pc[a] \in {"list", "drop"}
  BY <1>1 DEF Goes, AfterWrite, AfterRevoke, Refusals
<1>3. Op(a) \in {"unlink", "delete"}
  BY <1>2 DEF IInv, CallInv, Placed
<1>4. ~Fail(a)
  BY GoesTo DEF Fail
<1>5. ~Skip(a)
  <2>1. ~(Op(a) = "delete" /\ Proceed(a, "drop"))
    BY GoesTo, Programs DEF Proceed
  <2> QED BY <1>2, <2>1 DEF Skip, Revs
<1>6. ListLinks(a) \/ DropLink(a) \/ SkipLink(a)
  BY <1>2, <1>4, <1>5, Guards DEF Step
<1>7. pending \in [Calls -> SUBSET Ids]
  BY DEF IInv, TypeOK
<1>8. CASE ListLinks(a)
  <2>1. pc[a] = "list" /\ links' = links
    BY <1>8 DEF ListLinks, stored
  <2>2. ~Goto(a, "refused")
    BY GoesTo
  <2>3. \E P \in SUBSET LinksOf(who[a]) : pending' = [pending EXCEPT ![a] = P]
    BY <1>8, <2>2 DEF ListLinks
  <2> QED BY <1>1, <1>3, <1>7, <1>8, <2>1, <2>3
<1>9. CASE DropLink(a) \/ SkipLink(a)
  <2>1. pc[a] = "drop" /\ \E l \in pending[a] : pending' = [pending EXCEPT ![a] = @ \ {l}]
    BY <1>9 DEF DropLink, SkipLink
  <2> QED BY <1>1, <1>3, <1>7, <2>1
<1> QED BY <1>6, <1>8, <1>9

\* The request that a step links an identity for, or the link that was there.
LEMMA NewLinks ==
  ASSUME IInv, OwnInv, NEW a \in Calls, Step(a), NEW l \in Ids, links'[l] # None
  PROVE  \/ links[l] = links'[l]
         \/ /\ l = a /\ pc[a] \in {"link", "add"} /\ links' # links /\ LinkDone(a)'
            /\ links[a] = None /\ ~LinkDone(a)
            /\ links'[a].user = who[a] /\ links'[a].identity = call[a].to
<1>1. CASE links[l] = links'[l]
  BY <1>1
<1>2. CASE /\ l = a /\ pc[a] \in {"link", "add"} /\ links[a] # links'[a]
           /\ links'[a].user = who[a] /\ links'[a].identity = call[a].to
  <2>1. ~LinkDone(a) /\ links[a] = None
    BY <1>2, IdsAssumption DEF LinkDone, OwnInv, Ends
  <2>2. pc'[a] \in {"write", "ok"} /\ Op(a) \in {"oauth", "link"}
    BY <1>2, LinkNext
  <2>3. LinkDone(a)'
    BY <2>2, StepActs DEF Acts, Op, LinkDone, Started, Ends
  <2> QED BY <1>2, <2>1, <2>3
<1> QED BY <1>1, <1>2, LinkOwners

\* A request claims an identity from its beginning on.
LEMMA ClaimsBefore ==
  ASSUME IInv, RefInv, NEW a \in Calls, Step(a), NEW c \in Started, Claims(c)'
  PROVE  Claims(c)
<1>1. Acts(a) /\ Walks(a) /\ c \in Calls /\ Op(c)' = Op(c) /\ c \in Ids
  BY StepActs, StepWalks DEF Acts, Op, Started, Ids
<1>2. CASE c # a
  <2>1. users'[c] # None => users[c] # None
    BY <1>1, <1>2, StepUsers, Storing
  <2> QED BY <1>1, <1>2, <2>1 DEF Claims, Acts
<1>3. CASE c = a
  <2>1. /\ Goes(Op(a), pc[a], pc'[a]) /\ Placed(Op(a), pc[a]) /\ Placed(Op(a), pc'[a])
        /\ pc[a] \notin Ends
    <3>1. IInv'
      BY NextIInv DEF Next
    <3>2. Placed(Op(a)', pc'[a])
      BY <1>1, <1>3, <3>1 DEF IInv, CallInv, Started, Claims
    <3> QED BY <1>1, <1>3, <3>2 DEF Acts, Walks, IInv, CallInv
  <2>2. CASE Op(a) = "oauth" /\ pc'[a] \in {"match", "create", "insert"}
    BY <1>3, <2>1, <2>2, ComesFrom DEF Claims, Placed
  <2>3. CASE users'[a] # None /\ pc'[a] \in {"link", "add"}
    <3>1. pc[a] \in {"create", "insert", "match", "owner", "link", "add"}
      BY <2>1, <2>3 DEF Goes, AfterWrite, AfterRevoke, Refusals
    <3>2. CASE pc[a] \in {"create", "insert"}
      <4>1. Op(a) = "oauth"
        BY <2>1, <2>3, <3>2 DEF Placed
      <4> QED BY <1>3, <3>2, <4>1 DEF Claims
    <3>3. CASE pc[a] \in {"match", "owner", "link", "add"}
      <4>1. users[a] # None
        BY <1>1, <1>3, <2>3, <3>3, StepUsers DEF Creates, Edits
      <4>2. Op(a) \in {"register", "oauth"} /\ pc[a] # "match"
        BY <4>1 DEF RefInv
      <4>3. pc[a] # "owner"
        BY <2>1, <4>2 DEF Placed
      <4> QED BY <1>3, <3>3, <4>1, <4>2, <4>3 DEF Claims
    <3> QED BY <3>1, <3>2, <3>3
  <2> QED BY <1>1, <1>3, <2>2, <2>3 DEF Claims
<1> QED BY <1>2, <1>3

LEMMA StepOwnInv ==
  ASSUME IInv, RefInv, OwnInv, NEW a \in Calls, Step(a)
  PROVE  OwnInv'
<1>1. Acts(a) /\ Walks(a) /\ Started' = Started
  BY StepActs, StepWalks DEF Acts, Follows, Started, Steps, Ends
<1>2. \A l \in Ids : LinkDone(l) => LinkDone(l)'
  BY <1>1, LinkDoneStays
<1>3. ASSUME NEW l \in Ids, links'[l] # None
      PROVE  LinkDone(l)' /\ (l \in Calls => links'[l].identity = call'[l].to)
  BY <1>1, <1>2, <1>3, NewLinks DEF OwnInv, Acts
<1>4. ASSUME NEW c \in Started, pc'[c] = "drop", NEW l \in pending'[c]
      PROVE  LinkDone(l)' /\ (links'[l] = None \/ links'[l].user = who'[c])
  <2>1. c \in Calls /\ l \in Ids
    BY <1>4, NextIInv DEF Started, IInv, TypeOK, Next
  <2>2. LinkDone(l) /\ (links[l] = None \/ links[l].user = who'[c])
    <3>1. CASE pc[c] = "drop" /\ l \in pending[c] /\ who'[c] = who[c]
      BY <3>1 DEF OwnInv
    <3>2. CASE l \in LinksOf(who[c]) /\ who'[c] = who[c]
      BY <2>1, <3>2 DEF OwnInv, LinksOf
    <3>3. c # a => pc[c] = "drop" /\ l \in pending[c] /\ who'[c] = who[c]
      BY <1>1, <1>4, <2>1 DEF Acts
    <3> QED BY <1>4, <3>1, <3>2, <3>3, Dropping
  <2>3. links'[l] # None => links'[l] = links[l]
    BY <2>1, <2>2, NewLinks
  <2> QED BY <1>2, <2>1, <2>2, <2>3
<1>5. ASSUME NEW c \in Started, Claims(c)', NEW l \in Ids, links'[l] # None,
             links'[l].identity = call'[c].to
      PROVE  l \in Calls /\ l \notin before'[c]
  <2>1. Claims(c) /\ c \in Calls /\ call' = call /\ before' = before
    BY <1>1, <1>5, ClaimsBefore DEF Acts, Started
  <2>2. CASE links'[l] = links[l]
    BY <1>5, <2>1, <2>2 DEF OwnInv, Linked
  <2>3. CASE l = a
    <3>1. before[c] \subseteq Ended /\ a \notin Ended
      BY <1>1, <2>1, IdsAssumption DEF IInv, CallInv, Ended, Acts
    <3> QED BY <2>1, <2>3, <3>1
  <2> QED BY <1>5, <2>2, <2>3, NewLinks
<1>6. \A c \in Started : Claims(c)' =>
         \A l \in Linked(call[c].to)' : l \in Calls /\ l \notin before'[c]
  BY <1>5 DEF Linked, Ids
<1> QED BY <1>1, <1>3, <1>4, <1>6 DEF OwnInv, Ids

LEMMA NextOwnInv == IInv /\ RefInv /\ OwnInv /\ [Next]_vars => OwnInv'
<1>1. ASSUME IInv, RefInv, OwnInv, NEW a \in Calls, Begin(a) PROVE OwnInv'
  <2>1. Begins(a) /\ Enters(a)
    BY <1>1, BeginBegins, BeginEnters
  <2>2. \A l \in Ids : LinkDone(l) => LinkDone(l)'
    BY <1>1, <2>1, LinkDoneStays
  <2>3. links' = links /\ users' = users /\ pending' = pending
    BY <2>1 DEF Begins
  <2>4. ASSUME NEW c \in Started', c # a
        PROVE  c \in Started /\ Op(c)' = Op(c) /\ UNCHANGED <<pc[c], call[c], who[c], before[c]>>
    BY <2>1, <2>4 DEF Begins, Started, Op
  <2>5. ASSUME NEW l \in Ids, links'[l] # None
        PROVE  LinkDone(l)' /\ (l \in Calls => links'[l].identity = call'[l].to)
    <3>1. LinkDone(l) /\ (l \in Calls => links[l].identity = call[l].to)
      BY <1>1, <2>3, <2>5 DEF OwnInv
    <3>2. l # a
      BY <2>1, <3>1, IdsAssumption DEF LinkDone, Begins, Started
    <3> QED BY <2>1, <2>2, <2>3, <3>1, <3>2 DEF Begins
  <2>6. ASSUME NEW c \in Started', pc'[c] = "drop", NEW l \in pending'[c]
        PROVE  LinkDone(l)' /\ (links'[l] = None \/ links'[l].user = who'[c])
    <3>1. c # a
      BY <2>1, <2>6 DEF Begins
    <3>2. l \in Ids
      BY <1>1, <2>3, <2>6 DEF IInv, TypeOK, Started
    <3> QED BY <1>1, <2>2, <2>3, <2>4, <2>6, <3>1, <3>2 DEF OwnInv
  <2>7. ASSUME NEW c \in Started', Claims(c)', NEW l \in Linked(call[c].to)'
        PROVE  l \in Calls /\ l \notin before'[c]
    <3>1. links[l] # None /\ links[l].identity = call'[c].to /\ l \in Ids
      BY <2>3, <2>7 DEF Linked, Ids
    <3>2. CASE c # a
      <4>1. Claims(c)
        BY <2>3, <2>4, <2>7, <3>2 DEF Claims
      <4> QED BY <1>1, <2>4, <3>1, <3>2, <4>1 DEF OwnInv, Linked
    <3>3. CASE c = a
      <4>1. users[a] = None
        BY <1>1, <2>1 DEF Begins, RefInv
      <4>2. Op(a)' = "oauth" /\ pc'[a] \in {"match", "create"}
        BY <2>1, <2>3, <2>7, <3>3, <4>1 DEF Claims, Enters, Admits, Op, Bearers, First
      <4>3. Linked(call'[a].to) = {}
        BY <2>1, <4>2 DEF Enters, Admits, Op, Bearers, First
      <4> QED BY <3>1, <3>3, <4>3 DEF Linked
    <3> QED BY <3>2, <3>3
  <2> QED BY <2>5, <2>6, <2>7 DEF OwnInv, Ids
<1>2. ASSUME IInv, OwnInv, NEW v \in Ids, Expire(v) PROVE OwnInv'
  <2>1. /\ UNCHANGED <<links, pc, call, who, before, pending>>
        /\ \A c \in Calls : users'[c] = None <=> users[c] = None
    BY <1>2, Expires, ExpiresAll DEF Ids
  <2>2. Started' = Started /\ Ids' = Ids /\ \A c : Op(c)' = Op(c)
    BY <2>1 DEF Started, Ids, Op
  <2>3. /\ \A l : LinkDone(l)' <=> LinkDone(l)
        /\ \A c \in Started : Claims(c)' <=> Claims(c)
    BY <2>1, <2>2 DEF LinkDone, Claims, Started
  <2> QED BY <1>2, <2>1, <2>2, <2>3 DEF OwnInv, Linked
<1>3. UNCHANGED vars /\ OwnInv => OwnInv'
  BY DEF vars, stored, locals, OwnInv, LinkDone, Claims, Linked, Started, Op
<1> QED BY <1>1, <1>2, <1>3, StepOwnInv DEF Next

LEMMA OwnInvariance == Spec => []OwnInv
<1>1. Init => OwnInv
  <2> SUFFICES ASSUME Init PROVE OwnInv
    OBVIOUS
  <2>1. \A l \in Ids : links[l] # None => l \in Old /\ l \notin Calls
    BY StartsAssumption, IdsAssumption DEF Init, Ids
  <2>2. Started = {}
    BY DEF Init, Started
  <2> QED BY <2>1, <2>2 DEF OwnInv, LinkDone
<1> QED BY <1>1, NextOwnInv, RefInvariance, Invariance, PTL DEF Spec

\* A link goes only when a request of its user drops it.
LEMMA LinksStay ==
  ASSUME IInv, OwnInv, NEW a \in Calls, Step(a), NEW u, NEW m \in LinksOf(u), m \notin LinksOf(u)'
  PROVE  /\ pc[a] = "drop" /\ m \in pending[a] /\ who[a] = u
         /\ a \in Started /\ a \in InFlight /\ Op(a) \in {"unlink", "delete"}
<1>1. m \in Ids /\ links[m] # None /\ links[m].user = u /\ links'[m] # links[m]
  BY DEF LinksOf, Ids
<1>2. CASE LinkInMemory(a) \/ AddLink(a)
  <2>1. links' = NewLink(a) /\ pc[a] \in {"link", "add"}
    BY <1>1, <1>2, Guards DEF LinkInMemory, AddLink
  <2>2. m = a
    BY <1>1, <2>1, Tables DEF NewLink, IInv
  <2>3. LinkDone(a)
    BY <1>1, <2>2 DEF OwnInv
  <2> QED BY <2>1, <2>3, IdsAssumption DEF LinkDone, Ends
<1>3. CASE DropLink(a)
  <2>1. PICK l \in pending[a] : pc[a] = "drop" /\ links' = [links EXCEPT ![l] = None]
    BY <1>3 DEF DropLink
  <2>2. m = l
    BY <1>1, <2>1, Tables DEF IInv
  <2>3. a \in Started /\ a \in InFlight /\ Op(a) \in {"unlink", "delete"}
    BY <2>1 DEF Started, InFlight, Ends, IInv, CallInv, Placed
  <2>4. links[m].user = who[a]
    BY <1>1, <2>1, <2>2, <2>3 DEF OwnInv
  <2> QED BY <1>1, <2>1, <2>2, <2>3, <2>4
<1> QED BY <1>1, <1>2, <1>3, Effects

\* A user that is not deleted and has no password has been so before.
LEMMA LivedBefore ==
  ASSUME IInv, RefInv, LivesInv, PwInv, AgreeInv, NEW a \in Calls, Step(a), NEW u \in Ids,
         users[u] # None, ~Contended(u), Lives(users'[u]), ~users'[u].pw
  PROVE  Lives(users[u]) /\ ~users[u].pw
<1>1. CASE users'[u] = users[u]
  BY <1>1
<1>2. CASE Edits(a) /\ u = who[a] /\ users'[u] = Edited(a)
  <2>1. pc[a] \in {"write", "set"}
    BY <1>2 DEF Edits
  <2>2. Lives(copy[a]) /\ copy[a].pw = Edited(a).pw
    BY <1>2, <2>1, EditedLives
  <2>3. a \in Started /\ ~Raised(Op(a), pc[a])
    BY <2>1 DEF Started, Raised, Revs
  <2>4. Lives(users[u])
    BY <1>2, <2>2, <2>3 DEF AgreeInv, Lives
  <2>5. Version(u, users[u]) /\ Version(u, copy[a])
    BY <1>2 DEF Version
  <2>6. users[u].pw = copy[a].pw
    BY <2>2, <2>4, <2>5 DEF PwInv
  <2> QED BY <1>2, <2>2, <2>4, <2>6
<1> QED BY <1>1, <1>2, StepUsers, OwnMaking

\* As long as nothing fails and no requests contend, a user without a password
\* has a link, or its first one is being made, and an unlink leaves another.
WayInv ==
    faults = 0 =>
        \A u \in Ids : Lives(users[u]) /\ ~users[u].pw /\ ~Contended(u) =>
            /\ LinksOf(u) # {} \/ (u \in Started /\ pc[u] \in {"link", "add"})
            /\ \A c \in Started : pc[c] = "drop" /\ Op(c) = "unlink" /\ who[c] = u
                                    => LinksOf(u) \ pending[c] # {}

\* The link of a new user is made, unless another request has linked the identity.
LEMMA LinkGoesOn ==
  ASSUME IInv, NEW a \in Calls, Step(a), pc[a] \in {"link", "add"}, faults' = 0
  PROVE  \/ pc'[a] = "add"
         \/ links' = NewLink(a)
         \/ pc[a] = "link" /\ ~Linkable(a)
<1>1. ~Fail(a) /\ ~Skip(a) /\ ~SkipLink(a)
  BY DEF Fail, Skip, SkipLink, IInv, TypeOK
<1>2. LinkInMemory(a) \/ QueryLink(a) \/ AddLink(a)
  BY <1>1, Guards DEF Step
<1>3. CASE QueryLink(a)
  BY <1>3, GoesTo DEF QueryLink
<1> QED BY <1>2, <1>3 DEF LinkInMemory, AddLink

\* Whoever links the identity of a user that is being made does so in between.
LEMMA LinkTaken ==
  ASSUME IInv, RefInv, OwnInv, NEW a \in Calls, Acts(a), users[a] # None, pc[a] = "link",
         ~Linkable(a)
  PROVE  Contended(a)
<1>1. PICK l \in Ids : l \in Linked(call[a].to) /\ links[l] # None /\ links[l].identity = call[a].to
  BY DEF Linkable, Linked
<1>2. Claims(a) /\ a \in Started /\ Op(a) \in {"oauth", "link"} /\ Op(a) \in {"register", "oauth"}
  BY DEF Claims, Started, RefInv, IInv, CallInv, Placed
<1>3. l \in Calls /\ l \notin before[a]
  BY <1>1, <1>2 DEF OwnInv
<1>4. LinkDone(l) /\ call[l].to = call[a].to
  BY <1>1, <1>3 DEF OwnInv
<1>5. l \in Started /\ Op(l) \in {"oauth", "link"} /\ l # a
  BY <1>3, <1>4, IdsAssumption DEF LinkDone, Ends
<1>6. a \notin before[l]
  BY <1>3, IdsAssumption DEF Acts, IInv, CallInv, Ended
<1>7. Overlap(a, l)
  BY <1>2, <1>3, <1>5, <1>6 DEF Overlap
<1>8. {Op(a), Op(l)} \subseteq {"oauth", "link"}
  BY <1>2, <1>5
<1> QED BY <1>3, <1>4, <1>7, <1>8 DEF Contended, Contend

LEMMA StepWayInv ==
  ASSUME IInv, RefInv, LivesInv, PwInv, AgreeInv, OwnInv, WayInv, NEW a \in Calls, Step(a)
  PROVE  WayInv'
<1> SUFFICES ASSUME faults' = 0, NEW u \in Ids, Lives(users'[u]), ~users'[u].pw, ~Contended(u)'
             PROVE  /\ LinksOf(u)' # {} \/ (u \in Started' /\ pc'[u] \in {"link", "add"})
                    /\ \A c \in Started' : pc'[c] = "drop" /\ Op(c)' = "unlink" /\ who'[c] = u
                                             => LinksOf(u)' \ pending'[c] # {}
  BY DEF WayInv, Ids, Lives
<1>1. Acts(a) /\ Walks(a) /\ Keeps /\ Started' = Started /\ a \in Started
  BY StepActs, StepWalks, NextKeeps DEF Next, Acts, Follows, Started, Steps, Ends
<1>2. ~Contended(u) /\ faults = 0
  BY <1>1, ContendedStays DEF Keeps
<1>3. \A c \in Started : c \in Calls /\ Op(c)' = Op(c)
  BY <1>1 DEF Acts, Op, Started
<1>4. CASE users[u] = None
  <2>1. Creates(a) /\ u = a /\ users'[a] = copy[a]
    BY <1>4, StepUsers, Storing DEF Lives
  <2>2. copy[a] # None /\ ~copy[a].pw /\ pc[a] \in {"create", "insert"} /\ pc'[a] \in {"mail", "link"}
    BY <2>1 DEF Creates, Lives
  <2>3. Op(a) # "register"
    BY <2>2 DEF LivesInv
  <2>4. pc'[a] = "link"
    BY <1>1, <2>2, <2>3 DEF Walks, Goes, Revs, Refusals
  <2>5. ASSUME NEW c \in Started, Op(c) = "unlink", who'[c] = u PROVE FALSE
    <3>1. who'[c] = who[c]
      BY <1>1, <1>3, <2>2, <2>5 DEF Walks
    <3>2. c = a /\ Op(a) \in {"register", "oauth"}
      BY <2>1, <2>5, <3>1, OwnMaking
    <3> QED BY <2>5, <3>2
  <2> QED BY <1>1, <1>3, <2>1, <2>4, <2>5
<1>5. CASE users[u] # None
  <2>1. Lives(users[u]) /\ ~users[u].pw
    BY <1>2, <1>5, LivedBefore
  <2>2. /\ LinksOf(u) # {} \/ (u \in Started /\ pc[u] \in {"link", "add"})
        /\ \A c \in Started : pc[c] = "drop" /\ Op(c) = "unlink" /\ who[c] = u
                                => LinksOf(u) \ pending[c] # {}
    BY <1>2, <2>1 DEF WayInv
  <2>3. ASSUME pc[a] = "drop", who[a] = u, Op(a) = "delete" PROVE FALSE
    <3>1. copy[a] \in User /\ Raised("delete", pc[a])
      BY <2>3 DEF IInv, CallInv, Carries, Steps, Raised, Ending
    <3>2. copy[a] # None
      BY <3>1, NoneAssumption
    <3> QED BY <1>1, <1>2, <1>5, <2>1, <2>3, <3>1, <3>2 DEF AgreeInv, Lives
  <2>4. ASSUME LinksOf(u) # {} PROVE LinksOf(u)' # {}
    <3>1. PICK m \in LinksOf(u) : pc[a] = "drop" /\ Op(a) = "unlink" /\ who[a] = u => m \notin pending[a]
      BY <1>1, <2>2, <2>4
    <3>2. m \in LinksOf(u)'
      BY <2>3, <3>1, LinksStay
    <3> QED BY <3>2
  <2>5. ASSUME u \in Started, pc[u] \in {"link", "add"}
        PROVE  LinksOf(u)' # {} \/ pc'[u] \in {"link", "add"}
    <3>1. CASE u # a
      BY <1>1, <1>3, <2>5, <3>1 DEF Acts
    <3>2. CASE u = a
      <4>1. ~(pc[a] = "link" /\ ~Linkable(a))
        BY <1>1, <1>2, <1>5, <3>2, LinkTaken
      <4>2. ASSUME links' = NewLink(a) PROVE a \in LinksOf(u)'
        <5>1. links'[a] = [user |-> who[a], identity |-> call[a].to] /\ a \in Ids
          BY <4>2, Tables DEF NewLink, IInv, Ids
        <5>2. who[a] = a
          BY <1>5, <3>2 DEF RefInv
        <5>3. links'[a] \in Link /\ links'[a] # None
          <6>1. call[a].to \in Identities
            BY <1>3, <2>5, <3>2 DEF IInv, CallInv, Named, Placed
          <6> QED BY <5>1, <5>2, <6>1, NoneAssumption DEF Link
        <5> QED BY <3>2, <5>1, <5>2, <5>3 DEF LinksOf, Ids
      <4>3. pc'[a] = "add" \/ links' = NewLink(a)
        BY <2>5, <3>2, <4>1, LinkGoesOn
      <4> QED BY <1>1, <3>2, <4>2, <4>3
    <3> QED BY <3>1, <3>2
  <2>6. ASSUME NEW c \in Started, pc'[c] = "drop", Op(c) = "unlink", who'[c] = u
        PROVE  LinksOf(u)' \ pending'[c] # {}
    <3>1. CASE c = a /\ pc[a] = "list" /\ ListLinks(a)
      <4>1. who[a] = u /\ LinksOf(u)' = LinksOf(u)
        BY <2>6, <3>1, Dropping DEF ListLinks, stored, LinksOf
      <4>2. PICK l \in LinksOf(u) : ~OnlyWay(a, l) /\ pending' = [pending EXCEPT ![a] = {l}]
        BY <2>6, <3>1, <4>1, GoesTo DEF ListLinks
      <4>3. copy[a] \in User
        BY <2>6, <3>1 DEF IInv, CallInv, Carries, Steps
      <4>4. Lives(copy[a])
        BY <2>6, <3>1, <4>3, NoneAssumption DEF LivesInv
      <4>5. ~copy[a].pw
        BY <2>1, <4>1, <4>4 DEF PwInv, Version
      <4>6. LinksOf(u) # {l}
        BY <4>1, <4>2, <4>5 DEF OnlyWay
      <4>7. pending'[c] = {l}
        BY <3>1, <4>2 DEF IInv, TypeOK
      <4> QED BY <4>1, <4>2, <4>6, <4>7
    <3>2. CASE pc[c] = "drop" /\ who[c] = u /\ pending'[c] \subseteq pending[c]
      <4>1. PICK m \in LinksOf(u) : m \notin pending[c]
        BY <2>2, <2>6, <3>2
      <4>2. ASSUME m \notin LinksOf(u)' PROVE FALSE
        <5>1. m \in pending[a] /\ who[a] = u /\ a \in InFlight /\ Op(a) \in {"unlink", "delete"}
          BY <4>1, <4>2, LinksStay
        <5>2. c # a /\ c \in InFlight /\ c \in Calls
          BY <3>2, <4>1, <5>1, <1>3, <2>6 DEF InFlight, Ends
        <5>3. Overlap(a, c)
          BY <5>1, <5>2, FlightsOverlap
        <5>4. Contend(a, c, u)
          <6>1. CASE Op(a) = "delete"
            BY <3>2, <5>1, <5>3, <6>1 DEF Contend
          <6>2. CASE Op(a) = "unlink"
            <7>1. {Op(a), Op(c)} = {"unlink"}
              BY <2>6, <6>2
            <7> QED BY <3>2, <5>1, <5>3, <7>1 DEF Contend
          <6> QED BY <5>1, <6>1, <6>2
        <5> QED BY <1>2, <5>2, <5>4 DEF Contended
      <4> QED BY <3>2, <4>1, <4>2
    <3>3. CASE c # a
      BY <1>1, <1>3, <2>6, <3>2, <3>3 DEF Acts
    <3> QED BY <2>6, <3>1, <3>2, <3>3, Dropping
  <2> QED BY <1>1, <1>3, <2>2, <2>4, <2>5, <2>6
<1> QED BY <1>4, <1>5

LEMMA NextWayInv ==
  IInv /\ RefInv /\ LivesInv /\ PwInv /\ AgreeInv /\ OwnInv /\ WayInv /\ [Next]_vars => WayInv'
<1>1. ASSUME IInv, RefInv, WayInv, NEW a \in Calls, Begin(a) PROVE WayInv'
  <2> SUFFICES ASSUME faults' = 0, NEW u \in Ids, Lives(users'[u]), ~users'[u].pw, ~Contended(u)'
               PROVE  /\ LinksOf(u)' # {} \/ (u \in Started' /\ pc'[u] \in {"link", "add"})
                      /\ \A c \in Started' : pc'[c] = "drop" /\ Op(c)' = "unlink" /\ who'[c] = u
                                               => LinksOf(u)' \ pending'[c] # {}
    BY DEF WayInv, Ids, Lives
  <2>1. Begins(a) /\ Keeps
    BY <1>1, BeginBegins, NextKeeps DEF Next
  <2>2. users' = users /\ faults' = faults /\ pending' = pending /\ LinksOf(u)' = LinksOf(u)
    BY <2>1 DEF Begins, LinksOf, Ids
  <2>3. ~Contended(u)
    BY <1>1, <2>1, ContendedStays
  <2>4. \A c \in Calls \ {a} : pc'[c] = pc[c] /\ who'[c] = who[c] /\ Op(c)' = Op(c)
    BY <2>1 DEF Begins, Op
  <2>5. pc[a] = "idle" /\ pc'[a] # "drop"
    BY <2>1 DEF Begins
  <2> QED BY <1>1, <2>2, <2>3, <2>4, <2>5 DEF WayInv, Started
<1>2. ASSUME IInv, RefInv, WayInv, NEW v \in Ids, Expire(v) PROVE WayInv'
  <2>1. Keeps
    BY <1>2, NextKeeps DEF Next
  <2>2. \A u : Contended(u) => Contended(u)'
    BY <1>2, <2>1, ContendedStays
  <2>3. UNCHANGED <<links, pc, call, who, pending, faults>>
    BY <1>2, Expires
  <2>4. /\ Started' = Started /\ Ids' = Ids /\ \A c : Op(c)' = Op(c)
        /\ \A u : LinksOf(u)' = LinksOf(u)
    BY <2>3 DEF Started, Ids, Op, LinksOf
  <2>5. \A u \in Ids : Lives(users'[u]) /\ ~users'[u].pw => Lives(users[u]) /\ ~users[u].pw
    BY <1>2, ExpiresAll DEF Lives
  <2> QED BY <1>2, <2>2, <2>3, <2>4, <2>5 DEF WayInv
<1>3. ASSUME WayInv, UNCHANGED vars PROVE WayInv'
  <2>1. \A u : Contended(u)' <=> Contended(u)
    BY <1>3 DEF vars, stored, locals, Contended, Contend, Overlap, Started, Op
  <2>2. /\ Started' = Started /\ UNCHANGED <<users, who, pc, pending, faults>> /\ Ids' = Ids
        /\ \A c : Op(c)' = Op(c) /\ LinksOf(c)' = LinksOf(c)
    BY <1>3 DEF vars, stored, locals, Started, Op, LinksOf, Ids
  <2> QED BY <1>3, <2>1, <2>2 DEF WayInv
<1> QED BY <1>1, <1>2, <1>3, StepWayInv DEF Next

\* Every active user has a password or a linked identity to sign in with, but
\* for a sign-in under way or cut short, and for two requests that each count on
\* what the other takes away (OAuthCallback, OAuthUnlink, DeleteAccount).
THEOREM UsersCanSignIn == Spec => []CanSignIn
<1>1. Init => WayInv
  <2> SUFFICES ASSUME Init, NEW u \in Ids, Lives(users[u]), ~users[u].pw PROVE LinksOf(u) # {}
    BY DEF Init, WayInv, Started
  <2>1. \E l \in Ids : links[l] # None /\ links[l].user = u
    BY SettledAssumption DEF Init, Lives
  <2> QED BY <2>1 DEF LinksOf
<1>2. IInv /\ WayInv => CanSignIn
  <2> SUFFICES ASSUME IInv, WayInv, faults = 0, NEW u \in Ids, users[u] # None,
                      users[u].status = "active", ~users[u].pw, LinksOf(u) = {},
                      ~Contended(u)
               PROVE  u \in InFlight
    BY DEF CanSignIn, Contended, IInv, TypeOK
  <2>1. u \in Started /\ pc[u] \in {"link", "add"}
    BY DEF WayInv, Lives
  <2> QED BY <2>1 DEF Started, InFlight, Ends
<1> QED BY <1>1, <1>2, NextWayInv, OwnInvariance, AgreeInvariance, PwInvariance, LivesInvariance,
           RefInvariance, Invariance, PTL DEF Spec

=============================================================================
