--------------------------- MODULE AuthMemoryProofs ---------------------------
(***************************************************************************)
(* Proofs about AuthMemory, for any processes, requests, limits, windows   *)
(* and lifetimes.                                                          *)
(***************************************************************************)
EXTENDS AuthMemory, FiniteSetTheorems, TLAPS

USE LimitAssumption, TTLAssumption, BoundAssumption

IInv == TypeOK /\ PastInv /\ HitInv /\ EntryInv /\ PassedInv

Inv == IInv /\ WindowBound /\ StateIsFresh /\ StateWorksOnce

-----------------------------------------------------------------------------
(* The invariant holds at first                                             *)

LEMMA InitInv == Init => Inv
<1> SUFFICES ASSUME Init PROVE Inv
  OBVIOUS
<1>1. TypeOK
  BY DEF Init, TypeOK
<1>2. \A n \in Nodes, k \in Keys : Granted(n, k) = {}
  BY DEF Init, Granted
<1>3. PastInv /\ HitInv /\ EntryInv /\ PassedInv
  BY <1>2 DEF Init, PastInv, HitInv, EntryInv, PassedInv, Passed
<1>4. WindowBound
  <2> SUFFICES ASSUME NEW n \in Nodes, NEW k \in Keys, NEW t \in 0 .. now
               PROVE  Cardinality({r \in Granted(n, k) : t - Window[k] < at[r] /\ at[r] <= t})
                        <= Limit[k]
    BY DEF WindowBound
  <2>1. {r \in Granted(n, k) : t - Window[k] < at[r] /\ at[r] <= t} = {}
    BY <1>2
  <2> QED BY <2>1, FS_EmptySet
<1>5. StateIsFresh /\ StateWorksOnce
  BY DEF Init, StateIsFresh, StateWorksOnce, Passed
<1> QED BY <1>1, <1>3, <1>4, <1>5 DEF Inv, IInv

-----------------------------------------------------------------------------
(* The steps                                                                *)

LEMMA ArriveFacts ==
  ASSUME IInv, NEW r \in Requests, NEW n \in Nodes, NEW about, NEW step,
         Arrive(r, n, about, step), step # "idle"
  PROVE  /\ pc[r] = "idle" /\ pc'[r] = step
         /\ at'[r] = now /\ place'[r] = [node |-> n, life |-> lives[n]]
         /\ subject'[r] = about /\ before'[r] = Over
         /\ \A s \in Requests \ {r} : /\ pc'[s] = pc[s] /\ at'[s] = at[s]
                                      /\ place'[s] = place[s] /\ subject'[s] = subject[s]
                                      /\ before'[s] = before[s]
         /\ now' = now /\ lives' = lives
  BY DEF IInv, TypeOK, Arrive

\* Arriving keeps the types and what PastInv says.
LEMMA ArrivePast ==
  ASSUME IInv, NEW r \in Requests, NEW n \in Nodes, NEW about, NEW step,
         Arrive(r, n, about, step),
         step \in {"limited", "allowed", "issued", "found", "invalid", "ok"},
         about \in Keys \cup Flows \cup Requests \cup {None}
  PROVE  /\ PastInv'
         /\ pc' \in [Requests -> {"idle", "limited", "allowed", "issued", "found", "ok",
                                  "invalid", "lost"}]
         /\ at' \in [Requests -> Nat]
         /\ place' \in [Requests -> [node : Nodes, life : Nat] \cup {None}]
         /\ subject' \in [Requests -> Keys \cup Flows \cup Requests \cup {None}]
         /\ before' \in [Requests -> SUBSET Requests]
<1> DEFINE Came == [node |-> n, life |-> lives[n]]
<1>1. /\ pc[r] = "idle" /\ pc'[r] = step
      /\ at'[r] = now /\ place'[r] = Came /\ before'[r] = Over
      /\ \A s \in Requests \ {r} : /\ pc'[s] = pc[s] /\ at'[s] = at[s]
                                   /\ place'[s] = place[s] /\ before'[s] = before[s]
      /\ now' = now /\ lives' = lives
  BY ArriveFacts
<1>2. Over \subseteq Over'
  BY <1>1 DEF Over
<1>3. /\ Over \subseteq Requests
      /\ Came \in [node : Nodes, life : Nat] /\ Came.life <= lives[Came.node]
      /\ now \in Nat
  BY DEF Over, IInv, TypeOK
<1>4. PastInv'
  <2> SUFFICES ASSUME NEW s \in Requests
               PROVE  /\ at'[s] <= now'
                      /\ pc'[s] # "idle" => /\ place'[s] \in [node : Nodes, life : Nat]
                                            /\ place'[s].life <= lives'[place'[s].node]
                      /\ before'[s] \subseteq Over'
    BY DEF PastInv
  <2>1. CASE s = r
    BY <1>1, <1>2, <1>3, <2>1
  <2>2. CASE s # r
    BY <1>1, <1>2, <2>2 DEF IInv, PastInv
  <2> QED BY <2>1, <2>2
<1>5. QED
  BY <1>3, <1>4 DEF IInv, TypeOK, Arrive

LEMMA ArriveGranted ==
  ASSUME IInv, NEW r \in Requests, NEW n \in Nodes, NEW about, NEW step,
         Arrive(r, n, about, step), step # "idle"
  PROVE  \A m \in Nodes, k \in Keys :
            Granted(m, k)' = IF step = "allowed" /\ m = n /\ k = about
                             THEN Granted(m, k) \cup {r} ELSE Granted(m, k)
<1> DEFINE Came == [node |-> n, life |-> lives[n]]
<1>1. /\ pc[r] = "idle" /\ pc'[r] = step /\ place'[r] = Came /\ subject'[r] = about
      /\ \A s \in Requests \ {r} : /\ pc'[s] = pc[s] /\ place'[s] = place[s]
                                   /\ subject'[s] = subject[s]
      /\ lives' = lives
  BY ArriveFacts
<1> SUFFICES ASSUME NEW m \in Nodes, NEW k \in Keys, NEW s \in Requests
             PROVE  s \in Granted(m, k)' <=>
                       s \in Granted(m, k) \/ (step = "allowed" /\ m = n /\ k = about /\ s = r)
  BY DEF Granted
<1>2. Came = [node |-> m, life |-> lives[m]] <=> m = n
  OBVIOUS
<1>3. CASE s = r
  BY <1>1, <1>2, <1>3 DEF Granted
<1>4. CASE s # r
  BY <1>1, <1>4 DEF Granted
<1> QED BY <1>3, <1>4

\* A request that does not pass, or is not checked, leaves the callbacks that have
\* passed alone.
LEMMA ArriveUnpassed ==
  ASSUME IInv, StateIsFresh, StateWorksOnce,
         NEW r \in Requests, NEW n \in Nodes, NEW about, NEW step,
         Arrive(r, n, about, step),
         step \in {"limited", "allowed", "issued", "invalid"} \/ (step = "ok" /\ about = None)
  PROVE  /\ \A s \in Requests : Passed(s)' <=> Passed(s)
         /\ \A s \in Requests :
               Passed(s) => /\ subject'[s] = subject[s] /\ subject[s] \in Requests
                            /\ pc'[subject[s]] = "issued" /\ pc'[s] = pc[s]
         /\ \A s \in Requests : pc'[s] = "found" => subject'[s] # None
         /\ StateIsFresh' /\ StateWorksOnce'
<1>1. /\ pc[r] = "idle" /\ pc'[r] = step /\ subject'[r] = about
      /\ \A s \in Requests \ {r} : /\ pc'[s] = pc[s] /\ at'[s] = at[s]
                                   /\ place'[s] = place[s] /\ subject'[s] = subject[s]
                                   /\ before'[s] = before[s]
  BY DEF IInv, TypeOK, Arrive
<1>2. \A s \in Requests : (Passed(s)' <=> Passed(s)) /\ (Passed(s) => s # r)
  BY <1>1 DEF Passed
<1>3. \A s \in Requests : Passed(s) => /\ subject[s] \in Requests /\ subject[s] # r
                                       /\ pc[subject[s]] = "issued"
  BY <1>1 DEF IInv, PassedInv
<1>4. StateIsFresh'
  BY <1>1, <1>2, <1>3 DEF StateIsFresh
<1>5. StateWorksOnce'
  BY <1>1, <1>2, <1>3 DEF StateWorksOnce
<1>6. \A s \in Requests : pc'[s] = "found" => subject'[s] # None
  BY <1>1 DEF IInv, PassedInv
<1> QED BY <1>1, <1>2, <1>3, <1>4, <1>5, <1>6

LEMMA AllowPreserves ==
  ASSUME Inv, NEW r \in Requests, NEW n \in Nodes, NEW k \in Keys, Allow(r, n, k)
  PROVE  Inv'
<1> DEFINE full == Cardinality(Kept(n, k)) >= Limit[k]
           step == IF full THEN "limited" ELSE "allowed"
           new == IF full THEN Kept(n, k) ELSE Kept(n, k) \cup {r}
<1>1. Kept(n, k) \subseteq Requests /\ IsFiniteSet(Kept(n, k)) /\ Cardinality(Kept(n, k)) \in Nat
  <2>1. Kept(n, k) \subseteq Requests
    BY DEF Kept, Inv, IInv, TypeOK
  <2> QED BY <2>1, RequestsAssumption, FS_Subset, FS_CardinalityType
<1>2. /\ hits' = [hits EXCEPT ![n][k] = new] /\ Arrive(r, n, k, step)
      /\ entries' = entries /\ now' = now
  BY <1>1 DEF Allow, Arrive
<1> HIDE DEF step, full
<1>3. step \in {"limited", "allowed"}
  BY DEF step
<1>4. /\ pc[r] = "idle" /\ at'[r] = now
      /\ \A s \in Requests \ {r} : pc'[s] = pc[s] /\ at'[s] = at[s] /\ place'[s] = place[s]
  BY <1>2, <1>3, ArriveFacts DEF Inv
<1>5. \A m \in Nodes, j \in Keys :
         Granted(m, j)' = IF ~full /\ m = n /\ j = k
                          THEN Granted(m, j) \cup {r} ELSE Granted(m, j)
  BY <1>2, <1>3, ArriveGranted DEF step, Inv
<1>6. \A m \in Nodes, j \in Keys : r \notin Granted(m, j) /\ Granted(m, j) \subseteq Requests
  BY <1>4 DEF Granted
<1>7. TypeOK' /\ PastInv'
  <2>1. PastInv'
    BY <1>2, <1>3, ArrivePast DEF Inv
  <2>2. hits' \in [Nodes -> [Keys -> SUBSET Requests]]
    BY <1>1, <1>2 DEF Inv, IInv, TypeOK
  <2>3. lives' = lives
    BY <1>2 DEF Arrive
  <2> QED BY <1>2, <1>3, <2>1, <2>2, <2>3, ArrivePast DEF Inv, IInv, TypeOK
<1>8. {s \in Granted(n, k) : at[s] > now - Window[k]} \subseteq Kept(n, k)
  BY DEF Kept, Inv, IInv, HitInv
<1>9. HitInv'
  <2> SUFFICES ASSUME NEW m \in Nodes, NEW j \in Keys,
                      NEW s \in Granted(m, j)', at'[s] > now' - Window[j]
               PROVE  s \in hits'[m][j]
    BY DEF HitInv
  <2>1. CASE m = n /\ j = k
    <3>1. hits'[n][k] = new
      BY <1>2 DEF Inv, IInv, TypeOK
    <3>2. s = r \/ s \in Granted(n, k)
      BY <1>5, <2>1
    <3>3. CASE s = r
      BY <1>5, <1>6, <2>1, <3>1, <3>3
    <3>4. CASE s # r
      BY <1>2, <1>4, <1>6, <1>8, <2>1, <3>1, <3>2, <3>4
    <3> QED BY <3>3, <3>4
  <2>2. CASE ~(m = n /\ j = k)
    <3>1. s \in Granted(m, j) /\ s # r
      BY <1>5, <1>6, <2>2
    <3>2. hits'[m][j] = hits[m][j]
      BY <1>2, <2>2 DEF Inv, IInv, TypeOK
    <3> QED BY <1>2, <1>4, <1>6, <3>1, <3>2 DEF Inv, IInv, HitInv
  <2> QED BY <2>1, <2>2
<1>10. WindowBound'
  <2> SUFFICES ASSUME NEW m \in Nodes, NEW j \in Keys, NEW t \in 0 .. now
               PROVE  Cardinality({s \in Granted(m, j)' : t - Window[j] < at'[s] /\ at'[s] <= t})
                        <= Limit[j]
    BY <1>2 DEF WindowBound
  <2> DEFINE Old == {s \in Granted(m, j) : t - Window[j] < at[s] /\ at[s] <= t}
             Now == {s \in Granted(m, j)' : t - Window[j] < at'[s] /\ at'[s] <= t}
  <2>1. now \in Nat
    BY DEF Inv, IInv, TypeOK
  <2>2. CASE full \/ m # n \/ j # k \/ t < now
    <3>1. \A s \in Granted(m, j) : s # r /\ at'[s] = at[s]
      BY <1>4, <1>6
    <3>2. ~full /\ m = n /\ j = k => at'[r] > t
      BY <1>4, <2>1, <2>2
    <3>3. \A s : s \in Now <=> s \in Old
      <4>1. CASE ~full /\ m = n /\ j = k
        <5>1. Granted(m, j)' = Granted(m, j) \cup {r}
          BY <1>5, <4>1
        <5> QED BY <3>1, <3>2, <4>1, <5>1, <2>1, <1>4
      <4>2. CASE ~(~full /\ m = n /\ j = k)
        <5>1. Granted(m, j)' = Granted(m, j)
          BY <1>5, <4>2
        <5> QED BY <3>1, <5>1
      <4> QED BY <4>1, <4>2
    <3>4. Now = Old
      BY <3>3
    <3> QED BY <3>4 DEF Inv, WindowBound
  <2>3. CASE ~full /\ m = n /\ j = k /\ t = now
    <3>1. Now \subseteq Kept(n, k) \cup {r}
      BY <1>4, <1>5, <1>6, <1>8, <2>3
    <3>2. /\ IsFiniteSet(Kept(n, k) \cup {r})
          /\ Cardinality(Kept(n, k) \cup {r}) <= Cardinality(Kept(n, k)) + 1
      <4> DEFINE K == Kept(n, k)
      <4> HIDE DEF K
      <4>1. IsFiniteSet(K) /\ Cardinality(K) \in Nat
        BY <1>1 DEF K
      <4>2. /\ IsFiniteSet(K \cup {r})
            /\ Cardinality(K \cup {r}) = IF r \in K THEN Cardinality(K) ELSE Cardinality(K) + 1
        BY <4>1, FS_AddElement
      <4>3. Cardinality(K \cup {r}) <= Cardinality(K) + 1
        BY <4>1, <4>2
      <4> QED BY <4>2, <4>3 DEF K
    <3>3. Cardinality(Now) <= Cardinality(Kept(n, k) \cup {r})
      BY <3>1, <3>2, FS_Subset
    <3>4. Cardinality(Now) \in Nat /\ Cardinality(Kept(n, k) \cup {r}) \in Nat
      BY <3>1, <3>2, FS_Subset, FS_CardinalityType
    <3>5. Cardinality(Kept(n, k)) + 1 <= Limit[k]
      BY <1>1, <2>3 DEF full
    <3> QED BY <1>1, <2>3, <3>2, <3>3, <3>4, <3>5
  <2> QED BY <2>1, <2>2, <2>3
<1>11. EntryInv'
  <2>1. \A s \in Requests : pc[s] = "issued" => s # r
    BY <1>4
  <2>2. lives' = lives
    BY <1>2 DEF Arrive
  <2> QED BY <1>2, <1>4, <2>1, <2>2 DEF Inv, IInv, EntryInv
<1>12. PassedInv' /\ StateIsFresh' /\ StateWorksOnce'
  BY <1>2, <1>3, ArriveUnpassed DEF Inv, IInv, PassedInv
<1> QED BY <1>7, <1>9, <1>10, <1>11, <1>12 DEF Inv, IInv

\* What the rate limiter has granted does not change.
LEMMA SameGrants ==
  ASSUME Inv, now' = now, hits' = hits,
         \A m \in Nodes, j \in Keys : Granted(m, j)' = Granted(m, j),
         \A m \in Nodes, j \in Keys : \A s \in Granted(m, j) : at'[s] = at[s]
  PROVE  HitInv' /\ WindowBound'
<1>1. HitInv'
  BY DEF Inv, IInv, HitInv
<1>2. WindowBound'
  <2> SUFFICES ASSUME NEW m \in Nodes, NEW j \in Keys, NEW t \in 0 .. now
               PROVE  Cardinality({s \in Granted(m, j)' : t - Window[j] < at'[s] /\ at'[s] <= t})
                        <= Limit[j]
    BY DEF WindowBound
  <2>1. {s \in Granted(m, j)' : t - Window[j] < at'[s] /\ at'[s] <= t}
           = {s \in Granted(m, j) : t - Window[j] < at[s] /\ at[s] <= t}
    OBVIOUS
  <2> QED BY <2>1 DEF Inv, WindowBound
<1> QED BY <1>1, <1>2

LEMMA ArriveUngranted ==
  ASSUME Inv, NEW r \in Requests, NEW n \in Nodes, NEW about, NEW step,
         Arrive(r, n, about, step), step \in {"issued", "found", "invalid", "ok"}, hits' = hits
  PROVE  HitInv' /\ WindowBound'
<1>1. \A m \in Nodes, j \in Keys : Granted(m, j)' = Granted(m, j)
  BY ArriveGranted DEF Inv
<1>2. now' = now /\ pc[r] = "idle" /\ \A s \in Requests \ {r} : at'[s] = at[s]
  BY DEF Arrive, Inv, IInv, TypeOK
<1>3. \A m \in Nodes, j \in Keys : \A s \in Granted(m, j) : at'[s] = at[s]
  BY <1>2 DEF Granted
<1> QED BY <1>1, <1>2, <1>3, SameGrants

LEMMA AuthorizePreserves ==
  ASSUME Inv, NEW r \in Requests, NEW n \in Nodes, NEW f \in Flows, Authorize(r, n, f)
  PROVE  Inv'
<1> DEFINE new == [flow |-> f, until |-> now + TTL]
<1>1. /\ entries' = [entries EXCEPT ![n][r] = new] /\ Arrive(r, n, f, "issued")
      /\ hits' = hits
  BY DEF Authorize
<1>2. /\ pc[r] = "idle" /\ pc'[r] = "issued" /\ at'[r] = now
      /\ place'[r] = [node |-> n, life |-> lives[n]] /\ now' = now /\ lives' = lives
      /\ \A s \in Requests \ {r} : /\ pc'[s] = pc[s] /\ at'[s] = at[s] /\ place'[s] = place[s]
  BY <1>1 DEF Arrive, Inv, IInv, TypeOK
<1>3. entries' \in [Nodes -> [Requests -> Entry \cup {None}]]
  <2>1. new \in Entry
    BY DEF Entry, Inv, IInv, TypeOK
  <2> QED BY <1>1, <2>1 DEF Inv, IInv, TypeOK
<1>4. TypeOK' /\ PastInv'
  BY <1>1, <1>2, <1>3, ArrivePast DEF Inv, IInv, TypeOK
<1>5. HitInv' /\ WindowBound'
  BY <1>1, ArriveUngranted
<1>6. \A m \in Nodes, s \in Requests : m # n \/ s # r => entries'[m][s] = entries[m][s]
  BY <1>1 DEF Inv, IInv, TypeOK
<1>7. EntryInv'
  <2> SUFFICES ASSUME NEW m \in Nodes, NEW s \in Requests, entries'[m][s] # None
               PROVE  /\ pc'[s] = "issued"
                      /\ place'[s] = [node |-> m, life |-> lives'[m]]
                      /\ entries'[m][s].until = at'[s] + TTL
    BY DEF EntryInv
  <2>1. CASE m = n /\ s = r
    BY <1>1, <1>2, <2>1 DEF Inv, IInv, TypeOK
  <2>2. CASE ~(m = n /\ s = r)
    <3>1. entries[m][s] # None /\ entries'[m][s] = entries[m][s]
      BY <1>6, <2>2
    <3>2. EntryInv
      BY DEF Inv, IInv
    <3>3. /\ pc[s] = "issued"
          /\ place[s] = [node |-> m, life |-> lives[m]]
          /\ entries[m][s].until = at[s] + TTL
      BY <3>1, <3>2 DEF EntryInv
    <3>4. s # r
      BY <1>2, <3>3
    <3> QED BY <1>2, <3>1, <3>3, <3>4
  <2> QED BY <2>1, <2>2
<1>8. PassedInv' /\ StateIsFresh' /\ StateWorksOnce'
  <2>1. /\ \A s \in Requests :
              /\ Passed(s)' <=> Passed(s)
              /\ Passed(s) => /\ subject'[s] = subject[s] /\ subject[s] \in Requests
                              /\ pc'[subject[s]] = "issued" /\ pc'[s] = pc[s]
              /\ pc'[s] = "found" => subject'[s] # None
        /\ StateIsFresh' /\ StateWorksOnce'
    BY <1>1, ArriveUnpassed DEF Inv
  <2>2. \A s \in Requests : Passed(s) => subject[s] # r
    BY <1>2 DEF Inv, IInv, PassedInv
  <2>3. PassedInv'
    BY <1>6, <2>1, <2>2 DEF Inv, IInv, PassedInv
  <2> QED BY <2>1, <2>3
<1> QED BY <1>4, <1>5, <1>7, <1>8 DEF Inv, IInv

\* A callback that finds no state, or that of another sign-in.
LEMMA InvalidPreserves ==
  ASSUME Inv, NEW r \in Requests, NEW n \in Nodes, NEW s \in Requests,
         Arrive(r, n, s, "invalid"), hits' = hits, pc[s] = "issued",
         entries' \in [Nodes -> [Requests -> Entry \cup {None}]],
         \A m \in Nodes, x \in Requests : entries'[m][x] \in {entries[m][x], None}
  PROVE  Inv'
<1>1. /\ pc[r] = "idle" /\ now' = now /\ lives' = lives
      /\ \A x \in Requests \ {r} : /\ pc'[x] = pc[x] /\ at'[x] = at[x] /\ place'[x] = place[x]
  BY DEF Arrive, Inv, IInv, TypeOK
<1>2. TypeOK' /\ PastInv'
  BY <1>1, ArrivePast DEF Inv, IInv, TypeOK
<1>3. HitInv' /\ WindowBound'
  BY ArriveUngranted
<1>4. \A m \in Nodes, x \in Requests : entries'[m][x] # None => entries'[m][x] = entries[m][x]
  OBVIOUS
<1>5. EntryInv'
  <2> SUFFICES ASSUME NEW m \in Nodes, NEW x \in Requests, entries'[m][x] # None
               PROVE  /\ pc'[x] = "issued"
                      /\ place'[x] = [node |-> m, life |-> lives'[m]]
                      /\ entries'[m][x].until = at'[x] + TTL
    BY DEF EntryInv
  <2>1. entries'[m][x] = entries[m][x] /\ pc[x] = "issued" /\ x # r
    <3>1. entries'[m][x] = entries[m][x]
      BY <1>4
    <3>2. pc[x] = "issued"
      BY <3>1 DEF Inv, IInv, EntryInv
    <3> QED BY <1>1, <3>1, <3>2
  <2> QED BY <1>1, <2>1 DEF Inv, IInv, EntryInv
<1>6. PassedInv' /\ StateIsFresh' /\ StateWorksOnce'
  <2>1. /\ \A x \in Requests :
              /\ Passed(x)' <=> Passed(x)
              /\ Passed(x) => /\ subject'[x] = subject[x] /\ subject[x] \in Requests
                              /\ pc'[subject[x]] = "issued" /\ pc'[x] = pc[x]
              /\ pc'[x] = "found" => subject'[x] # None
        /\ StateIsFresh' /\ StateWorksOnce'
    BY ArriveUnpassed DEF Inv
  <2>2. PassedInv'
    BY <1>4, <2>1 DEF Inv, IInv, PassedInv
  <2> QED BY <2>1, <2>2
<1> QED BY <1>2, <1>3, <1>5, <1>6 DEF Inv, IInv

\* A callback that passes.
LEMMA FoundPreserves ==
  ASSUME Inv, NEW r \in Requests, NEW n \in Nodes, NEW s \in Requests,
         Arrive(r, n, s, "found"), hits' = hits, entries' = entries,
         HeldState(n, s)
  PROVE  Inv'
<1>1. /\ pc[r] = "idle" /\ pc'[r] = "found" /\ at'[r] = now
      /\ place'[r] = [node |-> n, life |-> lives[n]] /\ subject'[r] = s /\ before'[r] = Over
      /\ now' = now /\ lives' = lives
      /\ \A x \in Requests \ {r} : /\ pc'[x] = pc[x] /\ at'[x] = at[x] /\ place'[x] = place[x]
                                   /\ subject'[x] = subject[x] /\ before'[x] = before[x]
  BY DEF Arrive, Inv, IInv, TypeOK
<1>2. TypeOK' /\ PastInv'
  BY <1>1, ArrivePast DEF Inv, IInv, TypeOK
<1>3. HitInv' /\ WindowBound'
  BY ArriveUngranted
<1>4. /\ entries[n][s] # None /\ pc[s] = "issued" /\ s # r
      /\ place[s] = [node |-> n, life |-> lives[n]] /\ now <= at[s] + TTL
  BY <1>1 DEF HeldState, Inv, IInv, EntryInv
<1>5. EntryInv'
  <2> SUFFICES ASSUME NEW m \in Nodes, NEW x \in Requests, entries[m][x] # None
               PROVE  /\ pc'[x] = "issued"
                      /\ place'[x] = [node |-> m, life |-> lives[m]]
                      /\ entries[m][x].until = at'[x] + TTL
    BY <1>1 DEF EntryInv
  <2>1. pc[x] = "issued" /\ x # r
    BY <1>1 DEF Inv, IInv, EntryInv
  <2> QED BY <1>1, <2>1 DEF Inv, IInv, EntryInv
<1>6. \A x \in Requests \ {r} :
         /\ Passed(x)' <=> Passed(x)
         /\ Passed(x) => /\ subject[x] \in Requests /\ subject[x] # r
                         /\ pc[subject[x]] = "issued"
  BY <1>1 DEF Inv, IInv, PassedInv, Passed
<1>7. PassedInv'
  <2>1. \A x \in Requests : pc'[x] = "found" => subject'[x] # None
    BY <1>1, RequestsAssumption DEF Inv, IInv, PassedInv
  <2> SUFFICES ASSUME NEW x \in Requests, Passed(x)'
               PROVE  /\ subject'[x] \in Requests
                      /\ pc'[subject'[x]] = "issued"
                      /\ pc'[x] = "ok" => \A m \in Nodes : entries'[m][subject'[x]] = None
    BY <2>1 DEF PassedInv
  <2>2. CASE x = r
    BY <1>1, <1>4, <2>2
  <2>3. CASE x # r
    BY <1>1, <1>6, <2>3 DEF Inv, IInv, PassedInv
  <2> QED BY <2>2, <2>3
<1>8. StateIsFresh'
  <2> SUFFICES ASSUME NEW x \in Requests, Passed(x)'
               PROVE  place'[x] = place'[subject'[x]] /\ at'[x] <= at'[subject'[x]] + TTL
    BY DEF StateIsFresh
  <2>1. CASE x = r
    BY <1>1, <1>4, <2>1
  <2>2. CASE x # r
    BY <1>1, <1>6, <2>2 DEF Inv, StateIsFresh
  <2> QED BY <2>1, <2>2
<1>9. StateWorksOnce'
  <2> SUFFICES ASSUME NEW x \in Requests, NEW y \in Requests, Passed(x)', Passed(y)',
                      x # y, subject'[x] = subject'[y]
               PROVE  x \notin before'[y]
    BY DEF StateWorksOnce
  <2>1. CASE x = r
    <3>1. r \notin Over
      BY <1>1 DEF Over
    <3> QED BY <1>1, <2>1, <3>1 DEF Inv, IInv, PastInv
  <2>2. CASE y = r
    <3>1. Passed(x) /\ subject[x] = s
      BY <1>1, <1>6, <2>2
    <3>2. pc[x] # "ok"
      BY <1>4, <3>1 DEF Inv, IInv, PassedInv
    <3>3. x \notin Over
      BY <3>1, <3>2 DEF Passed, Over
    <3> QED BY <1>1, <2>2, <3>3
  <2>3. CASE x # r /\ y # r
    BY <1>1, <1>6, <2>3 DEF Inv, StateWorksOnce
  <2> QED BY <2>1, <2>2, <2>3
<1> QED BY <1>2, <1>3, <1>5, <1>7, <1>8, <1>9 DEF Inv, IInv

\* A callback that brings no state.
LEMMA StatelessPreserves ==
  ASSUME Inv, NEW r \in Requests, NEW n \in Nodes, StatelessCallback(r, n)
  PROVE  Inv'
<1>1. Arrive(r, n, None, "ok") /\ hits' = hits /\ entries' = entries
  BY DEF StatelessCallback, memory
<1>2. /\ pc[r] = "idle" /\ lives' = lives /\ now' = now
      /\ \A s \in Requests \ {r} : /\ pc'[s] = pc[s] /\ at'[s] = at[s] /\ place'[s] = place[s]
  BY <1>1 DEF Arrive, Inv, IInv, TypeOK
<1>3. TypeOK' /\ PastInv'
  BY <1>1, <1>2, ArrivePast DEF Inv, IInv, TypeOK
<1>4. HitInv' /\ WindowBound'
  BY <1>1, ArriveUngranted
<1>5. EntryInv'
  <2>1. \A m \in Nodes, s \in Requests : entries[m][s] # None => pc[s] = "issued" /\ s # r
    BY <1>2 DEF Inv, IInv, EntryInv
  <2> QED BY <1>1, <1>2, <2>1 DEF Inv, IInv, EntryInv
<1>6. PassedInv' /\ StateIsFresh' /\ StateWorksOnce'
  BY <1>1, ArriveUnpassed DEF Inv, IInv, PassedInv
<1> QED BY <1>3, <1>4, <1>5, <1>6 DEF Inv, IInv

LEMMA CallbackPreserves ==
  ASSUME Inv, NEW r \in Requests, NEW n \in Nodes, NEW s \in Requests, NEW f \in Flows,
         Callback(r, n, s, f)
  PROVE  Inv'
<1>1. pc[s] = "issued" /\ hits' = hits
  BY DEF Callback
<1>2. CASE ~HeldState(n, s)
  <2>1. entries' = [entries EXCEPT ![n][s] = None] /\ Arrive(r, n, s, "invalid")
    BY <1>2 DEF Callback
  <2>2. /\ entries' \in [Nodes -> [Requests -> Entry \cup {None}]]
        /\ \A m \in Nodes, x \in Requests : entries'[m][x] \in {entries[m][x], None}
    BY <2>1 DEF Inv, IInv, TypeOK
  <2> QED BY <1>1, <2>1, <2>2, InvalidPreserves
<1>3. CASE HeldState(n, s) /\ entries[n][s].flow = f
  BY <1>1, <1>3, FoundPreserves DEF Callback
<1>4. CASE HeldState(n, s) /\ entries[n][s].flow # f
  <2>1. entries' = entries /\ Arrive(r, n, s, "invalid")
    BY <1>4 DEF Callback
  <2>2. /\ entries' \in [Nodes -> [Requests -> Entry \cup {None}]]
        /\ \A m \in Nodes, x \in Requests : entries'[m][x] \in {entries[m][x], None}
    BY <2>1 DEF Inv, IInv, TypeOK
  <2> QED BY <1>1, <2>1, <2>2, InvalidPreserves
<1> QED BY <1>2, <1>3, <1>4

LEMMA UsePreserves ==
  ASSUME Inv, NEW r \in Requests, UseState(r)
  PROVE  Inv'
<1> DEFINE n == place[r].node
           s == subject[r]
<1>1. /\ pc[r] = "found" /\ pc'[r] = "ok" /\ \A x \in Requests \ {r} : pc'[x] = pc[x]
      /\ entries' = [entries EXCEPT ![n][s] = None]
      /\ now' = now /\ lives' = lives /\ hits' = hits
      /\ at' = at /\ place' = place /\ subject' = subject /\ before' = before
  BY DEF UseState, told, Inv, IInv, TypeOK
<1>2. TypeOK'
  <2>1. n \in Nodes /\ s \in Requests
    BY <1>1 DEF Inv, IInv, PastInv, PassedInv, Passed
  <2>2. entries' \in [Nodes -> [Requests -> Entry \cup {None}]]
    <3> HIDE DEF n, s
    <3> QED BY <1>1, <2>1 DEF Inv, IInv, TypeOK
  <2>3. pc' \in [Requests -> {"idle", "limited", "allowed", "issued", "found", "ok",
                            "invalid", "lost"}]
    BY DEF UseState, Inv, IInv, TypeOK
  <2> QED BY <1>1, <2>2, <2>3 DEF Inv, IInv, TypeOK
<1>3. Over \subseteq Over'
  BY <1>1 DEF Over
<1>4. PastInv'
  BY <1>1, <1>3 DEF Inv, IInv, PastInv
<1>5. HitInv' /\ WindowBound'
  <2>1. \A m \in Nodes, j \in Keys : Granted(m, j)' = Granted(m, j)
    BY <1>1 DEF Granted
  <2> QED BY <1>1, <2>1, SameGrants
<1>6. \A m \in Nodes, x \in Requests :
         entries'[m][x] = IF m = n /\ x = s THEN None ELSE entries[m][x]
  BY <1>1 DEF Inv, IInv, TypeOK
<1>7. EntryInv'
  BY <1>1, <1>6 DEF Inv, IInv, EntryInv
<1>8. /\ \A x \in Requests : Passed(x)' <=> Passed(x)
      /\ s \in Requests /\ pc[s] = "issued" /\ place[s] = place[r]
      /\ \A x \in Requests : Passed(x) => subject[x] # r
  BY <1>1 DEF Passed, Inv, IInv, PassedInv, StateIsFresh
<1>9. PassedInv'
  <2>1. \A x \in Requests : pc'[x] = "found" => subject'[x] # None
    BY <1>1 DEF Inv, IInv, PassedInv
  <2> SUFFICES ASSUME NEW x \in Requests, Passed(x)
               PROVE  /\ subject[x] \in Requests
                      /\ pc'[subject[x]] = "issued"
                      /\ pc'[x] = "ok" => \A m \in Nodes : entries'[m][subject[x]] = None
    BY <1>1, <1>8, <2>1 DEF PassedInv
  <2>2. subject[x] \in Requests /\ pc'[subject[x]] = "issued"
    BY <1>1, <1>8 DEF Inv, IInv, PassedInv
  <2>3. ASSUME NEW m \in Nodes, pc'[x] = "ok"
        PROVE  entries'[m][subject[x]] = None
    <3>1. CASE x = r
      <4>1. entries[m][s] # None => place[s] = [node |-> m, life |-> lives[m]]
        BY <1>8 DEF Inv, IInv, EntryInv
      <4>2. entries[m][s] # None => m = n
        BY <1>8, <4>1
      <4> QED BY <1>6, <1>8, <3>1, <4>2
    <3>2. CASE x # r
      BY <1>1, <1>6, <2>2, <2>3, <3>2 DEF Inv, IInv, PassedInv
    <3> QED BY <3>1, <3>2
  <2> QED BY <2>2, <2>3
<1>10. StateIsFresh' /\ StateWorksOnce'
  BY <1>1, <1>8 DEF Inv, StateIsFresh, StateWorksOnce
<1> QED BY <1>2, <1>4, <1>5, <1>7, <1>9, <1>10 DEF Inv, IInv

LEMMA TickPreserves ==
  ASSUME Inv, Tick
  PROVE  Inv'
<1>1. /\ now' = now + 1 /\ now \in Nat /\ lives' = lives /\ hits' = hits /\ entries' = entries
      /\ pc' = pc /\ at' = at /\ place' = place /\ subject' = subject /\ before' = before
  BY DEF Tick, memory, told, Inv, IInv, TypeOK
<1>2. TypeOK'
  BY <1>1 DEF Inv, IInv, TypeOK
<1>3. \A r \in Requests : at[r] \in Nat /\ at[r] <= now
  BY DEF Inv, IInv, TypeOK, PastInv
<1>4. PastInv'
  BY <1>1, <1>3 DEF Inv, IInv, PastInv, Over
<1>5. \A n \in Nodes, k \in Keys : /\ Granted(n, k)' = Granted(n, k)
                                   /\ Granted(n, k) \subseteq Requests
                                   /\ Window[k] \in Nat /\ Limit[k] \in Nat
  BY <1>1 DEF Granted
<1>6. HitInv'
  BY <1>1, <1>3, <1>5 DEF Inv, IInv, HitInv
<1>7. WindowBound'
  <2> SUFFICES ASSUME NEW n \in Nodes, NEW k \in Keys, NEW t \in 0 .. (now + 1)
               PROVE  Cardinality({s \in Granted(n, k) : t - Window[k] < at[s] /\ at[s] <= t})
                        <= Limit[k]
    BY <1>1, <1>5 DEF WindowBound
  <2>1. CASE t \in 0 .. now
    BY <2>1 DEF Inv, WindowBound
  <2>2. CASE t = now + 1
    <3> DEFINE Old == {s \in Granted(n, k) : now - Window[k] < at[s] /\ at[s] <= now}
               New == {s \in Granted(n, k) : t - Window[k] < at[s] /\ at[s] <= t}
    <3>1. New \subseteq Old
      BY <1>1, <1>3, <1>5, <2>2
    <3>2. IsFiniteSet(Old)
      BY <1>5, RequestsAssumption, FS_Subset
    <3>3. Cardinality(Old) <= Limit[k]
      BY <1>1 DEF Inv, WindowBound
    <3> HIDE DEF Old, New
    <3>4. /\ Cardinality(New) <= Cardinality(Old)
          /\ Cardinality(New) \in Nat /\ Cardinality(Old) \in Nat
      BY <3>1, <3>2, FS_Subset, FS_CardinalityType
    <3>5. Cardinality(New) <= Limit[k]
      BY <1>5, <3>3, <3>4
    <3> QED BY <3>5 DEF New
  <2> QED BY <1>1, <2>1, <2>2
<1>8. EntryInv' /\ PassedInv' /\ StateIsFresh' /\ StateWorksOnce'
  BY <1>1 DEF Inv, IInv, EntryInv, PassedInv, Passed, StateIsFresh, StateWorksOnce
<1> QED BY <1>2, <1>4, <1>6, <1>7, <1>8 DEF Inv, IInv

LEMMA RestartPreserves ==
  ASSUME Inv, NEW n \in Nodes, Restart(n)
  PROVE  Inv'
<1>1. /\ lives' = [lives EXCEPT ![n] = @ + 1] /\ now' = now
      /\ hits' = [hits EXCEPT ![n] = [k \in Keys |-> {}]]
      /\ entries' = [entries EXCEPT ![n] = [s \in Requests |-> None]]
      /\ \A r \in Requests : pc'[r] = pc[r] \/ (pc[r] = "found" /\ pc'[r] = "lost")
      /\ at' = at /\ place' = place /\ subject' = subject /\ before' = before
  BY DEF Restart, told
<1>2. TypeOK'
  BY <1>1 DEF Restart, Inv, IInv, TypeOK
<1>3. Over \subseteq Over'
  BY <1>1 DEF Over
<1>4. \A m \in Nodes : /\ lives[m] \in Nat /\ lives[m] <= lives'[m]
                       /\ m = n => lives'[m] = lives[m] + 1
                       /\ m # n => lives'[m] = lives[m]
  BY <1>1 DEF Inv, IInv, TypeOK
<1>5. PastInv'
  <2> SUFFICES ASSUME NEW r \in Requests
               PROVE  /\ at[r] <= now
                      /\ pc'[r] # "idle" => /\ place[r] \in [node : Nodes, life : Nat]
                                            /\ place[r].life <= lives'[place[r].node]
                      /\ before[r] \subseteq Over'
    BY <1>1 DEF PastInv
  <2>1. pc[r] # "idle" => /\ place[r] \in [node : Nodes, life : Nat]
                          /\ place[r].life <= lives[place[r].node]
    BY DEF Inv, IInv, PastInv
  <2>2. at[r] <= now /\ before[r] \subseteq Over'
    BY <1>3 DEF Inv, IInv, PastInv
  <2>3. pc'[r] # "idle" => pc[r] # "idle"
    BY <1>1
  <2> QED BY <1>4, <2>1, <2>2, <2>3
<1>6. \A m \in Nodes, k \in Keys : Granted(m, k)' = IF m = n THEN {} ELSE Granted(m, k)
  <2> SUFFICES ASSUME NEW m \in Nodes, NEW k \in Keys, NEW r \in Requests
               PROVE  r \in Granted(m, k)' <=> m # n /\ r \in Granted(m, k)
    BY DEF Granted
  <2>1. CASE m = n
    <3>1. pc[r] = "allowed" => place[r] # [node |-> n, life |-> lives'[n]]
      BY <1>4 DEF Inv, IInv, PastInv
    <3> QED BY <1>1, <2>1, <3>1 DEF Granted
  <2>2. CASE m # n
    BY <1>1, <1>4, <2>2 DEF Granted
  <2> QED BY <2>1, <2>2
<1>7. HitInv'
  <2> SUFFICES ASSUME NEW m \in Nodes, NEW k \in Keys,
                      NEW r \in Granted(m, k)', at'[r] > now' - Window[k]
               PROVE  r \in hits'[m][k]
    BY DEF HitInv
  <2>1. m # n /\ r \in Granted(m, k)
    BY <1>6
  <2>2. hits'[m][k] = hits[m][k]
    BY <1>1, <2>1 DEF Inv, IInv, TypeOK
  <2> QED BY <1>1, <2>1, <2>2 DEF Inv, IInv, HitInv
<1>8. WindowBound'
  <2> SUFFICES ASSUME NEW m \in Nodes, NEW k \in Keys, NEW t \in 0 .. now
               PROVE  Cardinality({s \in Granted(m, k)' : t - Window[k] < at[s] /\ at[s] <= t})
                        <= Limit[k]
    BY <1>1 DEF WindowBound
  <2>1. CASE m = n
    <3>1. {s \in Granted(m, k)' : t - Window[k] < at[s] /\ at[s] <= t} = {}
      BY <1>6, <2>1
    <3> QED BY <3>1, FS_EmptySet
  <2>2. CASE m # n
    BY <1>6, <2>2 DEF Inv, WindowBound
  <2> QED BY <2>1, <2>2
<1>9. \A m \in Nodes, s \in Requests :
         entries'[m][s] = IF m = n THEN None ELSE entries[m][s]
  BY <1>1 DEF Inv, IInv, TypeOK
<1>10. EntryInv'
  BY <1>1, <1>4, <1>9 DEF Inv, IInv, EntryInv
<1>11. \A r \in Requests : Passed(r)' => Passed(r) /\ pc'[r] = pc[r]
  BY <1>1 DEF Passed
<1>12. PassedInv'
  BY <1>1, <1>9, <1>11 DEF Inv, IInv, PassedInv
<1>13. StateIsFresh' /\ StateWorksOnce'
  BY <1>1, <1>11 DEF Inv, StateIsFresh, StateWorksOnce
<1> QED BY <1>2, <1>5, <1>7, <1>8, <1>10, <1>12, <1>13 DEF Inv, IInv

LEMMA NextInv == Inv /\ [Next]_vars => Inv'
<1> SUFFICES ASSUME Inv, [Next]_vars PROVE Inv'
  OBVIOUS
<1>1. ASSUME NEW r \in Requests, NEW n \in Nodes, NEW k \in Keys, Allow(r, n, k)
      PROVE  Inv'
  BY <1>1, AllowPreserves
<1>2. ASSUME NEW r \in Requests, NEW n \in Nodes, NEW f \in Flows, Authorize(r, n, f)
      PROVE  Inv'
  BY <1>2, AuthorizePreserves
<1>3. ASSUME NEW r \in Requests, NEW n \in Nodes, NEW s \in Requests, NEW f \in Flows,
             Callback(r, n, s, f)
      PROVE  Inv'
  BY <1>3, CallbackPreserves
<1>4. CASE UNCHANGED vars
  <2>1. \A n \in Nodes, k \in Keys : Granted(n, k)' = Granted(n, k)
    BY <1>4 DEF Granted, vars, told
  <2>2. HitInv' /\ WindowBound'
    BY <1>4, <2>1 DEF Inv, IInv, HitInv, WindowBound, vars, memory, told
  <2>3. TypeOK' /\ PastInv'
    BY <1>4 DEF Inv, IInv, TypeOK, PastInv, Over, vars, memory, told
  <2>4. EntryInv' /\ PassedInv' /\ StateIsFresh' /\ StateWorksOnce'
    BY <1>4 DEF Inv, IInv, EntryInv, PassedInv, Passed, StateIsFresh, StateWorksOnce,
                vars, memory, told
  <2> QED BY <2>2, <2>3, <2>4 DEF Inv, IInv
<1>5. ASSUME NEW r \in Requests, NEW n \in Nodes, StatelessCallback(r, n)
      PROVE  Inv'
  BY <1>5, StatelessPreserves
<1> QED BY <1>1, <1>2, <1>3, <1>4, <1>5, UsePreserves, TickPreserves, RestartPreserves DEF Next

-----------------------------------------------------------------------------

\* The inductive invariant and the properties hold of every behaviour.
THEOREM Invariance == Spec => []Inv
BY InitInv, NextInv, PTL DEF Spec

\* Every variable keeps its type.
THEOREM TypeCorrectness == Spec => []TypeOK
<1>1. Inv => TypeOK
  BY DEF Inv, IInv
<1> QED BY <1>1, Invariance, PTL

\* The sliding window of Allow: in any Window[k] ticks a process allows no more
\* than Limit[k] requests for k, for any limits, windows and restarts.
THEOREM WindowsAreBounded == Spec => []WindowBound
<1>1. Inv => WindowBound
  BY DEF Inv
<1> QED BY <1>1, Invariance, PTL

\* OAuthCallback, when it is given a state, passes only with a fresh one of the
\* process that it runs in; one that is given none is not checked.
THEOREM StatesAreFresh == Spec => []StateIsFresh
<1>1. Inv => StateIsFresh
  BY DEF Inv
<1> QED BY <1>1, Invariance, PTL

\* After a callback with a state is over, no later one passes with that state,
\* for any number of processes and callbacks.
THEOREM StatesWorkOnce == Spec => []StateWorksOnce
<1>1. Inv => StateWorksOnce
  BY DEF Inv
<1> QED BY <1>1, Invariance, PTL

=============================================================================
