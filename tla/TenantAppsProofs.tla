-------------------------- MODULE TenantAppsProofs --------------------------
(***************************************************************************)
(* Proofs about TenantApps, for any sets of apps, instances and calls, and *)
(* any TTL and call duration.                                              *)
(***************************************************************************)
EXTENDS TenantApps, TLAPS

USE AppsAssumption

IInv == TypeOK /\ CallInv /\ AgeInv

\* What a call was called with, once it has begun.
LEMMA CallType ==
  ASSUME TypeOK, CallInv, NEW c \in Calls, pc[c] # "idle"
  PROVE  /\ call[c] \in Call
         /\ App(c) \in Apps /\ Node(c) \in Nodes
         /\ call[c].op \in OpType
         /\ copy[c] \in Doc \cup {None}
         /\ age[c] \in Nat /\ age[c] <= MaxFlight
  BY DEF TypeOK, CallInv, Call, App, Node

LEMMA NewDocuments ==
  ASSUME NEW c \in Calls
  PROVE  /\ Created(c) \in Doc /\ Active(Created(c))
         /\ \A d \in Doc : /\ [d EXCEPT !.secret = c] \in Doc
                           /\ \A s \in {"active", "disabled"} : [d EXCEPT !.status = s] \in Doc
                           /\ Active(d) => Fresh(d) \in Entry /\ Fresh(d).left = TTL
                                                              /\ Fresh(d).doc = d
  BY DEF Created, Doc, Active, Fresh, Entry

LEMMA NotNone ==
  /\ \A d \in Doc : d # None
  /\ \A e \in Entry : e # None /\ e.doc \in Doc /\ Active(e.doc) /\ e.left \in 1..TTL
  /\ \A c \in Call : c # None
  BY DEF Entry

-----------------------------------------------------------------------------

LEMMA InitIInv == Init => IInv
<1> SUFFICES ASSUME Init PROVE IInv
  OBVIOUS
<1>1. [status |-> "active", secret |-> Old] \in Doc
  BY DEF Doc
<1>2. TypeOK
  BY <1>1 DEF Init, TypeOK, Horizon, Final
<1>3. CallInv
  BY <1>1, NotNone DEF Init, CallInv
<1>4. AgeInv
  BY <1>1 DEF Init, AgeInv
<1> QED BY <1>2, <1>3, <1>4 DEF IInv

LEMMA BeginPreserves ==
  ASSUME IInv, NEW c \in Calls, NEW a \in Apps, NEW n \in Nodes, NEW op \in Ops,
         Begin(c, a, n, op)
  PROVE  IInv'
<1>1. [op |-> op, app |-> a, node |-> n] \in Call
  BY DEF Call
<1>2. TypeOK'
  BY <1>1 DEF IInv, TypeOK, Begin, Goto, Final
<1>3. CallInv'
  BY <1>1, NotNone DEF IInv, TypeOK, CallInv, Begin, Goto, App
<1>4. AgeInv'
  BY <1>1 DEF IInv, TypeOK, CallInv, AgeInv, Begin, Goto, App
<1> QED BY <1>2, <1>3, <1>4 DEF IInv

LEMMA AgainPreserves ==
  ASSUME IInv, NEW c \in Calls, Again(c)
  PROVE  IInv'
<1>1. TypeOK'
  BY DEF IInv, TypeOK, Again, Goto, Final
<1>2. CallInv'
  BY DEF IInv, TypeOK, CallInv, Again, Goto, App, Final
<1>3. AgeInv'
  BY DEF IInv, TypeOK, CallInv, AgeInv, Again, Goto, App, Final
<1> QED BY <1>1, <1>2, <1>3 DEF IInv

LEMMA FailPreserves ==
  ASSUME IInv, NEW c \in Calls, Fail(c)
  PROVE  IInv'
<1>1. TypeOK'
  BY DEF IInv, TypeOK, Fail, Goto, Final
<1>2. CallInv'
  BY DEF IInv, TypeOK, CallInv, Fail, Goto, App, Final, InFlight
<1>3. AgeInv'
  BY DEF IInv, TypeOK, CallInv, AgeInv, Fail, Goto, App, Final
<1> QED BY <1>1, <1>2, <1>3 DEF IInv

LEMMA RestartPreserves ==
  ASSUME IInv, NEW n \in Nodes, Restart(n)
  PROVE  IInv'
<1>1. TypeOK'
  BY DEF IInv, TypeOK, Restart, Final
<1>2. CallInv'
  BY DEF IInv, TypeOK, CallInv, Restart, App, Final, InFlight
<1>3. AgeInv'
  BY DEF IInv, TypeOK, CallInv, AgeInv, Restart, App, Final
<1> QED BY <1>1, <1>2, <1>3 DEF IInv

-----------------------------------------------------------------------------
(* Steps of a call, one lemma each.                                         *)

LEMMA ReadCachePreserves ==
  ASSUME IInv, NEW c \in Calls, ReadCache(c)
  PROVE  IInv'
<1> DEFINE e == cache[Node(c)][App(c)]
<1>1. pc[c] # "idle" /\ App(c) \in Apps /\ Node(c) \in Nodes /\ e \in Entry \cup {None}
  BY CallType DEF IInv, ReadCache, TypeOK
<1>2. TypeOK'
  BY <1>1, NotNone DEF IInv, TypeOK, ReadCache, Goto, Final
<1>3. CallInv'
  BY <1>1, NotNone DEF IInv, TypeOK, CallInv, ReadCache, Goto, App, Node
<1>4. e # None => last[App(c)][e.doc] < MaxFlight + TTL
  BY <1>1, NotNone DEF IInv, AgeInv, TypeOK
<1>5. AgeInv'
  BY <1>1, <1>4, CallType, NotNone DEF IInv, TypeOK, AgeInv, ReadCache, Goto, App, Node
<1> QED BY <1>2, <1>3, <1>5 DEF IInv

LEMMA LoadAppPreserves ==
  ASSUME IInv, NEW c \in Calls, LoadApp(c)
  PROVE  IInv'
<1>1. pc[c] # "idle" /\ call[c] # None /\ App(c) \in Apps /\ store[App(c)] \in Doc \cup {None}
  BY CallType DEF IInv, CallInv, LoadApp, TypeOK
<1>2. TypeOK'
  BY <1>1 DEF IInv, TypeOK, LoadApp, Goto, Final
<1>3. CallInv'
  BY <1>1 DEF IInv, TypeOK, CallInv, LoadApp, Goto, App
<1>4. AgeInv'
  BY <1>1, CallType DEF IInv, TypeOK, AgeInv, LoadApp, Goto, App
<1> QED BY <1>2, <1>3, <1>4 DEF IInv

LEMMA DecidePreserves ==
  ASSUME IInv, NEW c \in Calls, Decide(c)
  PROVE  IInv'
<1>1. pc[c] # "idle" /\ call[c] # None /\ App(c) \in Apps /\ call[c].op \in OpType
  BY CallType DEF IInv, CallInv, Decide
<1>2. ASSUME NEW l \in {"ok", "refused", "create", "write", "disable", "auth"}, Goto(c, l)
      PROVE  pc' = [pc EXCEPT ![c] = l] /\ age' \in [Calls -> 0..MaxFlight]
             /\ \A x \in Calls : x # c => age'[x] = age[x]
  BY <1>2 DEF IInv, TypeOK, Goto
<1>3. UNCHANGED <<store, authCfg, billCfg, cache, call, restarts, last>>
  BY DEF Decide
<1>4. ASSUME NEW l \in {"ok", "refused", "create"}, Goto(c, l), UNCHANGED copy
      PROVE  IInv'
  <2>1. TypeOK'
    BY <1>2, <1>3, <1>4 DEF IInv, TypeOK, Final
  <2>2. CallInv'
    BY <1>1, <1>2, <1>3, <1>4 DEF IInv, TypeOK, CallInv, App
  <2>3. AgeInv'
    BY <1>2, <1>3, <1>4 DEF IInv, TypeOK, AgeInv, App
  <2> QED BY <2>1, <2>2, <2>3 DEF IInv
<1>5. ASSUME NEW l \in {"write", "disable", "auth"}, Goto(c, l), NEW d \in Doc,
             copy[c] # None, copy' = [copy EXCEPT ![c] = d]
      PROVE  IInv'
  <2>1. TypeOK'
    BY <1>2, <1>3, <1>5 DEF IInv, TypeOK, Final
  <2>2. CallInv'
    BY <1>1, <1>2, <1>3, <1>5, NotNone DEF IInv, TypeOK, CallInv, App
  <2>3. AgeInv'
    BY <1>2, <1>3, <1>5 DEF IInv, TypeOK, AgeInv, App
  <2> QED BY <2>1, <2>2, <2>3 DEF IInv
<1>6. ASSUME NEW l \in {"write", "disable", "auth"}, Goto(c, l), copy[c] # None, UNCHANGED copy
      PROVE  IInv'
  <2>1. copy[c] \in Doc /\ copy' = [copy EXCEPT ![c] = copy[c]]
    BY <1>6 DEF IInv, TypeOK
  <2> QED BY <1>5, <1>6, <2>1
<1>7. CASE RequireActive(c)
  BY <1>4, <1>7 DEF RequireActive
<1>8. CASE Edit(c)
  <2>1. CASE UNCHANGED copy
    BY <1>6, <1>8, <2>1 DEF Edit
  <2>2. CASE /\ call[c].op.status # None
             /\ copy' = [copy EXCEPT ![c].status = call[c].op.status]
    <3>1. copy[c] \in Doc /\ call[c].op.status \in {"active", "disabled"}
      BY <1>1, <1>8, <2>2 DEF IInv, TypeOK, Edit, OpType
    <3>2. [copy[c] EXCEPT !.status = call[c].op.status] \in Doc
      BY <3>1, NewDocuments
    <3>3. copy' = [copy EXCEPT ![c] = [copy[c] EXCEPT !.status = call[c].op.status]]
      BY <2>2
    <3> QED BY <1>5, <1>8, <3>2, <3>3 DEF Edit
  <2> QED BY <1>8, <2>1, <2>2 DEF Edit
<1>9. CASE NewSecret(c)
  <2>1. copy[c] \in Doc /\ [copy[c] EXCEPT !.secret = c] \in Doc
    BY <1>9, NewDocuments DEF IInv, TypeOK, NewSecret
  <2>2. copy' = [copy EXCEPT ![c] = [copy[c] EXCEPT !.secret = c]]
    BY <1>9 DEF NewSecret
  <2> QED BY <1>5, <1>9, <2>1, <2>2 DEF NewSecret
<1> QED BY <1>4, <1>6, <1>7, <1>8, <1>9 DEF Decide

LEMMA PutKeepsBounds ==
  ASSUME IInv, NEW a \in Apps, NEW d \in Doc, Put(a, d)
  PROVE  /\ store' \in [Apps -> Doc \cup {None}]
         /\ last' \in [Apps -> [Doc -> 0..(Horizon + 1)]]
         /\ \A b \in Apps : store[b] # None => store'[b] # None
         /\ store'[a] # None
         /\ \A b \in Apps : store'[b] # None => last'[b][store'[b]] = 0
         /\ \A b \in Apps, x \in Doc : last'[b][x] <= last[b][x]
         /\ last'[a][d] = 0
<1>1. last' = [last EXCEPT ![a] = [last[a] EXCEPT ![d] = 0]]
  BY DEF Put, IInv, TypeOK
<1> QED BY <1>1, NotNone DEF IInv, TypeOK, AgeInv, Put, Horizon

\* The three actions that write the document.
LEMMA PutPreserves ==
  ASSUME IInv, NEW c \in Calls, pc[c] # "idle",
         NEW d \in Doc, Put(App(c), d),
         NEW l \in {"refresh", "evict", "prime"}, Goto(c, l),
         l = "refresh" => d = copy[c],
         l = "prime" => d = Created(c),
         UNCHANGED <<authCfg, billCfg, cache, call, copy, restarts>>
  PROVE  IInv'
<1>1. App(c) \in Apps /\ call[c] # None
      /\ pc' = [pc EXCEPT ![c] = l] /\ UNCHANGED age
  BY CallType DEF IInv, CallInv, TypeOK, Goto, Final
<1>2. Put(App(c), d) /\ UNCHANGED <<authCfg, billCfg, cache, call, copy, restarts>>
  OBVIOUS
<1>3. TypeOK'
  BY <1>1, <1>2, PutKeepsBounds DEF IInv, TypeOK
<1>4. CallInv'
  BY <1>1, <1>2, PutKeepsBounds, NotNone DEF IInv, TypeOK, CallInv, App, Call
<1>5. AgeInv'
  <2>1. \A b \in Apps : store'[b] # None => last'[b][store'[b]] = 0
    BY <1>1, <1>2, PutKeepsBounds
  <2>2. \A n \in Nodes, b \in Apps : cache'[n][b] # None =>
           last'[b][cache'[n][b].doc] <= MaxFlight + TTL - cache'[n][b].left
    <3> SUFFICES ASSUME NEW n \in Nodes, NEW b \in Apps, cache'[n][b] # None
                 PROVE  last'[b][cache'[n][b].doc] <= MaxFlight + TTL - cache'[n][b].left
      OBVIOUS
    <3>1. cache'[n][b] = cache[n][b] /\ cache[n][b] \in Entry
      BY <1>2 DEF IInv, TypeOK
    <3>2. last'[b][cache[n][b].doc] <= last[b][cache[n][b].doc]
      BY <1>1, <1>2, <3>1, NotNone, PutKeepsBounds
    <3> QED BY <1>1, <1>2, <3>1, <3>2, NotNone, PutKeepsBounds DEF IInv, TypeOK, AgeInv, Horizon
  <2>3. ASSUME NEW x \in Calls, pc'[x] # "idle"
        PROVE  /\ x # c => \A y \in Doc : last'[App(x)'][y] <= last[App(x)][y]
               /\ App(x)' \in Apps /\ App(x)' = App(x)
    BY <1>1, <1>2, <2>3, CallType, PutKeepsBounds DEF IInv, App
  <2>4. last'[App(c)][d] <= age'[c]
    BY <1>1, <1>2, PutKeepsBounds DEF IInv, TypeOK
  <2>5. \A x \in Calls :
          /\ pc'[x] \in {"fill", "refresh"} => last'[App(x)'][copy'[x]] <= age'[x]
          /\ pc'[x] = "prime" => last'[App(x)'][Created(x)] <= age'[x]
          /\ pc'[x] = "decide" /\ copy'[x] # None =>
                last'[App(x)'][copy'[x]] < MaxFlight + TTL + age'[x]
    <3> SUFFICES ASSUME NEW x \in Calls, x # c, pc[x] # "idle"
                 PROVE  /\ pc[x] \in {"fill", "refresh"} => last'[App(x)][copy[x]] <= age[x]
                        /\ pc[x] = "prime" => last'[App(x)][Created(x)] <= age[x]
                        /\ pc[x] = "decide" /\ copy[x] # None =>
                              last'[App(x)][copy[x]] < MaxFlight + TTL + age[x]
      BY <1>1, <1>2, <2>3, <2>4 DEF IInv, TypeOK
    <3>1. /\ App(x) \in Apps /\ Created(x) \in Doc /\ copy[x] \in Doc \cup {None}
          /\ pc[x] \in {"fill", "refresh"} => copy[x] \in Doc
      BY CallType, NewDocuments DEF IInv, CallInv
    <3>2. \A y \in Doc : /\ last'[App(x)][y] <= last[App(x)][y]
                         /\ last'[App(x)][y] \in Nat /\ last[App(x)][y] \in Nat
      BY <1>1, <1>2, <2>3, <3>1, PutKeepsBounds DEF IInv, TypeOK, Horizon
    <3> QED BY <3>1, <3>2 DEF IInv, AgeInv, TypeOK
  <2> QED BY <2>1, <2>2, <2>5 DEF AgeInv, Created
<1> QED BY <1>3, <1>4, <1>5 DEF IInv

LEMMA WritePreserves ==
  ASSUME IInv, NEW c \in Calls, Write(c)
  PROVE  IInv'
<1>1. pc[c] # "idle" /\ copy[c] \in Doc
  BY DEF IInv, CallInv, TypeOK, Write
<1> QED BY <1>1, PutPreserves DEF Write

LEMMA SoftDisablePreserves ==
  ASSUME IInv, NEW c \in Calls, SoftDisable(c)
  PROVE  IInv'
<1>1. pc[c] # "idle" /\ App(c) \in Apps /\ store[App(c)] \in Doc
  BY CallType DEF IInv, CallInv, TypeOK, SoftDisable
<1>2. [store[App(c)] EXCEPT !.status = "disabled"] \in Doc
  BY <1>1, NewDocuments
<1> QED BY <1>1, <1>2, PutPreserves DEF SoftDisable

LEMMA CreateAppPreserves ==
  ASSUME IInv, NEW c \in Calls, CreateApp(c)
  PROVE  IInv'
<1>1. pc[c] # "idle" /\ Created(c) \in Doc
  BY NewDocuments DEF CreateApp
<1>2. CASE store[App(c)] = None
  BY <1>1, <1>2, PutPreserves DEF CreateApp
<1>3. CASE store[App(c)] # None
  <2> Goto(c, "refused") /\ UNCHANGED <<store, authCfg, billCfg, cache, call, copy, restarts, last>>
    BY <1>3 DEF CreateApp
  <2>1. TypeOK'
    BY DEF IInv, TypeOK, Goto, Final
  <2>2. CallInv'
    BY <1>1 DEF IInv, TypeOK, CallInv, Goto, App
  <2>3. AgeInv'
    BY <1>1 DEF IInv, TypeOK, AgeInv, Goto, App
  <2> QED BY <2>1, <2>2, <2>3 DEF IInv
<1> QED BY <1>2, <1>3

\* The actions that fill or drop an entry: what goes in was stored no longer
\* ago than the call has been running.
LEMMA SetCachePreserves ==
  ASSUME IInv, NEW c \in Calls, pc[c] # "idle",
         NEW e \in Entry \cup {None}, SetCache(c, e),
         e # None => /\ e.left = TTL /\ last[App(c)][e.doc] <= age[c]
                     /\ store[App(c)] # None,
         NEW l \in {"decide", "ok", "auth"}, Goto(c, l),
         l = "decide" => pc[c] = "fill",
         UNCHANGED <<store, authCfg, billCfg, call, copy, restarts, last>>
  PROVE  IInv'
<1>1. App(c) \in Apps /\ Node(c) \in Nodes /\ call[c] # None /\ age[c] <= MaxFlight
  BY CallType DEF IInv, CallInv
<1>2. TypeOK'
  BY <1>1 DEF IInv, TypeOK, SetCache, Goto, Final
<1>3. CallInv'
  BY <1>1 DEF IInv, TypeOK, CallInv, SetCache, Goto, App
<1>4. AgeInv'
  BY <1>1, NotNone DEF IInv, TypeOK, AgeInv, SetCache, Goto, App
<1> QED BY <1>2, <1>3, <1>4 DEF IInv

LEMMA FillPreserves ==
  ASSUME IInv, NEW c \in Calls, Fill(c)
  PROVE  IInv'
<1>1. /\ pc[c] # "idle" /\ copy[c] \in Doc /\ Active(copy[c]) /\ store[App(c)] # None
      /\ last[App(c)][copy[c]] <= age[c]
  BY CallType DEF IInv, CallInv, AgeInv, Fill
<1>2. Fresh(copy[c]) \in Entry /\ Fresh(copy[c]).left = TTL /\ Fresh(copy[c]).doc = copy[c]
  BY <1>1, NewDocuments
<1> QED BY <1>1, <1>2, SetCachePreserves DEF Fill

LEMMA RefreshPreserves ==
  ASSUME IInv, NEW c \in Calls, Refresh(c)
  PROVE  IInv'
<1>1. /\ pc[c] # "idle" /\ copy[c] \in Doc /\ store[App(c)] # None
      /\ last[App(c)][copy[c]] <= age[c]
  BY CallType DEF IInv, CallInv, AgeInv, Refresh
<1>2. CASE Active(copy[c])
  <2>1. Fresh(copy[c]) \in Entry /\ Fresh(copy[c]).left = TTL /\ Fresh(copy[c]).doc = copy[c]
    BY <1>1, <1>2, NewDocuments
  <2> QED BY <1>1, <1>2, <2>1, SetCachePreserves DEF Refresh
<1>3. CASE ~Active(copy[c])
  BY <1>1, <1>3, SetCachePreserves DEF Refresh
<1> QED BY <1>2, <1>3

LEMMA EvictPreserves ==
  ASSUME IInv, NEW c \in Calls, Evict(c)
  PROVE  IInv'
BY SetCachePreserves DEF Evict

LEMMA PrimePreserves ==
  ASSUME IInv, NEW c \in Calls, Prime(c)
  PROVE  IInv'
<1>1. /\ pc[c] # "idle" /\ store[App(c)] # None
      /\ last[App(c)][Created(c)] <= age[c]
  BY DEF IInv, CallInv, AgeInv, Prime
<1>2. /\ Fresh(Created(c)) \in Entry /\ Fresh(Created(c)).left = TTL
      /\ Fresh(Created(c)).doc = Created(c)
  BY NewDocuments
<1> QED BY <1>1, <1>2, SetCachePreserves DEF Prime

LEMMA HooksPreserve ==
  ASSUME IInv, NEW c \in Calls, EnsureAuth(c) \/ EnsureBilling(c)
  PROVE  IInv'
<1>1. pc[c] # "idle" /\ App(c) \in Apps
  <2>1. pc[c] # "idle"
    BY DEF EnsureAuth, EnsureBilling
  <2> QED BY <2>1, CallType DEF IInv
<1>2. PICK l \in {"ok", "billing"} :
         /\ Goto(c, l)
         /\ UNCHANGED <<store, cache, call, copy, restarts, last>>
         /\ authCfg' \subseteq authCfg \cup {App(c)}
         /\ billCfg' \subseteq billCfg \cup {App(c)}
  BY DEF EnsureAuth, EnsureBilling
<1>3. TypeOK'
  BY <1>1, <1>2 DEF IInv, TypeOK, Goto, Final
<1>4. CallInv'
  BY <1>1, <1>2 DEF IInv, TypeOK, CallInv, Goto, App
<1>5. AgeInv'
  BY <1>1, <1>2 DEF IInv, TypeOK, AgeInv, Goto, App
<1> QED BY <1>3, <1>4, <1>5 DEF IInv

-----------------------------------------------------------------------------
(* Time: everything grows older by one tick together.                       *)

LEMMA TickPreserves ==
  ASSUME IInv, Tick
  PROVE  IInv'
<1>1. \A e \in Entry : Aged(e) # None =>
          Aged(e) \in Entry /\ Aged(e).doc = e.doc /\ Aged(e).left = e.left - 1
  BY NotNone DEF Aged, Entry
<1>2. Aged(None) = None
  BY DEF Aged
<1>3. \A a \in Apps, d \in Doc :
          /\ last'[a][d] \in 0..(Horizon + 1)
          /\ last[a][d] <= Horizon => last'[a][d] <= last[a][d] + 1
          /\ store[a] = d => last'[a][d] = 0
  BY DEF Tick, IInv, TypeOK, Horizon
<1>4. \A c \in Calls : /\ age'[c] \in 0..MaxFlight
                       /\ c \in InFlight => age'[c] = age[c] + 1
  BY DEF Tick, IInv, TypeOK, InFlight
<1>5. UNCHANGED <<store, authCfg, billCfg, pc, call, copy, restarts>>
  BY DEF Tick
<1>6. \A n \in Nodes, a \in Apps : cache'[n][a] = Aged(cache[n][a])
  BY DEF Tick
<1>7. TypeOK'
  <2>1. last' \in [Apps -> [Doc -> 0..(Horizon + 1)]]
    BY <1>3 DEF Tick
  <2>2. cache' \in [Nodes -> [Apps -> Entry \cup {None}]]
    BY <1>1, <1>2 DEF Tick, IInv, TypeOK
  <2>3. age' \in [Calls -> 0..MaxFlight]
    BY <1>4 DEF Tick
  <2> QED BY <1>5, <2>1, <2>2, <2>3 DEF IInv, TypeOK
<1>8. CallInv'
  BY <1>2, <1>5, <1>6 DEF IInv, CallInv, App
<1>9. AgeInv'
  <2>1. \A a \in Apps : store'[a] # None => last'[a][store'[a]] = 0
    BY <1>3, <1>5 DEF IInv, TypeOK
  <2>2. ASSUME NEW n \in Nodes, NEW a \in Apps, cache'[n][a] # None
        PROVE  last'[a][cache'[n][a].doc] <= MaxFlight + TTL - cache'[n][a].left
    <3>1. cache[n][a] \in Entry /\ cache[n][a] # None
      BY <1>2, <1>6, <2>2 DEF IInv, TypeOK
    <3>2. last[a][cache[n][a].doc] <= MaxFlight + TTL - cache[n][a].left
      BY <3>1 DEF IInv, AgeInv
    <3>3. /\ cache'[n][a].doc = cache[n][a].doc /\ cache[n][a].doc \in Doc
          /\ cache'[n][a].left = cache[n][a].left - 1 /\ cache[n][a].left \in 1..TTL
      BY <1>1, <1>6, <2>2, <3>1, NotNone
    <3>4. last[a][cache[n][a].doc] \in Nat /\ last[a][cache[n][a].doc] <= Horizon
      BY <3>2, <3>3 DEF IInv, TypeOK, Horizon
    <3>5. /\ last'[a][cache[n][a].doc] <= last[a][cache[n][a].doc] + 1
          /\ last'[a][cache[n][a].doc] \in Nat
      BY <1>3, <3>3, <3>4 DEF Horizon
    <3> QED BY <3>2, <3>3, <3>4, <3>5
  <2>3. ASSUME NEW c \in Calls, pc[c] \in {"fill", "refresh", "prime", "decide"}
        PROVE  /\ age'[c] = age[c] + 1 /\ age'[c] <= MaxFlight
               /\ App(c) \in Apps /\ App(c)' = App(c)
               /\ copy[c] \in Doc \cup {None} /\ Created(c) \in Doc
    BY <1>4, <1>5, <2>3, CallType, NewDocuments DEF IInv, InFlight, Final, App
  <2>4. ASSUME NEW c \in Calls, pc[c] \in {"fill", "refresh"}
        PROVE  last'[App(c)][copy[c]] <= age'[c]
    BY <1>3, <2>3, <2>4 DEF IInv, AgeInv, CallInv, TypeOK, Horizon
  <2>5. ASSUME NEW c \in Calls, pc[c] = "prime"
        PROVE  last'[App(c)][Created(c)] <= age'[c]
    BY <1>3, <2>3, <2>5 DEF IInv, AgeInv, TypeOK, Horizon
  <2>6. ASSUME NEW c \in Calls, pc[c] = "decide", copy[c] # None
        PROVE  last'[App(c)][copy[c]] < MaxFlight + TTL + age'[c]
    BY <1>3, <2>3, <2>6 DEF IInv, AgeInv, TypeOK, Horizon
  <2> QED BY <1>5, <2>1, <2>2, <2>3, <2>4, <2>5, <2>6 DEF AgeInv, Created
<1> QED BY <1>7, <1>8, <1>9 DEF IInv

-----------------------------------------------------------------------------

\* The inductive invariant holds of every behaviour.
THEOREM Invariance == Spec => []IInv
<1>1. IInv /\ [Next]_vars => IInv'
  <2> SUFFICES ASSUME IInv, [Next]_vars PROVE IInv'
    OBVIOUS
  <2>1. ASSUME NEW c \in Calls, Step(c) PROVE IInv'
    BY <2>1, ReadCachePreserves, LoadAppPreserves, FillPreserves, DecidePreserves,
       WritePreserves, RefreshPreserves, SoftDisablePreserves, EvictPreserves,
       CreateAppPreserves, PrimePreserves, HooksPreserve DEF Step
  <2>2. CASE UNCHANGED vars
    <3>1. TypeOK'
      BY <2>2 DEF IInv, TypeOK, vars
    <3>2. CallInv'
      BY <2>2 DEF IInv, CallInv, App, vars
    <3>3. AgeInv'
      BY <2>2 DEF IInv, AgeInv, App, vars
    <3> QED BY <3>1, <3>2, <3>3 DEF IInv
  <2> QED BY <2>1, <2>2, BeginPreserves, AgainPreserves, FailPreserves, RestartPreserves,
             TickPreserves DEF Next
<1> QED BY <1>1, InitIInv, PTL DEF Spec

\* Every variable keeps its type.
THEOREM TypeCorrectness == Spec => []TypeOK
<1>1. IInv => TypeOK
  BY DEF IInv
<1> QED BY <1>1, Invariance, PTL

\* Whatever an instance takes an app for, the app has been that within the TTL
\* and two call durations, for any number of instances and calls.
THEOREM StalenessIsBounded == Spec => []BoundedStaleness
<1>1. IInv => BoundedStaleness
  <2> SUFFICES ASSUME IInv PROVE BoundedStaleness
    OBVIOUS
  <2>1. ASSUME NEW c \in Calls, pc[c] = "decide", copy[c] # None
        PROVE  last[App(c)][copy[c]] < Horizon
    <3>1. age[c] <= MaxFlight /\ age[c] \in Nat /\ App(c) \in Apps /\ copy[c] \in Doc
      BY <2>1, CallType DEF IInv
    <3>2. last[App(c)][copy[c]] < MaxFlight + TTL + age[c] /\ last[App(c)][copy[c]] \in Nat
      BY <2>1, <3>1 DEF IInv, AgeInv, TypeOK, Horizon
    <3> QED BY <3>1, <3>2 DEF Horizon
  <2> QED BY <2>1 DEF IInv, AgeInv, BoundedStaleness
<1> QED BY <1>1, Invariance, PTL

-----------------------------------------------------------------------------
(* Creations                                                                *)

\* Which calls create, and what they have done by when.
Stage(c) ==
    /\ pc[c] \in {"create", "prime", "auth", "billing"} => Kind(c) \in {"create", "seed"}
    /\ Kind(c) = "create" => pc[c] \in Final \cup {"create", "prime", "auth", "billing"}
    /\ Kind(c) = "seed" => pc[c] \notin {"write", "refresh", "disable", "evict"}
    /\ pc[c] = "billing" => App(c) \in authCfg
    /\ pc[c] = "ok" /\ Kind(c) = "create" => App(c) \in authCfg \cap billCfg
    /\ pc[c] = "ok" /\ Kind(c) = "seed" => App(c) \in authCfg

\* The call has created its app, and has not failed.
Creator(c) ==
    \/ pc[c] \in {"prime", "billing"}
    \/ pc[c] = "auth" /\ copy[c] = None
    \/ pc[c] = "ok" /\ Kind(c) = "create"

CreationInv ==
    /\ \A c \in Calls : pc[c] # "idle" => Stage(c)
    /\ \A c \in Calls : Creator(c) => store[App(c)] # None
    /\ \A c, d \in Calls : Creator(c) /\ Creator(d) /\ App(c) = App(d) => c = d

\* A call leaves the others where they are, and takes nothing out of the store.
LEMMA OthersStay ==
  ASSUME IInv, NEW c \in Calls, Step(c) \/ Fail(c)
  PROVE  /\ call' = call /\ pc[c] # "idle"
         /\ \A d \in Calls \ {c} : pc'[d] = pc[d] /\ copy'[d] = copy[d]
         /\ authCfg \subseteq authCfg' /\ billCfg \subseteq billCfg'
         /\ \A a \in Apps : store[a] # None => store'[a] # None
<1> USE DEF Goto
<1>1. CASE Write(c) \/ SoftDisable(c) \/ CreateApp(c)
  <2>1. pc[c] # "idle"
    BY <1>1 DEF Write, SoftDisable, CreateApp
  <2>2. App(c) \in Apps /\ store[App(c)] \in Doc \cup {None} /\ copy[c] \in Doc \cup {None}
    BY <2>1, CallType DEF IInv, TypeOK
  <2>3. SoftDisable(c) => store[App(c)] \in Doc
    BY <2>2 DEF SoftDisable, IInv, CallInv
  <2>4. Write(c) => copy[c] \in Doc
    BY <2>2 DEF Write, IInv, CallInv
  <2>5. \A a \in Apps : store[a] # None => store'[a] # None
    <3>1. \/ UNCHANGED store
          \/ \E d \in Doc : store' = [store EXCEPT ![App(c)] = d]
      <4>1. CASE Write(c)
        BY <2>4, <4>1 DEF Write, Put
      <4>2. CASE SoftDisable(c)
        <5>1. [store[App(c)] EXCEPT !.status = "disabled"] \in Doc
          BY <2>3, <4>2, NewDocuments
        <5> QED BY <4>2, <5>1 DEF SoftDisable, Put
      <4>3. CASE CreateApp(c)
        BY <4>3, NewDocuments DEF CreateApp, Put
      <4> QED BY <1>1, <4>1, <4>2, <4>3
    <3> QED BY <2>2, <3>1, NotNone DEF IInv, TypeOK
  <2> QED BY <1>1, <2>1, <2>5 DEF Write, SoftDisable, CreateApp, IInv, TypeOK
<1>2. CASE ReadCache(c) \/ LoadApp(c) \/ Fill(c) \/ Refresh(c) \/ Evict(c)
  BY <1>2 DEF ReadCache, LoadApp, Fill, Refresh, Evict, IInv, TypeOK
<1>3. CASE Prime(c) \/ EnsureAuth(c) \/ EnsureBilling(c)
  BY <1>3 DEF Prime, EnsureAuth, EnsureBilling, IInv, TypeOK
<1>4. CASE Decide(c)
  BY <1>4 DEF Decide, RequireActive, Edit, NewSecret, IInv, TypeOK
<1>5. CASE Fail(c)
  BY <1>5 DEF Fail, InFlight, Final, IInv, TypeOK
<1> QED BY <1>1, <1>2, <1>3, <1>4, <1>5 DEF Step

\* A call gets to create an app only when there is none.
LEMMA OwnStage ==
  ASSUME IInv, CreationInv, NEW c \in Calls, Step(c) \/ Fail(c)
  PROVE  Stage(c)' /\ (Creator(c)' => Creator(c) \/ store[App(c)] = None)
<1>1. /\ call' = call /\ pc[c] # "idle" /\ Stage(c)
      /\ authCfg \subseteq authCfg' /\ billCfg \subseteq billCfg'
  BY OthersStay DEF CreationInv
<1>2. App(c)' = App(c) /\ Kind(c)' = Kind(c)
  BY <1>1 DEF App, Kind
<1> USE DEF Goto, Stage, Creator, Final
<1>3. CASE Write(c) \/ SoftDisable(c)
  BY <1>1, <1>2, <1>3 DEF Write, SoftDisable, IInv, TypeOK
<1>4. CASE ReadCache(c) \/ LoadApp(c) \/ Fill(c) \/ Refresh(c) \/ Evict(c)
  BY <1>1, <1>2, <1>4 DEF ReadCache, LoadApp, Fill, Refresh, Evict, IInv, TypeOK
<1>5. CASE CreateApp(c)
  BY <1>1, <1>2, <1>5 DEF CreateApp, IInv, TypeOK
<1>6. CASE Prime(c)
  BY <1>1, <1>2, <1>6 DEF Prime, IInv, TypeOK
<1>7. CASE EnsureAuth(c) \/ EnsureBilling(c)
  BY <1>1, <1>2, <1>7 DEF EnsureAuth, EnsureBilling, IInv, TypeOK
<1>8. CASE Decide(c)
  BY <1>1, <1>2, <1>8 DEF Decide, RequireActive, Edit, NewSecret, IInv, TypeOK
<1>9. CASE Fail(c)
  BY <1>1, <1>2, <1>9 DEF Fail, IInv, TypeOK
<1> QED BY <1>3, <1>4, <1>5, <1>6, <1>7, <1>8, <1>9 DEF Step

LEMMA NextCreationInv == IInv /\ CreationInv /\ [Next]_vars => CreationInv'
<1> SUFFICES ASSUME IInv, CreationInv, [Next]_vars PROVE CreationInv'
  OBVIOUS
<1>1. ASSUME NEW c \in Calls, Step(c) \/ Fail(c) PROVE CreationInv'
  <2>1. \A d \in Calls : App(d)' = App(d) /\ Kind(d)' = Kind(d)
    BY <1>1, OthersStay DEF App, Kind
  <2>2. \A d \in Calls \ {c} : /\ pc'[d] = pc[d]
                               /\ Creator(d)' <=> Creator(d)
                               /\ Stage(d) => Stage(d)'
    BY <1>1, <2>1, OthersStay DEF Creator, Stage
  <2>3. Stage(c)' /\ (Creator(c)' => Creator(c) \/ store[App(c)] = None)
    BY <1>1, OwnStage
  <2>4. Creator(c)' => store'[App(c)] # None
    <3>1. CASE Creator(c)
      <4>1. App(c) \in Apps
        BY <1>1, OthersStay, CallType DEF IInv
      <4> QED BY <1>1, <3>1, <4>1, OthersStay DEF CreationInv
    <3>2. CASE ~Creator(c) /\ Creator(c)'
      <4> USE DEF Goto, IInv, TypeOK, Creator
      <4>1. pc[c] # "idle" /\ App(c) \in Apps /\ Stage(c)
        BY <1>1, OthersStay, CallType DEF CreationInv
      <4>2. CreateApp(c)
        <5>1. ~(Write(c) \/ SoftDisable(c))
          BY <2>1, <3>2 DEF Write, SoftDisable
        <5>2. ~(ReadCache(c) \/ LoadApp(c) \/ Fill(c))
          BY <2>1, <3>2 DEF ReadCache, LoadApp, Fill
        <5>3. ~(Refresh(c) \/ Evict(c))
          BY <2>1, <3>2, <4>1 DEF Refresh, Evict, Stage, Final
        <5>4. ~(Prime(c) \/ EnsureAuth(c) \/ EnsureBilling(c))
          BY <2>1, <3>2, <4>1 DEF Prime, EnsureAuth, EnsureBilling
        <5>5. ~Decide(c)
          BY <2>1, <3>2, <4>1 DEF Decide, RequireActive, Edit, NewSecret, Stage, Final
        <5>6. ~Fail(c)
          BY <3>2 DEF Fail
        <5> QED BY <1>1, <5>1, <5>2, <5>3, <5>4, <5>5, <5>6 DEF Step
      <4>3. Created(c) \in Doc
        BY NewDocuments
      <4> QED BY <3>2, <4>1, <4>2, <4>3, NotNone DEF CreateApp, Put
    <3> QED BY <2>3, <3>1, <3>2
  <2>5. \A d \in Calls \ {c} : Creator(d) => store'[App(d)] # None
    <3> SUFFICES ASSUME NEW d \in Calls \ {c}, Creator(d) PROVE store'[App(d)] # None
      OBVIOUS
    <3>1. App(d) \in Apps /\ store[App(d)] # None
      BY CallType DEF IInv, CreationInv, Creator
    <3> QED BY <1>1, <3>1, OthersStay
  <2> QED BY <2>1, <2>2, <2>3, <2>4, <2>5 DEF CreationInv
<1>2. ASSUME NEW c \in Calls,
             Again(c) \/ (\E a \in Apps, n \in Nodes, op \in Ops : Begin(c, a, n, op))
      PROVE  CreationInv'
  <2>1. /\ \A d \in Calls \ {c} : pc'[d] = pc[d] /\ call'[d] = call[d]
        /\ pc'[c] \in {"idle", "read", "create"}
        /\ UNCHANGED <<store, authCfg, billCfg>>
    BY <1>2 DEF Again, Begin, Goto, IInv, TypeOK
  <2>2. \A d \in Calls \ {c} : copy'[d] = copy[d]
    BY <1>2 DEF Again, Begin, IInv, TypeOK
  <2>3. \A d \in Calls \ {c} : App(d)' = App(d) /\ Kind(d)' = Kind(d)
    BY <2>1 DEF App, Kind
  <2>4. \A d \in Calls \ {c} : /\ Creator(d)' <=> Creator(d)
                               /\ Stage(d) => Stage(d)'
    BY <2>1, <2>2, <2>3 DEF Creator, Stage
  <2>5. ~Creator(c)'
    BY <2>1 DEF Creator
  <2>6. pc'[c] # "idle" => Stage(c)'
    <3> SUFFICES ASSUME pc'[c] # "idle" PROVE Stage(c)'
      OBVIOUS
    <3>1. PICK a \in Apps, n \in Nodes, op \in Ops : Begin(c, a, n, op)
      BY <1>2 DEF Again, Goto, IInv, TypeOK
    <3>2. Kind(c)' = op.kind /\ pc'[c] = IF op.kind = "create" THEN "create" ELSE "read"
      BY <3>1 DEF Begin, Goto, Kind, IInv, TypeOK
    <3> QED BY <3>2 DEF Stage
  <2> QED BY <2>1, <2>3, <2>4, <2>5, <2>6 DEF CreationInv
<1>3. ASSUME NEW n \in Nodes, Restart(n) PROVE CreationInv'
  <2>1. /\ UNCHANGED <<store, authCfg, billCfg, call, copy>>
        /\ \A d \in Calls : /\ pc'[d] \in {pc[d], "failed"}
                            /\ pc[d] = "idle" => pc'[d] = "idle"
    BY <1>3 DEF Restart, InFlight, Final, IInv, TypeOK
  <2>2. \A d \in Calls : App(d)' = App(d) /\ Kind(d)' = Kind(d)
    BY <2>1 DEF App, Kind
  <2>3. \A d \in Calls : Creator(d)' => Creator(d)
    BY <2>1, <2>2 DEF Creator
  <2>4. \A d \in Calls : pc[d] # "idle" /\ Stage(d) => Stage(d)'
    BY <2>1, <2>2 DEF Stage, Final
  <2> QED BY <2>1, <2>2, <2>3, <2>4 DEF CreationInv
<1>4. CASE Tick \/ UNCHANGED vars
  <2>1. UNCHANGED <<store, authCfg, billCfg, pc, call, copy>>
    BY <1>4 DEF Tick, vars
  <2>2. \A d \in Calls : /\ App(d)' = App(d)
                         /\ Creator(d)' <=> Creator(d)
                         /\ Stage(d) => Stage(d)'
    BY <2>1 DEF App, Kind, Creator, Stage
  <2> QED BY <2>1, <2>2 DEF CreationInv
<1> QED BY <1>1, <1>2, <1>3, <1>4 DEF Next

LEMMA CreationInvariance == Spec => []CreationInv
<1>1. Init => CreationInv
  BY DEF Init, CreationInv, Creator
<1> QED BY <1>1, NextCreationInv, Invariance, PTL DEF Spec

\* CreateApp: an app whose creator has the answer has both configurations, and
\* after a seed the authentication configuration, whatever failed before.
THEOREM CreatedAppsAreComplete == Spec => []CreatedAppIsComplete
<1>1. CreationInv => CreatedAppIsComplete
  BY DEF CreationInv, Stage, CreatedAppIsComplete
<1> QED BY <1>1, CreationInvariance, PTL

\* CreateApp: of any number of creations and seeds of one app, at one most is
\* under way or has answered with a secret.
THEOREM CreatorsAreAlone == Spec => []OneCreator
<1>1. CreationInv => OneCreator
  BY DEF CreationInv, Creator, OneCreator
<1> QED BY <1>1, CreationInvariance, PTL

=============================================================================
