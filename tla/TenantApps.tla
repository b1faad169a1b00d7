----------------------------- MODULE TenantApps -----------------------------
(***************************************************************************)
(* Tenant apps (internal/tenant): one shared document per app, and in      *)
(* front of it one TTL cache per instance of the service.  AppService and  *)
(* CachedAppRepository hold no lock across a store call and a cache call,  *)
(* so each of these is one action, and calls on any instances interleave.  *)
(*                                                                         *)
(* Time is counted in ticks.  A call is over within MaxFlight ticks (the   *)
(* request timeout of the platform), a cache entry within TTL.             *)
(***************************************************************************)
EXTENDS Naturals

CONSTANTS
    Apps,
    Nodes,       \* instances of the service
    Calls,       \* API calls; also the secrets they draw (idgen.NewSecret)
    Old,         \* the secret of an app that was created earlier
    None,
    Ops,         \* what the calls of an instance may do
    TTL,         \* APP_CACHE_TTL_SEC
    MaxFlight,   \* bound: ticks a call may take
    MaxRestarts  \* bound: restarts of instances

Kinds == {"lookup", "create", "update", "rotate", "disable", "seed"}

\* status: what UpdateApp's body says of it, None when it does not.
OpType == [kind : Kinds, status : {"active", "disabled", None}]

\* The fields that a property tells apart.  Every status but "active" is
\* handled like "disabled".
Doc == [status : {"active", "disabled"}, secret : Calls \cup {Old}]

Active(d) == d.status = "active"

Entry == [doc : {d \in Doc : Active(d)}, left : 1..TTL]

Call == [op : Ops, app : Apps, node : Nodes]

\* A document that was last stored longer ago than this counts as ancient.
Horizon == TTL + 2 * MaxFlight

ASSUME AppsAssumption ==
    /\ Ops \subseteq OpType
    /\ TTL \in Nat \ {0}
    /\ MaxFlight \in Nat
    /\ MaxRestarts \in Nat
    /\ Old \notin Calls
    /\ None \notin Doc \cup Entry \cup Call \cup {"active", "disabled"}

VARIABLES
    store,     \* the apps collection: store[a], or None
    authCfg,   \* apps with an auth configuration
    billCfg,   \* apps with a billing configuration
    cache,     \* cache[n][a]: the unexpired entry of app:{a} on n, or None
    pc,        \* where each call is
    call,      \* what it was called with
    copy,      \* its local app
    age,       \* ticks since it began
    restarts,
    last       \* history: last[a][d], ticks since store[a] was d

vars == <<store, authCfg, billCfg, cache, pc, call, copy, age, restarts, last>>

Final == {"idle", "ok", "refused", "failed"}
InFlight == {c \in Calls : pc[c] \notin Final}

App(c) == call[c].app
Node(c) == call[c].node
Kind(c) == call[c].op.kind

Init ==
    /\ store \in [Apps -> {None, [status |-> "active", secret |-> Old]}]
    /\ authCfg = {a \in Apps : store[a] # None}
    /\ billCfg = authCfg
    /\ cache = [n \in Nodes |-> [a \in Apps |-> None]]
    /\ pc = [c \in Calls |-> "idle"]
    /\ call = [c \in Calls |-> None]
    /\ copy = [c \in Calls |-> None]
    /\ age = [c \in Calls |-> 0]
    /\ restarts = 0
    /\ last = [a \in Apps |-> [d \in Doc |-> IF store[a] = d THEN 0 ELSE Horizon + 1]]

-----------------------------------------------------------------------------

Goto(c, l) ==
    /\ pc' = [pc EXCEPT ![c] = l]
    /\ age' = [age EXCEPT ![c] = IF l \in Final THEN 0 ELSE @]

\* Writes of the shared document.
Put(a, d) ==
    /\ store' = [store EXCEPT ![a] = d]
    /\ last' = [last EXCEPT ![a][d] = 0]

SetCache(c, e) == cache' = [cache EXCEPT ![Node(c)][App(c)] = e]

Fresh(d) == [doc |-> d, left |-> TTL]

Begin(c, a, n, op) ==
    /\ pc[c] = "idle"
    /\ call' = [call EXCEPT ![c] = [op |-> op, app |-> a, node |-> n]]
    /\ Goto(c, IF op.kind = "create" THEN "create" ELSE "read")
    /\ UNCHANGED <<store, authCfg, billCfg, cache, copy, restarts, last>>

\* Requests keep coming: a finished lookup stands for the next one.
Again(c) ==
    /\ pc[c] \in Final \ {"idle"}
    /\ Kind(c) = "lookup"
    /\ Goto(c, "idle")
    /\ call' = [call EXCEPT ![c] = None]
    /\ copy' = [copy EXCEPT ![c] = None]
    /\ UNCHANGED <<store, authCfg, billCfg, cache, restarts, last>>

-----------------------------------------------------------------------------
(* CachedAppRepository.GetByID                                              *)

\* Mutant: a hit renews the entry.
ReadCacheRenewing(c) ==
    LET e == cache[Node(c)][App(c)]
    IN  /\ pc[c] = "read"
        /\ \/ e # None /\ copy' = [copy EXCEPT ![c] = e.doc] /\ Goto(c, "decide")
              /\ SetCache(c, Fresh(e.doc))
           \/ e = None /\ UNCHANGED <<copy, cache>> /\ Goto(c, "load")
        /\ UNCHANGED <<store, authCfg, billCfg, call, restarts, last>>

ReadCache(c) ==
    LET e == cache[Node(c)][App(c)]
    IN  /\ pc[c] = "read"
        /\ \/ e # None /\ copy' = [copy EXCEPT ![c] = e.doc] /\ Goto(c, "decide")
           \/ e = None /\ UNCHANGED copy /\ Goto(c, "load")
        /\ UNCHANGED <<store, authCfg, billCfg, cache, call, restarts, last>>

\* Mutant: disabled apps are cached too.
LoadAppCachingAll(c) ==
    /\ pc[c] = "load"
    /\ copy' = [copy EXCEPT ![c] = store[App(c)]]
    /\ Goto(c, IF store[App(c)] # None THEN "fill" ELSE "decide")
    /\ UNCHANGED <<store, authCfg, billCfg, cache, call, restarts, last>>

LoadApp(c) ==
    LET d == store[App(c)]
    IN  /\ pc[c] = "load"
        /\ copy' = [copy EXCEPT ![c] = d]
        /\ Goto(c, IF d # None /\ Active(d) THEN "fill" ELSE "decide")
        /\ UNCHANGED <<store, authCfg, billCfg, cache, call, restarts, last>>

\* The copy may be out of date by now.
Fill(c) ==
    /\ pc[c] = "fill"
    /\ SetCache(c, Fresh(copy[c]))
    /\ Goto(c, "decide")
    /\ UNCHANGED <<store, authCfg, billCfg, call, copy, restarts, last>>

-----------------------------------------------------------------------------
(* The use cases, on the app that GetByID returned                          *)

\* RequireActiveApp; VerifyAppSecret compares the secret of the same copy.
RequireActive(c) ==
    /\ Kind(c) = "lookup"
    /\ Goto(c, IF copy[c] # None /\ Active(copy[c]) THEN "ok" ELSE "refused")
    /\ UNCHANGED copy

\* UpdateApp: fields that the body leaves out keep the value of the copy.
Edit(c) ==
    /\ Kind(c) = "update" /\ copy[c] # None
    /\ \/ call[c].op.status = None /\ UNCHANGED copy
       \/ /\ call[c].op.status # None
          /\ copy' = [copy EXCEPT ![c].status = call[c].op.status]
    /\ Goto(c, "write")

\* RotateAppSecret
NewSecret(c) ==
    /\ Kind(c) = "rotate" /\ copy[c] # None
    /\ copy' = [copy EXCEPT ![c].secret = c]
    /\ Goto(c, "write")

Decide(c) ==
    /\ pc[c] = "decide"
    /\ \/ RequireActive(c)
       \/ Edit(c)
       \/ NewSecret(c)
       \/ Kind(c) = "disable" /\ copy[c] # None /\ Goto(c, "disable") /\ UNCHANGED copy
       \/ Kind(c) = "seed" /\ copy[c] # None /\ Goto(c, "auth") /\ UNCHANGED copy
       \/ Kind(c) = "seed" /\ copy[c] = None /\ Goto(c, "create") /\ UNCHANGED copy
       \/ /\ Kind(c) \in {"update", "rotate", "disable"} /\ copy[c] = None
          /\ Goto(c, "refused") /\ UNCHANGED copy
    /\ UNCHANGED <<store, authCfg, billCfg, cache, call, restarts, last>>

\* CachedAppRepository.Update: the whole document, then Delete and Set of the
\* entry (in between it is merely absent).
Write(c) ==
    /\ pc[c] = "write"
    /\ Put(App(c), copy[c])
    /\ Goto(c, "refresh")
    /\ UNCHANGED <<authCfg, billCfg, cache, call, copy, restarts>>

Refresh(c) ==
    /\ pc[c] = "refresh"
    /\ SetCache(c, IF Active(copy[c]) THEN Fresh(copy[c]) ELSE None)
    /\ Goto(c, "ok")
    /\ UNCHANGED <<store, authCfg, billCfg, call, copy, restarts, last>>

\* CachedAppRepository.SoftDisable: two fields of the stored document, then
\* Delete.  The OnAppDisabled hooks do nothing.
SoftDisable(c) ==
    /\ pc[c] = "disable"
    /\ Put(App(c), [store[App(c)] EXCEPT !.status = "disabled"])
    /\ Goto(c, "evict")
    /\ UNCHANGED <<authCfg, billCfg, cache, call, copy, restarts>>

Evict(c) ==
    /\ pc[c] = "evict"
    /\ SetCache(c, None)
    /\ Goto(c, "ok")
    /\ UNCHANGED <<store, authCfg, billCfg, call, copy, restarts, last>>

-----------------------------------------------------------------------------
(* CreateApp and its OnAppCreated hooks; seed.Run goes through the same      *)

Created(c) == [status |-> "active", secret |-> c]

\* Mutant: an existing app is overwritten.
CreateAppOverwriting(c) ==
    /\ pc[c] = "create"
    /\ Put(App(c), Created(c))
    /\ Goto(c, "prime")
    /\ UNCHANGED <<authCfg, billCfg, cache, call, copy, restarts>>

CreateApp(c) ==
    /\ pc[c] = "create"
    /\ \/ store[App(c)] = None /\ Put(App(c), Created(c)) /\ Goto(c, "prime")
       \/ store[App(c)] # None /\ Goto(c, "refused") /\ UNCHANGED <<store, last>>
    /\ UNCHANGED <<authCfg, billCfg, cache, call, copy, restarts>>

\* Mutant: the answer does not wait for the hooks.
PrimeAndAnswer(c) ==
    /\ pc[c] = "prime"
    /\ SetCache(c, Fresh(Created(c)))
    /\ Goto(c, "ok")
    /\ UNCHANGED <<store, authCfg, billCfg, call, copy, restarts, last>>

Prime(c) ==
    /\ pc[c] = "prime"
    /\ SetCache(c, Fresh(Created(c)))
    /\ Goto(c, "auth")
    /\ UNCHANGED <<store, authCfg, billCfg, call, copy, restarts, last>>

\* EnsureAuthConfig: the first hook, and the last step of a seed that found
\* the app or runs in cmd/seed, where it is the only hook.
EnsureAuth(c) ==
    /\ pc[c] = "auth"
    /\ authCfg' = authCfg \cup {App(c)}
    /\ \/ Kind(c) = "seed" /\ Goto(c, "ok")
       \/ copy[c] = None /\ Goto(c, "billing")
    /\ UNCHANGED <<store, billCfg, cache, call, copy, restarts, last>>

EnsureBilling(c) ==
    /\ pc[c] = "billing"
    /\ billCfg' = billCfg \cup {App(c)}
    /\ Goto(c, "ok")
    /\ UNCHANGED <<store, authCfg, cache, call, copy, restarts, last>>

-----------------------------------------------------------------------------
(* Failures and time                                                        *)

\* A store call or a hook fails; nothing is undone.
Fail(c) ==
    /\ c \in InFlight
    /\ Goto(c, "failed")
    /\ UNCHANGED <<store, authCfg, billCfg, cache, call, copy, restarts, last>>

Restart(n) ==
    /\ restarts < MaxRestarts
    /\ restarts' = restarts + 1
    /\ cache' = [cache EXCEPT ![n] = [a \in Apps |-> None]]
    /\ pc' = [c \in Calls |-> IF c \in InFlight /\ Node(c) = n THEN "failed" ELSE pc[c]]
    /\ UNCHANGED <<store, authCfg, billCfg, call, copy, age, last>>

\* Mutant: entries do not expire.
AgedForever(e) == e

\* InMemoryCache.Get takes an expired entry for none.
Aged(e) ==
    IF e = None \/ e.left = 1 THEN None ELSE [e EXCEPT !.left = @ - 1]

Tick ==
    /\ \A c \in InFlight : age[c] < MaxFlight
    /\ age' = [c \in Calls |-> IF c \in InFlight THEN age[c] + 1 ELSE age[c]]
    /\ cache' = [n \in Nodes |-> [a \in Apps |-> Aged(cache[n][a])]]
    /\ last' = [a \in Apps |-> [d \in Doc |->
                  IF store[a] = d THEN 0
                  ELSE IF last[a][d] > Horizon THEN Horizon + 1 ELSE last[a][d] + 1]]
    /\ UNCHANGED <<store, authCfg, billCfg, pc, call, copy, restarts>>

Step(c) ==
    \/ ReadCache(c) \/ LoadApp(c) \/ Fill(c) \/ Decide(c)
    \/ Write(c) \/ Refresh(c)
    \/ SoftDisable(c) \/ Evict(c)
    \/ CreateApp(c) \/ Prime(c) \/ EnsureAuth(c) \/ EnsureBilling(c)

Next ==
    \/ \E c \in Calls :
          \/ \E a \in Apps, n \in Nodes, op \in Ops : Begin(c, a, n, op)
          \/ Again(c)
          \/ Step(c)
          \/ Fail(c)
    \/ \E n \in Nodes : Restart(n)
    \/ Tick

Spec == Init /\ [][Next]_vars

\* Calls are scheduled, and time goes on however many of them there are.
FairSpec == Spec /\ (\A c \in Calls : WF_vars(Step(c))) /\ SF_vars(Tick)

-----------------------------------------------------------------------------
(* Properties                                                               *)

TypeOK ==
    /\ store \in [Apps -> Doc \cup {None}]
    /\ authCfg \subseteq Apps
    /\ billCfg \subseteq Apps
    /\ cache \in [Nodes -> [Apps -> Entry \cup {None}]]
    /\ pc \in [Calls -> Final \cup {"read", "load", "fill", "decide", "write", "refresh",
                                    "disable", "evict", "create", "prime", "auth", "billing"}]
    /\ call \in [Calls -> Call \cup {None}]
    /\ copy \in [Calls -> Doc \cup {None}]
    /\ age \in [Calls -> 0..MaxFlight]
    /\ restarts \in 0..MaxRestarts
    /\ last \in [Apps -> [Doc -> 0..(Horizon + 1)]]

\* No instance takes an app for something it has not been for longer than the
\* TTL and the duration of two calls, the one that filled the cache and the one
\* that reads it: an entry is never renewed by reading it, and what is put into
\* the cache was stored no longer ago than the call has been running
\* (cached.go:48-79; ARCH_README.md:365 "short TTL").
BoundedStaleness ==
    /\ \A n \in Nodes, a \in Apps :
          cache[n][a] # None =>
             last[a][cache[n][a].doc] <= MaxFlight + TTL - cache[n][a].left
    /\ \A c \in Calls :
          pc[c] = "decide" /\ copy[c] # None => last[App(c)][copy[c]] < Horizon

\* CreateApp answers with the secret only when the app has its configurations,
\* and a seed that succeeds leaves an auth configuration, also after an earlier
\* attempt stopped half way (service.go:108-116; seed.go:45-69).
CreatedAppIsComplete ==
    \A c \in Calls :
        /\ pc[c] = "ok" /\ Kind(c) = "create" => App(c) \in authCfg \cap billCfg
        /\ pc[c] = "ok" /\ Kind(c) = "seed" => App(c) \in authCfg

\* Of concurrent creations and seeds under one fixed id one at most succeeds in
\* creating the app, so no caller holds a secret that another one replaced
\* (memory.go:22-31; firestore.go:76-82).
OneCreator ==
    \A c1, c2 \in Calls :
        /\ pc[c1] \in {"prime", "billing"} \/ (pc[c1] = "ok" /\ Kind(c1) = "create")
        /\ pc[c2] \in {"prime", "billing"} \/ (pc[c2] = "ok" /\ Kind(c2) = "create")
        /\ App(c1) = App(c2)
        => c1 = c2

\* Once administrators stop changing apps, all instances agree with the store,
\* although requests keep reading through their caches (cached.go:48-64).
CachesConverge ==
    <>[](\A n \in Nodes, a \in Apps :
            cache[n][a] # None => cache[n][a].doc = store[a])

\* When RotateAppSecret has returned, the secret from before is not the stored
\* one again.
RotatedSecretStaysOut ==
    \A c \in Calls :
        pc[c] = "ok" /\ Kind(c) = "rotate" => store[App(c)].secret # Old

-----------------------------------------------------------------------------
(* The inductive invariant behind BoundedStaleness                          *)

\* Apps are never removed, so a copy or an entry of one implies the document.
CallInv ==
    /\ \A n \in Nodes, a \in Apps : cache[n][a] # None => store[a] # None
    /\ \A c \in Calls :
          /\ pc[c] = "idle" => copy[c] = None
          /\ pc[c] # "idle" => call[c] # None
          /\ copy[c] # None => call[c] # None /\ store[App(c)] # None
          /\ pc[c] = "fill" => copy[c] # None /\ Active(copy[c])
          /\ pc[c] \in {"write", "refresh", "disable"} => copy[c] # None
          /\ pc[c] \in {"prime", "evict"} => store[App(c)] # None

\* How long ago what a call is about to cache or to answer was stored.
AgeInv ==
    /\ \A a \in Apps : store[a] # None => last[a][store[a]] = 0
    /\ \A n \in Nodes, a \in Apps :
          cache[n][a] # None =>
             last[a][cache[n][a].doc] <= MaxFlight + TTL - cache[n][a].left
    /\ \A c \in Calls :
          /\ pc[c] \in {"fill", "refresh"} => last[App(c)][copy[c]] <= age[c]
          /\ pc[c] = "prime" => last[App(c)][Created(c)] <= age[c]
          /\ pc[c] = "decide" /\ copy[c] # None =>
                last[App(c)][copy[c]] < MaxFlight + TTL + age[c]

=============================================================================
