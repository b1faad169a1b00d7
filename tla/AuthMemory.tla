------------------------------ MODULE AuthMemory ------------------------------
(***************************************************************************)
(* What each Auth process keeps in its own memory: the hits of the rate    *)
(* limiter (MemoryRateLimiter) and the states of OAuth sign-ins            *)
(* (MemoryOAuthStateStore).  Nothing of it is shared between processes or  *)
(* outlives one.                                                           *)
(*                                                                         *)
(* Both are maps under a mutex: one method is one action.  A hit and a     *)
(* state have the name of the request that made them.                      *)
(***************************************************************************)
EXTENDS Integers, FiniteSets

CONSTANTS
    Nodes,       \* processes
    Requests,
    Keys,        \* what is limited: an address, a client, an app
    Flows,       \* app and provider of a sign-in
    Limit,       \* Limit[k]: requests that are allowed ...
    Window,      \* ... in any Window[k] ticks
    TTL,         \* ticks that a state is good for
    None,
    MaxTime,     \* bound: ticks
    MaxRestarts  \* bound: restarts

ASSUME LimitAssumption == Limit \in [Keys -> Nat] /\ Window \in [Keys -> Nat]

ASSUME TTLAssumption == TTL \in Nat

ASSUME BoundAssumption == MaxTime \in Nat /\ MaxRestarts \in Nat

ASSUME RequestsAssumption == IsFiniteSet(Requests) /\ None \notin Requests

Entry == [flow : Flows, until : Nat]

VARIABLES
    now,
    lives,    \* lives[n]: how often process n was started again
    hits,     \* hits[n][k]: MemoryRateLimiter.hits
    entries,  \* entries[n][s]: MemoryOAuthStateStore.data
    pc,       \* what became of a request
    at,       \* when it came,
    place,    \* to which process, in which of its lives,
    subject,  \* and about which key, flow or state; a callback may bring none
    before    \* history: the callbacks that were over when it came

memory == <<hits, entries>>
told == <<at, place, subject, before>>
vars == <<now, lives, memory, pc, told>>

Over == {r \in Requests : pc[r] \in {"ok", "invalid", "lost"}}

Init ==
    /\ now = 0
    /\ lives = [n \in Nodes |-> 0]
    /\ hits = [n \in Nodes |-> [k \in Keys |-> {}]]
    /\ entries = [n \in Nodes |-> [s \in Requests |-> None]]
    /\ pc = [r \in Requests |-> "idle"]
    /\ at = [r \in Requests |-> 0]
    /\ place = [r \in Requests |-> None]
    /\ subject = [r \in Requests |-> None]
    /\ before = [r \in Requests |-> {}]

\* Request r comes to process n and is answered, or goes on, at `step`.
Arrive(r, n, about, step) ==
    /\ pc[r] = "idle"
    /\ pc' = [pc EXCEPT ![r] = step]
    /\ at' = [at EXCEPT ![r] = now]
    /\ place' = [place EXCEPT ![r] = [node |-> n, life |-> lives[n]]]
    /\ subject' = [subject EXCEPT ![r] = about]
    /\ before' = [before EXCEPT ![r] = Over]
    /\ UNCHANGED <<now, lives>>

-----------------------------------------------------------------------------
(* The rate limiter                                                         *)

\* Mutant: hits are counted from the start of the current window.
KeptAnew(n, k) == {h \in hits[n][k] : at[h] >= now - (now % (Window[k] + 1))}

\* The hits that the window still holds.
Kept(n, k) == {h \in hits[n][k] : at[h] > now - Window[k]}

Allow(r, n, k) ==
    \/ /\ Cardinality(Kept(n, k)) >= Limit[k]
       /\ hits' = [hits EXCEPT ![n][k] = Kept(n, k)]
       /\ Arrive(r, n, k, "limited")
       /\ UNCHANGED entries
    \/ /\ Cardinality(Kept(n, k)) < Limit[k]
       /\ hits' = [hits EXCEPT ![n][k] = Kept(n, k) \cup {r}]
       /\ Arrive(r, n, k, "allowed")
       /\ UNCHANGED entries

-----------------------------------------------------------------------------
(* The states of sign-ins                                                   *)

\* Mutant: the lifetime is taken away.
AuthorizeExpired(r, n, f) ==
    /\ entries' = [entries EXCEPT ![n][r] = [flow |-> f, until |-> now - TTL]]
    /\ Arrive(r, n, f, "issued")
    /\ UNCHANGED hits

\* OAuthAuthorize puts a state.
Authorize(r, n, f) ==
    /\ entries' = [entries EXCEPT ![n][r] = [flow |-> f, until |-> now + TTL]]
    /\ Arrive(r, n, f, "issued")
    /\ UNCHANGED hits

\* Mutant: an expired state is good until it is deleted.
HeldAnyhow(n, s) == entries[n][s] # None

\* Get finds the state, and deletes it when it has expired.
HeldState(n, s) == entries[n][s] # None /\ now <= entries[n][s].until

\* OAuthCallback without a state: it goes on, and nothing is looked up.
StatelessCallback(r, n) ==
    /\ Arrive(r, n, None, "ok")
    /\ UNCHANGED memory

\* OAuthCallback of flow f with state s: Get, and the check of what it found.
Callback(r, n, s, f) ==
    /\ pc[s] = "issued"
    /\ \/ /\ ~HeldState(n, s)
          /\ entries' = [entries EXCEPT ![n][s] = None]
          /\ Arrive(r, n, s, "invalid")
       \/ /\ HeldState(n, s)
          /\ Arrive(r, n, s, IF entries[n][s].flow = f THEN "found" ELSE "invalid")
          /\ UNCHANGED entries
    /\ UNCHANGED hits

\* Mutant: the state is left to expire.
KeepState(r) ==
    /\ pc[r] = "found"
    /\ pc' = [pc EXCEPT ![r] = "ok"]
    /\ UNCHANGED <<now, lives, memory, told>>

\* OAuthCallback deletes the state that it has found, in a second step.
UseState(r) ==
    /\ pc[r] = "found"
    /\ entries' = [entries EXCEPT ![place[r].node][subject[r]] = None]
    /\ pc' = [pc EXCEPT ![r] = "ok"]
    /\ UNCHANGED <<now, lives, hits, told>>

-----------------------------------------------------------------------------
Tick ==
    /\ now < MaxTime
    /\ now' = now + 1
    /\ UNCHANGED <<lives, memory, pc, told>>

\* Process n starts again, with empty maps; the callbacks it was at are lost.
Restart(n) ==
    /\ lives[n] < MaxRestarts
    /\ lives' = [lives EXCEPT ![n] = @ + 1]
    /\ hits' = [hits EXCEPT ![n] = [k \in Keys |-> {}]]
    /\ entries' = [entries EXCEPT ![n] = [s \in Requests |-> None]]
    /\ pc' = [r \in Requests |-> IF pc[r] = "found" /\ place[r].node = n THEN "lost" ELSE pc[r]]
    /\ UNCHANGED <<now, told>>

Next ==
    \/ \E r \in Requests, n \in Nodes :
          \/ \E k \in Keys : Allow(r, n, k)
          \/ \E f \in Flows : Authorize(r, n, f)
          \/ \E s \in Requests, f \in Flows : Callback(r, n, s, f)
    \/ \E r \in Requests, n \in Nodes : StatelessCallback(r, n)
    \/ \E r \in Requests : UseState(r)
    \/ Tick
    \/ \E n \in Nodes : Restart(n)

Spec == Init /\ [][Next]_vars

-----------------------------------------------------------------------------
(* Properties                                                               *)

\* The type of the state: hits and states are of requests that made them.
TypeOK ==
    /\ now \in Nat
    /\ lives \in [Nodes -> Nat]
    /\ hits \in [Nodes -> [Keys -> SUBSET Requests]]
    /\ entries \in [Nodes -> [Requests -> Entry \cup {None}]]
    /\ pc \in [Requests -> {"idle", "limited", "allowed", "issued", "found", "ok",
                            "invalid", "lost"}]
    /\ at \in [Requests -> Nat]
    /\ place \in [Requests -> [node : Nodes, life : Nat] \cup {None}]
    /\ subject \in [Requests -> Keys \cup Flows \cup Requests \cup {None}]
    /\ before \in [Requests -> SUBSET Requests]

\* The requests for k that process n has allowed since it last started.
Granted(n, k) == {r \in Requests : /\ pc[r] = "allowed" /\ subject[r] = k
                                   /\ place[r] = [node |-> n, life |-> lives[n]]}

\* A process allows no more than Limit[k] requests for k in any window, wherever
\* the window begins: hits that Allow forgets can no longer be in a window with
\* a new one.
WindowBound ==
    \A n \in Nodes, k \in Keys, t \in 0 .. now :
        Cardinality({r \in Granted(n, k) : t - Window[k] < at[r] /\ at[r] <= t}) <= Limit[k]

\* The check of its state has let the callback pass; one without a state is not
\* checked and does not count here.
Passed(r) == pc[r] \in {"found", "ok"} /\ subject[r] # None

\* A callback that brings a state passes only in the process that issued it,
\* while that process lives and the state is fresh (service.go:779-788).
StateIsFresh ==
    \A r \in Requests :
        Passed(r) => /\ place[r] = place[subject[r]]
                     /\ at[r] <= at[subject[r]] + TTL

\* A state passes once, or for callbacks that were under way together: it is
\* deleted in a step of its own after it was found.
StateWorksOnce ==
    \A r, s \in Requests :
        Passed(r) /\ Passed(s) /\ r # s /\ subject[r] = subject[s]
            => r \notin before[s]

-----------------------------------------------------------------------------
(* The inductive invariant behind them                                      *)

\* A request that came did so in the past, in a life that its process has or
\* had, and after the callbacks that it saw over.
PastInv ==
    \A r \in Requests :
        /\ at[r] <= now
        /\ pc[r] # "idle" => /\ place[r] \in [node : Nodes, life : Nat]
                             /\ place[r].life <= lives[place[r].node]
        /\ before[r] \subseteq Over

\* Every allowed request that is still in the window is a hit.
HitInv ==
    \A n \in Nodes, k \in Keys :
        {r \in Granted(n, k) : at[r] > now - Window[k]} \subseteq hits[n][k]

\* An entry is the state that a request was given, in this life of the process.
EntryInv ==
    \A n \in Nodes, s \in Requests :
        entries[n][s] # None => /\ pc[s] = "issued"
                                /\ place[s] = [node |-> n, life |-> lives[n]]
                                /\ entries[n][s].until = at[s] + TTL

\* A callback that has passed was about a state, and no process holds that state
\* once the callback is over.
PassedInv ==
    \A r \in Requests :
        /\ pc[r] = "found" => subject[r] # None
        /\ Passed(r) => /\ subject[r] \in Requests
                        /\ pc[subject[r]] = "issued"
                        /\ pc[r] = "ok" => \A n \in Nodes : entries[n][subject[r]] = None

=============================================================================
