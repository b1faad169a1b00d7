---------------------------- MODULE BillingConfig ----------------------------
(***************************************************************************)
(* Billing configurations (internal/billing): one document per app, which  *)
(* Put reads, changes and writes back whole, without a lock, and which the *)
(* OnAppCreated hook creates.  Put changes its copy field by field before  *)
(* it knows whether the result is acceptable.                              *)
(*                                                                         *)
(* Of a provider's credentials the model keeps the switch and one secret;  *)
(* api_key, webhook_secret and account_id are carried alike.  enabled and  *)
(* test_mode are those of the latest body and restrict nothing.            *)
(***************************************************************************)
EXTENDS Naturals

CONSTANTS
    Apps,
    Calls,      \* calls of Put and OnAppCreated
    Names,      \* provider names a body may mention
    Known,      \* those IsKnownProvider accepts
    Keyless,    \* those that need no api_key (mock)
    Secrets,
    None,
    Keep,       \* a body without default_provider
    Bodies,     \* the bodies that admins send
    Hook,       \* stands for OnAppCreated in place of a body
    MaxFailures \* bound: failing store calls

Cred == [on : BOOLEAN, key : Secrets \cup {None}]

\* cred[p] = None: no credentials of p, in a body no mention of it;
\* key = None: none is set, in a body it is left blank.
BodyType == [default : Names \cup {None, Keep}, cred : [Names -> Cred \cup {None}]]

Doc == {d \in [default : Known \cup {None}, cred : [Names -> Cred \cup {None}]] :
          \A p \in Names \ Known : d.cred[p] = None}

Request == [app : Apps, body : Bodies \cup {Hook}]

ASSUME ConfigAssumption ==
    /\ Known \subseteq Names
    /\ Keyless \subseteq Known
    /\ Bodies \subseteq BodyType
    /\ Hook \notin BodyType
    /\ Keep \notin Names \cup {None}
    /\ None \notin Names \cup Secrets \cup Doc \cup Request
    /\ None \notin Cred
    /\ MaxFailures \in Nat

VARIABLES
    store,     \* billing_configs: store[a], or None
    pc,        \* where each call is
    call,      \* what it was called with
    copy,      \* its local document
    failures,
    ledger,    \* history: ledger[a][p], the secret that the stored Puts add up to
    overlap    \* history: apps two of whose calls have overlapped

vars == <<store, pc, call, copy, failures, ledger, overlap>>

App(c) == call[c].app
InFlight == {c \in Calls : pc[c] \in {"read", "upsert"}}

Blank == [default |-> None, cred |-> [p \in Names |-> None]]

Init ==
    /\ store = [a \in Apps |-> None]
    /\ pc = [c \in Calls |-> "idle"]
    /\ call = [c \in Calls |-> None]
    /\ copy = [c \in Calls |-> None]
    /\ failures = 0
    /\ ledger = [a \in Apps |-> [p \in Known |-> None]]
    /\ overlap = {}

-----------------------------------------------------------------------------
(* What Put makes of a document                                             *)

KeyOf(cred) == IF cred = None THEN None ELSE cred.key

\* Mutant: a secret that the body leaves blank is erased.
EditedBlankly(old, new) == IF new = None THEN old ELSE new

\* A provider that the body does not mention keeps its credentials, and a
\* mentioned one keeps the secret that the body leaves blank.
Edited(old, new) ==
    IF new = None THEN old
    ELSE [on |-> new.on, key |-> IF new.key = None THEN KeyOf(old) ELSE new.key]

Merged(d, b) ==
    [default |-> IF b.default = Keep THEN d.default ELSE b.default,
     cred |-> [p \in Names |-> Edited(d.cred[p], b.cred[p])]]

\* The default provider, when there is one, is on and has what it needs.
Usable(d) ==
    d.default # None =>
        /\ d.cred[d.default] # None
        /\ d.cred[d.default].on
        /\ d.default \in Keyless \/ d.cred[d.default].key # None

\* Mutant: the names of the providers are not checked.
KnownDefault(b) == b.default \in Known \cup {None, Keep}

KnownNames(b) ==
    /\ b.default \in Known \cup {None, Keep}
    /\ \A p \in Names \ Known : b.cred[p] = None

\* Mutant: the default provider is checked only when the body names it.
AcceptedByBody(d, b) ==
    /\ KnownNames(b)
    /\ b.default # Keep => Usable(Merged(d, b))

Accepted(d, b) == KnownNames(b) /\ Usable(Merged(d, b))

-----------------------------------------------------------------------------
(* The steps of a call                                                      *)

Begin(c, a, body) ==
    /\ pc[c] = "idle"
    /\ pc' = [pc EXCEPT ![c] = "read"]
    /\ call' = [call EXCEPT ![c] = [app |-> a, body |-> body]]
    /\ overlap' = IF \E x \in InFlight : App(x) = a THEN overlap \cup {a} ELSE overlap
    /\ UNCHANGED <<store, copy, failures, ledger>>

\* configs.Get, then all of Put's work on its copy.
ReadForPut(c) ==
    LET d == IF store[App(c)] = None THEN Blank ELSE store[App(c)]
        b == call[c].body
    IN  /\ pc[c] = "read" /\ b # Hook
        /\ \/ /\ Accepted(d, b)
              /\ copy' = [copy EXCEPT ![c] = Merged(d, b)]
              /\ pc' = [pc EXCEPT ![c] = "upsert"]
           \/ /\ ~Accepted(d, b)
              /\ pc' = [pc EXCEPT ![c] = "refused"]
              /\ UNCHANGED copy
        /\ UNCHANGED <<store, call, failures, ledger, overlap>>

\* OnAppCreated leaves a document that is there alone.
ReadForHook(c) ==
    /\ pc[c] = "read" /\ call[c].body = Hook
    /\ \/ /\ store[App(c)] # None
          /\ pc' = [pc EXCEPT ![c] = "ok"]
          /\ UNCHANGED copy
       \/ /\ store[App(c)] = None
          /\ copy' = [copy EXCEPT ![c] = Blank]
          /\ pc' = [pc EXCEPT ![c] = "upsert"]
    /\ UNCHANGED <<store, call, failures, ledger, overlap>>

\* The secrets that the stored Puts of an app add up to, body by body.
Sent(a, body) ==
    [p \in Known |->
        IF body # Hook /\ KeyOf(body.cred[p]) # None THEN KeyOf(body.cred[p])
        ELSE ledger[a][p]]

Store(c) ==
    /\ pc[c] = "upsert"
    /\ store' = [store EXCEPT ![App(c)] = copy[c]]
    /\ ledger' = [ledger EXCEPT ![App(c)] = Sent(App(c), call[c].body)]
    /\ UNCHANGED <<call, copy, overlap>>

Upsert(c) ==
    /\ Store(c)
    /\ pc' = [pc EXCEPT ![c] = "ok"]
    /\ UNCHANGED failures

\* GetApp, configs.Get or the encryption fails, or Upsert does, before or after
\* its effect.
Fail(c) ==
    /\ c \in InFlight
    /\ failures < MaxFailures
    /\ failures' = failures + 1
    /\ pc' = [pc EXCEPT ![c] = "failed"]
    /\ \/ UNCHANGED <<store, call, copy, ledger, overlap>>
       \/ Store(c)

Next ==
    \E c \in Calls :
        \/ \E a \in Apps, body \in Bodies \cup {Hook} : Begin(c, a, body)
        \/ ReadForPut(c)
        \/ ReadForHook(c)
        \/ Upsert(c)
        \/ Fail(c)

Spec == Init /\ [][Next]_vars

-----------------------------------------------------------------------------
(* Properties                                                               *)

TypeOK ==
    /\ store \in [Apps -> Doc \cup {None}]
    /\ pc \in [Calls -> {"idle", "read", "upsert", "ok", "refused", "failed"}]
    /\ call \in [Calls -> Request \cup {None}]
    /\ copy \in [Calls -> Doc \cup {None}]
    /\ failures \in 0..MaxFailures
    /\ ledger \in [Apps -> [Known -> Secrets \cup {None}]]
    /\ overlap \in SUBSET Apps

\* Whatever Puts came before, and also when they overlap, a stored document
\* names a default provider only if a checkout can use it: switching off or
\* not completing the current default is refused too (service.go:178-187).
\* BillingOrders takes this of its configurations (ValidConfig).
StoredConfigUsable ==
    \A a \in Apps : store[a] # None => Usable(store[a])

\* As long as the Puts of an app come one after the other, its secrets are those
\* last sent, and one is never lost to a later Put or the hook nor changed by a
\* refused Put, however many come in between (service.go:125-196, 68-81).
SecretsAddUp ==
    \A a \in Apps :
        a \notin overlap =>
            \A p \in Known :
                (IF store[a] = None THEN None ELSE KeyOf(store[a].cred[p])) = ledger[a][p]

-----------------------------------------------------------------------------
(* The inductive invariants behind them                                     *)

CopyInv ==
    \A c \in Calls :
        /\ pc[c] # "idle" => call[c] # None
        /\ pc[c] = "upsert" => copy[c] # None /\ Usable(copy[c])

\* A lone call writes back what the app's document has become by then.
LoneInv ==
    \A c \in Calls :
        pc[c] = "upsert" /\ App(c) \notin overlap =>
            \A p \in Known : KeyOf(copy[c].cred[p]) = Sent(App(c), call[c].body)[p]

AloneInv ==
    \A c1, c2 \in InFlight :
        App(c1) = App(c2) /\ App(c1) \notin overlap => c1 = c2

=============================================================================
