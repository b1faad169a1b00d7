---------------------------- MODULE BillingOrders ----------------------------
(***************************************************************************)
(* Checkouts, orders and provider webhooks of the Billing service          *)
(* (internal/billing).  CreateCheckout and HandleWebhook hold no lock and  *)
(* run no transaction across their repository and provider calls, so each  *)
(* such call is one action and a request keeps its locals in between; any  *)
(* number of requests and deliveries interleave, on one instance or many.  *)
(*                                                                         *)
(* The provider (Creem, or the mock) and the customer are the environment: *)
(* a session is paid only by a customer who was given its checkout_url,    *)
(* and every event may be delivered any number of times, in any order,     *)
(* concurrently with itself.  It is posted to the webhook URL of one app,  *)
(* signed with the provider's secret, and names its order or does not.     *)
(*                                                                         *)
(* An order id is drawn fresh by each request (idgen.NewOrderID), so an    *)
(* order, its provider session and the request that made it share a name.  *)
(***************************************************************************)
EXTENDS Naturals

CONSTANTS
    Apps,        \* tenant applications
    Keys,        \* idempotency keys
    Requests,    \* POST /billing/checkouts calls; also the order ids they draw
    Deliveries,  \* webhook handler instances
    Providers,   \* known providers
    Registered,  \* those with an adapter in the registry
    Products,    \* catalogue items
    Prices,      \* provider product ids
    Users,
    Urls,        \* success_url values
    None,        \* an empty field, a nil pointer, no document
    Inputs,      \* checkout bodies that clients send
    Configs,     \* billing configs an admin stores
    Lenient,     \* adapters that take any delivery while no secret is stored
    Naming,      \* how the events of a provider name their order
    HookOf,      \* the app in the webhook URL that an app's provider account has
    MaxFaults,   \* bound: crashes and failed store calls in webhook handlers
    MaxPuts      \* bound: config changes by an admin

Modes == {"test", "live"}
Kinds == {"paid", "refunded"}
Statuses == {"pending"} \cup Kinds

\* An event of one checkout session; "other" is every event type that
\* VerifyAndParseWebhook maps to the empty status.
Events == Requests \X (Kinds \cup {"other"})

\* What the adapter makes of an event's payload: the checkout's own id, only the
\* request_id, or neither.  Creem's object.id is that of the checkout in some
\* event types and that of a refund, say, in others.
Names == {"checkout", "request", "nothing"}

\* A provider's webhook_secret in a config: none, the one the provider signs
\* with, or another.
Secrets == {"none", "shared", "other"}

InputType == [product : Products \cup {None}, price : Prices \cup {None},
              provider : Registered \cup {None}, user : Users \cup {None},
              url : Urls \cup {None}]

\* BillingConfig as Put leaves it (module BillingConfig): the default provider,
\* when there is one, is enabled; it need not have a webhook secret.  An app with
\* no document behaves like an app whose document is disabled and lists no
\* provider.
ValidConfig == {c \in [mode : Modes, default : Providers \cup {None},
                       on : SUBSET Providers, enabled : BOOLEAN,
                       secret : [Providers -> Secrets]] :
                   c.default # None => c.default \in c.on}

Terms == [product : Products \cup {None}, price : Prices \cup {None},
          provider : Registered, user : Users \cup {None}, url : Urls \cup {None},
          mode : Modes, app : Apps, key : Keys \cup {None}]

Order == [status : Statuses, terms : Terms, paidAt : BOOLEAN]

Call == [app : Apps, key : Keys \cup {None}, in : Inputs]

Session == [provider : Registered, mode : Modes, app : Apps,
            state : {"open", "completed", "refunded"}]

ASSUME OrdersAssumption ==
    /\ Registered \subseteq Providers
    /\ Inputs \subseteq InputType
    /\ Configs \subseteq ValidConfig
    /\ Naming \in [Registered -> [Kinds \cup {"other"} -> Names]]
    /\ HookOf \in [Apps -> Apps]
    /\ None \notin Keys \cup Products \cup Prices \cup Providers \cup Users \cup Urls
    /\ None \notin Order \cup Call \cup Terms \cup Session \cup Requests \cup Events
    /\ None \notin [status : Statuses, terms : Terms]
    /\ MaxFaults \in Nat
    /\ MaxPuts \in Nat

VARIABLES
    config,    \* billing_configs: config[a]
    orders,    \* billing_orders: orders[o], or None
    recorded,  \* billing_webhook_events, by (provider, event_id)
    pc,        \* where each checkout request is
    call,      \* its app, idempotency key and body
    plan,      \* its local `order`, under construction
    reply,     \* the order a finished request answered with
    hpc,       \* where each webhook handler is
    event,     \* the event it handles
    draft,     \* its local copy of the order, as it will write it
    session,   \* the provider's checkout sessions
    emitted,   \* events the provider has generated
    acked,     \* events the provider has seen answered with a 2xx
    applied,   \* history: events whose order update reached the store
    late,      \* history: orders whose payment was first written after their refund
    before,    \* history: orders stored when a request arrived
    faults, puts

checkoutVars == <<pc, call, plan, reply, before>>
handlerVars == <<hpc, event, draft>>
providerVars == <<session, emitted, acked>>
historyVars == <<applied, late>>
vars == <<config, orders, recorded, checkoutVars, handlerVars, providerVars,
          historyVars, faults, puts>>

Stored == {o \in Requests : orders[o] # None}

Init ==
    /\ config \in [Apps -> Configs]
    /\ orders = [o \in Requests |-> None]
    /\ recorded = {}
    /\ pc = [r \in Requests |-> "idle"]
    /\ call = [r \in Requests |-> None]
    /\ plan = [r \in Requests |-> None]
    /\ reply = [r \in Requests |-> None]
    /\ hpc = [d \in Deliveries |-> "idle"]
    /\ event = [d \in Deliveries |-> None]
    /\ draft = [d \in Deliveries |-> None]
    /\ session = [s \in Requests |-> None]
    /\ emitted = {}
    /\ acked = {}
    /\ applied = {}
    /\ late = {}
    /\ before = [r \in Requests |-> {}]
    /\ faults = 0
    /\ puts = 0

-----------------------------------------------------------------------------
(* Admin: PUT billing-config.  Module BillingConfig has its steps.          *)

PutConfig(a, c) ==
    /\ puts < MaxPuts
    /\ config' = [config EXCEPT ![a] = c]
    /\ puts' = puts + 1
    /\ UNCHANGED <<orders, recorded, checkoutVars, handlerVars, providerVars,
                   historyVars, faults>>

-----------------------------------------------------------------------------
(* CreateCheckout                                                           *)

\* Mutant: the product of a replay is not compared.
ParamsMatchAnyProduct(t, in) ==
    /\ in.price # None => t.price = in.price
    /\ t.url = in.url
    /\ in.provider # None => t.provider = in.provider
    /\ in.user # None => t.user = in.user

\* checkoutParamsMatch: a blank field of a replay stands for "as before", but
\* product and success_url always count.
ParamsMatch(t, in) ==
    /\ t.product = in.product
    /\ in.price # None => t.price = in.price
    /\ t.url = in.url
    /\ in.provider # None => t.provider = in.provider
    /\ in.user # None => t.user = in.user

\* RequireActiveApp, the checks of the body, and the branch on the key.  The
\* tenant module decides whether the app counts as active: either answer.
Arrive(r, a, k, in) ==
    /\ pc[r] = "idle"
    /\ call' = [call EXCEPT ![r] = [app |-> a, key |-> k, in |-> in]]
    /\ before' = [before EXCEPT ![r] = Stored]
    /\ \/ pc' = [pc EXCEPT ![r] = "refused"]
       \/ /\ in.url # None
          /\ pc' = [pc EXCEPT ![r] = IF k = None THEN "config" ELSE "lookup"]
    /\ UNCHANGED <<config, orders, recorded, plan, reply, handlerVars,
                   providerVars, historyVars, faults, puts>>

\* Mutant: only orders still pending are found.
PendingWithKey(a, k) ==
    {o \in Stored : /\ orders[o].terms.app = a /\ orders[o].terms.key = k
                    /\ orders[o].status = "pending"}

\* Orders that GetByIdempotencyKey may return (the memory store answers with
\* the latest, Firestore with whichever Limit(1) yields).
WithKey(a, k) == {o \in Stored : orders[o].terms.app = a /\ orders[o].terms.key = k}

LookupKey(r) ==
    /\ pc[r] = "lookup"
    /\ \/ /\ WithKey(call[r].app, call[r].key) = {}
          /\ pc' = [pc EXCEPT ![r] = "config"]
          /\ UNCHANGED reply
       \/ \E o \in WithKey(call[r].app, call[r].key) :
             \/ /\ ParamsMatch(orders[o].terms, call[r].in)
                /\ pc' = [pc EXCEPT ![r] = "replied"]
                /\ reply' = [reply EXCEPT ![r] = o]
             \/ /\ ~ParamsMatch(orders[o].terms, call[r].in)
                /\ pc' = [pc EXCEPT ![r] = "conflict"]
                /\ UNCHANGED reply
    /\ UNCHANGED <<config, orders, recorded, call, plan, before, handlerVars,
                   providerVars, historyVars, faults, puts>>

\* loadConfig, the choice of provider, decryptCreds: one snapshot of the config
\* decides provider, credentials and mode.
ProviderFor(c, in) == IF in.provider = None THEN c.default ELSE in.provider

Sellable(c, in) ==
    /\ c.enabled /\ c.default # None
    /\ ProviderFor(c, in) \in Registered \cap c.on
    /\ in.product # None \/ in.price # None

OrderTerms(cl, c) ==
    [product |-> cl.in.product, price |-> cl.in.price, provider |-> ProviderFor(c, cl.in),
     user |-> cl.in.user, url |-> cl.in.url, mode |-> c.mode,
     app |-> cl.app, key |-> cl.key]

LoadConfig(r) ==
    LET c  == config[call[r].app]
        in == call[r].in
    IN  /\ pc[r] = "config"
        /\ \/ /\ Sellable(c, in)
              /\ plan' = [plan EXCEPT ![r] = OrderTerms(call[r], c)]
              /\ pc' = [pc EXCEPT ![r] = IF in.product = None THEN "create" ELSE "product"]
           \/ /\ ~Sellable(c, in)
              /\ pc' = [pc EXCEPT ![r] = "refused"]
              /\ UNCHANGED plan
        /\ UNCHANGED <<config, orders, recorded, call, reply, before, handlerVars,
                       providerVars, historyVars, faults, puts>>

\* products.GetByID and PriceIDFor: whatever the catalogue says at this moment;
\* its price replaces the one of the body.
ResolveProduct(r) ==
    /\ pc[r] = "product"
    /\ \/ /\ pc' = [pc EXCEPT ![r] = "refused"]
          /\ UNCHANGED plan
       \/ \E p \in Prices :
             /\ plan' = [plan EXCEPT ![r].price = p]
             /\ pc' = [pc EXCEPT ![r] = "create"]
    /\ UNCHANGED <<config, orders, recorded, call, reply, before, handlerVars,
                   providerVars, historyVars, faults, puts>>

\* Mutant: the mode is taken from the config as it is by now.
CreateSessionReloaded(r) ==
    /\ pc[r] = "create"
    /\ session' = [session EXCEPT ![r] =
          [provider |-> plan[r].provider, mode |-> config[plan[r].app].mode,
           app |-> plan[r].app, state |-> "open"]]
    /\ pc' = [pc EXCEPT ![r] = "save"]
    /\ UNCHANGED <<config, orders, recorded, call, plan, reply, before, handlerVars,
                   emitted, acked, historyVars, faults, puts>>

\* prov.CreateCheckout: the call to the provider succeeds, or its answer is an
\* error or never arrives although the session may have been created.
CreateSession(r) ==
    /\ pc[r] = "create"
    /\ session' = [session EXCEPT ![r] =
          [provider |-> plan[r].provider, mode |-> plan[r].mode,
           app |-> plan[r].app, state |-> "open"]]
    /\ \/ pc' = [pc EXCEPT ![r] = "save"]
       \/ pc' = [pc EXCEPT ![r] = "failed"]
    /\ UNCHANGED <<config, orders, recorded, call, plan, reply, before, handlerVars,
                   emitted, acked, historyVars, faults, puts>>

\* orders.Create, then the 201: the answer may be lost with the instance.
SaveOrder(r) ==
    /\ pc[r] = "save"
    /\ orders' = [orders EXCEPT ![r] =
                     [status |-> "pending", terms |-> plan[r], paidAt |-> FALSE]]
    /\ \/ /\ pc' = [pc EXCEPT ![r] = "replied"]
          /\ reply' = [reply EXCEPT ![r] = r]
       \/ /\ pc' = [pc EXCEPT ![r] = "failed"]
          /\ UNCHANGED reply
    /\ UNCHANGED <<config, recorded, call, plan, before, handlerVars,
                   providerVars, historyVars, faults, puts>>

\* Mutant: the error of orders.Create is dropped.
AbortUnnoticed(r) ==
    /\ pc[r] = "save"
    /\ pc' = [pc EXCEPT ![r] = "replied"]
    /\ reply' = [reply EXCEPT ![r] = r]
    /\ UNCHANGED <<config, orders, recorded, call, plan, before, handlerVars,
                   providerVars, historyVars, faults, puts>>

\* A store or provider call fails, or the instance dies, before its effect.
AbortCheckout(r) ==
    /\ pc[r] \in {"lookup", "config", "product", "create", "save"}
    /\ pc' = [pc EXCEPT ![r] = "failed"]
    /\ UNCHANGED <<config, orders, recorded, call, plan, reply, before, handlerVars,
                   providerVars, historyVars, faults, puts>>

Checkout(r) ==
    \/ \E a \in Apps, k \in Keys \cup {None}, in \in Inputs : Arrive(r, a, k, in)
    \/ LookupKey(r)
    \/ LoadConfig(r)
    \/ ResolveProduct(r)
    \/ CreateSession(r)
    \/ SaveOrder(r)
    \/ AbortCheckout(r)

-----------------------------------------------------------------------------
(* The customer and the provider                                            *)

Emit(s, k) ==
    /\ emitted' = emitted \cup {<<s, k>>}
    /\ UNCHANGED <<config, orders, recorded, checkoutVars, handlerVars, acked,
                   historyVars, faults, puts>>

\* A customer pays a session whose URL some request answered with.
Pay(s) ==
    /\ session[s] # None /\ session[s].state = "open"
    /\ \E r \in Requests : reply[r] = s
    /\ session' = [session EXCEPT ![s].state = "completed"]
    /\ Emit(s, "paid")

Refund(s) ==
    /\ session[s] # None /\ session[s].state = "completed"
    /\ session' = [session EXCEPT ![s].state = "refunded"]
    /\ Emit(s, "refunded")

Notify(s) ==
    /\ session[s] # None
    /\ UNCHANGED session
    /\ Emit(s, "other")

Provider(s) == Pay(s) \/ Refund(s) \/ Notify(s)

-----------------------------------------------------------------------------
(* HandleWebhook                                                            *)

Deliver(d, e) ==
    /\ hpc[d] = "idle"
    /\ e \in emitted
    /\ hpc' = [hpc EXCEPT ![d] = "verify"]
    /\ event' = [event EXCEPT ![d] = e]
    /\ UNCHANGED <<config, orders, recorded, checkoutVars, draft, providerVars,
                   historyVars, faults, puts>>

\* The handler returns; the provider sees a 2xx exactly when it returns nil.
Return(d, ok) ==
    /\ hpc' = [hpc EXCEPT ![d] = "idle"]
    /\ event' = [event EXCEPT ![d] = None]
    /\ draft' = [draft EXCEPT ![d] = None]
    /\ acked' = IF ok THEN acked \cup {event[d]} ELSE acked

\* What decryptCreds and the adapter's VerifyAndParseWebhook let through: Creem
\* refuses every delivery while no secret is stored, the mock none.
Verifies(c, p) ==
    /\ p \in c.on
    /\ \/ c.secret[p] = "shared"
       \/ c.secret[p] = "none" /\ p \in Lenient

\* The app that the webhook URL names would let the events of s through.
Accepts(s) ==
    session[s] # None /\ Verifies(config[HookOf[session[s].app]], session[s].provider)

\* configs.Get, registry.Get, decryptCreds, VerifyAndParseWebhook: the config of
\* this moment decides; whatever it refuses is answered with an error.
Verify(d) ==
    /\ hpc[d] = "verify"
    /\ \/ /\ Accepts(event[d][1])
          /\ hpc' = [hpc EXCEPT ![d] = "record"]
          /\ UNCHANGED <<event, draft, acked>>
       \/ /\ ~Accepts(event[d][1])
          /\ Return(d, FALSE)
    /\ UNCHANGED <<config, orders, recorded, checkoutVars, session, emitted,
                   historyVars, faults, puts>>

\* Mutant: what webhooks.Create says about a duplicate is not looked at.
RecordUnchecked(d) ==
    /\ hpc[d] = "record"
    /\ recorded' = recorded \cup {event[d]}
    /\ hpc' = [hpc EXCEPT ![d] = "find"]
    /\ UNCHANGED <<config, orders, checkoutVars, event, draft, providerVars,
                   historyVars, faults, puts>>

\* Mutant: a duplicate is answered with an error.
RecordRefusing(d) ==
    /\ hpc[d] = "record"
    /\ \/ /\ event[d] \in recorded
          /\ Return(d, FALSE)
          /\ UNCHANGED recorded
       \/ /\ event[d] \notin recorded
          /\ recorded' = recorded \cup {event[d]}
          /\ hpc' = [hpc EXCEPT ![d] = "find"]
          /\ UNCHANGED <<event, draft, acked>>
    /\ UNCHANGED <<config, orders, checkoutVars, session, emitted, historyVars, faults, puts>>

\* webhooks.Create: atomic create-if-absent; a known event is done with.
Record(d) ==
    /\ hpc[d] = "record"
    /\ \/ /\ event[d] \in recorded
          /\ Return(d, TRUE)
          /\ UNCHANGED recorded
       \/ /\ event[d] \notin recorded
          /\ recorded' = recorded \cup {event[d]}
          /\ hpc' = [hpc EXCEPT ![d] = "find"]
          /\ UNCHANGED <<event, draft, acked>>
    /\ UNCHANGED <<config, orders, checkoutVars, session, emitted, historyVars, faults, puts>>

\* GetByProviderCheckoutID, for any app, else GetByID of the request_id, for the
\* app of the URL; an event that names both is one that names the checkout, at
\* the moment of either lookup.
Found(o, k) ==
    LET s == session[o]
    IN  /\ orders[o] # None
        /\ \/ Naming[s.provider][k] = "checkout"
           \/ /\ Naming[s.provider][k] = "request"
              /\ orders[o].terms.app = HookOf[s.app]

\* Mutant: events without a status are not skipped.
IgnoresOnlyPaid(o, k) ==
    Found(o, k) => orders[o].status = "paid" /\ k = "paid"

\* Mutant: only the first event of an order counts.
IgnoresSettled(o, k) ==
    Found(o, k) /\ k # "other" => orders[o].status # "pending"

\* No order is found, the event has no status, or the order is paid already:
\* nil, without an update.
Ignores(o, k) ==
    Found(o, k) /\ k # "other" => orders[o].status = "paid" /\ k = "paid"

Drafted(o, k) == [orders[o] EXCEPT !.status = k, !.paidAt = @ \/ k = "paid"]

FindOrder(d) ==
    LET o == event[d][1]
        k == event[d][2]
    IN  /\ hpc[d] = "find"
        /\ \/ /\ Ignores(o, k)
              /\ Return(d, TRUE)
           \/ /\ ~Ignores(o, k)
              /\ draft' = [draft EXCEPT ![d] = Drafted(o, k)]
              /\ hpc' = [hpc EXCEPT ![d] = "update"]
              /\ UNCHANGED <<event, acked>>
        /\ UNCHANGED <<config, orders, recorded, checkoutVars, session, emitted,
                       historyVars, faults, puts>>

\* Mutant: the copy is changed but never written back.
WriteNothing(d) ==
    /\ hpc[d] = "update"
    /\ UNCHANGED <<orders, historyVars>>

\* orders.Update replaces the whole document by the copy.
WriteDraft(d) ==
    /\ hpc[d] = "update"
    /\ orders' = [orders EXCEPT ![event[d][1]] = draft[d]]
    /\ applied' = applied \cup {event[d]}
    /\ late' = late \cup {s \in Requests : /\ event[d] = <<s, "paid">>
                                           /\ event[d] \notin applied
                                           /\ <<s, "refunded">> \in applied}

UpdateOrder(d) ==
    /\ WriteDraft(d)
    /\ Return(d, TRUE)
    /\ UNCHANGED <<config, recorded, checkoutVars, session, emitted, faults, puts>>

\* Mutant: whoever gets no 2xx is free to send the event again as a new one.
UnansweredForgotten(d) ==
    /\ faults < MaxFaults
    /\ faults' = faults + 1
    /\ WriteDraft(d)
    /\ recorded' = recorded \ {event[d]}
    /\ Return(d, FALSE)
    /\ UNCHANGED <<config, checkoutVars, session, emitted, puts>>

\* The instance dies, or the answer is lost, after the write.
UpdateUnanswered(d) ==
    /\ faults < MaxFaults
    /\ faults' = faults + 1
    /\ WriteDraft(d)
    /\ Return(d, FALSE)
    /\ UNCHANGED <<config, recorded, checkoutVars, session, emitted, puts>>

\* A store call returns an error or the instance dies: nothing is rolled back,
\* the provider sees no 2xx.
AbortWebhook(d) ==
    /\ hpc[d] # "idle"
    /\ faults < MaxFaults
    /\ faults' = faults + 1
    /\ Return(d, FALSE)
    /\ UNCHANGED <<config, orders, recorded, checkoutVars, session, emitted,
                   historyVars, puts>>

HandlerStep(d) == Verify(d) \/ Record(d) \/ FindOrder(d) \/ UpdateOrder(d)

Webhook(d) ==
    \/ \E e \in Events : Deliver(d, e)
    \/ HandlerStep(d)
    \/ UpdateUnanswered(d)
    \/ AbortWebhook(d)

-----------------------------------------------------------------------------

Next ==
    \/ \E a \in Apps, c \in Configs : PutConfig(a, c)
    \/ \E r \in Requests : Checkout(r)
    \/ \E s \in Requests : Provider(s)
    \/ \E d \in Deliveries : Webhook(d)

Spec == Init /\ [][Next]_vars

\* A handler that was called runs on (the Go scheduler), and the provider
\* delivers an event again until it sees a 2xx.
FairSpec ==
    /\ Spec
    /\ \A d \in Deliveries : WF_vars(HandlerStep(d))
    /\ \A e \in Events : SF_vars(e \notin acked /\ \E d \in Deliveries : Deliver(d, e))

-----------------------------------------------------------------------------
(* Properties                                                               *)

TypeOK ==
    /\ config \in [Apps -> Configs]
    /\ orders \in [Requests -> Order \cup {None}]
    /\ recorded \in SUBSET Events
    /\ pc \in [Requests -> {"idle", "lookup", "config", "product", "create", "save",
                            "replied", "refused", "conflict", "failed"}]
    /\ call \in [Requests -> Call \cup {None}]
    /\ plan \in [Requests -> Terms \cup {None}]
    /\ reply \in [Requests -> Requests \cup {None}]
    /\ hpc \in [Deliveries -> {"idle", "verify", "record", "find", "update"}]
    /\ event \in [Deliveries -> Events \cup {None}]
    /\ draft \in [Deliveries -> Order \cup {None}]
    /\ session \in [Requests -> Session \cup {None}]
    /\ emitted \in SUBSET Events
    /\ acked \in SUBSET Events
    /\ applied \in SUBSET Events
    /\ late \in SUBSET Requests
    /\ before \in [Requests -> SUBSET Requests]
    /\ faults \in 0..MaxFaults
    /\ puts \in 0..MaxPuts

\* An order names the app, provider and mode its session was created under, and
\* is refunded only when the session is.  It is paid only when the session has
\* been paid; a refund that has reached the order is undone only by a payment that
\* had not reached it yet (RefundStays says more, and fails).  No redelivery and
\* no config change undoes one (service.go:426-503 uses one config snapshot;
\* 599-605 drops duplicates; 637-649 rewrites the order).
OrderMatchesProvider ==
    \A o \in Stored :
        /\ session[o] # None
        /\ session[o].app = orders[o].terms.app
        /\ session[o].provider = orders[o].terms.provider
        /\ session[o].mode = orders[o].terms.mode
        /\ orders[o].status = "paid" =>
              /\ session[o].state \in {"completed", "refunded"}
              /\ orders[o].paidAt
              /\ <<o, "refunded">> \in applied => o \in late
        /\ orders[o].status = "refunded" => session[o].state = "refunded"

\* Whatever a customer has paid for has an order: the URL of a session is only
\* given out once its order is stored (service.go:508-517).
PaidSessionHasOrder ==
    \A s \in Requests :
        session[s] # None /\ session[s].state # "open" => s \in Stored

\* A retry under the same key that arrives after the order is stored never makes
\* a second one, whatever webhooks did to the order meanwhile
\* (service.go:407-424).
NoSequentialDuplicate ==
    \A o1, o2 \in Stored :
        /\ orders[o1].terms.app = orders[o2].terms.app
        /\ orders[o1].terms.key = orders[o2].terms.key
        /\ orders[o1].terms.key # None
        /\ o1 \in before[o2]
        => o1 = o2

\* The terms are what the call asked for; a price without a product is its own.
Answers(t, cl) ==
    /\ t.app = cl.app
    /\ t.key = cl.key
    /\ t.product = cl.in.product /\ t.url = cl.in.url
    /\ cl.in.product = None /\ cl.in.price # None => t.price = cl.in.price
    /\ cl.in.provider # None => t.provider = cl.in.provider
    /\ cl.in.user # None => t.user = cl.in.user

\* The order a caller is answered with, fresh or replayed, is of its own app and
\* key and sells what it asked for (service.go:412-423, 511-517, 520-537).
ReplyAnswersCall ==
    \A r \in Requests :
        reply[r] # None =>
            reply[r] \in Stored /\ Answers(orders[reply[r]].terms, call[r])

\* A handler is past Record with this event.
AtWork(e) == \E d \in Deliveries : event[d] = e /\ hpc[d] \in {"find", "update"}

\* An event whose payload leads to the order of its session.
NamesOrder(e) ==
    LET s == session[e[1]]
    IN  \/ Naming[s.provider][e[2]] = "checkout"
        \/ Naming[s.provider][e[2]] = "request" /\ HookOf[s.app] = s.app

\* The order says what the event said, or what the session's other event said:
\* "refunded" over a payment, or "paid" over a refund, when it was written later.
Reflects(o, k) ==
    \/ orders[o].status = k
    \/ orders[o].status = "refunded"
    \/ orders[o].status = "paid" /\ o \in late

\* As long as no store call fails and no instance dies, a 2xx on an event that
\* carries a status and names its order means that the order reflects it, or
\* that a handler is still at work on it: duplicates are answered before the
\* first delivery is done (service.go:599-605).
AcknowledgedIsHandled ==
    faults = 0 =>
        \A e \in acked :
            e[2] \in Kinds /\ NamesOrder(e) =>
                \/ e[1] \in Stored /\ Reflects(e[1], e[2])
                \/ AtWork(e)

\* Orders as the abstract ledger sees them: opened once under fixed terms, then
\* changed only by events of their own session, each at most once.
LedgerView ==
    [o \in Requests |-> IF orders[o] = None THEN None
                        ELSE [status |-> orders[o].status, terms |-> orders[o].terms]]

Ledger == INSTANCE OrderLedger
            WITH Orders <- Requests, ledger <- LedgerView, credited <- applied

\* The service implements that ledger, with any number of handlers and faults
\* (service.go:508, 599-649; memory_store.go:102-113, 153-161, 192-205).
ImplementsLedger == Ledger!LedgerSpec

\* The provider is not left retrying for ever, also when handlers fail or die and
\* when the provider was switched off or its secret was missing or wrong for a
\* time: once the app accepts its deliveries for good, it comes back to where all
\* events of a session are answered with a 2xx (service.go:566-650).
EventuallyAcknowledged ==
    \A s \in Requests :
        <>[]Accepts(s) => []<>(\A e \in emitted : e[1] = s => e \in acked)

\* As long as no handler fails or dies, a payment whose event names its order
\* reaches it under the same condition, through refused and overlapping
\* deliveries of it and of the refund (service.go:566-650).
PaymentReachesOrderUnlessFault ==
    \A s \in Requests :
        <>[]Accepts(s) =>
            (<<s, "paid">> \in emitted /\ NamesOrder(<<s, "paid">>) ~>
                \/ s \in Stored /\ orders[s].status # "pending"
                \/ faults > 0)

\* A payment reaches its order: "Webhook, then the order becomes paid"
\* (service.go:599-649).
PaymentReachesOrder ==
    \A s \in Requests :
        <<s, "paid">> \in emitted ~> s \in Stored /\ orders[s].status # "pending"

\* The standardised status says that a refunded order is: once the refund has
\* reached the order and no handler is at work on it, it stays "refunded"
\* (service.go:633-649).
RefundStays ==
    \A s \in Requests :
        /\ <<s, "refunded">> \in applied
        /\ ~AtWork(<<s, "paid">>)
        => orders[s].status = "refunded"

\* An idempotency key makes one order.
KeyMakesOneOrder ==
    \A o1, o2 \in Stored :
        /\ orders[o1].terms.app = orders[o2].terms.app
        /\ orders[o1].terms.key = orders[o2].terms.key
        /\ orders[o1].terms.key # None
        => o1 = o2

-----------------------------------------------------------------------------
(* The inductive invariant behind the safety properties                     *)

Busy == {"product", "create", "save"}

\* What a checkout request has fixed so far, and what exists because of it.
CheckoutInv ==
    \A r \in Requests :
        /\ pc[r] # "idle" => call[r] # None
        /\ pc[r] \in Busy => plan[r] # None
        /\ session[r] # None => pc[r] \in {"save", "replied", "failed"}
        /\ pc[r] = "save" =>
              /\ session[r] # None
              /\ session[r].app = plan[r].app
              /\ session[r].provider = plan[r].provider
              /\ session[r].mode = plan[r].mode
        /\ r \in Stored => session[r] # None /\ pc[r] # "save"
        /\ reply[r] # None => reply[r] \in Stored

\* Events say what the session has been through; only emitted events are
\* recorded and only recorded ones applied.
EventInv ==
    /\ applied \subseteq recorded
    /\ recorded \subseteq emitted
    /\ \A e \in emitted :
          /\ session[e[1]] # None
          /\ e[2] = "paid" => session[e[1]].state # "open"
          /\ e[2] = "refunded" => session[e[1]].state = "refunded"

\* A handler past Record owns its event alone, and its copy of the order has
\* the terms of the stored one.
HandlerInv ==
    /\ \A d \in Deliveries :
          /\ hpc[d] # "idle" => event[d] \in emitted
          /\ hpc[d] \in {"find", "update"} => event[d] \in recorded \ applied
          /\ hpc[d] = "update" =>
                /\ event[d][1] \in Stored
                /\ event[d][2] \in Kinds
                /\ draft[d] # None
                /\ draft[d].terms = orders[event[d][1]].terms
                /\ draft[d].status = event[d][2]
                /\ draft[d].status = "paid" => draft[d].paidAt
    /\ \A d1, d2 \in Deliveries :
          /\ hpc[d1] \in {"find", "update"}
          /\ hpc[d2] \in {"find", "update"}
          /\ event[d1] = event[d2]
          => d1 = d2

\* Orders stored when a request arrived stay, and a request that got past the
\* key lookup has none of them under its key.
KeyInv ==
    \A r \in Requests :
        /\ before[r] \subseteq Stored
        /\ pc[r] \in {"config"} \cup Busy /\ call[r].key # None =>
              before[r] \cap WithKey(call[r].app, call[r].key) = {}
        /\ pc[r] \in Busy => plan[r].app = call[r].app /\ plan[r].key = call[r].key

\* An order under construction is what its call asks for.
AnswerInv ==
    /\ ReplyAnswersCall
    /\ \A r \in Requests :
          /\ reply[r] # None => pc[r] = "replied"
          /\ pc[r] \in Busy => Answers(plan[r], call[r])
          /\ pc[r] = "product" => call[r].in.product # None

\* Settled orders have their event credited and credited events settle their
\* order; a recorded event that names its order has been credited, or its
\* handler is at work.
AckInv ==
    /\ \A o \in Stored : orders[o].status \in Kinds => <<o, orders[o].status>> \in applied
    /\ \A e \in applied : e[1] \in Stored /\ orders[e[1]].status \in Kinds
    /\ acked \subseteq recorded
    /\ faults = 0 =>
          \A e \in recorded : e[2] \in Kinds /\ NamesOrder(e) => e \in applied \/ AtWork(e)

Inv == /\ CheckoutInv
       /\ EventInv
       /\ HandlerInv
       /\ OrderMatchesProvider
       /\ PaidSessionHasOrder
       /\ KeyInv
       /\ NoSequentialDuplicate

=============================================================================
