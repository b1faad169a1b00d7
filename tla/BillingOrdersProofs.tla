------------------------- MODULE BillingOrdersProofs -------------------------
(***************************************************************************)
(* Proofs about BillingOrders, for any sets of apps, keys, requests,       *)
(* deliveries, inputs and configs, and any bounds.                         *)
(***************************************************************************)
EXTENDS BillingOrders, TLAPS

USE DEF checkoutVars, handlerVars, providerVars, historyVars

LEMMA InitTypeOK == Init => TypeOK
<1> SUFFICES ASSUME Init PROVE TypeOK
  OBVIOUS
<1> QED BY OrdersAssumption DEF Init, TypeOK

LEMMA OrderTermsType ==
  ASSUME NEW cl \in Call, NEW c \in ValidConfig, Sellable(c, cl.in)
  PROVE  OrderTerms(cl, c) \in Terms /\ OrderTerms(cl, c) # None
<1>1. cl.in \in InputType /\ cl.app \in Apps /\ cl.key \in Keys \cup {None}
  BY OrdersAssumption DEF Call
<1>2. c.mode \in Modes
  BY DEF ValidConfig
<1>3. OrderTerms(cl, c) \in Terms
  BY <1>1, <1>2 DEF OrderTerms, Terms, Sellable, InputType
<1> QED BY <1>3, OrdersAssumption

LEMMA CheckoutTypeOK ==
  ASSUME TypeOK, NEW r \in Requests, CheckoutInv, Checkout(r)
  PROVE  TypeOK'
<1>1. ASSUME NEW a \in Apps, NEW k \in Keys \cup {None}, NEW in \in Inputs,
             Arrive(r, a, k, in)
      PROVE  TypeOK'
  BY <1>1 DEF Arrive, TypeOK, Call, Stored
<1>2. CASE LookupKey(r)
  BY <1>2 DEF LookupKey, TypeOK, WithKey, Stored
<1>3. CASE LoadConfig(r)
  <2>1. call[r] \in Call /\ config[call[r].app] \in ValidConfig
    BY <1>3, OrdersAssumption DEF LoadConfig, TypeOK, CheckoutInv, Call
  <2>2. CASE Sellable(config[call[r].app], call[r].in)
    <3>1. plan' = [plan EXCEPT ![r] = OrderTerms(call[r], config[call[r].app])]
          /\ pc' = [pc EXCEPT ![r] = IF call[r].in.product = None
                                     THEN "create" ELSE "product"]
      BY <1>3, <2>2 DEF LoadConfig
    <3>2. OrderTerms(call[r], config[call[r].app]) \in Terms
      BY <2>1, <2>2, OrderTermsType
    <3> QED BY <1>3, <3>1, <3>2 DEF LoadConfig, TypeOK
  <2>3. CASE ~Sellable(config[call[r].app], call[r].in)
    BY <1>3, <2>3 DEF LoadConfig, TypeOK
  <2> QED BY <2>2, <2>3
<1>4. CASE ResolveProduct(r)
  <2>1. plan[r] \in Terms
    BY <1>4 DEF ResolveProduct, TypeOK, CheckoutInv, Busy
  <2>2. \A p \in Prices : [plan[r] EXCEPT !.price = p] \in Terms
    BY <2>1 DEF Terms
  <2> QED BY <1>4, <2>1, <2>2 DEF ResolveProduct, TypeOK
<1>5. CASE CreateSession(r)
  <2>1. plan[r] \in Terms
    BY <1>5 DEF CreateSession, TypeOK, CheckoutInv, Busy
  <2> QED BY <1>5, <2>1 DEF CreateSession, TypeOK, Terms, Session
<1>6. CASE SaveOrder(r)
  <2>1. plan[r] \in Terms
    BY <1>6 DEF SaveOrder, TypeOK, CheckoutInv, Busy
  <2> QED BY <1>6, <2>1 DEF SaveOrder, TypeOK, Order, Statuses
<1>7. CASE AbortCheckout(r)
  BY <1>7 DEF AbortCheckout, TypeOK
<1> QED BY <1>1, <1>2, <1>3, <1>4, <1>5, <1>6, <1>7 DEF Checkout

LEMMA ProviderTypeOK ==
  ASSUME TypeOK, NEW s \in Requests, Provider(s)
  PROVE  TypeOK'
<1>1. ASSUME NEW k \in Kinds \cup {"other"} PROVE <<s, k>> \in Events
  BY DEF Events
<1>2. CASE Pay(s)
  BY <1>1, <1>2 DEF Pay, Emit, TypeOK, Session, Kinds
<1>3. CASE Refund(s)
  BY <1>1, <1>3 DEF Refund, Emit, TypeOK, Session, Kinds
<1>4. CASE Notify(s)
  BY <1>1, <1>4 DEF Notify, Emit, TypeOK
<1> QED BY <1>2, <1>3, <1>4 DEF Provider

LEMMA WebhookTypeOK ==
  ASSUME TypeOK, HandlerInv, EventInv, NEW d \in Deliveries, Webhook(d)
  PROVE  TypeOK'
<1> USE OrdersAssumption
<1>1. ASSUME NEW e \in Events, Deliver(d, e) PROVE TypeOK'
  BY <1>1 DEF Deliver, TypeOK
<1>2. hpc[d] # "idle" => event[d] \in Events /\ event[d][1] \in Requests
                         /\ event[d][2] \in Kinds \cup {"other"}
  BY DEF HandlerInv, TypeOK, Events
<1>3. CASE Verify(d)
  BY <1>2, <1>3 DEF Verify, Return, TypeOK
<1>4. CASE Record(d)
  BY <1>2, <1>4 DEF Record, Return, TypeOK
<1>5. CASE FindOrder(d)
  <2>1. CASE Ignores(event[d][1], event[d][2])
    BY <1>2, <1>5, <2>1 DEF FindOrder, Return, TypeOK
  <2>2. CASE ~Ignores(event[d][1], event[d][2])
    <3> DEFINE o == event[d][1]
               k == event[d][2]
    <3>1. orders[o] \in Order /\ k \in Kinds
      BY <1>2, <1>5, <2>2 DEF FindOrder, Ignores, Found, TypeOK
    <3>2. Drafted(o, k) \in Order
      BY <3>1 DEF Drafted, Order, Statuses
    <3>3. draft' = [draft EXCEPT ![d] = Drafted(o, k)]
      BY <1>5, <2>2 DEF FindOrder
    <3>4. hpc' = [hpc EXCEPT ![d] = "update"] /\ UNCHANGED <<event, acked>>
      BY <1>5, <2>2 DEF FindOrder
    <3> HIDE DEF o, k
    <3> QED BY <1>5, <3>2, <3>3, <3>4 DEF FindOrder, TypeOK
  <2> QED BY <2>1, <2>2
<1>6. ASSUME WriteDraft(d) PROVE /\ orders' \in [Requests -> Order \cup {None}]
                                 /\ applied' \in SUBSET Events
                                 /\ late' \in SUBSET Requests
  BY <1>2, <1>6 DEF WriteDraft, TypeOK
<1>7. CASE UpdateOrder(d)
  BY <1>2, <1>6, <1>7 DEF UpdateOrder, WriteDraft, Return, TypeOK
<1>8. CASE UpdateUnanswered(d)
  BY <1>6, <1>8 DEF UpdateUnanswered, Return, TypeOK
<1>9. CASE AbortWebhook(d)
  BY <1>9 DEF AbortWebhook, Return, TypeOK
<1> QED BY <1>1, <1>3, <1>4, <1>5, <1>7, <1>8, <1>9 DEF Webhook, HandlerStep

-----------------------------------------------------------------------------
(* Inv is inductive: one lemma per action, one step per conjunct.           *)

LEMMA InitInv == Init => Inv
<1> SUFFICES ASSUME Init PROVE Inv
  OBVIOUS
<1> Stored = {}
  BY DEF Init, Stored
<1> QED BY DEF Init, Inv, CheckoutInv, EventInv, HandlerInv, OrderMatchesProvider,
               PaidSessionHasOrder, KeyInv, NoSequentialDuplicate, Busy, WithKey

LEMMA ArriveInv ==
  ASSUME TypeOK, Inv, NEW r \in Requests, NEW a \in Apps, NEW k \in Keys \cup {None},
         NEW in \in Inputs, Arrive(r, a, k, in)
  PROVE  Inv'
<1> USE DEF Inv
<1>1. session[r] = None /\ r \notin Stored
  BY DEF Arrive, CheckoutInv
<1>2. Stored' = Stored
  BY DEF Arrive, Stored
<1>3. call'[r] # None
  BY OrdersAssumption DEF Arrive, TypeOK, Call
<1>4. CheckoutInv'
  BY <1>1, <1>2, <1>3 DEF Arrive, CheckoutInv, TypeOK, Busy
<1>5. EventInv' /\ HandlerInv' /\ OrderMatchesProvider' /\ PaidSessionHasOrder'
  BY <1>2 DEF Arrive, EventInv, HandlerInv, OrderMatchesProvider, PaidSessionHasOrder
<1>6. KeyInv'
  BY <1>2 DEF Arrive, KeyInv, TypeOK, Busy, WithKey, Call
<1>7. NoSequentialDuplicate'
  BY <1>1, <1>2 DEF Arrive, NoSequentialDuplicate, TypeOK
<1> QED BY <1>4, <1>5, <1>6, <1>7

LEMMA LookupKeyInv ==
  ASSUME TypeOK, Inv, NEW r \in Requests, LookupKey(r)
  PROVE  Inv'
<1> USE DEF Inv
<1>1. Stored' = Stored
  BY DEF LookupKey, Stored
<1>2. CheckoutInv'
  BY <1>1 DEF LookupKey, CheckoutInv, TypeOK, Busy, WithKey
<1>3. EventInv' /\ HandlerInv' /\ OrderMatchesProvider' /\ PaidSessionHasOrder'
      /\ NoSequentialDuplicate'
  BY <1>1 DEF LookupKey, EventInv, HandlerInv, OrderMatchesProvider,
              PaidSessionHasOrder, NoSequentialDuplicate
<1>4. KeyInv'
  BY <1>1 DEF LookupKey, KeyInv, TypeOK, Busy, WithKey
<1> QED BY <1>2, <1>3, <1>4

LEMMA LoadConfigInv ==
  ASSUME TypeOK, Inv, NEW r \in Requests, LoadConfig(r)
  PROVE  Inv'
<1> USE DEF Inv
<1>1. Stored' = Stored
  BY DEF LoadConfig, Stored
<1>2. pc'[r] \in Busy => plan'[r] # None /\ plan'[r].app = call[r].app
                         /\ plan'[r].key = call[r].key
  <2>1. call[r] \in Call /\ config[call[r].app] \in ValidConfig
    BY OrdersAssumption DEF LoadConfig, TypeOK, CheckoutInv, Call
  <2>2. CASE Sellable(config[call[r].app], call[r].in)
    <3>1. plan'[r] = OrderTerms(call[r], config[call[r].app])
      BY <2>2 DEF LoadConfig, TypeOK
    <3> QED BY <2>1, <2>2, <3>1, OrderTermsType DEF OrderTerms
  <2>3. CASE ~Sellable(config[call[r].app], call[r].in)
    BY <2>3 DEF LoadConfig, TypeOK, Busy
  <2> QED BY <2>2, <2>3
<1>3. CheckoutInv'
  BY <1>1, <1>2 DEF LoadConfig, CheckoutInv, TypeOK, Busy
<1>4. EventInv' /\ HandlerInv' /\ OrderMatchesProvider' /\ PaidSessionHasOrder'
      /\ NoSequentialDuplicate'
  BY <1>1 DEF LoadConfig, EventInv, HandlerInv, OrderMatchesProvider,
              PaidSessionHasOrder, NoSequentialDuplicate
<1>5. KeyInv'
  BY <1>1, <1>2 DEF LoadConfig, KeyInv, TypeOK, Busy, WithKey
<1> QED BY <1>3, <1>4, <1>5

LEMMA ResolveProductInv ==
  ASSUME TypeOK, Inv, NEW r \in Requests, ResolveProduct(r)
  PROVE  Inv'
<1> USE DEF Inv
<1>1. Stored' = Stored
  BY DEF ResolveProduct, Stored
<1>2. plan[r] \in Terms
  BY DEF ResolveProduct, TypeOK, CheckoutInv, Busy
<1>3. pc'[r] \in Busy => plan'[r] # None /\ plan'[r].app = plan[r].app
                         /\ plan'[r].key = plan[r].key
  <2>1. None \notin Terms
    BY OrdersAssumption
  <2>2. \A p \in Prices : /\ [plan[r] EXCEPT !.price = p] \in Terms
                          /\ [plan[r] EXCEPT !.price = p].app = plan[r].app
                          /\ [plan[r] EXCEPT !.price = p].key = plan[r].key
    BY <1>2 DEF Terms
  <2>3. pc'[r] \in Busy => \E p \in Prices : plan'[r] = [plan[r] EXCEPT !.price = p]
    BY DEF ResolveProduct, TypeOK, Busy
  <2> QED BY <2>1, <2>2, <2>3
<1>4. CheckoutInv'
  BY <1>1, <1>3 DEF ResolveProduct, CheckoutInv, TypeOK, Busy
<1>5. EventInv' /\ HandlerInv' /\ OrderMatchesProvider' /\ PaidSessionHasOrder'
      /\ NoSequentialDuplicate'
  BY <1>1 DEF ResolveProduct, EventInv, HandlerInv, OrderMatchesProvider,
              PaidSessionHasOrder, NoSequentialDuplicate
<1>6. KeyInv'
  BY <1>1, <1>3 DEF ResolveProduct, KeyInv, TypeOK, Busy, WithKey
<1> QED BY <1>4, <1>5, <1>6

LEMMA CreateSessionInv ==
  ASSUME TypeOK, Inv, NEW r \in Requests, CreateSession(r)
  PROVE  Inv'
<1> USE DEF Inv
<1>1. session[r] = None /\ r \notin Stored
  BY DEF CreateSession, CheckoutInv
<1>2. Stored' = Stored
  BY DEF CreateSession, Stored
<1>3. session'[r] # None
  <2>1. plan[r] \in Terms
    BY DEF CreateSession, TypeOK, CheckoutInv, Busy
  <2> QED BY <2>1, OrdersAssumption DEF CreateSession, TypeOK, Session, Terms
<1>4. CheckoutInv'
  BY <1>1, <1>2, <1>3 DEF CreateSession, CheckoutInv, TypeOK, Busy
<1>5. \A e \in emitted : e[1] # r
  BY <1>1 DEF EventInv
<1>6. EventInv'
  BY <1>5 DEF CreateSession, EventInv, TypeOK, Events
<1>7. HandlerInv'
  BY <1>2 DEF CreateSession, HandlerInv
<1>8. OrderMatchesProvider'
  BY <1>1, <1>2 DEF CreateSession, OrderMatchesProvider, TypeOK, Stored
<1>9. PaidSessionHasOrder'
  BY <1>2 DEF CreateSession, PaidSessionHasOrder, TypeOK
<1>10. KeyInv' /\ NoSequentialDuplicate'
  BY <1>2 DEF CreateSession, KeyInv, NoSequentialDuplicate, TypeOK, Busy, WithKey
<1> QED BY <1>4, <1>6, <1>7, <1>8, <1>9, <1>10

LEMMA SaveOrderInv ==
  ASSUME TypeOK, Inv, NEW r \in Requests, SaveOrder(r)
  PROVE  Inv'
<1> USE DEF Inv
<1> DEFINE o == [status |-> "pending", terms |-> plan[r], paidAt |-> FALSE]
<1>1. r \notin Stored /\ plan[r] \in Terms /\ pc[r] = "save"
  BY DEF SaveOrder, CheckoutInv, TypeOK, Busy
<1>2. o \in Order
  BY <1>1 DEF Order, Statuses
<1>3. orders' = [orders EXCEPT ![r] = o]
  BY DEF SaveOrder
<1>4. Stored' = Stored \cup {r}
  <2> HIDE DEF o
  <2>1. o # None
    BY <1>2, OrdersAssumption
  <2> QED BY <1>3, <2>1 DEF Stored, TypeOK
<1>5. orders'[r].terms = plan[r] /\ orders'[r].status = "pending"
  BY <1>3 DEF TypeOK
<1>6. \A x \in Stored : orders'[x] = orders[x]
  BY <1>1, <1>3 DEF TypeOK, Stored
<1> HIDE DEF o
<1>7. CheckoutInv'
  BY <1>4 DEF SaveOrder, CheckoutInv, TypeOK, Busy
<1>8. EventInv'
  BY DEF SaveOrder, EventInv
<1>9. HandlerInv'
  BY <1>4, <1>6 DEF SaveOrder, HandlerInv
<1>10. OrderMatchesProvider'
  <2>1. UNCHANGED <<session, applied, late>>
    BY DEF SaveOrder
  <2>2. /\ session[r] # None /\ session[r].app = plan[r].app
        /\ session[r].provider = plan[r].provider /\ session[r].mode = plan[r].mode
    BY <1>1 DEF CheckoutInv
  <2>3. orders'[r].status \notin {"paid", "refunded"}
    BY <1>5
  <2>4. \A x \in Stored : x \in Stored' /\ orders'[x] = orders[x]
    BY <1>4, <1>6
  <2>5. OrderMatchesProvider
    OBVIOUS
  <2> DEFINE Matches(x) ==
        /\ session[x] # None
        /\ session[x].app = orders'[x].terms.app
        /\ session[x].provider = orders'[x].terms.provider
        /\ session[x].mode = orders'[x].terms.mode
        /\ orders'[x].status = "paid" =>
              /\ session[x].state \in {"completed", "refunded"}
              /\ orders'[x].paidAt
              /\ <<x, "refunded">> \in applied => x \in late
        /\ orders'[x].status = "refunded" => session[x].state = "refunded"
  <2> HIDE DEF Inv
  <2>6. Matches(r)
    BY <1>5, <2>2, <2>3
  <2>7. ASSUME NEW x \in Stored PROVE Matches(x)
    BY <2>4, <2>5 DEF OrderMatchesProvider
  <2>8. \A x \in Stored' : Matches(x)
    BY <1>4, <2>6, <2>7
  <2> QED BY <2>1, <2>8 DEF OrderMatchesProvider
<1>11. PaidSessionHasOrder'
  BY <1>4 DEF SaveOrder, PaidSessionHasOrder
<1>12. KeyInv'
  BY <1>1, <1>4, <1>6 DEF SaveOrder, KeyInv, TypeOK, Busy, WithKey
<1>13. NoSequentialDuplicate'
  <2>1. before' = before /\ call' = call
    BY DEF SaveOrder
  <2>2. \A x \in Requests : r \notin before[x]
    BY <1>1 DEF KeyInv
  <2>3. plan[r].app = call[r].app /\ plan[r].key = call[r].key
    BY <1>1 DEF KeyInv, Busy
  <2>4. plan[r].key # None => before[r] \cap WithKey(plan[r].app, plan[r].key) = {}
    BY <1>1, <2>3 DEF KeyInv, Busy
  <2>5. Stored \subseteq Requests
    BY DEF Stored
  <2>6. SUFFICES ASSUME NEW o1 \in Stored', NEW o2 \in Stored',
                        orders'[o1].terms.app = orders'[o2].terms.app,
                        orders'[o1].terms.key = orders'[o2].terms.key,
                        orders'[o1].terms.key # None,
                        o1 \in before[o2]
                 PROVE  o1 = o2
    BY <2>1 DEF NoSequentialDuplicate
  <2>7. o1 \in Stored
    BY <1>4, <2>2, <2>5, <2>6
  <2>8. CASE o2 = r
    BY <1>5, <1>6, <2>4, <2>6, <2>7, <2>8 DEF WithKey
  <2>9. CASE o2 # r
    BY <1>4, <1>6, <2>6, <2>7, <2>9 DEF NoSequentialDuplicate
  <2> QED BY <2>8, <2>9
<1> QED BY <1>7, <1>8, <1>9, <1>10, <1>11, <1>12, <1>13

LEMMA AbortCheckoutInv ==
  ASSUME TypeOK, Inv, NEW r \in Requests, AbortCheckout(r)
  PROVE  Inv'
<1> USE DEF Inv
<1>1. Stored' = Stored
  BY DEF AbortCheckout, Stored
<1>2. CheckoutInv'
  BY <1>1 DEF AbortCheckout, CheckoutInv, TypeOK, Busy
<1>3. EventInv' /\ HandlerInv' /\ OrderMatchesProvider' /\ PaidSessionHasOrder'
      /\ NoSequentialDuplicate'
  BY <1>1 DEF AbortCheckout, EventInv, HandlerInv, OrderMatchesProvider,
              PaidSessionHasOrder, NoSequentialDuplicate
<1>4. KeyInv'
  BY <1>1 DEF AbortCheckout, KeyInv, TypeOK, Busy, WithKey
<1> QED BY <1>2, <1>3, <1>4

LEMMA ProviderInv ==
  ASSUME TypeOK, Inv, NEW s \in Requests, Provider(s)
  PROVE  Inv'
<1> USE DEF Inv
<1>1. Stored' = Stored /\ UNCHANGED <<orders, recorded, pc, call, plan, reply, before,
                                      hpc, event, draft, applied, late>>
  BY DEF Provider, Pay, Refund, Notify, Emit, Stored
<1>2. session[s] # None /\ session[s] \in Session
  BY DEF Provider, Pay, Refund, Notify, TypeOK
<1>3. ASSUME Pay(s)
      PROVE  session[s].state = "open" /\ s \in Stored
             /\ session' = [session EXCEPT ![s].state = "completed"]
             /\ emitted' = emitted \cup {<<s, "paid">>}
  BY <1>3, OrdersAssumption DEF Pay, Emit, CheckoutInv
<1>4. ASSUME Refund(s)
      PROVE  session[s].state = "completed"
             /\ session' = [session EXCEPT ![s].state = "refunded"]
             /\ emitted' = emitted \cup {<<s, "refunded">>}
  BY <1>4 DEF Refund, Emit
<1>5. ASSUME Notify(s)
      PROVE  session' = session /\ emitted' = emitted \cup {<<s, "other">>}
  BY <1>5 DEF Notify, Emit
<1>6. \A x \in Requests : x # s => session'[x] = session[x]
  BY <1>3, <1>4, <1>5 DEF Provider, TypeOK
<1>7. /\ session'[s] \in Session /\ session'[s] # None
      /\ session'[s].app = session[s].app
      /\ session'[s].provider = session[s].provider
      /\ session'[s].mode = session[s].mode
  <2>1. session'[s] \in Session
        /\ session'[s].app = session[s].app
        /\ session'[s].provider = session[s].provider
        /\ session'[s].mode = session[s].mode
    BY <1>2, <1>3, <1>4, <1>5 DEF Provider, TypeOK, Session
  <2> QED BY <2>1, OrdersAssumption
<1>8. CheckoutInv'
  BY <1>1, <1>2, <1>6, <1>7 DEF CheckoutInv, TypeOK, Busy
<1>9. \/ emitted' = emitted \cup {<<s, "paid">>} /\ session[s].state = "open"
         /\ session'[s].state = "completed" /\ s \in Stored
      \/ emitted' = emitted \cup {<<s, "refunded">>} /\ session[s].state = "completed"
         /\ session'[s].state = "refunded"
      \/ emitted' = emitted \cup {<<s, "other">>} /\ session'[s].state = session[s].state
  BY <1>2, <1>3, <1>4, <1>5 DEF Provider, TypeOK, Session
<1>10. EventInv'
  BY <1>1, <1>2, <1>6, <1>7, <1>9 DEF EventInv, TypeOK, Events
<1>11. HandlerInv'
  BY <1>1, <1>9 DEF HandlerInv
<1>12. OrderMatchesProvider'
  <2>1. Stored \subseteq Requests
    BY DEF Stored
  <2>2. \/ session'[s].state = session[s].state
        \/ session[s].state = "open" /\ session'[s].state = "completed"
        \/ session[s].state = "completed" /\ session'[s].state = "refunded"
    BY <1>9
  <2>3. /\ Stored' = Stored /\ orders' = orders /\ applied' = applied /\ late' = late
    BY <1>1
  <2>4. \A x \in Requests :
           /\ session[x] # None => session'[x] # None
           /\ session'[x].app = session[x].app
           /\ session'[x].provider = session[x].provider
           /\ session'[x].mode = session[x].mode
           /\ session[x].state \in {"completed", "refunded"}
                 => session'[x].state \in {"completed", "refunded"}
           /\ session[x].state = "refunded" => session'[x].state = "refunded"
    BY <1>6, <1>7, <2>2
  <2>5. OrderMatchesProvider
    OBVIOUS
  <2> HIDE DEF Inv
  <2> QED BY <2>1, <2>3, <2>4, <2>5 DEF OrderMatchesProvider
<1>13. PaidSessionHasOrder'
  BY <1>1, <1>2, <1>6, <1>7, <1>9 DEF PaidSessionHasOrder
<1>14. KeyInv' /\ NoSequentialDuplicate'
  BY <1>1 DEF KeyInv, NoSequentialDuplicate, Busy, WithKey
<1> QED BY <1>8, <1>10, <1>11, <1>12, <1>13, <1>14

\* What a handler step other than the write leaves to be shown.
LEMMA HandlerFrame ==
  ASSUME TypeOK, Inv, HandlerInv', EventInv',
         UNCHANGED <<orders, pc, call, plan, reply, before, session, applied, late>>
  PROVE  Inv'
<1>1. Stored' = Stored
  BY DEF Stored
<1> QED BY <1>1 DEF Inv, CheckoutInv, OrderMatchesProvider, PaidSessionHasOrder,
                    KeyInv, NoSequentialDuplicate, Busy, WithKey

LEMMA EventType ==
  ASSUME TypeOK, Inv, NEW d \in Deliveries, hpc[d] # "idle"
  PROVE  /\ event[d] \in emitted
         /\ event[d] \in Events
         /\ event[d][1] \in Requests
         /\ event[d][2] \in Kinds \cup {"other"}
         /\ event[d] = <<event[d][1], event[d][2]>>
BY DEF Inv, HandlerInv, TypeOK, Events

LEMMA DeliverInv ==
  ASSUME TypeOK, Inv, NEW d \in Deliveries, NEW e \in Events, Deliver(d, e)
  PROVE  Inv'
<1>1. HandlerInv'
  BY DEF Deliver, Inv, HandlerInv, TypeOK, Stored
<1>2. EventInv'
  BY DEF Deliver, Inv, EventInv
<1> QED BY <1>1, <1>2, HandlerFrame DEF Deliver

LEMMA VerifyInv ==
  ASSUME TypeOK, Inv, NEW d \in Deliveries, Verify(d)
  PROVE  Inv'
<1>1. HandlerInv'
  BY DEF Verify, Return, Inv, HandlerInv, TypeOK, Stored
<1>2. EventInv'
  BY DEF Verify, Inv, EventInv
<1> QED BY <1>1, <1>2, HandlerFrame DEF Verify

LEMMA RecordInv ==
  ASSUME TypeOK, Inv, NEW d \in Deliveries, Record(d)
  PROVE  Inv'
<1>1. HandlerInv'
  BY DEF Record, Return, Inv, HandlerInv, EventInv, TypeOK, Stored
<1>2. EventInv'
  BY EventType DEF Record, Inv, EventInv
<1> QED BY <1>1, <1>2, HandlerFrame DEF Record

LEMMA FindOrderInv ==
  ASSUME TypeOK, Inv, NEW d \in Deliveries, FindOrder(d)
  PROVE  Inv'
<1> DEFINE o == event[d][1]
           k == event[d][2]
<1>1. EventInv'
  BY DEF FindOrder, Inv, EventInv
<1>2. UNCHANGED <<orders, pc, call, plan, reply, before, session, applied, late>>
  BY DEF FindOrder
<1>3. CASE Ignores(o, k)
  <2>1. HandlerInv'
    BY <1>3 DEF FindOrder, Return, Inv, HandlerInv, TypeOK, Stored
  <2> QED BY <1>1, <1>2, <2>1, HandlerFrame
<1>4. CASE ~Ignores(o, k)
  <2>1. hpc[d] = "find" /\ o \in Requests
    BY EventType DEF FindOrder
  <2>2. o \in Stored /\ k \in Kinds /\ orders[o] \in Order
    BY <1>4, <2>1, EventType DEF Ignores, Found, Stored, TypeOK
  <2>3. /\ Drafted(o, k) \in Order
        /\ Drafted(o, k).terms = orders[o].terms
        /\ Drafted(o, k).status = k
        /\ Drafted(o, k).status = "paid" => Drafted(o, k).paidAt
    BY <2>2 DEF Drafted, Order, Statuses
  <2>4. Drafted(o, k) # None
    BY <2>3, OrdersAssumption
  <2>5. /\ draft' = [draft EXCEPT ![d] = Drafted(o, k)]
        /\ hpc' = [hpc EXCEPT ![d] = "update"]
        /\ UNCHANGED <<event, orders, recorded, applied, emitted>>
    BY <1>4 DEF FindOrder
  <2>6. Stored' = Stored
    BY <1>2 DEF Stored
  <2>7. HandlerInv'
    <3> HIDE DEF o, k
    <3>1. /\ draft'[d] = Drafted(o, k) /\ hpc'[d] = "update"
          /\ \A x \in Deliveries : x # d => draft'[x] = draft[x] /\ hpc'[x] = hpc[x]
      BY <2>5 DEF TypeOK
    <3>2. event[d] \in recorded \ applied
      BY <2>1 DEF Inv, HandlerInv
    <3> QED BY <2>1, <2>2, <2>3, <2>4, <2>5, <2>6, <3>1, <3>2 DEF Inv, HandlerInv, o, k
  <2> QED BY <1>1, <1>2, <2>7, HandlerFrame
<1> QED BY <1>3, <1>4

\* The write and the return, whether or not the provider sees the answer.
LEMMA WriteInv ==
  ASSUME TypeOK, Inv, NEW d \in Deliveries, WriteDraft(d),
         hpc' = [hpc EXCEPT ![d] = "idle"],
         event' = [event EXCEPT ![d] = None],
         draft' = [draft EXCEPT ![d] = None],
         UNCHANGED <<pc, call, plan, reply, before, session, recorded, emitted>>
  PROVE  Inv'
<1> DEFINE o == event[d][1]
<1>1. /\ o \in Stored /\ o \in Requests /\ event[d] \in recorded \ applied
      /\ event[d][2] \in Kinds /\ event[d] \in emitted
      /\ draft[d] # None /\ draft[d] \in Order
      /\ draft[d].terms = orders[o].terms
      /\ draft[d].status = event[d][2]
      /\ draft[d].status = "paid" => draft[d].paidAt
  BY EventType DEF WriteDraft, Inv, HandlerInv, TypeOK
<1>2. orders' = [orders EXCEPT ![o] = draft[d]] /\ applied' = applied \cup {event[d]}
  BY DEF WriteDraft
<1>3. Stored' = Stored
  BY <1>1, <1>2 DEF Stored, TypeOK
<1>4. /\ orders'[o] = draft[d]
      /\ \A x \in Requests : x # o => orders'[x] = orders[x]
      /\ \A x \in Requests : orders'[x].terms = orders[x].terms
  BY <1>1, <1>2 DEF TypeOK
<1> HIDE DEF o
<1>5. CheckoutInv'
  BY <1>3 DEF Inv, CheckoutInv, Busy
<1>6. EventInv'
  BY <1>1, <1>2 DEF Inv, EventInv
<1>7. HandlerInv'
  <2>1. \A x \in Deliveries : x # d => event'[x] = event[x] /\ draft'[x] = draft[x]
                                       /\ hpc'[x] = hpc[x]
    BY DEF TypeOK
  <2>2. hpc'[d] = "idle" /\ hpc[d] = "update"
    BY DEF TypeOK, WriteDraft
  <2>3. \A x \in Deliveries : x # d /\ hpc[x] \in {"find", "update"} => event[x] # event[d]
    BY <2>2 DEF Inv, HandlerInv
  <2>4. Stored \subseteq Requests
    BY DEF Stored
  <2> QED BY <1>2, <1>3, <1>4, <2>1, <2>2, <2>3, <2>4 DEF Inv, HandlerInv
<1>8. OrderMatchesProvider'
  <2>1. draft[d].status = "paid" => session[o].state # "open"
    BY <1>1 DEF Inv, EventInv, o
  <2>2. draft[d].status = "refunded" => session[o].state = "refunded"
    BY <1>1 DEF Inv, EventInv, o
  <2>3. session[o] # None => session[o] \in Session
    BY <1>1 DEF TypeOK
  <2>4. Stored \subseteq Requests
    BY DEF Stored
  <2>5. draft[d].status = "paid" /\ <<o, "refunded">> \in applied' => o \in late'
    <3> SUFFICES ASSUME draft[d].status = "paid", <<o, "refunded">> \in applied'
                 PROVE  o \in late'
      OBVIOUS
    <3>1. event[d] = <<o, "paid">> /\ event[d] \notin applied
      BY <1>1, EventType DEF WriteDraft, o
    <3>2. <<o, "refunded">> \in applied
      BY <1>2, <3>1
    <3> QED BY <1>1, <3>1, <3>2 DEF WriteDraft
  <2>6. draft[d].status = "refunded" \/ draft[d].status = "paid"
    BY <1>1 DEF Kinds
  <2>7. late \subseteq late' /\ \A x \in Requests \ {o} : <<x, "refunded">> \in applied'
                                                         => <<x, "refunded">> \in applied
    BY <1>1, <1>2, EventType DEF WriteDraft, o
  <2> SUFFICES ASSUME NEW x \in Stored'
               PROVE  /\ session[x] # None
                      /\ session[x].app = orders'[x].terms.app
                      /\ session[x].provider = orders'[x].terms.provider
                      /\ session[x].mode = orders'[x].terms.mode
                      /\ orders'[x].status = "paid" =>
                            /\ session[x].state \in {"completed", "refunded"}
                            /\ orders'[x].paidAt
                            /\ <<x, "refunded">> \in applied' => x \in late'
                      /\ orders'[x].status = "refunded" => session[x].state = "refunded"
    BY DEF OrderMatchesProvider
  <2>8. CASE x = o
    BY <1>1, <1>3, <1>4, <2>1, <2>2, <2>3, <2>5, <2>8 DEF Inv, OrderMatchesProvider, Session
  <2>9. CASE x # o
    BY <1>3, <1>4, <2>4, <2>7, <2>9 DEF Inv, OrderMatchesProvider
  <2> QED BY <2>8, <2>9
<1>9. PaidSessionHasOrder'
  BY <1>3 DEF Inv, PaidSessionHasOrder
<1>10. \A a, k : WithKey(a, k)' = WithKey(a, k)
  BY <1>3, <1>4 DEF WithKey, Stored
<1>11. KeyInv'
  BY <1>3, <1>10 DEF Inv, KeyInv, Busy
<1>12. NoSequentialDuplicate'
  BY <1>3, <1>4 DEF Inv, NoSequentialDuplicate, Stored
<1> QED BY <1>5, <1>6, <1>7, <1>8, <1>9, <1>11, <1>12 DEF Inv

LEMMA AbortWebhookInv ==
  ASSUME TypeOK, Inv, NEW d \in Deliveries, AbortWebhook(d)
  PROVE  Inv'
<1>1. HandlerInv'
  BY DEF AbortWebhook, Return, Inv, HandlerInv, TypeOK, Stored
<1>2. EventInv'
  BY DEF AbortWebhook, Inv, EventInv
<1> QED BY <1>1, <1>2, HandlerFrame DEF AbortWebhook

LEMMA NextInv ==
  ASSUME TypeOK, Inv, [Next]_vars
  PROVE  TypeOK' /\ Inv'
<1>1. ASSUME NEW a \in Apps, NEW c \in Configs, PutConfig(a, c) PROVE TypeOK' /\ Inv'
  <2>1. TypeOK'
    BY <1>1, OrdersAssumption DEF PutConfig, TypeOK
  <2>2. HandlerInv' /\ EventInv'
    BY <1>1 DEF PutConfig, Inv, HandlerInv, EventInv, Stored
  <2> QED BY <1>1, <2>1, <2>2, HandlerFrame DEF PutConfig
<1>2. ASSUME NEW r \in Requests, Checkout(r) PROVE TypeOK' /\ Inv'
  <2>1. TypeOK'
    BY <1>2, CheckoutTypeOK DEF Inv
  <2>2. Inv'
    BY <1>2, ArriveInv, LookupKeyInv, LoadConfigInv, ResolveProductInv,
       CreateSessionInv, SaveOrderInv, AbortCheckoutInv DEF Checkout
  <2> QED BY <2>1, <2>2
<1>3. ASSUME NEW s \in Requests, Provider(s) PROVE TypeOK' /\ Inv'
  BY <1>3, ProviderTypeOK, ProviderInv
<1>4. ASSUME NEW d \in Deliveries, Webhook(d) PROVE TypeOK' /\ Inv'
  <2>1. TypeOK'
    BY <1>4, WebhookTypeOK DEF Inv
  <2>2. CASE UpdateOrder(d)
    BY <2>1, <2>2, WriteInv DEF UpdateOrder, Return
  <2>3. CASE UpdateUnanswered(d)
    BY <2>1, <2>3, WriteInv DEF UpdateUnanswered, Return
  <2> QED BY <1>4, <2>1, <2>2, <2>3, DeliverInv, VerifyInv, RecordInv, FindOrderInv,
             AbortWebhookInv DEF Webhook, HandlerStep
<1>5. CASE UNCHANGED vars
  <2>1. TypeOK'
    BY <1>5 DEF vars, TypeOK
  <2>2. HandlerInv' /\ EventInv'
    BY <1>5 DEF vars, Inv, HandlerInv, EventInv, Stored
  <2> QED BY <1>5, <2>1, <2>2, HandlerFrame DEF vars
<1> QED BY <1>1, <1>2, <1>3, <1>4, <1>5 DEF Next

\* TypeOK and Inv hold in every reachable state.
THEOREM Invariance == Spec => [](TypeOK /\ Inv)
<1>1. Init => TypeOK /\ Inv
  BY InitTypeOK, InitInv
<1>2. TypeOK /\ Inv /\ [Next]_vars => (TypeOK /\ Inv)'
  BY NextInv
<1> QED BY <1>1, <1>2, PTL DEF Spec

\* Every state is of its type.
THEOREM TypeCorrectness == Spec => []TypeOK
BY Invariance, PTL

\* Orders agree with the provider's sessions, whatever is reconfigured,
\* redelivered or lost on the way.
THEOREM OrdersMatchProvider == Spec => []OrderMatchesProvider
BY Invariance, PTL DEF Inv

\* No customer pays for a session that has no order.
THEOREM PaidSessionsHaveOrders == Spec => []PaidSessionHasOrder
BY Invariance, PTL DEF Inv

\* Retries that come after the order is stored make no second order.
THEOREM RetriesMakeNoOrder == Spec => []NoSequentialDuplicate
BY Invariance, PTL DEF Inv

-----------------------------------------------------------------------------
(* BillingOrders implements OrderLedger.                                    *)

\* A step that changes neither an order nor `applied` is a stutter.
LEMMA LedgerStutter ==
  ASSUME UNCHANGED <<orders, applied>>
  PROVE  UNCHANGED Ledger!ledgerVars
BY DEF Ledger!ledgerVars, LedgerView

LEMMA SaveOpens ==
  ASSUME TypeOK, Inv, NEW r \in Requests, SaveOrder(r)
  PROVE  Ledger!Open(r, plan[r]) /\ plan[r] \in Terms
<1>1. plan[r] \in Terms /\ r \notin Stored
  BY DEF SaveOrder, Inv, CheckoutInv, TypeOK, Busy
<1> DEFINE o == [status |-> "pending", terms |-> plan[r], paidAt |-> FALSE]
<1>2. o \in Order
  BY <1>1 DEF Order, Statuses
<1>3. o.terms = plan[r] /\ o.status = "pending"
  OBVIOUS
<1>4. orders' = [orders EXCEPT ![r] = o] /\ applied' = applied
  BY DEF SaveOrder
<1> HIDE DEF o
<1>5. o # None
  BY <1>2, OrdersAssumption
<1>6. LedgerView[r] = None
  BY <1>1 DEF LedgerView, Stored
<1>7. LedgerView' = [LedgerView EXCEPT ![r] = [status |-> "pending", terms |-> plan[r]]]
  BY <1>3, <1>4, <1>5 DEF LedgerView, TypeOK
<1> QED BY <1>1, <1>4, <1>6, <1>7 DEF Ledger!Open

LEMMA WriteCredits ==
  ASSUME TypeOK, Inv, NEW d \in Deliveries, WriteDraft(d)
  PROVE  Ledger!Credit(event[d][1], event[d][2]) /\ event[d][1] \in Requests
         /\ event[d][2] \in Kinds
<1> DEFINE o == event[d][1]
           k == event[d][2]
<1>1. /\ o \in Requests /\ k \in Kinds /\ orders[o] # None /\ orders[o] \in Order
      /\ event[d] = <<o, k>> /\ event[d] \notin applied
      /\ draft[d] # None /\ draft[d] \in Order
      /\ draft[d].terms = orders[o].terms /\ draft[d].status = k
  BY EventType DEF WriteDraft, Inv, HandlerInv, TypeOK, Stored
<1>2. orders' = [orders EXCEPT ![o] = draft[d]] /\ applied' = applied \cup {<<o, k>>}
  BY <1>1 DEF WriteDraft
<1> HIDE DEF o, k
<1>3. LedgerView[o] = [status |-> orders[o].status, terms |-> orders[o].terms]
  BY <1>1 DEF LedgerView
<1>4. LedgerView[o] # None
  <2>1. LedgerView[o] \in [status : Statuses, terms : Terms]
    BY <1>1, <1>3 DEF Order
  <2> QED BY <2>1, OrdersAssumption
<1>5. LedgerView' = [LedgerView EXCEPT ![o] = [status |-> k, terms |-> orders[o].terms]]
  BY <1>1, <1>2 DEF LedgerView, TypeOK
<1>6. LedgerView' = [LedgerView EXCEPT ![o].status = k]
  <2>1. [LedgerView[o] EXCEPT !.status = k] = [status |-> k, terms |-> orders[o].terms]
    BY <1>3
  <2>2. [LedgerView EXCEPT ![o].status = k]
          = [LedgerView EXCEPT ![o] = [LedgerView[o] EXCEPT !.status = k]]
    BY <1>1 DEF LedgerView
  <2> QED BY <1>5, <2>1, <2>2
<1> QED BY <1>1, <1>2, <1>4, <1>6 DEF Ledger!Credit, o, k

\* Only two actions change orders.
LEMMA OrdersChange ==
  ASSUME [Next]_vars
  PROVE  \/ \E r \in Requests : SaveOrder(r)
         \/ \E d \in Deliveries : WriteDraft(d)
         \/ UNCHANGED <<orders, applied>>
<1>1. ASSUME NEW a \in Apps, NEW c \in Configs, PutConfig(a, c)
      PROVE  UNCHANGED <<orders, applied>>
  BY <1>1 DEF PutConfig
<1>2. ASSUME NEW r \in Requests, Checkout(r), ~SaveOrder(r)
      PROVE  UNCHANGED <<orders, applied>>
  BY <1>2 DEF Checkout, Arrive, LookupKey, LoadConfig, ResolveProduct, CreateSession,
              AbortCheckout
<1>3. ASSUME NEW s \in Requests, Provider(s)
      PROVE  UNCHANGED <<orders, applied>>
  BY <1>3 DEF Provider, Pay, Refund, Notify, Emit
<1>4. ASSUME NEW d \in Deliveries, Webhook(d), ~WriteDraft(d)
      PROVE  UNCHANGED <<orders, applied>>
  BY <1>4 DEF Webhook, HandlerStep, Deliver, Verify, Record, FindOrder, UpdateOrder,
              UpdateUnanswered, AbortWebhook
<1>5. UNCHANGED vars => UNCHANGED <<orders, applied>>
  BY DEF vars
<1> QED BY <1>1, <1>2, <1>3, <1>4, <1>5 DEF Next

LEMMA StepImplements ==
  ASSUME TypeOK, Inv, [Next]_vars
  PROVE  [Ledger!LedgerNext]_(Ledger!ledgerVars)
<1>1. ASSUME NEW r \in Requests, SaveOrder(r) PROVE Ledger!LedgerNext
  BY <1>1, SaveOpens DEF Ledger!LedgerNext
<1>2. ASSUME NEW d \in Deliveries, WriteDraft(d) PROVE Ledger!LedgerNext
  BY <1>2, WriteCredits DEF Ledger!LedgerNext
<1> QED BY <1>1, <1>2, OrdersChange, LedgerStutter

\* The service implements the ledger: an order is opened once and keeps its
\* terms, and an event changes its own order at most once.
THEOREM Refinement == Spec => ImplementsLedger
<1>1. Init => Ledger!LedgerInit
  BY DEF Init, Ledger!LedgerInit, LedgerView
<1>2. TypeOK /\ Inv /\ [Next]_vars => [Ledger!LedgerNext]_(Ledger!ledgerVars)
  BY StepImplements
<1> QED BY <1>1, <1>2, Invariance, PTL DEF Spec, ImplementsLedger, Ledger!LedgerSpec

-----------------------------------------------------------------------------
(* Answers                                                                  *)

\* Orders are never removed and keep their terms; a step of a handler or of the
\* environment changes nothing of a checkout.
LEMMA TermsStay ==
  ASSUME TypeOK, Inv, [Next]_vars
  PROVE  \A o \in Stored : o \in Stored' /\ orders'[o].terms = orders[o].terms
<1>1. ASSUME NEW r \in Requests, SaveOrder(r), NEW o \in Stored
      PROVE  o \in Stored' /\ orders'[o].terms = orders[o].terms
  <2>1. o \in Requests /\ o # r
    BY <1>1 DEF SaveOrder, Inv, CheckoutInv, Stored
  <2>2. orders'[o] = orders[o]
    BY <1>1, <2>1 DEF SaveOrder, TypeOK
  <2> QED BY <2>1, <2>2 DEF Stored
<1>2. ASSUME NEW d \in Deliveries, WriteDraft(d), NEW o \in Stored
      PROVE  o \in Stored' /\ orders'[o].terms = orders[o].terms
  <2>1. /\ draft[d] # None /\ draft[d].terms = orders[event[d][1]].terms
        /\ event[d][1] \in Requests /\ o \in Requests
    BY <1>2, EventType DEF WriteDraft, Inv, HandlerInv, Stored
  <2>2. orders'[o] = IF o = event[d][1] THEN draft[d] ELSE orders[o]
    BY <1>2, <2>1 DEF WriteDraft, TypeOK
  <2> QED BY <2>1, <2>2 DEF Stored
<1>3. ASSUME UNCHANGED <<orders, applied>>, NEW o \in Stored
      PROVE  o \in Stored' /\ orders'[o].terms = orders[o].terms
  BY <1>3 DEF Stored
<1> QED BY <1>1, <1>2, <1>3, OrdersChange

\* What a step leaves of the answers that were given before.
LEMMA AnswersStay ==
  ASSUME TypeOK, Inv, AnswerInv, [Next]_vars, NEW x \in Requests,
         reply[x] # None, reply'[x] = reply[x], call'[x] = call[x]
  PROVE  reply'[x] \in Stored' /\ Answers(orders'[reply'[x]].terms, call'[x])
<1>1. reply[x] \in Stored /\ Answers(orders[reply[x]].terms, call[x])
  BY DEF AnswerInv, ReplyAnswersCall
<1>2. reply[x] \in Stored' /\ orders'[reply[x]].terms = orders[reply[x]].terms
  BY <1>1, TermsStay
<1> QED BY <1>1, <1>2

LEMMA CheckoutAnswers ==
  ASSUME TypeOK, Inv, AnswerInv, NEW r \in Requests, Checkout(r)
  PROVE  /\ \A x \in Requests \ {r} : /\ pc'[x] = pc[x] /\ call'[x] = call[x]
                                      /\ plan'[x] = plan[x] /\ reply'[x] = reply[x]
         /\ reply'[r] # None =>
               /\ pc'[r] = "replied"
               /\ reply'[r] \in Stored' /\ Answers(orders'[reply'[r]].terms, call'[r])
         /\ pc'[r] \in Busy => Answers(plan'[r], call'[r])
         /\ pc'[r] = "product" => call'[r].in.product # None
<1>1. pc[r] # "replied" /\ reply[r] = None
  BY DEF Checkout, Arrive, LookupKey, LoadConfig, ResolveProduct, CreateSession, SaveOrder,
         AbortCheckout, AnswerInv
<1>2. ASSUME NEW a \in Apps, NEW k \in Keys \cup {None}, NEW in \in Inputs, Arrive(r, a, k, in)
      PROVE  /\ \A x \in Requests \ {r} : /\ pc'[x] = pc[x] /\ call'[x] = call[x]
                                          /\ plan'[x] = plan[x] /\ reply'[x] = reply[x]
             /\ reply'[r] = None /\ pc'[r] \notin Busy
  BY <1>1, <1>2 DEF Arrive, TypeOK, Busy
<1>3. CASE LookupKey(r)
  <2>1. /\ \A x \in Requests \ {r} : pc'[x] = pc[x] /\ reply'[x] = reply[x]
        /\ pc'[r] \notin Busy /\ UNCHANGED <<orders, call, plan>>
    BY <1>3 DEF LookupKey, TypeOK, Busy
  <2>2. CASE reply'[r] # None
    <3>1. PICK o \in WithKey(call[r].app, call[r].key) :
             ParamsMatch(orders[o].terms, call[r].in) /\ pc'[r] = "replied" /\ reply'[r] = o
      BY <1>1, <1>3, <2>2 DEF LookupKey, TypeOK, WithKey, Stored
    <3>2. o \in Stored' /\ Answers(orders[o].terms, call[r])
      BY <2>1, <3>1 DEF WithKey, ParamsMatch, Answers, Stored
    <3> QED BY <2>1, <3>1, <3>2 DEF Busy
  <2> QED BY <2>1, <2>2 DEF Busy
<1>4. CASE LoadConfig(r)
  <2>1. call[r] \in Call
    BY <1>4 DEF LoadConfig, Inv, CheckoutInv, TypeOK
  <2>2. Answers(OrderTerms(call[r], config[call[r].app]), call[r])
    BY DEF Answers, OrderTerms, ProviderFor
  <2> QED BY <1>1, <1>4, <2>2 DEF LoadConfig, TypeOK, Busy
<1>5. CASE ResolveProduct(r)
  <2>1. Answers(plan[r], call[r]) /\ call[r].in.product # None /\ plan[r] \in Terms
    BY <1>5 DEF ResolveProduct, AnswerInv, Busy, Inv, CheckoutInv, TypeOK
  <2>2. \A p \in Prices : Answers([plan[r] EXCEPT !.price = p], call[r])
    BY <2>1 DEF Answers, Terms
  <2>3. \A x \in Requests \ {r} : pc'[x] = pc[x] /\ plan'[x] = plan[x]
    BY <1>5 DEF ResolveProduct, TypeOK
  <2>4. pc'[r] \in Busy => Answers(plan'[r], call[r])
    BY <1>5, <2>2 DEF ResolveProduct, TypeOK, Busy
  <2> QED BY <1>1, <1>5, <2>3, <2>4 DEF ResolveProduct, TypeOK
<1>6. CASE CreateSession(r)
  BY <1>1, <1>6 DEF CreateSession, AnswerInv, TypeOK, Busy
<1>7. CASE SaveOrder(r)
  <2>1. Answers(plan[r], call[r]) /\ plan[r] \in Terms
    BY <1>7 DEF SaveOrder, AnswerInv, Busy, Inv, CheckoutInv, TypeOK
  <2>2. r \in Stored' /\ orders'[r].terms = plan[r]
    <3> DEFINE o == [status |-> "pending", terms |-> plan[r], paidAt |-> FALSE]
    <3>1. o \in Order /\ o.terms = plan[r]
      BY <2>1 DEF Order, Statuses
    <3>2. orders' = [orders EXCEPT ![r] = o]
      BY <1>7 DEF SaveOrder
    <3> HIDE DEF o
    <3> QED BY <3>1, <3>2, OrdersAssumption DEF Stored, TypeOK
  <2> QED BY <1>1, <1>7, <2>1, <2>2 DEF SaveOrder, TypeOK, Busy
<1>8. CASE AbortCheckout(r)
  BY <1>1, <1>8 DEF AbortCheckout, TypeOK, Busy
<1> QED BY <1>2, <1>3, <1>4, <1>5, <1>6, <1>7, <1>8 DEF Checkout, Busy

LEMMA NextAnswerInv ==
  ASSUME TypeOK, Inv, AnswerInv, [Next]_vars
  PROVE  AnswerInv'
<1>1. CASE \E r \in Requests : Checkout(r)
  <2>1. PICK r \in Requests : Checkout(r)
    BY <1>1
  <2> QED BY <2>1, CheckoutAnswers, AnswersStay DEF AnswerInv, ReplyAnswersCall
<1>2. CASE UNCHANGED <<pc, call, plan, reply>>
  BY <1>2, AnswersStay DEF AnswerInv, ReplyAnswersCall
<1>3. (\E r \in Requests : Checkout(r)) \/ UNCHANGED <<pc, call, plan, reply>>
  BY DEF Next, vars, PutConfig, Provider, Pay, Refund, Notify, Emit, Webhook, HandlerStep,
         Deliver, Verify, Record, FindOrder, UpdateOrder, UpdateUnanswered, AbortWebhook
<1> QED BY <1>1, <1>2, <1>3

\* CreateCheckout: whoever gets an order, fresh or for a used key, gets one that
\* is stored, of its own app and key, with the terms it asked for.
THEOREM RepliesAnswerCalls == Spec => []ReplyAnswersCall
<1>1. Init => AnswerInv
  BY DEF Init, AnswerInv, ReplyAnswersCall, Busy
<1>2. AnswerInv => ReplyAnswersCall
  BY DEF AnswerInv
<1> QED BY <1>1, <1>2, NextAnswerInv, Invariance, PTL DEF Spec

-----------------------------------------------------------------------------
(* Acknowledgements                                                         *)

\* A session keeps its app and provider, so its events go on naming their order.
LEMMA SessionsStay ==
  ASSUME TypeOK, Inv, [Next]_vars, NEW s \in Requests, session[s] # None
  PROVE  session'[s].app = session[s].app /\ session'[s].provider = session[s].provider
<1>1. ASSUME NEW r \in Requests, CreateSession(r)
      PROVE  session'[s] = session[s]
  <2>1. s # r
    BY <1>1 DEF CreateSession, Inv, CheckoutInv
  <2> QED BY <1>1, <2>1 DEF CreateSession, TypeOK
<1>2. ASSUME NEW x \in Requests, Provider(x)
      PROVE  session'[s].app = session[s].app /\ session'[s].provider = session[s].provider
  <2>1. session[s] \in Session /\ session \in [Requests -> Session \cup {None}]
    BY DEF TypeOK
  <2>2. \/ session' = session
        \/ \E st \in {"completed", "refunded"} : session' = [session EXCEPT ![x].state = st]
    BY <1>2 DEF Provider, Pay, Refund, Notify
  <2> QED BY <2>1, <2>2 DEF Session
<1>3. (\E r \in Requests : CreateSession(r)) \/ (\E x \in Requests : Provider(x))
        \/ session' = session
  BY DEF Next, vars, PutConfig, Checkout, Arrive, LookupKey, LoadConfig, ResolveProduct,
         SaveOrder, AbortCheckout, Webhook, HandlerStep, Deliver, Verify, Record, FindOrder,
         UpdateOrder, UpdateUnanswered, AbortWebhook
<1> QED BY <1>1, <1>2, <1>3

LEMMA NamesStay ==
  ASSUME TypeOK, Inv, [Next]_vars, NEW e \in recorded
  PROVE  NamesOrder(e)' <=> NamesOrder(e)
<1>1. e[1] \in Requests /\ session[e[1]] # None
  BY DEF TypeOK, Events, Inv, EventInv
<1> QED BY <1>1, SessionsStay DEF NamesOrder

LEMMA NextAckInv ==
  ASSUME TypeOK, Inv, AckInv, [Next]_vars
  PROVE  AckInv'
<1> USE NamesStay DEF AtWork
<1>1. ASSUME UNCHANGED <<orders, applied, recorded, acked, event, hpc, faults>>
      PROVE  AckInv'
  BY <1>1 DEF AckInv, Stored
<1>2. ASSUME NEW r \in Requests, SaveOrder(r) PROVE AckInv'
  <2>1. r \notin Stored /\ plan[r] \in Terms
    BY <1>2 DEF SaveOrder, Inv, CheckoutInv, TypeOK, Busy
  <2>2. /\ \A o \in Requests \ {r} : orders'[o] = orders[o]
        /\ orders'[r].status = "pending"
    BY <1>2 DEF SaveOrder, TypeOK
  <2>3. UNCHANGED <<applied, recorded, acked, event, hpc, faults>>
    BY <1>2 DEF SaveOrder
  <2>4. \A e \in applied : e[1] # r
    BY <2>1 DEF AckInv
  <2>5. \A e \in applied : e[1] \in Stored' /\ orders'[e[1]].status \in Kinds
    BY <2>2, <2>4 DEF AckInv, Stored
  <2>6. \A o \in Stored' : orders'[o].status \in Kinds => <<o, orders'[o].status>> \in applied
    BY <2>2 DEF AckInv, Stored, Kinds
  <2> QED BY <2>3, <2>5, <2>6 DEF AckInv
<1>3. ASSUME NEW d \in Deliveries, Webhook(d), ~WriteDraft(d) PROVE AckInv'
  <2>1. UNCHANGED <<orders, applied>>
    BY <1>3 DEF Webhook, HandlerStep, Deliver, Verify, Record, FindOrder, UpdateOrder,
                UpdateUnanswered, AbortWebhook
  <2>2. \A x \in Deliveries \ {d} : event'[x] = event[x] /\ hpc'[x] = hpc[x]
    BY <1>3 DEF Webhook, HandlerStep, Deliver, Verify, Record, FindOrder, UpdateOrder,
                UpdateUnanswered, AbortWebhook, Return, TypeOK
  <2>3. ASSUME NEW e \in Events, Deliver(d, e) PROVE AckInv'
    BY <2>1, <2>2, <2>3 DEF Deliver, AckInv, Stored
  <2>4. CASE Verify(d)
    <3>1. hpc[d] \notin {"find", "update"} /\ UNCHANGED <<recorded, acked, faults>>
      BY <2>4 DEF Verify, Return
    <3> QED BY <2>1, <2>2, <3>1 DEF AckInv, Stored
  <2>5. CASE Record(d)
    <3>1. /\ hpc[d] \notin {"find", "update"} /\ UNCHANGED faults
          /\ event[d] \in recorded' /\ recorded' \subseteq recorded \cup {event[d]}
          /\ recorded \subseteq recorded' /\ acked' \subseteq acked \cup {event[d]}
          /\ event[d] \notin recorded => hpc'[d] = "find" /\ event'[d] = event[d]
      BY <2>5 DEF Record, Return, TypeOK
    <3> QED BY <2>1, <2>2, <3>1 DEF AckInv, Stored
  <2>6. CASE FindOrder(d)
    <3> DEFINE o == event[d][1]
               k == event[d][2]
    <3>1. /\ hpc[d] = "find" /\ event[d] \in recorded \ applied /\ event[d] = <<o, k>>
          /\ o \in Requests
      BY <2>6, EventType DEF FindOrder, Inv, HandlerInv
    <3>2. CASE Ignores(o, k)
      <4>1. k \notin Kinds \/ ~NamesOrder(event[d])
        <5> SUFFICES ASSUME k \in Kinds, NamesOrder(event[d]) PROVE FALSE
          OBVIOUS
        <5>1. o \in Stored
          BY <3>1, OrdersAssumption
             DEF Inv, EventInv, PaidSessionHasOrder, Stored, Kinds
        <5>2. Found(o, k)
          BY <3>1, <5>1 DEF Found, NamesOrder, Stored, Inv, OrderMatchesProvider
        <5>3. orders[o].status = "paid" /\ k = "paid"
          BY <3>2, <5>2 DEF Ignores, Kinds
        <5>4. <<o, "paid">> \in applied
          BY <5>1, <5>3 DEF AckInv, Kinds
        <5> HIDE DEF o, k
        <5> QED BY <3>1, <5>3, <5>4
      <4>2. /\ acked' = acked \cup {event[d]} /\ hpc'[d] = "idle"
            /\ UNCHANGED <<recorded, faults>>
        BY <2>6, <3>2 DEF FindOrder, Return, TypeOK
      <4>3. event[d][2] \notin Kinds \/ ~NamesOrder(event[d])
        BY <4>1
      <4> HIDE DEF o, k
      <4>4. faults = 0 => \A e \in recorded : e[2] \in Kinds /\ NamesOrder(e)
                            => e \in applied \/ AtWork(e)'
        BY <2>2, <4>3 DEF AckInv
      <4> QED BY <2>1, <3>1, <4>2, <4>4 DEF AckInv, Stored
    <3>3. CASE ~Ignores(o, k)
      <4>1. hpc'[d] = "update" /\ UNCHANGED <<event, acked, recorded, faults>>
        BY <2>6, <3>3 DEF FindOrder, TypeOK
      <4> QED BY <2>1, <2>2, <4>1 DEF AckInv, Stored
    <3> QED BY <3>2, <3>3
  <2>7. CASE AbortWebhook(d)
    <3>1. UNCHANGED <<recorded, acked>> /\ faults' # 0
      BY <2>7 DEF AbortWebhook, Return, TypeOK
    <3> QED BY <2>1, <3>1 DEF AckInv, Stored
  <2> QED BY <1>3, <2>3, <2>4, <2>5, <2>6, <2>7
          DEF Webhook, HandlerStep, UpdateOrder, UpdateUnanswered
<1>4. ASSUME NEW d \in Deliveries, UpdateOrder(d) \/ UpdateUnanswered(d) PROVE AckInv'
  <2> DEFINE o == event[d][1]
             k == event[d][2]
  <2>1. WriteDraft(d) /\ hpc[d] = "update"
    BY <1>4 DEF UpdateOrder, UpdateUnanswered, WriteDraft
  <2>2. /\ o \in Requests /\ event[d] = <<o, k>> /\ event[d] \in recorded
        /\ draft[d] # None /\ draft[d].status = k /\ k \in Kinds
    BY <2>1, EventType DEF Inv, HandlerInv
  <2>3. /\ \A x \in Requests \ {o} : orders'[x] = orders[x]
        /\ orders'[o] = draft[d]
        /\ applied' = applied \cup {<<o, k>>}
    BY <2>1, <2>2 DEF WriteDraft, TypeOK
  <2>4. /\ recorded' = recorded /\ acked' \subseteq acked \cup {event[d]}
        /\ faults' = 0 => faults = 0
        /\ \A x \in Deliveries \ {d} : event'[x] = event[x] /\ hpc'[x] = hpc[x]
    BY <1>4 DEF UpdateOrder, UpdateUnanswered, Return, TypeOK
  <2> HIDE DEF o, k
  <2>5. \A x \in Stored' : orders'[x].status \in Kinds => <<x, orders'[x].status>> \in applied'
    BY <2>2, <2>3 DEF AckInv, Stored
  <2>6. \A e \in applied' : e[1] \in Stored' /\ orders'[e[1]].status \in Kinds
    BY <2>2, <2>3 DEF AckInv, Stored
  <2>7. acked' \subseteq recorded'
    BY <2>2, <2>4 DEF AckInv
  <2>8. ASSUME faults' = 0, NEW e \in recorded', e[2] \in Kinds, NamesOrder(e)',
               e \notin applied'
        PROVE  AtWork(e)'
    <3>1. e \in recorded /\ e \notin applied /\ e # event[d] /\ faults = 0
      BY <2>2, <2>3, <2>4, <2>8
    <3>2. PICK x \in Deliveries : event[x] = e /\ hpc[x] \in {"find", "update"}
      BY <2>8, <3>1 DEF AckInv
    <3> QED BY <2>4, <3>1, <3>2
  <2> QED BY <2>5, <2>6, <2>7, <2>8 DEF AckInv
<1>5. ASSUME NEW r \in Requests, Checkout(r), ~SaveOrder(r) PROVE AckInv'
  BY <1>1, <1>5 DEF Checkout, Arrive, LookupKey, LoadConfig, ResolveProduct, CreateSession,
                    AbortCheckout
<1>6. ASSUME NEW s \in Requests, Provider(s) PROVE AckInv'
  BY <1>1, <1>6 DEF Provider, Pay, Refund, Notify, Emit
<1>7. ASSUME NEW a \in Apps, NEW c \in Configs, PutConfig(a, c) PROVE AckInv'
  BY <1>1, <1>7 DEF PutConfig
<1>8. CASE UNCHANGED vars
  BY <1>1, <1>8 DEF vars
<1>9. ASSUME NEW d \in Deliveries, Webhook(d), WriteDraft(d)
      PROVE  UpdateOrder(d) \/ UpdateUnanswered(d) \/ AckInv'
  <2>1. CASE AbortWebhook(d)
    <3>1. UNCHANGED <<orders, applied, recorded, acked>> /\ faults' # 0
      BY <2>1 DEF AbortWebhook, Return, TypeOK
    <3> QED BY <3>1 DEF AckInv, Stored
  <2> QED BY <1>9, <2>1 DEF Webhook, HandlerStep, Deliver, Verify, Record, FindOrder, WriteDraft
<1> QED BY <1>2, <1>3, <1>4, <1>5, <1>6, <1>7, <1>8, <1>9 DEF Next

\* What has been credited shows in the order, or was written over.
LEMMA AckHandled ==
  ASSUME TypeOK, Inv, AckInv
  PROVE  AcknowledgedIsHandled
<1> SUFFICES ASSUME faults = 0, NEW e \in acked, e[2] \in Kinds, NamesOrder(e), ~AtWork(e)
             PROVE  e[1] \in Stored /\ Reflects(e[1], e[2])
  BY DEF AcknowledgedIsHandled
<1>1. e \in applied /\ e = <<e[1], e[2]>>
  BY DEF AckInv, TypeOK, Events
<1>2. e[1] \in Stored /\ orders[e[1]].status \in Kinds
  BY <1>1 DEF AckInv
<1>3. CASE orders[e[1]].status = "paid" /\ e[2] = "refunded"
  BY <1>1, <1>2, <1>3 DEF Inv, OrderMatchesProvider, Reflects
<1> QED BY <1>2, <1>3 DEF Reflects, Kinds

\* HandleWebhook: without failures, an order that an acknowledged event names
\* shows the event's status, or that of the session's other event written after
\* it, or a handler is about to write it, for any number of deliveries.
THEOREM AcknowledgedAreHandled == Spec => []AcknowledgedIsHandled
<1>1. Init => AckInv
  BY DEF Init, AckInv, Stored
<1> QED BY <1>1, NextAckInv, AckHandled, Invariance, PTL DEF Spec

=============================================================================
