----------------------------- MODULE OrderLedger -----------------------------
(***************************************************************************)
(* What Billing promises about its orders, whatever the interleaving of    *)
(* checkouts, webhook deliveries, retries and crashes:                     *)
(*   - an order is opened once, "pending", under terms that never change;  *)
(*   - an order is never removed;                                          *)
(*   - its status only changes by crediting a provider event of its own    *)
(*     checkout, and each event is credited at most once.                  *)
(* It says nothing of the order of the credits: a payment credited after   *)
(* its refund puts the order back to "paid", as the service does.          *)
(* The abstract specification that module BillingOrders implements.        *)
(***************************************************************************)

CONSTANTS
    Orders,   \* order ids
    Terms,    \* what a checkout fixes: app, key, product, price, ... mode
    Kinds,    \* statuses a provider event can carry
    None      \* no order stored under this id

VARIABLES
    ledger,   \* ledger[o]: the order stored under o, or None
    credited  \* <<o, k>>: event k of order o has changed it

ledgerVars == <<ledger, credited>>

Entry == [status : Kinds \cup {"pending"}, terms : Terms]

LedgerInit ==
    /\ ledger = [o \in Orders |-> None]
    /\ credited = {}

Open(o, t) ==
    /\ ledger[o] = None
    /\ ledger' = [ledger EXCEPT ![o] = [status |-> "pending", terms |-> t]]
    /\ UNCHANGED credited

Credit(o, k) ==
    /\ ledger[o] # None
    /\ <<o, k>> \notin credited
    /\ ledger' = [ledger EXCEPT ![o].status = k]
    /\ credited' = credited \cup {<<o, k>>}

LedgerNext ==
    \E o \in Orders :
        \/ \E t \in Terms : Open(o, t)
        \/ \E k \in Kinds : Credit(o, k)

LedgerSpec == LedgerInit /\ [][LedgerNext]_ledgerVars

=============================================================================
