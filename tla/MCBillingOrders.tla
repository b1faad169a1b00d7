--------------------------- MODULE MCBillingOrders ---------------------------
(* Small instances of BillingOrders for TLC. *)
EXTENDS BillingOrders, TLC

CONSTANTS creem, mock, prod, priceA, buyer, page, a1, a2

Body(product, price, provider, user) ==
    [product |-> product, price |-> price, provider |-> provider,
     user |-> user, url |-> page]

\* A config whose webhook secrets are those that the providers sign with.
Cfg(mode, default, on) ==
    [mode |-> mode, default |-> default, on |-> on, enabled |-> TRUE,
     secret |-> [p \in Providers |-> "shared"]]

WithSecret(c, secret) == [c EXCEPT !.secret = [p \in Providers |-> secret]]

\* Creem's refund is an object of its own; the mock's payload has request_id alone.
CreemNames == [k \in Kinds \cup {"other"} |-> IF k = "refunded" THEN "nothing" ELSE "checkout"]
EachItsWay == creem :> CreemNames @@ mock :> [k \in Kinds \cup {"other"} |-> "request"]

OwnHooks == [a \in Apps |-> a]

\* Two apps with one account at the provider, whose events go to one of them.
OneHook == [a \in Apps |-> a1]

MockOnly == {mock}

\* One plain checkout by price id.
OneBody == {Body(None, priceA, None, None)}

\* A catalogue product, a price id with a named provider, and neither.
Bodies == {Body(prod, None, None, None), Body(None, priceA, creem, None),
           Body(None, None, None, None)}

TestAndLive == {Cfg("test", creem, {creem, mock}), Cfg("live", mock, {creem, mock})}

OneConfig == {Cfg("live", creem, {creem})}

MockConfig == {Cfg("test", mock, {mock})}

\* The admin may switch the provider of open orders off, and store no secret.
Changing == {Cfg("live", creem, {creem}),
             WithSecret(Cfg("live", mock, {creem, mock}), "none")}

Symmetry == Permutations(Deliveries) \cup Permutations(Requests)

=============================================================================
