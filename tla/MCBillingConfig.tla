--------------------------- MODULE MCBillingConfig ---------------------------
(* A small instance of BillingConfig for TLC. *)
EXTENDS BillingConfig, TLC

CONSTANTS creem, mock, other, k1, k2

Entry(on, key) == [on |-> on, key |-> key]

Body(default, creemCred, mockCred, otherCred) ==
    [default |-> default,
     cred |-> [p \in Names |-> CASE p = creem -> creemCred
                                 [] p = mock  -> mockCred
                                 [] OTHER     -> otherCred]]

\* Set up a provider, make it the default, replace its secret, edit it without
\* the secret, switch it off, name an unknown one, clear the default.
MCBodies ==
    {Body(Keep, Entry(TRUE, k1), None, None),
     Body(creem, None, None, None),
     Body(creem, Entry(TRUE, k2), None, None),
     Body(mock, Entry(FALSE, None), Entry(TRUE, None), None),
     Body(Keep, Entry(FALSE, None), Entry(TRUE, k2), None),
     Body(None, Entry(TRUE, k1), None, Entry(TRUE, k1)),
     Body(None, None, Entry(FALSE, None), None)}

Symmetry == Permutations(Calls)

=============================================================================
