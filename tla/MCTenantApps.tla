---------------------------- MODULE MCTenantApps ----------------------------
(* Small instances of TenantApps for TLC. *)
EXTENDS TenantApps, TLC

Op(kind) == [kind |-> kind, status |-> None]

Patches == {[kind |-> "update", status |-> s] : s \in {None, "active"}}

\* Requests of an app's users, and an administrator who stops them and lets
\* them in again, or changes the secret.
Admin == {Op("lookup"), Op("rotate"), Op("disable")} \cup Patches

\* Start-up on several instances.
StartUp == {Op("lookup"), Op("create"), Op("seed")}

Everything == Admin \cup StartUp

Editing == {Op("rotate"), Op("update")}

Symmetry == Permutations(Nodes) \cup Permutations(Calls)

=============================================================================
