---- MODULE MCBalanceAlert ----
(* BalanceAlert on a tenant that spends and is refunded, on two tenants with *)
(* one resource, on a tenant whose id is no uuid, and on a provider.         *)
EXTENDS BalanceAlert

Wallet(scope, tenant) == [scope |-> scope, tenant |-> tenant, resource |-> "sms"]

Provider == Wallet("platform", "")
Tenant(t) == Wallet("tenant", t)
SomePortfolios == {{Tenant("A")}, {Tenant("B"), Tenant("C")}, {Tenant("junk")}, {Provider}}
SomePolled == {Provider}
SomeMoves ==
  [w \in UNION SomePortfolios |-> IF w \in {Tenant("A"), Provider} THEN {1, 2, -1} ELSE {2}]
====
