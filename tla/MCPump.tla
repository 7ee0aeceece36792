---- MODULE MCPump ----
(* The realtime path on small instances: three hubs on two pods with clients  *)
(* of two tenants and posts of which the tenant, the scope, both or neither   *)
(* survive the subject; and one pod with a client that Pump serves.           *)
EXTENDS Pump, TLC

HomeOf == ("ha" :> "a") @@ ("hb" :> "b") @@ ("hb2" :> "b")
HubOf == ("c1" :> "ha") @@ ("c2" :> "hb")
TenantOf == ("c1" :> "t_1") @@ ("c2" :> "t2")
ScopesOf == ("c1" :> {"u1"}) @@ ("c2" :> {"*"})
PodOfPublisher == ("pa" :> "a") @@ ("pb" :> "b")

Tokens == ("t_1" :> "t_1") @@ ("t2" :> "t2") @@ ("t.1" :> "t_1") @@ ("u1" :> "u1") @@ ("u2" :> "u2") @@ ("*" :> "_")

Post(tenant, scope) == [tenant |-> tenant, scope |-> scope]
SomePosts == {Post("t2", "u1"), Post("t_1", "u2"), Post("t_1", "*"), Post("t.1", "u1")}

OneHome == "ha" :> "a"
OneHub == "c1" :> "ha"
OnePublisher == "pa" :> "a"
OnePost == {Post("t_1", "u1")}
====
