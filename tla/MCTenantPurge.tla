---- MODULE MCTenantPurge ----
(* TenantPurge on three tables: foreign keys along and against the name     *)
(* order, a fork, cycles, an outbox table that references one, where all    *)
(* tables reference the tenant row; and a tenant row that references one.   *)
EXTENDS TenantPurge, TLC

NameOrder == <<1, 2, 3>>
ToTenant == Tables \X {TenantTable}
SomeSchemas ==
  {g \cup ToTenant : g \in
    {{}, {<<1, 2>>, <<2, 3>>}, {<<3, 2>>, <<2, 1>>}, {<<2, 1>>, <<3, 1>>},
     {<<1, 2>>, <<2, 1>>}, {<<1, 2>>, <<2, 3>>, <<3, 1>>}, {<<5, 1>>}}}
  \cup {{<<4, 1>>, <<2, 4>>, <<3, 4>>}}

Message(decodes, tenant, tenant_id, confirmed, reason) ==
  [decodes |-> decodes, tenant |-> tenant, tenant_id |-> tenant_id,
   confirmed |-> confirmed, reason |-> reason]

\* Two purges of one tenant; an old-style and a misaddressed one; and messages
\* that order nothing here.
SomeMailings ==
  {{NewTenantPurgeEvent("t", "dormancy"), NewTenantPurgeEvent("t", "tenant_deleted")},
   {Message(TRUE, "t", "junk", TRUE, "registration_rejected")},
   {Message(TRUE, "t", "t", FALSE, "dormancy"), Message(TRUE, "t", "", TRUE, "cleanup"),
    Message(TRUE, "t", "other", TRUE, "dormancy"), Message(FALSE, "t", "t", TRUE, "dormancy")}}
====
