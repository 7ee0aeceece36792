---------------------------- MODULE TenantPurge -----------------------------
(***************************************************************************)
(* The purge of a tenant in one service database (tenantpurge.go): the     *)
(* tenant.purge messages, the replicas that handle them, the transaction   *)
(* of Purge with its retry passes, and rows the service still inserts.     *)
(*                                                                         *)
(* PostgreSQL is external: under READ COMMITTED a DELETE takes the rows it *)
(* sees, waits for those another transaction has deleted, and fails on a   *)
(* row that references them; of two transactions that wait for each other  *)
(* one is aborted.  JetStream redelivers what is not acknowledged.         *)
(***************************************************************************)
EXTENDS Naturals, Sequences, FiniteSets, SequencesExt

CONSTANTS
  Replicas,
  TableOrder,  \* the tables with a tenant_id, in name order
  TenantTable, \* the table keyed by the tenant's own id
  Kept,        \* outbox, processed-event and Skip tables
  Schemas,     \* the foreign keys there may be: sets of <<child, parent>>
  Mailings,    \* the sets of messages there may be on tenant.purge
  MaxPasses,   \* 30
  MaxDeliver,  \* deliveries of a message (5)
  MaxFaults    \* bound: failed statements, slow purges, crashes, rows inserted

Tables == ToSet(TableOrder)
Purged == Tables \cup {TenantTable}
AllTables == Purged \cup Kept
Messages == UNION Mailings

ASSUME TenantPurgeAssumption ==
  /\ TableOrder \in Seq(Tables) /\ IsInjective(TableOrder)
  /\ TenantTable \notin Tables /\ Kept \cap Purged = {}
  /\ \A s \in Schemas : s \subseteq AllTables \X AllTables
  /\ {MaxPasses, MaxDeliver, MaxFaults} \subseteq Nat

VARIABLES
  fk,         \* the foreign keys of this database
  mailing,    \* the messages that were sent
  rows,       \* the committed rows of tenant "t"
  job,        \* the message a replica handles, and how far its Purge is
  deleted,    \* what its open transaction has deleted
  acked,      \* the messages settled
  inFlight,   \* the messages whose ack the server still waits for
  deliveries, \* how often each was delivered
  faults

queueVars == <<acked, inFlight, deliveries>>
vars == <<fk, mailing, rows, job, deleted, queueVars, faults>>

-----------------------------------------------------------------------------
(* The event: "nil" is uuid.Nil, "junk" a string that is no uuid.          *)

purgeReasons == {"dormancy", "registration_rejected", "tenant_deleted"}

NewTenantPurgeEvent(tenant, reason) ==
  [decodes |-> TRUE, tenant |-> tenant, tenant_id |-> tenant,
   confirmed |-> TRUE, reason |-> reason]

\* The tenant_id of the payload goes before that of the envelope.
TenantID(m) == IF m.tenant_id \in {"", "junk", "nil"} THEN m.tenant ELSE m.tenant_id

\* Mutant: confirmed is not looked at.
UnconfirmedTenantPurge(m) == TenantID(m) # "nil" /\ m.reason \in purgeReasons

ConfirmedTenantPurge(m) == TenantID(m) # "nil" /\ m.confirmed /\ m.reason \in purgeReasons

-----------------------------------------------------------------------------
(* Purge.  todo: the tables left in this pass; blocked: those for the      *)
(* next; progress: a table went in this pass; last: the tenant table.      *)

Idle == [step |-> "idle", msg |-> "none", pass |-> 0, todo |-> <<>>, blocked |-> <<>>,
         progress |-> TRUE, last |-> FALSE]

\* tenantColumns lists the tables in name order, without the kept ones.
Begin(m) == [Idle EXCEPT !.step = "pass", !.msg = m, !.blocked = TableOrder]

Init ==
  /\ fk \in Schemas /\ mailing \in Mailings
  /\ rows = [t \in AllTables |-> {"old"}]
  /\ job = [r \in Replicas |-> Idle]
  /\ deleted = [r \in Replicas |-> {}]
  /\ acked = {} /\ inFlight = {}
  /\ deliveries = [m \in mailing |-> 0]
  /\ faults = 0

Fault == faults < MaxFaults /\ faults' = faults + 1

\* The rows of the tenant that r deletes, in table t, as its transaction sees
\* them; a tenant other than "t" has none here.
Visible(r, t) ==
  IF TenantID(job[r].msg) = "t" THEN ({t} \X rows[t]) \ deleted[r] ELSE {}

Table(r) == Head(job[r].todo)
Taken(r) == {x \in deleted[r] : x[1] = Table(r)}
Referencing(r) == UNION {Visible(r, c) : c \in {c \in AllTables : <<c, Table(r)>> \in fk}}
OthersDeleted(r) == UNION {deleted[q] : q \in Replicas \ {r}}

\* The rows r waits for: those it wants to delete, or those that reference
\* what it has deleted, when another transaction is deleting them.
Awaits(r) ==
  CASE job[r].step = "delete" -> Visible(r, Table(r)) \cap OthersDeleted(r)
    [] job[r].step = "check" /\ Taken(r) # {} /\ Referencing(r) \subseteq OthersDeleted(r)
         -> Referencing(r)
    [] OTHER -> {}

At(r, step) == [job[r] EXCEPT !.step = step]
Becomes(r, next) == job' = [job EXCEPT ![r] = next]
Local == UNCHANGED <<fk, mailing, rows, queueVars>>

\* Mutant: a blocked table is not tried again.
NextPassOnce(r) ==
  /\ job[r].step = "pass"
  /\ IF job[r].blocked = <<>>
     THEN Becomes(r, IF job[r].last THEN At(r, "commit")
                     ELSE [At(r, "delete") EXCEPT !.todo = <<TenantTable>>, !.last = TRUE])
     ELSE IF job[r].pass = 1 THEN Becomes(r, At(r, "blocked"))
     ELSE Becomes(r, [At(r, "delete") EXCEPT !.todo = job[r].blocked, !.blocked = <<>>,
                                             !.progress = FALSE, !.pass = @ + 1])
  /\ Local /\ UNCHANGED <<deleted, faults>>

\* A pass is over: the tenant table is next, or the commit, or the blocked
\* tables again, unless nothing went or the passes are used up.
NextPass(r) ==
  /\ job[r].step = "pass"
  /\ IF job[r].blocked = <<>>
     THEN Becomes(r, IF job[r].last THEN At(r, "commit")
                     ELSE [At(r, "delete") EXCEPT !.todo = <<TenantTable>>, !.last = TRUE])
     ELSE IF ~job[r].progress \/ job[r].pass = MaxPasses THEN Becomes(r, At(r, "blocked"))
     ELSE Becomes(r, [At(r, "delete") EXCEPT !.todo = job[r].blocked, !.blocked = <<>>,
                                             !.progress = FALSE, !.pass = @ + 1])
  /\ Local /\ UNCHANGED <<deleted, faults>>

\* DELETE in a savepoint: the rows are locked and gone for this transaction.
Delete(r) ==
  /\ job[r].step = "delete" /\ Awaits(r) = {}
  /\ deleted' = [deleted EXCEPT ![r] = @ \cup Visible(r, Table(r))]
  /\ Becomes(r, At(r, "check"))
  /\ Local /\ UNCHANGED faults

Rest(r) == [At(r, IF Len(job[r].todo) = 1 THEN "pass" ELSE "delete") EXCEPT !.todo = Tail(@)]

\* Nothing references the rows: the savepoint is released.
Release(r) ==
  /\ job[r].step = "check" /\ (Taken(r) = {} \/ Referencing(r) = {})
  /\ Becomes(r, [Rest(r) EXCEPT !.progress = TRUE])
  /\ Local /\ UNCHANGED <<deleted, faults>>

\* Mutant: the deletions of a blocked table are not rolled back.
ViolationKeepsRows(r) ==
  /\ job[r].step = "check" /\ Taken(r) # {} /\ ~(Referencing(r) \subseteq OthersDeleted(r))
  /\ Becomes(r, IF job[r].last THEN At(r, "blocked")
                ELSE [Rest(r) EXCEPT !.blocked = Append(@, Table(r))])
  /\ Local /\ UNCHANGED <<deleted, faults>>

\* A foreign-key violation: back to the savepoint, and the table to the next
\* pass; there is no next pass for the tenant table.
Violation(r) ==
  /\ job[r].step = "check" /\ Taken(r) # {} /\ ~(Referencing(r) \subseteq OthersDeleted(r))
  /\ deleted' = [deleted EXCEPT ![r] = @ \ Taken(r)]
  /\ Becomes(r, IF job[r].last THEN At(r, "blocked")
                ELSE [Rest(r) EXCEPT !.blocked = Append(@, Table(r))])
  /\ Local /\ UNCHANGED faults

\* The server breaks a deadlock, or a statement fails or times out.
Abort(r) ==
  /\ job[r].step \in {"pass", "delete", "check", "commit"}
  /\ \/ Fault
     \/ /\ \E q \in Replicas : Awaits(r) \cap deleted[q] # {} /\ Awaits(q) \cap deleted[r] # {}
        /\ UNCHANGED faults
  /\ Becomes(r, At(r, "failed"))
  /\ Local /\ UNCHANGED deleted

CommitRows(r) == rows' = [t \in AllTables |-> {x \in rows[t] : <<t, x>> \notin deleted[r]}]
EndTx(r) == deleted' = [deleted EXCEPT ![r] = {}]

\* COMMIT; its answer may be lost.
Commit(r) ==
  /\ job[r].step = "commit"
  /\ CommitRows(r) /\ EndTx(r)
  /\ \/ Becomes(r, At(r, "done")) /\ UNCHANGED faults
     \/ Becomes(r, At(r, "failed")) /\ Fault
  /\ UNCHANGED <<fk, mailing, queueVars>>

-----------------------------------------------------------------------------
(* handle, and the queue subscription it hangs on.                         *)

\* A message to one of the replicas.  What is no confirmed purge is
\* acknowledged and ignored.
Receive(r, m) ==
  /\ job[r].step = "idle"
  /\ m \notin acked \cup inFlight /\ deliveries[m] < MaxDeliver
  /\ deliveries' = [deliveries EXCEPT ![m] = @ + 1]
  /\ IF m.decodes /\ ConfirmedTenantPurge(m)
     THEN /\ Becomes(r, Begin(m))
          /\ inFlight' = inFlight \cup {m}
          /\ UNCHANGED acked
     ELSE acked' = acked \cup {m} /\ UNCHANGED <<job, inFlight>>
  /\ UNCHANGED <<fk, mailing, rows, deleted, faults>>

Ack(r) ==
  /\ job[r].step = "done"
  /\ Becomes(r, Idle)
  /\ acked' = acked \cup {job[r].msg}
  /\ inFlight' = inFlight \ {job[r].msg}
  /\ UNCHANGED <<fk, mailing, rows, deleted, deliveries, faults>>

\* Mutant: a failed purge is acknowledged.
NakAcks(r) ==
  /\ job[r].step \in {"blocked", "failed"}
  /\ Becomes(r, Idle)
  /\ EndTx(r)
  /\ acked' = acked \cup {job[r].msg}
  /\ inFlight' = inFlight \ {job[r].msg}
  /\ UNCHANGED <<fk, mailing, rows, deliveries, faults>>

\* Mutant: no transaction; what was deleted stays deleted.
NakKeepsDeletions(r) ==
  /\ job[r].step \in {"blocked", "failed"}
  /\ Becomes(r, Idle)
  /\ CommitRows(r) /\ EndTx(r)
  /\ inFlight' = inFlight \ {job[r].msg}
  /\ UNCHANGED <<fk, mailing, acked, deliveries, faults>>

\* The deferred Rollback and the Nak.
Nak(r) ==
  /\ job[r].step \in {"blocked", "failed"}
  /\ Becomes(r, Idle)
  /\ EndTx(r)
  /\ inFlight' = inFlight \ {job[r].msg}
  /\ UNCHANGED <<fk, mailing, rows, acked, deliveries, faults>>

\* The pod dies: the server rolls its transaction back.
Crash(r) ==
  /\ job[r].step # "idle" /\ Fault
  /\ Becomes(r, Idle)
  /\ EndTx(r)
  /\ UNCHANGED <<fk, mailing, rows, queueVars>>

\* AckWait passes: the handler of m is gone, or slow and still at work.
Expire(m) ==
  /\ m \in inFlight
  /\ IF \E r \in Replicas : job[r].step # "idle" /\ job[r].msg = m
     THEN Fault ELSE UNCHANGED faults
  /\ inFlight' = inFlight \ {m}
  /\ UNCHANGED <<fk, mailing, rows, job, deleted, acked, deliveries>>

\* The service inserts a row for the tenant; it waits for, and fails without,
\* the rows it references.
Insert(t) ==
  /\ "new" \notin rows[t] /\ Fault
  /\ \A k \in fk : k[1] = t =>
       \E x \in {k[2]} \X rows[k[2]] : \A r \in Replicas : x \notin deleted[r]
  /\ rows' = [rows EXCEPT ![t] = @ \cup {"new"}]
  /\ UNCHANGED <<fk, mailing, job, deleted, queueVars>>

Purge(r) ==
  \/ NextPass(r) \/ Delete(r) \/ Release(r) \/ Violation(r) \/ Abort(r) \/ Commit(r)
  \/ Ack(r) \/ Nak(r)

Next ==
  \/ \E r \in Replicas : Purge(r) \/ Crash(r) \/ \E m \in mailing : Receive(r, m)
  \/ \E m \in mailing : Expire(m)
  \/ \E t \in Tables : Insert(t)

Spec == Init /\ [][Next]_vars

\* Replicas run, and the server delivers and notices what is not acknowledged.
Fairness ==
  /\ \A r \in Replicas : WF_vars(Purge(r))
  /\ WF_vars(\E r \in Replicas, m \in mailing : Receive(r, m))
  /\ WF_vars(\E m \in mailing : Expire(m))

FairSpec == Spec /\ Fairness

-----------------------------------------------------------------------------
(* Properties.                                                             *)

\* A replica has deleted nothing from the tables it could not delete.
TypeOK ==
  /\ \A t \in AllTables : rows[t] \subseteq {"old", "new"}
  /\ \A r \in Replicas :
       /\ job[r].pass <= MaxPasses
       /\ job[r].step # "idle" => job[r].msg \in mailing
       /\ job[r].step \in {"idle", "done"} => deleted[r] = {}
       /\ \A x \in deleted[r] : x[1] \notin ToSet(job[r].blocked)
  /\ acked \subseteq mailing /\ inFlight \subseteq mailing
  /\ deliveries \in [mailing -> 0 .. MaxDeliver]

\* The tables that hold rows from before any purge.
Left == {t \in AllTables : "old" \in rows[t]}

\* "All in one transaction" (TenantPurger): whatever fails or runs beside it,
\* a purge removes all of a tenant's rows or none, and never a kept table's.
AllOrNothing == Left \in {Kept, AllTables}

\* "Confirmed purges delete the tenant's data; anything else is acked"
\* (TenantPurger.Subscribe): rows go only on a decodable, confirmed message for
\* this tenant, and such a message is not settled before they are gone.
Orders(m) ==
  /\ m.decodes /\ m.confirmed
  /\ m.reason \in {"dormancy", "registration_rejected", "tenant_deleted"}
  /\ \/ m.tenant_id = "t"
     \/ m.tenant = "t" /\ m.tenant_id \in {"", "junk", "nil"}

PurgedOnOrder == Left # AllTables => \E m \in mailing : Orders(m)
SettledIsPurged == \A m \in acked : Orders(m) => Left = Kept

\* No order that ends with the tenant row deletes them all: some tables are
\* each referenced by another one of them, by a kept table or by the tenant
\* row, or a kept table references the tenant row.
Entangled ==
  \/ \E S \in (SUBSET Tables) \ {{}} :
       \A t \in S : \E c \in (S \cup Kept \cup {TenantTable}) \ {t} : <<c, t>> \in fk
  \/ \E c \in Kept : <<c, TenantTable>> \in fk

\* "Foreign-key order is found by retrying" (TenantPurger): a purge gives up on
\* foreign keys only if no order exists, or a row came in behind its back, or
\* there are more tables than passes.
GivesUpOnlyIfEntangled ==
  \A r \in Replicas : job[r].step = "blocked" =>
    Entangled \/ faults > 0 \/ Cardinality(Tables) > MaxPasses

\* "Every service with tenant data deletes that tenant's rows on receipt": one
\* purge gets over a fault, and purges side by side over each other's locks.
PurgeCompletes ==
  /\ ~Entangled /\ \E m \in mailing : Orders(m)
  /\ Cardinality(mailing) = 1 \/ [](faults = 0)
  => <>(Left = Kept)
=============================================================================
