--------------------------- MODULE OutboxWorkers ----------------------------
(***************************************************************************)
(* The replicas that drain the outbox, as far as Publisher (publisher.go)  *)
(* and OutboxPoller (poller.go) are the same program: a loop that claims a *)
(* batch, publishes its records one by one and marks each in the table.    *)
(* The publish step is in the modules that extend this one.                *)
(*                                                                         *)
(* A replica is one goroutine.  Its steps are the points where it waits:   *)
(* the claim, the publish and the mark are three round trips, and anything *)
(* another replica, the broker or the clock does falls between them.       *)
(***************************************************************************)
EXTENDS OutboxRepository, JetStream

CONSTANTS
  Replicas,    \* the pods of one service
  FaultKinds,  \* which faults may happen
  MaxFaults,   \* bound: how many faults happen
  SlowBatches  \* FALSE: a batch is done before its claim is stale

ASSUME WorkersAssumption ==
  /\ IsFiniteSet(Replicas)
  /\ FaultKinds \subseteq {"crash", "db", "cancel", "stop"}
  /\ MaxFaults \in Nat
  /\ SlowBatches \in BOOLEAN

VARIABLES
  run,   \* what each replica has been told to do
  phase, \* where each replica is with its current record
  batch, \* the records a replica has claimed and not finished
  cur,   \* the record being published or marked
  faults \* faults so far

workerVars == <<run, phase, batch, cur, faults>>
vars == <<tableVars, brokerVars, workerVars>>

RunState == {"up", "draining", "cancelled", "down"}
Phase == {"ready", "published", "failed"}
Record == [ev : Events, attempts : Nat]

TypeOK ==
  /\ TableTypeOK
  /\ BrokerTypeOK
  /\ run \in [Replicas -> RunState]
  /\ phase \in [Replicas -> Phase]
  /\ batch \in [Replicas -> SUBSET Record]
  /\ cur \in [Replicas -> Events \cup {NoEvent}]
  /\ faults \in Nat

Init ==
  /\ TableInit
  /\ BrokerInit
  /\ run = [r \in Replicas |-> "up"]
  /\ phase = [r \in Replicas |-> "ready"]
  /\ batch = [r \in Replicas |-> {}]
  /\ cur = [r \in Replicas |-> NoEvent]
  /\ faults = 0

\* r has claimed e and not yet marked it.
Holds(r, e) == \E x \in batch[r] : x.ev = e

\* r is executing the statement that marks e, and so locks its row.
Marking(r, e) == phase[r] # "ready" /\ cur[r] = e

Fault(kind) ==
  /\ kind \in FaultKinds
  /\ faults < MaxFaults
  /\ faults' = faults + 1

-----------------------------------------------------------------------------
(* The business transactions.                                              *)

Business(e) ==
  /\ CreateOutboxRecordInTx(e) \/ Commit(e) \/ Rollback(e)
  /\ UNCHANGED <<brokerVars, workerVars>>

-----------------------------------------------------------------------------
(* One turn of a replica's loop.                                           *)

\* The rows S go to r, skipping rows that other replicas are marking.
ClaimRows(r, S) ==
  /\ run[r] \in {"up", "draining"}
  /\ batch[r] = {}
  /\ \E locked \in SUBSET {e \in Events : \E q \in Replicas \ {r} : Marking(q, e)} :
       S = Selected(locked)
  /\ S # {}
  /\ GetPendingRecords(S)
  /\ UNCHANGED <<tx, brokerVars, run, phase, cur>>

\* The tick of the poll timer: GetPendingRecords returns the claimed rows.
Poll(r) ==
  \E S \in SUBSET Events :
    /\ ClaimRows(r, S)
    /\ batch' = [batch EXCEPT ![r] = {[ev |-> e, attempts |-> row[e].attempts] : e \in S}]
    /\ UNCHANGED faults

\* The claim commits, but reading its result fails: GetPendingRecords returns
\* an error, the turn ends and the rows stay PROCESSING.
PollResultLost(r) ==
  \E S \in SUBSET Events :
    /\ ClaimRows(r, S)
    /\ Fault("db")
    /\ UNCHANGED batch

\* The head of the loop body: r takes up the record x of its batch, and the
\* attempt to publish it ends in phase p.
TakeUp(r, x, p) ==
  /\ run[r] # "down"
  /\ phase[r] = "ready"
  /\ x \in batch[r]
  /\ phase' = [phase EXCEPT ![r] = p]
  /\ cur' = [cur EXCEPT ![r] = x.ev]
  /\ UNCHANGED <<tableVars, run, batch, faults>>

\* The record is failed without an attempt to publish it.
Reject(r, x) == TakeUp(r, x, "failed") /\ UNCHANGED brokerVars

\* Mutant: the error of PublishMsg is ignored.
PublishJetStreamIgnoresError(r, x) ==
  /\ TakeUp(r, x, "published")
  /\ PublishMsgAcked(x.ev) \/ PublishMsgFailed(x.ev)

\* The record is sent with PublishMsg.
PublishJetStream(r, x) ==
  \/ TakeUp(r, x, "published") /\ PublishMsgAcked(x.ev)
  \/ TakeUp(r, x, "failed") /\ PublishMsgFailed(x.ev)

\* The end of the loop body, whatever the mark returned.
FinishRecord(r) ==
  /\ batch' = [batch EXCEPT ![r] = {x \in @ : x.ev # cur[r]}]
  /\ phase' = [phase EXCEPT ![r] = "ready"]
  /\ cur' = [cur EXCEPT ![r] = NoEvent]

\* The statement that marks the current record.
MarkStatement(r) ==
  \/ phase[r] = "published" /\ MarkAsPublished(cur[r])
  \/ phase[r] = "failed" /\ MarkAsFailed(cur[r])

Mark(r) ==
  /\ run[r] \in {"up", "draining"}
  /\ MarkStatement(r)
  /\ FinishRecord(r)
  /\ UNCHANGED <<tx, brokerVars, run, faults>>

\* The statement does not run because the context has been cancelled.  The
\* publish ignores the context, so the rest of the batch is still sent.
MarkCancelled(r) ==
  /\ run[r] = "cancelled"
  /\ phase[r] # "ready"
  /\ FinishRecord(r)
  /\ UNCHANGED <<tableVars, brokerVars, run, faults>>

\* The statement fails; the loop logs the error and goes on.
MarkLost(r) ==
  /\ run[r] \in {"up", "draining"}
  /\ phase[r] # "ready"
  /\ Fault("db")
  /\ FinishRecord(r)
  /\ UNCHANGED <<tableVars, brokerVars, run>>

-----------------------------------------------------------------------------
(* The life of a replica.                                                  *)

\* The pod dies: its claims stay in the table.
Crash(r) ==
  /\ run[r] # "down"
  /\ Fault("crash")
  /\ run' = [run EXCEPT ![r] = "down"]
  /\ phase' = [phase EXCEPT ![r] = "ready"]
  /\ batch' = [batch EXCEPT ![r] = {}]
  /\ cur' = [cur EXCEPT ![r] = NoEvent]
  /\ UNCHANGED <<tableVars, brokerVars>>

\* The context given to Start is cancelled, at any moment.
Cancel(r) ==
  /\ run[r] \in {"up", "draining"}
  /\ Fault("cancel")
  /\ run' = [run EXCEPT ![r] = "cancelled"]
  /\ UNCHANGED <<tableVars, brokerVars, phase, batch, cur>>

\* OutboxPoller.Stop closes stopCh; Stop then waits for the loop.
Stop(r) ==
  /\ run[r] = "up"
  /\ Fault("stop")
  /\ run' = [run EXCEPT ![r] = "draining"]
  /\ UNCHANGED <<tableVars, brokerVars, phase, batch, cur>>

\* Mutant: the loop also looks at stopCh between two records.
ExitMidBatch(r) ==
  /\ run[r] \in {"cancelled", "draining"}
  /\ phase[r] = "ready"
  /\ run' = [run EXCEPT ![r] = "down"]
  /\ batch' = [batch EXCEPT ![r] = {}]
  /\ UNCHANGED <<tableVars, brokerVars, phase, cur, faults>>

\* The loop sees ctx.Done or stopCh, between two batches.
Exit(r) ==
  /\ run[r] \in {"cancelled", "draining"}
  /\ batch[r] = {}
  /\ run' = [run EXCEPT ![r] = "down"]
  /\ UNCHANGED <<tableVars, brokerVars, phase, batch, cur, faults>>

\* The pod is scheduled again and calls Start.
Restart(r) ==
  /\ run[r] = "down"
  /\ run' = [run EXCEPT ![r] = "up"]
  /\ UNCHANGED <<tableVars, brokerVars, phase, batch, cur, faults>>

-----------------------------------------------------------------------------
(* The network and the clock.                                              *)

Network(e) ==
  /\ LateArrival(e) \/ LateLoss(e)
  /\ UNCHANGED <<tableVars, workerVars>>

\* What the comment on processingClaimStaleAfter takes for granted: no batch
\* is still being worked on when its claim has become stale.
BatchesKeepUp ==
  \A r \in Replicas : \A x \in batch[r] : row[x.ev].age < StaleAfter

Tick ==
  /\ SlowBatches \/ BatchesKeepUp
  /\ AgeClaims
  /\ AgeMsgIds
  /\ UNCHANGED <<tx, stored, late, workerVars>>

-----------------------------------------------------------------------------
\* What a replica does of its own accord, apart from publishing.
Serve(r) == Poll(r) \/ Mark(r) \/ MarkCancelled(r) \/ Exit(r) \/ Restart(r)

\* What goes wrong or is asked for from outside.
Disturb(r) == PollResultLost(r) \/ MarkLost(r) \/ Crash(r) \/ Cancel(r) \/ Stop(r)

Environment == Tick \/ \E e \in Events : Business(e) \/ Network(e)

-----------------------------------------------------------------------------
(* Properties.                                                             *)

\* Guaranteed delivery (README.md, Transactional Outbox Pattern): once the
\* business transaction has committed, the row of its event goes away only
\* after the stream has stored the event, whatever crashes, lost statements
\* and second claims come in between.
NoLoss ==
  \A e \in Events : tx[e] = "committed" /\ row[e].status = "ABSENT" => Stored(e)

\* "If the domain operation fails, the event is not stored"
\* (CreateOutboxRecordInTx): nothing on the broker or on its way there, and
\* nothing in a replica's hands, comes from a transaction that did not commit.
NoPhantom ==
  \A e \in Events :
    Stored(e) \/ late[e] > 0 \/ (\E r \in Replicas : Holds(r, e)) => tx[e] = "committed"

\* A row exists only for a transaction that has committed.
RowsAreCommitted ==
  \A e \in Events : row[e].status # "ABSENT" => tx[e] = "committed"

\* A replica marks a record it holds, and marks it published only once the
\* stream has it.
MarksAreEarned ==
  \A r \in Replicas :
    /\ phase[r] # "ready" => cur[r] \in Events /\ Holds(r, cur[r])
    /\ phase[r] = "published" => Stored(cur[r])

\* The stream drops a copy only of a message it has.
DuplicatesAreStored == \A e \in Events : dupAge[e] < DupWindow => Stored(e)

\* Why NoLoss and NoPhantom hold: between the three round trips of a replica
\* the table, the replica and the stream never disagree about an event.
DeliveryInv ==
  /\ RowsAreCommitted
  /\ MarksAreEarned
  /\ DuplicatesAreStored
  /\ NoPhantom
  /\ NoLoss

\* MarkAsFailed "bounds retries": even when claims overlap, the replicas
\* count at most one failure each beyond the one that parks the row.
AttemptsBounded ==
  \A e \in Events : row[e].attempts <= MaxOutboxAttempts - 1 + Cardinality(Replicas)

\* Why AttemptsBounded holds: a parked row can only be failed again by the
\* replicas that still hold it, and nobody joins them.
Holders(e) == {r \in Replicas : Holds(r, e)}

FailuresInv ==
  \A e \in Events :
    /\ row[e].status = "ABSENT" => row[e].attempts = 0
    /\ row[e].status = "FAILED" =>
         row[e].attempts + Cardinality(Holders(e))
           <= MaxOutboxAttempts - 1 + Cardinality(Replicas)

\* "Concurrent claims never intersect" (GetPendingRecords): no event is in
\* the hands of two replicas.
ClaimsNeverIntersect ==
  \A p, q \in Replicas : \A e \in Events : Holds(p, e) /\ Holds(q, e) => p = q

\* A claim is a lease: as long as a replica works on a record, the row is
\* PROCESSING and not stale, so that no other replica can be handed it.
ClaimsAreFresh ==
  \A r \in Replicas : \A e \in Events :
    Holds(r, e) => row[e].status = "PROCESSING" /\ row[e].age <= StaleAfter

\* A record in a replica's hands carries the attempt count of its row, so the
\* check against MaxAttempts (publishRecord) is made on a current value.
SnapshotIsCurrent ==
  \A r \in Replicas : \A x \in batch[r] : x.attempts = row[x.ev].attempts

\* Why claims never intersect when batches keep up with them.
ClaimInv == ClaimsNeverIntersect /\ ClaimsAreFresh /\ SnapshotIsCurrent

\* StatusProcessing "marks a record as claimed by a publisher instance for an
\* in-flight publish attempt": a record in flight is not offered as PENDING.
PendingIsUnheld ==
  \A e \in Events : row[e].status = "PENDING" => \A r \in Replicas : ~Holds(r, e)

\* Stop "gracefully shuts down the polling loop": a claim always has a living
\* holder, so no event waits for processingClaimStaleAfter after a rollout.
StopLeavesNoClaim ==
  \A e \in Events :
    row[e].status = "PROCESSING" => \E r \in Replicas : run[r] # "down" /\ Holds(r, e)

\* "JetStream drops a second publish of the same event" (EventHeaders): the
\* stream holds at most one copy of an event.
StoredAtMostOnce == \A e \in Events : stored[e] <= 1

\* The outbox as the service sees it: an uncommitted event does not exist, a
\* deleted row is a finished event, a FAILED row a parked one.
PromisedState(e) ==
  CASE tx[e] # "committed" -> "none"
    [] tx[e] = "committed" /\ row[e].status = "ABSENT" -> "done"
    [] tx[e] = "committed" /\ row[e].status = "FAILED" -> "parked"
    [] OTHER -> "accepted"

Promise == INSTANCE ReliableOutbox WITH
  state <- [e \in Events |-> PromisedState(e)],
  delivered <- {e \in Events : Stored(e)}

\* The workers implement the promise of the outbox: nothing they do, with
\* claims overlapping and statements lost, forgets an event that is not in
\* the stream, delivers one that was never accepted, or takes a parked event
\* back into service.
ImplementsPromise == Promise!Spec

\* Every event of a committed transaction is delivered and deleted, or parked
\* for troubleshooting: it is not starved behind older events, left
\* PROCESSING by a dead replica, or retried for ever.
EveryEventResolved ==
  \A e \in Events :
    (tx[e] = "committed") ~> (row[e].status \in {"ABSENT", "FAILED"})
=============================================================================
