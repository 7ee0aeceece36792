-------------------------- MODULE OutboxRepository --------------------------
(***************************************************************************)
(* The outbox_events table (outbox.go, repository_sql.go): the business    *)
(* transaction that inserts an event and the statements by which publisher *)
(* replicas claim, delete and fail rows.  Every SQL statement commits on   *)
(* its own, so each is one atomic operator on the table.                   *)
(*                                                                         *)
(* The time of a claim (last_attempt_at) is kept as its age in clock       *)
(* ticks, and only while the row is PROCESSING, the status that reads it.  *)
(***************************************************************************)
EXTENDS Event, FiniteSets

CONSTANTS
  BatchSize,         \* LIMIT of a claim
  MaxOutboxAttempts, \* failed attempts after which a row is parked
  StaleAfter         \* ticks a claim is respected (processingClaimStaleAfter)

ASSUME RepositoryAssumption ==
  /\ BatchSize \in Nat
  /\ MaxOutboxAttempts \in Nat \ {0}
  /\ StaleAfter \in Nat

VARIABLES
  tx,  \* the business transaction that creates each event
  row  \* the committed row of each event

tableVars == <<tx, row>>

Status == {"ABSENT", "PENDING", "PROCESSING", "FAILED"}
OutboxRecord == [status : Status, attempts : Nat, age : 0 .. StaleAfter + 1]

Row(status, attempts, age) == [status |-> status, attempts |-> attempts, age |-> age]
NoRow == Row("ABSENT", 0, 0)
NewRow == Row("PENDING", 0, 0)

TableTypeOK ==
  /\ tx \in [Events -> {"none", "open", "committed", "aborted"}]
  /\ row \in [Events -> OutboxRecord]

TableInit ==
  /\ tx = [e \in Events |-> "none"]
  /\ row = [e \in Events |-> NoRow]

-----------------------------------------------------------------------------
(* The business transaction.                                               *)

\* Mutant: the insert runs on the pool instead of the caller's transaction.
CreateOutboxRecordOutsideTx(e) ==
  /\ tx[e] = "none"
  /\ tx' = [tx EXCEPT ![e] = "open"]
  /\ row' = [row EXCEPT ![e] = NewRow]

\* The domain change and the INSERT, in one transaction not yet committed:
\* under READ COMMITTED no publisher sees the row.
CreateOutboxRecordInTx(e) ==
  /\ tx[e] = "none"
  /\ tx' = [tx EXCEPT ![e] = "open"]
  /\ UNCHANGED row

\* COMMIT makes the domain change durable and the row visible.
Commit(e) ==
  /\ tx[e] = "open"
  /\ tx' = [tx EXCEPT ![e] = "committed"]
  /\ row' = [row EXCEPT ![e] = NewRow]

\* The deferred Rollback, after any error on the way to COMMIT.
Rollback(e) ==
  /\ tx[e] = "open"
  /\ tx' = [tx EXCEPT ![e] = "aborted"]
  /\ UNCHANGED row

-----------------------------------------------------------------------------
(* The statements of a publisher.                                          *)

\* Mutant: the stale test is off by one tick.
ClaimableEarly(e) ==
  \/ row[e].status = "PENDING"
  \/ row[e].status = "PROCESSING" /\ row[e].age >= StaleAfter

\* Mutant: a claim is respected for ever.
ClaimableNeverStale(e) == row[e].status = "PENDING"

\* The WHERE clause of the claim's sub-select.
Claimable(e) ==
  \/ row[e].status = "PENDING"
  \/ row[e].status = "PROCESSING" /\ row[e].age > StaleAfter

\* ORDER BY created_at LIMIT BatchSize FOR UPDATE SKIP LOCKED, when other
\* transactions hold the locks of the rows in locked.
Selected(locked) ==
  LET free == {e \in Events \ locked : Claimable(e)}
  IN  {e \in free : Cardinality({f \in free : f < e}) < BatchSize}

\* Mutant: rows are returned without being flagged PROCESSING.
SelectPendingRecords(S) == UNCHANGED row

\* The row of e, claimed age ticks ago.
ClaimedRow(e, age) == Row("PROCESSING", row[e].attempts, age)

\* The UPDATE ... RETURNING that claims the rows S.
GetPendingRecords(S) ==
  row' = [e \in Events |->
            IF e \in S THEN ClaimedRow(e, 0) ELSE row[e]]

\* Mutant: the row is kept with a status of its own.
MarkAsPublishedRetained(e) == row' = [row EXCEPT ![e].status = "PUBLISHED"]

\* DELETE: no row matches when another replica has deleted it already.
MarkAsPublished(e) == row' = [row EXCEPT ![e] = NoRow]

\* The row of an event whose n-th attempt has failed.
FailedRow(n, parked) == Row(IF parked THEN "FAILED" ELSE "PENDING", n, 0)

\* Mutant: a failed row always goes back to PENDING.
MarkAsFailedNeverParks(e) ==
  IF row[e].status = "ABSENT" THEN UNCHANGED row
  ELSE row' = [row EXCEPT ![e] = FailedRow(@.attempts + 1, FALSE)]

\* Mutant: the attempt is not counted.
MarkAsFailedUncounted(e) ==
  IF row[e].status = "ABSENT" THEN UNCHANGED row
  ELSE row' = [row EXCEPT ![e] = FailedRow(@.attempts, FALSE)]

\* Mutant: the CASE compares with > instead of >=.
MarkAsFailedParksLate(e) ==
  IF row[e].status = "ABSENT" THEN UNCHANGED row
  ELSE row' = [row EXCEPT ![e] =
                 FailedRow(@.attempts + 1, @.attempts + 1 > MaxOutboxAttempts)]

\* UPDATE ... SET attempts + 1, status = CASE ...: it looks neither at the
\* row's status nor at who claimed it.
MarkAsFailed(e) ==
  IF row[e].status = "ABSENT" THEN UNCHANGED row
  ELSE row' = [row EXCEPT ![e] =
                 FailedRow(@.attempts + 1, @.attempts + 1 >= MaxOutboxAttempts)]

\* A tick of the clock: claims grow older (ages past StaleAfter are alike).
AgeClaims ==
  row' = [e \in Events |->
            IF row[e].status = "PROCESSING" /\ row[e].age <= StaleAfter
            THEN ClaimedRow(e, row[e].age + 1) ELSE row[e]]

-----------------------------------------------------------------------------
(* Properties of the table.                                                *)

\* A row is parked exactly when it has used up its attempts, whichever
\* replicas counted them (the CASE of MarkAsFailed): a row that can still be
\* claimed always has an attempt left.
StatusMatchesAttempts ==
  \A e \in Events :
    /\ row[e].status = "FAILED" => row[e].attempts >= MaxOutboxAttempts
    /\ row[e].status \in {"PENDING", "PROCESSING"} => row[e].attempts < MaxOutboxAttempts

\* FAILED is terminal (the comment on MarkAsFailed): a replica that still
\* holds a parked row may delete it or count another failure, but no
\* interleaving makes it publishable again.
FailedIsTerminal ==
  [][\A e \in Events : row[e].status = "FAILED"
                         => row'[e].status \in {"FAILED", "ABSENT"}]_row
=============================================================================
