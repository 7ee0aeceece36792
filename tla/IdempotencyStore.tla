-------------------------- MODULE IdempotencyStore --------------------------
(***************************************************************************)
(* The processed_events table (idempotency.go): claims, marks and the      *)
(* daily Prune.  Every statement commits on its own.  Time is counted in   *)
(* days, the grain of the retention.                                       *)
(***************************************************************************)
EXTENDS Integers, FiniteSets

CONSTANTS
  EventIds,       \* the ids events have
  Consumers,      \* the independent consumers of the events
  Retention,      \* days a claim is kept (DefaultProcessedRetention)
  PruneBatchSize, \* rows one DELETE removes at most
  LastDay         \* bound: the clock stops here

ASSUME StoreAssumption ==
  /\ Retention \in Nat
  /\ PruneBatchSize \in Nat \ {0}
  /\ LastDay \in Nat

VARIABLES
  processed, \* the rows, as the day each key was recorded on
  today,     \* the clock
  cutoff     \* the cutoff of the Prune that is running, or NotRunning

storeVars == <<processed, today, cutoff>>

Keys == EventIds \X Consumers
Absent == -1
NotRunning == -1

\* Mutant: the primary key is event_id alone.
ProcessedByAny(id, c) == \E d \in Consumers : processed[<<id, d>>] # Absent

\* There is a row for the event and the consumer.
Processed(id, c) == processed[<<id, c>>] # Absent

StoreTypeOK ==
  /\ processed \in [Keys -> 0 .. LastDay \cup {Absent}]
  /\ today \in 0 .. LastDay
  /\ cutoff \in 0 .. LastDay \cup {NotRunning}

StoreInit ==
  /\ processed = [k \in Keys |-> Absent]
  /\ today = 0
  /\ cutoff = NotRunning

\* INSERT ... ON CONFLICT DO NOTHING, the statement of Claim and MarkProcessed.
Record(id, c) ==
  /\ processed' = IF Processed(id, c) THEN processed
                  ELSE [processed EXCEPT ![<<id, c>>] = today]
  /\ UNCHANGED <<today, cutoff>>

\* Mutant: an upsert, which reports a row for a duplicate too.
ClaimUpserts(id, c, won) == Record(id, c) /\ won

\* Claim returns won, and no error.
Claim(id, c, won) == Record(id, c) /\ won = ~Processed(id, c)

\* AlreadyProcessed returns exists, and no error.
AlreadyProcessed(id, c, exists) == exists = Processed(id, c) /\ UNCHANGED storeVars

MarkProcessed(id, c) == Record(id, c)

\* Any of them returns an error; the statement may have committed.
StatementFails(id, c) == Record(id, c) \/ UNCHANGED storeVars

-----------------------------------------------------------------------------
(* Prune, one at a time.                                                   *)

Expired == {k \in Keys : processed[k] # Absent /\ processed[k] < cutoff}

\* Mutant: the cutoff is a day late.
PruneStartsLate ==
  /\ cutoff = NotRunning
  /\ today > 0 /\ today + 1 >= Retention
  /\ cutoff' = today + 1 - Retention
  /\ UNCHANGED <<processed, today>>

\* The cutoff is computed once.  (Before the retention has passed for the
\* first time there is nothing to delete.)
PruneStart ==
  /\ cutoff = NotRunning
  /\ today >= Retention
  /\ cutoff' = today - Retention
  /\ UNCHANGED <<processed, today>>

\* One DELETE of the expired rows D; the loop ends when it is done.
DeleteBatch(D, done) ==
  /\ cutoff # NotRunning
  /\ Cardinality(D) = IF Cardinality(Expired) < PruneBatchSize
                      THEN Cardinality(Expired) ELSE PruneBatchSize
  /\ processed' = [k \in Keys |-> IF k \in D THEN Absent ELSE processed[k]]
  /\ cutoff' = IF done THEN NotRunning ELSE cutoff
  /\ UNCHANGED today

\* Mutant: the loop ends on a full batch.
PruneBatchStopsEarly ==
  \E D \in SUBSET Expired : DeleteBatch(D, Cardinality(D) <= PruneBatchSize)

\* The loop ends on a batch that is not full.
PruneBatch ==
  \E D \in SUBSET Expired : DeleteBatch(D, Cardinality(D) < PruneBatchSize)

\* The statement fails or the context is cancelled: Prune returns an error.
PruneFails ==
  /\ cutoff # NotRunning
  /\ cutoff' = NotRunning
  /\ UNCHANGED <<processed, today>>

NextDay ==
  /\ today < LastDay
  /\ today' = today + 1
  /\ UNCHANGED <<processed, cutoff>>
=============================================================================
