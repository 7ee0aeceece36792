----------------------- MODULE OutboxPublisherProofs ------------------------
(***************************************************************************)
(* The theorems about Publisher, for every set of events and replicas,     *)
(* every batch size, window and bound, and every mix of faults.            *)
(***************************************************************************)
EXTENDS OutboxPublisher, OutboxWorkersProofs

LEMMA PublisherIsWorker == Spec => WorkerSpec
<1>1. Next => WorkerNext
  BY DEF Next, Work, PublishRecord, WorkerNext
<1> QED  BY <1>1, PTL DEF Spec, WorkerSpec

LEMMA PublisherIsLoop == Spec => LoopSpec
  BY PublisherIsWorker, WorkersLoop, PTL

\* Every variable keeps its type: in particular no statement of
\* repository_sql.go leaves a status, an attempt count or a claim time
\* outside the values the claim query distinguishes.
THEOREM PublisherTypeOK == Spec => []TypeOK
  BY PublisherIsLoop, LoopType, PTL

\* No crash, lost statement, late message or overlapping claim makes
\* publishRecord delete an event that the stream does not have (NoLoss), or
\* publish one whose transaction did not commit (NoPhantom).
THEOREM PublisherDelivery == Spec => [](NoLoss /\ NoPhantom)
<1>1. DeliveryInv => NoLoss /\ NoPhantom
  BY DEF DeliveryInv
<1> QED  BY <1>1, PublisherIsWorker, WorkersDelivery, PTL

\* The inductive invariant behind PublisherDelivery.
THEOREM PublisherDeliveryInv == Spec => []DeliveryInv
  BY PublisherIsWorker, WorkersDelivery, PTL

\* A row can be claimed exactly as long as it has attempts left (MarkAsFailed).
THEOREM PublisherStatus == Spec => []StatusMatchesAttempts
  BY PublisherIsLoop, LoopStatus, PTL

\* However claims overlap, an event is failed at most once per replica beyond
\* the failure that parks it.
THEOREM PublisherAttempts == Spec => []AttemptsBounded
  BY PublisherIsLoop, LoopAttempts, PTL

\* A parked event is never taken back into service.
THEOREM PublisherTerminal == Spec => FailedIsTerminal
  BY PublisherIsLoop, LoopTerminal, PTL

\* "Concurrent claims never intersect" (GetPendingRecords), under the
\* assumption its comment makes: no batch outlives its claim.
THEOREM PublisherClaims ==
  ASSUME SlowBatches = FALSE
  PROVE  Spec => []ClaimsNeverIntersect
<1>1. ClaimInv => ClaimsNeverIntersect
  BY DEF ClaimInv
<1> QED  BY <1>1, PublisherIsLoop, LoopClaims, PTL

\* A claim is then a lease: no row a worker holds is up for the next claim.
THEOREM PublisherLeases ==
  ASSUME SlowBatches = FALSE
  PROVE  Spec => []ClaimsAreFresh
<1>1. ClaimInv => ClaimsAreFresh
  BY DEF ClaimInv
<1> QED  BY <1>1, PublisherIsLoop, LoopClaims, PTL

\* And the attempts that publishRecord compares with MaxAttempts are those of
\* the row.
THEOREM PublisherSnapshots ==
  ASSUME SlowBatches = FALSE
  PROVE  Spec => []SnapshotIsCurrent
<1>1. ClaimInv => SnapshotIsCurrent
  BY DEF ClaimInv
<1> QED  BY <1>1, PublisherIsLoop, LoopClaims, PTL

\* The workers implement the promise of the outbox, ReliableOutbox.
THEOREM PublisherImplementsPromise == Spec => ImplementsPromise
  BY PublisherIsWorker, WorkersPromise, PTL DEF ImplementsPromise
=============================================================================
