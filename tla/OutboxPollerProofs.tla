------------------------- MODULE OutboxPollerProofs -------------------------
(***************************************************************************)
(* The theorems about OutboxPoller.  What the table and the claims promise *)
(* holds whatever adapter a replica has; that an event is in the stream    *)
(* before its row goes needs the JetStreamAdapter and a connection (see    *)
(* the README).                                                            *)
(***************************************************************************)
EXTENDS OutboxPoller, OutboxWorkersProofs

\* Whatever the adapter does with a record, it does to that record alone.
LEMMA AdaptersSend ==
  ASSUME TypeOK, NEW r \in Replicas, NEW x \in batch[r], PollRecord(r, x)
  PROVE  Sends(x) /\ \E p \in {"published", "failed"} : TakeUp(r, x, p)
<1>0. x.ev \in Events
  BY DEF TypeOK, Record
<1>1. CASE Reject(r, x) \/ PublishJetStream(r, x)
  BY <1>1, PublishSends
<1>2. CASE PublishNATS(r, x)
  <2>1. CASE TakeUp(r, x, "published") /\ PublishCore(x.ev)
    BY <1>0, <2>1 DEF PublishCore, AddCopy, Sends, TypeOK, BrokerTypeOK
  <2>2. CASE TakeUp(r, x, "failed") /\ UNCHANGED brokerVars
    BY <2>2 DEF brokerVars, Sends, TypeOK, BrokerTypeOK
  <2> QED  BY <1>2, <2>1, <2>2 DEF PublishNATS
<1>3. CASE SkipPublish(r, x)
  BY <1>3 DEF SkipPublish, brokerVars, Sends, TypeOK, BrokerTypeOK
<1> QED  BY <1>1, <1>2, <1>3 DEF PollRecord, Publish

LEMMA PollerLoopStep == TypeOK /\ Next => LoopNext
  BY AdaptersSend DEF Next, Work, LoopNext

LEMMA PollerIsLoop == Spec => LoopSpec
<1>1. TypeOK /\ [Next]_vars => [LoopNext]_vars
  BY PollerLoopStep
<1>2. TypeOK /\ [LoopNext]_vars => TypeOK'
  BY TypeStep, Stutter
<1> QED  BY <1>1, <1>2, TypeInit, PTL DEF Spec, LoopSpec

LEMMA PollerIsWorker ==
  ASSUME NATSReplicas = {}, Unconnected = {}
  PROVE  Spec => WorkerSpec
<1>1. Next => WorkerNext
  BY DEF Next, Work, PollRecord, Publish, WorkerNext
<1> QED  BY <1>1, PTL DEF Spec, WorkerSpec

-----------------------------------------------------------------------------
(* For every mix of adapters.                                              *)

\* Every variable keeps its type: no adapter and no statement leaves a status,
\* an attempt count or a claim time outside what the claim query distinguishes.
THEOREM PollerTypeOK == Spec => []TypeOK
  BY PollerIsLoop, LoopType, PTL

\* OutboxPoller has no check of its own against the attempts: the CASE of
\* MarkAsFailed alone keeps an exhausted row from being claimed again.
THEOREM PollerStatus == Spec => []StatusMatchesAttempts
  BY PollerIsLoop, LoopStatus, PTL

\* However claims overlap, an event is failed at most once per poller beyond
\* the failure that parks it.
THEOREM PollerAttempts == Spec => []AttemptsBounded
  BY PollerIsLoop, LoopAttempts, PTL

\* No poller takes a parked event back into service.
THEOREM PollerTerminal == Spec => FailedIsTerminal
  BY PollerIsLoop, LoopTerminal, PTL

\* An event whose transaction did not commit is in no poller's hands and on
\* no subject (CreateOutboxRecordInTx).
THEOREM PollerSendsCommitted == Spec => []NoPhantom
<1>1. HandsInv => NoPhantom
  BY DEF HandsInv
<1> QED  BY <1>1, PollerIsLoop, LoopHands, PTL

\* "Concurrent claims never intersect" (GetPendingRecords), under the
\* assumption its comment makes: no batch outlives its claim.
THEOREM PollerClaims ==
  ASSUME SlowBatches = FALSE
  PROVE  Spec => []ClaimsNeverIntersect
<1>1. ClaimInv => ClaimsNeverIntersect
  BY DEF ClaimInv
<1> QED  BY <1>1, PollerIsLoop, LoopClaims, PTL

\* And what a poller has read of a row is then still true of it.
THEOREM PollerSnapshots ==
  ASSUME SlowBatches = FALSE
  PROVE  Spec => []SnapshotIsCurrent
<1>1. ClaimInv => SnapshotIsCurrent
  BY DEF ClaimInv
<1> QED  BY <1>1, PollerIsLoop, LoopClaims, PTL

\* Stop lets the loop finish its batch (poller.go, Stop and run): as long as
\* pollers only end that way, every PROCESSING row is in a living poller's
\* hands.  Batches may be slow and claims overlap.
THEOREM StopKeepsClaimsHeld ==
  ASSUME FaultKinds \subseteq {"stop"}
  PROVE  Spec => []StopLeavesNoClaim
  BY PollerIsLoop, LoopStops, PTL

-----------------------------------------------------------------------------
(* At most one copy.                                                       *)

\* The stream has an event only when nobody will publish it again: its row is
\* gone, or the poller that published it is about to delete the row.
PublishedForGood ==
  \A e \in Events :
    /\ stored[e] <= 1 /\ late[e] = 0
    /\ Stored(e) => \/ row[e].status = "ABSENT"
                    \/ \E r \in Replicas : phase[r] = "published" /\ cur[r] = e

LEMMA OnceInit == Init => PublishedForGood
<1> SUFFICES ASSUME Init, NEW e \in Events
             PROVE  stored[e] <= 1 /\ late[e] = 0 /\ ~Stored(e)
  BY DEF PublishedForGood
<1>1. stored[e] = 0 /\ late[e] = 0
  BY DEF Init, BrokerInit
<1> QED  BY <1>1 DEF Stored

\* A row in a poller's hands is in nobody else's, and not up for a claim.
LEMMA HeldAlone ==
  ASSUME TypeOK, HandsInv, ClaimInv, NEW r \in Replicas, NEW e \in Events, Holds(r, e)
  PROVE  /\ row[e].status = "PROCESSING" /\ ~Claimable(e)
         /\ \A q \in Replicas : phase[q] # "ready" /\ cur[q] = e => q = r
<1>1. row[e].status = "PROCESSING" /\ row[e].age <= StaleAfter /\ row[e].age \in Nat
  BY DEF ClaimInv, ClaimsAreFresh, TypeOK, TableTypeOK, OutboxRecord
<1>2. ~Claimable(e)
  BY <1>1, RepositoryAssumption DEF RepositoryAssumption, Claimable
<1>3. ASSUME NEW q \in Replicas, phase[q] # "ready", cur[q] = e
      PROVE  q = r
  BY <1>3 DEF HandsInv, MarksAreHeld, ClaimInv, ClaimsNeverIntersect
<1> QED  BY <1>1, <1>2, <1>3

LEMMA OnceStep ==
  ASSUME FaultKinds \subseteq {"stop"}, MaxLate = 0,
         TypeOK, HandsInv, ClaimInv, NobodyDrops, PublishedForGood, Next
  PROVE  PublishedForGood'
<1> DEFINE Marked(e) == \E r \in Replicas : phase[r] = "published" /\ cur[r] = e
           Good(e) == /\ stored[e] <= 1 /\ late[e] = 0
                      /\ Stored(e) => row[e].status = "ABSENT" \/ Marked(e)
<1>0. PublishedForGood' <=> \A e \in Events : Good(e)'
  BY DEF PublishedForGood
<1> SUFFICES ASSUME NEW e \in Events
             PROVE  Good(e)'
  BY <1>0
<1>1. Good(e)
  BY DEF PublishedForGood
<1>2. ASSUME Tick PROVE Good(e)'
  <2>1. row'[e].status = row[e].status
    BY <1>2 DEF Tick, AgeClaims, ClaimedRow, Row
  <2> QED  BY <1>1, <1>2, <2>1 DEF Tick, workerVars, Stored
<1>3. ASSUME NEW f \in Events, Business(f) PROVE Good(e)'
  <2>1. UNCHANGED <<stored, late, phase, cur>>
    BY <1>3 DEF Business, brokerVars, workerVars
  <2>2. row'[e] = row[e] \/ tx[e] # "committed"
    BY <1>3
    DEF Business, CreateOutboxRecordInTx, Commit, Rollback, TypeOK, TableTypeOK
  <2>3. Stored(e) => tx[e] = "committed"
    BY DEF HandsInv, NoPhantom
  <2> QED  BY <1>1, <2>1, <2>2, <2>3 DEF Stored
<1>4. ASSUME NEW f \in Events, Network(f) PROVE FALSE
  BY <1>4 DEF Network, LateArrival, LateLoss, PublishedForGood
<1>5. ASSUME NEW r \in Replicas, Poll(r) PROVE Good(e)'
  <2>1. PICK S \in SUBSET Events : ClaimRows(r, S)
    BY <1>5 DEF Poll
  <2>2. UNCHANGED <<stored, late, phase, cur>>
    BY <2>1, ClaimRowsFacts
  <2>3. Claimable(e) => ~Stored(e)
    <3> SUFFICES ASSUME Claimable(e), Marked(e)
                 PROVE  FALSE
      BY <1>1 DEF Claimable
    <3> QED  BY HeldAlone DEF HandsInv, MarksAreHeld
  <2>4. Stored(e) => row'[e] = row[e]
    BY <2>1, <2>3, ClaimRowsFacts
  <2> QED  BY <1>1, <2>2, <2>4 DEF Stored
<1>6. ASSUME NEW r \in Replicas, Mark(r) PROVE Good(e)'
  <2>1. UNCHANGED <<stored, late>>
    BY <1>6 DEF Mark, brokerVars
  <2>2. \A q \in Replicas \ {r} : phase'[q] = phase[q] /\ cur'[q] = cur[q]
    BY <1>6, FinishRecordHolds DEF Mark
  <2>3. CASE cur[r] # e
    <3>1. row'[e] = row[e]
      BY <1>6, <2>3
      DEF Mark, MarkStatement, MarkAsPublished, MarkAsFailed, TypeOK, TableTypeOK
    <3>2. Marked(e) => Marked(e)'
      BY <2>2, <2>3
    <3> QED  BY <1>1, <2>1, <3>1, <3>2 DEF Stored
  <2>4. CASE cur[r] = e /\ phase[r] = "published"
    <3>1. row'[e].status = "ABSENT"
      BY <1>6, <2>4 DEF Mark, MarkStatement, MarkAsPublished, NoRow, Row, TypeOK, TableTypeOK
    <3> QED  BY <1>1, <2>1, <3>1 DEF Stored
  <2>5. CASE cur[r] = e /\ phase[r] = "failed"
    <3>1. Holds(r, e)
      BY <2>5 DEF HandsInv, MarksAreHeld
    <3>2. row[e].status # "ABSENT" /\ ~Marked(e)
      BY <2>5, <3>1, HeldAlone
    <3> QED  BY <1>1, <2>1, <3>2 DEF Stored
  <2> QED  BY <1>6, <2>3, <2>4, <2>5 DEF Mark, MarkStatement
<1>7. ASSUME NEW r \in Replicas, Exit(r) \/ Restart(r) \/ Stop(r) PROVE Good(e)'
  <2>1. UNCHANGED <<row, stored, late, phase, cur>>
    BY <1>7 DEF Exit, Restart, Stop, tableVars, brokerVars
  <2> QED  BY <1>1, <2>1 DEF Stored
<1>8. ASSUME NEW r \in Replicas, NEW x \in batch[r], PollRecord(r, x) PROVE Good(e)'
  <2>0. x.ev \in Events /\ Holds(r, x.ev)
    BY DEF TypeOK, Record, Holds
  <2>1. PICK p \in {"published", "failed"} : TakeUp(r, x, p)
    BY <1>8, AdaptersSend
  <2>2. /\ UNCHANGED row /\ phase[r] = "ready"
        /\ phase'[r] = p /\ cur'[r] = x.ev
        /\ \A q \in Replicas \ {r} : phase'[q] = phase[q] /\ cur'[q] = cur[q]
    BY <2>1 DEF TakeUp, tableVars, TypeOK
  <2>3. CASE e # x.ev
    <3>1. stored'[e] = stored[e] /\ late'[e] = late[e]
      BY <1>8, <2>3, AdaptersSend DEF Sends
    <3>2. Marked(e) => Marked(e)'
      BY <2>2
    <3> QED  BY <1>1, <2>2, <3>1, <3>2 DEF Stored
  <2>4. CASE e = x.ev
    <3>1. stored[e] = 0
      <4>1. ~Stored(e)
        BY <1>1, <2>0, <2>2, <2>4, HeldAlone
      <4> QED  BY <4>1 DEF Stored, TypeOK, BrokerTypeOK
    <3>2. late'[e] = 0 /\ stored'[e] <= 1 /\ (stored'[e] > 0 => phase'[r] = "published")
      <4>1. CASE Reject(r, x) \/ SkipPublish(r, x)
        BY <1>1, <3>1, <4>1 DEF Reject, SkipPublish, brokerVars
      <4>2. CASE PublishJetStream(r, x)
        BY <1>1, <2>2, <2>4, <3>1, <4>2
        DEF PublishJetStream, TakeUp, PublishMsgAcked, PublishMsgFailed, Store, AddCopy,
            TypeOK, BrokerTypeOK
      <4>3. CASE PublishNATS(r, x)
        BY <1>1, <2>2, <2>4, <3>1, <4>3
        DEF PublishNATS, TakeUp, PublishCore, AddCopy, brokerVars, TypeOK, BrokerTypeOK
      <4> QED  BY <1>8, <4>1, <4>2, <4>3 DEF PollRecord, Publish
    <3>3. cur'[r] = e
      BY <2>2, <2>4
    <3> QED  BY <3>2, <3>3 DEF Stored
  <2> QED  BY <2>3, <2>4
<1>9. ASSUME NEW r \in Replicas PROVE ~MarkCancelled(r)
  BY DEF MarkCancelled, NobodyDrops
<1> QED
  BY <1>2, <1>3, <1>4, <1>5, <1>6, <1>7, <1>8, <1>9, OnlyStops
  DEF Next, Environment, Work, Serve, Disturb

\* "JetStream drops a second publish of the same event" (headers.go) is not
\* even needed as long as batches keep up with their claims, pollers end
\* through Stop and no copy is delayed: each event is published once, by
\* whichever adapter, inside or outside the duplicate window.
THEOREM RestartsStoreNothingTwice ==
  ASSUME SlowBatches = FALSE, FaultKinds \subseteq {"stop"}, MaxLate = 0
  PROVE  Spec => []StoredAtMostOnce
<1>1. TypeOK /\ HandsInv /\ ClaimInv /\ NobodyDrops /\ PublishedForGood /\ [Next]_vars
        => PublishedForGood'
  <2>1. CASE UNCHANGED vars
    BY <2>1
    DEF vars, tableVars, brokerVars, workerVars, PublishedForGood, Stored
  <2> QED  BY <2>1, OnceStep
<1>2. PublishedForGood => StoredAtMostOnce
  BY DEF PublishedForGood, StoredAtMostOnce
<1> QED
  BY <1>1, <1>2, OnceInit, PollerIsLoop, LoopType, LoopHands, LoopClaims, LoopStops, PTL
  DEF Spec

-----------------------------------------------------------------------------
(* Over JetStream, all replicas connected.                                 *)

\* Stopping, cancelling and crashing a poller loses no event.
THEOREM PollerDelivery ==
  ASSUME NATSReplicas = {}, Unconnected = {}
  PROVE  Spec => []NoLoss
<1>1. DeliveryInv => NoLoss
  BY DEF DeliveryInv
<1> QED  BY <1>1, PollerIsWorker, WorkersDelivery, PTL

\* The poller implements the promise of the outbox.
THEOREM PollerImplementsPromise ==
  ASSUME NATSReplicas = {}, Unconnected = {}
  PROVE  Spec => ImplementsPromise
  BY PollerIsWorker, WorkersPromise, PTL DEF ImplementsPromise
=============================================================================
