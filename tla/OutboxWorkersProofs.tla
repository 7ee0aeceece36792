------------------------ MODULE OutboxWorkersProofs -------------------------
(***************************************************************************)
(* Lemmas about the steps of OutboxWorkers.  What concerns the table and   *)
(* the claims holds however a replica publishes (LoopNext); what concerns  *)
(* the stream is for the specifications that publish with PublishMsg       *)
(* (WorkerNext): OutboxPublisher, and OutboxPoller over JetStream.         *)
(***************************************************************************)
EXTENDS OutboxWorkers, FiniteSetTheorems, TLAPS

\* Every step of workers that publish with PublishMsg.
WorkerNext ==
  \/ Environment
  \/ \E r \in Replicas :
       \/ Serve(r)
       \/ Disturb(r)
       \/ \E x \in batch[r] : Reject(r, x) \/ PublishJetStream(r, x)

\* A publish of x, whatever it is: it touches no other event.
Sends(x) ==
  /\ BrokerTypeOK'
  /\ \A e \in Events \ {x.ev} : stored'[e] = stored[e] /\ late'[e] = late[e]

\* Every step of workers that publish by whatever means.
LoopNext ==
  \/ Environment
  \/ \E r \in Replicas :
       \/ Serve(r)
       \/ Disturb(r)
       \/ \E x \in batch[r] :
            Sends(x) /\ \E p \in {"published", "failed"} : TakeUp(r, x, p)

-----------------------------------------------------------------------------
(* The statements of the repository.                                       *)

\* A claim takes rows that are PENDING or whose claim is stale, nothing else.
LEMMA SelectedClaimable ==
  ASSUME NEW locked
  PROVE  Selected(locked) \subseteq {e \in Events : Claimable(e)}
BY DEF Selected

\* Every statement leaves rows in the place of rows.
LEMMA StatementsKeepRows ==
  ASSUME TableTypeOK
  PROVE  /\ \A S \in SUBSET Events :
               GetPendingRecords(S) => row' \in [Events -> OutboxRecord]
         /\ \A e \in Events : MarkAsPublished(e) => row' \in [Events -> OutboxRecord]
         /\ \A e \in Events : MarkAsFailed(e) => row' \in [Events -> OutboxRecord]
         /\ AgeClaims => row' \in [Events -> OutboxRecord]
<1> USE RepositoryAssumption DEF RepositoryAssumption, TableTypeOK, OutboxRecord, Status, Row
<1>0. \A e \in Events : row[e] \in OutboxRecord
  BY DEF TableTypeOK
<1>1. ASSUME NEW S \in SUBSET Events, GetPendingRecords(S)
      PROVE  row' \in [Events -> OutboxRecord]
  <2>1. ASSUME NEW e \in Events
        PROVE  ClaimedRow(e, 0) \in OutboxRecord
    BY <1>0 DEF ClaimedRow
  <2> QED  BY <1>0, <1>1, <2>1 DEF GetPendingRecords
<1>2. ASSUME NEW e \in Events, MarkAsPublished(e)
      PROVE  row' \in [Events -> OutboxRecord]
  BY <1>2 DEF MarkAsPublished, NoRow
<1>3. ASSUME NEW e \in Events, MarkAsFailed(e)
      PROVE  row' \in [Events -> OutboxRecord]
  <2>1. FailedRow(row[e].attempts + 1, row[e].attempts + 1 >= MaxOutboxAttempts)
          \in OutboxRecord
    BY <1>0 DEF FailedRow
  <2> QED  BY <1>0, <1>3, <2>1 DEF MarkAsFailed
<1>4. ASSUME AgeClaims
      PROVE  row' \in [Events -> OutboxRecord]
  <2>1. ASSUME NEW e \in Events, row[e].age <= StaleAfter
        PROVE  ClaimedRow(e, row[e].age + 1) \in OutboxRecord
    BY <1>0, <2>1 DEF ClaimedRow
  <2> QED  BY <1>0, <1>4, <2>1 DEF AgeClaims
<1> QED  BY <1>1, <1>2, <1>3, <1>4

\* A copy that arrives, or does not, leaves counts in the place of counts.
LEMMA BrokerKeepsCounts ==
  ASSUME BrokerTypeOK, NEW e \in Events
  PROVE  /\ PublishMsgAcked(e) \/ LateArrival(e) \/ LateLoss(e) => BrokerTypeOK'
         /\ PublishMsgFailed(e) => BrokerTypeOK'
<1> USE JetStreamAssumption DEF JetStreamAssumption, BrokerTypeOK
<1>1. Store(e) => /\ stored' \in [Events -> 0 .. 2]
                  /\ dupAge' \in [Events -> 0 .. DupWindow]
  BY DEF Store, AddCopy
<1>2. CASE PublishMsgAcked(e)
  BY <1>1, <1>2 DEF PublishMsgAcked, PublishMsgFailed
<1>3. CASE LateArrival(e)
  BY <1>1, <1>3 DEF LateArrival, PublishMsgFailed
<1>4. CASE LateLoss(e)
  BY <1>4 DEF LateLoss
<1>5. CASE PublishMsgFailed(e)
  BY <1>5 DEF PublishMsgFailed
<1> QED  BY <1>2, <1>3, <1>4, <1>5

-----------------------------------------------------------------------------
(* Type correctness.                                                       *)

LEMMA TypeInit == Init => TypeOK
  BY RepositoryAssumption, JetStreamAssumption
  DEF RepositoryAssumption, JetStreamAssumption, Init, TableInit, BrokerInit, TypeOK,
      TableTypeOK, BrokerTypeOK, OutboxRecord, Status, NoRow, Row, RunState, Phase

\* What a step does to the replicas alone keeps their types.
LEMMA FinishRecordType ==
  ASSUME TypeOK, NEW r \in Replicas, FinishRecord(r)
  PROVE  /\ batch' \in [Replicas -> SUBSET Record]
         /\ phase' \in [Replicas -> Phase]
         /\ cur' \in [Replicas -> Events \cup {NoEvent}]
  BY DEF FinishRecord, TypeOK, Phase

LEMMA TypeStep ==
  ASSUME TypeOK, LoopNext
  PROVE  TypeOK'
<1>1. ASSUME Tick PROVE TypeOK'
  <2>1. dupAge' \in [Events -> 0 .. DupWindow]
    BY <1>1, JetStreamAssumption
    DEF JetStreamAssumption, Tick, AgeMsgIds, TypeOK, BrokerTypeOK
  <2> QED
    BY <1>1, <2>1, StatementsKeepRows
    DEF Tick, TypeOK, TableTypeOK, BrokerTypeOK, workerVars
<1>2. ASSUME NEW e \in Events, Business(e) PROVE TypeOK'
  <2>1. tx' \in [Events -> {"none", "open", "committed", "aborted"}]
    BY <1>2 DEF Business, CreateOutboxRecordInTx, Commit, Rollback, TypeOK, TableTypeOK
  <2>2. row' \in [Events -> OutboxRecord]
    BY <1>2, RepositoryAssumption
    DEF RepositoryAssumption, Business, CreateOutboxRecordInTx, Commit, Rollback, TypeOK,
        TableTypeOK, NewRow, Row, OutboxRecord, Status
  <2> QED
    BY <1>2, <2>1, <2>2
    DEF Business, TypeOK, TableTypeOK, BrokerTypeOK, brokerVars, workerVars
<1>3. ASSUME NEW e \in Events, Network(e) PROVE TypeOK'
  BY <1>3, BrokerKeepsCounts
  DEF Network, TypeOK, TableTypeOK, tableVars, workerVars
<1>4. ASSUME NEW r \in Replicas, Serve(r) PROVE TypeOK'
  <2>1. CASE Poll(r)
    <3>1. PICK S \in SUBSET Events :
            /\ ClaimRows(r, S)
            /\ batch' = [batch EXCEPT ![r] =
                 {[ev |-> e, attempts |-> row[e].attempts] : e \in S}]
            /\ UNCHANGED faults
      BY <2>1 DEF Poll
    <3>2. \A e \in Events : row[e].attempts \in Nat
      BY DEF TypeOK, TableTypeOK, OutboxRecord
    <3>3. batch' \in [Replicas -> SUBSET Record]
      <4>1. {[ev |-> e, attempts |-> row[e].attempts] : e \in S} \in SUBSET Record
        BY <3>2 DEF Record
      <4> QED  BY <3>1, <4>1 DEF TypeOK
    <3>4. row' \in [Events -> OutboxRecord]
      BY <3>1, StatementsKeepRows DEF ClaimRows, TypeOK
    <3> QED
      BY <3>1, <3>3, <3>4 DEF ClaimRows, TypeOK, TableTypeOK, BrokerTypeOK, brokerVars
  <2>2. CASE Mark(r)
    <3>1. row' \in [Events -> OutboxRecord]
      <4>1. CASE cur[r] \in Events
        BY <2>2, <4>1, StatementsKeepRows DEF Mark, MarkStatement, TypeOK
      <4>2. CASE cur[r] \notin Events
        BY <2>2, <4>2 DEF Mark, MarkStatement, MarkAsPublished, MarkAsFailed, TypeOK, TableTypeOK
      <4> QED  BY <4>1, <4>2
    <3> QED
      BY <2>2, <3>1, FinishRecordType DEF Mark, TypeOK, TableTypeOK, BrokerTypeOK, brokerVars
  <2>3. CASE MarkCancelled(r)
    BY <2>3, FinishRecordType
    DEF MarkCancelled, TypeOK, TableTypeOK, BrokerTypeOK, tableVars, brokerVars
  <2>4. CASE Exit(r) \/ Restart(r)
    BY <2>4
    DEF Exit, Restart, TypeOK, TableTypeOK, BrokerTypeOK, tableVars, brokerVars, RunState
  <2> QED  BY <1>4, <2>1, <2>2, <2>3, <2>4 DEF Serve
<1>5. ASSUME NEW r \in Replicas, Disturb(r) PROVE TypeOK'
  <2>0. Fault("crash") \/ Fault("db") \/ Fault("cancel") \/ Fault("stop") => faults' \in Nat
    BY DEF Fault, TypeOK
  <2>1. CASE PollResultLost(r)
    <3>1. PICK S \in SUBSET Events : ClaimRows(r, S) /\ Fault("db") /\ UNCHANGED batch
      BY <2>1 DEF PollResultLost
    <3>2. row' \in [Events -> OutboxRecord]
      BY <3>1, StatementsKeepRows DEF ClaimRows, TypeOK
    <3> QED
      BY <2>0, <3>1, <3>2 DEF ClaimRows, TypeOK, TableTypeOK, BrokerTypeOK, brokerVars
  <2>2. CASE MarkLost(r)
    BY <2>0, <2>2, FinishRecordType
    DEF MarkLost, TypeOK, TableTypeOK, BrokerTypeOK, tableVars, brokerVars
  <2>3. CASE Crash(r)
    BY <2>0, <2>3
    DEF Crash, TypeOK, TableTypeOK, BrokerTypeOK, tableVars, brokerVars, RunState, Phase
  <2>4. CASE Cancel(r) \/ Stop(r)
    BY <2>0, <2>4
    DEF Cancel, Stop, TypeOK, TableTypeOK, BrokerTypeOK, tableVars, brokerVars, RunState
  <2> QED  BY <1>5, <2>1, <2>2, <2>3, <2>4 DEF Disturb
<1>6. ASSUME NEW r \in Replicas, NEW x \in batch[r], NEW p \in {"published", "failed"},
             Sends(x), TakeUp(r, x, p)
      PROVE  TypeOK'
  <2>1. x.ev \in Events
    BY <1>6 DEF TypeOK, Record
  <2>2. /\ phase' \in [Replicas -> Phase]
        /\ cur' \in [Replicas -> Events \cup {NoEvent}]
        /\ UNCHANGED <<tx, row, run, batch, faults>>
    BY <1>6, <2>1 DEF TakeUp, TypeOK, Phase, tableVars
  <2> QED  BY <1>6, <2>2 DEF Sends, TypeOK, TableTypeOK
<1> QED
  BY <1>1, <1>2, <1>3, <1>4, <1>5, <1>6 DEF LoopNext, Environment

\* PublishMsg is one of the ways to publish.
LEMMA PublishSends ==
  ASSUME TypeOK, NEW r \in Replicas, NEW x \in batch[r], Reject(r, x) \/ PublishJetStream(r, x)
  PROVE  Sends(x) /\ \E p \in {"published", "failed"} : TakeUp(r, x, p)
<1>1. x.ev \in Events
  BY DEF TypeOK, Record
<1>2. BrokerTypeOK'
  BY <1>1, BrokerKeepsCounts
  DEF Reject, PublishJetStream, TypeOK, BrokerTypeOK, brokerVars
<1>3. \A e \in Events \ {x.ev} : stored'[e] = stored[e] /\ late'[e] = late[e]
  BY <1>1
  DEF Reject, PublishJetStream, PublishMsgAcked, PublishMsgFailed, Store, AddCopy, brokerVars,
      TypeOK, BrokerTypeOK
<1> QED  BY <1>2, <1>3 DEF Sends, Reject, PublishJetStream

LEMMA WorkerIsLoop == TypeOK /\ WorkerNext => LoopNext
  BY PublishSends DEF WorkerNext, LoopNext

-----------------------------------------------------------------------------
(* Delivery: DeliveryInv is inductive.                                     *)

LEMMA DeliveryInit == Init => DeliveryInv
  BY JetStreamAssumption
  DEF JetStreamAssumption, Init, TableInit, BrokerInit, NoRow, Row, DeliveryInv,
      RowsAreCommitted, MarksAreEarned, DuplicatesAreStored, NoPhantom, NoLoss, Stored, Holds

\* A stored event stays stored.
LEMMA StoreKeeps ==
  ASSUME BrokerTypeOK, DuplicatesAreStored, NEW e \in Events, Store(e)
  PROVE  /\ Stored(e)'
         /\ \A f \in Events : Stored(f) => Stored(f)'
         /\ \A f \in Events : Stored(f)' => f = e \/ Stored(f)
         /\ DuplicatesAreStored'
  BY DEF BrokerTypeOK, DuplicatesAreStored, Store, AddCopy, Stored

\* The rows of a claim belong to committed transactions and stay rows.
LEMMA ClaimRowsFacts ==
  ASSUME TypeOK, NEW r \in Replicas, NEW S \in SUBSET Events, ClaimRows(r, S)
  PROVE  /\ \A e \in S : Claimable(e)
         /\ \A e \in S : row'[e] = ClaimedRow(e, 0)
         /\ \A e \in Events \ S : row'[e] = row[e]
         /\ batch[r] = {}
         /\ UNCHANGED <<tx, stored, dupAge, late, run, phase, cur>>
<1>1. PICK locked : S = Selected(locked)
  BY DEF ClaimRows
<1> QED
  BY <1>1, SelectedClaimable DEF ClaimRows, GetPendingRecords, brokerVars

LEMMA ClaimKeepsDelivery ==
  ASSUME TypeOK, DeliveryInv, NEW r \in Replicas, NEW S \in SUBSET Events, ClaimRows(r, S),
         \A q \in Replicas \ {r} : batch'[q] = batch[q],
         \A e \in Events : Holds(r, e)' => e \in S
  PROVE  DeliveryInv'
<1>1. \A e \in S : tx[e] = "committed"
  BY ClaimRowsFacts DEF Claimable, DeliveryInv, RowsAreCommitted
<1>2. \A e \in Events : row'[e].status = "ABSENT" <=> row[e].status = "ABSENT"
  <2> SUFFICES ASSUME NEW e \in Events
               PROVE  row'[e].status = "ABSENT" <=> row[e].status = "ABSENT"
    OBVIOUS
  <2>1. CASE e \in S
    <3>1. row[e].status # "ABSENT"
      BY <2>1, ClaimRowsFacts DEF Claimable
    <3>2. row'[e] = ClaimedRow(e, 0)
      BY <2>1, ClaimRowsFacts
    <3>3. row'[e].status = "PROCESSING"
      BY <3>2 DEF ClaimedRow, Row
    <3> QED  BY <3>1, <3>3
  <2>2. CASE e \notin S
    BY <2>2, ClaimRowsFacts
  <2> QED  BY <2>1, <2>2
<1>3. phase[r] = "ready"
  BY ClaimRowsFacts DEF DeliveryInv, MarksAreEarned, Holds
<1>4. \A q \in Replicas \ {r} : \A e \in Events : Holds(q, e)' <=> Holds(q, e)
  BY DEF Holds
<1>5. RowsAreCommitted' /\ NoLoss' /\ DuplicatesAreStored'
  BY <1>2, ClaimRowsFacts
  DEF DeliveryInv, RowsAreCommitted, NoLoss, DuplicatesAreStored, Stored
<1>6. MarksAreEarned'
  BY <1>3, <1>4, ClaimRowsFacts DEF DeliveryInv, MarksAreEarned, Stored
<1>7. NoPhantom'
  BY <1>1, <1>4, ClaimRowsFacts DEF DeliveryInv, NoPhantom, Stored
<1> QED  BY <1>5, <1>6, <1>7 DEF DeliveryInv

\* Taking up a record, and finishing it, as seen by everyone's claims.
LEMMA FinishRecordHolds ==
  ASSUME TypeOK, NEW r \in Replicas, FinishRecord(r)
  PROVE  /\ phase'[r] = "ready"
         /\ \A q \in Replicas \ {r} :
              phase'[q] = phase[q] /\ cur'[q] = cur[q] /\ batch'[q] = batch[q]
         /\ \A e \in Events : Holds(r, e)' <=> Holds(r, e) /\ e # cur[r]
  BY DEF FinishRecord, Holds, TypeOK

LEMMA DropKeepsDelivery ==
  ASSUME TypeOK, DeliveryInv, NEW r \in Replicas, FinishRecord(r),
         UNCHANGED <<tx, stored, dupAge, late>>,
         \A e \in Events : row'[e].status = "ABSENT"
                             => row[e].status = "ABSENT" \/ Stored(e),
         \A e \in Events : row[e].status = "ABSENT" => row'[e].status = "ABSENT"
  PROVE  DeliveryInv'
<1>1. RowsAreCommitted' /\ NoLoss' /\ DuplicatesAreStored'
  BY DEF DeliveryInv, RowsAreCommitted, NoLoss, DuplicatesAreStored, Stored
<1>2. \A q \in Replicas \ {r} : \A e \in Events : Holds(q, e)' <=> Holds(q, e)
  BY FinishRecordHolds DEF Holds
<1>3. NoPhantom'
  BY <1>2, FinishRecordHolds DEF DeliveryInv, NoPhantom, Stored
<1>4. MarksAreEarned'
  BY <1>2, FinishRecordHolds DEF DeliveryInv, MarksAreEarned, Stored
<1> QED  BY <1>1, <1>3, <1>4 DEF DeliveryInv

LEMMA DeliveryStep ==
  ASSUME TypeOK, DeliveryInv, WorkerNext
  PROVE  DeliveryInv'
<1> DEFINE Parts == /\ RowsAreCommitted' /\ MarksAreEarned' /\ DuplicatesAreStored'
                    /\ NoPhantom' /\ NoLoss'
<1>0. Parts => DeliveryInv'
  BY DEF DeliveryInv
<1>1. ASSUME Tick PROVE DeliveryInv'
  <2>1. \A e \in Events : row'[e].status = row[e].status
    BY <1>1 DEF Tick, AgeClaims, ClaimedRow, Row
  <2>2. DuplicatesAreStored'
    <3> SUFFICES ASSUME NEW e \in Events, dupAge'[e] < DupWindow
                 PROVE  Stored(e)'
      BY DEF DuplicatesAreStored
    <3>1. dupAge[e] < DupWindow
      BY <1>1, JetStreamAssumption
      DEF JetStreamAssumption, Tick, AgeMsgIds, TypeOK, BrokerTypeOK
    <3> QED  BY <1>1, <3>1 DEF Tick, DeliveryInv, DuplicatesAreStored, Stored
  <2> QED
    BY <1>1, <2>1, <2>2
    DEF Tick, workerVars, DeliveryInv, RowsAreCommitted, MarksAreEarned, NoPhantom, NoLoss,
        Stored, Holds
<1>2. ASSUME NEW e \in Events, Business(e) PROVE DeliveryInv'
  <2>1. UNCHANGED <<stored, dupAge, late, phase, batch, cur>>
    BY <1>2 DEF Business, brokerVars, workerVars
  <2>2. \A f \in Events : tx[f] = "committed" => tx'[f] = "committed"
    BY <1>2
    DEF Business, CreateOutboxRecordInTx, Commit, Rollback, TypeOK, TableTypeOK
  <2>3. \A f \in Events : row'[f] = row[f] \/ (row'[f].status = "PENDING" /\ tx'[f] = "committed")
    BY <1>2
    DEF Business, CreateOutboxRecordInTx, Commit, Rollback, NewRow, Row, TypeOK, TableTypeOK
  <2>4. \A f \in Events : tx'[f] = "committed" => tx[f] = "committed" \/ row'[f].status = "PENDING"
    BY <1>2
    DEF Business, CreateOutboxRecordInTx, Commit, Rollback, NewRow, Row, TypeOK, TableTypeOK
  <2>5. RowsAreCommitted' /\ NoLoss'
    BY <2>1, <2>2, <2>3, <2>4 DEF DeliveryInv, RowsAreCommitted, NoLoss, Stored
  <2>6. MarksAreEarned' /\ DuplicatesAreStored' /\ NoPhantom'
    BY <2>1, <2>2 DEF DeliveryInv, MarksAreEarned, DuplicatesAreStored, NoPhantom, Stored, Holds
  <2> QED  BY <1>0, <2>5, <2>6
<1>3. ASSUME NEW e \in Events, Network(e) PROVE DeliveryInv'
  <2>1. UNCHANGED <<tx, row, phase, batch, cur>>
    BY <1>3 DEF Network, tableVars, workerVars
  <2>2. late[e] > 0
    BY <1>3 DEF Network, LateArrival, LateLoss
  <2>3. \A f \in Events : late'[f] > 0 => late[f] > 0
    BY <1>3 DEF Network, LateArrival, LateLoss, TypeOK, BrokerTypeOK
  <2>4. /\ \A f \in Events : Stored(f) => Stored(f)'
        /\ \A f \in Events : Stored(f)' => f = e \/ Stored(f)
        /\ DuplicatesAreStored'
    BY <1>3, StoreKeeps
    DEF Network, LateArrival, LateLoss, TypeOK, DeliveryInv, DuplicatesAreStored, Stored
  <2>5. NoPhantom'
    BY <2>1, <2>2, <2>3, <2>4 DEF DeliveryInv, NoPhantom, Holds
  <2>6. RowsAreCommitted' /\ NoLoss' /\ MarksAreEarned'
    BY <2>1, <2>4 DEF DeliveryInv, RowsAreCommitted, NoLoss, MarksAreEarned, Holds
  <2> QED  BY <1>0, <2>4, <2>5, <2>6
<1>4. ASSUME NEW r \in Replicas, Poll(r) \/ PollResultLost(r) PROVE DeliveryInv'
  <2>1. PICK S \in SUBSET Events :
          /\ ClaimRows(r, S)
          /\ \/ batch' = [batch EXCEPT ![r] =
                  {[ev |-> e, attempts |-> row[e].attempts] : e \in S}]
             \/ UNCHANGED batch
    BY <1>4 DEF Poll, PollResultLost
  <2>2. \A q \in Replicas \ {r} : batch'[q] = batch[q]
    BY <2>1 DEF TypeOK
  <2>3. \A e \in Events : Holds(r, e)' => e \in S
    BY <2>1, ClaimRowsFacts DEF Holds, TypeOK
  <2> QED  BY <2>1, <2>2, <2>3, ClaimKeepsDelivery
<1>5. ASSUME NEW r \in Replicas, Mark(r) PROVE DeliveryInv'
  <2>0. cur[r] \in Events
    BY <1>5 DEF Mark, MarkStatement, DeliveryInv, MarksAreEarned
  <2>1. \A e \in Events : row'[e].status = "ABSENT" => row[e].status = "ABSENT" \/ Stored(e)
    <3>1. CASE phase[r] = "published" /\ MarkAsPublished(cur[r])
      BY <2>0, <3>1 DEF MarkAsPublished, DeliveryInv, MarksAreEarned, TypeOK, TableTypeOK
    <3>2. CASE phase[r] = "failed" /\ MarkAsFailed(cur[r])
      BY <2>0, <3>2 DEF MarkAsFailed, FailedRow, Row, TypeOK, TableTypeOK
    <3> QED  BY <1>5, <3>1, <3>2 DEF Mark, MarkStatement
  <2>2. \A e \in Events : row[e].status = "ABSENT" => row'[e].status = "ABSENT"
    BY <1>5, <2>0
    DEF Mark, MarkStatement, MarkAsPublished, MarkAsFailed, NoRow, Row, TypeOK, TableTypeOK
  <2> QED  BY <1>5, <2>1, <2>2, DropKeepsDelivery DEF Mark, brokerVars
<1>6. ASSUME NEW r \in Replicas, MarkCancelled(r) \/ MarkLost(r) PROVE DeliveryInv'
  BY <1>6, DropKeepsDelivery DEF MarkCancelled, MarkLost, tableVars, brokerVars
<1>7. ASSUME NEW r \in Replicas, Crash(r) PROVE DeliveryInv'
  <2>1. /\ UNCHANGED <<tx, row, stored, dupAge, late>>
        /\ phase'[r] = "ready"
        /\ \A q \in Replicas \ {r} :
             phase'[q] = phase[q] /\ cur'[q] = cur[q] /\ batch'[q] = batch[q]
        /\ \A q \in Replicas : \A e \in Events : Holds(q, e)' => Holds(q, e)
    BY <1>7 DEF Crash, tableVars, brokerVars, Holds, TypeOK
  <2> QED
    BY <2>1 DEF DeliveryInv, RowsAreCommitted, NoLoss, DuplicatesAreStored, MarksAreEarned,
                NoPhantom, Stored, Holds
<1>8. ASSUME NEW r \in Replicas, Exit(r) \/ Restart(r) \/ Cancel(r) \/ Stop(r)
      PROVE  DeliveryInv'
  <2>1. UNCHANGED <<tx, row, stored, dupAge, late, phase, batch, cur>>
    BY <1>8 DEF Exit, Restart, Cancel, Stop, tableVars, brokerVars
  <2> QED
    BY <2>1 DEF DeliveryInv, RowsAreCommitted, NoLoss, DuplicatesAreStored, MarksAreEarned,
                NoPhantom, Stored, Holds
<1>9. ASSUME NEW r \in Replicas, NEW x \in batch[r], Reject(r, x) \/ PublishJetStream(r, x)
      PROVE  DeliveryInv'
  <2>0. x.ev \in Events /\ Holds(r, x.ev) /\ tx[x.ev] = "committed"
    BY DEF TypeOK, Record, Holds, DeliveryInv, NoPhantom
  <2>1. PICK p \in {"published", "failed"} :
          /\ TakeUp(r, x, p)
          /\ p = "published" => PublishMsgAcked(x.ev)
          /\ p = "failed" => UNCHANGED brokerVars \/ PublishMsgFailed(x.ev)
    BY <1>9 DEF Reject, PublishJetStream
  <2>2. /\ UNCHANGED <<tx, row, batch>>
        /\ phase'[r] = p /\ cur'[r] = x.ev
        /\ \A q \in Replicas \ {r} : phase'[q] = phase[q] /\ cur'[q] = cur[q]
    BY <2>1 DEF TakeUp, tableVars, TypeOK
  <2>3. /\ \A f \in Events : Stored(f) => Stored(f)'
        /\ \A f \in Events : Stored(f)' => f = x.ev \/ Stored(f)
        /\ DuplicatesAreStored'
        /\ p = "published" => Stored(x.ev)'
    BY <2>0, <2>1, StoreKeeps
    DEF PublishMsgAcked, PublishMsgFailed, brokerVars, TypeOK, DeliveryInv,
        DuplicatesAreStored, Stored
  <2>4. \A f \in Events : late'[f] > 0 => f = x.ev \/ late[f] > 0
    BY <2>0, <2>1 DEF PublishMsgAcked, PublishMsgFailed, brokerVars, TypeOK, BrokerTypeOK
  <2>5. NoPhantom'
    BY <2>0, <2>2, <2>3, <2>4 DEF DeliveryInv, NoPhantom, Holds
  <2>6. MarksAreEarned'
    BY <2>0, <2>2, <2>3 DEF DeliveryInv, MarksAreEarned, Holds
  <2>7. RowsAreCommitted' /\ NoLoss'
    BY <2>2, <2>3 DEF DeliveryInv, RowsAreCommitted, NoLoss
  <2> QED  BY <1>0, <2>3, <2>5, <2>6, <2>7
<1> QED
  BY <1>1, <1>2, <1>3, <1>4, <1>5, <1>6, <1>7, <1>8, <1>9
  DEF WorkerNext, Environment, Serve, Disturb

-----------------------------------------------------------------------------
(* What can become of a row in one step.                                   *)

Created(e) == tx[e] = "open" /\ tx'[e] = "committed" /\ row'[e] = NewRow

Claimed(e) == Claimable(e) /\ row'[e] = ClaimedRow(e, 0)

Aged(e) ==
  /\ row[e].status = "PROCESSING"
  /\ row[e].age <= StaleAfter
  /\ row'[e] = ClaimedRow(e, row[e].age + 1)

Deleted(e) ==
  /\ \E r \in Replicas : Mark(r) /\ phase[r] = "published" /\ cur[r] = e
  /\ row'[e] = NoRow

Failed(e) ==
  /\ \E r \in Replicas : Mark(r) /\ phase[r] = "failed" /\ cur[r] = e
  /\ row[e].status # "ABSENT"
  /\ row'[e] = FailedRow(row[e].attempts + 1, row[e].attempts + 1 >= MaxOutboxAttempts)

LEMMA RowChanges ==
  ASSUME TypeOK, LoopNext, NEW e \in Events
  PROVE  row'[e] = row[e] \/ Created(e) \/ Claimed(e) \/ Aged(e) \/ Deleted(e) \/ Failed(e)
<1>1. CASE Tick
  BY <1>1 DEF Tick, AgeClaims, Aged
<1>2. ASSUME NEW f \in Events, Business(f)
      PROVE  row'[e] = row[e] \/ Created(e)
  BY <1>2 DEF Business, CreateOutboxRecordInTx, Commit, Rollback, Created, TypeOK, TableTypeOK
<1>3. ASSUME NEW f \in Events, Network(f)
      PROVE  row'[e] = row[e]
  BY <1>3 DEF Network, tableVars
<1>4. ASSUME NEW r \in Replicas, Poll(r) \/ PollResultLost(r)
      PROVE  row'[e] = row[e] \/ Claimed(e)
  <2>1. PICK S \in SUBSET Events : ClaimRows(r, S)
    BY <1>4 DEF Poll, PollResultLost
  <2> QED  BY <2>1, ClaimRowsFacts DEF Claimed
<1>5. ASSUME NEW r \in Replicas, Mark(r)
      PROVE  row'[e] = row[e] \/ Deleted(e) \/ Failed(e)
  <2>1. CASE phase[r] = "published" /\ MarkAsPublished(cur[r])
    BY <1>5, <2>1 DEF MarkAsPublished, Deleted, TypeOK, TableTypeOK
  <2>2. CASE phase[r] = "failed" /\ MarkAsFailed(cur[r])
    BY <1>5, <2>2 DEF MarkAsFailed, Failed, TypeOK, TableTypeOK
  <2> QED  BY <1>5, <2>1, <2>2 DEF Mark, MarkStatement
<1>6. ASSUME NEW r \in Replicas,
             \/ MarkCancelled(r) \/ MarkLost(r) \/ Crash(r) \/ Exit(r) \/ Restart(r)
             \/ Cancel(r) \/ Stop(r)
             \/ \E x \in batch[r], p \in {"published", "failed"} : TakeUp(r, x, p)
      PROVE  row'[e] = row[e]
  BY <1>6
  DEF MarkCancelled, MarkLost, Crash, Exit, Restart, Cancel, Stop,
      TakeUp, tableVars
<1> QED
  BY <1>1, <1>2, <1>3, <1>4, <1>5, <1>6 DEF LoopNext, Environment, Serve, Disturb

LEMMA StatusStep ==
  ASSUME TypeOK, StatusMatchesAttempts, LoopNext
  PROVE  StatusMatchesAttempts'
<1> SUFFICES ASSUME NEW e \in Events
             PROVE  /\ row'[e].status = "FAILED" => row'[e].attempts >= MaxOutboxAttempts
                    /\ row'[e].status \in {"PENDING", "PROCESSING"}
                         => row'[e].attempts < MaxOutboxAttempts
  BY DEF StatusMatchesAttempts
<1> USE RepositoryAssumption DEF RepositoryAssumption, StatusMatchesAttempts, Row
<1>0. row[e].attempts \in Nat
  BY DEF TypeOK, TableTypeOK, OutboxRecord
<1>1. CASE row'[e] = row[e]
  BY <1>1
<1>2. CASE Created(e)
  BY <1>2 DEF Created, NewRow
<1>3. CASE Claimed(e) \/ Aged(e)
  BY <1>3 DEF Claimed, Claimable, Aged, ClaimedRow
<1>4. CASE Deleted(e)
  BY <1>4 DEF Deleted, NoRow
<1>5. CASE Failed(e)
  BY <1>0, <1>5 DEF Failed, FailedRow
<1> QED  BY <1>1, <1>2, <1>3, <1>4, <1>5, RowChanges

-----------------------------------------------------------------------------
(* What the replicas have in hand.                                         *)

\* A replica marks a record it holds.
MarksAreHeld ==
  \A r \in Replicas : phase[r] # "ready" => cur[r] \in Events /\ Holds(r, cur[r])

\* The part of DeliveryInv that does not depend on how a replica publishes.
HandsInv == RowsAreCommitted /\ NoPhantom /\ MarksAreHeld

LEMMA DeliveryHands == DeliveryInv => HandsInv
  BY DEF DeliveryInv, MarksAreEarned, HandsInv, MarksAreHeld

LEMMA HandsInit == Init => HandsInv
  BY DEF Init, TableInit, BrokerInit, NoRow, Row, HandsInv, RowsAreCommitted, NoPhantom,
         MarksAreHeld, Stored, Holds

LEMMA HandsStep ==
  ASSUME TypeOK, HandsInv, LoopNext
  PROVE  HandsInv'
<1>1. ASSUME NEW e \in Events, tx[e] = "committed"
      PROVE  tx'[e] = "committed"
  <2>1. ASSUME NEW f \in Events, Business(f)
        PROVE  tx'[e] = "committed"
    BY <1>1, <2>1
    DEF Business, CreateOutboxRecordInTx, Commit, Rollback, TypeOK, TableTypeOK
  <2>2. ASSUME NEW r \in Replicas, Poll(r) \/ PollResultLost(r)
        PROVE  tx'[e] = "committed"
    BY <1>1, <2>2 DEF Poll, PollResultLost, ClaimRows
  <2> QED
    BY <1>1, <2>1, <2>2
    DEF LoopNext, Environment, Serve, Disturb, Tick, Network, Mark, MarkCancelled, MarkLost,
        Crash, Exit, Restart, Cancel, Stop, TakeUp, tableVars
<1>2. RowsAreCommitted'
  <2> SUFFICES ASSUME NEW e \in Events, row'[e].status # "ABSENT"
               PROVE  tx'[e] = "committed"
    BY DEF RowsAreCommitted
  <2>1. Created(e) \/ row[e].status # "ABSENT"
    BY RowChanges DEF Claimed, Claimable, Aged, Deleted, Failed, NoRow, Row
  <2> QED  BY <1>1, <2>1 DEF Created, HandsInv, RowsAreCommitted
<1>3. ASSUME NEW q \in Replicas, NEW e \in Events, Holds(q, e)'
      PROVE  tx[e] = "committed"
  <2>1. CASE Holds(q, e)
    BY <2>1 DEF HandsInv, NoPhantom
  <2>2. ASSUME NEW r \in Replicas, Poll(r), ~Holds(q, e)
        PROVE  tx[e] = "committed"
    <3>1. PICK S \in SUBSET Events :
            /\ ClaimRows(r, S)
            /\ batch' = [batch EXCEPT ![r] =
                 {[ev |-> f, attempts |-> row[f].attempts] : f \in S}]
      BY <2>2 DEF Poll
    <3>2. e \in S
      BY <1>3, <2>2, <3>1 DEF Holds, TypeOK
    <3> QED  BY <3>1, <3>2, ClaimRowsFacts DEF Claimable, HandsInv, RowsAreCommitted
  <2>3. ASSUME NEW r \in Replicas, Mark(r) \/ MarkCancelled(r) \/ MarkLost(r) \/ Crash(r)
        PROVE  Holds(q, e)
    BY <1>3, <2>3 DEF Mark, MarkCancelled, MarkLost, Crash, FinishRecord, Holds, TypeOK
  <2>4. CASE UNCHANGED batch
    BY <1>3, <2>1, <2>4 DEF Holds
  <2> QED
    BY <2>1, <2>2, <2>3, <2>4
    DEF LoopNext, Environment, Tick, Business, Network, Serve, Disturb, PollResultLost, Exit,
        Restart, Cancel, Stop, TakeUp, workerVars
<1>4. ASSUME NEW e \in Events, Stored(e)' \/ late'[e] > 0
      PROVE  tx[e] = "committed"
  <2>1. CASE UNCHANGED <<stored, late>>
    BY <1>4, <2>1 DEF HandsInv, NoPhantom, Stored
  <2>2. ASSUME NEW f \in Events, Network(f)
        PROVE  tx[e] = "committed"
    BY <1>4, <2>2
    DEF Network, LateArrival, LateLoss, Store, AddCopy, HandsInv, NoPhantom, Stored, TypeOK,
        BrokerTypeOK
  <2>3. ASSUME NEW r \in Replicas, NEW x \in batch[r], Sends(x)
        PROVE  tx[e] = "committed"
    <3>1. CASE x.ev = e
      BY <3>1 DEF HandsInv, NoPhantom, Holds
    <3>2. CASE x.ev # e
      BY <1>4, <2>3, <3>2 DEF Sends, HandsInv, NoPhantom, Stored
    <3> QED  BY <3>1, <3>2
  <2>4. ASSUME NEW r \in Replicas, Poll(r) \/ PollResultLost(r)
        PROVE  UNCHANGED <<stored, late>>
    BY <2>4 DEF Poll, PollResultLost, ClaimRows, brokerVars
  <2> QED
    BY <2>1, <2>2, <2>3, <2>4
    DEF LoopNext, Environment, Serve, Disturb, Tick, Business, Mark, MarkCancelled, MarkLost,
        Crash, Exit, Restart, Cancel, Stop, brokerVars
<1>5. NoPhantom'
  BY <1>1, <1>3, <1>4 DEF NoPhantom
<1>6. MarksAreHeld'
  <2>1. CASE UNCHANGED <<phase, batch, cur>>
    BY <2>1 DEF HandsInv, MarksAreHeld, Holds
  <2>2. ASSUME NEW r \in Replicas, Poll(r) \/ PollResultLost(r)
        PROVE  MarksAreHeld'
    <3>1. /\ UNCHANGED <<phase, cur>>
          /\ batch[r] = {}
          /\ \A q \in Replicas \ {r} : batch'[q] = batch[q]
      BY <2>2 DEF Poll, PollResultLost, ClaimRows, TypeOK
    <3>2. phase[r] = "ready"
      BY <3>1 DEF HandsInv, MarksAreHeld, Holds
    <3> QED  BY <3>1, <3>2 DEF HandsInv, MarksAreHeld, Holds
  <2>3. ASSUME NEW r \in Replicas, Mark(r) \/ MarkCancelled(r) \/ MarkLost(r)
        PROVE  MarksAreHeld'
    <3>1. FinishRecord(r)
      BY <2>3 DEF Mark, MarkCancelled, MarkLost
    <3> QED  BY <3>1, FinishRecordHolds DEF HandsInv, MarksAreHeld, Holds
  <2>4. ASSUME NEW r \in Replicas, Crash(r)
        PROVE  MarksAreHeld'
    <3>1. /\ phase'[r] = "ready"
          /\ \A q \in Replicas \ {r} :
               phase'[q] = phase[q] /\ cur'[q] = cur[q] /\ batch'[q] = batch[q]
      BY <2>4 DEF Crash, TypeOK
    <3> QED  BY <3>1 DEF HandsInv, MarksAreHeld, Holds
  <2>5. ASSUME NEW r \in Replicas, NEW x \in batch[r], NEW p \in {"published", "failed"},
               TakeUp(r, x, p)
        PROVE  MarksAreHeld'
    <3>1. /\ UNCHANGED batch /\ cur'[r] = x.ev
          /\ \A q \in Replicas \ {r} : phase'[q] = phase[q] /\ cur'[q] = cur[q]
      BY <2>5 DEF TakeUp, TypeOK
    <3>2. x.ev \in Events /\ Holds(r, x.ev)
      BY DEF TypeOK, Record, Holds
    <3> QED  BY <3>1, <3>2 DEF HandsInv, MarksAreHeld, Holds
  <2> QED
    BY <2>1, <2>2, <2>3, <2>4, <2>5
    DEF LoopNext, Environment, Tick, Business, Network, Serve, Disturb, Exit, Restart, Cancel,
        Stop, workerVars
<1> QED  BY <1>2, <1>5, <1>6 DEF HandsInv

LEMMA FailedStep ==
  ASSUME TypeOK, HandsInv, StatusMatchesAttempts, LoopNext,
         NEW e \in Events, row[e].status = "FAILED"
  PROVE  row'[e].status \in {"FAILED", "ABSENT"}
<1> USE DEF Row
<1>0. row[e].attempts \in Nat /\ row[e].attempts >= MaxOutboxAttempts
  BY DEF TypeOK, TableTypeOK, OutboxRecord, StatusMatchesAttempts
<1>1. CASE row'[e] = row[e]
  BY <1>1
<1>2. CASE Created(e)
  BY <1>2 DEF Created, HandsInv, RowsAreCommitted
<1>3. CASE Claimed(e) \/ Aged(e)
  BY <1>3 DEF Claimed, Claimable, Aged
<1>4. CASE Deleted(e)
  BY <1>4 DEF Deleted, NoRow
<1>5. CASE Failed(e)
  BY <1>0, <1>5, RepositoryAssumption DEF RepositoryAssumption, Failed, FailedRow
<1> QED  BY <1>1, <1>2, <1>3, <1>4, <1>5, RowChanges

-----------------------------------------------------------------------------
(* Exclusive claims, when no batch outlives its claim.                     *)

Kept(q, x) == x \in batch[q] /\ row'[x.ev] = row[x.ev]

Aging(q, x) ==
  /\ x \in batch[q]
  /\ row[x.ev].age < StaleAfter
  /\ row'[x.ev] = ClaimedRow(x.ev, row[x.ev].age + 1)

Taken(q, x) ==
  /\ Claimed(x.ev)
  /\ x.attempts = row[x.ev].attempts
  /\ \A p \in Replicas \ {q} : batch'[p] = batch[p]

\* Where the records in a replica's hands come from, and their rows.
LEMMA HeldRecords ==
  ASSUME TypeOK, HandsInv, ClaimInv, SlowBatches = FALSE, LoopNext,
         NEW q \in Replicas, NEW x \in batch'[q]
  PROVE  Kept(q, x) \/ Aging(q, x) \/ Taken(q, x)
<1>1. CASE Tick
  <2>1. x \in batch[q] /\ x.ev \in Events
    BY <1>1 DEF Tick, workerVars, TypeOK, Record
  <2>2. row[x.ev].age < StaleAfter
    BY <1>1, <2>1 DEF Tick, BatchesKeepUp
  <2> QED  BY <1>1, <2>1, <2>2 DEF Tick, AgeClaims, Kept, Aging
<1>2. ASSUME NEW f \in Events, Business(f)
      PROVE  Kept(q, x)
  <2>1. x \in batch[q] /\ x.ev \in Events
    BY <1>2 DEF Business, workerVars, TypeOK, Record
  <2>2. tx[x.ev] = "committed"
    BY <2>1 DEF HandsInv, NoPhantom, Holds
  <2> QED
    BY <1>2, <2>1, <2>2
    DEF Business, CreateOutboxRecordInTx, Commit, Rollback, Kept, TypeOK, TableTypeOK
<1>3. ASSUME NEW f \in Events, Network(f)
      PROVE  Kept(q, x)
  BY <1>3 DEF Network, tableVars, workerVars, Kept
<1>4. ASSUME NEW r \in Replicas, Poll(r) \/ PollResultLost(r)
      PROVE  Kept(q, x) \/ Taken(q, x)
  <2>1. PICK S \in SUBSET Events :
          /\ ClaimRows(r, S)
          /\ \/ batch' = [batch EXCEPT ![r] =
                  {[ev |-> e, attempts |-> row[e].attempts] : e \in S}]
             \/ UNCHANGED batch
    BY <1>4 DEF Poll, PollResultLost
  <2>2. CASE x \in batch[q]
    <3>1. x.ev \in Events /\ Holds(q, x.ev)
      BY <2>2 DEF TypeOK, Record, Holds
    <3>2. x.ev \notin S
      BY <2>1, <3>1, ClaimRowsFacts, RepositoryAssumption
      DEF RepositoryAssumption, ClaimInv, ClaimsAreFresh, Claimable, TypeOK, TableTypeOK,
          OutboxRecord
    <3> QED  BY <2>1, <2>2, <3>1, <3>2, ClaimRowsFacts DEF Kept
  <2>3. CASE x \notin batch[q]
    <3>1. q = r /\ batch' = [batch EXCEPT ![r] =
                      {[ev |-> e, attempts |-> row[e].attempts] : e \in S}]
      BY <2>1, <2>3 DEF TypeOK
    <3>2. PICK e \in S : x = [ev |-> e, attempts |-> row[e].attempts]
      BY <3>1 DEF TypeOK
    <3>3. Claimed(e)
      BY <2>1, <3>2, ClaimRowsFacts DEF Claimed
    <3>4. \A p \in Replicas \ {q} : batch'[p] = batch[p]
      BY <3>1 DEF TypeOK
    <3> QED  BY <3>2, <3>3, <3>4 DEF Taken
  <2> QED  BY <2>2, <2>3
<1>5. ASSUME NEW r \in Replicas, Mark(r)
      PROVE  Kept(q, x)
  <2>1. x \in batch[q] /\ (q = r => x.ev # cur[r])
    BY <1>5 DEF Mark, FinishRecord, TypeOK
  <2>2. x.ev # cur[r] /\ cur[r] \in Events /\ x.ev \in Events
    BY <1>5, <2>1
    DEF Mark, MarkStatement, HandsInv, MarksAreHeld, ClaimInv, ClaimsNeverIntersect,
        Holds, TypeOK, Record
  <2> QED
    BY <1>5, <2>1, <2>2
    DEF Mark, MarkStatement, MarkAsPublished, MarkAsFailed, Kept, TypeOK, TableTypeOK
<1>6. ASSUME NEW r \in Replicas, MarkCancelled(r) \/ MarkLost(r) \/ Crash(r)
      PROVE  Kept(q, x)
  BY <1>6 DEF MarkCancelled, MarkLost, Crash, FinishRecord, tableVars, Kept, TypeOK
<1>7. ASSUME NEW r \in Replicas,
             \/ Exit(r) \/ Restart(r) \/ Cancel(r) \/ Stop(r)
             \/ \E y \in batch[r], p \in {"published", "failed"} : TakeUp(r, y, p)
      PROVE  Kept(q, x)
  BY <1>7 DEF Exit, Restart, Cancel, Stop, TakeUp, tableVars, Kept
<1> QED
  BY <1>1, <1>2, <1>3, <1>4, <1>5, <1>6, <1>7 DEF LoopNext, Environment, Serve, Disturb

LEMMA ClaimInit == Init => ClaimInv
  BY DEF Init, ClaimInv, ClaimsNeverIntersect, ClaimsAreFresh, SnapshotIsCurrent, Holds

LEMMA ClaimStep ==
  ASSUME TypeOK, TypeOK', HandsInv, ClaimInv, SlowBatches = FALSE, LoopNext
  PROVE  ClaimInv'
<1> USE DEF Row
<1>0. ASSUME NEW q \in Replicas, NEW x \in batch'[q]
      PROVE  /\ x.ev \in Events
             /\ row[x.ev].attempts \in Nat /\ row[x.ev].age \in Nat
             /\ Kept(q, x) \/ Aging(q, x) \/ Taken(q, x)
  <2>1. Kept(q, x) \/ Aging(q, x) \/ Taken(q, x)
    BY HeldRecords
  <2>2. x.ev \in Events
    BY DEF TypeOK, Record
  <2> QED  BY <2>1, <2>2 DEF TypeOK, TableTypeOK, OutboxRecord
<1>1. ClaimsAreFresh'
  <2> SUFFICES ASSUME NEW q \in Replicas, NEW x \in batch'[q]
               PROVE  row'[x.ev].status = "PROCESSING" /\ row'[x.ev].age <= StaleAfter
    BY DEF ClaimsAreFresh, Holds
  <2>1. CASE Kept(q, x)
    BY <1>0, <2>1 DEF Kept, ClaimInv, ClaimsAreFresh, Holds
  <2>2. CASE Aging(q, x)
    BY <1>0, <2>2, RepositoryAssumption DEF RepositoryAssumption, Aging, ClaimedRow
  <2>3. CASE Taken(q, x)
    BY <1>0, <2>3, RepositoryAssumption DEF RepositoryAssumption, Taken, Claimed, ClaimedRow
  <2> QED  BY <1>0, <2>1, <2>2, <2>3
<1>2. SnapshotIsCurrent'
  <2> SUFFICES ASSUME NEW q \in Replicas, NEW x \in batch'[q]
               PROVE  x.attempts = row'[x.ev].attempts
    BY DEF SnapshotIsCurrent
  <2>1. CASE Kept(q, x)
    BY <2>1 DEF Kept, ClaimInv, SnapshotIsCurrent
  <2>2. CASE Aging(q, x)
    BY <2>2 DEF Aging, ClaimedRow, ClaimInv, SnapshotIsCurrent
  <2>3. CASE Taken(q, x)
    BY <2>3 DEF Taken, Claimed, ClaimedRow
  <2> QED  BY <1>0, <2>1, <2>2, <2>3
<1>3. ClaimsNeverIntersect'
  <2> SUFFICES ASSUME NEW p \in Replicas, NEW q \in Replicas,
                      NEW x \in batch'[p], NEW y \in batch'[q], x.ev = y.ev, p # q
               PROVE  FALSE
    BY DEF ClaimsNeverIntersect, Holds
  <2>1. CASE x \in batch[p] /\ y \in batch[q]
    BY <1>0, <2>1 DEF ClaimInv, ClaimsNeverIntersect, Holds
  <2>2. ASSUME NEW s \in Replicas, NEW t \in Replicas \ {s}, NEW z \in batch'[s],
               NEW w \in batch'[t], z.ev = w.ev, Taken(s, z)
        PROVE  FALSE
    <3>1. w \in batch[t]
      BY <2>2 DEF Taken
    <3>2. Holds(t, z.ev) /\ z.ev \in Events
      BY <1>0, <2>2, <3>1 DEF Holds
    <3>3. ~Claimable(z.ev)
      BY <1>0, <3>2, RepositoryAssumption
      DEF RepositoryAssumption, ClaimInv, ClaimsAreFresh, Claimable
    <3> QED  BY <2>2, <3>3 DEF Taken, Claimed
  <2> QED  BY <1>0, <2>1, <2>2 DEF Kept, Aging
<1> QED  BY <1>1, <1>2, <1>3 DEF ClaimInv

-----------------------------------------------------------------------------
(* The bound on the attempts.                                              *)

LEMMA RemoveOne ==
  ASSUME NEW S, IsFiniteSet(S), NEW r \in S, NEW T \in SUBSET (S \ {r})
  PROVE  Cardinality(T) <= Cardinality(S) - 1
<1>1. IsFiniteSet(S \ {r}) /\ Cardinality(S \ {r}) = Cardinality(S) - 1
  BY FS_RemoveElement
<1>2. Cardinality(T) <= Cardinality(S \ {r})
  BY <1>1, FS_Subset
<1> QED  BY <1>1, <1>2

LEMMA HoldersFinite ==
  ASSUME NEW e \in Events
  PROVE  /\ IsFiniteSet(Holders(e)) /\ IsFiniteSet(Holders(e)')
         /\ Cardinality(Replicas) \in Nat
         /\ Cardinality(Holders(e)) \in Nat /\ Cardinality(Holders(e)') \in Nat
<1>1. IsFiniteSet(Replicas)
  BY WorkersAssumption DEF WorkersAssumption
<1>2. Holders(e) \in SUBSET Replicas /\ Holders(e)' \in SUBSET Replicas
  BY DEF Holders
<1> QED  BY <1>1, <1>2, FS_Subset, FS_CardinalityType

\* Only a claim hands out a record.
LEMMA HoldersShrink ==
  ASSUME TypeOK, LoopNext, NEW e \in Events, row[e].status = "FAILED"
  PROVE  Holders(e)' \subseteq Holders(e)
<1> SUFFICES ASSUME NEW q \in Replicas, Holds(q, e)'
             PROVE  Holds(q, e)
  BY DEF Holders
<1>1. CASE UNCHANGED batch
  BY <1>1 DEF Holds
<1>2. ASSUME NEW r \in Replicas, Poll(r)
      PROVE  Holds(q, e)
  <2>1. PICK S \in SUBSET Events :
          /\ ClaimRows(r, S)
          /\ batch' = [batch EXCEPT ![r] =
               {[ev |-> f, attempts |-> row[f].attempts] : f \in S}]
    BY <1>2 DEF Poll
  <2>2. e \notin S
    BY <2>1, ClaimRowsFacts DEF Claimable
  <2> QED  BY <2>1, <2>2 DEF Holds, TypeOK
<1>3. ASSUME NEW r \in Replicas, Mark(r) \/ MarkCancelled(r) \/ MarkLost(r) \/ Crash(r)
      PROVE  Holds(q, e)
  BY <1>3 DEF Mark, MarkCancelled, MarkLost, Crash, FinishRecord, Holds, TypeOK
<1> QED
  BY <1>1, <1>2, <1>3
  DEF LoopNext, Environment, Tick, Business, Network, Serve, Disturb, PollResultLost, Exit,
      Restart, Cancel, Stop, TakeUp, workerVars

LEMMA FailuresInit == Init => FailuresInv
<1> SUFFICES ASSUME Init, NEW e \in Events
             PROVE  row[e].status = "ABSENT" /\ row[e].attempts = 0
  BY DEF FailuresInv
<1>1. row[e] = NoRow
  BY DEF Init, TableInit
<1> QED  BY <1>1 DEF NoRow, Row

LEMMA FailuresStep ==
  ASSUME TypeOK, HandsInv, StatusMatchesAttempts, FailuresInv, LoopNext
  PROVE  FailuresInv'
<1> SUFFICES ASSUME NEW e \in Events
             PROVE  /\ row'[e].status = "ABSENT" => row'[e].attempts = 0
                    /\ row'[e].status = "FAILED" =>
                         row'[e].attempts + Cardinality(Holders(e)')
                           <= MaxOutboxAttempts - 1 + Cardinality(Replicas)
  BY DEF FailuresInv
<1> USE RepositoryAssumption DEF RepositoryAssumption, Row
<1>0. row[e].attempts \in Nat
  BY DEF TypeOK, TableTypeOK, OutboxRecord
<1>1. CASE row'[e] = row[e]
  <2>1. row[e].status = "FAILED" => Cardinality(Holders(e)') <= Cardinality(Holders(e))
    BY HoldersShrink, HoldersFinite, FS_Subset
  <2> QED  BY <1>0, <1>1, <2>1, HoldersFinite DEF FailuresInv
<1>2. CASE Created(e)
  BY <1>2 DEF Created, NewRow
<1>3. CASE Claimed(e) \/ Aged(e)
  BY <1>3 DEF Claimed, Aged, ClaimedRow
<1>4. CASE Deleted(e)
  BY <1>4 DEF Deleted, NoRow
<1>5. CASE Failed(e)
  <2>1. PICK r \in Replicas : Mark(r) /\ phase[r] = "failed" /\ cur[r] = e
    BY <1>5 DEF Failed
  <2>2. r \in Holders(e) /\ r \notin Holders(e)'
    BY <2>1, FinishRecordHolds DEF Mark, Holders, HandsInv, MarksAreHeld
  <2>3. row'[e].attempts = row[e].attempts + 1 /\ row'[e].status # "ABSENT"
    BY <1>5 DEF Failed, FailedRow
  <2>4. CASE row[e].status = "FAILED"
    <3>1. Holders(e)' \in SUBSET (Holders(e) \ {r})
      BY <2>2, <2>4, HoldersShrink
    <3>2. Cardinality(Holders(e)') <= Cardinality(Holders(e)) - 1
      BY <2>2, <3>1, HoldersFinite, RemoveOne
    <3> QED  BY <1>0, <2>3, <2>4, <3>2, HoldersFinite DEF FailuresInv
  <2>5. CASE row[e].status # "FAILED"
    <3>1. row[e].attempts < MaxOutboxAttempts
      BY <1>5, <2>5
      DEF Failed, StatusMatchesAttempts, TypeOK, TableTypeOK, OutboxRecord, Status
    <3>2. Holders(e)' \in SUBSET (Replicas \ {r})
      BY <2>2 DEF Holders
    <3>3. Cardinality(Holders(e)') <= Cardinality(Replicas) - 1
      BY <3>2, WorkersAssumption, RemoveOne DEF WorkersAssumption
    <3> QED  BY <1>0, <2>3, <3>1, <3>3, HoldersFinite
  <2> QED  BY <2>4, <2>5
<1> QED  BY <1>1, <1>2, <1>3, <1>4, <1>5, RowChanges

-----------------------------------------------------------------------------
(* The promise of the outbox.                                              *)

LEMMA PromiseInit == Init => Promise!Init
<1> SUFFICES ASSUME Init
             PROVE  /\ \A e \in Events : PromisedState(e) = "none"
                    /\ \A e \in Events : ~Stored(e)
  BY DEF Promise!Init
<1> QED  BY DEF Init, TableInit, BrokerInit, PromisedState, Stored

\* A step that changes neither what the service sees nor the stream.
LEMMA PromiseStutter ==
  ASSUME \A e \in Events : PromisedState(e)' = PromisedState(e),
         \A e \in Events : Stored(e)' <=> Stored(e)
  PROVE  UNCHANGED Promise!vars
  BY DEF Promise!vars

\* A step that stores at most one more event, of a committed transaction.
LEMMA PromiseDeliver ==
  ASSUME NEW e \in Events, tx[e] = "committed",
         \A f \in Events : PromisedState(f)' = PromisedState(f),
         \A f \in Events : Stored(f) => Stored(f)',
         \A f \in Events : Stored(f)' => f = e \/ Stored(f)
  PROVE  [Promise!Next]_(Promise!vars)
<1>1. CASE Stored(e) \/ ~Stored(e)'
  BY <1>1, PromiseStutter
<1>2. CASE ~Stored(e) /\ Stored(e)'
  <2>1. PromisedState(e) # "none"
    BY DEF PromisedState
  <2>2. Promise!Deliver(e)
    BY <1>2, <2>1 DEF Promise!Deliver
  <2> QED  BY <2>2 DEF Promise!Next
<1> QED  BY <1>1, <1>2

\* A step that changes one event in the service's eyes.
LEMMA PromiseChange ==
  ASSUME NEW e \in Events,
         \A f \in Events \ {e} : PromisedState(f)' = PromisedState(f),
         \A f \in Events : Stored(f)' <=> Stored(f),
         \/ PromisedState(e)' = PromisedState(e)
         \/ PromisedState(e) = "none" /\ PromisedState(e)' = "accepted"
         \/ /\ PromisedState(e) \in {"accepted", "parked"} /\ PromisedState(e)' = "done"
            /\ Stored(e)
         \/ PromisedState(e) = "accepted" /\ PromisedState(e)' = "parked"
  PROVE  [Promise!Next]_(Promise!vars)
<1> DEFINE st == [f \in Events |-> PromisedState(f)]
<1>0. /\ {f \in Events : Stored(f)}' = {f \in Events : Stored(f)}
      /\ st' = [st EXCEPT ![e] = PromisedState(e)']
      /\ st[e] = PromisedState(e)
  OBVIOUS
<1>1. CASE PromisedState(e)' = PromisedState(e)
  BY <1>1, PromiseStutter
<1>2. CASE PromisedState(e) = "none" /\ PromisedState(e)' = "accepted"
  <2>1. Promise!Accept(e)
    BY <1>0, <1>2 DEF Promise!Accept
  <2> QED  BY <2>1 DEF Promise!Next
<1>3. CASE /\ PromisedState(e) \in {"accepted", "parked"} /\ PromisedState(e)' = "done"
           /\ Stored(e)
  <2>1. Promise!Settle(e)
    BY <1>0, <1>3 DEF Promise!Settle
  <2> QED  BY <2>1 DEF Promise!Next
<1>4. CASE PromisedState(e) = "accepted" /\ PromisedState(e)' = "parked"
  <2>1. Promise!Park(e)
    BY <1>0, <1>4 DEF Promise!Park
  <2> QED  BY <2>1 DEF Promise!Next
<1> QED  BY <1>1, <1>2, <1>3, <1>4

LEMMA PromiseStep ==
  ASSUME TypeOK, DeliveryInv, StatusMatchesAttempts, WorkerNext
  PROVE  [Promise!Next]_(Promise!vars)
<1>1. CASE Tick
  <2>1. \A e \in Events : row'[e].status = row[e].status
    BY <1>1 DEF Tick, AgeClaims, ClaimedRow, Row
  <2>2. \A e \in Events : PromisedState(e)' = PromisedState(e)
    BY <1>1, <2>1 DEF Tick, PromisedState
  <2> QED  BY <1>1, <2>2, PromiseStutter DEF Tick, Stored
<1>2. ASSUME NEW e \in Events, Business(e)
      PROVE  [Promise!Next]_(Promise!vars)
  <2>1. \A f \in Events : Stored(f)' <=> Stored(f)
    BY <1>2 DEF Business, brokerVars, Stored
  <2>2. \A f \in Events \ {e} : PromisedState(f)' = PromisedState(f)
    BY <1>2
    DEF Business, CreateOutboxRecordInTx, Commit, Rollback, PromisedState, TypeOK, TableTypeOK
  <2>3. CASE Commit(e)
    <3>1. tx'[e] = "committed" /\ row'[e] = NewRow
      BY <2>3 DEF Commit, TypeOK, TableTypeOK
    <3>2. PromisedState(e) = "none" /\ PromisedState(e)' = "accepted"
      BY <2>3, <3>1 DEF Commit, PromisedState, NewRow, Row
    <3> QED  BY <2>1, <2>2, <3>2, PromiseChange
  <2>4. CASE CreateOutboxRecordInTx(e) \/ Rollback(e)
    <3>1. PromisedState(e)' = PromisedState(e)
      BY <2>4 DEF CreateOutboxRecordInTx, Rollback, PromisedState, TypeOK, TableTypeOK
    <3> QED  BY <2>1, <2>2, <3>1, PromiseChange
  <2> QED  BY <1>2, <2>3, <2>4 DEF Business
<1>3. ASSUME NEW e \in Events, Network(e)
      PROVE  [Promise!Next]_(Promise!vars)
  <2>1. tx[e] = "committed"
    BY <1>3 DEF Network, LateArrival, LateLoss, DeliveryInv, NoPhantom
  <2>2. \A f \in Events : PromisedState(f)' = PromisedState(f)
    BY <1>3 DEF Network, tableVars, PromisedState
  <2>3. /\ \A f \in Events : Stored(f) => Stored(f)'
        /\ \A f \in Events : Stored(f)' => f = e \/ Stored(f)
    BY <1>3, StoreKeeps DEF Network, LateArrival, LateLoss, TypeOK, DeliveryInv, Stored
  <2> QED  BY <2>1, <2>2, <2>3, PromiseDeliver
<1>4. ASSUME NEW r \in Replicas, Poll(r) \/ PollResultLost(r)
      PROVE  [Promise!Next]_(Promise!vars)
  <2>1. PICK S \in SUBSET Events : ClaimRows(r, S)
    BY <1>4 DEF Poll, PollResultLost
  <2>2. ASSUME NEW e \in Events
        PROVE  PromisedState(e)' = PromisedState(e)
    <3>1. CASE e \in S
      <4>1. row[e].status \in {"PENDING", "PROCESSING"}
        BY <2>1, <3>1, ClaimRowsFacts DEF Claimable
      <4>2. row'[e] = ClaimedRow(e, 0)
        BY <2>1, <3>1, ClaimRowsFacts
      <4>3. row'[e].status = "PROCESSING" /\ tx' = tx
        BY <2>1, <4>2, ClaimRowsFacts DEF ClaimedRow, Row
      <4> QED  BY <4>1, <4>3 DEF PromisedState
    <3>2. CASE e \notin S
      <4>1. row'[e] = row[e] /\ tx' = tx
        BY <2>1, <3>2, ClaimRowsFacts
      <4> QED  BY <4>1 DEF PromisedState
    <3> QED  BY <3>1, <3>2
  <2>3. \A e \in Events : Stored(e)' <=> Stored(e)
    BY <2>1, ClaimRowsFacts DEF Stored
  <2> QED  BY <2>2, <2>3, PromiseStutter
<1>5. ASSUME NEW r \in Replicas, Mark(r)
      PROVE  [Promise!Next]_(Promise!vars)
  <2>0. PICK e \in Events :
          /\ e = cur[r]
          /\ tx[e] = "committed"
          /\ UNCHANGED <<tx, stored, dupAge, late>>
    BY <1>5 DEF Mark, MarkStatement, brokerVars, DeliveryInv, MarksAreEarned, NoPhantom
  <2>1. \A f \in Events : Stored(f)' <=> Stored(f)
    BY <2>0 DEF Stored
  <2>2. \A f \in Events \ {e} : row'[f] = row[f]
    BY <1>5, <2>0 DEF Mark, MarkStatement, MarkAsPublished, MarkAsFailed, TypeOK, TableTypeOK
  <2>3. \A f \in Events \ {e} : PromisedState(f)' = PromisedState(f)
    BY <2>0, <2>2 DEF PromisedState
  <2>4. row[e].status \in Status
    BY <2>0 DEF TypeOK, TableTypeOK, OutboxRecord
  <2>5. CASE phase[r] = "published" /\ MarkAsPublished(cur[r])
    <3>1. row'[e].status = "ABSENT" /\ Stored(e)
      BY <2>0, <2>5
      DEF MarkAsPublished, NoRow, Row, DeliveryInv, MarksAreEarned, TypeOK, TableTypeOK
    <3>2. PromisedState(e)' = "done"
      BY <2>0, <3>1 DEF PromisedState
    <3>3. PromisedState(e) \in {"accepted", "parked", "done"}
      BY <2>0 DEF PromisedState
    <3> QED  BY <2>0, <2>1, <2>3, <3>1, <3>2, <3>3, PromiseChange
  <2>6. CASE phase[r] = "failed" /\ MarkAsFailed(cur[r])
    <3>1. CASE row[e].status = "ABSENT"
      <4>1. PromisedState(e)' = PromisedState(e)
        BY <2>0, <2>6, <3>1 DEF MarkAsFailed, PromisedState
      <4> QED  BY <2>0, <2>1, <2>3, <4>1, PromiseChange
    <3>2. CASE row[e].status = "FAILED"
      <4>1. row'[e].status \in {"FAILED", "ABSENT"}
        BY <2>0, <3>2, FailedStep, DeliveryHands, WorkerIsLoop
      <4>2. row'[e].status # "ABSENT"
        BY <2>0, <2>6, <3>2 DEF MarkAsFailed, FailedRow, Row, TypeOK, TableTypeOK
      <4>3. PromisedState(e)' = PromisedState(e)
        BY <2>0, <3>2, <4>1, <4>2 DEF PromisedState
      <4> QED  BY <2>0, <2>1, <2>3, <4>3, PromiseChange
    <3>3. CASE row[e].status \in {"PENDING", "PROCESSING"}
      <4>1. row'[e].status \in {"PENDING", "FAILED"}
        BY <2>0, <2>6, <3>3 DEF MarkAsFailed, FailedRow, Row, TypeOK, TableTypeOK
      <4>2. PromisedState(e) = "accepted" /\ PromisedState(e)' \in {"accepted", "parked"}
        BY <2>0, <3>3, <4>1 DEF PromisedState
      <4> QED  BY <2>0, <2>1, <2>3, <4>2, PromiseChange
    <3> QED  BY <2>4, <3>1, <3>2, <3>3 DEF Status
  <2> QED  BY <1>5, <2>5, <2>6 DEF Mark, MarkStatement
<1>6. ASSUME NEW r \in Replicas,
             \/ MarkCancelled(r) \/ MarkLost(r) \/ Crash(r) \/ Exit(r) \/ Restart(r)
             \/ Cancel(r) \/ Stop(r)
      PROVE  [Promise!Next]_(Promise!vars)
  <2>1. UNCHANGED <<tx, row, stored>>
    BY <1>6
    DEF MarkCancelled, MarkLost, Crash, Exit, Restart, Cancel, Stop, tableVars, brokerVars
  <2> QED  BY <2>1, PromiseStutter DEF PromisedState, Stored
<1>7. ASSUME NEW r \in Replicas, NEW x \in batch[r], Reject(r, x) \/ PublishJetStream(r, x)
      PROVE  [Promise!Next]_(Promise!vars)
  <2>1. x.ev \in Events /\ tx[x.ev] = "committed"
    BY DEF TypeOK, Record, Holds, DeliveryInv, NoPhantom
  <2>2. \A f \in Events : PromisedState(f)' = PromisedState(f)
    BY <1>7 DEF Reject, PublishJetStream, TakeUp, tableVars, PromisedState
  <2>3. /\ \A f \in Events : Stored(f) => Stored(f)'
        /\ \A f \in Events : Stored(f)' => f = x.ev \/ Stored(f)
    BY <1>7, <2>1, StoreKeeps
    DEF Reject, PublishJetStream, PublishMsgAcked, PublishMsgFailed, brokerVars, TypeOK,
        DeliveryInv, Stored
  <2> QED  BY <2>1, <2>2, <2>3, PromiseDeliver
<1> QED
  BY <1>1, <1>2, <1>3, <1>4, <1>5, <1>6, <1>7 DEF WorkerNext, Environment, Serve, Disturb

-----------------------------------------------------------------------------
(* Stopping without a crash, a cancelled context or a lost statement.      *)

\* Who is down has finished its batch, and no statement is skipped.
NobodyDrops ==
  \A r \in Replicas : run[r] # "cancelled" /\ (run[r] = "down" => batch[r] = {})

LEMMA OnlyStops ==
  ASSUME FaultKinds \subseteq {"stop"}, NEW r \in Replicas
  PROVE  ~PollResultLost(r) /\ ~MarkLost(r) /\ ~Crash(r) /\ ~Cancel(r)
  BY DEF PollResultLost, MarkLost, Crash, Cancel, Fault

LEMMA StopInit == Init => NobodyDrops /\ StopLeavesNoClaim
  BY DEF Init, TableInit, NoRow, Row, NobodyDrops, StopLeavesNoClaim

LEMMA NobodyDropsStep ==
  ASSUME FaultKinds \subseteq {"stop"}, TypeOK, NobodyDrops, LoopNext
  PROVE  NobodyDrops'
<1>1. CASE UNCHANGED <<run, batch>>
  BY <1>1 DEF NobodyDrops
<1>2. ASSUME NEW r \in Replicas, Poll(r)
      PROVE  NobodyDrops'
  <2>1. /\ run' = run /\ run[r] # "down"
        /\ \A q \in Replicas \ {r} : batch'[q] = batch[q]
    BY <1>2 DEF Poll, ClaimRows, TypeOK
  <2> QED  BY <2>1 DEF NobodyDrops
<1>3. ASSUME NEW r \in Replicas, Mark(r) \/ MarkCancelled(r)
      PROVE  NobodyDrops'
  <2>1. run' = run /\ \A q \in Replicas : batch'[q] \subseteq batch[q]
    BY <1>3 DEF Mark, MarkCancelled, FinishRecord, TypeOK
  <2> QED  BY <2>1 DEF NobodyDrops
<1>4. ASSUME NEW r \in Replicas, Exit(r) \/ Restart(r) \/ Stop(r)
      PROVE  NobodyDrops'
  <2>1. /\ batch' = batch
        /\ run'[r] \in {"up", "draining", "down"}
        /\ run'[r] = "down" => batch[r] = {}
        /\ \A q \in Replicas \ {r} : run'[q] = run[q]
    BY <1>4 DEF Exit, Restart, Stop, TypeOK
  <2> QED  BY <2>1 DEF NobodyDrops
<1> QED
  BY <1>1, <1>2, <1>3, <1>4, OnlyStops
  DEF LoopNext, Environment, Tick, Business, Network, Serve, Disturb, TakeUp, workerVars

LEMMA StopStep ==
  ASSUME FaultKinds \subseteq {"stop"}, TypeOK, HandsInv, NobodyDrops, StopLeavesNoClaim,
         LoopNext
  PROVE  StopLeavesNoClaim'
<1> SUFFICES ASSUME NEW e \in Events, row'[e].status = "PROCESSING"
             PROVE  \E q \in Replicas : run'[q] # "down" /\ Holds(q, e)'
  BY DEF StopLeavesNoClaim
<1> DEFINE Held == \E q \in Replicas : run[q] # "down" /\ Holds(q, e)
<1>0. row[e].status = "PROCESSING" => Held
  BY DEF StopLeavesNoClaim
<1>1. CASE Held /\ UNCHANGED <<run, batch>>
  BY <1>1 DEF Holds
<1>2. ASSUME NEW r \in Replicas, Poll(r)
      PROVE  \E q \in Replicas : run'[q] # "down" /\ Holds(q, e)'
  <2>1. PICK S \in SUBSET Events :
          /\ ClaimRows(r, S)
          /\ batch' = [batch EXCEPT ![r] =
               {[ev |-> f, attempts |-> row[f].attempts] : f \in S}]
    BY <1>2 DEF Poll
  <2>2. run' = run /\ run[r] # "down" /\ batch[r] = {}
    BY <2>1 DEF ClaimRows
  <2>3. CASE e \in S
    <3>1. [ev |-> e, attempts |-> row[e].attempts] \in batch'[r]
      BY <2>1, <2>3 DEF TypeOK
    <3>2. Holds(r, e)'
      BY <3>1 DEF Holds
    <3> QED  BY <2>2, <3>2
  <2>4. CASE e \notin S
    <3>1. row'[e] = row[e]
      BY <2>1, <2>4, ClaimRowsFacts
    <3>2. PICK q \in Replicas : run[q] # "down" /\ Holds(q, e)
      BY <1>0, <3>1
    <3>3. batch'[q] = batch[q]
      BY <2>1, <2>2, <3>2 DEF Holds, TypeOK
    <3> QED  BY <2>2, <3>2, <3>3 DEF Holds
  <2> QED  BY <2>3, <2>4
<1>3. ASSUME NEW r \in Replicas, Mark(r)
      PROVE  \E q \in Replicas : run'[q] # "down" /\ Holds(q, e)'
  <2>1. cur[r] \in Events /\ row[e] \in OutboxRecord
    BY <1>3 DEF Mark, MarkStatement, HandsInv, MarksAreHeld, TypeOK, TableTypeOK
  <2>2. cur[r] # e /\ row'[e] = row[e]
    BY <1>3, <2>1
    DEF Mark, MarkStatement, MarkAsPublished, MarkAsFailed, NoRow, FailedRow, Row, TypeOK,
        TableTypeOK
  <2>3. PICK q \in Replicas : run[q] # "down" /\ Holds(q, e)
    BY <1>0, <2>2
  <2>4. Holds(q, e)' /\ run' = run
    BY <1>3, <2>2, <2>3 DEF Mark, FinishRecord, Holds, TypeOK
  <2> QED  BY <2>3, <2>4
<1>4. ASSUME NEW r \in Replicas, Exit(r) \/ Restart(r) \/ Stop(r)
      PROVE  \E q \in Replicas : run'[q] # "down" /\ Holds(q, e)'
  <2>1. PICK q \in Replicas : run[q] # "down" /\ Holds(q, e)
    BY <1>0, <1>4 DEF Exit, Restart, Stop, tableVars
  <2>2. batch' = batch /\ run'[q] # "down"
    BY <1>4, <2>1 DEF Exit, Restart, Stop, Holds, TypeOK
  <2> QED  BY <2>1, <2>2 DEF Holds
<1>5. ASSUME NEW f \in Events, Business(f)
      PROVE  row[e].status = "PROCESSING" /\ UNCHANGED <<run, batch>>
  BY <1>5
  DEF Business, CreateOutboxRecordInTx, Commit, Rollback, NewRow, Row, workerVars, TypeOK,
      TableTypeOK
<1>6. ASSUME Tick
      PROVE  row[e].status = "PROCESSING" /\ UNCHANGED <<run, batch>>
  BY <1>6 DEF Tick, AgeClaims, ClaimedRow, Row, workerVars
<1>7. ASSUME NEW f \in Events, Network(f)
      PROVE  row[e].status = "PROCESSING" /\ UNCHANGED <<run, batch>>
  BY <1>7 DEF Network, tableVars, workerVars
<1>8. ASSUME NEW r \in Replicas, NEW x \in batch[r], NEW p \in {"published", "failed"},
             TakeUp(r, x, p)
      PROVE  row[e].status = "PROCESSING" /\ UNCHANGED <<run, batch>>
  BY <1>8 DEF TakeUp, tableVars
<1>9. ASSUME NEW r \in Replicas
      PROVE  ~MarkCancelled(r)
  BY DEF MarkCancelled, NobodyDrops
<1> QED
  BY <1>0, <1>1, <1>2, <1>3, <1>4, <1>5, <1>6, <1>7, <1>8, <1>9, OnlyStops
  DEF LoopNext, Environment, Serve, Disturb

-----------------------------------------------------------------------------
(* The theorems, for any specification whose steps are LoopNext steps, and *)
(* for those whose steps are WorkerNext steps.                             *)

LoopSpec == Init /\ [][LoopNext]_vars
WorkerSpec == Init /\ [][WorkerNext]_vars

\* A stuttering step of the workers changes nothing any formula speaks of.
LEMMA Stutter ==
  ASSUME UNCHANGED vars
  PROVE  /\ TypeOK => TypeOK'
         /\ DeliveryInv => DeliveryInv'
         /\ HandsInv => HandsInv'
         /\ StatusMatchesAttempts => StatusMatchesAttempts'
         /\ FailuresInv => FailuresInv'
         /\ ClaimInv => ClaimInv'
         /\ NobodyDrops => NobodyDrops'
         /\ StopLeavesNoClaim => StopLeavesNoClaim'
         /\ UNCHANGED Promise!vars
<1>1. UNCHANGED <<tx, row, stored, dupAge, late, run, phase, batch, cur, faults>>
  BY DEF vars, tableVars, brokerVars, workerVars
<1>2. TypeOK => TypeOK'
  BY <1>1 DEF TypeOK, TableTypeOK, BrokerTypeOK
<1>3. DeliveryInv => DeliveryInv'
  BY <1>1
  DEF DeliveryInv, RowsAreCommitted, MarksAreEarned, DuplicatesAreStored, NoPhantom, NoLoss,
      Stored, Holds
<1>4. HandsInv => HandsInv'
  BY <1>1 DEF HandsInv, RowsAreCommitted, NoPhantom, MarksAreHeld, Stored, Holds
<1>5. StatusMatchesAttempts => StatusMatchesAttempts'
  BY <1>1 DEF StatusMatchesAttempts
<1>6. FailuresInv => FailuresInv'
  <2>1. \A e \in Events : Holders(e)' = Holders(e)
    BY <1>1 DEF Holders, Holds
  <2> QED  BY <1>1, <2>1 DEF FailuresInv
<1>7. ClaimInv => ClaimInv'
  BY <1>1 DEF ClaimInv, ClaimsNeverIntersect, ClaimsAreFresh, SnapshotIsCurrent, Holds
<1>8. /\ NobodyDrops => NobodyDrops'
      /\ StopLeavesNoClaim => StopLeavesNoClaim'
  BY <1>1 DEF NobodyDrops, StopLeavesNoClaim, Holds
<1>9. UNCHANGED Promise!vars
  BY <1>1 DEF Promise!vars, PromisedState, Stored
<1> QED  BY <1>2, <1>3, <1>4, <1>5, <1>6, <1>7, <1>8, <1>9

LEMMA LoopType == LoopSpec => []TypeOK
<1>1. TypeOK /\ [LoopNext]_vars => TypeOK'
  BY TypeStep, Stutter
<1> QED  BY <1>1, TypeInit, PTL DEF LoopSpec

LEMMA LoopHands == LoopSpec => []HandsInv
<1>1. TypeOK /\ HandsInv /\ [LoopNext]_vars => HandsInv'
  BY HandsStep, Stutter
<1> QED  BY <1>1, HandsInit, LoopType, PTL DEF LoopSpec

LEMMA LoopStatus == LoopSpec => []StatusMatchesAttempts
<1>1. Init => StatusMatchesAttempts
  <2> SUFFICES ASSUME Init, NEW e \in Events
               PROVE  row[e].status = "ABSENT"
    BY DEF StatusMatchesAttempts
  <2>1. row[e] = NoRow
    BY DEF Init, TableInit
  <2> QED  BY <2>1 DEF NoRow, Row
<1>2. TypeOK /\ StatusMatchesAttempts /\ [LoopNext]_vars => StatusMatchesAttempts'
  BY StatusStep, Stutter
<1> QED  BY <1>1, <1>2, LoopType, PTL DEF LoopSpec

LEMMA LoopFailures == LoopSpec => []FailuresInv
<1>1. TypeOK /\ HandsInv /\ StatusMatchesAttempts /\ FailuresInv /\ [LoopNext]_vars
        => FailuresInv'
  BY FailuresStep, Stutter
<1> QED
  BY <1>1, FailuresInit, LoopType, LoopHands, LoopStatus, PTL DEF LoopSpec

LEMMA LoopAttempts == LoopSpec => []AttemptsBounded
<1>1. TypeOK /\ StatusMatchesAttempts /\ FailuresInv => AttemptsBounded
  <2> SUFFICES ASSUME TypeOK, StatusMatchesAttempts, FailuresInv, NEW e \in Events
               PROVE  row[e].attempts <= MaxOutboxAttempts - 1 + Cardinality(Replicas)
    BY DEF AttemptsBounded
  <2> USE RepositoryAssumption DEF RepositoryAssumption
  <2>0. row[e].attempts \in Nat /\ row[e].status \in Status
    BY DEF TypeOK, TableTypeOK, OutboxRecord
  <2>1. CASE row[e].status = "ABSENT"
    BY <2>0, <2>1, HoldersFinite DEF FailuresInv
  <2>2. CASE row[e].status = "FAILED"
    BY <2>0, <2>2, HoldersFinite DEF FailuresInv
  <2>3. CASE row[e].status \in {"PENDING", "PROCESSING"}
    BY <2>0, <2>3, HoldersFinite DEF StatusMatchesAttempts
  <2> QED  BY <2>0, <2>1, <2>2, <2>3 DEF Status
<1> QED  BY <1>1, LoopType, LoopStatus, LoopFailures, PTL

LEMMA LoopTerminal == LoopSpec => FailedIsTerminal
<1> DEFINE Terminal == \A e \in Events :
             row[e].status = "FAILED" => row'[e].status \in {"FAILED", "ABSENT"}
<1>1. TypeOK /\ HandsInv /\ StatusMatchesAttempts /\ [LoopNext]_vars => [Terminal]_row
  <2>1. CASE UNCHANGED vars
    BY <2>1 DEF vars, tableVars
  <2>2. CASE LoopNext
    BY <2>2, FailedStep
  <2> QED  BY <2>1, <2>2
<1> QED
  BY <1>1, LoopType, LoopHands, LoopStatus, PTL DEF LoopSpec, FailedIsTerminal

LEMMA LoopClaims ==
  ASSUME SlowBatches = FALSE
  PROVE  LoopSpec => []ClaimInv
<1>1. TypeOK /\ TypeOK' /\ HandsInv /\ ClaimInv /\ [LoopNext]_vars => ClaimInv'
  BY ClaimStep, Stutter
<1> QED  BY <1>1, ClaimInit, LoopType, LoopHands, PTL DEF LoopSpec

LEMMA LoopStops ==
  ASSUME FaultKinds \subseteq {"stop"}
  PROVE  LoopSpec => [](NobodyDrops /\ StopLeavesNoClaim)
<1>1. TypeOK /\ HandsInv /\ NobodyDrops /\ StopLeavesNoClaim /\ [LoopNext]_vars
        => NobodyDrops' /\ StopLeavesNoClaim'
  BY NobodyDropsStep, StopStep, Stutter
<1> QED  BY <1>1, StopInit, LoopType, LoopHands, PTL DEF LoopSpec

LEMMA WorkersLoop == WorkerSpec => LoopSpec
<1>1. TypeOK /\ [WorkerNext]_vars => [LoopNext]_vars
  BY WorkerIsLoop
<1>2. TypeOK /\ [LoopNext]_vars => TypeOK'
  BY TypeStep, Stutter
<1> QED  BY <1>1, <1>2, TypeInit, PTL DEF WorkerSpec, LoopSpec

LEMMA WorkersDelivery == WorkerSpec => []DeliveryInv
<1>1. TypeOK /\ DeliveryInv /\ [WorkerNext]_vars => DeliveryInv'
  BY DeliveryStep, Stutter
<1> QED  BY <1>1, DeliveryInit, WorkersLoop, LoopType, PTL DEF WorkerSpec

LEMMA WorkersPromise == WorkerSpec => Promise!Spec
<1>1. TypeOK /\ DeliveryInv /\ StatusMatchesAttempts /\ [WorkerNext]_vars
        => [Promise!Next]_(Promise!vars)
  BY PromiseStep, Stutter
<1> QED
  BY <1>1, PromiseInit, WorkersLoop, LoopType, WorkersDelivery, LoopStatus, PTL
  DEF WorkerSpec, Promise!Spec
=============================================================================
