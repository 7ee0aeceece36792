------------------------- MODULE SubscriptionProofs -------------------------
(***************************************************************************)
(* The theorems about Subscription, for every number of replicas, attempts *)
(* and faults.                                                             *)
(***************************************************************************)
EXTENDS Subscription, TLAPS

LEMMA BindType ==
  ASSUME TypeOK, NEW r \in Replicas, NEW group \in BOOLEAN, BindConsumer(r, group)
  PROVE  /\ consumer' \in [group : BOOLEAN, gen : Nat]
         /\ generation' \in Nat
         /\ sub' \in [Replicas -> Nat]
         /\ UNCHANGED <<stream, ghosts>>
<1>1. consumer' \in [group : BOOLEAN, gen : Nat] /\ generation' \in Nat
  <2>1. CASE consumer = NoConsumer
    BY <2>1 DEF TypeOK, BindConsumer
  <2>2. CASE consumer # NoConsumer
    BY <2>2 DEF TypeOK, BindConsumer
  <2> QED  BY <2>1, <2>2
<1> QED  BY <1>1 DEF TypeOK, BindConsumer

LEMMA NextAttemptType ==
  ASSUME TypeOK, NEW r \in Replicas, NEW next \in {"asleep", "subscribing"},
         attempt[r] <= SubscribeAttempts, NextAttempt(r, next)
  PROVE  /\ attempt' \in [Replicas -> 1 .. SubscribeAttempts + 1]
         /\ pc' \in [Replicas -> {"asleep", "subscribing", "deleting", "active", "ended", "down"}]
  BY SubscriptionAssumption DEF TypeOK, NextAttempt

\* A goroutine that is still in its loop has an attempt left: this is why the
\* loop counter stays in its range.
LoopInv ==
  \A r \in Replicas :
    pc[r] \in {"asleep", "subscribing", "deleting"} => attempt[r] <= SubscribeAttempts

LEMMA NextAttemptLoop ==
  ASSUME TypeOK, LoopInv, NEW r \in Replicas, NEW next \in {"asleep", "subscribing"},
         NextAttempt(r, next)
  PROVE  LoopInv'
<1> SUFFICES ASSUME NEW q \in Replicas,
                    pc'[q] \in {"asleep", "subscribing", "deleting"}
             PROVE  attempt'[q] <= SubscribeAttempts
  BY DEF LoopInv
<1>1. CASE q = r
  BY <1>1, SubscriptionAssumption DEF TypeOK, NextAttempt
<1>2. CASE q # r
  BY <1>2 DEF TypeOK, LoopInv, NextAttempt
<1> QED  BY <1>1, <1>2

LEMMA TypeStep == TypeOK /\ LoopInv /\ [Next]_vars => TypeOK' /\ LoopInv'
<1> SUFFICES ASSUME TypeOK, LoopInv, [Next]_vars
             PROVE  TypeOK' /\ LoopInv'
  OBVIOUS
<1> USE SubscriptionAssumption
<1>1. CASE UNCHANGED vars
  BY <1>1 DEF TypeOK, LoopInv, vars, serverVars, podVars
<1>2. ASSUME NEW r \in Replicas, Work(r) \/ DeleteFails(r) \/ Crash(r)
      PROVE  TypeOK' /\ LoopInv'
  <2>1. CASE Wake(r)
    BY <2>1 DEF TypeOK, LoopInv, Wake, serverVars
  <2>2. CASE Subscribe(r)
    <3>1. (code[r] = "queue") \in BOOLEAN
      OBVIOUS
    <3>2. /\ consumer' \in [group : BOOLEAN, gen : Nat]
          /\ generation' \in Nat
          /\ sub' \in [Replicas -> Nat]
          /\ UNCHANGED <<stream, ghosts>>
      BY <2>2, <3>1, BindType DEF Subscribe
    <3> QED  BY <2>2, <3>2 DEF TypeOK, LoopInv, Subscribe
  <2>3. CASE Migrate(r)
    BY <2>3 DEF TypeOK, LoopInv, Migrate, serverVars
  <2>4. CASE DeleteConsumer(r)
    <3>1. attempt[r] <= SubscribeAttempts
      BY <2>4 DEF LoopInv, DeleteConsumer
    <3>2. NextAttempt(r, "subscribing") /\ UNCHANGED <<stream, generation, ghosts, code, deletedStale, sub, faults>>
      BY <2>4 DEF DeleteConsumer
    <3>3. consumer' \in [group : BOOLEAN, gen : Nat]
      BY <2>4 DEF DeleteConsumer, NoConsumer
    <3>4. LoopInv'
      BY <3>2, NextAttemptLoop
    <3>5. /\ attempt' \in [Replicas -> 1 .. SubscribeAttempts + 1]
          /\ pc' \in [Replicas -> {"asleep", "subscribing", "deleting", "active", "ended", "down"}]
      BY <3>1, <3>2, NextAttemptType
    <3> QED  BY <3>2, <3>3, <3>4, <3>5 DEF TypeOK
  <2>5. CASE AwaitStream(r)
    BY <2>5 DEF TypeOK, LoopInv, AwaitStream, serverVars
  <2>6. CASE Retry(r)
    <3>1. attempt[r] <= SubscribeAttempts
      BY <2>6 DEF LoopInv, Retry
    <3>2. NextAttempt(r, "asleep") /\ UNCHANGED <<serverVars, code, deletedStale, sub, faults>>
      BY <2>6 DEF Retry
    <3>3. LoopInv'
      BY <3>2, NextAttemptLoop
    <3>4. /\ attempt' \in [Replicas -> 1 .. SubscribeAttempts + 1]
          /\ pc' \in [Replicas -> {"asleep", "subscribing", "deleting", "active", "ended", "down"}]
      BY <3>1, <3>2, NextAttemptType
    <3> QED  BY <3>2, <3>3, <3>4 DEF TypeOK, serverVars
  <2>7. CASE GiveUp(r)
    BY <2>7 DEF TypeOK, LoopInv, GiveUp, Fault, FaultKinds, serverVars
  <2>8. CASE Restart(r)
    BY <2>8 DEF TypeOK, LoopInv, Restart, Fault, FaultKinds, serverVars
  <2>9. CASE DeleteFails(r)
    <3>1. attempt[r] <= SubscribeAttempts
      BY <2>9 DEF LoopInv, DeleteFails
    <3>2. /\ NextAttempt(r, "subscribing")
          /\ UNCHANGED <<serverVars, code, deletedStale, sub>>
          /\ faults' = [faults EXCEPT !["delete"] = @ + 1]
      BY <2>9 DEF DeleteFails, Fault
    <3>3. LoopInv'
      BY <3>2, NextAttemptLoop
    <3>4. /\ attempt' \in [Replicas -> 1 .. SubscribeAttempts + 1]
          /\ pc' \in [Replicas -> {"asleep", "subscribing", "deleting", "active", "ended", "down"}]
      BY <3>1, <3>2, NextAttemptType
    <3> QED  BY <3>2, <3>3, <3>4 DEF TypeOK, serverVars, FaultKinds
  <2>10. CASE Crash(r)
    <3>1. ghosts' \subseteq Nat
      BY <2>10 DEF TypeOK, Crash
    <3>2. faults' \in [FaultKinds -> Nat]
      BY <2>10 DEF TypeOK, Crash, Fault, FaultKinds
    <3> QED  BY <2>10, <3>1, <3>2 DEF TypeOK, LoopInv, Crash
  <2> QED  BY <1>2, <2>1, <2>2, <2>3, <2>4, <2>5, <2>6, <2>7, <2>8, <2>9, <2>10 DEF Work
<1>3. CASE Release
  BY <1>3 DEF TypeOK, LoopInv, Release, podVars
<1>4. CASE EnsureStream
  BY <1>4 DEF TypeOK, LoopInv, EnsureStream, podVars
<1> QED  BY <1>1, <1>2, <1>3, <1>4 DEF Next

\* Every variable keeps its type; in particular the counter of the retry loop
\* never passes the bound by more than one.
THEOREM SubscriptionTypeOK == Spec => []TypeOK
<1>1. Init => TypeOK /\ LoopInv
  <2> SUFFICES ASSUME Init
               PROVE  TypeOK /\ LoopInv
    OBVIOUS
  <2>1. (MaxFaults["late"] = 0) \in BOOLEAN /\ (MaxFaults["legacy"] > 0) \in BOOLEAN
    OBVIOUS
  <2>2. stream \in BOOLEAN
    BY <2>1 DEF Init
  <2>3. faults \in [FaultKinds -> Nat]
    BY DEF Init
  <2>4. consumer \in [group : BOOLEAN, gen : Nat]
    BY DEF Init, NoConsumer
  <2> QED  BY <2>2, <2>3, <2>4, SubscriptionAssumption DEF Init, TypeOK, LoopInv
<1> QED  BY <1>1, TypeStep, PTL DEF Spec

-----------------------------------------------------------------------------
\* In a fleet that has only ever run SubscribeQueueWithRebind no durable
\* lacks its deliver group, so no replica deletes one, and every replica
\* that is active stays on the one consumer.
FleetInv ==
  /\ \A r \in Replicas : code[r] = "queue" /\ pc[r] # "deleting"
  /\ consumer # NoConsumer => consumer.group
  /\ ActiveIsAttached

LEMMA FaultsGrow == TypeOK /\ [Next]_vars /\ QueueOnly' => QueueOnly
<1> SUFFICES ASSUME TypeOK, [Next]_vars
             PROVE  faults' = faults \/ \E k \in FaultKinds : faults' = [faults EXCEPT ![k] = @ + 1]
  BY DEF TypeOK, QueueOnly, FaultKinds
<1>1. CASE UNCHANGED vars
  BY <1>1 DEF vars
<1>2. ASSUME NEW r \in Replicas, Work(r)
      PROVE  faults' = faults \/ \E k \in FaultKinds : faults' = [faults EXCEPT ![k] = @ + 1]
  BY <1>2 DEF Work, Wake, Subscribe, Migrate, DeleteConsumer, AwaitStream, Retry, GiveUp, Restart,
              Fault, FaultKinds
<1>3. ASSUME NEW r \in Replicas, DeleteFails(r) \/ Crash(r)
      PROVE  \E k \in FaultKinds : faults' = [faults EXCEPT ![k] = @ + 1]
  BY <1>3 DEF DeleteFails, Crash, Fault, FaultKinds
<1>4. CASE Release \/ EnsureStream
  BY <1>4 DEF Release, EnsureStream
<1> QED  BY <1>1, <1>2, <1>3, <1>4 DEF Next

LEMMA FleetStep ==
  TypeOK /\ (QueueOnly => FleetInv) /\ [Next]_vars => (QueueOnly' => FleetInv')
<1> SUFFICES ASSUME TypeOK, FleetInv, [Next]_vars, QueueOnly, QueueOnly'
             PROVE  FleetInv'
  BY FaultsGrow
<1> USE DEF FleetInv, ActiveIsAttached, Attached
<1>1. CASE UNCHANGED vars
  BY <1>1 DEF vars, serverVars, podVars
<1>2. ASSUME NEW r \in Replicas, Work(r) \/ DeleteFails(r) \/ Crash(r)
      PROVE  FleetInv'
  <2>1. CASE Wake(r)
    BY <2>1 DEF TypeOK, Wake, serverVars
  <2>2. CASE Subscribe(r)
    <3>1. code[r] = "queue" /\ BindConsumer(r, TRUE)
      BY <2>2 DEF Subscribe
    <3>2. consumer' # NoConsumer /\ consumer'.group
      <4>1. CASE consumer = NoConsumer
        BY <3>1, <4>1 DEF BindConsumer, NoConsumer, TypeOK
      <4>2. CASE consumer # NoConsumer
        BY <3>1, <4>2 DEF BindConsumer
      <4> QED  BY <4>1, <4>2
    <3>3. sub' = [sub EXCEPT ![r] = consumer'.gen] /\ (consumer # NoConsumer => consumer' = consumer)
      BY <3>1 DEF BindConsumer
    <3>4. ASSUME NEW q \in Replicas, pc'[q] = "active"
          PROVE  sub'[q] = consumer'.gen
      <4>1. CASE q = r
        BY <3>3, <4>1 DEF TypeOK
      <4>2. CASE q # r
        BY <2>2, <3>3, <3>4, <4>2 DEF TypeOK, Subscribe
      <4> QED  BY <4>1, <4>2
    <3> QED  BY <2>2, <3>2, <3>4 DEF TypeOK, Subscribe
  <2>3. CASE Migrate(r)
    BY <2>3 DEF Migrate, WithoutDeliverGroup, Exists
  <2>4. CASE DeleteConsumer(r) \/ DeleteFails(r)
    BY <2>4 DEF DeleteConsumer, DeleteFails
  <2>5. CASE AwaitStream(r)
    BY <2>5 DEF TypeOK, AwaitStream, serverVars
  <2>6. CASE Retry(r)
    BY <2>6 DEF Retry, AlreadyBound, WithoutDeliverGroup, Exists
  <2>7. CASE GiveUp(r)
    BY <2>7 DEF TypeOK, GiveUp, serverVars
  <2>8. CASE Restart(r)
    <3>1. code' = [code EXCEPT ![r] = "queue"]
      BY <2>8 DEF TypeOK, Restart, Fault, FaultKinds, QueueOnly
    <3> QED  BY <2>8, <3>1 DEF TypeOK, Restart, serverVars
  <2>9. CASE Crash(r)
    BY <2>9 DEF TypeOK, Crash
  <2> QED  BY <1>2, <2>1, <2>2, <2>3, <2>4, <2>5, <2>6, <2>7, <2>8, <2>9 DEF Work
<1>3. CASE Release
  BY <1>3 DEF Release, podVars
<1>4. CASE EnsureStream
  BY <1>4 DEF EnsureStream, podVars
<1> QED  BY <1>1, <1>2, <1>3, <1>4 DEF Next

\* "All replicas share the consumer" (SubscribeQueueWithRebind), as long as no
\* pod has run SubscribeWithRebind: with one, two migrating replicas can delete
\* each other's consumer (see the README).
THEOREM FleetStaysAttached == Spec => []FleetIsAttached
<1>1. Init => (QueueOnly => FleetInv)
  <2> SUFFICES ASSUME Init, QueueOnly
               PROVE  FleetInv
    OBVIOUS
  <2>1. PICK legacy \in {FALSE, MaxFaults["legacy"] > 0} :
          /\ code = [r \in Replicas |-> IF legacy THEN "plain" ELSE "queue"]
          /\ faults["legacy"] = IF legacy THEN 1 ELSE 0
    BY DEF Init, FaultKinds
  <2>2. legacy = FALSE
    <3>1. (IF legacy THEN 1 ELSE 0) = 0
      BY <2>1 DEF QueueOnly
    <3>2. CASE legacy
      BY <3>1, <3>2
    <3>3. (MaxFaults["legacy"] > 0) \in BOOLEAN
      OBVIOUS
    <3>4. legacy \in BOOLEAN
      BY <3>3
    <3> QED  BY <3>2, <3>4
  <2>3. \A r \in Replicas : code[r] = "queue"
    BY <2>1, <2>2
  <2> QED  BY <2>3 DEF Init, FleetInv, ActiveIsAttached, Attached
<1>2. (QueueOnly => FleetInv) => FleetIsAttached
  BY DEF FleetInv, FleetIsAttached
<1> QED  BY <1>1, <1>2, FleetStep, SubscriptionTypeOK, PTL DEF Spec
=============================================================================
