---------------------------- MODULE Subscription ----------------------------
(***************************************************************************)
(* How the replicas of a consuming service attach to their durable push    *)
(* consumer (subscribe.go): SubscribeQueueWithRebind, and the deprecated   *)
(* SubscribeWithRebind that pods of an earlier release still run.          *)
(*                                                                         *)
(* Each replica runs one background goroutine: it settles, subscribes, and *)
(* on an error deletes the legacy consumer, sleeps or gives up.  The       *)
(* errors are the answers of the NATS server and its client, which are not *)
(* part of this repository.  A consumer is told from its successor of the  *)
(* same name by its deliver subject, here its generation.                  *)
(***************************************************************************)
EXTENDS Naturals

CONSTANTS
  Replicas,          \* the pods of one service
  SubscribeAttempts, \* attempts of the retry loop (40)
  StreamNamed,       \* the stream argument is not ""
  MaxFaults          \* bound: how many faults of each kind happen

\* A pod dies, a call fails for good, a deletion fails, a pod comes back with
\* SubscribeWithRebind, the pods start with it, they start before the stream
\* exists.
FaultKinds == {"crash", "timeout", "delete", "rollback", "legacy", "late"}

ASSUME SubscriptionAssumption ==
  /\ SubscribeAttempts \in Nat /\ SubscribeAttempts > 1
  /\ StreamNamed \in BOOLEAN
  /\ MaxFaults \in [FaultKinds -> Nat]

VARIABLES
  stream,       \* the stream exists
  consumer,     \* the durable consumer
  generation,   \* consumers created so far
  ghosts,       \* deliver subjects of dead pods the server still takes for bound
  code,         \* the primitive each pod calls
  pc,           \* where its goroutine is
  attempt,      \* the loop counter
  deletedStale, \* the goroutine has tried its one deletion
  sub,          \* the deliver subject it is subscribed to; 0 for none
  faults        \* faults so far, by kind

serverVars == <<stream, consumer, generation, ghosts>>
podVars == <<code, pc, attempt, deletedStale, sub>>
vars == <<serverVars, podVars, faults>>

NoConsumer == [group |-> FALSE, gen |-> 0]

TypeOK ==
  /\ stream \in BOOLEAN
  /\ consumer \in [group : BOOLEAN, gen : Nat]
  /\ generation \in Nat
  /\ ghosts \subseteq Nat
  /\ code \in [Replicas -> {"plain", "queue"}]
  /\ pc \in [Replicas -> {"asleep", "subscribing", "deleting", "active", "ended", "down"}]
  /\ attempt \in [Replicas -> 1 .. SubscribeAttempts + 1]
  /\ deletedStale \in [Replicas -> BOOLEAN]
  /\ sub \in [Replicas -> Nat]
  /\ faults \in [FaultKinds -> Nat]

\* Every pod has just called its primitive and settles.
Init ==
  /\ stream \in {TRUE, MaxFaults["late"] = 0}
  /\ consumer = NoConsumer
  /\ generation = 0
  /\ ghosts = {}
  /\ \E legacy \in {FALSE, MaxFaults["legacy"] > 0} :
       /\ code = [r \in Replicas |-> IF legacy THEN "plain" ELSE "queue"]
       /\ faults = [k \in FaultKinds |->
            IF (k = "legacy" /\ legacy) \/ (k = "late" /\ ~stream) THEN 1 ELSE 0]
  /\ pc = [r \in Replicas |-> "asleep"]
  /\ attempt = [r \in Replicas |-> 1]
  /\ deletedStale = [r \in Replicas |-> FALSE]
  /\ sub = [r \in Replicas |-> 0]

Fault(kind) ==
  /\ faults[kind] < MaxFaults[kind]
  /\ faults' = [faults EXCEPT ![kind] = @ + 1]

-----------------------------------------------------------------------------
(* The answers to js.Subscribe ("plain") and js.QueueSubscribe ("queue").  *)

Exists == stream /\ consumer # NoConsumer

\* A live or dead pod holds the deliver subject.
PushBound == consumer.gen \in ghosts \/ \E q \in Replicas : sub[q] = consumer.gen

AlreadyBound(r) == Exists /\ code[r] = "plain" /\ ~consumer.group /\ PushBound
WithDeliverGroup(r) == Exists /\ code[r] = "plain" /\ consumer.group
WithoutDeliverGroup(r) == Exists /\ code[r] = "queue" /\ ~consumer.group

\* nil: the consumer is created, or there is one that r may bind.
Accepted(r) ==
  stream /\ ~AlreadyBound(r) /\ ~WithDeliverGroup(r) /\ ~WithoutDeliverGroup(r)

\* The subscription of r, after creating a consumer with or without a group.
BindConsumer(r, group) ==
  /\ IF consumer = NoConsumer
     THEN /\ generation' = generation + 1
          /\ consumer' = [group |-> group, gen |-> generation + 1]
     ELSE UNCHANGED <<consumer, generation>>
  /\ sub' = [sub EXCEPT ![r] = consumer'.gen]
  /\ UNCHANGED <<stream, ghosts>>

-----------------------------------------------------------------------------
(* The retry loop, shared by both primitives.                              *)

\* The sleep ends: the settle, the backoff, or the wait for the stream.  The
\* attempts span minutes, and a server that has not noticed by then that a
\* pod is gone is left out: the last attempt sees no ghost.
Wake(r) ==
  /\ pc[r] = "asleep"
  /\ attempt[r] = SubscribeAttempts => ghosts = {}
  /\ pc' = [pc EXCEPT ![r] = "subscribing"]
  /\ UNCHANGED <<serverVars, code, attempt, deletedStale, sub, faults>>

\* Mutant: QueueSubscribe does not give the consumer its deliver group.
SubscribeWithoutGroup(r) ==
  /\ pc[r] = "subscribing"
  /\ Accepted(r)
  /\ BindConsumer(r, FALSE)
  /\ pc' = [pc EXCEPT ![r] = "active"]
  /\ UNCHANGED <<code, attempt, deletedStale, faults>>

\* The call succeeds and the goroutine ends; the client keeps the subscription.
Subscribe(r) ==
  /\ pc[r] = "subscribing"
  /\ Accepted(r)
  /\ BindConsumer(r, code[r] = "queue")
  /\ pc' = [pc EXCEPT ![r] = "active"]
  /\ UNCHANGED <<code, attempt, deletedStale, faults>>

\* The loop goes on in state next as long as it has attempts left.
NextAttempt(r, next) ==
  /\ attempt' = [attempt EXCEPT ![r] = @ + 1]
  /\ pc' = [pc EXCEPT ![r] = IF attempt[r] < SubscribeAttempts THEN next ELSE "ended"]

\* Mutant: the first attempt gives up on a legacy consumer.
MigrateGivesUp(r) ==
  /\ pc[r] = "subscribing"
  /\ WithoutDeliverGroup(r) /\ ~deletedStale[r] /\ StreamNamed
  /\ pc' = [pc EXCEPT ![r] = "ended"]
  /\ UNCHANGED <<serverVars, code, attempt, deletedStale, sub, faults>>

\* A durable without a deliver group is in the way: r will delete it, once.
Migrate(r) ==
  /\ pc[r] = "subscribing"
  /\ WithoutDeliverGroup(r) /\ ~deletedStale[r] /\ StreamNamed
  /\ deletedStale' = [deletedStale EXCEPT ![r] = TRUE]
  /\ pc' = [pc EXCEPT ![r] = "deleting"]
  /\ UNCHANGED <<serverVars, code, attempt, sub, faults>>

\* DeleteConsumer deletes whatever consumer has the name by now.
DeleteConsumer(r) ==
  /\ pc[r] = "deleting"
  /\ consumer' = NoConsumer
  /\ NextAttempt(r, "subscribing")
  /\ UNCHANGED <<stream, generation, ghosts, code, deletedStale, sub, faults>>

\* DeleteConsumer returns an error; the loop goes on as if it had not.
DeleteFails(r) ==
  /\ pc[r] = "deleting"
  /\ Fault("delete")
  /\ NextAttempt(r, "subscribing")
  /\ UNCHANGED <<serverVars, code, deletedStale, sub>>

\* Mutant: waiting for the stream uses up the attempts.
AwaitStreamCounted(r) ==
  /\ pc[r] = "subscribing"
  /\ ~stream /\ code[r] = "queue"
  /\ NextAttempt(r, "asleep")
  /\ UNCHANGED <<serverVars, code, deletedStale, sub, faults>>

\* "stream not found": wait, for as long as it takes.
AwaitStream(r) ==
  /\ pc[r] = "subscribing"
  /\ ~stream /\ code[r] = "queue"
  /\ pc' = [pc EXCEPT ![r] = "asleep"]
  /\ UNCHANGED <<serverVars, code, attempt, deletedStale, sub, faults>>

\* Mutant: the loop counter is not incremented.
RetryUncounted(r) ==
  /\ pc[r] = "subscribing"
  /\ \/ AlreadyBound(r)
     \/ WithoutDeliverGroup(r) /\ (deletedStale[r] \/ ~StreamNamed)
  /\ pc' = [pc EXCEPT ![r] = "asleep"]
  /\ UNCHANGED <<serverVars, code, attempt, deletedStale, sub, faults>>

\* A bind conflict: back off and retry.
Retry(r) ==
  /\ pc[r] = "subscribing"
  /\ \/ AlreadyBound(r)
     \/ WithoutDeliverGroup(r) /\ (deletedStale[r] \/ ~StreamNamed)
  /\ NextAttempt(r, "asleep")
  /\ UNCHANGED <<serverVars, code, deletedStale, sub, faults>>

\* An answer that is taken for permanent.
GiveUp(r) ==
  /\ pc[r] = "subscribing"
  /\ \/ ~stream /\ code[r] = "plain" /\ UNCHANGED faults
     \/ WithDeliverGroup(r) /\ UNCHANGED faults
     \/ Fault("timeout")
  /\ pc' = [pc EXCEPT ![r] = "ended"]
  /\ UNCHANGED <<serverVars, code, attempt, deletedStale, sub>>

-----------------------------------------------------------------------------
(* The pods, the server and the publishing service.                        *)

\* The pod dies or is replaced; the server does not know yet.
Crash(r) ==
  /\ pc[r] # "down"
  /\ Fault("crash")
  /\ pc' = [pc EXCEPT ![r] = "down"]
  /\ sub' = [sub EXCEPT ![r] = 0]
  /\ ghosts' = IF sub[r] = 0 THEN ghosts ELSE ghosts \cup {sub[r]}
  /\ UNCHANGED <<stream, consumer, generation, code, attempt, deletedStale>>

\* Its successor starts, with the code of the new or the old release.
Restart(r) ==
  /\ pc[r] = "down"
  /\ pc' = [pc EXCEPT ![r] = "asleep"]
  /\ \/ code' = [code EXCEPT ![r] = "queue"] /\ UNCHANGED faults
     \/ code' = [code EXCEPT ![r] = "plain"] /\ Fault("rollback")
  /\ attempt' = [attempt EXCEPT ![r] = 1]
  /\ deletedStale' = [deletedStale EXCEPT ![r] = FALSE]
  /\ UNCHANGED <<serverVars, sub>>

\* The server releases the binding of a dead pod.
Release ==
  /\ ghosts # {}
  /\ \E g \in ghosts : ghosts' = ghosts \ {g}
  /\ UNCHANGED <<stream, consumer, generation, podVars, faults>>

\* The publishing service runs and ensures the stream.
EnsureStream ==
  /\ ~stream
  /\ stream' = TRUE
  /\ UNCHANGED <<consumer, generation, ghosts, podVars, faults>>

Work(r) ==
  \/ Wake(r) \/ Subscribe(r) \/ Migrate(r) \/ DeleteConsumer(r)
  \/ AwaitStream(r) \/ Retry(r) \/ GiveUp(r) \/ Restart(r)

Next ==
  \/ \E r \in Replicas : Work(r) \/ DeleteFails(r) \/ Crash(r)
  \/ Release
  \/ EnsureStream

Spec == Init /\ [][Next]_vars

\* Goroutines run, pods are restarted, the server notices dead connections and
\* the publishing service is deployed some day.
Fairness ==
  /\ \A r \in Replicas : WF_vars(Work(r))
  /\ WF_vars(Release)
  /\ WF_vars(EnsureStream)

FairSpec == Spec /\ Fairness

-----------------------------------------------------------------------------
(* Properties.                                                             *)

\* r receives messages: it is subscribed to the consumer there is.
Attached(r) == pc[r] = "active" /\ consumer # NoConsumer /\ sub[r] = consumer.gen

\* "All replicas share the consumer" (SubscribeQueueWithRebind): a replica
\* that has logged its subscription as active is subscribed to the consumer
\* there is, not to one deleted under its feet.
ActiveIsAttached ==
  \A r \in Replicas : pc[r] = "active" /\ code[r] = "queue" => Attached(r)

Only(kinds) == \A k \in FaultKinds \ kinds : faults[k] = 0

\* A fleet that has only ever run SubscribeQueueWithRebind: there an active
\* replica stays on the one consumer, whatever fails.
QueueOnly == faults["legacy"] = 0 /\ faults["rollback"] = 0
FleetIsAttached == QueueOnly => ActiveIsAttached

\* Pods may be replaced by pods of the new release; nothing else goes wrong.
Orderly == Only({"crash", "legacy"})

\* However late the stream of such a fleet is created and whichever pods are
\* replaced, in the end every replica receives its share of the messages.
AllAttached == []Only({"crash", "late"}) => <>[](\A r \in Replicas : Attached(r))

\* However an orderly deploy from SubscribeWithRebind to
\* SubscribeQueueWithRebind interleaves with crashes, in the end some replica
\* receives the messages.
EventuallyServed == []Orderly => <>[](\E r \in Replicas : Attached(r))

\* The goroutine of a replica is bounded work: whatever the server answers and
\* whichever releases run side by side, it subscribes or gives up in the end,
\* and the replicas do not delete each other's consumers for ever.
LoopsEnd == <>[](\A r \in Replicas : pc[r] \in {"active", "ended"})
=============================================================================
