-------------------------- MODULE OutboxPublisher ---------------------------
(***************************************************************************)
(* Publisher (publisher.go): the outbox workers that publish to JetStream  *)
(* directly, and check the attempts of a record before they do.            *)
(***************************************************************************)
EXTENDS OutboxWorkers

CONSTANT MaxAttempts \* PublisherConfig.MaxAttempts

ASSUME PublisherAssumption == MaxAttempts \in Nat

\* The record is published at all: it decodes and has an attempt left.
Publishable(x) == FromJSON(x.ev) /\ x.attempts < MaxAttempts

\* publishRecord, up to the mark.
PublishRecord(r, x) ==
  \/ ~Publishable(x) /\ Reject(r, x)
  \/ Publishable(x) /\ PublishJetStream(r, x)

\* A step of the goroutine that runs Start on r.
Work(r) == Serve(r) \/ \E x \in batch[r] : PublishRecord(r, x)

Next == Environment \/ \E r \in Replicas : Work(r) \/ Disturb(r)

Spec == Init /\ [][Next]_vars

\* The scheduler runs every goroutine, the platform restarts pods, and time
\* passes.  Nothing is owed by the broker, the network or the transactions.
Fairness == WF_vars(Tick) /\ \A r \in Replicas : WF_vars(Work(r))

FairSpec == Spec /\ Fairness
=============================================================================
