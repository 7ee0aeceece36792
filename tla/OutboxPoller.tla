---------------------------- MODULE OutboxPoller ----------------------------
(***************************************************************************)
(* OutboxPoller (poller.go): the outbox workers that publish through an    *)
(* EventPublisher (adapters.go).  There is no check of the attempts before *)
(* the publish, and a Stop beside the context.                             *)
(***************************************************************************)
EXTENDS OutboxWorkers

CONSTANTS
  NATSReplicas, \* replicas with a NATSAdapter; the others have a JetStreamAdapter
  Unconnected   \* replicas whose adapter was made with a nil connection

ASSUME PollerAssumption ==
  /\ NATSReplicas \subseteq Replicas
  /\ Unconnected \subseteq Replicas

\* NATSAdapter.Publish: an error comes before anything is buffered.
PublishNATS(r, x) ==
  \/ TakeUp(r, x, "published") /\ PublishCore(x.ev)
  \/ TakeUp(r, x, "failed") /\ UNCHANGED brokerVars

\* Either adapter without a connection: it "skips publishing" and returns
\* nil all the same.
SkipPublish(r, x) == TakeUp(r, x, "published") /\ UNCHANGED brokerVars

Publish(r, x) ==
  \/ r \in Unconnected /\ SkipPublish(r, x)
  \/ r \notin Unconnected \cup NATSReplicas /\ PublishJetStream(r, x)
  \/ r \in NATSReplicas \ Unconnected /\ PublishNATS(r, x)

\* The body of poll's loop, up to the mark.
PollRecord(r, x) ==
  \/ ~FromJSON(x.ev) /\ Reject(r, x)
  \/ FromJSON(x.ev) /\ Publish(r, x)

\* A step of the goroutine that executes run on r.
Work(r) == Serve(r) \/ \E x \in batch[r] : PollRecord(r, x)

Next == Environment \/ \E r \in Replicas : Work(r) \/ Disturb(r)

Spec == Init /\ [][Next]_vars

\* As for Publisher: goroutines run, pods restart, time passes.
Fairness == WF_vars(Tick) /\ \A r \in Replicas : WF_vars(Work(r))

FairSpec == Spec /\ Fairness
=============================================================================
