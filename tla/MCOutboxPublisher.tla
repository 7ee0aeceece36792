---- MODULE MCOutboxPublisher ----
(* OutboxPublisher on small instances: replicas are model values and alike. *)
EXTENDS OutboxPublisher, TLC

ReplicaSymmetry == Permutations(Replicas)
====
