---- MODULE MCSubscription ----
(* Subscription on small instances: the fault budgets of the runs.          *)
EXTENDS Subscription

AnyFault == [[k \in FaultKinds |-> 1] EXCEPT !["crash"] = 3]
RaceFaults == [[k \in FaultKinds |-> 0] EXCEPT !["legacy"] = 1, !["crash"] = 2]
====
