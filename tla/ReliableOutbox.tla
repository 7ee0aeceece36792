--------------------------- MODULE ReliableOutbox ---------------------------
(***************************************************************************)
(* What the transactional outbox promises to the service that writes an    *)
(* event (README.md, "Transactional Outbox Pattern", "Dead Letter          *)
(* Handling"), with no table, replica, clock or network in sight.          *)
(***************************************************************************)
CONSTANT Events

VARIABLES
  state,    \* what the service knows of each event
  delivered \* the events the stream has stored

State == {"none", "accepted", "done", "parked"}

Init ==
  /\ state = [e \in Events |-> "none"]
  /\ delivered = {}

\* The business transaction commits.
Accept(e) ==
  /\ state[e] = "none"
  /\ state' = [state EXCEPT ![e] = "accepted"]
  /\ UNCHANGED delivered

\* The stream stores the event: for the first time, and only if it happened.
Deliver(e) ==
  /\ state[e] # "none"
  /\ e \notin delivered
  /\ delivered' = delivered \cup {e}
  /\ UNCHANGED state

\* The outbox forgets the event: it is in the stream.
Settle(e) ==
  /\ state[e] \in {"accepted", "parked"}
  /\ e \in delivered
  /\ state' = [state EXCEPT ![e] = "done"]
  /\ UNCHANGED delivered

\* The outbox gives up on the event and keeps it for troubleshooting.
Park(e) ==
  /\ state[e] = "accepted"
  /\ state' = [state EXCEPT ![e] = "parked"]
  /\ UNCHANGED delivered

Next == \E e \in Events : Accept(e) \/ Deliver(e) \/ Settle(e) \/ Park(e)

vars == <<state, delivered>>

Spec == Init /\ [][Next]_vars

\* Every accepted event is settled or parked in the end.
EventuallyResolved ==
  \A e \in Events : (state[e] = "accepted") ~> (state[e] \in {"done", "parked"})
=============================================================================
