---------------------------- MODULE Broadcaster -----------------------------
(***************************************************************************)
(* The fan-out transport of the realtime hubs (broadcast.go), one topic of *)
(* one namespace: the handlers of each pod, its NATS subscription, and the *)
(* relays on their way.  Core NATS keeps the order of one connection and   *)
(* may lose a message for a pod that is reconnecting; it is external.      *)
(***************************************************************************)
EXTENDS Naturals, Sequences

CONSTANTS
  Pods,         \* the replicas, each with one Broadcaster
  Connected,    \* the pods whose NATS connection is not nil
  Hubs,         \* the handlers that will be registered
  Home,         \* the pod of each hub
  SubjectToken, \* subjectToken on the tenants and scopes in use
  MaxFaults     \* bound: failed subscribes, incomplete relays and closes

ASSUME BroadcasterAssumption ==
  Connected \subseteq Pods /\ Home \in [Hubs -> Pods] /\ MaxFaults \in Nat

VARIABLES
  handlers, \* the hubs registered with their pod's Broadcaster
  natsSubs, \* the pods whose subscription is open
  closed,   \* the pods whose Broadcaster is closed
  inbox,    \* the messages NATS holds for each pod, oldest first
  faults    \* faults so far

relayVars == <<handlers, natsSubs, closed, inbox, faults>>

toToken(name) == IF name = "" THEN "_" ELSE SubjectToken[name]
fromToken(token) == IF token = "_" THEN "" ELSE token

\* The name reads the same on every pod.
Plain(name) == fromToken(toToken(name)) = name

RelayInit ==
  /\ handlers = {} /\ natsSubs = {} /\ closed = {}
  /\ inbox = [p \in Pods |-> <<>>]
  /\ faults = 0

Fault == faults < MaxFaults /\ faults' = faults + 1

Opens(h) == Home[h] \in Connected /\ \A g \in handlers : Home[g] # Home[h]

\* Subscribe: the first handler of a pod opens the NATS subscription.
Register(h) ==
  /\ h \notin handlers
  /\ handlers' = handlers \cup {h}
  /\ natsSubs' = IF Opens(h) THEN natsSubs \cup {Home[h]} ELSE natsSubs
  /\ UNCHANGED <<closed, inbox, faults>>

\* Mutant: the handler stays although its subscription failed.
RegisterFailsHalfway(h) ==
  /\ h \notin handlers /\ Opens(h) /\ Fault
  /\ handlers' = handlers \cup {h}
  /\ UNCHANGED <<natsSubs, closed, inbox>>

\* conn.Subscribe fails, and the handler is taken out again.
RegisterFails(h) ==
  /\ h \notin handlers /\ Opens(h) /\ Fault
  /\ UNCHANGED <<handlers, natsSubs, closed, inbox>>

\* The subscription ends, with the messages it still holds.
Close(p) ==
  /\ p \notin closed /\ Fault
  /\ closed' = closed \cup {p}
  /\ natsSubs' = natsSubs \ {p}
  /\ inbox' = [inbox EXCEPT ![p] = <<>>]
  /\ UNCHANGED handlers

\* What conn.PublishMsg hands to NATS for message msg of pod p.
Relayed(p, msg, tenant, scope) ==
  [origin |-> p, msg |-> msg, tenant |-> toToken(tenant), scope |-> toToken(scope)]

\* The relay reaches the subscribed pods, its own included, but for those in
\* lost; a failed PublishMsg loses them all.
Relay(p, msg, tenant, scope) ==
  /\ \E lost \in SUBSET natsSubs :
       /\ p \notin Connected => lost = natsSubs
       /\ IF lost = {} \/ p \notin Connected THEN UNCHANGED faults ELSE Fault
       /\ inbox' = [q \in Pods |-> IF q \in natsSubs \ lost
                                   THEN Append(inbox[q], Relayed(p, msg, tenant, scope))
                                   ELSE inbox[q]]
  /\ UNCHANGED <<handlers, natsSubs, closed>>

\* The delivery goroutine of p takes the next message off the connection.
Take(p) ==
  /\ inbox[p] # <<>>
  /\ inbox' = [inbox EXCEPT ![p] = Tail(@)]
  /\ UNCHANGED <<handlers, natsSubs, closed, faults>>

\* "The first handler for a topic opens the NATS subscription; later ones
\* share it" (Subscribe): until it is closed, a pod with a connection hears
\* the relays as soon as it has a handler, whatever subscribe failed before.
HandlersHear ==
  \A h \in handlers : Home[h] \in Connected \ closed => Home[h] \in natsSubs
=============================================================================
