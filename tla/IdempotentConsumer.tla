------------------------- MODULE IdempotentConsumer -------------------------
(***************************************************************************)
(* Handlers that use the IdempotencyStore in the two ways its comments     *)
(* prescribe: claim, then act (Claim), or act, then mark                   *)
(* (AlreadyProcessed and MarkProcessed).  The handlers, JetStream's        *)
(* redelivery and the side effects are outside this repository.            *)
(*                                                                         *)
(* A message is the event it carries and the places EventIDFromMsg looks   *)
(* at; an event may come in several messages, through the outbox, over     *)
(* core NATS or from a publisher with an envelope of its own.              *)
(***************************************************************************)
EXTENDS IdempotencyStore

CONSTANTS
  Messages,   \* [event, copy, header, id, event_id]; "" where absent
  Pods,       \* replicas of every consumer
  ClaimFirst, \* the consumers that claim before they act
  Horizon,    \* days a message may still be delivered after it was published
  FaultKinds, \* which faults may happen
  MaxFaults   \* bound: how many faults happen

ASSUME ConsumerAssumption ==
  /\ \A m \in Messages : m.event \in EventIds
  /\ ClaimFirst \subseteq Consumers
  /\ Horizon \in Nat
  /\ FaultKinds \subseteq {"crash", "db", "act"}
  /\ MaxFaults \in Nat

VARIABLES
  published, \* the day each event was published on, or Absent
  acked,     \* the deliveries that are settled, <<message, consumer>>
  pc,        \* where each handler is
  msg,       \* the message it handles
  effects,   \* how often each consumer has acted on each event; 2 for more
  faults     \* faults so far

vars == <<storeVars, published, acked, pc, msg, effects, faults>>

Handlers == Consumers \X Pods
NoMessage == [event |-> "", copy |-> 0, header |-> "", id |-> "", event_id |-> ""]
NoEventID == "error"

Parse(v) == IF v \in EventIds THEN v ELSE NoEventID

\* The header wins, even when it does not parse; then id, then event_id.
EventIDFromMsg(m) ==
  CASE m.header # "" -> Parse(m.header)
    [] m.header = "" /\ m.id # "" -> Parse(m.id)
    [] m.header = "" /\ m.id = "" /\ m.event_id # "" -> Parse(m.event_id)
    [] OTHER -> NoEventID

Id(h) == EventIDFromMsg(msg[h])

TypeOK ==
  /\ StoreTypeOK
  /\ published \in [EventIds -> 0 .. LastDay \cup {Absent}]
  /\ acked \subseteq Messages \X Consumers
  /\ pc \in [Handlers -> {"idle", "gate", "act", "mark", "ack"}]
  /\ msg \in [Handlers -> Messages \cup {NoMessage}]
  /\ effects \in [Keys -> 0 .. 2]
  /\ faults \in Nat

Init ==
  /\ StoreInit
  /\ published = [e \in EventIds |-> Absent]
  /\ acked = {}
  /\ pc = [h \in Handlers |-> "idle"]
  /\ msg = [h \in Handlers |-> NoMessage]
  /\ effects = [k \in Keys |-> 0]
  /\ faults = 0

Fault(kind) ==
  /\ kind \in FaultKinds
  /\ faults < MaxFaults
  /\ faults' = faults + 1

-----------------------------------------------------------------------------
(* The handler of a consumer h[1] on a pod h[2].                           *)

Goto(h, l) == pc' = [pc EXCEPT ![h] = l]

\* The handler returns without an ack: the message will be delivered again.
Return(h) ==
  /\ Goto(h, "idle")
  /\ msg' = [msg EXCEPT ![h] = NoMessage]

Deliverable(e) == published[e] # Absent /\ today <= published[e] + Horizon

\* A first delivery or a redelivery, also while another pod still works on m.
Deliver(h, m) ==
  /\ pc[h] = "idle"
  /\ Deliverable(m.event) /\ <<m, h[1]>> \notin acked
  /\ EventIDFromMsg(m) # NoEventID
  /\ Goto(h, "gate")
  /\ msg' = [msg EXCEPT ![h] = m]
  /\ UNCHANGED <<storeVars, published, acked, effects, faults>>

ClaimGate(h) ==
  /\ pc[h] = "gate" /\ h[1] \in ClaimFirst
  /\ \E won \in BOOLEAN : Claim(Id(h), h[1], won) /\ Goto(h, IF won THEN "act" ELSE "ack")
  /\ UNCHANGED <<published, acked, msg, effects, faults>>

CheckGate(h) ==
  /\ pc[h] = "gate" /\ h[1] \notin ClaimFirst
  /\ \E exists \in BOOLEAN :
       AlreadyProcessed(Id(h), h[1], exists) /\ Goto(h, IF exists THEN "ack" ELSE "act")
  /\ UNCHANGED <<published, acked, msg, effects, faults>>

\* The side effect, once more.
Act(h) ==
  /\ pc[h] = "act"
  /\ effects' = [effects EXCEPT ![<<msg[h].event, h[1]>>] = IF @ < 2 THEN @ + 1 ELSE 2]
  /\ Goto(h, IF h[1] \in ClaimFirst THEN "ack" ELSE "mark")
  /\ UNCHANGED <<storeVars, published, acked, msg, faults>>

\* The side effect fails and has not taken place.
ActFails(h) ==
  /\ pc[h] = "act"
  /\ Fault("act")
  /\ Return(h)
  /\ UNCHANGED <<storeVars, published, acked, effects>>

Mark(h) ==
  /\ pc[h] = "mark"
  /\ MarkProcessed(Id(h), h[1])
  /\ Goto(h, "ack")
  /\ UNCHANGED <<published, acked, msg, effects, faults>>

\* The statement of the gate or of the mark returns an error.
StoreFails(h) ==
  /\ pc[h] \in {"gate", "mark"}
  /\ Fault("db")
  /\ IF pc[h] = "gate" /\ h[1] \notin ClaimFirst
     THEN UNCHANGED storeVars ELSE StatementFails(Id(h), h[1])
  /\ Return(h)
  /\ UNCHANGED <<published, acked, effects>>

Ack(h) ==
  /\ pc[h] = "ack"
  /\ acked' = acked \cup {<<msg[h], h[1]>>}
  /\ Return(h)
  /\ UNCHANGED <<storeVars, published, effects, faults>>

Crash(h) ==
  /\ pc[h] # "idle"
  /\ Fault("crash")
  /\ Return(h)
  /\ UNCHANGED <<storeVars, published, acked, effects>>

-----------------------------------------------------------------------------
Publish(e) ==
  /\ published[e] = Absent
  /\ published' = [published EXCEPT ![e] = today]
  /\ UNCHANGED <<storeVars, acked, pc, msg, effects, faults>>

\* The daily job.
Prune ==
  /\ \/ PruneStart /\ UNCHANGED faults
     \/ PruneBatch /\ UNCHANGED faults
     \/ PruneFails /\ Fault("db")
  /\ UNCHANGED <<published, acked, pc, msg, effects>>

\* A handler does not sit at its gate for days.
Day ==
  /\ \A h \in Handlers : pc[h] # "gate"
  /\ NextDay
  /\ UNCHANGED <<published, acked, pc, msg, effects, faults>>

Handle(h) ==
  \/ \E m \in Messages : Deliver(h, m)
  \/ ClaimGate(h) \/ CheckGate(h) \/ Act(h) \/ ActFails(h) \/ Mark(h)
  \/ StoreFails(h) \/ Ack(h) \/ Crash(h)

Next ==
  \/ \E h \in Handlers : Handle(h)
  \/ \E e \in EventIds : Publish(e)
  \/ Prune
  \/ Day

Spec == Init /\ [][Next]_vars

-----------------------------------------------------------------------------
(* Properties.                                                             *)

\* "Claim BEFORE acting so it can never run twice" (Claim): whatever is
\* redelivered, duplicated, sent in another envelope, failed or pruned, a
\* consumer that claims acts on an event at most once.
AppliedAtMostOnce ==
  \A e \in EventIds, c \in ClaimFirst : effects[<<e, c>>] <= 1

\* Why: the one handler that has won a claim is the only one that may act,
\* and a claim outlives every delivery of its event (the retention "leaves a
\* wide margin", DefaultProcessedRetention).
Acting(e, c) ==
  {h \in Handlers : h[1] = c /\ pc[h] = "act" /\ msg[h].event = e}

ClaimCovers ==
  \A e \in EventIds, c \in ClaimFirst :
    /\ \A g, h \in Acting(e, c) : g = h
    /\ Acting(e, c) # {} => effects[<<e, c>>] = 0
    /\ Acting(e, c) # {} \/ effects[<<e, c>>] > 0 =>
         published[e] # Absent /\ (Deliverable(e) => Processed(e, c))

\* "Process-THEN-mark" is "at-least-once delivery" (MarkProcessed): such a
\* consumer settles a message only after somebody has acted on its event.
SettledIsApplied ==
  \A m \in Messages, c \in Consumers \ ClaimFirst :
    <<m, c>> \in acked => effects[<<m.event, c>>] > 0

\* When Prune returns no error, no row older than its cutoff is left: neither
\* the batch limit nor claims made meanwhile let it stop too early.
PruneIsComplete ==
  [][cutoff # NotRunning /\ cutoff' = NotRunning /\ faults' = faults
       => \A k \in Keys : processed'[k] # Absent => processed'[k] >= cutoff]_vars
=============================================================================
