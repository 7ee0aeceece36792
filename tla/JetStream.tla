----------------------------- MODULE JetStream ------------------------------
(***************************************************************************)
(* The broker as publishers see it: the stream, its duplicate window and   *)
(* the PublishMsg call.  The broker is not part of this repository; this   *)
(* is what publisher.go, adapters.go and headers.go rely on.  The message  *)
(* id of an event is the event itself.                                     *)
(***************************************************************************)
EXTENDS Event

CONSTANTS
  DupWindow, \* ticks a message id is remembered by the stream
  MaxLate    \* bound: copies of one event delayed in the network at a time

ASSUME JetStreamAssumption == DupWindow \in Nat /\ MaxLate \in Nat

VARIABLES
  stored, \* copies of each event in the stream; 2 stands for two or more
  dupAge, \* age of the remembered message id; DupWindow when forgotten
  late    \* copies still on their way after the publisher gave up on them

brokerVars == <<stored, dupAge, late>>

BrokerTypeOK ==
  /\ stored \in [Events -> 0 .. 2]
  /\ dupAge \in [Events -> 0 .. DupWindow]
  /\ late \in [Events -> Nat]

BrokerInit ==
  /\ stored = [e \in Events |-> 0]
  /\ dupAge = [e \in Events |-> DupWindow]
  /\ late = [e \in Events |-> 0]

Stored(e) == stored[e] > 0

\* One more copy of e reaches the stream (counted up to two).
AddCopy(e) == stored' = [stored EXCEPT ![e] = IF @ < 2 THEN @ + 1 ELSE 2]

\* The stream takes a message that carries the event id as Nats-Msg-Id: a
\* copy inside the duplicate window is acknowledged and dropped.
Store(e) ==
  IF dupAge[e] < DupWindow
  THEN UNCHANGED <<stored, dupAge>>
  ELSE AddCopy(e) /\ dupAge' = [dupAge EXCEPT ![e] = 0]

\* PublishMsg returns nil: the stream has acknowledged the message.
PublishMsgAcked(e) == Store(e) /\ UNCHANGED late

\* PublishMsg returns an error.  The message is gone, or it is still in a
\* buffer and reaches the stream later (a lost acknowledgement is the case
\* where it does so at once).
PublishMsgFailed(e) ==
  /\ \/ UNCHANGED late
     \/ late[e] < MaxLate /\ late' = [late EXCEPT ![e] = @ + 1]
  /\ UNCHANGED <<stored, dupAge>>

\* A core NATS publish returns nil once the message is in the client's buffer:
\* it reaches the stream, without a message id, or it is lost.
PublishCore(e) ==
  /\ AddCopy(e) \/ UNCHANGED stored
  /\ UNCHANGED <<dupAge, late>>

\* A delayed copy arrives.
LateArrival(e) ==
  /\ late[e] > 0
  /\ late' = [late EXCEPT ![e] = @ - 1]
  /\ Store(e)

\* A delayed copy is lost (the connection or its process goes away).
LateLoss(e) ==
  /\ late[e] > 0
  /\ late' = [late EXCEPT ![e] = @ - 1]
  /\ UNCHANGED <<stored, dupAge>>

\* A tick of the clock: message ids approach the end of the window.
AgeMsgIds ==
  dupAge' = [e \in Events |-> IF dupAge[e] < DupWindow THEN dupAge[e] + 1 ELSE DupWindow]
=============================================================================
