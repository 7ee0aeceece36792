---------------------- MODULE IdempotentConsumerProofs ----------------------
(***************************************************************************)
(* The theorems about IdempotentConsumer, for every set of events,         *)
(* messages, consumers and pods, every retention and every mix of faults,  *)
(* and about what its consumers read out of any payload.                   *)
(***************************************************************************)
EXTENDS UserEventConsumer, TLAPS, FiniteSetTheorems

\* What a reader of the store takes for granted: a message names the event
\* it carries or none, and claims are kept as long as messages can come.
MessagesAreNamed ==
  /\ NoEventID \notin EventIds
  /\ \A m \in Messages : EventIDFromMsg(m) \in {m.event, NoEventID}

RetentionCovers == Horizon <= Retention

\* The rows and the clock.
RowsInv ==
  /\ \A e \in EventIds : published[e] <= today
  /\ \A e \in EventIds, c \in Consumers :
       Processed(e, c) => /\ published[e] # Absent
                          /\ published[e] <= processed[<<e, c>>]
                          /\ processed[<<e, c>>] <= today
  /\ cutoff # NotRunning => cutoff + Retention <= today

\* The handlers.
HandlersInv ==
  \A h \in Handlers :
    /\ pc[h] # "idle" => /\ msg[h] \in Messages
                         /\ EventIDFromMsg(msg[h]) = msg[h].event
                         /\ published[msg[h].event] # Absent
    /\ pc[h] = "gate" => Deliverable(msg[h].event)

AtMostOnceInv ==
  /\ TypeOK
  /\ RowsInv
  /\ HandlersInv
  /\ ClaimCovers
  /\ AppliedAtMostOnce

USE StoreAssumption, ConsumerAssumption

LEMMA ConsumerInit == Init => AtMostOnceInv
<1> SUFFICES ASSUME Init PROVE AtMostOnceInv
  OBVIOUS
<1> USE DEF Init, StoreInit
<1>1. TypeOK
  BY DEF TypeOK, StoreTypeOK, Absent, NotRunning, Handlers, Keys
<1>2. RowsInv /\ HandlersInv
  BY DEF RowsInv, HandlersInv, Processed, Absent, NotRunning, Keys
<1>3. ClaimCovers /\ AppliedAtMostOnce
  BY DEF ClaimCovers, AppliedAtMostOnce, Acting, Keys
<1> QED  BY <1>1, <1>2, <1>3 DEF AtMostOnceInv

LEMMA HandlerPair ==
  ASSUME NEW h \in Handlers
  PROVE  h[1] \in Consumers /\ h[2] \in Pods /\ h = <<h[1], h[2]>>
  BY DEF Handlers

-----------------------------------------------------------------------------
(* Type correctness, one action at a time.                                 *)

LEMMA RecordType ==
  ASSUME StoreTypeOK, NEW id \in EventIds, NEW c \in Consumers, Record(id, c)
  PROVE  /\ StoreTypeOK'
         /\ Processed(id, c)'
         /\ \A k \in Keys : processed[k] # Absent => processed'[k] = processed[k]
         /\ \A k \in Keys : processed'[k] = processed[k] \/ (k = <<id, c>> /\ processed'[k] = today)
         /\ UNCHANGED <<today, cutoff>>
<1> USE DEF Record, Processed, StoreTypeOK, Keys, Absent, NotRunning
<1>1. <<id, c>> \in Keys
  OBVIOUS
<1>2. CASE Processed(id, c)
  BY <1>2
<1>3. CASE ~Processed(id, c)
  BY <1>1, <1>3
<1> QED  BY <1>2, <1>3

LEMMA StatementFailsType ==
  ASSUME StoreTypeOK, NEW id \in EventIds, NEW c \in Consumers, StatementFails(id, c)
  PROVE  /\ StoreTypeOK'
         /\ \A k \in Keys : processed[k] # Absent => processed'[k] = processed[k]
         /\ \A k \in Keys : processed'[k] = processed[k] \/ (k = <<id, c>> /\ processed'[k] = today)
         /\ UNCHANGED <<today, cutoff>>
<1>1. CASE Record(id, c)
  BY <1>1, RecordType
<1>2. CASE UNCHANGED storeVars
  BY <1>2 DEF StoreTypeOK, storeVars
<1> QED  BY <1>1, <1>2 DEF StatementFails

\* A handler moves on within its own variables.
LEMMA HandlerType ==
  ASSUME TypeOK, NEW h \in Handlers, NEW l \in {"idle", "gate", "act", "mark", "ack"},
         Goto(h, l), msg' \in [Handlers -> Messages \cup {NoMessage}],
         StoreTypeOK', published' = published, acked' \subseteq Messages \X Consumers,
         effects' \in [Keys -> 0 .. 2], faults' \in Nat
  PROVE  TypeOK'
  BY DEF TypeOK, Goto

\* What is left of HandlersInv to show when one handler has moved.
LEMMA HandlersFrame ==
  ASSUME TypeOK, HandlersInv, NEW h \in Handlers,
         \A g \in Handlers \ {h} : pc'[g] = pc[g] /\ msg'[g] = msg[g],
         published' = published, today' = today,
         pc'[h] # "idle" => /\ msg'[h] \in Messages
                            /\ EventIDFromMsg(msg'[h]) = msg'[h].event
                            /\ published[msg'[h].event] # Absent,
         pc'[h] = "gate" => Deliverable(msg'[h].event)
  PROVE  HandlersInv'
  BY DEF HandlersInv, Deliverable

\* Rows are only added, and with the day they are added on.
LEMMA RowsFrame ==
  ASSUME TypeOK, RowsInv, NEW id \in EventIds, NEW c \in Consumers,
         published[id] # Absent,
         \A k \in Keys : processed'[k] = processed[k] \/ (k = <<id, c>> /\ processed'[k] = today),
         UNCHANGED <<today, cutoff, published>>
  PROVE  RowsInv'
<1>1. ASSUME NEW e \in EventIds, NEW d \in Consumers, Processed(e, d)'
      PROVE  /\ published[e] # Absent
             /\ published[e] <= processed'[<<e, d>>]
             /\ processed'[<<e, d>>] <= today
  <2>1. <<e, d>> \in Keys
    BY DEF Keys
  <2>2. CASE processed'[<<e, d>>] = processed[<<e, d>>]
    BY <1>1, <2>2 DEF RowsInv, Processed
  <2>3. CASE <<e, d>> = <<id, c>> /\ processed'[<<e, d>>] = today
    BY <2>3 DEF RowsInv, TypeOK, StoreTypeOK
  <2> QED  BY <2>1, <2>2, <2>3
<1> QED  BY <1>1 DEF RowsInv

\* ClaimCovers survives a step in which nobody wins a claim or acts on one.
LEMMA CoversFrame ==
  ASSUME ClaimCovers, effects' = effects,
         \A e \in EventIds, c \in ClaimFirst :
           /\ Acting(e, c)' \subseteq Acting(e, c)
           /\ published[e] # Absent => published'[e] # Absent
           /\ published[e] # Absent /\ Deliverable(e)' => Deliverable(e)
           /\ Processed(e, c) /\ Deliverable(e)' => Processed(e, c)'
  PROVE  ClaimCovers'
<1> SUFFICES ASSUME NEW e \in EventIds, NEW c \in ClaimFirst
             PROVE  /\ \A g, h \in Acting(e, c)' : g = h
                    /\ Acting(e, c)' # {} => effects[<<e, c>>] = 0
                    /\ Acting(e, c)' # {} \/ effects[<<e, c>>] > 0 =>
                         published'[e] # Absent /\ (Deliverable(e)' => Processed(e, c)')
  BY DEF ClaimCovers
<1>1. Acting(e, c)' \subseteq Acting(e, c)
  OBVIOUS
<1>2. /\ \A g, h \in Acting(e, c) : g = h
      /\ Acting(e, c) # {} => effects[<<e, c>>] = 0
      /\ Acting(e, c) # {} \/ effects[<<e, c>>] > 0 =>
           published[e] # Absent /\ (Deliverable(e) => Processed(e, c))
  BY DEF ClaimCovers
<1> QED  BY <1>1, <1>2

LEMMA ActingFrame ==
  ASSUME TypeOK, NEW h \in Handlers, h[1] \in ClaimFirst => pc'[h] # "act",
         \A g \in Handlers \ {h} : pc'[g] = pc[g] /\ msg'[g] = msg[g]
  PROVE  \A e \in EventIds, c \in ClaimFirst : Acting(e, c)' \subseteq Acting(e, c)
  BY DEF Acting

-----------------------------------------------------------------------------
(* The invariant, one action at a time.                                    *)

\* A handler step that leaves the table, the clock and the effects alone.
LEMMA QuietStep ==
  ASSUME AtMostOnceInv, NEW h \in Handlers, NEW l \in {"idle", "gate", "act", "mark", "ack"},
         Goto(h, l), l = "act" => h[1] \notin ClaimFirst,
         msg' \in [Handlers -> Messages \cup {NoMessage}],
         \A g \in Handlers \ {h} : msg'[g] = msg[g],
         acked' \subseteq Messages \X Consumers,
         UNCHANGED <<storeVars, published, effects>>, faults' \in Nat,
         l # "idle" => /\ msg'[h] \in Messages
                       /\ EventIDFromMsg(msg'[h]) = msg'[h].event
                       /\ published[msg'[h].event] # Absent,
         l = "gate" => Deliverable(msg'[h].event)
  PROVE  AtMostOnceInv'
<1> USE DEF AtMostOnceInv
<1>1. /\ pc'[h] = l
      /\ \A g \in Handlers \ {h} : pc'[g] = pc[g] /\ msg'[g] = msg[g]
  BY DEF Goto, TypeOK
<1>2. TypeOK'
  <2>1. StoreTypeOK' /\ effects' \in [Keys -> 0 .. 2]
    BY DEF TypeOK, StoreTypeOK, storeVars
  <2> QED  BY <2>1, HandlerType
<1>3. RowsInv'
  BY DEF RowsInv, Processed, storeVars
<1>4. HandlersInv'
  BY <1>1, HandlersFrame DEF storeVars
<1>5. ClaimCovers'
  <2>1. \A e \in EventIds, c \in ClaimFirst : Acting(e, c)' \subseteq Acting(e, c)
    BY <1>1, ActingFrame
  <2> QED  BY <2>1, CoversFrame DEF Deliverable, Processed, storeVars
<1>6. AppliedAtMostOnce'
  BY DEF AppliedAtMostOnce
<1> QED  BY <1>2, <1>3, <1>4, <1>5, <1>6

\* A handler step that records its event and neither wins nor acts.
LEMMA RecordingStep ==
  ASSUME AtMostOnceInv, NEW h \in Handlers, NEW l \in {"idle", "ack"}, pc[h] # "idle",
         Goto(h, l), StatementFails(Id(h), h[1]),
         msg' \in [Handlers -> Messages \cup {NoMessage}],
         \A g \in Handlers \ {h} : msg'[g] = msg[g],
         UNCHANGED <<published, acked, effects>>, faults' \in Nat,
         l # "idle" => msg'[h] = msg[h]
  PROVE  AtMostOnceInv'
<1> USE DEF AtMostOnceInv
<1>1. /\ pc'[h] = l
      /\ \A g \in Handlers \ {h} : pc'[g] = pc[g] /\ msg'[g] = msg[g]
  BY DEF Goto, TypeOK
<1>2. /\ msg[h] \in Messages
      /\ EventIDFromMsg(msg[h]) = msg[h].event
      /\ published[msg[h].event] # Absent
      /\ msg[h].event \in EventIds
      /\ Id(h) = msg[h].event
  BY DEF HandlersInv, Id
<1>3. h[1] \in Consumers
  BY HandlerPair
<1>4. /\ StoreTypeOK'
      /\ \A k \in Keys : processed[k] # Absent => processed'[k] = processed[k]
      /\ \A k \in Keys : processed'[k] = processed[k]
                           \/ (k = <<Id(h), h[1]>> /\ processed'[k] = today)
      /\ UNCHANGED <<today, cutoff>>
  BY <1>2, <1>3, StatementFailsType DEF TypeOK
<1>5. TypeOK'
  <2>1. effects' \in [Keys -> 0 .. 2] /\ acked' \subseteq Messages \X Consumers
    BY DEF TypeOK
  <2> QED  BY <1>4, <2>1, HandlerType
<1>6. RowsInv'
  <2>1. \A k \in Keys : processed'[k] = processed[k]
                          \/ (k = <<msg[h].event, h[1]>> /\ processed'[k] = today)
    BY <1>2, <1>4
  <2> QED  BY <1>2, <1>3, <1>4, <2>1, RowsFrame
<1>7. HandlersInv'
  BY <1>1, <1>2, <1>4, HandlersFrame
<1>8. ClaimCovers'
  <2>1. \A e \in EventIds, c \in ClaimFirst : Acting(e, c)' \subseteq Acting(e, c)
    BY <1>1, ActingFrame
  <2>2. \A e \in EventIds, c \in ClaimFirst : Processed(e, c) => Processed(e, c)'
    BY <1>4 DEF Processed, Keys
  <2> QED  BY <1>4, <2>1, <2>2, CoversFrame DEF Deliverable
<1>9. AppliedAtMostOnce'
  BY DEF AppliedAtMostOnce
<1> QED  BY <1>5, <1>6, <1>7, <1>8, <1>9

\* The claim is won: until now nobody was acting and nobody had acted, because
\* the row would have been there.
LEMMA WinStep ==
  ASSUME AtMostOnceInv, NEW h \in Handlers, pc[h] = "gate", h[1] \in ClaimFirst,
         Claim(Id(h), h[1], TRUE), Goto(h, "act"),
         UNCHANGED <<published, acked, msg, effects, faults>>
  PROVE  AtMostOnceInv'
<1> USE DEF AtMostOnceInv
<1>1. /\ pc'[h] = "act"
      /\ \A g \in Handlers \ {h} : pc'[g] = pc[g] /\ msg'[g] = msg[g]
  BY DEF Goto, TypeOK
<1> DEFINE ev == msg[h].event
<1>2. /\ msg[h] \in Messages
      /\ EventIDFromMsg(msg[h]) = ev
      /\ published[ev] # Absent
      /\ Deliverable(ev)
      /\ ev \in EventIds
      /\ Id(h) = ev
  BY DEF HandlersInv, Id
<1>3. h[1] \in Consumers
  BY HandlerPair
<1>4. Record(ev, h[1]) /\ ~Processed(ev, h[1])
  BY <1>2 DEF Claim
<1>5. /\ StoreTypeOK'
      /\ Processed(ev, h[1])'
      /\ \A k \in Keys : processed[k] # Absent => processed'[k] = processed[k]
      /\ \A k \in Keys : processed'[k] = processed[k]
                           \/ (k = <<ev, h[1]>> /\ processed'[k] = today)
      /\ UNCHANGED <<today, cutoff>>
  BY <1>2, <1>3, <1>4, RecordType DEF TypeOK
<1>6. TypeOK'
  <2>1. effects' \in [Keys -> 0 .. 2] /\ acked' \subseteq Messages \X Consumers
        /\ msg' \in [Handlers -> Messages \cup {NoMessage}] /\ faults' \in Nat
    BY DEF TypeOK
  <2> QED  BY <1>5, <2>1, HandlerType
<1>7. RowsInv'
  BY <1>2, <1>3, <1>5, RowsFrame
<1>8. HandlersInv'
  BY <1>1, <1>2, <1>5, HandlersFrame
<1>9. ClaimCovers'
  <2> SUFFICES ASSUME NEW e \in EventIds, NEW c \in ClaimFirst
               PROVE  /\ \A g, q \in Acting(e, c)' : g = q
                      /\ Acting(e, c)' # {} => effects[<<e, c>>] = 0
                      /\ Acting(e, c)' # {} \/ effects[<<e, c>>] > 0 =>
                           published[e] # Absent /\ (Deliverable(e) => Processed(e, c)')
    BY <1>5 DEF ClaimCovers, Deliverable
  <2>1. /\ \A g, q \in Acting(e, c) : g = q
        /\ Acting(e, c) # {} => effects[<<e, c>>] = 0
        /\ Acting(e, c) # {} \/ effects[<<e, c>>] > 0 =>
             published[e] # Absent /\ (Deliverable(e) => Processed(e, c))
    BY DEF ClaimCovers
  <2>2. effects[<<e, c>>] \in 0 .. 2
    BY DEF TypeOK, Keys
  <2>3. CASE e = ev /\ c = h[1]
    <3>1. Acting(e, c) = {} /\ effects[<<e, c>>] = 0
      BY <1>2, <1>4, <2>1, <2>2, <2>3
    <3>2. Acting(e, c)' \subseteq {h}
      BY <1>1, <3>1 DEF Acting
    <3> QED  BY <1>2, <1>5, <2>3, <3>1, <3>2
  <2>4. CASE ~(e = ev /\ c = h[1])
    <3>1. Acting(e, c)' = Acting(e, c)
      BY <1>1, <2>4 DEF Acting
    <3>2. Processed(e, c) => Processed(e, c)'
      BY <1>5 DEF Processed, Keys
    <3> QED  BY <2>1, <3>1, <3>2
  <2> QED  BY <2>3, <2>4
<1>10. AppliedAtMostOnce'
  BY DEF AppliedAtMostOnce
<1> QED  BY <1>6, <1>7, <1>8, <1>9, <1>10

\* The winner acts: nobody had, and nobody else is about to.
LEMMA ActStep ==
  ASSUME AtMostOnceInv, NEW h \in Handlers, Act(h)
  PROVE  AtMostOnceInv'
<1> USE DEF AtMostOnceInv, Act
<1> DEFINE l == IF h[1] \in ClaimFirst THEN "ack" ELSE "mark"
           ev == msg[h].event
<1>1. /\ pc'[h] = l
      /\ \A g \in Handlers \ {h} : pc'[g] = pc[g] /\ msg'[g] = msg[g]
  BY DEF Goto, TypeOK
<1>2. /\ msg[h] \in Messages
      /\ EventIDFromMsg(msg[h]) = ev
      /\ published[ev] # Absent
      /\ ev \in EventIds
  BY DEF HandlersInv
<1>3. h[1] \in Consumers /\ <<ev, h[1]>> \in Keys
  BY <1>2, HandlerPair DEF Keys
<1>4. effects' \in [Keys -> 0 .. 2]
  BY <1>3 DEF TypeOK
<1>5. TypeOK'
  <2>1. /\ msg' \in [Handlers -> Messages \cup {NoMessage}]
        /\ acked' \subseteq Messages \X Consumers /\ faults' \in Nat
        /\ StoreTypeOK'
    BY DEF TypeOK, StoreTypeOK, storeVars
  <2> QED  BY <1>4, <2>1, HandlerType
<1>6. RowsInv'
  BY DEF RowsInv, Processed, storeVars
<1>7. HandlersInv'
  BY <1>1, <1>2, HandlersFrame DEF storeVars
<1>8. ASSUME NEW e \in EventIds, NEW c \in ClaimFirst
      PROVE  /\ effects'[<<e, c>>] <= 1
             /\ \A g, q \in Acting(e, c)' : g = q
             /\ Acting(e, c)' # {} => effects'[<<e, c>>] = 0
             /\ Acting(e, c)' # {} \/ effects'[<<e, c>>] > 0 =>
                  published[e] # Absent /\ (Deliverable(e) => Processed(e, c))
  <2>1. /\ \A g, q \in Acting(e, c) : g = q
        /\ Acting(e, c) # {} => effects[<<e, c>>] = 0
        /\ Acting(e, c) # {} \/ effects[<<e, c>>] > 0 =>
             published[e] # Absent /\ (Deliverable(e) => Processed(e, c))
        /\ effects[<<e, c>>] <= 1
    BY DEF ClaimCovers, AppliedAtMostOnce
  <2>2. <<e, c>> \in Keys
    BY DEF Keys
  <2>3. CASE e = ev /\ c = h[1]
    <3>1. h \in Acting(e, c)
      BY <2>3 DEF Acting
    <3>2. effects'[<<e, c>>] = 1
      BY <2>1, <2>2, <2>3, <3>1 DEF TypeOK
    <3>3. Acting(e, c)' = {}
      BY <1>1, <2>1, <2>3, <3>1 DEF Acting
    <3> QED  BY <2>1, <3>1, <3>2, <3>3
  <2>4. CASE ~(e = ev /\ c = h[1])
    <3>1. effects'[<<e, c>>] = effects[<<e, c>>]
      BY <1>3, <2>2, <2>4 DEF TypeOK
    <3>2. Acting(e, c)' \subseteq Acting(e, c)
      BY <1>1 DEF Acting
    <3> QED  BY <2>1, <3>1, <3>2
  <2> QED  BY <2>3, <2>4
<1>9. ClaimCovers' /\ AppliedAtMostOnce'
  <2>1. published' = published /\ today' = today /\ processed' = processed
    BY DEF storeVars
  <2> QED  BY <1>8, <2>1 DEF ClaimCovers, AppliedAtMostOnce, Deliverable, Processed
<1> QED  BY <1>5, <1>6, <1>7, <1>9

-----------------------------------------------------------------------------
\* A step of the handler h.
LEMMA HandlerStep ==
  ASSUME AtMostOnceInv, MessagesAreNamed, NEW h \in Handlers, Handle(h)
  PROVE  AtMostOnceInv'
<1> USE DEF AtMostOnceInv
<1>1. /\ msg \in [Handlers -> Messages \cup {NoMessage}]
      /\ acked \subseteq Messages \X Consumers
      /\ faults \in Nat
  BY DEF TypeOK
<1>2. ASSUME NEW m \in Messages, Deliver(h, m)
      PROVE  AtMostOnceInv'
  <2>1. m.event \in EventIds /\ EventIDFromMsg(m) = m.event
    BY <1>2 DEF Deliver, MessagesAreNamed
  <2>2. Deliverable(m.event) /\ published[m.event] # Absent
    BY <1>2 DEF Deliver, Deliverable
  <2>3. /\ Goto(h, "gate") /\ msg' = [msg EXCEPT ![h] = m]
        /\ UNCHANGED <<storeVars, published, acked, effects, faults>>
    BY <1>2 DEF Deliver
  <2> QED  BY <1>1, <2>1, <2>2, <2>3, QuietStep
<1>3. ASSUME pc[h] # "idle"
      PROVE  /\ msg[h] \in Messages
             /\ EventIDFromMsg(msg[h]) = msg[h].event
             /\ published[msg[h].event] # Absent
  BY <1>3 DEF HandlersInv
<1>4. CASE ClaimGate(h)
  <2>1. CASE Claim(Id(h), h[1], TRUE) /\ Goto(h, "act")
    BY <1>4, <2>1, WinStep DEF ClaimGate
  <2>2. CASE Claim(Id(h), h[1], FALSE) /\ Goto(h, "ack")
    BY <1>1, <1>4, <2>2, RecordingStep DEF ClaimGate, Claim, StatementFails
  <2> QED  BY <1>4, <2>1, <2>2 DEF ClaimGate
<1>5. CASE CheckGate(h)
  <2>1. /\ UNCHANGED <<storeVars, published, acked, msg, effects, faults>>
        /\ h[1] \notin ClaimFirst
        /\ Goto(h, "act") \/ Goto(h, "ack")
    BY <1>5 DEF CheckGate, AlreadyProcessed
  <2>2. pc[h] # "idle"
    BY <1>5 DEF CheckGate
  <2>3. CASE Goto(h, "act")
    BY <1>1, <1>3, <2>1, <2>2, <2>3, QuietStep
  <2>4. CASE Goto(h, "ack")
    BY <1>1, <1>3, <2>1, <2>2, <2>4, QuietStep
  <2> QED  BY <2>1, <2>3, <2>4
<1>6. CASE Act(h)
  BY <1>6, ActStep
<1>7. ASSUME Return(h)
      PROVE  /\ Goto(h, "idle")
             /\ msg' \in [Handlers -> Messages \cup {NoMessage}]
             /\ \A g \in Handlers \ {h} : msg'[g] = msg[g]
  BY <1>1, <1>7 DEF Return
<1>8. CASE ActFails(h) \/ Crash(h)
  <2>1. Return(h) /\ UNCHANGED <<storeVars, published, acked, effects>> /\ faults' \in Nat
    BY <1>1, <1>8 DEF ActFails, Crash, Fault
  <2> QED  BY <1>1, <1>7, <2>1, QuietStep
<1>9. CASE Ack(h)
  <2>1. pc[h] # "idle" /\ Return(h)
    BY <1>9 DEF Ack
  <2>2. UNCHANGED <<storeVars, published, effects, faults>>
    BY <1>9 DEF Ack
  <2>3. acked' \subseteq Messages \X Consumers
    BY <1>1, <1>3, <1>9, <2>1, HandlerPair DEF Ack
  <2> QED  BY <1>1, <1>7, <2>1, <2>2, <2>3, QuietStep
<1>10. CASE Mark(h)
  <2>1. /\ pc[h] # "idle" /\ Goto(h, "ack") /\ StatementFails(Id(h), h[1])
        /\ UNCHANGED <<published, acked, msg, effects, faults>>
    BY <1>10 DEF Mark, MarkProcessed, StatementFails
  <2> QED  BY <1>1, <2>1, RecordingStep
<1>11. CASE StoreFails(h)
  <2>1. /\ pc[h] # "idle" /\ Return(h) /\ StatementFails(Id(h), h[1])
        /\ UNCHANGED <<published, acked, effects>> /\ faults' \in Nat
    BY <1>1, <1>11 DEF StoreFails, StatementFails, Fault
  <2> QED  BY <1>1, <1>7, <2>1, RecordingStep
<1> QED  BY <1>2, <1>4, <1>5, <1>6, <1>8, <1>9, <1>10, <1>11 DEF Handle

\* Prune deletes a claim only when its event is past the last delivery, and
\* no handler is at the gate with it.
LEMMA PruneStep ==
  ASSUME AtMostOnceInv, RetentionCovers, Prune
  PROVE  AtMostOnceInv'
<1> USE DEF AtMostOnceInv
<1>1. /\ UNCHANGED <<published, acked, pc, msg, effects, today>> /\ faults' \in Nat
  BY DEF Prune, PruneStart, PruneBatch, DeleteBatch, PruneFails, Fault, TypeOK
<1>2. /\ StoreTypeOK'
      /\ cutoff' # NotRunning => cutoff' + Retention <= today
      /\ \A k \in Keys : processed'[k] = processed[k]
                           \/ (processed'[k] = Absent /\ processed[k] < cutoff
                                /\ processed[k] # Absent /\ cutoff # NotRunning)
  <2>1. CASE PruneStart
    BY <2>1 DEF PruneStart, TypeOK, StoreTypeOK, NotRunning
  <2>2. CASE PruneBatch
    <3>1. PICK D \in SUBSET Expired : DeleteBatch(D, Cardinality(D) < PruneBatchSize)
      BY <2>2 DEF PruneBatch
    <3>2. processed' = [k \in Keys |-> IF k \in D THEN Absent ELSE processed[k]]
      BY <3>1 DEF DeleteBatch
    <3>3. cutoff # NotRunning /\ (cutoff' = NotRunning \/ cutoff' = cutoff) /\ today' = today
      BY <3>1 DEF DeleteBatch
    <3>4. StoreTypeOK'
      BY <3>2, <3>3 DEF TypeOK, StoreTypeOK
    <3> QED  BY <3>2, <3>3, <3>4 DEF Expired, RowsInv
  <2>3. CASE PruneFails
    BY <2>3 DEF PruneFails, TypeOK, StoreTypeOK, NotRunning
  <2> QED  BY <2>1, <2>2, <2>3 DEF Prune
<1>3. TypeOK'
  BY <1>1, <1>2 DEF TypeOK
<1>4. \A e \in EventIds, c \in Consumers : Processed(e, c)' => processed'[<<e, c>>] = processed[<<e, c>>]
  BY <1>2 DEF Processed, Keys
<1>5. RowsInv'
  BY <1>1, <1>2, <1>4 DEF RowsInv, Processed
<1>6. HandlersInv'
  BY <1>1 DEF HandlersInv, Deliverable
<1>7. ASSUME NEW e \in EventIds, NEW c \in Consumers, Processed(e, c), Deliverable(e)
      PROVE  Processed(e, c)'
  <2>1. /\ published[e] \in Nat /\ today \in Nat
        /\ published[e] <= processed[<<e, c>>]
        /\ processed[<<e, c>>] \in Nat
        /\ <<e, c>> \in Keys
    BY <1>7 DEF TypeOK, StoreTypeOK, RowsInv, Processed, Keys, Absent
  <2>2. today <= published[e] + Retention
    BY <1>7, <2>1 DEF Deliverable, RetentionCovers
  <2>3. cutoff # NotRunning => cutoff \in Nat /\ cutoff + Retention <= today
    BY DEF TypeOK, StoreTypeOK, RowsInv
  <2>4. ~(processed[<<e, c>>] < cutoff /\ cutoff # NotRunning)
    BY <2>1, <2>2, <2>3
  <2> QED  BY <1>2, <1>7, <2>1, <2>4 DEF Processed
<1>8. ClaimCovers'
  <2>1. \A e \in EventIds, c \in ClaimFirst : Acting(e, c)' = Acting(e, c)
    BY <1>1 DEF Acting
  <2> QED  BY <1>1, <1>7, <2>1, CoversFrame DEF Deliverable
<1>9. AppliedAtMostOnce'
  BY <1>1 DEF AppliedAtMostOnce
<1> QED  BY <1>3, <1>5, <1>6, <1>8, <1>9

\* Time only ends deliveries.
LEMMA DayStep ==
  ASSUME AtMostOnceInv, Day
  PROVE  AtMostOnceInv'
<1> USE DEF AtMostOnceInv, Day, NextDay
<1>1. today' = today + 1 /\ today \in Nat /\ today' \in 0 .. LastDay
  BY DEF TypeOK, StoreTypeOK
<1>2. TypeOK'
  BY <1>1 DEF TypeOK, StoreTypeOK
<1>3. RowsInv'
  <2>1. \A e \in EventIds : published[e] <= today'
    BY <1>1 DEF RowsInv, TypeOK, Absent
  <2>2. ASSUME NEW e \in EventIds, NEW c \in Consumers, Processed(e, c)
        PROVE  /\ published[e] # Absent
               /\ published[e] <= processed[<<e, c>>]
               /\ processed[<<e, c>>] <= today'
    <3>1. processed[<<e, c>>] \in Nat
      BY <2>2 DEF TypeOK, StoreTypeOK, Processed, Keys, Absent
    <3> QED  BY <1>1, <2>2, <3>1 DEF RowsInv
  <2>3. cutoff # NotRunning => cutoff + Retention <= today'
    BY <1>1 DEF RowsInv, TypeOK, StoreTypeOK
  <2> QED  BY <2>1, <2>2, <2>3 DEF RowsInv, Processed
<1>4. HandlersInv'
  BY DEF HandlersInv
<1>5. ClaimCovers'
  <2>1. \A e \in EventIds, c \in ClaimFirst : Acting(e, c)' = Acting(e, c)
    BY DEF Acting
  <2>2. ASSUME NEW e \in EventIds, published[e] # Absent, Deliverable(e)'
        PROVE  Deliverable(e)
    BY <1>1, <2>2 DEF Deliverable, TypeOK, Absent
  <2>3. published' = published /\ processed' = processed /\ effects' = effects
    OBVIOUS
  <2> QED
    <3>1. ASSUME NEW e \in EventIds, NEW c \in ClaimFirst
          PROVE  /\ Acting(e, c)' \subseteq Acting(e, c)
                 /\ published[e] # Absent => published'[e] # Absent
                 /\ published[e] # Absent /\ Deliverable(e)' => Deliverable(e)
                 /\ Processed(e, c) /\ Deliverable(e)' => Processed(e, c)'
      BY <2>1, <2>2, <2>3 DEF Processed
    <3> QED  BY <2>3, <3>1, CoversFrame
<1>6. AppliedAtMostOnce'
  BY DEF AppliedAtMostOnce
<1> QED  BY <1>2, <1>3, <1>4, <1>5, <1>6

LEMMA PublishStep ==
  ASSUME AtMostOnceInv, NEW e \in EventIds, Publish(e)
  PROVE  AtMostOnceInv'
<1> USE DEF AtMostOnceInv, Publish
<1>1. /\ published' = [published EXCEPT ![e] = today] /\ published[e] = Absent
      /\ today \in 0 .. LastDay /\ today # Absent
      /\ UNCHANGED <<processed, today, cutoff>>
  BY DEF TypeOK, StoreTypeOK, Absent, storeVars
<1>2. TypeOK'
  BY <1>1 DEF TypeOK, StoreTypeOK, storeVars
<1>3. ASSUME NEW f \in EventIds, published[f] # Absent
      PROVE  published'[f] = published[f]
  BY <1>1, <1>3 DEF TypeOK
<1>4. RowsInv'
  <2>1. \A f \in EventIds : published'[f] <= today
    BY <1>1 DEF RowsInv, TypeOK
  <2> QED  BY <1>1, <1>3, <2>1 DEF RowsInv, Processed
<1>5. HandlersInv'
  <2>1. \A h \in Handlers : pc[h] # "idle" => msg[h].event \in EventIds
    BY DEF HandlersInv
  <2> QED  BY <1>1, <1>3, <2>1 DEF HandlersInv, Deliverable
<1>6. ClaimCovers'
  <2>1. \A f \in EventIds, c \in ClaimFirst : Acting(f, c)' = Acting(f, c)
    BY DEF Acting
  <2> QED  BY <1>1, <1>3, <2>1, CoversFrame DEF Deliverable, Processed
<1>7. AppliedAtMostOnce'
  BY DEF AppliedAtMostOnce
<1> QED  BY <1>2, <1>4, <1>5, <1>6, <1>7

LEMMA ConsumerStep ==
  ASSUME MessagesAreNamed, RetentionCovers
  PROVE  AtMostOnceInv /\ [Next]_vars => AtMostOnceInv'
<1> SUFFICES ASSUME AtMostOnceInv, [Next]_vars PROVE AtMostOnceInv'
  OBVIOUS
<1>1. CASE UNCHANGED vars
  BY <1>1 DEF vars, storeVars, AtMostOnceInv, TypeOK, StoreTypeOK, RowsInv, HandlersInv,
              ClaimCovers, AppliedAtMostOnce, Processed, Deliverable, Acting
<1> QED  BY <1>1, HandlerStep, PruneStep, DayStep, PublishStep DEF Next

\* The inductive invariant behind the next theorem.
LEMMA ConsumerInv ==
  ASSUME MessagesAreNamed, RetentionCovers
  PROVE  Spec => []AtMostOnceInv
  BY ConsumerInit, ConsumerStep, PTL DEF Spec

\* "Claim BEFORE acting so it can never run twice" (Claim): no redelivery,
\* second replica, second envelope, failed statement, crash or Prune makes a
\* consumer that claims act twice, as long as the retention covers the time
\* messages can still come.
THEOREM ClaimedAtMostOnce ==
  ASSUME MessagesAreNamed, RetentionCovers
  PROVE  Spec => []AppliedAtMostOnce
<1>1. AtMostOnceInv => AppliedAtMostOnce
  BY DEF AtMostOnceInv
<1> QED  BY <1>1, ConsumerInv, PTL

\* Why: until its event can no longer be delivered a claim is in the table,
\* and only the handler that won it acts.
THEOREM ClaimsCoverDeliveries ==
  ASSUME MessagesAreNamed, RetentionCovers
  PROVE  Spec => []ClaimCovers
<1>1. AtMostOnceInv => ClaimCovers
  BY DEF AtMostOnceInv
<1> QED  BY <1>1, ConsumerInv, PTL

\* Every variable keeps its type.
THEOREM ConsumerTypeOK ==
  ASSUME MessagesAreNamed, RetentionCovers
  PROVE  Spec => []TypeOK
<1>1. AtMostOnceInv => TypeOK
  BY DEF AtMostOnceInv
<1> QED  BY <1>1, ConsumerInv, PTL

-----------------------------------------------------------------------------
\* A consumer that marks has acted on an event before it marks it, and on a
\* message before it settles it.
SettledInv ==
  /\ \A e \in EventIds, c \in Consumers \ ClaimFirst :
       Processed(e, c) => effects[<<e, c>>] > 0
  /\ \A h \in Handlers :
       h[1] \notin ClaimFirst /\ pc[h] \in {"mark", "ack"} =>
         effects[<<msg[h].event, h[1]>>] > 0
  /\ SettledIsApplied

\* Effects are not undone.
LEMMA EffectsGrow ==
  ASSUME TypeOK, [Next]_vars, NEW k \in Keys, effects[k] > 0
  PROVE  effects'[k] > 0
<1>1. CASE UNCHANGED effects
  BY <1>1
<1>2. ASSUME NEW h \in Handlers, Act(h)
      PROVE  effects'[k] > 0
  BY <1>2 DEF Act, TypeOK
<1>3. ASSUME NEW h \in Handlers, Handle(h), ~Act(h)
      PROVE  UNCHANGED effects
  BY <1>3 DEF Handle, Deliver, ClaimGate, CheckGate, ActFails, Mark, StoreFails, Ack, Crash
<1>4. CASE (\E e \in EventIds : Publish(e)) \/ Prune \/ Day \/ UNCHANGED vars
  BY <1>4 DEF Publish, Prune, Day, vars
<1> QED  BY <1>1, <1>2, <1>3, <1>4 DEF Next

LEMMA SettledStep ==
  ASSUME MessagesAreNamed
  PROVE  AtMostOnceInv /\ SettledInv /\ [Next]_vars => SettledInv'
<1> SUFFICES ASSUME AtMostOnceInv, SettledInv, [Next]_vars PROVE SettledInv'
  OBVIOUS
<1> USE DEF AtMostOnceInv
<1>0. \A k \in Keys : effects[k] > 0 => effects'[k] > 0
  BY EffectsGrow
<1>1. ASSUME NEW h \in Handlers, pc[h] # "idle"
      PROVE  /\ msg[h] \in Messages /\ msg[h].event \in EventIds /\ Id(h) = msg[h].event
             /\ h[1] \in Consumers /\ <<msg[h].event, h[1]>> \in Keys
  BY <1>1, HandlerPair DEF HandlersInv, Id, Keys
<1>2. ASSUME NEW e \in EventIds, NEW c \in Consumers \ ClaimFirst, Processed(e, c)'
      PROVE  effects'[<<e, c>>] > 0
  <2>1. <<e, c>> \in Keys
    BY DEF Keys
  <2>2. CASE Processed(e, c)
    BY <1>0, <2>1, <2>2 DEF SettledInv
  <2>3. CASE ~Processed(e, c)
    <3>1. PICK h \in Handlers : Handle(h)
      BY <1>2, <2>1, <2>3 DEF Next, vars, storeVars, Processed, Publish, Prune, PruneStart,
                              PruneBatch, DeleteBatch, PruneFails, Day, NextDay
    <3>2. ASSUME NEW g \in Handlers, Record(Id(g), g[1]), pc[g] = "mark"
          PROVE  effects'[<<e, c>>] > 0
      <4>1. <<Id(g), g[1]>> = <<e, c>>
        BY <1>2, <2>1, <2>3, <3>2 DEF Record, Processed, TypeOK, StoreTypeOK
      <4> QED  BY <1>0, <1>1, <2>1, <3>2, <4>1 DEF SettledInv
    <3>3. ASSUME NEW g \in Handlers, Record(Id(g), g[1]), g[1] \in ClaimFirst
          PROVE  FALSE
      BY <1>2, <2>1, <2>3, <3>3 DEF Record, Processed, TypeOK, StoreTypeOK
    <3>4. ~UNCHANGED processed
      BY <1>2, <2>3 DEF Processed
    <3> QED
      BY <3>1, <3>2, <3>3, <3>4 DEF Handle, Deliver, ClaimGate, CheckGate, Act, ActFails, Mark,
                                    StoreFails, Ack, Crash, Claim, AlreadyProcessed,
                                    MarkProcessed, StatementFails, storeVars
  <2> QED  BY <2>2, <2>3
<1>3. ASSUME NEW h \in Handlers, h[1] \notin ClaimFirst, pc'[h] \in {"mark", "ack"}
      PROVE  effects'[<<msg'[h].event, h[1]>>] > 0
  <2>1. CASE pc'[h] = pc[h] /\ msg'[h] = msg[h]
    BY <1>0, <1>1, <1>3, <2>1 DEF SettledInv
  <2>2. CASE ~(pc'[h] = pc[h] /\ msg'[h] = msg[h])
    <3>1. PICK g \in Handlers : Handle(g)
      BY <2>2 DEF Next, vars, Publish, Prune, Day
    <3>2. g = h
      BY <2>2, <3>1 DEF Handle, Deliver, ClaimGate, CheckGate, Act, ActFails, Mark, StoreFails,
                        Ack, Crash, Goto, Return, TypeOK
    <3>3. CASE CheckGate(h)
      <4>1. pc[h] = "gate" /\ msg' = msg /\ effects' = effects
        BY <3>3 DEF CheckGate
      <4>2. PICK exists \in BOOLEAN :
              AlreadyProcessed(Id(h), h[1], exists) /\ Goto(h, IF exists THEN "ack" ELSE "act")
        BY <3>3 DEF CheckGate
      <4>3. exists
        BY <1>3, <4>2 DEF Goto, TypeOK
      <4>4. Processed(Id(h), h[1])
        BY <4>2, <4>3 DEF AlreadyProcessed
      <4> QED  BY <1>1, <1>3, <4>1, <4>4 DEF SettledInv
    <3>4. CASE Act(h)
      <4>1. <<msg[h].event, h[1]>> \in Keys
        BY <1>1, <3>4 DEF Act
      <4> QED  BY <3>4, <4>1 DEF Act, TypeOK
    <3>5. CASE Mark(h)
      <4>1. pc[h] = "mark" /\ msg' = msg /\ effects' = effects
        BY <3>5 DEF Mark
      <4> QED  BY <1>3, <4>1 DEF SettledInv
    <3>6. CASE ~(CheckGate(h) \/ Act(h) \/ Mark(h))
      BY <1>3, <3>1, <3>2, <3>6 DEF Handle, Deliver, ClaimGate, ActFails, StoreFails, Ack, Crash,
                                    Goto, Return, TypeOK
    <3> QED  BY <3>3, <3>4, <3>5, <3>6
  <2> QED  BY <2>1, <2>2
<1>4. ASSUME NEW m \in Messages, NEW c \in Consumers \ ClaimFirst, <<m, c>> \in acked'
      PROVE  effects'[<<m.event, c>>] > 0
  <2>1. <<m.event, c>> \in Keys
    BY DEF Keys
  <2>2. CASE <<m, c>> \in acked
    BY <1>0, <2>1, <2>2 DEF SettledInv, SettledIsApplied
  <2>3. CASE <<m, c>> \notin acked
    <3>1. PICK h \in Handlers : Ack(h)
      BY <1>4, <2>3 DEF Next, vars, Publish, Prune, Day, Handle, Deliver, ClaimGate, CheckGate,
                        Act, ActFails, Mark, StoreFails, Crash
    <3>2. m = msg[h] /\ c = h[1] /\ pc[h] = "ack"
      BY <1>4, <2>3, <3>1 DEF Ack
    <3> QED  BY <1>0, <1>1, <2>1, <3>2 DEF SettledInv
  <2> QED  BY <2>2, <2>3
<1> QED  BY <1>2, <1>3, <1>4 DEF SettledInv, SettledIsApplied

\* "Process-THEN-mark" is "at-least-once delivery" (MarkProcessed): no message
\* is settled for a consumer that marks before its event was acted on.
THEOREM MarkedAtLeastOnce ==
  ASSUME MessagesAreNamed, RetentionCovers
  PROVE  Spec => []SettledIsApplied
<1>1. Init => SettledInv
  BY DEF Init, StoreInit, SettledInv, SettledIsApplied, Processed, Keys
<1>2. SettledInv => SettledIsApplied
  BY DEF SettledInv
<1> QED  BY <1>1, <1>2, ConsumerInv, SettledStep, PTL DEF Spec
-----------------------------------------------------------------------------
(* Prune.  There are never infinitely many rows, so a batch that is not     *)
(* full is all there is to delete.                                         *)

RowsFinite == IsFiniteSet({k \in Keys : processed[k] # Absent})

Days == processed \in [Keys -> Int] /\ today \in Int /\ cutoff \in Int

PruneInv == RowsFinite /\ Days /\ faults \in Nat

LEMMA RowsFiniteStep ==
  ASSUME RowsFinite, NEW x,
         \A k \in Keys : processed'[k] # Absent => processed[k] # Absent \/ k = x
  PROVE  RowsFinite'
<1> DEFINE S == {k \in Keys : processed[k] # Absent}
<1>1. IsFiniteSet(S \cup {x})
  BY FS_AddElement DEF RowsFinite
<1>2. {k \in Keys : processed'[k] # Absent} \subseteq S \cup {x}
  OBVIOUS
<1> QED  BY <1>1, <1>2, FS_Subset DEF RowsFinite

LEMMA RecordFinite ==
  ASSUME RowsFinite, Days, NEW id, NEW c, Record(id, c) \/ UNCHANGED storeVars
  PROVE  RowsFinite' /\ Days'
<1>1. \/ processed' = processed
      \/ processed' = [processed EXCEPT ![<<id, c>>] = today]
  BY DEF Record, storeVars
<1>2. \A k \in Keys : processed'[k] # Absent => processed[k] # Absent \/ k = <<id, c>>
  BY <1>1 DEF Days
<1>3. UNCHANGED <<today, cutoff>>
  BY DEF Record, storeVars
<1>4. Days'
  BY <1>1, <1>3 DEF Days
<1> QED  BY <1>2, <1>4, RowsFiniteStep

\* The last batch of a Prune without an error takes every expired row.
LEMMA BatchIsAll ==
  ASSUME RowsFinite, PruneBatch, cutoff' = NotRunning
  PROVE  \A k \in Keys : processed'[k] # Absent => ~(processed'[k] < cutoff)
<1>1. PICK D \in SUBSET Expired : DeleteBatch(D, Cardinality(D) < PruneBatchSize)
  BY DEF PruneBatch
<1>2. IsFiniteSet(Expired)
  <2>1. Expired \subseteq {k \in Keys : processed[k] # Absent}
    BY DEF Expired
  <2> QED  BY <2>1, FS_Subset DEF RowsFinite
<1>3. Cardinality(D) < PruneBatchSize
  BY <1>1 DEF DeleteBatch
<1>4. Cardinality(D) = Cardinality(Expired)
  <2>1. Cardinality(D) \in Nat /\ Cardinality(Expired) \in Nat
    BY <1>2, FS_Subset, FS_CardinalityType
  <2>2. Cardinality(D) = IF Cardinality(Expired) < PruneBatchSize
                         THEN Cardinality(Expired) ELSE PruneBatchSize
    BY <1>1 DEF DeleteBatch
  <2> QED  BY <1>3, <2>1, <2>2
<1>5. D = Expired
  BY <1>2, <1>4, FS_Subset
<1>6. processed' = [k \in Keys |-> IF k \in Expired THEN Absent ELSE processed[k]]
  BY <1>1, <1>5 DEF DeleteBatch
<1> QED  BY <1>6 DEF Expired

LEMMA PruneInvStep == PruneInv /\ [Next]_vars => PruneInv'
<1> SUFFICES ASSUME PruneInv, [Next]_vars PROVE PruneInv'
  OBVIOUS
<1>1. ASSUME NEW h \in Handlers, Handle(h) PROVE RowsFinite' /\ Days' /\ faults' \in Nat
  <2>1. \/ UNCHANGED storeVars
        \/ Record(Id(h), h[1])
    BY <1>1 DEF Handle, Deliver, ClaimGate, Claim, CheckGate, AlreadyProcessed, Act, ActFails,
                Mark, MarkProcessed, StoreFails, StatementFails, Ack, Crash
  <2>2. faults' \in {faults, faults + 1}
    BY <1>1 DEF Handle, Deliver, ClaimGate, CheckGate, Act, ActFails, Mark, StoreFails, Ack,
                Crash, Fault
  <2> QED  BY <2>1, <2>2, RecordFinite DEF PruneInv
<1>2. ASSUME Prune PROVE RowsFinite' /\ Days' /\ faults' \in Nat
  <2>1. \A k \in Keys : processed'[k] # Absent => processed[k] # Absent
    BY <1>2 DEF Prune, PruneStart, PruneBatch, DeleteBatch, PruneFails
  <2>2. faults' \in {faults, faults + 1}
    BY <1>2 DEF Prune, Fault
  <2>3. Days'
    <3>1. /\ today' = today /\ cutoff' \in {cutoff, NotRunning, today - Retention}
          /\ \/ processed' = processed
             \/ \E D : processed' = [k \in Keys |-> IF k \in D THEN Absent ELSE processed[k]]
      BY <1>2 DEF Prune, PruneStart, PruneBatch, DeleteBatch, PruneFails
    <3> QED  BY <3>1 DEF PruneInv, Days, Absent, NotRunning
  <2> QED  BY <2>1, <2>2, <2>3, RowsFiniteStep DEF PruneInv
<1>3. ASSUME \/ \E e \in EventIds : Publish(e)
             \/ Day
             \/ UNCHANGED vars
      PROVE  RowsFinite' /\ Days' /\ faults' \in Nat
  <2>1. UNCHANGED <<processed, cutoff, faults>> /\ today' \in {today, today + 1}
    BY <1>3 DEF Publish, Day, NextDay, vars, storeVars
  <2> QED  BY <2>1 DEF PruneInv, RowsFinite, Days
<1> QED  BY <1>1, <1>2, <1>3 DEF Next, PruneInv

\* When Prune returns no error it has deleted every row older than its cutoff,
\* whatever the batch size and whatever was claimed meanwhile
\* (IdempotencyStore.Prune: the loop ends on a batch that is not full).
THEOREM PruneLeavesNothing == Spec => PruneIsComplete
<1> DEFINE A == cutoff # NotRunning /\ cutoff' = NotRunning /\ faults' = faults
                  => \A k \in Keys : processed'[k] # Absent => processed'[k] >= cutoff
<1>1. Init => PruneInv
  <2> SUFFICES ASSUME Init PROVE PruneInv
    OBVIOUS
  <2>1. {k \in Keys : processed[k] # Absent} = {} /\ faults = 0
    BY DEF Init, StoreInit
  <2>2. Days
    BY DEF Init, StoreInit, Days, Absent, NotRunning
  <2> QED  BY <2>1, <2>2, FS_EmptySet DEF PruneInv, RowsFinite
<1>2. PruneInv /\ PruneInv' /\ [Next]_vars => [A]_vars
  <2> SUFFICES ASSUME PruneInv, PruneInv', Next,
                      cutoff # NotRunning, cutoff' = NotRunning, faults' = faults,
                      NEW k \in Keys, processed'[k] # Absent
               PROVE  processed'[k] >= cutoff
    OBVIOUS
  <2>1. ASSUME NEW h \in Handlers, Handle(h) PROVE FALSE
    <3>1. \/ UNCHANGED storeVars
          \/ Record(Id(h), h[1])
      BY <2>1 DEF Handle, Deliver, ClaimGate, Claim, CheckGate, AlreadyProcessed, Act, ActFails,
                  Mark, MarkProcessed, StoreFails, StatementFails, Ack, Crash
    <3> QED  BY <3>1 DEF Record, storeVars
  <2>2. ASSUME \/ \E e \in EventIds : Publish(e)
               \/ Day
        PROVE  FALSE
    BY <2>2 DEF Publish, Day, NextDay, storeVars
  <2>3. PruneBatch
    <3>1. ~PruneStart
      BY DEF PruneStart
    <3>2. ~Fault("db")
      BY DEF Fault, PruneInv
    <3> QED  BY <2>1, <2>2, <3>1, <3>2 DEF Next, Prune
  <2>4. ~(processed'[k] < cutoff)
    BY <2>3, BatchIsAll DEF PruneInv
  <2>5. processed'[k] \in Int /\ cutoff \in Int
    BY DEF PruneInv, Days
  <2> QED  BY <2>4, <2>5
<1>3. Spec => []PruneInv
  BY <1>1, PruneInvStep, PTL DEF Spec
<1>4. Spec => [][A]_vars
  BY <1>2, <1>3, PTL DEF Spec
<1> QED  BY <1>4 DEF PruneIsComplete

-----------------------------------------------------------------------------
(* What a consumer reads out of an event, for every payload.               *)

LEMMA AsValue ==
  ASSUME NEW v \in Values
  PROVE  /\ v = [kind |-> v.kind, items |-> v.items] /\ v.items \subseteq STRING
         /\ v.kind = "[]string" => "<7>" \notin v.items
  BY DEF Values

\* A list of strings through JSON: the empty ones go.
LEMMA StringsViaJSON ==
  ASSUME NEW v \in Values, v.kind = "[]string", \A s \in v.items : TrimSpace(s) = s
  PROVE  /\ [v EXCEPT !.kind = "[]any"].kind = "[]any"
         /\ PayloadStrings([v EXCEPT !.kind = "[]any"]) = PayloadStrings(v) \ {""}
<1> DEFINE w == [v EXCEPT !.kind = "[]any"]
<1>1. w.kind = "[]any" /\ w.items = v.items
  BY AsValue
<1>2. PayloadStrings(v) = v.items
  BY DEF PayloadStrings
<1> HIDE DEF w
<1>3. PayloadStrings(w) = {TrimSpace(s) : s \in {s \in v.items : s # "<7>" /\ TrimSpace(s) # ""}}
  BY <1>1 DEF PayloadStrings
<1>4. {s \in v.items : s # "<7>" /\ TrimSpace(s) # ""} = v.items \ {""}
  BY AsValue
<1>5. {TrimSpace(s) : s \in v.items \ {""}} = v.items \ {""}
  OBVIOUS
<1> QED  BY <1>1, <1>2, <1>3, <1>4, <1>5 DEF w

\* A payload of the process and what JSON makes of it have the same strings,
\* but for empty ones.
LEMMA PayloadViaJSON ==
  ASSUME NEW p \in Payloads, Clean(p), NEW f \in {"services", "roles", "outlet_ids", "outlet_id"}
  PROVE  /\ PayloadStrings(ViaJSON(p)[f]) \ {""} = PayloadStrings(p[f]) \ {""}
         /\ ViaJSON(p)[f].kind \in {"[]string", "[]any"} <=> p[f].kind \in {"[]string", "[]any"}
<1>1. DOMAIN p = {"services", "roles", "outlet_ids", "outlet_id"} /\ p[f] \in Values
  BY PayloadAssumption
<1>2. CASE p[f].kind = "[]string"
  <2>1. ViaJSON(p)[f] = [p[f] EXCEPT !.kind = "[]any"]
    BY <1>1, <1>2 DEF ViaJSON
  <2>2. \A s \in p[f].items : TrimSpace(s) = s
    BY <1>1, <1>2 DEF Clean
  <2> QED  BY <1>1, <1>2, <2>1, <2>2, StringsViaJSON
<1>3. CASE p[f].kind # "[]string"
  BY <1>1, <1>3 DEF ViaJSON
<1> QED  BY <1>2, <1>3

LEMMA Relaying == Relayed
<1> SUFFICES ASSUME NEW s \in Services, NEW p \in Payloads, Clean(p)
             PROVE  Relevant(s, ViaJSON(p)) = Relevant(s, p) /\ Revoked(s, ViaJSON(p)) = Revoked(s, p)
  BY DEF Relayed
<1> DEFINE q == ViaJSON(p)
<1>1. /\ PayloadStrings(q.services) \ {""} = PayloadStrings(p.services) \ {""}
      /\ PayloadStrings(q.roles) \ {""} = PayloadStrings(p.roles) \ {""}
      /\ PayloadStrings(q.outlet_ids) \ {""} = PayloadStrings(p.outlet_ids) \ {""}
      /\ PayloadStrings(q.outlet_id) \ {""} = PayloadStrings(p.outlet_id) \ {""}
      /\ Known(q) <=> Known(p)
  BY PayloadViaJSON DEF Known
<1> HIDE DEF q
<1>2. PayloadOutletIDs(q) = PayloadOutletIDs(p)
  BY <1>1 DEF PayloadOutletIDs, IsUuid
<1>3. ASSUME NEW S \in {DefaultAdminRoles, ServiceRoles}
      PROVE  Roles(q) \cap S # {} <=> Roles(p) \cap S # {}
  <2>1. "" \notin S /\ ToLower("") = ""
    BY DEF DefaultAdminRoles, ServiceRoles, ToLower
  <2>2. \A x \in S : x \in Roles(q) <=> x \in Roles(p)
    BY <1>1, <2>1 DEF Roles
  <2> QED  BY <2>2
<1>4. s # "" => (servicesAllow(q, s) <=> servicesAllow(p, s))
  BY <1>1 DEF servicesAllow
<1>5. Relevant(s, q) <=> Relevant(s, p)
  BY <1>1, <1>2, <1>3, <1>4 DEF Relevant
<1>6. Revoked(s, q) <=> Revoked(s, p)
  BY <1>1, <1>4 DEF Revoked
<1>7. Relevant(s, q) \in BOOLEAN /\ Relevant(s, p) \in BOOLEAN
  BY DEF Relevant, servicesAllow
<1>8. Revoked(s, q) \in BOOLEAN /\ Revoked(s, p) \in BOOLEAN
  BY DEF Revoked, servicesAllow
<1> QED  BY <1>5, <1>6, <1>7, <1>8 DEF q

\* DecodeEvent, with a type as wide as a map, takes what FromJSON takes.
LEMMA Decoding == Decoded
  BY DEF Decoded, DecodeEventFails, FromJSONFails

\* Only a list revokes, and it never revokes a member it makes relevant.
LEMMA Revoking == Revocations
  BY DEF Revocations, Undecided, Relevant, Known, Revoked

LEMMA Outletting == Outlets
  BY DEF Outlets, Undecided, Relevant, Known

\* An event reads the same whichever way it came: the two decoders take the
\* same data, and a payload without spaces around its entries is judged like
\* what JSON makes of it, for every service (DecodeEvent, FromJSON, Relevant,
\* Revoked).
THEOREM EventsReadTheSame == Spec => []ReadersAgree
<1>1. ReadersAgree
  BY Decoding, Relaying DEF ReadersAgree
<1> QED  BY <1>1, PTL

\* A local copy is removed only on a services list, never while the same event
\* makes the member relevant, and with a list one of the two always holds
\* (Revoked, Relevant).
THEOREM OnlyAListRevokes == Spec => []RevokedIsDecided
<1>1. RevokedIsDecided
  BY Revoking DEF RevokedIsDecided
<1> QED  BY <1>1, PTL

\* An undecided event that names only outlets of other services concerns this
\* one only for an administrator (UserRelevance, rule 2).
THEOREM OutletsGoBeforeRoles == Spec => []OutletsDecide
<1>1. OutletsDecide
  BY Outletting DEF OutletsDecide
<1> QED  BY <1>1, PTL
=============================================================================
