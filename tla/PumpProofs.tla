----------------------------- MODULE PumpProofs -----------------------------
(***************************************************************************)
(* The theorems about the realtime path, for every set of pods, hubs,      *)
(* clients and publishers, and every post, buffer and fault bound.         *)
(***************************************************************************)
EXTENDS Pump, TLAPS, SequenceTheorems, FiniteSetTheorems

IsJob(j) == DOMAIN j = {"msg", "tenant", "scope", "hubs", "left"} /\ j = [f \in DOMAIN j |-> j[f]]

\* A worker offers its message only to clients of the registry, and a client
\* that has left the registry stays out.
HubInv ==
  /\ DOMAIN job = Workers /\ job = [w \in Workers |-> job[w]]
  /\ \A w \in Workers : IsJob(job[w]) /\ job[w].left \subseteq open
  /\ open \cap shut = {}

LEMMA HubInvInit == Init => HubInv
<1>1. IsJob(Idle) /\ Idle.left = {}
  BY DEF IsJob, Idle
<1> QED  BY <1>1 DEF Init, HubInit, HubInv

\* A step that leaves the registry alone and gives no one more clients.
LEMMA QuietJob ==
  ASSUME HubInv, NEW w \in Workers, NEW j, job' = [job EXCEPT ![w] = j],
         IsJob(j), j.left \subseteq open, UNCHANGED <<open, shut>>
  PROVE  HubInv'
<1>1. job'[w] = j /\ \A v \in Workers \ {w} : job'[v] = job[v]
  BY DEF HubInv
<1>2. DOMAIN job' = Workers /\ job' = [v \in Workers |-> job'[v]]
  BY DEF HubInv
<1> QED  BY <1>1, <1>2 DEF HubInv, IsJob

LEMMA SubscribeInv == ASSUME HubInv, NEW c \in Clients, Subscribe(c) PROVE HubInv'
  BY DEF HubInv, Subscribe, IsJob

LEMMA UnsubscribeInv == ASSUME HubInv, NEW c \in Clients, Unsubscribe(c) PROVE HubInv'
<1>1. /\ c \in open /\ open' = open \ {c} /\ shut' = shut \cup {c} /\ UNCHANGED job
      /\ \A w \in Workers : c \notin job[w].left
  BY DEF Unsubscribe, ReadLocked
<1> QED  BY <1>1 DEF HubInv, IsJob

LEMMA DispatchInv ==
  ASSUME HubInv, NEW w \in Workers, NEW m, NEW t, NEW s, Dispatch(w, m, t, s),
         UNCHANGED <<open, shut>>
  PROVE  HubInv'
<1> DEFINE j == [msg |-> m, tenant |-> t, scope |-> s, left |-> {},
                 hubs |-> {h \in handlers : Home[h] = PodOfWorker(w)}]
<1>1. IsJob(j) /\ j.left = {}
  BY DEF IsJob
<1>2. job' = [job EXCEPT ![w] = j]
  BY DEF Dispatch
<1> HIDE DEF j
<1> QED  BY <1>1, <1>2, QuietJob

LEMMA DeliverInv == ASSUME HubInv, NEW w \in Workers, Deliver(w) PROVE HubInv'
<1>0. IsJob(job[w]) /\ job[w].left \subseteq open /\ UNCHANGED <<open, shut>>
  BY DEF HubInv, Deliver, Enter, Offer, Finish
<1>1. CASE Enter(w)
  <2>1. PICK h \in job[w].hubs :
          job' = [job EXCEPT ![w].hubs = @ \ {h},
                    ![w].left = {c \in open : Hub[c] = h /\ Listens(c, job[w].tenant, job[w].scope)}]
    BY <1>1 DEF Enter
  <2> DEFINE l == {c \in open : Hub[c] = h /\ Listens(c, job[w].tenant, job[w].scope)}
  <2> DEFINE j == [job[w] EXCEPT !.hubs = @ \ {h}, !.left = l]
  <2>2. job' = [job EXCEPT ![w] = j]
    BY <2>1 DEF HubInv
  <2>3. l \subseteq open
    OBVIOUS
  <2> HIDE DEF l
  <2>4. IsJob(j) /\ j.left = l
    BY <1>0 DEF IsJob
  <2> HIDE DEF j
  <2> QED  BY <1>0, <2>2, <2>3, <2>4, QuietJob
<1>2. CASE Offer(w)
  <2>1. PICK c \in job[w].left : job' = [job EXCEPT ![w].left = @ \ {c}]
    BY <1>2 DEF Offer
  <2> DEFINE j == [job[w] EXCEPT !.left = @ \ {c}]
  <2>2. job' = [job EXCEPT ![w] = j]
    BY <2>1 DEF HubInv
  <2>3. IsJob(j) /\ j.left \subseteq job[w].left
    BY <1>0 DEF IsJob
  <2> HIDE DEF j
  <2> QED  BY <1>0, <2>2, <2>3, QuietJob
<1>3. CASE Finish(w)
  <2>1. IsJob(Idle) /\ Idle.left = {}
    BY DEF IsJob, Idle
  <2> QED  BY <1>0, <1>3, <2>1, QuietJob DEF Finish
<1> QED  BY <1>1, <1>2, <1>3 DEF Deliver

LEMMA HubStep == ASSUME HubInv, HubNext PROVE HubInv'
<1>1. ASSUME NEW c \in Clients, Unsubscribe(c) PROVE HubInv'
  BY <1>1, UnsubscribeInv
<1>2. ASSUME NEW w \in Workers, Deliver(w) PROVE HubInv'
  BY <1>2, DeliverInv
<1>3. ASSUME NEW w \in Publishers, NEW post \in Posts, Publish(w, post) PROVE HubInv'
  BY <1>3, DispatchInv DEF Publish, Workers
<1>4. ASSUME NEW p \in Pods, Receive(p) PROVE HubInv'
  <2>1. CASE UNCHANGED job
    BY <1>4, <2>1 DEF Receive, HubInv, IsJob
  <2>2. CASE Dispatch(p, Head(inbox[p]).msg, fromToken(Head(inbox[p]).tenant),
                      fromToken(Head(inbox[p]).scope))
    BY <1>4, <2>2, DispatchInv DEF Receive, Workers
  <2> QED  BY <1>4, <2>1, <2>2 DEF Receive
<1>5. ASSUME Manage PROVE HubInv'
  BY <1>5 DEF Manage, hubVars, HubInv, IsJob
<1> QED  BY <1>1, <1>2, <1>3, <1>4, <1>5 DEF HubNext

LEMMA PumpQuiet ==
  ASSUME HubInv, UNCHANGED hubVars PROVE HubInv'
  BY DEF hubVars, HubInv, IsJob

LEMMA ConsumeInv == ASSUME HubInv, NEW c \in Clients, Consume(c) PROVE HubInv'
  BY DEF HubInv, Consume, IsJob

LEMMA HubInvStep == HubInv /\ [Next]_vars => HubInv'
<1> SUFFICES ASSUME HubInv, [Next]_vars PROVE HubInv'
  OBVIOUS
<1>0. Pumped \subseteq Clients
  BY PumpAssumption
<1>1. ASSUME NEW c \in Pumped, Start(c) PROVE HubInv'
  BY <1>0, <1>1, SubscribeInv DEF Start
<1>2. ASSUME NEW c \in Pumped, TakeMessage(c) PROVE HubInv'
  BY <1>0, <1>2, ConsumeInv DEF TakeMessage
<1>3. ASSUME NEW c \in Pumped,
             \/ Write(c) \/ WriteFails(c) \/ Done(c) \/ ChannelClosed(c) \/ TakeReply(c)
             \/ PingFails(c) \/ Reader(c) \/ Leaves(c) \/ Cancel(c)
      PROVE  HubInv'
  BY <1>3, PumpQuiet DEF Write, WriteFails, End, Done, ChannelClosed, TakeReply, PingFails,
                         Reader, ReadFrame, QueueReply, ReadFails, Leaves, Cancel
<1>4. CASE HubNext
  BY <1>4, HubStep
<1>5. ASSUME NEW c \in Clients, Subscribe(c) \/ Consume(c) PROVE HubInv'
  BY <1>5, SubscribeInv, ConsumeInv
<1>6. CASE UNCHANGED vars
  BY <1>6, PumpQuiet DEF vars
<1> QED  BY <1>1, <1>2, <1>3, <1>4, <1>5, <1>6 DEF Next, Writer

-----------------------------------------------------------------------------
\* No message is offered to a client whose channel is closed, whatever connects
\* and disconnects meanwhile (FanoutHub.deliver, Unsubscribe: the lock).
THEOREM SendsAreSafe == Spec => []NoSendOnClosed
<1>1. HubInv => NoSendOnClosed
  BY DEF HubInv, NoSendOnClosed
<1> QED  BY <1>1, HubInvInit, HubInvStep, PTL DEF Spec

-----------------------------------------------------------------------------
LEMMA RegisterHears ==
  ASSUME HandlersHear, NEW h \in Hubs, Register(h) PROVE HandlersHear'
<1> SUFFICES ASSUME NEW g \in handlers', Home[g] \in Connected \ closed
             PROVE  Home[g] \in natsSubs'
  BY DEF HandlersHear, Register
<1>1. natsSubs \subseteq natsSubs' /\ handlers' = handlers \cup {h}
  BY DEF Register
<1>2. CASE g \in handlers
  BY <1>1, <1>2 DEF HandlersHear
<1>3. CASE g = h /\ Opens(h)
  BY <1>3 DEF Register
<1>4. CASE g = h /\ ~Opens(h)
  <2>1. PICK k \in handlers : Home[k] = Home[h]
    BY <1>4 DEF Opens
  <2> QED  BY <1>1, <1>4, <2>1 DEF HandlersHear
<1> QED  BY <1>1, <1>2, <1>3, <1>4

LEMMA HandlersHearStep == HandlersHear /\ [Next]_vars => HandlersHear'
<1> SUFFICES ASSUME HandlersHear, [Next]_vars PROVE HandlersHear'
  OBVIOUS
<1>1. CASE UNCHANGED <<handlers, natsSubs, closed>>
  BY <1>1 DEF HandlersHear
<1>2. ASSUME NEW h \in Hubs, Register(h) PROVE HandlersHear'
  BY <1>2, RegisterHears
<1>3. ASSUME NEW p \in Pods, Close(p) PROVE HandlersHear'
  BY <1>3 DEF Close, HandlersHear
<1>4. ASSUME ~ \E h \in Hubs : Register(h), ~ \E p \in Pods : Close(p)
      PROVE  UNCHANGED <<handlers, natsSubs, closed>>
  <2>1. CASE UNCHANGED vars
    BY <2>1 DEF vars, relayVars
  <2>2. CASE HubNext
    <3>1. ASSUME NEW w \in Workers, Deliver(w) PROVE UNCHANGED <<handlers, natsSubs, closed>>
      BY <3>1 DEF Deliver, Enter, Offer, Finish, Relay, relayVars
    <3>2. ASSUME NEW p \in Pods, Receive(p) PROVE UNCHANGED <<handlers, natsSubs, closed>>
      BY <3>2 DEF Receive, Take
    <3>3. ASSUME Manage PROVE UNCHANGED <<handlers, natsSubs, closed>>
      BY <1>4, <3>3 DEF Manage, RegisterFails
    <3>4. ASSUME \/ \E c \in Clients : Unsubscribe(c)
                 \/ \E w \in Publishers : \E post \in Posts : Publish(w, post)
          PROVE  UNCHANGED <<handlers, natsSubs, closed>>
      BY <3>4 DEF Unsubscribe, Publish, relayVars
    <3> QED  BY <2>2, <3>1, <3>2, <3>3, <3>4 DEF HubNext
  <2>3. ASSUME NEW c, Subscribe(c) \/ Consume(c) PROVE UNCHANGED <<handlers, natsSubs, closed>>
    BY <2>3 DEF Subscribe, Consume, relayVars
  <2>4. ASSUME NEW c \in Pumped,
               \/ Start(c) \/ Writer(c) \/ PingFails(c) \/ Reader(c) \/ Leaves(c) \/ Cancel(c)
        PROVE  UNCHANGED <<handlers, natsSubs, closed>>
    BY <2>3, <2>4 DEF Start, Writer, Write, WriteFails, End, Done, TakeMessage, ChannelClosed,
                      TakeReply, PingFails, Reader, ReadFrame, QueueReply, ReadFails, Leaves,
                      Cancel, relayVars
  <2> QED  BY <2>1, <2>2, <2>3, <2>4 DEF Next
<1> QED  BY <1>1, <1>2, <1>3, <1>4

\* Until it is closed, a pod with a connection hears the relays of its topic as
\* soon as it has a handler (Broadcaster.Subscribe).
THEOREM RegisteredPodsHear == Spec => []HandlersHear
<1>1. Init => HandlersHear
  BY DEF Init, HubInit, RelayInit, HandlersHear
<1> QED  BY <1>1, HandlersHearStep, PTL DEF Spec

-----------------------------------------------------------------------------
(* What is posted, relayed, held in inboxes and channels, and carried by a  *)
(* dispatch: types, and the order of one publisher's messages.              *)

\* The posts that Promise allows.
PostRecords == {[by |-> w, tenant |-> p.tenant, scope |-> p.scope] : w \in Publishers, p \in Posts}

\* Messages are named by their place in posted.
Said == 1 .. Len(posted)
By(m) == posted[m].by
Relays == {Relayed(PodOf[By(m)], m, posted[m].tenant, posted[m].scope) : m \in Said}

DataTypes ==
  /\ posted \in Seq(PostRecords) /\ Len(posted) <= MaxPosts
  /\ inbox \in [Pods -> Seq(Relays)]
  /\ seen \in [Clients -> Seq(Said)]
  /\ unread \in [Clients -> Nat] /\ dropped \in [Clients -> Nat]
  /\ \A c \in Clients : unread[c] <= Len(seen[c]) /\ unread[c] <= Buffer

\* What steps that neither send, receive, offer nor consume do to the messages.
Quiet == UNCHANGED <<inbox, seen, unread, dropped, posted, job>> /\ handlers \subseteq handlers'

LEMMA StepKinds ==
  ASSUME [Next]_vars
  PROVE  \/ \E w \in Publishers : \E post \in Posts : Publish(w, post)
         \/ \E p \in Pods : Receive(p)
         \/ \E w \in Workers : Enter(w) \/ Offer(w) \/ Finish(w)
         \/ \E p \in Pods : Close(p) /\ UNCHANGED hubVars
         \/ \E c \in Clients : Consume(c)
         \/ Quiet
<1> USE DEF Quiet
<1>0. Pumped \subseteq Clients
  BY PumpAssumption
<1>1. CASE UNCHANGED vars
  BY <1>1 DEF vars, relayVars, hubVars
<1>2. CASE HubNext
  <2>1. ASSUME NEW c \in Clients, Unsubscribe(c) PROVE Quiet
    BY <2>1 DEF Unsubscribe, relayVars
  <2>2. ASSUME NEW h \in Hubs, Register(h) \/ RegisterFails(h), UNCHANGED hubVars PROVE Quiet
    BY <2>2 DEF Register, RegisterFails, hubVars
  <2> QED  BY <1>2, <2>1, <2>2 DEF HubNext, Manage, Deliver
<1>3. ASSUME NEW c, Subscribe(c) PROVE Quiet
  BY <1>3 DEF Subscribe, relayVars
<1>4. ASSUME NEW c \in Pumped, TakeMessage(c) PROVE Consume(c)
  BY <1>4 DEF TakeMessage
<1>5. ASSUME NEW c \in Pumped,
             \/ Start(c) \/ Write(c) \/ WriteFails(c) \/ Done(c) \/ ChannelClosed(c) \/ TakeReply(c)
             \/ PingFails(c) \/ Reader(c) \/ Leaves(c) \/ Cancel(c)
      PROVE  Quiet
  BY <1>3, <1>5 DEF Start, Write, WriteFails, End, Done, ChannelClosed, TakeReply, PingFails,
                    Reader, ReadFrame, QueueReply, ReadFails, Leaves, Cancel, relayVars, hubVars
<1> QED  BY <1>0, <1>1, <1>2, <1>3, <1>4, <1>5 DEF Next, Writer

\* A new post takes the next place, and leaves the places of the others.
LEMMA Posting ==
  ASSUME DataTypes, NEW w \in Publishers, NEW post \in Posts, Publish(w, post)
  PROVE  LET n == Len(posted) + 1
         IN  /\ posted' \in Seq(PostRecords) /\ n \in Nat /\ Len(posted') = n /\ n <= MaxPosts
             /\ posted'[n] = [by |-> w, tenant |-> post.tenant, scope |-> post.scope]
             /\ Said' = Said \cup {n} /\ n \notin Said
             /\ \A m \in Said : posted'[m] = posted[m] /\ By(m)' = By(m)
             /\ Relays \subseteq Relays'
<1> DEFINE n == Len(posted) + 1
           r == [by |-> w, tenant |-> post.tenant, scope |-> post.scope]
<1>1. r \in PostRecords /\ posted' = Append(posted, r) /\ posted \in Seq(PostRecords)
  BY DEF Publish, PostRecords, DataTypes
<1>2. Len(posted) \in Nat /\ Len(posted) < MaxPosts /\ MaxPosts \in Nat
  BY <1>1, FanoutHubAssumption, LenProperties DEF Publish
<1> HIDE DEF r
<1>3. /\ posted' \in Seq(PostRecords) /\ Len(posted') = n /\ posted'[n] = r
      /\ \A m \in Said : posted'[m] = posted[m]
  BY <1>1, AppendProperties DEF Said
<1>4. Said' = Said \cup {n} /\ n \notin Said /\ n <= MaxPosts /\ n \in Nat
  BY <1>2, <1>3 DEF Said
<1>5. Relays \subseteq Relays'
  BY <1>3, <1>4 DEF Relays, By, Relayed, toToken
<1> QED  BY <1>3, <1>4, <1>5 DEF By, r

\* What dispatch hands to a worker, and what it leaves alone.
LEMMA Dispatching ==
  ASSUME HubInv, NEW w \in Workers, NEW m, NEW t, NEW s, Dispatch(w, m, t, s)
  PROVE  /\ job'[w] = [msg |-> m, tenant |-> t, scope |-> s, left |-> {},
                       hubs |-> {h \in handlers : Home[h] = PodOfWorker(w)}]
         /\ job'[w].msg = m
         /\ \A v \in Workers \ {w} : job'[v] = job[v]
<1>1. /\ job'[w] = [msg |-> m, tenant |-> t, scope |-> s, left |-> {},
                    hubs |-> {h \in handlers : Home[h] = PodOfWorker(w)}]
      /\ \A v \in Workers \ {w} : job'[v] = job[v]
  BY DEF HubInv, Dispatch
<1> QED  BY <1>1

\* The message at the head of an inbox, and the rest of it.
LEMMA Taking ==
  ASSUME DataTypes, NEW p \in Pods, Take(p)
  PROVE  /\ inbox[p] \in Seq(Relays) /\ Len(inbox[p]) \in Nat \ {0}
         /\ Head(inbox[p]) = inbox[p][1] /\ inbox[p][1] \in Relays
         /\ inbox'[p] \in Seq(Relays) /\ Len(inbox'[p]) = Len(inbox[p]) - 1
         /\ \A i \in DOMAIN inbox'[p] : i + 1 \in DOMAIN inbox[p] /\ inbox'[p][i] = inbox[p][i + 1]
         /\ \A q \in Pods \ {p} : inbox'[q] = inbox[q]
         /\ inbox' \in [Pods -> Seq(Relays)]
<1>1. inbox[p] \in Seq(Relays) /\ inbox[p] # <<>>
  BY DEF DataTypes, Take
<1>2. inbox' = [inbox EXCEPT ![p] = Tail(inbox[p])]
  BY DEF Take
<1>3. /\ Tail(inbox[p]) \in Seq(Relays) /\ Len(Tail(inbox[p])) = Len(inbox[p]) - 1
      /\ \A i \in 1 .. Len(Tail(inbox[p])) : Tail(inbox[p])[i] = inbox[p][i + 1]
      /\ Len(inbox[p]) \in Nat \ {0} /\ Head(inbox[p]) = inbox[p][1] /\ inbox[p][1] \in Relays
  BY <1>1, HeadTailProperties, EmptySeq, LenProperties
<1>4. inbox'[p] = Tail(inbox[p]) /\ \A q \in Pods \ {p} : inbox'[q] = inbox[q]
  BY <1>2 DEF DataTypes
<1> QED  BY <1>1, <1>2, <1>3, <1>4, LenProperties DEF DataTypes

RegistryTypes ==
  /\ handlers \subseteq Hubs /\ natsSubs \subseteq Connected /\ closed \subseteq Pods
  /\ open \subseteq Clients /\ shut \subseteq Clients

Busy(w) == job[w].msg # 0

\* What a worker is busy with: a publisher with the last message it posted, a
\* delivery goroutine with one of another pod, as its tokens read.
Carries(w) ==
  LET m == job[w].msg
  IN  /\ m \in Said
      /\ w \in Publishers =>
           /\ By(m) = w /\ \A k \in Said : By(k) = w => k <= m
           /\ job[w].tenant = posted[m].tenant /\ job[w].scope = posted[m].scope
      /\ w \in Pods =>
           /\ By(m) \in Publishers /\ PodOf[By(m)] # w
           /\ job[w].tenant = fromToken(toToken(posted[m].tenant))
           /\ job[w].scope = fromToken(toToken(posted[m].scope))

\* A dispatch stays on the pod of its worker, and the clients it still offers
\* its message to listen, and belong to a hub it is done with.
JobInv(w) ==
  /\ job[w] = Idle \/ Carries(w)
  /\ job[w].hubs \subseteq handlers /\ \A h \in job[w].hubs : Home[h] = PodOfWorker(w)
  /\ \A c \in job[w].left :
       /\ Home[Hub[c]] = PodOfWorker(w) /\ Hub[c] \notin job[w].hubs
       /\ Listens(c, job[w].tenant, job[w].scope)

\* The messages of one publisher that pod p has not dealt with are in order:
\* the one in hand, those in the inbox, and the one not relayed yet.
OrderInv(p) ==
  /\ \A i, j \in DOMAIN inbox[p] :
       i < j /\ By(inbox[p][i].msg) = By(inbox[p][j].msg) => inbox[p][i].msg < inbox[p][j].msg
  /\ \A i \in DOMAIN inbox[p] :
       /\ Busy(p) /\ By(inbox[p][i].msg) = By(job[p].msg) => job[p].msg < inbox[p][i].msg
       /\ \A u \in Publishers : Busy(u) /\ By(inbox[p][i].msg) = u => inbox[p][i].msg < job[u].msg
  /\ \A u \in Publishers : Busy(p) /\ Busy(u) /\ By(job[p].msg) = u => job[p].msg < job[u].msg

MessageInv ==
  /\ HubInv /\ DataTypes /\ RegistryTypes
  /\ \A w \in Workers : JobInv(w)
  /\ \A p \in Pods : OrderInv(p)

LEMMA Records ==
  ASSUME DataTypes
  PROVE  /\ \A m \in Said : posted[m] \in PostRecords /\ By(m) \in Publishers /\ PodOf[By(m)] \in Pods
         /\ \A r \in Relays :
              /\ r.msg \in Said /\ r.origin = PodOf[By(r.msg)]
              /\ r.tenant = toToken(posted[r.msg].tenant) /\ r.scope = toToken(posted[r.msg].scope)
         /\ Len(posted) \in Nat /\ \A m \in Said : m \in Nat \ {0}
<1>1. Len(posted) \in Nat /\ \A m \in Said : m \in Nat \ {0} /\ posted[m] \in PostRecords
  BY LenProperties, ElementOfSeq DEF DataTypes, Said
<1>2. \A x \in PostRecords : x.by \in Publishers
  BY DEF PostRecords
<1>3. \A m \in Said : By(m) \in Publishers /\ PodOf[By(m)] \in Pods
  BY <1>1, <1>2, FanoutHubAssumption DEF By
<1> QED  BY <1>1, <1>3 DEF Relays, Relayed

\* A worker with a client or a hub left, or that is not idle, carries a message.
LEMMA Carrying ==
  ASSUME NEW w \in Workers, JobInv(w), job[w] # Idle \/ job[w].left # {} \/ job[w].hubs # {} \/ Busy(w)
  PROVE  Carries(w) /\ Busy(w)
<1>1. Idle.msg = 0 /\ Idle.left = {} /\ Idle.hubs = {}
  BY DEF Idle
<1>2. job[w] # Idle
  BY <1>1 DEF Busy
<1> QED  BY <1>2 DEF JobInv, Carries, Said, Busy

\* A publisher relays the message it carries: an inbox that gets it has it last.
LEMMA Relaying ==
  ASSUME MessageInv, NEW w \in Publishers, Finish(w)
  PROVE  /\ inbox' \in [Pods -> Seq(Relays)]
         /\ \A p \in Pods : \A i \in DOMAIN inbox'[p] :
              \/ i \in DOMAIN inbox[p] /\ inbox'[p][i] = inbox[p][i]
              \/ /\ i = Len(inbox[p]) + 1
                 /\ inbox'[p][i].msg = job[w].msg /\ inbox'[p][i].origin = PodOf[w]
<1> DEFINE r == Relayed(PodOf[w], job[w].msg, job[w].tenant, job[w].scope)
<1>1. w \in Workers /\ Carries(w)
  BY Carrying DEF Workers, MessageInv, Finish
<1>2. r \in Relays /\ r.msg = job[w].msg /\ r.origin = PodOf[w]
  BY <1>1 DEF Carries, Relays, Relayed
<1>3. inbox \in [Pods -> Seq(Relays)]
  BY DEF MessageInv, DataTypes
<1>4. PICK got \in SUBSET Pods :
        inbox' = [q \in Pods |-> IF q \in got THEN Append(inbox[q], r) ELSE inbox[q]]
  <2>1. PICK lost \in SUBSET natsSubs :
          inbox' = [q \in Pods |-> IF q \in natsSubs \ lost THEN Append(inbox[q], r) ELSE inbox[q]]
    BY DEF Finish, Relay
  <2>2. natsSubs \ lost \in SUBSET Pods
    BY BroadcasterAssumption DEF MessageInv, RegistryTypes
  <2> QED  BY <2>1, <2>2
<1> HIDE DEF r
<1>5. ASSUME NEW p \in Pods
      PROVE  /\ inbox'[p] \in Seq(Relays)
             /\ \A i \in DOMAIN inbox'[p] :
                  \/ i \in DOMAIN inbox[p] /\ inbox'[p][i] = inbox[p][i]
                  \/ i = Len(inbox[p]) + 1 /\ inbox'[p][i] = r
  <2>1. inbox[p] \in Seq(Relays)
    BY <1>3
  <2>2. CASE p \in got
    <3>1. inbox'[p] = Append(inbox[p], r)
      BY <1>4, <2>2
    <3> QED  BY <1>2, <2>1, <3>1, AppendProperties, LenProperties
  <2>3. CASE p \notin got
    BY <1>4, <2>1, <2>3
  <2> QED  BY <2>2, <2>3
<1>6. inbox' = [q \in Pods |-> inbox'[q]]
  BY <1>4
<1> QED  BY <1>2, <1>5, <1>6

-----------------------------------------------------------------------------
LEMMA RegistryStep == RegistryTypes /\ HubInv /\ [Next]_vars => RegistryTypes'
<1> SUFFICES ASSUME RegistryTypes, [Next]_vars PROVE RegistryTypes'
  OBVIOUS
<1> USE DEF RegistryTypes
<1>0. Pumped \subseteq Clients
  BY PumpAssumption
<1>1. CASE UNCHANGED vars
  BY <1>1 DEF vars, relayVars, hubVars
<1>2. ASSUME NEW c \in Clients, Subscribe(c) \/ Unsubscribe(c) \/ Consume(c) PROVE RegistryTypes'
  BY <1>2 DEF Subscribe, Unsubscribe, Consume, relayVars
<1>3. ASSUME NEW w \in Workers, Deliver(w) PROVE RegistryTypes'
  BY <1>3 DEF Deliver, Enter, Offer, Finish, Relay, relayVars
<1>4. ASSUME NEW w \in Publishers, NEW post \in Posts, Publish(w, post) PROVE RegistryTypes'
  BY <1>4 DEF Publish, relayVars
<1>5. ASSUME NEW p \in Pods, Receive(p) PROVE RegistryTypes'
  BY <1>5 DEF Receive, Take
<1>6. ASSUME Manage PROVE RegistryTypes'
  <2>1. ASSUME NEW h \in Hubs, Register(h) \/ RegisterFails(h) PROVE RegistryTypes'
    BY <1>6, <2>1 DEF Manage, Register, RegisterFails, Opens, hubVars
  <2>2. ASSUME NEW p \in Pods, Close(p) PROVE RegistryTypes'
    BY <1>6, <2>2 DEF Manage, Close, hubVars
  <2> QED  BY <1>6, <2>1, <2>2 DEF Manage
<1>7. ASSUME NEW c \in Pumped,
             \/ Write(c) \/ WriteFails(c) \/ Done(c) \/ ChannelClosed(c) \/ TakeReply(c)
             \/ PingFails(c) \/ Reader(c) \/ Leaves(c) \/ Cancel(c)
      PROVE  RegistryTypes'
  BY <1>7 DEF Write, WriteFails, End, Done, ChannelClosed, TakeReply, PingFails,
              Reader, ReadFrame, QueueReply, ReadFails, Leaves, Cancel, relayVars, hubVars
<1>8. ASSUME NEW c \in Pumped, Start(c) \/ TakeMessage(c) PROVE RegistryTypes'
  BY <1>0, <1>2, <1>8 DEF Start, TakeMessage
<1> QED  BY <1>1, <1>2, <1>3, <1>4, <1>5, <1>6, <1>7, <1>8 DEF Next, HubNext, Writer

LEMMA SeqsGrow ==
  ASSUME NEW D, NEW S, NEW T, S \subseteq T, NEW f \in [D -> Seq(S)]
  PROVE  f \in [D -> Seq(T)]
<1>1. \A d \in D : f[d] \in Seq(T)
  BY SeqMonotonic
<1> QED  BY <1>1

\* w offers its message to c, and c gets it or misses it.
Offered(w, c) ==
  /\ c \in job[w].left /\ c \in Clients /\ Carries(w) /\ Busy(w)
  /\ job'[w].left = job[w].left \ {c}
  /\ job'[w].hubs = job[w].hubs /\ job'[w].msg = job[w].msg
  /\ job'[w].tenant = job[w].tenant /\ job'[w].scope = job[w].scope
  /\ \A v \in Workers \ {w} : job'[v] = job[v]
  /\ \/ /\ unread[c] < Buffer /\ unread' = [unread EXCEPT ![c] = @ + 1]
        /\ seen' = [seen EXCEPT ![c] = Append(@, job[w].msg)] /\ UNCHANGED dropped
     \/ /\ dropped' = [dropped EXCEPT ![c] = @ + 1] /\ UNCHANGED <<seen, unread>>
  /\ UNCHANGED <<handlers, inbox, posted>>

LEMMA Offering ==
  ASSUME MessageInv, NEW w \in Workers, Offer(w)
  PROVE  \E c \in Clients : Offered(w, c)
<1>1. PICK c \in job[w].left :
        /\ job' = [job EXCEPT ![w].left = @ \ {c}]
        /\ \/ /\ unread[c] < Buffer /\ unread' = [unread EXCEPT ![c] = @ + 1]
              /\ seen' = [seen EXCEPT ![c] = Append(@, job[w].msg)] /\ UNCHANGED dropped
           \/ /\ dropped' = [dropped EXCEPT ![c] = @ + 1] /\ UNCHANGED <<seen, unread>>
  BY DEF Offer
<1>2. c \in Clients /\ Carries(w) /\ Busy(w)
  BY <1>1, Carrying DEF MessageInv, HubInv, RegistryTypes
<1>3. DOMAIN job = Workers /\ job = [v \in Workers |-> job[v]] /\ IsJob(job[w])
  BY DEF MessageInv, HubInv
<1>4. job'[w] = [job[w] EXCEPT !.left = @ \ {c}] /\ \A v \in Workers \ {w} : job'[v] = job[v]
  BY <1>1, <1>3
<1>5. /\ job'[w].left = job[w].left \ {c}
      /\ job'[w].hubs = job[w].hubs /\ job'[w].msg = job[w].msg
      /\ job'[w].tenant = job[w].tenant /\ job'[w].scope = job[w].scope
  BY <1>3, <1>4 DEF IsJob
<1>6. UNCHANGED <<handlers, inbox, posted>>
  BY DEF Offer, relayVars
<1> QED  BY <1>1, <1>2, <1>4, <1>5, <1>6 DEF Offered

\* deliver enters a hub: its listeners are still to be offered the message.
Entered(w, h) ==
  /\ h \in job[w].hubs /\ Carries(w) /\ Busy(w) /\ job[w].left = {}
  /\ job'[w].hubs = job[w].hubs \ {h} /\ job'[w].msg = job[w].msg
  /\ job'[w].tenant = job[w].tenant /\ job'[w].scope = job[w].scope
  /\ job'[w].left = {c \in open : Hub[c] = h /\ Listens(c, job[w].tenant, job[w].scope)}
  /\ \A v \in Workers \ {w} : job'[v] = job[v]
  /\ UNCHANGED <<handlers, inbox, seen, unread, dropped, posted>>

LEMMA Entering ==
  ASSUME MessageInv, NEW w \in Workers, Enter(w)
  PROVE  \E h \in job[w].hubs : Entered(w, h)
<1>1. job[w].left = {} /\ \E h \in job[w].hubs :
        job' = [job EXCEPT ![w].hubs = @ \ {h},
                 ![w].left = {c \in open : Hub[c] = h /\ Listens(c, job[w].tenant, job[w].scope)}]
  BY DEF Enter
<1>2. PICK h \in job[w].hubs :
        job' = [job EXCEPT ![w].hubs = @ \ {h},
                 ![w].left = {c \in open : Hub[c] = h /\ Listens(c, job[w].tenant, job[w].scope)}]
  BY <1>1
<1>3. Carries(w) /\ Busy(w)
  BY <1>2, Carrying DEF MessageInv
<1> DEFINE l == {c \in open : Hub[c] = h /\ Listens(c, job[w].tenant, job[w].scope)}
<1>4. DOMAIN job = Workers /\ job = [v \in Workers |-> job[v]] /\ IsJob(job[w])
  BY DEF MessageInv, HubInv
<1>5. /\ job'[w] = [job[w] EXCEPT !.hubs = @ \ {h}, !.left = l]
      /\ \A v \in Workers \ {w} : job'[v] = job[v]
  BY <1>2, <1>4
<1>6. h \in job[w].hubs /\ job'[w].left = l
  BY <1>4, <1>5 DEF IsJob
<1> HIDE DEF l
<1>7. /\ job'[w].hubs = job[w].hubs \ {h} /\ job'[w].msg = job[w].msg
      /\ job'[w].tenant = job[w].tenant /\ job'[w].scope = job[w].scope
  BY <1>4, <1>5 DEF IsJob
<1> USE DEF l
<1>8. UNCHANGED <<handlers, inbox, seen, unread, dropped, posted>>
  BY DEF Enter, relayVars
<1> QED  BY <1>1, <1>3, <1>5, <1>6, <1>7, <1>8 DEF Entered

LEMMA PostedAlone ==
  ASSUME [Next]_vars, ~ \E w \in Publishers : \E post \in Posts : Publish(w, post)
  PROVE  UNCHANGED posted
<1>1. ASSUME NEW p \in Pods, Receive(p) \/ (Close(p) /\ UNCHANGED hubVars) PROVE UNCHANGED posted
  BY <1>1 DEF Receive, hubVars
<1>2. ASSUME NEW w \in Workers, Enter(w) \/ Offer(w) \/ Finish(w) PROVE UNCHANGED posted
  BY <1>2 DEF Enter, Offer, Finish
<1>3. ASSUME NEW c \in Clients, Consume(c) PROVE UNCHANGED posted
  BY <1>3 DEF Consume
<1> QED  BY <1>1, <1>2, <1>3, StepKinds DEF Quiet

LEMMA DataStep == ASSUME MessageInv, [Next]_vars PROVE DataTypes'
<1>0. DataTypes
  BY DEF MessageInv
<1>1. ASSUME NEW w \in Publishers, NEW post \in Posts, Publish(w, post) PROVE DataTypes'
  <2>1. Said \subseteq Said' /\ Relays \subseteq Relays' /\ posted' \in Seq(PostRecords)
        /\ Len(posted') <= MaxPosts
    BY <1>0, <1>1, Posting
  <2>2. UNCHANGED <<inbox, seen, unread, dropped>>
    BY <1>1 DEF Publish, relayVars
  <2>3. inbox \in [Pods -> Seq(Relays')] /\ seen \in [Clients -> Seq(Said')]
    BY <1>0, <2>1, SeqsGrow DEF DataTypes
  <2> QED  BY <1>0, <2>1, <2>2, <2>3 DEF DataTypes
<1>2. ASSUME UNCHANGED posted, NEW p \in Pods, Receive(p) PROVE DataTypes'
  <2>1. inbox' \in [Pods -> Seq(Relays)]
    BY <1>0, <1>2, Taking DEF Receive
  <2> QED  BY <1>0, <1>2, <2>1 DEF DataTypes, Receive, Relays, Said, By
<1>3. ASSUME UNCHANGED posted, NEW w \in Workers, Enter(w) PROVE DataTypes'
  <2>1. UNCHANGED <<inbox, seen, unread, dropped, posted>>
    BY <1>3 DEF Enter, relayVars
  <2> QED  BY <1>0, <2>1 DEF DataTypes, Relays, Said, By
<1>4. ASSUME UNCHANGED posted, NEW w \in Workers, Offer(w) PROVE DataTypes'
  <2>1. PICK c \in Clients : Offered(w, c)
    BY <1>4, Offering
  <2>2. UNCHANGED <<inbox, posted>> /\ Said' = Said /\ Relays' = Relays
    BY <1>4, <2>1 DEF Offered, Said, Relays, By
  <2>3. CASE unread[c] < Buffer /\ unread' = [unread EXCEPT ![c] = @ + 1]
             /\ seen' = [seen EXCEPT ![c] = Append(@, job[w].msg)] /\ UNCHANGED dropped
    <3>1. seen[c] \in Seq(Said) /\ job[w].msg \in Said
      BY <1>0, <2>1 DEF Offered, Carries, DataTypes
    <3>2. Append(seen[c], job[w].msg) \in Seq(Said) /\ Len(Append(seen[c], job[w].msg)) = Len(seen[c]) + 1
          /\ Len(seen[c]) \in Nat
      BY <3>1, AppendProperties, LenProperties
    <3>3. Buffer \in Nat
      BY FanoutHubAssumption
    <3> QED  BY <1>0, <2>2, <2>3, <3>2, <3>3 DEF DataTypes
  <2>4. CASE dropped' = [dropped EXCEPT ![c] = @ + 1] /\ UNCHANGED <<seen, unread>>
    BY <1>0, <2>2, <2>4 DEF DataTypes
  <2> QED  BY <2>1, <2>3, <2>4 DEF Offered
<1>5. ASSUME UNCHANGED posted, NEW w \in Workers, Finish(w) PROVE DataTypes'
  <2>1. inbox' \in [Pods -> Seq(Relays)]
    <3>1. CASE w \in Publishers
      BY <1>5, <3>1, Relaying
    <3>2. CASE w \notin Publishers
      BY <1>0, <1>5, <3>2 DEF Finish, relayVars, DataTypes
    <3> QED  BY <3>1, <3>2
  <2> QED  BY <1>0, <1>5, <2>1 DEF DataTypes, Finish, Relays, Said, By
<1>6. ASSUME UNCHANGED posted, NEW p \in Pods, Close(p), UNCHANGED hubVars PROVE DataTypes'
  <2>1. inbox' \in [Pods -> Seq(Relays)]
    <3>1. inbox' = [inbox EXCEPT ![p] = <<>>] /\ <<>> \in Seq(Relays)
      BY <1>6, EmptySeq DEF Close
    <3> QED  BY <1>0, <3>1 DEF DataTypes
  <2> QED  BY <1>0, <1>6, <2>1 DEF DataTypes, hubVars, Relays, Said, By
<1>7. ASSUME UNCHANGED posted, NEW c \in Clients, Consume(c) PROVE DataTypes'
  <2>1. unread[c] \in Nat /\ unread[c] > 0 /\ unread' = [unread EXCEPT ![c] = @ - 1]
    BY <1>0, <1>7 DEF Consume, DataTypes
  <2>2. Buffer \in Nat /\ \A d \in Clients : Len(seen[d]) \in Nat
    BY <1>0, FanoutHubAssumption, LenProperties DEF DataTypes
  <2>3. UNCHANGED <<inbox, seen, dropped, posted>> /\ Said' = Said /\ Relays' = Relays
    BY <1>7 DEF Consume, relayVars, Relays, Said, By
  <2>4. unread' \in [Clients -> Nat] /\ \A d \in Clients : unread'[d] <= unread[d]
    BY <1>0, <2>1 DEF DataTypes
  <2>5. \A d \in Clients : unread'[d] <= Len(seen[d]) /\ unread'[d] <= Buffer
    BY <1>0, <2>2, <2>4 DEF DataTypes
  <2> QED  BY <1>0, <2>3, <2>4, <2>5 DEF DataTypes
<1>8. CASE Quiet
  BY <1>0, <1>8 DEF Quiet, DataTypes, Relays, Said, By
<1> QED  BY <1>1, <1>2, <1>3, <1>4, <1>5, <1>6, <1>7, <1>8, StepKinds, PostedAlone

-----------------------------------------------------------------------------
(* Each step keeps these facts.                                             *)

LEMMA JobKept ==
  ASSUME NEW v \in Workers, JobInv(v), job'[v] = job[v], UNCHANGED posted, handlers \subseteq handlers'
  PROVE  JobInv(v)'
<1>1. Carries(v) => Carries(v)'
  BY DEF Carries, Said, By
<1> QED  BY <1>1 DEF JobInv

LEMMA JobStep == ASSUME MessageInv, [Next]_vars, NEW v \in Workers PROVE JobInv(v)'
<1>0. /\ HubInv /\ DataTypes /\ \A w \in Workers : JobInv(w)
      /\ Publishers \cap Pods = {} /\ Workers = Publishers \cup Pods
  BY FanoutHubAssumption DEF MessageInv, Workers
<1>1. ASSUME NEW w \in Publishers, NEW post \in Posts, Publish(w, post) PROVE JobInv(v)'
  <2> DEFINE n == Len(posted) + 1
  <2>1. /\ Dispatch(w, n, post.tenant, post.scope) /\ UNCHANGED handlers
        /\ posted'[n] = [by |-> w, tenant |-> post.tenant, scope |-> post.scope]
        /\ Said' = Said \cup {n} /\ n \notin Said /\ n \in Nat /\ \A m \in Said : m <= n
        /\ \A m \in Said : posted'[m] = posted[m]
    BY <1>0, <1>1, Posting DEF Publish, relayVars, Said
  <2> HIDE DEF n
  <2>2. /\ job'[w] = [msg |-> n, tenant |-> post.tenant, scope |-> post.scope, left |-> {},
                      hubs |-> {h \in handlers : Home[h] = PodOfWorker(w)}]
        /\ \A u \in Workers \ {w} : job'[u] = job[u]
    BY <1>0, <2>1, Dispatching
  <2>3. CASE v = w
    <3>1. Carries(w)'
      BY <1>0, <2>1, <2>2 DEF Carries, By
    <3> QED  BY <2>1, <2>2, <2>3, <3>1 DEF JobInv
  <2>4. CASE v # w
    <3>1. Carries(v) => Carries(v)'
      BY <2>1, <2>2, <2>4 DEF Carries, By
    <3> QED  BY <1>0, <2>1, <2>2, <2>4, <3>1 DEF JobInv
  <2> QED  BY <2>3, <2>4
<1>2. ASSUME UNCHANGED posted, NEW p \in Pods, Receive(p) PROVE JobInv(v)'
  <2> DEFINE m == Head(inbox[p])
  <2>1. UNCHANGED handlers
    BY <1>2 DEF Receive, Take
  <2>2. CASE UNCHANGED job
    BY <1>0, <1>2, <2>1, <2>2, JobKept
  <2>3. CASE m.origin # p /\ Dispatch(p, m.msg, fromToken(m.tenant), fromToken(m.scope))
    <3>1. m \in Relays
      BY <1>0, <1>2, Taking DEF Receive
    <3>2. /\ m.msg \in Said /\ PodOf[By(m.msg)] # p /\ By(m.msg) \in Publishers
          /\ m.tenant = toToken(posted[m.msg].tenant) /\ m.scope = toToken(posted[m.msg].scope)
      BY <1>0, <2>3, <3>1, Records
    <3> HIDE DEF m
    <3>3. /\ job'[p] = [msg |-> m.msg, tenant |-> fromToken(m.tenant), scope |-> fromToken(m.scope),
                        left |-> {}, hubs |-> {h \in handlers : Home[h] = PodOfWorker(p)}]
          /\ \A u \in Workers \ {p} : job'[u] = job[u]
      BY <1>0, <2>3, Dispatching
    <3>4. CASE v = p
      <4>1. Carries(p)'
        BY <1>0, <1>2, <3>2, <3>3 DEF Carries, Said, By
      <4> QED  BY <2>1, <3>3, <3>4, <4>1 DEF JobInv
    <3>5. CASE v # p
      BY <1>0, <1>2, <2>1, <3>3, <3>5, JobKept
    <3> QED  BY <3>4, <3>5
  <2> QED  BY <1>2, <2>2, <2>3 DEF Receive
<1>3. ASSUME UNCHANGED posted, NEW w \in Workers, Enter(w) PROVE JobInv(v)'
  <2>1. PICK h \in job[w].hubs : Entered(w, h)
    BY <1>3, Entering
  <2>2. CASE v = w
    <3>1. Carries(w)'
      BY <2>1 DEF Entered, Carries, Said, By
    <3> QED  BY <1>0, <2>1, <2>2, <3>1 DEF Entered, JobInv
  <2> QED  BY <1>0, <2>1, <2>2, JobKept DEF Entered
<1>4. ASSUME UNCHANGED posted, NEW w \in Workers, Offer(w) PROVE JobInv(v)'
  <2>1. PICK c \in Clients : Offered(w, c)
    BY <1>4, Offering
  <2>2. CASE v = w
    <3>1. Carries(w)'
      BY <2>1 DEF Offered, Carries, Said, By
    <3> QED  BY <1>0, <2>1, <2>2, <3>1 DEF Offered, JobInv
  <2> QED  BY <1>0, <2>1, <2>2, JobKept DEF Offered
<1>5. ASSUME UNCHANGED posted, NEW w \in Workers, Finish(w) PROVE JobInv(v)'
  <2>1. handlers' = handlers /\ job' = [job EXCEPT ![w] = Idle]
    BY <1>5 DEF Finish, Relay, relayVars
  <2>2. CASE v = w
    <3>1. job'[w] = Idle /\ Idle.hubs = {} /\ Idle.left = {}
      BY <1>0, <2>1 DEF HubInv, Idle
    <3> QED  BY <2>2, <3>1 DEF JobInv
  <2> QED  BY <1>0, <1>5, <2>1, <2>2, JobKept
<1>6. ASSUME UNCHANGED <<job, posted>>, handlers \subseteq handlers' PROVE JobInv(v)'
  BY <1>0, <1>6, JobKept
<1> QED  BY <1>1, <1>2, <1>3, <1>4, <1>5, <1>6, StepKinds, PostedAlone
         DEF Quiet, Close, hubVars, Consume, relayVars

-----------------------------------------------------------------------------
LEMMA OrderKept ==
  ASSUME NEW q \in Pods, OrderInv(q), inbox'[q] = inbox[q], UNCHANGED posted, q \in Workers,
         \A v \in Workers : job'[v].msg = job[v].msg, Publishers \subseteq Workers
  PROVE  OrderInv(q)'
  BY DEF OrderInv, Busy, By

LEMMA PublishKeepsOrder ==
  ASSUME MessageInv, NEW w \in Publishers, NEW post \in Posts, Publish(w, post), NEW q \in Pods
  PROVE  OrderInv(q)'
<1>0. HubInv /\ DataTypes /\ OrderInv(q) /\ q \in Workers /\ q # w /\ JobInv(q) /\ w \in Workers
  BY FanoutHubAssumption DEF MessageInv, Workers
<1> DEFINE n == Len(posted) + 1
<1>1. /\ Dispatch(w, n, post.tenant, post.scope) /\ UNCHANGED inbox
      /\ n \in Nat /\ \A m \in Said : m < n /\ By(m)' = By(m)
  BY <1>0, Posting DEF Publish, relayVars, Said
<1> HIDE DEF n
<1>2. /\ job'[w] = [msg |-> n, tenant |-> post.tenant, scope |-> post.scope, left |-> {},
                    hubs |-> {h \in handlers : Home[h] = PodOfWorker(w)}]
      /\ \A v \in Workers \ {w} : job'[v] = job[v]
  BY <1>0, <1>1, Dispatching
<1>3. job'[w].msg = n /\ job'[q] = job[q] /\ \A u \in Publishers \ {w} : job'[u] = job[u]
  BY <1>0, <1>2 DEF Workers
<1>4. /\ \A i \in DOMAIN inbox[q] : inbox[q][i].msg \in Said
      /\ Busy(q) => job[q].msg \in Said
  BY <1>0, Records, ElementOfSeq, LenProperties, Carrying DEF DataTypes, Carries
<1>5. ASSUME NEW u \in Publishers, Busy(u)', NEW m \in Said, By(m) = u, Busy(u) => m < job[u].msg
      PROVE  m < job'[u].msg
  BY <1>1, <1>3, <1>5 DEF Busy
<1> QED  BY <1>0, <1>1, <1>3, <1>4, <1>5 DEF OrderInv, Busy, By

LEMMA ReceiveKeepsOrder ==
  ASSUME MessageInv, UNCHANGED posted, NEW p \in Pods, Receive(p), NEW q \in Pods
  PROVE  OrderInv(q)'
<1>0. /\ HubInv /\ DataTypes /\ OrderInv(q) /\ p \in Workers /\ q \in Workers
      /\ Publishers \subseteq Workers /\ p \notin Publishers
  BY FanoutHubAssumption DEF MessageInv, Workers
<1> DEFINE m == Head(inbox[p])
<1>1. \A v \in Workers \ {p} : job'[v] = job[v]
  BY <1>0, Dispatching DEF Receive
<1>2. CASE q # p
  <2>1. inbox'[q] = inbox[q]
    BY <1>0, <1>2, Taking DEF Receive
  <2> QED  BY <1>0, <1>1, <1>2, <2>1 DEF OrderInv, Busy, By
<1>3. CASE q = p
  <2>1. /\ \A i \in DOMAIN inbox'[p] : i + 1 \in DOMAIN inbox[p] /\ inbox'[p][i] = inbox[p][i + 1]
        /\ 1 \in DOMAIN inbox[p] /\ m = inbox[p][1]
        /\ \A i \in DOMAIN inbox[p] : i \in Nat \ {0}
        /\ \A i \in DOMAIN inbox'[p] : i \in Nat \ {0}
    BY <1>0, Taking, LenProperties DEF Receive
  <2>2. job'[p].msg \in {0, m.msg}
    <3>1. CASE UNCHANGED job
      <4>1. job'[p] = Idle /\ Idle.msg = 0
        BY <3>1 DEF Receive, Idle
      <4> QED  BY <4>1
    <3>2. CASE Dispatch(p, m.msg, fromToken(m.tenant), fromToken(m.scope))
      <4> HIDE DEF m
      <4> QED  BY <1>0, <3>2, Dispatching
    <3> QED  BY <3>1, <3>2 DEF Receive
  <2> HIDE DEF m
  <2>3. \A u \in Publishers : job'[u] = job[u]
    BY <1>0, <1>1
  <2>4. ASSUME NEW i \in DOMAIN inbox'[p], NEW j \in DOMAIN inbox'[p], i < j,
               By(inbox'[p][i].msg) = By(inbox'[p][j].msg)
        PROVE  inbox'[p][i].msg < inbox'[p][j].msg
    BY <1>0, <1>3, <2>1, <2>4 DEF OrderInv
  <2>5. ASSUME NEW i \in DOMAIN inbox'[p]
        PROVE  /\ Busy(p)' /\ By(inbox'[p][i].msg) = posted[job'[p].msg].by => job'[p].msg < inbox'[p][i].msg
               /\ \A u \in Publishers : Busy(u) /\ By(inbox'[p][i].msg) = u => inbox'[p][i].msg < job[u].msg
    BY <1>0, <1>3, <2>1, <2>2, <2>5 DEF OrderInv, Busy, By
  <2>6. \A u \in Publishers : Busy(p)' /\ Busy(u) /\ posted[job'[p].msg].by = u => job'[p].msg < job[u].msg
    BY <1>0, <1>3, <2>1, <2>2 DEF OrderInv, Busy, By
  <2> QED  BY <1>3, <2>3, <2>4, <2>5, <2>6 DEF OrderInv, Busy, By
<1> QED  BY <1>2, <1>3

LEMMA FinishKeepsOrder ==
  ASSUME MessageInv, UNCHANGED posted, NEW w \in Workers, Finish(w), NEW q \in Pods
  PROVE  OrderInv(q)'
<1>0. /\ HubInv /\ DataTypes /\ OrderInv(q) /\ JobInv(w) /\ q \in Workers
      /\ Publishers \subseteq Workers /\ Publishers \cap Pods = {}
  BY FanoutHubAssumption DEF MessageInv, Workers
<1>1. job'[w].msg = 0 /\ \A v \in Workers \ {w} : job'[v] = job[v]
  BY <1>0 DEF Finish, HubInv, Idle
<1>2. CASE w \notin Publishers
  <2>1. UNCHANGED inbox
    BY <1>2 DEF Finish, relayVars
  <2> QED  BY <1>0, <1>1, <2>1 DEF OrderInv, Busy, By
<1>3. CASE w \in Publishers
  <2>1. Busy(w) /\ By(job[w].msg) = w
    BY <1>0, <1>3, Carrying DEF Finish, Carries
  <2>2. /\ \A i \in DOMAIN inbox'[q] :
             \/ i \in DOMAIN inbox[q] /\ inbox'[q][i] = inbox[q][i]
             \/ i = Len(inbox[q]) + 1 /\ inbox'[q][i].msg = job[w].msg
        /\ DOMAIN inbox[q] = 1 .. Len(inbox[q]) /\ Len(inbox[q]) \in Nat
        /\ \A i \in DOMAIN inbox'[q] : i \in Nat
    BY <1>0, <1>3, Relaying, LenProperties DEF DataTypes
  <2>3. job'[q] = job[q] /\ q # w
    BY <1>0, <1>1, <1>3
  <2>4. ASSUME NEW i \in DOMAIN inbox'[q], NEW j \in DOMAIN inbox'[q], i < j,
               By(inbox'[q][i].msg) = By(inbox'[q][j].msg)
        PROVE  inbox'[q][i].msg < inbox'[q][j].msg
    BY <1>0, <1>3, <2>1, <2>2, <2>4 DEF OrderInv
  <2>5. ASSUME NEW i \in DOMAIN inbox'[q]
        PROVE  /\ Busy(q) /\ By(inbox'[q][i].msg) = By(job[q].msg) => job[q].msg < inbox'[q][i].msg
               /\ \A u \in Publishers : Busy(u)' /\ By(inbox'[q][i].msg) = u => inbox'[q][i].msg < job'[u].msg
    BY <1>0, <1>1, <1>3, <2>1, <2>2, <2>5 DEF OrderInv, Busy
  <2>6. \A u \in Publishers : Busy(q) /\ Busy(u)' /\ By(job[q].msg) = u => job[q].msg < job'[u].msg
    BY <1>0, <1>1 DEF OrderInv, Busy
  <2> QED  BY <2>3, <2>4, <2>5, <2>6 DEF OrderInv, Busy, By
<1> QED  BY <1>2, <1>3

LEMMA OrderStep == ASSUME MessageInv, [Next]_vars, NEW q \in Pods PROVE OrderInv(q)'
<1>0. OrderInv(q) /\ q \in Workers /\ Publishers \subseteq Workers
  BY DEF MessageInv, Workers
<1>1. ASSUME UNCHANGED <<job, posted, inbox>> PROVE OrderInv(q)'
  BY <1>0, <1>1, OrderKept
<1>2. ASSUME UNCHANGED posted, NEW w \in Workers, Enter(w) PROVE OrderInv(q)'
  <2>1. PICK h \in job[w].hubs : Entered(w, h)
    BY <1>2, Entering
  <2>2. \A v \in Workers : job'[v].msg = job[v].msg
    BY <2>1 DEF Entered
  <2> QED  BY <1>0, <1>2, <2>1, <2>2, OrderKept DEF Entered
<1>3. ASSUME UNCHANGED posted, NEW w \in Workers, Offer(w) PROVE OrderInv(q)'
  <2>1. PICK c \in Clients : Offered(w, c)
    BY <1>3, Offering
  <2>2. \A v \in Workers : job'[v].msg = job[v].msg
    BY <2>1 DEF Offered
  <2> QED  BY <1>0, <1>3, <2>1, <2>2, OrderKept DEF Offered
<1>4. ASSUME UNCHANGED posted, NEW p \in Pods, Close(p), UNCHANGED hubVars PROVE OrderInv(q)'
  <2>1. UNCHANGED job /\ (q # p => inbox'[q] = inbox[q]) /\ (q = p => inbox'[q] = <<>>)
    BY <1>4 DEF Close, hubVars, MessageInv, DataTypes
  <2>2. CASE q = p
    <3>1. DOMAIN inbox'[q] = {}
      BY <2>1, <2>2
    <3> QED  BY <1>0, <1>4, <2>1, <3>1 DEF OrderInv, Busy, By
  <2> QED  BY <1>0, <1>4, <2>1, <2>2, OrderKept
<1> QED  BY <1>1, <1>2, <1>3, <1>4, StepKinds, PostedAlone,
            PublishKeepsOrder, ReceiveKeepsOrder, FinishKeepsOrder
         DEF Quiet, Consume, relayVars

LEMMA MessageInit == Init => MessageInv
<1> SUFFICES ASSUME Init PROVE MessageInv
  OBVIOUS
<1>1. HubInv
  BY HubInvInit
<1>2. DataTypes
  <2>1. posted = <<>> /\ Len(posted) = 0 /\ 0 <= MaxPosts /\ Buffer \in Nat
    BY FanoutHubAssumption DEF Init, HubInit
  <2>2. <<>> \in Seq(PostRecords) /\ <<>> \in Seq(Relays) /\ <<>> \in Seq(Said) /\ Len(<<>>) = 0
    BY EmptySeq
  <2> QED  BY <2>1, <2>2 DEF Init, HubInit, RelayInit, DataTypes
<1>3. RegistryTypes
  BY DEF Init, HubInit, RelayInit, RegistryTypes
<1>4. ASSUME NEW w \in Workers PROVE job[w] = Idle /\ job[w].hubs = {} /\ job[w].left = {} /\ ~Busy(w)
  BY <1>4 DEF Init, HubInit, Idle, Busy
<1>5. \A p \in Pods : inbox[p] = <<>> /\ DOMAIN inbox[p] = {}
  <2>1. \A p \in Pods : inbox[p] = <<>>
    BY DEF Init, HubInit, RelayInit
  <2>2. DOMAIN <<>> = {}
    BY EmptySeq, LenProperties
  <2> QED  BY <2>1, <2>2, Zenon
<1> QED  BY <1>1, <1>2, <1>3, <1>4, <1>5 DEF MessageInv, JobInv, OrderInv, Workers

LEMMA MessageStep == MessageInv /\ [Next]_vars => MessageInv'
<1> SUFFICES ASSUME MessageInv, [Next]_vars PROVE MessageInv'
  OBVIOUS
<1>1. HubInv' /\ RegistryTypes'
  BY HubInvStep, RegistryStep DEF MessageInv
<1>2. Workers' = Workers
  BY DEF Workers
<1> QED  BY <1>1, <1>2, DataStep, JobStep, OrderStep DEF MessageInv

-----------------------------------------------------------------------------
(* What each client was given, and what may still come to it.               *)

\* The ways in which message m may still come to client c: in the hands of a
\* dispatch on c's pod, in the inbox of c's pod, or not relayed yet.
Handed(w, c, m) == job[w].msg = m /\ (Hub[c] \in job[w].hubs \/ c \in job[w].left)
Queued(c, m) ==
  \E i \in DOMAIN inbox[Home[Hub[c]]] :
    inbox[Home[Hub[c]]][i].msg = m /\ inbox[Home[Hub[c]]][i].origin # Home[Hub[c]]
Held(u, c, m) == job[u].msg = m /\ PodOf[u] # Home[Hub[c]]

OnTheWay(c) ==
  {m \in Said : \/ \E w \in Workers : Handed(w, c, m)
               \/ Queued(c, m)
               \/ \E u \in Publishers : Held(u, c, m)}

\* What is on its way to c comes after all of its publisher that c was given,
\* and with what c was given or missed it is no more than was posted.
ClientInv(c) ==
  /\ \A m \in OnTheWay(c) : \A k \in ToSet(seen[c]) : By(k) = By(m) => k < m
  /\ dropped[c] + Len(seen[c]) + Cardinality(OnTheWay(c)) <= Len(posted)

FlowInv == MessageInv /\ \A c \in Clients : ClientInv(c)

LEMMA PublishAddsOne ==
  ASSUME MessageInv, NEW w \in Publishers, NEW post \in Posts, Publish(w, post), NEW c \in Clients
  PROVE  OnTheWay(c)' \subseteq OnTheWay(c) \cup {Len(posted) + 1}
<1>0. HubInv /\ DataTypes /\ w \in Workers
  BY DEF MessageInv, Workers
<1> DEFINE n == Len(posted) + 1
<1>1. Dispatch(w, n, post.tenant, post.scope) /\ UNCHANGED inbox /\ Said' = Said \cup {n}
  BY <1>0, Posting DEF Publish, relayVars
<1> HIDE DEF n
<1>2. job'[w].msg = n /\ \A v \in Workers \ {w} : job'[v] = job[v]
  BY <1>0, <1>1, Dispatching
<1> SUFFICES ASSUME NEW m \in OnTheWay(c)', m # n PROVE m \in OnTheWay(c)
  BY DEF n
<1>3. m \in Said /\ Workers' = Workers /\ Publishers \subseteq Workers
  BY <1>1 DEF OnTheWay, Workers
<1> QED  BY <1>1, <1>2, <1>3 DEF OnTheWay, Handed, Queued, Held

LEMMA NothingAdded ==
  ASSUME MessageInv, [Next]_vars, UNCHANGED posted, NEW c \in Clients
  PROVE  OnTheWay(c)' \subseteq OnTheWay(c)
<1>0. /\ HubInv /\ DataTypes /\ Workers' = Workers /\ Publishers \subseteq Workers
      /\ Home[Hub[c]] \in Pods /\ Said' = Said /\ Publishers \cap Pods = {}
  BY FanoutHubAssumption, BroadcasterAssumption DEF MessageInv, Workers, Said
<1> DEFINE home == Home[Hub[c]]
<1>1. ASSUME NEW p \in Pods, Receive(p) PROVE OnTheWay(c)' \subseteq OnTheWay(c)
  <2> DEFINE h == Head(inbox[p])
  <2>1. /\ h = inbox[p][1] /\ 1 \in DOMAIN inbox[p] /\ h.msg \in Said
        /\ \A q \in Pods : \A i \in DOMAIN inbox'[q] :
             \E j \in DOMAIN inbox[q] : inbox'[q][i] = inbox[q][j]
    <3>1. Take(p)
      BY <1>1 DEF Receive
    <3>2. h = inbox[p][1] /\ inbox[p][1] \in Relays /\ h.msg \in Said /\ 1 \in DOMAIN inbox[p]
      BY <1>0, <3>1, Taking, Records, LenProperties
    <3>3. \A i \in DOMAIN inbox'[p] : i + 1 \in DOMAIN inbox[p] /\ inbox'[p][i] = inbox[p][i + 1]
      BY <1>0, <3>1, Taking
    <3>4. \A q \in Pods \ {p} : inbox'[q] = inbox[q]
      BY <1>0, <3>1, Taking
    <3> HIDE DEF h
    <3> QED  BY <3>2, <3>3, <3>4
  <2>2. ASSUME NEW m, Queued(c, m)' PROVE Queued(c, m)
    BY <1>0, <2>1, <2>2 DEF Queued
  <2>3. p \in Workers /\ \A v \in Workers \ {p} : job'[v] = job[v]
    BY <1>0, <1>1, Dispatching DEF Receive, Workers
  <2>4. ASSUME NEW m, Handed(p, c, m)' PROVE Handed(p, c, m) \/ Queued(c, m)
    <3>1. CASE UNCHANGED job
      BY <2>4, <3>1 DEF Handed
    <3>2. CASE h.origin # p /\ Dispatch(p, h.msg, fromToken(h.tenant), fromToken(h.scope))
      <4> HIDE DEF h
      <4>1. job'[p] = [msg |-> h.msg, tenant |-> fromToken(h.tenant), scope |-> fromToken(h.scope),
                       left |-> {}, hubs |-> {g \in handlers : Home[g] = PodOfWorker(p)}]
        BY <1>0, <2>3, <3>2, Dispatching
      <4>2. h.msg = m /\ Home[Hub[c]] = p
        BY <2>4, <4>1 DEF Handed, PodOfWorker
      <4> QED  BY <2>1, <3>2, <4>2 DEF Queued
    <3> QED  BY <1>1, <3>1, <3>2 DEF Receive
  <2> QED  BY <1>0, <2>2, <2>3, <2>4 DEF OnTheWay, Handed, Held
<1>2. ASSUME NEW w \in Workers, Enter(w) PROVE OnTheWay(c)' \subseteq OnTheWay(c)
  <2>1. PICK h \in job[w].hubs : Entered(w, h)
    BY <1>2, Entering
  <2>2. ASSUME NEW v \in Workers, NEW m, Handed(v, c, m)' PROVE Handed(v, c, m)
    BY <2>1, <2>2 DEF Entered, Handed
  <2>3. \A v \in Workers : job'[v].msg = job[v].msg
    BY <2>1 DEF Entered
  <2> QED  BY <1>0, <2>1, <2>2, <2>3 DEF OnTheWay, Entered, Queued, Held
<1>3. ASSUME NEW w \in Workers, Offer(w) PROVE OnTheWay(c)' \subseteq OnTheWay(c)
  <2>1. PICK d \in Clients : Offered(w, d)
    BY <1>3, Offering
  <2>2. ASSUME NEW v \in Workers, NEW m, Handed(v, c, m)' PROVE Handed(v, c, m)
    BY <2>1, <2>2 DEF Offered, Handed
  <2>3. \A v \in Workers : job'[v].msg = job[v].msg
    BY <2>1 DEF Offered
  <2> QED  BY <1>0, <2>1, <2>2, <2>3 DEF OnTheWay, Offered, Queued, Held
<1>4. ASSUME NEW w \in Workers, Finish(w) PROVE OnTheWay(c)' \subseteq OnTheWay(c)
  <2>1. job'[w].msg = 0 /\ \A v \in Workers \ {w} : job'[v] = job[v]
    <3>1. job'[w] = Idle /\ Idle.msg = 0 /\ \A v \in Workers \ {w} : job'[v] = job[v]
      BY <1>0, <1>4 DEF Finish, HubInv, Idle
    <3> QED  BY <3>1
  <2>2. 0 \notin Said
    BY DEF Said
  <2>3. ASSUME NEW m, Queued(c, m)' PROVE Queued(c, m) \/ (w \in Publishers /\ Held(w, c, m))
    <3>1. CASE w \in Publishers
      <4>1. \A i \in DOMAIN inbox'[home] :
              \/ i \in DOMAIN inbox[home] /\ inbox'[home][i] = inbox[home][i]
              \/ inbox'[home][i].msg = job[w].msg /\ inbox'[home][i].origin = PodOf[w]
        BY <1>0, <1>4, <3>1, Relaying
      <4> QED  BY <2>3, <3>1, <4>1 DEF Queued, Held
    <3>2. CASE w \notin Publishers
      BY <1>4, <2>3, <3>2 DEF Finish, relayVars, Queued
    <3> QED  BY <3>1, <3>2
  <2> QED  BY <1>0, <2>1, <2>2, <2>3 DEF OnTheWay, Handed, Held
<1>5. ASSUME NEW p \in Pods, Close(p), UNCHANGED hubVars PROVE OnTheWay(c)' \subseteq OnTheWay(c)
  <2>1. UNCHANGED job /\ inbox' = [inbox EXCEPT ![p] = <<>>]
    BY <1>5 DEF Close, hubVars
  <2>2. DOMAIN <<>> = {}
    BY EmptySeq, LenProperties
  <2>3. ASSUME NEW m, Queued(c, m)' PROVE Queued(c, m)
    <3>1. home # p
      <4>1. home = p => inbox'[home] = <<>>
        BY <1>0, <2>1 DEF DataTypes
      <4> QED  BY <2>2, <2>3, <4>1 DEF Queued
    <3> QED  BY <1>0, <2>1, <2>3, <3>1 DEF Queued, DataTypes
  <2> QED  BY <1>0, <2>1, <2>3 DEF OnTheWay, Handed, Held
<1>6. ASSUME UNCHANGED <<inbox, job>> PROVE OnTheWay(c)' \subseteq OnTheWay(c)
  BY <1>0, <1>6 DEF OnTheWay, Handed, Queued, Held
<1>7. ASSUME NEW w \in Publishers, NEW post \in Posts, Publish(w, post) PROVE FALSE
  BY <1>0, <1>7, Posting
<1> QED  BY <1>1, <1>2, <1>3, <1>4, <1>5, <1>6, <1>7, StepKinds DEF Quiet, Consume, relayVars

\* What is still on its way to a client that is offered a message comes later
\* than that message, if it is from the same publisher.
LEMMA NoOvertaking ==
  ASSUME MessageInv, NEW w \in Workers, NEW c \in Clients, Offered(w, c),
         NEW m \in OnTheWay(c)', By(m) = By(job[w].msg)
  PROVE  job[w].msg < m
<1> DEFINE home == Home[Hub[c]]
           k == job[w].msg
<1>0. /\ Carries(w) /\ Busy(w) /\ JobInv(w) /\ home = PodOfWorker(w) /\ home \in Pods
      /\ Hub[c] \notin job[w].hubs /\ UNCHANGED <<inbox, posted>> /\ Said' = Said /\ Workers' = Workers
      /\ m \in Said /\ Publishers \cap Pods = {} /\ Workers = Publishers \cup Pods
      /\ DataTypes /\ \A v \in Workers : job'[v].msg = job[v].msg
  BY FanoutHubAssumption, BroadcasterAssumption
     DEF MessageInv, JobInv, Offered, Said, Workers, OnTheWay
<1>1. w \in Publishers => By(m) = w /\ PodOf[By(m)] = home
  BY <1>0 DEF Carries, PodOfWorker
<1>2. w \in Pods => w = home /\ OrderInv(w)
  BY <1>0 DEF PodOfWorker, MessageInv
<1>3. ASSUME NEW v \in Workers, Handed(v, c, m)' PROVE FALSE
  <2>1. v # w
    BY <1>0, <1>3 DEF Handed, Offered
  <2>2. job[v].msg = m /\ (Hub[c] \in job[v].hubs \/ c \in job[v].left)
    BY <1>3, <2>1 DEF Handed, Offered
  <2>3. Carries(v) /\ home = PodOfWorker(v)
    BY <2>2, Carrying DEF MessageInv, JobInv
  <2>4. CASE v \in Publishers
    BY <1>0, <1>1, <1>2, <2>1, <2>2, <2>3, <2>4 DEF Carries, PodOfWorker
  <2>5. CASE v \in Pods
    BY <1>0, <1>1, <1>2, <2>1, <2>2, <2>3, <2>5 DEF Carries, PodOfWorker
  <2> QED  BY <1>0, <2>4, <2>5
<1>4. ASSUME Queued(c, m)' PROVE k < m
  <2>1. PICK i \in DOMAIN inbox[home] : inbox[home][i].msg = m /\ inbox[home][i].origin # home
    BY <1>0, <1>4 DEF Queued
  <2>2. inbox[home][i] \in Relays
    BY <1>0, <2>1, ElementOfSeq, LenProperties DEF DataTypes
  <2>3. PodOf[By(m)] # home
    BY <1>0, <2>1, <2>2, Records
  <2> QED  BY <1>0, <1>1, <1>2, <2>1, <2>3 DEF OrderInv
<1>5. ASSUME NEW u \in Publishers, Held(u, c, m)' PROVE k < m
  <2>1. job[u].msg = m /\ PodOf[u] # home /\ u \in Workers
    BY <1>0, <1>5 DEF Held
  <2>2. Busy(u) /\ By(m) = u
    BY <1>0, <2>1, Carrying, Records DEF Carries, MessageInv, Busy
  <2> QED  BY <1>0, <1>1, <1>2, <2>1, <2>2 DEF OrderInv
<1> QED  BY <1>0, <1>3, <1>4, <1>5 DEF OnTheWay

LEMMA WasOnTheWay ==
  ASSUME NEW w \in Workers, NEW c \in Clients, Offered(w, c) PROVE job[w].msg \in OnTheWay(c)
  BY DEF Offered, Carries, OnTheWay, Handed

LEMMA Given ==
  ASSUME DataTypes, NEW w \in Workers, NEW c \in Clients, Offered(w, c),
         seen' = [seen EXCEPT ![c] = Append(@, job[w].msg)]
  PROVE  /\ Len(seen'[c]) = Len(seen[c]) + 1 /\ ToSet(seen'[c]) = ToSet(seen[c]) \cup {job[w].msg}
         /\ \A d \in Clients \ {c} : seen'[d] = seen[d]
<1>1. seen[c] \in Seq(Said) /\ job[w].msg \in Said /\ seen'[c] = Append(seen[c], job[w].msg)
      /\ \A d \in Clients \ {c} : seen'[d] = seen[d]
  BY DEF DataTypes, Offered, Carries
<1> DEFINE s == seen[c]
           t == seen'[c]
<1>2. /\ t \in Seq(Said) /\ Len(t) = Len(s) + 1 /\ t[Len(s) + 1] = job[w].msg
      /\ \A i \in 1 .. Len(s) : t[i] = s[i]
  BY <1>1, AppendProperties
<1>3. DOMAIN s = 1 .. Len(s) /\ DOMAIN t = 1 .. (Len(s) + 1) /\ Len(s) \in Nat
  BY <1>1, <1>2, LenProperties
<1> HIDE DEF s, t
<1>4. ToSet(t) = ToSet(s) \cup {job[w].msg}
  BY <1>2, <1>3 DEF ToSet
<1> QED  BY <1>1, <1>2, <1>4 DEF s, t

LEMMA OnTheWayIsFinite ==
  ASSUME DataTypes, NEW c \in Clients
  PROVE  IsFiniteSet(OnTheWay(c)) /\ Cardinality(OnTheWay(c)) \in Nat
<1>1. Len(posted) \in Int
  BY Records
<1>2. IsFiniteSet(Said)
  BY <1>1, FS_Interval DEF Said
<1>3. OnTheWay(c) \in SUBSET Said
  BY DEF OnTheWay
<1> QED  BY <1>2, <1>3, FS_Subset, FS_CardinalityType

LEMMA OneMore ==
  ASSUME NEW S, NEW x, IsFiniteSet(S), NEW T \in SUBSET (S \cup {x})
  PROVE  IsFiniteSet(T) /\ Cardinality(T) <= Cardinality(S) + 1
<1>1. Cardinality(S) \in Nat
  BY FS_CardinalityType
<1>2. IsFiniteSet(S \cup {x})
  BY FS_AddElement
<1>3. Cardinality(S \cup {x}) = IF x \in S THEN Cardinality(S) ELSE Cardinality(S) + 1
  BY FS_AddElement
<1>4. IsFiniteSet(T) /\ Cardinality(T) <= Cardinality(S \cup {x})
  BY <1>2, FS_Subset
<1>5. Cardinality(T) \in Nat
  BY <1>4, FS_CardinalityType
<1> QED  BY <1>1, <1>3, <1>4, <1>5

LEMMA OneLess ==
  ASSUME NEW S, NEW x \in S, IsFiniteSet(S), NEW T \in SUBSET (S \ {x})
  PROVE  IsFiniteSet(T) /\ Cardinality(T) + 1 <= Cardinality(S)
<1>1. Cardinality(S) \in Nat
  BY FS_CardinalityType
<1>2. IsFiniteSet(S \ {x})
  BY FS_RemoveElement
<1>3. Cardinality(S \ {x}) = Cardinality(S) - 1
  BY FS_RemoveElement
<1>4. IsFiniteSet(T) /\ Cardinality(T) <= Cardinality(S \ {x})
  BY <1>2, FS_Subset
<1>5. Cardinality(T) \in Nat
  BY <1>4, FS_CardinalityType
<1> QED  BY <1>1, <1>3, <1>4, <1>5

LEMMA SeenAlone ==
  ASSUME [Next]_vars, ~ \E w \in Workers : Offer(w)
  PROVE  \/ \E w \in Publishers : \E post \in Posts : Publish(w, post)
         \/ UNCHANGED <<seen, dropped, posted>>
<1>1. ASSUME NEW p \in Pods, Receive(p) PROVE UNCHANGED <<seen, dropped>>
  BY <1>1 DEF Receive
<1>2. ASSUME NEW w \in Workers, Enter(w) \/ Finish(w) PROVE UNCHANGED <<seen, dropped>>
  BY <1>2 DEF Enter, Finish
<1>3. ASSUME NEW p \in Pods, Close(p), UNCHANGED hubVars PROVE UNCHANGED <<seen, dropped>>
  BY <1>3 DEF hubVars
<1>4. ASSUME NEW d \in Clients, Consume(d) PROVE UNCHANGED <<seen, dropped>>
  BY <1>4 DEF Consume
<1> QED  BY <1>1, <1>2, <1>3, <1>4, StepKinds, PostedAlone DEF Quiet

LEMMA ClientStep ==
  ASSUME FlowInv, [Next]_vars, NEW c \in Clients PROVE ClientInv(c)'
<1> DEFINE way == OnTheWay(c)
<1>0. /\ MessageInv /\ ClientInv(c) /\ DataTypes /\ MessageInv' /\ DataTypes'
  BY MessageStep DEF FlowInv, MessageInv
<1>1. /\ IsFiniteSet(way) /\ IsFiniteSet(way') /\ Cardinality(way) \in Nat /\ Cardinality(way') \in Nat
      /\ dropped[c] \in Nat /\ Len(seen[c]) \in Nat /\ Len(posted) \in Nat
      /\ dropped'[c] \in Nat /\ Len(seen'[c]) \in Nat
  <2>1. IsFiniteSet(way) /\ Cardinality(way) \in Nat /\ (IsFiniteSet(way) /\ Cardinality(way) \in Nat)'
    BY <1>0, OnTheWayIsFinite, PTL
  <2> QED  BY <1>0, <2>1, Records, LenProperties DEF DataTypes
<1>2. \A k \in ToSet(seen[c]) : k \in Said
  BY <1>0, ElementOfSeq, LenProperties DEF DataTypes, ToSet
<1> HIDE DEF way
<1>3. ASSUME NEW w \in Publishers, NEW post \in Posts, Publish(w, post) PROVE ClientInv(c)'
  <2> DEFINE n == Len(posted) + 1
  <2>1. /\ UNCHANGED <<seen, dropped>> /\ Len(posted') = n /\ n \in Nat /\ \A m \in Said : m < n /\ By(m)' = By(m)
    BY <1>0, <1>3, Posting DEF Publish, Said
  <2>2. way' \subseteq way \cup {n} /\ way \subseteq Said
    BY <1>0, <1>3, PublishAddsOne DEF way, OnTheWay
  <2> HIDE DEF n
  <2>3. \A m \in way' : \A k \in ToSet(seen'[c]) : By(k)' = By(m)' => k < m
    BY <1>0, <1>2, <2>1, <2>2 DEF ClientInv, way
  <2>4. Cardinality(way') <= Cardinality(way) + 1
    BY <1>1, <2>2, OneMore
  <2>5. dropped'[c] + Len(seen'[c]) + Cardinality(way') <= Len(posted')
    BY <1>0, <1>1, <2>1, <2>4 DEF ClientInv, way, n
  <2> QED  BY <2>3, <2>5 DEF ClientInv, way
<1>4. ASSUME UNCHANGED <<seen, dropped, posted>> PROVE ClientInv(c)'
  <2>1. way' \subseteq way
    BY <1>0, <1>4, NothingAdded DEF way
  <2>2. Cardinality(way') <= Cardinality(way)
    BY <1>1, <2>1, FS_Subset
  <2>3. \A m \in way' : \A k \in ToSet(seen'[c]) : By(k)' = By(m)' => k < m
    BY <1>0, <1>4, <2>1 DEF ClientInv, way, By
  <2>4. dropped'[c] + Len(seen'[c]) + Cardinality(way') <= Len(posted')
    BY <1>0, <1>1, <1>4, <2>2 DEF ClientInv, way
  <2> QED  BY <2>3, <2>4 DEF ClientInv, way
<1>5. ASSUME UNCHANGED posted, NEW w \in Workers, Offer(w) PROVE ClientInv(c)'
  <2>1. PICK d \in Clients : Offered(w, d)
    BY <1>0, <1>5, Offering
  <2> DEFINE k == job[w].msg
  <2>2. way' \subseteq way
    BY <1>0, <1>5, NothingAdded DEF way
  <2>3. CASE d # c
    <3>1. seen'[c] = seen[c] /\ dropped'[c] = dropped[c]
      BY <1>0, <2>1, <2>3 DEF Offered, DataTypes
    <3>2. Cardinality(way') <= Cardinality(way)
      BY <1>1, <2>2, FS_Subset
    <3>3. \A m \in way' : \A l \in ToSet(seen'[c]) : By(l)' = By(m)' => l < m
      BY <1>0, <1>5, <2>2, <3>1 DEF ClientInv, way, By
    <3>4. dropped'[c] + Len(seen'[c]) + Cardinality(way') <= Len(posted')
      BY <1>0, <1>1, <1>5, <3>1, <3>2 DEF ClientInv, way
    <3> QED  BY <3>3, <3>4 DEF ClientInv, way
  <2>4. CASE d = c
    <3>1. k \in way /\ k \in Nat
      BY <1>0, <2>1, <2>4, WasOnTheWay, Records DEF way, OnTheWay
    <3>2. \A m \in way' : By(m) = By(k) => k < m
      BY <1>0, <2>1, <2>4, NoOvertaking DEF way
    <3> HIDE DEF k
    <3>3. way' \subseteq way \ {k}
      BY <2>2, <3>1, <3>2
    <3>4. Cardinality(way') + 1 <= Cardinality(way)
      BY <1>1, <3>1, <3>3, OneLess
    <3>5. CASE seen' = [seen EXCEPT ![c] = Append(@, k)] /\ UNCHANGED dropped
      <4>1. Len(seen'[c]) = Len(seen[c]) + 1 /\ ToSet(seen'[c]) = ToSet(seen[c]) \cup {k}
        BY <1>0, <2>1, <2>4, <3>5, Given DEF k
      <4>2. \A m \in way' : \A l \in ToSet(seen'[c]) : By(l)' = By(m)' => l < m
        BY <1>0, <1>5, <2>2, <3>2, <4>1 DEF ClientInv, way, By
      <4>3. dropped'[c] + Len(seen'[c]) + Cardinality(way') <= Len(posted')
        BY <1>0, <1>1, <1>5, <3>4, <3>5, <4>1 DEF ClientInv, way
      <4> QED  BY <4>2, <4>3 DEF ClientInv, way
    <3>6. CASE dropped' = [dropped EXCEPT ![c] = @ + 1] /\ UNCHANGED seen
      <4>1. dropped'[c] = dropped[c] + 1
        BY <1>0, <3>6 DEF DataTypes
      <4>2. \A m \in way' : \A l \in ToSet(seen'[c]) : By(l)' = By(m)' => l < m
        BY <1>0, <1>5, <2>2, <3>6 DEF ClientInv, way, By
      <4>3. dropped'[c] + Len(seen'[c]) + Cardinality(way') <= Len(posted')
        BY <1>0, <1>1, <1>5, <3>4, <3>6, <4>1 DEF ClientInv, way
      <4> QED  BY <4>2, <4>3 DEF ClientInv, way
    <3> QED  BY <2>1, <2>4, <3>5, <3>6 DEF Offered, k
  <2> QED  BY <2>3, <2>4
<1> QED  BY <1>3, <1>4, <1>5, PostedAlone, SeenAlone

LEMMA FlowInit == Init => FlowInv
<1> SUFFICES ASSUME Init, NEW c \in Clients PROVE ClientInv(c)
  BY MessageInit DEF FlowInv
<1>1. DataTypes
  BY MessageInit DEF MessageInv
<1>2. seen[c] = <<>> /\ dropped[c] = 0 /\ posted = <<>> /\ Len(<<>>) = 0 /\ DOMAIN <<>> = {}
  BY EmptySeq, LenProperties DEF Init, HubInit
<1>3. Said = {} /\ OnTheWay(c) = {} /\ Cardinality({}) = 0
  BY <1>2, FS_EmptySet DEF Said, OnTheWay
<1> QED  BY <1>2, <1>3 DEF ClientInv

LEMMA FlowStep == FlowInv /\ [Next]_vars => FlowInv'
  BY MessageStep, ClientStep DEF FlowInv

\* The inductive invariant behind the theorems on delivery: what a client may
\* still be offered, over whichever way (local dispatch, relay, inbox), comes
\* after what it was given of the same publisher.
THEOREM FlowOfMessages == Spec => []FlowInv
  BY FlowInit, FlowStep, PTL DEF Spec

-----------------------------------------------------------------------------
\* A publisher goes by both names as given, the NATS callback by what the
\* subject has made of them; for a name it leaves alone that is the same.
LEMMA OfferedToAudience ==
  ASSUME MessageInv, NEW w \in Workers, NEW c \in Clients, Offered(w, c)
  PROVE  InAudience(c, posted[job[w].msg])
<1> DEFINE post == posted[job[w].msg]
<1>1. Carries(w) /\ Tenant[c] = job[w].tenant /\ HoldsScope(c, job[w].scope)
  BY DEF Offered, MessageInv, JobInv, Listens
<1>2. CASE w \in Publishers
  <2>1. job[w].tenant = post.tenant /\ job[w].scope = post.scope
    BY <1>1, <1>2 DEF Carries
  <2> QED  BY <1>1, <2>1 DEF InAudience
<1>3. CASE w \in Pods
  <2>1. /\ job[w].tenant = fromToken(toToken(post.tenant))
        /\ job[w].scope = fromToken(toToken(post.scope))
    BY <1>1, <1>3 DEF Carries
  <2> QED  BY <1>1, <2>1 DEF InAudience, Plain
<1> QED  BY <1>2, <1>3 DEF Workers

\* FanoutHub over Broadcaster keeps the promise of Multicast: at most once, to
\* the audience only, in the order of each publisher, whatever connects, leaves,
\* is lost or closed (Publish, the NATS callback and its origin check, deliver).
THEOREM HubImplementsMulticast == Spec => ImplementsMulticast
<1>1. Init => Promise!Init
  BY DEF Init, HubInit, Promise!Init
<1>2. FlowInv /\ [Next]_vars => [Promise!Next]_Promise!vars
  <2> SUFFICES ASSUME FlowInv, [Next]_vars PROVE [Promise!Next]_Promise!vars
    OBVIOUS
  <2>0. MessageInv /\ DataTypes
    BY DEF FlowInv, MessageInv
  <2>1. ASSUME NEW w \in Publishers, NEW post \in Posts, Publish(w, post) PROVE Promise!Post
    BY <2>1 DEF Publish, Promise!Post
  <2>2. ASSUME UNCHANGED posted, NEW w \in Workers, Offer(w)
        PROVE  [Promise!Next]_Promise!vars
    <3>1. PICK c \in Clients : Offered(w, c)
      BY <2>0, <2>2, Offering
    <3> DEFINE m == job[w].msg
    <3>2. CASE UNCHANGED seen
      BY <2>2, <3>2 DEF Promise!vars
    <3>3. CASE seen' = [seen EXCEPT ![c] = Append(@, m)]
      <4>1. m \in DOMAIN posted /\ m \in OnTheWay(c)
        BY <2>0, <3>1, WasOnTheWay, LenProperties DEF OnTheWay, Said, DataTypes
      <4>2. InAudience(c, posted[m])
        BY <2>0, <3>1, OfferedToAudience DEF MessageInv
      <4>3. \A k \in ToSet(seen[c]) : posted[k].by = posted[m].by => k < m
        BY <4>1 DEF FlowInv, ClientInv, By
      <4>4. Promise!Deliver(c, m)
        BY <2>2, <3>3, <4>2, <4>3 DEF Promise!Deliver, Promise!ToSet, ToSet
      <4> QED  BY <4>1, <4>4 DEF Promise!Next
    <3> QED  BY <3>1, <3>2, <3>3 DEF Offered
  <2>3. ASSUME UNCHANGED <<seen, posted>> PROVE [Promise!Next]_Promise!vars
    BY <2>3 DEF Promise!vars
  <2> QED  BY <2>0, <2>1, <2>2, <2>3, SeenAlone, PostedAlone DEF Promise!Next
<1> QED  BY <1>1, <1>2, FlowOfMessages, PTL DEF Spec, ImplementsMulticast, Promise!Spec

\* Every post so far goes to a tenant whose name survives the subject, and what
\* a client was given was published to its own tenant.
ApartInv ==
  /\ \A m \in DOMAIN posted : Plain(posted[m].tenant)
  /\ NeverAcrossTenants

\* "Never across tenants" (FanoutHub) holds on every pod as long as the tenants
\* in use have names that toToken and fromToken leave alone, as UUIDs are, and
\* whatever becomes of the scopes.
THEOREM TenantsStayApart ==
  ASSUME \A post \in Posts : Plain(post.tenant)
  PROVE  Spec => []NeverAcrossTenants
<1>1. Init => ApartInv
  <2> SUFFICES ASSUME Init PROVE ApartInv
    OBVIOUS
  <2>1. posted = <<>> /\ DOMAIN <<>> = {} /\ ToSet(<<>>) = {}
    BY EmptySeq, LenProperties DEF Init, HubInit, ToSet
  <2>2. \A c \in Clients : seen[c] = <<>>
    BY DEF Init, HubInit
  <2> QED  BY <2>1, <2>2 DEF ApartInv, NeverAcrossTenants
<1>2. FlowInv /\ ApartInv /\ [Next]_vars => ApartInv'
  <2> SUFFICES ASSUME FlowInv, ApartInv, [Next]_vars PROVE ApartInv'
    OBVIOUS
  <2>0. MessageInv /\ DataTypes
    BY DEF FlowInv, MessageInv
  <2>1. \A c \in Clients : ToSet(seen[c]) \subseteq DOMAIN posted
    BY <2>0 DEF DataTypes, ToSet, Said
  <2>2. ASSUME NEW w \in Publishers, NEW post \in Posts, Publish(w, post) PROVE ApartInv'
    <3>1. seen' = seen /\ posted' = Append(posted, [by |-> w, tenant |-> post.tenant, scope |-> post.scope])
      BY <2>2 DEF Publish
    <3>2. \A m \in DOMAIN posted : m \in DOMAIN posted' /\ posted'[m] = posted[m]
      BY <2>0, <3>1, AppendProperties DEF DataTypes
    <3>3. \A m \in DOMAIN posted' \ DOMAIN posted : posted'[m].tenant = post.tenant
      BY <2>0, <3>1, AppendProperties, LenProperties DEF DataTypes
    <3>4. \A m \in DOMAIN posted' : Plain(posted'[m].tenant)
      BY <3>2, <3>3 DEF ApartInv
    <3> QED  BY <2>1, <3>1, <3>2, <3>4 DEF ApartInv, NeverAcrossTenants, Plain
  <2>3. ASSUME UNCHANGED posted, NEW w \in Workers, Offer(w) PROVE ApartInv'
    <3>1. PICK c \in Clients : Offered(w, c)
      BY <2>0, <2>3, Offering
    <3> DEFINE m == job[w].msg
    <3>2. CASE UNCHANGED seen
      BY <2>3, <3>2 DEF ApartInv, NeverAcrossTenants, Plain
    <3>3. CASE seen' = [seen EXCEPT ![c] = Append(@, m)]
      <4>1. m \in DOMAIN posted
        BY <2>0, <3>1, LenProperties DEF Offered, Carries, Said, DataTypes
      <4>2. posted[m].tenant = Tenant[c]
        BY <2>0, <3>1, <4>1, OfferedToAudience DEF InAudience, ApartInv
      <4> QED  BY <2>0, <2>3, <3>1, <3>3, <4>2, Given DEF ApartInv, NeverAcrossTenants, Plain
    <3> QED  BY <3>1, <3>2, <3>3 DEF Offered
  <2>4. ASSUME UNCHANGED <<seen, posted>> PROVE ApartInv'
    BY <2>4 DEF ApartInv, NeverAcrossTenants, Plain
  <2> QED  BY <2>2, <2>3, <2>4, SeenAlone, PostedAlone
<1>3. ApartInv => NeverAcrossTenants
  BY DEF ApartInv
<1> QED  BY <1>1, <1>2, <1>3, FlowOfMessages, PTL DEF Spec

-----------------------------------------------------------------------------
(* The connections that Pump serves.                                        *)

PumpTypes ==
  /\ writer \in [Pumped -> {"off", "select", "write", "ended"}]
  /\ frame \in [Pumped -> Hello .. Reply]
  /\ written \in [Pumped -> Seq(Hello .. MaxPosts)]
  /\ reader \in [Pumped -> {"off", "read", "reply", "ended"}]
  /\ replies \in [Pumped -> 0 .. MaxReplies]
  /\ cancelled \subseteq Pumped /\ gone \subseteq Pumped

\* What is written but for the hello frame.
Messages(s) == IF s # <<>> /\ s[1] = Hello THEN Tail(s) ELSE s

\* The write loop of c has written all that it took out of the channel, but for
\* the frame in its hands; hello is written before anything is taken.
WriteInv(c) ==
  LET n == Len(Messages(written[c]))
      taken == Len(seen[c]) - unread[c]
  IN  /\ n <= taken /\ \A i \in 1 .. n : Messages(written[c])[i] = seen[c][i]
      /\ writer[c] = "off" => frame[c] = Hello /\ written[c] = <<>> /\ taken = 0
      /\ writer[c] = "select" => taken = n
      /\ writer[c] = "write" =>
           \/ frame[c] = Hello /\ written[c] = <<>> /\ taken = 0
           \/ frame[c] = Reply /\ taken = n
           \/ frame[c] \in 1 .. MaxPosts /\ taken = n + 1 /\ frame[c] = seen[c][n + 1]

\* A connection that Pump has started on is or was in the registry.
StartedInv == \A c \in Pumped : writer[c] = "off" \/ c \in open \cup shut

PumpInv == FlowInv /\ PumpTypes /\ StartedInv /\ \A c \in Pumped : WriteInv(c)

LEMMA Bounds == MaxPosts \in Nat /\ Hello = 0 /\ Reply = MaxPosts + 1 /\ MaxReplies \in Nat /\ Pumped \subseteq Clients
  BY FanoutHubAssumption, PumpAssumption DEF Hello, Reply

\* The oldest message in a channel.
LEMMA TakingOut ==
  ASSUME DataTypes, NEW c \in Clients, unread[c] > 0
  PROVE  LET n == Len(seen[c]) - unread[c] + 1
         IN  n \in 1 .. Len(seen[c]) /\ seen[c][n] \in 1 .. MaxPosts
<1>1. seen[c] \in Seq(Said) /\ unread[c] \in Nat /\ unread[c] <= Len(seen[c]) /\ Len(posted) <= MaxPosts
      /\ Len(seen[c]) \in Nat /\ Len(posted) \in Nat
  BY Records, LenProperties DEF DataTypes
<1>2. Len(seen[c]) - unread[c] + 1 \in 1 .. Len(seen[c])
  BY <1>1
<1>3. seen[c][Len(seen[c]) - unread[c] + 1] \in Said
  BY <1>1, <1>2, ElementOfSeq
<1> QED  BY <1>1, <1>2, <1>3, Bounds DEF Said

LEMMA PumpTypesStep == ASSUME PumpInv, [Next]_vars PROVE PumpTypes'
<1> USE DEF PumpTypes
<1>0. DataTypes /\ PumpTypes
  BY DEF PumpInv, FlowInv, MessageInv
<1>1. ASSUME NEW c \in Pumped, Start(c) PROVE PumpTypes'
  BY <1>0, <1>1 DEF Start
<1>2. ASSUME NEW c \in Pumped, Write(c) PROVE PumpTypes'
  <2>1. /\ writer' = [writer EXCEPT ![c] = "select"] /\ UNCHANGED <<frame, reader, replies, cancelled, gone>>
        /\ written' = [written EXCEPT ![c] = IF frame[c] = Reply THEN @ ELSE Append(@, frame[c])]
    BY <1>2 DEF Write
  <2>2. frame[c] # Reply => Append(written[c], frame[c]) \in Seq(Hello .. MaxPosts)
    <3>1. frame[c] # Reply => frame[c] \in Hello .. MaxPosts
      BY <1>0, <1>2, Bounds
    <3> QED  BY <1>0, <1>2, <3>1, AppendProperties
  <2> QED  BY <1>0, <2>1, <2>2
<1>3. ASSUME NEW c \in Pumped, End(c) PROVE PumpTypes'
  BY <1>0, <1>3 DEF End
<1>4. ASSUME NEW c \in Pumped, TakeMessage(c) PROVE PumpTypes'
  <2>1. seen[c][Len(seen[c]) - unread[c] + 1] \in Hello .. Reply
    BY <1>0, <1>4, TakingOut, Bounds DEF TakeMessage
  <2> QED  BY <1>0, <1>4, <2>1 DEF TakeMessage
<1>5. ASSUME NEW c \in Pumped, TakeReply(c) PROVE PumpTypes'
  <2>1. replies[c] - 1 \in 0 .. MaxReplies /\ Reply \in Hello .. Reply
    BY <1>0, <1>5, Bounds DEF TakeReply
  <2> QED  BY <1>0, <1>5, <2>1 DEF TakeReply
<1>6. ASSUME NEW c \in Pumped, Reader(c) PROVE PumpTypes'
  <2>1. ASSUME QueueReply(c) PROVE PumpTypes'
    <3>1. (IF replies[c] < MaxReplies THEN replies[c] + 1 ELSE replies[c]) \in 0 .. MaxReplies
      BY <1>0, Bounds
    <3> QED  BY <1>0, <2>1, <3>1 DEF QueueReply
  <2> QED  BY <1>0, <1>6, <2>1 DEF Reader, ReadFrame, ReadFails
<1>7. ASSUME NEW c \in Pumped, Leaves(c) \/ Cancel(c) PROVE PumpTypes'
  BY <1>0, <1>7 DEF Leaves, Cancel
<1>8. ASSUME UNCHANGED pumpVars PROVE PumpTypes'
  BY <1>0, <1>8 DEF pumpVars
<1> QED  BY <1>1, <1>2, <1>3, <1>4, <1>5, <1>6, <1>7, <1>8
         DEF Next, Writer, WriteFails, Done, ChannelClosed, PingFails, vars

\* What is written ends with the frame just written, unless it is hello.
LEMMA MessagesGrow ==
  ASSUME NEW s \in Seq(Hello .. MaxPosts), NEW k \in Hello .. MaxPosts
  PROVE  /\ Messages(s) \in Seq(Hello .. MaxPosts) /\ Len(Messages(s)) \in Nat
         /\ s = <<>> => Len(Messages(s)) = 0
         /\ s = <<>> /\ k = Hello => Len(Messages(Append(s, k))) = 0
         /\ k # Hello =>
              /\ Len(Messages(Append(s, k))) = Len(Messages(s)) + 1
              /\ Messages(Append(s, k))[Len(Messages(s)) + 1] = k
              /\ \A i \in 1 .. Len(Messages(s)) : Messages(Append(s, k))[i] = Messages(s)[i]
<1> DEFINE S == Hello .. MaxPosts
           t == Append(s, k)
<1>1. /\ t \in Seq(S) /\ t # <<>> /\ Len(t) = Len(s) + 1 /\ Len(s) \in Nat
      /\ t[Len(s) + 1] = k /\ \A i \in 1 .. Len(s) : t[i] = s[i]
  BY AppendProperties, LenProperties
<1>2. /\ Tail(t) \in Seq(S) /\ Len(Tail(t)) = Len(s)
      /\ \A i \in 1 .. Len(Tail(t)) : Tail(t)[i] = t[i + 1]
  BY <1>1, HeadTailProperties
<1>3. CASE s = <<>>
  <2>1. Messages(s) = s /\ Len(s) = 0
    BY <1>3, EmptySeq DEF Messages
  <2>2. k = Hello => Messages(t) = Tail(t)
    BY <1>1, <2>1 DEF Messages
  <2>3. k # Hello => Messages(t) = t
    BY <1>1, <2>1 DEF Messages
  <2> QED  BY <1>1, <1>2, <1>3, <2>1, <2>2, <2>3
<1>4. CASE s # <<>>
  <2>1. /\ Tail(s) \in Seq(S) /\ Len(Tail(s)) = Len(s) - 1 /\ Len(s) \in Nat \ {0}
        /\ \A i \in 1 .. Len(Tail(s)) : Tail(s)[i] = s[i + 1]
    BY <1>4, HeadTailProperties, EmptySeq
  <2>2. t[1] = s[1]
    BY <1>1, <2>1
  <2>3. CASE s[1] = Hello
    <3>1. Messages(s) = Tail(s) /\ Messages(t) = Tail(t)
      BY <1>1, <1>4, <2>2, <2>3 DEF Messages
    <3> QED  BY <1>1, <1>2, <1>4, <2>1, <3>1
  <2>4. CASE s[1] # Hello
    <3>1. Messages(s) = s /\ Messages(t) = t
      BY <1>1, <1>4, <2>2, <2>4 DEF Messages
    <3> QED  BY <1>1, <1>4, <3>1
  <2> QED  BY <2>3, <2>4
<1> QED  BY <1>3, <1>4

\* How a step looks to the write loop of c.
LEMMA ChannelStep ==
  ASSUME MessageInv, [Next]_vars, NEW c \in Pumped
  PROVE  \/ UNCHANGED <<seen, unread>>
         \/ /\ UNCHANGED pumpVars
            /\ seen'[c] \in Seq(Said) /\ unread'[c] \in Nat /\ unread'[c] = Len(seen'[c]) - (Len(seen[c]) - unread[c])
            /\ \A i \in 1 .. Len(seen[c]) : seen'[c][i] = seen[c][i]
            /\ Len(seen'[c]) >= Len(seen[c])
         \/ \E d \in Pumped : TakeMessage(d)
<1>0. DataTypes /\ Pumped \subseteq Clients /\ c \in Clients
  BY Bounds DEF MessageInv
<1>1. seen[c] \in Seq(Said) /\ Len(seen[c]) \in Nat /\ unread[c] \in Nat
  BY <1>0, LenProperties DEF DataTypes
<1>2. ASSUME NEW w \in Workers, Offer(w), UNCHANGED pumpVars
      PROVE  /\ seen'[c] \in Seq(Said) /\ unread'[c] \in Nat /\ unread'[c] = Len(seen'[c]) - (Len(seen[c]) - unread[c])
             /\ \A i \in 1 .. Len(seen[c]) : seen'[c][i] = seen[c][i]
             /\ Len(seen'[c]) >= Len(seen[c])
  <2>1. PICK d \in Clients : Offered(w, d)
    BY <1>2, Offering
  <2>2. CASE /\ unread' = [unread EXCEPT ![d] = @ + 1]
             /\ seen' = [seen EXCEPT ![d] = Append(@, job[w].msg)] /\ d = c
    <3>1. seen'[c] = Append(seen[c], job[w].msg) /\ unread'[c] = unread[c] + 1 /\ job[w].msg \in Said
      BY <1>0, <2>1, <2>2 DEF DataTypes, Offered, Carries
    <3>2. /\ seen'[c] \in Seq(Said) /\ Len(seen'[c]) = Len(seen[c]) + 1
          /\ \A i \in 1 .. Len(seen[c]) : seen'[c][i] = seen[c][i]
      BY <1>1, <3>1, AppendProperties
    <3> QED  BY <1>1, <3>1, <3>2
  <2>3. CASE seen'[c] = seen[c] /\ unread'[c] = unread[c]
    BY <1>1, <2>3
  <2> QED  BY <1>0, <2>1, <2>2, <2>3 DEF Offered, DataTypes
<1>3. ASSUME NEW d \in Clients \ Pumped, Consume(d), UNCHANGED pumpVars
      PROVE  seen'[c] = seen[c] /\ unread'[c] = unread[c]
  BY <1>0, <1>3 DEF Consume, DataTypes
<1>4. CASE HubNext /\ UNCHANGED pumpVars
  <2>1. ASSUME NEW w \in Workers, Enter(w) \/ Finish(w) PROVE UNCHANGED <<seen, unread>>
    BY <2>1 DEF Enter, Finish
  <2>2. ASSUME NEW w \in Publishers, NEW post \in Posts, Publish(w, post) PROVE UNCHANGED <<seen, unread>>
    BY <2>2 DEF Publish
  <2>3. ASSUME NEW p \in Pods, Receive(p) PROVE UNCHANGED <<seen, unread>>
    BY <2>3 DEF Receive
  <2>4. ASSUME NEW d \in Clients, Unsubscribe(d) PROVE UNCHANGED <<seen, unread>>
    BY <2>4 DEF Unsubscribe
  <2>5. ASSUME Manage PROVE UNCHANGED <<seen, unread>>
    BY <2>5 DEF Manage, hubVars
  <2> QED  BY <1>2, <1>4, <2>1, <2>2, <2>3, <2>4, <2>5 DEF HubNext, Deliver
<1>5. ASSUME NEW d, Subscribe(d) PROVE UNCHANGED <<seen, unread>>
  BY <1>5 DEF Subscribe
<1>6. ASSUME NEW d \in Pumped,
             \/ Start(d) \/ Write(d) \/ WriteFails(d) \/ Done(d) \/ ChannelClosed(d) \/ TakeReply(d)
             \/ PingFails(d) \/ Reader(d) \/ Leaves(d) \/ Cancel(d)
      PROVE  UNCHANGED <<seen, unread>>
  BY <1>5, <1>6 DEF Start, Write, WriteFails, End, Done, ChannelClosed, TakeReply, PingFails,
                    Reader, ReadFrame, QueueReply, ReadFails, Leaves, Cancel, hubVars
<1>7. CASE UNCHANGED vars
  BY <1>7 DEF vars, hubVars
<1>8. ASSUME seen'[c] = seen[c] /\ unread'[c] = unread[c]
      PROVE  /\ seen'[c] \in Seq(Said) /\ unread'[c] \in Nat /\ unread'[c] = Len(seen'[c]) - (Len(seen[c]) - unread[c])
             /\ \A i \in 1 .. Len(seen[c]) : seen'[c][i] = seen[c][i]
             /\ Len(seen'[c]) >= Len(seen[c])
  BY <1>1, <1>8
<1> QED  BY <1>3, <1>4, <1>5, <1>6, <1>7, <1>8 DEF Next, Writer

LEMMA WriteStep ==
  ASSUME PumpInv, [Next]_vars, NEW c \in Pumped PROVE WriteInv(c)'
<1>0. /\ MessageInv /\ DataTypes /\ PumpTypes /\ WriteInv(c) /\ c \in Clients
      /\ MaxPosts \in Nat /\ Hello = 0 /\ Reply = MaxPosts + 1
  BY Bounds DEF PumpInv, FlowInv, MessageInv
<1>1. /\ seen[c] \in Seq(Said) /\ Len(seen[c]) \in Nat /\ unread[c] \in Nat
      /\ written[c] \in Seq(Hello .. MaxPosts) /\ Len(Messages(written[c])) \in Nat
      /\ (written[c] = <<>> => Len(Messages(written[c])) = 0)
  <2>1. Hello \in Hello .. MaxPosts
    BY <1>0
  <2> QED  BY <1>0, <2>1, LenProperties, MessagesGrow DEF DataTypes, PumpTypes
<1>2. ASSUME UNCHANGED <<seen, unread, writer, frame, written>> PROVE WriteInv(c)'
  BY <1>0, <1>2 DEF WriteInv
<1>3. ASSUME UNCHANGED pumpVars,
             unread'[c] = Len(seen'[c]) - (Len(seen[c]) - unread[c]), unread'[c] \in Nat,
             seen'[c] \in Seq(Said), \A i \in 1 .. Len(seen[c]) : seen'[c][i] = seen[c][i],
             Len(seen'[c]) >= Len(seen[c])
      PROVE  WriteInv(c)'
  <2> DEFINE n == Len(Messages(written[c]))
             taken == Len(seen[c]) - unread[c]
  <2>1. Len(seen'[c]) \in Nat
    BY <1>3, LenProperties
  <2>2. Len(seen'[c]) - unread'[c] = taken
    BY <1>1, <1>3, <2>1
  <2>3. UNCHANGED <<writer, frame, written>>
    BY <1>3 DEF pumpVars
  <2>4. taken <= Len(seen[c]) /\ taken \in Int /\ n \in Nat
    BY <1>1
  <2>5. \A i \in 1 .. n : n <= taken => seen'[c][i] = seen[c][i]
    BY <1>1, <1>3, <2>4
  <2>6. taken = n + 1 => seen'[c][n + 1] = seen[c][n + 1]
    BY <1>1, <1>3, <2>4
  <2> QED  BY <1>0, <2>2, <2>3, <2>4, <2>5, <2>6 DEF WriteInv
<1>4. ASSUME NEW d \in Pumped, TakeMessage(d) PROVE WriteInv(c)'
  <2>1. /\ UNCHANGED <<seen, written>> /\ unread' = [unread EXCEPT ![d] = @ - 1] /\ unread[d] > 0
        /\ frame' = [frame EXCEPT ![d] = seen[d][Len(seen[d]) - unread[d] + 1]]
        /\ writer' = [writer EXCEPT ![d] = "write"] /\ writer[d] = "select"
    BY <1>4 DEF TakeMessage, Consume
  <2>2. CASE d # c
    <3>1. UNCHANGED <<seen, written>> /\ unread'[c] = unread[c] /\ frame'[c] = frame[c] /\ writer'[c] = writer[c]
      BY <1>0, <2>1, <2>2 DEF DataTypes, PumpTypes
    <3> QED  BY <1>0, <3>1 DEF WriteInv
  <2>3. CASE d = c
    <3> DEFINE n == Len(Messages(written[c]))
               taken == Len(seen[c]) - unread[c]
    <3>1. /\ unread'[c] = unread[c] - 1 /\ frame'[c] = seen[c][taken + 1] /\ writer'[c] = "write"
          /\ taken = n
      BY <1>0, <2>1, <2>3 DEF DataTypes, PumpTypes, WriteInv
    <3>2. frame'[c] \in 1 .. MaxPosts
      BY <1>0, <2>1, <2>3, <3>1, TakingOut
    <3>3. Len(seen'[c]) - unread'[c] = n + 1 /\ UNCHANGED <<seen, written>>
      BY <1>1, <2>1, <3>1
    <3> QED  BY <1>0, <1>1, <3>1, <3>2, <3>3 DEF WriteInv
  <2> QED  BY <2>2, <2>3
<1>5. ASSUME UNCHANGED <<seen, unread>>, NEW d \in Pumped, Write(d) PROVE WriteInv(c)'
  <2>1. /\ writer[d] = "write" /\ writer' = [writer EXCEPT ![d] = "select"] /\ UNCHANGED frame
        /\ written' = [written EXCEPT ![d] = IF frame[d] = Reply THEN @ ELSE Append(@, frame[d])]
    BY <1>5 DEF Write
  <2>2. CASE d # c
    <3>1. UNCHANGED <<seen, unread, frame>> /\ written'[c] = written[c] /\ writer'[c] = writer[c]
      BY <1>0, <1>5, <2>1, <2>2 DEF PumpTypes
    <3> QED  BY <1>0, <3>1 DEF WriteInv
  <2>3. CASE d = c
    <3> DEFINE n == Len(Messages(written[c]))
               taken == Len(seen[c]) - unread[c]
    <3>1. writer'[c] = "select" /\ UNCHANGED <<seen, unread>> /\ writer[c] = "write"
          /\ written'[c] = IF frame[c] = Reply THEN written[c] ELSE Append(written[c], frame[c])
      BY <1>0, <1>5, <2>1, <2>3 DEF PumpTypes
    <3>2. CASE frame[c] = Reply
      <4>1. written'[c] = written[c] /\ taken = n
        BY <1>0, <3>1, <3>2 DEF WriteInv
      <4> QED  BY <1>0, <3>1, <4>1 DEF WriteInv
    <3>3. CASE frame[c] = Hello
      <4>1. written'[c] = Append(written[c], frame[c]) /\ written[c] = <<>> /\ taken = 0
        BY <1>0, <3>1, <3>3 DEF WriteInv
      <4>2. Len(Messages(written'[c])) = 0
        <5>1. Hello \in Hello .. MaxPosts
          BY <1>0
        <5>2. \A s \in Seq(Hello .. MaxPosts) : s = <<>> => Len(Messages(Append(s, Hello))) = 0
          BY <5>1, MessagesGrow
        <5> QED  BY <1>1, <3>3, <4>1, <5>2
      <4> QED  BY <1>0, <3>1, <4>1, <4>2 DEF WriteInv
    <3>4. CASE frame[c] \in 1 .. MaxPosts
      <4>1. written'[c] = Append(written[c], frame[c]) /\ taken = n + 1 /\ frame[c] = seen[c][n + 1]
        BY <1>0, <3>1, <3>4 DEF WriteInv
      <4>2. /\ Len(Messages(written'[c])) = n + 1 /\ Messages(written'[c])[n + 1] = frame[c]
            /\ \A i \in 1 .. n : Messages(written'[c])[i] = Messages(written[c])[i]
        <5>1. frame[c] \in Hello .. MaxPosts /\ frame[c] # Hello
          BY <1>0, <3>4
        <5> QED  BY <1>1, <4>1, <5>1, MessagesGrow
      <4>3. /\ n \in Nat /\ \A i \in 1 .. n : Messages(written[c])[i] = seen[c][i]
        BY <1>0, <1>1 DEF WriteInv
      <4> HIDE DEF n
      <4>4. \A i \in 1 .. (n + 1) : i \in 1 .. n \/ i = n + 1
        BY <4>3
      <4>5. \A i \in 1 .. (n + 1) : Messages(written'[c])[i] = seen[c][i]
        BY <4>1, <4>2, <4>3, <4>4
      <4> QED  BY <1>0, <3>1, <4>1, <4>2, <4>3, <4>5 DEF WriteInv
    <3> QED  BY <1>0, <3>1, <3>2, <3>3, <3>4 DEF PumpTypes, WriteInv
  <2> QED  BY <2>2, <2>3
<1>6. ASSUME UNCHANGED <<seen, unread>>, NEW d \in Pumped, Start(d) PROVE WriteInv(c)'
  <2>1. /\ UNCHANGED <<frame, written>>
        /\ \E first \in {"write", "select"} : writer' = [writer EXCEPT ![d] = first]
    BY <1>6 DEF Start
  <2>2. CASE d # c
    <3>1. writer'[c] = writer[c]
      BY <1>0, <2>1, <2>2 DEF PumpTypes
    <3> QED  BY <1>0, <1>6, <2>1, <3>1 DEF WriteInv
  <2>3. CASE d = c
    <3>1. writer[c] = "off" /\ writer'[c] \in {"write", "select"}
      BY <1>0, <1>6, <2>1, <2>3 DEF Start, Subscribe, PumpInv, StartedInv, PumpTypes
    <3> QED  BY <1>0, <1>1, <1>6, <2>1, <3>1 DEF WriteInv
  <2> QED  BY <2>2, <2>3
<1>7. ASSUME UNCHANGED <<seen, unread>>, NEW d \in Pumped, End(d) PROVE WriteInv(c)'
  <2>1. UNCHANGED <<frame, written>> /\ (writer'[c] = writer[c] \/ writer'[c] = "ended")
    BY <1>0, <1>7 DEF End, PumpTypes
  <2> QED  BY <1>0, <1>7, <2>1 DEF WriteInv
<1>8. ASSUME UNCHANGED <<seen, unread>>, NEW d \in Pumped, TakeReply(d) PROVE WriteInv(c)'
  <2>1. UNCHANGED written
    BY <1>8 DEF TakeReply
  <2>2. CASE d # c
    <3>1. frame'[c] = frame[c] /\ writer'[c] = writer[c]
      BY <1>0, <1>8, <2>2 DEF TakeReply, PumpTypes
    <3> QED  BY <1>0, <1>8, <2>1, <3>1 DEF WriteInv
  <2>3. CASE d = c
    <3>1. frame'[c] = Reply /\ writer'[c] = "write" /\ writer[c] = "select"
      BY <1>0, <1>8, <2>3 DEF TakeReply, PumpTypes
    <3> QED  BY <1>0, <1>8, <2>1, <3>1 DEF WriteInv
  <2> QED  BY <2>2, <2>3
<1>9. ASSUME UNCHANGED <<seen, unread>> PROVE WriteInv(c)'
  <2>1. ASSUME NEW d \in Pumped, Reader(d) \/ Leaves(d) \/ Cancel(d) PROVE UNCHANGED <<writer, frame, written>>
    BY <2>1 DEF Reader, ReadFrame, QueueReply, ReadFails, Leaves, Cancel
  <2>2. ASSUME UNCHANGED pumpVars PROVE UNCHANGED <<writer, frame, written>>
    BY <2>2 DEF pumpVars
  <2> QED  BY <1>2, <1>4, <1>5, <1>6, <1>7, <1>8, <1>9, <2>1, <2>2
           DEF Next, Writer, WriteFails, Done, ChannelClosed, PingFails, vars
<1> QED  BY <1>0, <1>3, <1>4, <1>9, ChannelStep

LEMMA StartedStep == ASSUME PumpInv, [Next]_vars PROVE StartedInv'
<1>0. StartedInv /\ PumpTypes /\ Pumped \subseteq Clients
  BY Bounds DEF PumpInv
<1>1. open \cup shut \subseteq open' \cup shut'
  <2>1. ASSUME NEW c, Subscribe(c) \/ Unsubscribe(c) \/ Consume(c) PROVE open \cup shut \subseteq open' \cup shut'
    BY <2>1 DEF Subscribe, Unsubscribe, Consume
  <2>2. ASSUME NEW c \in Pumped,
             \/ Write(c) \/ WriteFails(c) \/ Done(c) \/ ChannelClosed(c) \/ TakeReply(c)
             \/ PingFails(c) \/ Reader(c) \/ Leaves(c) \/ Cancel(c)
        PROVE  UNCHANGED <<open, shut>>
    BY <2>2 DEF Write, WriteFails, End, Done, ChannelClosed, TakeReply, PingFails,
                Reader, ReadFrame, QueueReply, ReadFails, Leaves, Cancel, hubVars
  <2>3. ASSUME NEW w \in Workers, Deliver(w) PROVE UNCHANGED <<open, shut>>
    BY <2>3 DEF Deliver, Enter, Offer, Finish
  <2>4. ASSUME NEW w \in Publishers, NEW post \in Posts, Publish(w, post) PROVE UNCHANGED <<open, shut>>
    BY <2>4 DEF Publish
  <2>5. ASSUME NEW p \in Pods, Receive(p) PROVE UNCHANGED <<open, shut>>
    BY <2>5 DEF Receive
  <2>6. ASSUME Manage \/ UNCHANGED vars PROVE UNCHANGED <<open, shut>>
    BY <2>6 DEF Manage, hubVars, vars
  <2> QED  BY <2>1, <2>2, <2>3, <2>4, <2>5, <2>6 DEF Next, HubNext, Writer, Start, TakeMessage
<1>2. ASSUME NEW c \in Pumped, Start(c) PROVE StartedInv'
  <2>1. c \in open' /\ \A d \in Pumped \ {c} : writer'[d] = writer[d]
    BY <1>0, <1>2 DEF Start, Subscribe, PumpTypes
  <2> QED  BY <1>0, <1>1, <2>1 DEF StartedInv
<1>3. ASSUME NEW c \in Pumped, writer[c] \in {"select", "write"}, 
             NEW x, writer' = [writer EXCEPT ![c] = x] PROVE StartedInv'
  BY <1>0, <1>1, <1>3 DEF StartedInv, PumpTypes
<1>4. ASSUME NEW c \in Pumped, Writer(c) \/ PingFails(c) PROVE StartedInv'
  BY <1>3, <1>4 DEF Writer, Write, WriteFails, Done, TakeMessage, ChannelClosed, TakeReply, PingFails, End
<1>5. ASSUME UNCHANGED writer PROVE StartedInv'
  BY <1>0, <1>1, <1>5 DEF StartedInv
<1>6. ASSUME NEW c \in Pumped, Reader(c) \/ Leaves(c) \/ Cancel(c) PROVE UNCHANGED writer
  BY <1>6 DEF Reader, ReadFrame, QueueReply, ReadFails, Leaves, Cancel
<1> QED  BY <1>2, <1>4, <1>5, <1>6 DEF Next, pumpVars, vars

LEMMA PumpInit == Init => PumpInv
<1> SUFFICES ASSUME Init PROVE PumpInv
  OBVIOUS
<1>1. FlowInv
  BY FlowInit
<1>2. PumpTypes
  <2>1. <<>> \in Seq(Hello .. MaxPosts) /\ Hello \in Hello .. Reply /\ 0 \in 0 .. MaxReplies
    BY EmptySeq, Bounds
  <2> QED  BY <2>1 DEF Init, PumpTypes
<1>3. ASSUME NEW c \in Pumped PROVE WriteInv(c)
  <2>1. /\ c \in Clients /\ written[c] = <<>> /\ seen[c] = <<>> /\ unread[c] = 0 /\ writer[c] = "off"
        /\ frame[c] = Hello /\ Len(<<>>) = 0 /\ Messages(<<>>) = <<>>
    BY Bounds, EmptySeq DEF Init, HubInit, Messages
  <2> QED  BY <2>1 DEF WriteInv
<1> QED  BY <1>1, <1>2, <1>3 DEF PumpInv, StartedInv, Init

\* The inductive invariant of the write loop (Pump) on top of the hub's.
THEOREM PumpInvariant == Spec => []PumpInv
<1>1. PumpInv /\ [Next]_vars => PumpInv'
  BY FlowStep, PumpTypesStep, StartedStep, WriteStep DEF PumpInv
<1> QED  BY <1>1, PumpInit, PTL DEF Spec

\* The realtime path keeps its types: no channel holds more than its buffer, and
\* no client misses more than was published (deliver's select with default).
THEOREM PumpTypeOK == Spec => []TypeOK
<1>1. PumpInv => TypeOK
  <2> SUFFICES ASSUME PumpInv PROVE TypeOK
    OBVIOUS
  <2>1. /\ HubInv /\ DataTypes /\ RegistryTypes /\ \A w \in Workers : JobInv(w)
        /\ \A c \in Clients : ClientInv(c)
    BY DEF PumpInv, FlowInv, MessageInv
  <2>2. seen \in [Clients -> Seq(1 .. MaxPosts)]
    <3>1. Said \subseteq 1 .. MaxPosts
      BY <2>1, Records, Bounds DEF DataTypes, Said
    <3> QED  BY <2>1, <3>1, SeqsGrow DEF DataTypes
  <2>3. dropped \in [Clients -> 0 .. MaxPosts]
    <3>1. ASSUME NEW c \in Clients PROVE dropped[c] \in 0 .. MaxPosts
      <4>1. Cardinality(OnTheWay(c)) \in Nat /\ Len(seen[c]) \in Nat /\ dropped[c] \in Nat
            /\ Len(posted) \in Nat /\ Len(posted) <= MaxPosts
        BY <2>1, OnTheWayIsFinite, LenProperties, Records DEF DataTypes
      <4> QED  BY <2>1, <4>1, Bounds DEF ClientInv
    <3> QED  BY <2>1, <3>1 DEF DataTypes
  <2>4. HubTypeOK
    BY <2>1, <2>2, <2>3 DEF HubTypeOK, RegistryTypes, HubInv, DataTypes, JobInv
  <2> QED  BY <2>4 DEF TypeOK, PumpInv, PumpTypes
<1> QED  BY <1>1, PumpInvariant, PTL

\* What Pump writes to a client is hello, if at all, and then what its channel
\* was given, in order and without a gap.
THEOREM WritesAreInOrder == Spec => []WritesInOrder
<1>1. PumpInv => WritesInOrder
  <2> SUFFICES ASSUME PumpInv, NEW c \in Pumped PROVE IsPrefix(Messages(written[c]), seen[c])
    BY DEF WritesInOrder, Messages
  <2> DEFINE s == Messages(written[c])
             t == seen[c]
  <2>1. /\ DataTypes /\ PumpTypes /\ WriteInv(c) /\ c \in Clients /\ MaxPosts \in Nat /\ Hello = 0
    BY Bounds DEF PumpInv, FlowInv, MessageInv
  <2>2. t \in Seq(Said) /\ Len(t) \in Nat /\ unread[c] \in Nat /\ Len(posted) <= MaxPosts /\ Len(posted) \in Nat
    BY <2>1, LenProperties, Records DEF DataTypes
  <2>3. s \in Seq(Hello .. MaxPosts) /\ Len(s) \in Nat
    <3>1. written[c] \in Seq(Hello .. MaxPosts) /\ Hello \in Hello .. MaxPosts
      BY <2>1 DEF PumpTypes
    <3> QED  BY <3>1, MessagesGrow
  <2>4. Len(s) <= Len(t) /\ \A i \in 1 .. Len(s) : s[i] = t[i]
    BY <2>1, <2>2, <2>3 DEF WriteInv
  <2> HIDE DEF s, t
  <2>5. SubSeq(s, 1, Len(s)) = SubSeq(t, 1, Len(s))
    <3> DEFINE V == Hello .. MaxPosts
               a == SubSeq(s, 1, Len(s))
               b == SubSeq(t, 1, Len(s))
    <3>1. \A i \in 1 .. Len(s) : s[i] \in V /\ t[i] \in V
      BY <2>3, <2>4, ElementOfSeq
    <3>2. a \in Seq(V) /\ Len(a) = Len(s) /\ \A i \in 1 .. Len(s) : a[i] = s[i]
      BY <2>3, <3>1, SubSeqProperties
    <3>3. b \in Seq(V) /\ Len(b) = Len(s) /\ \A i \in 1 .. Len(s) : b[i] = t[i]
      BY <2>3, <3>1, SubSeqProperties
    <3> HIDE DEF a, b, V
    <3>4. Len(a) = Len(b) /\ \A i \in 1 .. Len(a) : a[i] = b[i]
      BY <2>4, <3>2, <3>3
    <3>5. a = b
      BY <3>2, <3>3, <3>4, SeqEqual
    <3> QED  BY <3>5 DEF a, b
  <2> QED  BY <2>4, <2>5 DEF IsPrefix, s, t
<1> QED  BY <1>1, PumpInvariant, PTL
=============================================================================
