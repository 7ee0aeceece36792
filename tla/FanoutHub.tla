----------------------------- MODULE FanoutHub ------------------------------
(***************************************************************************)
(* The registry of connected clients (fanout.go) on top of the Broadcaster *)
(* of its pod.  deliver holds the read lock of its hub while it offers the *)
(* message to one client after another; Subscribe and Unsubscribe take the *)
(* write lock.  It runs on the goroutine of a publisher, or on the NATS    *)
(* delivery goroutine of a pod, which is named by the pod.                 *)
(***************************************************************************)
EXTENDS Broadcaster, SequencesExt

CONSTANTS
  Clients,    \* the connections (Sub), each made once
  Hub,        \* the hub each client connects to
  Tenant,     \* its tenant
  Scopes,     \* the scopes it holds
  Publishers, \* the goroutines that publish
  PodOf,      \* the pod of each publisher
  Posts,      \* what they publish: [tenant, scope]
  Buffer,     \* capacity of a client's channel (32)
  MaxPosts    \* bound: how many messages are published

Workers == Publishers \cup Pods
PodOfWorker(w) == IF w \in Pods THEN w ELSE PodOf[w]

ASSUME FanoutHubAssumption ==
  /\ Hub \in [Clients -> Hubs] /\ PodOf \in [Publishers -> Pods] /\ Publishers \cap Pods = {}
  /\ Buffer \in Nat \ {0} /\ MaxPosts \in Nat

VARIABLES
  open,    \* the clients in the registry
  shut,    \* the clients whose channel is closed
  seen,    \* what each channel was given
  unread,  \* how much of it is still in the channel
  dropped, \* messages each client missed
  posted,  \* every message published
  job      \* the dispatch each worker is in

hubVars == <<open, shut, seen, unread, dropped, posted, job>>

\* A worker outside dispatch.  hubs: handlers still to be called; left: the
\* clients of the current one still to be offered msg.
Idle == [msg |-> 0, tenant |-> "", scope |-> "", hubs |-> {}, left |-> {}]

HubInit ==
  /\ RelayInit
  /\ open = {} /\ shut = {} /\ posted = <<>>
  /\ seen = [c \in Clients |-> <<>>]
  /\ unread = [c \in Clients |-> 0]
  /\ dropped = [c \in Clients |-> 0]
  /\ job = [w \in Workers |-> Idle]

HubTypeOK ==
  /\ handlers \subseteq Hubs /\ natsSubs \subseteq Connected /\ closed \subseteq Pods
  /\ open \subseteq Clients /\ shut \subseteq Clients /\ open \cap shut = {}
  /\ seen \in [Clients -> Seq(1 .. MaxPosts)]
  /\ \A c \in Clients : unread[c] <= Len(seen[c]) /\ unread[c] <= Buffer
  /\ dropped \in [Clients -> 0 .. MaxPosts]
  /\ \A w \in Workers : job[w].hubs \subseteq handlers /\ job[w].left \subseteq Clients

\* The delivery rules.
HoldsScope(c, scope) == scope = "" \/ scope \in Scopes[c] \/ "*" \in Scopes[c]
Listens(c, tenant, scope) == Tenant[c] = tenant /\ HoldsScope(c, scope)

\* deliver keeps the lock until the last client has been offered the message.
ReadLocked(h) == \E w \in Workers : \E c \in job[w].left : Hub[c] = h

Subscribe(c) ==
  /\ c \notin open \cup shut
  /\ Hub[c] \in handlers /\ ~ReadLocked(Hub[c])
  /\ open' = open \cup {c}
  /\ UNCHANGED <<relayVars, shut, seen, unread, dropped, posted, job>>

\* Mutant: the channel is closed without the write lock.
UnsubscribeUnlocked(c) ==
  /\ c \in open
  /\ open' = open \ {c}
  /\ shut' = shut \cup {c}
  /\ UNCHANGED <<relayVars, seen, unread, dropped, posted, job>>

\* Takes the client out and closes its channel.
Unsubscribe(c) ==
  /\ c \in open /\ ~ReadLocked(Hub[c])
  /\ open' = open \ {c}
  /\ shut' = shut \cup {c}
  /\ UNCHANGED <<relayVars, seen, unread, dropped, posted, job>>

\* The client's owner takes the oldest message out of the channel.
Consume(c) ==
  /\ unread[c] > 0
  /\ unread' = [unread EXCEPT ![c] = @ - 1]
  /\ UNCHANGED <<relayVars, open, shut, seen, dropped, posted, job>>

\* dispatch copies the handlers and calls them without the Broadcaster's lock.
Dispatch(w, msg, tenant, scope) ==
  job' = [job EXCEPT ![w] =
    [msg |-> msg, tenant |-> tenant, scope |-> scope, left |-> {},
     hubs |-> {h \in handlers : Home[h] = PodOfWorker(w)}]]

\* Publish: this pod's handlers first, with tenant and scope as given.
Publish(w, post) ==
  /\ w \in Publishers /\ job[w] = Idle /\ Len(posted) < MaxPosts
  /\ posted' = Append(posted, [by |-> w, tenant |-> post.tenant, scope |-> post.scope])
  /\ Dispatch(w, Len(posted) + 1, post.tenant, post.scope)
  /\ UNCHANGED <<relayVars, open, shut, seen, unread, dropped>>

\* Mutant: no origin check.
ReceiveOwnToo(p) ==
  /\ job[p] = Idle /\ Take(p)
  /\ LET m == Head(inbox[p]) IN
       Dispatch(p, m.msg, fromToken(m.tenant), fromToken(m.scope))
  /\ UNCHANGED <<open, shut, seen, unread, dropped, posted>>

\* The NATS callback: a message of this pod's own origin is dropped.
Receive(p) ==
  /\ job[p] = Idle /\ Take(p)
  /\ LET m == Head(inbox[p]) IN
       IF m.origin = p THEN UNCHANGED job
       ELSE Dispatch(p, m.msg, fromToken(m.tenant), fromToken(m.scope))
  /\ UNCHANGED <<open, shut, seen, unread, dropped, posted>>

\* deliver takes the read lock; no client comes or goes until it returns.
Enter(w) ==
  /\ job[w].left = {}
  /\ \E h \in job[w].hubs :
       job' = [job EXCEPT ![w].hubs = @ \ {h},
                 ![w].left = {c \in open : Hub[c] = h /\ Listens(c, job[w].tenant, job[w].scope)}]
  /\ UNCHANGED <<relayVars, open, shut, seen, unread, dropped, posted>>

\* Mutant: the channel is given more than it holds.
OfferPastTheBuffer(w) ==
  /\ \E c \in job[w].left :
       /\ job' = [job EXCEPT ![w].left = @ \ {c}]
       /\ seen' = [seen EXCEPT ![c] = Append(@, job[w].msg)]
       /\ unread' = [unread EXCEPT ![c] = @ + 1]
  /\ UNCHANGED <<relayVars, open, shut, dropped, posted>>

\* Mutant: the send waits for room in the channel.
OfferBlocking(w) ==
  /\ \E c \in job[w].left :
       /\ unread[c] < Buffer
       /\ job' = [job EXCEPT ![w].left = @ \ {c}]
       /\ seen' = [seen EXCEPT ![c] = Append(@, job[w].msg)]
       /\ unread' = [unread EXCEPT ![c] = @ + 1]
  /\ UNCHANGED <<relayVars, open, shut, dropped, posted>>

\* A client whose channel is full misses the message.
Offer(w) ==
  /\ \E c \in job[w].left :
       /\ job' = [job EXCEPT ![w].left = @ \ {c}]
       /\ IF unread[c] < Buffer
          THEN /\ seen' = [seen EXCEPT ![c] = Append(@, job[w].msg)]
               /\ unread' = [unread EXCEPT ![c] = @ + 1]
               /\ UNCHANGED dropped
          ELSE /\ dropped' = [dropped EXCEPT ![c] = @ + 1]
               /\ UNCHANGED <<seen, unread>>
  /\ UNCHANGED <<relayVars, open, shut, posted>>

\* All handlers have returned: a publisher relays, the NATS callback is done.
Finish(w) ==
  /\ job[w] # Idle /\ job[w].left = {} /\ job[w].hubs = {}
  /\ job' = [job EXCEPT ![w] = Idle]
  /\ IF w \in Publishers
     THEN Relay(PodOf[w], job[w].msg, job[w].tenant, job[w].scope)
     ELSE UNCHANGED relayVars
  /\ UNCHANGED <<open, shut, seen, unread, dropped, posted>>

Deliver(w) == Enter(w) \/ Offer(w) \/ Finish(w)

\* The service and its operators.
Manage ==
  /\ \/ \E h \in Hubs : Register(h) \/ RegisterFails(h)
     \/ \E p \in Pods : Close(p)
  /\ UNCHANGED hubVars

HubNext ==
  \/ \E c \in Clients : Unsubscribe(c)
  \/ \E w \in Workers : Deliver(w)
  \/ \E w \in Publishers : \E post \in Posts : Publish(w, post)
  \/ \E p \in Pods : Receive(p)
  \/ Manage

-----------------------------------------------------------------------------
(* Properties.                                                             *)

\* Unsubscribe closes a channel that deliver may be about to send on: the
\* lock keeps them apart, for a send on a closed channel takes the pod down.
NoSendOnClosed == \A w \in Workers : job[w].left \cap shut = {}

\* "Never across tenants" (FanoutHub): who is given a message is a client of
\* the tenant it was published to, on whatever pod.  It does not hold for a
\* tenant whose name changes in the subject (toToken): other pods dispatch the
\* message to the tenant that has the changed name.
NeverAcrossTenants ==
  \A c \in Clients : \A m \in ToSet(seen[c]) : posted[m].tenant = Tenant[c]

\* Whether c may get a post.  Either rule goes by a name that reads the same
\* on every pod, whatever becomes of the other name.  For a tenant that changes
\* see NeverAcrossTenants; a scope that changes breaks its rule in the same way.
InAudience(c, post) ==
  /\ Plain(post.tenant) => Tenant[c] = post.tenant
  /\ Plain(post.scope) => HoldsScope(c, post.scope)

Promise == INSTANCE Multicast WITH
  Audience <- InAudience,
  Posts <- {[by |-> w, tenant |-> p.tenant, scope |-> p.scope] : w \in Publishers, p \in Posts}

\* "No replica sees a message twice" (Broadcaster) and the delivery rules of
\* FanoutHub, for each name that survives the subject: whatever connects,
\* disconnects, is lost or overtakes, a client gets a message at most once,
\* only if it is in its audience, and those of one publisher in their order.
ImplementsMulticast == Promise!Spec

\* "Slow clients never block others": a dispatch ends although no client ever
\* reads its channel.
DispatchEnds == \A w \in Workers : job[w] # Idle ~> job[w] = Idle
=============================================================================
