# shared-events: a TLA+ model

`shared-events` is the Go library by which the services of one platform exchange
events: a transactional outbox with the workers that drain it, durable NATS
subscriptions that survive deploys, an idempotency ledger for consumers, and some
helpers around them. Every service runs several replicas, so nearly everything
interesting in it is a protocol between pods that share nothing but a database
and a broker. This directory models those protocols, model-checks them with TLC
and proves what matters most with TLAPS.

## Inventory

| Component (source) | State | Operations | Hard part | What makes it correct | Here |
|---|---|---|---|---|---|
| Outbox table (`outbox.go`, `repository_sql.go`) | rows `PENDING / PROCESSING / FAILED`, attempts, claim time | insert in the caller's transaction; claim; delete; fail | claims of several replicas, stale claims, updates by id only | an accepted event leaves the table only when it is in the stream; retries end; parked is final | `OutboxRepository` |
| Publisher (`publisher.go`) | batch in memory, current record | poll, publish, mark | three round trips per record with anything in between; crash, cancel, lost statements | the promise in `ReliableOutbox` | `OutboxWorkers`, `OutboxPublisher` |
| OutboxPoller, adapters (`poller.go`, `adapters.go`) | the same, `stopCh` | the same, `Stop` | stop in mid-batch, core NATS, nil connection | the same, and no claim left behind | `OutboxWorkers`, `OutboxPoller` |
| Event (`event.go`) | the envelope | `NewEvent`, `ToJSON`, `FromJSON` | undecodable payloads | they are parked, and block nobody | `Event`, `EventReaders` (partly) |
| Headers (`headers.go`) and the stream | stream, duplicate window | publish with a message id | lost acknowledgements, late copies | one copy inside the window | `JetStream` (partly; the stream is external) |
| Durable subscription (`subscribe.go`) | the server's consumer; per pod: attempt, `deletedStale` | settle, subscribe, migrate, wait, retry, give up | pods of two releases delete and recreate one consumer; ghosts of dead pods | nobody is active on a dead consumer; the stream is never without a receiver and a retrier | `Subscription` |
| Core queue subscription (`subscribe.go`, `QueueSubscribe`) | none | one client call | - | - | not modelled: no control of its own |
| Idempotency store (`idempotency.go`) | `processed_events` | `Claim`, `AlreadyProcessed`, `MarkProcessed`, `Prune`, `EventIDFromMsg` | duplicates on two pods, crash around the claim, pruning against redelivery | at most once for claim-then-act, at least once for act-then-mark | `IdempotencyStore`, `IdempotentConsumer` (partly) |
| Broadcaster (`broadcast.go`) | handlers per topic, subscriptions, origin | `Subscribe`, `Publish`, `Close` | own messages come back; tenant and scope go through subject tokens | each pod's handlers run once, after any failed subscribe too | `Broadcaster` |
| FanoutHub (`fanout.go`) | subscribers per tenant, bounded channels | `Subscribe`, `Unsubscribe`, `Publish` | delivery against closing; full buffers | tenant and scope rules on every pod, for names that survive the subject (not for others, see *Disagreements*); a slow client costs nobody else | `FanoutHub`, `Multicast` |
| Pump (`pump.go`) | two goroutines, bounded replies | read, write, ping | three ways to end | both goroutines end; messages keep their order | `Pump` |
| TenantPurger (`tenantpurge.go`) | one transaction over all tenant tables | `Purge`, `handle` | foreign-key order found by retrying; redelivery during a purge | all rows or none; any acyclic schema succeeds | `TenantPurge` |
| Balance alerts (`balancealert/`) | the caller's claim | `Crossed`, `LevelOf`, `Notify` | claim-then-publish on several replicas | one alert per period and epoch | `BalanceAlert` |
| Relevance, decoding (`relevance.go`, `decode.go`) | none | `Relevant`, `Revoked`, `PayloadOutletIDs`, `DecodeEvent` | precedence of fields; lists typed or from JSON | no member is both relevant and revoked; both readers take the same events | `EventReaders`, `UserEventConsumer` |

How they interact: a business transaction writes a row; a publisher or poller on
any replica claims it, publishes it to the stream with its id as message id, and
deletes the row; the stream delivers it to the durable consumer that
`SubscribeQueueWithRebind` has bound; the handler asks the idempotency store whether
to act. `TenantPurger` and the consumers of `auth.user` events are such handlers.
Balance alerts publish straight to the stream. Beside this durable path there is a
best-effort one: a service publishes on its `FanoutHub`, the pod's `Broadcaster` calls the
local handlers and relays the message over core NATS to the other pods, and each
connected client reads its channel through `Pump`. The shared state is the table, the
stream, the consumer on the server, the ledger, the tenant tables and the claim
store. There are no calls between replicas.

## Modules

**`Event`** names the events by their rank in `created_at` order and says which
payloads decode.

**`OutboxRepository`** is the table. `tx` is the business transaction of each event
and `row` its committed row. Each SQL statement is one operator, since each commits on its own:
`GetPendingRecords` (the `UPDATE ... RETURNING` over `Selected`, the `ORDER BY / LIMIT /
FOR UPDATE SKIP LOCKED` sub-select), `MarkAsPublished` (the `DELETE`),
`MarkAsFailed` (the `UPDATE ... CASE`, which looks only at the id). `last_attempt_at`
is kept as the age of the claim, capped just past `StaleAfter`, and only while the
row is `PROCESSING`, where it is read.

**`JetStream`** is the broker as the code relies on it: the number of copies in
the stream (0, 1, or 2 for more), the age of each message id in the duplicate window,
and copies that arrive after the publisher has given up on them.

**`OutboxWorkers`** is what `Publisher` and `OutboxPoller` have in common. A replica
is one goroutine with a `batch`, a current record and a `phase` (`ready`,
`published`, `failed`): claim, publish and mark are separate steps, and everything
else may fall between them. `Crash` forgets the goroutine's state, `Cancel` makes every later
statement fail while the publishes go on (they ignore the context), `Stop` and
`Exit` are the poller's shutdown, `PollResultLost` and `MarkLost` are failed statements.
A batch is a set: `RETURNING` gives no order, and the loop may take
its records up in any. `Marking` is the row lock that makes a concurrent claim skip a row.

**`OutboxPublisher`** adds `publishRecord`'s checks and PublishMsg; **`OutboxPoller`**
adds `Publish` of the three kinds of adapter: JetStream, core NATS (`NATSReplicas`) and
without a connection (`Unconnected`).

**`ReliableOutbox`** is the promise, with no table, replica or clock: an event is delivered
only after it was accepted, *settled* only when it is in the stream, or *parked* and never
taken back into service. `OutboxWorkers` maps to it: no commit is `none`, a committed
transaction without a row is `done`, a `FAILED` row is `parked`.

**`Subscription`** has the state of the server (stream, durable consumer, push
bindings of dead pods) and one retry loop per replica, of either release (`code`). A
consumer is told from its successor of the same name by its generation, the deliver
subject. One action per branch of the loop: `Subscribe`, `Migrate` and
`DeleteConsumer` (two steps, since another replica may subscribe between the refusal
and the deletion), `AwaitStream`, `Retry`, `GiveUp`. The answers to a subscribe call are derived from the
server's state (`AlreadyBound`, `WithDeliverGroup`, `WithoutDeliverGroup`, `Accepted`).

**`IdempotencyStore`** is the ledger, with days for time; `Prune` is a loop of
statements with one cutoff. **`IdempotentConsumer`** drives it with handlers of both
documented kinds: consumers in `ClaimFirst` claim and then act, the others check, act and mark.
Messages carry the fields `EventIDFromMsg` looks at, so that one event may come in several envelopes.
The handlers and the redelivery are outside the repository: a message is
delivered again as long as it is not acknowledged, to any pod, also while another pod
works on it, up to `Horizon` days.

**`EventReaders`** has the pure code that consumers read events with: the two decoders and the user
relevance filter, as operators over payloads whose fields are typed lists, lists from JSON, strings or
something else. **`UserEventConsumer`** puts it into the hands of the handlers of `IdempotentConsumer`, which is where
the filter runs.

**`Broadcaster`** is one topic of the realtime transport: the handlers of each pod, its NATS
subscription (opened by the first handler, closed by `Close`), and an inbox per pod for relays on their way,
which may be lost. Tenant and scope travel as subject tokens (`toToken`, `fromToken`).
**`FanoutHub`** adds the client registry and the dispatch. A worker is a publisher's goroutine or a pod's NATS delivery
goroutine (named by the pod). Its `job` says which handlers are left to call and, once `Enter` has taken the hub's read
lock, which clients are left to be offered the message. The lock is not a variable: it is held exactly while a worker
has clients of that hub left (`ReadLocked`), and `Subscribe` and `Unsubscribe` wait for that. **`Pump`** composes both with the two
goroutines of each connection, one action per case of the `select` and per outcome of a socket call.

**`Multicast`** is the promise of that path: posts are made, and a client may be given a post of its audience,
never again, and never after a later one of the same publisher. `FanoutHub` maps to it by `posted` and `seen`. The tenant and
the scope rule of the hub (`InAudience`) each go by a name that survives the subject tokens, whatever becomes of the other name. That the code
breaks the tenant rule for names that do not survive is stated apart (`NeverAcrossTenants`, violated); the scope rule breaks in the same way (see *Disagreements*).

**`TenantPurge`** is the purge of one database: messages on `tenant.purge` with redelivery after `AckWait` and at most
`MaxDeliver` deliveries, `handle` on every replica, and `Purge` statement by statement. `Delete` and the check of
foreign keys (`Release`, `Violation`) are separate steps, since another transaction may hold the rows
in between; `Awaits` is a wait for its locks, `Abort` includes the server's way out of a deadlock, and `Insert` is the service adding
rows meanwhile. `rows` tells rows from before the purges (`"old"`) from later ones.

**`BalanceAlert`** has the arithmetic of `balancealert.go` (`LowMark`, `Crossed`, `LevelOf`), the key, and `Notify` in its
two steps, `Claim` and `Publish`. The callers follow the two documented ways: spenders call `Crossed` with the balance
before and after, pollers call `LevelOf` on a provider's balance.

**`MC*`** modules supply symmetry, message sets, schemas and topologies for TLC. **`*Proofs`** modules hold the theorems.

Definitions marked *Mutant* in a comment are wrong variants of a neighbouring
definition; no specification uses them. Each shows that a property is able to fail.

## Runs

Run `tlc -config X.cfg M` with the module in the second column.

| Run | Module | Properties | What it shows |
|---|---|---|---|
| `PublisherFaults` | `MCOutboxPublisher` | `TypeOK`, `NoLoss`, `StatusMatchesAttempts`, `AttemptsBounded`, `ImplementsPromise`, `EveryEventResolved` | two replicas, two events (one undecodable), a fault of any kind, claims that go stale under a living replica: safety, refinement of `ReliableOutbox`, and progress |
| `PollerStop` | `OutboxPoller` | `StopLeavesNoClaim`, `StoredAtMostOnce`, `ClaimsNeverIntersect`, `SnapshotIsCurrent`, `EveryEventResolved` | three pollers, one of each adapter, stopped at any moment: if batches keep up, a claim is a lease, and restarts through `Stop` store nothing twice |
| `Subscribe` | `MCSubscription` | `FleetIsAttached`, `AllAttached`, `EventuallyServed`, `LoopsEnd` | fleets that start with plain or with queue subscriptions, late stream, three crashes, one of every other fault |
| `ConsumerFaults` | `MCIdempotentConsumer` | `AppliedAtMostOnce`, `ClaimCovers`, `SettledIsApplied`, `PruneIsComplete`, `ReadersAgree`, `RevokedIsDecided`, `OutletsDecide` | two consumers, two pods, three messages of one event, pruning, one fault anywhere; and what the handlers read out of 1008 payloads |
| `Realtime` | `MCPump` | `NoSendOnClosed`, `HandlersHear`, `ImplementsMulticast` | two pods, three hubs, two publishers, clients of two tenants, posts of which either, both or neither name survives the subject, a lost relay, failed subscribe or close anywhere |
| `Pump` | `MCPump` | `TypeOK`, `WritesInOrder`, `PumpEnds`, `DispatchEnds` | one connection with its two goroutines, ended from any side; a client that never reads |
| `TenantPurge` | `MCTenantPurge` | `TypeOK`, `AllOrNothing`, `PurgedOnOrder`, `SettledIsPurged`, `GivesUpOnlyIfEntangled`, `PurgeCompletes` | three tables under eight foreign-key graphs, two replicas, two purges side by side or a fault anywhere |
| `BalanceAlert` | `MCBalanceAlert` | `TypeOK`, `OncePerKey`, `NoneSwallowed`, `CrossingsWorsen`, `PollerCatchesUp` | two spenders and two pollers, wallets of one and of two tenants and of a provider, refunds, a top-up, two periods, a fault |
| `PublisherLostClaim` | `MCOutboxPublisher` | `PendingIsUnheld` (violated) | see *Disagreements* |
| `PublisherRepublish` | `MCOutboxPublisher` | `StoredAtMostOnce` (violated) | see *Disagreements* |
| `SubscribeRace` | `MCSubscription` | `ActiveIsAttached` (violated) | see *Disagreements* |
| `RealtimeTenants` | `MCPump` | `NeverAcrossTenants` (violated) | see *Disagreements* |

The type invariants of `Subscription` and `IdempotentConsumer`, and `DeliveryInv`, `NoPhantom`, `FailedIsTerminal` and `ClaimsAreFresh`, are in no run: they are proved,
and what `NoPhantom` and `FailedIsTerminal` say of the service's view is part of `ImplementsPromise`.

**Bounds.** `MaxFaults` bounds crashes, failed statements, lost relays and so on; without it nothing
could be live. One fault, at every point of every interleaving, is what each guarantee has to get over by itself; in
`Subscribe` there is one of each kind and three crashes, which is more than one replacement of each pod.
`MaxLate` is the number of late copies of one event. Two events are enough for a
batch with more than one record and for one event to wait behind another; two replicas for
every race the code has, since a claim is taken over by one replica at a time (`AttemptsBounded`
is proved for any number). `MaxOutboxAttempts` is 2 instead of 3, so that both sides of the `CASE` are
taken. A clock tick is one minute in `PublisherRepublish`, with `StaleAfter = DupWindow = 2` (two
minutes, as in the code), otherwise it stands for the whole window (both are 1): only the order
of the events matters, not the length. `SubscribeAttempts` is 2 or 3 for 40. The consumer's
retention and horizon are one day each, the tightest case in which the retention still covers
the horizon. In `Realtime` the buffers hold one message of two, so that they overflow; its posts are
one for a wildcard holder of the other tenant, one for a scope that nobody of its tenant holds, one whose scope and one whose tenant changes in the subject, so that
either rule can fail by itself; in `Pump` two of three,
so that the order inside a buffer shows. `TenantPurge` has chains along and against the name order (three passes), a fork, a cycle of
two and of three tables, a kept table that references one and a tenant row that references one; `MaxPasses = 3` is enough for three tables, so that the limit
of 30 is no limit of the graphs (`GivesUpOnlyIfEntangled` excuses larger schemas). `MaxDeliver` is 3 for 5. In `BalanceAlert` a
period starts with 2 and the mark is 1, so that one movement of 2 jumps over the mark. Replicas and pods are symmetric; symmetry is used in
safety runs only.

**Assumptions of the environment.** `SlowBatches = FALSE` (`PollerStop`, `PublisherRepublish`) is the assumption of the
comment on `processingClaimStaleAfter`: no batch outlives its claim; `PublisherFaults` does not need it. In `Subscription` the last attempt
sees no ghost (`Wake`): forty attempts span about twenty minutes, and the server drops a dead connection much
sooner. In `IdempotentConsumer` a handler does not wait for days before its first statement (`Day`). In `Broadcaster` core NATS
keeps the order of one connection. In `TenantPurge` PostgreSQL runs under READ COMMITTED. In `BalanceAlert` the last period has no
fault, so that there is a period to catch up in.

**Fairness.** Weak fairness of each replica's own steps, including its restart (the
scheduler runs goroutines, the platform restarts pods), and of the clock. The
publisher's step is one action (`Work`), so that fairness does not choose the
outcome of a publish: the broker may fail every time. Nothing is assumed about the business transactions, the
network or the broker. In `Subscription` it is also assumed that the server releases dead bindings, and that
the publishing service creates the stream some day. In `Pump` the goroutines are weakly fair as a whole, and strongly fair for the cases `TakeMessage` and
`ChannelClosed`: `select` picks at random among the ready cases, so that a flood of replies cannot starve them for ever. Clients owe nothing.
In `TenantPurge` the server delivers what is neither acknowledged nor used up, and notices expired deliveries. In `BalanceAlert` a poller is
strongly fair for each polled wallet, as a tick reads all of them, and periods end.

**Deadlock** is checked in the outbox runs, where time always passes. It is not checked in the
others: once all replicas are active or have given up, all messages are settled, all connections have ended,
or all bounds are reached, nothing is left to do.

## What is proved

For every number of events, replicas, attempts, and faults, every window and every batch size,
every number of pods, hubs, clients, tables, foreign keys and wallets:

| Theorem (module) | Says |
|---|---|
| `PublisherTypeOK` (`OutboxPublisherProofs`) | type correctness |
| `PublisherDelivery`, `PublisherDeliveryInv` | `NoLoss` and `NoPhantom`, from the inductive `DeliveryInv` |
| `PublisherStatus`, `PublisherAttempts`, `PublisherTerminal` | a row is parked exactly when its attempts are used up; the count is bounded; parked is final |
| `PublisherClaims`, `PublisherLeases`, `PublisherSnapshots` | claims are exclusive and fresh leases, and the attempts read at the claim are current, assuming `SlowBatches = FALSE` |
| `PublisherImplementsPromise` | the publisher implements `ReliableOutbox` |
| `PollerTypeOK`, `PollerStatus`, `PollerAttempts`, `PollerTerminal`, `PollerSendsCommitted` (`OutboxPollerProofs`) | the same of the poller and the table, whichever adapter each replica has; nothing uncommitted is sent |
| `PollerClaims`, `PollerSnapshots` | exclusive claims and current attempts, assuming `SlowBatches = FALSE` |
| `StopKeepsClaimsHeld` | `StopLeavesNoClaim`, assuming that pollers end through `Stop` only (`FaultKinds \subseteq {"stop"}`); batches may be slow |
| `RestartsStoreNothingTwice` | `StoredAtMostOnce`, assuming in addition `SlowBatches = FALSE` and that no copy is delayed (`MaxLate = 0`) |
| `PollerDelivery`, `PollerImplementsPromise` | `NoLoss`, and the refinement of `ReliableOutbox`, assuming that every replica has a JetStream connection |
| `SubscriptionTypeOK`, `FleetStaysAttached` (`SubscriptionProofs`) | type correctness; in a fleet that has only ever used queue subscriptions an active replica is attached |
| `ConsumerTypeOK`, `ClaimedAtMostOnce`, `ClaimsCoverDeliveries`, `MarkedAtLeastOnce` (`IdempotentConsumerProofs`) | the guarantees of both protocols, assuming that every deliverable message has the id of its event and that the retention covers the delivery horizon |
| `PruneLeavesNothing` | a `Prune` without an error has deleted every row older than its cutoff; no assumption on batch, retention or horizon |
| `EventsReadTheSame`, `OnlyAListRevokes`, `OutletsGoBeforeRoles` | the readers' three rules, for any set of payloads, outlets and services |
| `PurgesAreAtomic`, `PurgesAreOrdered`, `NoOrderIsDropped` (`TenantPurgeProofs`) | a purge removes all of a tenant's rows or none, only on a confirmed order, and such an order is acknowledged only when they are gone |
| `RetryingFindsTheOrder`, `PurgeTypeOK` | a purge without a fault, an insert meanwhile or more tables than passes gives up only if no order that ends with the tenant row deletes the tables; type correctness |
| `AlertsAreOnce`, `NoCrossingIsSwallowed`, `CrossingsAreWorse`, `AlertsTypeOK` (`BalanceAlertProofs`) | one alert per key, once; an alert is missing only for a failure of its own; `Crossed` and `LevelOf` draw the same lines, for all integers; type correctness |
| `SendsAreSafe`, `RegisteredPodsHear` (`PumpProofs`) | no send on a closed channel; a pod with a handler and a connection hears the relays until it is closed |
| `HubImplementsMulticast`, `FlowOfMessages` | the hub over the broadcaster implements `Multicast`, from the inductive `FlowInv` |
| `TenantsStayApart` | if the names of all tenants in use survive the subject, no client is given a message of another tenant |
| `PumpTypeOK`, `WritesAreInOrder` | type correctness, which includes the buffers' bounds; what a connection is written is hello and a gapless prefix of its channel |

The lemmas about the workers are in `OutboxWorkersProofs`. What concerns the table and the claims is stated for `LoopSpec`, whose
replicas publish a record by any means that touch no other event; what concerns the stream, for `WorkerSpec`, whose replicas use
`PublishMsg`. `OutboxPublisher` and, without core NATS and missing connections, `OutboxPoller` are instances of both. The arguments:

- `NoLoss` is not inductive: a row may be deleted by a replica that published it long ago, under a
  claim that has since gone to another. `DeliveryInv` adds that a replica is in phase
  `published` only if the stream has the event (`MarksAreEarned`) and that the stream
  remembers only ids of messages it has (`DuplicatesAreStored`): an acknowledged duplicate is in the
  stream as well. `NoPhantom` needs `RowsAreCommitted`.
- `AttemptsBounded` counts: a parked row can only be failed again by the replicas that still hold it
  (`FailuresInv`: attempts plus holders is bounded), and nobody claims a parked row.
- `HandsInv` is the part of this that holds however a replica publishes: rows, and what is held or sent, are of committed transactions,
  and a replica marks what it holds.
- `StopLeavesNoClaim` needs `NobodyDrops`: who is down has finished its batch, and no mark is skipped. A mark takes the row out of
  `PROCESSING` even when another replica has claimed it in the meantime, so slow batches do no harm here.
- `StoredAtMostOnce` follows from `PublishedForGood`: an event is in the stream only when its row is gone or the poller that published it is about
  to delete the row. By `ClaimInv` that poller holds the event alone. The duplicate window does not occur in the argument.
- `ClaimInv`: a held row is `PROCESSING` and fresh, so no other claim selects it. This is where
  `SlowBatches = FALSE` is needed.
- The refinement maps each mark, claim or arrival to a step of the promise or to a stutter,
  using `DeliveryInv` for `Settle` and `StatusMatchesAttempts` for `Park`.
- `SubscriptionTypeOK` needs `LoopInv`: an unfinished loop has an attempt left. `FleetStaysAttached`: without
  a legacy consumer nobody ever deletes, so the one generation there is stays.
- `ClaimedAtMostOnce` rests on `ClaimCovers`: at most one handler is between a won claim and its
  effect, and a claim exists as long as its event can be delivered. It is preserved by
  `Prune` because its cutoff is at least a retention ago and a claim is not older than
  its event's publication.
- `PurgesAreAtomic`: commits change many tables at once, so the invariant has to follow a transaction through its passes. For an order of this tenant
  each table is at any time either still to be done (in `todo`, in `blocked`, or the tenant table before its turn) or cleared: the
  transaction has deleted every row of it that is still there from before. At the commit nothing is left to be done. `SettledIsPurged` needs
  in addition that a message whose purge is `done` has left nothing.
- `AlertsAreOnce`: a caller about to publish holds its key alone, and no alert with that key has been published (held keys are
  claimed, published keys are claimed). `CrossingsAreWorse` needs no invariant beyond the types: it is arithmetic (`SameLines`).
- `GivesUpOnlyIfEntangled`: the induction over passes is in the state (`GInv`). As long as a pass has deleted nothing, each table it found blocked is
  referenced by a kept table or by another one still to be deleted (`Stuck`); so a pass that ends without progress has the entangled set in its hands. Each
  pass but the last deletes a table (`Counted`), so that as many passes as tables are enough.
  A tenant row that itself references a purged table is entangled too: the code deletes it last.
- `NoneSwallowed` (`LInv`): the alerts that are lost (not published, in nobody's hands, their key claimed or their crossing forgotten) are at most as
  many as the failures. A key determines its alert (`KeysTell`), so no other alert's claim stands in the way of a new one. This needs `PlatformAssumption`: a
  platform wallet has no tenant, as the comment on `Alert` says.
- `PruneIsComplete` (`PruneInv`): the rows are always finitely many, so that a batch that is not full is all there was to delete.
- The readers are pure: their properties follow from the definitions alone, for payloads of the shapes of `PayloadAssumption`.
- `ImplementsMulticast` (`FlowInv`): a message can still come to a client in three ways: in the hands of a dispatch on its pod, in its pod's inbox, or not yet
  relayed. On each way and between them the messages of a publisher are in order, and all of them are later than those the client was given. `Publishers`
  and `Pods` are disjoint (`FanoutHubAssumption`): both are workers, one posts and the other delivers.
  Whom a dispatch offers its message listens to the tenant and scope in its hands (`JobInv`): at the publisher those of the post, at a callback what the
  subject has made of them (`Carries`), and the same if the name survives (`OfferedToAudience`, which also gives `TenantsStayApart`).
- `WritesInOrder` (`PumpInv`): what is written and the frame in the writer's hands are exactly what it has taken out of the channel.
- `SendsAreSafe`: the clients a dispatch has left are in the registry (`HubInv`). `Unsubscribe` preserves this because it waits
  for the read lock, that is, for dispatches with clients of that hub left.

Only model-checked: everything under fairness (`EveryEventResolved`, `AllAttached`, `EventuallyServed`, `LoopsEnd`, `PumpEnds`,
`DispatchEnds`, `PurgeCompletes`, `PollerCatchesUp`), which is beyond this prover. Every invariant and every action property
of a passing run, and both refinements, are theorems. `PollerStop` has replicas without JetStream or without a connection, for which
`NoLoss` does not hold; the theorems of the poller that need neither are stated for them as well.

## Disagreements

Where a comment or document of the repository says more than the code does:

- `PublisherLostClaim`. `PROCESSING` is meant to keep a record in flight from being selected again
  (`outbox.go:33-36`). `MarkAsFailed` updates by id only, so a replica whose claim was taken over puts the row back
  to `PENDING` in the middle of the other replica's attempt. It takes a batch slower than two minutes; the claim is
  stamped once for the whole batch.
- `PublisherRepublish`. `README.md:216-219` and `headers.go:7-11` expect JetStream to drop the copy that follows a
  crash between publish and mark. The row is reclaimed more than two minutes after the claim; the duplicate window is two minutes
  from the publish. A publish right after its claim is out of the window when it is repeated.
- `SubscribeRace`. "Multiple replicas may race the delete; deleting an already-deleted consumer is harmless"
  (`subscribe.go:159-160`): the slower replica deletes the consumer the faster one has recreated. The faster one is
  active in its log and receives nothing.
- `RealtimeTenants`. "Never across tenants." (`fanout.go:22`, and `README.md:256-257`). `.`, `*`, `>` and blanks in a tenant's name become `_` in the
  relay's subject, and the other pods take the tenant from there: what is published to `t.1` reaches the clients of `t_1` on the other
  pods. Tenants named by UUIDs are safe: `TenantsStayApart` proves the rule for all tenants whose names survive.

Seen while modelling and not kept as runs: "only subscribers holding that scope" (`fanout.go:19-21`) fails as the tenant rule does: the scope `*` becomes
`_`, which the other pods read as the whole tenant, while the publishing pod gives the message to holders of `*` only, and `a.b` reaches the holders of `a_b`;
"reliably delivered even if NATS is temporarily unavailable" (`README.md:315`): three failed polls park the event, and nothing takes it up again (`EveryEventResolved` says delivered or parked); `MaxAttempts` above 3 has no effect (`repository_sql.go:190` uses the constant),
and `MaxRetries` and `RetryDelay` are never read; a nil connection makes an adapter report success, and the row is deleted
(`adapters.go:25-28`, `57-60`; `NoLoss` fails for `Unconnected # {}`); a failed `DeleteConsumer` is never retried
(`subscribe.go:177`; the migration then has no receiver; `EventuallyServed` excludes the fault `"delete"`); the standby of a plain subscription does not retry "forever" but 40 times
(`subscribe.go:67-68`, `79`); claim-then-act is at most once, not "exactly once" (`idempotency.go:16-17`);
"the next period retries" (`balancealert.go`, on `Notify`) holds for who polls: a spend path calls `Crossed` when a mark is crossed and does not come back to it (`PollerCatchesUp` is stated for polled wallets only);
`AckWait` is as long as a purge may take, so that a redelivered purge runs beside the first, the two may deadlock, and each abort and each fault takes one of the five deliveries, after
which the purge is dropped (`PurgeCompletes` excludes two messages together with a fault); after `Close` the handlers stay, and a
later `Subscribe` of the same topic opens no NATS subscription.

## What is not modelled, and the plan

Left out for good: logging, SQL text, the contents of payloads no step looks at, `QueueSubscribe` (one client call), `EnsureSchema` (DDL run once).

Left out of the modelled components:

- clock skew between pods (beyond what slow batches cover); crashes are bounded in number;
- a row that the repository fails to scan is `PollResultLost`: the claim has committed and the turn returns an error;
- subscribe errors other than those the code names and a timeout;
- two `Prune` runs at the same time;
- a hub without a relay, which is the local dispatch of the same model; more than one topic or namespace, which share nothing but the connection;
- the expiry of a balance alert's claim (its ttl): keys carry their period, so a claim need not outlive it;
- a table created while a purge runs, and more than one table keyed by the tenant's own id;
- strings: the readers' operators are given by what they do on the members of a small set.

For later, in this order:

1. `FleetIsAttached` for fleets that are still migrating from plain subscriptions: which part of it survives a deleted consumer, once every
   replica has finished its loop.
2. The steps that the liveness properties rest on, as action properties: a claimed row comes nearer to its mark, a blocked purge to its end.
3. A bound on the copies of one event in the stream when claims overlap (`StoredAtMostOnce` without its assumptions).
