# Formal models of the Geode native client

TLA+ models of the C++ client (`src/cppcache/src`). TLC checks them on small
instances; TLAPS proves the most important properties for every value of the
constants. File names below are relative to `src/cppcache/src` unless they
begin with `src/`.

## 1. The system and what is modelled

A client holds *regions*. A region that caches keeps its entries in a
`ConcurrentEntriesMap`, split into `MapSegment`s, each behind a spin lock.
Application threads change entries through `LocalRegion` and
`ThinClientRegion`, which send the operation to a server through a *pool* of
connections (`ThinClientPoolDM`) and apply the reply. Servers push the changes
of other clients through *subscription channels*, one per redundant endpoint
(`ThinClientRedundancyManager`, `TcrEndpoint`); a notification thread per
channel filters duplicates (`EventIdMap`) and applies the events. Expiry threads
remove entries and tombstones. All of these race for the same entries,
connections and lists.

| part of the system | module | depth |
| --- | --- | --- |
| version stamps, conflict and delta check | `VersionStamp` | operators, every branch |
| entries with concurrency checks, tombstones, `m_size` | `VersionedEntries` | every operation |
| rollover of the 24 bit version | `VersionRollover` | the check against the true order |
| entries without concurrency checks (trackers) | `TrackedEntries` | put, putAll, create, get, getAll, destroy, invalidate and their notifications |
| subscription events, duplicates, periodic ack | `SubscriptionEvents` | every step of client threads |
| what a subscription promises | `EventDelivery` | abstract, implemented by the above |
| connection pool and its managing thread | `ConnectionPool` | every path of `sendSyncRequest`, `sendRequestToEP`, `manageConnections` |
| redundant endpoints, failover, notification threads | `RedundancyManager` | server lists, clients that are not durable |
| continuous queries (CQs) | `ContinuousQueries` | the life of a query, its requests and its five kinds of locks |
| transactions and the connections they hold | `Transactions` | the client's side of every call |
| the rest | | section 9, and `components` in `PROJECT.json` |

The modules share no variables. They meet at interfaces each of them states:
`SubscriptionEvents` takes a new primary channel whenever `RedundancyManager`
would make one and leaves out how it is chosen; `VersionedEntries` and
`TrackedEntries` take events in an order `SubscriptionEvents` allows (any order
for the first, the order of the server for the second); `ConnectionPool` treats
an endpoint as a server that answers or does not, and `Transactions` the pool as
a queue of idle connections; `ContinuousQueries` reduces `RedundancyManager` to
what a change of endpoints does to the queries. `VersionedEntries` and
`VersionRollover` both extend `VersionStamp`: the second justifies that the
first compares versions as numbers.

`X` is a component, `MCX` gives TLC its constants, `XProofs` holds theorems
about it. Definitions keep the names of the code where TLA+ allows it; `PROJECT.json` maps each one to its lines. A definition that begins with the
comment `Mutant:` is a plausible bug in the definition below it, and shows that
the properties notice it.

## 2. Versioned entries (`VersionStamp`, `VersionedEntries`)

State: the entry of each key (`m_map`), the list of tombstones with the expiry
task of each, the tasks and where they are (scheduled; dispatched, that is, the
timer fired and the thread wants the segment lock), `m_size` with the updates of
it that are still to come, the deltas whose full object was asked for. An
operation under the segment lock is one action. What the code does after it
released the lock is a step of its own (`SizeInc`, `SizeDec`, `ClearSize`,
`FullObject`, `Dispatch`).

The servers are external. A run starts with a *history*: the changes of a key
with their tags, by one or two members. A change reaches the client as an event,
as the reply to an own operation or to a get, so in any order and repeatedly.

Checked: the entry is the newest change it met (`Converged`); a delta is applied
only to its base (`DeltaMeetsItsBase`); stamps never go back
(`StampsNeverRegress`); the tombstone list is exact, each tombstone has a valid
task and is removed in the end (`TombstoneListExact`, `TombstoneHasTask`,
`TombstonesGo`); expiry takes nothing but the tombstone it is for
(`ExpiryTakesItsTombstone`); `m_size` is the number of entries once pending
updates are added (`SizeExact`).

Not all of them hold for all operations. What TLC shows when the set of
operations or histories of `EntriesConverge.cfg` is widened:

- `MapSegment::clear` (MapSegment.cpp:59) empties `m_map` and leaves the
  tombstone list. The task of a tombstone listed before the clear removes by key
  what the key holds then (`ExpiryTakesItsTombstone` with `"clear"`).
- An invalidation that meets a tombstone (MapSegment.cpp:214) loses its version:
  an older update is applied afterwards (`Converged` with histories that
  invalidate).
- A delta that meets a tombstone whose stamp is its base (MapSegment.cpp:173) is
  applied to nothing (`DeltaMeetsItsBase` with `"localDestroy"`).
- `m_size` is decreased for an entry that was a tombstone already
  (ConcurrentEntriesMap.cpp:145, with `"destroyReply"`). It is increased for the
  create of a null, which `getKeys` does not return, and again for the value put in
  its place (`"createNull"`). With `"clear"` it is wrong from the time the segments
  are empty until `m_size` is set to zero, and afterwards when an operation was counted
  in between.

Reaping by key (TombstoneList.cpp:109) does not ask whether the key holds a
tombstone now, so the action `ReapKeys` may remove a value. No property of the
project forbids this: `Converged` speaks of the changes met since (`seen` is
emptied), and `StampsNeverRegress` and `TombstoneHasTask` hold all the same (run
`entries_all_ops`).

`VersionsKept` in `VersionedEntries` names what has to be left out for
convergence; the theorem assumes it.

### Rollover (`VersionRollover`)

A change is known to its server by epoch and version, the client sees the
version. `CheckIsOrder`: for changes at most a window apart, `checkForConflict`
decides as the true order does. `OrderAcrossRollover`: the entry never goes back.
Both exclude an entry that holds version zero: `checkForConflict` takes such a
stamp for one never set (`stamp.ver # 0` in `RolledOver`), so the change that
comes first after a rollover may be replaced by an older one.

## 3. Tracked entries (`TrackedEntries`)

Without concurrency checks an operation adds a tracker to the entry before the
request, and applies the reply only if the update counter is unchanged. The
module follows one key: the entry with the two sets of counters a wrapped entry
has (`MapEntryT` up to 4 trackers and 8 updates, `TrackedMapEntry` beyond), the
operation of each thread, the notifications on their way. Each part of an
operation between two acquisitions of the segment lock is one action; a request
may fail with or without effect.

Checked: an operation never overwrites an update that arrived while it was at
the server (`UpdatesKept`); the trackers of an entry cover the operations that
rely on it (`TrackersCover`); a counter is zero when nobody tracks
(`CounterReset`); placeholders leave the map (`PlaceholderTracked`).

`NoticesKept` states the part of this that MapEntryT.hpp:69 stresses,
"particularly the notifications": once the entry holds the newest value and all
notifications have been applied, no operation stores an older value over it. It is
checked where it is violated.

`UpdatesKept` is checked, and proved under `TrackingSafe`, for puts and creates
with notifications of updates and as many threads as the limits allow. A create
that finds a value leaves its tracker behind, so that with creates there must be
one thread less than `GF_TRACK_MAX`. Outside of this TLC shows violations:

- Two gets (run `tracked_two_gets`, `NoticesKept`): the first stores its value and
  loses its tracker in `putForTrackedEntry` (MapSegment.cpp:682). Before it leaves, a
  second get adds its own tracker and is answered. The `RemoveTracking` guard of the
  first (LocalRegion.cpp:926) then removes this tracker, the notification of a newer
  value is not counted, and the second get stores the older value over it.
- A put and a get (both properties): a put counts when it adds its tracker and not when
  it stores its value (MapSegment.cpp:681). A get that added its tracker in between
  remembers the same count, and stores an older value over that of the put.
- A getAll (both properties): it stores the parts of its reply with the counter -1
  (VersionedCacheableObjectPartList.cpp:272), whatever was counted meanwhile. A part
  without a value, for an invalid entry or an exception, makes the entry a
  placeholder, which its guard removes.
- Creates by four threads, with the limits of the code: the tracker that a create
  left behind takes the entry over the limit while four operations are under way.
- The limit (MapSegment.cpp:523): when `addTracker` returns a wrapper, the update
  is counted on the object inside it.
- An entry that is destroyed and created again while an operation is at the
  server starts its counter at zero, which the operation may remember.

`UpdatesKept` speaks of steps that leave a value, and so not of a destroy, which
(MapSegment.cpp:337) erases the entry before it compares counters: when it returns
`GF_CACHE_ENTRY_UPDATED`, which LocalRegion.cpp:1721 logs as "did not change local
value", the newer value is gone; `m_size` still counts it. Stated for all steps,
the property is violated by one destroy and one notification.

## 4. Subscription events (`SubscriptionEvents`)

State: per source the events made and confirmed on the servers; the channels,
the one that is primary, and what was sent to and read from each; what each
notification thread has in hand (received, or taken: past the duplicate check
and on its way to the region); `EventIdMap` with the deadline of each source;
the thread of `doPeriodicAck`; ghost `handled`. A failover opens a new channel
while the thread of the old one is anywhere in the handling of an event.

Servers are external, by what the client relies on: they send events of a source
in order, from the first that is not acknowledged; an acknowledgement removes
events from the queues of all servers at once.

Checked: the module implements `EventDelivery` (`DeliversOnce`); a source is
forgotten only after its last event was acknowledged (`ForgottenWasConfirmed`);
every event is applied in the end, and every source forgotten (`AllHandled`,
`SourcesForgotten`). `EventDelivery` is what the rest of the client relies on:
each event is given to its region at most once, the events of a source are begun
in order and, while the queues survive their servers, without a gap, and the
servers are told to release only what was begun. The mapping: `begun` is what
the notification threads have taken, `delivered` is `handled`, `released` is
`confirmed`. Two parts of it are invariants with theorems of their own:
`HandledOnce` (no event is applied twice) and `ConfirmedWasTaken`.

`ShortOutages = TRUE` says that no outage, and no message on its way, outlasts
`subscription-message-tracking-timeout`. Without it `DeliversOnce` fails: the
deadline counts from the arrival of an event, so after a long outage the first
acknowledgement makes the source forgotten while the new primary sends its
events again.

`taken` is weaker than `handled`: an event is recorded (TcrEndpoint.cpp:619)
before its region gets it, and the next acknowledgement covers it. A durable
client that stops in between is not sent the event again, although
ThinClientRegion.cpp:2624 reads "Update EventIdMap to mark event processed, Only
for durable client".

## 5. Connection pool (`ConnectionPool`)

State: the queue of idle connections, `closed_`, `m_poolSize`, what each thread
has in hand and where it is in `sendSyncRequest` or `sendRequestToEP`, who was
notified, the managing thread in `cleanStaleConnections` and
`restoreMinConnections`. A connection is the server it goes to. What holds
`mutex_` is one step; to read `m_poolSize` and to change it are two.

Checked: `m_poolSize` counts the idle and used connections (`PoolSizeExact`);
the limit is exceeded by no more than the threads that make connections
(`OvershootBounded`); no thread sleeps while a connection is free for it
(`NoLostWakeup`); a closed queue stays empty (`ClosedIsEmpty`); a request ends
(`RequestsEnd`).

What the model shows besides:

- `max-connections` is not a strict limit: threads compare `m_poolSize`
  (ThinClientPoolDM.cpp:1737, 1794) and increase it after the connection is made.
- Two steps leave `m_poolSize` wrong, and are counted in `slips`. A temporary
  connection, which is not counted, goes into the queue when credentials are missing
  (1931) or refused (1079). A reply to the credentials that is neither a response nor
  an exception puts the connection into the queue (1092), and the failure path of the
  request then counts it off and deletes it. Refused credentials alone put a counted
  connection back, as any other reply does.
- `retry--` (1305) takes zero to -1 when a reply asked for authentication, and -1
  means no limit: with `RetryAttempts = 0`, `retryAllEPsOnce = FALSE` and
  `MaxReauth = 1` a request that keeps failing is tried for ever (`RequestsEnd`
  violated), although src/cppcache/include/geode/PoolFactory.hpp:326 reads "Set
  the number of times to retry a request after timeout/exception." With
  `RetryAttempts = -1` the limit `isAuthRequireExcepMaxTry` is not looked at;
  `MaxReauth` bounds such replies.
- After a wait, `getUntil` hands out connections to excluded servers:
  `ConnectionQueue::exclude` is called, not the one of the pool.

## 6. Redundant endpoints (`RedundancyManager`)

The first of `m_redundantEndpoints` is the primary, which pushes events; the
others are secondaries. State: the two lists of endpoints, and per endpoint its
`connected_` flag, its registrations (`m_numRegionListener`), its channel as its
server knows it and its notification thread; who holds
`m_redundantEndpointsLock` and how far it is in `maintainRedundancyLevel` or
`destroy` (`mrl`); `redundancy_semaphore_`; the history `overtaken`. A holder
of the lock handles one endpoint per step. Between its steps servers stop and
start, pings and requests fail or connect, and notification threads find their
channel broken: they mark the endpoint first and ask for `m_notifyReceiverLock`
afterwards.

Checked, whenever the lock is free: every endpoint is in one list, once, and no
more than asked for are redundant (`ListsPartition`); the first connected one and
no other is primary to its server (`PrimaryLeads`); an endpoint that counts as
connected is read by a thread (`NoSilentEndpoint`); a loss has released the
thread of `redundancy()` (`LossIsSeen`); the regions know when all endpoints are
gone (`RegionsKnow`). Once the servers stay up, events come from a primary that
is read (`EventsComeBack`); the lock is always released again
(`LockIsReleased`).

Two races the code loses are part of the model. The properties leave out what they
touched, and so show that there is no other way to lose an endpoint or the lock:

- `overtaken` (TcrPoolEndPoint.cpp:103), a history variable: a request connects to an
  endpoint between the loss of its channel and the next look at the lists, or the loss
  is noticed within `registerDM`, which marks the endpoint connected again. It counts
  as connected and nobody reads it, until it is registered with a new thread. Without
  the exception TLC shows `NoSilentEndpoint`, `PrimaryLeads` and `EventsComeBack`
  violated.
- `Deadlocked` (TcrPoolEndPoint.cpp:93): a thread that holds `m_notifyReceiverLock`
  waits for a notification thread that waits for this lock. Without the exception
  `LockIsReleased` and `EventsComeBack` are violated.

A failed ping is one step: `ThinClientPoolHADM::pingServerLocal`
(ThinClientPoolHADM.cpp:281) holds `m_redundantEndpointsLock` from before the ping
until the endpoint is unregistered.

`PrimaryLeads` and `EventsComeBack` leave out an endpoint that is registered twice
(`listeners`). One that did not become the primary, or whose queries failed, is
dropped without `unregisterDM` (ThinClientRedundancyManager.cpp:352); when it
comes back `registerDM` makes no channel and tells the server no role. It then
leads without being primary, against ThinClientRedundancyManager.cpp:392
"m_redundantEndpoints[0] is primary". Without the condition TLC shows this with
two servers and two faults (`MaxFaults = 2`).

Left out: locators, durable clients, the check of `netDown`, the path without a
pool (`createQueueEP`). What is sent to recover interest and queries is one
request that may fail.

## 7. Continuous queries (`ContinuousQueries`)

State: the state and the map of the queries, what each server runs, the holders
of five kinds of locks (`m_redundantEndpointsLock`, `m_mutex` of each query, the
lock of `m_cqQueryMap`, `mutex_` of the query service, `notification_semaphore_`)
and where each thread is. Threads create, execute, stop and close queries, by one
or all at once; a lost server is replaced and the running queries are executed on
its successor; the notification thread calls listeners, and closes a query whose
region was destroyed; the pool is destroyed.

Checked: every server with a queue of the client runs every query that is RUNNING
(`RunsEverywhere`), and none that is closed (`ClosedRunsNowhere`); no listener is
called after the service was closed (`NoLateListener`); every call returns
(`CallsReturn`).

Four races are ruled out in the run. What TLC shows with each:

- `"closed"` (CqQueryImpl.cpp:302): `execute` does not ask whether the query is
  closed, or being closed; `ClosedRunsNowhere` is violated.
  src/cppcache/include/geode/CqQuery.hpp:120 promises "@throws
  CqClosedException if this CqQuery is closed."
- `"bulk"` (CqService.cpp:357): `closeAllCqs` waits for `m_redundantEndpointsLock`
  with the lock of the map, which the redundancy thread wants for `getAllCqs`:
  `CallsReturn` is violated. So is `ClosedRunsNowhere`.
- `"destroy"` (CqService.cpp:348): `destroy` holds `mutex_` and waits for the
  notification thread, that waits for `m_mutex` of a query, whose `execute` waits
  for a recovery, that waits for `mutex_`: `CallsReturn` is violated.
- `"name"` (CqService.cpp:155): servers and `m_cqQueryMap` know a query by its name,
  so that the stop or close of a query ends the one that was created under the same
  name meanwhile: `RunsEverywhere` is violated (with four operations and one server).

`NoLateListener` holds with any of the races, which is proved (section 11).
`ClosedRunsNowhere` and `CallsReturn` are about schedules without them: an application
that does not share a query between threads that execute and close it, makes the calls
on all queries while nothing else happens, and executes nothing once it destroys the
pool.

`ClosedRunsNowhere` leaves out servers whose join was given up (`abandoned`): the
queries that had been executed there by then stay, and no later close reaches them.
`RunsEverywhere` leaves out queries during whose `execute` an endpoint was lost
(`partial`). Such a query is not RUNNING yet when the new secondary gets the
running ones, so that it is missing there after the next failover.

Other facts of the code that the model keeps: `setCqState` is a test and then an
assignment, so that STOPPED or CLOSING may overwrite CLOSED; `removeCq` goes by
name and may remove a newer query; an error of a secondary is overwritten by the
reply of the primary; a bulk operation stops at the first exception that is not
of the kind it catches.

Left out: several users of one pool, durable queries that are kept alive,
requests that time out, status listeners; a listener that throws something else
than a Geode exception, and one that calls the query service while the pool is
destroyed, which waits for ever; the preference of `boost::shared_mutex` for
writers.

## 8. Transactions (`Transactions`)

State: the transaction and the connection of each thread (thread-local in the
code), the idle connections of the pool, `m_TXs`, `m_suspendedTXs`, the TXState
of each transaction and its expiry task, the tasks of the timer, and where each
thread is. The calls `suspend`, `resume`, `tryResume`, `commit` and `rollback`
are as many steps as they touch shared state. The servers are external: per
transaction open, committed or rolled back. Histories say which transactions have
done something, had an operation fail, returned from `commit`, were lost, and
which connections took over at a resume (`worked`, `failed`, `done`, `lost`,
`moved`).

Checked: a transaction belongs to one thread or is suspended, and its TXState is
deleted once (`OnePlace`); no thread sleeps in `tryResume` while what it waits for
is suspended (`WaitersHear`); connections are not shared (`ConnectionsExclusive`);
a commit that returns was carried out (`CommitIsDone`); the expiry thread takes a
transaction by the timeout of its last suspension only (`ExpiryInTime`); no
transaction stays suspended for ever (`SuspendedEnds`).

Two races the code loses are part of the model, each with a history variable; the
first five properties are proved with both.

- `overtaken` (SuspendedTxExpiryTask.cpp:35): the expiry thread has found its task not
  cancelled when the transaction is resumed, and has not looked for it before it is
  suspended again or ended. It then takes the transaction before its time, or reads the
  id through a reference into the deleted TXState, which is modelled as the old id or
  that of a live transaction (`getId`). A transaction that is taken too early leaves its
  own task scheduled, which may do the same later. `ExpiryInTime` leaves out these tasks
  and no others; without the exception TLC shows it violated.
- `missed` (CacheTransactionManagerImpl.cpp:226): `suspend` schedules the task before the
  transaction is in `m_suspendedTXs`. A task that runs in between finds nothing and does
  not run again: without the exception `SuspendedEnds` is violated.

Two exceptions in the properties are what the code does otherwise:

- `failed` in `CommitIsDone`. An operation that fails leaves the thread without a
  connection, and `commit` returns without sending anything. Its comment
  (CacheTransactionManagerImpl.cpp:69) reads "tcr_dm is nullptr implies no cache
  operation is performed", and
  src/cppcache/include/geode/CacheTransactionManager.hpp:85 "If the commit
  operation succeeds, it returns after the transaction state has been merged with
  committed state". TLC: begin, an operation, an operation that fails, commit.
- `moved` in `ConnectionsExclusive`. A resume that has to go to another server:
  `doFailover` makes the connection that of the thread, and
  `setThreadLocalConnection` puts what the thread had, now the same connection,
  into the idle queue (ThinClientStickyManager.cpp:71). A refused failover, and one
  that deleted the connection, put it there too (ThinClientPoolDM.cpp:1637).

Other facts the model keeps: a failed resume and the end of a thread leave the
transaction in `m_TXs`, owned by nobody; a thread that waits in `tryResume` is not
woken by a commit or rollback, though
src/cppcache/include/geode/CacheTransactionManager.hpp:184 lists it.

Left out: pools with thread-local connections; the replay of operations, which
TXState.cpp:57 refuses; what a commit message applies to the regions; a second
failure inside `doFailover`, after which `getConnectionFromQueueW`
(ThinClientPoolDM.cpp:2321) may return a deleted connection. One-phase and
two-phase ends are one request (`Ends`); a successful `prepare` changes nothing
that is modelled.

## 9. Not modelled, and why

`components` in `PROJECT.json` lists every part. In short:

- Messages, serialization, PDX, configuration, statistics, logging, sockets and
  TLS, the .NET wrapper: encoding and I/O, no control of their own.
- The locator client, function execution, single hop metadata and the thread pool:
  requests whose outcome is a nondeterministic choice in `ConnectionPool`.
- Interest lists, eviction and overflow, idle and time-to-live expiry, and the
  life cycle of regions and caches have control of their own and no model. The
  first is one request that may fail in `RedundancyManager`. The entries models
  have neither eviction nor expiry of values, so what they show is for regions
  without these.
- The distribution managers without a pool, and several users of one cache.

The map covers a small share of the repository's lines: the control of the parts
above is a small part of the C++ client, which in turn shares the repository with
the .NET client, tests, examples and templates.

## 10. Runs, bounds and fairness

| run | instance | distinct states | checks |
| --- | --- | --- | --- |
| `entries_converge` | 1 key, 2 members, histories without invalidations, 2 tasks, 6 operations | 89,985 | `Converged`, `DeltaMeetsItsBase`, `TombstoneListExact`, `SizeExact`, `ExpiryTakesItsTombstone` |
| `entries_all_ops` | the same with all operations, 4 of them | 459,358 | `TombstoneHasTask`, `StampsNeverRegress`, `TombstonesGo` |
| `rollover` | window 3, versions modulo 16, 2 rollovers | 1,128 | `CheckIsOrder`, `OrderAcrossRollover` |
| `tracked_updates_kept` | 3 threads, the limits of the code, puts and creates, 6 operations, 5 changes | 1,044,265 | `TrackersCover`, `UpdatesKept` |
| `tracked_all_ops` | 2 threads, limits 2 and 2, all operations, 4 of them, 3 changes | 2,917,519 | `CounterReset`, `PlaceholderTracked` |
| `tracked_two_gets` | 2 gets, the limits of the code; violated | | `NoticesKept` |
| `events` | 1 source, 2 events, 3 channels, 1 failure, queues that survive and that do not | 198,226 | `DeliversOnce`, `ForgottenWasConfirmed`, `AllHandled`, `SourcesForgotten` |
| `redundancy` | 3 servers, redundancy level 1, 1 fault, 1 refusal | 1,029,924 | section 6 |
| `cqs` | 2 servers, 2 queries of one name, 2 threads, 2 operations, 1 fault | 999,650 | section 7 |
| `transactions` | 2 threads and the expiry thread, 2 transactions, 2 suspensions, 2 connections, 1 fault | 1,211,766 | section 8 |
| `pool` | 2 servers, 2 threads, 1 to 2 connections, 2 threads at work, 1 slip | 1,357,601 | `PoolSizeExact`, `OvershootBounded`, `NoLostWakeup`, `ClosedIsEmpty` |
| `pool_requests_end` | 1 thread, 1 reply that asks for authentication | 159,564 | `RequestsEnd` |

Why these are enough. One key: no operation relates two keys but `clear`, which
takes each alike. Two members: the comparison of stamps looks at two. Two tasks:
one that was dispatched and its successor. Three channels: the primary, a
successor, and one more while the thread of the first still has an event. Three
servers at level 1: a primary, a secondary and one to replace either. Two queries
of one name: the closed one and the one made after it. Two suspensions: one whose
task is late, and the one it would hit. Two connections: two transactions hold one
each, and one that was deleted is new to the pool again. Two threads meet at each of the locks; the
lock cycles named in section 7 need an application thread, the notification and
the redundancy thread.

Larger instances, checked once: `ContinuousQueries` with three operations, safety
only (3,062,020 states); `Transactions` with three connections (2,290,752), and with
three suspensions and no faults, safety only (339,269).

Each bound is a constant with `Max` in its name, or a finite set of identifiers
(`TaskIds`, `Conns`, `Histories`), declared with a comment. Runs with
`CHECK_DEADLOCK FALSE` are those whose bounds may be used up; the pool is checked
for deadlock. Symmetry is used where nothing distinguishes tasks or threads and no
liveness is checked.

Fairness:

- `VersionedEntries`: a task that is due is dispatched, and one that is dispatched
  gets the segment lock, which no operation keeps while it waits for something.
- `SubscriptionEvents`: servers send, time passes, a new primary is found, threads
  go on; weak fairness. The start of an acknowledgement is strongly fair: its
  thread runs again and again, and failures are bounded by `MaxFails`.
- `ConnectionPool`: each thread and the managing thread go on, and timeouts pass.
- `RedundancyManager`: the holder of the lock and each notification thread go on,
  the redundancy thread runs when it is released and by a timer, broken channels
  are noticed. Nothing is assumed about servers.
- `ContinuousQueries`: each thread that can go on does.
- `Transactions`: a call that has begun goes on, waiting times pass, and the timer
  and its thread run. That the application ever calls anything is not assumed.

## 11. What is proved

For every value of the constants that the named assumptions of the modules allow
(their `ASSUME`s say that sets are disjoint and bounds are numbers; TLC evaluates
them in the runs).

| theorem | states | assumes |
| --- | --- | --- |
| `VersionedEntriesProofs!TypeCorrect`, `TombstonesAreCollected` | types, `TombstoneHasTask` | |
| `VersionedEntriesProofs!StampsOnlyGrow` | `StampsNeverRegress` | |
| `VersionedEntriesProofs!EntriesConverge` | `Converged` | `VersionsKept` |
| `VersionedEntriesProofs!ListIsExact`, `ExpiryIsExact` | `TombstoneListExact`, `ExpiryTakesItsTombstone` | no `clear` |
| `VersionedEntriesProofs!DeltasFindTheirBase` | `DeltaMeetsItsBase` | `DeltasMeetValues`, no local puts |
| `VersionedEntriesProofs!SizeIsExact` | `SizeExact` | `CountsKept` |
| `VersionedEntriesProofs!CheckFollowsHistory`, `RolloverSound` | `CheckIsOrder`, `OrderAcrossRollover` of `VersionRollover` | `RolloverAssumption` |
| `TrackedEntriesProofs!TypeCorrect`, `CountersAreReset`, `PlaceholdersAreTracked` | types, `CounterReset`, `PlaceholderTracked` | |
| `TrackedEntriesProofs!UpdatesAreKept`, `TrackersAreKept` | `UpdatesKept`, `TrackersCover` | `TrackingSafe` |
| `SubscriptionEventsProofs!TypeCorrect`, `AcknowledgedTaken`, `ForgottenConfirmed` | types, `ConfirmedWasTaken`, `ForgottenWasConfirmed` | |
| `SubscriptionEventsProofs!AppliedOnce`, `ImplementsDelivery` | `HandledOnce`, `DeliversOnce` (the refinement) | `ShortOutages` |
| `ConnectionPoolProofs!TypeCorrect` | types, and who has a connection in hand | |
| `ConnectionPoolProofs!OvershootIsBounded`, `PoolSizeIsExact`, `NoWakeupIsLost`, `ClosedStaysEmpty` | the four invariants of the pool | |
| `RedundancyManagerProofs!EndpointsArePartitioned`, `LossesAreSeen`, `RegionsAreTold` | `ListsPartition`, `LossIsSeen`, `RegionsKnow` | |
| `RedundantEndpointsProofs!EndpointsAreRead`, `PrimaryIsFirst` | `NoSilentEndpoint`, `PrimaryLeads` | |
| `ContinuousQueriesProofs!TypeCorrect`, `ListenersEnd` | types, `NoLateListener` | |
| `TransactionsProofs!InOnePlace`, `WaitersAreWoken`, `ConnectionsAreExclusive`, `CommitsAreDone` | the four invariants of transactions | |
| `TransactionsProofs!ExpiresInTime` | `ExpiryInTime` | |

The inductive invariants, and why they are needed:

- *Entries.* `IndInv`: types; a tombstone of the map is listed (`TombstonesListed`);
  the task of a listed one is for its key, valid and outstanding (`ListedTasks`),
  so that two keys never share a task and freeing one leaves the others theirs.
  `ConvInv` adds to `Converged` that an entry that met nothing has no stamp, that
  an absent one met nothing, that a tombstone comes from a server (without
  `"localDestroy"`), and that only deltas are fetched. `StampsBounded` keeps the versions within the rollover
  window, where `checkForConflict` is an order.
  `ListInv`: only tombstones are listed, and a valid task is that of the listed one;
  this is what makes the expiry exact. `DeltaInv`: a value or tombstone of a server
  has the stamp of the change it comes from, so that the delta check meets the change
  the delta was computed from. `SizeInv`: `m_size` with the updates still to be made
  is the number of keys, modulo its width; each operation adds a key and counts one,
  takes one out and discounts it, or does neither (`SizeOp`).
- *Tracked entries.* `Shape` ties counters, placeholders and wrappers to trackers.
  `TrackInv`: operations under way remember different counts, below that of the
  entry once they were overtaken (`Tracked`); there are at least as many trackers
  as such operations, and more only once the counter reached its limit (`Numbers`).
- *Events.* `WireInv` and `BoundInv`: what is sent, received, in hand, known or
  acknowledged was made before. `AckInv`: what is marked as acknowledged is, or is
  in the request under way. `LateInv`: a source whose deadline has passed has
  nothing on its way. `Recognised`: an event that was taken is known to
  `EventIdMap` or cannot come again; `OneHand`: two threads never have the same
  event in hand. `HandledOnce` is inductive together with these. `NoGapInv`, for
  queues that survive: what is known, in hand, received or acknowledged was
  preceded by all earlier events. The refinement needs all of them (`OnceInv`).
- *Pool.* `Ahead`: `m_poolSize`, plus the connections being made, is at most the
  limit plus the number of threads. `Balanced` and `Slots` count connections in the
  queue, in hand and in the list of the managing thread; every action is shown to
  have one of a few effects on these counts. `NoLostWakeup` is inductive with
  `ClosedIsEmpty`.
- *Redundant endpoints.* `ListInv` says, for every stage of
  `maintainRedundancyLevel`, which part of the two lists its three temporary lists
  have taken over and what its counters count; what the loops of the code compute is
  proved by induction over the list, as a set of positions. `LossInv` and `KnowInv`
  extend `LossIsSeen` and `RegionsKnow` to the endpoints examined so far. `SilentInv`:
  the listeners, the thread and the channel of an endpoint agree, also while it is
  being registered. `FoundInv` and `RoleInv`: `isPrimaryConnected` means that a
  connected endpoint was kept before, and only that one has the primary's channel.
- *Continuous queries.* `TypesInv` ties the place of a thread to its operation, to
  the locks it holds and to the request under way. `QuietInv`: whoever delivers a
  notification holds `notification_semaphore_`, which `closeCqService` takes before
  the service ends.
- *Transactions.* `Shape` ties the step a thread is in to its transaction; `Home`
  adds to `OnePlace` that lost ones are listed and listed ones exist. Each action
  keeps, takes, gives, drops or begins one transaction, which are lemmas.
  `Commits`: what is committed is known until its thread cleans up, and a thread
  whose operations all succeeded has a connection. `Scheduled` and `Fired`: a task
  that is scheduled or has begun is the last one of its transaction, which is
  suspended or about to be, unless the task is `overtaken`.

Only model-checked: every liveness property (TLAPS 1.4.5 does not reason about
fairness), and `RunsEverywhere` and `ClosedRunsNowhere` of `ContinuousQueries`. A proof
of the first would have to count how many endpoints a request has lost before it gives
up (`attempts` is at least the number of servers), and to follow each query through a
recovery that began before it was RUNNING. The second needs the races that the run rules
out as a hypothesis. The induction theorems of the
library take an operator as a parameter, which the provers cannot instantiate;
induction over the positions of a list is stated with sets instead (`SetInduction`
of `RedundancyManagerProofs`).

## 12. Running it

In this directory, with the community modules on the path of TLC:

    tlc -workers 2 -config Transactions.cfg Transactions
    tlapm TransactionsProofs.tla

`PROJECT.json` names the module and the configuration of each run. No run takes
more than four minutes with two workers on a small machine. In `mutants` each
property of a run is paired with a definition and a plausible bug in it, for which
TLC finds the property violated.
