# TLA+ models of the Solace PubSub+ Go direct message receiver

This directory holds TLC-checkable TLA+ models of the concurrent core of
`src/internal/impl/receiver/direct_message_receiver_impl.go`
(`directMessageReceiverImpl`): delivery, termination and the cache request
registry, and topic subscriptions. It also models the flow callback maps
of `src/internal/ccsmp/ccsmp_flow.go`.

## The system

A direct message receiver is driven by four kinds of actor at once:

* **Transport threads** call `messageCallback` (lines 781-846) for every
  inbound message while the receiver's RX callback is registered. The
  callback pushes into `receiver.buffer`, a Go channel of capacity
  `backpressureBufferSize`. When the buffer is full it applies the
  backpressure strategy:
  * **DropLatest** drops the new message and sets the atomic `isDiscard`.
    The next pushed message takes the flag by CAS (lines 802-808).
  * **DropOldest** pops the oldest message (line 819), stores `isDiscard`
    (line 828) and does a *blocking* send (line 832). The consumer takes the
    flag by CAS when it pops (lines 744-747, 878-881).

  A send on a closed buffer panics. The deferred `recover` counts the
  message as discarded on termination.
* **The dispatcher goroutine** `run()` (lines 848-909) waits on
  `rxCallbackSet` (capacity 1) until `ReceiveAsync` installs a callback.
  It then loops: check `terminationNotification`, select on the buffer or
  on `terminationNotification`, call the callback. When it finds the buffer
  closed and empty, it closes `bufferEmptyOnTerminate` once (CAS on
  `bufferEmptyOnTerminateFlag`).
* **Application threads** call `ReceiveMessage(timeout)` (lines 704-754),
  which selects on the buffer, the timer (non-negative timeout only) and
  `bufferEmptyOnTerminate`, with a deferred buffer-empty signal. They also
  call `ReceiveAsync` (760-779), `Start` (161-223) and `Terminate` (260-339).
* **The session** raises a down event. `onDownEvent` runs
  `unsolicitedTermination` (341-395).

`Terminate` and `unsolicitedTermination` both:
1. unsubscribe;
2. unregister the RX callback;
3. offer `false` on `rxCallbackSet`;
4. close the buffer and set `bufferClosed`.

`Terminate` then races a grace timer against `bufferEmptyOnTerminate`. On a
timeout it closes `terminationNotification`, joins `run()` and drains the
buffer (`drainQueue`, 430-440). It returns an error if messages were left
undelivered; otherwise it tears down the cache (`teardownCache`).
`unsolicitedTermination` closes `terminationNotification` at once, drains
and tears down.

The lifecycle word (NotStarted, Starting, Started, Terminating, Terminated)
is kept by `basicMessageReceiver`, which is not under `src/`.

### Inventory

| Component | Source | State | Operations | Module |
|---|---|---|---|---|
| Lifecycle | basicMessageReceiver (spec.md 4.1) | state word | starting/started/terminate/terminated | `Lifecycle` (spec modelled) |
| Inbound buffer, backpressure | messageCallback 781-846 | buffer, isDiscard, bufferClosed | arrive, send, pop oldest, store flag, blocking send | `DirectReceiver` |
| Dispatcher | run 848-909 | rxCallbackSet, rxCallback, terminationNotification | wait callback, check termination, receive, callback, closed | `DirectReceiver` |
| Sync/async receive | ReceiveMessage 704-754, ReceiveAsync 760-779 | bufferEmptyOnTerminate(Flag) | call, take, no message, deferred signal; set callback | `DirectReceiver` |
| Termination | Terminate 260-339, unsolicitedTermination 341-395, drainQueue 430-440 | grace timer, terminationComplete | the steps above | `DirectReceiver` |
| Cache requests | 924-1182 | cacheResponseChan, cacheRequestMap, numOutstandingCacheRequests, cachePollingRunning(Chan) | submit (2 variants), poll, teardown | `CacheRequests` |
| Subscriptions | 130-133, 161-222, 341-380, 397-422, 476-702 | subscriptions list, three locks | Start's subscribe and rollback, add/remove (sync and async), cleanup, session down | `Subscriptions`, refining `SubscriptionSet` |
| Flow callbacks | ccsmp_flow.go 69-155 | two sync.Maps, flowID counter | create flow, start, stop, remove callbacks, destroy, message/event callbacks | `FlowCallbacks` |
| Builder, validation | 1191-1330 | none | configuration and string checks | not modelled |

## Modules

* **`Lifecycle.tla`**: the abstract lifecycle, the state word and its six
  transitions. It is written from spec.md 4.1 because its code is not in
  `src/`.
* **`DirectReceiver.tla`**: the detailed model. Every goroutine has its own
  program counter:
  * `startPc` for the Start goroutine;
  * `runPc` for run();
  * `ppc[p]` for each transport thread p;
  * `rpc[r]` for each ReceiveMessage caller r;
  * `asyncPc` for the ReceiveAsync caller;
  * `tpc` for the terminator, with `tkind` saying which termination path.

  One action is one atomic step of the code: a channel operation, an atomic
  load, store or CAS, or a run of code on goroutine-local data. A message is
  a record `[id, discard]`. The ids are only there to tell messages apart.

  Three history variables exist only for the properties:
  * `history` records deliveries and backpressure drops, in order.
  * `termDropped`/`drained` record messages discarded by termination.
  * `released` records the messages messageCallback returned false for.
    CCSMP frees those (lines 786, 798, 843).

  The backpressure strategy is a variable chosen in `Init` from the
  constant `Strategies` and never changed afterwards, as the builder fixes
  it. One run therefore covers both strategies.
* **`MC_DirectReceiver.tla`**: the TLC instance.
* **`CacheRequests.tla`**: the cache request registry (lines 924-1182).
  Its actors:
  * submitters `spc[s]`, each call either `RequestCachedAsync` (response
    on a returned channel) or `RequestCachedAsyncWithCallback` (response
    to the application's callback on the poller); `skind[s]` records which,
    and registration puts callback requests in `callbackReqs`;
  * the poller `ppc`;
  * the transport's response callbacks, one `TransportRespond(r)` per
    request it holds (`pending`);
  * the terminator `tpc`, which leaves Started and runs teardownCache.

  Submission is split where the code lets other goroutines in:
  1. the lock and the check with the increment;
  2. StartAndInit;
  3. the hand-over with a new poller;
  4. `setCachePollingRunning(true)` and the unlock;
  5. create;
  6. register;
  7. send.

  A Go panic ends the process: `panicked` records which send panicked, and
  every action is guarded by `Alive`. ProcessCacheEvent and
  CancelPendingCacheRequests belong to the transport, so they are modelled
  from spec.md 4.5 and the comments at lines 1130-1147:
  * processing removes the entry and runs its processor once;
  * cancelling a request the transport holds queues one event;
  * cancelling a request already answered may queue a duplicate.
* **`MC_CacheRequests.tla`**: its TLC instance.
* **`SubscriptionSet.tla`**: the abstract promise about subscriptions. It
  holds the set of topics the session has for this receiver:
  * one topic is added or removed at a time, while the receiver is live;
  * nothing changes after termination's cleanup;
  * cleanup and a failed Start only remove topics, best effort (a refused
    Unsubscribe is logged and its topic stays);
  * a session that goes down drops every topic, and nothing is added after.

  It reuses `Lifecycle` by `INSTANCE`. It is written from the comment at
  line 264 and spec.md section 5.
* **`Subscriptions.tla`**: the detailed model.
  * Start's loop over the startup list. Each `Subscribe` may fail, and so
    may the confirmation wait. The deferred rollback unsubscribes
    `subscriptionsAdded`.
  * Application goroutines `cpc[c]` run AddSubscription/RemoveSubscription.
    The Async variants do the first state check on the caller and hand
    the rest to a worker goroutine (`Workers`), so the caller can issue
    its next call at once. Each call does a state check, then takes `RLock` and checks again, then makes
    the transport call under `subscriptionsSynchronizationLock`, then
    updates the list under `subscriptionsLock`.
  * The terminator `tpc` runs `terminate()`, then `cleanupSubscriptions`
    under the write lock.
  * The fault: the session goes down (`up`). It drops the receiver's
    subscriptions and fails every later transport call. If Start has
    registered the down handler, the goroutine `dpc` runs
    `unsolicitedTermination`, which terminates a Started receiver without
    cleanup and without the write lock.

  The RWMutex is `readers` plus the terminator's "WaitLock" state: a
  waiting writer blocks new readers, as Go's does. `transport` is the set
  of topics the session holds for this receiver. It is mapped onto
  `SubscriptionSet` by `INSTANCE SubscriptionSet WITH topics <- transport,
  cleaned <- ...`. `cleaned` is true once cleanup has run or the session
  has gone down.
* **`MC_Subscriptions.tla`**: topics, callers and the calls each caller
  makes.
* **`FlowCallbacks.tla`**: `ccsmp_flow.go`.
  * Each creator goroutine takes a flow ID with the atomic add, stores its
    callbacks in both maps, and creates the flow, which may fail.
  * It then starts and stops the flow, and removes the callbacks and
    destroys the flow in either order. The flow's caller is not in this
    repository.
  * The core library's context thread makes a message or event callback
    in two steps: the `Load`, then the call.
* **`MC_FlowCallbacks.tla`**: its TLC instance.

Which action models which lines is recorded in `PROJECT.json` ("map").

### Abstractions

* Message payloads and the C message pointer are dropped.
* In `DirectReceiver`, `cleanupSubscriptions` is one step. Its
  interleavings with the subscription calls are `Subscriptions`' subject.
* In `Subscriptions`, each critical section of `subscriptionsSynchronizationLock`
  or `subscriptionsLock` is one step, since nothing else happens under
  them. A confirmation is folded into its transport call: an accepted call
  either changes the session or is refused by its confirmation, which
  leaves the session as it was. The list is updated either way, as lines
  527-537 and 501 run in that order. `cleanupSubscriptions` and Start's
  rollback log a refused Unsubscribe and go on (lines 403-419, 176-191),
  so each removes some subset of its topics. Two history variables serve
  the properties: `refused`, the topics some call or confirmation
  refused, and `overlapped`, the topics an add and a remove held the read
  lock for at once. The listener an async call reports to keeps no
  receiver state.
* In `FlowCallbacks`, each pair of `sync.Map` operations in one function
  is one step. No callback for a flow can arrive before
  `SessionFlowCreate` registers it, and none after
  `solClient_flow_destroy` returns.
* `teardownCache` is one step that sets `cacheTornDown`.
* A timer that may fire is a nondeterministic choice, because a Go timer
  fires at any later time. A zero or negative duration fires at once, and
  the model lets it fire in every case.
* Start's subscriptions are one step that succeeds or fails.
* Start's and Terminate's concurrent second callers are not modelled: the
  lifecycle lets one through and the others change nothing.

## Runs

| Run | cfg | Expect | Bounds | What it shows |
|---|---|---|---|---|
| delivery | DirectReceiver_Delivery.cfg | pass | both strategies, 1 transport thread, 1 receiver, capacity 2, 3 messages | conservation, ownership handed to CCSMP, drop notification, termination completes, buffered messages resolved |
| negative_grace | DirectReceiver_NegativeGrace.cfg | violation | grace period negative | Terminate(-1) times out at once (finding) |
| cache_teardown | DirectReceiver_CacheTeardown.cfg | violation | grace period zero | teardownCache is skipped when messages are undelivered (finding) |
| discard_race | DirectReceiver_DiscardRace.cfg | violation | capacity 2 | the next delivery after a DropOldest drop is untagged (finding) |
| receive_hang | DirectReceiver_ReceiveHang.cfg | violation | 1 message, fair | ReceiveMessage(-1) never returns after terminate-before-start (finding) |
| cache_requests | CacheRequests_Pass.cfg | pass | 2 submitters, ceiling 1, 3 requests | counter bounded and exact while Started, every accepted request answered, teardown returns |
| submit_teardown_race | CacheRequests_SubmitTeardownRace.cfg | violation | 2 submitters, 2 requests | a response callback sends on the closed cacheResponseChan (finding) |
| poller_restart | CacheRequests_PollerRestart.cfg | violation | same | a second poller panics on the closed cachePollingRunningChan (finding) |
| poller_leak | CacheRequests_PollerLeak.cfg | violation | same, fair | teardown misses a poller being started; the poller never exits (finding) |
| subscriptions | Subscriptions_Pass.cfg | pass | 2 callers adding and removing t2 (one blocking, one async), the startup topic t1 removed async, 2 workers, 4 calls, any call refused, one session down | list and session agree when no call is in progress, except on refused or raced topics; a terminated receiver leaves only those; refines `SubscriptionSet`; every call and Terminate returns |
| add_remove_race | Subscriptions_AddRemoveRace.cfg | violation | one caller, async add then async remove of 1 topic, 2 workers | the session keeps a subscription after Terminate (finding) |
| flow_callbacks | FlowCallbacks_Pass.cfg | pass | 2 flows | maps keyed alike; every callback reaches its own flow |

### Properties

* `MessagesConserved`: every message handed over is, exactly once, in the
  buffer, in a producer's hands, delivered, dropped by backpressure,
  discarded on termination, or drained.
* `DropNotificationNotLost`: while the buffer is open, an unreported drop is
  still held somewhere: the flag, a tagged queued message, or a producer
  about to store or push it.
* `DiscardTagsBounded`: no more tagged deliveries than drops.
* `MessageOwnership`: messageCallback returns false, so CCSMP frees the
  message, exactly when nobody else holds it. This covers the terminated
  check, the recovered panic on a closed buffer and the DropLatest refusal.
  A message returned false for is never queued, delivered or drained. Every
  message nobody owns any more was returned false for, except the one the
  DropOldest pop throws away (line 819). Nobody frees that one.
* `TerminationCompletes` (liveness): Terminating leads to Terminated.
* `BufferedMessageResolved` (liveness): a queued message is eventually taken
  once anyone is consuming or termination has begun.

Cache properties (`CacheRequests`):

* `CounterBounded`: numOutstandingCacheRequests never exceeds the ceiling.
* `OutstandingAccounted`: while Started, the counter equals the submitters
  holding a count, plus the requests the transport holds, plus the queued
  events.
* `RequestResolved` (liveness): every request the transport accepted is
  answered, unless a panic ended the process.
* `TeardownCompletes` (liveness): teardownCache returns, unless a panic
  ended the process.

Subscription properties (`Subscriptions`):

* `TypeOK` also bounds the list by the number of topics: the list update's
  check-then-append keeps one entry per topic even when two callers add
  the same topic.
* `ListMatchesTransport`: while Started on a connected session, with no add
  or remove in progress, the list and the session agree on every topic
  that was never refused and never had an add and a remove in flight at
  once. Calls on other topics may come in between, and t2 is added by
  both callers. This is what `cleanupSubscriptions` relies on. The raced
  topics are left to the add_remove_race run, since spec.md section 5
  puts the serialization of calls on one topic on the application.
* `ReleasedUnlessRaced`: however the receiver terminated (rollback,
  cleanup, session down, or Terminate before Start), the session keeps
  only refused or raced topics. A rollback that misses a topic it
  subscribed breaks it.
* `SubscriptionSetRefined`: the session's subscriptions change only as
  `SubscriptionSet` allows. Nothing is added after cleanup, whatever the
  stale first state check saw. Cleanup and a failed Start's rollback only
  remove subscriptions, best effort.
* `CallsAndTerminateReturn` (liveness): every call past its first check
  returns, and a Terminate waiting for the write lock finishes.
* `SubscriptionsReleased` (violation run only): a terminated receiver
  leaves no subscription on the session except those it was refused to
  remove. The add/remove race breaks it.

Flow callback properties (`FlowCallbacks`):

* `TypeOK` also requires the two maps to be keyed by the same IDs.
* `CallbackReachesOwner`: every callback the core library makes for a flow
  runs the callback registered with that flow.

The violation runs each check one property stating what the doc comments or
spec.md say. The findings in PROJECT.json explain each.

### Bounds

* A capacity of 2 is the smallest at which a consumer can pop between a
  DropOldest drop and the flag store.
* The delivery run lets `Init` pick either strategy, so DropLatest also
  runs with capacity 2 and 3 messages. The third message is refused and
  tags the next pushed message, if there is one.
* Three messages fill the buffer, force a drop, and leave messages
  queued when termination starts.
* The pass runs fix the grace period at "Positive": the code path after the
  timer is the same for every value, and the timer may fire in the model
  whatever the value.
* Cache: a ceiling of 1 with two submitters reaches the ceiling check, a
  full response channel (so teardown's pushes and the transport's callback
  wait), and duplicate cancellation events. Three requests let a request be
  answered, one be cancelled by teardown, and one be submitted across the
  teardown. Each call picks its API, so channel and callback requests
  mix in one run (276,681 states, about 2 minutes). A ceiling of 2 ran
  more than 10 minutes without finishing.
* Subscriptions: two topics, two callers, two workers and four calls
  (about 97,000 states, under a minute). c1's blocking add and c2's async add
  of t2 reach the list's duplicate check. c1's remove of t2 can hold the
  read lock together with c2's add of t2, which is the overlap the
  history records. c2's async removal of the startup topic t1 reaches
  the splice. Four calls are enough to have calls in progress when
  Terminate begins, so the write lock has to wait. Six calls took more
  than three minutes. The add_remove_race run shows the overlap breaking
  the release of subscriptions with one application goroutine that calls
  AddSubscriptionAsync and then RemoveSubscriptionAsync for the same
  topic.
* Flow callbacks: two creators can race for IDs, and a callback can be
  loaded before a removal.
* One receiver suffices for the pass runs: ReceiveMessage callers only
  compete for the buffer, which run() and drainQueue already do.

### Fairness

Weak fairness applies to the steps of goroutines already running: Start
after `starting()`, run(), the terminator, transport threads inside
messageCallback, ReceiveMessage callers inside the call, and the
ReceiveAsync store. The Go scheduler runs every runnable goroutine.

In `CacheRequests`, submitters inside a call, the poller and teardown are
weakly fair. So is the transport's answer to every request it accepted:
the transport times cache requests out itself, so an answer always comes.

In `Subscriptions`, a caller's steps after its first check, Start once
called, Terminate once called and the goroutine `onDownEvent` starts are
weakly fair. `FlowCallbacks` checks
only safety.

The environment gets no fairness: the application calling Start, Terminate,
ReceiveMessage or ReceiveAsync; the transport delivering a message; the
session going down.

The pass runs set `CHECK_DEADLOCK FALSE`, because a receiver that has
terminated with all its goroutines returned really does stop.

## Not modelled, and why

* cgo wrappers, the darwin include file and the dummy library: build glue.
* Builder and validation (lines 1184-1317): `BuildWithShareName` runs
  sequential checks on one goroutine: the share-name pattern, the strategy
  string, the capacity (at least 1) and the subscription types. It then
  copies the values into `construct`. Nothing in it is shared or concurrent.
  The validators it calls (`validation.StringPropertyValidation` and
  `IntegerPropertyValidation`) and the property defaults are not under src/.
  Their behaviour on case, type and width cannot be read from this
  repository. `DirectReceiver` starts from what a successful Build
  produces: a strategy from `Strategies` and a `Capacity` of at least 1.
* Logging, metrics and error wording.

## Plan

1. Done: `Lifecycle`, `DirectReceiver`, `MC_DirectReceiver` and their runs.
2. Done: `CacheRequests` and `MC_CacheRequests`, with the four cache runs.
3. Done: `Subscriptions` refining `SubscriptionSet`, with the pass run and
   the add/remove race.
4. Done: `FlowCallbacks`.
5. Done: `MessageOwnership`, on who frees each message the transport hands
   over, and the hazards at lines 768 and 798.
6. A composed `ReceiverSystem` that joins `DirectReceiver` and
   `CacheRequests` at `teardownCache`, and `DirectReceiver` and
   `Subscriptions` at Start's failure path. The aim is to show hazard :193:
   a failed Start leaves queued messages unfreed.
7. An abstract bounded-buffer spec, with `DirectReceiver`'s buffer shown to
   refine it for one producer. Hazard :832: with two transport threads the
   DropOldest send can block (spec.md 4.2 and 5 allow several delivery
   threads; the comment at lines 830-831 assumes one).
8. Hazard :153, a down event during Start. `onDownEvent` starts a goroutine
   whose `terminate()` may meet a Starting receiver. If that call refuses,
   as `Lifecycle` reads spec.md section 4.1, and Start then succeeds, the
   receiver stays Started on a dead session. In `MC_Subscriptions`, the
   liveness property "down and Started leads to Terminated" fails in 12
   steps. It is not yet a run, because it rests on how
   `basicMessageReceiver` behaves. That code is not under src/.
