# A TLA+ verification of the ONG gateway

ONG is an ETSI M2M gateway: a service capability layer (GSCL) in Java on OSGi,
C libraries it shares with its drivers, and drivers for field buses. This
directory holds TLA+ models of the parts whose correctness depends on
interleavings, timers and failures, the TLC runs that check them on small
instances, and TLAPS proofs for every value of their constants.

Check a run with `tlc -config X.cfg M` (`PROJECT.json` lists module and cfg of each),
a proof module with `tlapm M.tla`.

## 1. Inventory

| Component | Source | State it keeps | Operations | What is hard |
|---|---|---|---|---|
| Subscription manager | `gscl/scl.app.me` `mem/SubManager`, `Sub*Op` | one state of 14, retry counter, two timers, requests in flight | create, update, delete, resource updated/deleted, confirms, timeouts | confirms, timers and requests in any order; retries; partial failure |
| Subscriptions of a resource | `mem/SubsManager` | map of managers, merged filter | add, remove, resourceUpdated, resourceDeleted | exceptions in the middle of the loop, limits |
| Registration | `impl/Registration` | registration state, retry timer, contact list | register, refresh, deregister, confirms | retries over several contacts, stop while pending |
| Transactions | `model/SclTransaction`, `TransientOp`s | modifications, transient operations | prepare, batchModify, postCommit, rollback | failure between steps, rollback of unprepared operations |
| Content instances | `res/ContentInstances`, `mem/CisChild*Op` | instance count, age timer | create, delete, timeout | timer replaced under an attribute name, eviction at the limit |
| Points of contact, notification channels | `mem/M2MPocsManager`, `NC*Op` | online flag of contacts | create, update, connectivity | changes while requests are routed |
| SCL manager | `impl/SclManagerImpl` | everything above, under one monitor | do*Indication, confirms, timeout | order of events waiting for the monitor |
| M2M layer | `gscl/m2m` | sessions, requests | createRequest, send, timers | request time-out against late answers |
| SONG container | `gscl/song` | sessions, timers, transactions | dispatch, timers, invalidate | timer task against cancel, session against message |
| HTTP binding | `gscl/song.binding.http` | connections, long polls | long polling server and client | reconnection, time-outs, messages between two polls |
| CoAP binding | `gscl/song.binding.coap` | native context | send, callbacks | I/O |
| Backend | `gscl/backend` | endpoints, thread pool, three queues, task pool | register, send, destroy | threads come and go while exchanges are queued |
| Concurrent queues | `gscl/util` `concurrent` | ring buffer and wait set | offer, take, poll | single notify, barging, time-outs, index wrap-around |
| Configuration admin | `gscl/cm` | configurations, dispatcher thread | update, deliver, stop | dispatcher thread detaching while an update is queued |
| Storage | `gscl/storage*` | documents | create, delete, batchModify, search | failing transactions |
| Log, shells, shutdown hook, jxo | `gscl/...` | | | I/O and data transformation |
| rtbase, libHttpSubsMgmt, libSongOverHttp | `common/` | message queues, subscriptions, HTTP transactions | | callbacks and time-outs in C |
| AZAP UART buffer | `drivers/AZAP/lib` `uart_buf_control.c` | circular buffer, parser state | put, get, getNextZNPMsg | wrap-around, frames cut by reads, noise on the line |
| AZAP request manager | `request_manager.c`, `request_context.c` | pending and postponed requests, their time to live | API calls, answers, AF_DATA_CONFIRM, tic | limits of the chip, callbacks that re-enter, late, lost and duplicated answers |
| AZAP start procedure | `znp_start_sm.c` | automaton, counters of awaited answers | start, processZnpMsg, watchdog | resets, stale answers, lost commands |
| AZAP port context | `port_context.c` | TTY descriptor, the three above | connect, disconnect, startZnp, stopZnp, poll callback | the dongle is unplugged at any time |
| AZAP API and formatting | `azap_api*.c`, `format_znp*.c` | | | formatting and parsing |
| xo, dIa, libcoap, other drivers | `common/`, `drivers/` | | | encodings, hardware, third-party code |

How they interact. A request reaches the SONG container through a binding and is
handed over by a backend delivery channel to the thread pool; a pool thread
enters the SCL manager, which handles every indication, confirm and timeout
under one monitor. An indication builds an `SclTransaction`: `prepare` changes
the memory objects, `batchModify` the storage, `postCommit` starts timers and
notifications. Updates of a resource go to its `SubsManager`, which asks each
`SubManager` whether to notify now; a notification is an M2M request whose
confirm (an answer or a 10 s time-out) comes back to the `SubManager` later.
Timers fire on timer threads and wait for the same monitor.

The ZigBee driver is a process of its own with one thread. Its main loop polls the
TTY of a CC2531 dongle (`portContextRequestPollCb` fills rx and drains tx), calls
`azapClockMs` (`processRxMsg`: reconnect, or take the next message from rx and give it to
the start procedure or to the answer handlers) and `azapClockSc` (watchdog of the start
procedure, tic of the request manager). Clients call the API from the callbacks.

What makes them correct. Subscriptions: no update lost, no two notifications at
once, the map of managers, the storage and what the contact has been told agree,
every ending finishes. Thread pool: every accepted exchange is processed exactly
once, tasks and threads are neither lost nor duplicated, nobody sleeps beside
work, destroy returns. Queue: FIFO, bounded, no lost wake-up. UART: what the
dongle sent is what the parser returns, in order, and noise does not block it. Requests:
within the limits of the chip, one callback each, by the right answer, none for ever.
Start: it ends, a success is one, a lost dongle is started again. Registration,
transactions and the others: see the plan.

`PROJECT.json` lists the hazards at their lines, with the properties that would
catch them or the reason why none does yet.

## 2. Modules

| Module | Models | |
|---|---|---|
| `SubManager` | one subscription: `SubManager.java`, `SubCreateOp`, `SubUpdateOp`, `SubDeleteOp`, `SubsDeleteOp`, the entries of `SubsManager`, the timers and confirms that reach it | `MCSubManager` adds the symmetry set |
| `SubManagerProofs` | the inductive invariant of `SubManager` and eight theorems from it | |
| `BoundedQueue` | abstract: what the queues promise | |
| `CircularArray` | `CircularArray.java` and `ExternalCircularArray.java` (same code, other monitor) | implements `BoundedQueue` |
| `CircularArrayProofs` | four theorems, the refinement among them | |
| `ThreadPool` | `ThreadPoolExecutor`, `ThreadExecutor`, `BackendRunnable` on three queues | |
| `ThreadPoolProofs` | its inductive invariant and six theorems | |
| `ByteFifo` | abstract: what a `uartBufControl_t` promises | |
| `UartBuf` | `uart_buf_control.c` and the read side of `portContextRequestPollCb` | implements `ByteFifo`; `MCUartBuf` gives bytes and frames |
| `UartBufProofs` | three theorems, the refinement and `NothingLost` among them | |
| `RequestManager` | `request_manager.c`, `request_context.c`, and their callers in `port_context.c`, `azap_api_impl.c`, `azap_api.c` | `MCRequestManager` gives the kinds of requests |
| `RequestManagerProofs` | its inductive invariant and four theorems | |
| `ZnpStart` | `znp_start_sm.c`, and connect, disconnect, startZnp, stopZnp, processRxMsg of `port_context.c` | |
| `ZnpStartProofs` | its types, with what may be in the transmit buffer | |

### SubManager

The record `sub` holds the fields of the Java object that control it (`state`,
`nbRetry`, `timerId`, `expirationTimerId`), the timers the container runs for it
(`running`), its requests in flight, and two history fields: the last version of
the resource whose notification was confirmed or given up (`settled`), and how many
EXPIRED notifications were sent. `fired` holds timers whose task has started:
`ServletTimerImpl.run` calls the listener and waits for the SCL manager's monitor,
and `cancelTimer` no longer stops it. So a cancelled timer may be delivered, and
`timeout` takes any timer other than the current expiration timer for the retry
timer. `registered`, `stored` and `resource` say whether the `SubsManager` has the
manager, the storage has the document and the resource exists.

One action per handler: `Create`, `Update`, `Delete`, `ResourceUpdated`,
`ResourceDeleted`, `Confirm`, `TimerFires`, `Timeout`. Operators named after the
methods (`Retry`, `SendNotify`, `RetrieveAndSendNotify`, `SubscriptionExpired`...)
take the manager in the middle of the handler and give its final value in
`sub'`, because the code nests them: a failing send inside a timeout calls `retry()`.
`Faults` chooses which exceptions may happen: `send`, `retrieve`, `storage`, `xo`
(logged by `sendErrorNotify`) and `encode` (logged by `SubsManager.resourceUpdated`).

Abstracted: the clock (whether the minimal time has passed is a free choice, a
timer may fire at any time), the representation, filters (`ResourceUpdated` is an
update that matches), media types. `NOT_CREATED` is the time before the object
exists. A creation that is rolled back leaves nothing behind and is not a step.

### CircularArray and BoundedQueue

`pc` says where each consumer is: out of the queue, in the wait set, notified,
or woken by a time-out or spuriously. A call is one step up to `wait()`; `Resume` is
the rest of the loop after the monitor is reacquired. `queue` is the refinement
mapping: the objects in the slots from `readIndex` on. A notified thread that
is also interrupted returns normally from `wait()`, as the Java memory model has it.

### ThreadPool

Every synchronized method is a step, `getRunnable` one step per stretch between two
waits. The gap in which a thread has got null from `getRunnable` and has not yet
called `removeThread` is a state of its own. `end` of `ThreadExecutor` is a plain
field: a thread told to stop may not see it at the head of its loop, and `GetRunnable`
is allowed then. The queues are sequences of bounded length, which is what
`BoundedQueue` allows; the three share the executor's wait set. `destroy` is
`Close`, then one `StopThread` per thread, each once the previous one is joined, then
`Destroyed`. Exchanges still queued are dropped, as in the code.

### UartBuf and ByteFifo

`bufHead`, `bufTail` and `pBuffer` are the fields of the C structure, and `put` and `get`
have its case distinctions (one or two `memcpy`). The parser goes one turn of its while
loop per step; `rxBusy` keeps reads out of a call, since one thread runs both. A block that
does not fit is lost, as in the poll callback. `read()` returning -1 into an 8-bit
variable is `ReadFails`: 255 zero bytes are put. The refinement mapping of `Fifo` gives
the stored bytes as a sequence (`Content`) and everything taken out so far (`taken`).
`FiveSecondsPass` stands for the clock. Bytes are a small set of numbers with the start
of frame among them, so that data may look like a start of frame. The FCS is a byte
like another: a wrong one is only traced by the code. The histories `sent` and `delivered` are
sequences of bytes, `sentEnds` and `deliveredEnds` the positions in them where a frame
ends, so that `NothingLost` can say that messages are cut where frames were.

### RequestManager

A request is numbered by its API call. `where` says in which list its context is and
`rank` in which order the list has it. A tic is cut into one step per list element,
because `callbackOnFailure` runs client code in the middle of `list_for_each_safe`:
`link` and `pos` are the two cursors, and `sendRequest` is possible while a callback
runs. `room` says whether a frame is written: a frame that can be made may find tx full, a
bounded number of times, and a payload that is too long is refused whenever it is tried
(`long` by `znpSendAfDataRequest` or `znpSend`, `huge` by `znpSendZclCommand`, before it
takes a transaction identifier). `answer` is an answer to a request
the dongle has got, a success or a failure, at any time after it, so also late or
duplicated; `answerEp` is the end point it is matched with, which a Simple_Desc_rsp has
only when it is a success. `restart` is
`stopZnp` and `startZnp` under the requests. A send failure of a request without an
expected answer dereferences NULL in the code and ends in the phase `crashed`. Kinds of
requests carry what the code compares: type, node, end point, cluster and command,
ZDO or ZCL, whether an answer is expected, and what becomes of the payload (`Sizes`).

### ZnpStart

One operator per `process...` function, called `process...` too; `processZnpMsg` chooses by
the state and `processRxMsg` is the action. tx is counted in commands, of which those
that do not fit are lost (nobody looks at what `znpSend` returns, except
`registerEndPoints`). The dongle answers commands in order, forgets its registrations when
it resets, and may, as a bounded number of faults, refuse or ignore a command, answer
later than the watchdog or lose its power; of what it had sent any part may have been
read. The clock is abstracted: the watchdog may bite when nothing is on its way, or as
a fault when something is.

## 3. Runs

| Run | Checks | Result |
|---|---|---|
| `SubManager_safety` | types and seven safety properties, all faults, 2 updates, the code's 3 retries, 4 timers, 3 requests | holds, about 152,000 states |
| `SubManager_liveness` | `UpdateSettled`, `EndReached`; send, retrieve and storage faults, 2 retries | holds, about 161,000 states |
| `SubManager_deleted_is_true` | "Subscribed resource has been deleted" is said only when it is so | violated |
| `SubManager_expiration_replayed` | an expiration is given up only after its notification was sent again | violated |
| `SubManager_initial_notify` | a retry timer is not ignored while nothing is in flight and there is something to notify | violated |
| `CircularArray` | types, slots, wake-ups, the refinement, `WaitersServed`; capacity 2, 2 values, 3 consumers | holds, about 200,000 states |
| `ThreadPool` | six invariants, `AcceptedIsProcessed`, `DestroyReturns`; queues of 2, 1 to 2 threads, 2 senders, 3 sends | holds, about 184,000 states |
| `ThreadPool_discard` | an exchange that is not transferred is reported to the sender; 1 thread, 8 sends | violated |
| `UartBuf` | types, `NothingLost`, the refinement `BufferIsFifo`, `FramesArrive`, `NeverWedged`; buffer of 5 bytes, reads of up to 3, 2 frames, 1 fault | holds, about 783,000 states |
| `RequestManager` | types, `WithinLimits`, `NoCallbackLostOrDoubled`, `AnswersTheRightRequest`, `EveryRequestEnds`; 3 requests of 7 kinds, two with payloads too long, limits 2, 2 and 1, two answers, one frame that finds tx full, one restart | holds, about 529,000 states |
| `RequestManager_ttl` | a request with `AZAP_REQ_TTL_START_AT_API` ages wherever it waits | violated |
| `ZnpStart` | types, `SuccessMeansConfigured`, `StartCompletes`, `LostTtyRestarts`; 2 end points, 1 callback, 1 device information, 5 commands in tx, one fault | holds, about 394,000 states |

Why the bounds are enough. Subscriptions: two updates give one in flight and one
behind it; the third of a kind adds nothing, since the state only remembers that
there is a newer one. At most one normal and one final request are in flight
(`OneNotifyAtATime`), so three ids leave a spare. Four timers are an expiration
timer, a retry timer and two stale ones; more stale timers at once are cut off by
that bound (a handler that needs a timer has to wait until an id is free), and the
proofs cover any number. Liveness takes two retries and three
timers to keep the graph small, without symmetry. Queue: capacity 2 wraps around an
array of 3 slots and is full and empty; three consumers are one that waits, one that
is notified and one that barges in. Pool: two threads are the smallest pool in
which one expires while another runs; three sends overflow a queue of 2 whose threads
have not looked yet; the discard run needs as many sends as there are tasks and one more
(3 * 2 + 1 + 1). UART: the buffer holds less than a frame with data, so that blocks end at its
end, wrap and are refused; one frame has data that looks like a start of frame.
Requests: the chip's limits 10, 3 and 1 become 2, 2 and 1. Two requests to
one node fill the dongle, so that a third, be it to the other node, is postponed, and a tic
may end before it looks at the postponed requests; the third is also the one that a callback
issues beside two others. Two answers are a late or duplicated one and that of the
request it is mistaken for. The per-node limit
coincides with the total, and the end point limit is met only together with the
doublon test: instances that tell all three apart, or with a fourth request, take
several million states. The proofs of the safety properties cover all of them.
Start: two end points tell the first registration from the last; one fault
anywhere gives a stale, lost or late message in every state, and tx holds one command
more than the longest burst.

The five violations are findings (`PROJECT.json`):

1. An unsuccessful confirm in `ST_EXPIRING_PENDING_NOTIFY_WAITING_RETRY` leads to
   `ST_DELETING_WAITING_RETRY`: the contact is told that the resource was deleted.
2. The retry of an expiration deletes the document again, fails because it is gone,
   and so never sends the notification again.
3. When the initial notification cannot be built, its retry timer fires in a state
   that ignores it: after the timeout nothing runs or is in flight that would send it.
   (With the state set to `ST_PENDING_NOTIFY` before the retrieval the run passes.)
4. `ThreadPoolExecutor.send` throws an exchange away and returns normally when the
   task pool is exhausted.
5. `requestContext_t_tic` compares the TTL mode with the time to live: a postponed
   request never ages, though `azap_types.h` has a mode in which it should.

Two more weaknesses of the request manager are in the model and not in a run of their own;
the properties name them as exceptions, and `PROJECT.json` has them with the hazards:

- A Simple_Desc_rsp that reports a failure is matched with end point 0, that is with any:
  it completes the last SIMPLE_DESC request of the node, whichever it answers.
- A request whose payload is too long for a frame is refused at once when it is tried at
  once, but when it is postponed first it stays in its list for ever: every try fails, it
  does not age, and its client is told that it was accepted and is never called back.

Deadlock. `CircularArray` is checked for deadlock. A subscription may be over, and
a pool may have used up its bounded sends or be destroyed, a dongle need not send and
a client need not call, so their cfgs say
`CHECK_DEADLOCK FALSE`.

### Fairness

`SubManager`: weak fairness of each timer's firing and handling and of each request's
confirm. The timer thread runs its tasks and the monitor is never held for ever;
`request.send(10000L)` guarantees a confirm, if only a time-out. API requests are not
fair: nobody has to update or delete anything. The `encode` fault is left out of the
liveness run because the code does stay in `ST_PENDING_NOTIFY` after it (a listed
hazard). `EndReached` ends in EXPIRING or DELETING with nothing in flight, as well as in
DELETED: a manager that ends without a final notification stays there, unreferenced.

`CircularArray`: weak fairness of `Resume`: a thread competing for the monitor gets it.
No fairness of producers, other consumers or time-outs.

`ThreadPool`: weak fairness of each thread, each sender inside `send` and of `destroy`
once called; an endpoint's `process()` returns. Waits need not time out.
`AcceptedIsProcessed` needs a minimum of one thread: with 0 both threads may be leaving
when the exchange is queued (a listed hazard; the shipped configuration has 4).

`UartBuf`: weak fairness of the parser's calls; strong fairness of a read that
is possible, since the poll comes between any two calls of the parser and the call in
progress disables it in the model only. The dongle and the line owe nothing. `FramesArrive`
is about clean streams. Time is not fair there (`FairSpec`): the five seconds need never be
over, so a parser that waits for a byte too many is not saved by its own time-out.
`NeverWedged` is about all streams and needs the time-out: it assumes that time passes
(weak fairness of `FiveSecondsPass`) in the property itself.

`RequestManager`: weak fairness of the clock's steps, that is, `azapClockSc` is called every
second and returns. No answer, confirm or client is fair. tx is full a bounded number of
times: the TTY drains it. `EveryRequestEnds` is about the requests a frame can be made of,
beside the others, which may stay postponed for ever.

`ZnpStart`: weak fairness of the main loop's steps, of the watchdog when nothing is on its
way, and of a plugged dongle. Nobody has to plug a dongle, and `StartCompletes` promises
nothing for one that is not there. `SuccessMeansConfigured` excepts a loss of power
during the procedure: answers already read are then counted for registrations the dongle
has forgotten, and the code does report a success (a listed hazard).

## 4. Proofs

`SubManagerProofs` proves `IInv` inductive for every `MaxRetry > 0`, every set of timer
and request ids, any number of updates and any set of faults, and from it
`TypeOK`, `RegisteredIffActive`, `OneNotifyAtATime`, `WaitingHasTimer`, `DeletedIsQuiet`,
`NoLostUpdate`, `ToldExpiredOnlyWhenGone` and the action property
`EndIsFinal`. The assumptions are those of `SubManager`: `NoTimer` is no timer id,
`Faults` a set of the five faults. The properties are not inductive as they stand;
`IInv` adds

- `RequestsByState`: which requests may be in flight in which state. A normal request
  only while the state awaits one, a final one only in the ending states that sent it.
  Without it a stale confirm could move any state.
- `UpToDate`: the notification a `PENDING_NOTIFY` manager awaits carries the last
  version, so that its confirm settles the last update.
- an update behind a notification in flight leaves `nbRetry` at -1, so that `retry()` never
  gives up in `PENDING_NOTIFY_AND_NOTIFICATION`.
- the manager of a subscription not yet created has nothing stored.

The handlers nest, so the argument goes through two predicates: `Ready`, what a handler
guarantees of the manager it passes to `retry()` and to the operations that send, and
`Result`, what it gets back. There is one lemma per operator (`DeferInv`, `DeliverInv`,
`RetryInv`, `SendNotifyInv`, ...), one per action, and `NextInv` puts them together.

`CircularArrayProofs` proves, for every capacity of at least 2 and every finite set of
consumers, `TypeOK`, `SlotsMatchIndices`, `NoLostWakeUp` and `ImplementsQueue`. The
first lemmas replace `%` by a comparison (`NextIndexIs`, `CountIs`, `SlotIs`); `RingSteps`
says that every step leaves the ring alone, puts or removes. `NoLostWakeUp` is inductive
together with the types: an accepted offer adds one object and one notified consumer,
or leaves nobody waiting; a removal takes one object and at most one notified
consumer away; a notified consumer goes back to wait only when the queue is empty.
The refinement maps each put to `Accept` (`AppendIs`) and each removal to `Take` (`TailIs`).

`ThreadPoolProofs` proves, for any finite set of threads and of senders, any number of calls of
`send`, queues of at least 2 and any minimum and maximum of threads, `TypeOK`,
`RunnablesConserved`, `ThreadsCounted`, `WaitingCounted`, `ProcessedOnce` and
`NoSleepBesideWork`. Assumed: threads are at least as many as the maximum, and the sets are
finite. The four counting properties are proved together with

- `WaitingInv`: `threadWaiting` is never below the number of threads in the wait of
  `getRunnable`. An interrupted thread (destroy) leaves it too high, so `WaitingCounted` alone, which
  speaks of the time before destroy, does not bound it afterwards.
- `ShapeInv`: only a closed executor stops threads, queues are within their size, a call of
  `send` holds an exchange that was handed over, a running thread has one, and an exchange
  not yet sent has no outcome. Without it a task could be put back twice.

Every step moves one thread, or one sender, from a state to another. `NbInChange` and its
like say what that does to a count, `StartThreadIs` and `NotifyIs` what starting or notifying
a thread does, and each action adds the changes up.

`RequestManagerProofs` proves, for any limits, any kinds of requests, oversized ones included, and any number of requests,
answers, restarts and full buffers, `TypeOK`, `WithinLimits`, `NoCallbackLostOrDoubled` and
the action property `AnswersTheRightRequest`. Assumed: `KindsAssumption`, what the calls of `sendZdo`
and `sendZcl` pass (a type is ZDO or ZCL, and only three ZDO requests have an end point).
`IInv` adds

- `CursorInv`: the two cursors of `list_for_each_safe` stay in the list that tic walks
  through while a callback runs client code. That is why no element is skipped or freed twice.
- `TimeInv`: a listed request has time left unless it is the one being failed, so it
  times out once.
- `DoublonInv`: no two pending requests agree in type, node, cluster, command and end point.
  It is what makes `removePending`, which takes the last match, take the right one when
  the answer says which one it answers (`identifies`): it names the end point, or its type has
  none, or it could be meant for no other. The code does not have the property without
  that proviso.
- `RankInv` and `NewInv`: the lists have a first and a last element (by `LeastNumber`, from
  the well-founded order of the numbers), and a request that was not made is in none.

`UartBufProofs` proves, for every size of the buffer that holds a frame's data and FCS, every
set of well-formed frames (`FramesAssumption`: SOF, then the length of the data, then that much),
any cutting into reads and any number of faults, `TypeOK`, `BufferIsFifo` and `NothingLost`.
`PutAppends` and `GetRemoves` show that the two branches of `put` and of `get` append
to and remove from `Content`; the refinement and the types follow for every step (`StepBuffer`).
`NothingLost` needs in addition

- `FrameInv`: `sentEnds` cuts `sent` into frames, each of which begins with SOF and is as long
  as its length byte says.
- `SyncInv`: on a clean line, what was returned ends where a frame ends. So the parser,
  when it looks for a start of frame, sees one, and never skips a byte; and the length it has
  read is that of the frame it is in (`InStep`).

`ZnpStartProofs` proves `TypeOK`, for any sizes and number of faults: tx never holds more than
`TxSize` commands and `respExpected` never goes below zero. That the dongle registers only what
exists needs `TxInv`, the commands in tx are well formed.

The invariants were checked with TLC on the instances of the runs before they were proved.

Only model-checked:

- `SuccessMeansConfigured` of `ZnpStart`. It relates what the dongle has registered to
  every answer and command on its way, over two cycles and any number of abandoned attempts;
  no inductive invariant for it is known, and it is claimed for a bounded number of faults:
  one in the run, and two in a longer check of the same instance (5.25 million states).
- all liveness (`UpdateSettled`, `EndReached`, `WaitersServed`, `AcceptedIsProcessed`,
  `DestroyReturns`, `FramesArrive`, `NeverWedged`, `EveryRequestEnds`, `StartCompletes`,
  `LostTtyRestarts`): reasoning under fairness and with ENABLED is out of the prover's reach.

Induction over data and RECURSIVE operators are out of its reach too; the models use none.

## 5. Plan

Done: subscriptions, queues and thread pool of the GSCL; UART buffer, request manager and
start procedure of the ZigBee port. Next, in this order:

1. Proof: an invariant of what is on its way between port and dongle that implies
   `SuccessMeansConfigured`, or the number of faults that breaks it.
2. `HttpSubs`: `libHttpSubsMgmt`, the client side of a subscription. Its hazards: a
   subscription is freed after a refused re-subscription while it is still in the list, or
   after an unsubscription while another answer is pending; a failed unsubscription is
   said to be tried again and is not.
3. `Registration`: the registration state machine, its retries over several contacts,
   stop and deregistration while a request is pending; safety and liveness.
4. `SclTransaction`: prepare, batchModify, postCommit and rollback over several
   transient operations, with the content instance age timers (read under one attribute
   name and written under another) and the subscription operations as instances; the
   abstract specification is "all or nothing".
5. `SubsManager`: several subscriptions of a resource, the limits, an exception in the
   middle of the loop; a clock for the minimal time between notifications.
6. `AsyncDispatcher` on `BoundedQueue` (an update queued while the thread detaches, a full
   queue, stop under the monitor) and `BackendService` on `ThreadPool` (unregister under
   the monitor, the endpoint map read without it).
7. The three AZAP modules composed: the bytes of `UartBuf` as the messages of the other two.

## 6. Not modelled

Most of the repository's C code is third-party (sqlite3, libcoap), generated
(the xo dictionaries) or encoding and mapping of data (xo, dIa, the iec61131, watteco, knx,
modbus and wmbus drivers), so the models cover a small share of its lines.
Encodings (xo, EXI, dIa, HTTP and CoAP parsing), logging, shells, native bindings,
the other drivers and third-party code: data transformation or I/O, without protocol state that a
model checker would add anything to. In modelled components: wording and layout of
messages, `print*` methods, statistics, `setMinThreads` and `setThreadExpiration`
(never called), and Java Errors. Of AZAP: formatting and parsing of ZNP, ZDO and ZCL
messages, statistics, the search of the TTY, the list of end points, memory exhaustion.
