# MangoTruth in TLA+

TLA+ modules, TLC models and TLAPS proofs for the detection pipeline of
MangoTruth: the Go core server, the broker and the Python compute service.
Paths below are relative to the repository (`core/...` is `src/core/...` here).

## 1. The system

A client submits a text with the name of a detector and later asks for the
verdict. The core keeps one row per request and passes the request over RabbitMQ
to the compute service, which runs the detector and sends the result back.

```
 client --HTTP--> handlers --engineFeed--> engine --computeSink--> router --request_queue--> compute
                     ^  (5 s)                 |  ^                    |                         |
                     +------- cts.Ret --------+  +--- computeFeed ----+ <---response_queue------+
                                              |
                                         PostgreSQL
```

| Component | State it keeps | Operations | Talks to |
|---|---|---|---|
| HTTP handlers (`core/pkg/web`) | one goroutine per call | `PutDetection`, `GetDetection`, `MassGetDetection`, `GetDetectors`, `waitFromEngine` | engine by buffered channel, and an unbuffered one per call for the answer; database for detector names |
| Engine (`core/pkg/core/engine.go`) | the call or update in hand | `Work`: serve a submission, a query, a page, an update | handlers, router, database |
| Router (`core/pkg/core/compute.go`) | the message in hand, the delivery channel | `Work`: publish a request, sink a result | engine, RabbitMQ |
| Storage (`core/pkg/storage/storage.go`, `schema.sql`) | tables `detection_status`, `detectors` | `UpdStatus`, `GetStatus`, `MassStatus`, `DetectorExists`, `GetDetectors` | generated data access |
| Generated data access (`core/pkg/storage/models`) | three caches of statements, lists of hooks | `Insert`, `Update`, `Upsert`, `Delete`, `Find`, `Reload` and their bulk forms | PostgreSQL |
| RabbitMQ | two `durable=false` queues, consumed with autoAck | deliver, lose a connection, go down | router, compute |
| Compute service (`compute/`) | loaded detectors, one consumer thread, what was sent to it | start, load, `on_request`, `process_request`, publish, die | RabbitMQ, database, weights store |
| Message brokers (`rabbitmq_broker.py`, `mock_broker.py` of `compute/core`) | a thread, a flag; the mock also two queues | `start_consuming`, `stop_consuming`, `close` | compute service, tests |
| Frontend (`frontend/app.py`) | the list a session was last given; what its browser shows | submit, refresh, select | core over HTTP |
| Configuration, logging, start (`core/pkg/config.go`, `core/pkg/utils`, `cmd/server`) | - | read the file and the environment, make the parts, serve | all parts of the core |
| Weights store (`detectors/neptune/nexus.py`) | runs and checkpoints | load, conclude | Neptune |
| Detectors and training (`detectors/`) | model weights | fit, predict | - |

### What is hard here

The two goroutines of the core and its handlers are joined by blocking channel
operations, some with a timeout and some without. Every failure on the way
(statement, publish, unmarshal, detector) is logged and swallowed, and nothing is
sent again. `PROJECT.json` lists the hazards with their lines; the main ones:

- a handler's timeout against the engine's late answer (`engine.go:56,60,64`);
- the engine and the router each sending to the other (`engine.go:50`, `compute.go:97`);
- a request handed on before its row is written (`engine.go:50-55`);
- failures that name no request, and a status word that the table refuses;
- a delivery channel that, once closed, is always ready (`compute.go:86`);
- autoAck consumption without confirms, in both directions;
- an exception that ends the only consumer thread while its connection lives on;
- a flag that each consumer thread sets itself, read by the start and the stop that
  make and end threads (`mock_broker.py:34`, `rabbitmq_broker.py:48`);
- statements cached under a key made of the call and of which fields of the object
  are zero, with the lock given up between look-up and store (`detection_status.go:737`);
- two buttons whose functions run at the same time and write the same list (`app.py:611,623`);
- a configuration decoded field by field into a struct that holds the defaults (`config.go:117`).

## 2. Modules

| Module | Models | Variables |
|---|---|---|
| `CoreTypes` | messages, statuses, parameters | - |
| `CoreChannels` | the three channels of `NewMangoEngine` | `engineFeed computeSink computeFeed` |
| `BrokerQueues` | the two RabbitMQ queues | `requestQueue responseQueue` |
| `Storage` | `storage.go` over the table | `table errorLog` |
| `WebHandlers` | `handlers.go` | `hpc hreq hres` |
| `MangoEngine` | `engine.go` | `epc ecall eanswer eupdate` |
| `ComputeRouter` | `compute.go` and its client library | `rpc rrequest rstatus rFeed connected` |
| `MangoCore` | `cmd/server/main.go`: all of the above, restarts, a compute service that answers or does not | `restarts told` |
| `DetectionLifecycle` | abstract: one status per request that only moves forward, answers that are true when the engine hands them over | `status told` |
| `ComputeWorker` | `compute/main.py`, `rabbitmq_broker.py`, `engine.py`, `detectors.py` | `wpc wrequest wresponse prefetched loaded wconnected starts` |
| `MangoTruth` | `docker-compose.yml`: core, broker and compute service | - |
| `BoilColumns` | which columns a call names, the statement it builds, the key it is cached under | - |
| `BoilTable` | `models/detection_status.go`: its operations called by several goroutines | `rows cache hooks pc frame obj slice calls` |
| `ConsumerThreads` | `RabbitMQBroker` and `MockMessageBroker`: their caller and their threads | `kind is_consuming consumer_thread tpc held source responses lost ...` |
| `Frontend` | `frontend/app.py` in one browser, over `DetectionLifecycle` | `accepted pc answer list state updates choices selected change shown ...` |
| `ServerStart` | `config.go`, `logging.go` and the calls of `main` up to serving | `app_env files env pc todo decoded failed cfg level dialled` |
| `MangoCoreInv`, `MangoTruthInv`, `FrontendInv` | the inductive invariants of `MangoCore`, `MangoTruth` and `Frontend` | - |
| `MangoCoreProofs` (types), `MangoCoreSafety` (`CoreInv`, refinement), `MangoCoreCounts` (what is on its way), `MangoTruthProofs`, `FrontendProofs`, `BoilTableProofs`, `ServerStartProofs`, `ConsumerThreadsProofs` | the proofs | - |
| `MCMangoCore`, `MCMangoTruth`, `MCBoilTable`, `MCFrontend`, `MCServerStart` | instances for TLC | - |

How the code becomes actions:

- A goroutine or thread has a program counter (`hpc`, `epc`, `rpc`, `wpc`). A
  step runs up to the next blocking operation or the next access to shared state.
  A database call is one step: each is one statement outside a transaction.
- A send on a buffered channel is an `Append` guarded by its capacity. The answer
  `cts.Ret <- status` is unbuffered, so `MangoCore!Answer` joins the engine's
  `Reply` and the handler's `ReceiveAnswer` in one step; without a receiver there
  is none. The handler's `c.JSON` (`handlers.go:111`) is part of that step: the models
  say in which order the engine hands answers over. The responses of overlapping calls
  may be written in the other order, so a client that reads SUCCESS may still see a
  slower call return PENDING; no property is about that order.
- A call is named by a model value, and a PUT's name is its `uuid.New()` as well.
  `NilId` is `uuid.Nil`, the id of a `DetectionStatus{}` that was given none.
- A verdict is either there or not. A body that Go cannot unmarshal is `Garbled`.
- Once the connection is lost, `rFeed` is a closed channel: `TakeFromClosed` is
  enabled again and again.
- A write that the engine is told failed may have been done: its answer was lost
  (`Storage!UpdStatus`, `BoilTable!NotExecuted`).
- `BoilTable` takes a statement for what its column lists say, and a column list for
  the set of its columns. The look-up under the read lock, the statement and the store
  under the write lock are a step each; an object belongs to its goroutine.
- `Frontend` sits on the abstract core, so what it shows follows from the lifecycle
  that `MangoCore` implements. What it takes from gradio: a button does not run twice
  at a time, updates are applied in order, one change event at a time and one more if
  the value changed meanwhile.
- In `ConsumerThreads` each thread reads and writes the flag in steps of its own;
  pika may refuse a second thread on a channel or serve it. `RabbitMQBroker` consumes
  with auto_ack and no prefetch limit: the broker moves requests from the queue
  (`source`) to the channel's buffer (`sent`) as long as there is a consumer, be its
  thread alive or not, and what is in the buffer is lost with the connection or with
  the channel's consumers.
- In `ServerStart` a value is the text it was written as; viper decodes the fields of
  the file in any order.
- `told` is a history variable (what the last answer said that the engine handed
  over); no action reads it.
- A 200 in `Frontend` means what it means in the core: the row is there, or its write
  failed and was logged. `unstored` remembers the second kind; such a request has a row
  once its result comes, or never.
- Definitions whose comment begins with "Mutant:" are faulty variants of an
  action, used to see that each property can tell them from the code. No
  specification uses them.

Faults are switched on by constants (`DbMayFail`, `MayTimeOut`, `ConnMayFail`,
`ComputeMayFail`, `MaxRestarts`, `MaxWorkerStarts`). A timeout is enabled whenever
the handler waits, as if the engine may always have taken five seconds: `MayTimeOut`
is FALSE where a run is about an engine that is never that slow.

## 3. What TLC checks

| Run | Properties | Instance | What it shows |
|---|---|---|---|
| `core_faults` | `TypeOK CoreInv AckedIsStored AtMostOnce CircularWaitNeedsRequests NoRegress` | 2 PUTs, a list, 2 detectors of which one is listed, buffers 1, all faults, 1 restart | acknowledged submissions have a row or a logged error; no status goes back; no request is on its way twice; the engine and the router block each other only with more requests than one buffer holds. `CoreInv` is the invariant the proofs use |
| `core_load` | `CircularWaitNeedsLoad PendingIsCarried LifecycleInv LoadInv ImplementsLifecycle` | 4 PUTs, a GET, a page, buffers 1, timeouts | the engine and the router block each other only with 2 * capacity + 2 submissions in play (202 with the shipped 100); a pending request is always on its way; the core implements `DetectionLifecycle` while statements succeed. `LifecycleInv` and `LoadInv` are invariants the proofs use |
| `core_stuck` | `EngineServesOrIsStuck` | 2 PUTs, timeouts, lost connection, 1 restart | the engine comes back to its select for ever unless its answer was abandoned or the circular wait holds |
| `system_faults` | `SysTypeOK SuccessNeedsDetector SourceInv SysCoreInv HandledOnce PendingIsCarriedOrLost LifecycleInv ImplementsCore` | compute service started up to twice, 2 detectors, connections lost, broker down | the real service does only what `MangoCore` says of it, so `core_*` hold of the system; a SUCCESS comes from the detector asked for; no request is handled twice; one that stays PENDING is on its way, or there is a reason one can see; the failures of a router that has lost its connection name no request and mark none (`LifecycleInv`). `SourceInv` and `SysCoreInv` are invariants the proofs use |
| `system_live` | `EndsOrIsLost EveryPutIsAnswered` | 2 PUTs, a service that may fail, started once | every submission is answered, and its result is stored unless it could not be, it was no JSON, or the service is gone |
| `sql_access` | `BoilTypeOK CachesAgree Synced OwnRowOnly StorageUpsertIsWhole` | 2 goroutines, 2 keys, 6 kinds of call, 3 calls, a hook that refuses, statements that fail | a cached statement is the one its caller would have built; an object that was written is the row; a statement changes its own row only; the upsert of `UpdStatus` writes the whole row |
| `brokers` | `ThreadsTypeOK EachRequestOnce FlagTellsOfThread OneStartStops` | both brokers, 3 threads, 3 requests, 2 stops | each request waits in the queue or the channel's buffer, is in a thread's hands, answered or lost, and only one of these; as long as nothing drops the buffer only a thread that raises loses one; what `is_consuming` tells; a stop after a single start comes to an end |
| `frontend` | `FrontendTypeOK SettledScreenAgrees SubmittedIsListed ScreenIsLatest PageInv` | 3 requests, pages of 2, 3 clicks or choices | the screen settles on what the session's list holds; a submission is in the list fetched after it, unless the write of its row failed or the list is full; without overlapping clicks no status on the screen is older than the last one told. `PageInv` is the invariant the proofs use |
| `server_start` | `StartTypeOK NoHalfConfig EnvOverridesFile ServesWithWhatItNeeds` | 6 fields, 3 forms of the file, sizes 100, 7, 1, 0, -1 and no number, 3 `APP_ENV`s | the configuration is all of the file's or all defaults; a variable counts for the fields the file has, and for no others; a server that serves has a driver, a broker and buffers that can be made, of size 0 only if the environment or the file says so |

Three runs show where the code does not do what the repository says; each must be
found violated, and `PROJECT.json` quotes the line.

| Run | Property | What happens |
|---|---|---|
| `core_wedged` | `AcceptedIsRouted` | a handler answers 408, the engine then blocks for ever on its answer (`engine.go:56`); what was accepted behind it is never routed |
| `core_failed_word` | `AnswersAreStored` | `FAILED` (`compute/core/engine.py:22`) is not in the STATUS enum; the write fails, is logged, and the row stays PENDING |
| `system_thread` | `SentIsProcessed` | an exception ends the consumer thread; what the broker had sent it and goes on sending is not handled, and is gone when the broker closes the connection, whose heartbeats nobody answers |

More that was met on the way, without a run of its own:

- The circular wait is reachable, and after the connection is lost it needs fewer
  submissions, because the closed `rFeed` fills `computeFeed` with failures by itself:
  capacity + 1 are enough (101 with the shipped 100), and no fault makes it fewer.
- A failure of the router names no request (`compute.go:78,84,94`): its row is stored
  under the nil id, and the request stays PENDING. `NoRequestFails`, a part of
  `LifecycleInv`, says the same from the other side.
- A query for a request that is not there is answered 200 and UNKNOWN
  (`storage.go:91`); `handlers.go:19` documents 404. The 408 of `handlers.go:113` is in
  no `@Failure` line.
- `ScreenIsLatest` is false without its condition on overlapping clicks: a list
  fetched before a result and returned after a newer one puts SUCCESS back to PENDING.
- The flag of `RabbitMQBroker` is set when consuming has ended, so its `stop_consuming`
  finds it set only when there is nothing left to stop; a mock whose handler raises
  leaves its flag set, and can not be started again.
- README.md:119-122 says of all variables that one in the environment is equivalent to
  a value in the file, and README.md:97 and the `Makefile` rely on it (`COMPUTE_HOST`).
  The code does not do that: `AutomaticEnv` (`config.go:131`) answers for the keys the
  file has, and `Unmarshal` asks for no others. `config-development.yml` has
  `compute.host` but no `storage.port`, so `STORAGE_PORT` does nothing; the files that
  `APP_ENV` `docker` and `production` ask for are not in the repository, and without its
  file the server runs on defaults alone, `COMPUTE_HOST` or no. `EnvOverridesFile` states
  what the code does, the part in which it contradicts the README included.
- `logger.level` counts only for a format other than json and text; those two log from
  debug. A database that cannot be reached at the start is logged only.
- A buffer size of 0 is accepted and makes a channel unbuffered. The models of the core
  assume at least 1 (`BufferAssumption`), so what is checked and proved of the core says
  nothing of a server configured so; `ServesWithWhatItNeeds` shows that it takes a 0 in
  the file or the environment to get there.

### Bounds and why they are enough

Two submissions are the least that can overtake each other, wait behind each other
and be lost one without the other. Buffers of one make "full" and "empty" occur
next to each other; `core_load` uses the four submissions its claim needs and would
be vacuous with fewer, while two are enough for the circular wait in `core_faults`, where
the connection may be lost. One restart gives every pair of an interrupted step and a
later one; two starts of the service give a predecessor whose work is lost and a
successor. `CHECK_DEADLOCK FALSE` is set where the system may really stop: finitely
many calls are served and the loops' idle cases are all that is left, or the two
goroutines are blocked for good. Symmetry is used only in runs without liveness.

`sql_access` has a call whose key leaves a column out of the insert but not of the
update, one that cannot be built, and one that does nothing on a conflict; three calls
are enough for one to store what another looked up before and a third to use it. The
proofs lift these bounds. In `brokers`, three threads are a second and one that begins
late; `frontend` has a page that does not hold every request, and three clicks let a
submission, a refresh and a choice overlap. `core_load` lets the compute service answer
only well and its connection hold, since a request that is dropped would break
`PendingIsCarried`; a router without a connection, whose failures name no request, is
therefore not in that run. `system_faults` checks `LifecycleInv` with it, and that `LifecycleInv` and
`ImplementsLifecycle` hold with all faults but the database's is proved. `system_faults`
does not restart the core, which `core_faults` does; the theorems are about both at once.
`system_live` has neither timeouts, nor a core that loses its connection, nor a load at
which the circular wait can occur: with those a PUT may wait for ever, which is what
`core_stuck` and `core_wedged` are about.

### Fairness

`MangoCore!CoreFairness` states what the Go scheduler gives. A goroutine that can
run does run: weak fairness of the engine, of the router and of the answer. A
`select` picks at random among ready cases and blocked senders are queued, so a case
that is ready again and again is chosen: strong fairness of each receive that
competes with another case, and of a handler's send. A timer fires. The broker
delivers over a connection that is open. `MangoTruth!WorkerFairness` says that the
service is started, its loading and its detectors come to an end, and the broker
sends what it has and closes the connection of a thread that died: nothing services
that connection any more, so its heartbeats stay away. No fairness is assumed of clients, of faults or of restarts.
`ConsumerThreads!FairSpec` has weak fairness of each thread, which the operating system
schedules, and of the return of a join; not of the caller's next call.

## 4. What is proved

The theorems of the core and of the whole system hold for every set of calls and
detectors, every buffer size, any number of restarts and of starts of the service, and
every setting of the fault switches but those the table names. They rest only on the
named assumptions of `CoreTypes`: buffers hold at least one message, the four kinds of
call are disjoint, the nil id is no call, and listed detectors are detectors. Those of
`Frontend` hold for every set of requests, page length and number of clicks; they rest
on `FrontendAssumption` and on `NoneAssumption`, that no value is no row. Those of
`BoilTable` hold for every table with one key column, every set of calls, objects and
goroutines, with and without failing statements; they rest on `ColumnAssumption` and
`OfferAssumption`. Those of `ServerStart` hold for every file, environment and set of
fields, those of `ConsumerThreads` for any number of threads, requests and stops; they
rest on `StartAssumption` and `ThreadsAssumption`.

| Theorem | Module | Statement |
|---|---|---|
| `TypeCorrect` | `MangoCoreProofs` | `Spec => []TypeOK` |
| `Invariance` | `MangoCoreSafety` | `Spec => []CoreInv` |
| `AcknowledgedIsStored` | `MangoCoreSafety` | `Spec => []AckedIsStored` |
| `StatusesNeverGoBack` | `MangoCoreSafety` | `Spec => NoRegress` |
| `AnswersStayTrue` | `MangoCoreSafety` | `Spec => []LifecycleInv`, if `DbMayFail = FALSE` |
| `CoreImplementsLifecycle` | `MangoCoreSafety` | `Spec => ImplementsLifecycle`, if `DbMayFail = FALSE` |
| `NeverOnItsWayTwice` | `MangoCoreCounts` | `Spec => []AtMostOnce` |
| `CarriedInvariance` | `MangoCoreCounts` | `Spec => []CarriedInv`, if statements, the connection and the compute service do not fail and nothing restarts; handlers may time out |
| `PendingRequestsAreCarried` | `MangoCoreCounts` | `Spec => []PendingIsCarried`, if the same |
| `LoadInvariance` | `MangoCoreCounts` | `Spec => []LoadInv`, if `ConnMayFail = FALSE` |
| `BlockingNeedsLoad` | `MangoCoreCounts` | `Spec => []CircularWaitNeedsLoad`, if `ConnMayFail = FALSE` |
| `BlockingNeedsRequests` | `MangoCoreCounts` | `Spec => []CircularWaitNeedsRequests` |
| `SystemTypeCorrect` | `MangoTruthProofs` | `SysSpec => []SysTypeOK` |
| `SystemImplementsCore` | `MangoTruthProofs` | `SysSpec => ImplementsCore` |
| `SourceInvariance` | `MangoTruthProofs` | `SysSpec => []SourceInv` |
| `SuccessComesFromDetector` | `MangoTruthProofs` | `SysSpec => []SuccessNeedsDetector` |
| `SystemInvariance` | `MangoTruthProofs` | `SysSpec => []SysCoreInv` |
| `SystemKeepsAcknowledged` | `MangoTruthProofs` | `SysSpec => []AckedIsStored` |
| `SystemNeverGoesBack` | `MangoTruthProofs` | `SysSpec => NoRegress` |
| `SystemImplementsLifecycle` | `MangoTruthProofs` | `SysSpec => ImplementsLifecycle`, if `DbMayFail = FALSE` |
| `SystemAnswersStayTrue` | `MangoTruthProofs` | `SysSpec => []LifecycleInv`, if `DbMayFail = FALSE` |
| `NothingIsHandledTwice` | `MangoTruthProofs` | `SysSpec => []HandledOnce` |
| `SystemBlockingNeedsRequests` | `MangoTruthProofs` | `SysSpec => []CircularWaitNeedsRequests` |
| `NothingIsLostUnseen` | `MangoTruthProofs` | `SysSpec => []PendingIsCarriedOrLost` |
| `NothingFailsNothingIsLost` | `MangoTruthProofs` | `SysSpec => [](AnswersAreStored /\ SysPendingIsCarried)`, if nothing fails or restarts and the service is started at most once; handlers may time out |
| `PageInvariance` | `FrontendProofs` | `Spec => []PageInv` |
| `FrontendTypeCorrect` | `FrontendProofs` | `Spec => []FrontendTypeOK` |
| `ScreenSettles` | `FrontendProofs` | `Spec => []SettledScreenAgrees` |
| `SubmissionsListed` | `FrontendProofs` | `Spec => []SubmittedIsListed` |
| `ScreenNotOutdated` | `FrontendProofs` | `Spec => []ScreenIsLatest` |
| `BoilTyped` | `BoilTableProofs` | `Spec => []BoilTypeOK` |
| `CachesAlwaysAgree` | `BoilTableProofs` | `Spec => []CachesAgree` |
| `ObjectsAreSynced` | `BoilTableProofs` | `Spec => Synced` |
| `StatementsKeepToTheirRow` | `BoilTableProofs` | `Spec => OwnRowOnly` |
| `StorageUpsertWrites` | `BoilTableProofs` | `Spec => StorageUpsertIsWhole` |
| `StartTyped` | `ServerStartProofs` | `Spec => []StartTypeOK` |
| `NeverHalfConfigured` | `ServerStartProofs` | `Spec => []NoHalfConfig` |
| `EnvironmentOverrides` | `ServerStartProofs` | `Spec => []EnvOverridesFile` |
| `ServesWithItsNeeds` | `ServerStartProofs` | `Spec => []ServesWithWhatItNeeds` |
| `ThreadsTyped` | `ConsumerThreadsProofs` | `Spec => []ThreadsTypeOK` |
| `FlagTells` | `ConsumerThreadsProofs` | `Spec => []FlagTellsOfThread` |
| `RequestsAreKept` | `ConsumerThreadsProofs` | `Spec => []EachRequestOnce` |

The argument. `NoRegress` is not obvious because `engine.go` submits a request before
it records it: its result might be stored first and PENDING written over it. It is not,
because the goroutine that writes PENDING is the one that would store the result, and it
does not look at `computeFeed` in between. The invariant has to say that this is the
only way a row can come about: each PUT has exactly one turn with the engine
(`OneTurn`), a request that has not been submitted has no row and is in no queue
(`FreshHasNoTrace`), so its row is absent when PENDING is written (`RecordIsFirst`);
and whatever comes back from the compute service is final (`ResultsAreFinal`), so that
an update never stores PENDING. `StoredBeforeTold` carries `AckedIsStored` through the
rendezvous. For the refinement, `LifecycleInv` adds that an answer is still true when
it is sent, since the goroutine that sends it owns the table, and that no request is
marked FAILURE, since failures name none. It also says of every request what clients
were last told: not more than the table has (`ToldIsKnown`).

Counting what is on its way. `AtMostOnce` and `PendingIsCarried` are about the sum
`InFlight` of the places a request can be in, so their proofs are about how a step moves
it: `CountAdded`, `CountTaken` and `CountCut` say what a queue's count of an id does when
its end is added to, its head is taken or it is cut, and `Flow` that no step of the core
makes a request appear but the one that submits it. That one submits a request that has
left no trace, so it is the first (`SubmitsFresh`); and a request leaves its last place
in the step that stores its result. `CarriedInv` adds to `PendingIsCarried` that the
request in the engine's hand between `engine.go:50` and its row is on its way already.
The two conditions differ for a reason: losing messages can only make `InFlight` smaller.

The circular wait. `LoadInv` says that the messages between engine and router
(`Load`) are never more than the requests the engine has submitted: on a connection that
holds each of them is one request or its one answer, and only a closed `rFeed` makes
messages of nothing. In the circular wait both buffers are full and each goroutine holds
one more. The two are then 2 * capacity + 1 messages of submitted requests (the router's
included), and the engine holds one that it has not yet submitted. A submitted request
was made by a client, so that many of them have made one.

Without the connection the failures of the closed `rFeed` are no requests, and `LoadInv`
is lost. What is left counts requests by their names: `computeSink` is full of messages
the engine submitted, no two of the same request (`AtMostOnce`), and the one in the
engine's hand is in no queue (`FreshHasNoTrace`). So they are capacity + 1 different
requests, each made by a client (`SinkIsOfSubmitted`), which is what
`CircularWaitNeedsRequests` says, under every fault. The bound is sharp: `core_faults` has two PUTs and buffers of one, and reaches the circular wait.

The whole system. The refinement maps the core's `requestQueue` to `Unanswered`: what the
service holds or was sent, in front of what the broker holds. So taking a request from
the broker, loading, processing and dying before a connection ends are stutters; what
`MangoCore!Compute` does in one step is the publishing of the response; and a service
that is cut off loses the front of the queue, oldest first, which `MangoCore` allows it
to do. The invariant for this is `SysTypeOK` with `Responds`: the response in
`process_request`'s hand answers the request in hand.

A theorem about `Spec` is not yet one about `SysSpec` to the prover: it would have to be
instantiated with `Unanswered` for the queue. `SysCoreInv` says it directly. All steps of
the system but the service's own are steps of `MangoCore` over the real queues, so the
step lemmas of `MangoCoreSafety` apply to them as they are; a step of the service leaves
everything but the queues alone, takes nothing from one queue that was not there, and
puts into the other a final answer to the request it holds (`WorkerNames`). What has to be
added is `FreshIsNotServed`: the service has nothing of a request the engine has not
submitted.

Without `ComputeMayFail`, `CoreInv` has SUCCESS alone among the answers, while a service
that lacks a detector answers FAILED whether it may fail or not. It never lacks one it is
asked for: every request behind a handler names a detector that the handler found in the
table (`OnlyAccepted`), and a service whose detectors cannot fail to load has all that
those may name (`ServesAccepted`). Both ends of the system read the same table of
detectors, and these two parts of the invariant tie them together.

`HandledOnce` and `PendingIsCarriedOrLost` count over the whole system: to the places of
`InFlight` come what the broker has sent the service and what its thread holds. The core's
steps move a request among the core's places, as in the proofs for the core (`RouteFlow`,
`BrokerFlow`); the service's steps move it among its own, or lose it. For `HandledOnce`
losing is no matter. For `PendingIsCarriedOrLost` each step that loses something has to
leave its mark: a connection that is down, a second start, a dead thread, an error in the
log, or a message under the nil id. `TracedInv` says this also of the request in the
engine's hand, which is with the router before its PENDING row is written. The marks stay
or turn into one another: a failure that names no request goes from `computeFeed` to the
engine's hand, and from there to the table or to the log.

`NothingFailsNothingIsLost` follows: where nothing may fail none of the marks is ever
there (`QuietInv`), so PENDING means on its way. That an answer can always be stored needs
`ServesAccepted` again, since the one word the table refuses is that of a detector which is
not loaded.

`SuccessNeedsDetector` relates the table at one end of the system to the memory of the
service at the other, with two queues and two goroutines between them. `SourceInv`
follows the detector's name all the way out (`RequestsAreAsked`: every message names the
detector of its client's call) and the verdict all the way back (`SuccessIsServed`); it
needs that a handler makes one request and keeps it (`CallsAreOwn`), and that the
detectors are loaded before the first request is taken and not again (`LoadsFirst`).

The page. `SettledScreenAgrees` says nothing while updates are on their way, so `PageInv`
says where the page is going. The dropdown becomes the session's list when all updates
are applied (`ScreenCatchesUp`); a status was looked up in what will be on the screen when
it comes there (`LookupsAreOfTheirTime`, over `Applied`, which says what the dropdown
lists after the first n updates); the event under way asks for the selected value, or one
more will (`ChangesAreAsked`). What makes this inductive is that a function writes the
session's list and sends its update in one step of the server, and that each has at most
one update on its way (`InTurn`). `SubmittedIsListed` needs that the core's set of accepted
requests is finite, for a page is as long as `MassLimit` or as the table, and that a
submission answered 200 has its row or is known to have none (`HasRow`).
`ScreenIsLatest` holds because without overlapping clicks a single function is under way,
and nothing is told between its fetch and the screen (`OneAtATime`).

For `BoilTable` the invariant is `CachesAgree` with the types. A cache entry is right
because of what the goroutine that stores it has in hand (`FramesAgree`), and that is
right because it was built from the same call and the same zero fields the key was made
of, or taken from an entry that was right when it was looked up and has not changed. The
key has to separate what `Build` tells apart: two calls with one key build one statement,
for which the proof needs that `makeCacheKey` and `UpsertKey` keep every part of the call
that the statement depends on. The action properties follow for the statement `Build`
gives, whoever built it: what `RETURNING` leaves out the statement did not change.

For `ServerStart` the invariant says what the loop over the fields has done so far
(`Decoding`: the struct holds the settings of the fields that are done and could be
decoded, the defaults elsewhere, and the error is remembered), what the configuration is
once there is one (`Result`, a function of the file and the environment), and which tests
are behind each program counter (`Passed`).

For `ConsumerThreads`, `EachRequestOnce` counts, and its proof does not: `PlacesInv`
says that what waits (in the buffer and then the queue) ascends, that no answer and no
hand repeats a request, that the four places are apart and that between them they hold
what was published (`Published`), and `InTurn`, which is about one thread only, orders
them. The counts follow at the end, each of a set with at most one element. That only
raising threads lose anything while the channel's buffer is left alone (`LossInv`) is an
induction of its own: the one step that loses a request adds its thread to those that
raised. `FlagTellsOfThread` needs the types only: `ThreadsTypeOK` ties the threads made
to `consumer_thread`, so that a single start leaves no other thread to register a
consumer.

Each of the proofs has a lemma for each action, or for each group of actions that
leave the same variables alone.

Only model-checked: everything under fairness (`EngineServesOrIsStuck`, `EndsOrIsLost`,
`EveryPutIsAnswered`, `OneStartStops`), which the prover does not handle. Every invariant
and every action property of the passing runs is stated by a theorem.

## 5. What is not modelled, and the plan

Not modelled and not planned: gin, swagger, SQL text, logging, extraction of text from
files, model inference and training (floating point over texts), the CI files. Of the
generated data access: `detectors.go`, which is the code of `detection_status.go` for
another table and of which two queries are used; `Count` and `Exists`, which change
nothing; the options of `Upsert`, which nothing passes and which are not in the cache's
key (`psql_upsert.go:21`).

The weights store (`nexus.py`) is left out too: the training scripts write it, each of
their steps is a call of the Neptune client, and what a conclusion that stops half way
leaves behind hangs on Neptune. The service reads it while it loads; the models keep of
this that a detector may fail to load, after which it is asked for and not there. The
n-gram tables and the windows of the perplexity detector are pure functions of a text, and
nothing of a request's way through the system depends on what they return.

What would be worth adding, were the code to grow there: a reconnecting router or service,
for which `PendingIsCarriedOrLost` already says what must be sent again (whatever
`Disturbed` excuses), and confirmed publishing, which would take `~connected` off the list.
