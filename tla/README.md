# Verification of protollm-api

TLA+ models of protollm-api, the configurations that check them with TLC, and theorems about
them checked with TLAPS. Paths below are relative to `src/protollm_api/` unless they start with
`tests/`.

protollm-api is a single entry point for requests to language models. A FastAPI *backend*
records each request as a *job* in Redis and queues it in RabbitMQ; *workers* take jobs from the
queue, run a model and write the outcome to Redis; the backend waits for the outcome
(synchronous router) or is polled for it (asynchronous router).

```
 HTTP client --> endpoints --> services --> backend/broker.py
                                             |  create_job_status, wait_completeness,
                                             |  get_job_status, get_job_result
                            publish          v
          RabbitMQ <-----------+------- RedisResultStorage <--- Redis
             | deliver                       ^
             v                               |  update_job_status, complete_job
       RabbitMQQueue (consumer thread) --> LLMWrap._callback --> language model
```

## 1. Inventory

| component | state it keeps | operations | model |
|---|---|---|---|
| Result storage, `object_interface/result_storage/` | per job three Redis keys (status, prompt, answer) and a pub/sub channel; per waiting call a subscription | `create_job_status`, `update_job_status`, `complete_job`, `delete_job_status`, `get_job_status`, `get_job_result`, `wait_completeness`, `subscribe` | `ResultStorage` |
| Queue adapter, `object_interface/message_queue/rabbitmq_adapter.py` | `_active`, `_connection`, `_channel`, `_consumer_tag`, `_consume_thread`, shared by two or more threads | `connect`, `close`, `declare_queue`, `delete_queue`, `publish`, `get`, `consume`, `wait`, `stop_consuming`, `ack`, `nack`, the consumer loop | `RabbitMQQueue` |
| What the interface promises of a message, `object_interface/message_queue/base.py` | where each message is | the methods of `BaseMessageQueue` | `MessageQueue` |
| Backend, `backend/broker.py`, `backend/bll/services/`, `backend/endpoints/` | the request being served | `send_task`, `get_result`, `check_result` | `JobPipeline`, `RequestJourney` |
| Worker, `worker/services/broker.py` | the message being processed | `start_connection`, `_callback` | `JobPipeline`, `RequestJourney` |
| What the interfaces promise of a job | status, answer, acceptance | the lifecycle of `JobStatusType` | `JobLifecycle` |
| Data models, `backend/models/` | none | defaults, `from_prompt_model`, the union of transactions | `CompletionRequest` |
| Language models, `worker/models/` | none | `__call__`, `generate`, `create_completion` | `CompletionRequest` |
| Configuration, `backend/config.py`, `worker/config.py` | key prefixes, queue name, priority | `read_from_env`, `read_from_env_file` | `RequestJourney` |
| Utilities, example | none | - | not modelled |

How they interact: backends and workers share nothing but Redis and RabbitMQ. Redis commands of
different processes interleave; none of the storage's operations is a transaction. RabbitMQ
delivers a message to one worker at a time and again when the connection ends before the
acknowledgement. Inside one process, the owner of a `RabbitMQQueue` and its consumer thread
share the fields of the object without a lock.

What makes each part correct:

* Storage: a listener never stays on an old status when it has been notified; no subscription
  outlives its call; status and answer of a job agree when nobody is writing; `is_completed`
  means a terminal status.
* Adapter: a message is acknowledged only after its own callback; one consumer loop per object,
  and it is subscribed where it polls; after `stop_consuming` nothing is consumed; `consume`
  refuses only when a consumer runs; every method returns but `get` and `wait` without a
  timeout.
* Pipeline: a queued job is recorded; an acknowledged job has its outcome, even when an
  identifier is used twice; a message is never lost between broker and workers, and only the
  worker that has it settles it; every queued task is finished and every request answered,
  eventually.
* Data: the model is asked what the client asked, and never with a null its library cannot take;
  a client gets the answer to his own request, and where it looks for it; no accepted request
  makes a message that no worker can process.

The behaviours that are hard to test, with the line where each bites, are listed as "hazards" in
`PROJECT.json`, and each names the properties aimed at it.

## 2. Modules

| module | content |
|---|---|
| `ResultStorage` | the storage; one action per Redis command, for any number of clients |
| `JobLifecycle` | abstract specification: created, accepted, started, finished, answered, settled |
| `JobPipeline` | EXTENDS `ResultStorage`; backends, workers and RabbitMQ; `Lifecycle == INSTANCE JobLifecycle WITH ...` is the refinement mapping |
| `MessageQueue` | abstract specification of a queue: handed out, processed, acknowledged or requeued |
| `RabbitMQQueue` | one adapter object, its owner thread, its consumer threads, and the channels of pika and RabbitMQ; `Promise == INSTANCE MessageQueue` |
| `CompletionRequest` | operators: from the JSON document of a request to the arguments of a model's library |
| `RequestJourney` | EXTENDS `CompletionRequest`; the data of requests through handler, queue, worker and back |
| `MCResultStorage`, `MCJobPipeline`, `MCRabbitMQQueue`, `MCRequestJourney` | symmetry sets, the division of storage clients into writers and listeners, the requests |
| `ResultStorageProofs`, `JobStatusProofs`, `JobPipelineProofs`, `JobOutcomeProofs`, `JobLifecycleProofs`, `RabbitMQQueueProofs`, `ConsumerLoopProofs`, `JourneyProofs` | theorems and their proofs |

Definitions whose comment begins with "Mutant:" are plausible bugs. They are used by no
specification; each replaces one definition to show that a property notices the difference.

### ResultStorage

A client is a process holding a `RedisResultStorage`. `call[c]` is its stack frame: the
operation, the Redis command it is about to issue (`at`), its job, the `JobStatus` object in its
hands (`copy`) and the result it writes or has read (`val`). An operation begins with `Begin`
(`create_job_status(c, j)` and so on), goes on one command at a time and ends at a point of
`Finished`, which stands for the return value or the exception.

| code (`redis_storage.py`) | action |
|---|---|
| `__save_job_status`: SET, PUBLISH (106-107) | `SaveStatus`, `Publish` |
| `__save_job_prompt`, `__save_job_result` | `SavePrompt`, `SaveResult` |
| `__load_job_status` by its callers | `LoadMissing`, `LoadToUpdate`, `LoadToDelete`, `LoadToReturn`, `LoadBeforeListening` |
| `__load_job_result` | `FetchResult` |
| `__start_subscription`, loop of `wait_completeness` and `subscribe` | `StartSubscription`, `Receive`, `Timeout`, `ReloadMissing`, `ReloadToWait`, `ReloadToYield`, `Resume`, `CloseGenerator` |
| any command raises | `CommandFails` (first look of a wait: swallowed; else the finally block runs) |

Abstractions. `JobStatus` keeps `status` and `is_completed`; `status_message` and `last_update`
steer nothing, and `error` is set exactly with status ERROR by `complete_job`. The prompt key is
only ever written, so the model keeps the set of jobs that have one. `complete_job(result=None)`
and undecodable values in Redis do not occur in the code base and are left out. SUBSCRIBE takes
effect in one step. A failing command has no effect in Redis; the case of a command that took
effect and whose answer was lost is the crash of the caller in `JobPipeline`. The sequence of
notifications of a channel is a number, because the code never looks at a message, and the
deadline may strike at any turn of the loop. The only caller of `update_job_status` passes
IN_PROGRESS, and so does the model. The UNSUBSCRIBE of the finally block succeeds; if it raises,
the connection of the subscription is gone and the subscription with it, and the call ends with
that exception instead of its own result.

### JobPipeline

Backends and workers are clients of the storage. A *task* is the message one HTTP request makes;
`JobOf[t]` is the identifier the client chose for it, and several tasks may have the same.
`call[c]`, `task[c]`, `place[t]` (where the message of task t is) and `request[b]` are all the
control state: nothing in `send_task`, `get_result` and `check_result` gives the event loop
back, so a backend serves one request at a time; a worker runs one `_callback` at a time.

| code | action |
|---|---|
| `send_task` 46-49: `create_job_status` | `send_task`, then storage commands |
| `send_task` 51-56: connect, publish, close | `QueueTask`, `QueueingFails`, `SendingFails` |
| `get_result`, `check_result` | `wait_completeness` from `QueueTask`, `check_result`, `ReadAnswer`, `Respond` |
| `start_connection` | `start_connection` |
| `_callback` | `callback`, `CallLLM`, storage commands |
| `message_handler` and the loop of the adapter | `ack`, `nack` (`Dispose`); `LoopCrashes`, `LoopEnds` |
| RabbitMQ (external) | `Deliver`, `DropLink`, `Queued`, `Requeued` |
| processes | `CrashBackend`, `CrashWorker` |

RabbitMQ is modelled from how the adapter uses it: one durable queue, persistent messages, no
`basic_qos` and hence no prefetch limit, the default exchange, which drops a message to a queue
nobody has declared. `DropLink` stands for the missed heartbeat: `_callback` runs on the thread
that serves the connection, so a callback longer than the heartbeat (60 s, `rabbitmq_adapter.py`
line 41) sends none. A worker does not notice before it next uses the connection. If pika then
finds it closed, the `ack` raises, so does the `nack` that answers it (246-250), the loop ends
(263-266) and with it the process, which has no other thread. If the peer has vanished without a
word, what the worker acknowledges reaches nobody, and until it finds out it may begin further
callbacks with deliveries it already holds. `Dispose` has both.

`send_task` does not look whether the job exists: with two tasks of one job the second resets
the status to PENDING, the message is queued twice, and two workers may write the keys of the
job command by command. The runs of `resubmission` and the theorems cover this. Priorities are
left out here (RabbitMQ may deliver ready messages in any order); they are in `RequestJourney`.

### RabbitMQQueue

One step is one test or assignment of a shared field, or one pika call with the test that guards
it or the assignment of what it returns. A step of `connect` or `close` is one statement:
`connect`, `OpenChannel` and `ConnectFails` (the new connection stays without a channel);
`Hangup`, `Disconnect`, `ForgetConnection`, `ForgetChannel`. `consume` tests the Event,
connects, sets it and starts the thread in four. `ch[k]` is the channel of connection k: its
consumers, the log of deliveries (the index is the delivery tag), what is unacknowledged, and
what pika has received and not yet dispatched. The threads are named in the order they are
started; a consumer is named after the thread that registered it. `join(timeout=5)` returns when
the thread has ended; it may also return because five seconds have passed, which the model
allows only when the thread is not about to end by itself: it is in a callback
(`SlowCallbacks`), or the Event has been set again (`StillRunning`). A thread that joins itself
raises RuntimeError.

`declared` says that the queue exists. `delete_queue` removes its messages, those out at a
consumer too, and RabbitMQ cancels the consumers without the adapter noticing; a `basic_consume`
or `basic_get` afterwards closes the channel (`SubscribeRaises`, `GetRaises`). The queue is
declared before it is first used, as `start_connection` and the tests do (`WasDeclared`). `get`
and `wait` are several steps, with a timeout, which may have passed whenever it is looked at, or
without (`getting_for_ever`, `waiting_for_ever`), and then they stay until there is a message or
the thread has ended. `get` without `auto_ack` leaves the message in the hand of the owner
(`hand[Owner]`), and there it stays, whatever becomes of the channel, until `SettleHand`: `ack`
and `nack` send its tag to the channel the object has by then. A tag the new channel does not
know closes it; one it knows settles another message. `strays` counts this. The caller has at
most one message of a channel in hand. A context manager block is `connect` and `close`.

`MessageQueue` knows only the messages: handed out to one place at a time, gone for good only
when processed, back in the queue otherwise. Its variables `stage` and `processed` are those of
`RabbitMQQueue`, so the refinement mapping is the identity. The adapter implements it while no
connection is lost (`wrong_ack` shows how it fails otherwise) and callbacks are quicker than the
join, up to and including the first deletion of its queue (the thread a crashing loop leaves
behind, section 5, is joined by nobody, not even by `close`, and may acknowledge on a later
connection), and up to the first message of an earlier channel that the owner settles: the
adapter checks no tag, so that is left to its caller. `MessageQueue` states the part of the
interface that is about where a message is. Two sentences of `base.py` are no part of it, and
the adapter does not keep them (section 5).

In `JobPipeline` the same question is asked of several workers (`TaskLeavesByItsHolder`): an
`ack` or `nack` moves a task only if it comes from the worker the task is with. It holds with
dropped connections as well: the shipped worker never reconnects an object, so what it
acknowledges after a drop reaches nobody (`Dispose`) and cannot name another worker's delivery.

### CompletionRequest and RequestJourney

`JobPipeline` abstracts from what a task contains; these two modules abstract from crashes and
most single commands and follow the contents. A request is a record; `Omitted` is a field the
client leaves out and `None` a null, which pydantic treats differently. `CompletionRequest`
translates, as operators, the data models (`PromptMeta`, `from_prompt_model`, the services'
`Transaction`), the decoding by the worker (`Decodable`, the discriminated union) and what each
class of `worker/models` passes to its library (`Arguments`) and gives back (`Outcomes`: a text,
for OpenAI also None, or an exception). Texts are named after their job and position,
temperatures are tenths; of the model names the empty one (`NoName`) is told apart, which `model
or self.model` replaces.

| code | definition of `RequestJourney` |
|---|---|
| `send_task` 33-49 | `send_task`, `Prioritised` |
| `send_task` 51-56, pika's packing of the priority | `publish`, `PublishRaises` |
| `get_result` 77-88, `check_result` | `get_result`, `GiveUp`, `check_status` |
| `_callback`, `message_handler` | `callback`, `CallbackRaises`, `UpdateFails`, `CallLLM`, `complete_job`, `SaveResult` |
| `read_from_env`, `read_from_env_file` of both sides | `Configs`, `setting` |
| RabbitMQ's priority queue, `max_priority=5` | `Rank`, `Deliver` |

A file value keeps the line feed of its line, so a backend configured from the environment and a
worker configured from a file do not share keys; the run has every pair of configurations.
`reply[j]` is what the handler returns; the client may ask for the status of any job at any
time. A task reaches the worker when the name of its queue is the worker's, whoever has named
it. One worker processes the tasks in the order of delivery and holds as many as RabbitMQ gives
it. `update_job_status` is called outside the try block of `_callback`: when it raises
(`UpdateFails`), before or after the status is set, the message is refused and queued again,
while later ones that are in the worker's buffer already come first. The failures of
`complete_job` and of the backend's commands are in `JobPipeline`.

`ModelIsAskedTheRequest` compares the arguments of the library's call with the client's request
directly (`Conveys`): every parameter he has set, whatever the class keeps of it. It leaves out
what it says it leaves out: an empty model name, a limit below 1 at vLLM, and the stop words of
the remote class, which have a run of their own (`stop_words`).

## 3. Runs

| run | instance | states | shows |
|---|---|---|---|
| `storage` | 1 job, 2 writers, 1 listener, 1 fault | 918 000 | `ReturnsWhatWasAsked`, `ListenerUpToDate`, `CompletedAtRestHasAnswer`, `NoLeakedSubscription`, `OnlyDeletionEndsUnfinishedJob` |
| `resubmission` | 1 job of 2 tasks, 1 backend, 2 workers, 1 fault, 1 crash, 1 drop | 2 077 000 | `QueuedJobIsRecorded`, `DeliveredTaskIsHeld`, `AckedJobIsFinished`, `ProcessedTaskIsOwned`, `UnfinishedJobHasTask`, `TaskLeavesByItsHolder` |
| `pipeline_live` | 1 job of 1 task, 1 backend, 2 workers, 1 fault, 1 crash, 1 drop | 244 000 | `EveryQueuedTaskIsAcked`, `EveryRequestIsAnswered`, refinement of `JobLifecycle` |
| `queue` | 2 threads, 2 messages, 2 connections, 1 deletion, 1 stray settlement | 1 096 000 | `AckedMessageWasProcessed`, `OneConsumerLoop`, `StoppedIsQuiet`, `RunningLoopIsSubscribed`, refinement of `MessageQueue` |
| `queue_live` | 2 threads, 1 message, 2 connections, 1 fault, 1 stray settlement, slow callbacks | 445 000 | `ActiveHasThread`, `OwnerReturns` |
| `journey` | 2 jobs, 6 kinds of request, 4 model classes, 9 pairs of configurations, 1 failing `update_job_status` | 482 000 | type correctness, `ModelIsAskedTheRequest`, `ArgumentsAreUsable`, `ReplyIsAboutOwnRequest`, `FinishedTaskHasItsOutcome`, `QueuedTaskEnds` |

Six further runs each end in a violation; they show where the code does not do what its own
documentation says (section 5).

Bounds. The storage treats jobs independently (keys and channels carry the job's name, and a
client has one call), so one job suffices; three clients are what the races need: a reader or
listener and two writers. `MaxUnread` limits how many notifications a subscription holds; two
are enough for "one too many", three are more than a job of the pipeline with these bounds is
given between two reads. Two workers and one task give every race for a message; two tasks are
needed for a worker that holds a delivery while it processes another, and for an identifier used
twice, which are in `resubmission`: its two tasks share a job because that is the harder case,
different jobs share nothing. One fault, crash or drop puts a failure between any two steps. In
the adapter, two connections are one reconnection; two threads allow a second `consume`; one
deletion or one stray settlement ends the promises about the object (`Undisturbed`). In
`journey`, two requests are what a requeued task that is overtaken and a mixed-up answer need;
the six kinds take every route and both modes, set, leave out and null every parameter, have an
empty model name, a limit of zero, priorities below the default, above the queue's maximum of 5
and above the 255 that fit in a message, an empty chat, the queue of the worker and a foreign
one, named by the client. Deadlock checking stays on: in every run some process can always call
again.

One property is a type invariant that runs (`JourneyTypeOK`: a queued task has the identifier of
its job and a priority). The type invariants of the other modules are proved and no run's
property: with the bounds as part of them, they fail only when a bound is removed.

Symmetry is used for workers, backends, tasks, writers, threads and messages, only in runs of
invariants, action properties and refinements, whose formulas do not name an element.

## 4. Fairness

`FairPipelineSpec` assumes weak fairness of what a process does with work it has (`BackendStep`,
`WorkerStep`, `Dispatch`), of the restart of a worker (`restart: unless-stopped` in
`docker-compose.yml`, line 59) and of the delivery of a ready message by RabbitMQ. HTTP
requests, faults, crashes and drops are not fair. The restart of a backend needs no assumption:
it returns to a state in which it may serve, and nothing obliges anybody to send it a request.
Among the storage commands that is one weak fairness for the whole process, so the listening
loop does not need to receive anything: what ends it is `Timeout`, enabled as long as the loop
runs because the code compares the clock in every turn. `EveryQueuedTaskIsAcked` holds because
faults and drops are bounded; a model that is always slower than the heartbeat would be
redelivered for ever.

`FairQueueSpec` assumes weak fairness of each thread outside its callback and of the owner
inside a method. A callback need not end, and nothing obliges the owner to call anything. `wait`
and `get` without a timeout are not promised to return (`base.py` documents that `None` blocks
for ever), and in the model they need not: the thread they wait for may never end, the message
never come.

`FairJourneySpec` assumes weak fairness of the worker's consumer thread and of each delivery by
RabbitMQ. A delivery waits only for more urgent or older tasks, of which there are finitely many
because each job is submitted once and `update_job_status` fails finitely often; backends need
no fairness, since `QueuedTaskEnds` is about what the worker does with a task.

## 5. Where the code and its documentation disagree

Each of these is a run with one property that TLC violates; the line of the code and the
sentence it contradicts are in `PROJECT.json` under "findings".

| run | what happens |
|---|---|
| `answer_missing` | COMPLETED is visible before the answer is stored; the reader gets "not found" |
| `lost_wakeup` | a job that completes between the first look and the subscription is noticed by nobody; the request times out |
| `pending_orphan` | a job that could not be queued stays PENDING |
| `progress_orphan` | a worker is cut off before its `update_job_status` has saved, another completes and acknowledges the task, the first saves IN_PROGRESS over the outcome and dies: IN_PROGRESS for ever |
| `wrong_ack` | the delivery tag of an old channel acknowledges another message |
| `stop_words` | the class for models behind an API does not pass the client's stop words on |

The models reach more disagreements of the same kinds, which have no run of their own:

* redelivery after a crash takes a finished job back to IN_PROGRESS, so that a terminal status
  is not final;
* an update that is between its GET and its SET undoes a concurrent deletion (`LoadToUpdate`,
  `DeleteStatus`, `SaveStatus`);
* after a `stop_consuming` that gave up on its join, the next `consume` revives the old loop and
  starts another: `OneConsumerLoop` needs `SlowCallbacks = FALSE`;
* a stop between the start of the thread and its subscription finds no tag to cancel and leaves
  a consumer behind;
* a loop goes on polling a new connection it never subscribed on, when `connect` is called after
  a lost connection (`RunningLoopIsSubscribed` needs `MaxFaults = 0`);
* after `delete_queue` a loop crashes and runs `stop_consuming` by itself; a `consume` between
  its clearing of the Event and its cancelling loses the new subscription and the reference to
  the new thread to it. The thread nobody knows survives `close` and acknowledges on the next
  connection (reached with three connections and two threads). The properties of `queue` are
  therefore stated for `Undisturbed` objects;
* a caller that settles a message of an earlier channel, without any thread involved,
  acknowledges or refuses another message, or loses the channel (`SettleHand`); this too ends
  `Undisturbed`;
* a task that is refused because `update_job_status` raised is overtaken by later tasks, as
  urgent or less, that the worker already holds: nothing limits its buffer (`UpdateFails`).
  There is no property about the order of tasks, which nothing promises;
* a channel that RabbitMQ has closed on an open connection is never opened again, because
  `connect` looks at the connection only;
* a priority outside 0..255 makes `publish` raise after the job has been recorded
  (`PublishRaises`): it stays PENDING, as in `pending_orphan`;
* after a second submission of an identifier the old answer stays readable until the new one is
  written;
* a null answer of the model is stored and makes the synchronous request fail (`NoText`);
* an empty model name becomes the default one, and a limit below 1 becomes vLLM's own, while
  OpenAI and llama.cpp are asked with limits like 0 and -1 as they are: the type of the field
  has no range.

`wrong_ack` and the adapter's disagreements concern uses of the adapter the shipped worker does
not make (it never stops its consumer, reconnects or deletes its queue); the adapter's tests do,
and it is a public interface.

Seen while reading, outside what these models describe: `check_result` assigns a `JobResult`
object to `AsyncResponseModel.content`, declared `Optional[str]` (`backend/broker.py` line 114,
`backend/models/job_context_models.py` line 78), so that the request of a completed job ends
with HTTP 500; the models stop at what the handler has read. `base.py` makes the callback
responsible for acknowledging (186-189), and the adapter does it after the callback; it promises
a `prefetch` of one unacknowledged message (195), and the adapter accepts the argument and sets
no limit.

## 6. Proofs

Every theorem holds for all values of the constants that satisfy the assumptions of its module,
`StorageAssumption`, for the pipeline `PipelineAssumption`, for the adapter `QueueAssumption`
and for the journey `JourneyAssumption`: sets without `Nil` or `None`, a client that is either a
backend or a worker, an owner that is no consumer thread, bounds that are natural numbers;
requests with a known route and mode, the single user message of the routes that make it
themselves, and a priority and a limit that are integers, null or left out, as pydantic
enforces. No set needs to be finite. Where a property speaks of executions without failing
commands or dropped connections, that is a condition in the property (`faults = 0`, `drops = 0`)
and not an assumption about the constants. Only `PipelineKeepsItsPromises` has a hypothesis of
its own, and the theorems of `ConsumerLoopProofs` have `Steady`: `MaxFaults = 0` (no connection
is lost, no connect fails) and `~SlowCallbacks`. Both are needed (`wrong_ack`, and section 5);
the object may be stopped, closed, reconnected and started again at will. Their properties speak
of `Undisturbed` objects: what the owner settles has come from the channel the object has. That
is a condition on the caller, in the property; the model lets him do otherwise.

| theorem | module | says |
|---|---|---|
| `StorageTypeCorrect` | `ResultStorageProofs` | `StorageSpec => []StorageTypeOK` |
| `ReturnsAreComplete` | `ResultStorageProofs` | `StorageSpec => []ReturnsWhatWasAsked` |
| `SubscriptionsAreClosed` | `ResultStorageProofs` | `StorageSpec => []NoLeakedSubscription` |
| `CompletedJobsHaveAnswers` | `JobStatusProofs` | `StorageSpec => []CompletedAtRestHasAnswer` |
| `OnlyDeletionEnds` | `JobStatusProofs` | `StorageSpec => []OnlyDeletionEndsUnfinishedJob` |
| `ListenersAreUpToDate` | `JobStatusProofs` | `StorageSpec => []ListenerUpToDate` |
| `PipelineTypeCorrect` | `JobPipelineProofs` | `PipelineSpec => []PipelineTypeOK` |
| `QueuedJobsAreRecorded` | `JobPipelineProofs` | `PipelineSpec => []QueuedJobIsRecorded` |
| `DeliveredTasksAreHeld` | `JobPipelineProofs` | `PipelineSpec => []DeliveredTaskIsHeld` |
| `ProcessedTasksAreOwned` | `JobPipelineProofs` | `PipelineSpec => []ProcessedTaskIsOwned` |
| `TasksLeaveByTheirHolder` | `JobPipelineProofs` | `PipelineSpec => TaskLeavesByItsHolder` |
| `AckedJobsAreFinished` | `JobOutcomeProofs` | `PipelineSpec => []AckedJobIsFinished` |
| `UnfinishedJobsHaveTasks` | `JobOutcomeProofs` | `PipelineSpec => []UnfinishedJobHasTask` |
| `PipelineKeepsItsPromises` | `JobLifecycleProofs` | `PipelineSpec => ImplementsLifecycle`, if no two tasks name one job (`OwnIdentifiers`) |
| `QueueTypeCorrect` | `RabbitMQQueueProofs` | `QueueSpec => []QueueTypeOK` |
| `EventIsTrue` | `RabbitMQQueueProofs` | `QueueSpec => []ActiveHasThread` |
| `OneLoopRuns` | `ConsumerLoopProofs` | `QueueSpec => []OneConsumerLoop`, if `Steady` |
| `StoppedObjectsAreQuiet` | `ConsumerLoopProofs` | `QueueSpec => []StoppedIsQuiet`, if `Steady` |
| `RunningLoopsAreSubscribed` | `ConsumerLoopProofs` | `QueueSpec => []RunningLoopIsSubscribed`, if `Steady` |
| `AckedMessagesAreProcessed` | `ConsumerLoopProofs` | `QueueSpec => []AckedMessageWasProcessed`, if `Steady` |
| `AdapterKeepsItsPromises` | `ConsumerLoopProofs` | `QueueSpec => ImplementsMessageQueue`, if `Steady` |
| `JourneyInvInvariant` | `JourneyProofs` | `JourneySpec => []JourneyInv`, the inductive invariant |
| `JourneyTypes` | `JourneyProofs` | `JourneySpec => []JourneyTypeOK` |
| `ModelAskedTheRequest` | `JourneyProofs` | `JourneySpec => []ModelIsAskedTheRequest` |
| `ArgumentsUsable` | `JourneyProofs` | `JourneySpec => []ArgumentsAreUsable` |
| `ReplyAboutOwnRequest` | `JourneyProofs` | `JourneySpec => []ReplyIsAboutOwnRequest` |
| `FinishedTasksHaveOutcomes` | `JourneyProofs` | `JourneySpec => []FinishedTaskHasItsOutcome` |

The type theorems of storage, pipeline and adapter name no property of a run; the other proofs
rest on them.

*ReturnsAreComplete.* A point of return is reached by several commands, and each carries what it
found there: `get_job_status` and `wait_completeness` return a status only from a GET that found
one, the wait only if it was completed, and `get_job_result` an answer; a missing key, the
deadline and a failing command end elsewhere. It holds with failing commands and with deletions
between the first look, the notifications and the reload.

*SubscriptionsAreClosed.* The property speaks of clients at rest; `SubscriptionInv` says of
every point of every operation whether the client is subscribed there. Each command moves from a
point to a point, and each way out of the loop, exceptions included, passes `StopSubscription`.

*QueuedJobsAreRecorded.* "A queued job has its status and its prompt" is not inductive: nothing
in it says that the sender has finished `create_job_status` when it publishes. `RecordInv` adds
what backends and workers are doing (a backend only creates, waits or reads, a worker only
updates or completes, so nobody deletes), how far each has come (`Creating`, `Updating`,
`Looking`), that two backends never send the same task, and that a delivery held by a worker is
of a queued task. From then on the keys only grow, whatever the other processes do. It holds
with crashes, drops and faults in any number.

*DeliveredTasksAreHeld, ProcessedTasksAreOwned.* The two are the directions of one fact: what
RabbitMQ counts as delivered to a worker is what the worker holds, its buffer and the task it
processes. `HeldInv` says so for connected workers, and what is left of it once RabbitMQ has
dropped the connection and the worker has not noticed.

*TasksLeaveByTheirHolder.* No condition on faults, crashes, drops or identifiers. An `ack` or
`nack` that reaches RabbitMQ comes over a connection that is up, and the worker there processes
a task only if RabbitMQ counts it as delivered to it (`HeldInv`): so it never touches a task
that is ready again or with somebody else, though several workers may be processing it. The end
of a connection requeues what was delivered there, and whatever another worker does, a worker's
task stays with it (`OthersKeepTheirTasks`, `WorkerLetsGo`).

*AckedJobsAreFinished.* With identifiers used twice no worker owns the keys of its job, so an
outcome once written may be overwritten, by PENDING, by IN_PROGRESS, or by another outcome. The
invariant `NoneForgotten` looks forward instead: for a job without an outcome there is a task
that is neither new nor acknowledged and whose worker has not yet written the end (`Unended`);
for a COMPLETED job without an answer there is one whose worker has not written everything
(`Unanswered`). Whoever takes an outcome away has a task in hand that will bring one, and an
acknowledged task has. It fails once a connection is dropped (run `progress_orphan`), hence the
condition `drops = 0`.

*UnfinishedJobsHaveTasks.* The other side of the runs `pending_orphan` and `progress_orphan`:
what they show are the only ways to leave an unfinished job behind. A PENDING job has a task
that is on its way, or was refused or dropped on the way to the queue, in spite of dropped
connections, whose workers go on writing; an IN_PROGRESS job has its message while `drops = 0`,
also when another request of the same identifier fails. `UnfinishedInv` adds what such a task is
still going to do: whoever could acknowledge it has yet to write IN_PROGRESS (`Unstarted`) or
the end (`Underway`).

*PipelineKeepsItsPromises.* The pipeline is a refinement of `JobLifecycle`: writing a status is
`Create`, `Start` or `Finish`, a task that reaches the queue is `Accept`, writing the answer is
`Answer`, an acknowledgement is `Settle`, and `JobLifecycle` sees nothing of the other steps.
`complete_job` and `update_job_status` overwrite whatever status they find; that they find what
the lifecycle asks for is `ForesightInv`: between its commands a client knows what the storage
holds of its job, since it alone writes there. It does because the unacknowledged message is a
lock on the task (`HeldInv`) and the task the only one of its job (`WritersApart`). The
hypothesis is needed: with an identifier used twice a PENDING is written over an outcome. So is
the end of the property at the first dropped connection: from then on two workers may write the
keys of one job.

*CompletedJobsHaveAnswers, OnlyDeletionEnds, ListenersAreUpToDate.* Any clients may call any
operation, deletion included. `HeldInv` of `JobStatusProofs` says what each client carries at
each command; without failing commands a SET is followed by its PUBLISH and a COMPLETED by its
answer. `KnowledgeInv` follows a listener: as long as it waits and has no unread notification,
it has read the stored status since it subscribed, or the job is gone, or somebody between SET
and PUBLISH will notify it.

*QueueTypeCorrect.* Most of it is what a type checker would see, but not that a handler always
has a delivery in hand (`HandlerInv`) and that every tag a channel knows is in its log.

*EventIsTrue.* That some thread is alive is not inductive, since it may be at its last step.
`EventInv` says that there is one that will still test the Event before it ends: who goes on to
cancel and join has cleared the Event himself.

*ConsumerLoopProofs.* All five follow from one invariant, `CalmInv`, which speaks of
`Undisturbed` objects. Its heart is `OneThread`: a thread that is alive is the one in
`_consume_thread`, ends only after the owner has cleared the Event, and keeps the owner in its
join until then, so that `consume` always finds none (`ThreadsStayOne`). Hence nobody crashes
(`ThreadsDoNotCrash`) and the loop keeps its subscription until the owner cancels it
(`Subscribed`). `Connected` says between which steps of `connect` and `close` the channel is not
that of the connection; no thread runs there. A delivery a thread has in hand is of the present
channel, dispatched and not settled, and so is one the owner has, if it has come from the
present channel (`Tags`, `Numbered`): each acknowledgement names a tag the channel knows, and
two holders never name the same. The owner may keep a message of a channel that is gone; what he
does with its tag is the first stray settlement, where the property ends. With that every step
is one of `MessageQueue` (`StepIsPromised`), and that only processed messages are acknowledged
follows from `MessageQueue` itself (`PromiseKeepsMessages`).

*JourneyProofs.* The data of a request are followed by lemmas about the operators of
`CompletionRequest`: what the transaction of any request holds (`TransactionFacts`), that a
worker can decode it (`TasksAreDecodable`), what each class passes on (`InputFacts`,
`ParameterFacts`) and gives back (`OutcomeFacts`). `JourneyInv` then says who has the request at
every step: a task is the transaction of its request (`TasksAreTransactions`), a job is in one
place and queued once (`Places`), a status was written by the backend that recorded the job or
the worker that took it up (`StatusWriters`), a model is asked a queued task only and its answer
is stored under no other job (`Calls`), and so is what the client is told (`RepliesInv`). Keys
are compared as pairs of prefix and job, so nothing depends on the configurations, of which
there may be any pair.

*ModelAskedTheRequest, ArgumentsUsable.* The first says for every class and any request what
`Conveys` asks, which is not the stop words by the remote class: that is false (`stop_words`).
The second is about nulls and vLLM's limit, for any integer, null or missing parameter; that
OpenAI and llama.cpp accept each limit they are asked with is not claimed.

*FinishedTasksHaveOutcomes.* `OutcomeInv`: a task the worker has begun and no longer holds has
its outcome where its client looks, and the answer is written under COMPLETED only. A later task
writes other keys. The hypothesis `SameNames` is part of the property.

The candidates were checked with TLC as invariants before they were proved.

Only model-checked: the liveness properties `EveryQueuedTaskIsAcked`, `EveryRequestIsAnswered`,
`OwnerReturns` and `QueuedTaskEnds`, since liveness under fairness and ENABLED are beyond the
prover. Every invariant, the action property and both refinements that a passing run checks are
theorems.

## 7. Not modelled

* `consume` with `auto_ack=True` and its `message_handler` (lines 245, 249, 252-255 of the
  adapter), which nothing in the repository calls: `RabbitMQQueue` models `consume` as it is
  called. `get` with `auto_ack` is modelled.
* `worker/models/hf_models.py` (empty), `utils/utils.py`, the embedder models of
  `job_context_models.py`: nothing in the job pipeline uses them.
* `backend/example.py`, `worker/example.py`, `backend/endpoints/manage.py`: wiring.
* The libraries: what pika, Redis, FastAPI, pydantic, OpenAI, vLLM and llama.cpp do is modelled
  from how the code uses them; the serialisation of responses and the constructors of the models
  are not modelled.
* Several job queues with a worker each: `queue_name` is a parameter of every request, but a
  worker reads one queue and the tasks of different queues share only Redis, where they are jobs
  like others. A foreign queue without a worker is in `journey`.
* Time: a deadline, a heartbeat and a join may end at any moment the code looks at them, so
  nothing is said about the relation of 600, 300, 60 and 5 seconds.
