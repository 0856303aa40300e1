----------------------------- MODULE JobPipeline -----------------------------
(***************************************************************************)
(* protollm-api as a whole: backends (FastAPI services, backend/broker.py) *)
(* record a job in the result storage and queue it in RabbitMQ, workers    *)
(* (LLMWrap, worker/services/broker.py) take it from the queue, run the    *)
(* language model and record the outcome, backends wait for the outcome or *)
(* are asked for it.  The storage is ResultStorage: backends and workers   *)
(* are its clients, and every Redis command is a step of its own.          *)
(*                                                                         *)
(* A backend serves one request at a time: nothing in send_task,           *)
(* get_result and check_result gives the event loop back.  A worker runs   *)
(* _callback on one message at a time, but RabbitMQ delivers to it without *)
(* a prefetch limit, so it may hold more.  The operation and the command a *)
(* client is at, call[c], and the task it is about, task[c], are all the    *)
(* control state a process has.                                            *)
(*                                                                         *)
(* A task is one message, made by one HTTP request.  Its job identifier is *)
(* chosen by the HTTP client, who may choose one that is in use: several   *)
(* tasks may then be of one job and share its keys in the storage.         *)
(***************************************************************************)
EXTENDS ResultStorage

CONSTANTS
    Tasks,       \* the messages send_task makes, one for each HTTP request
    JobOf,       \* JobOf[t]: the job identifier in task t
    Backends,    \* processes that serve the HTTP endpoints
    Workers,     \* processes that run LLMWrap
    MaxCrashes,  \* bound: how many processes may crash
    MaxDrops     \* bound: how many connections RabbitMQ may drop

VARIABLES
    place,       \* place[t]:   where task t is
    task,        \* task[c]:    the task backend c sends or worker c processes
    buffer,      \* buffer[w]:  delivered to w, _callback not called yet
    link,        \* link[w]:    w's connection to RabbitMQ
    request,     \* request[b]: the HTTP request b is serving
    declared,    \* the job queue exists
    crashes, drops

pipelineVars ==
    <<storageVars, place, task, buffer, link, request, declared, crashes, drops>>

-----------------------------------------------------------------------------
(* Data *)

\* A task that is not in the queue: not submitted, being submitted, refused (the
\* submitter got an error), or published to a queue that did not exist.
Unqueued == {"new", "sending", "failed", "unroutable"}

\* place[t] = w: delivered to worker w and not acknowledged.
Places == Unqueued \cup {"ready", "acked"} \cup Workers

Requests == {"none", "sync", "async", "check"}

\* "dropped": RabbitMQ has closed the connection and the worker has not noticed.
Links == {"down", "up", "dropped"}

ASSUME PipelineAssumption ==
    /\ JobOf \in [Tasks -> Jobs]
    /\ Nil \notin Tasks
    /\ Clients = Backends \cup Workers
    /\ Backends \cap Workers = {}
    /\ Workers \cap (Unqueued \cup {"ready", "acked"}) = {}
    /\ MaxCrashes \in Nat
    /\ MaxDrops \in Nat

PipelineTypeOK ==
    /\ StorageTypeOK
    /\ place \in [Tasks -> Places]
    /\ task \in [Clients -> Tasks \cup {Nil}]
    /\ buffer \in [Workers -> SUBSET Tasks]
    /\ link \in [Workers -> Links]
    /\ request \in [Backends -> Requests]
    /\ declared \in BOOLEAN
    /\ crashes \in 0..MaxCrashes
    /\ drops \in 0..MaxDrops

PipelineInit ==
    /\ StorageInit
    /\ place = [t \in Tasks |-> "new"]
    /\ task = [c \in Clients |-> Nil]
    /\ buffer = [w \in Workers |-> {}]
    /\ link = [w \in Workers |-> "down"]
    /\ request = [b \in Backends |-> "none"]
    /\ declared = FALSE
    /\ crashes = 0
    /\ drops = 0

\* The operation that client c has called is over and c goes on to something else.
Rest(c) ==
    /\ call' = [call EXCEPT ![c] = NoCall]
    /\ task' = [task EXCEPT ![c] = Nil]
    /\ UNCHANGED <<redis, pubsub, faults>>

\* Messages that worker w holds go back to the queue when its connection ends.
Requeued(w) == [t \in Tasks |-> IF place[t] = w THEN "ready" ELSE place[t]]

-----------------------------------------------------------------------------
(* The backend *)

\* basic_publish to the default exchange: RabbitMQ drops a message to a queue
\* nobody has declared, and tells nobody.
Queued == IF declared THEN "ready" ELSE "unroutable"

\* Mutant: the task is published before it is recorded.
send_task_publish_first(b, kind, t) ==
    /\ request[b] = "none"
    /\ place[t] = "new"
    /\ create_job_status(b, JobOf[t])
    /\ request' = [request EXCEPT ![b] = kind]
    /\ task' = [task EXCEPT ![b] = t]
    /\ place' = [place EXCEPT ![t] = Queued]
    /\ UNCHANGED <<buffer, link, declared, crashes, drops>>

\* send_task begins.  Whether the job exists already is not looked at.
send_task(b, kind, t) ==
    /\ request[b] = "none"
    /\ place[t] = "new"
    /\ create_job_status(b, JobOf[t])
    /\ request' = [request EXCEPT ![b] = kind]
    /\ task' = [task EXCEPT ![b] = t]
    /\ place' = [place EXCEPT ![t] = "sending"]
    /\ UNCHANGED <<buffer, link, declared, crashes, drops>>

\* create_job_status raised, whatever it had written by then.
SendingFails(b) ==
    /\ At(b, {"create"}, "failed")
    /\ place' = [place EXCEPT ![task[b]] = "failed"]
    /\ request' = [request EXCEPT ![b] = "none"]
    /\ Rest(b)
    /\ UNCHANGED <<buffer, link, declared, crashes, drops>>

\* The connection is made, the task published and the connection closed.  The
\* asynchronous service answers at once; the synchronous one calls get_result.
QueueTask(b) ==
    /\ At(b, {"create"}, "returned")
    /\ place' = [place EXCEPT ![task[b]] = Queued]
    /\ task' = [task EXCEPT ![b] = Nil]
    /\ IF request[b] = "sync"
       THEN wait_completeness(b, call[b].job) /\ UNCHANGED request
       ELSE Rest(b) /\ request' = [request EXCEPT ![b] = "none"]
    /\ UNCHANGED <<buffer, link, declared, crashes, drops>>

\* connect, publish or close raises: the message may have left by then.
QueueingFails(b) ==
    /\ faults < MaxFaults
    /\ At(b, {"create"}, "returned")
    /\ \E outcome \in {"failed", Queued} : place' = [place EXCEPT ![task[b]] = outcome]
    /\ faults' = faults + 1
    /\ call' = [call EXCEPT ![b] = NoCall]
    /\ task' = [task EXCEPT ![b] = Nil]
    /\ request' = [request EXCEPT ![b] = "none"]
    /\ UNCHANGED <<redis, pubsub, buffer, link, declared, crashes, drops>>

check_result(b, j) ==
    /\ request[b] = "none"
    /\ get_job_status(b, j)
    /\ request' = [request EXCEPT ![b] = "check"]
    /\ UNCHANGED <<place, task, buffer, link, declared, crashes, drops>>

\* get_result and check_result have a status in hand.
HasStatus(b, s) ==
    /\ call[b].op \in {"wait", "status"}
    /\ call[b].at = "returned"
    /\ call[b].copy = s

\* Both read the answer of a completed job.
ReadAnswer(b) ==
    /\ HasStatus(b, Completed)
    /\ get_job_result(b, call[b].job)
    /\ UNCHANGED <<place, task, buffer, link, request, declared, crashes, drops>>

\* Every other end of a request: the answer, the error or the state of the job,
\* a timeout, a missing key (404) or another exception (400 or 500).
Respond(b) ==
    /\ call[b].op \in {"wait", "status", "result"}
    /\ call[b].at \in Finished
    /\ ~HasStatus(b, Completed)
    /\ request' = [request EXCEPT ![b] = "none"]
    /\ Rest(b)
    /\ UNCHANGED <<place, buffer, link, declared, crashes, drops>>

\* A storage command of the request in hand.
BackendCommand(b) ==
    /\ WriteStep(b) \/ ReadStep(b) \/ WaitStep(b) \/ CommandFails(b)
    /\ UNCHANGED <<place, task, buffer, link, request, declared, crashes, drops>>

\* The process dies and is started again; its subscription dies with it.  An idle
\* backend has nothing to lose.
CrashBackend(b) ==
    /\ crashes < MaxCrashes
    /\ request[b] # "none"
    /\ crashes' = crashes + 1
    /\ place' = [t \in Tasks |-> IF task[b] = t THEN "failed" ELSE place[t]]
    /\ task' = [task EXCEPT ![b] = Nil]
    /\ request' = [request EXCEPT ![b] = "none"]
    /\ StopSubscription(b)
    /\ call' = [call EXCEPT ![b] = NoCall]
    /\ UNCHANGED <<redis, faults, buffer, link, declared, drops>>

-----------------------------------------------------------------------------
(* The worker *)

\* The process starts: connect, declare_queue, consume.
start_connection(w) ==
    /\ link[w] = "down"
    /\ link' = [link EXCEPT ![w] = "up"]
    /\ declared' = TRUE
    /\ UNCHANGED <<storageVars, place, task, buffer, request, crashes, drops>>

\* Mutant: consume with auto_ack.
DeliverAutoAck(w, t) ==
    /\ link[w] = "up"
    /\ place[t] = "ready"
    /\ place' = [place EXCEPT ![t] = "acked"]
    /\ buffer' = [buffer EXCEPT ![w] = @ \cup {t}]
    /\ UNCHANGED <<storageVars, task, link, request, declared, crashes, drops>>

\* RabbitMQ delivers a message.  Nothing calls basic_qos: no prefetch limit.
Deliver(w, t) ==
    /\ link[w] = "up"
    /\ place[t] = "ready"
    /\ place' = [place EXCEPT ![t] = w]
    /\ buffer' = [buffer EXCEPT ![w] = @ \cup {t}]
    /\ UNCHANGED <<storageVars, task, link, request, declared, crashes, drops>>

\* Mutant: the message is acknowledged before the callback.
callback_ack_first(w, t) ==
    /\ call[w] = NoCall
    /\ t \in buffer[w]
    /\ buffer' = [buffer EXCEPT ![w] = @ \ {t}]
    /\ task' = [task EXCEPT ![w] = t]
    /\ update_job_status(w, JobOf[t])
    /\ place' = [place EXCEPT ![t] = "acked"]
    /\ UNCHANGED <<link, request, declared, crashes, drops>>

\* _callback begins.  Deliveries pika has read already are still dispatched on a
\* connection RabbitMQ has dropped.
callback(w, t) ==
    /\ call[w] = NoCall
    /\ t \in buffer[w]
    /\ buffer' = [buffer EXCEPT ![w] = @ \ {t}]
    /\ task' = [task EXCEPT ![w] = t]
    /\ update_job_status(w, JobOf[t])
    /\ UNCHANGED <<place, link, request, declared, crashes, drops>>

\* The language model answers or raises.
CallLLM(w) ==
    /\ At(w, {"update"}, "returned")
    /\ \/ \E r \in Results : complete_job(w, call[w].job, r)
       \/ complete_job_error(w, call[w].job)
    /\ UNCHANGED <<place, task, buffer, link, request, declared, crashes, drops>>

\* The loop of w ends, and so does the process, which has no other thread.
LoopEnds(w) ==
    /\ link' = [link EXCEPT ![w] = "down"]
    /\ buffer' = [buffer EXCEPT ![w] = {}]

\* Mutant: a worker whose connection is gone connects again to acknowledge.
DisposeAnyway(w, where) ==
    /\ place' = [place EXCEPT ![task[w]] = where]
    /\ Rest(w)
    /\ UNCHANGED <<buffer, link, request, declared, crashes, drops>>

\* ack or nack.  On a connection RabbitMQ has dropped it reaches nobody.  pika that
\* notices raises, for the ack and for the nack that follows it, and the loop ends;
\* pika that does not (the peer vanished without a word) writes into the void.
Dispose(w, where) ==
    /\ IF link[w] = "up"
       THEN place' = [place EXCEPT ![task[w]] = where] /\ UNCHANGED <<buffer, link>>
       ELSE UNCHANGED place /\ (LoopEnds(w) \/ UNCHANGED <<buffer, link>>)
    /\ Rest(w)
    /\ UNCHANGED <<request, declared, crashes, drops>>

\* Mutant: nobody acknowledges.
ack_forgotten(w) ==
    /\ At(w, {"complete"}, "returned")
    /\ Rest(w)
    /\ UNCHANGED <<place, buffer, link, request, declared, crashes, drops>>

\* _callback returned.
ack(w) == At(w, {"complete"}, "returned") /\ Dispose(w, "acked")

\* Mutant: the exception is swallowed and the message acknowledged.
nack_acks(w) ==
    /\ call[w].op \in {"update", "complete"}
    /\ call[w].at \in {"not_found", "failed"}
    /\ Dispose(w, "acked")

\* Mutant: requeue=False.
nack_discards(w) ==
    /\ call[w].op \in {"update", "complete"}
    /\ call[w].at \in {"not_found", "failed"}
    /\ Dispose(w, "failed")

\* A storage operation of _callback raised: requeue.
nack(w) ==
    /\ call[w].op \in {"update", "complete"}
    /\ call[w].at \in {"not_found", "failed"}
    /\ Dispose(w, "ready")

WorkerCommand(w) ==
    /\ WriteStep(w) \/ CommandFails(w)
    /\ UNCHANGED <<place, task, buffer, link, request, declared, crashes, drops>>

\* RabbitMQ closes the connection: no heartbeat is sent while _callback runs.
DropLink(w) ==
    /\ drops < MaxDrops
    /\ link[w] = "up"
    /\ drops' = drops + 1
    /\ link' = [link EXCEPT ![w] = "dropped"]
    /\ place' = Requeued(w)
    /\ UNCHANGED <<storageVars, task, buffer, request, declared, crashes>>

\* process_data_events finds the connection closed.
LoopCrashes(w) ==
    /\ link[w] = "dropped"
    /\ call[w] = NoCall
    /\ LoopEnds(w)
    /\ UNCHANGED <<storageVars, place, task, request, declared, crashes, drops>>

\* The process dies at any point; RabbitMQ requeues what it held.
CrashWorker(w) ==
    /\ crashes < MaxCrashes
    /\ link[w] # "down"
    /\ crashes' = crashes + 1
    /\ LoopEnds(w)
    /\ place' = Requeued(w)
    /\ Rest(w)
    /\ UNCHANGED <<request, declared, drops>>

-----------------------------------------------------------------------------
(* The specification *)

\* The endpoints: /generate and /chat_completion of the synchronous router and of
\* the asynchronous one, and /check_status, which may name any job.
sync_chat_completion(b, t)  == send_task(b, "sync", t)
async_chat_completion(b, t) == send_task(b, "async", t)
check_status(b, j)          == check_result(b, j)

Request(b) ==
    \/ \E t \in Tasks : sync_chat_completion(b, t) \/ async_chat_completion(b, t)
    \/ \E j \in Jobs : check_status(b, j)

\* What a backend does by itself with the request it serves.
BackendStep(b) ==
    \/ SendingFails(b) \/ QueueTask(b) \/ QueueingFails(b) \/ ReadAnswer(b) \/ Respond(b)
    \/ BackendCommand(b)

\* What a worker does by itself with the message it processes.
WorkerStep(w) == CallLLM(w) \/ ack(w) \/ nack(w) \/ WorkerCommand(w) \/ LoopCrashes(w)

Dispatch(w) == \E t \in Tasks : callback(w, t)

PipelineNext ==
    \/ \E b \in Backends : Request(b) \/ BackendStep(b) \/ CrashBackend(b)
    \/ \E w \in Workers :
          \/ start_connection(w) \/ Dispatch(w) \/ WorkerStep(w)
          \/ DropLink(w) \/ CrashWorker(w)
          \/ \E t \in Tasks : Deliver(w, t)

PipelineSpec == PipelineInit /\ [][PipelineNext]_pipelineVars

\* Processes go on with what they have begun: Redis answers, the language model
\* returns, waiting looks at its deadline every second, a container is restarted
\* and RabbitMQ delivers what is ready.  HTTP requests need not come.
Fairness ==
    /\ \A b \in Backends : WF_pipelineVars(BackendStep(b))
    /\ \A w \in Workers : /\ WF_pipelineVars(start_connection(w))
                          /\ WF_pipelineVars(Dispatch(w))
                          /\ WF_pipelineVars(WorkerStep(w))
    /\ \A t \in Tasks : WF_pipelineVars(\E w \in Workers : Deliver(w, t))

FairPipelineSpec == PipelineSpec /\ Fairness

-----------------------------------------------------------------------------
(* Properties *)

\* The jobs that have been submitted, and are not being processed or sent again.
Settled ==
    {j \in Jobs : /\ \E t \in Tasks : JobOf[t] = j /\ place[t] = "acked"
                  /\ \A t \in Tasks : JobOf[t] = j => place[t] \in {"new", "acked"}}

\* The worker acknowledges after complete_job only, and whatever several workers
\* and backends write in the keys of one job, the last of them leaves it with a
\* terminal status, and its answer if COMPLETED.  While RabbitMQ drops no
\* connection: see InProgressJobIsNotAbandoned.
AckedJobIsFinished ==
    drops = 0 =>
        \A j \in Settled :
            /\ status[j] \in {Completed, Failed}
            /\ status[j] = Completed => answer[j] # Nil

\* send_task records the job before it queues it, and nobody deletes it: a
\* worker always finds the status of the job it has received and the prompt is
\* stored, whatever fails and whoever crashes.
QueuedJobIsRecorded ==
    /\ \A t \in Tasks : place[t] \notin Unqueued => status[JobOf[t]] # Nil /\ JobOf[t] \in prompt
    /\ \A w \in Workers : call[w].at # "not_found"

\* An unacknowledged message is with a live consumer that will still come to
\* it: ack, nack and the end of the connection leave no message behind.
DeliveredTaskIsHeld ==
    \A t \in Tasks, w \in Workers :
        place[t] = w => link[w] = "up" /\ (t \in buffer[w] \/ task[w] = t)

\* While RabbitMQ drops no connection, the unacknowledged message is a lock on
\* the task: only the worker that holds it processes it.
ProcessedTaskIsOwned ==
    drops = 0 =>
        \A t \in Tasks, w \in Workers : task[w] = t \/ t \in buffer[w] => place[t] = w

\* A task leaves a worker in two ways only: the worker itself acknowledges it or gives
\* it back, after its own _callback, or the worker's connection or process ends.  What a
\* worker does with a task RabbitMQ has taken from it, and what any other worker does,
\* moves nothing.
TaskLeavesByItsHolder ==
    [][\A t \in Tasks, w \in Workers :
          place[t] = w /\ place'[t] # w =>
              \/ /\ place'[t] = "acked"
                 /\ task[w] = t /\ At(w, {"complete"}, "returned")
                 /\ call'[w] = NoCall
              \/ /\ place'[t] = "ready"
                 /\ \/ link'[w] # "up"
                    \/ task[w] = t /\ call[w].at \in {"not_found", "failed"}
      ]_pipelineVars

\* The pipeline keeps the promises of JobLifecycle when every request has a job
\* identifier of its own, until RabbitMQ drops a connection: a job is settled when its
\* message is acknowledged.
Lifecycle == INSTANCE JobLifecycle WITH
    phase    <- [j \in Jobs |-> IF status[j] = Nil THEN "absent" ELSE status[j].status],
    accepted <- {j \in Jobs : \E t \in Tasks : JobOf[t] = j /\ place[t] \notin Unqueued},
    answered <- {j \in Jobs : answer[j] # Nil},
    settled  <- {j \in Jobs : \E t \in Tasks : JobOf[t] = j /\ place[t] = "acked"}

ImplementsLifecycle ==
    /\ Lifecycle!LifecycleInit
    /\ [][drops' = 0 => Lifecycle!LifecycleNext]_(Lifecycle!lifecycleVars)

\* A task that reached the queue is processed to the end, across crashes, dropped
\* connections and failing commands, as long as these stop.
EveryQueuedTaskIsAcked ==
    \A t \in Tasks : place[t] = "ready" ~> place[t] = "acked"

\* A request is answered, be it with an error: get_result has a deadline, so a
\* lost message, a missed notification or a dead worker do not hold the backend.
EveryRequestIsAnswered ==
    \A b \in Backends : request[b] # "none" ~> request[b] = "none"

\* Whoever is told that a job is COMPLETED finds its answer.
CompletedAnswerIsAvailable ==
    \A b \in Backends : ~At(b, {"result"}, "not_found")

\* A PENDING job waits to be processed: a task of it is being sent, or is with
\* RabbitMQ or a worker.
PendingJobIsQueued ==
    \A j \in Jobs :
        status[j] = Pending =>
            \E t \in Tasks : JobOf[t] = j /\ place[t] \notin Unqueued \ {"sending"}

\* An IN_PROGRESS job is being processed, or will be: its message is still there.
InProgressJobIsNotAbandoned ==
    \A j \in Jobs :
        status[j] = InProgress =>
            \E t \in Tasks :
                /\ JobOf[t] = j
                /\ (\E w \in Workers : task[w] = t) \/ place[t] \in {"ready"} \cup Workers

\* What leaves an unfinished job behind, whatever the tasks of one job write over each
\* other: a PENDING job without a task on its way has one that could not be queued, and
\* an IN_PROGRESS job keeps its message unless RabbitMQ has dropped a connection.
UnfinishedJobHasTask ==
    \A j \in Jobs :
        /\ status[j] = Pending =>
              \E t \in Tasks : JobOf[t] = j /\ place[t] \notin {"new", "acked"}
        /\ drops = 0 /\ status[j] = InProgress =>
              \E t \in Tasks : JobOf[t] = j /\ place[t] \in {"ready"} \cup Workers

=============================================================================
