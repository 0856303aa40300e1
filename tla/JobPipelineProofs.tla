-------------------------- MODULE JobPipelineProofs --------------------------
(***************************************************************************)
(* Theorems about JobPipeline, for any number of tasks, jobs, backends and *)
(* workers, tasks of one job included, and any number of failing commands, *)
(* crashes and dropped connections: the pipeline is type correct, a queued *)
(* job is recorded, an unacknowledged task is held by a live worker, and   *)
(* only that worker, or the end of its connection, takes the task away.    *)
(***************************************************************************)
EXTENDS JobPipeline, ResultStorageProofs

-----------------------------------------------------------------------------
(* Type correctness *)

\* Backends and workers are clients of the storage.
LEMMA ClientFacts ==
    /\ \A b \in Backends : b \in Clients /\ b \notin Workers
    /\ \A w \in Workers : w \in Clients /\ w \notin Backends
    /\ {"create", "update", "complete", "status", "result", "wait"} \subseteq Operations
    /\ \A t \in Tasks : JobOf[t] \in Jobs /\ t # Nil
BY PipelineAssumption DEF Operations

\* Going on to something else keeps the storage in its type.
LEMMA RestKeepsType ==
    ASSUME StorageTypeOK, NEW c \in Clients, Rest(c)
    PROVE  StorageTypeOK'
BY DEF Rest, StorageTypeOK, redis, pubsub

\* Every call the pipeline makes of the storage keeps the storage in its type.
LEMMA PipelineCallKeepsType ==
    ASSUME StorageTypeOK, NEW c \in Clients, NEW j \in Jobs,
           \/ create_job_status(c, j) \/ update_job_status(c, j)
           \/ complete_job_error(c, j) \/ \E r \in Results : complete_job(c, j, r)
           \/ get_job_status(c, j) \/ get_job_result(c, j) \/ wait_completeness(c, j)
    PROVE  StorageTypeOK'
BY CallKeepsType DEF StorageCall, WriteCall, ReadCall, ListenCall

\* The steps of a backend.
LEMMA BackendKeepsType ==
    ASSUME PipelineTypeOK, NEW b \in Backends, Request(b) \/ BackendStep(b) \/ CrashBackend(b)
    PROVE  PipelineTypeOK'
<1> USE ClientFacts, FrameFacts DEF PipelineTypeOK, Places, Unqueued, Requests
<1>1. ASSUME NEW t \in Tasks, NEW kind \in {"sync", "async"}, send_task(b, kind, t)
      PROVE  PipelineTypeOK'
  BY <1>1, PipelineCallKeepsType DEF send_task
<1>2. ASSUME NEW j \in Jobs, check_result(b, j)
      PROVE  PipelineTypeOK'
  BY <1>2, PipelineCallKeepsType DEF check_result
<1>3. CASE SendingFails(b)
  BY <1>3, RestKeepsType DEF SendingFails, At, Rest
<1>4. CASE QueueTask(b)
  <2>1. call[b].at # "idle"
    BY <1>4 DEF QueueTask, At
  <2>2. StorageTypeOK'
    BY <1>4, <2>1, RestKeepsType, PipelineCallKeepsType DEF QueueTask
  <2> QED
    BY <1>4, <2>2 DEF QueueTask, Queued, Rest
<1>5. CASE QueueingFails(b)
  <2>1. StorageTypeOK'
    BY <1>5, StorageAssumption DEF QueueingFails, StorageTypeOK, redis, pubsub
  <2> QED
    BY <1>5, <2>1 DEF QueueingFails, Queued
<1>6. CASE ReadAnswer(b)
  <2>1. call[b].at # "idle"
    BY <1>6 DEF ReadAnswer, HasStatus
  <2> QED
    BY <1>6, <2>1, PipelineCallKeepsType DEF ReadAnswer
<1>7. CASE Respond(b)
  BY <1>7, RestKeepsType DEF Respond, Rest
<1>8. CASE BackendCommand(b)
  BY <1>8, WriteKeepsType, ReadKeepsType, ListenKeepsType, FailureKeepsType DEF BackendCommand
<1>9. CASE CrashBackend(b)
  <2>1. StorageTypeOK'
    BY <1>9, StorageAssumption DEF CrashBackend, StopSubscription, StorageTypeOK, redis
  <2> QED
    BY <1>9, <2>1, PipelineAssumption DEF CrashBackend
<1> QED
  BY <1>1, <1>2, <1>3, <1>4, <1>5, <1>6, <1>7, <1>8, <1>9
     DEF Request, sync_chat_completion, async_chat_completion, check_status, BackendStep

\* The steps of a worker and of its connection.
WorkerAction(w) ==
    \/ start_connection(w) \/ Dispatch(w) \/ WorkerStep(w) \/ DropLink(w) \/ CrashWorker(w)
    \/ \E t \in Tasks : Deliver(w, t)

LEMMA WorkerKeepsType ==
    ASSUME PipelineTypeOK, NEW w \in Workers, WorkerAction(w)
    PROVE  PipelineTypeOK'
<1> USE ClientFacts, FrameFacts DEF PipelineTypeOK, Places, Unqueued, Links
<1>a. ASSUME UNCHANGED storageVars
      PROVE  StorageTypeOK'
  BY <1>a DEF storageVars, StorageTypeOK
<1>1. CASE start_connection(w)
  BY <1>1, <1>a DEF start_connection
<1>2. ASSUME NEW t \in Tasks, Deliver(w, t)
      PROVE  PipelineTypeOK'
  BY <1>2, <1>a DEF Deliver
<1>3. ASSUME NEW t \in Tasks, callback(w, t)
      PROVE  PipelineTypeOK'
  BY <1>3, PipelineCallKeepsType DEF callback
<1>4. CASE CallLLM(w)
  <2>1. call[w].at # "idle"
    BY <1>4 DEF CallLLM, At
  <2> QED
    BY <1>4, <2>1, PipelineCallKeepsType DEF CallLLM
<1>5. ASSUME NEW where \in {"acked", "ready"}, call[w].at # "idle", Dispose(w, where)
      PROVE  PipelineTypeOK'
  <2>1. StorageTypeOK' /\ task' \in [Clients -> Tasks \cup {Nil}]
    BY <1>5, RestKeepsType DEF Dispose, Rest
  <2>2. place' \in [Tasks -> Places]
    BY <1>5 DEF Dispose
  <2>3. buffer' \in [Workers -> SUBSET Tasks] /\ link' \in [Workers -> Links]
    BY <1>5 DEF Dispose, LoopEnds
  <2>4. UNCHANGED <<request, declared, crashes, drops>>
    BY <1>5 DEF Dispose
  <2> QED
    BY <2>1, <2>2, <2>3, <2>4
<1>6. CASE ack(w) \/ nack(w)
  BY <1>5, <1>6 DEF ack, nack, At
<1>7. CASE WorkerCommand(w)
  BY <1>7, WriteKeepsType, FailureKeepsType DEF WorkerCommand
<1>8. CASE DropLink(w)
  BY <1>8, <1>a, PipelineAssumption DEF DropLink, Requeued
<1>9. CASE LoopCrashes(w)
  BY <1>9, <1>a DEF LoopCrashes, LoopEnds
<1>10. CASE CrashWorker(w)
  <2>1. StorageTypeOK' /\ task' \in [Clients -> Tasks \cup {Nil}]
    BY <1>10, RestKeepsType DEF CrashWorker, Rest
  <2>2. place' \in [Tasks -> Places]
    BY <1>10 DEF CrashWorker, Requeued
  <2>3. buffer' \in [Workers -> SUBSET Tasks] /\ link' \in [Workers -> Links]
    BY <1>10 DEF CrashWorker, LoopEnds
  <2>4. crashes' \in 0..MaxCrashes /\ UNCHANGED <<request, declared, drops>>
    BY <1>10, PipelineAssumption DEF CrashWorker
  <2> QED
    BY <2>1, <2>2, <2>3, <2>4
<1> QED
  BY <1>1, <1>2, <1>3, <1>4, <1>6, <1>7, <1>8, <1>9, <1>10
     DEF WorkerAction, Dispatch, WorkerStep

\* Every step of the pipeline is one of a backend or of a worker.
LEMMA StepSplits ==
    ASSUME PipelineNext
    PROVE  \/ \E b \in Backends : Request(b) \/ BackendStep(b) \/ CrashBackend(b)
           \/ \E w \in Workers : WorkerAction(w)
BY DEF PipelineNext, WorkerAction

\* Type correctness of the whole pipeline.
THEOREM PipelineTypeCorrect == PipelineSpec => []PipelineTypeOK
<1>1. PipelineInit => PipelineTypeOK
  <2> SUFFICES ASSUME PipelineInit PROVE PipelineTypeOK
    OBVIOUS
  <2>1. StorageTypeOK
    BY InitialType DEF PipelineInit
  <2>2. place \in [Tasks -> Places] /\ link \in [Workers -> Links]
    BY DEF PipelineInit, Places, Unqueued, Links
  <2>3. /\ buffer \in [Workers -> SUBSET Tasks] /\ request \in [Backends -> Requests]
        /\ task \in [Clients -> Tasks \cup {Nil}]
    BY DEF PipelineInit, Requests
  <2>4. declared \in BOOLEAN
    BY DEF PipelineInit
  <2>5. crashes \in 0..MaxCrashes /\ drops \in 0..MaxDrops
    BY PipelineAssumption DEF PipelineInit
  <2> QED
    BY <2>1, <2>2, <2>3, <2>4, <2>5 DEF PipelineTypeOK
<1>2. PipelineTypeOK /\ [PipelineNext]_pipelineVars => PipelineTypeOK'
  <2> SUFFICES ASSUME PipelineTypeOK, [PipelineNext]_pipelineVars
               PROVE  PipelineTypeOK'
    OBVIOUS
  <2>1. CASE UNCHANGED pipelineVars
    BY <2>1 DEF pipelineVars, storageVars, PipelineTypeOK, StorageTypeOK
  <2>2. CASE PipelineNext
    BY <2>2, StepSplits, BackendKeepsType, WorkerKeepsType
  <2> QED
    BY <2>1, <2>2
<1> QED
  BY <1>1, <1>2, PTL DEF PipelineSpec

-----------------------------------------------------------------------------
(* What a storage command does for its client *)

\* The storage commands a backend or a worker runs.
Command(c) == WriteStep(c) \/ ReadStep(c) \/ WaitStep(c) \/ CommandFails(c)

\* A client inside create_job_status: from SET to PUBLISH to the prompt.
Creating(c) ==
    /\ call[c].op = "create"
    /\ call[c].at \in {"set", "publish", "prompt", "returned", "failed"}
    /\ call[c].at = "set" => call[c].copy \in JobStatus
    /\ call[c].at \in {"publish", "prompt", "returned"} => status[call[c].job] # Nil
    /\ call[c].at = "returned" => call[c].job \in prompt

\* A client inside update_job_status or complete_job of a job that exists.
Updating(c) ==
    /\ call[c].op \in {"update", "complete"}
    /\ call[c].at \in {"load", "set", "publish", "result", "returned", "failed"}
    /\ call[c].at \in {"load", "set"} => call[c].copy \in JobStatus

\* A client inside an operation that only reads.
Looking(c) ==
    /\ call[c].op \in {"status", "result", "wait"}
    /\ call[c].at \in {"load", "fetch", "listen", "receive", "reload"} \cup Finished

\* A command that fails ends the operation, or starts the listening.
LEMMA FailedCommand ==
    ASSUME StorageTypeOK, NEW c \in Clients, CommandFails(c)
    PROVE  /\ UNCHANGED redis
           /\ call'[c].op = call[c].op
           /\ call'[c].job = call[c].job
           /\ call'[c].at = IF call[c].op \in Waits /\ call[c].at = "load"
                            THEN "listen" ELSE "failed"
<1>1. call[c] \in Call
  BY BusyCall, PointFacts DEF CommandFails, StorageTypeOK, CallTypeOK
<1> QED
  BY <1>1 DEF CommandFails, StorageTypeOK, Goto, Exit, At, Call

\* create_job_status records the status first and the prompt last.
LEMMA CreatingCommand ==
    ASSUME StorageTypeOK, NEW c \in Clients, Creating(c), Command(c)
    PROVE  /\ Creating(c)'
           /\ call'[c].job = call[c].job
           /\ answer' = answer
           /\ prompt \subseteq prompt'
           /\ status[call[c].job] # Nil => status'[call[c].job] # Nil
           /\ \A j \in Jobs \ {call[c].job} : status'[j] = status[j]
<1>1. call[c] \in Call /\ call[c].job \in Jobs
  BY BusyCall DEF Creating, StorageTypeOK, CallTypeOK, Call
<1> USE <1>1, StatusValues DEF Creating, StorageTypeOK, Call
<1>2. CASE CommandFails(c)
  BY <1>2, FailedCommand DEF redis, Waits
<1>3. CASE SaveStatus(c)
  BY <1>3 DEF SaveStatus, Goto
<1>4. CASE Publish(c)
  BY <1>4 DEF Publish, AfterPublish, Goto, redis
<1>5. CASE SavePrompt(c)
  BY <1>5 DEF SavePrompt, Exit
<1>6. ~ReadStep(c) /\ ~WaitStep(c) /\ ~LoadMissing(c) /\ ~LoadToUpdate(c) /\ ~SaveResult(c)
  BY DEF ReadStep, WaitStep, LoadMissing, LoadToUpdate, LoadToReturn, FetchResult, SaveResult,
         LoadBeforeListening, StartSubscription, Receive, Timeout, ReloadMissing, ReloadToWait, At
<1> QED
  BY <1>2, <1>3, <1>4, <1>5, <1>6 DEF Command, WriteStep

\* An update writes only the keys of its own job, and none of them to Nil.
LEMMA UpdatingCommand ==
    ASSUME StorageTypeOK, NEW c \in Clients, Updating(c), status[call[c].job] # Nil,
           Command(c)
    PROVE  /\ Updating(c)'
           /\ call'[c].job = call[c].job
           /\ prompt' = prompt
           /\ status'[call[c].job] # Nil
           /\ \A j \in Jobs \ {call[c].job} : status'[j] = status[j] /\ answer'[j] = answer[j]
<1>1. call[c] \in Call /\ call[c].job \in Jobs
  BY BusyCall DEF Updating, StorageTypeOK, CallTypeOK, Call
<1> USE <1>1, StatusValues DEF Updating, StorageTypeOK, Call
<1>2. CASE CommandFails(c)
  BY <1>2, FailedCommand DEF redis, Waits
<1>3. CASE LoadToUpdate(c)
  BY <1>3 DEF LoadToUpdate, Goto, At, redis
<1>4. CASE SaveStatus(c)
  BY <1>4 DEF SaveStatus, Goto
<1>5. CASE Publish(c)
  BY <1>5 DEF Publish, AfterPublish, Goto, Exit, redis
<1>6. CASE SaveResult(c)
  BY <1>6 DEF SaveResult, Exit
<1>7. ~ReadStep(c) /\ ~WaitStep(c) /\ ~LoadMissing(c) /\ ~SavePrompt(c)
  BY DEF ReadStep, WaitStep, LoadMissing, LoadToReturn, FetchResult, SavePrompt, Waits,
         LoadBeforeListening, StartSubscription, Receive, Timeout, ReloadMissing, ReloadToWait, At
<1> QED
  BY <1>2, <1>3, <1>4, <1>5, <1>6, <1>7 DEF Command, WriteStep

\* Reading changes nothing in Redis.
LEMMA LookingCommand ==
    ASSUME StorageTypeOK, NEW c \in Clients, Looking(c), Command(c)
    PROVE  Looking(c)' /\ UNCHANGED redis
<1>1. call[c] \in Call
  BY BusyCall DEF Looking, StorageTypeOK, CallTypeOK, Finished
<1> USE <1>1 DEF Looking, StorageTypeOK, Call, Finished
<1>2. CASE CommandFails(c)
  BY <1>2, FailedCommand
<1>3. CASE ReadStep(c)
  <2>1. CASE LoadMissing(c)
    BY <2>1 DEF LoadMissing, Goto, Exit, redis
  <2>2. CASE LoadToReturn(c)
    BY <2>2 DEF LoadToReturn, GotoWith, redis
  <2>3. CASE FetchResult(c)
    BY <2>3 DEF FetchResult, redis
  <2> QED
    BY <1>3, <2>1, <2>2, <2>3 DEF ReadStep
<1>4. CASE WaitStep(c)
  <2>1. CASE LoadMissing(c)
    BY <2>1 DEF LoadMissing, Goto, GotoWith, Exit, At, redis
  <2>2. CASE LoadBeforeListening(c)
    <3>1. call[c].op = "wait"
      BY <2>2 DEF LoadBeforeListening, At, Waits
    <3>2. GotoWith(c, "returned", status[call[c].job]) \/ Goto(c, "listen")
      BY <2>2, <3>1 DEF LoadBeforeListening
    <3>3. call'[c].op = "wait" /\ call'[c].at \in {"returned", "listen"}
      BY <3>1, <3>2 DEF GotoWith, Goto
    <3> QED
      BY <2>2, <3>3 DEF LoadBeforeListening, redis
  <2>3. CASE StartSubscription(c)
    BY <2>3 DEF StartSubscription, Goto, GotoWith, Exit, At, redis
  <2>4. CASE Receive(c)
    BY <2>4 DEF Receive, Goto, GotoWith, Exit, At, redis
  <2>5. CASE Timeout(c)
    BY <2>5 DEF Timeout, Goto, GotoWith, Exit, At, redis
  <2>6. CASE ReloadMissing(c)
    BY <2>6 DEF ReloadMissing, Goto, GotoWith, Exit, At, redis
  <2>7. CASE ReloadToWait(c)
    BY <2>7 DEF ReloadToWait, Goto, GotoWith, Exit, At, redis
  <2> QED
    BY <1>4, <2>1, <2>2, <2>3, <2>4, <2>5, <2>6, <2>7 DEF WaitStep
<1>5. ~LoadToUpdate(c) /\ ~SaveStatus(c) /\ ~Publish(c) /\ ~SavePrompt(c) /\ ~SaveResult(c)
  BY DEF LoadToUpdate, SaveStatus, Publish, SavePrompt, SaveResult, At
<1> QED
  BY <1>2, <1>3, <1>4, <1>5 DEF Command, WriteStep, ReadStep

-----------------------------------------------------------------------------
(* Queued jobs are recorded *)

\* The job of a queued task has its status and its prompt.
Recorded ==
    \A t \in Tasks : place[t] \notin Unqueued => status[JobOf[t]] # Nil /\ JobOf[t] \in prompt

\* Backend b records the job of the task it is about to queue.
Sending(b) ==
    /\ request[b] # "none"
    /\ task[b] \in Tasks /\ call[b].job = JobOf[task[b]] /\ place[task[b]] = "sending"

\* A backend that is not idle looks, or sends a task.
BackendAtWork(b) ==
    \/ (call[b] = NoCall \/ Looking(b)) /\ task[b] = Nil
    \/ Creating(b) /\ Sending(b)

\* Two backends never send the same task.
SendersApart ==
    \A a \in Backends, b \in Backends : task[a] = task[b] /\ task[a] # Nil => a = b

\* A worker that is not idle updates the job of a task that was queued, ...
WorkerAtWork(w) ==
    \/ call[w] = NoCall /\ task[w] = Nil
    \/ /\ Updating(w)
       /\ task[w] \in Tasks /\ call[w].job = JobOf[task[w]] /\ place[task[w]] \notin Unqueued

\* ... and so will it with the tasks it has received.
BufferedIsQueued == \A w \in Workers : \A t \in buffer[w] : place[t] \notin Unqueued

\* The inductive invariant behind QueuedJobIsRecorded.
RecordInv ==
    /\ Recorded
    /\ \A b \in Backends : BackendAtWork(b)
    /\ SendersApart
    /\ \A w \in Workers : WorkerAtWork(w)
    /\ BufferedIsQueued

\* The storage never loses a status or a prompt.
Grows == /\ \A j \in Jobs : status[j] # Nil => status'[j] # Nil
         /\ prompt \subseteq prompt'

\* A client in one of the three roles is not idle.
LEMMA RolesAreBusy ==
    ASSUME NEW c \in Clients
    PROVE  /\ ~(Creating(c) /\ Looking(c)) /\ ~(Updating(c) /\ Looking(c))
           /\ ~(Creating(c) /\ Updating(c))
           /\ Creating(c) \/ Looking(c) \/ Updating(c) => call[c] # NoCall
BY DEF Creating, Looking, Updating, NoCall

\* A backend keeps its role in a step that leaves it, and the task it sends, alone.
LEMMA BackendUndisturbed ==
    ASSUME PipelineTypeOK, NEW b \in Backends, BackendAtWork(b), Grows,
           call'[b] = call[b], task'[b] = task[b],
           Sending(b) => place'[task[b]] = "sending" /\ request'[b] # "none"
    PROVE  BackendAtWork(b)'
<1>1. CASE (call[b] = NoCall \/ Looking(b)) /\ task[b] = Nil
  BY <1>1 DEF BackendAtWork, Looking
<1>2. CASE Creating(b) /\ Sending(b)
  <2>1. call[b].job \in Jobs
    BY <1>2, ClientFacts DEF Sending
  <2> QED
    BY <1>2, <2>1 DEF BackendAtWork, Creating, Sending, Grows
<1> QED
  BY <1>1, <1>2 DEF BackendAtWork

\* A worker keeps its role while queued tasks stay queued.
LEMMA WorkerUndisturbed ==
    ASSUME PipelineTypeOK, NEW w \in Workers, WorkerAtWork(w),
           call'[w] = call[w], task'[w] = task[w],
           \A t \in Tasks : place[t] \notin Unqueued => place'[t] \notin Unqueued
    PROVE  WorkerAtWork(w)'
BY DEF WorkerAtWork, Updating

\* Only a client inside an operation issues commands.
LEMMA CommandIsBusy ==
    ASSUME NEW c \in Clients, Command(c)
    PROVE  call[c].at # "idle" /\ call[c] # NoCall
<1>1. call[c].at # "idle"
  BY PointFacts DEF Command, WriteStep, ReadStep, WaitStep, LoadMissing, LoadToUpdate, SaveStatus,
       Publish, SavePrompt, SaveResult, LoadToReturn, FetchResult, LoadBeforeListening,
       StartSubscription, Receive, Timeout, ReloadMissing, ReloadToWait, CommandFails, At
<1> QED
  BY <1>1 DEF NoCall

\* A storage command keeps the role of its client and loses nothing.
LEMMA CommandKeepsRole ==
    ASSUME PipelineTypeOK, RecordInv, NEW c \in Clients, Command(c), UNCHANGED <<place, task, request>>
    PROVE  /\ Grows
           /\ c \in Backends => BackendAtWork(c)'
           /\ c \in Workers => WorkerAtWork(c)'
<1>1. call[c].at # "idle" /\ call[c] # NoCall
  BY CommandIsBusy
<1>2. StorageTypeOK /\ call[c].job \in Jobs
  BY <1>1, FrameFacts DEF PipelineTypeOK
<1>3. c \in Backends \/ c \in Workers
  BY PipelineAssumption
<1>4. CASE Looking(c)
  <2>1. Looking(c)' /\ UNCHANGED redis
    BY <1>2, <1>4, LookingCommand
  <2>2. c \notin Workers
    BY <1>1, <1>4, RolesAreBusy DEF RecordInv, WorkerAtWork
  <2>3. c \in Backends /\ task[c] = Nil
    BY <1>3, <1>4, <2>2, RolesAreBusy DEF RecordInv, BackendAtWork
  <2> QED
    BY <2>1, <2>2, <2>3 DEF Grows, BackendAtWork, redis
<1>5. CASE Creating(c) /\ c \in Backends
  <2>1. /\ Creating(c)' /\ call'[c].job = call[c].job
        /\ prompt \subseteq prompt'
        /\ status[call[c].job] # Nil => status'[call[c].job] # Nil
        /\ \A j \in Jobs \ {call[c].job} : status'[j] = status[j]
    BY <1>2, <1>5, CreatingCommand
  <2>2. Sending(c)
    BY <1>1, <1>5, RolesAreBusy DEF RecordInv, BackendAtWork
  <2>3. Grows
    BY <2>1 DEF Grows
  <2> QED
    BY <1>5, <2>1, <2>2, <2>3, ClientFacts DEF BackendAtWork, Sending
<1>6. CASE Updating(c) /\ c \in Workers
  <2>1. task[c] \in Tasks /\ call[c].job = JobOf[task[c]] /\ place[task[c]] \notin Unqueued
    BY <1>1, <1>6 DEF RecordInv, WorkerAtWork
  <2>2. /\ Updating(c)' /\ call'[c].job = call[c].job
        /\ prompt' = prompt
        /\ status'[call[c].job] # Nil
        /\ \A j \in Jobs \ {call[c].job} : status'[j] = status[j]
    BY <1>2, <1>6, <2>1, UpdatingCommand DEF RecordInv, Recorded
  <2>3. Grows
    BY <2>2 DEF Grows
  <2> QED
    BY <1>6, <2>1, <2>2, <2>3, ClientFacts DEF WorkerAtWork
<1> QED
  BY <1>1, <1>3, <1>4, <1>5, <1>6 DEF RecordInv, BackendAtWork, WorkerAtWork

\* What every step leaves to be shown: the acting client keeps its role, takes only
\* a new task, and no task is queued without the record of its job.
LEMMA RecordKept ==
    ASSUME PipelineTypeOK, RecordInv, Grows, NEW c \in Clients,
           \A d \in Clients \ {c} : call'[d] = call[d] /\ task'[d] = task[d],
           c \in Backends => /\ BackendAtWork(c)'
                             /\ task'[c] \in {task[c], Nil} \/ place[task'[c]] = "new",
           c \in Workers => WorkerAtWork(c)',
           \A t \in Tasks : place[t] \notin Unqueued => place'[t] \notin Unqueued,
           \A b \in Backends \ {c} :
               Sending(b) => place'[task[b]] = "sending" /\ request'[b] # "none",
           \A t \in Tasks : place'[t] \notin Unqueued =>
               place[t] \notin Unqueued \/ (status[JobOf[t]] # Nil /\ JobOf[t] \in prompt),
           \A w \in Workers : \A t \in buffer'[w] : t \in buffer[w] \/ place'[t] \notin Unqueued
    PROVE  RecordInv'
<1>1. Recorded'
  BY ClientFacts DEF RecordInv, Recorded, Grows
<1>2. \A b \in Backends : BackendAtWork(b)'
  BY BackendUndisturbed, ClientFacts DEF RecordInv
<1>3. SendersApart'
  <2> SUFFICES ASSUME NEW a \in Backends, NEW b \in Backends,
                      task'[a] = task'[b], task'[a] # Nil, a # b
               PROVE  FALSE
    BY DEF SendersApart
  <2>1. \A d \in Backends : task[d] # Nil => place[task[d]] = "sending"
    BY DEF RecordInv, BackendAtWork, Sending
  <2> QED
    BY <2>1, ClientFacts DEF RecordInv, SendersApart
<1>4. \A w \in Workers : WorkerAtWork(w)'
  BY WorkerUndisturbed, ClientFacts DEF RecordInv
<1>5. BufferedIsQueued'
  <2> SUFFICES ASSUME NEW w \in Workers, NEW t \in buffer'[w]
               PROVE  place'[t] \notin Unqueued
    BY DEF BufferedIsQueued
  <2>1. CASE t \in buffer[w]
    BY <2>1 DEF RecordInv, BufferedIsQueued, PipelineTypeOK
  <2> QED
    BY <2>1
<1> QED
  BY <1>1, <1>2, <1>3, <1>4, <1>5 DEF RecordInv

\* Nothing is lost where the storage is left alone.
LEMMA FrameGrows == UNCHANGED redis => Grows
BY DEF redis, Grows

\* What is known of a backend that is recording a job.
LEMMA SenderFacts ==
    ASSUME PipelineTypeOK, RecordInv, NEW b \in Backends, call[b].op = "create" \/ task[b] # Nil
    PROVE  /\ Creating(b) /\ call[b] # NoCall
           /\ task[b] \in Tasks /\ call[b].job = JobOf[task[b]] /\ place[task[b]] = "sending"
           /\ call[b].at = "returned" =>
                 status[JobOf[task[b]]] # Nil /\ JobOf[task[b]] \in prompt
           /\ request[b] # "none"
           /\ \A d \in Backends \ {b} : Sending(d) => task[d] # task[b]
<1>1. Creating(b) /\ Sending(b)
  BY DEF RecordInv, BackendAtWork, Looking, NoCall
<1>2. call[b] # NoCall
  BY <1>1 DEF Creating, NoCall
<1>3. \A d \in Backends \ {b} : Sending(d) => task[d] # task[b]
  BY <1>1, ClientFacts DEF RecordInv, SendersApart, Sending
<1> QED
  BY <1>1, <1>2, <1>3 DEF Creating, Sending

\* A backend queues only what it has recorded.
LEMMA BackendKeepsRecord ==
    ASSUME PipelineTypeOK, RecordInv, NEW b \in Backends,
           Request(b) \/ BackendStep(b) \/ CrashBackend(b)
    PROVE  RecordInv'
<1>a. /\ b \in Clients /\ b \notin Workers
      /\ call \in [Clients -> Call \cup {NoCall}]
      /\ task \in [Clients -> Tasks \cup {Nil}]
      /\ place \in [Tasks -> Places]
      /\ request \in [Backends -> Requests]
  BY ClientFacts DEF PipelineTypeOK, StorageTypeOK
<1> USE <1>a, FrameGrows
<1>b. ASSUME call'[b] = NoCall \/ Looking(b)', task'[b] = Nil
      PROVE  BackendAtWork(b)'
  BY <1>b DEF BackendAtWork
<1>c. \A d \in Backends : Sending(d) => /\ task[d] \in Tasks /\ place[task[d]] = "sending"
                                       /\ request[d] # "none"
  BY DEF Sending
<1>r. \A d \in Backends \ {b} : request'[d] = request[d]
  BY DEF Request, sync_chat_completion, async_chat_completion, check_status, BackendStep,
         send_task, check_result, SendingFails, QueueTask, QueueingFails, ReadAnswer, Respond,
         BackendCommand, CrashBackend
\* The task in hand leaves the backend.
<1>d. ASSUME NEW X, task[b] # Nil, UNCHANGED <<redis, buffer>>,
             \A t \in Tasks : place'[t] = IF t = task[b] THEN X ELSE place[t],
             X \notin Unqueued => status[JobOf[task[b]]] # Nil /\ JobOf[task[b]] \in prompt,
             \A c \in Clients \ {b} : call'[c] = call[c] /\ task'[c] = task[c],
             task'[b] = Nil, call'[b] = NoCall \/ Looking(b)'
      PROVE  RecordInv'
  <2>1. \A t \in Tasks : place[t] \notin Unqueued => place'[t] \notin Unqueued
    BY <1>d, SenderFacts DEF Unqueued
  <2>2. \A d \in Backends \ {b} :
           Sending(d) => place'[task[d]] = "sending" /\ request'[d] # "none"
    BY <1>c, <1>d, <1>r, SenderFacts
  <2> QED
    BY <1>b, <1>d, <2>1, <2>2, RecordKept
\* The step leaves the tasks alone.
<1>e. ASSUME UNCHANGED <<redis, buffer, place, task>>, task[b] = Nil,
             \A c \in Clients \ {b} : call'[c] = call[c],
             call'[b] = NoCall \/ Looking(b)'
      PROVE  RecordInv'
  BY <1>b, <1>c, <1>e, <1>r, RecordKept
<1>f. \A op, at : (call[b].op = op /\ call[b].at = at /\ op \in {"wait", "status", "result"})
                    => task[b] = Nil
  BY SenderFacts DEF Creating
<1>1. ASSUME NEW t \in Tasks, NEW kind \in {"sync", "async"}, send_task(b, kind, t)
      PROVE  RecordInv'
  <2>1. /\ place[t] = "new"
        /\ call' = [call EXCEPT ![b] = [op |-> "create", at |-> "set", job |-> JobOf[t],
                                        copy |-> Pending, val |-> Nil]]
        /\ task' = [task EXCEPT ![b] = t]
        /\ request' = [request EXCEPT ![b] = kind]
        /\ UNCHANGED <<redis, buffer>>
    BY <1>1 DEF send_task, create_job_status, Begin
  <2>2. \A c \in Clients \ {b} : call'[c] = call[c] /\ task'[c] = task[c]
    BY <2>1
  <2>3. \A s \in Tasks : place'[s] = IF s = t THEN "sending" ELSE place[s]
    BY <1>1 DEF send_task
  <2>4. /\ call'[b].job = JobOf[t] /\ task'[b] = t /\ place'[t] = "sending"
        /\ request'[b] # "none"
    BY <2>1, <2>3
  <2>5. Creating(b)'
    BY <2>1, StatusValues DEF Creating
  <2>6. BackendAtWork(b)'
    BY <2>4, <2>5 DEF BackendAtWork, Sending
  <2>7. \A d \in Backends \ {b} :
           Sending(d) => place'[task[d]] = "sending" /\ request'[d] # "none"
    BY <1>c, <1>r, <2>3
  <2>8. \A s \in Tasks : place'[s] \notin Unqueued <=> place[s] \notin Unqueued
    BY <2>1, <2>3 DEF Unqueued
  <2> QED
    BY <2>1, <2>2, <2>4, <2>6, <2>7, <2>8, RecordKept
<1>2. ASSUME NEW j \in Jobs, check_result(b, j)
      PROVE  RecordInv'
  <2>1. /\ UNCHANGED <<redis, buffer, place, task>> /\ call[b].at \in Finished \cup {"idle"}
        /\ call' = [call EXCEPT ![b] = [op |-> "status", at |-> "load", job |-> j,
                                        copy |-> Nil, val |-> Nil]]
    BY <1>2 DEF check_result, get_job_status, Begin
  <2>2. Looking(b)'
    BY <2>1 DEF Looking
  <2>3. task[b] = Nil
    BY <1>2, SenderFacts DEF check_result
  <2> QED
    BY <1>e, <2>1, <2>2, <2>3
<1>3. CASE SendingFails(b)
  <2>1. /\ call[b].op = "create" /\ call' = [call EXCEPT ![b] = NoCall]
        /\ task' = [task EXCEPT ![b] = Nil] /\ UNCHANGED <<redis, buffer>>
        /\ place' = [place EXCEPT ![task[b]] = "failed"]
    BY <1>3 DEF SendingFails, At, Rest
  <2>2. task[b] # Nil
    BY <2>1, SenderFacts, ClientFacts
  <2>3. \A t \in Tasks : place'[t] = IF t = task[b] THEN "failed" ELSE place[t]
    BY <2>1
  <2> QED
    BY <1>d, <2>1, <2>2, <2>3 DEF Unqueued
<1>4. CASE QueueTask(b)
  <2>1. call[b].op = "create" /\ call[b].at = "returned" /\ buffer' = buffer
        /\ task' = [task EXCEPT ![b] = Nil]
        /\ place' = [place EXCEPT ![task[b]] = Queued]
    BY <1>4 DEF QueueTask, At, Rest
  <2>2. task[b] # Nil /\ status[JobOf[task[b]]] # Nil /\ JobOf[task[b]] \in prompt
    BY <2>1, SenderFacts, ClientFacts
  <2>3. \A t \in Tasks : place'[t] = IF t = task[b] THEN Queued ELSE place[t]
    BY <2>1
  <2>4. /\ UNCHANGED redis
        /\ \A c \in Clients \ {b} : call'[c] = call[c]
        /\ \/ call'[b] = NoCall
           \/ call'[b] = [op |-> "wait", at |-> "load", job |-> call[b].job,
                          copy |-> Nil, val |-> Nil]
    BY <1>4 DEF QueueTask, Rest, wait_completeness, Begin
  <2>5. call'[b] = NoCall \/ Looking(b)'
    BY <2>4 DEF Looking
  <2> QED
    BY <1>d, <2>1, <2>2, <2>3, <2>4, <2>5
<1>5. CASE QueueingFails(b)
  <2>1. /\ call[b].op = "create" /\ call[b].at = "returned"
        /\ UNCHANGED <<redis, buffer>> /\ call' = [call EXCEPT ![b] = NoCall]
        /\ task' = [task EXCEPT ![b] = Nil]
    BY <1>5 DEF QueueingFails, At
  <2>2. PICK outcome : \A t \in Tasks : place'[t] = IF t = task[b] THEN outcome ELSE place[t]
    BY <1>5 DEF QueueingFails
  <2>3. task[b] # Nil /\ status[JobOf[task[b]]] # Nil /\ JobOf[task[b]] \in prompt
    BY <2>1, SenderFacts, ClientFacts
  <2> QED
    BY <1>d, <2>1, <2>2, <2>3
<1>6. CASE ReadAnswer(b)
  <2>1. /\ UNCHANGED <<redis, buffer, place, task>> /\ call[b].op \in {"wait", "status"}
        /\ call' = [call EXCEPT ![b] = [op |-> "result", at |-> "fetch", job |-> call[b].job,
                                        copy |-> Nil, val |-> Nil]]
    BY <1>6 DEF ReadAnswer, HasStatus, get_job_result, Begin
  <2>2. Looking(b)'
    BY <2>1 DEF Looking
  <2> QED
    BY <1>e, <1>f, <2>1, <2>2
<1>7. CASE Respond(b)
  <2>1. /\ UNCHANGED <<redis, buffer, place>> /\ call[b].op \in {"wait", "status", "result"}
        /\ call' = [call EXCEPT ![b] = NoCall] /\ task' = [task EXCEPT ![b] = Nil]
    BY <1>7 DEF Respond, Rest
  <2>2. task[b] = Nil
    BY <1>f, <2>1
  <2>3. task' = task
    BY <2>1, <2>2
  <2> QED
    BY <1>e, <2>1, <2>2, <2>3
<1>8. CASE BackendCommand(b)
  <2>1. Command(b) /\ ClientStep(b) /\ UNCHANGED <<place, task, buffer, request>>
    BY <1>8 DEF BackendCommand, Command, ClientStep, StorageStep
  <2>2. \A c \in Clients \ {b} : call'[c] = call[c]
    BY <2>1, OthersKeepTheirSubscription DEF PipelineTypeOK
  <2>3. Grows /\ BackendAtWork(b)'
    BY <2>1, CommandKeepsRole
  <2> QED
    BY <1>c, <1>r, <2>1, <2>2, <2>3, RecordKept
<1>9. CASE CrashBackend(b)
  <2>1. /\ UNCHANGED <<redis, buffer>> /\ call' = [call EXCEPT ![b] = NoCall]
        /\ task' = [task EXCEPT ![b] = Nil]
        /\ \A t \in Tasks : place'[t] = IF task[b] = t THEN "failed" ELSE place[t]
    BY <1>9 DEF CrashBackend
  <2>2. CASE task[b] # Nil
    BY <1>d, <2>1, <2>2 DEF Unqueued
  <2>3. CASE task[b] = Nil
    <3>1. task' = task
      BY <2>1, <2>3
    <3>2. \A t \in Tasks : place'[t] = place[t]
      BY <2>1, <2>3, ClientFacts
    <3>3. \A d \in Backends \ {b} :
           Sending(d) => place'[task[d]] = "sending" /\ request'[d] # "none"
      BY <1>c, <1>r, <3>2
    <3> QED
      BY <1>b, <2>1, <2>3, <3>1, <3>2, <3>3, RecordKept
  <2> QED
    BY <2>2, <2>3
<1> QED
  BY <1>1, <1>2, <1>3, <1>4, <1>5, <1>6, <1>7, <1>8, <1>9
     DEF Request, sync_chat_completion, async_chat_completion, check_status, BackendStep

\* A worker takes only what was queued, and returns it to where it was.
LEMMA WorkerKeepsRecord ==
    ASSUME PipelineTypeOK, RecordInv, NEW w \in Workers, WorkerAction(w)
    PROVE  RecordInv'
<1>a. /\ w \in Clients /\ w \notin Backends
      /\ call \in [Clients -> Call \cup {NoCall}]
      /\ task \in [Clients -> Tasks \cup {Nil}]
      /\ place \in [Tasks -> Places]
      /\ buffer \in [Workers -> SUBSET Tasks]
  BY ClientFacts DEF PipelineTypeOK, StorageTypeOK
<1> USE <1>a, FrameGrows
<1>b. WorkerAtWork(w) /\ w \notin Unqueued
  BY PipelineAssumption DEF RecordInv
<1>c. \A d \in Backends : Sending(d) => task[d] \in Tasks /\ place[task[d]] \in Unqueued
                                        /\ place[task[d]] = "sending" /\ request[d] # "none"
  BY DEF Sending, Unqueued
<1>r. request' = request
  BY DEF WorkerAction, Dispatch, WorkerStep, start_connection, Deliver, callback, CallLLM, ack, nack,
         Dispose, WorkerCommand, DropLink, LoopCrashes, CrashWorker
\* A step that moves messages among RabbitMQ and the workers only.
<1>e. ASSUME UNCHANGED redis, WorkerAtWork(w)',
             \A d \in Clients \ {w} : call'[d] = call[d] /\ task'[d] = task[d],
             \A t \in Tasks : \/ place'[t] = place[t]
                              \/ place[t] \notin Unqueued /\ place'[t] \notin Unqueued,
             \A x \in Workers : \A t \in buffer'[x] : t \in buffer[x] \/ place'[t] \notin Unqueued
      PROVE  RecordInv'
  <2>1. \A t \in Tasks : place[t] \notin Unqueued <=> place'[t] \notin Unqueued
    BY <1>e
  <2>2. \A d \in Backends \ {w} :
           Sending(d) => place'[task[d]] = "sending" /\ request'[d] # "none"
    BY <1>c, <1>e, <1>r
  <2> QED
    BY <1>e, <2>1, <2>2, RecordKept
\* The worker itself goes on with what it does.
<1>f. ASSUME UNCHANGED <<call, task>>,
             \A t \in Tasks : place[t] \notin Unqueued => place'[t] \notin Unqueued
      PROVE  WorkerAtWork(w)'
  BY <1>b, <1>f, WorkerUndisturbed
<1>g. Nil \notin Tasks
  BY ClientFacts
<1>1. CASE start_connection(w)
  <2>1. UNCHANGED <<call, task, redis, place, buffer>>
    BY <1>1 DEF start_connection, storageVars, redis
  <2> QED
    BY <1>e, <1>f, <2>1
<1>2. ASSUME NEW s \in Tasks, Deliver(w, s)
      PROVE  RecordInv'
  <2>1. UNCHANGED <<call, task, redis>> /\ place[s] = "ready"
    BY <1>2 DEF Deliver, storageVars, redis
  <2>2. \A t \in Tasks : place'[t] = IF t = s THEN w ELSE place[t]
    BY <1>2 DEF Deliver
  <2>3. \A x \in Workers : \A t \in buffer'[x] : t \in buffer[x] \/ t = s
    BY <1>2 DEF Deliver
  <2>4. place[s] \notin Unqueued
    BY <2>1 DEF Unqueued
  <2>5. WorkerAtWork(w)'
    BY <1>b, <1>f, <2>1, <2>2, <2>4
  <2> QED
    BY <1>b, <1>e, <2>1, <2>2, <2>3, <2>4, <2>5
<1>3. ASSUME NEW s \in Tasks, callback(w, s)
      PROVE  RecordInv'
  <2>1. /\ UNCHANGED <<redis, place>> /\ s \in buffer[w]
        /\ call' = [call EXCEPT ![w] = [op |-> "update", at |-> "load", job |-> JobOf[s],
                                        copy |-> InProgress, val |-> Nil]]
        /\ task' = [task EXCEPT ![w] = s]
        /\ \A x \in Workers : buffer'[x] \subseteq buffer[x]
    BY <1>3 DEF callback, update_job_status, Begin
  <2>2. place[s] \notin Unqueued
    BY <2>1 DEF RecordInv, BufferedIsQueued
  <2>3. WorkerAtWork(w)'
    BY <2>1, <2>2, StatusValues DEF WorkerAtWork, Updating
  <2> QED
    BY <1>e, <2>1, <2>3
<1>4. CASE CallLLM(w)
  <2>1. /\ UNCHANGED <<redis, place, buffer, task>>
        /\ call[w].op = "update" /\ call[w].at = "returned"
        /\ \E s \in {Completed, Failed}, r \in Results \cup {Nil} :
              call' = [call EXCEPT ![w] = [op |-> "complete", at |-> "load", job |-> call[w].job,
                                           copy |-> s, val |-> r]]
    BY <1>4 DEF CallLLM, complete_job, complete_job_error, Begin, At
  <2>2. task[w] \in Tasks /\ call[w].job = JobOf[task[w]] /\ place[task[w]] \notin Unqueued
    BY <1>b, <2>1 DEF WorkerAtWork, NoCall
  <2>3. WorkerAtWork(w)'
    BY <2>1, <2>2, StatusValues DEF WorkerAtWork, Updating
  <2> QED
    BY <1>e, <2>1, <2>3
<1>5. CASE ack(w) \/ nack(w)
  <2>1. /\ UNCHANGED redis /\ call' = [call EXCEPT ![w] = NoCall]
        /\ task' = [task EXCEPT ![w] = Nil]
        /\ \A x \in Workers : buffer'[x] \subseteq buffer[x]
        /\ call[w].op \in {"update", "complete"}
    BY <1>5 DEF ack, nack, At, Dispose, LoopEnds, Rest
  <2>2. PICK where \in {"acked", "ready"} :
           \A t \in Tasks : place'[t] \in {place[t], IF t = task[w] THEN where ELSE place[t]}
    BY <1>5 DEF ack, nack, Dispose
  <2>3. place[task[w]] \notin Unqueued /\ where \notin Unqueued
    BY <1>b, <2>1 DEF WorkerAtWork, NoCall, Unqueued
  <2>4. WorkerAtWork(w)'
    BY <2>1 DEF WorkerAtWork
  <2> QED
    BY <1>e, <2>1, <2>2, <2>3, <2>4
<1>6. CASE WorkerCommand(w)
  <2>1. Command(w) /\ ClientStep(w) /\ UNCHANGED <<place, task, buffer, request>>
    BY <1>6 DEF WorkerCommand, Command, ClientStep, StorageStep
  <2>2. \A c \in Clients \ {w} : call'[c] = call[c]
    BY <2>1, OthersKeepTheirSubscription DEF PipelineTypeOK
  <2>3. Grows /\ WorkerAtWork(w)'
    BY <2>1, CommandKeepsRole
  <2> QED
    BY <1>c, <2>1, <2>2, <2>3, RecordKept
<1>7. CASE DropLink(w)
  <2>1. UNCHANGED <<call, task, redis, buffer>>
    BY <1>7 DEF DropLink, storageVars, redis
  <2>2. \A t \in Tasks : place'[t] = IF place[t] = w THEN "ready" ELSE place[t]
    BY <1>7 DEF DropLink, Requeued
  <2>3. \A t \in Tasks : \/ place'[t] = place[t]
                         \/ place[t] \notin Unqueued /\ place'[t] \notin Unqueued
    BY <1>b, <2>2 DEF Unqueued
  <2> QED
    BY <1>e, <1>f, <2>1, <2>3
<1>8. CASE LoopCrashes(w)
  <2>1. /\ UNCHANGED <<call, task, redis, place>>
        /\ \A x \in Workers : buffer'[x] \subseteq buffer[x]
    BY <1>8 DEF LoopCrashes, LoopEnds, storageVars, redis
  <2> QED
    BY <1>e, <1>f, <2>1
<1>9. CASE CrashWorker(w)
  <2>1. /\ UNCHANGED redis /\ call' = [call EXCEPT ![w] = NoCall]
        /\ task' = [task EXCEPT ![w] = Nil]
        /\ \A x \in Workers : buffer'[x] \subseteq buffer[x]
    BY <1>9 DEF CrashWorker, LoopEnds, Rest
  <2>2. \A t \in Tasks : place'[t] = IF place[t] = w THEN "ready" ELSE place[t]
    BY <1>9 DEF CrashWorker, Requeued
  <2>3. \A t \in Tasks : \/ place'[t] = place[t]
                         \/ place[t] \notin Unqueued /\ place'[t] \notin Unqueued
    BY <1>b, <2>2 DEF Unqueued
  <2>4. WorkerAtWork(w)'
    BY <2>1 DEF WorkerAtWork
  <2> QED
    BY <1>e, <2>1, <2>3, <2>4
<1> QED
  BY <1>1, <1>2, <1>3, <1>4, <1>5, <1>6, <1>7, <1>8, <1>9
     DEF WorkerAction, Dispatch, WorkerStep

\* The invariant holds, whatever fails, crashes or is delivered twice.
LEMMA RecordInvariant == PipelineSpec => [](PipelineTypeOK /\ RecordInv)
<1>1. PipelineInit => RecordInv
  <2> SUFFICES ASSUME PipelineInit PROVE RecordInv
    OBVIOUS
  <2>1. \A c \in Clients : call[c] = NoCall /\ task[c] = Nil
    BY DEF PipelineInit, StorageInit
  <2>2. Recorded /\ BufferedIsQueued
    BY DEF PipelineInit, Recorded, BufferedIsQueued, Unqueued
  <2> QED
    BY <2>1, <2>2, ClientFacts DEF RecordInv, BackendAtWork, WorkerAtWork, SendersApart
<1>2. PipelineTypeOK /\ RecordInv /\ [PipelineNext]_pipelineVars => RecordInv'
  <2> SUFFICES ASSUME PipelineTypeOK, RecordInv, [PipelineNext]_pipelineVars
               PROVE  RecordInv'
    OBVIOUS
  <2>1. CASE UNCHANGED pipelineVars
    BY <2>1 DEF pipelineVars, storageVars, RecordInv, Recorded, BackendAtWork, WorkerAtWork,
                Sending, SendersApart, BufferedIsQueued, Creating, Looking, Updating
  <2>2. CASE PipelineNext
    BY <2>2, StepSplits, BackendKeepsRecord, WorkerKeepsRecord
  <2> QED
    BY <2>1, <2>2
<1> QED
  BY <1>1, <1>2, PipelineTypeCorrect, PTL DEF PipelineSpec

\* Every job that reached the queue has its status and its prompt, and no worker
\* misses the status of the job it works on: for any number of clients and tasks,
\* whatever fails, crashes or is delivered twice.
THEOREM QueuedJobsAreRecorded == PipelineSpec => []QueuedJobIsRecorded
<1>1. RecordInv => QueuedJobIsRecorded
  BY DEF RecordInv, QueuedJobIsRecorded, Recorded, WorkerAtWork, Updating, NoCall
<1> QED
  BY <1>1, RecordInvariant, PTL

-----------------------------------------------------------------------------
(* An unacknowledged task is held *)

\* What worker w holds is what RabbitMQ counts as delivered to it, unless RabbitMQ
\* has dropped its connection.
Holding(w) ==
    /\ link[w] = "down" => buffer[w] = {} /\ task[w] = Nil
    /\ link[w] = "up" => /\ \A t \in buffer[w] : place[t] = w
                         /\ task[w] # Nil => place[task[w]] = w /\ task[w] \notin buffer[w]
    /\ \A t \in Tasks : place[t] = w => link[w] = "up" /\ (t \in buffer[w] \/ task[w] = t)

\* The inductive invariant behind DeliveredTaskIsHeld and ProcessedTaskIsOwned.
HeldInv ==
    /\ \A w \in Workers : Holding(w)
    /\ drops = 0 => \A w \in Workers : link[w] # "dropped"

\* A backend moves only tasks that are not queued yet, and not to a worker.
LEMMA BackendFrame ==
    ASSUME PipelineTypeOK, RecordInv, NEW b \in Backends,
           Request(b) \/ BackendStep(b) \/ CrashBackend(b)
    PROVE  /\ UNCHANGED <<buffer, link, drops>>
           /\ \A w \in Workers : call'[w] = call[w] /\ task'[w] = task[w]
           /\ \A t \in Tasks :
                 \/ place'[t] = place[t]
                 \/ place[t] \in {"new", "sending"} /\ place'[t] \in Unqueued \cup {"ready"}
<1>a. /\ b \in Clients /\ b \notin Workers
      /\ call \in [Clients -> Call \cup {NoCall}]
      /\ task \in [Clients -> Tasks \cup {Nil}]
      /\ place \in [Tasks -> Places]
  BY ClientFacts DEF PipelineTypeOK, StorageTypeOK
<1>b. \A w \in Workers : w \in Clients \ {b}
  BY <1>a, ClientFacts
<1>c. Queued \in Unqueued \cup {"ready"} /\ "failed" \in Unqueued
  BY DEF Queued, Unqueued
<1> USE <1>a, <1>b
<1>d. /\ UNCHANGED <<buffer, link, drops>>
      /\ \A w \in Workers : task'[w] = task[w]
  BY DEF Request, sync_chat_completion, async_chat_completion, check_status, BackendStep,
         send_task, check_result, SendingFails, QueueTask, QueueingFails, ReadAnswer, Respond,
         BackendCommand, CrashBackend, Rest
<1>1. ASSUME NEW t \in Tasks, NEW kind \in {"sync", "async"}, send_task(b, kind, t)
      PROVE  /\ \A w \in Workers : call'[w] = call[w]
             /\ \A s \in Tasks : \/ place'[s] = place[s]
                                 \/ place[s] = "new" /\ place'[s] = "sending"
  BY <1>1 DEF send_task, create_job_status, Begin
<1>2. ASSUME NEW j \in Jobs, check_result(b, j)
      PROVE  (\A w \in Workers : call'[w] = call[w]) /\ place' = place
  BY <1>2 DEF check_result, get_job_status, Begin
<1>3. CASE SendingFails(b) \/ QueueTask(b) \/ QueueingFails(b) \/ CrashBackend(b)
  <2>1. \A w \in Workers : call'[w] = call[w]
    BY <1>3 DEF SendingFails, QueueTask, QueueingFails, CrashBackend, Rest, wait_completeness, Begin
  <2>2. PICK X \in Unqueued \cup {"ready"} :
           \A t \in Tasks : place'[t] = place[t] \/ (t = task[b] /\ place'[t] = X)
    BY <1>3, <1>c DEF SendingFails, QueueTask, QueueingFails, CrashBackend
  <2>3. task[b] # Nil => place[task[b]] = "sending"
    BY SenderFacts
  <2> QED
    BY <1>d, <2>1, <2>2, <2>3, ClientFacts
<1>4. CASE ReadAnswer(b) \/ Respond(b)
  BY <1>4, <1>d DEF ReadAnswer, get_job_result, Begin, Respond, Rest
<1>5. CASE BackendCommand(b)
  <2>1. ClientStep(b) /\ place' = place
    BY <1>5 DEF BackendCommand, ClientStep, StorageStep
  <2> QED
    BY <1>d, <2>1, OthersKeepTheirSubscription DEF PipelineTypeOK
<1> QED
  BY <1>d, <1>1, <1>2, <1>3, <1>4, <1>5
     DEF Request, sync_chat_completion, async_chat_completion, check_status, BackendStep, Unqueued

\* What a step of worker w leaves to be shown.
LEMMA HeldKept ==
    ASSUME PipelineTypeOK, HeldInv, NEW w \in Workers, Holding(w)',
           \A v \in Workers \ {w} :
               /\ link'[v] = link[v] /\ buffer'[v] = buffer[v] /\ task'[v] = task[v]
               /\ \A t \in Tasks : place'[t] = v <=> place[t] = v,
           drops' = 0 => drops = 0 /\ link'[w] # "dropped"
    PROVE  HeldInv'
<1>1. ASSUME NEW v \in Workers \ {w}
      PROVE  Holding(v)'
  <2>1. task[v] \in Tasks \cup {Nil} /\ buffer[v] \subseteq Tasks
    BY ClientFacts DEF PipelineTypeOK
  <2> QED
    BY <2>1 DEF HeldInv, Holding
<1> QED
  BY <1>1 DEF HeldInv

\* A backend leaves alone what the workers hold.
LEMMA BackendKeepsHeld ==
    ASSUME PipelineTypeOK, RecordInv, HeldInv, NEW b \in Backends,
           Request(b) \/ BackendStep(b) \/ CrashBackend(b)
    PROVE  HeldInv'
<1>1. /\ UNCHANGED <<buffer, link, drops>>
      /\ \A w \in Workers : task'[w] = task[w]
      /\ \A w \in Workers, t \in Tasks : place'[t] = w <=> place[t] = w
  BY BackendFrame, PipelineAssumption DEF Unqueued
<1>2. \A w \in Workers : task[w] \in Tasks \cup {Nil} /\ buffer[w] \subseteq Tasks
  BY ClientFacts DEF PipelineTypeOK
<1> QED
  BY <1>1, <1>2 DEF HeldInv, Holding

\* A worker takes, keeps and gives back in agreement with RabbitMQ.
LEMMA WorkerKeepsHeld ==
    ASSUME PipelineTypeOK, RecordInv, HeldInv, NEW w \in Workers, WorkerAction(w)
    PROVE  HeldInv'
<1>a. /\ w \in Clients /\ w \notin Unqueued \cup {"ready", "acked"}
      /\ task \in [Clients -> Tasks \cup {Nil}]
      /\ place \in [Tasks -> Places]
      /\ buffer \in [Workers -> SUBSET Tasks]
      /\ link \in [Workers -> Links] /\ drops \in Nat
  BY ClientFacts, PipelineAssumption DEF PipelineTypeOK
<1>b. \A v \in Workers : v \in Clients /\ v \notin Unqueued \cup {"ready", "acked"}
  BY ClientFacts, PipelineAssumption
<1>c. /\ Holding(w)
      /\ call[w] = NoCall => task[w] = Nil
      /\ call[w] # NoCall => task[w] \in Tasks
  BY DEF HeldInv, RecordInv, WorkerAtWork, Updating, NoCall
<1>d. Nil \notin Tasks
  BY ClientFacts
<1>n. NoCall.op \notin {"update", "complete"}
  BY DEF NoCall
<1> USE <1>a, <1>b, <1>d
\* A step that leaves RabbitMQ alone and all the worker holds.
<1>e. ASSUME UNCHANGED <<place, buffer, link, task, drops>>
      PROVE  HeldInv'
  BY <1>e DEF HeldInv, Holding
<1>1. CASE start_connection(w)
  <2>1. /\ UNCHANGED <<place, buffer, task, drops>> /\ link[w] = "down"
        /\ link' = [link EXCEPT ![w] = "up"]
    BY <1>1 DEF start_connection
  <2>2. Holding(w)'
    BY <1>c, <2>1 DEF Holding
  <2> QED
    BY <2>1, <2>2, HeldKept
<1>2. ASSUME NEW s \in Tasks, Deliver(w, s)
      PROVE  HeldInv'
  <2>1. /\ UNCHANGED <<link, task, drops>> /\ place[s] = "ready" /\ link[w] = "up"
        /\ place' = [place EXCEPT ![s] = w] /\ buffer' = [buffer EXCEPT ![w] = @ \cup {s}]
    BY <1>2 DEF Deliver
  <2>2. Holding(w)'
    BY <1>c, <2>1 DEF Holding
  <2>3. \A v \in Workers \ {w}, t \in Tasks : place'[t] = v <=> place[t] = v
    BY <2>1
  <2>4. link'[w] # "dropped" /\ \A v \in Workers \ {w} : buffer'[v] = buffer[v]
    BY <2>1
  <2> QED
    BY <2>1, <2>2, <2>3, <2>4, HeldKept
<1>3. ASSUME NEW s \in Tasks, callback(w, s)
      PROVE  HeldInv'
  <2>1. /\ UNCHANGED <<link, place, drops>> /\ call[w] = NoCall /\ s \in buffer[w]
        /\ task' = [task EXCEPT ![w] = s] /\ buffer' = [buffer EXCEPT ![w] = @ \ {s}]
    BY <1>3 DEF callback
  <2>2. Holding(w)'
    BY <1>c, <2>1 DEF Holding
  <2>3. drops' = 0 => drops = 0 /\ link'[w] # "dropped"
    BY <2>1 DEF HeldInv
  <2>4. \A v \in Workers \ {w} : buffer'[v] = buffer[v] /\ task'[v] = task[v]
    BY <2>1
  <2> QED
    BY <2>1, <2>2, <2>3, <2>4, HeldKept
<1>4. CASE CallLLM(w) \/ WorkerCommand(w)
  BY <1>4, <1>e DEF CallLLM, WorkerCommand
<1>5. CASE ack(w) \/ nack(w)
  <2>1. /\ drops' = drops /\ call[w] # NoCall
        /\ task' = [task EXCEPT ![w] = Nil]
    BY <1>5, <1>n DEF ack, nack, At, Dispose, Rest
  <2>2. PICK where \in {"acked", "ready"} :
           place' = IF link[w] = "up" THEN [place EXCEPT ![task[w]] = where] ELSE place
    BY <1>5 DEF ack, nack, Dispose
  <2>3. task[w] \in Tasks /\ (link[w] = "up" => place[task[w]] = w /\ task[w] \notin buffer[w])
    BY <1>c, <2>1 DEF Holding
  <2>4. \A v \in Workers \ {w}, t \in Tasks : place'[t] = v <=> place[t] = v
    BY <2>2, <2>3
  <2>5. \/ UNCHANGED <<link, buffer>>
        \/ /\ link[w] # "up" /\ place' = place
           /\ link' = [link EXCEPT ![w] = "down"] /\ buffer' = [buffer EXCEPT ![w] = {}]
    BY <1>5 DEF ack, nack, Dispose, LoopEnds
  <2>6. Holding(w)'
    <3>1. CASE UNCHANGED <<link, buffer>>
      BY <1>c, <2>1, <2>2, <2>3, <3>1 DEF Holding
    <3>2. CASE ~UNCHANGED <<link, buffer>>
      BY <1>c, <2>1, <2>5, <3>2 DEF Holding
    <3> QED
      BY <3>1, <3>2
  <2>7. drops' = 0 => drops = 0 /\ link'[w] # "dropped"
    BY <2>1, <2>5 DEF HeldInv
  <2>8. \A v \in Workers \ {w} : link'[v] = link[v] /\ buffer'[v] = buffer[v] /\ task'[v] = task[v]
    BY <2>1, <2>5
  <2> QED
    BY <2>4, <2>6, <2>7, <2>8, HeldKept
<1>6. CASE DropLink(w)
  <2>1. /\ UNCHANGED <<task, buffer>> /\ drops' = drops + 1
        /\ link' = [link EXCEPT ![w] = "dropped"]
        /\ \A t \in Tasks : place'[t] = IF place[t] = w THEN "ready" ELSE place[t]
    BY <1>6 DEF DropLink, Requeued
  <2>2. Holding(w)' /\ drops' # 0
    BY <2>1 DEF Holding
  <2>3. \A v \in Workers \ {w}, t \in Tasks : place'[t] = v <=> place[t] = v
    BY <2>1
  <2> QED
    BY <2>1, <2>2, <2>3, HeldKept
<1>7. CASE LoopCrashes(w)
  <2>1. /\ UNCHANGED <<place, task, drops>> /\ link[w] = "dropped" /\ call[w] = NoCall
        /\ link' = [link EXCEPT ![w] = "down"] /\ buffer' = [buffer EXCEPT ![w] = {}]
    BY <1>7 DEF LoopCrashes, LoopEnds
  <2>2. Holding(w)'
    BY <1>c, <2>1 DEF Holding
  <2> QED
    BY <2>1, <2>2, HeldKept
<1>8. CASE CrashWorker(w)
  <2>1. /\ drops' = drops
        /\ link' = [link EXCEPT ![w] = "down"] /\ buffer' = [buffer EXCEPT ![w] = {}]
        /\ task' = [task EXCEPT ![w] = Nil]
        /\ \A t \in Tasks : place'[t] = IF place[t] = w THEN "ready" ELSE place[t]
    BY <1>8 DEF CrashWorker, LoopEnds, Rest, Requeued
  <2>2. Holding(w)'
    BY <2>1 DEF Holding
  <2>3. \A v \in Workers \ {w} : /\ link'[v] = link[v] /\ buffer'[v] = buffer[v] /\ task'[v] = task[v]
                                 /\ \A t \in Tasks : place'[t] = v <=> place[t] = v
    BY <2>1
  <2> QED
    BY <2>1, <2>2, <2>3, HeldKept
<1> QED
  BY <1>1, <1>2, <1>3, <1>4, <1>5, <1>6, <1>7, <1>8 DEF WorkerAction, Dispatch, WorkerStep

\* The invariant holds, whatever fails, crashes or is dropped.
LEMMA HeldInvariant == PipelineSpec => []HeldInv
<1>1. PipelineInit => HeldInv
  <2> SUFFICES ASSUME PipelineInit PROVE HeldInv
    OBVIOUS
  <2>1. \A w \in Workers : link[w] = "down" /\ buffer[w] = {} /\ task[w] = Nil
    BY ClientFacts DEF PipelineInit
  <2>2. \A w \in Workers, t \in Tasks : place[t] # w
    BY PipelineAssumption DEF PipelineInit, Unqueued
  <2> QED
    BY <2>1, <2>2 DEF HeldInv, Holding
<1>2. PipelineTypeOK /\ RecordInv /\ HeldInv /\ [PipelineNext]_pipelineVars => HeldInv'
  <2> SUFFICES ASSUME PipelineTypeOK, RecordInv, HeldInv, [PipelineNext]_pipelineVars
               PROVE  HeldInv'
    OBVIOUS
  <2>1. CASE UNCHANGED pipelineVars
    BY <2>1 DEF pipelineVars, HeldInv, Holding
  <2>2. CASE PipelineNext
    BY <2>2, StepSplits, BackendKeepsHeld, WorkerKeepsHeld
  <2> QED
    BY <2>1, <2>2
<1> QED
  BY <1>1, <1>2, RecordInvariant, PTL DEF PipelineSpec

\* RabbitMQ never counts a task as delivered that no live consumer will come to.
THEOREM DeliveredTasksAreHeld == PipelineSpec => []DeliveredTaskIsHeld
<1>1. HeldInv => DeliveredTaskIsHeld
  BY DEF HeldInv, Holding, DeliveredTaskIsHeld
<1> QED
  BY <1>1, HeldInvariant, PTL

\* While RabbitMQ drops no connection, the unacknowledged message is a lock: no two
\* workers ever hold or process the same task.
THEOREM ProcessedTasksAreOwned == PipelineSpec => []ProcessedTaskIsOwned
<1>1. PipelineTypeOK /\ HeldInv => ProcessedTaskIsOwned
  <2> SUFFICES ASSUME PipelineTypeOK, HeldInv, drops = 0, NEW t \in Tasks, NEW w \in Workers,
                      task[w] = t \/ t \in buffer[w]
               PROVE  place[t] = w
    BY DEF ProcessedTaskIsOwned
  <2>1. link[w] \in {"up", "down"}
    BY DEF HeldInv, PipelineTypeOK, Links
  <2> QED
    BY <2>1, ClientFacts DEF HeldInv, Holding
<1> QED
  BY <1>1, HeldInvariant, PipelineTypeCorrect, PTL

-----------------------------------------------------------------------------
(* A task leaves a worker by that worker *)

\* What TaskLeavesByItsHolder says of task t and worker w in one step.
LeavesByHolder(t, w) ==
    place[t] = w /\ place'[t] # w =>
        \/ /\ place'[t] = "acked"
           /\ task[w] = t /\ At(w, {"complete"}, "returned")
           /\ call'[w] = NoCall
        \/ /\ place'[t] = "ready"
           /\ \/ link'[w] # "up"
              \/ task[w] = t /\ call[w].at \in {"not_found", "failed"}

\* What worker v does moves no task that another worker has.
LEMMA OthersKeepTheirTasks ==
    ASSUME PipelineTypeOK, RecordInv, HeldInv, NEW v \in Workers, WorkerAction(v),
           NEW t \in Tasks, NEW w \in Workers \ {v}, place[t] = w
    PROVE  place'[t] = w
<1>a. place \in [Tasks -> Places] /\ w \notin Unqueued \cup {"ready", "acked"}
  BY PipelineAssumption DEF PipelineTypeOK
<1> USE <1>a
<1>1. CASE ack(v) \/ nack(v)
  <2>1. call[v] # NoCall
    BY <1>1 DEF ack, nack, At, NoCall
  <2>2. link[v] = "up" => place[task[v]] = v
    BY <2>1, ClientFacts DEF RecordInv, WorkerAtWork, HeldInv, Holding
  <2>3. PICK where \in {"acked", "ready"} :
           place' = IF link[v] = "up" THEN [place EXCEPT ![task[v]] = where] ELSE place
    BY <1>1 DEF ack, nack, Dispose
  <2> QED
    BY <2>2, <2>3
<1>2. CASE DropLink(v) \/ CrashWorker(v)
  BY <1>2 DEF DropLink, CrashWorker, Requeued
<1>3. ASSUME NEW s \in Tasks, Deliver(v, s)
      PROVE  place'[t] = w
  BY <1>3 DEF Deliver
<1>4. start_connection(v) \/ Dispatch(v) \/ CallLLM(v) \/ WorkerCommand(v) \/ LoopCrashes(v)
      => place' = place
  BY DEF start_connection, Dispatch, callback, CallLLM, WorkerCommand, LoopCrashes
<1> QED
  BY <1>1, <1>2, <1>3, <1>4 DEF WorkerAction, WorkerStep

\* A worker settles the task it processes, or loses all it has with its connection.
LEMMA WorkerLetsGo ==
    ASSUME PipelineTypeOK, RecordInv, HeldInv, NEW w \in Workers, WorkerAction(w), NEW t \in Tasks
    PROVE  LeavesByHolder(t, w)
<1> SUFFICES ASSUME place[t] = w, place'[t] # w
             PROVE  LeavesByHolder(t, w)
  BY DEF LeavesByHolder
<1>a. /\ place \in [Tasks -> Places] /\ link \in [Workers -> Links]
      /\ call \in [Clients -> Call \cup {NoCall}] /\ w \in Clients
  BY ClientFacts DEF PipelineTypeOK, StorageTypeOK
<1> USE <1>a
<1>1. CASE ack(w) \/ nack(w)
  <2>1. task[w] = t
    BY <1>1 DEF ack, nack, Dispose
  <2>2. call'[w] = NoCall
    BY <1>1 DEF ack, nack, Dispose, Rest
  <2>3. CASE ack(w)
    BY <2>1, <2>2, <2>3 DEF ack, Dispose, LeavesByHolder
  <2>4. CASE nack(w)
    BY <2>1, <2>4 DEF nack, Dispose, LeavesByHolder
  <2> QED
    BY <1>1, <2>3, <2>4
<1>2. CASE DropLink(w) \/ CrashWorker(w)
  BY <1>2 DEF DropLink, CrashWorker, LoopEnds, Requeued, LeavesByHolder
<1>3. ASSUME NEW s \in Tasks, Deliver(w, s)
      PROVE  FALSE
  BY <1>3 DEF Deliver
<1>4. start_connection(w) \/ Dispatch(w) \/ CallLLM(w) \/ WorkerCommand(w) \/ LoopCrashes(w)
      => place' = place
  BY DEF start_connection, Dispatch, callback, CallLLM, WorkerCommand, LoopCrashes
<1> QED
  BY <1>1, <1>2, <1>3, <1>4 DEF WorkerAction, WorkerStep

\* Whatever fails, crashes or is dropped, and however many tasks name one job: a task
\* leaves a worker by that worker's own acknowledgement after complete_job, by its own
\* nack, or with its connection.
THEOREM TasksLeaveByTheirHolder == PipelineSpec => TaskLeavesByItsHolder
<1>1. PipelineTypeOK /\ RecordInv /\ HeldInv /\ [PipelineNext]_pipelineVars
      => [\A t \in Tasks, w \in Workers : LeavesByHolder(t, w)]_pipelineVars
  <2> SUFFICES ASSUME PipelineTypeOK, RecordInv, HeldInv, PipelineNext,
                      NEW t \in Tasks, NEW w \in Workers
               PROVE  LeavesByHolder(t, w)
    OBVIOUS
  <2>1. ASSUME NEW b \in Backends, Request(b) \/ BackendStep(b) \/ CrashBackend(b)
        PROVE  LeavesByHolder(t, w)
    BY <2>1, BackendFrame, PipelineAssumption DEF LeavesByHolder, Unqueued
  <2>2. ASSUME NEW v \in Workers, WorkerAction(v)
        PROVE  LeavesByHolder(t, w)
    BY <2>2, OthersKeepTheirTasks, WorkerLetsGo DEF LeavesByHolder
  <2> QED
    BY <2>1, <2>2, StepSplits
<1> QED
  BY <1>1, PipelineTypeCorrect, RecordInvariant, HeldInvariant, PTL
     DEF PipelineSpec, TaskLeavesByItsHolder, LeavesByHolder

=============================================================================
