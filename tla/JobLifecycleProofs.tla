-------------------------- MODULE JobLifecycleProofs --------------------------
(***************************************************************************)
(* The pipeline keeps the promises of JobLifecycle: for any number of      *)
(* jobs, backends and workers, unlimited crashes and failing commands,     *)
(* when every request has a job identifier of its own, and until RabbitMQ  *)
(* drops a connection.                                                     *)
(***************************************************************************)
EXTENDS JobOutcomeProofs

-----------------------------------------------------------------------------
(* The inductive invariant *)

\* No two requests name the same job.
OwnIdentifiers == \A s, t \in Tasks : JobOf[s] = JobOf[t] => s = t

\* Client c is inside an operation that writes the keys of its job.
Writer(c) == call[c].op \in {"create", "update", "complete"}

\* What the storage holds of the job that client c writes: nobody else has
\* written it since c has.
Foresees(c) ==
    LET j == call[c].job IN
    /\ At(c, {"create"}, "set") => status[j] = Nil
    /\ call[c].op = "create" /\ call[c].at \in {"publish", "prompt", "returned"} =>
          status[j] = Pending
    /\ call[c].op = "update" /\ call[c].at \in {"publish", "returned"} => status[j] = InProgress
    /\ call[c].op = "complete" /\ call[c].at \in {"load", "set"} => status[j] = InProgress
    /\ call[c].op = "complete" /\ call[c].at \in {"publish", "result"} => status[j] = call[c].copy
    /\ At(c, {"complete"}, "returned") =>
          status[j] = Failed \/ (status[j] = Completed /\ answer[j] # Nil)

\* Nothing is stored of a job before its request.
NewIsAbsent == \A t \in Tasks : place[t] = "new" => status[JobOf[t]] = Nil

ForesightInv == NewIsAbsent /\ \A c \in Clients : Foresees(c)

-----------------------------------------------------------------------------
(* Lemmas *)

\* Whoever writes the keys of a job sends or holds its task.
LEMMA WriterFacts ==
    ASSUME drops = 0, PipelineTypeOK, RecordInv, HeldInv, NEW c \in Clients, Writer(c)
    PROVE  /\ task[c] \in Tasks /\ call[c].job = JobOf[task[c]]
           /\ c \in Backends => Creating(c) /\ place[task[c]] = "sending"
           /\ c \in Workers => Updating(c) /\ link[c] = "up" /\ place[task[c]] = c
<1>1. c \in Backends \/ c \in Workers
  BY PipelineAssumption
<1>2. CASE c \in Backends
  <2>1. Creating(c) /\ Sending(c)
    BY <1>2 DEF RecordInv, BackendAtWork, Writer, Looking, NoCall
  <2> QED
    BY <1>2, <2>1, ClientFacts DEF Sending
<1>3. CASE c \in Workers
  <2>1. /\ Updating(c)
        /\ task[c] \in Tasks /\ call[c].job = JobOf[task[c]]
    BY <1>3 DEF RecordInv, WorkerAtWork, Writer, NoCall
  <2>2. link[c] = "up" /\ place[task[c]] = c
    BY <1>3, <2>1, ClientFacts DEF HeldInv, Holding, PipelineTypeOK, Links
  <2> QED
    BY <1>3, <2>1, <2>2, ClientFacts
<1> QED
  BY <1>1, <1>2, <1>3

\* Two writers are never in the keys of one job.
LEMMA WritersApart ==
    ASSUME drops = 0, OwnIdentifiers, PipelineTypeOK, RecordInv, HeldInv,
           NEW c \in Clients, NEW d \in Clients, Writer(c), Writer(d), call[c].job = call[d].job
    PROVE  c = d
<1>1. /\ task[c] \in Tasks /\ task[c] = task[d]
      /\ c \in Backends => place[task[c]] = "sending"
      /\ c \in Workers => place[task[c]] = c
      /\ d \in Backends => place[task[c]] = "sending"
      /\ d \in Workers => place[task[c]] = d
  BY WriterFacts DEF OwnIdentifiers
<1>2. (c \in Backends \/ c \in Workers) /\ (d \in Backends \/ d \in Workers)
      /\ \A w \in Workers : w # "sending"
  BY PipelineAssumption DEF Unqueued
<1>3. CASE c \in Backends /\ d \in Backends
  BY <1>1, <1>3, ClientFacts DEF RecordInv, SendersApart
<1> QED
  BY <1>1, <1>2, <1>3

\* What a step of client c leaves to be shown: it writes no keys but those of the
\* job it is in, and what it leaves there is as it foresees.
LEMMA ForesightKept ==
    ASSUME drops = 0, OwnIdentifiers, PipelineTypeOK, RecordInv, HeldInv, ForesightInv,
           NEW c \in Clients, Foresees(c)',
           \A d \in Clients \ {c} : call'[d] = call[d],
           \A t \in Tasks : place'[t] = "new" => place[t] = "new",
           \A j \in Jobs : \/ status'[j] = status[j] /\ answer'[j] = answer[j]
                           \/ Writer(c) /\ j = call[c].job
    PROVE  ForesightInv'
<1>1. ASSUME NEW d \in Clients \ {c}
      PROVE  Foresees(d)'
  <2>1. CASE Writer(d)
    <3>1. call[d].job \in Jobs
      BY <2>1, WriterFacts, ClientFacts
    <3>2. status'[call[d].job] = status[call[d].job] /\ answer'[call[d].job] = answer[call[d].job]
      BY <2>1, <3>1, WritersApart
    <3> QED
      BY <3>2 DEF ForesightInv, Foresees, At
  <2>2. CASE ~Writer(d)
    BY <2>2 DEF Foresees, Writer, At
  <2> QED
    BY <2>1, <2>2
<1>2. NewIsAbsent'
  <2> SUFFICES ASSUME NEW t \in Tasks, place'[t] = "new"
               PROVE  status'[JobOf[t]] = Nil
    BY DEF NewIsAbsent
  <2>1. place[t] = "new" /\ status[JobOf[t]] = Nil /\ JobOf[t] \in Jobs
    BY ClientFacts DEF ForesightInv, NewIsAbsent
  <2>2. Writer(c) => JobOf[t] # call[c].job
    <3> SUFFICES ASSUME Writer(c), JobOf[t] = call[c].job PROVE FALSE
      OBVIOUS
    <3>1. task[c] = t /\ (place[t] = "sending" \/ (c \in Workers /\ place[t] = c))
      BY WriterFacts, PipelineAssumption DEF OwnIdentifiers
    <3> QED
      BY <2>1, <3>1, PipelineAssumption DEF Unqueued
  <2> QED
    BY <2>1, <2>2
<1> QED
  BY <1>1, <1>2 DEF ForesightInv

\* What a storage command of a backend or a worker does to its job.
LEMMA ForeseenCommand ==
    ASSUME StorageTypeOK, NEW c \in Clients, Command(c), Carries(c), Foresees(c),
           Creating(c) \/ (Updating(c) /\ status[call[c].job] # Nil) \/ Looking(c)
    PROVE  /\ Foresees(c)'
           /\ \/ UNCHANGED <<status, answer>>
              \/ SaveStatus(c) /\ Writer(c)
              \/ SaveResult(c) /\ Writer(c)
<1>0. call[c].at # "idle"
  BY CommandIsBusy
<1>1. call[c] \in Call /\ call[c].job \in Jobs
  BY <1>0, BusyCall, FrameFacts DEF StorageTypeOK, CallTypeOK
<1>2. CASE Looking(c)
  <2>1. Looking(c)' /\ UNCHANGED redis
    BY <1>2, LookingCommand
  <2> QED
    BY <2>1 DEF Looking, Foresees, At, redis
<1>3. CASE Creating(c) \/ (Updating(c) /\ status[call[c].job] # Nil)
  <2> USE <1>1, StatusesDiffer DEF Foresees, Carries, At, StorageTypeOK, Call
  <2>1. Writer(c)
    BY <1>3 DEF Creating, Updating, Writer
  <2>2. CASE CommandFails(c)
    <3>1. UNCHANGED redis /\ call'[c].op = call[c].op /\ call'[c].at = "failed"
      BY <1>3, <2>2, FailedCommand DEF Creating, Updating, Waits
    <3> QED
      BY <3>1 DEF redis
  <2>3. CASE LoadToUpdate(c)
    BY <2>3 DEF LoadToUpdate, Goto, redis
  <2>4. CASE SaveStatus(c)
    <3>1. /\ call[c].at = "set" /\ answer' = answer
          /\ status'[call[c].job] = call[c].copy
          /\ call'[c] = [call[c] EXCEPT !.at = "publish"]
      BY <2>4 DEF SaveStatus, Goto
    <3> QED
      BY <2>1, <2>4, <3>1 DEF Writer
  <2>5. CASE Publish(c)
    <3>1. call[c].at = "publish" /\ UNCHANGED redis
      BY <2>5 DEF Publish
    <3>2. CASE call[c].op = "create"
      <4>1. Goto(c, "prompt")
        BY <2>5, <3>2 DEF Publish, AfterPublish
      <4> QED
        BY <3>1, <3>2, <4>1 DEF Goto, redis
    <3>3. CASE call[c].op = "complete" /\ call[c].copy = Completed
      <4>1. Goto(c, "result")
        BY <2>5, <3>3 DEF Publish, AfterPublish
      <4> QED
        BY <3>1, <3>3, <4>1 DEF Goto, redis
    <3>4. CASE call[c].op = "update" \/ (call[c].op = "complete" /\ call[c].copy # Completed)
      <4>1. Exit(c, "returned")
        BY <2>5, <3>4 DEF Publish, AfterPublish
      <4> QED
        BY <3>1, <3>4, <4>1 DEF Exit, redis
    <3> QED
      BY <2>1, <3>2, <3>3, <3>4 DEF Writer
  <2>6. CASE SavePrompt(c)
    BY <1>3, <2>6 DEF SavePrompt, Exit, Creating, Updating
  <2>7. CASE SaveResult(c)
    <3>1. /\ call[c].at = "result" /\ call[c].op = "complete"
          /\ call[c].copy = Completed /\ call[c].val # Nil
          /\ status' = status /\ answer'[call[c].job] = call[c].val
          /\ call'[c] = [call[c] EXCEPT !.at = "returned", !.copy = Nil, !.val = Nil]
      BY <2>7 DEF SaveResult, Exit
    <3> QED
      BY <2>1, <2>7, <3>1
  <2>8. /\ ~LoadMissing(c) /\ ~LoadToReturn(c) /\ ~FetchResult(c) /\ ~LoadBeforeListening(c)
        /\ ~StartSubscription(c) /\ ~Receive(c) /\ ~Timeout(c) /\ ~ReloadMissing(c)
        /\ ~ReloadToWait(c)
    BY <1>3 DEF Creating, Updating, LoadMissing, LoadToReturn, FetchResult, LoadBeforeListening,
         StartSubscription, Receive, Timeout, ReloadMissing, ReloadToWait, Waits
  <2> QED
    BY <2>2, <2>3, <2>4, <2>5, <2>6, <2>7, <2>8 DEF Command, WriteStep, ReadStep, WaitStep
<1> QED
  BY <1>2, <1>3

-----------------------------------------------------------------------------
(* The steps of JobLifecycle *)

\* A step of the pipeline that JobLifecycle knows, or does not see.
LifecycleStep == [Lifecycle!LifecycleNext]_(Lifecycle!lifecycleVars)

\* Where nothing is stored and no task is queued or acknowledged, JobLifecycle sees
\* nothing.
LEMMA Unseen ==
    ASSUME UNCHANGED <<status, answer>>,
           \A t \in Tasks : /\ place'[t] \in Unqueued <=> place[t] \in Unqueued
                            /\ place'[t] = "acked" <=> place[t] = "acked"
    PROVE  LifecycleStep
BY DEF LifecycleStep, Lifecycle!lifecycleVars

\* A task reaches the queue.
LEMMA QueueingAccepts ==
    ASSUME NEW t \in Tasks, UNCHANGED <<status, answer>>, status[JobOf[t]] = Pending,
           place[t] = "sending", place'[t] = "ready", \A s \in Tasks \ {t} : place'[s] = place[s]
    PROVE  LifecycleStep
<1>1. Pending # Nil /\ Pending.status = "pending" /\ JobOf[t] \in Jobs
  BY StatusesDiffer, ClientFacts DEF Pending, Status
<1>2. Lifecycle!Accept(JobOf[t])
  BY <1>1 DEF Lifecycle!Accept, Unqueued
<1> QED
  BY <1>1, <1>2 DEF LifecycleStep, Lifecycle!LifecycleNext

\* A task is acknowledged.
LEMMA AckSettles ==
    ASSUME NEW t \in Tasks, UNCHANGED <<status, answer>>,
           status[JobOf[t]] = Failed \/ (status[JobOf[t]] = Completed /\ answer[JobOf[t]] # Nil),
           place[t] \in Workers, place'[t] = "acked", \A s \in Tasks \ {t} : place'[s] = place[s]
    PROVE  LifecycleStep
<1>1. /\ Failed # Nil /\ Failed.status = "error" /\ JobOf[t] \in Jobs
      /\ Completed # Nil /\ Completed.status = "completed"
  BY StatusesDiffer, ClientFacts DEF Failed, Completed, Status
<1>2. Lifecycle!Settle(JobOf[t])
  BY <1>1, PipelineAssumption DEF Lifecycle!Settle, Lifecycle!Terminal, Unqueued
<1> QED
  BY <1>1, <1>2 DEF LifecycleStep, Lifecycle!LifecycleNext

\* A writer writes the status of its job.
LEMMA SavingStatus ==
    ASSUME drops = 0, OwnIdentifiers, PipelineTypeOK, RecordInv, HeldInv,
           NEW c \in Clients, Writer(c), Carries(c), Foresees(c), SaveStatus(c), place' = place
    PROVE  LifecycleStep
<1>0. PICK j \in Jobs : j = call[c].job
  BY WriterFacts, ClientFacts
<1>1. /\ Pending.status = "pending" /\ InProgress.status = "in_progress"
      /\ Failed.status = "error" /\ Completed.status = "completed"
  BY DEF Pending, InProgress, Failed, Completed, Status
<1>2. task[c] \in Tasks /\ j = JobOf[task[c]]
  BY <1>0, WriterFacts
<1>3. call[c].at = "set" /\ answer' = answer /\ status' = [status EXCEPT ![j] = call[c].copy]
  BY <1>0 DEF SaveStatus
<1>4. status \in [Jobs -> JobStatus \cup {Nil}]
  BY DEF PipelineTypeOK, StorageTypeOK
<1>5. call[c].op # "create" => c \in Workers /\ place[task[c]] = c
  BY WriterFacts, PipelineAssumption DEF Creating
<1>6. call[c].op # "create" =>
         \A s \in Tasks : JobOf[s] = j => place[s] \notin Unqueued \cup {"acked"}
  BY <1>2, <1>5, PipelineAssumption DEF OwnIdentifiers
<1>7. CASE call[c].op = "create"
  <2>1. call[c].copy = Pending /\ status[j] = Nil
    BY <1>0, <1>3, <1>7 DEF Carries, Foresees, At
  <2>2. Lifecycle!Create(j)
    BY <1>1, <1>2, <1>3, <1>4, <2>1, StatusesDiffer DEF Lifecycle!Create
  <2> QED
    BY <2>2 DEF LifecycleStep, Lifecycle!LifecycleNext
<1>8. CASE call[c].op = "update"
  <2>1. call[c].copy = InProgress
    BY <1>3, <1>8 DEF Carries, At
  <2>2. Lifecycle!Start(j)
    BY <1>1, <1>2, <1>3, <1>4, <1>6, <1>8, <2>1, StatusesDiffer DEF Lifecycle!Start
  <2> QED
    BY <2>2 DEF LifecycleStep, Lifecycle!LifecycleNext
<1>9. CASE call[c].op = "complete"
  <2>1. call[c].copy \in {Completed, Failed} /\ status[j] = InProgress
    BY <1>0, <1>3, <1>9 DEF Carries, Foresees, At
  <2>2. Lifecycle!Finish(j)
    BY <1>1, <1>2, <1>3, <1>4, <1>6, <1>9, <2>1, StatusesDiffer
       DEF Lifecycle!Finish, Lifecycle!Terminal
  <2> QED
    BY <2>2 DEF LifecycleStep, Lifecycle!LifecycleNext
<1> QED
  BY <1>7, <1>8, <1>9 DEF Writer

\* complete_job writes the answer.
LEMMA SavingResult ==
    ASSUME drops = 0, OwnIdentifiers, PipelineTypeOK, RecordInv, HeldInv,
           NEW c \in Clients, Writer(c), Carries(c), Foresees(c), SaveResult(c), place' = place
    PROVE  LifecycleStep
<1>0. PICK j \in Jobs : j = call[c].job
  BY WriterFacts, ClientFacts
<1>1. task[c] \in Tasks /\ j = JobOf[task[c]]
  BY <1>0, WriterFacts
<1>2. /\ call[c].at = "result" /\ status' = status /\ answer' = [answer EXCEPT ![j] = call[c].val]
      /\ answer \in [Jobs -> Results \cup {Nil}]
  BY <1>0 DEF SaveResult, PipelineTypeOK, StorageTypeOK
<1>3. call[c].op = "complete" /\ status[j] = Completed /\ call[c].val # Nil
  BY <1>0, <1>2, StatusesDiffer DEF Carries, Foresees
<1>4. c \in Workers /\ place[task[c]] = c
  BY <1>3, WriterFacts, PipelineAssumption DEF Creating
<1>5. \A s \in Tasks : JobOf[s] = j => place[s] # "acked"
  BY <1>1, <1>4, PipelineAssumption DEF OwnIdentifiers
<1>6. Completed.status = "completed" /\ Completed # Nil
  BY StatusesDiffer DEF Completed, Status
<1>7. Lifecycle!Answer(j)
  BY <1>1, <1>2, <1>3, <1>5, <1>6 DEF Lifecycle!Answer
<1> QED
  BY <1>7 DEF LifecycleStep, Lifecycle!LifecycleNext

-----------------------------------------------------------------------------
(* Every step *)

\* A dropped connection is never forgotten.
LEMMA DropsGrow ==
    ASSUME PipelineTypeOK, RecordInv, PipelineNext, drops' = 0
    PROVE  drops = 0
<1>1. ASSUME NEW b \in Backends, Request(b) \/ BackendStep(b) \/ CrashBackend(b)
      PROVE  drops' = drops
  BY <1>1, BackendFrame
<1>2. ASSUME NEW w \in Workers, WorkerAction(w)
      PROVE  drops' \in {drops, drops + 1}
  BY <1>2 DEF WorkerAction, Dispatch, WorkerStep, start_connection, Deliver, callback, CallLLM,
              ack, nack, Dispose, WorkerCommand, DropLink, LoopCrashes, CrashWorker
<1> QED
  BY <1>1, <1>2, StepSplits, PipelineAssumption DEF PipelineTypeOK

\* A storage command.
LEMMA CommandKeepsPromise ==
    ASSUME drops = 0, OwnIdentifiers, PipelineTypeOK, RecordInv, HeldInv, OutcomeInv,
           ForesightInv, NEW c \in Clients, Command(c), ClientStep(c), UNCHANGED <<place, task>>
    PROVE  ForesightInv' /\ LifecycleStep
<1>1. \A d \in Clients \ {c} : call'[d] = call[d]
  BY OthersKeepTheirSubscription DEF PipelineTypeOK
<1>2. Creating(c) \/ (Updating(c) /\ status[call[c].job] # Nil) \/ Looking(c)
  BY CommandIsBusy, PipelineAssumption DEF RecordInv, Recorded, BackendAtWork, WorkerAtWork
<1>3. Carries(c) /\ Foresees(c)
  BY DEF OutcomeInv, ForesightInv
<1>4. /\ Foresees(c)'
      /\ \/ UNCHANGED <<status, answer>>
         \/ SaveStatus(c) /\ Writer(c)
         \/ SaveResult(c) /\ Writer(c)
  BY <1>2, <1>3, ForeseenCommand DEF PipelineTypeOK
<1>5. \A j \in Jobs : \/ status'[j] = status[j] /\ answer'[j] = answer[j]
                      \/ Writer(c) /\ j = call[c].job
  BY <1>4 DEF SaveStatus, SaveResult, PipelineTypeOK, StorageTypeOK
<1>6. ForesightInv'
  BY <1>1, <1>4, <1>5, ForesightKept
<1>7. LifecycleStep
  BY <1>3, <1>4, Unseen, SavingStatus, SavingResult
<1> QED
  BY <1>6, <1>7

\* The steps outside the storage leave what is stored alone.
LEMMA QuietStepKeepsForesight ==
    ASSUME drops = 0, OwnIdentifiers, PipelineTypeOK, RecordInv, HeldInv, ForesightInv,
           NEW c \in Clients, Foresees(c)', UNCHANGED redis,
           \A d \in Clients \ {c} : call'[d] = call[d],
           \A t \in Tasks : place'[t] = "new" => place[t] = "new"
    PROVE  ForesightInv'
BY ForesightKept DEF redis

\* A backend creates jobs and hands them over.
LEMMA BackendKeepsPromise ==
    ASSUME drops = 0, OwnIdentifiers, PipelineTypeOK, RecordInv, HeldInv, OutcomeInv,
           ForesightInv, NEW b \in Backends, Request(b) \/ BackendStep(b) \/ CrashBackend(b)
    PROVE  ForesightInv' /\ LifecycleStep
<1>a. /\ b \in Clients
      /\ call \in [Clients -> Call \cup {NoCall}]
      /\ place \in [Tasks -> Places]
  BY ClientFacts DEF PipelineTypeOK, StorageTypeOK
<1> USE <1>a
<1>n. ASSUME call'[b] = NoCall
      PROVE  Foresees(b)'
  BY <1>n DEF Foresees, NoCall, At
<1>1. ASSUME NEW t \in Tasks, NEW kind \in {"sync", "async"}, send_task(b, kind, t)
      PROVE  ForesightInv' /\ LifecycleStep
  <2>1. /\ call' = [call EXCEPT ![b] = [op |-> "create", at |-> "set", job |-> JobOf[t],
                                        copy |-> Pending, val |-> Nil]]
        /\ UNCHANGED redis
        /\ place[t] = "new" /\ place' = [place EXCEPT ![t] = "sending"]
    BY <1>1 DEF send_task, create_job_status, Begin
  <2>2. Foresees(b)'
    BY <2>1 DEF ForesightInv, NewIsAbsent, Foresees, At, redis
  <2>3. LifecycleStep
    BY <2>1, Unseen DEF redis, Unqueued
  <2> QED
    BY <2>1, <2>2, <2>3, QuietStepKeepsForesight
<1>2. ASSUME NEW j \in Jobs, check_result(b, j)
      PROVE  ForesightInv' /\ LifecycleStep
  <2>1. /\ call' = [call EXCEPT ![b] = [op |-> "status", at |-> "load", job |-> j,
                                        copy |-> Nil, val |-> Nil]]
        /\ UNCHANGED redis /\ place' = place
    BY <1>2 DEF check_result, get_job_status, Begin
  <2>2. Foresees(b)'
    BY <2>1 DEF Foresees, At
  <2> QED
    BY <2>1, <2>2, QuietStepKeepsForesight, Unseen DEF redis
<1>3. CASE SendingFails(b) \/ QueueTask(b) \/ QueueingFails(b) \/ CrashBackend(b)
  <2>1. /\ UNCHANGED redis
        /\ \A d \in Clients \ {b} : call'[d] = call[d]
        /\ \/ call'[b] = NoCall
           \/ call'[b] = [op |-> "wait", at |-> "load", job |-> call[b].job,
                          copy |-> Nil, val |-> Nil]
    BY <1>3 DEF SendingFails, QueueTask, QueueingFails, CrashBackend, Rest, wait_completeness, Begin
  <2>2. Foresees(b)'
    BY <1>n, <2>1 DEF Foresees, At
  <2>3. task[b] # Nil => task[b] \in Tasks /\ place[task[b]] = "sending"
    BY SenderFacts
  <2>4. PICK X \in {"failed", "unroutable", "ready"} :
          /\ \A t \in Tasks : place'[t] = IF t = task[b] THEN X ELSE place[t]
          /\ X = "ready" => At(b, {"create"}, "returned")
    BY <1>3 DEF SendingFails, QueueTask, QueueingFails, CrashBackend, Queued
  <2>5. CASE X \in {"failed", "unroutable"} \/ task[b] \notin Tasks
    <3>1. \A t \in Tasks : /\ place'[t] \in Unqueued <=> place[t] \in Unqueued
                           /\ place'[t] = "acked" <=> place[t] = "acked"
                           /\ place'[t] = "new" => place[t] = "new"
      BY <2>3, <2>4, <2>5, ClientFacts DEF Unqueued
    <3> QED
      BY <2>1, <2>2, <3>1, QuietStepKeepsForesight, Unseen DEF redis
  <2>6. CASE X = "ready" /\ task[b] \in Tasks
    <3>1. PICK t \in Tasks : t = task[b]
      BY <2>6
    <3>2. place[t] = "sending" /\ call[b].job = JobOf[t]
      BY <2>3, <3>1, ClientFacts, SenderFacts
    <3>3. status[JobOf[t]] = Pending
      BY <2>4, <2>6, <3>2 DEF ForesightInv, Foresees, At
    <3>4. place'[t] = "ready" /\ \A s \in Tasks \ {t} : place'[s] = place[s]
      BY <2>4, <2>6, <3>1
    <3>5. LifecycleStep
      BY <2>1, <3>2, <3>3, <3>4, QueueingAccepts DEF redis
    <3>6. ForesightInv'
      BY <2>1, <2>2, <3>4, QuietStepKeepsForesight
    <3> QED
      BY <3>5, <3>6
  <2> QED
    BY <2>5, <2>6
<1>4. CASE ReadAnswer(b) \/ Respond(b)
  <2>1. /\ UNCHANGED redis /\ place' = place
        /\ \A d \in Clients \ {b} : call'[d] = call[d]
        /\ \/ call'[b] = NoCall
           \/ call'[b] = [op |-> "result", at |-> "fetch", job |-> call[b].job,
                          copy |-> Nil, val |-> Nil]
    BY <1>4 DEF ReadAnswer, Respond, Rest, get_job_result, Begin
  <2>2. Foresees(b)'
    BY <1>n, <2>1 DEF Foresees, At
  <2> QED
    BY <2>1, <2>2, QuietStepKeepsForesight, Unseen DEF redis
<1>5. CASE BackendCommand(b)
  <2>1. Command(b) /\ ClientStep(b) /\ UNCHANGED <<place, task>>
    BY <1>5 DEF BackendCommand, Command, ClientStep, StorageStep
  <2> QED
    BY <2>1, CommandKeepsPromise
<1> QED
  BY <1>1, <1>2, <1>3, <1>4, <1>5
     DEF Request, sync_chat_completion, async_chat_completion, check_status, BackendStep

\* A worker starts, finishes, answers and settles jobs.
LEMMA WorkerKeepsPromise ==
    ASSUME drops' = 0, OwnIdentifiers, PipelineTypeOK, RecordInv, HeldInv, OutcomeInv,
           ForesightInv, NEW w \in Workers, WorkerAction(w)
    PROVE  ForesightInv' /\ LifecycleStep
<1>a. /\ w \in Clients /\ w \notin Unqueued \cup {"ready", "acked"}
      /\ call \in [Clients -> Call \cup {NoCall}]
      /\ place \in [Tasks -> Places]
  BY ClientFacts, PipelineAssumption DEF PipelineTypeOK, StorageTypeOK
<1>b. drops = 0
  BY DropsGrow DEF PipelineNext, WorkerAction
<1> USE <1>a, <1>b
<1>n. ASSUME call'[w] = NoCall
      PROVE  Foresees(w)'
  BY <1>n DEF Foresees, NoCall, At
\* A step outside the storage that acknowledges nothing and takes only queued tasks.
<1>u. ASSUME UNCHANGED redis, Foresees(w)', \A d \in Clients \ {w} : call'[d] = call[d],
             \A t \in Tasks : \/ place'[t] = place[t]
                              \/ place[t] \in {"ready", w} /\ place'[t] \in {"ready", w}
      PROVE  ForesightInv' /\ LifecycleStep
  <2>1. \A t \in Tasks : /\ place'[t] \in Unqueued <=> place[t] \in Unqueued
                         /\ place'[t] = "acked" <=> place[t] = "acked"
                         /\ place'[t] = "new" => place[t] = "new"
    BY <1>u DEF Unqueued
  <2> QED
    BY <1>u, <2>1, QuietStepKeepsForesight, Unseen DEF redis
<1>c. ASSUME UNCHANGED storageVars
      PROVE  UNCHANGED redis /\ Foresees(w)' /\ \A d \in Clients \ {w} : call'[d] = call[d]
  BY <1>c DEF storageVars, redis, ForesightInv, Foresees, At
<1>1. CASE start_connection(w) \/ LoopCrashes(w)
  BY <1>1, <1>c, <1>u DEF start_connection, LoopCrashes
<1>2. ASSUME NEW s \in Tasks, Deliver(w, s)
      PROVE  ForesightInv' /\ LifecycleStep
  BY <1>2, <1>c, <1>u DEF Deliver
<1>3. ASSUME NEW s \in Tasks, callback(w, s)
      PROVE  ForesightInv' /\ LifecycleStep
  <2>1. /\ UNCHANGED redis /\ place' = place
        /\ call' = [call EXCEPT ![w] = [op |-> "update", at |-> "load", job |-> JobOf[s],
                                        copy |-> InProgress, val |-> Nil]]
    BY <1>3 DEF callback, update_job_status, Begin
  <2>2. Foresees(w)'
    BY <2>1 DEF Foresees, At
  <2> QED
    BY <1>u, <2>1, <2>2
<1>4. CASE CallLLM(w)
  <2>1. /\ UNCHANGED redis /\ place' = place
        /\ call[w].op = "update" /\ call[w].at = "returned"
        /\ \E s \in {Completed, Failed}, r \in Results \cup {Nil} :
              call' = [call EXCEPT ![w] = [op |-> "complete", at |-> "load", job |-> call[w].job,
                                           copy |-> s, val |-> r]]
    BY <1>4 DEF CallLLM, complete_job, complete_job_error, Begin, At
  <2>2. Foresees(w)'
    BY <2>1 DEF ForesightInv, Foresees, At, redis
  <2> QED
    BY <1>u, <2>1, <2>2
<1>5. CASE nack(w)
  <2>1. /\ UNCHANGED redis /\ call' = [call EXCEPT ![w] = NoCall]
        /\ \A t \in Tasks : place'[t] = place[t] \/ (t = task[w] /\ place'[t] = "ready")
    BY <1>5 DEF nack, Dispose, Rest
  <2>2. call[w].op \in {"update", "complete"}
    BY <1>5 DEF nack
  <2>3. place[task[w]] = w
    BY <2>2, WriterFacts DEF Writer
  <2> QED
    BY <1>n, <1>u, <2>1, <2>3
<1>6. CASE ack(w)
  <2>1. /\ UNCHANGED redis /\ call' = [call EXCEPT ![w] = NoCall]
        /\ At(w, {"complete"}, "returned")
        /\ link[w] = "up" => place' = [place EXCEPT ![task[w]] = "acked"]
    BY <1>6 DEF ack, Dispose, Rest
  <2>2. /\ task[w] \in Tasks /\ call[w].job = JobOf[task[w]]
        /\ link[w] = "up" /\ place[task[w]] = w
    BY <2>1, WriterFacts DEF Writer, At
  <2>3. PICK t \in Tasks : t = task[w]
    BY <2>2
  <2>4. status[JobOf[t]] = Failed \/ (status[JobOf[t]] = Completed /\ answer[JobOf[t]] # Nil)
    BY <2>1, <2>2, <2>3 DEF ForesightInv, Foresees
  <2>5. place'[t] = "acked" /\ \A s \in Tasks \ {t} : place'[s] = place[s]
    BY <2>1, <2>2, <2>3
  <2>6. LifecycleStep
    BY <2>1, <2>2, <2>3, <2>4, <2>5, AckSettles DEF redis
  <2>7. ForesightInv'
    BY <1>n, <2>1, <2>5, QuietStepKeepsForesight
  <2> QED
    BY <2>6, <2>7
<1>7. ~DropLink(w)
  BY DEF DropLink, PipelineTypeOK
<1>8. CASE CrashWorker(w)
  <2>1. /\ UNCHANGED redis /\ call' = [call EXCEPT ![w] = NoCall]
        /\ \A t \in Tasks : place'[t] = IF place[t] = w THEN "ready" ELSE place[t]
    BY <1>8 DEF CrashWorker, Rest, Requeued
  <2> QED
    BY <1>n, <1>u, <2>1
<1>9. CASE WorkerCommand(w)
  <2>1. Command(w) /\ ClientStep(w) /\ UNCHANGED <<place, task>>
    BY <1>9 DEF WorkerCommand, Command, ClientStep, StorageStep
  <2> QED
    BY <2>1, CommandKeepsPromise
<1> QED
  BY <1>1, <1>2, <1>3, <1>4, <1>5, <1>6, <1>7, <1>8, <1>9 DEF WorkerAction, Dispatch, WorkerStep

-----------------------------------------------------------------------------
(* The theorem *)

\* Whoever follows a job sees it created, accepted, started, finished, answered and
\* settled in the order JobLifecycle allows, and nothing of a settled job changes, up to
\* the first connection that RabbitMQ drops: for any number of jobs, clients, crashes and
\* failing commands, when every request has an identifier of its own.
THEOREM PipelineKeepsItsPromises ==
    ASSUME OwnIdentifiers
    PROVE  PipelineSpec => ImplementsLifecycle
<1>1. PipelineInit => ForesightInv /\ Lifecycle!LifecycleInit
  <2> SUFFICES ASSUME PipelineInit PROVE ForesightInv /\ Lifecycle!LifecycleInit
    OBVIOUS
  <2>1. /\ \A c \in Clients : call[c] = NoCall
        /\ status = [j \in Jobs |-> Nil] /\ answer = [j \in Jobs |-> Nil]
        /\ place = [t \in Tasks |-> "new"]
    BY DEF PipelineInit, StorageInit
  <2>2. ForesightInv
    BY <2>1, ClientFacts DEF ForesightInv, NewIsAbsent, Foresees, NoCall, At
  <2>3. Lifecycle!LifecycleInit
    BY <2>1 DEF Lifecycle!LifecycleInit, Unqueued
  <2> QED
    BY <2>2, <2>3
<1>2. PipelineTypeOK /\ RecordInv /\ HeldInv /\ OutcomeInv /\ (drops = 0 => ForesightInv)
      /\ [PipelineNext]_pipelineVars
      => /\ (drops = 0 => ForesightInv)'
         /\ [drops' = 0 => Lifecycle!LifecycleNext]_(Lifecycle!lifecycleVars)
  <2> SUFFICES ASSUME PipelineTypeOK, RecordInv, HeldInv, OutcomeInv, drops = 0 => ForesightInv,
                      [PipelineNext]_pipelineVars, drops' = 0
               PROVE  ForesightInv' /\ LifecycleStep
    BY DEF LifecycleStep
  <2>1. CASE UNCHANGED pipelineVars
    BY <2>1, Unseen DEF pipelineVars, storageVars, ForesightInv, NewIsAbsent, Foresees, At
  <2>2. CASE PipelineNext
    BY <2>2, DropsGrow, StepSplits, BackendKeepsPromise, WorkerKeepsPromise
  <2> QED
    BY <2>1, <2>2
<1> QED
  BY <1>1, <1>2, PipelineTypeCorrect, RecordInvariant, HeldInvariant, OutcomeInvariant, PTL
     DEF PipelineSpec, ImplementsLifecycle

=============================================================================
