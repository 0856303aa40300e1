-------------------------- MODULE JobOutcomeProofs ---------------------------
(***************************************************************************)
(* What the acknowledgement of a message means: a job that is settled has  *)
(* its outcome, for any number of tasks of one job, which several workers  *)
(* may process at once, and of backends that submit it again, unlimited    *)
(* crashes and failing commands, while RabbitMQ drops no connection; and   *)
(* what an unfinished job is still waiting for.                            *)
(***************************************************************************)
EXTENDS JobPipelineProofs

-----------------------------------------------------------------------------
(* The inductive invariant *)

\* The value that client c carries to the storage.
Carries(c) ==
    /\ At(c, {"create"}, "set") => call[c].copy = Pending
    /\ At(c, {"update"}, "load") \/ At(c, {"update"}, "set") => call[c].copy = InProgress
    /\ call[c].op = "complete" /\ call[c].at \in {"load", "set", "publish", "result"} =>
          call[c].copy = Failed \/ (call[c].copy = Completed /\ call[c].val # Nil)
    /\ call[c].at = "result" => call[c].op = "complete" /\ call[c].copy = Completed

\* The values the keys take.
KnownStatus == {Nil, Pending, InProgress, Completed, Failed}

\* complete_job has written the status, ...
Wrote(w) == call[w].op = "complete" /\ call[w].at \in {"publish", "result", "returned"}

\* ... or all it has to write.
WroteAll(w) ==
    /\ call[w].op = "complete"
    /\ call[w].at = "returned" \/ (call[w].at = "publish" /\ call[w].copy = Failed)

\* Task t is submitted, and somebody will still write the end of its job, ...
Unended(t) ==
    place[t] \notin {"new", "acked"} /\ \A w \in Workers : task[w] = t => ~Wrote(w)

\* ... or has written it and will write its answer, if it has one.
Unanswered(t) ==
    place[t] \notin {"new", "acked"} /\ \A w \in Workers : task[w] = t => ~WroteAll(w)

\* A job without an outcome is never forgotten: a task of it will bring it one.
NoneForgotten ==
    \A j \in Jobs :
        /\ status[j] \in {Pending, InProgress} => \E t \in Tasks : JobOf[t] = j /\ Unended(t)
        /\ status[j] = Completed /\ answer[j] = Nil =>
              \E t \in Tasks : JobOf[t] = j /\ Unanswered(t)

OutcomeInv ==
    /\ \A c \in Clients : Carries(c)
    /\ \A j \in Jobs : status[j] \in KnownStatus
    /\ drops = 0 => NoneForgotten

-----------------------------------------------------------------------------
(* Lemmas *)

\* The four values are different.
LEMMA StatusesDiffer ==
    /\ Completed # Failed /\ Completed # Pending /\ Completed # InProgress
    /\ Failed # Pending /\ Failed # InProgress /\ Pending # InProgress
    /\ Nil \notin {Pending, InProgress, Completed, Failed}
<1>1. /\ Completed.status = "completed" /\ Failed.status = "error"
      /\ Pending.status = "pending" /\ InProgress.status = "in_progress"
  BY DEF Completed, Failed, Pending, InProgress, Status
<1> QED
  BY <1>1, StatusValues

\* Only SET writes a status, only complete_job an answer, and neither to Nil.
LEMMA CommandWrites ==
    ASSUME StorageTypeOK, NEW c \in Clients, Command(c), Carries(c),
           Creating(c) \/ Updating(c) \/ Looking(c)
    PROVE  /\ Carries(c)'
           /\ SaveStatus(c) \/ status' = status
           /\ \A j \in Jobs : answer[j] # Nil => answer'[j] # Nil
<1>0. call[c].at # "idle"
  BY CommandIsBusy
<1>1. call[c] \in Call /\ call[c].job \in Jobs
  BY <1>0, BusyCall, FrameFacts DEF StorageTypeOK, CallTypeOK
<1>2. CASE Looking(c)
  <2>1. Looking(c)' /\ UNCHANGED redis
    BY <1>2, LookingCommand
  <2> QED
    BY <2>1 DEF Looking, Carries, At, redis, Finished
<1>3. CASE Creating(c) \/ Updating(c)
  <2> USE <1>1, StatusesDiffer DEF Carries, At, StorageTypeOK, Call
  <2>1. CASE CommandFails(c)
    <3>1. UNCHANGED redis /\ call'[c].op = call[c].op /\ call'[c].at = "failed"
      BY <1>3, <2>1, FailedCommand DEF Creating, Updating, Waits
    <3> QED
      BY <3>1 DEF redis
  <2>2. CASE LoadToUpdate(c)
    BY <2>2 DEF LoadToUpdate, Goto, redis
  <2>3. CASE SaveStatus(c)
    BY <2>3 DEF SaveStatus, Goto
  <2>4. CASE Publish(c)
    <3>1. call[c].at = "publish" /\ UNCHANGED redis
      BY <2>4 DEF Publish
    <3>2. CASE call[c].op = "complete" /\ call[c].copy = Completed
      <4>1. Goto(c, "result")
        BY <2>4, <3>2 DEF Publish, AfterPublish
      <4> QED
        BY <3>1, <3>2, <4>1 DEF Goto, redis
    <3>3. CASE ~(call[c].op = "complete" /\ call[c].copy = Completed)
      <4>1. Goto(c, "prompt") \/ Exit(c, "returned")
        BY <1>3, <2>4, <3>3 DEF Publish, AfterPublish, Creating, Updating
      <4> QED
        BY <3>1, <4>1 DEF Goto, Exit, redis
    <3> QED
      BY <3>2, <3>3
  <2>5. CASE SavePrompt(c)
    BY <2>5 DEF SavePrompt, Exit
  <2>6. CASE SaveResult(c)
    BY <2>6 DEF SaveResult, Exit
  <2>7. CASE LoadMissing(c)
    BY <1>3, <2>7 DEF LoadMissing, Exit, Waits, Creating, Updating, redis
  <2>8. ~LoadToReturn(c) /\ ~FetchResult(c) /\ ~LoadBeforeListening(c) /\ ~StartSubscription(c)
        /\ ~Receive(c) /\ ~Timeout(c) /\ ~ReloadMissing(c) /\ ~ReloadToWait(c)
    BY <1>3 DEF Creating, Updating, LoadToReturn, FetchResult, LoadBeforeListening,
         StartSubscription, Receive, Timeout, ReloadMissing, ReloadToWait, Waits
  <2> QED
    BY <2>1, <2>2, <2>3, <2>4, <2>5, <2>6, <2>7, <2>8 DEF Command, WriteStep, ReadStep, WaitStep
<1> QED
  BY <1>2, <1>3

\* A step that writes no status keeps the invariant if no task goes unnoticed.
LEMMA QuietStepKeepsOutcome ==
    ASSUME OutcomeInv, NEW c \in Clients, Carries(c)',
           \A d \in Clients \ {c} : call'[d] = call[d],
           status' = status, \A j \in Jobs : answer[j] # Nil => answer'[j] # Nil,
           drops' = 0 =>
              /\ drops = 0
              /\ \A t \in Tasks : /\ Unended(t) => Unended(t)'
                                  /\ Unanswered(t) => Unanswered(t)' \/ answer'[JobOf[t]] # Nil
    PROVE  OutcomeInv'
<1>1. \A d \in Clients \ {c} : Carries(d)'
  BY DEF OutcomeInv, Carries, At
<1>2. \A j \in Jobs : status'[j] \in KnownStatus
  BY DEF OutcomeInv
<1>3. ASSUME drops' = 0
      PROVE  NoneForgotten'
  BY <1>3, ClientFacts DEF OutcomeInv, NoneForgotten
<1> QED
  BY <1>1, <1>2, <1>3 DEF OutcomeInv, KnownStatus

\* A backend writes only PENDING, and for a task it will queue.
LEMMA BackendKeepsOutcome ==
    ASSUME PipelineTypeOK, RecordInv, HeldInv, OutcomeInv, NEW b \in Backends,
           Request(b) \/ BackendStep(b) \/ CrashBackend(b)
    PROVE  OutcomeInv'
<1>a. b \in Clients /\ b \notin Workers
      /\ call \in [Clients -> Call \cup {NoCall}]
      /\ status \in [Jobs -> JobStatus \cup {Nil}]
  BY ClientFacts DEF PipelineTypeOK, StorageTypeOK
<1> USE <1>a
<1>f. /\ UNCHANGED <<buffer, link, drops>>
      /\ \A w \in Workers : call'[w] = call[w] /\ task'[w] = task[w]
      /\ \A t \in Tasks :
            \/ place'[t] = place[t]
            \/ place[t] \in {"new", "sending"} /\ place'[t] \in Unqueued \cup {"ready"}
  BY BackendFrame
<1>t. /\ \A t \in Tasks : Unended(t) /\ place'[t] # "new" => Unended(t)'
      /\ \A t \in Tasks : Unanswered(t) /\ place'[t] # "new" => Unanswered(t)'
  BY <1>f DEF Unended, Unanswered, Wrote, WroteAll, Unqueued
<1>u. ASSUME UNCHANGED redis, Carries(b)', \A d \in Clients \ {b} : call'[d] = call[d],
             \A t \in Tasks : place[t] # "new" => place'[t] # "new"
      PROVE  OutcomeInv'
  <2>1. \A t \in Tasks : (Unended(t) => Unended(t)') /\ (Unanswered(t) => Unanswered(t)')
    BY <1>t, <1>u DEF Unended, Unanswered
  <2> QED
    BY <1>f, <1>u, <2>1, QuietStepKeepsOutcome DEF redis
<1>n. ASSUME call'[b] = NoCall
      PROVE  Carries(b)'
  BY <1>n DEF Carries, NoCall, At
<1>1. ASSUME NEW t \in Tasks, NEW kind \in {"sync", "async"}, send_task(b, kind, t)
      PROVE  OutcomeInv'
  <2>1. /\ call' = [call EXCEPT ![b] = [op |-> "create", at |-> "set", job |-> JobOf[t],
                                        copy |-> Pending, val |-> Nil]]
        /\ UNCHANGED redis
        /\ \A s \in Tasks : place'[s] = place[s] \/ place'[s] = "sending"
    BY <1>1 DEF send_task, create_job_status, Begin, PipelineTypeOK
  <2>2. Carries(b)'
    BY <2>1 DEF Carries, At
  <2> QED
    BY <1>u, <2>1, <2>2
<1>2. ASSUME NEW j \in Jobs, check_result(b, j)
      PROVE  OutcomeInv'
  <2>1. /\ call' = [call EXCEPT ![b] = [op |-> "status", at |-> "load", job |-> j,
                                        copy |-> Nil, val |-> Nil]]
        /\ UNCHANGED redis /\ place' = place
    BY <1>2 DEF check_result, get_job_status, Begin
  <2>2. Carries(b)'
    BY <2>1 DEF Carries, At
  <2> QED
    BY <1>u, <2>1, <2>2
<1>3. CASE SendingFails(b) \/ QueueTask(b) \/ QueueingFails(b) \/ CrashBackend(b)
  <2>1. /\ UNCHANGED redis
        /\ \A d \in Clients \ {b} : call'[d] = call[d]
        /\ \/ call'[b] = NoCall
           \/ call'[b] = [op |-> "wait", at |-> "load", job |-> call[b].job,
                          copy |-> Nil, val |-> Nil]
    BY <1>3 DEF SendingFails, QueueTask, QueueingFails, CrashBackend, Rest, wait_completeness, Begin
  <2>2. \A t \in Tasks : place'[t] # "new" \/ place'[t] = place[t]
    BY <1>3 DEF SendingFails, QueueTask, QueueingFails, CrashBackend, Queued, PipelineTypeOK
  <2>3. Carries(b)'
    BY <1>n, <2>1 DEF Carries, At
  <2> QED
    BY <1>u, <2>1, <2>2, <2>3
<1>4. CASE ReadAnswer(b) \/ Respond(b)
  <2>1. /\ UNCHANGED redis /\ place' = place
        /\ \A d \in Clients \ {b} : call'[d] = call[d]
        /\ \/ call'[b] = NoCall
           \/ call'[b] = [op |-> "result", at |-> "fetch", job |-> call[b].job,
                          copy |-> Nil, val |-> Nil]
    BY <1>4 DEF ReadAnswer, Respond, Rest, get_job_result, Begin
  <2>2. Carries(b)'
    BY <1>n, <2>1 DEF Carries, At
  <2> QED
    BY <1>u, <2>1, <2>2
<1>5. CASE BackendCommand(b)
  <2>1. Command(b) /\ ClientStep(b) /\ UNCHANGED <<place, task, buffer, request>>
    BY <1>5 DEF BackendCommand, Command, ClientStep, StorageStep
  <2>2. \A c \in Clients \ {b} : call'[c] = call[c]
    BY <2>1, OthersKeepTheirSubscription DEF PipelineTypeOK
  <2>3. Creating(b) \/ Looking(b)
    BY <2>1, CommandIsBusy DEF RecordInv, BackendAtWork
  <2>4. /\ Carries(b)'
        /\ SaveStatus(b) \/ status' = status
        /\ \A j \in Jobs : answer[j] # Nil => answer'[j] # Nil
    BY <2>1, <2>3, CommandWrites DEF OutcomeInv, PipelineTypeOK
  <2>5. \A t \in Tasks : (Unended(t) => Unended(t)') /\ (Unanswered(t) => Unanswered(t)')
    BY <1>t, <2>1 DEF Unended, Unanswered
  <2>6. CASE status' = status
    BY <1>f, <2>2, <2>4, <2>5, <2>6, QuietStepKeepsOutcome
  <2>7. CASE SaveStatus(b)
    <3>1. /\ call[b].at = "set" /\ answer' = answer
          /\ status' = [status EXCEPT ![call[b].job] = call[b].copy]
      BY <2>7 DEF SaveStatus
    <3>2. call[b].op = "create"
      BY <2>3, <3>1 DEF Creating, Looking, Finished
    <3>3. call[b].copy = Pending
      BY <3>1, <3>2 DEF OutcomeInv, Carries, At
    <3>4. task[b] \in Tasks /\ call[b].job = JobOf[task[b]] /\ place[task[b]] = "sending"
      BY <3>2, SenderFacts
    <3>5. \A j \in Jobs : status'[j] = IF j = JobOf[task[b]] THEN Pending ELSE status[j]
      BY <3>1, <3>3, <3>4, ClientFacts
    <3>6. ASSUME drops' = 0
          PROVE  NoneForgotten'
      <4>1. Unended(task[b])
        BY <1>f, <3>4, <3>6, PipelineAssumption
           DEF HeldInv, Holding, Unended, Links, PipelineTypeOK, Unqueued
      <4> QED
        BY <1>f, <2>5, <3>1, <3>4, <3>5, <3>6, <4>1, StatusesDiffer DEF OutcomeInv, NoneForgotten
    <3>7. \A c \in Clients \ {b} : Carries(c)'
      BY <2>2 DEF OutcomeInv, Carries, At
    <3> QED
      BY <2>4, <3>5, <3>6, <3>7 DEF OutcomeInv, KnownStatus
  <2> QED
    BY <2>4, <2>6, <2>7
<1> QED
  BY <1>1, <1>2, <1>3, <1>4, <1>5
     DEF Request, sync_chat_completion, async_chat_completion, check_status, BackendStep

\* The commands of complete_job other than SET bring the outcome forward.
LEMMA CommandProgress ==
    ASSUME StorageTypeOK, NEW c \in Clients, Updating(c), Carries(c), Command(c), ~SaveStatus(c),
           status[call[c].job] # Nil
    PROVE  /\ Wrote(c)' => Wrote(c)
           /\ WroteAll(c)' => WroteAll(c) \/ answer'[call[c].job] # Nil
<1>1. call[c] \in Call /\ call[c].job \in Jobs
  BY BusyCall DEF Updating, StorageTypeOK, CallTypeOK, Call
<1> USE <1>1, StatusesDiffer DEF Updating, Carries, Wrote, WroteAll, StorageTypeOK, Call
<1>2. CASE CommandFails(c)
  BY <1>2, FailedCommand DEF Waits
<1>3. CASE LoadToUpdate(c)
  BY <1>3 DEF LoadToUpdate, Goto
<1>4. CASE Publish(c)
  <2>1. call[c].at = "publish" /\ answer' = answer
    BY <1>4 DEF Publish, redis
  <2>2. CASE call[c].op = "complete" /\ call[c].copy = Completed
    <3>1. Goto(c, "result")
      BY <1>4, <2>2 DEF Publish, AfterPublish
    <3> QED
      BY <2>1, <2>2, <3>1 DEF Goto
  <2>3. CASE ~(call[c].op = "complete" /\ call[c].copy = Completed)
    <3>1. Exit(c, "returned")
      BY <1>4, <2>3 DEF Publish, AfterPublish
    <3> QED
      BY <2>1, <2>3, <3>1 DEF Exit
  <2> QED
    BY <2>2, <2>3
<1>5. CASE SaveResult(c)
  BY <1>5 DEF SaveResult, Exit
<1>6. ~LoadMissing(c) /\ ~SavePrompt(c) /\ ~ReadStep(c) /\ ~WaitStep(c)
  BY DEF LoadMissing, SavePrompt, ReadStep, WaitStep, LoadToReturn, FetchResult, Waits,
         LoadBeforeListening, StartSubscription, Receive, Timeout, ReloadMissing, ReloadToWait, At
<1> QED
  BY <1>2, <1>3, <1>4, <1>5, <1>6 DEF Command, WriteStep

\* A worker that takes the end of a job away from it has written it.
LEMMA WorkerKeepsOutcome ==
    ASSUME PipelineTypeOK, RecordInv, HeldInv, OutcomeInv, NEW w \in Workers, WorkerAction(w)
    PROVE  OutcomeInv'
<1>a. /\ w \in Clients /\ w \notin {"new", "acked"} /\ "ready" \notin {"new", "acked"}
      /\ call \in [Clients -> Call \cup {NoCall}]
      /\ task \in [Clients -> Tasks \cup {Nil}]
      /\ place \in [Tasks -> Places]
      /\ status \in [Jobs -> JobStatus \cup {Nil}]
      /\ Nil \notin Tasks /\ \A v \in Workers : v \in Clients
  BY ClientFacts, PipelineAssumption DEF PipelineTypeOK, StorageTypeOK, Unqueued
<1> USE <1>a
<1>n. NoCall.op \notin {"update", "complete"} /\ NoCall.at = "idle"
  BY DEF NoCall
<1>d. /\ drops' = 0 => drops = 0
      /\ \A v \in Workers \ {w} : task'[v] = task[v]
  BY DEF WorkerAction, Dispatch, WorkerStep, start_connection, Deliver, callback, CallLLM, ack, nack,
         Dispose, Rest, WorkerCommand, DropLink, LoopCrashes, CrashWorker, PipelineTypeOK
\* Nothing else keeps a task from its end than w.
<1>t. ASSUME NEW t \in Tasks, \A v \in Workers \ {w} : call'[v] = call[v],
             place'[t] \notin {"new", "acked"} \/ place'[t] = place[t]
      PROVE  /\ Unended(t) /\ (task'[w] = t => ~Wrote(w)') => Unended(t)'
             /\ Unanswered(t) /\ (task'[w] = t => ~WroteAll(w)') => Unanswered(t)'
  BY <1>d, <1>t DEF Unended, Unanswered, Wrote, WroteAll
\* A step of w outside the storage that acknowledges nothing.
<1>u. ASSUME UNCHANGED redis, Carries(w)', \A d \in Clients \ {w} : call'[d] = call[d],
             \A t \in Tasks : place'[t] \notin {"new", "acked"} \/ place'[t] = place[t],
             \A t \in Tasks : task'[w] = t => \/ ~Wrote(w)' /\ ~WroteAll(w)'
                                              \/ UNCHANGED <<call, task>>
      PROVE  OutcomeInv'
  <2>1. ASSUME NEW t \in Tasks
        PROVE  (Unended(t) => Unended(t)') /\ (Unanswered(t) => Unanswered(t)')
    BY <1>t, <1>u DEF Unended, Unanswered, Wrote, WroteAll
  <2> QED
    BY <1>d, <1>u, <2>1, QuietStepKeepsOutcome DEF redis
<1>c. ASSUME UNCHANGED <<call, task, redis>>,
             \A t \in Tasks : place'[t] \notin {"new", "acked"} \/ place'[t] = place[t]
      PROVE  OutcomeInv'
  <2>1. Carries(w)'
    BY <1>c DEF OutcomeInv, Carries, At
  <2> QED
    BY <1>c, <1>u, <2>1
<1>1. CASE start_connection(w) \/ LoopCrashes(w)
  BY <1>1, <1>c DEF start_connection, LoopCrashes, storageVars, redis
<1>2. ASSUME NEW s \in Tasks, Deliver(w, s)
      PROVE  OutcomeInv'
  BY <1>2, <1>c DEF Deliver, storageVars, redis
<1>3. ASSUME NEW s \in Tasks, callback(w, s)
      PROVE  OutcomeInv'
  <2>1. /\ UNCHANGED redis /\ place' = place
        /\ call' = [call EXCEPT ![w] = [op |-> "update", at |-> "load", job |-> JobOf[s],
                                        copy |-> InProgress, val |-> Nil]]
    BY <1>3 DEF callback, update_job_status, Begin
  <2>2. Carries(w)' /\ ~Wrote(w)' /\ ~WroteAll(w)'
    BY <2>1 DEF Carries, At, Wrote, WroteAll
  <2> QED
    BY <1>u, <2>1, <2>2
<1>4. CASE CallLLM(w)
  <2>1. /\ UNCHANGED redis /\ place' = place
        /\ \E s \in {Completed, Failed}, r \in Results \cup {Nil} :
              /\ call' = [call EXCEPT ![w] = [op |-> "complete", at |-> "load", job |-> call[w].job,
                                              copy |-> s, val |-> r]]
              /\ s = Completed => r # Nil
    BY <1>4, StatusesDiffer, StorageAssumption
       DEF CallLLM, complete_job, complete_job_error, Begin
  <2>2. Carries(w)' /\ ~Wrote(w)' /\ ~WroteAll(w)'
    BY <2>1 DEF Carries, At, Wrote, WroteAll
  <2> QED
    BY <1>u, <2>1, <2>2
<1>5. ASSUME UNCHANGED redis, call' = [call EXCEPT ![w] = NoCall],
             task' = [task EXCEPT ![w] = Nil],
             \A t \in Tasks : place'[t] \notin {"new", "acked"} \/ place'[t] = place[t]
      PROVE  OutcomeInv'
  <2>1. Carries(w)' /\ task'[w] = Nil
    BY <1>5, <1>n DEF Carries, At
  <2> QED
    BY <1>5, <1>u, <2>1
<1>6. CASE nack(w)
  BY <1>5, <1>6 DEF nack, Dispose, Rest
<1>7. CASE ack(w)
  <2>1. /\ UNCHANGED redis /\ call' = [call EXCEPT ![w] = NoCall]
        /\ task' = [task EXCEPT ![w] = Nil]
        /\ call[w].op = "complete" /\ call[w].at = "returned"
        /\ \A t \in Tasks : place'[t] = place[t] \/ t = task[w]
    BY <1>7 DEF ack, At, Dispose, Rest
  <2>2. Carries(w)' /\ task'[w] = Nil
    BY <2>1, <1>n DEF Carries, At
  <2>3. Wrote(w) /\ WroteAll(w)
    BY <2>1 DEF Wrote, WroteAll
  <2>4. ASSUME NEW t \in Tasks
        PROVE  (Unended(t) => Unended(t)') /\ (Unanswered(t) => Unanswered(t)')
    <3>1. CASE t = task[w]
      BY <2>3, <3>1 DEF Unended, Unanswered
    <3>2. CASE t # task[w]
      BY <1>t, <2>1, <2>2, <3>2
    <3> QED
      BY <3>1, <3>2
  <2> QED
    BY <1>d, <2>1, <2>2, <2>4, QuietStepKeepsOutcome DEF redis
<1>8. CASE DropLink(w)
  BY <1>8, <1>c DEF DropLink, Requeued, storageVars, redis
<1>9. CASE CrashWorker(w)
  BY <1>5, <1>9 DEF CrashWorker, Rest, Requeued
<1>10. CASE WorkerCommand(w)
  <2>1. Command(w) /\ ClientStep(w) /\ UNCHANGED <<place, task>>
    BY <1>10 DEF WorkerCommand, Command, ClientStep, StorageStep
  <2>2. \A c \in Clients \ {w} : call'[c] = call[c]
    BY <2>1, OthersKeepTheirSubscription DEF PipelineTypeOK
  <2>3. PICK s \in Tasks : /\ task[w] = s /\ Updating(w) /\ call[w].job = JobOf[s]
                           /\ status[call[w].job] # Nil
    BY <2>1, CommandIsBusy DEF RecordInv, Recorded, WorkerAtWork
  <2>4. /\ Carries(w) /\ Carries(w)'
        /\ SaveStatus(w) \/ status' = status
        /\ \A j \in Jobs : answer[j] # Nil => answer'[j] # Nil
    BY <2>1, <2>3, CommandWrites DEF OutcomeInv, PipelineTypeOK
  <2>5. ASSUME NEW t \in Tasks \ {s}
        PROVE  (Unended(t) => Unended(t)') /\ (Unanswered(t) => Unanswered(t)')
    <3>1. task'[w] # t /\ place'[t] = place[t]
      BY <2>1, <2>3
    <3> QED
      BY <1>t, <2>2, <3>1
  <2>6. CASE ~SaveStatus(w)
    <3>1. /\ Wrote(w)' => Wrote(w)
          /\ WroteAll(w)' => WroteAll(w) \/ answer'[JobOf[s]] # Nil
      BY <2>1, <2>3, <2>4, <2>6, CommandProgress DEF PipelineTypeOK
    <3>2. /\ Unended(s) => Unended(s)'
          /\ Unanswered(s) => Unanswered(s)' \/ answer'[JobOf[s]] # Nil
      BY <1>t, <2>1, <2>2, <2>3, <3>1 DEF Unended, Unanswered
    <3>3. \A t \in Tasks : /\ Unended(t) => Unended(t)'
                           /\ Unanswered(t) => Unanswered(t)' \/ answer'[JobOf[t]] # Nil
      BY <2>5, <3>2
    <3> QED
      BY <1>d, <2>2, <2>4, <2>6, <3>3, QuietStepKeepsOutcome
  <2>7. CASE SaveStatus(w)
    <3>1. /\ call[w].at = "set" /\ answer' = answer
          /\ status' = [status EXCEPT ![call[w].job] = call[w].copy]
          /\ call' = [call EXCEPT ![w].at = "publish"]
      BY <2>7 DEF SaveStatus, Goto
    <3>2. call[w] \in Call
      BY <3>1, BusyCall DEF PipelineTypeOK, StorageTypeOK, CallTypeOK
    <3>3. call'[w].op = call[w].op /\ call'[w].copy = call[w].copy /\ call'[w].at = "publish"
      BY <3>1, <3>2 DEF Call
    <3>4. \A j \in Jobs : status'[j] = IF j = JobOf[s] THEN call[w].copy ELSE status[j]
      BY <2>3, <3>1, ClientFacts
    <3>5. \/ call[w].op = "update" /\ call[w].copy = InProgress
          \/ call[w].op = "complete" /\ call[w].copy = Failed
          \/ call[w].op = "complete" /\ call[w].copy = Completed
      BY <2>3, <2>4, <3>1 DEF Updating, Carries, At
    <3>6. ASSUME drops' = 0
          PROVE  NoneForgotten'
      <4>1. place'[s] = w /\ task'[w] = s /\ \A v \in Workers \ {w} : task'[v] # s
        BY <1>d, <2>1, <2>3, <3>6 DEF HeldInv, Holding, Links, PipelineTypeOK
      <4>2. call[w].copy = InProgress => Unended(s)'
        BY <3>3, <3>5, <4>1, StatusesDiffer DEF Unended, Wrote
      <4>3. call[w].copy = Completed => Unanswered(s)'
        BY <3>3, <3>5, <4>1, StatusesDiffer DEF Unanswered, WroteAll
      <4>4. drops = 0
        BY <1>d, <3>6
      <4> QED
        BY <2>3, <2>5, <3>1, <3>4, <3>5, <4>2, <4>3, <4>4, StatusesDiffer
           DEF OutcomeInv, NoneForgotten
    <3>7. \A c \in Clients \ {w} : Carries(c)'
      BY <2>2 DEF OutcomeInv, Carries, At
    <3> QED
      BY <2>4, <3>4, <3>5, <3>6, <3>7 DEF OutcomeInv, KnownStatus
  <2> QED
    BY <2>6, <2>7
<1> QED
  BY <1>1, <1>2, <1>3, <1>4, <1>6, <1>7, <1>8, <1>9, <1>10 DEF WorkerAction, Dispatch, WorkerStep

-----------------------------------------------------------------------------
(* Theorems *)

\* Every reachable state satisfies the invariant.
LEMMA OutcomeInvariant == PipelineSpec => []OutcomeInv
<1>1. PipelineInit => OutcomeInv
  <2> SUFFICES ASSUME PipelineInit PROVE OutcomeInv
    OBVIOUS
  <2>1. \A c \in Clients : call[c] = NoCall
    BY DEF PipelineInit, StorageInit
  <2>2. \A j \in Jobs : status[j] = Nil
    BY DEF PipelineInit, StorageInit
  <2> QED
    BY <2>1, <2>2, StatusesDiffer DEF OutcomeInv, Carries, KnownStatus, NoneForgotten, NoCall, At
<1>2. PipelineTypeOK /\ RecordInv /\ HeldInv /\ OutcomeInv /\ [PipelineNext]_pipelineVars
      => OutcomeInv'
  <2> SUFFICES ASSUME PipelineTypeOK, RecordInv, HeldInv, OutcomeInv, [PipelineNext]_pipelineVars
               PROVE  OutcomeInv'
    OBVIOUS
  <2>1. CASE UNCHANGED pipelineVars
    BY <2>1 DEF pipelineVars, storageVars, OutcomeInv, Carries, At, KnownStatus, NoneForgotten,
                Unended, Unanswered, Wrote, WroteAll
  <2>2. CASE PipelineNext
    BY <2>2, StepSplits, BackendKeepsOutcome, WorkerKeepsOutcome
  <2> QED
    BY <2>1, <2>2
<1> QED
  BY <1>1, <1>2, RecordInvariant, HeldInvariant, PTL DEF PipelineSpec

\* A job none of whose tasks is still on its way has a terminal status, and its
\* answer if it is COMPLETED: for any number of clients, tasks of one job, crashes
\* and failing commands, as long as RabbitMQ drops no connection.
THEOREM AckedJobsAreFinished == PipelineSpec => []AckedJobIsFinished
<1>1. RecordInv /\ OutcomeInv => AckedJobIsFinished
  <2> SUFFICES ASSUME RecordInv, OutcomeInv, drops = 0, NEW j \in Settled
               PROVE  status[j] \in {Completed, Failed} /\ (status[j] = Completed => answer[j] # Nil)
    BY DEF AckedJobIsFinished
  <2>1. j \in Jobs /\ \A t \in Tasks : JobOf[t] = j => ~Unended(t) /\ ~Unanswered(t)
    BY DEF Settled, Unended, Unanswered
  <2>2. status[j] # Nil
    BY DEF Settled, RecordInv, Recorded, Unqueued
  <2> QED
    BY <2>1, <2>2 DEF OutcomeInv, NoneForgotten, KnownStatus
<1> QED
  BY <1>1, RecordInvariant, OutcomeInvariant, PTL

-----------------------------------------------------------------------------
(* Unfinished jobs have a task *)

\* Worker w has written IN_PROGRESS for the task it processes.
Started(w) ==
    \/ call[w].op = "complete"
    \/ call[w].op = "update" /\ call[w].at \in {"publish", "returned"}

\* Whoever can acknowledge task t has still to write IN_PROGRESS, ...
Unstarted(t) ==
    /\ place[t] \notin {"new", "acked"}
    /\ \A w \in Workers : task[w] = t /\ link[w] = "up" => ~Started(w)

\* ... or, with the task at the broker or a worker, the end.
Underway(t) ==
    /\ place[t] \in {"ready"} \cup Workers
    /\ \A w \in Workers : task[w] = t => ~Wrote(w)

\* The inductive invariant behind UnfinishedJobHasTask.
UnfinishedInv ==
    \A j \in Jobs :
        /\ status[j] = Pending => \E t \in Tasks : JobOf[t] = j /\ Unstarted(t)
        /\ drops = 0 /\ status[j] = InProgress => \E t \in Tasks : JobOf[t] = j /\ Underway(t)

\* The commands other than SET do not start a task.
LEMMA StartProgress ==
    ASSUME StorageTypeOK, NEW c \in Clients, Updating(c), Carries(c), Command(c), ~SaveStatus(c),
           status[call[c].job] # Nil
    PROVE  Started(c)' => Started(c)
<1>1. call[c] \in Call /\ call[c].job \in Jobs
  BY BusyCall DEF Updating, StorageTypeOK, CallTypeOK, Call
<1> USE <1>1 DEF Updating, Started, StorageTypeOK, Call
<1>2. CASE CommandFails(c)
  BY <1>2, FailedCommand DEF Waits
<1>3. CASE LoadToUpdate(c)
  BY <1>3 DEF LoadToUpdate, Goto
<1>4. CASE Publish(c)
  BY <1>4 DEF Publish
<1>5. CASE SaveResult(c)
  BY <1>5 DEF SaveResult, Carries
<1>6. ~LoadMissing(c) /\ ~SavePrompt(c) /\ ~ReadStep(c) /\ ~WaitStep(c)
  BY DEF LoadMissing, SavePrompt, ReadStep, WaitStep, LoadToReturn, FetchResult, Waits,
         LoadBeforeListening, StartSubscription, Receive, Timeout, ReloadMissing, ReloadToWait, At
<1> QED
  BY <1>2, <1>3, <1>4, <1>5, <1>6 DEF Command, WriteStep

\* A step that writes no status keeps the invariant if it keeps the tasks.
LEMMA QuietStepKeepsUnfinished ==
    ASSUME UnfinishedInv, status' = status, drops' = 0 => drops = 0,
           \A t \in Tasks : /\ Unstarted(t) => Unstarted(t)'
                            /\ drops' = 0 /\ Underway(t) => Underway(t)'
    PROVE  UnfinishedInv'
BY DEF UnfinishedInv

\* Whoever writes a status has the task in hand that makes it true.
LEMMA SettingKeepsUnfinished ==
    ASSUME PipelineTypeOK, HeldInv, OutcomeInv, UnfinishedInv,
           NEW c \in Clients, NEW s \in Tasks, task[c] = s, call[c].job = JobOf[s],
           \/ c \in Backends /\ Creating(c) /\ place[s] = "sending"
           \/ c \in Workers /\ Updating(c),
           SaveStatus(c), UNCHANGED <<place, task, link, drops>>
    PROVE  UnfinishedInv'
<1>1. /\ call[c].at = "set"
      /\ status' = [status EXCEPT ![call[c].job] = call[c].copy]
      /\ call' = [call EXCEPT ![c].at = "publish"]
  BY DEF SaveStatus, Goto
<1>2. call[c] \in Call
  BY <1>1, BusyCall DEF PipelineTypeOK, StorageTypeOK, CallTypeOK
<1>3. /\ call'[c].op = call[c].op /\ call'[c].at = "publish"
      /\ \A d \in Clients \ {c} : call'[d] = call[d]
  BY <1>1, <1>2 DEF Call, PipelineTypeOK, StorageTypeOK
<1>4. \A j \in Jobs : status'[j] = IF j = JobOf[s] THEN call[c].copy ELSE status[j]
  BY <1>1, ClientFacts DEF PipelineTypeOK, StorageTypeOK
<1>5. ASSUME NEW t \in Tasks \ {s}
      PROVE  (Unstarted(t) => Unstarted(t)') /\ (Underway(t) => Underway(t)')
  <2>1. \A w \in Workers : task[w] = t => call'[w] = call[w]
    BY <1>3, ClientFacts
  <2> QED
    BY <2>1 DEF Unstarted, Underway, Started, Wrote
<1>6. call[c].copy = Pending => Unstarted(s)'
  <2> SUFFICES ASSUME call[c].copy = Pending PROVE Unstarted(s)'
    OBVIOUS
  <2>1. place[s] = "sending"
    BY <1>1, StatusesDiffer DEF OutcomeInv, Carries, At, Updating
  <2>2. \A w \in Workers : ~(task[w] = s /\ link[w] = "up")
    BY <2>1, PipelineAssumption, ClientFacts DEF HeldInv, Holding, Unqueued
  <2> QED
    BY <2>1, <2>2 DEF Unstarted
<1>7. drops = 0 /\ call[c].copy = InProgress => Underway(s)'
  <2> SUFFICES ASSUME drops = 0, call[c].copy = InProgress PROVE Underway(s)'
    OBVIOUS
  <2>1. c \in Workers /\ call[c].op = "update"
    BY <1>1, StatusesDiffer DEF OutcomeInv, Carries, At, Updating, Creating
  <2>2. \A w \in Workers : task[w] = s => place[s] = w
    BY ClientFacts DEF HeldInv, Holding, Links, PipelineTypeOK
  <2> QED
    BY <1>3, <2>1, <2>2 DEF Underway, Wrote
<1> QED
  BY <1>4, <1>5, <1>6, <1>7 DEF UnfinishedInv

\* A backend writes PENDING for a task it will queue, unless that fails.
LEMMA BackendKeepsUnfinished ==
    ASSUME PipelineTypeOK, RecordInv, HeldInv, OutcomeInv, UnfinishedInv, NEW b \in Backends,
           Request(b) \/ BackendStep(b) \/ CrashBackend(b)
    PROVE  UnfinishedInv'
<1>a. b \in Clients
  BY ClientFacts
<1>1. \A t \in Tasks : place'[t] = "new" => place[t] = "new"
  BY DEF Request, sync_chat_completion, async_chat_completion, check_status, BackendStep,
         send_task, check_result, SendingFails, QueueTask, QueueingFails, ReadAnswer, Respond,
         BackendCommand, CrashBackend, Queued, PipelineTypeOK
<1>2. \A t \in Tasks : (Unstarted(t) => Unstarted(t)') /\ (Underway(t) => Underway(t)')
  <2>1. /\ UNCHANGED link
        /\ \A w \in Workers : call'[w] = call[w] /\ task'[w] = task[w]
        /\ \A t \in Tasks :
              \/ place'[t] = place[t]
              \/ place[t] \in {"new", "sending"} /\ place'[t] \in Unqueued \cup {"ready"}
    BY BackendFrame
  <2>2. \A w \in Workers : w \notin {"new", "sending"}
    BY PipelineAssumption DEF Unqueued
  <2> QED
    BY <1>1, <2>1, <2>2 DEF Unstarted, Underway, Started, Wrote, Unqueued
<1>3. drops' = drops
  BY BackendFrame
<1>4. CASE status' = status
  BY <1>2, <1>3, <1>4, QuietStepKeepsUnfinished
<1>5. CASE BackendCommand(b)
  <2>1. Command(b) /\ UNCHANGED <<place, task, link, drops>>
    BY <1>5 DEF BackendCommand, Command
  <2>2. Creating(b) \/ Looking(b)
    BY <1>a, <2>1, CommandIsBusy DEF RecordInv, BackendAtWork
  <2>3. SaveStatus(b) \/ status' = status
    BY <1>a, <2>1, <2>2, CommandWrites DEF OutcomeInv, PipelineTypeOK
  <2>4. CASE SaveStatus(b)
    <3>1. call[b].op = "create"
      BY <2>2, <2>4 DEF SaveStatus, Creating, Looking, Finished
    <3> QED
      BY <1>a, <2>1, <2>4, <3>1, SenderFacts, SettingKeepsUnfinished
  <2> QED
    BY <1>4, <2>3, <2>4
<1>6. ~BackendCommand(b) => status' = status
  BY DEF Request, sync_chat_completion, async_chat_completion, check_status, BackendStep,
         send_task, check_result, SendingFails, QueueTask, QueueingFails, ReadAnswer, Respond,
         CrashBackend, Rest, create_job_status, get_job_status, get_job_result,
         wait_completeness, Begin, redis
<1> QED
  BY <1>4, <1>5, <1>6

\* A worker takes a task away only when it has written what the status of its job needs.
LEMMA WorkerKeepsUnfinished ==
    ASSUME PipelineTypeOK, RecordInv, HeldInv, OutcomeInv, UnfinishedInv,
           NEW w \in Workers, WorkerAction(w)
    PROVE  UnfinishedInv'
<1>a. /\ w \in Clients /\ w \notin {"new", "acked"}
      /\ call \in [Clients -> Call \cup {NoCall}]
      /\ task \in [Clients -> Tasks \cup {Nil}]
      /\ place \in [Tasks -> Places]
      /\ link \in [Workers -> Links]
      /\ Nil \notin Tasks /\ \A v \in Workers : v \in Clients
  BY ClientFacts, PipelineAssumption DEF PipelineTypeOK, StorageTypeOK, Unqueued
<1> USE <1>a
<1>d. drops' = 0 => drops = 0
  BY DEF WorkerAction, Dispatch, WorkerStep, start_connection, Deliver, callback, CallLLM, ack, nack,
         Dispose, Rest, WorkerCommand, DropLink, LoopCrashes, CrashWorker, PipelineTypeOK
\* A step that takes a task neither to its start nor to its end, nor away.
<1>g. ASSUME NEW t \in Tasks,
             \A v \in Workers \ {w} : call'[v] = call[v] /\ task'[v] = task[v] /\ link'[v] = link[v],
             place'[t] = place[t] \/ place'[t] \in {"ready", w},
             task'[w] = t /\ link'[w] = "up" /\ Started(w)' =>
                 task[w] = t /\ link[w] = "up" /\ Started(w),
             task'[w] = t /\ Wrote(w)' => task[w] = t /\ Wrote(w)
      PROVE  (Unstarted(t) => Unstarted(t)') /\ (Underway(t) => Underway(t)')
  BY <1>g DEF Unstarted, Underway, Started, Wrote
<1>q. ASSUME status' = status,
             \A v \in Workers \ {w} : call'[v] = call[v] /\ task'[v] = task[v] /\ link'[v] = link[v],
             \A t \in Tasks : place'[t] = place[t] \/ place'[t] \in {"ready", w},
             link'[w] = "up" /\ Started(w)' /\ task'[w] # Nil =>
                 task'[w] = task[w] /\ link[w] = "up" /\ Started(w),
             Wrote(w)' /\ task'[w] # Nil => task'[w] = task[w] /\ Wrote(w)
      PROVE  UnfinishedInv'
  BY <1>d, <1>g, <1>q, QuietStepKeepsUnfinished
<1>1. CASE start_connection(w)
  <2>1. task[w] = Nil
    BY <1>1 DEF start_connection, HeldInv, Holding
  <2> QED
    BY <1>1, <1>q, <2>1 DEF start_connection, storageVars
<1>2. CASE LoopCrashes(w)
  <2>1. UNCHANGED <<call, task, place, status>> /\ link' = [link EXCEPT ![w] = "down"]
    BY <1>2 DEF LoopCrashes, LoopEnds, storageVars
  <2>2. Wrote(w)' => Wrote(w)
    BY <2>1 DEF Wrote
  <2> QED
    BY <1>q, <2>1, <2>2
<1>3. ASSUME NEW s \in Tasks, Deliver(w, s)
      PROVE  UnfinishedInv'
  <2>1. /\ UNCHANGED <<call, task, link, status>>
        /\ \A t \in Tasks : place'[t] = place[t] \/ place'[t] = w
    BY <1>3 DEF Deliver, storageVars
  <2>2. (Wrote(w)' => Wrote(w)) /\ (Started(w)' => Started(w))
    BY <2>1 DEF Wrote, Started
  <2> QED
    BY <1>q, <2>1, <2>2
<1>4. ASSUME NEW s \in Tasks, callback(w, s)
      PROVE  UnfinishedInv'
  <2>1. /\ UNCHANGED <<status, place, link>> /\ task' = [task EXCEPT ![w] = s]
        /\ call' = [call EXCEPT ![w] = [op |-> "update", at |-> "load", job |-> JobOf[s],
                                        copy |-> InProgress, val |-> Nil]]
    BY <1>4 DEF callback, update_job_status, Begin, redis
  <2>2. ~Started(w)' /\ ~Wrote(w)'
    BY <2>1 DEF Started, Wrote
  <2> QED
    BY <1>q, <2>1, <2>2
<1>5. CASE CallLLM(w)
  <2>1. /\ UNCHANGED <<status, place, link, task>> /\ Started(w)
        /\ \E s \in {Completed, Failed}, r \in Results \cup {Nil} :
              call' = [call EXCEPT ![w] = [op |-> "complete", at |-> "load", job |-> call[w].job,
                                           copy |-> s, val |-> r]]
    BY <1>5 DEF CallLLM, complete_job, complete_job_error, Begin, redis, At, Started
  <2>2. ~Wrote(w)'
    BY <2>1 DEF Wrote
  <2> QED
    BY <1>q, <2>1, <2>2
<1>6. CASE nack(w)
  <2>1. /\ UNCHANGED status /\ call' = [call EXCEPT ![w] = NoCall]
        /\ task' = [task EXCEPT ![w] = Nil]
        /\ \A v \in Workers \ {w} : link'[v] = link[v]
        /\ \A t \in Tasks : place'[t] = place[t] \/ place'[t] = "ready"
    BY <1>6 DEF nack, Dispose, LoopEnds, Rest, redis
  <2> QED
    BY <1>q, <2>1
<1>7. CASE ack(w)
  <2>1. /\ UNCHANGED status /\ call' = [call EXCEPT ![w] = NoCall]
        /\ task' = [task EXCEPT ![w] = Nil]
        /\ \A v \in Workers \ {w} : link'[v] = link[v]
        /\ call[w].op = "complete" /\ call[w].at = "returned"
        /\ place' = IF link[w] = "up" THEN [place EXCEPT ![task[w]] = "acked"] ELSE place
    BY <1>7 DEF ack, At, Dispose, LoopEnds, Rest, redis
  <2>2. Started(w) /\ Wrote(w)
    BY <2>1 DEF Started, Wrote
  <2>3. ASSUME NEW t \in Tasks
        PROVE  (Unstarted(t) => Unstarted(t)') /\ (Underway(t) => Underway(t)')
    <3>1. CASE t = task[w] /\ link[w] = "up"
      BY <2>2, <3>1 DEF Unstarted, Underway
    <3>2. CASE ~(t = task[w] /\ link[w] = "up")
      BY <1>g, <2>1, <3>2
    <3> QED
      BY <3>1, <3>2
  <2> QED
    BY <1>d, <2>1, <2>3, QuietStepKeepsUnfinished
<1>8. CASE DropLink(w)
  <2>1. /\ UNCHANGED <<call, task, status>> /\ link' = [link EXCEPT ![w] = "dropped"]
        /\ \A t \in Tasks : place'[t] = place[t] \/ place'[t] = "ready"
    BY <1>8 DEF DropLink, Requeued, storageVars
  <2>2. Wrote(w)' => Wrote(w)
    BY <2>1 DEF Wrote
  <2> QED
    BY <1>q, <2>1, <2>2
<1>9. CASE CrashWorker(w)
  <2>1. /\ UNCHANGED status /\ call' = [call EXCEPT ![w] = NoCall]
        /\ task' = [task EXCEPT ![w] = Nil] /\ link' = [link EXCEPT ![w] = "down"]
        /\ \A t \in Tasks : place'[t] = place[t] \/ place'[t] = "ready"
    BY <1>9 DEF CrashWorker, LoopEnds, Requeued, Rest, redis
  <2> QED
    BY <1>q, <2>1
<1>10. CASE WorkerCommand(w)
  <2>1. Command(w) /\ ClientStep(w) /\ UNCHANGED <<place, task, link, drops>>
    BY <1>10 DEF WorkerCommand, Command, ClientStep, StorageStep
  <2>2. \A v \in Workers \ {w} : call'[v] = call[v]
    BY <2>1, OthersKeepTheirSubscription DEF PipelineTypeOK
  <2>3. PICK s \in Tasks : /\ task[w] = s /\ Updating(w) /\ call[w].job = JobOf[s]
                           /\ status[call[w].job] # Nil
    BY <2>1, CommandIsBusy DEF RecordInv, Recorded, WorkerAtWork
  <2>4. SaveStatus(w) \/ status' = status
    BY <2>1, <2>3, CommandWrites DEF OutcomeInv, PipelineTypeOK
  <2>5. CASE SaveStatus(w)
    BY <2>1, <2>3, <2>5, SettingKeepsUnfinished
  <2>6. CASE ~SaveStatus(w)
    <3>1. (Wrote(w)' => Wrote(w)) /\ (Started(w)' => Started(w))
      BY <2>1, <2>3, <2>6, CommandProgress, StartProgress DEF OutcomeInv, PipelineTypeOK
    <3> QED
      BY <1>q, <2>1, <2>2, <2>4, <2>6, <3>1
  <2> QED
    BY <2>5, <2>6
<1> QED
  BY <1>1, <1>2, <1>3, <1>4, <1>5, <1>6, <1>7, <1>8, <1>9, <1>10
     DEF WorkerAction, Dispatch, WorkerStep

\* Unfinished jobs are left behind by a submission that fails or a connection that is
\* dropped, and by nothing else: not by crashes of workers, failing commands or tasks of
\* one job, in any number.
THEOREM UnfinishedJobsHaveTasks == PipelineSpec => []UnfinishedJobHasTask
<1>1. PipelineInit => UnfinishedInv
  <2> SUFFICES ASSUME PipelineInit PROVE UnfinishedInv
    OBVIOUS
  <2>1. \A j \in Jobs : status[j] = Nil
    BY DEF PipelineInit, StorageInit
  <2> QED
    BY <2>1, StatusesDiffer DEF UnfinishedInv
<1>2. /\ PipelineTypeOK /\ RecordInv /\ HeldInv /\ OutcomeInv /\ UnfinishedInv
      /\ [PipelineNext]_pipelineVars
      => UnfinishedInv'
  <2> SUFFICES ASSUME PipelineTypeOK, RecordInv, HeldInv, OutcomeInv, UnfinishedInv,
                      [PipelineNext]_pipelineVars
               PROVE  UnfinishedInv'
    OBVIOUS
  <2>1. CASE UNCHANGED pipelineVars
    BY <2>1 DEF pipelineVars, storageVars, UnfinishedInv, Unstarted, Underway, Started, Wrote
  <2>2. CASE PipelineNext
    BY <2>2, StepSplits, BackendKeepsUnfinished, WorkerKeepsUnfinished
  <2> QED
    BY <2>1, <2>2
<1>3. UnfinishedInv => UnfinishedJobHasTask
  BY DEF UnfinishedInv, UnfinishedJobHasTask, Unstarted, Underway
<1> QED
  BY <1>1, <1>2, <1>3, RecordInvariant, HeldInvariant, OutcomeInvariant, PTL DEF PipelineSpec

=============================================================================
