---------------------------- MODULE ResultStorage ----------------------------
(***************************************************************************)
(* The result storage of protollm-api: RedisResultStorage                  *)
(* (object_interface/result_storage/redis_storage.py).                     *)
(*                                                                         *)
(* A job owns three Redis keys (status, prompt, answer) and one pub/sub    *)
(* channel, named like its status key.  No operation of the storage uses a *)
(* transaction or a lock: each is a sequence of Redis commands, and every  *)
(* command below is one step, so that the operations of different clients  *)
(* interleave between any two commands.                                    *)
(*                                                                         *)
(* A client runs at most one operation at a time.  call[c] is its stack    *)
(* frame: the operation, the command it is at, its job, the JobStatus      *)
(* object it holds and the result it writes or has read.                   *)
(***************************************************************************)
EXTENDS Naturals

CONSTANTS
    Jobs,       \* job identifiers
    Clients,    \* the processes that hold a RedisResultStorage
    Results,    \* the texts a language model may return
    Nil,        \* Python's None, and a Redis key that does not exist
    MaxFaults,  \* bound: how many commands to Redis or RabbitMQ may raise
    MaxUnread   \* bound: notifications a subscription holds unread

VARIABLES
    status,     \* status[j]:  value of the key <status prefix>:j
    answer,     \* answer[j]:  value of the key <answer prefix>:j
    prompt,     \* the jobs whose key prompt:j is set
    channel,    \* channel[c]: the job whose channel client c is subscribed to
    inbox,      \* inbox[c]:   notifications delivered to c and not yet read
    call,       \* call[c]:    the operation client c is executing
    faults      \* number of commands that have raised

redis  == <<status, answer, prompt>>
pubsub == <<channel, inbox>>
storageVars == <<status, answer, prompt, channel, inbox, call, faults>>

-----------------------------------------------------------------------------
(* Data *)

JobStatusType == {"pending", "in_progress", "completed", "error"}

\* The fields of JobStatus the code branches on.  The error is attached exactly
\* when the status is "error", so it has no field of its own here.
JobStatus == [status: JobStatusType, is_completed: BOOLEAN]

Status(s, done) == [status |-> s, is_completed |-> done]

Pending    == Status("pending", FALSE)
InProgress == Status("in_progress", FALSE)
Completed  == Status("completed", TRUE)
Failed     == Status("error", TRUE)

Operations == {"create", "update", "complete", "delete",
               "status", "result", "wait", "subscribe"}

\* The two operations that listen to the job's channel.
Waits == {"wait", "subscribe"}

\* The operation is about to issue the Redis command of that name.
Commands == {"load", "set", "publish", "prompt", "result", "del", "fetch",
             "listen", "receive", "reload"}

\* The operation has returned or raised; the caller has not gone on yet.
Finished == {"returned", "not_found", "timed_out", "failed"}

\* "yield": subscribe() is suspended in the hands of its consumer.
Points == {"yield"} \cup Commands \cup Finished

Call == [op: Operations, at: Points, job: Jobs,
         copy: JobStatus \cup {Nil}, val: Results \cup {Nil}]

\* The client is not in the storage and holds nothing from it.
NoCall == [op |-> "none", at |-> "idle", job |-> Nil, copy |-> Nil, val |-> Nil]

ASSUME StorageAssumption ==
    /\ Nil \notin Jobs \cup Results \cup JobStatus
    /\ MaxFaults \in Nat
    /\ MaxUnread \in Nat \ {0}

StorageTypeOK ==
    /\ status \in [Jobs -> JobStatus \cup {Nil}]
    /\ answer \in [Jobs -> Results \cup {Nil}]
    /\ prompt \in SUBSET Jobs
    /\ channel \in [Clients -> Jobs \cup {Nil}]
    /\ inbox \in [Clients -> 0..MaxUnread]
    /\ call \in [Clients -> Call \cup {NoCall}]
    /\ faults \in 0..MaxFaults

StorageInit ==
    /\ status = [j \in Jobs |-> Nil]
    /\ answer = [j \in Jobs |-> Nil]
    /\ prompt = {}
    /\ channel = [c \in Clients |-> Nil]
    /\ inbox = [c \in Clients |-> 0]
    /\ call = [c \in Clients |-> NoCall]
    /\ faults = 0

-----------------------------------------------------------------------------
(* Calling the storage.  The caller is not inside another operation.       *)

Begin(c, o, point, j, s, r) ==
    /\ call[c].at \in Finished \cup {"idle"}
    /\ call' = [call EXCEPT ![c] =
                   [op |-> o, at |-> point, job |-> j, copy |-> s, val |-> r]]
    /\ UNCHANGED <<redis, pubsub, faults>>

create_job_status(c, j) == Begin(c, "create", "set", j, Pending, Nil)

\* Mutant: is_completed set with every update.
update_marks_completed(c, j) == Begin(c, "update", "load", j, Status("in_progress", TRUE), Nil)

\* The only caller in the code base passes IN_PROGRESS.
update_job_status(c, j) == Begin(c, "update", "load", j, InProgress, Nil)

\* complete_job without an error: r is the result.
complete_job(c, j, r) == Begin(c, "complete", "load", j, Completed, r)

\* complete_job with an error: no result is stored.
complete_job_error(c, j) == Begin(c, "complete", "load", j, Failed, Nil)

delete_job_status(c, j) == Begin(c, "delete", "load", j, Nil, Nil)
get_job_status(c, j)    == Begin(c, "status", "load", j, Nil, Nil)
get_job_result(c, j)    == Begin(c, "result", "fetch", j, Nil, Nil)
wait_completeness(c, j) == Begin(c, "wait", "load", j, Nil, Nil)
subscribe(c, j)         == Begin(c, "subscribe", "load", j, Nil, Nil)

-----------------------------------------------------------------------------
(* The commands *)

At(c, ops, point) == call[c].op \in ops /\ call[c].at = point

Goto(c, point) == call' = [call EXCEPT ![c].at = point]

\* Return or raise without a value: the local variables are gone.
Exit(c, point) ==
    call' = [call EXCEPT ![c].at = point, ![c].copy = Nil, ![c].val = Nil]

\* Go on with JobStatus object s in hand.
GotoWith(c, point, s) == call' = [call EXCEPT ![c].at = point, ![c].copy = s]

\* __stop_subscription, on every way out of the listening loop (finally).
StopSubscription(c) ==
    /\ channel' = [channel EXCEPT ![c] = Nil]
    /\ inbox' = [inbox EXCEPT ![c] = 0]

\* __load_job_status raises JobNotFoundError; a caller that is about to wait
\* swallows it and starts listening.
LoadMissing(c) ==
    /\ call[c].at = "load"
    /\ status[call[c].job] = Nil
    /\ IF call[c].op \in Waits THEN Goto(c, "listen") ELSE Exit(c, "not_found")
    /\ UNCHANGED <<redis, pubsub, faults>>

\* __update_job_status overwrites every field of the object it has loaded, so
\* the loaded value only decides that the job exists.
LoadToUpdate(c) ==
    /\ At(c, {"update", "complete"}, "load")
    /\ status[call[c].job] # Nil
    /\ Goto(c, "set")
    /\ UNCHANGED <<redis, pubsub, faults>>

\* delete_job_status keeps the loaded fields and marks the job completed.
LoadToDelete(c) ==
    /\ At(c, {"delete"}, "load")
    /\ status[call[c].job] # Nil
    /\ GotoWith(c, "set", [status[call[c].job] EXCEPT !.is_completed = TRUE])
    /\ UNCHANGED <<redis, pubsub, faults>>

LoadToReturn(c) ==
    /\ At(c, {"status"}, "load")
    /\ status[call[c].job] # Nil
    /\ GotoWith(c, "returned", status[call[c].job])
    /\ UNCHANGED <<redis, pubsub, faults>>

\* First look of wait_completeness and subscribe, before they listen.
LoadBeforeListening(c) ==
    /\ At(c, Waits, "load")
    /\ status[call[c].job] # Nil
    /\ LET current == status[call[c].job] IN
       IF current.is_completed
       THEN GotoWith(c, IF call[c].op = "wait" THEN "returned" ELSE "yield", current)
       ELSE Goto(c, "listen")
    /\ UNCHANGED <<redis, pubsub, faults>>

\* __save_job_status, first command: SET.
SaveStatus(c) ==
    /\ call[c].at = "set"
    /\ status' = [status EXCEPT ![call[c].job] = call[c].copy]
    /\ Goto(c, "publish")
    /\ UNCHANGED <<answer, prompt, pubsub, faults>>

Subscribers(j) == {s \in Clients : channel[s] = j}

\* Mutant: complete_job forgets __save_job_result.
AfterPublishNoResult(c) ==
    CASE call[c].op = "create" -> Goto(c, "prompt")
      [] call[c].op = "delete" -> Goto(c, "del")
      [] OTHER -> Exit(c, "returned")

AfterPublish(c) ==
    CASE call[c].op = "create" -> Goto(c, "prompt")
      [] call[c].op = "delete" -> Goto(c, "del")
      [] call[c].op = "complete" /\ call[c].copy = Completed -> Goto(c, "result")
      [] OTHER -> Exit(c, "returned")

\* Mutant: only the end of a job is notified.
PublishWhenCompleted(c) ==
    /\ call[c].at = "publish"
    /\ inbox' = IF call[c].copy.is_completed
                THEN [s \in Clients |-> IF s \in Subscribers(call[c].job) /\ inbox[s] < MaxUnread
                                        THEN inbox[s] + 1 ELSE inbox[s]]
                ELSE inbox
    /\ AfterPublish(c)
    /\ UNCHANGED <<redis, channel, faults>>

\* __save_job_status, second command: PUBLISH reaches those who are subscribed
\* at that moment.  MaxUnread bounds the exploration.
Publish(c) ==
    /\ call[c].at = "publish"
    /\ \A s \in Subscribers(call[c].job) : inbox[s] < MaxUnread
    /\ inbox' = [s \in Clients |-> IF s \in Subscribers(call[c].job)
                                   THEN inbox[s] + 1 ELSE inbox[s]]
    /\ AfterPublish(c)
    /\ UNCHANGED <<redis, channel, faults>>

SavePrompt(c) ==
    /\ call[c].at = "prompt"
    /\ prompt' = prompt \cup {call[c].job}
    /\ Exit(c, "returned")
    /\ UNCHANGED <<status, answer, pubsub, faults>>

SaveResult(c) ==
    /\ call[c].at = "result"
    /\ answer' = [answer EXCEPT ![call[c].job] = call[c].val]
    /\ Exit(c, "returned")
    /\ UNCHANGED <<status, prompt, pubsub, faults>>

DeleteStatus(c) ==
    /\ call[c].at = "del"
    /\ status' = [status EXCEPT ![call[c].job] = Nil]
    /\ Exit(c, "returned")
    /\ UNCHANGED <<answer, prompt, pubsub, faults>>

\* Mutant: a missing answer is returned as None.
FetchResultOrNone(c) ==
    /\ call[c].at = "fetch"
    /\ call' = [call EXCEPT ![c].at = "returned", ![c].val = answer[call[c].job]]
    /\ UNCHANGED <<redis, pubsub, faults>>

\* __load_job_result
FetchResult(c) ==
    /\ call[c].at = "fetch"
    /\ LET found == answer[call[c].job] IN
       call' = [call EXCEPT ![c].at = IF found = Nil THEN "not_found" ELSE "returned",
                            ![c].val = found]
    /\ UNCHANGED <<redis, pubsub, faults>>

\* __start_subscription.  The object loaded before is not looked at again.
StartSubscription(c) ==
    /\ call[c].at = "listen"
    /\ channel' = [channel EXCEPT ![c] = call[c].job]
    /\ inbox' = [inbox EXCEPT ![c] = 0]
    /\ GotoWith(c, "receive", Nil)
    /\ UNCHANGED <<redis, faults>>

\* One turn of the loop that gets a message; a turn without one changes nothing.
Receive(c) ==
    /\ call[c].at = "receive"
    /\ inbox[c] > 0
    /\ inbox' = [inbox EXCEPT ![c] = @ - 1]
    /\ Goto(c, "reload")
    /\ UNCHANGED <<redis, channel, faults>>

\* Mutant: the deadline is looked at only when a message has come.
TimeoutOnMessage(c) ==
    /\ call[c].at = "receive"
    /\ inbox[c] > 0
    /\ StopSubscription(c)
    /\ Exit(c, "timed_out")
    /\ UNCHANGED <<redis, faults>>

\* The deadline is looked at before the inbox, so a message may be left unread.
Timeout(c) ==
    /\ call[c].at = "receive"
    /\ StopSubscription(c)
    /\ Exit(c, "timed_out")
    /\ UNCHANGED <<redis, faults>>

ReloadMissing(c) ==
    /\ call[c].at = "reload"
    /\ status[call[c].job] = Nil
    /\ StopSubscription(c)
    /\ Exit(c, "not_found")
    /\ UNCHANGED <<redis, faults>>

\* A message says only that the job has changed; the status is read again.
ReloadToWait(c) ==
    /\ At(c, {"wait"}, "reload")
    /\ status[call[c].job] # Nil
    /\ LET current == status[call[c].job] IN
       IF current.is_completed
       THEN StopSubscription(c) /\ GotoWith(c, "returned", current)
       ELSE UNCHANGED pubsub /\ GotoWith(c, "receive", current)
    /\ UNCHANGED <<redis, faults>>

ReloadToYield(c) ==
    /\ At(c, {"subscribe"}, "reload")
    /\ status[call[c].job] # Nil
    /\ GotoWith(c, "yield", status[call[c].job])
    /\ UNCHANGED <<redis, pubsub, faults>>

\* The consumer of subscribe() asks for the next update.
Resume(c) ==
    /\ call[c].at = "yield"
    /\ IF call[c].copy.is_completed
       THEN StopSubscription(c) /\ Exit(c, "returned")
       ELSE UNCHANGED pubsub /\ Goto(c, "receive")
    /\ UNCHANGED <<redis, faults>>

\* The consumer drops the generator instead.
CloseGenerator(c) ==
    /\ call[c].at = "yield"
    /\ StopSubscription(c)
    /\ Exit(c, "returned")
    /\ UNCHANGED <<redis, faults>>

\* Mutant: no finally block around the listening loop.
CommandFailsNoFinally(c) ==
    /\ faults < MaxFaults
    /\ call[c].at \in Commands
    /\ faults' = faults + 1
    /\ IF At(c, Waits, "load") THEN Goto(c, "listen") ELSE Exit(c, "failed")
    /\ UNCHANGED <<redis, pubsub>>

\* A Redis command raises before it has an effect.  Only the first look of a
\* waiting operation survives it.
CommandFails(c) ==
    /\ faults < MaxFaults
    /\ call[c].at \in Commands
    /\ faults' = faults + 1
    /\ \/ /\ At(c, Waits, "load")
          /\ Goto(c, "listen")
          /\ UNCHANGED pubsub
       \/ /\ ~At(c, Waits, "load")
          /\ StopSubscription(c)
          /\ Exit(c, "failed")
    /\ UNCHANGED redis

-----------------------------------------------------------------------------
(* The storage under the most general clients *)

\* What the writing operations do after the call.
WriteStep(c) ==
    \/ LoadMissing(c) \/ LoadToUpdate(c) \/ SaveStatus(c) \/ Publish(c)
    \/ SavePrompt(c) \/ SaveResult(c)

ReadStep(c) == LoadMissing(c) \/ LoadToReturn(c) \/ FetchResult(c)

WaitStep(c) ==
    \/ LoadMissing(c) \/ LoadBeforeListening(c) \/ StartSubscription(c)
    \/ Receive(c) \/ Timeout(c) \/ ReloadMissing(c) \/ ReloadToWait(c)

GeneratorStep(c) == ReloadToYield(c) \/ Resume(c) \/ CloseGenerator(c)

DeleteStep(c) == LoadToDelete(c) \/ DeleteStatus(c)

StorageStep(c) ==
    \/ WriteStep(c) \/ ReadStep(c) \/ WaitStep(c)
    \/ GeneratorStep(c) \/ DeleteStep(c) \/ CommandFails(c)

WriteCall(c) ==
    \E j \in Jobs :
        \/ create_job_status(c, j) \/ update_job_status(c, j)
        \/ complete_job_error(c, j) \/ \E r \in Results : complete_job(c, j, r)
        \/ delete_job_status(c, j)

ReadCall(c) == \E j \in Jobs : get_job_status(c, j) \/ get_job_result(c, j)

ListenCall(c) == \E j \in Jobs : wait_completeness(c, j) \/ subscribe(c, j)

StorageCall(c) == WriteCall(c) \/ ReadCall(c) \/ ListenCall(c)

StorageNext == \E c \in Clients : StorageCall(c) \/ StorageStep(c)

StorageSpec == StorageInit /\ [][StorageNext]_storageVars

-----------------------------------------------------------------------------
(* Properties *)

\* The call writes the key of job j between the commands named.
Writing(j, ops, points) ==
    \E c \in Clients : call[c].job = j /\ call[c].op \in ops /\ call[c].at \in points

\* The finally blocks of wait_completeness and subscribe: whatever way a
\* listening call ends (answer, timeout, missing job, failing command, dropped
\* generator), no subscription outlives it, and while it runs it listens to
\* the channel of its own job.
NoLeakedSubscription ==
    \A c \in Clients :
        /\ channel[c] # Nil => /\ call[c].op \in Waits
                               /\ call[c].at \in {"receive", "reload", "yield"}
                               /\ channel[c] = call[c].job
        /\ call[c].at \in {"receive", "reload"} => channel[c] # Nil

\* Nobody is told less than he asked for, whoever deletes or overwrites the job while
\* he looks at it or waits: get_job_result returns a stored answer, get_job_status a
\* status, wait_completeness a completed one; everything else is an exception.
ReturnsWhatWasAsked ==
    \A c \in Clients :
        /\ At(c, {"result"}, "returned") => call[c].val # Nil
        /\ At(c, {"status"}, "returned") => call[c].copy # Nil
        /\ At(c, {"wait"}, "returned") => call[c].copy # Nil /\ call[c].copy.is_completed

\* Notifications carry no status, they only make the listener read it again.
\* That is enough: a listener that has read the status at least once since it
\* subscribed and has no notification left knows the stored status, unless a
\* writer is about to notify it, the job was deleted, or a command has raised.  It
\* needs the PUBLISH after the SET in __save_job_status.
ListenerUpToDate ==
    \A c \in Clients :
        LET j == call[c].job IN
        /\ faults = 0
        /\ At(c, Waits, "receive")
        /\ call[c].copy # Nil
        /\ inbox[c] = 0
        /\ ~Writing(j, Operations, {"publish"})
        => status[j] \in {call[c].copy, Nil}

\* complete_job writes the status first and the answer later; without failing
\* commands a job nobody is completing is COMPLETED only with its answer.
CompletedAtRestHasAnswer ==
    \A j \in Jobs :
        /\ faults = 0
        /\ status[j] = Completed
        /\ ~Writing(j, {"complete"}, {"publish", "result"})
        => answer[j] # Nil

\* is_completed means COMPLETED or ERROR.  delete_job_status sets it on an
\* unfinished job to release the listeners, and, unless a command raises, only for as
\* long as it runs.
OnlyDeletionEndsUnfinishedJob ==
    \A j \in Jobs :
        /\ faults = 0
        /\ status[j] # Nil
        /\ status[j].is_completed
        /\ status[j].status \notin {"completed", "error"}
        => Writing(j, {"delete"}, {"publish", "del"})

\* The wait for a terminal state: a completed job is either noticed by its
\* listener already, or a writer is about to notify it.  Nothing else ends the
\* wait but the deadline.
FinishedJobWakesListener ==
    \A c \in Clients :
        LET j == call[c].job IN
        /\ At(c, Waits, "receive")
        /\ status[j] # Nil
        /\ status[j].is_completed
        /\ inbox[c] = 0
        => Writing(j, Operations, {"publish"})

=============================================================================
