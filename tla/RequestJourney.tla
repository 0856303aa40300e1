---------------------------- MODULE RequestJourney ----------------------------
(***************************************************************************)
(* The journey of requests through the whole program: the HTTP handlers    *)
(* record and queue a task (backend/broker.py), RabbitMQ hands tasks out   *)
(* by priority, the worker decodes them, calls its language model and      *)
(* stores the outcome (worker/services/broker.py), and the client gets a   *)
(* reply.  JobPipeline has the crashes, the failures of any command and    *)
(* the interleaving of single ones; here the data of a task is followed:   *)
(* its parameters, its priority, its keys in Redis, and what the two       *)
(* configurations make of them.  Of the commands only those of             *)
(* update_job_status fail, which put a task behind others.                 *)
(***************************************************************************)
EXTENDS CompletionRequest

CONSTANTS
    Jobs,        \* the job identifiers; each is submitted once
    Requests,    \* the requests a client may make
    LastLines,   \* which variable an environment file may end with
    MaxFaults    \* how often update_job_status may fail

\* What the pydantic models make sure of before a handler runs: the types of the two
\* numbers, and that routes other than a chat have the one prompt of a user.  None
\* and Omitted are no numbers, None no list, and no library is called with None alone.
ASSUME JourneyAssumption ==
    /\ None # Omitted /\ None \notin Int /\ Omitted \notin Int /\ None # <<>>
    /\ MaxFaults \in Nat
    /\ None \notin {"pending", "in_progress", "completed", "error"}
    /\ \A r \in Requests :
          /\ r.route \in {"generate", "chat_completion", "direct"}
          /\ r.mode \in {"sync", "async"}
          /\ r.route # "chat_completion" => r.roles = <<"user">>
          /\ r.priority \in Int \cup {None, Omitted}
          /\ r.tokens_limit \in Int \cup {None, Omitted}
    /\ \A r \in Requests, j \in Jobs, class \in LLMs : None # Arguments(class, Transaction(j, r))

VARIABLES
    llm,         \* the class of the worker's language model
    setting,     \* the configuration of the backend and of the worker
    asked,       \* asked[j]: the request made for job j
    at,          \* at[j]:    where its HTTP handler is
    task,        \* task[j]:  the transaction that was queued
    status,      \* Redis: status by key
    answer,      \* Redis: answer by key
    published,   \* the jobs queued, in the order of their publication
    ready,       \* the jobs waiting in RabbitMQ
    buffer,      \* the jobs delivered to the worker, in the order of delivery
    working,     \* the worker is at this point with the first of them
    begun,       \* the jobs that have got past update_job_status
    faults,      \* how often it has failed
    call,        \* call[j]:  the arguments the library was called with
    outcome,     \* outcome[j]: what it gave back
    reply        \* reply[j]: the last HTTP reply for job j, none while a request for it runs

client  == <<asked, at, reply>>
redis   == <<status, answer>>
broker  == <<published, ready>>
worker  == <<buffer, working, begun, faults, call, outcome>>
journeyVars == <<llm, setting, client, task, redis, broker, worker>>

-----------------------------------------------------------------------------
(* Configuration *)

BasePriority == 1

\* declare_queue(..., max_priority=5)
MaxPriority == 5

Variables == {"QUEUE_NAME", "REDIS_PREFIX_FOR_STATUS", "REDIS_PREFIX_FOR_ANSWER"}

\* A value is the name of its variable, with the line feed it is read with, if any.
ReadFromEnv == [v \in Variables |-> [value |-> v, linefeed |-> FALSE]]

\* split("=") leaves the line feed in the value; only the last line may have none.
ReadFromEnvFile(last) == [v \in Variables |-> [value |-> v, linefeed |-> v # last]]

Configs == {ReadFromEnv} \cup {ReadFromEnvFile(last) : last \in LastLines}

StatusKey(side, j) == <<setting[side]["REDIS_PREFIX_FOR_STATUS"], j>>

\* Mutant: the identifier of the job is not in the key.
AnswerKeyShared(side, j) == <<setting[side]["REDIS_PREFIX_FOR_ANSWER"], CHOOSE i \in Jobs : TRUE>>

AnswerKey(side, j) == <<setting[side]["REDIS_PREFIX_FOR_ANSWER"], j>>

Prefixes == {c[v] : c \in Configs, v \in Variables}
Keys == Prefixes \X Jobs

\* Backend and worker read the same names.
SameNames == setting["backend"] = setting["worker"]

-----------------------------------------------------------------------------
(* Initial states *)

Statuses == {"pending", "in_progress", "completed", "error"}
Ended    == {"completed", "error"}
Replies  == {"none", "job_id", "answer", "error", "late", "unfinished", "failed", "not_found"}
NoReply  == [kind |-> "none", of |-> None]

JourneyTypeOK ==
    /\ llm \in LLMs
    /\ setting \in [{"backend", "worker"} -> Configs]
    /\ asked \in [Jobs -> Requests \cup {None}]
    /\ at \in [Jobs -> {"idle", "publish", "wait", "done"}]
    /\ \A j \in Jobs :
          task[j] # None => task[j].prompt.job_id = j /\ task[j].prompt.priority # None
    /\ status \in [Keys -> Statuses \cup {None}]
    /\ \A k \in Keys : answer[k] # None => answer[k].result \in {"text", "none"}
    /\ published \in Seq(Jobs) /\ buffer \in Seq(Jobs)
    /\ ready \subseteq Jobs /\ begun \subseteq Jobs /\ faults \in Nat
    /\ working \in {"idle", "call", "complete", "result"}
    /\ working # "idle" => buffer # <<>>
    /\ \A j \in Jobs : reply[j].kind \in Replies

JourneyInit ==
    /\ llm \in LLMs
    /\ setting \in [{"backend", "worker"} -> Configs]
    /\ asked = [j \in Jobs |-> None]
    /\ at = [j \in Jobs |-> "idle"]
    /\ task = [j \in Jobs |-> None]
    /\ status = [k \in Keys |-> None]
    /\ answer = [k \in Keys |-> None]
    /\ published = <<>> /\ buffer = <<>>
    /\ ready = {} /\ begun = {} /\ faults = 0
    /\ working = "idle"
    /\ call = [j \in Jobs |-> None]
    /\ outcome = [j \in Jobs |-> None]
    /\ reply = [j \in Jobs |-> NoReply]

-----------------------------------------------------------------------------
(* Backend *)

Answered(j, kind, of) == reply' = [reply EXCEPT ![j] = [kind |-> kind, of |-> of]]

\* Mutant: a null priority stays null.
PrioritisedIfLeftOut(t) == t

\* The priority of a transaction once send_task has filled it in.
Prioritised(t) == [t EXCEPT !.prompt.priority = OrElse(@, BasePriority)]

\* send_task up to the publication: the job is recorded.
send_task(j, r) ==
    /\ at[j] = "idle"
    /\ asked' = [asked EXCEPT ![j] = r]
    /\ task' = [task EXCEPT ![j] = Prioritised(Transaction(j, r))]
    /\ status' = [status EXCEPT ![StatusKey("backend", j)] = "pending"]
    /\ at' = [at EXCEPT ![j] = "publish"]
    /\ reply' = [reply EXCEPT ![j] = NoReply]
    /\ UNCHANGED <<llm, setting, answer, broker, worker>>

Priority(j) == task[j].prompt.priority

\* BasicProperties packs the priority into one byte.
Packable(j) == Priority(j) \in 0..255

\* The queue is the one the client has named, or that of the backend's configuration.
Reaches(j) ==
    Field(asked[j].queue, setting["backend"]["QUEUE_NAME"]) = setting["worker"]["QUEUE_NAME"]

\* The end of send_task.  What is sent to a queue nobody has declared is lost.
publish(j) ==
    /\ at[j] = "publish"
    /\ Packable(j)
    /\ IF Reaches(j)
       THEN published' = Append(published, j) /\ ready' = ready \cup {j}
       ELSE UNCHANGED broker
    /\ CASE asked[j].mode = "sync" -> at' = [at EXCEPT ![j] = "wait"] /\ UNCHANGED reply
         [] asked[j].mode = "async" -> at' = [at EXCEPT ![j] = "done"] /\ Answered(j, "job_id", j)
    /\ UNCHANGED <<llm, setting, asked, task, redis, worker>>

\* publish raises struct.error; the request fails, the job stays recorded.
PublishRaises(j) ==
    /\ at[j] = "publish"
    /\ ~Packable(j)
    /\ at' = [at EXCEPT ![j] = "done"]
    /\ Answered(j, "failed", None)
    /\ UNCHANGED <<llm, setting, asked, task, redis, broker, worker>>

\* get_result when the job has ended: the answer may not be stored yet, or be None,
\* and then the request fails.
get_result(j) ==
    /\ at[j] = "wait"
    /\ LET s == status[StatusKey("backend", j)]
           a == answer[AnswerKey("backend", j)] IN
       \/ s = "error" /\ Answered(j, "error", None)
       \/ s = "completed" /\ a = None /\ Answered(j, "failed", None)
       \/ s = "completed" /\ a = NoText /\ Answered(j, "failed", None)
       \/ s = "completed" /\ a \notin {None, NoText} /\ Answered(j, "answer", a.of)
    /\ at' = [at EXCEPT ![j] = "done"]
    /\ UNCHANGED <<llm, setting, asked, task, redis, broker, worker>>

\* get_result when wait_completeness has timed out.
GiveUp(j) ==
    /\ at[j] = "wait"
    /\ at' = [at EXCEPT ![j] = "done"]
    /\ Answered(j, "late", None)
    /\ UNCHANGED <<llm, setting, asked, task, redis, broker, worker>>

\* check_status, at any time and for any job, known or not.
check_status(j) ==
    /\ at[j] \in {"idle", "done"}
    /\ LET s == status[StatusKey("backend", j)]
           a == answer[AnswerKey("backend", j)] IN
       \/ s = None /\ Answered(j, "not_found", None)
       \/ s = "completed" /\ a = None /\ Answered(j, "not_found", None)
       \/ s = "completed" /\ a # None /\ Answered(j, "answer", a.of)
       \/ s = "error" /\ Answered(j, "error", None)
       \/ s \in {"pending", "in_progress"} /\ Answered(j, "unfinished", None)
    /\ UNCHANGED <<llm, setting, asked, at, task, redis, broker, worker>>

-----------------------------------------------------------------------------
(* RabbitMQ *)

\* The priority the queue knows.
Rank(j) == IF Priority(j) > MaxPriority THEN MaxPriority ELSE Priority(j)

PublishedBefore(i, j) ==
    \E a, b \in DOMAIN published : a < b /\ published[a] = i /\ published[b] = j

\* The most urgent task, the oldest of them; nothing limits the worker's buffer.
Deliver(j) ==
    /\ j \in ready
    /\ \A i \in ready \ {j} : Rank(i) < Rank(j) \/ (Rank(i) = Rank(j) /\ PublishedBefore(j, i))
    /\ ready' = ready \ {j}
    /\ buffer' = Append(buffer, j)
    /\ UNCHANGED <<llm, setting, client, task, redis, published, working, begun, faults, call, outcome>>

-----------------------------------------------------------------------------
(* Worker *)

Current == Head(buffer)

\* update_job_status sets the status of the first task.
SetsInProgress == status' = [status EXCEPT ![StatusKey("worker", Current)] = "in_progress"]

\* _callback up to the call of the model.
callback ==
    /\ working = "idle"
    /\ buffer # <<>>
    /\ Decodable(task[Current])
    /\ status[StatusKey("worker", Current)] # None
    /\ SetsInProgress
    /\ begun' = begun \cup {Current}
    /\ working' = "call"
    /\ UNCHANGED <<llm, setting, client, task, answer, broker, buffer, faults, call, outcome>>

\* An exception before the try block of _callback: the message is refused and queued
\* again, and the later ones in the buffer come before it.
Requeue ==
    /\ ready' = ready \cup {Current}
    /\ buffer' = Tail(buffer)
    /\ UNCHANGED <<llm, setting, client, task, answer, published, working, begun, call, outcome>>

\* The document does not decode, or has no status to update.
CallbackRaises ==
    /\ working = "idle"
    /\ buffer # <<>>
    /\ ~Decodable(task[Current]) \/ status[StatusKey("worker", Current)] = None
    /\ Requeue
    /\ UNCHANGED <<status, faults>>

\* One of the commands of update_job_status fails, before or after the status is set.
UpdateFails ==
    /\ working = "idle"
    /\ buffer # <<>>
    /\ Decodable(task[Current])
    /\ status[StatusKey("worker", Current)] # None
    /\ faults < MaxFaults
    /\ faults' = faults + 1
    /\ SetsInProgress \/ UNCHANGED status
    /\ Requeue

CallLLM ==
    /\ working = "call"
    /\ call' = [call EXCEPT ![Current] = Arguments(llm, task[Current])]
    /\ \E o \in Outcomes(llm, task[Current]) : outcome' = [outcome EXCEPT ![Current] = o]
    /\ working' = "complete"
    /\ UNCHANGED <<llm, setting, client, task, redis, broker, buffer, begun, faults>>

\* The end of the callback: the message is acknowledged.
Finish == working' = "idle" /\ buffer' = Tail(buffer)

\* complete_job saves the status ...
complete_job ==
    /\ working = "complete"
    /\ LET failed == outcome[Current] = Raised IN
       /\ status' = [status EXCEPT ![StatusKey("worker", Current)] =
                        IF failed THEN "error" ELSE "completed"]
       /\ IF failed THEN Finish ELSE working' = "result" /\ UNCHANGED buffer
    /\ UNCHANGED <<llm, setting, client, task, answer, broker, begun, faults, call, outcome>>

\* Mutant: an answer that is None is not stored.
SaveResultUnlessNone ==
    /\ working = "result"
    /\ IF outcome[Current] = NoText THEN UNCHANGED answer
       ELSE answer' = [answer EXCEPT ![AnswerKey("worker", Current)] = outcome[Current]]
    /\ Finish
    /\ UNCHANGED <<llm, setting, client, task, status, broker, begun, faults, call, outcome>>

\* ... and then the answer, which may be None.
SaveResult ==
    /\ working = "result"
    /\ answer' = [answer EXCEPT ![AnswerKey("worker", Current)] = outcome[Current]]
    /\ Finish
    /\ UNCHANGED <<llm, setting, client, task, status, broker, begun, faults, call, outcome>>

-----------------------------------------------------------------------------
(* The specification *)

BackendStep(j) == publish(j) \/ PublishRaises(j) \/ get_result(j) \/ GiveUp(j)

WorkerStep == callback \/ CallbackRaises \/ UpdateFails \/ CallLLM \/ complete_job \/ SaveResult

JourneyNext ==
    \/ \E j \in Jobs, r \in Requests : send_task(j, r)
    \/ \E j \in Jobs : BackendStep(j) \/ check_status(j) \/ Deliver(j)
    \/ WorkerStep

JourneySpec == JourneyInit /\ [][JourneyNext]_journeyVars

\* The worker's consumer thread runs, and RabbitMQ delivers.
FairJourneySpec ==
    /\ JourneySpec
    /\ WF_journeyVars(WorkerStep)
    /\ \A j \in Jobs : WF_journeyVars(Deliver(j))

-----------------------------------------------------------------------------
(* Properties *)

\* What the client has said of a parameter is not a default of the program.
Explicit(value) == value \notin {Omitted, None}

\* What a library of this class hears of what the client has said: the words, in his
\* order, the temperature, the limit (vLLM refuses one below 1), to the remote class
\* the model, to the local ones the stop words.
Conveys(class, j, said, heard) ==
    /\ \/ heard.input = Messages(j, said)
       \/ said.route = "direct" /\ heard.input = <<j, 1>>
    /\ class # "FakeModel" =>
          /\ Explicit(said.temperature) => heard.temperature = said.temperature
          /\ Explicit(said.tokens_limit) =>
                \/ heard.tokens_limit = said.tokens_limit
                \/ class = "VllMModel" /\ said.tokens_limit < 1
    /\ class = "OpenAPILLM" /\ Explicit(said.model) /\ said.model # NoName =>
          heard.model = said.model
    /\ class \in {"VllMModel", "CppModel"} /\ Explicit(said.stop_words) =>
          heard.stop_words = said.stop_words

\* The language model is asked what the client asked, through transaction, JSON
\* document, queue and handler, but for the stop words of the remote class: see
\* StopWordsReachTheModel.
ModelIsAskedTheRequest ==
    \A j \in Jobs : call[j] # None => Conveys(llm, j, asked[j], call[j])

\* Every model but the fake one is asked with the stop words of the client, as the
\* description of the models says.
StopWordsReachTheModel ==
    \A j \in Jobs :
        call[j] # None /\ llm # "FakeModel" /\ Explicit(asked[j].stop_words) =>
            "stop_words" \in DOMAIN call[j] /\ call[j].stop_words = asked[j].stop_words

\* No library is called with a temperature of None, and vLLM gets a limit of at least
\* 1 and a list of stop words, whatever the client has left out or set to null; the
\* others get the limit as it is.
ArgumentsAreUsable ==
    \A j \in Jobs :
        call[j] # None =>
            /\ "temperature" \in DOMAIN call[j] => call[j].temperature # None
            /\ llm = "VllMModel" => call[j].tokens_limit \in Nat \ {0} /\ call[j].stop_words # None

\* A client gets the answer to his own request or none, and an error only for a job
\* whose model has failed, whatever the other requests do.
ReplyIsAboutOwnRequest ==
    \A j \in Jobs :
        /\ reply[j].kind = "answer" /\ reply[j].of # None =>
               call[j] # None /\ reply[j].of = call[j].input
        /\ reply[j].kind = "error" => outcome[j] = Raised

\* No task is lost and no outcome: if backend and worker read the same names, a task
\* that has reached the queue and is not waiting there or with the worker has in Redis,
\* where its client looks, the outcome of its own call, whatever other tasks do.
FinishedTaskHasItsOutcome ==
    SameNames =>
        \A j \in {published[a] : a \in DOMAIN published} :
            LET s == status[StatusKey("backend", j)]
                r == answer[AnswerKey("backend", j)] IN
            \/ j \in ready \/ \E b \in DOMAIN buffer : buffer[b] = j
            \/ s = "error" /\ outcome[j] = Raised
            \/ s = "completed" /\ r = outcome[j] /\ r \in {Text(call[j].input), NoText}

\* A task that has reached the queue is processed to the end, if backend and worker
\* read the same names: no request that is accepted makes a message that the worker
\* refuses again and again.
QueuedTaskEnds ==
    \A j \in Jobs :
        SameNames /\ j \in ready ~> status[StatusKey("backend", j)] \in Ended

=============================================================================
