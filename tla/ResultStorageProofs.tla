------------------------- MODULE ResultStorageProofs -------------------------
(***************************************************************************)
(* Theorems about ResultStorage, for any number of jobs and clients and    *)
(* any bounds.                                                             *)
(***************************************************************************)
EXTENDS ResultStorage, TLAPS

-----------------------------------------------------------------------------
(* The call a client is in *)

CallTypeOK == call \in [Clients -> Call \cup {NoCall}]

\* The four status values are JobStatus objects, and Nil is none.
LEMMA StatusValues ==
    /\ {Pending, InProgress, Completed, Failed} \subseteq JobStatus
    /\ Nil \notin JobStatus
BY StorageAssumption DEF Pending, InProgress, Completed, Failed, Status, JobStatus, JobStatusType

\* A client is in a well-formed call unless it is idle.
LEMMA BusyCall ==
    ASSUME NEW c \in Clients, CallTypeOK, call[c].at # "idle"
    PROVE  call[c] \in Call
BY DEF CallTypeOK, NoCall

\* Calling an operation leaves every call well-formed and touches only its own.
LEMMA BeginType ==
    ASSUME NEW c \in Clients, NEW o \in Operations, NEW point \in Points, NEW j \in Jobs,
           NEW s \in JobStatus \cup {Nil}, NEW r \in Results \cup {Nil},
           CallTypeOK, Begin(c, o, point, j, s, r)
    PROVE  CallTypeOK'
BY DEF CallTypeOK, Begin, Call

\* So does going on to another command, ...
LEMMA GotoType ==
    ASSUME NEW c \in Clients, NEW point \in Points, CallTypeOK, call[c].at # "idle",
           Goto(c, point)
    PROVE  CallTypeOK'
BY BusyCall DEF CallTypeOK, Goto, Call

\* ... with a status in hand, ...
LEMMA GotoWithType ==
    ASSUME NEW c \in Clients, NEW point \in Points, NEW s \in JobStatus \cup {Nil},
           CallTypeOK, call[c].at # "idle", GotoWith(c, point, s)
    PROVE  CallTypeOK'
BY BusyCall DEF CallTypeOK, GotoWith, Call

\* ... and returning.
LEMMA ExitType ==
    ASSUME NEW c \in Clients, NEW point \in Points, CallTypeOK, call[c].at # "idle",
           Exit(c, point)
    PROVE  CallTypeOK'
<1>1. call[c] \in Call
  BY BusyCall
<1>2. [call[c] EXCEPT !.at = point, !.copy = Nil, !.val = Nil] \in Call
  BY <1>1 DEF Call
<1>3. call' = [call EXCEPT ![c] = [call[c] EXCEPT !.at = point, !.copy = Nil, !.val = Nil]]
  BY DEF Exit, CallTypeOK
<1> QED
  BY <1>2, <1>3 DEF CallTypeOK

-----------------------------------------------------------------------------
(* Type correctness *)

\* Calling an operation keeps every variable in its type.
LEMMA BeginKeepsType ==
    ASSUME StorageTypeOK, NEW c \in Clients, NEW o \in Operations, NEW point \in Points,
           NEW j \in Jobs, NEW s \in JobStatus \cup {Nil}, NEW r \in Results \cup {Nil},
           Begin(c, o, point, j, s, r)
    PROVE  StorageTypeOK'
<1>1. CallTypeOK
  BY DEF StorageTypeOK, CallTypeOK
<1>2. CallTypeOK'
  BY <1>1, BeginType
<1>3. UNCHANGED <<status, answer, prompt, channel, inbox, faults>>
  BY DEF Begin, redis, pubsub
<1> QED
  BY <1>2, <1>3 DEF StorageTypeOK, CallTypeOK

\* The frame of a client in the middle of an operation.
LEMMA FrameFacts ==
    ASSUME StorageTypeOK, NEW c \in Clients, call[c].at # "idle"
    PROVE  /\ CallTypeOK
           /\ call[c].op \in Operations
           /\ call[c].at \in Points
           /\ call[c].job \in Jobs
           /\ call[c].copy \in JobStatus \cup {Nil}
           /\ call[c].val \in Results \cup {Nil}
BY BusyCall DEF StorageTypeOK, CallTypeOK, Call

\* The points the steps go to.
LEMMA PointFacts ==
    /\ Commands \subseteq Points
    /\ Finished \subseteq Points
    /\ "yield" \in Points
    /\ "idle" \notin Points
    /\ {"load", "set", "publish", "prompt", "result", "del", "fetch", "listen",
        "receive", "reload"} \subseteq Commands
    /\ {"returned", "not_found", "timed_out", "failed"} \subseteq Finished
BY DEF Points, Commands, Finished

\* The commands that write the keys of a job.
LEMMA WriteKeepsType ==
    ASSUME StorageTypeOK, NEW c \in Clients, WriteStep(c) \/ DeleteStep(c)
    PROVE  StorageTypeOK'
<1>0. call[c].at # "idle"
  BY DEF WriteStep, DeleteStep, LoadMissing, LoadToUpdate, SaveStatus, Publish, SavePrompt,
         SaveResult, LoadToDelete, DeleteStatus, At
<1> USE <1>0, FrameFacts, PointFacts, StatusValues
<1>1. CASE LoadMissing(c)
  <2>1. CallTypeOK'
    BY <1>1, GotoType, ExitType DEF LoadMissing
  <2> QED
    BY <1>1, <2>1 DEF LoadMissing, StorageTypeOK, CallTypeOK, redis, pubsub
<1>2. CASE LoadToUpdate(c)
  <2>1. CallTypeOK'
    BY <1>2, GotoType DEF LoadToUpdate
  <2> QED
    BY <1>2, <2>1 DEF LoadToUpdate, StorageTypeOK, CallTypeOK, redis, pubsub
<1>3. CASE SaveStatus(c)
  <2>1. CallTypeOK'
    BY <1>3, GotoType DEF SaveStatus
  <2>2. status' \in [Jobs -> JobStatus \cup {Nil}]
    BY <1>3 DEF SaveStatus, StorageTypeOK
  <2> QED
    BY <1>3, <2>1, <2>2 DEF SaveStatus, StorageTypeOK, CallTypeOK, pubsub
<1>4. CASE Publish(c)
  <2>1. CallTypeOK'
    BY <1>4, GotoType, ExitType DEF Publish, AfterPublish
  <2>2. inbox' \in [Clients -> 0..MaxUnread]
    BY <1>4, StorageAssumption DEF Publish, StorageTypeOK
  <2> QED
    BY <1>4, <2>1, <2>2 DEF Publish, StorageTypeOK, CallTypeOK, redis
<1>5. CASE SavePrompt(c)
  <2>1. CallTypeOK'
    BY <1>5, ExitType DEF SavePrompt
  <2> QED
    BY <1>5, <2>1 DEF SavePrompt, StorageTypeOK, CallTypeOK, pubsub
<1>6. CASE SaveResult(c)
  <2>1. CallTypeOK'
    BY <1>6, ExitType DEF SaveResult
  <2>2. answer' \in [Jobs -> Results \cup {Nil}]
    BY <1>6 DEF SaveResult, StorageTypeOK
  <2> QED
    BY <1>6, <2>1, <2>2 DEF SaveResult, StorageTypeOK, CallTypeOK, pubsub
<1>7. CASE LoadToDelete(c)
  <2>1. CallTypeOK'
    BY <1>7, GotoWithType DEF LoadToDelete, StorageTypeOK, JobStatus
  <2> QED
    BY <1>7, <2>1 DEF LoadToDelete, StorageTypeOK, CallTypeOK, redis, pubsub
<1>8. CASE DeleteStatus(c)
  <2>1. CallTypeOK'
    BY <1>8, ExitType DEF DeleteStatus
  <2> QED
    BY <1>8, <2>1 DEF DeleteStatus, StorageTypeOK, CallTypeOK, pubsub
<1> QED
  BY <1>1, <1>2, <1>3, <1>4, <1>5, <1>6, <1>7, <1>8 DEF WriteStep, DeleteStep

\* The commands that look at a job.
LEMMA ReadKeepsType ==
    ASSUME StorageTypeOK, NEW c \in Clients, ReadStep(c)
    PROVE  StorageTypeOK'
<1>0. call[c].at # "idle"
  BY DEF ReadStep, LoadMissing, LoadToReturn, FetchResult, At
<1> USE <1>0, FrameFacts, PointFacts
<1>1. CASE LoadMissing(c)
  <2>1. CallTypeOK'
    BY <1>1, GotoType, ExitType DEF LoadMissing
  <2> QED
    BY <1>1, <2>1 DEF LoadMissing, StorageTypeOK, CallTypeOK, redis, pubsub
<1>2. CASE LoadToReturn(c)
  <2>1. CallTypeOK'
    BY <1>2, GotoWithType DEF LoadToReturn, StorageTypeOK
  <2> QED
    BY <1>2, <2>1 DEF LoadToReturn, StorageTypeOK, CallTypeOK, redis, pubsub
<1>3. CASE FetchResult(c)
  <2> DEFINE found == answer[call[c].job]
             point == IF found = Nil THEN "not_found" ELSE "returned"
  <2>1. found \in Results \cup {Nil} /\ point \in Points
    BY DEF StorageTypeOK
  <2>2. call[c] \in Call
    BY BusyCall
  <2>3. [call[c] EXCEPT !.at = point, !.val = found] \in Call
    BY <2>1, <2>2 DEF Call
  <2>4. call' = [call EXCEPT ![c] = [call[c] EXCEPT !.at = point, !.val = found]]
    BY <1>3 DEF FetchResult, CallTypeOK
  <2>5. CallTypeOK'
    BY <2>3, <2>4 DEF CallTypeOK
  <2> QED
    BY <1>3, <2>5 DEF FetchResult, StorageTypeOK, CallTypeOK, redis, pubsub
<1> QED
  BY <1>1, <1>2, <1>3 DEF ReadStep

\* Listening to a job, whether for wait_completeness or for subscribe.
LEMMA ListenKeepsType ==
    ASSUME StorageTypeOK, NEW c \in Clients, WaitStep(c) \/ GeneratorStep(c)
    PROVE  StorageTypeOK'
<1>0. call[c].at # "idle"
  BY DEF WaitStep, GeneratorStep, LoadMissing, LoadBeforeListening, StartSubscription, Receive,
         Timeout, ReloadMissing, ReloadToWait, ReloadToYield, Resume, CloseGenerator, At
<1> USE <1>0, FrameFacts, PointFacts
<1>a. status[call[c].job] \in JobStatus \cup {Nil}
  BY DEF StorageTypeOK
<1>b. ASSUME StopSubscription(c)
      PROVE  channel' \in [Clients -> Jobs \cup {Nil}] /\ inbox' \in [Clients -> 0..MaxUnread]
  BY <1>b, StorageAssumption DEF StopSubscription, StorageTypeOK
<1>1. CASE LoadMissing(c)
  <2>1. CallTypeOK'
    BY <1>1, GotoType, ExitType DEF LoadMissing
  <2> QED
    BY <1>1, <2>1 DEF LoadMissing, StorageTypeOK, CallTypeOK, redis, pubsub
<1>2. CASE LoadBeforeListening(c)
  <2>1. CallTypeOK'
    BY <1>2, <1>a, GotoType, GotoWithType DEF LoadBeforeListening
  <2> QED
    BY <1>2, <2>1 DEF LoadBeforeListening, StorageTypeOK, CallTypeOK, redis, pubsub
<1>3. CASE StartSubscription(c)
  <2>1. CallTypeOK'
    BY <1>3, GotoWithType DEF StartSubscription
  <2>2. channel' \in [Clients -> Jobs \cup {Nil}] /\ inbox' \in [Clients -> 0..MaxUnread]
    BY <1>3, StorageAssumption DEF StartSubscription, StorageTypeOK
  <2> QED
    BY <1>3, <2>1, <2>2 DEF StartSubscription, StorageTypeOK, CallTypeOK, redis
<1>4. CASE Receive(c)
  <2>1. CallTypeOK'
    BY <1>4, GotoType DEF Receive
  <2>2. inbox' \in [Clients -> 0..MaxUnread]
    BY <1>4, StorageAssumption DEF Receive, StorageTypeOK
  <2> QED
    BY <1>4, <2>1, <2>2 DEF Receive, StorageTypeOK, CallTypeOK, redis
<1>5. CASE Timeout(c)
  <2>1. CallTypeOK'
    BY <1>5, ExitType DEF Timeout
  <2> QED
    BY <1>5, <1>b, <2>1 DEF Timeout, StorageTypeOK, CallTypeOK, redis
<1>6. CASE ReloadMissing(c)
  <2>1. CallTypeOK'
    BY <1>6, ExitType DEF ReloadMissing
  <2> QED
    BY <1>6, <1>b, <2>1 DEF ReloadMissing, StorageTypeOK, CallTypeOK, redis
<1>7. CASE ReloadToWait(c)
  <2>1. CallTypeOK'
    BY <1>7, <1>a, GotoWithType DEF ReloadToWait
  <2> QED
    BY <1>7, <1>b, <2>1 DEF ReloadToWait, StorageTypeOK, CallTypeOK, redis, pubsub
<1>8. CASE ReloadToYield(c)
  <2>1. CallTypeOK'
    BY <1>8, <1>a, GotoWithType DEF ReloadToYield
  <2> QED
    BY <1>8, <2>1 DEF ReloadToYield, StorageTypeOK, CallTypeOK, redis, pubsub
<1>9. CASE Resume(c)
  <2>1. CallTypeOK'
    BY <1>9, GotoType, ExitType DEF Resume
  <2> QED
    BY <1>9, <1>b, <2>1 DEF Resume, StorageTypeOK, CallTypeOK, redis, pubsub
<1>10. CASE CloseGenerator(c)
  <2>1. CallTypeOK'
    BY <1>10, ExitType DEF CloseGenerator
  <2> QED
    BY <1>10, <1>b, <2>1 DEF CloseGenerator, StorageTypeOK, CallTypeOK, redis
<1> QED
  BY <1>1, <1>2, <1>3, <1>4, <1>5, <1>6, <1>7, <1>8, <1>9, <1>10 DEF WaitStep, GeneratorStep

\* A command that raises.
LEMMA FailureKeepsType ==
    ASSUME StorageTypeOK, NEW c \in Clients, CommandFails(c)
    PROVE  StorageTypeOK'
<1>0. call[c].at \in Commands /\ call[c].at # "idle"
  BY PointFacts DEF CommandFails
<1>1. CallTypeOK'
  BY <1>0, FrameFacts, PointFacts, GotoType, ExitType DEF CommandFails
<1>2. channel' \in [Clients -> Jobs \cup {Nil}] /\ inbox' \in [Clients -> 0..MaxUnread]
  BY StorageAssumption DEF CommandFails, StopSubscription, StorageTypeOK, pubsub
<1>3. faults' \in 0..MaxFaults
  BY StorageAssumption DEF CommandFails, StorageTypeOK
<1> QED
  BY <1>1, <1>2, <1>3 DEF CommandFails, StorageTypeOK, CallTypeOK, redis

\* Every call of the interface is a Begin with arguments of the right types.
LEMMA CallKeepsType ==
    ASSUME StorageTypeOK, NEW c \in Clients, StorageCall(c)
    PROVE  StorageTypeOK'
<1> USE StatusValues, PointFacts
<1>1. {"create", "update", "complete", "delete", "status", "result", "wait", "subscribe"}
         \subseteq Operations
  BY DEF Operations
<1>2. CASE WriteCall(c)
  BY <1>1, <1>2, BeginKeepsType
     DEF WriteCall, create_job_status, update_job_status, complete_job, complete_job_error,
         delete_job_status
<1>3. CASE ReadCall(c)
  BY <1>1, <1>3, BeginKeepsType DEF ReadCall, get_job_status, get_job_result
<1>4. CASE ListenCall(c)
  BY <1>1, <1>4, BeginKeepsType DEF ListenCall, wait_completeness, subscribe
<1> QED
  BY <1>2, <1>3, <1>4 DEF StorageCall

\* Nothing is stored at first.
LEMMA InitialType == StorageInit => StorageTypeOK
BY StorageAssumption DEF StorageInit, StorageTypeOK

\* Type correctness of the storage, whatever its clients call and in whatever
\* order their commands reach Redis.
THEOREM StorageTypeCorrect == StorageSpec => []StorageTypeOK
<1>1. StorageTypeOK /\ [StorageNext]_storageVars => StorageTypeOK'
  <2> SUFFICES ASSUME StorageTypeOK, [StorageNext]_storageVars
               PROVE  StorageTypeOK'
    OBVIOUS
  <2>1. ASSUME NEW c \in Clients, StorageCall(c)
        PROVE  StorageTypeOK'
    BY <2>1, CallKeepsType
  <2>2. ASSUME NEW c \in Clients, StorageStep(c)
        PROVE  StorageTypeOK'
    BY <2>2, WriteKeepsType, ReadKeepsType, ListenKeepsType, FailureKeepsType DEF StorageStep
  <2>3. CASE UNCHANGED storageVars
    BY <2>3 DEF storageVars, StorageTypeOK
  <2> QED
    BY <2>1, <2>2, <2>3 DEF StorageNext
<1> QED
  BY <1>1, InitialType, PTL DEF StorageSpec

-----------------------------------------------------------------------------
(* Subscriptions *)

\* What is true of the subscription of client c at every command.  The last two
\* conjuncts make it inductive: only listening calls reach the listening commands,
\* and a generator is suspended either after its first look at a completed job,
\* not subscribed, or inside its loop, subscribed.
SubscriptionOf(c) ==
    /\ channel[c] # Nil => /\ call[c].op \in Waits
                           /\ call[c].at \in {"receive", "reload", "yield"}
                           /\ channel[c] = call[c].job
    /\ call[c].at \in {"receive", "reload"} => channel[c] # Nil
    /\ call[c].at \in {"listen", "receive", "reload"} => call[c].op \in Waits
    /\ call[c].at = "yield" => call[c].copy.is_completed = TRUE \/ channel[c] # Nil

SubscriptionInv == \A c \in Clients : SubscriptionOf(c)

\* Every command, and every way to call the storage, as one step of client c.
ClientStep(c) == StorageCall(c) \/ StorageStep(c)

\* A step of one client changes neither the call nor the subscription of another.
LEMMA OthersKeepTheirSubscription ==
    ASSUME StorageTypeOK, NEW c \in Clients, NEW d \in Clients \ {c}, ClientStep(c)
    PROVE  call'[d] = call[d] /\ channel'[d] = channel[d]
<1> USE DEF StorageTypeOK, redis, pubsub, Goto, GotoWith, Exit, StopSubscription
<1>1. CASE StorageCall(c)
  BY <1>1 DEF StorageCall, WriteCall, ReadCall, ListenCall, Begin, create_job_status,
              update_job_status, complete_job, complete_job_error, delete_job_status,
              get_job_status, get_job_result, wait_completeness, subscribe
<1>2. CASE WriteStep(c) \/ DeleteStep(c)
  BY <1>2 DEF WriteStep, DeleteStep, LoadMissing, LoadToUpdate, SaveStatus, Publish,
              AfterPublish, SavePrompt, SaveResult, LoadToDelete, DeleteStatus
<1>3. CASE ReadStep(c)
  BY <1>3 DEF ReadStep, LoadMissing, LoadToReturn, FetchResult
<1>4. CASE WaitStep(c)
  BY <1>4 DEF WaitStep, LoadMissing, LoadBeforeListening, StartSubscription, Receive, Timeout,
              ReloadMissing, ReloadToWait
<1>5. CASE GeneratorStep(c)
  BY <1>5 DEF GeneratorStep, ReloadToYield, Resume, CloseGenerator
<1>6. CASE CommandFails(c)
  BY <1>6 DEF CommandFails
<1> QED
  BY <1>1, <1>2, <1>3, <1>4, <1>5, <1>6 DEF ClientStep, StorageStep

\* A step of a client keeps its own subscription in order.
LEMMA StepKeepsSubscription ==
    ASSUME StorageTypeOK, NEW c \in Clients, SubscriptionOf(c), ClientStep(c)
    PROVE  SubscriptionOf(c)'
<1> USE StorageAssumption DEF SubscriptionOf, StorageTypeOK, redis, pubsub, At
<1>1. CASE StorageCall(c)
  BY <1>1 DEF StorageCall, WriteCall, ReadCall, ListenCall, Begin, create_job_status,
              update_job_status, complete_job, complete_job_error, delete_job_status,
              get_job_status, get_job_result, wait_completeness, subscribe, Finished
<1>2. ASSUME call[c].at # "idle"
      PROVE  call[c] \in Call
  BY <1>2, BusyCall DEF CallTypeOK
<1> USE DEF Goto, GotoWith, Exit, StopSubscription, Call
<1>3. CASE LoadMissing(c)
  BY <1>2, <1>3 DEF LoadMissing, Waits
<1>4. CASE LoadToUpdate(c)
  BY <1>2, <1>4 DEF LoadToUpdate
<1>5. CASE LoadToDelete(c)
  BY <1>2, <1>5 DEF LoadToDelete
<1>6. CASE LoadToReturn(c)
  BY <1>2, <1>6 DEF LoadToReturn
<1>7. CASE LoadBeforeListening(c)
  BY <1>2, <1>7 DEF LoadBeforeListening, Waits
<1>8. CASE SaveStatus(c)
  BY <1>2, <1>8 DEF SaveStatus
<1>9. CASE Publish(c)
  BY <1>2, <1>9 DEF Publish, AfterPublish
<1>10. CASE SavePrompt(c)
  BY <1>2, <1>10 DEF SavePrompt
<1>11. CASE SaveResult(c)
  BY <1>2, <1>11 DEF SaveResult
<1>12. CASE DeleteStatus(c)
  BY <1>2, <1>12 DEF DeleteStatus
<1>13. CASE FetchResult(c)
  BY <1>2, <1>13 DEF FetchResult
<1>14. CASE StartSubscription(c)
  BY <1>2, <1>14 DEF StartSubscription
<1>15. CASE Receive(c)
  BY <1>2, <1>15 DEF Receive
<1>16. CASE Timeout(c)
  BY <1>2, <1>16 DEF Timeout
<1>17. CASE ReloadMissing(c)
  BY <1>2, <1>17 DEF ReloadMissing
<1>18. CASE ReloadToWait(c)
  BY <1>2, <1>18 DEF ReloadToWait, Waits
<1>19. CASE ReloadToYield(c)
  BY <1>2, <1>19 DEF ReloadToYield, Waits
<1>20. CASE Resume(c)
  BY <1>2, <1>20 DEF Resume
<1>21. CASE CloseGenerator(c)
  BY <1>2, <1>21 DEF CloseGenerator
<1>22. CASE CommandFails(c)
  BY <1>2, <1>22 DEF CommandFails, Commands, Waits
<1> QED
  BY <1>1, <1>3, <1>4, <1>5, <1>6, <1>7, <1>8, <1>9, <1>10, <1>11, <1>12, <1>13, <1>14, <1>15, <1>16, <1>17, <1>18, <1>19, <1>20, <1>21, <1>22
     DEF ClientStep, StorageStep, WriteStep, ReadStep, WaitStep, GeneratorStep, DeleteStep

\* The subscriptions of all clients are in order at every command.
LEMMA SubscriptionInvariant == StorageSpec => []SubscriptionInv
<1>1. StorageInit => SubscriptionInv
  BY DEF StorageInit, SubscriptionInv, SubscriptionOf, NoCall
<1>2. StorageTypeOK /\ SubscriptionInv /\ [StorageNext]_storageVars => SubscriptionInv'
  <2> SUFFICES ASSUME StorageTypeOK, SubscriptionInv, [StorageNext]_storageVars
               PROVE  SubscriptionInv'
    OBVIOUS
  <2>1. ASSUME NEW c \in Clients, ClientStep(c)
        PROVE  SubscriptionInv'
    <3>1. SubscriptionOf(c)'
      BY <2>1, StepKeepsSubscription DEF SubscriptionInv
    <3>2. ASSUME NEW d \in Clients \ {c}
          PROVE  SubscriptionOf(d)'
      BY <2>1, <3>2, OthersKeepTheirSubscription DEF SubscriptionInv, SubscriptionOf
    <3> QED
      BY <3>1, <3>2 DEF SubscriptionInv
  <2>2. CASE UNCHANGED storageVars
    BY <2>2 DEF storageVars, SubscriptionInv, SubscriptionOf
  <2> QED
    BY <2>1, <2>2 DEF StorageNext, ClientStep
<1> QED
  BY <1>1, <1>2, StorageTypeCorrect, PTL DEF StorageSpec

\* No subscription outlives the call it was made for, however the call ends.
THEOREM SubscriptionsAreClosed == StorageSpec => []NoLeakedSubscription
<1>1. SubscriptionInv => NoLeakedSubscription
  BY DEF SubscriptionInv, SubscriptionOf, NoLeakedSubscription
<1> QED
  BY <1>1, SubscriptionInvariant, PTL

-----------------------------------------------------------------------------
(* What the reading operations return *)

\* The commands of the operations that return something, and what they return.  Each
\* issues only its own, so that none is at "returned" by the command of another.
AskedBy(c) ==
    /\ call[c].op = "result" => call[c].at \in {"fetch"} \cup Finished
    /\ call[c].op = "status" => call[c].at \in {"load"} \cup Finished
    /\ call[c].op = "wait" => call[c].at \in {"load", "listen", "receive", "reload"} \cup Finished
    /\ At(c, {"result"}, "returned") => call[c].val # Nil
    /\ At(c, {"status"}, "returned") => call[c].copy # Nil
    /\ At(c, {"wait"}, "returned") => call[c].copy # Nil /\ call[c].copy.is_completed

AskedInv == \A c \in Clients : AskedBy(c)

\* A step of a client goes on with its operation or answers it.
LEMMA StepAnswers ==
    ASSUME StorageTypeOK, NEW c \in Clients, AskedBy(c), ClientStep(c)
    PROVE  AskedBy(c)'
<1> USE StorageAssumption DEF AskedBy, StorageTypeOK, At, Finished
<1>1. CASE StorageCall(c)
  BY <1>1 DEF StorageCall, WriteCall, ReadCall, ListenCall, Begin, create_job_status,
              update_job_status, complete_job, complete_job_error, delete_job_status,
              get_job_status, get_job_result, wait_completeness, subscribe
<1>2. ASSUME call[c].at # "idle"
      PROVE  call[c] \in Call
  BY <1>2, BusyCall DEF CallTypeOK
<1> USE DEF Goto, GotoWith, Exit, Call
<1>3. CASE LoadMissing(c)
  BY <1>2, <1>3 DEF LoadMissing, Waits
<1>4. CASE LoadToUpdate(c) \/ LoadToDelete(c)
  BY <1>2, <1>4 DEF LoadToUpdate, LoadToDelete
<1>5. CASE LoadToReturn(c)
  BY <1>2, <1>5 DEF LoadToReturn
<1>6. CASE LoadBeforeListening(c)
  BY <1>2, <1>6 DEF LoadBeforeListening, Waits
<1>7. CASE SaveStatus(c) \/ SavePrompt(c) \/ SaveResult(c) \/ DeleteStatus(c)
  BY <1>2, <1>7 DEF SaveStatus, SavePrompt, SaveResult, DeleteStatus
<1>8. CASE Publish(c)
  BY <1>2, <1>8 DEF Publish, AfterPublish
<1>9. CASE FetchResult(c)
  BY <1>2, <1>9 DEF FetchResult
<1>10. CASE StartSubscription(c) \/ Receive(c)
  BY <1>2, <1>10 DEF StartSubscription, Receive
<1>11. CASE Timeout(c) \/ ReloadMissing(c)
  BY <1>2, <1>11 DEF Timeout, ReloadMissing
<1>12. CASE ReloadToWait(c)
  BY <1>2, <1>12 DEF ReloadToWait
<1>13. CASE GeneratorStep(c)
  BY <1>2, <1>13 DEF GeneratorStep, ReloadToYield, Resume, CloseGenerator
<1>14. CASE CommandFails(c)
  BY <1>2, <1>14 DEF CommandFails, Commands, Waits
<1> QED
  BY <1>1, <1>3, <1>4, <1>5, <1>6, <1>7, <1>8, <1>9, <1>10, <1>11, <1>12, <1>13, <1>14
     DEF ClientStep, StorageStep, WriteStep, ReadStep, WaitStep, DeleteStep

\* Whoever is answered gets what he asked for, whatever other clients write, complete or
\* delete meanwhile.
THEOREM ReturnsAreComplete == StorageSpec => []ReturnsWhatWasAsked
<1>1. StorageInit => AskedInv
  BY DEF StorageInit, AskedInv, AskedBy, NoCall, At
<1>2. StorageTypeOK /\ AskedInv /\ [StorageNext]_storageVars => AskedInv'
  <2> SUFFICES ASSUME StorageTypeOK, AskedInv, [StorageNext]_storageVars
               PROVE  AskedInv'
    OBVIOUS
  <2>1. ASSUME NEW c \in Clients, ClientStep(c)
        PROVE  AskedInv'
    <3>1. AskedBy(c)'
      BY <2>1, StepAnswers DEF AskedInv
    <3>2. ASSUME NEW d \in Clients \ {c}
          PROVE  AskedBy(d)'
      BY <2>1, <3>2, OthersKeepTheirSubscription DEF AskedInv, AskedBy, At
    <3> QED
      BY <3>1, <3>2 DEF AskedInv
  <2>2. CASE UNCHANGED storageVars
    BY <2>2 DEF storageVars, AskedInv, AskedBy, At
  <2> QED
    BY <2>1, <2>2 DEF StorageNext, ClientStep
<1>3. AskedInv => ReturnsWhatWasAsked
  BY DEF AskedInv, AskedBy, ReturnsWhatWasAsked
<1> QED
  BY <1>1, <1>2, <1>3, StorageTypeCorrect, PTL DEF StorageSpec

=============================================================================
