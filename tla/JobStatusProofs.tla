--------------------------- MODULE JobStatusProofs ---------------------------
(***************************************************************************)
(* What the keys of a job say of each other in ResultStorage, and what a   *)
(* listener knows of them, as long as no command has raised: theorems for  *)
(* any number of jobs and clients and any bounds.                          *)
(***************************************************************************)
EXTENDS ResultStorageProofs

-----------------------------------------------------------------------------
(* What a writing operation holds *)

\* The status an operation is going to write is the one it was called with, or, for
\* delete, the one it has read, marked completed.
HeldBy(c) ==
    /\ call[c].at \in {"set", "publish"} => call[c].op \in {"create", "update", "complete", "delete"}
    /\ call[c].at = "result" => call[c].op = "complete" /\ call[c].copy = Completed
    /\ call[c].at = "del" => call[c].op = "delete"
    /\ At(c, {"create"}, "set") \/ At(c, {"create"}, "publish") => call[c].copy = Pending
    /\ call[c].op = "update" /\ call[c].at \in {"load", "set", "publish"} =>
           call[c].copy = InProgress
    /\ call[c].op = "complete" /\ call[c].at \in {"load", "set", "publish"} =>
           call[c].copy \in {Completed, Failed}
    /\ /\ call[c].op = "complete" /\ call[c].at \in {"load", "set", "publish", "result"}
       /\ call[c].copy = Completed
       => call[c].val \in Results
    /\ call[c].op = "delete" /\ call[c].at \in {"set", "publish"} =>
           call[c].copy \in JobStatus /\ call[c].copy.is_completed = TRUE

HeldInv == \A c \in Clients : HeldBy(c)

\* The four values are different, and say what their names say.
LEMMA StatusFacts ==
    /\ Pending.status = "pending" /\ Pending.is_completed = FALSE
    /\ InProgress.status = "in_progress" /\ InProgress.is_completed = FALSE
    /\ Completed.status = "completed" /\ Completed.is_completed = TRUE
    /\ Failed.status = "error" /\ Failed.is_completed = TRUE
BY DEF Pending, InProgress, Completed, Failed, Status

\* A step of a client keeps what it holds in order.
LEMMA StepKeepsHeld ==
    ASSUME StorageTypeOK, NEW c \in Clients, HeldBy(c), ClientStep(c)
    PROVE  HeldBy(c)'
<1> USE StorageAssumption, StatusValues, StatusFacts DEF HeldBy, StorageTypeOK, redis, pubsub, At
<1>1. CASE StorageCall(c)
  BY <1>1 DEF StorageCall, WriteCall, ReadCall, ListenCall, Begin, create_job_status,
              update_job_status, complete_job, complete_job_error, delete_job_status,
              get_job_status, get_job_result, wait_completeness, subscribe, Finished
<1>2. ASSUME call[c].at # "idle"
      PROVE  call[c] \in Call
  BY <1>2, BusyCall DEF CallTypeOK
<1> USE DEF Goto, GotoWith, Exit, StopSubscription, Call
<1>3. CASE LoadMissing(c)
  BY <1>2, <1>3 DEF LoadMissing, Waits
<1>4. CASE LoadToUpdate(c)
  BY <1>2, <1>4 DEF LoadToUpdate
<1>5. CASE LoadToDelete(c)
  <2> DEFINE s == [status[call[c].job] EXCEPT !.is_completed = TRUE]
  <2>0. status[call[c].job] \in JobStatus
    BY <1>2, <1>5 DEF LoadToDelete
  <2>1. s \in JobStatus /\ s.is_completed = TRUE
    BY ONLY <2>0 DEF s, JobStatus
  <2>2. call'[c].op = "delete" /\ call'[c].at = "set" /\ call'[c].copy = s
    BY <1>2, <1>5 DEF LoadToDelete
  <2> HIDE DEF s
  <2> QED
    BY <2>1, <2>2
<1>6. CASE LoadToReturn(c)
  BY <1>2, <1>6 DEF LoadToReturn
<1>7. CASE LoadBeforeListening(c)
  BY <1>2, <1>7 DEF LoadBeforeListening, Waits
<1>8. CASE SaveStatus(c)
  BY <1>2, <1>8 DEF SaveStatus
<1>9. CASE Publish(c)
  BY <1>2, <1>9 DEF Publish, AfterPublish
<1>10. CASE SavePrompt(c)
  BY <1>2, <1>10 DEF SavePrompt
<1>11. CASE SaveResult(c)
  BY <1>2, <1>11 DEF SaveResult
<1>12. CASE DeleteStatus(c)
  BY <1>2, <1>12 DEF DeleteStatus
<1>13. CASE FetchResult(c)
  BY <1>2, <1>13 DEF FetchResult
<1>14. CASE StartSubscription(c)
  BY <1>2, <1>14 DEF StartSubscription
<1>15. CASE Receive(c)
  BY <1>2, <1>15 DEF Receive
<1>16. CASE Timeout(c)
  BY <1>2, <1>16 DEF Timeout
<1>17. CASE ReloadMissing(c)
  BY <1>2, <1>17 DEF ReloadMissing
<1>18. CASE ReloadToWait(c)
  BY <1>2, <1>18 DEF ReloadToWait, Waits
<1>19. CASE ReloadToYield(c)
  BY <1>2, <1>19 DEF ReloadToYield, Waits
<1>20. CASE Resume(c)
  BY <1>2, <1>20 DEF Resume
<1>21. CASE CloseGenerator(c)
  BY <1>2, <1>21 DEF CloseGenerator
<1>22. CASE CommandFails(c)
  BY <1>2, <1>22 DEF CommandFails, Commands, Waits
<1> QED
  BY <1>1, <1>3, <1>4, <1>5, <1>6, <1>7, <1>8, <1>9, <1>10, <1>11, <1>12, <1>13, <1>14, <1>15,
     <1>16, <1>17, <1>18, <1>19, <1>20, <1>21, <1>22
     DEF ClientStep, StorageStep, WriteStep, ReadStep, WaitStep, GeneratorStep, DeleteStep

\* Nothing is held at first, and steps of the others change nothing.
LEMMA HeldInvariant == StorageSpec => []HeldInv
<1>1. StorageInit => HeldInv
  BY DEF StorageInit, HeldInv, HeldBy, NoCall, At
<1>2. StorageTypeOK /\ HeldInv /\ [StorageNext]_storageVars => HeldInv'
  <2> SUFFICES ASSUME StorageTypeOK, HeldInv, [StorageNext]_storageVars
               PROVE  HeldInv'
    OBVIOUS
  <2>1. ASSUME NEW c \in Clients, ClientStep(c)
        PROVE  HeldInv'
    <3>1. HeldBy(c)'
      BY <2>1, StepKeepsHeld DEF HeldInv
    <3>2. ASSUME NEW d \in Clients \ {c}
          PROVE  HeldBy(d)'
      BY <2>1, <3>2, OthersKeepTheirSubscription DEF HeldInv, HeldBy, At
    <3> QED
      BY <3>1, <3>2 DEF HeldInv
  <2>2. CASE UNCHANGED storageVars
    BY <2>2 DEF storageVars, HeldInv, HeldBy, At
  <2> QED
    BY <2>1, <2>2 DEF StorageNext, ClientStep
<1> QED
  BY <1>1, <1>2, StorageTypeCorrect, PTL DEF StorageSpec

-----------------------------------------------------------------------------
(* Steps that change no key the properties are about *)

\* The step leaves status and answer alone, the client neither leaves nor enters the
\* part of a writing operation after its SET, and a delete that gets ready to SET has
\* read the status.
Silent(c) ==
    /\ UNCHANGED <<status, answer>>
    /\ call[c].at \notin {"publish", "result", "del"}
    /\ call'[c].at \notin {"publish", "result", "del"}
    /\ call'[c].op = "delete" /\ call'[c].at = "set" =>
           /\ status[call'[c].job] # Nil
           /\ call'[c].copy = [status[call'[c].job] EXCEPT !.is_completed = TRUE]

\* Without a command that raises, the other steps are these four.
LEMMA StepKinds ==
    ASSUME StorageTypeOK, HeldInv, SubscriptionInv, NEW c \in Clients, ClientStep(c), faults' = 0
    PROVE  SaveStatus(c) \/ Publish(c) \/ SaveResult(c) \/ DeleteStatus(c) \/ Silent(c)
<1> USE DEF StorageTypeOK, redis, pubsub, At, Silent
<1>1. CASE StorageCall(c)
  BY <1>1 DEF StorageCall, WriteCall, ReadCall, ListenCall, Begin, create_job_status,
              update_job_status, complete_job, complete_job_error, delete_job_status,
              get_job_status, get_job_result, wait_completeness, subscribe, Finished
<1>2. ASSUME call[c].at # "idle"
      PROVE  call[c] \in Call
  BY <1>2, BusyCall DEF CallTypeOK
<1> USE DEF Goto, GotoWith, Exit, StopSubscription, Call
<1>3. CASE LoadMissing(c)
  BY <1>2, <1>3 DEF LoadMissing, Waits
<1>4. CASE LoadToUpdate(c)
  BY <1>2, <1>4 DEF LoadToUpdate
<1>5. CASE LoadToDelete(c)
  BY <1>2, <1>5 DEF LoadToDelete
<1>6. CASE LoadToReturn(c)
  BY <1>2, <1>6 DEF LoadToReturn
<1>7. CASE LoadBeforeListening(c)
  BY <1>2, <1>7 DEF LoadBeforeListening, Waits
<1>8. CASE SavePrompt(c)
  BY <1>2, <1>8 DEF SavePrompt
<1>9. CASE FetchResult(c)
  BY <1>2, <1>9 DEF FetchResult
<1>10. CASE StartSubscription(c)
  BY <1>2, <1>10 DEF StartSubscription
<1>11. CASE Receive(c)
  BY <1>2, <1>11 DEF Receive
<1>12. CASE Timeout(c)
  BY <1>2, <1>12 DEF Timeout
<1>13. CASE ReloadMissing(c)
  BY <1>2, <1>13 DEF ReloadMissing
<1>14. CASE ReloadToWait(c)
  BY <1>2, <1>14 DEF ReloadToWait, Waits
<1>15. CASE ReloadToYield(c)
  BY <1>2, <1>15 DEF ReloadToYield, Waits
<1>16. CASE Resume(c)
  BY <1>2, <1>16 DEF Resume
<1>17. CASE CloseGenerator(c)
  BY <1>2, <1>17 DEF CloseGenerator
<1>18. CASE CommandFails(c)
  BY <1>18 DEF CommandFails
<1> QED
  BY <1>1, <1>3, <1>4, <1>5, <1>6, <1>7, <1>8, <1>9, <1>10, <1>11, <1>12, <1>13, <1>14, <1>15,
     <1>16, <1>17, <1>18
     DEF ClientStep, StorageStep, WriteStep, ReadStep, WaitStep, GeneratorStep, DeleteStep

\* No command has raised before if none has raised after.
LEMMA FaultsOnlyGrow ==
    ASSUME StorageTypeOK, NEW c \in Clients, ClientStep(c), faults' = 0
    PROVE  faults = 0
<1>1. CASE CommandFails(c)
  BY <1>1 DEF CommandFails, StorageTypeOK
<1>2. CASE ~CommandFails(c)
  BY <1>2 DEF ClientStep, StorageCall, WriteCall, ReadCall, ListenCall, Begin, create_job_status,
     update_job_status, complete_job, complete_job_error, delete_job_status, get_job_status,
     get_job_result, wait_completeness, subscribe, StorageStep, WriteStep, ReadStep, WaitStep,
     GeneratorStep, DeleteStep, LoadMissing, LoadToUpdate, SaveStatus, Publish, SavePrompt,
     SaveResult, LoadToDelete, DeleteStatus, LoadToReturn, FetchResult, LoadBeforeListening,
     StartSubscription, Receive, Timeout, ReloadMissing, ReloadToWait, ReloadToYield, Resume,
     CloseGenerator
<1> QED
  BY <1>1, <1>2

-----------------------------------------------------------------------------
(* The answer of a completed job *)

\* The answer is there, or the call that completed the job is about to store it.
Answering(j) ==
    \/ answer[j] # Nil
    \/ \E c \in Clients :
          /\ call[c].job = j /\ call[c].op = "complete" /\ call[c].copy = Completed
          /\ call[c].at \in {"publish", "result"}

\* A status that says "completed" is Completed; a job that has it is being answered;
\* and so is one whose status a delete has read as Completed and will write again.
AnswerInv ==
    faults = 0 =>
        /\ \A j \in Jobs : status[j] # Nil /\ status[j].status = "completed" =>
                              status[j] = Completed /\ Answering(j)
        /\ \A d \in Clients, j \in Jobs :
              /\ call[d].op = "delete" /\ call[d].at = "set" /\ call[d].job = j
              /\ call[d].copy.status = "completed"
              => call[d].copy = Completed /\ Answering(j)

\* Without a failing command, a job that is being answered stays so.
LEMMA AnsweringIsStable ==
    ASSUME StorageTypeOK, HeldInv, SubscriptionInv, NEW c \in Clients, ClientStep(c), faults' = 0,
           NEW j \in Jobs, Answering(j)
    PROVE  Answering(j)'
<1>1. ASSUME NEW d \in Clients \ {c}
      PROVE  call'[d] = call[d]
  BY <1>1, OthersKeepTheirSubscription
<1>2. CASE answer[j] # Nil
  <2>1. CASE SaveResult(c)
    <3>1. call[c] \in Call /\ call[c].copy = Completed /\ call[c].op = "complete"
      BY <2>1, BusyCall DEF SaveResult, HeldInv, HeldBy, StorageTypeOK, CallTypeOK
    <3>2. call[c].val # Nil
      BY <2>1, <3>1, StorageAssumption DEF SaveResult, HeldInv, HeldBy
    <3> QED
      BY <1>2, <2>1, <3>2 DEF SaveResult, StorageTypeOK, Answering
  <2>2. CASE ~SaveResult(c)
    BY <1>2, <2>2, StepKinds
       DEF SaveStatus, Publish, DeleteStatus, Silent, redis, Answering
  <2> QED
    BY <2>1, <2>2
<1>3. CASE \E d \in Clients :
             /\ call[d].job = j /\ call[d].op = "complete" /\ call[d].copy = Completed
             /\ call[d].at \in {"publish", "result"}
  <2>1. PICK d \in Clients :
             /\ call[d].job = j /\ call[d].op = "complete" /\ call[d].copy = Completed
             /\ call[d].at \in {"publish", "result"}
    BY <1>3
  <2>2. CASE d # c
    BY <1>1, <2>1, <2>2 DEF Answering
  <2>3. CASE d = c
    <3>1. Publish(c) \/ SaveResult(c)
      BY <2>1, <2>3, StepKinds DEF SaveStatus, DeleteStatus, Silent
    <3>2. call[c] \in Call
      BY <2>1, <2>3, BusyCall DEF StorageTypeOK, CallTypeOK
    <3>3. CASE Publish(c)
      <4>1. call' = [call EXCEPT ![c].at = "result"]
        BY <2>1, <2>3, <3>3 DEF Publish, AfterPublish, Goto
      <4> QED
        BY <2>1, <2>3, <3>2, <4>1 DEF StorageTypeOK, Call, Answering
    <3>4. CASE SaveResult(c)
      <4>1. call[c].val # Nil
        BY <2>1, <2>3, <3>4, StorageAssumption DEF SaveResult, HeldInv, HeldBy
      <4> QED
        BY <2>1, <2>3, <3>4, <4>1 DEF SaveResult, StorageTypeOK, Answering
    <3> QED
      BY <3>1, <3>3, <3>4
  <2> QED
    BY <2>2, <2>3
<1> QED
  BY <1>2, <1>3 DEF Answering

\* There is one completed status.
LEMMA CompletedIsThat ==
    ASSUME NEW s \in JobStatus, s.status = "completed", s.is_completed = TRUE
    PROVE  s = Completed
BY DEF JobStatus, Completed, Status

\* A step keeps the promise of an answer.
LEMMA StepKeepsAnswer ==
    ASSUME StorageTypeOK, HeldInv, SubscriptionInv, AnswerInv, NEW c \in Clients, ClientStep(c)
    PROVE  AnswerInv'
<1> SUFFICES ASSUME faults' = 0
             PROVE  AnswerInv'
  BY DEF AnswerInv
<1>0. faults = 0
  BY FaultsOnlyGrow
<1>1. ASSUME NEW d \in Clients \ {c}
      PROVE  call'[d] = call[d]
  BY <1>1, OthersKeepTheirSubscription
<1>2. ASSUME NEW j \in Jobs, Answering(j)
      PROVE  Answering(j)'
  BY <1>2, AnsweringIsStable
<1>3. ASSUME NEW j \in Jobs, status'[j] # Nil, status'[j].status = "completed"
      PROVE  status'[j] = Completed /\ Answering(j)'
  <2>1. CASE status'[j] = status[j]
    BY <1>0, <1>2, <1>3, <2>1 DEF AnswerInv
  <2>2. CASE status'[j] # status[j]
    <3>1. SaveStatus(c) /\ call[c].job = j /\ status'[j] = call[c].copy
      BY <1>3, <2>2, StepKinds
         DEF SaveStatus, Publish, SaveResult, DeleteStatus, Silent, redis, StorageTypeOK
    <3>2. call[c] \in Call
      BY <3>1, BusyCall DEF SaveStatus, StorageTypeOK, CallTypeOK
    <3>3. CASE call[c].op = "delete"
      BY <1>0, <1>2, <1>3, <3>1, <3>3 DEF AnswerInv, SaveStatus
    <3>4. CASE call[c].op # "delete"
      <4>1. call[c].op = "complete" /\ call[c].copy = Completed
        BY <1>3, <3>1, <3>4, StatusFacts DEF HeldInv, HeldBy, SaveStatus, At
      <4>2. call' = [call EXCEPT ![c].at = "publish"]
        BY <3>1 DEF SaveStatus, Goto
      <4> QED
        BY <3>1, <3>2, <4>1, <4>2 DEF Answering, StorageTypeOK, Call
    <3> QED
      BY <3>3, <3>4
  <2> QED
    BY <2>1, <2>2
<1>4. ASSUME NEW d \in Clients, NEW j \in Jobs, call'[d].op = "delete", call'[d].at = "set",
             call'[d].job = j, call'[d].copy.status = "completed"
      PROVE  call'[d].copy = Completed /\ Answering(j)'
  <2>1. CASE d # c
    <3>1. call'[d] = call[d]
      BY <1>1, <2>1
    <3>2. call[d].copy = Completed /\ Answering(j)
      BY <1>0, <1>4, <3>1 DEF AnswerInv
    <3> QED
      BY <1>2, <3>1, <3>2
  <2>2. CASE d = c
    <3>1. ~Publish(c) /\ ~SaveStatus(c) /\ ~SaveResult(c) /\ ~DeleteStatus(c)
      <4>1. ASSUME call[c].at # "idle"
            PROVE  call[c] \in Call
        BY <4>1, BusyCall DEF StorageTypeOK, CallTypeOK
      <4> QED
        BY <1>4, <2>2, <4>1
           DEF Publish, AfterPublish, SaveStatus, SaveResult, DeleteStatus, Goto, Exit,
               StorageTypeOK, Call
    <3>2. Silent(c)
      BY <3>1, StepKinds
    <3>3. status[j] # Nil /\ call'[c].copy = [status[j] EXCEPT !.is_completed = TRUE]
      BY <1>4, <2>2, <3>2 DEF Silent
    <3>4. status[j] \in JobStatus
      BY <3>3 DEF StorageTypeOK
    <3>5. status[j].status = "completed"
      <4>1. [status[j] EXCEPT !.is_completed = TRUE].status = status[j].status
        BY ONLY <3>4 DEF JobStatus
      <4>2. call'[c].copy.status = "completed"
        BY <1>4, <2>2
      <4> QED
        BY <3>3, <4>1, <4>2
    <3>6. status[j] = Completed /\ Answering(j)
      BY <1>0, <3>3, <3>5 DEF AnswerInv
    <3>7. call'[c].copy = Completed
      <4> DEFINE s == [status[j] EXCEPT !.is_completed = TRUE]
      <4>1. s \in JobStatus /\ s.status = status[j].status /\ s.is_completed = TRUE
        BY ONLY <3>4 DEF s, JobStatus
      <4> HIDE DEF s
      <4>2. s = Completed
        BY <3>5, <4>1, CompletedIsThat
      <4> QED
        BY <3>3, <4>2 DEF s
    <3> QED
      BY <1>2, <2>2, <3>6, <3>7
  <2> QED
    BY <2>1, <2>2
<1> QED
  BY <1>3, <1>4 DEF AnswerInv

\* Without failing commands, a completed job that nobody is completing has its answer.
THEOREM CompletedJobsHaveAnswers == StorageSpec => []CompletedAtRestHasAnswer
<1>1. StorageInit => AnswerInv
  BY DEF StorageInit, AnswerInv, NoCall
<1>2. StorageTypeOK /\ SubscriptionInv /\ HeldInv /\ AnswerInv /\ [StorageNext]_storageVars
         => AnswerInv'
  <2> SUFFICES ASSUME StorageTypeOK, SubscriptionInv, HeldInv, AnswerInv,
                      [StorageNext]_storageVars
               PROVE  AnswerInv'
    OBVIOUS
  <2>1. ASSUME NEW c \in Clients, ClientStep(c)
        PROVE  AnswerInv'
    BY <2>1, StepKeepsAnswer
  <2>2. CASE UNCHANGED storageVars
    BY <2>2 DEF storageVars, AnswerInv, Answering
  <2> QED
    BY <2>1, <2>2 DEF StorageNext, ClientStep
<1>3. AnswerInv => CompletedAtRestHasAnswer
  <2> SUFFICES ASSUME AnswerInv, NEW j \in Jobs, faults = 0, status[j] = Completed,
                      ~Writing(j, {"complete"}, {"publish", "result"})
               PROVE  answer[j] # Nil
    BY DEF CompletedAtRestHasAnswer
  <2>1. Completed # Nil
    BY StatusValues
  <2>2. Answering(j)
    BY <2>1, StatusFacts DEF AnswerInv
  <2> QED
    BY <2>2 DEF Answering, Writing
<1> QED
  BY <1>1, <1>2, <1>3, StorageTypeCorrect, SubscriptionInvariant, HeldInvariant, PTL
     DEF StorageSpec

-----------------------------------------------------------------------------
(* Completed without having ended *)

\* A status only delete_job_status makes: completed, but neither COMPLETED nor ERROR.
Abnormal(s) == s.is_completed /\ s.status \notin {"completed", "error"}

\* Only a delete between its SET and its DEL leaves one in Redis.
LEMMA StepKeepsDeletion ==
    ASSUME StorageTypeOK, HeldInv, SubscriptionInv, OnlyDeletionEndsUnfinishedJob,
           NEW c \in Clients, ClientStep(c)
    PROVE  OnlyDeletionEndsUnfinishedJob'
<1> SUFFICES ASSUME NEW j \in Jobs, faults' = 0, status'[j] # Nil, Abnormal(status'[j])
             PROVE  Writing(j, {"delete"}, {"publish", "del"})'
  BY DEF OnlyDeletionEndsUnfinishedJob, Abnormal
<1>0. faults = 0
  BY FaultsOnlyGrow
<1>1. CASE SaveStatus(c) /\ call[c].job = j
  <2>1. call[c] \in Call
    BY <1>1, BusyCall DEF SaveStatus, StorageTypeOK, CallTypeOK
  <2>2. status'[j] = call[c].copy
    BY <1>1 DEF SaveStatus, StorageTypeOK
  <2>3. call[c].op = "delete"
    BY <1>1, <2>2, StatusFacts DEF SaveStatus, HeldInv, HeldBy, Abnormal, At
  <2>4. call' = [call EXCEPT ![c].at = "publish"]
    BY <1>1 DEF SaveStatus, Goto
  <2> QED
    BY <1>1, <2>1, <2>3, <2>4 DEF Writing, StorageTypeOK, Call
<1>2. CASE ~(SaveStatus(c) /\ call[c].job = j)
  <2>1. status'[j] = status[j]
    BY <1>2, StepKinds
       DEF SaveStatus, Publish, SaveResult, DeleteStatus, Silent, redis, StorageTypeOK
  <2>2. PICK d \in Clients :
             call[d].job = j /\ call[d].op = "delete" /\ call[d].at \in {"publish", "del"}
    BY <1>0, <2>1 DEF OnlyDeletionEndsUnfinishedJob, Writing, Abnormal
  <2>3. CASE d # c
    <3>1. call'[d] = call[d]
      BY <2>3, OthersKeepTheirSubscription
    <3> QED
      BY <2>2, <3>1 DEF Writing
  <2>4. CASE d = c
    <3>1. call[c] \in Call
      BY <2>2, <2>4, BusyCall DEF StorageTypeOK, CallTypeOK
    <3>2. ~DeleteStatus(c)
      BY <2>1, <2>2, <2>4 DEF DeleteStatus, StorageTypeOK
    <3>3. Publish(c)
      BY <2>2, <2>4, <3>2, StepKinds DEF SaveStatus, SaveResult, Silent
    <3>4. call' = [call EXCEPT ![c].at = "del"]
      BY <2>2, <2>4, <3>3 DEF Publish, AfterPublish, Goto
    <3> QED
      BY <2>2, <2>4, <3>1, <3>4 DEF Writing, StorageTypeOK, Call
  <2> QED
    BY <2>3, <2>4
<1> QED
  BY <1>1, <1>2

\* Without failing commands, a job that has not ended is marked completed only while it
\* is being deleted.
THEOREM OnlyDeletionEnds == StorageSpec => []OnlyDeletionEndsUnfinishedJob
<1>1. StorageInit => OnlyDeletionEndsUnfinishedJob
  BY DEF StorageInit, OnlyDeletionEndsUnfinishedJob
<1>2. /\ StorageTypeOK /\ SubscriptionInv /\ HeldInv
      /\ OnlyDeletionEndsUnfinishedJob /\ [StorageNext]_storageVars
      => OnlyDeletionEndsUnfinishedJob'
  <2> SUFFICES ASSUME StorageTypeOK, SubscriptionInv, HeldInv, OnlyDeletionEndsUnfinishedJob,
                      [StorageNext]_storageVars
               PROVE  OnlyDeletionEndsUnfinishedJob'
    OBVIOUS
  <2>1. ASSUME NEW c \in Clients, ClientStep(c)
        PROVE  OnlyDeletionEndsUnfinishedJob'
    BY <2>1, StepKeepsDeletion
  <2>2. CASE UNCHANGED storageVars
    BY <2>2 DEF storageVars, OnlyDeletionEndsUnfinishedJob, Writing
  <2> QED
    BY <2>1, <2>2 DEF StorageNext, ClientStep
<1> QED
  BY <1>1, <1>2, StorageTypeCorrect, SubscriptionInvariant, HeldInvariant, PTL DEF StorageSpec

-----------------------------------------------------------------------------
(* What a listener knows *)

\* The client listens, has read the status since, and has no notification left.
UpToDate(c) ==
    /\ channel[c] # Nil
    /\ call[c].at \in {"receive", "yield"}
    /\ call[c].copy # Nil
    /\ inbox[c] = 0

Notifying(j) == \E w \in Clients : call[w].job = j /\ call[w].at = "publish"

\* ListenerUpToDate, also while the consumer of the generator holds the update.
KnowledgeOf(c) ==
    UpToDate(c) => \/ status[call[c].job] \in {call[c].copy, Nil}
                   \/ Notifying(call[c].job)

KnowledgeInv == faults = 0 => \A c \in Clients : KnowledgeOf(c)

\* A listener that is up to date after its own step has just read the status, or was
\* so before.
LEMMA OwnKnowledge ==
    ASSUME StorageTypeOK, SubscriptionInv, NEW c \in Clients, ClientStep(c), UpToDate(c)'
    PROVE  /\ status' = status
           /\ call[c].at # "publish"
           /\ \/ call'[c].copy = status[call'[c].job]
              \/ UpToDate(c) /\ call'[c].job = call[c].job /\ call'[c].copy = call[c].copy
<1> USE DEF StorageTypeOK, UpToDate, redis, pubsub, At
<1>0. SubscriptionOf(c)
  BY DEF SubscriptionInv
<1>1. CASE StorageCall(c)
  BY <1>1 DEF StorageCall, WriteCall, ReadCall, ListenCall, Begin, create_job_status,
              update_job_status, complete_job, complete_job_error, delete_job_status,
              get_job_status, get_job_result, wait_completeness, subscribe
<1>2. ASSUME call[c].at # "idle"
      PROVE  call[c] \in Call
  BY <1>2, BusyCall DEF CallTypeOK
<1> USE DEF Goto, GotoWith, Exit, StopSubscription, Call
<1>3. CASE WriteStep(c) \/ DeleteStep(c)
  BY <1>2, <1>3 DEF WriteStep, DeleteStep, LoadMissing, LoadToUpdate, SaveStatus, Publish,
                    AfterPublish, SavePrompt, SaveResult, LoadToDelete, DeleteStatus
<1>4. CASE ReadStep(c)
  BY <1>2, <1>4 DEF ReadStep, LoadMissing, LoadToReturn, FetchResult
<1>5. CASE LoadMissing(c)
  BY <1>2, <1>5 DEF LoadMissing
<1>6. CASE LoadBeforeListening(c)
  BY <1>0, <1>2, <1>6 DEF LoadBeforeListening, SubscriptionOf
<1>7. CASE StartSubscription(c)
  BY <1>2, <1>7 DEF StartSubscription
<1>8. CASE Receive(c)
  BY <1>2, <1>8 DEF Receive
<1>9. CASE Timeout(c)
  BY <1>2, <1>9 DEF Timeout
<1>10. CASE ReloadMissing(c)
  BY <1>2, <1>10 DEF ReloadMissing
<1>11. CASE ReloadToWait(c)
  BY <1>2, <1>11 DEF ReloadToWait
<1>12. CASE ReloadToYield(c)
  BY <1>2, <1>12 DEF ReloadToYield
<1>13. CASE Resume(c)
  BY <1>2, <1>13 DEF Resume
<1>14. CASE CloseGenerator(c)
  BY <1>2, <1>14 DEF CloseGenerator
<1>15. CASE CommandFails(c)
  BY <1>2, <1>15 DEF CommandFails, Commands
<1> QED
  BY <1>1, <1>3, <1>4, <1>5, <1>6, <1>7, <1>8, <1>9, <1>10, <1>11, <1>12, <1>13, <1>14, <1>15
     DEF ClientStep, StorageStep, WaitStep, GeneratorStep

\* Only a PUBLISH reaches the inbox of another client.
LEMMA OnlyPublishNotifies ==
    ASSUME StorageTypeOK, NEW c \in Clients, NEW d \in Clients \ {c}, ClientStep(c), ~Publish(c)
    PROVE  inbox'[d] = inbox[d]
<1> USE DEF StorageTypeOK, redis, pubsub, StopSubscription
<1>1. CASE StorageCall(c)
  BY <1>1 DEF StorageCall, WriteCall, ReadCall, ListenCall, Begin, create_job_status,
              update_job_status, complete_job, complete_job_error, delete_job_status,
              get_job_status, get_job_result, wait_completeness, subscribe
<1>2. CASE WriteStep(c) \/ DeleteStep(c)
  BY <1>2 DEF WriteStep, DeleteStep, LoadMissing, LoadToUpdate, SaveStatus, SavePrompt, SaveResult,
              LoadToDelete, DeleteStatus
<1>3. CASE ReadStep(c)
  BY <1>3 DEF ReadStep, LoadMissing, LoadToReturn, FetchResult
<1>4. CASE WaitStep(c)
  BY <1>4 DEF WaitStep, LoadMissing, LoadBeforeListening, StartSubscription, Receive, Timeout,
              ReloadMissing, ReloadToWait
<1>5. CASE GeneratorStep(c)
  BY <1>5 DEF GeneratorStep, ReloadToYield, Resume, CloseGenerator
<1>6. CASE CommandFails(c)
  BY <1>6 DEF CommandFails
<1> QED
  BY <1>1, <1>2, <1>3, <1>4, <1>5, <1>6 DEF ClientStep, StorageStep

\* A step of one client leaves what another knows of its job true.
LEMMA OthersKeepKnowledge ==
    ASSUME StorageTypeOK, HeldInv, SubscriptionInv, NEW c \in Clients, NEW d \in Clients \ {c},
           ClientStep(c), faults' = 0, KnowledgeOf(d)
    PROVE  KnowledgeOf(d)'
<1>1. call'[d] = call[d] /\ channel'[d] = channel[d]
  BY OthersKeepTheirSubscription
<1> DEFINE j == call[d].job
<1> SUFFICES ASSUME UpToDate(d)'
             PROVE  \/ status'[j] \in {call[d].copy, Nil}
                    \/ \E w \in Clients : call'[w].job = j /\ call'[w].at = "publish"
  BY <1>1 DEF KnowledgeOf, Notifying
<1>2. channel[d] # Nil /\ channel[d] = j /\ call[d] \in Call /\ inbox'[d] = 0
  BY <1>1, BusyCall
     DEF UpToDate, SubscriptionInv, SubscriptionOf, StorageTypeOK, CallTypeOK
<1>3. ~(Publish(c) /\ call[c].job = j)
  BY <1>2 DEF Publish, Subscribers, StorageTypeOK
<1>4. inbox[d] = 0
  <2>1. CASE Publish(c)
    BY <1>2, <1>3, <2>1 DEF Publish, Subscribers
  <2>2. CASE ~Publish(c)
    BY <1>2, <2>2, OnlyPublishNotifies
  <2> QED
    BY <2>1, <2>2
<1>5. UpToDate(d)
  BY <1>1, <1>4 DEF UpToDate
<1>6. CASE SaveStatus(c) /\ call[c].job = j
  <2>1. call[c] \in Call
    BY <1>6, BusyCall DEF SaveStatus, StorageTypeOK, CallTypeOK
  <2>2. call' = [call EXCEPT ![c].at = "publish"]
    BY <1>6 DEF SaveStatus, Goto
  <2>3. call'[c].job = j /\ call'[c].at = "publish"
    BY <1>6, <2>1, <2>2 DEF StorageTypeOK, Call
  <2> QED
    BY <2>3
<1>7. CASE ~(SaveStatus(c) /\ call[c].job = j)
  <2>1. CASE Notifying(j)
    <3>1. PICK w \in Clients : call[w].job = j /\ call[w].at = "publish"
      BY <2>1 DEF Notifying
    <3>2. w # c
      BY <1>3, <3>1, StepKinds DEF SaveStatus, SaveResult, DeleteStatus, Silent
    <3>3. call'[w] = call[w]
      BY <3>2, OthersKeepTheirSubscription
    <3> QED
      BY <3>1, <3>3
  <2>2. CASE ~Notifying(j)
    <3>1. status[j] \in {call[d].copy, Nil}
      BY <1>5, <2>2 DEF KnowledgeOf
    <3>2. status'[j] = status[j] \/ status'[j] = Nil
      BY <1>2, <1>7, StepKinds
         DEF SaveStatus, Publish, SaveResult, DeleteStatus, Silent, redis, StorageTypeOK, Call
    <3> QED
      BY <3>1, <3>2
  <2> QED
    BY <2>1, <2>2
<1> QED
  BY <1>6, <1>7

\* And so does its own step.
LEMMA StepKeepsKnowledge ==
    ASSUME StorageTypeOK, HeldInv, SubscriptionInv, NEW c \in Clients, ClientStep(c), KnowledgeOf(c)
    PROVE  KnowledgeOf(c)'
<1> DEFINE j == call'[c].job
           copy == call'[c].copy
<1> SUFFICES ASSUME UpToDate(c)'
             PROVE  \/ status'[j] \in {copy, Nil}
                    \/ \E w \in Clients : call'[w].job = j /\ call'[w].at = "publish"
  BY DEF KnowledgeOf, Notifying
<1>1. /\ status' = status
      /\ call[c].at # "publish"
      /\ copy = status[j] \/ (UpToDate(c) /\ j = call[c].job /\ copy = call[c].copy)
  BY OwnKnowledge
<1>2. CASE Notifying(j)
  <2>1. PICK w \in Clients : call[w].job = j /\ call[w].at = "publish"
    BY <1>2 DEF Notifying
  <2>2. call'[w] = call[w]
    BY <1>1, <2>1, OthersKeepTheirSubscription
  <2> QED
    BY <2>1, <2>2
<1>3. CASE ~Notifying(j)
  BY <1>1, <1>3 DEF KnowledgeOf
<1> QED
  BY <1>2, <1>3

\* Without failing commands, a listener with an empty inbox knows the status of its job,
\* or is about to be told, or the job was deleted.
THEOREM ListenersAreUpToDate == StorageSpec => []ListenerUpToDate
<1>1. StorageInit => KnowledgeInv
  BY DEF StorageInit, KnowledgeInv, KnowledgeOf, UpToDate
<1>2. StorageTypeOK /\ SubscriptionInv /\ HeldInv /\ KnowledgeInv /\ [StorageNext]_storageVars
         => KnowledgeInv'
  <2> SUFFICES ASSUME StorageTypeOK, SubscriptionInv, HeldInv, KnowledgeInv,
                      [StorageNext]_storageVars
               PROVE  KnowledgeInv'
    OBVIOUS
  <2>1. ASSUME NEW c \in Clients, ClientStep(c), faults' = 0
        PROVE  \A d \in Clients : KnowledgeOf(d)'
    <3>1. \A d \in Clients : KnowledgeOf(d)
      BY <2>1, FaultsOnlyGrow DEF KnowledgeInv
    <3>2. KnowledgeOf(c)'
      BY <2>1, <3>1, StepKeepsKnowledge
    <3>3. ASSUME NEW d \in Clients \ {c}
          PROVE  KnowledgeOf(d)'
      BY <2>1, <3>1, <3>3, OthersKeepKnowledge
    <3> QED
      BY <3>2, <3>3
  <2>2. CASE UNCHANGED storageVars
    BY <2>2 DEF storageVars, KnowledgeInv, KnowledgeOf, UpToDate, Notifying
  <2> QED
    BY <2>1, <2>2 DEF StorageNext, ClientStep, KnowledgeInv
<1>3. StorageTypeOK /\ SubscriptionInv /\ KnowledgeInv => ListenerUpToDate
  <2> SUFFICES ASSUME StorageTypeOK, SubscriptionInv, KnowledgeInv, NEW c \in Clients,
                      faults = 0, At(c, Waits, "receive"), call[c].copy # Nil, inbox[c] = 0,
                      ~Writing(call[c].job, Operations, {"publish"})
               PROVE  status[call[c].job] \in {call[c].copy, Nil}
    BY DEF ListenerUpToDate
  <2>1. UpToDate(c)
    BY DEF UpToDate, At, SubscriptionInv, SubscriptionOf
  <2>2. ASSUME NEW w \in Clients, call[w].at = "publish"
        PROVE  call[w].op \in Operations
    BY <2>2, FrameFacts
  <2>3. ~Notifying(call[c].job)
    BY <2>2 DEF Notifying, Writing
  <2> QED
    BY <2>1, <2>3 DEF KnowledgeInv, KnowledgeOf
<1> QED
  BY <1>1, <1>2, <1>3, StorageTypeCorrect, SubscriptionInvariant, HeldInvariant, PTL
     DEF StorageSpec

=============================================================================
