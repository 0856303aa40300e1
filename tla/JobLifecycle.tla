---------------------------- MODULE JobLifecycle -----------------------------
(***************************************************************************)
(* What protollm-api promises about a job, whoever looks at it: the        *)
(* lifecycle the JobStatusType documentation describes.  A job is recorded *)
(* as pending, accepted for processing, runs and ends, possibly several    *)
(* times when a run is interrupted; once it is settled nothing about it    *)
(* changes any more.  JobPipeline implements this specification until      *)
(* RabbitMQ drops the connection of a worker.                              *)
(***************************************************************************)
CONSTANT Jobs

VARIABLES
    phase,      \* what the recorded status of a job says
    accepted,   \* the jobs handed over for processing
    answered,   \* the jobs whose answer is stored
    settled     \* the jobs that will never be processed again

lifecycleVars == <<phase, accepted, answered, settled>>

Terminal == {"completed", "error"}
Phases == {"absent", "pending", "in_progress"} \cup Terminal

LifecycleTypeOK ==
    /\ phase \in [Jobs -> Phases]
    /\ accepted \in SUBSET Jobs
    /\ answered \in SUBSET Jobs
    /\ settled \in SUBSET Jobs

LifecycleInit ==
    /\ phase = [j \in Jobs |-> "absent"]
    /\ accepted = {}
    /\ answered = {}
    /\ settled = {}

Create(j) ==
    /\ phase[j] = "absent"
    /\ phase' = [phase EXCEPT ![j] = "pending"]
    /\ UNCHANGED <<accepted, answered, settled>>

Accept(j) ==
    /\ phase[j] = "pending"
    /\ accepted' = accepted \cup {j}
    /\ UNCHANGED <<phase, answered, settled>>

Start(j) ==
    /\ j \in accepted \ settled
    /\ phase' = [phase EXCEPT ![j] = "in_progress"]
    /\ UNCHANGED <<accepted, answered, settled>>

Finish(j) ==
    /\ j \notin settled
    /\ phase[j] = "in_progress"
    /\ \E p \in Terminal : phase' = [phase EXCEPT ![j] = p]
    /\ UNCHANGED <<accepted, answered, settled>>

Answer(j) ==
    /\ j \notin settled
    /\ phase[j] = "completed"
    /\ answered' = answered \cup {j}
    /\ UNCHANGED <<phase, accepted, settled>>

Settle(j) ==
    /\ phase[j] \in Terminal
    /\ phase[j] = "completed" => j \in answered
    /\ settled' = settled \cup {j}
    /\ UNCHANGED <<phase, accepted, answered>>

LifecycleNext ==
    \E j \in Jobs : Create(j) \/ Accept(j) \/ Start(j) \/ Finish(j) \/ Answer(j) \/ Settle(j)

LifecycleSpec == LifecycleInit /\ [][LifecycleNext]_lifecycleVars

=============================================================================
