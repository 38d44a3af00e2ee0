------------------------------- MODULE MCJobs -------------------------------
(***************************************************************************)
(* The election of the process that runs the jobs and what jobs and        *)
(* background tasks do, for one run of TLC.  The modules share no state,   *)
(* so they are run side by side and not together: job says which one a     *)
(* behaviour is about.                                                     *)
(***************************************************************************)
EXTENDS JobLeader, OcUsage, UserStatus, Lifecycle, SubBuffer

VARIABLE job

jobsVars == <<job, vars, usageVars, statusVars, lifecycleVars, bufferVars>>

JobsInit ==
    /\ job \in {"leader", "usage", "status", "lifecycle", "buffer"}
    /\ Init /\ UsageInit /\ StatusInit /\ LifecycleInit /\ BufferInit
    /\ job # "usage" => runner = CHOOSE p \in Processes : TRUE
    /\ job # "status" => row = NewUser(FALSE)

Leader == job = "leader" /\ UNCHANGED <<job, usageVars, statusVars, lifecycleVars, bufferVars>>
Usages == job = "usage" /\ UNCHANGED <<job, vars, statusVars, lifecycleVars, bufferVars>>
Status == job = "status" /\ UNCHANGED <<job, vars, usageVars, lifecycleVars, bufferVars>>
Nodes  == job = "lifecycle" /\ UNCHANGED <<job, vars, usageVars, statusVars, bufferVars>>
Buffer == job = "buffer" /\ UNCHANGED <<job, vars, usageVars, statusVars, lifecycleVars>>

JobsNext ==
    \/ Leader /\ Next
    \/ Usages /\ UsageNext
    \/ Status /\ StatusNext
    \/ Nodes /\ LifecycleNext
    \/ Buffer /\ BufferNext

\* Time passes and tasks are run; the jobs are scheduled, and a session that is open comes to its
\* end.
JobsFairness ==
    /\ WF_jobsVars(Leader /\ Tick)
    /\ \A p \in Procs : WF_jobsVars(Leader /\ Step(p))
    /\ \A p \in Processes :
          /\ WF_jobsVars(Usages /\ StartRun(p))
          /\ \A m \in Mappings :
                WF_jobsVars(Usages /\ Fetch(p, m)) /\ WF_jobsVars(Usages /\ Account(p, m))
    /\ \A s \in {"limit", "expire"} : WF_jobsVars(Status /\ Review(s))
    /\ \A s \in Sessions : WF_jobsVars(Status /\ Proceeds(s))

JobsSpec == JobsInit /\ [][JobsNext]_jobsVars /\ JobsFairness

\* The type invariants of the five modules.
JobsTypeOK == TypeOK /\ UsageTypeOK /\ StatusTypeOK /\ LifecycleTypeOK /\ BufferTypeOK
=============================================================================
