------------------------------ MODULE NodeJobs ------------------------------
(***************************************************************************)
(* The runs of scheduled jobs on a node: RUN_JOB in resources.rs, under    *)
(* the two timeouts that cron.ts gives it, and what else an operator asks  *)
(* of the node meanwhile: to prune Docker, to update the agent, to reboot. *)
(*                                                                         *)
(* A run pulls its image, creates and starts a container with the run's    *)
(* own name, waits until it exits or the job's timeout passes, reads the   *)
(* end of its log and removes it by force. The command as a whole is       *)
(* dropped after the job's timeout and a buffer.                           *)
(***************************************************************************)
EXTENDS Integers, Faults

CONSTANTS
    Runs,           \* runs of jobs
    JobTimeout,     \* timeoutMs of a job, in units of time
    JobBuffer       \* the 30 s that the command has beyond it

ASSUME JobAssumption == JobTimeout \in Nat \ {0} /\ JobBuffer \in Nat \ {0}

VARIABLES
    doing,      \* doing[r]: where the agent's task for the run stands, or what it reported
    shell,      \* shell[r]: the run's container
    exit,       \* exit[r]: how the job in it ended
    age,        \* age[r]: the time since the command was taken up
    waited,     \* waited[r]: how much of it was spent waiting for the exit
    pruned      \* history: the runs whose container a prune removed

jobVars == <<doing, shell, exit, age, waited, pruned>>

CommandTimeout == JobTimeout + JobBuffer

\* Mutant: the wait has the timeout of the command.
WaitAsCommand == CommandTimeout
WaitLimit == JobTimeout

Reported == {"succeeded", "failed", "timed_out"}
AtWork(r) == doing[r] \notin Reported \union {"none", "lost"}

JobsInit ==
    /\ doing = [r \in Runs |-> "none"]
    /\ shell = [r \in Runs |-> "absent"]
    /\ exit = [r \in Runs |-> "none"]
    /\ age = [r \in Runs |-> 0]
    /\ waited = [r \in Runs |-> 0]
    /\ pruned = {}

JobMoves(r, from, to) == doing[r] = from /\ doing' = [doing EXCEPT ![r] = to]

\* The container goes, and the job with it.
Removed(r) ==
    /\ shell' = [shell EXCEPT ![r] = "absent"]
    /\ exit' = [exit EXCEPT ![r] = IF shell[r] = "running" THEN "killed" ELSE @]

-----------------------------------------------------------------------------
(* A run *)

TakeUpJob(r) == JobMoves(r, "none", "pull") /\ UNCHANGED <<shell, exit, age, waited, pruned, faults>>

\* The registry may refuse.
PullJobImage(r) ==
    /\ \E to \in {"create", "failed"} : JobMoves(r, "pull", to)
    /\ UNCHANGED <<shell, exit, age, waited, pruned, faults>>

CreateJob(r) ==
    /\ JobMoves(r, "create", "start")
    /\ shell' = [shell EXCEPT ![r] = "created"]
    /\ UNCHANGED <<exit, age, waited, pruned, faults>>

\* Docker refuses when the image has no such program, and the container stays; or when
\* the container was pruned.
StartJob(r) ==
    /\ \/ shell[r] = "created" /\ JobMoves(r, "start", "wait")
          /\ shell' = [shell EXCEPT ![r] = "running"]
       \/ JobMoves(r, "start", "failed") /\ UNCHANGED shell
    /\ UNCHANGED <<exit, age, waited, pruned, faults>>

JobExits(r) ==
    /\ shell[r] = "running"
    /\ shell' = [shell EXCEPT ![r] = "exited"]
    /\ \E code \in {"zero", "other"} : exit' = [exit EXCEPT ![r] = code]
    /\ UNCHANGED <<doing, age, waited, pruned, faults>>

\* Docker may know nothing of a container that was pruned. An answer that ends without
\* a code counts as a zero.
SeeExit(r) ==
    /\ \/ shell[r] /= "running" /\ UNCHANGED faults
          /\ JobMoves(r, "wait", IF exit[r] = "zero" THEN "tidy" ELSE "tidy_failed")
       \/ shell[r] = "absent" /\ JobMoves(r, "wait", "tidy_failed") /\ UNCHANGED faults
       \/ Fault /\ \E to \in {"tidy", "tidy_failed"} : JobMoves(r, "wait", to)
    /\ UNCHANGED <<shell, exit, age, waited, pruned>>

Overrun(r) ==
    /\ waited[r] = WaitLimit /\ JobMoves(r, "wait", "tidy_failed")
    /\ UNCHANGED <<shell, exit, age, waited, pruned, faults>>

\* The log is read, then the container removed; the answer is not looked at.
TidyUp(r) ==
    /\ \/ JobMoves(r, "tidy", "succeeded")
       \/ JobMoves(r, "tidy_failed", "failed")
    /\ \/ Removed(r) /\ UNCHANGED faults
       \/ Fault /\ UNCHANGED <<shell, exit>>
    /\ UNCHANGED <<age, waited, pruned>>

\* The task is dropped where it stands.
CommandTimesOut(r) ==
    /\ AtWork(r) /\ age[r] = CommandTimeout
    /\ doing' = [doing EXCEPT ![r] = "timed_out"]
    /\ UNCHANGED <<shell, exit, age, waited, pruned, faults>>

\* No timer is overdue.
TimePasses ==
    /\ \E r \in Runs : AtWork(r)
    /\ \A r \in Runs : AtWork(r) =>
        age[r] < CommandTimeout /\ (doing[r] = "wait" => waited[r] < WaitLimit)
    /\ age' = [r \in Runs |-> IF AtWork(r) THEN age[r] + 1 ELSE age[r]]
    /\ waited' = [r \in Runs |-> IF doing[r] = "wait" THEN waited[r] + 1 ELSE waited[r]]
    /\ UNCHANGED <<doing, shell, exit, pruned, faults>>

-----------------------------------------------------------------------------
(* What else happens to the node *)

\* DOCKER_PRUNE removes every container that is not up.
PruneJobs ==
    /\ \E r \in Runs : shell[r] \in {"created", "exited"}
    /\ shell' = [r \in Runs |-> IF shell[r] = "running" THEN "running" ELSE "absent"]
    /\ pruned' = pruned \union {r \in Runs : shell[r] \in {"created", "exited"}}
    /\ UNCHANGED <<doing, exit, age, waited, faults>>

\* AGENT_UPDATE restarts the agent, which ends at once: its tasks are dropped, and
\* the agent that comes up knows nothing of them.
RestartAgent ==
    /\ \E r \in Runs : AtWork(r)
    /\ doing' = [r \in Runs |-> IF AtWork(r) THEN "lost" ELSE doing[r]]
    /\ UNCHANGED <<shell, exit, age, waited, pruned, faults>>

\* NODE_REBOOT, which the containers of jobs do not come back from.
RebootNode ==
    /\ \E r \in Runs : AtWork(r) \/ shell[r] = "running"
    /\ doing' = [r \in Runs |-> IF AtWork(r) THEN "lost" ELSE doing[r]]
    /\ shell' = [r \in Runs |-> IF shell[r] = "running" THEN "exited" ELSE shell[r]]
    /\ exit' = [r \in Runs |-> IF shell[r] = "running" THEN "killed" ELSE exit[r]]
    /\ UNCHANGED <<age, waited, pruned, faults>>

-----------------------------------------------------------------------------
JobsNext ==
    \/ \E r \in Runs :
        \/ TakeUpJob(r) \/ PullJobImage(r) \/ CreateJob(r) \/ StartJob(r) \/ JobExits(r)
        \/ SeeExit(r) \/ Overrun(r) \/ TidyUp(r) \/ CommandTimesOut(r)
    \/ TimePasses \/ PruneJobs \/ RestartAgent \/ RebootNode

JobsSpec == JobsInit /\ faults = 0 /\ [][JobsNext]_<<jobVars, faults>>

-----------------------------------------------------------------------------
(* Properties *)

JobsTypeOK ==
    /\ doing \in [Runs -> Reported \union {"none", "pull", "create", "start", "wait", "tidy",
                                         "tidy_failed", "lost"}]
    /\ shell \in [Runs -> {"absent", "created", "running", "exited"}]
    /\ exit \in [Runs -> {"none", "zero", "other", "killed"}]
    /\ age \in [Runs -> 0 .. CommandTimeout]
    /\ waited \in [Runs -> 0 .. WaitLimit]
    /\ pruned \subseteq Runs

\* If Docker did what it was asked to do, a run that was reported ended as reported: a
\* success exited with zero, a failure that exited with zero did so as its time ran
\* out or was pruned before it was seen, and a job is left running, or its container
\* behind, only if pulling, starting and tidying up took the whole buffer.
JobsEndAsReported ==
    \A r \in Runs : doing[r] \in Reported /\ faults = 0 =>
        /\ doing[r] = "succeeded" => exit[r] = "zero"
        /\ doing[r] = "failed" /\ exit[r] = "zero" => waited[r] = JobTimeout \/ r \in pruned
        /\ shell[r] \in {"running", "exited"} =>
            doing[r] = "timed_out" /\ age[r] - waited[r] >= JobBuffer
=============================================================================
