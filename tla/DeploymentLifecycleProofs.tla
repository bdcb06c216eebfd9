---------------------- MODULE DeploymentLifecycleProofs ----------------------
(***************************************************************************)
(* Theorems about DeploymentLifecycle, for every set of apps and of        *)
(* deployments and every bound.  IInv is inductive; its parts say who may  *)
(* dispatch (JobInv), what the node must have done before an outcome is    *)
(* recorded (OutcomeInv), what a finalizing transaction knows of the rows  *)
(* it has read (FinalInv), and which rows exist when a process writes them *)
(* (RowInv).                                                               *)
(***************************************************************************)
EXTENDS DeploymentLifecycle, TLAPS

\* Points of a deploy job from which it may still dispatch its command.
Before(d, k) == job[d][k] \in {"build", "package", "dispatch"}

\* The execution of the command is over.
Past(d) == exec[d] \in {"report", "reported", "lost"}

\* At most one run of the deploy job gets past the creation of the pipeline
\* run, and it does so before the command exists.
JobInv ==
    \A d \in Deployments :
        /\ birth[d] \notin {"enqueued", "rolledBack"} => commands[d] = 0
        /\ run[d] = "none" /\ birth[d] /= "rolledBack" => commands[d] = 0
        /\ commands[d] <= 1
        /\ \A k \in Attempts :
              /\ job[d][k] /= "idle" => birth[d] = "enqueued"
              /\ Before(d, k) => commands[d] = 0 /\ run[d] /= "none"
        /\ \A k, l \in Attempts : Before(d, k) /\ Before(d, l) => k = l

\* What is recorded of a deployment, and about to be, agrees with an execution
\* that is over.
OutcomeInv ==
    /\ \A d \in Deployments :
          /\ handler[d] /= "idle" => exec[d] = "reported"
          /\ handler[d] \in {"mark", "marked", "scanned", "closeOk"} => outcome[d] = "ok"
          /\ run[d] = "succeeded" => outcome[d] = "ok" /\ Past(d)
    /\ \A a \in Apps : current[a] /= NoDeployment =>
          AppOf[current[a]] = a /\ outcome[current[a]] = "ok" /\ Past(current[a])

\* A transaction that is alone with its app has seen every running sibling.
FinalInv ==
    /\ \A d \in Deployments :
          /\ scanned[d] \subseteq Siblings(d)
          /\ \A e \in Siblings(d) : Locked(d) /\ Locked(e) => AppOf[d] \in overlapped
          /\ AppOf[d] \notin overlapped /\ handler[d] = "scanned" =>
                \A e \in Siblings(d) : status[e] = "running" => e \in scanned[d]
    /\ RunningIsCurrent

\* Whoever writes a row finds it there: the deployment before its jobs, its command
\* and its reports, the run before its end; and the node ends a command once.
RowInv ==
    \A d \in Deployments :
        /\ birth[d] \in {"unborn", "admitted"} => status[d] = "none"
        /\ birth[d] \notin {"unborn", "admitted", "orphan"} => status[d] /= "none"
        /\ exec[d] /= "none" => commands[d] > 0
        /\ exec[d] \in {"none", "begin", "work"} => outcome[d] = "none"
        /\ net[d] /= "none" => birth[d] = "enqueued"
        /\ scanned[d] /= {} => handler[d] = "scanned"
        /\ \A k \in Attempts :
              job[d][k] \in {"build", "package", "dispatch", "net", "failRun"} => run[d] /= "none"

IInv == TypeOK /\ JobInv /\ OutcomeInv /\ FinalInv /\ RowInv

-----------------------------------------------------------------------------
\* The inductive invariant holds initially.
LEMMA InitInv == Init => IInv
BY DeploymentsAssumption, AppOfAssumption
   DEF Init, IInv, TypeOK, Statuses, JobPoints, HandlerPoints, JobInv, Before, OutcomeInv,
       Past, FinalInv, RunningIsCurrent, Siblings, Locked, RowInv, Attempts

\* Every step keeps the types.
LEMMA TypeNext == TypeOK /\ [Next]_vars => TypeOK'
<1>. SUFFICES ASSUME TypeOK, [Next]_vars PROVE TypeOK'
  OBVIOUS
<1>1. ASSUME NEW d \in Deployments, Admit(d)
      PROVE  TypeOK'
  BY <1>1 DEF TypeOK, Admit, appVars, workerVars, nodeVars, apiVars, bounds
<1>2. ASSUME NEW d \in Deployments, Create(d)
      PROVE  TypeOK'
  <2>1. status' \in [Deployments -> Statuses]
    BY <1>2 DEF TypeOK, Statuses, Create
  <2>2. usage' \in Nat
    BY <1>2 DEF TypeOK, Create
  <2>3. appStatus' \in [Apps -> {"idle", "building", "deploying", "running", "stopped", "failed"}]
    BY <1>2 DEF TypeOK, Create, SetAppStatus
  <2>. QED
    BY <1>2, <2>1, <2>2, <2>3 DEF TypeOK, Create, workerVars, nodeVars, apiVars, bounds
<1>3. ASSUME NEW d \in Deployments, Enqueue(d)
      PROVE  TypeOK'
  BY <1>3 DEF TypeOK, Enqueue, appVars, workerVars, nodeVars, apiVars, bounds
<1>4. ASSUME NEW d \in Deployments, CreatorDies(d)
      PROVE  TypeOK'
  BY <1>4 DEF TypeOK, CreatorDies, appVars, workerVars, nodeVars, apiVars,
     Fault
<1>5. ASSUME NEW d \in Deployments, NEW k \in Attempts, Pick(d, k)
      PROVE  TypeOK'
  BY <1>5 DEF TypeOK, JobPoints, Attempts, Pick, rowVars, appVars, nodeVars,
     apiVars, bounds, Goto, Start
<1>6. ASSUME NEW d \in Deployments, NEW k \in Attempts, Stall(d, k)
      PROVE  TypeOK'
  BY <1>6 DEF TypeOK, JobPoints, Attempts, Stall, rowVars, appVars, nodeVars,
     apiVars, Fault, Goto, Start
<1>7. ASSUME NEW d \in Deployments, NEW k \in Attempts, CreateRun(d, k)
      PROVE  TypeOK'
  <2>1. run' \in [Deployments -> {"none", "running", "succeeded", "failed"}]
    <3>1. run' = run \/ run' = [run EXCEPT ![d] = "running"]
      BY <1>7 DEF CreateRun
    <3>. QED  BY <3>1 DEF TypeOK
  <2>2. job' \in [Deployments -> [Attempts -> JobPoints]]
    <3>1. PICK pc \in {"build", "ended"} : job' = [job EXCEPT ![d][k] = pc]
      BY <1>7 DEF CreateRun, Goto
    <3>. QED  BY <3>1 DEF TypeOK, JobPoints
  <2>. QED
    BY <1>7, <2>1, <2>2 DEF TypeOK, CreateRun, rowVars, appVars, nodeVars, apiVars, bounds
<1>8. ASSUME NEW d \in Deployments, NEW k \in Attempts, Build(d, k)
      PROVE  TypeOK'
  BY <1>8 DEF TypeOK, Statuses, JobPoints, Attempts, Build, appVars, nodeVars,
     apiVars, bounds, SetStatus, Goto
<1>9. ASSUME NEW d \in Deployments, NEW k \in Attempts, Package(d, k)
      PROVE  TypeOK'
  BY <1>9 DEF TypeOK, Statuses, JobPoints, Attempts, Package, appVars,
     nodeVars, apiVars, bounds, SetStatus, Goto
<1>10. ASSUME NEW d \in Deployments, NEW k \in Attempts, Dispatch(d, k)
      PROVE  TypeOK'
  BY <1>10 DEF TypeOK, JobPoints, Attempts, Dispatch, rowVars, appVars,
     apiVars, bounds, Goto
<1>11. ASSUME NEW d \in Deployments, NEW k \in Attempts, AddNet(d, k)
      PROVE  TypeOK'
  BY <1>11 DEF TypeOK, JobPoints, Attempts, AddNet, rowVars, appVars,
     nodeVars, apiVars, bounds, Goto
<1>12. ASSUME NEW d \in Deployments, NEW k \in Attempts, JobThrows(d, k)
      PROVE  TypeOK'
  BY <1>12 DEF TypeOK, JobPoints, Attempts, JobThrows, rowVars, appVars,
     nodeVars, apiVars, Fault, Goto
<1>13. ASSUME NEW d \in Deployments, NEW k \in Attempts, JobAborts(d, k)
      PROVE  TypeOK'
  BY <1>13 DEF TypeOK, JobPoints, Attempts, JobAborts, rowVars, appVars,
     nodeVars, apiVars, Fault, Goto
<1>14. ASSUME NEW d \in Deployments, NEW k \in Attempts, FailRun(d, k)
      PROVE  TypeOK'
  BY <1>14 DEF TypeOK, JobPoints, Attempts, FailRun, rowVars, appVars,
     nodeVars, apiVars, bounds, Goto
<1>15. ASSUME NEW d \in Deployments, NEW k \in Attempts, FailDeployment(d, k)
      PROVE  TypeOK'
  BY <1>15 DEF TypeOK, Statuses, JobPoints, Attempts, FailDeployment, appVars,
     nodeVars, apiVars, bounds, SetStatus, Goto
<1>16. ASSUME NEW d \in Deployments, NEW k \in Attempts, FailApp(d, k)
      PROVE  TypeOK'
  BY <1>16, AppOfAssumption DEF TypeOK, JobPoints, Attempts, FailApp, rowVars,
     nodeVars, apiVars, bounds, SetAppStatus, Goto
<1>17. ASSUME NEW d \in Deployments, NEW k \in Attempts, WorkerDies(d, k)
      PROVE  TypeOK'
  BY <1>17 DEF TypeOK, JobPoints, Attempts, WorkerDies, rowVars, appVars,
     nodeVars, apiVars, Fault, Goto
<1>18. ASSUME NEW d \in Deployments, NetReads(d)
      PROVE  TypeOK'
  BY <1>18 DEF TypeOK, NetReads, rowVars, appVars, nodeVars, apiVars, bounds
<1>19. ASSUME NEW d \in Deployments, NetFailsDeployment(d)
      PROVE  TypeOK'
  BY <1>19 DEF TypeOK, Statuses, NetFailsDeployment, appVars, nodeVars,
     apiVars, bounds, SetStatus
<1>20. ASSUME NEW d \in Deployments, NetFailsApp(d)
      PROVE  TypeOK'
  BY <1>20, AppOfAssumption DEF TypeOK, NetFailsApp, rowVars, nodeVars,
     apiVars, bounds, SetAppStatus
<1>21. ASSUME NEW d \in Deployments, NetFailsRun(d)
      PROVE  TypeOK'
  BY <1>21 DEF TypeOK, NetFailsRun, rowVars, appVars, nodeVars, apiVars,
     bounds
<1>22. ASSUME NEW d \in Deployments, NetDies(d)
      PROVE  TypeOK'
  BY <1>22 DEF TypeOK, NetDies, rowVars, appVars, nodeVars, apiVars, Fault
<1>23. ASSUME NEW d \in Deployments, RollbackRow(d)
      PROVE  TypeOK'
  BY <1>23 DEF TypeOK, Statuses, RollbackRow, appVars, workerVars, nodeVars,
     apiVars, bounds
<1>24. ASSUME NEW d \in Deployments, RollbackApp(d)
      PROVE  TypeOK'
  BY <1>24, AppOfAssumption DEF TypeOK, RollbackApp, workerVars, nodeVars,
     apiVars, bounds, SetAppStatus
<1>25. ASSUME NEW d \in Deployments, RollbackDispatch(d)
      PROVE  TypeOK'
  BY <1>25 DEF TypeOK, RollbackDispatch, appVars, workerVars, apiVars, bounds
<1>26. ASSUME NEW d \in Deployments, Take(d)
      PROVE  TypeOK'
  BY <1>26 DEF TypeOK, Take, rowVars, appVars, workerVars, apiVars, bounds
<1>27. ASSUME NEW d \in Deployments, Refuse(d)
      PROVE  TypeOK'
  BY <1>27 DEF TypeOK, Refuse, rowVars, appVars, workerVars, apiVars, bounds
<1>28. ASSUME NEW d \in Deployments, ReportRunning(d)
      PROVE  TypeOK'
  BY <1>28 DEF TypeOK, Statuses, ReportRunning, appVars, workerVars, apiVars,
     bounds, SetStatus
<1>29. ASSUME NEW d \in Deployments, Work(d)
      PROVE  TypeOK'
  BY <1>29 DEF TypeOK, Work, rowVars, appVars, workerVars, apiVars, bounds
<1>30. ASSUME NEW d \in Deployments, NodeLoses(d)
      PROVE  TypeOK'
  BY <1>30 DEF TypeOK, NodeLoses, rowVars, appVars, workerVars, apiVars, Fault
<1>31. ASSUME NEW d \in Deployments, ReportEnd(d)
      PROVE  TypeOK'
  BY <1>31 DEF TypeOK, HandlerPoints, ReportEnd, rowVars, appVars, workerVars,
     bounds
<1>32. ASSUME NEW d \in Deployments, RunningAgain(d)
      PROVE  TypeOK'
  BY <1>32 DEF TypeOK, Statuses, RunningAgain, appVars, workerVars, nodeVars,
     apiVars, Fault, SetStatus
<1>33. ASSUME NEW d \in Deployments, EndAgain(d)
      PROVE  TypeOK'
  BY <1>33 DEF TypeOK, HandlerPoints, EndAgain, rowVars, appVars, workerVars,
     nodeVars, Fault
<1>34. ASSUME NEW d \in Deployments, FinalizeMark(d)
      PROVE  TypeOK'
  <2>1. overlapped' \subseteq Apps
    BY <1>34, AppOfAssumption DEF TypeOK, FinalizeMark
  <2>2. handler' \in [Deployments -> HandlerPoints]
    BY <1>34 DEF TypeOK, HandlerPoints, FinalizeMark, Step
  <2>. QED
    BY <1>34, <2>1, <2>2
    DEF TypeOK, FinalizeMark, rowVars, appVars, workerVars, nodeVars, bounds
<1>35. ASSUME NEW d \in Deployments, FinalizeScan(d)
      PROVE  TypeOK'
  BY <1>35 DEF TypeOK, HandlerPoints, FinalizeScan, rowVars, appVars,
     workerVars, nodeVars, bounds, Step, Siblings
<1>36. ASSUME NEW d \in Deployments, FinalizeCommit(d)
      PROVE  TypeOK'
  BY <1>36, AppOfAssumption DEF TypeOK, Statuses, HandlerPoints,
     FinalizeCommit, workerVars, nodeVars, bounds, SetAppStatus, Step
<1>37. ASSUME NEW d \in Deployments, FailDeploy(d)
      PROVE  TypeOK'
  BY <1>37 DEF TypeOK, Statuses, HandlerPoints, FailDeploy, appVars,
     workerVars, nodeVars, bounds, SetStatus, Step
<1>38. ASSUME NEW d \in Deployments, FailDeployApp(d)
      PROVE  TypeOK'
  BY <1>38, AppOfAssumption DEF TypeOK, HandlerPoints, FailDeployApp, rowVars,
     workerVars, nodeVars, bounds, SetAppStatus, Step
<1>39. ASSUME NEW d \in Deployments, ClosePipelineRun(d)
      PROVE  TypeOK'
  BY <1>39 DEF TypeOK, HandlerPoints, ClosePipelineRun, rowVars, appVars,
     workerVars, nodeVars, bounds, Step
<1>40. ASSUME NEW d \in Deployments, HandlerDies(d)
      PROVE  TypeOK'
  BY <1>40 DEF TypeOK, HandlerPoints, HandlerDies, rowVars, appVars,
     workerVars, Fault
<1>41. ASSUME NEW d \in Deployments, Deadlock(d)
      PROVE  TypeOK'
  BY <1>41 DEF TypeOK, HandlerPoints, Deadlock, rowVars, appVars, workerVars,
     bounds
<1>42. ASSUME NEW a \in Apps, StopApp(a)
      PROVE  TypeOK'
  BY <1>42, AppOfAssumption DEF TypeOK, StopApp, rowVars, workerVars,
     nodeVars, apiVars, Operation
<1>43. ASSUME NEW a \in Apps, DeleteApp(a)
      PROVE  TypeOK'
  BY <1>43, AppOfAssumption DEF TypeOK, DeleteApp, rowVars, workerVars,
     nodeVars, apiVars, Operation
<1>44. ASSUME NEW a \in Apps, MoveApp(a)
      PROVE  TypeOK'
  BY <1>44 DEF TypeOK, MoveApp, rowVars, workerVars, nodeVars, apiVars,
     Operation
<1>45. CASE UNCHANGED vars
  BY <1>45 DEF TypeOK, vars, rowVars, appVars, workerVars, nodeVars, apiVars,
     bounds
<1>46. ASSUME NEW d \in Deployments, RunningUnreported(d)
      PROVE  TypeOK'
  BY <1>46 DEF TypeOK, RunningUnreported, rowVars, appVars, workerVars,
     apiVars, Fault
<1>. QED
  BY <1>1, <1>2, <1>3, <1>4, <1>5, <1>6, <1>7, <1>8, <1>9, <1>10, <1>11,
     <1>12, <1>13, <1>14, <1>15, <1>16, <1>17, <1>18, <1>19, <1>20, <1>21,
     <1>22, <1>23, <1>24, <1>25, <1>26, <1>27, <1>28, <1>29, <1>30, <1>31,
     <1>32, <1>33, <1>34, <1>35, <1>36, <1>37, <1>38, <1>39, <1>40, <1>41,
     <1>42, <1>43, <1>44, <1>45, <1>46 DEF Next, Creation, DeployJob, DeployJobStep,
     SafetyNetJob, NetStep, RollbackJob, Node, Handler, HandlerStep, Operator

\* Every step keeps the claim of a job on its command.
LEMMA JobNext == TypeOK /\ JobInv /\ [Next]_vars => JobInv'
<1>. SUFFICES ASSUME TypeOK, JobInv, [Next]_vars PROVE JobInv'
  OBVIOUS
<1>1. ASSUME NEW d \in Deployments, Admit(d)
      PROVE  JobInv'
  BY <1>1 DEF TypeOK, JobInv, Before, Attempts, Admit, appVars, workerVars,
     nodeVars, apiVars
<1>2. ASSUME NEW d \in Deployments, Create(d)
      PROVE  JobInv'
  BY <1>2 DEF TypeOK, JobInv, Before, Attempts, Create, workerVars, nodeVars,
     apiVars
<1>3. ASSUME NEW d \in Deployments, Enqueue(d)
      PROVE  JobInv'
  BY <1>3 DEF TypeOK, JobInv, Before, Attempts, Enqueue, appVars, workerVars,
     nodeVars, apiVars
<1>4. ASSUME NEW d \in Deployments, CreatorDies(d)
      PROVE  JobInv'
  BY <1>4 DEF TypeOK, JobInv, Before, Attempts, CreatorDies, appVars,
     workerVars, nodeVars, apiVars
<1>5. ASSUME NEW d \in Deployments, NEW k \in Attempts, Pick(d, k)
      PROVE  JobInv'
  BY <1>5 DEF TypeOK, JobInv, Before, Attempts, Pick, rowVars, appVars,
     nodeVars, apiVars, Goto, Start
<1>6. ASSUME NEW d \in Deployments, NEW k \in Attempts, Stall(d, k)
      PROVE  JobInv'
  BY <1>6 DEF TypeOK, JobInv, Before, Attempts, Stall, rowVars, appVars,
     nodeVars, apiVars, Goto, Start
<1>7. ASSUME NEW d \in Deployments, NEW k \in Attempts, CreateRun(d, k)
      PROVE  JobInv'
  BY <1>7 DEF TypeOK, JobInv, Before, Attempts, CreateRun, rowVars, appVars,
     nodeVars, apiVars, Goto
<1>8. ASSUME NEW d \in Deployments, NEW k \in Attempts, Build(d, k)
      PROVE  JobInv'
  BY <1>8 DEF TypeOK, JobInv, Before, Attempts, Build, appVars, nodeVars,
     apiVars, Goto
<1>9. ASSUME NEW d \in Deployments, NEW k \in Attempts, Package(d, k)
      PROVE  JobInv'
  BY <1>9 DEF TypeOK, JobInv, Before, Attempts, Package, appVars, nodeVars,
     apiVars, Goto
<1>10. ASSUME NEW d \in Deployments, NEW k \in Attempts, Dispatch(d, k)
      PROVE  JobInv'
  BY <1>10 DEF TypeOK, JobInv, Before, Attempts, Dispatch, rowVars, appVars,
     apiVars, Goto
<1>11. ASSUME NEW d \in Deployments, NEW k \in Attempts, AddNet(d, k)
      PROVE  JobInv'
  BY <1>11 DEF TypeOK, JobInv, Before, Attempts, AddNet, rowVars, appVars,
     nodeVars, apiVars, Goto
<1>12. ASSUME NEW d \in Deployments, NEW k \in Attempts, JobThrows(d, k)
      PROVE  JobInv'
  BY <1>12 DEF TypeOK, JobInv, Before, Attempts, JobThrows, rowVars, appVars,
     nodeVars, apiVars, Goto
<1>13. ASSUME NEW d \in Deployments, NEW k \in Attempts, JobAborts(d, k)
      PROVE  JobInv'
  BY <1>13 DEF TypeOK, JobInv, Before, Attempts, JobAborts, rowVars, appVars,
     nodeVars, apiVars, Goto
<1>14. ASSUME NEW d \in Deployments, NEW k \in Attempts, FailRun(d, k)
      PROVE  JobInv'
  BY <1>14 DEF TypeOK, JobInv, Before, Attempts, FailRun, rowVars, appVars,
     nodeVars, apiVars, Goto
<1>15. ASSUME NEW d \in Deployments, NEW k \in Attempts, FailDeployment(d, k)
      PROVE  JobInv'
  BY <1>15 DEF TypeOK, JobInv, Before, Attempts, FailDeployment, appVars,
     nodeVars, apiVars, Goto
<1>16. ASSUME NEW d \in Deployments, NEW k \in Attempts, FailApp(d, k)
      PROVE  JobInv'
  BY <1>16 DEF TypeOK, JobInv, Before, Attempts, FailApp, rowVars, nodeVars,
     apiVars, Goto
<1>17. ASSUME NEW d \in Deployments, NEW k \in Attempts, WorkerDies(d, k)
      PROVE  JobInv'
  BY <1>17 DEF TypeOK, JobInv, Before, Attempts, WorkerDies, rowVars, appVars,
     nodeVars, apiVars, Goto
<1>18. ASSUME NEW d \in Deployments, NetFailsRun(d)
      PROVE  JobInv'
  BY <1>18 DEF TypeOK, JobInv, Before, Attempts, NetFailsRun, rowVars,
     appVars, nodeVars, apiVars
<1>19. ASSUME NEW d \in Deployments, RollbackRow(d)
      PROVE  JobInv'
  BY <1>19 DEF TypeOK, JobInv, Before, Attempts, RollbackRow, appVars,
     workerVars, nodeVars, apiVars
<1>20. ASSUME NEW d \in Deployments, RollbackApp(d)
      PROVE  JobInv'
  BY <1>20 DEF TypeOK, JobInv, Before, Attempts, RollbackApp, workerVars,
     nodeVars, apiVars
<1>21. ASSUME NEW d \in Deployments, RollbackDispatch(d)
      PROVE  JobInv'
  BY <1>21 DEF TypeOK, JobInv, Before, Attempts, RollbackDispatch, appVars,
     workerVars, apiVars
<1>22. ASSUME NEW d \in Deployments, ClosePipelineRun(d)
      PROVE  JobInv'
  BY <1>22 DEF TypeOK, JobInv, Before, Attempts, ClosePipelineRun, rowVars,
     appVars, workerVars, nodeVars, Step
<1>23. ASSUME UNCHANGED <<birth, commands, run, job>>
      PROVE  JobInv'
  BY <1>23 DEF JobInv, Before
<1>24. CASE UNCHANGED vars
  BY <1>24, <1>23 DEF vars, rowVars, appVars, workerVars, nodeVars, apiVars,
     bounds
<1>25. ASSUME NEW d \in Deployments, NetReads(d)
      PROVE  JobInv'
  BY <1>25, <1>23 DEF NetReads, rowVars, appVars, nodeVars, apiVars, bounds
<1>26. ASSUME NEW d \in Deployments, NetFailsDeployment(d)
      PROVE  JobInv'
  BY <1>26, <1>23 DEF NetFailsDeployment, appVars, nodeVars, apiVars, bounds
<1>27. ASSUME NEW d \in Deployments, NetFailsApp(d)
      PROVE  JobInv'
  BY <1>27, <1>23 DEF NetFailsApp, rowVars, nodeVars, apiVars, bounds,
     SetAppStatus
<1>28. ASSUME NEW d \in Deployments, NetDies(d)
      PROVE  JobInv'
  BY <1>28, <1>23 DEF NetDies, rowVars, appVars, nodeVars, apiVars, Fault
<1>29. ASSUME NEW d \in Deployments, Take(d)
      PROVE  JobInv'
  BY <1>29, <1>23 DEF Take, rowVars, appVars, workerVars, apiVars, bounds
<1>30. ASSUME NEW d \in Deployments, Refuse(d)
      PROVE  JobInv'
  BY <1>30, <1>23 DEF Refuse, rowVars, appVars, workerVars, apiVars, bounds
<1>31. ASSUME NEW d \in Deployments, ReportRunning(d)
      PROVE  JobInv'
  BY <1>31, <1>23 DEF ReportRunning, appVars, workerVars, apiVars, bounds
<1>32. ASSUME NEW d \in Deployments, Work(d)
      PROVE  JobInv'
  BY <1>32, <1>23 DEF Work, rowVars, appVars, workerVars, apiVars, bounds
<1>33. ASSUME NEW d \in Deployments, NodeLoses(d)
      PROVE  JobInv'
  BY <1>33, <1>23 DEF NodeLoses, rowVars, appVars, workerVars, apiVars, Fault
<1>34. ASSUME NEW d \in Deployments, ReportEnd(d)
      PROVE  JobInv'
  BY <1>34, <1>23 DEF ReportEnd, rowVars, appVars, workerVars, bounds
<1>35. ASSUME NEW d \in Deployments, RunningAgain(d)
      PROVE  JobInv'
  BY <1>35, <1>23 DEF RunningAgain, appVars, workerVars, nodeVars, apiVars,
     Fault
<1>36. ASSUME NEW d \in Deployments, EndAgain(d)
      PROVE  JobInv'
  BY <1>36, <1>23 DEF EndAgain, rowVars, appVars, workerVars, nodeVars, Fault
<1>37. ASSUME NEW d \in Deployments, FinalizeMark(d)
      PROVE  JobInv'
  BY <1>37, <1>23 DEF FinalizeMark, rowVars, appVars, workerVars, nodeVars,
     bounds
<1>38. ASSUME NEW d \in Deployments, FinalizeScan(d)
      PROVE  JobInv'
  BY <1>38, <1>23 DEF FinalizeScan, rowVars, appVars, workerVars, nodeVars,
     bounds
<1>39. ASSUME NEW d \in Deployments, FinalizeCommit(d)
      PROVE  JobInv'
  BY <1>39, <1>23 DEF FinalizeCommit, workerVars, nodeVars, bounds,
     SetAppStatus
<1>40. ASSUME NEW d \in Deployments, FailDeploy(d)
      PROVE  JobInv'
  BY <1>40, <1>23 DEF FailDeploy, appVars, workerVars, nodeVars, bounds
<1>41. ASSUME NEW d \in Deployments, FailDeployApp(d)
      PROVE  JobInv'
  BY <1>41, <1>23 DEF FailDeployApp, rowVars, workerVars, nodeVars, bounds,
     SetAppStatus
<1>42. ASSUME NEW d \in Deployments, HandlerDies(d)
      PROVE  JobInv'
  BY <1>42, <1>23 DEF HandlerDies, rowVars, appVars, workerVars, Fault
<1>43. ASSUME NEW d \in Deployments, Deadlock(d)
      PROVE  JobInv'
  BY <1>43, <1>23 DEF Deadlock, rowVars, appVars, workerVars, bounds
<1>44. ASSUME NEW a \in Apps, StopApp(a)
      PROVE  JobInv'
  BY <1>44, <1>23 DEF StopApp, rowVars, workerVars, nodeVars, apiVars,
     Operation
<1>45. ASSUME NEW a \in Apps, DeleteApp(a)
      PROVE  JobInv'
  BY <1>45, <1>23 DEF DeleteApp, rowVars, workerVars, nodeVars, apiVars,
     Operation
<1>46. ASSUME NEW a \in Apps, MoveApp(a)
      PROVE  JobInv'
  BY <1>46, <1>23 DEF MoveApp, rowVars, workerVars, nodeVars, apiVars,
     Operation
<1>47. ASSUME NEW d \in Deployments, RunningUnreported(d)
      PROVE  JobInv'
  BY <1>47, <1>23 DEF RunningUnreported, rowVars, appVars, workerVars, apiVars,
     Fault
<1>. QED
  BY <1>1, <1>2, <1>3, <1>4, <1>5, <1>6, <1>7, <1>8, <1>9, <1>10, <1>11,
     <1>12, <1>13, <1>14, <1>15, <1>16, <1>17, <1>18, <1>19, <1>20, <1>21,
     <1>22, <1>24, <1>25, <1>26, <1>27, <1>28, <1>29, <1>30, <1>31, <1>32,
     <1>33, <1>34, <1>35, <1>36, <1>37, <1>38, <1>39, <1>40, <1>41, <1>42,
     <1>43, <1>44, <1>45, <1>46, <1>47 DEF Next, Creation, DeployJob, DeployJobStep,
     SafetyNetJob, NetStep, RollbackJob, Node, Handler, HandlerStep, Operator

\* Every step keeps records behind executions.
LEMMA OutcomeNext == TypeOK /\ OutcomeInv /\ [Next]_vars => OutcomeInv'
<1>. SUFFICES ASSUME TypeOK, OutcomeInv, [Next]_vars PROVE OutcomeInv'
  OBVIOUS
<1>1. ASSUME NEW d \in Deployments, NEW k \in Attempts, CreateRun(d, k)
      PROVE  OutcomeInv'
  BY <1>1 DEF TypeOK, OutcomeInv, Past, CreateRun, rowVars, appVars, nodeVars,
     apiVars
<1>2. ASSUME NEW d \in Deployments, NEW k \in Attempts, FailRun(d, k)
      PROVE  OutcomeInv'
  BY <1>2 DEF TypeOK, OutcomeInv, Past, FailRun, rowVars, appVars, nodeVars,
     apiVars
<1>3. ASSUME NEW d \in Deployments, NetFailsRun(d)
      PROVE  OutcomeInv'
  BY <1>3 DEF TypeOK, OutcomeInv, Past, NetFailsRun, rowVars, appVars,
     nodeVars, apiVars
<1>4. ASSUME NEW d \in Deployments, Take(d)
      PROVE  OutcomeInv'
  BY <1>4 DEF TypeOK, OutcomeInv, Past, Take, rowVars, appVars, workerVars,
     apiVars
<1>5. ASSUME NEW d \in Deployments, Refuse(d)
      PROVE  OutcomeInv'
  BY <1>5 DEF TypeOK, OutcomeInv, Past, Refuse, rowVars, appVars, workerVars,
     apiVars
<1>6. ASSUME NEW d \in Deployments, ReportRunning(d)
      PROVE  OutcomeInv'
  BY <1>6 DEF TypeOK, OutcomeInv, Past, ReportRunning, appVars, workerVars,
     apiVars
<1>7. ASSUME NEW d \in Deployments, Work(d)
      PROVE  OutcomeInv'
  BY <1>7 DEF TypeOK, OutcomeInv, Past, Work, rowVars, appVars, workerVars,
     apiVars
<1>8. ASSUME NEW d \in Deployments, NodeLoses(d)
      PROVE  OutcomeInv'
  BY <1>8 DEF TypeOK, OutcomeInv, Past, NodeLoses, rowVars, appVars,
     workerVars, apiVars
<1>9. ASSUME NEW d \in Deployments, ReportEnd(d)
      PROVE  OutcomeInv'
  BY <1>9 DEF TypeOK, OutcomeInv, Past, ReportEnd, rowVars, appVars,
     workerVars
<1>10. ASSUME NEW d \in Deployments, EndAgain(d)
      PROVE  OutcomeInv'
  BY <1>10 DEF TypeOK, OutcomeInv, Past, EndAgain, rowVars, appVars,
     workerVars, nodeVars
<1>11. ASSUME NEW d \in Deployments, FinalizeMark(d)
      PROVE  OutcomeInv'
  BY <1>11 DEF TypeOK, OutcomeInv, Past, FinalizeMark, rowVars, appVars,
     workerVars, nodeVars, Step
<1>12. ASSUME NEW d \in Deployments, FinalizeScan(d)
      PROVE  OutcomeInv'
  BY <1>12 DEF TypeOK, OutcomeInv, Past, FinalizeScan, rowVars, appVars,
     workerVars, nodeVars, Step
<1>13. ASSUME NEW d \in Deployments, FinalizeCommit(d)
      PROVE  OutcomeInv'
  BY <1>13, AppOfAssumption DEF TypeOK, OutcomeInv, Past, FinalizeCommit,
     workerVars, nodeVars, Step
<1>14. ASSUME NEW d \in Deployments, FailDeploy(d)
      PROVE  OutcomeInv'
  BY <1>14 DEF TypeOK, OutcomeInv, Past, FailDeploy, appVars, workerVars,
     nodeVars, Step
<1>15. ASSUME NEW d \in Deployments, FailDeployApp(d)
      PROVE  OutcomeInv'
  BY <1>15 DEF TypeOK, OutcomeInv, Past, FailDeployApp, rowVars, workerVars,
     nodeVars, Step
<1>16. ASSUME NEW d \in Deployments, ClosePipelineRun(d)
      PROVE  OutcomeInv'
  BY <1>16 DEF TypeOK, OutcomeInv, Past, ClosePipelineRun, rowVars, appVars,
     workerVars, nodeVars, Step
<1>17. ASSUME NEW d \in Deployments, HandlerDies(d)
      PROVE  OutcomeInv'
  BY <1>17 DEF TypeOK, OutcomeInv, Past, HandlerDies, rowVars, appVars,
     workerVars
<1>18. ASSUME NEW d \in Deployments, Deadlock(d)
      PROVE  OutcomeInv'
  BY <1>18 DEF TypeOK, OutcomeInv, Past, Deadlock, rowVars, appVars,
     workerVars
<1>19. ASSUME UNCHANGED <<handler, exec, outcome, run, current>>
      PROVE  OutcomeInv'
  BY <1>19 DEF OutcomeInv, Past
<1>20. CASE UNCHANGED vars
  BY <1>20, <1>19 DEF vars, rowVars, appVars, workerVars, nodeVars, apiVars,
     bounds
<1>21. ASSUME NEW d \in Deployments, Admit(d)
      PROVE  OutcomeInv'
  BY <1>21, <1>19 DEF Admit, appVars, workerVars, nodeVars, apiVars, bounds
<1>22. ASSUME NEW d \in Deployments, Create(d)
      PROVE  OutcomeInv'
  BY <1>22, <1>19 DEF Create, workerVars, nodeVars, apiVars, bounds,
     SetAppStatus
<1>23. ASSUME NEW d \in Deployments, Enqueue(d)
      PROVE  OutcomeInv'
  BY <1>23, <1>19 DEF Enqueue, appVars, workerVars, nodeVars, apiVars, bounds
<1>24. ASSUME NEW d \in Deployments, CreatorDies(d)
      PROVE  OutcomeInv'
  BY <1>24, <1>19 DEF CreatorDies, appVars, workerVars, nodeVars, apiVars,
     Fault
<1>25. ASSUME NEW d \in Deployments, NEW k \in Attempts, Pick(d, k)
      PROVE  OutcomeInv'
  BY <1>25, <1>19 DEF Pick, rowVars, appVars, nodeVars, apiVars, bounds, Goto,
     Start
<1>26. ASSUME NEW d \in Deployments, NEW k \in Attempts, Stall(d, k)
      PROVE  OutcomeInv'
  BY <1>26, <1>19 DEF Stall, rowVars, appVars, nodeVars, apiVars, Fault, Goto,
     Start
<1>27. ASSUME NEW d \in Deployments, NEW k \in Attempts, Build(d, k)
      PROVE  OutcomeInv'
  BY <1>27, <1>19 DEF Build, appVars, nodeVars, apiVars, bounds, Goto
<1>28. ASSUME NEW d \in Deployments, NEW k \in Attempts, Package(d, k)
      PROVE  OutcomeInv'
  BY <1>28, <1>19 DEF Package, appVars, nodeVars, apiVars, bounds, Goto
<1>29. ASSUME NEW d \in Deployments, NEW k \in Attempts, Dispatch(d, k)
      PROVE  OutcomeInv'
  BY <1>29, <1>19 DEF Dispatch, rowVars, appVars, apiVars, bounds, Goto
<1>30. ASSUME NEW d \in Deployments, NEW k \in Attempts, AddNet(d, k)
      PROVE  OutcomeInv'
  BY <1>30, <1>19 DEF AddNet, rowVars, appVars, nodeVars, apiVars, bounds,
     Goto
<1>31. ASSUME NEW d \in Deployments, NEW k \in Attempts, JobThrows(d, k)
      PROVE  OutcomeInv'
  BY <1>31, <1>19 DEF JobThrows, rowVars, appVars, nodeVars, apiVars, Fault,
     Goto
<1>32. ASSUME NEW d \in Deployments, NEW k \in Attempts, JobAborts(d, k)
      PROVE  OutcomeInv'
  BY <1>32, <1>19 DEF JobAborts, rowVars, appVars, nodeVars, apiVars, Fault,
     Goto
<1>33. ASSUME NEW d \in Deployments, NEW k \in Attempts, FailDeployment(d, k)
      PROVE  OutcomeInv'
  BY <1>33, <1>19 DEF FailDeployment, appVars, nodeVars, apiVars, bounds, Goto
<1>34. ASSUME NEW d \in Deployments, NEW k \in Attempts, FailApp(d, k)
      PROVE  OutcomeInv'
  BY <1>34, <1>19 DEF FailApp, rowVars, nodeVars, apiVars, bounds,
     SetAppStatus, Goto
<1>35. ASSUME NEW d \in Deployments, NEW k \in Attempts, WorkerDies(d, k)
      PROVE  OutcomeInv'
  BY <1>35, <1>19 DEF WorkerDies, rowVars, appVars, nodeVars, apiVars, Fault,
     Goto
<1>36. ASSUME NEW d \in Deployments, NetReads(d)
      PROVE  OutcomeInv'
  BY <1>36, <1>19 DEF NetReads, rowVars, appVars, nodeVars, apiVars, bounds
<1>37. ASSUME NEW d \in Deployments, NetFailsDeployment(d)
      PROVE  OutcomeInv'
  BY <1>37, <1>19 DEF NetFailsDeployment, appVars, nodeVars, apiVars, bounds
<1>38. ASSUME NEW d \in Deployments, NetFailsApp(d)
      PROVE  OutcomeInv'
  BY <1>38, <1>19 DEF NetFailsApp, rowVars, nodeVars, apiVars, bounds,
     SetAppStatus
<1>39. ASSUME NEW d \in Deployments, NetDies(d)
      PROVE  OutcomeInv'
  BY <1>39, <1>19 DEF NetDies, rowVars, appVars, nodeVars, apiVars, Fault
<1>40. ASSUME NEW d \in Deployments, RollbackRow(d)
      PROVE  OutcomeInv'
  BY <1>40, <1>19 DEF RollbackRow, appVars, workerVars, nodeVars, apiVars,
     bounds
<1>41. ASSUME NEW d \in Deployments, RollbackApp(d)
      PROVE  OutcomeInv'
  BY <1>41, <1>19 DEF RollbackApp, workerVars, nodeVars, apiVars, bounds,
     SetAppStatus
<1>42. ASSUME NEW d \in Deployments, RollbackDispatch(d)
      PROVE  OutcomeInv'
  BY <1>42, <1>19 DEF RollbackDispatch, appVars, workerVars, apiVars, bounds
<1>43. ASSUME NEW d \in Deployments, RunningAgain(d)
      PROVE  OutcomeInv'
  BY <1>43, <1>19 DEF RunningAgain, appVars, workerVars, nodeVars, apiVars,
     Fault
<1>44. ASSUME NEW a \in Apps, StopApp(a)
      PROVE  OutcomeInv'
  BY <1>44, <1>19 DEF StopApp, rowVars, workerVars, nodeVars, apiVars,
     Operation
<1>45. ASSUME NEW a \in Apps, DeleteApp(a)
      PROVE  OutcomeInv'
  BY <1>45, <1>19 DEF DeleteApp, rowVars, workerVars, nodeVars, apiVars,
     Operation
<1>46. ASSUME NEW a \in Apps, MoveApp(a)
      PROVE  OutcomeInv'
  BY <1>46, <1>19 DEF MoveApp, rowVars, workerVars, nodeVars, apiVars,
     Operation
<1>47. ASSUME NEW d \in Deployments, RunningUnreported(d)
      PROVE  OutcomeInv'
  BY <1>47 DEF TypeOK, OutcomeInv, Past, RunningUnreported, rowVars, appVars,
     workerVars, apiVars
<1>. QED
  BY <1>1, <1>2, <1>3, <1>4, <1>5, <1>6, <1>7, <1>8, <1>9, <1>10, <1>11,
     <1>12, <1>13, <1>14, <1>15, <1>16, <1>17, <1>18, <1>20, <1>21, <1>22,
     <1>23, <1>24, <1>25, <1>26, <1>27, <1>28, <1>29, <1>30, <1>31, <1>32,
     <1>33, <1>34, <1>35, <1>36, <1>37, <1>38, <1>39, <1>40, <1>41, <1>42,
     <1>43, <1>44, <1>45, <1>46, <1>47 DEF Next, Creation, DeployJob, DeployJobStep,
     SafetyNetJob, NetStep, RollbackJob, Node, Handler, HandlerStep, Operator

\* Every step keeps what transactions know.
LEMMA FinalNext == TypeOK /\ FinalInv /\ [Next]_vars => FinalInv'
<1>. SUFFICES ASSUME TypeOK, FinalInv, [Next]_vars PROVE FinalInv'
  OBVIOUS
<1>1. ASSUME NEW d \in Deployments, Create(d)
      PROVE  FinalInv'
  BY <1>1 DEF TypeOK, FinalInv, RunningIsCurrent, Siblings, Locked, Create,
     workerVars, nodeVars, apiVars
<1>2. ASSUME NEW d \in Deployments, NEW k \in Attempts, Build(d, k)
      PROVE  FinalInv'
  BY <1>2 DEF TypeOK, FinalInv, RunningIsCurrent, Siblings, Locked, Build,
     appVars, nodeVars, apiVars, SetStatus
<1>3. ASSUME NEW d \in Deployments, NEW k \in Attempts, Package(d, k)
      PROVE  FinalInv'
  BY <1>3 DEF TypeOK, FinalInv, RunningIsCurrent, Siblings, Locked, Package,
     appVars, nodeVars, apiVars, SetStatus
<1>4. ASSUME NEW d \in Deployments, NEW k \in Attempts, FailDeployment(d, k)
      PROVE  FinalInv'
  BY <1>4 DEF TypeOK, FinalInv, RunningIsCurrent, Siblings, Locked,
     FailDeployment, appVars, nodeVars, apiVars, SetStatus
<1>5. ASSUME NEW d \in Deployments, NetFailsDeployment(d)
      PROVE  FinalInv'
  BY <1>5 DEF TypeOK, FinalInv, RunningIsCurrent, Siblings, Locked,
     NetFailsDeployment, appVars, nodeVars, apiVars, SetStatus
<1>6. ASSUME NEW d \in Deployments, RollbackRow(d)
      PROVE  FinalInv'
  BY <1>6 DEF TypeOK, FinalInv, RunningIsCurrent, Siblings, Locked,
     RollbackRow, appVars, workerVars, nodeVars, apiVars
<1>7. ASSUME NEW d \in Deployments, ReportRunning(d)
      PROVE  FinalInv'
  BY <1>7 DEF TypeOK, FinalInv, RunningIsCurrent, Siblings, Locked,
     ReportRunning, appVars, workerVars, apiVars, SetStatus
<1>8. ASSUME NEW d \in Deployments, ReportEnd(d)
      PROVE  FinalInv'
  BY <1>8 DEF TypeOK, FinalInv, RunningIsCurrent, Siblings, Locked, ReportEnd,
     rowVars, appVars, workerVars
<1>9. ASSUME NEW d \in Deployments, RunningAgain(d)
      PROVE  FinalInv'
  BY <1>9 DEF TypeOK, FinalInv, RunningIsCurrent, Siblings, Locked,
     RunningAgain, appVars, workerVars, nodeVars, apiVars, SetStatus
<1>10. ASSUME NEW d \in Deployments, EndAgain(d)
      PROVE  FinalInv'
  BY <1>10 DEF TypeOK, FinalInv, RunningIsCurrent, Siblings, Locked, EndAgain,
     rowVars, appVars, workerVars, nodeVars
<1>11. ASSUME NEW d \in Deployments, FinalizeMark(d)
      PROVE  FinalInv'
  BY <1>11 DEF TypeOK, FinalInv, RunningIsCurrent, Siblings, Locked,
     FinalizeMark, rowVars, appVars, workerVars, nodeVars, Step
<1>12. ASSUME NEW d \in Deployments, FinalizeScan(d)
      PROVE  FinalInv'
  BY <1>12 DEF TypeOK, FinalInv, RunningIsCurrent, Siblings, Locked,
     FinalizeScan, rowVars, appVars, workerVars, nodeVars, Step
<1>13. ASSUME NEW d \in Deployments, FinalizeCommit(d)
      PROVE  FinalInv'
  <2>1. /\ handler[d] = "scanned" /\ handler' = [handler EXCEPT ![d] = "closeOk"]
        /\ scanned' = [scanned EXCEPT ![d] = {}]
        /\ \A e \in Deployments : status'[e] =
              IF e = d THEN "running"
              ELSE IF e \in scanned[d] /\ status[e] = "running" THEN "superseded"
              ELSE status[e]
        /\ current' = [current EXCEPT ![AppOf[d]] = d]
        /\ UNCHANGED overlapped
    BY <1>13 DEF FinalizeCommit, Step
  <2>2. \A e \in Deployments : Locked(e)' <=> e /= d /\ Locked(e)
    BY <2>1 DEF TypeOK, Locked
  <2>3. \A e \in Deployments : scanned'[e] \subseteq Siblings(e)
    BY <2>1 DEF TypeOK, FinalInv
  <2>4. \A e \in Deployments : \A f \in Siblings(e) :
           Locked(e)' /\ Locked(f)' => AppOf[e] \in overlapped'
    BY <2>1, <2>2 DEF FinalInv, Siblings
  <2>5. ASSUME NEW e \in Deployments, AppOf[e] \notin overlapped', handler'[e] = "scanned",
               NEW f \in Siblings(e), status'[f] = "running"
        PROVE  f \in scanned'[e]
    <3>1. e /= d /\ handler[e] = "scanned"
      BY <2>1, <2>5 DEF TypeOK
    <3>2. AppOf[e] /= AppOf[d]
      BY <2>1, <2>5, <3>1 DEF FinalInv, Siblings, Locked
    <3>3. f \in Deployments /\ f /= d
      BY <3>2 DEF Siblings
    <3>. QED  BY <2>1, <2>5, <3>1, <3>3 DEF TypeOK, FinalInv
  <2>6. ASSUME NEW e \in Deployments, status'[e] = "running", AppOf[e] \notin overlapped'
        PROVE  current'[AppOf[e]] = e
    <3>1. CASE e = d
      BY <2>1, <3>1, AppOfAssumption DEF TypeOK
    <3>2. CASE e /= d
      <4>1. status[e] = "running" /\ e \notin scanned[d]
        BY <2>1, <2>6, <3>2
      <4>2. AppOf[e] /= AppOf[d]
        BY <2>1, <2>6, <3>2, <4>1 DEF FinalInv, Siblings
      <4>. QED  BY <2>1, <2>6, <4>1, <4>2, AppOfAssumption DEF TypeOK, FinalInv, RunningIsCurrent
    <3>. QED  BY <3>1, <3>2
  <2>. QED  BY <2>3, <2>4, <2>5, <2>6 DEF FinalInv, RunningIsCurrent, Siblings
<1>14. ASSUME NEW d \in Deployments, FailDeploy(d)
      PROVE  FinalInv'
  BY <1>14 DEF TypeOK, FinalInv, RunningIsCurrent, Siblings, Locked,
     FailDeploy, appVars, workerVars, nodeVars, SetStatus, Step
<1>15. ASSUME NEW d \in Deployments, FailDeployApp(d)
      PROVE  FinalInv'
  BY <1>15 DEF TypeOK, FinalInv, RunningIsCurrent, Siblings, Locked,
     FailDeployApp, rowVars, workerVars, nodeVars, Step
<1>16. ASSUME NEW d \in Deployments, ClosePipelineRun(d)
      PROVE  FinalInv'
  BY <1>16 DEF TypeOK, FinalInv, RunningIsCurrent, Siblings, Locked,
     ClosePipelineRun, rowVars, appVars, workerVars, nodeVars, Step
<1>17. ASSUME NEW d \in Deployments, HandlerDies(d)
      PROVE  FinalInv'
  BY <1>17 DEF TypeOK, FinalInv, RunningIsCurrent, Siblings, Locked,
     HandlerDies, rowVars, appVars, workerVars
<1>18. ASSUME NEW d \in Deployments, Deadlock(d)
      PROVE  FinalInv'
  BY <1>18 DEF TypeOK, FinalInv, RunningIsCurrent, Siblings, Locked, Deadlock,
     rowVars, appVars, workerVars
<1>19. ASSUME UNCHANGED <<status, handler, scanned, overlapped, current>>
      PROVE  FinalInv'
  BY <1>19 DEF FinalInv, RunningIsCurrent, Siblings, Locked
<1>20. CASE UNCHANGED vars
  BY <1>20, <1>19 DEF vars, rowVars, appVars, workerVars, nodeVars, apiVars,
     bounds
<1>21. ASSUME NEW d \in Deployments, Admit(d)
      PROVE  FinalInv'
  BY <1>21, <1>19 DEF Admit, appVars, workerVars, nodeVars, apiVars, bounds
<1>22. ASSUME NEW d \in Deployments, Enqueue(d)
      PROVE  FinalInv'
  BY <1>22, <1>19 DEF Enqueue, appVars, workerVars, nodeVars, apiVars, bounds
<1>23. ASSUME NEW d \in Deployments, CreatorDies(d)
      PROVE  FinalInv'
  BY <1>23, <1>19 DEF CreatorDies, appVars, workerVars, nodeVars, apiVars,
     Fault
<1>24. ASSUME NEW d \in Deployments, NEW k \in Attempts, Pick(d, k)
      PROVE  FinalInv'
  BY <1>24, <1>19 DEF Pick, rowVars, appVars, nodeVars, apiVars, bounds, Goto,
     Start
<1>25. ASSUME NEW d \in Deployments, NEW k \in Attempts, Stall(d, k)
      PROVE  FinalInv'
  BY <1>25, <1>19 DEF Stall, rowVars, appVars, nodeVars, apiVars, Fault, Goto,
     Start
<1>26. ASSUME NEW d \in Deployments, NEW k \in Attempts, CreateRun(d, k)
      PROVE  FinalInv'
  BY <1>26, <1>19 DEF CreateRun, rowVars, appVars, nodeVars, apiVars, bounds,
     Goto
<1>27. ASSUME NEW d \in Deployments, NEW k \in Attempts, Dispatch(d, k)
      PROVE  FinalInv'
  BY <1>27, <1>19 DEF Dispatch, rowVars, appVars, apiVars, bounds, Goto
<1>28. ASSUME NEW d \in Deployments, NEW k \in Attempts, AddNet(d, k)
      PROVE  FinalInv'
  BY <1>28, <1>19 DEF AddNet, rowVars, appVars, nodeVars, apiVars, bounds,
     Goto
<1>29. ASSUME NEW d \in Deployments, NEW k \in Attempts, JobThrows(d, k)
      PROVE  FinalInv'
  BY <1>29, <1>19 DEF JobThrows, rowVars, appVars, nodeVars, apiVars, Fault,
     Goto
<1>30. ASSUME NEW d \in Deployments, NEW k \in Attempts, JobAborts(d, k)
      PROVE  FinalInv'
  BY <1>30, <1>19 DEF JobAborts, rowVars, appVars, nodeVars, apiVars, Fault,
     Goto
<1>31. ASSUME NEW d \in Deployments, NEW k \in Attempts, FailRun(d, k)
      PROVE  FinalInv'
  BY <1>31, <1>19 DEF FailRun, rowVars, appVars, nodeVars, apiVars, bounds,
     Goto
<1>32. ASSUME NEW d \in Deployments, NEW k \in Attempts, FailApp(d, k)
      PROVE  FinalInv'
  BY <1>32, <1>19 DEF FailApp, rowVars, nodeVars, apiVars, bounds,
     SetAppStatus, Goto
<1>33. ASSUME NEW d \in Deployments, NEW k \in Attempts, WorkerDies(d, k)
      PROVE  FinalInv'
  BY <1>33, <1>19 DEF WorkerDies, rowVars, appVars, nodeVars, apiVars, Fault,
     Goto
<1>34. ASSUME NEW d \in Deployments, NetReads(d)
      PROVE  FinalInv'
  BY <1>34, <1>19 DEF NetReads, rowVars, appVars, nodeVars, apiVars, bounds
<1>35. ASSUME NEW d \in Deployments, NetFailsApp(d)
      PROVE  FinalInv'
  BY <1>35, <1>19 DEF NetFailsApp, rowVars, nodeVars, apiVars, bounds,
     SetAppStatus
<1>36. ASSUME NEW d \in Deployments, NetFailsRun(d)
      PROVE  FinalInv'
  BY <1>36, <1>19 DEF NetFailsRun, rowVars, appVars, nodeVars, apiVars, bounds
<1>37. ASSUME NEW d \in Deployments, NetDies(d)
      PROVE  FinalInv'
  BY <1>37, <1>19 DEF NetDies, rowVars, appVars, nodeVars, apiVars, Fault
<1>38. ASSUME NEW d \in Deployments, RollbackApp(d)
      PROVE  FinalInv'
  BY <1>38, <1>19 DEF RollbackApp, workerVars, nodeVars, apiVars, bounds,
     SetAppStatus
<1>39. ASSUME NEW d \in Deployments, RollbackDispatch(d)
      PROVE  FinalInv'
  BY <1>39, <1>19 DEF RollbackDispatch, appVars, workerVars, apiVars, bounds
<1>40. ASSUME NEW d \in Deployments, Take(d)
      PROVE  FinalInv'
  BY <1>40, <1>19 DEF Take, rowVars, appVars, workerVars, apiVars, bounds
<1>41. ASSUME NEW d \in Deployments, Refuse(d)
      PROVE  FinalInv'
  BY <1>41, <1>19 DEF Refuse, rowVars, appVars, workerVars, apiVars, bounds
<1>42. ASSUME NEW d \in Deployments, Work(d)
      PROVE  FinalInv'
  BY <1>42, <1>19 DEF Work, rowVars, appVars, workerVars, apiVars, bounds
<1>43. ASSUME NEW d \in Deployments, NodeLoses(d)
      PROVE  FinalInv'
  BY <1>43, <1>19 DEF NodeLoses, rowVars, appVars, workerVars, apiVars, Fault
<1>44. ASSUME NEW a \in Apps, StopApp(a)
      PROVE  FinalInv'
  BY <1>44, <1>19 DEF StopApp, rowVars, workerVars, nodeVars, apiVars,
     Operation
<1>45. ASSUME NEW a \in Apps, DeleteApp(a)
      PROVE  FinalInv'
  BY <1>45, <1>19 DEF DeleteApp, rowVars, workerVars, nodeVars, apiVars,
     Operation
<1>46. ASSUME NEW a \in Apps, MoveApp(a)
      PROVE  FinalInv'
  BY <1>46, <1>19 DEF MoveApp, rowVars, workerVars, nodeVars, apiVars,
     Operation
<1>47. ASSUME NEW d \in Deployments, RunningUnreported(d)
      PROVE  FinalInv'
  BY <1>47, <1>19 DEF RunningUnreported, rowVars, appVars, workerVars, apiVars,
     Fault
<1>. QED
  BY <1>1, <1>2, <1>3, <1>4, <1>5, <1>6, <1>7, <1>8, <1>9, <1>10, <1>11,
     <1>12, <1>13, <1>14, <1>15, <1>16, <1>17, <1>18, <1>20, <1>21, <1>22,
     <1>23, <1>24, <1>25, <1>26, <1>27, <1>28, <1>29, <1>30, <1>31, <1>32,
     <1>33, <1>34, <1>35, <1>36, <1>37, <1>38, <1>39, <1>40, <1>41, <1>42,
     <1>43, <1>44, <1>45, <1>46, <1>47 DEF Next, Creation, DeployJob, DeployJobStep,
     SafetyNetJob, NetStep, RollbackJob, Node, Handler, HandlerStep, Operator

\* Every step finds the rows it writes.
LEMMA RowNext == TypeOK /\ JobInv /\ OutcomeInv /\ RowInv /\ [Next]_vars => RowInv'
<1>. SUFFICES ASSUME TypeOK, JobInv, OutcomeInv, RowInv, [Next]_vars PROVE RowInv'
  OBVIOUS
<1>1. ASSUME UNCHANGED <<status, birth, exec, commands, outcome, net, job, run, handler, scanned>>
      PROVE  RowInv'
  BY <1>1 DEF RowInv
\* What a process that is at work on d knows of the rows of d.
<1>2. /\ \A d \in Deployments : commands[d] > 0 => birth[d] \in {"enqueued", "rolledBack"}
      /\ \A d \in Deployments, k \in Attempts : job[d][k] /= "idle" => birth[d] = "enqueued"
      /\ \A d \in Deployments : handler[d] /= "idle" => exec[d] = "reported"
  BY DEF JobInv, OutcomeInv, TypeOK
<1>3. ASSUME NEW d \in Deployments, Admit(d)
      PROVE  RowInv'
  BY <1>3, <1>2 DEF TypeOK, RowInv, Admit, workerVars, nodeVars, apiVars
<1>4. ASSUME NEW d \in Deployments, Create(d)
      PROVE  RowInv'
  BY <1>4, <1>2 DEF TypeOK, RowInv, Create, workerVars, nodeVars, apiVars
<1>5. ASSUME NEW d \in Deployments, Enqueue(d)
      PROVE  RowInv'
  BY <1>5, <1>2 DEF TypeOK, RowInv, Enqueue, workerVars, nodeVars, apiVars
<1>6. ASSUME NEW d \in Deployments, CreatorDies(d)
      PROVE  RowInv'
  BY <1>6, <1>2 DEF TypeOK, RowInv, CreatorDies, workerVars, nodeVars, apiVars
<1>7. ASSUME NEW d \in Deployments, NEW k \in Attempts, Pick(d, k)
      PROVE  RowInv'
  BY <1>7, <1>2 DEF TypeOK, RowInv, Pick, Start, rowVars, nodeVars, apiVars, Goto
<1>8. ASSUME NEW d \in Deployments, NEW k \in Attempts, Stall(d, k)
      PROVE  RowInv'
  BY <1>8, <1>2 DEF TypeOK, RowInv, Stall, rowVars, nodeVars, apiVars, Goto, Start
<1>9. ASSUME NEW d \in Deployments, NEW k \in Attempts, CreateRun(d, k)
      PROVE  RowInv'
  <2>1. job' \in [Deployments -> [Attempts -> JobPoints]] /\ run' \in [Deployments -> {"none", "running", "succeeded", "failed"}]
    BY TypeNext DEF TypeOK
  <2>2. UNCHANGED <<status, birth, exec, commands, outcome, net, handler, scanned>>
    BY <1>9 DEF CreateRun, rowVars, nodeVars, apiVars
  <2>3. \A e \in Deployments : run[e] /= "none" => run'[e] /= "none"
    BY <1>9 DEF CreateRun, TypeOK
  <2>4. ASSUME NEW e \in Deployments, NEW l \in Attempts,
               job'[e][l] \in {"build", "package", "dispatch", "net", "failRun"}
        PROVE  run'[e] /= "none"
    <3>1. CASE e = d /\ l = k
      BY <1>9, <2>4, <3>1 DEF CreateRun, Goto, TypeOK
    <3>2. CASE ~(e = d /\ l = k)
      <4>1. job'[e][l] = job[e][l]
        BY <1>9, <3>2 DEF CreateRun, Goto, TypeOK
      <4>. QED  BY <2>3, <2>4, <4>1 DEF RowInv
    <3>. QED  BY <3>1, <3>2
  <2>. QED  BY <2>2, <2>4 DEF RowInv
<1>10. ASSUME NEW d \in Deployments, NEW k \in Attempts, Build(d, k)
      PROVE  RowInv'
  BY <1>10, <1>2 DEF TypeOK, RowInv, Build, nodeVars, apiVars, SetStatus, Goto
<1>11. ASSUME NEW d \in Deployments, NEW k \in Attempts, Package(d, k)
      PROVE  RowInv'
  BY <1>11, <1>2 DEF TypeOK, RowInv, Package, nodeVars, apiVars, SetStatus, Goto
<1>12. ASSUME NEW d \in Deployments, NEW k \in Attempts, Dispatch(d, k)
      PROVE  RowInv'
  BY <1>12, <1>2 DEF TypeOK, RowInv, Dispatch, rowVars, nodeVars, apiVars, Goto
<1>13. ASSUME NEW d \in Deployments, NEW k \in Attempts, AddNet(d, k)
      PROVE  RowInv'
  BY <1>13, <1>2 DEF TypeOK, RowInv, AddNet, rowVars, nodeVars, apiVars, Goto
<1>14. ASSUME NEW d \in Deployments, NEW k \in Attempts, JobThrows(d, k)
      PROVE  RowInv'
  BY <1>14, <1>2 DEF TypeOK, RowInv, JobThrows, rowVars, nodeVars, apiVars, Goto
<1>15. ASSUME NEW d \in Deployments, NEW k \in Attempts, JobAborts(d, k)
      PROVE  RowInv'
  BY <1>15, <1>2 DEF TypeOK, RowInv, JobAborts, rowVars, nodeVars, apiVars, Goto
<1>16. ASSUME NEW d \in Deployments, NEW k \in Attempts, FailRun(d, k)
      PROVE  RowInv'
  BY <1>16, <1>2 DEF TypeOK, RowInv, FailRun, rowVars, nodeVars, apiVars, Goto
<1>17. ASSUME NEW d \in Deployments, NEW k \in Attempts, FailDeployment(d, k)
      PROVE  RowInv'
  BY <1>17, <1>2 DEF TypeOK, RowInv, FailDeployment, nodeVars, apiVars, SetStatus, Goto
<1>18. ASSUME NEW d \in Deployments, NEW k \in Attempts, FailApp(d, k)
      PROVE  RowInv'
  BY <1>18, <1>2 DEF TypeOK, RowInv, FailApp, rowVars, nodeVars, apiVars, Goto
<1>19. ASSUME NEW d \in Deployments, NEW k \in Attempts, WorkerDies(d, k)
      PROVE  RowInv'
  BY <1>19, <1>2 DEF TypeOK, RowInv, WorkerDies, rowVars, nodeVars, apiVars, Goto
<1>20. ASSUME NEW d \in Deployments, NetReads(d)
      PROVE  RowInv'
  BY <1>20, <1>2 DEF TypeOK, RowInv, NetReads, rowVars, nodeVars, apiVars
<1>21. ASSUME NEW d \in Deployments, NetFailsDeployment(d)
      PROVE  RowInv'
  BY <1>21, <1>2 DEF TypeOK, RowInv, NetFailsDeployment, nodeVars, apiVars, SetStatus
<1>22. ASSUME NEW d \in Deployments, NetFailsApp(d)
      PROVE  RowInv'
  BY <1>22, <1>2 DEF TypeOK, RowInv, NetFailsApp, rowVars, nodeVars, apiVars
<1>23. ASSUME NEW d \in Deployments, NetFailsRun(d)
      PROVE  RowInv'
  BY <1>23, <1>2 DEF TypeOK, RowInv, NetFailsRun, rowVars, nodeVars, apiVars
<1>24. ASSUME NEW d \in Deployments, NetDies(d)
      PROVE  RowInv'
  BY <1>24, <1>2 DEF TypeOK, RowInv, NetDies, rowVars, nodeVars, apiVars
<1>25. ASSUME NEW d \in Deployments, RollbackRow(d)
      PROVE  RowInv'
  BY <1>25, <1>2 DEF TypeOK, RowInv, RollbackRow, workerVars, nodeVars, apiVars
<1>26. ASSUME NEW d \in Deployments, RollbackApp(d)
      PROVE  RowInv'
  BY <1>26, <1>2 DEF TypeOK, RowInv, RollbackApp, workerVars, nodeVars, apiVars
<1>27. ASSUME NEW d \in Deployments, RollbackDispatch(d)
      PROVE  RowInv'
  BY <1>27, <1>2 DEF TypeOK, RowInv, RollbackDispatch, workerVars, apiVars
<1>28. ASSUME NEW d \in Deployments, Take(d)
      PROVE  RowInv'
  BY <1>28, <1>2 DEF TypeOK, RowInv, Take, rowVars, workerVars, apiVars
<1>29. ASSUME NEW d \in Deployments, Refuse(d)
      PROVE  RowInv'
  BY <1>29, <1>2 DEF TypeOK, RowInv, Refuse, rowVars, workerVars, apiVars
<1>30. ASSUME NEW d \in Deployments, ReportRunning(d)
      PROVE  RowInv'
  BY <1>30, <1>2 DEF TypeOK, RowInv, ReportRunning, workerVars, apiVars, SetStatus
<1>31. ASSUME NEW d \in Deployments, RunningUnreported(d)
      PROVE  RowInv'
  BY <1>31, <1>2 DEF TypeOK, RowInv, RunningUnreported, rowVars, workerVars, apiVars
<1>32. ASSUME NEW d \in Deployments, Work(d)
      PROVE  RowInv'
  BY <1>32, <1>2 DEF TypeOK, RowInv, Work, rowVars, workerVars, apiVars
<1>33. ASSUME NEW d \in Deployments, NodeLoses(d)
      PROVE  RowInv'
  BY <1>33, <1>2 DEF TypeOK, RowInv, NodeLoses, rowVars, workerVars, apiVars
<1>34. ASSUME NEW d \in Deployments, ReportEnd(d)
      PROVE  RowInv'
  BY <1>34, <1>2 DEF TypeOK, RowInv, ReportEnd, rowVars, workerVars
<1>35. ASSUME NEW d \in Deployments, RunningAgain(d)
      PROVE  RowInv'
  BY <1>35, <1>2 DEF TypeOK, RowInv, RunningAgain, workerVars, nodeVars, apiVars,
     SetStatus
<1>36. ASSUME NEW d \in Deployments, EndAgain(d)
      PROVE  RowInv'
  BY <1>36, <1>2 DEF TypeOK, RowInv, EndAgain, rowVars, workerVars, nodeVars
<1>37. ASSUME NEW d \in Deployments, FinalizeMark(d)
      PROVE  RowInv'
  BY <1>37, <1>2 DEF TypeOK, RowInv, FinalizeMark, rowVars, workerVars, nodeVars, Step
<1>38. ASSUME NEW d \in Deployments, FinalizeScan(d)
      PROVE  RowInv'
  BY <1>38, <1>2 DEF TypeOK, RowInv, FinalizeScan, rowVars, workerVars, nodeVars, Step
<1>39. ASSUME NEW d \in Deployments, FinalizeCommit(d)
      PROVE  RowInv'
  <2>1. birth[d] \in {"enqueued", "rolledBack"}
    BY <1>39, <1>2 DEF FinalizeCommit, Step, RowInv
  <2>2. /\ handler[d] = "scanned" /\ handler' = [handler EXCEPT ![d] = "closeOk"]
        /\ scanned' = [scanned EXCEPT ![d] = {}]
        /\ UNCHANGED <<birth, exec, commands, outcome, net, job, run>>
    BY <1>39 DEF FinalizeCommit, Step, workerVars, nodeVars
  <2>3. \A e \in Deployments : status'[e] = "none" <=> status[e] = "none"
    <3>1. status[d] /= "none"
      BY <2>1 DEF RowInv
    <3>. QED  BY <1>39, <3>1 DEF FinalizeCommit
  <2>. QED  BY <2>1, <2>2, <2>3 DEF TypeOK, RowInv
<1>40. ASSUME NEW d \in Deployments, FailDeploy(d)
      PROVE  RowInv'
  <2>1. birth[d] \in {"enqueued", "rolledBack"}
    BY <1>40, <1>2 DEF FailDeploy, Step, RowInv
  <2>2. /\ status' = [status EXCEPT ![d] = "failed"]
        /\ handler[d] = "fail" /\ handler' = [handler EXCEPT ![d] = "failApp"]
        /\ UNCHANGED <<birth, exec, commands, outcome, net, job, run, scanned>>
    BY <1>40 DEF FailDeploy, Step, SetStatus, workerVars, nodeVars
  <2>. QED  BY <2>1, <2>2 DEF TypeOK, RowInv
<1>41. ASSUME NEW d \in Deployments, FailDeployApp(d)
      PROVE  RowInv'
  BY <1>41, <1>2 DEF TypeOK, RowInv, FailDeployApp, rowVars, workerVars, nodeVars, Step
<1>42. ASSUME NEW d \in Deployments, ClosePipelineRun(d)
      PROVE  RowInv'
  BY <1>42, <1>2 DEF TypeOK, RowInv, ClosePipelineRun, rowVars, workerVars, nodeVars,
     Step
<1>43. ASSUME NEW d \in Deployments, HandlerDies(d)
      PROVE  RowInv'
  BY <1>43, <1>2 DEF TypeOK, RowInv, HandlerDies, rowVars, workerVars
<1>44. ASSUME NEW d \in Deployments, Deadlock(d)
      PROVE  RowInv'
  BY <1>44, <1>2 DEF TypeOK, RowInv, Deadlock, rowVars, workerVars
<1>45. ASSUME NEW a \in Apps, StopApp(a)
      PROVE  RowInv'
  BY <1>45, <1>1 DEF StopApp, rowVars, workerVars, nodeVars, apiVars
<1>46. ASSUME NEW a \in Apps, DeleteApp(a)
      PROVE  RowInv'
  BY <1>46, <1>1 DEF DeleteApp, rowVars, workerVars, nodeVars, apiVars
<1>47. ASSUME NEW a \in Apps, MoveApp(a)
      PROVE  RowInv'
  BY <1>47, <1>1 DEF MoveApp, rowVars, workerVars, nodeVars, apiVars
<1>48. CASE UNCHANGED vars
  BY <1>48, <1>1 DEF vars, rowVars, appVars, workerVars, nodeVars, apiVars, bounds
<1>. QED
  BY <1>3, <1>4, <1>5, <1>6, <1>7, <1>8, <1>9, <1>10, <1>11, <1>12, <1>13, <1>14, <1>15,
     <1>16, <1>17, <1>18, <1>19, <1>20, <1>21, <1>22, <1>23, <1>24, <1>25, <1>26, <1>27,
     <1>28, <1>29, <1>30, <1>31, <1>32, <1>33, <1>34, <1>35, <1>36, <1>37, <1>38, <1>39,
     <1>40, <1>41, <1>42, <1>43, <1>44, <1>45, <1>46, <1>47, <1>48
     DEF Next, Creation, DeployJob, DeployJobStep, SafetyNetJob, NetStep, RollbackJob, Node,
     Handler, HandlerStep, Operator

-----------------------------------------------------------------------------
\* Only a finalizing transaction writes more than one row, or `superseded`.
StatusWrite ==
    \/ UNCHANGED status
    \/ \E d \in Deployments, s \in Statuses \ {"superseded"} : status' = [status EXCEPT ![d] = s]
    \/ \E d \in Deployments : FinalizeCommit(d)

\* Every step writes statuses in one of these ways.
LEMMA StatusWrites == [Next]_vars => StatusWrite
<1>. SUFFICES ASSUME [Next]_vars PROVE StatusWrite
  OBVIOUS
<1>1. ASSUME NEW d \in Deployments, Creation(d)
      PROVE  StatusWrite
  BY <1>1 DEF StatusWrite, Statuses, SetStatus, Creation, Admit, Create,
     Enqueue, CreatorDies, rowVars
<1>2. ASSUME NEW d \in Deployments, DeployJob(d)
      PROVE  StatusWrite
  BY <1>2 DEF StatusWrite, Statuses, SetStatus, DeployJob, DeployJobStep,
     Start, Pick, Stall, CreateRun, Build, Package, Dispatch, AddNet,
     JobThrows, JobAborts, FailRun, FailDeployment, FailApp, WorkerDies,
     rowVars
<1>3. ASSUME NEW d \in Deployments, SafetyNetJob(d)
      PROVE  StatusWrite
  BY <1>3 DEF StatusWrite, Statuses, SetStatus, SafetyNetJob, NetStep,
     NetReads, NetFailsDeployment, NetFailsApp, NetFailsRun, NetDies, rowVars
<1>4. ASSUME NEW d \in Deployments, RollbackJob(d)
      PROVE  StatusWrite
  BY <1>4 DEF StatusWrite, Statuses, SetStatus, RollbackJob, RollbackRow,
     RollbackApp, RollbackDispatch, rowVars
<1>5. ASSUME NEW d \in Deployments, Node(d)
      PROVE  StatusWrite
  BY <1>5 DEF StatusWrite, Statuses, SetStatus, Node, Take, Refuse,
     ReportRunning, RunningUnreported, Work, NodeLoses, ReportEnd, RunningAgain,
     EndAgain, rowVars
<1>6. ASSUME NEW d \in Deployments, Handler(d)
      PROVE  StatusWrite
  BY <1>6 DEF StatusWrite, Statuses, SetStatus, Handler, HandlerStep,
     FinalizeMark, FinalizeScan, FailDeploy, FailDeployApp, ClosePipelineRun,
     HandlerDies, Deadlock, rowVars
<1>7. ASSUME NEW a \in Apps, Operator(a)
      PROVE  StatusWrite
  BY <1>7 DEF StatusWrite, Operator, StopApp, DeleteApp, MoveApp, rowVars
<1>8. CASE UNCHANGED vars
  BY <1>8 DEF StatusWrite, vars, rowVars
<1>. QED
  BY <1>1, <1>2, <1>3, <1>4, <1>5, <1>6, <1>7, <1>8 DEF Next

\* IInv is an invariant.
THEOREM Inductive == Spec => []IInv
<1>1. IInv /\ [Next]_vars => IInv'
  BY TypeNext, JobNext, OutcomeNext, FinalNext, RowNext DEF IInv
<1>. QED  BY InitInv, <1>1, PTL DEF Spec

\* The rows and the processes stay in the states the code knows.
THEOREM TypeCorrect == Spec => []TypeOK
<1>1. IInv => TypeOK
  BY DEF IInv
<1>. QED  BY Inductive, <1>1, PTL

\* Unless two finalizing transactions of an app overlapped, its running
\* deployment is the one the app points at, and there is no other: however many
\* deployments, jobs run twice, reports repeated and safety nets there are
\* (finalizeSuccessfulDeploy).
THEOREM RunningDeploymentIsCurrent == Spec => []RunningIsCurrent
<1>1. IInv => RunningIsCurrent
  BY DEF IInv, FinalInv
<1>. QED  BY Inductive, <1>1, PTL

\* currentDeploymentId names a deployment of the app that the node executed
\* with success (applyCommandResult).
THEOREM CurrentDeploymentSucceeded == Spec => []CurrentSucceeded
<1>1. IInv => CurrentSucceeded
  BY DEF IInv, OutcomeInv, CurrentSucceeded
<1>. QED  BY Inductive, <1>1, PTL

\* Two runs of a deploy job dispatch one command between them: PipelineRun's
\* unique deploymentId is what decides (processDeploy).
THEOREM OneCommandPerDeployment == Spec => []DispatchedOnce
<1>1. IInv => DispatchedOnce
  BY DEF IInv, JobInv, DispatchedOnce
<1>. QED  BY Inductive, <1>1, PTL

\* A pipeline run recorded as succeeded did succeed on the node
\* (closePipelineRun).
THEOREM RecordedRunIsTrue == Spec => []RunOutcomeTrue
<1>1. IInv => RunOutcomeTrue
  BY DEF IInv, OutcomeInv, RunOutcomeTrue
<1>. QED  BY Inductive, <1>1, PTL

\* A running deployment is superseded in the very step that makes another one
\* running and current (finalizeSuccessfulDeploy).
THEOREM SupersededByHandOver == Spec => HandOver
<1>1. ASSUME IInv, [Next]_vars,
             NEW d \in Deployments, status[d] = "running", status'[d] = "superseded"
      PROVE  \E e \in Siblings(d) : status'[e] = "running" /\ current'[AppOf[d]] = e
  <2>1. status \in [Deployments -> Statuses] /\ current \in [Apps -> Deployments \union {NoDeployment}]
    BY <1>1 DEF IInv, TypeOK
  <2>2. PICK e \in Deployments : FinalizeCommit(e)
    BY <1>1, <2>1, StatusWrites DEF StatusWrite
  <2>3. /\ status'[e] = "running" /\ status'[d] = IF d = e THEN "running"
                                                ELSE IF d \in scanned[e] THEN "superseded"
                                                ELSE "running"
        /\ current' = [current EXCEPT ![AppOf[e]] = e]
    BY <1>1, <2>2 DEF FinalizeCommit
  <2>4. d /= e /\ d \in Siblings(e)
    BY <1>1, <2>3 DEF IInv, FinalInv
  <2>. QED
    BY <2>1, <2>3, <2>4, AppOfAssumption DEF Siblings
<1>2. IInv /\ [Next]_vars =>
        [\A d \in Deployments :
            status[d] = "running" /\ status'[d] = "superseded" =>
                \E e \in Siblings(d) : status'[e] = "running" /\ current'[AppOf[d]] = e]_vars
  BY <1>1
<1>. QED  BY Inductive, <1>2, PTL DEF Spec, HandOver

-----------------------------------------------------------------------------
(* The rows keep the contract. *)

\* A step that leaves alone what the contract speaks of.
LEMMA Unspoken ==
  ASSUME UNCHANGED <<status, outcome, current, run, overlapped>>
  PROVE  UNCHANGED Contract!contractVars
BY DEF Contract!contractVars

\* A write of one status tells of one deployment.
LEMMA OneIsTold ==
  ASSUME NEW d \in Deployments, NEW s,
         status \in [Deployments -> Statuses], status' = [status EXCEPT ![d] = s]
  PROVE  [e \in Deployments |-> Told(status'[e])] =
            [[e \in Deployments |-> Told(status[e])] EXCEPT ![d] = Told(s)]
<1>. DEFINE after == [e \in Deployments |-> Told(status'[e])]
            expected == [[e \in Deployments |-> Told(status[e])] EXCEPT ![d] = Told(s)]
<1>1. ASSUME NEW e \in Deployments PROVE after[e] = expected[e]
  <2>1. status'[e] = IF e = d THEN s ELSE status[e]
    OBVIOUS
  <2>2. expected[e] = IF e = d THEN Told(s) ELSE Told(status[e])
    OBVIOUS
  <2>. QED  BY <2>1, <2>2
<1>2. after = [e \in Deployments |-> after[e]] /\ expected = [e \in Deployments |-> expected[e]]
  OBVIOUS
<1>. HIDE DEF after, expected
<1>3. after = expected
  BY <1>1, <1>2
<1>. QED  BY <1>3 DEF after, expected

\* A deployment that is there may be told to be pending, or failed.
LEMMA Telling ==
  ASSUME TypeOK, NEW d \in Deployments, status[d] /= "none",
         NEW s \in {"queued", "building", "deploying", "failed"},
         status' = [status EXCEPT ![d] = s], UNCHANGED <<outcome, current, run, overlapped>>
  PROVE  \E w \in {"pending", "failed"} : Contract!Tell(d, w)
<1>1. Told(s) \in {"pending", "failed"}
  BY DEF Told
<1>2. Told(status[d]) /= "none"
  BY DEF Told
<1>3. [e \in Deployments |-> Told(status'[e])] =
            [[e \in Deployments |-> Told(status[e])] EXCEPT ![d] = Told(s)]
  BY OneIsTold DEF TypeOK
<1>4. Contract!Tell(d, Told(s))
  BY <1>2, <1>3 DEF Contract!Tell
<1>. QED  BY <1>1, <1>4

\* A row that appears is a deployment that is created.
LEMMA Creating ==
  ASSUME TypeOK, NEW d \in Deployments, status[d] = "none", NEW s \in {"queued", "deploying"},
         status' = [status EXCEPT ![d] = s], UNCHANGED <<outcome, current, run, overlapped>>
  PROVE  Contract!Create(d)
<1>1. Told(s) = "pending" /\ Told(status[d]) = "none"
  BY DEF Told
<1>2. [e \in Deployments |-> Told(status'[e])] =
            [[e \in Deployments |-> Told(status[e])] EXCEPT ![d] = "pending"]
  BY <1>1, OneIsTold DEF TypeOK
<1>. QED  BY <1>1, <1>2 DEF Contract!Create

\* The transaction that finalizes d takes its app over, whole.
LEMMA ChangingOver ==
  ASSUME IInv, NEW d \in Deployments, FinalizeCommit(d)
  PROVE  Contract!GoLive(d)
<1>. DEFINE replaced == {e \in scanned[d] : status[e] = "running"}
            told == [e \in Deployments |-> Told(status[e])]
<1>1. /\ handler[d] = "scanned"
      /\ status' = [e \in Deployments |->
                     IF e = d THEN "running"
                     ELSE IF e \in scanned[d] /\ status[e] = "running" THEN "superseded"
                     ELSE status[e]]
      /\ current' = [current EXCEPT ![AppOf[d]] = d]
      /\ UNCHANGED <<outcome, run, overlapped>>
  BY DEF FinalizeCommit, Step, nodeVars
<1>2. outcome[d] = "ok"
  BY <1>1 DEF IInv, OutcomeInv
<1>3. /\ replaced \subseteq Siblings(d)
      /\ AppOf[d] \in overlapped \/ \A e \in Siblings(d) : status[e] = "running" => e \in replaced
  BY <1>1 DEF IInv, FinalInv
<1>4. Contract!Live(d) = {e \in Siblings(d) : status[e] = "running"}
  <2>1. \A e \in Deployments : told[e] = "live" <=> status[e] = "running"
    BY DEF Told, IInv, TypeOK, Statuses
  <2>. HIDE DEF told
  <2>2. Contract!Live(d) = {e \in Deployments \ {d} : AppOf[e] = AppOf[d] /\ told[e] = "live"}
    BY DEF Contract!Live, told
  <2>. QED  BY <2>1, <2>2 DEF Siblings
<1>5. replaced \in SUBSET Contract!Live(d) /\ (replaced = Contract!Live(d) \/ AppOf[d] \in overlapped)
  BY <1>3, <1>4
<1>6. [e \in Deployments |-> Told(status'[e])] =
         [e \in Deployments |-> IF e = d THEN "live"
                                ELSE IF e \in replaced THEN "replaced" ELSE told[e]]
  <2>1. ASSUME NEW e \in Deployments
        PROVE  Told(status'[e]) = IF e = d THEN "live"
                                  ELSE IF e \in replaced THEN "replaced" ELSE told[e]
    <3>1. Told("running") = "live" /\ Told("superseded") = "replaced"
      BY DEF Told
    <3>2. CASE e = d
      BY <1>1, <3>1, <3>2
    <3>3. CASE e /= d /\ e \in replaced
      BY <1>1, <3>1, <3>3
    <3>4. CASE e /= d /\ e \notin replaced
      BY <1>1, <3>4
    <3>. QED  BY <3>2, <3>3, <3>4
  <2>. QED  BY <2>1
<1>. HIDE DEF replaced
<1>. QED  BY <1>1, <1>2, <1>5, <1>6 DEF Contract!GoLive

\* The rows begin as the contract does.
LEMMA RefineInit == Init => Contract!CInit
BY DEF Init, Contract!CInit, Told

\* Every step is one of the contract's, or none of its business.
LEMMA RefineNext == IInv /\ [Next]_vars => [Contract!CStep]_(Contract!contractVars)
<1>. SUFFICES ASSUME IInv, [Next]_vars PROVE [Contract!CStep]_(Contract!contractVars)
  OBVIOUS
<1>. USE DEF IInv
<1>1. /\ \A d \in Deployments : birth[d] \in {"enqueued", "rolledBack"} => status[d] /= "none"
      /\ \A d \in Deployments : commands[d] > 0 => birth[d] \in {"enqueued", "rolledBack"}
      /\ \A d \in Deployments, k \in Attempts : job[d][k] /= "idle" => birth[d] = "enqueued"
      /\ \A d \in Deployments : net[d] /= "none" => birth[d] = "enqueued"
      /\ \A d \in Deployments : exec[d] /= "none" => commands[d] > 0
      /\ \A d \in Deployments : handler[d] /= "idle" => exec[d] = "reported"
  <2>1. \A d \in Deployments : birth[d] \in {"enqueued", "rolledBack"} => status[d] /= "none"
    BY DEF RowInv
  <2>2. \A d \in Deployments : commands[d] > 0 => birth[d] \in {"enqueued", "rolledBack"}
    BY DEF JobInv, TypeOK
  <2>3. \A d \in Deployments, k \in Attempts : job[d][k] /= "idle" => birth[d] = "enqueued"
    BY DEF JobInv
  <2>4. \A d \in Deployments : net[d] /= "none" => birth[d] = "enqueued"
    BY DEF RowInv
  <2>5. \A d \in Deployments : exec[d] /= "none" => commands[d] > 0
    BY DEF RowInv
  <2>6. \A d \in Deployments : handler[d] /= "idle" => exec[d] = "reported"
    BY DEF OutcomeInv
  <2>. QED  BY <2>1, <2>2, <2>3, <2>4, <2>5, <2>6
<1>2. ASSUME NEW d \in Deployments, Create(d)
      PROVE  Contract!Create(d)
  <2>1. status[d] = "none"
    BY <1>2 DEF Create, RowInv
  <2>2. status' = [status EXCEPT ![d] = "queued"] /\ UNCHANGED <<outcome, current, run, overlapped>>
    BY <1>2 DEF Create, workerVars, nodeVars, apiVars
  <2>. QED  BY <2>1, <2>2, Creating
<1>3. ASSUME NEW d \in Deployments, RollbackRow(d)
      PROVE  Contract!Create(d)
  <2>1. status[d] = "none"
    BY <1>3 DEF RollbackRow, RowInv
  <2>2. status' = [status EXCEPT ![d] = "deploying"] /\ UNCHANGED <<outcome, current, run, overlapped>>
    BY <1>3 DEF RollbackRow, appVars, workerVars, nodeVars, apiVars
  <2>. QED  BY <2>1, <2>2, Creating
<1>4. ASSUME NEW d \in Deployments, NEW k \in Attempts, Build(d, k)
      PROVE  \E w \in {"pending", "failed"} : Contract!Tell(d, w)
  <2>1. status[d] /= "none"
    BY <1>4, <1>1 DEF Build
  <2>2. status' = [status EXCEPT ![d] = "building"] /\ UNCHANGED <<outcome, current, run, overlapped>>
    BY <1>4 DEF Build, appVars, nodeVars, apiVars, SetStatus
  <2>. QED  BY <2>1, <2>2, Telling
<1>5. ASSUME NEW d \in Deployments, NEW k \in Attempts, Package(d, k)
      PROVE  \E w \in {"pending", "failed"} : Contract!Tell(d, w)
  <2>1. status[d] /= "none"
    BY <1>5, <1>1 DEF Package
  <2>2. status' = [status EXCEPT ![d] = "deploying"] /\ UNCHANGED <<outcome, current, run, overlapped>>
    BY <1>5 DEF Package, appVars, nodeVars, apiVars, SetStatus
  <2>. QED  BY <2>1, <2>2, Telling
<1>6. ASSUME NEW d \in Deployments, NEW k \in Attempts, FailDeployment(d, k)
      PROVE  \E w \in {"pending", "failed"} : Contract!Tell(d, w)
  <2>1. status[d] /= "none"
    BY <1>6, <1>1 DEF FailDeployment
  <2>2. status' = [status EXCEPT ![d] = "failed"] /\ UNCHANGED <<outcome, current, run, overlapped>>
    BY <1>6 DEF FailDeployment, appVars, nodeVars, apiVars, SetStatus
  <2>. QED  BY <2>1, <2>2, Telling
<1>7. ASSUME NEW d \in Deployments, NetFailsDeployment(d)
      PROVE  \E w \in {"pending", "failed"} : Contract!Tell(d, w)
  <2>1. status[d] /= "none"
    BY <1>7, <1>1 DEF NetFailsDeployment
  <2>2. status' = [status EXCEPT ![d] = "failed"] /\ UNCHANGED <<outcome, current, run, overlapped>>
    BY <1>7 DEF NetFailsDeployment, appVars, nodeVars, apiVars, SetStatus
  <2>. QED  BY <2>1, <2>2, Telling
<1>8. ASSUME NEW d \in Deployments, ReportRunning(d)
      PROVE  \E w \in {"pending", "failed"} : Contract!Tell(d, w)
  <2>1. status[d] /= "none"
    BY <1>8, <1>1 DEF ReportRunning
  <2>2. status' = [status EXCEPT ![d] = "deploying"] /\ UNCHANGED <<outcome, current, run, overlapped>>
    BY <1>8 DEF ReportRunning, appVars, workerVars, apiVars, SetStatus
  <2>. QED  BY <2>1, <2>2, Telling
<1>9. ASSUME NEW d \in Deployments, RunningAgain(d)
      PROVE  \E w \in {"pending", "failed"} : Contract!Tell(d, w)
  <2>1. status[d] /= "none"
    BY <1>9, <1>1 DEF RunningAgain
  <2>2. status' = [status EXCEPT ![d] = "deploying"] /\ UNCHANGED <<outcome, current, run, overlapped>>
    BY <1>9 DEF RunningAgain, appVars, workerVars, nodeVars, apiVars, SetStatus
  <2>. QED  BY <2>1, <2>2, Telling
<1>10. ASSUME NEW d \in Deployments, FailDeploy(d)
      PROVE  \E w \in {"pending", "failed"} : Contract!Tell(d, w)
  <2>1. status[d] /= "none"
    BY <1>10, <1>1 DEF FailDeploy, Step
  <2>2. status' = [status EXCEPT ![d] = "failed"] /\ UNCHANGED <<outcome, current, run, overlapped>>
    BY <1>10 DEF FailDeploy, appVars, workerVars, nodeVars, SetStatus, Step
  <2>. QED  BY <2>1, <2>2, Telling
<1>11. ASSUME NEW d \in Deployments, Refuse(d)
      PROVE  Contract!Execute(d, "refused")
  <2>1. status[d] /= "none" /\ outcome[d] = "none"
    BY <1>11, <1>1 DEF Refuse, RowInv
  <2>2. outcome' = [outcome EXCEPT ![d] = "refused"] /\ UNCHANGED <<status, current, run, overlapped>>
    BY <1>11 DEF Refuse, rowVars, appVars, workerVars, apiVars
  <2>3. Told(status[d]) /= "none"
    BY <2>1 DEF Told
  <2>. QED  BY <2>1, <2>2, <2>3 DEF Contract!Execute
<1>12. ASSUME NEW d \in Deployments, Work(d)
      PROVE  \E o \in {"ok", "bad"} : Contract!Execute(d, o)
  <2>1. status[d] /= "none" /\ outcome[d] = "none"
    BY <1>12, <1>1 DEF Work, RowInv
  <2>2. PICK o \in {"ok", "bad"} : outcome' = [outcome EXCEPT ![d] = o]
    BY <1>12 DEF Work
  <2>3. UNCHANGED <<status, current, run, overlapped>>
    BY <1>12 DEF Work, rowVars, appVars, workerVars, apiVars
  <2>4. Told(status[d]) /= "none"
    BY <2>1 DEF Told
  <2>. QED  BY <2>1, <2>2, <2>3, <2>4 DEF Contract!Execute
<1>13. ASSUME NEW d \in Deployments, FinalizeMark(d)
      PROVE  [Contract!CStep]_(Contract!contractVars)
  <2>1. UNCHANGED <<status, outcome, current, run>>
    BY <1>13 DEF FinalizeMark, rowVars, appVars, workerVars, nodeVars, Step
  <2>2. CASE overlapped' = overlapped \union {AppOf[d]}
    <3>1. Contract!Contest(AppOf[d])
      BY <2>1, <2>2 DEF Contract!Contest
    <3>. QED  BY <3>1, AppOfAssumption DEF Contract!CStep
  <2>3. CASE UNCHANGED overlapped
    BY <2>1, <2>3, Unspoken
  <2>. QED  BY <1>13, <2>2, <2>3 DEF FinalizeMark
<1>14. ASSUME NEW d \in Deployments, FinalizeCommit(d)
      PROVE  Contract!GoLive(d)
  BY <1>14, ChangingOver
<1>15. ASSUME NEW d \in Deployments, NEW k \in Attempts, CreateRun(d, k)
      PROVE  Contract!OpenRun(d) \/ UNCHANGED Contract!contractVars
  <2>1. UNCHANGED <<status, outcome, current, overlapped>>
    BY <1>15 DEF CreateRun, rowVars, appVars, nodeVars, apiVars
  <2>2. CASE run[d] = "none" /\ run' = [run EXCEPT ![d] = "running"]
    BY <2>1, <2>2 DEF Contract!OpenRun
  <2>3. CASE UNCHANGED run
    BY <2>1, <2>3, Unspoken
  <2>. QED  BY <1>15, <2>2, <2>3 DEF CreateRun
<1>16. ASSUME NEW d \in Deployments, NEW k \in Attempts, FailRun(d, k)
      PROVE  Contract!CloseRun(d, "failed")
  <2>1. run[d] /= "none"
    BY <1>16 DEF FailRun, RowInv
  <2>2. run' = [run EXCEPT ![d] = "failed"] /\ UNCHANGED <<status, outcome, current, overlapped>>
    BY <1>16 DEF FailRun, rowVars, appVars, nodeVars, apiVars
  <2>. QED  BY <2>1, <2>2 DEF Contract!CloseRun
<1>17. ASSUME NEW d \in Deployments, NetFailsRun(d)
      PROVE  Contract!CloseRun(d, "failed") \/ UNCHANGED Contract!contractVars
  <2>1. UNCHANGED <<status, outcome, current, overlapped>>
    BY <1>17 DEF NetFailsRun, rowVars, appVars, nodeVars, apiVars
  <2>2. CASE run[d] = "running"
    <3>1. run' = [run EXCEPT ![d] = "failed"]
      BY <1>17, <2>2 DEF NetFailsRun
    <3>. QED  BY <2>1, <2>2, <3>1 DEF Contract!CloseRun
  <2>3. CASE run[d] /= "running"
    <3>1. UNCHANGED run
      BY <1>17, <2>3 DEF NetFailsRun, TypeOK
    <3>. QED  BY <2>1, <3>1, Unspoken
  <2>. QED  BY <2>2, <2>3
<1>18. ASSUME NEW d \in Deployments, ClosePipelineRun(d)
      PROVE  (\E h \in {"succeeded", "failed"} : Contract!CloseRun(d, h)) \/ UNCHANGED Contract!contractVars
  <2>1. UNCHANGED <<status, outcome, current, overlapped>>
    BY <1>18 DEF ClosePipelineRun, rowVars, appVars, workerVars, nodeVars, Step
  <2>2. CASE run[d] = "none"
    <3>1. UNCHANGED run
      BY <1>18, <2>2 DEF ClosePipelineRun, TypeOK
    <3>. QED  BY <2>1, <3>1, Unspoken
  <2>3. CASE run[d] /= "none"
    <3>1. PICK r \in {"closeOk", "closeBad"} :
             /\ handler[d] = r
             /\ run' = [run EXCEPT ![d] = IF r = "closeOk" THEN "succeeded" ELSE "failed"]
      BY <1>18, <2>3 DEF ClosePipelineRun, Step
    <3>2. CASE r = "closeOk"
      <4>1. outcome[d] = "ok"
        BY <3>1, <3>2 DEF OutcomeInv
      <4>2. run' = [run EXCEPT ![d] = "succeeded"]
        BY <3>1, <3>2
      <4>3. Contract!CloseRun(d, "succeeded")
        BY <2>1, <2>3, <4>1, <4>2 DEF Contract!CloseRun
      <4>. QED  BY <4>3
    <3>3. CASE r = "closeBad"
      <4>1. run' = [run EXCEPT ![d] = "failed"]
        BY <3>1, <3>3
      <4>2. Contract!CloseRun(d, "failed")
        BY <2>1, <2>3, <4>1 DEF Contract!CloseRun
      <4>. QED  BY <4>2
    <3>. QED  BY <3>2, <3>3
  <2>. QED  BY <2>2, <2>3
<1>19. ASSUME NEW d \in Deployments, Admit(d)
      PROVE  UNCHANGED Contract!contractVars
  BY <1>19, Unspoken DEF Admit, appVars, workerVars, nodeVars, apiVars
<1>20. ASSUME NEW d \in Deployments, Enqueue(d)
      PROVE  UNCHANGED Contract!contractVars
  BY <1>20, Unspoken DEF Enqueue, appVars, workerVars, nodeVars, apiVars
<1>21. ASSUME NEW d \in Deployments, CreatorDies(d)
      PROVE  UNCHANGED Contract!contractVars
  BY <1>21, Unspoken DEF CreatorDies, appVars, workerVars, nodeVars, apiVars
<1>22. ASSUME NEW d \in Deployments, NEW k \in Attempts, Pick(d, k)
      PROVE  UNCHANGED Contract!contractVars
  BY <1>22, Unspoken DEF Pick, Start, rowVars, appVars, nodeVars, apiVars
<1>23. ASSUME NEW d \in Deployments, NEW k \in Attempts, Stall(d, k)
      PROVE  UNCHANGED Contract!contractVars
  BY <1>23, Unspoken DEF Stall, rowVars, appVars, nodeVars, apiVars, Start
<1>24. ASSUME NEW d \in Deployments, NEW k \in Attempts, Dispatch(d, k)
      PROVE  UNCHANGED Contract!contractVars
  BY <1>24, Unspoken DEF Dispatch, rowVars, appVars, nodeVars, apiVars
<1>25. ASSUME NEW d \in Deployments, NEW k \in Attempts, AddNet(d, k)
      PROVE  UNCHANGED Contract!contractVars
  BY <1>25, Unspoken DEF AddNet, rowVars, appVars, nodeVars, apiVars
<1>26. ASSUME NEW d \in Deployments, NEW k \in Attempts, JobThrows(d, k)
      PROVE  UNCHANGED Contract!contractVars
  BY <1>26, Unspoken DEF JobThrows, rowVars, appVars, nodeVars, apiVars
<1>27. ASSUME NEW d \in Deployments, NEW k \in Attempts, JobAborts(d, k)
      PROVE  UNCHANGED Contract!contractVars
  BY <1>27, Unspoken DEF JobAborts, rowVars, appVars, nodeVars, apiVars
<1>28. ASSUME NEW d \in Deployments, NEW k \in Attempts, FailApp(d, k)
      PROVE  UNCHANGED Contract!contractVars
  BY <1>28, Unspoken DEF FailApp, rowVars, nodeVars, apiVars
<1>29. ASSUME NEW d \in Deployments, NEW k \in Attempts, WorkerDies(d, k)
      PROVE  UNCHANGED Contract!contractVars
  BY <1>29, Unspoken DEF WorkerDies, rowVars, appVars, nodeVars, apiVars
<1>30. ASSUME NEW d \in Deployments, NetReads(d)
      PROVE  UNCHANGED Contract!contractVars
  BY <1>30, Unspoken DEF NetReads, rowVars, appVars, nodeVars, apiVars
<1>31. ASSUME NEW d \in Deployments, NetFailsApp(d)
      PROVE  UNCHANGED Contract!contractVars
  BY <1>31, Unspoken DEF NetFailsApp, rowVars, nodeVars, apiVars
<1>32. ASSUME NEW d \in Deployments, NetDies(d)
      PROVE  UNCHANGED Contract!contractVars
  BY <1>32, Unspoken DEF NetDies, rowVars, appVars, nodeVars, apiVars
<1>33. ASSUME NEW d \in Deployments, RollbackApp(d)
      PROVE  UNCHANGED Contract!contractVars
  BY <1>33, Unspoken DEF RollbackApp, workerVars, nodeVars, apiVars
<1>34. ASSUME NEW d \in Deployments, RollbackDispatch(d)
      PROVE  UNCHANGED Contract!contractVars
  BY <1>34, Unspoken DEF RollbackDispatch, appVars, workerVars, apiVars
<1>35. ASSUME NEW d \in Deployments, Take(d)
      PROVE  UNCHANGED Contract!contractVars
  BY <1>35, Unspoken DEF Take, rowVars, appVars, workerVars, apiVars
<1>36. ASSUME NEW d \in Deployments, RunningUnreported(d)
      PROVE  UNCHANGED Contract!contractVars
  BY <1>36, Unspoken DEF RunningUnreported, rowVars, appVars, workerVars, apiVars
<1>37. ASSUME NEW d \in Deployments, NodeLoses(d)
      PROVE  UNCHANGED Contract!contractVars
  BY <1>37, Unspoken DEF NodeLoses, rowVars, appVars, workerVars, apiVars
<1>38. ASSUME NEW d \in Deployments, ReportEnd(d)
      PROVE  UNCHANGED Contract!contractVars
  BY <1>38, Unspoken DEF ReportEnd, rowVars, appVars, workerVars
<1>39. ASSUME NEW d \in Deployments, EndAgain(d)
      PROVE  UNCHANGED Contract!contractVars
  BY <1>39, Unspoken DEF EndAgain, rowVars, appVars, workerVars, nodeVars
<1>40. ASSUME NEW d \in Deployments, FinalizeScan(d)
      PROVE  UNCHANGED Contract!contractVars
  BY <1>40, Unspoken DEF FinalizeScan, rowVars, appVars, workerVars, nodeVars, Step
<1>41. ASSUME NEW d \in Deployments, FailDeployApp(d)
      PROVE  UNCHANGED Contract!contractVars
  BY <1>41, Unspoken DEF FailDeployApp, rowVars, workerVars, nodeVars, Step
<1>42. ASSUME NEW d \in Deployments, HandlerDies(d)
      PROVE  UNCHANGED Contract!contractVars
  BY <1>42, Unspoken DEF HandlerDies, rowVars, appVars, workerVars
<1>43. ASSUME NEW d \in Deployments, Deadlock(d)
      PROVE  UNCHANGED Contract!contractVars
  BY <1>43, Unspoken DEF Deadlock, rowVars, appVars, workerVars
<1>44. ASSUME NEW a \in Apps, StopApp(a)
      PROVE  UNCHANGED Contract!contractVars
  BY <1>44, Unspoken DEF StopApp, rowVars, workerVars, nodeVars, apiVars
<1>45. ASSUME NEW a \in Apps, DeleteApp(a)
      PROVE  UNCHANGED Contract!contractVars
  BY <1>45, Unspoken DEF DeleteApp, rowVars, workerVars, nodeVars, apiVars
<1>46. ASSUME NEW a \in Apps, MoveApp(a)
      PROVE  UNCHANGED Contract!contractVars
  BY <1>46, Unspoken DEF MoveApp, rowVars, workerVars, nodeVars, apiVars
<1>47. CASE UNCHANGED vars
  BY <1>47, Unspoken DEF vars, rowVars, appVars, nodeVars, apiVars
<1>. QED
  BY <1>2, <1>3, <1>4, <1>5, <1>6, <1>7, <1>8, <1>9, <1>10, <1>11, <1>12, <1>13, <1>14,
     <1>15, <1>16, <1>17, <1>18, <1>19, <1>20, <1>21, <1>22, <1>23, <1>24, <1>25, <1>26,
     <1>27, <1>28, <1>29, <1>30, <1>31, <1>32, <1>33, <1>34, <1>35, <1>36, <1>37, <1>38,
     <1>39, <1>40, <1>41, <1>42, <1>43, <1>44, <1>45, <1>46, <1>47
     DEF Next, Creation, DeployJob, DeployJobStep, SafetyNetJob, NetStep, RollbackJob, Node,
     Handler, HandlerStep, Operator, Contract!CStep

\* However jobs, reports, safety nets and transactions are interleaved and whatever of
\* them fails, the rows keep the contract: an app changes over in one step, to a
\* deployment of its own that the node executed with success, and its run is opened
\* once (processDeploy, finalizeSuccessfulDeploy, closePipelineRun).
THEOREM LifecycleKeepsContract == Spec => DeploymentsKeepContract
<1>1. IInv /\ [Next]_vars => [Contract!CNext]_(Contract!contractVars)
  BY RefineNext DEF Contract!CNext
<1>2. QED
  BY <1>1, Inductive, RefineInit, PTL DEF Spec, DeploymentsKeepContract, Contract!CSpec

=============================================================================
