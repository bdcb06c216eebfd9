----------------------- MODULE ManagedResourcesProofs -----------------------
(***************************************************************************)
(* Theorems about ManagedResources, for every number of tasks, every kind  *)
(* of resource and every number of faults. While nothing overlaps, is      *)
(* refused or fails, one task at most is under way (Solo); UnderWay says   *)
(* what it has done so far, and Rest what is true when there is none.      *)
(***************************************************************************)
EXTENDS ManagedResources, TLAPS

Active(t) == stage[t] \notin Ended

Solo == \A t, u \in Tasks : Active(t) /\ Active(u) => t = u

\* The row tells what the container does.
Told ==
    \/ status = Up /\ box = "running"
    \/ status = "stopped" /\ box = "stopped"
    \/ status = "running" /\ box = "stopped" /\ \E t \in Tasks : action[t] = "backup"

Rest ==
    /\ status = "none" \/ deleted \/ Told
    /\ deleted /\ kind /= "loadbalancer" => box = "none"

Waiting == {"add", "job", "read", "command"}

UnderWay(t) ==
    CASE action[t] = "provision" ->
            /\ ~deleted /\ stage[t] \in Waiting \union {"replaced", "created", "succeeded"}
            /\ stage[t] = "replaced" => box = "none"
            /\ stage[t] = "created" => box = "created"
            /\ stage[t] = "succeeded" => box = "running"
      [] action[t] = "stop" ->
            /\ ~deleted /\ stage[t] \in Waiting \union {"succeeded"}
            /\ box \in {"running", "stopped"}
            /\ stage[t] = "succeeded" => box = "stopped"
      [] action[t] = "backup" ->
            /\ ~deleted /\ stage[t] \in Waiting \union {"succeeded", "failed"}
            /\ kind = "database" /\ box \in {"running", "stopped"}
      [] action[t] = "remove" ->
            /\ deleted /\ stage[t] \in Waiting \union {"succeeded", "failed"}
            /\ kind = "loadbalancer" => stage[t] \in {"add", "job"}
            /\ stage[t] \in {"succeeded", "failed"} => box = "none"
      [] OTHER -> FALSE

\* What holds whatever overlaps and fails.
RowInv ==
    /\ deleted => status /= "none"
    /\ \A t \in Tasks : stage[t] = "idle" => action[t] = "none"

Orderly ==
    /\ Solo
    /\ Quiet => Rest
    /\ \A t \in Tasks : Active(t) => UnderWay(t)

IInv == TypeOK /\ RowInv /\ (Undisturbed => Orderly)

-----------------------------------------------------------------------------
(* Types *)

\* The types hold initially.
LEMMA TypeInit == Init => TypeOK
<1>. SUFFICES ASSUME Init PROVE TypeOK
  OBVIOUS
<1>1. action \in [Tasks -> {"none"}] /\ stage \in [Tasks -> {"idle"}]
  BY DEF Init
<1>2. faults \in 0 .. MaxFaults
  BY FaultAssumption DEF Init
<1>. QED  BY <1>1, <1>2 DEF Init, TypeOK, Ended

\* A request writes a status of the row and a new task.
LEMMA TypeRequest == ASSUME TypeOK, NEW t \in Tasks, Request(t) PROVE TypeOK'
<1>. USE DEF TypeOK, Ask, Ended, Transient
<1>1. CASE CreateDatabase(t)  BY <1>1 DEF CreateDatabase, Create
<1>2. CASE CreateBucket(t)  BY <1>2 DEF CreateBucket, Create
<1>3. CASE CreateFunction(t)  BY <1>3 DEF CreateFunction, Create
<1>4. CASE CreateLoadBalancer(t)  BY <1>4 DEF CreateLoadBalancer, Create
<1>5. CASE ActOnDatabase(t)  BY <1>5 DEF ActOnDatabase
<1>6. CASE Reconcile(t)  BY <1>6 DEF Reconcile
<1>7. CASE DeleteDatabase(t)  BY <1>7 DEF DeleteDatabase, Delete
<1>8. CASE DeleteBucket(t)  BY <1>8 DEF DeleteBucket, Delete
<1>9. CASE DeleteFunction(t)  BY <1>9 DEF DeleteFunction, Delete
<1>10. CASE DeleteLoadBalancer(t)  BY <1>10 DEF DeleteLoadBalancer, Delete
<1>. QED  BY <1>1, <1>2, <1>3, <1>4, <1>5, <1>6, <1>7, <1>8, <1>9, <1>10 DEF Request

\* A report writes one of the statuses of the row.
LEMMA StatusAfterType ==
    ASSUME TypeOK, NEW t \in Tasks
    PROVE  /\ StatusAfter(t) \in Transient \union {"none", "running", "active", "stopped", "failed"}
           /\ status /= "none" => StatusAfter(t) /= "none"
BY DEF TypeOK, StatusAfter, Up, Transient

\* A step of a job, of the node or of a report goes to a stage.
LEMMA TypeWork == ASSUME TypeOK, NEW t \in Tasks, Work(t) PROVE TypeOK'
<1>. USE DEF TypeOK, Goto, AgentStages, Ended
<1>1. CASE AddJob(t)  BY <1>1 DEF AddJob
<1>2. CASE Read(t)  BY <1>2 DEF Read
<1>3. CASE DispatchAny(t)
  BY <1>3 DEF DispatchAny, DispatchDatabase, DispatchBucket, DispatchFunction,
              DispatchLoadBalancer, Dispatch, Transient
<1>4. CASE ProvisionDatabase(t) \/ ProvisionStorage(t) \/ DeployFunction(t) \/ ProvisionLb(t)
  BY <1>4 DEF ProvisionDatabase, ProvisionStorage, DeployFunction, ProvisionLb, Replace, Step
<1>5. CASE CreateBox(t)  BY <1>5 DEF CreateBox, Step
<1>6. CASE StartBox(t)  BY <1>6 DEF StartBox, Step
<1>7. CASE StopBox(t)  BY <1>7 DEF StopBox, Step
<1>8. CASE Backup(t)  BY <1>8 DEF Backup, Step
<1>9. CASE RemoveDatabase(t) \/ RemoveStorage(t) \/ RemoveFunction(t)
  BY <1>9 DEF RemoveDatabase, RemoveStorage, RemoveFunction, RemoveBox, EndOfRemoval, Step
<1>10. CASE Report(t)  BY <1>10, StatusAfterType DEF Report
<1>. QED  BY <1>1, <1>2, <1>3, <1>4, <1>5, <1>6, <1>7, <1>8, <1>9, <1>10 DEF Work

\* Every fault counts.
LEMMA FaultType == ASSUME TypeOK, Fault PROVE faults' \in 0 .. MaxFaults /\ faults' /= 0
BY FaultAssumption DEF TypeOK, Fault

\* A fault changes no type.
LEMMA TypeBreak == ASSUME TypeOK, NEW t \in Tasks, Break(t) PROVE TypeOK' /\ faults' /= 0
<1>. USE FaultType DEF TypeOK, Goto, Ended
<1>1. CASE RequestDies(t)  BY <1>1 DEF RequestDies
<1>2. CASE WorkerDies(t)  BY <1>2 DEF WorkerDies
<1>3. CASE CommandFails(t)  BY <1>3 DEF CommandFails
<1>4. CASE ReportUnanswered(t)  BY <1>4, StatusAfterType DEF ReportUnanswered
<1>. QED  BY <1>1, <1>2, <1>3, <1>4 DEF Break

\* Every step keeps the types.
LEMMA TypeNext == TypeOK /\ [Next]_vars => TypeOK'
<1>. SUFFICES ASSUME TypeOK, [Next]_vars PROVE TypeOK'
  OBVIOUS
<1>1. CASE AgentDies  BY <1>1, FaultType DEF AgentDies, TypeOK, Ended
<1>2. CASE UNCHANGED vars  BY <1>2 DEF vars, TypeOK
<1>3. ASSUME NEW t \in Tasks, RefuseCommand(t) PROVE TypeOK'
  BY <1>3 DEF RefuseCommand, Goto, TypeOK, AgentStages, Ended
<1>. QED  BY <1>1, <1>2, <1>3, TypeRequest, TypeWork, TypeBreak DEF Next

\* In every behavior every variable keeps its type.
THEOREM TypeCorrect == Spec => []TypeOK
<1>. QED  BY TypeInit, TypeNext, PTL DEF Spec

-----------------------------------------------------------------------------
(* What holds whatever overlaps *)

\* Every step keeps RowInv.
LEMMA RowNext == TypeOK /\ RowInv /\ [Next]_vars => RowInv'
<1>. SUFFICES ASSUME TypeOK, RowInv, [Next]_vars PROVE RowInv'
  OBVIOUS
<1>. USE DEF RowInv
<1>1. ASSUME NEW t \in Tasks, Request(t) PROVE RowInv'
  <2>. USE DEF Ask, TypeOK
  <2>1. CASE CreateDatabase(t) \/ CreateBucket(t) \/ CreateFunction(t) \/ CreateLoadBalancer(t)
    BY <2>1 DEF CreateDatabase, CreateBucket, CreateFunction, CreateLoadBalancer, Create
  <2>2. CASE ActOnDatabase(t) \/ Reconcile(t)
    BY <2>2 DEF ActOnDatabase, Reconcile
  <2>3. CASE DeleteDatabase(t) \/ DeleteBucket(t) \/ DeleteFunction(t) \/ DeleteLoadBalancer(t)
    BY <2>3 DEF DeleteDatabase, DeleteBucket, DeleteFunction, DeleteLoadBalancer, Delete, Found
  <2>. QED  BY <1>1, <2>1, <2>2, <2>3 DEF Request
<1>2. ASSUME NEW t \in Tasks, Work(t) PROVE RowInv'
  <2>. USE DEF Goto, TypeOK
  <2>1. CASE AddJob(t) \/ Read(t)  BY <2>1 DEF AddJob, Read
  <2>2. CASE DispatchAny(t)
    BY <2>2 DEF DispatchAny, DispatchDatabase, DispatchBucket, DispatchFunction,
                DispatchLoadBalancer, Dispatch
  <2>3. CASE ProvisionDatabase(t) \/ ProvisionStorage(t) \/ DeployFunction(t) \/ ProvisionLb(t)
    BY <2>3 DEF ProvisionDatabase, ProvisionStorage, DeployFunction, ProvisionLb, Replace, Step
  <2>4. CASE CreateBox(t) \/ StartBox(t) \/ StopBox(t) \/ Backup(t)
    BY <2>4 DEF CreateBox, StartBox, StopBox, Backup, Step
  <2>5. CASE RemoveDatabase(t) \/ RemoveStorage(t) \/ RemoveFunction(t)
    BY <2>5 DEF RemoveDatabase, RemoveStorage, RemoveFunction, RemoveBox, EndOfRemoval, Step
  <2>6. CASE Report(t)  BY <2>6, StatusAfterType DEF Report
  <2>. QED  BY <1>2, <2>1, <2>2, <2>3, <2>4, <2>5, <2>6 DEF Work
<1>3. ASSUME NEW t \in Tasks, Break(t) PROVE RowInv'
  <2>. USE DEF Goto, TypeOK
  <2>1. CASE RequestDies(t)  BY <2>1 DEF RequestDies
  <2>2. CASE WorkerDies(t)  BY <2>2 DEF WorkerDies, New
  <2>3. CASE CommandFails(t)  BY <2>3 DEF CommandFails
  <2>4. CASE ReportUnanswered(t)  BY <2>4, StatusAfterType DEF ReportUnanswered
  <2>. QED  BY <1>3, <2>1, <2>2, <2>3, <2>4 DEF Break
<1>4. CASE AgentDies  BY <1>4 DEF AgentDies, TypeOK
<1>5. CASE UNCHANGED vars  BY <1>5 DEF vars
<1>6. ASSUME NEW t \in Tasks, RefuseCommand(t) PROVE RowInv'
  BY <1>6 DEF RefuseCommand, Goto, TypeOK
<1>. QED  BY <1>1, <1>2, <1>3, <1>4, <1>5, <1>6 DEF Next

-----------------------------------------------------------------------------
(* What holds while nothing overlaps and nothing fails *)

\* A request that meets no other finds everything at rest, and is alone after it.
LEMMA AskAlone ==
    ASSUME TypeOK, RowInv, Undisturbed => Orderly, NEW t \in Tasks, NEW a, Ask(t, a), Undisturbed'
    PROVE  /\ Rest /\ \A u \in Tasks : ~Active(u)
           /\ action'[t] = a /\ stage'[t] = "add"
           /\ Solo' /\ ~Quiet' /\ \A u \in Tasks : Active(u)' => u = t
<1>1. Undisturbed /\ Quiet /\ stage' = [stage EXCEPT ![t] = "add"] /\ action' = [action EXCEPT ![t] = a]
  BY DEF Ask, Undisturbed
<1>2. Rest /\ \A u \in Tasks : ~Active(u)
  BY <1>1 DEF Orderly, Quiet, Active
<1>3. stage'[t] = "add" /\ action'[t] = a /\ \A u \in Tasks : u /= t => stage'[u] = stage[u]
  BY <1>1 DEF TypeOK
<1>. QED  BY <1>2, <1>3 DEF Solo, Quiet, Active, Ended

\* A task that goes on is alone before and after it.
LEMMA GotoAlone ==
    ASSUME TypeOK, Solo, NEW t \in Tasks, Active(t), NEW to, Goto(t, to)
    PROVE  /\ stage'[t] = to
           /\ Solo' /\ \A u \in Tasks : Active(u)' => u = t
           /\ Quiet' => to \in Ended
<1>1. stage'[t] = to /\ \A u \in Tasks : u /= t => stage'[u] = stage[u]
  BY DEF Goto, TypeOK
<1>. QED  BY <1>1 DEF Solo, Active, Quiet

\* A request keeps the order.
LEMMA OrderlyRequest ==
    ASSUME TypeOK, RowInv, Undisturbed => Orderly, NEW t \in Tasks, Request(t), Undisturbed'
    PROVE  Orderly'
<1>. USE DEF Orderly
<1>1. CASE CreateDatabase(t) \/ CreateBucket(t) \/ CreateFunction(t) \/ CreateLoadBalancer(t)
  <2>1. Ask(t, "provision") /\ ~deleted'
    BY <1>1 DEF CreateDatabase, CreateBucket, CreateFunction, CreateLoadBalancer, Create, RowInv, TypeOK
  <2>. QED  BY <2>1, AskAlone DEF UnderWay, Waiting
<1>2. CASE ActOnDatabase(t)
  <2>1. PICK a \in {"stop", "provision", "backup"} : Ask(t, a)
    BY <1>2 DEF ActOnDatabase
  <2>2. ~deleted' /\ status /= "none" /\ ~deleted /\ kind = "database" /\ kind' = kind /\ box' = box
    BY <1>2, <2>1 DEF ActOnDatabase, Found, Ask
  <2>3. box' \in {"running", "stopped"}
    BY <2>1, <2>2, AskAlone DEF Rest, Told
  <2>. QED  BY <2>1, <2>2, <2>3, AskAlone DEF UnderWay, Waiting
<1>3. CASE Reconcile(t)
  <2>1. Ask(t, "provision") /\ ~deleted'
    BY <1>3 DEF Reconcile, Found
  <2>. QED  BY <2>1, AskAlone DEF UnderWay, Waiting
<1>4. CASE DeleteDatabase(t) \/ DeleteBucket(t) \/ DeleteFunction(t) \/ DeleteLoadBalancer(t)
  <2>1. Ask(t, "remove") /\ deleted'
    BY <1>4 DEF DeleteDatabase, DeleteBucket, DeleteFunction, DeleteLoadBalancer, Delete
  <2>. QED  BY <2>1, AskAlone DEF UnderWay, Waiting
<1>. QED  BY <1>1, <1>2, <1>3, <1>4 DEF Request

\* A step that leaves its task under way only has to say what the task did.
LEMMA OnTheWay ==
    ASSUME TypeOK, Orderly, NEW t \in Tasks, Active(t), NEW to, Goto(t, to), to \notin Ended,
           UnderWay(t)'
    PROVE  Orderly'
BY GotoAlone DEF Orderly

\* A step of a job, of the node or of a report keeps the order.
LEMMA OrderlyWork ==
    ASSUME TypeOK, Undisturbed => Orderly, NEW t \in Tasks, Work(t), Undisturbed'
    PROVE  Orderly'
<1>1. UNCHANGED <<mixed, faults, action>>
  BY DEF Work, AddJob, Read, DispatchAny, DispatchDatabase, DispatchBucket, DispatchFunction,
         DispatchLoadBalancer, Dispatch, ProvisionDatabase, ProvisionStorage, DeployFunction,
         ProvisionLb, Replace, CreateBox, StartBox, StopBox, Backup, RemoveDatabase,
         RemoveStorage, RemoveFunction, RemoveBox, Report, Step
<1>2. Orderly
  BY <1>1 DEF Undisturbed
<1>3. Active(t) => UnderWay(t)
  BY <1>2 DEF Orderly
<1>. USE <1>1, <1>2, <1>3 DEF Active, Ended
<1>4. CASE AddJob(t)
  <2>1. stage[t] = "add" /\ Goto(t, "job") /\ UNCHANGED <<kind, status, deleted, box>>
    BY <1>4 DEF AddJob
  <2>2. UnderWay(t)'
    BY <2>1, GotoAlone DEF UnderWay, Waiting, Orderly
  <2>. QED  BY <2>1, <2>2, OnTheWay
<1>5. CASE Read(t)
  <2>1. stage[t] = "job" /\ UNCHANGED <<kind, status, deleted, box>>
    BY <1>5 DEF Read
  <2>2. CASE kind = "loadbalancer" /\ deleted
    <3>1. Goto(t, "done") /\ Rest'
      BY <1>5, <2>1, <2>2 DEF Read, Rest
    <3>. QED  BY <2>1, <3>1, GotoAlone DEF Orderly
  <2>3. CASE ~(kind = "loadbalancer" /\ deleted)
    <3>1. Goto(t, "read")
      BY <1>5, <2>3 DEF Read
    <3>2. UnderWay(t)'
      BY <2>1, <2>3, <3>1, GotoAlone DEF UnderWay, Waiting, Orderly
    <3>. QED  BY <2>1, <3>1, <3>2, OnTheWay
  <2>. QED  BY <2>2, <2>3
<1>6. CASE DispatchAny(t)
  <2>1. stage[t] = "read" /\ Goto(t, "command") /\ UNCHANGED <<kind, deleted, box>>
    BY <1>6 DEF DispatchAny, DispatchDatabase, DispatchBucket, DispatchFunction,
                DispatchLoadBalancer, Dispatch
  <2>2. UnderWay(t)'
    BY <2>1, GotoAlone DEF UnderWay, Waiting, Orderly
  <2>. QED  BY <2>1, <2>2, OnTheWay
<1>7. CASE ProvisionDatabase(t) \/ ProvisionStorage(t) \/ DeployFunction(t) \/ ProvisionLb(t)
  <2>1. /\ action[t] = "provision" /\ stage[t] = "command" /\ Goto(t, "replaced")
        /\ box' = "none" /\ UNCHANGED deleted
    BY <1>7 DEF ProvisionDatabase, ProvisionStorage, DeployFunction, ProvisionLb, Replace, Step
  <2>2. UnderWay(t)'
    BY <2>1, GotoAlone DEF UnderWay, Waiting, Orderly
  <2>. QED  BY <2>1, <2>2, OnTheWay
<1>8. CASE CreateBox(t)
  <2>1. /\ action[t] = "provision" /\ stage[t] = "replaced" /\ box = "none"
        /\ Goto(t, "created") /\ box' = "created" /\ UNCHANGED deleted
    BY <1>8 DEF CreateBox, Step, UnderWay
  <2>2. UnderWay(t)'
    BY <2>1, GotoAlone DEF UnderWay, Waiting, Orderly
  <2>. QED  BY <2>1, <2>2, OnTheWay
<1>9. CASE StartBox(t)
  <2>1. /\ action[t] = "provision" /\ stage[t] = "created"
        /\ Goto(t, "succeeded") /\ box' = "running" /\ UNCHANGED deleted
    BY <1>9 DEF StartBox, Step, UnderWay
  <2>2. UnderWay(t)'
    BY <2>1, GotoAlone DEF UnderWay, Waiting, Orderly
  <2>. QED  BY <2>1, <2>2, OnTheWay
<1>10. CASE StopBox(t)
  <2>1. /\ action[t] = "stop" /\ stage[t] = "command"
        /\ Goto(t, "succeeded") /\ box' = "stopped" /\ UNCHANGED deleted
    BY <1>10 DEF StopBox, Step, UnderWay
  <2>2. UnderWay(t)'
    BY <2>1, GotoAlone DEF UnderWay, Waiting, Orderly
  <2>. QED  BY <2>1, <2>2, OnTheWay
<1>11. CASE Backup(t)
  <2>1. PICK to \in {"succeeded", "failed"} :
            action[t] = "backup" /\ stage[t] = "command" /\ Goto(t, to) /\ UNCHANGED <<kind, deleted, box>>
    BY <1>11 DEF Backup, Step
  <2>2. UnderWay(t)'
    BY <2>1, GotoAlone DEF UnderWay, Waiting, Orderly
  <2>. QED  BY <2>1, <2>2, OnTheWay
<1>12. CASE RemoveDatabase(t) \/ RemoveStorage(t) \/ RemoveFunction(t)
  <2>1. PICK to \in {"succeeded", "failed"} :
            /\ action[t] = "remove" /\ stage[t] = "command" /\ Goto(t, to)
            /\ kind /= "loadbalancer" /\ box' = "none" /\ UNCHANGED <<kind, deleted>>
    BY <1>12 DEF RemoveDatabase, RemoveStorage, RemoveFunction, RemoveBox, EndOfRemoval, Step
  <2>2. UnderWay(t)'
    BY <2>1, GotoAlone DEF UnderWay, Waiting, Orderly
  <2>. QED  BY <2>1, <2>2, OnTheWay
<1>13. CASE Report(t)
  <2>1. /\ stage[t] \in {"succeeded", "failed"} /\ Goto(t, "done")
        /\ status' = StatusAfter(t) /\ UNCHANGED <<kind, deleted, box>>
    BY <1>13 DEF Report
  <2>2. Rest'
    <3>1. CASE action[t] = "provision"
      BY <2>1, <3>1 DEF UnderWay, Waiting, Rest, Told, StatusAfter, Up
    <3>2. CASE action[t] = "stop"
      BY <2>1, <3>2 DEF UnderWay, Waiting, Rest, Told, StatusAfter
    <3>3. CASE action[t] = "backup"
      BY <2>1, <3>3 DEF UnderWay, Rest, Told, StatusAfter, Up
    <3>4. CASE action[t] = "remove"
      BY <2>1, <3>4 DEF UnderWay, Rest
    <3>. QED  BY <2>1, <3>1, <3>2, <3>3, <3>4 DEF UnderWay
  <2>. QED  BY <2>1, <2>2, GotoAlone DEF Orderly
<1>. QED
  BY <1>4, <1>5, <1>6, <1>7, <1>8, <1>9, <1>10, <1>11, <1>12, <1>13 DEF Work

-----------------------------------------------------------------------------
\* The inductive invariant holds initially, and every step keeps it.
LEMMA InitInv == Init => IInv
<1>. SUFFICES ASSUME Init PROVE IInv
  OBVIOUS
<1>1. \A t \in Tasks : stage[t] = "idle" /\ action[t] = "none"
  BY DEF Init
<1>2. Orderly /\ RowInv
  BY <1>1 DEF Init, Orderly, RowInv, Solo, Rest, Active, Ended
<1>. QED  BY <1>2, TypeInit DEF IInv

\* Every step keeps the invariant.
LEMMA NextInv == IInv /\ [Next]_vars => IInv'
<1>. SUFFICES ASSUME IInv, [Next]_vars PROVE IInv'
  OBVIOUS
<1>1. TypeOK' /\ RowInv'
  BY TypeNext, RowNext DEF IInv
<1>2. ASSUME Undisturbed' PROVE Orderly'
  <2>1. CASE UNCHANGED vars
    BY <1>2, <2>1 DEF vars, IInv, Undisturbed, Orderly, Solo, Active, Quiet, Rest, Told, Up, UnderWay
  <2>2. CASE AgentDies
    BY <1>2, <2>2, FaultType DEF AgentDies, IInv, Undisturbed
  <2>3. ASSUME NEW t \in Tasks, Request(t) \/ Work(t) \/ Break(t) PROVE Orderly'
    BY <1>2, <2>3, OrderlyRequest, OrderlyWork, TypeBreak DEF IInv, Undisturbed
  <2>4. ASSUME NEW t \in Tasks, RefuseCommand(t) PROVE FALSE
    BY <1>2, <2>4 DEF RefuseCommand, Undisturbed
  <2>. QED  BY <2>1, <2>2, <2>3, <2>4 DEF Next
<1>. QED  BY <1>1, <1>2 DEF IInv

\* At rest the row tells what the container does, unless requests overlapped, a command
\* was refused, something failed, or a stopped database was backed up.
THEOREM StatusIsTold == Spec => []StatusHasCause
<1>1. IInv => StatusHasCause
  BY DEF IInv, Orderly, Rest, Told, StatusHasCause
<1>. QED  BY InitInv, NextInv, <1>1, PTL DEF Spec

\* At rest a deleted resource that is not a load balancer has no container, unless
\* requests overlapped, a command was refused or something failed.
THEOREM NoOrphan == Spec => []OrphanHasCause
<1>1. IInv => OrphanHasCause
  BY DEF IInv, Orderly, Rest, OrphanHasCause
<1>. QED  BY InitInv, NextInv, <1>1, PTL DEF Spec

=============================================================================
