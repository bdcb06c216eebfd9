--------------------------- MODULE CronJobsProofs ---------------------------
(***************************************************************************)
(* Theorems about CronJobs, for every set of requests and runs and every   *)
(* bound.  RunInv is why a run is recorded truthfully: its row is created  *)
(* before its command, and only what its command ended with is reported.   *)
(* RowInv is why a row that says running has a run, and ScheduleInv why    *)
(* the schedule follows the row: whoever changes what the row asks for     *)
(* adds a control job, and of such jobs at most one has decided.           *)
(***************************************************************************)
EXTENDS CronJobs, TLAPS

\* The command of a run comes after its row, its outcome after its command, and
\* a report after its outcome.
RunInv ==
    \A r \in Runs :
        /\ commanded[r] => fire[r] \in {"mark", "ended"}
        /\ outcome[r] /= "none" => commanded[r]
        /\ result[r] /= "idle" => outcome[r] /= "none"
        /\ run[r] \in Ends => run[r] = outcome[r]

IInv == TypeOK /\ RunInv

-----------------------------------------------------------------------------
\* The inductive invariant holds initially.
LEMMA InitInv == Init => IInv
<1>. SUFFICES ASSUME Init PROVE IInv
  OBVIOUS
<1>1. faults \in 0..MaxFaults
  BY FaultAssumption DEF Init
<1>2. TypeOK
  BY <1>1 DEF Init, TypeOK
<1>3. RunInv
  BY EndsAssumption DEF Init, RunInv
<1>. QED  BY <1>2, <1>3 DEF IInv

\* Requests touch the row, the shared control job and the schedule's history.
LEMMA TypeRequest ==
    ASSUME TypeOK, NEW q \in Requests, Create(q) \/ Find(q) \/ RequestStep(q) \/ RequestDies(q)
    PROVE  TypeOK'
<1>. USE DEF TypeOK, Controls, rowVars, queueVars, runVars, resultVars
<1>1. CASE Create(q)
  BY <1>1 DEF Create, Goto
<1>2. CASE Find(q)
  BY <1>2 DEF Find, Goto
<1>3. CASE Patch(q)
  BY <1>3 DEF Patch, Goto
<1>4. CASE Delete(q)
  BY <1>4 DEF Delete, Goto
<1>5. CASE Enqueue(q)
  <2>1. request' \in [Requests -> {"idle", "patch", "delete", "trigger", "enqueue", "done"}]
    BY <1>5 DEF Enqueue
  <2>2. control' \in [Controls -> {"unknown", "waiting", "decided", "kept"}]
    BY <1>5 DEF Enqueue
  <2>3. strayed' \in BOOLEAN
    BY <1>5 DEF Enqueue
  <2>. QED  BY <1>5, <2>1, <2>2, <2>3 DEF Enqueue
<1>6. CASE Trigger(q)
  BY <1>6 DEF Trigger
<1>7. CASE RequestDies(q)
  <2>1. faults' \in 0..MaxFaults
    BY <1>7, FaultAssumption DEF RequestDies, Fault
  <2>. QED  BY <1>7, <2>1 DEF RequestDies
<1>. QED  BY <1>1, <1>2, <1>3, <1>4, <1>5, <1>6, <1>7 DEF RequestStep

\* Control jobs touch the queue.
LEMMA TypeControl ==
    ASSUME TypeOK, NEW j \in Controls, ControlStep(j) \/ Forget(j) \/ ControlFails(j)
    PROVE  TypeOK'
<1>. USE DEF TypeOK, rowVars, queueVars, runVars, resultVars
<1>1. CASE ControlRead(j)
  BY <1>1 DEF ControlRead
<1>2. CASE ControlApply(j)
  BY <1>2 DEF ControlApply
<1>3. CASE Forget(j)
  BY <1>3 DEF Forget
<1>4. CASE ControlFails(j)
  <2>1. faults' \in 0..MaxFaults
    BY <1>4, FaultAssumption DEF ControlFails, Fault
  <2>2. control' \in [Controls -> {"unknown", "waiting", "decided", "kept"}]
    BY <1>4 DEF ControlFails
  <2>. QED  BY <1>4, <2>1, <2>2 DEF ControlFails
<1>. QED  BY <1>1, <1>2, <1>3, <1>4 DEF ControlStep

\* Fire jobs touch the runs and set the row running.
LEMMA TypeFire ==
    ASSUME TypeOK, NEW r \in Runs, Due(r) \/ FireStep(r) \/ FireFails(r)
    PROVE  TypeOK'
<1>. USE DEF TypeOK, rowVars, queueVars, runVars, resultVars
<1>1. CASE Due(r)
  BY <1>1 DEF Due, Advance
<1>2. CASE FireRead(r)
  BY <1>2 DEF FireRead, Advance
<1>3. CASE FireCreate(r)
  BY <1>3 DEF FireCreate, Advance
<1>4. CASE FireDispatch(r)
  BY <1>4 DEF FireDispatch, Advance
<1>5. CASE FireMark(r)
  BY <1>5 DEF FireMark, Advance
<1>6. CASE FireFails(r)
  <2>1. faults' \in 0..MaxFaults
    BY <1>6, FaultAssumption DEF FireFails, Fault
  <2>2. fire' \in [Runs -> {"idle", "due", "create", "dispatch", "mark", "ended"}]
    BY <1>6 DEF FireFails
  <2>. QED  BY <1>6, <2>1, <2>2 DEF FireFails
<1>. QED  BY <1>1, <1>2, <1>3, <1>4, <1>5, <1>6 DEF FireStep

\* The node and the result handlers touch the runs and roll the row forward.
LEMMA TypeResult ==
    ASSUME TypeOK, NEW r \in Runs,
           \/ \E o \in Ends : Finish(r, o) \/ FinishUnheard(r, o)
           \/ ReportAgain(r) \/ ResultStep(r) \/ ResultDies(r)
    PROVE  TypeOK'
<1>. USE DEF TypeOK, rowVars, queueVars, runVars, resultVars
<1>1. ASSUME NEW o \in Ends, Finish(r, o) PROVE TypeOK'
  BY <1>1 DEF Finish
<1>2. ASSUME NEW o \in Ends, FinishUnheard(r, o) PROVE TypeOK'
  <2>1. faults' \in 0..MaxFaults
    BY <1>2, FaultAssumption DEF FinishUnheard, Fault
  <2>. QED  BY <1>2, <2>1 DEF FinishUnheard
<1>3. CASE ReportAgain(r)
  <2>1. faults' \in 0..MaxFaults
    BY <1>3, FaultAssumption DEF ReportAgain, Fault
  <2>. QED  BY <1>3, <2>1 DEF ReportAgain
<1>4. CASE ResultClose(r)
  <2>1. run' \in [Runs -> Ends \union {"none", "running"}]
    BY <1>4 DEF ResultClose
  <2>. QED  BY <1>4, <2>1 DEF ResultClose, Handle
<1>5. CASE ResultLook(r)
  BY <1>5 DEF ResultLook, Handle
<1>6. CASE ResultRoll(r)
  BY <1>6 DEF ResultRoll, Handle
<1>7. CASE ResultDies(r)
  <2>1. faults' \in 0..MaxFaults
    BY <1>7, FaultAssumption DEF ResultDies, Fault
  <2>. QED  BY <1>7, <2>1 DEF ResultDies
<1>. QED  BY <1>1, <1>2, <1>3, <1>4, <1>5, <1>6, <1>7 DEF ResultStep

\* Every step keeps the types.
LEMMA TypeNext == TypeOK /\ [Next]_vars => TypeOK'
<1>. SUFFICES ASSUME TypeOK, [Next]_vars PROVE TypeOK'
  OBVIOUS
<1>1. CASE UNCHANGED vars
  BY <1>1 DEF TypeOK, vars, rowVars, queueVars, runVars, resultVars
<1>. QED  BY <1>1, TypeRequest, TypeControl, TypeFire, TypeResult DEF Next

\* Requests and control jobs have no part in it; a fire job creates the row of a
\* run that has no command, and a result is the outcome.
LEMMA RunNext == TypeOK /\ RunInv /\ [Next]_vars => RunInv'
<1>. SUFFICES ASSUME TypeOK, RunInv, [Next]_vars PROVE RunInv'
  OBVIOUS
<1>. USE EndsAssumption DEF TypeOK, RunInv, rowVars, queueVars, runVars, resultVars
<1>1. ASSUME NEW q \in Requests, Create(q) \/ Find(q) \/ RequestStep(q) \/ RequestDies(q)
      PROVE  RunInv'
  <2>1. UNCHANGED <<fire, run, commanded, outcome, result>>
    BY <1>1 DEF Create, Find, RequestStep, Patch, Delete, Enqueue, Trigger, RequestDies, Goto
  <2>. QED  BY <2>1
<1>2. ASSUME NEW j \in Controls, ControlStep(j) \/ Forget(j) \/ ControlFails(j) PROVE RunInv'
  <2>1. UNCHANGED <<fire, run, commanded, outcome, result>>
    BY <1>2 DEF ControlStep, ControlRead, ControlApply, Forget, ControlFails
  <2>. QED  BY <2>1
<1>3. ASSUME NEW r \in Runs, Due(r) \/ FireRead(r) PROVE RunInv'
  BY <1>3 DEF Due, FireRead, Advance
<1>4. ASSUME NEW r \in Runs, FireCreate(r) PROVE RunInv'
  BY <1>4 DEF FireCreate, Advance
<1>5. ASSUME NEW r \in Runs, FireDispatch(r) PROVE RunInv'
  BY <1>5 DEF FireDispatch, Advance
<1>6. ASSUME NEW r \in Runs, FireMark(r) PROVE RunInv'
  BY <1>6 DEF FireMark, Advance
<1>7. ASSUME NEW r \in Runs, FireFails(r) PROVE RunInv'
  <2>1. UNCHANGED <<run, commanded, outcome, result>>
    BY <1>7 DEF FireFails
  <2>2. \A s \in Runs : fire[s] \in {"mark", "ended"} => fire'[s] \in {"mark", "ended"}
    BY <1>7 DEF FireFails
  <2>. QED  BY <2>1, <2>2
<1>8. ASSUME NEW r \in Runs, NEW o \in Ends, Finish(r, o) \/ FinishUnheard(r, o) PROVE RunInv'
  <2>1. commanded[r] /\ outcome[r] = "none" /\ outcome' = [outcome EXCEPT ![r] = o]
        /\ UNCHANGED <<fire, run, commanded>>
        /\ (result' = result \/ result' = [result EXCEPT ![r] = "close"])
    BY <1>8 DEF Finish, FinishUnheard
  <2>2. o /= "none" /\ run[r] \notin Ends
    BY <2>1
  <2>. QED  BY <2>1, <2>2
<1>9. ASSUME NEW r \in Runs, ReportAgain(r) \/ ResultDies(r) PROVE RunInv'
  BY <1>9 DEF ReportAgain, ResultDies
<1>10. ASSUME NEW r \in Runs, ResultClose(r) PROVE RunInv'
  BY <1>10 DEF ResultClose, Handle
<1>11. ASSUME NEW r \in Runs, ResultLook(r) \/ ResultRoll(r) PROVE RunInv'
  BY <1>11 DEF ResultLook, ResultRoll, Handle
<1>12. CASE UNCHANGED vars
  BY <1>12 DEF vars
<1>. QED  BY <1>1, <1>2, <1>3, <1>4, <1>5, <1>6, <1>7, <1>8, <1>9, <1>10, <1>11, <1>12
          DEF Next, FireStep, ResultStep

-----------------------------------------------------------------------------
(* The row, its runs and its schedule *)

\* What keeps the row `running`: a run that the job has started and whose result,
\* if there is one, has still to look at the row or saw it unpaused.
Holds(r) ==
    /\ commanded[r]
    /\ outcome[r] = "none" \/ result[r] \in {"close", "look"} \/ (result[r] = "roll" /\ ~keep[r])

\* The schedule the row asks for, a run under way or not.
Wanted == IF status \in {"active", "running"} /\ ~deleted THEN schedule ELSE 0

\* Somebody is going to look at the row and see to the schedule.
Awaited == (\E q \in Requests : request[q] = "enqueue") \/ \E j \in Controls : control[j] = "waiting"

RowInv ==
    /\ status = "none" =>
        /\ scheduled = 0 /\ \A q \in Requests : request[q] = "idle"
        /\ \A j \in Controls : control[j] = "unknown"
        /\ \A r \in Runs : fire[r] = "idle"
    /\ \A r \in Runs : fire[r] = "mark" => commanded[r]
    /\ status = "running" /\ ~overtaken /\ faults = 0 => \E r \in Runs : Holds(r)

ScheduleInv ==
    ~strayed /\ faults = 0 =>
        /\ \A j, k \in Controls : control[j] = "decided" /\ control[k] = "decided" => j = k
        /\ \/ Awaited
           \/ /\ \A j \in Controls : control[j] = "decided" => found[j] = Wanted
              /\ scheduled = Wanted \/ \E j \in Controls : control[j] = "decided"

\* Requests and control jobs leave the runs alone, and take a status back from `running`;
\* a fire job sets it for a run that is not reported or whose report has yet to look; and
\* a result that leaves the status alone is of another run.
LEMMA RowNext == IInv /\ RowInv /\ [Next]_vars => RowInv'
<1>. SUFFICES ASSUME IInv, RowInv, [Next]_vars PROVE RowInv'
  OBVIOUS
<1>. USE DEF IInv, TypeOK, RunInv, RowInv, Holds, rowVars, queueVars, runVars, resultVars
<1>0. Fault => faults' /= 0
  BY FaultAssumption DEF Fault
<1>1. ASSUME NEW q \in Requests, Create(q) \/ Find(q) \/ Patch(q) \/ Delete(q) PROVE RowInv'
  <2>1. /\ UNCHANGED <<queueVars, fire, runVars, resultVars, faults>> /\ status' /= "none"
        /\ status' = "running" => status = "running"
    BY <1>1 DEF Create, Find, Patch, Delete, Goto
  <2>. QED  BY <2>1
<1>2. ASSUME NEW q \in Requests, Enqueue(q) \/ Trigger(q) \/ RequestDies(q) PROVE RowInv'
  <2>1. /\ UNCHANGED <<rowVars, scheduled, fire, runVars, resultVars>> /\ status /= "none"
        /\ (faults' = faults \/ faults' /= 0)
    BY <1>0, <1>2 DEF Enqueue, Trigger, RequestDies
  <2>. QED  BY <2>1
<1>3. ASSUME NEW j \in Controls, ControlStep(j) \/ Forget(j) \/ ControlFails(j) PROVE RowInv'
  <2>1. /\ UNCHANGED <<rowVars, request, fire, runVars, resultVars>> /\ status /= "none"
        /\ (faults' = faults \/ faults' /= 0)
    BY <1>0, <1>3 DEF ControlStep, ControlRead, ControlApply, Forget, ControlFails
  <2>. QED  BY <2>1
<1>4. ASSUME NEW r \in Runs, Due(r) \/ FireRead(r) \/ FireCreate(r) PROVE RowInv'
  <2>1. /\ UNCHANGED <<rowVars, commanded, outcome, resultVars, faults>> /\ status /= "none"
        /\ \A s \in Runs : fire'[s] = "mark" => fire[s] = "mark"
    BY <1>4 DEF Due, FireRead, FireCreate, Advance
  <2>. QED  BY <2>1
<1>5. ASSUME NEW r \in Runs, FireDispatch(r) PROVE RowInv'
  <2>1. /\ UNCHANGED <<rowVars, outcome, resultVars, faults>> /\ status /= "none"
        /\ commanded' = [commanded EXCEPT ![r] = TRUE]
        /\ \A s \in Runs : fire'[s] = "mark" => s = r \/ fire[s] = "mark"
    BY <1>5 DEF FireDispatch, Advance
  <2>. QED  BY <2>1
<1>6. ASSUME NEW r \in Runs, FireMark(r) PROVE RowInv'
  <2>1. /\ commanded[r] /\ status' = "running" /\ UNCHANGED <<commanded, outcome, result, keep>>
        /\ overtaken' = (overtaken \/ (outcome[r] /= "none" /\ result[r] \in {"roll", "idle"}))
        /\ \A s \in Runs : fire'[s] = "mark" => fire[s] = "mark"
    BY <1>6 DEF FireMark, Advance
  <2>2. ~overtaken' => Holds(r)'
    BY <2>1
  <2>. QED  BY <2>1, <2>2
<1>7. ASSUME NEW r \in Runs, FireFails(r) PROVE RowInv'
  <2>1. /\ UNCHANGED <<rowVars, commanded>> /\ status /= "none" /\ faults' /= 0
        /\ \A s \in Runs : fire'[s] = "mark" => fire[s] = "mark"
    BY <1>0, <1>7 DEF FireFails
  <2>. QED  BY <2>1
<1>8. ASSUME NEW r \in Runs, NEW o \in Ends, Finish(r, o) PROVE RowInv'
  <2>1. /\ UNCHANGED <<rowVars, fire, commanded, keep, overtaken, faults>> /\ status /= "none"
        /\ outcome' = [outcome EXCEPT ![r] = o] /\ result' = [result EXCEPT ![r] = "close"]
    BY <1>8 DEF Finish
  <2>. QED  BY <2>1
<1>9. ASSUME NEW r \in Runs, (\E o \in Ends : FinishUnheard(r, o)) \/ ReportAgain(r) \/ ResultDies(r) PROVE RowInv'
  <2>1. UNCHANGED <<rowVars, request, queueVars, fire, commanded>> /\ faults' /= 0
    BY <1>0, <1>9 DEF FinishUnheard, ReportAgain, ResultDies
  <2>. QED  BY <2>1
<1>10. ASSUME NEW r \in Runs, ResultClose(r) \/ ResultLook(r) PROVE RowInv'
  <2>1. /\ UNCHANGED <<rowVars, request, queueVars, fire, commanded, outcome, overtaken, faults>>
        /\ \/ result' = [result EXCEPT ![r] = "look"] /\ UNCHANGED keep
           \/ result' = [result EXCEPT ![r] = "roll"] /\ keep' = [keep EXCEPT ![r] = (status = "paused")]
    BY <1>10 DEF ResultClose, ResultLook, Handle
  <2>2. status = "running" => \A s \in Runs : Holds(s) => Holds(s)'
    <3>1. CASE ResultClose(r)
      <4>1. result' = [result EXCEPT ![r] = "look"] /\ UNCHANGED <<commanded, outcome, keep>>
        BY <3>1 DEF ResultClose, Handle
      <4>. QED  BY <4>1
    <3>2. CASE ResultLook(r)
      <4>1. /\ result' = [result EXCEPT ![r] = "roll"] /\ UNCHANGED <<commanded, outcome>>
            /\ keep' = [keep EXCEPT ![r] = (status = "paused")]
        BY <3>2 DEF ResultLook, Handle
      <4>2. ASSUME status = "running" PROVE keep' = [keep EXCEPT ![r] = FALSE]
        BY <4>1, <4>2
      <4>. QED  BY <4>1, <4>2
    <3>. QED  BY <1>10, <3>1, <3>2
  <2>. QED  BY <2>1, <2>2
<1>11. ASSUME NEW r \in Runs, ResultRoll(r) PROVE RowInv'
  <2>1. /\ UNCHANGED <<schedule, request, queueVars, fire, commanded, outcome, overtaken, faults>>
        /\ result[r] = "roll" /\ result' = [result EXCEPT ![r] = "idle"]
        /\ keep' = [keep EXCEPT ![r] = FALSE]
        /\ status' = IF keep[r] THEN status ELSE "active"
    BY <1>11 DEF ResultRoll, Handle
  <2>2. status /= "none"
    BY <2>1
  <2>3. CASE keep[r]
    <3>1. status' = status
      BY <2>1, <2>3
    <3>2. \A s \in Runs : Holds(s) => s /= r \/ outcome[r] = "none"
      BY <2>1, <2>3
    <3>3. \A s \in Runs : Holds(s) => Holds(s)'
      BY <2>1, <3>2
    <3>. QED  BY <2>1, <2>2, <3>1, <3>3
  <2>4. CASE ~keep[r]
    BY <2>1, <2>4
  <2>. QED  BY <2>3, <2>4
<1>12. CASE UNCHANGED vars
  BY <1>12 DEF vars
<1>. QED  BY <1>1, <1>2, <1>3, <1>4, <1>5, <1>6, <1>7, <1>8, <1>9, <1>10, <1>11, <1>12
          DEF Next, RequestStep, FireStep, ResultStep

\* Who changes what the row asks for adds a control job, which looks at the row alone.
LEMMA ScheduleNext == IInv /\ RowInv /\ ScheduleInv /\ [Next]_vars => ScheduleInv'
<1>. SUFFICES ASSUME IInv, RowInv, ScheduleInv, [Next]_vars, ~strayed', faults' = 0
              PROVE  /\ \A j, k \in Controls : control'[j] = "decided" /\ control'[k] = "decided" => j = k
                     /\ \/ Awaited'
                        \/ /\ \A j \in Controls : control'[j] = "decided" => found'[j] = Wanted'
                           /\ scheduled' = Wanted' \/ \E j \in Controls : control'[j] = "decided"
  BY DEF ScheduleInv
<1>. USE DEF IInv, TypeOK, rowVars, queueVars, runVars, resultVars
<1>0. ~Fault
  BY FaultAssumption DEF Fault
<1>1. ASSUME ~strayed, faults = 0
      PROVE  /\ \A j, k \in Controls : control[j] = "decided" /\ control[k] = "decided" => j = k
             /\ \/ Awaited
                \/ /\ \A j \in Controls : control[j] = "decided" => found[j] = Wanted
                   /\ scheduled = Wanted \/ \E j \in Controls : control[j] = "decided"
  BY <1>1 DEF ScheduleInv
<1>2. ASSUME NEW q \in Requests, Create(q) \/ Patch(q) \/ Delete(q)
      PROVE  /\ ~strayed /\ faults = 0 /\ UNCHANGED queueVars
             /\ Awaited'
  <2>1. request' = [request EXCEPT ![q] = "enqueue"]
    BY <1>2 DEF Create, Patch, Delete, Goto
  <2>2. ~strayed /\ faults = 0 /\ UNCHANGED queueVars
    BY <1>2 DEF Create, Patch, Delete, Goto
  <2>. QED  BY <2>1, <2>2 DEF Awaited
<1>3. ASSUME NEW q \in Requests, Enqueue(q) \/ Trigger(q)
      PROVE  ~strayed /\ faults = 0 /\ Awaited' /\ \E j \in Controls : control' = [control EXCEPT ![j] = "waiting"]
  <2>1. ~strayed /\ faults = 0
    BY <1>3 DEF Enqueue, Trigger
  <2>2. \E j \in Controls : control' = [control EXCEPT ![j] = "waiting"]
    BY <1>3 DEF Enqueue, Trigger, Controls
  <2>. QED  BY <2>1, <2>2 DEF Awaited
<1>4. ASSUME ~strayed, faults = 0, UNCHANGED <<queueVars, Wanted>>,
             \A q \in Requests : request[q] = "enqueue" => request'[q] = "enqueue"
      PROVE  /\ \A j, k \in Controls : control'[j] = "decided" /\ control'[k] = "decided" => j = k
             /\ \/ Awaited'
                \/ /\ \A j \in Controls : control'[j] = "decided" => found'[j] = Wanted'
                   /\ scheduled' = Wanted' \/ \E j \in Controls : control'[j] = "decided"
  BY <1>1, <1>4 DEF Awaited
<1>5. ASSUME NEW j \in Controls, ControlRead(j)
      PROVE  /\ \A i, k \in Controls : control'[i] = "decided" /\ control'[k] = "decided" => i = k
             /\ \A k \in Controls : control'[k] = "decided" => found'[k] = Wanted'
             /\ \E k \in Controls : control'[k] = "decided"
  <2>1. /\ control' = [control EXCEPT ![j] = "decided"]
        /\ found' = [found EXCEPT ![j] = IF status = "active" /\ ~deleted THEN schedule ELSE 0]
        /\ status /= "running" /\ (\A k \in Controls : control[k] /= "decided")
    BY <1>5 DEF ControlRead
  <2>2. Wanted' = (IF status = "active" /\ ~deleted THEN schedule ELSE 0)
    <3>1. UNCHANGED <<status, deleted, schedule>>
      BY <1>5 DEF ControlRead, rowVars
    <3> QED
      BY <2>1, <3>1 DEF Wanted
  <2>3. control'[j] = "decided" /\ found'[j] = Wanted'
    BY <2>1, <2>2 DEF TypeOK
  <2>4. \A k \in Controls \ {j} : control'[k] /= "decided"
    BY <2>1 DEF TypeOK
  <2> QED
    BY <2>3, <2>4
<1>6. ASSUME NEW j \in Controls, ControlApply(j)
      PROVE  /\ \A i, k \in Controls : control'[i] = "decided" /\ control'[k] = "decided" => i = k
             /\ \/ Awaited'
                \/ /\ \A k \in Controls : control'[k] = "decided" => found'[k] = Wanted'
                   /\ scheduled' = Wanted'
  <2>1. /\ ~strayed /\ faults = 0 /\ control[j] = "decided" /\ control' = [control EXCEPT ![j] = "kept"]
        /\ scheduled' = found[j] /\ UNCHANGED <<rowVars, request>>
    BY <1>6 DEF ControlApply
  <2>2. Wanted' = Wanted
    BY <2>1 DEF Wanted
  <2>3. Awaited => Awaited'
    BY <2>1 DEF Awaited
  <2>4. \A k \in Controls : control'[k] /= "decided"
    BY <1>1, <2>1
  <2>. QED  BY <1>1, <2>1, <2>2, <2>3, <2>4
<1>7. ASSUME NEW j \in Controls, Forget(j)
      PROVE  /\ \A i, k \in Controls : control'[i] = "decided" /\ control'[k] = "decided" => i = k
             /\ \/ Awaited'
                \/ /\ \A k \in Controls : control'[k] = "decided" => found'[k] = Wanted'
                   /\ scheduled' = Wanted' \/ \E k \in Controls : control'[k] = "decided"
  <2>1. /\ ~strayed /\ faults = 0 /\ control[j] = "kept" /\ control' = [control EXCEPT ![j] = "unknown"]
        /\ UNCHANGED <<rowVars, request, found, scheduled>>
    BY <1>7 DEF Forget
  <2>2. Wanted' = Wanted
    BY <2>1 DEF Wanted
  <2>3. Awaited => Awaited'
    BY <2>1 DEF Awaited
  <2>4. \A k \in Controls : control'[k] = "decided" <=> control[k] = "decided"
    BY <2>1
  <2>. QED  BY <1>1, <2>1, <2>2, <2>3, <2>4
<1>8. ASSUME NEW q \in Requests, Find(q)
      PROVE  /\ ~strayed /\ faults = 0 /\ UNCHANGED <<queueVars, Wanted>>
             /\ \A p \in Requests : request[p] = "enqueue" => request'[p] = "enqueue"
  BY <1>8 DEF Find, Goto, Wanted
<1>9. ASSUME NEW r \in Runs,
             \/ Due(r) \/ FireStep(r) \/ (\E o \in Ends : Finish(r, o)) \/ ResultStep(r)
      PROVE  ~strayed /\ faults = 0 /\ UNCHANGED <<queueVars, Wanted, request>>
  <2>1. CASE Due(r) \/ FireRead(r) \/ FireCreate(r) \/ FireDispatch(r)
    BY <2>1 DEF Due, FireRead, FireCreate, FireDispatch, Advance, Wanted
  <2>2. CASE FireMark(r)
    <3>1. status \in {"active", "running"}
      BY <2>2 DEF FireMark, Advance, RowInv
    <3>. QED  BY <2>2, <3>1 DEF FireMark, Advance, Wanted
  <2>3. CASE (\E o \in Ends : Finish(r, o)) \/ ResultClose(r) \/ ResultLook(r)
    BY <2>3 DEF Finish, ResultClose, ResultLook, Handle, Wanted
  <2>4. CASE ResultRoll(r)
    <3>1. status /= "none"
      BY <2>4 DEF ResultRoll, Handle, RowInv, RunInv
    <3>2. keep[r] \/ status \in {"active", "running"}
      BY <2>4, <3>1 DEF ResultRoll, Handle
    <3>. QED  BY <2>4, <3>2 DEF ResultRoll, Handle, Wanted
  <2>. QED  BY <1>9, <2>1, <2>2, <2>3, <2>4 DEF FireStep, ResultStep
<1>10. CASE UNCHANGED vars
  BY <1>4, <1>10 DEF vars, Wanted
<1>11. ASSUME NEW q \in Requests PROVE ~RequestDies(q)
  BY <1>0 DEF RequestDies
<1>12. ASSUME NEW j \in Controls PROVE ~ControlFails(j)
  BY <1>0 DEF ControlFails
<1>13. ASSUME NEW r \in Runs PROVE ~FireFails(r) /\ ~ReportAgain(r) /\ ~ResultDies(r) /\ \A o \in Ends : ~FinishUnheard(r, o)
  BY <1>0 DEF FireFails, ReportAgain, ResultDies, FinishUnheard
<1>14. ASSUME NEW q \in Requests, Create(q) \/ RequestStep(q)
       PROVE  /\ \A i, k \in Controls : control'[i] = "decided" /\ control'[k] = "decided" => i = k
              /\ Awaited'
  BY <1>1, <1>2, <1>3, <1>14 DEF RequestStep
<1>. QED  BY <1>4, <1>5, <1>6, <1>7, <1>8, <1>9, <1>10, <1>11, <1>12, <1>13, <1>14 DEF Next, ControlStep

-----------------------------------------------------------------------------
(* The theorems *)

\* The inductive invariant.
THEOREM Inductive == Spec => []IInv
<1>1. IInv /\ [Next]_vars => IInv'
  BY TypeNext, RunNext DEF IInv
<1>. QED  BY InitInv, <1>1, PTL DEF Spec

\* The row, the queue and the processes are in the states the code puts them in.
THEOREM TypeCorrect == Spec => []TypeOK
<1>1. IInv => TypeOK
  BY DEF IInv
<1>. QED  BY Inductive, <1>1, PTL

\* A run that is recorded as over ended that way on the node, whatever was
\* reported twice, late or never, and it was never started anew.
THEOREM RecordedRunEnded == Spec => []RunTruthful
<1>1. IInv => RunTruthful
  BY DEF IInv, RunInv, RunTruthful
<1>. QED  BY Inductive, <1>1, PTL

\* A deleted job stays deleted, and dispatches nothing once the fire jobs that
\* had found it alive have: every other looks at deletedAt first.
THEOREM DeletedStaysQuiet == Spec => RetiredDispatchesNothing
<1>1. IInv /\ [Next]_vars => [Retired => Retired' /\ commanded' = commanded]_vars
  <2>1. SUFFICES ASSUME TypeOK, Next, deleted,
                        \A r \in Runs : fire[r] \notin {"create", "dispatch"}
                 PROVE  /\ deleted' /\ commanded' = commanded
                        /\ \A r \in Runs : fire'[r] \notin {"create", "dispatch"}
    BY DEF IInv, Retired, vars
  <2>. USE <2>1 DEF TypeOK, rowVars, queueVars, runVars, resultVars
  <2>2. ASSUME NEW q \in Requests, Create(q) \/ Find(q) \/ RequestStep(q) \/ RequestDies(q)
        PROVE  deleted' /\ UNCHANGED <<commanded, fire>>
    BY <2>2 DEF Create, Find, RequestStep, Patch, Delete, Enqueue, Trigger, RequestDies, Goto
  <2>3. ASSUME NEW j \in Controls, ControlStep(j) \/ Forget(j) \/ ControlFails(j)
        PROVE  UNCHANGED <<deleted, commanded, fire>>
    BY <2>3 DEF ControlStep, ControlRead, ControlApply, Forget, ControlFails
  <2>4. ASSUME NEW r \in Runs, Due(r) \/ FireStep(r)
        PROVE  /\ UNCHANGED <<deleted, commanded>>
               /\ \E next \in {"due", "ended"} : fire' = [fire EXCEPT ![r] = next]
    BY <2>4 DEF Due, FireStep, FireRead, FireCreate, FireDispatch, FireMark, Advance
  <2>5. ASSUME NEW r \in Runs, FireFails(r)
        PROVE  /\ UNCHANGED <<deleted, commanded>>
               /\ \A s \in Runs : fire'[s] \in {fire[s], "due", "ended"}
    BY <2>5 DEF FireFails
  <2>6. ASSUME NEW r \in Runs,
               \/ \E o \in Ends : Finish(r, o) \/ FinishUnheard(r, o)
               \/ ReportAgain(r) \/ ResultStep(r) \/ ResultDies(r)
        PROVE  UNCHANGED <<deleted, commanded, fire>>
    BY <2>6 DEF Finish, FinishUnheard, ReportAgain, ResultStep, ResultClose, ResultLook,
       ResultRoll, ResultDies, Handle
  <2>. QED  BY <2>2, <2>3, <2>4, <2>5, <2>6 DEF Next
<1>. QED  BY <1>1, Inductive, PTL DEF Spec, RetiredDispatchesNothing

\* The row and its schedule keep their invariants.
THEOREM RowsKept == Spec => [](RowInv /\ ScheduleInv)
<1>1. Init => RowInv /\ ScheduleInv
  BY DEF Init, RowInv, ScheduleInv, Wanted
<1>. QED  BY <1>1, Inductive, RowNext, ScheduleNext, PTL DEF Spec

\* The row says `running` only while a run is under way, unless something failed or a result
\* looked at the row before the fire job of its run had set it.
THEOREM RunningIsBusy == Spec => []RunningMeansBusy
<1>1. IInv /\ RowInv => RunningMeansBusy
  BY DEF IInv, TypeOK, RowInv, Holds, RunningMeansBusy, Busy
<1>. QED  BY <1>1, Inductive, RowsKept, PTL

\* At rest the schedule in Redis is the one the row asks for, unless it strayed.
THEOREM ScheduleIsKept == Spec => []ScheduleFollowsRow
<1>1. ScheduleInv => ScheduleFollowsRow
  BY DEF ScheduleInv, ScheduleFollowsRow, Awaited, Wanted, Quiet
<1>. QED  BY <1>1, RowsKept, PTL

=============================================================================
