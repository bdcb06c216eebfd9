------------------------ MODULE CommandDeliveryProofs ------------------------
(***************************************************************************)
(* Proofs about CommandDelivery, for every set of commands, every number   *)
(* of overlapping polls, every batch size and every number of faults.      *)
(*                                                                         *)
(* AtMostOnce is not inductive.  What makes it so is who may still deliver *)
(* a command: only the ONE poll the agent waits for can, and a row that    *)
(* was delivered has left `queued`, so no later claim reads it again.      *)
(***************************************************************************)
EXTENDS CommandDelivery, FiniteSetTheorems, TLAPS

\* A command the agent has dealt with, one way or the other.
Seen(c) == starts[c] > 0 \/ outcome[c] # "none"

\* Rows and their dispatchers.
RowInv ==
    \A c \in Commands :
        /\ dispatch[c] = "idle" <=> status[c] = "none"
        /\ signed[c] => status[c] # "none"
        /\ Seen(c) => status[c] \notin {"none", "queued"}

\* What a poll handler holds; an answer holds no row that is still queued.
PollInv ==
    \A r \in Requests :
        /\ pc[r] = "free" => read[r] = {}
        /\ valid[r] \subseteq read[r]
        /\ \A c \in read[r] : status[c] # "none"
        /\ \A c \in valid[r] : signed[c]
        /\ pc[r] = "answer" => \A c \in read[r] : status[c] # "queued"

\* What the agent holds or may still be given, it has not seen before.
HandInv ==
    /\ awaits # NoRequest => inHand = {} /\ pc[awaits] # "free"
    /\ ~up => inHand = {} /\ awaits = NoRequest
    /\ \A c \in inHand : status[c] \notin {"none", "queued"} /\ ~Seen(c)
    /\ \A c \in inHand \cap inHandValid : signed[c]
    /\ awaits # NoRequest => \A c \in read[awaits] : ~Seen(c)

\* The life of a command on the node.
TaskInv ==
    \A c \in Commands :
        /\ starts[c] <= 1
        /\ starts[c] > 0 => signed[c]
        /\ task[c] \in {"accept", "begin", "work"} =>
               starts[c] > 0 /\ outcome[c] = "none"
        /\ task[c] = "report" => outcome[c] # "none"
        /\ outcome[c] = "refused" => starts[c] = 0
        /\ outcome[c] \in Ends => starts[c] > 0

\* A status that may be written to the row of c.
True(c, s) ==
    /\ s = "running" => starts[c] > 0
    /\ s = "failed" => outcome[c] \in {"failed", "refused"}
    /\ s \in {"succeeded", "timed_out"} => outcome[c] = s

\* Reports, those in flight and those applied.
ReportInv ==
    /\ \A m \in late : Seen(m[1]) /\ True(m[1], m[2])
    /\ \A c \in Commands : True(c, status[c])

IInv == TypeOK /\ RowInv /\ PollInv /\ HandInv /\ TaskInv /\ ReportInv

-----------------------------------------------------------------------------
\* A claim reads queued rows only.
LEMMA OldestIsQueued == \A S : Oldest(S) \subseteq S
BY DEF Oldest

\* The position in the order of issue is a natural number.
LEMMA RowCount == Cardinality({d \in Commands : status[d] # "none"}) \in Nat
BY CommandsAssumption, FS_Subset, FS_CardinalityType

\* What a task has to report is true, and the row of its command was claimed.
LEMMA DueIsTrue ==
  ASSUME IInv
  PROVE  \A c \in Commands :
             Due(c) # "none" => /\ Seen(c)
                                /\ True(c, Due(c))
                                /\ <<c, Due(c)>> \in Reports
                                /\ Due(c) \in Statuses \ {"none", "queued"}
<1>. TAKE c \in Commands
<1>1. /\ outcome[c] \in Outcomes
      /\ task[c] \in {"accept", "begin", "work"} => starts[c] > 0
      /\ task[c] = "report" => outcome[c] # "none"
  BY DEF IInv, TypeOK, TaskInv
<1>. QED  BY <1>1 DEF Due, Seen, True, Reports, Outcomes, Ends, Statuses

\* The inductive invariant holds initially.
LEMMA InitInv == Init => IInv
BY FaultAssumption, NoRequestAssumption
   DEF Init, IInv, TypeOK, RowInv, PollInv, HandInv, TaskInv, ReportInv, Seen, True,
       Outcomes, Ends, Statuses, Reports

\* Every step keeps it.
LEMMA NextInv == IInv /\ [Next]_vars => IInv'
<1>. SUFFICES ASSUME IInv, [Next]_vars PROVE IInv'
  OBVIOUS
<1>1. ASSUME NEW c \in Commands, CreateRow(c)
       PROVE  IInv'
  <2>1. TypeOK'
    BY <1>1, RowCount
    DEF IInv, TypeOK, Statuses, Outcomes, Ends, Reports, CreateRow, rowVars,
       pollVars, agentVars
  <2>2. RowInv'
    BY <1>1
    DEF IInv, TypeOK, RowInv, HandInv, TaskInv, ReportInv, Seen, Ends, Queued,
       CreateRow, rowVars, pollVars, agentVars
  <2>3. PollInv'
    BY <1>1
    DEF IInv, TypeOK, RowInv, PollInv, Queued, Seen, CreateRow, rowVars,
       pollVars, agentVars
  <2>4. HandInv'
    BY <1>1
    DEF IInv, TypeOK, RowInv, PollInv, HandInv, TaskInv, Seen, Ends, Queued,
       CreateRow, rowVars, pollVars, agentVars
  <2>5. TaskInv'
    BY <1>1
    DEF IInv, TypeOK, HandInv, TaskInv, Seen, Ends, CreateRow, rowVars,
       pollVars, agentVars
  <2>6. ReportInv'
    BY <1>1
    DEF IInv, TypeOK, RowInv, HandInv, TaskInv, ReportInv, Seen, True, Ends,
       Reports, CreateRow, rowVars, pollVars, agentVars
  <2>. QED  BY <2>1, <2>2, <2>3, <2>4, <2>5, <2>6 DEF IInv
<1>2. ASSUME NEW c \in Commands, SignRow(c)
       PROVE  IInv'
  <2>1. TypeOK'
    BY <1>2
    DEF IInv, TypeOK, Statuses, Outcomes, Ends, Reports, SignRow, rowVars,
       pollVars, agentVars
  <2>2. RowInv'
    BY <1>2
    DEF IInv, TypeOK, RowInv, HandInv, TaskInv, ReportInv, Seen, Ends, Queued,
       SignRow, rowVars, pollVars, agentVars
  <2>3. PollInv'
    BY <1>2
    DEF IInv, TypeOK, RowInv, PollInv, Queued, Seen, SignRow, rowVars,
       pollVars, agentVars
  <2>4. HandInv'
    BY <1>2
    DEF IInv, TypeOK, RowInv, PollInv, HandInv, TaskInv, Seen, Ends, Queued,
       SignRow, rowVars, pollVars, agentVars
  <2>5. TaskInv'
    BY <1>2
    DEF IInv, TypeOK, HandInv, TaskInv, Seen, Ends, SignRow, rowVars, pollVars,
       agentVars
  <2>6. ReportInv'
    BY <1>2
    DEF IInv, TypeOK, RowInv, HandInv, TaskInv, ReportInv, Seen, True, Ends,
       Reports, SignRow, rowVars, pollVars, agentVars
  <2>. QED  BY <2>1, <2>2, <2>3, <2>4, <2>5, <2>6 DEF IInv
<1>3. ASSUME NEW c \in Commands, DispatcherDies(c)
       PROVE  IInv'
  <2>1. TypeOK'
    BY <1>3, FaultAssumption
    DEF IInv, TypeOK, Statuses, Outcomes, Ends, Reports, DispatcherDies, Fault,
       rowVars, pollVars, agentVars
  <2>2. RowInv'
    BY <1>3
    DEF IInv, TypeOK, RowInv, HandInv, TaskInv, ReportInv, Seen, Ends, Queued,
       DispatcherDies, Fault, rowVars, pollVars, agentVars
  <2>3. PollInv'
    BY <1>3
    DEF IInv, TypeOK, RowInv, PollInv, Queued, Seen, DispatcherDies, Fault,
       rowVars, pollVars, agentVars
  <2>4. HandInv'
    BY <1>3
    DEF IInv, TypeOK, RowInv, PollInv, HandInv, TaskInv, Seen, Ends, Queued,
       DispatcherDies, Fault, rowVars, pollVars, agentVars
  <2>5. TaskInv'
    BY <1>3
    DEF IInv, TypeOK, HandInv, TaskInv, Seen, Ends, DispatcherDies, Fault,
       rowVars, pollVars, agentVars
  <2>6. ReportInv'
    BY <1>3
    DEF IInv, TypeOK, RowInv, HandInv, TaskInv, ReportInv, Seen, True, Ends,
       Reports, DispatcherDies, Fault, rowVars, pollVars, agentVars
  <2>. QED  BY <2>1, <2>2, <2>3, <2>4, <2>5, <2>6 DEF IInv
<1>4. ASSUME NEW c \in Commands, Spawn(c)
       PROVE  IInv'
  <2>1. TypeOK'
    BY <1>4
    DEF IInv, TypeOK, Statuses, Outcomes, Ends, Reports, Spawn, rowVars,
       pollVars, agentVars
  <2>2. RowInv'
    BY <1>4
    DEF IInv, TypeOK, RowInv, HandInv, TaskInv, ReportInv, Seen, Ends, Queued,
       Spawn, rowVars, pollVars, agentVars
  <2>3. PollInv'
    BY <1>4
    DEF IInv, TypeOK, RowInv, PollInv, Queued, Seen, Spawn, rowVars, pollVars,
       agentVars
  <2>4. HandInv'
    BY <1>4
    DEF IInv, TypeOK, RowInv, PollInv, HandInv, TaskInv, Seen, Ends, Queued,
       Spawn, rowVars, pollVars, agentVars
  <2>5. TaskInv'
    BY <1>4
    DEF IInv, TypeOK, HandInv, TaskInv, Seen, Ends, Spawn, rowVars, pollVars,
       agentVars
  <2>6. ReportInv'
    BY <1>4
    DEF IInv, TypeOK, RowInv, HandInv, TaskInv, ReportInv, Seen, True, Ends,
       Reports, Spawn, rowVars, pollVars, agentVars
  <2>. QED  BY <2>1, <2>2, <2>3, <2>4, <2>5, <2>6 DEF IInv
<1>5. ASSUME NEW c \in Commands, Reject(c)
       PROVE  IInv'
  <2>1. TypeOK'
    BY <1>5
    DEF IInv, TypeOK, Statuses, Outcomes, Ends, Reports, Reject, rowVars,
       pollVars, agentVars
  <2>2. RowInv'
    BY <1>5
    DEF IInv, TypeOK, RowInv, HandInv, TaskInv, ReportInv, Seen, Ends, Queued,
       Reject, rowVars, pollVars, agentVars
  <2>3. PollInv'
    BY <1>5
    DEF IInv, TypeOK, RowInv, PollInv, Queued, Seen, Reject, rowVars, pollVars,
       agentVars
  <2>4. HandInv'
    BY <1>5
    DEF IInv, TypeOK, RowInv, PollInv, HandInv, TaskInv, Seen, Ends, Queued,
       Reject, rowVars, pollVars, agentVars
  <2>5. TaskInv'
    BY <1>5
    DEF IInv, TypeOK, HandInv, TaskInv, Seen, Ends, Reject, rowVars, pollVars,
       agentVars
  <2>6. ReportInv'
    BY <1>5
    DEF IInv, TypeOK, RowInv, HandInv, TaskInv, ReportInv, Seen, True, Ends,
       Reports, Reject, rowVars, pollVars, agentVars
  <2>. QED  BY <2>1, <2>2, <2>3, <2>4, <2>5, <2>6 DEF IInv
<1>6. ASSUME NEW c \in Commands, Report(c)
       PROVE  IInv'
  <2>1. TypeOK'
    BY <1>6, DueIsTrue
    DEF IInv, TypeOK, Statuses, Outcomes, Ends, Reports, Report, Advance,
       rowVars, pollVars, agentVars
  <2>2. RowInv'
    <3>1. /\ status' = [status EXCEPT ![c] = Due(c)]
          /\ UNCHANGED <<signed, dispatch, starts, outcome>>
      BY <1>6 DEF Report
    <3>2. Due(c) \notin {"none", "queued"} /\ Seen(c)
      BY <1>6, DueIsTrue DEF IInv, Report, Statuses
    <3>. QED  BY <3>1, <3>2 DEF IInv, TypeOK, RowInv, Seen
  <2>3. PollInv'
    BY <1>6, DueIsTrue
    DEF IInv, TypeOK, RowInv, PollInv, Queued, Seen, Report, Advance, rowVars,
       pollVars, agentVars
  <2>4. HandInv'
    BY <1>6, DueIsTrue
    DEF IInv, TypeOK, RowInv, PollInv, HandInv, TaskInv, Seen, Ends, Queued,
       Report, Advance, rowVars, pollVars, agentVars
  <2>5. TaskInv'
    BY <1>6, DueIsTrue
    DEF IInv, TypeOK, HandInv, TaskInv, Seen, Ends, Report, Advance, rowVars,
       pollVars, agentVars
  <2>6. ReportInv'
    <3>1. UNCHANGED <<starts, outcome, late>>
      BY <1>6 DEF Report
    <3>2. \A d \in Commands :
             status'[d] = IF d = c THEN Due(c) ELSE status[d]
      BY <1>6 DEF IInv, TypeOK, Report
    <3>3. True(c, Due(c)) /\ \A d \in Commands : True(d, status[d])
      BY <1>6, DueIsTrue DEF IInv, ReportInv, Report
    <3>. QED  BY <3>1, <3>2, <3>3 DEF IInv, ReportInv, Seen, True
  <2>. QED  BY <2>1, <2>2, <2>3, <2>4, <2>5, <2>6 DEF IInv
<1>7. ASSUME NEW c \in Commands, ReportUnanswered(c)
       PROVE  IInv'
  <2>1. TypeOK'
    BY <1>7, DueIsTrue, FaultAssumption
    DEF IInv, TypeOK, Statuses, Outcomes, Ends, Reports, ReportUnanswered,
       Fault, rowVars, pollVars, agentVars
  <2>2. RowInv'
    BY <1>7, DueIsTrue
    DEF IInv, TypeOK, RowInv, HandInv, TaskInv, ReportInv, Seen, Ends, Queued,
       ReportUnanswered, Fault, rowVars, pollVars, agentVars
  <2>3. PollInv'
    BY <1>7, DueIsTrue
    DEF IInv, TypeOK, RowInv, PollInv, Queued, Seen, ReportUnanswered, Fault,
       rowVars, pollVars, agentVars
  <2>4. HandInv'
    BY <1>7, DueIsTrue
    DEF IInv, TypeOK, RowInv, PollInv, HandInv, TaskInv, Seen, Ends, Queued,
       ReportUnanswered, Fault, rowVars, pollVars, agentVars
  <2>5. TaskInv'
    BY <1>7, DueIsTrue
    DEF IInv, TypeOK, HandInv, TaskInv, Seen, Ends, ReportUnanswered, Fault,
       rowVars, pollVars, agentVars
  <2>6. ReportInv'
    BY <1>7, DueIsTrue
    DEF IInv, TypeOK, RowInv, HandInv, TaskInv, ReportInv, Seen, True, Ends,
       Reports, ReportUnanswered, Fault, rowVars, pollVars, agentVars
  <2>. QED  BY <2>1, <2>2, <2>3, <2>4, <2>5, <2>6 DEF IInv
<1>8. ASSUME NEW c \in Commands, ReportGivenUp(c)
       PROVE  IInv'
  <2>1. TypeOK'
    BY <1>8, DueIsTrue, FaultAssumption
    DEF IInv, TypeOK, Statuses, Outcomes, Ends, Reports, ReportGivenUp,
       Advance, Fault, rowVars, pollVars, agentVars
  <2>2. RowInv'
    BY <1>8, DueIsTrue
    DEF IInv, TypeOK, RowInv, HandInv, TaskInv, ReportInv, Seen, Ends, Queued,
       ReportGivenUp, Advance, Fault, rowVars, pollVars, agentVars
  <2>3. PollInv'
    BY <1>8, DueIsTrue
    DEF IInv, TypeOK, RowInv, PollInv, Queued, Seen, ReportGivenUp, Advance,
       Fault, rowVars, pollVars, agentVars
  <2>4. HandInv'
    BY <1>8, DueIsTrue
    DEF IInv, TypeOK, RowInv, PollInv, HandInv, TaskInv, Seen, Ends, Queued,
       ReportGivenUp, Advance, Fault, rowVars, pollVars, agentVars
  <2>5. TaskInv'
    BY <1>8, DueIsTrue
    DEF IInv, TypeOK, HandInv, TaskInv, Seen, Ends, ReportGivenUp, Advance,
       Fault, rowVars, pollVars, agentVars
  <2>6. ReportInv'
    BY <1>8, DueIsTrue
    DEF IInv, TypeOK, RowInv, HandInv, TaskInv, ReportInv, Seen, True, Ends,
       Reports, ReportGivenUp, Advance, Fault, rowVars, pollVars, agentVars
  <2>. QED  BY <2>1, <2>2, <2>3, <2>4, <2>5, <2>6 DEF IInv
<1>9. ASSUME NEW c \in Commands, NEW o \in Ends, Finish(c, o)
       PROVE  IInv'
  <2>1. TypeOK'
    BY <1>9
    DEF IInv, TypeOK, Statuses, Outcomes, Ends, Reports, Finish, rowVars,
       pollVars, agentVars
  <2>2. RowInv'
    BY <1>9
    DEF IInv, TypeOK, RowInv, HandInv, TaskInv, ReportInv, Seen, Ends, Queued,
       Finish, rowVars, pollVars, agentVars
  <2>3. PollInv'
    BY <1>9
    DEF IInv, TypeOK, RowInv, PollInv, Queued, Seen, Finish, rowVars, pollVars,
       agentVars
  <2>4. HandInv'
    BY <1>9
    DEF IInv, TypeOK, RowInv, PollInv, HandInv, TaskInv, Seen, Ends, Queued,
       Finish, rowVars, pollVars, agentVars
  <2>5. TaskInv'
    BY <1>9
    DEF IInv, TypeOK, HandInv, TaskInv, Seen, Ends, Finish, rowVars, pollVars,
       agentVars
  <2>6. ReportInv'
    BY <1>9
    DEF IInv, TypeOK, RowInv, HandInv, TaskInv, ReportInv, Seen, True, Ends,
       Reports, Finish, rowVars, pollVars, agentVars
  <2>. QED  BY <2>1, <2>2, <2>3, <2>4, <2>5, <2>6 DEF IInv
<1>10. ASSUME NEW r \in Requests, HeartbeatThenPoll(r)
       PROVE  IInv'
  <2>1. TypeOK'
    BY <1>10, NoRequestAssumption
    DEF IInv, TypeOK, Statuses, Outcomes, Ends, Reports, HeartbeatThenPoll,
       rowVars, pollVars, agentVars
  <2>2. RowInv'
    BY <1>10
    DEF IInv, TypeOK, RowInv, HandInv, TaskInv, ReportInv, Seen, Ends, Queued,
       HeartbeatThenPoll, rowVars, pollVars, agentVars
  <2>3. PollInv'
    BY <1>10
    DEF IInv, TypeOK, RowInv, PollInv, Queued, Seen, HeartbeatThenPoll,
       rowVars, pollVars, agentVars
  <2>4. HandInv'
    BY <1>10, NoRequestAssumption
    DEF IInv, TypeOK, RowInv, PollInv, HandInv, TaskInv, Seen, Ends, Queued,
       HeartbeatThenPoll, rowVars, pollVars, agentVars
  <2>5. TaskInv'
    BY <1>10
    DEF IInv, TypeOK, HandInv, TaskInv, Seen, Ends, HeartbeatThenPoll, rowVars,
       pollVars, agentVars
  <2>6. ReportInv'
    BY <1>10
    DEF IInv, TypeOK, RowInv, HandInv, TaskInv, ReportInv, Seen, True, Ends,
       Reports, HeartbeatThenPoll, rowVars, pollVars, agentVars
  <2>. QED  BY <2>1, <2>2, <2>3, <2>4, <2>5, <2>6 DEF IInv
<1>11. ASSUME NEW r \in Requests, PollGivenUp(r)
       PROVE  IInv'
  <2>1. TypeOK'
    BY <1>11, FaultAssumption
    DEF IInv, TypeOK, Statuses, Outcomes, Ends, Reports, PollGivenUp, Fault,
       rowVars, pollVars, agentVars
  <2>2. RowInv'
    BY <1>11
    DEF IInv, TypeOK, RowInv, HandInv, TaskInv, ReportInv, Seen, Ends, Queued,
       PollGivenUp, Fault, rowVars, pollVars, agentVars
  <2>3. PollInv'
    BY <1>11
    DEF IInv, TypeOK, RowInv, PollInv, Queued, Seen, PollGivenUp, Fault,
       rowVars, pollVars, agentVars
  <2>4. HandInv'
    BY <1>11
    DEF IInv, TypeOK, RowInv, PollInv, HandInv, TaskInv, Seen, Ends, Queued,
       PollGivenUp, Fault, rowVars, pollVars, agentVars
  <2>5. TaskInv'
    BY <1>11
    DEF IInv, TypeOK, HandInv, TaskInv, Seen, Ends, PollGivenUp, Fault,
       rowVars, pollVars, agentVars
  <2>6. ReportInv'
    BY <1>11
    DEF IInv, TypeOK, RowInv, HandInv, TaskInv, ReportInv, Seen, True, Ends,
       Reports, PollGivenUp, Fault, rowVars, pollVars, agentVars
  <2>. QED  BY <2>1, <2>2, <2>3, <2>4, <2>5, <2>6 DEF IInv
<1>12. ASSUME NEW r \in Requests, NEW s \in Requests, PollAgain(r, s)
       PROVE  IInv'
  <2>1. TypeOK'
    BY <1>12, FaultAssumption, NoRequestAssumption
    DEF IInv, TypeOK, Statuses, Outcomes, Ends, Reports, PollAgain, Fault,
       rowVars, pollVars, agentVars
  <2>2. RowInv'
    BY <1>12
    DEF IInv, TypeOK, RowInv, HandInv, TaskInv, ReportInv, Seen, Ends, Queued,
       PollAgain, Fault, rowVars, pollVars, agentVars
  <2>3. PollInv'
    BY <1>12
    DEF IInv, TypeOK, RowInv, PollInv, Queued, Seen, PollAgain, Fault, rowVars,
       pollVars, agentVars
  <2>4. HandInv'
    BY <1>12, NoRequestAssumption
    DEF IInv, TypeOK, RowInv, PollInv, HandInv, TaskInv, Seen, Ends, Queued,
       PollAgain, Fault, rowVars, pollVars, agentVars
  <2>5. TaskInv'
    BY <1>12
    DEF IInv, TypeOK, HandInv, TaskInv, Seen, Ends, PollAgain, Fault, rowVars,
       pollVars, agentVars
  <2>6. ReportInv'
    BY <1>12
    DEF IInv, TypeOK, RowInv, HandInv, TaskInv, ReportInv, Seen, True, Ends,
       Reports, PollAgain, Fault, rowVars, pollVars, agentVars
  <2>. QED  BY <2>1, <2>2, <2>3, <2>4, <2>5, <2>6 DEF IInv
<1>13. ASSUME NEW r \in Requests, ClaimRead(r)
       PROVE  IInv'
  <2>1. TypeOK'
    BY <1>13, OldestIsQueued
    DEF IInv, TypeOK, Statuses, Outcomes, Ends, Reports, Queued, ClaimRead,
       rowVars, pollVars, agentVars
  <2>2. RowInv'
    BY <1>13, OldestIsQueued
    DEF IInv, TypeOK, RowInv, HandInv, TaskInv, ReportInv, Seen, Ends, Queued,
       ClaimRead, rowVars, pollVars, agentVars
  <2>3. PollInv'
    BY <1>13, OldestIsQueued
    DEF IInv, TypeOK, RowInv, PollInv, Queued, Seen, ClaimRead, rowVars,
       pollVars, agentVars
  <2>4. HandInv'
    BY <1>13, OldestIsQueued
    DEF IInv, TypeOK, RowInv, PollInv, HandInv, TaskInv, Seen, Ends, Queued,
       ClaimRead, rowVars, pollVars, agentVars
  <2>5. TaskInv'
    BY <1>13, OldestIsQueued
    DEF IInv, TypeOK, HandInv, TaskInv, Seen, Ends, Queued, ClaimRead, rowVars,
       pollVars, agentVars
  <2>6. ReportInv'
    BY <1>13, OldestIsQueued
    DEF IInv, TypeOK, RowInv, HandInv, TaskInv, ReportInv, Seen, True, Ends,
       Reports, Queued, ClaimRead, rowVars, pollVars, agentVars
  <2>. QED  BY <2>1, <2>2, <2>3, <2>4, <2>5, <2>6 DEF IInv
<1>14. ASSUME NEW r \in Requests, ClaimMark(r)
       PROVE  IInv'
  <2>1. TypeOK'
    BY <1>14
    DEF IInv, TypeOK, Statuses, Outcomes, Ends, Reports, ClaimMark, rowVars,
       pollVars, agentVars
  <2>2. RowInv'
    BY <1>14
    DEF IInv, TypeOK, RowInv, HandInv, TaskInv, ReportInv, Seen, Ends, Queued,
       ClaimMark, rowVars, pollVars, agentVars
  <2>3. PollInv'
    BY <1>14
    DEF IInv, TypeOK, RowInv, PollInv, Queued, Seen, ClaimMark, rowVars,
       pollVars, agentVars
  <2>4. HandInv'
    BY <1>14
    DEF IInv, TypeOK, RowInv, PollInv, HandInv, TaskInv, Seen, Ends, Queued,
       ClaimMark, rowVars, pollVars, agentVars
  <2>5. TaskInv'
    BY <1>14
    DEF IInv, TypeOK, HandInv, TaskInv, Seen, Ends, ClaimMark, rowVars,
       pollVars, agentVars
  <2>6. ReportInv'
    BY <1>14
    DEF IInv, TypeOK, RowInv, HandInv, TaskInv, ReportInv, Seen, True, Ends,
       Reports, ClaimMark, rowVars, pollVars, agentVars
  <2>. QED  BY <2>1, <2>2, <2>3, <2>4, <2>5, <2>6 DEF IInv
<1>15. ASSUME NEW r \in Requests, Answer(r)
       PROVE  IInv'
  <2>1. TypeOK'
    BY <1>15, NoRequestAssumption
    DEF IInv, TypeOK, Statuses, Outcomes, Ends, Reports, Answer, rowVars,
       pollVars, agentVars
  <2>2. RowInv'
    BY <1>15
    DEF IInv, TypeOK, RowInv, HandInv, TaskInv, ReportInv, Seen, Ends, Queued,
       Answer, rowVars, pollVars, agentVars
  <2>3. PollInv'
    BY <1>15
    DEF IInv, TypeOK, RowInv, PollInv, Queued, Seen, Answer, rowVars, pollVars,
       agentVars
  <2>4. HandInv'
    BY <1>15, NoRequestAssumption
    DEF IInv, TypeOK, RowInv, PollInv, HandInv, TaskInv, Seen, Ends, Queued,
       Answer, rowVars, pollVars, agentVars
  <2>5. TaskInv'
    BY <1>15
    DEF IInv, TypeOK, HandInv, TaskInv, Seen, Ends, Answer, rowVars, pollVars,
       agentVars
  <2>6. ReportInv'
    BY <1>15
    DEF IInv, TypeOK, RowInv, HandInv, TaskInv, ReportInv, Seen, True, Ends,
       Reports, Answer, rowVars, pollVars, agentVars
  <2>. QED  BY <2>1, <2>2, <2>3, <2>4, <2>5, <2>6 DEF IInv
<1>16. ASSUME AgentDies
       PROVE  IInv'
  <2>1. TypeOK'
    <3>1. UNCHANGED <<status, signed, issuedAt, dispatch, pc, read, valid, starts,
                      outcome, late>>
      BY <1>16 DEF AgentDies, rowVars, pollVars
    <3>2. /\ up' \in BOOLEAN /\ awaits' = NoRequest
          /\ inHand' = {} /\ inHandValid' = {}
          /\ task' = [c \in Commands |-> "none"]
      BY <1>16 DEF AgentDies
    <3>3. faults' \in 0..MaxFaults
      BY <1>16, FaultAssumption DEF IInv, TypeOK, AgentDies, Fault
    <3>. QED  BY <3>1, <3>2, <3>3 DEF IInv, TypeOK
  <2>2. RowInv'
    BY <1>16
    DEF IInv, TypeOK, RowInv, HandInv, TaskInv, ReportInv, Seen, Ends, Queued,
       AgentDies, Fault, rowVars, pollVars, agentVars
  <2>3. PollInv'
    BY <1>16
    DEF IInv, TypeOK, RowInv, PollInv, Queued, Seen, AgentDies, Fault, rowVars,
       pollVars, agentVars
  <2>4. HandInv'
    BY <1>16
    DEF IInv, TypeOK, RowInv, PollInv, HandInv, TaskInv, Seen, Ends, Queued,
       AgentDies, Fault, rowVars, pollVars, agentVars
  <2>5. TaskInv'
    BY <1>16
    DEF IInv, TypeOK, HandInv, TaskInv, Seen, Ends, AgentDies, Fault, rowVars,
       pollVars, agentVars
  <2>6. ReportInv'
    BY <1>16
    DEF IInv, TypeOK, RowInv, HandInv, TaskInv, ReportInv, Seen, True, Ends,
       Reports, AgentDies, Fault, rowVars, pollVars, agentVars
  <2>. QED  BY <2>1, <2>2, <2>3, <2>4, <2>5, <2>6 DEF IInv
<1>17. ASSUME AgentStarts
       PROVE  IInv'
  <2>1. TypeOK'
    BY <1>17
    DEF IInv, TypeOK, Statuses, Outcomes, Ends, Reports, AgentStarts, rowVars,
       pollVars, agentVars
  <2>2. RowInv'
    BY <1>17
    DEF IInv, TypeOK, RowInv, HandInv, TaskInv, ReportInv, Seen, Ends, Queued,
       AgentStarts, rowVars, pollVars, agentVars
  <2>3. PollInv'
    BY <1>17
    DEF IInv, TypeOK, RowInv, PollInv, Queued, Seen, AgentStarts, rowVars,
       pollVars, agentVars
  <2>4. HandInv'
    BY <1>17
    DEF IInv, TypeOK, RowInv, PollInv, HandInv, TaskInv, Seen, Ends, Queued,
       AgentStarts, rowVars, pollVars, agentVars
  <2>5. TaskInv'
    BY <1>17
    DEF IInv, TypeOK, HandInv, TaskInv, Seen, Ends, AgentStarts, rowVars,
       pollVars, agentVars
  <2>6. ReportInv'
    BY <1>17
    DEF IInv, TypeOK, RowInv, HandInv, TaskInv, ReportInv, Seen, True, Ends,
       Reports, AgentStarts, rowVars, pollVars, agentVars
  <2>. QED  BY <2>1, <2>2, <2>3, <2>4, <2>5, <2>6 DEF IInv
<1>18. ASSUME NEW m \in late, ApplyLate(m)
       PROVE  IInv'
  <2>1. TypeOK'
    BY <1>18
    DEF IInv, TypeOK, Statuses, Outcomes, Ends, Reports, ReportInv, ApplyLate,
       rowVars, pollVars, agentVars
  <2>2. RowInv'
    BY <1>18
    DEF IInv, TypeOK, RowInv, HandInv, TaskInv, ReportInv, Seen, Ends, Queued,
       Reports, ApplyLate, rowVars, pollVars, agentVars
  <2>3. PollInv'
    BY <1>18
    DEF IInv, TypeOK, RowInv, PollInv, Queued, Seen, ReportInv, Reports,
       HandInv, TaskInv, ApplyLate, rowVars, pollVars, agentVars
  <2>4. HandInv'
    BY <1>18
    DEF IInv, TypeOK, RowInv, PollInv, HandInv, TaskInv, Seen, Ends, Queued,
       ReportInv, Reports, ApplyLate, rowVars, pollVars, agentVars
  <2>5. TaskInv'
    BY <1>18
    DEF IInv, TypeOK, HandInv, TaskInv, Seen, Ends, ReportInv, Reports,
       ApplyLate, rowVars, pollVars, agentVars
  <2>6. ReportInv'
    BY <1>18
    DEF IInv, TypeOK, RowInv, HandInv, TaskInv, ReportInv, Seen, True, Ends,
       Reports, ApplyLate, rowVars, pollVars, agentVars
  <2>. QED  BY <2>1, <2>2, <2>3, <2>4, <2>5, <2>6 DEF IInv
<1>90. CASE UNCHANGED vars
  BY <1>90 DEF IInv, TypeOK, RowInv, PollInv, HandInv, TaskInv, ReportInv, Seen, True,
       vars, rowVars, pollVars, agentVars
<1>. QED
  BY <1>1, <1>2, <1>3, <1>4, <1>5, <1>6, <1>7, <1>8, <1>9, <1>10, <1>11, <1>12, <1>13, <1>14, <1>15, <1>16, <1>17, <1>18, <1>90
     DEF Next, Dispatcher, Work, Client, Handler

-----------------------------------------------------------------------------
\* The inductive invariant holds in every reachable state.
THEOREM Inductive == Spec => []IInv
BY InitInv, NextInv, PTL DEF Spec

\* The type invariant of the NodeCommand rows, the polls and the agent.
THEOREM TypeCorrect == Spec => []TypeOK
<1>1. IInv => TypeOK
  BY DEF IInv
<1>. QED  BY <1>1, Inductive, PTL

\* No command is executed twice, whatever polls overlap and whatever is lost
\* (claimCommands with poll_and_execute).
THEOREM ExecutedAtMostOnce == Spec => []AtMostOnce
<1>1. IInv => AtMostOnce
  BY DEF IInv, TaskInv, AtMostOnce
<1>. QED  BY <1>1, Inductive, PTL

\* No command is executed unless its row was signed (verify_command).
THEOREM ExecutedOnlySigned == Spec => []OnlySignedRuns
<1>1. IInv => OnlySignedRuns
  BY DEF IInv, TaskInv, OnlySignedRuns
<1>. QED  BY <1>1, Inductive, PTL

\* The row of a command only says what happened (applyCommandResult).
THEOREM RecordStaysTrue == Spec => []RecordIsTrue
<1>1. IInv => RecordIsTrue
  BY DEF IInv, TypeOK, ReportInv, True, RecordIsTrue
<1>. QED  BY <1>1, Inductive, PTL

-----------------------------------------------------------------------------
(* Refinement: delivery implements the contract.                           *)

\* What the contract sees of a command is where it stands in Life.
LEMMA LifeCases ==
  ASSUME IInv
  PROVE  \A c \in Commands :
             /\ status[c] = "none" => Life(c) = "unknown"
             /\ status[c] # "none" => Life(c) # "unknown"
             /\ status[c] # "none" /\ ~Seen(c) => Life(c) = "issued"
             /\ starts[c] > 0 /\ outcome[c] = "none" => Life(c) = "started"
             /\ outcome[c] # "none" => Life(c) = "ended"
             /\ outcome[c] = "refused" => starts[c] = 0
BY DEF IInv, TypeOK, RowInv, TaskInv, Seen, Life

\* A true status may be recorded.
LEMMA TrueHappened ==
  ASSUME IInv, NEW c \in Commands, NEW s \in Statuses \ {"none", "queued"},
         True(c, s), status[c] # "none"
  PROVE  s \in Contract!Happened(c)
<1>1. /\ starts[c] > 0 => Life(c) \in {"started", "ended"} /\ outcome[c] # "refused"
      /\ Life(c) # "unknown"
  BY DEF IInv, TypeOK, TaskInv, Life
<1>. QED  BY <1>1 DEF True, Statuses, Contract!Happened, Contract!Records

\* A step that changes no row, start or outcome changes nothing of the contract.
LEMMA Stutter ==
  ASSUME UNCHANGED <<status, signed, starts, outcome>>
  PROVE  UNCHANGED Contract!cvars
BY DEF Contract!cvars, Life

\* A step that only writes rows, with what is true, is a Learn step.
LEMMA Learning ==
  ASSUME IInv, UNCHANGED <<signed, starts, outcome>>,
         status' \in [Commands -> Statuses],
         \A c \in Commands : status'[c] # status[c] =>
             /\ status[c] # "none"
             /\ status'[c] \notin {"none", "queued"}
             /\ True(c, status'[c])
  PROVE  Contract!Learn
<1>1. \A c \in Commands : Life(c)' = Life(c)
  BY DEF IInv, TypeOK, Life
<1>2. \A c \in Commands : status'[c] # status[c] => status'[c] \in Contract!Happened(c)
  BY TrueHappened
<1>. QED  BY <1>1, <1>2 DEF Contract!Learn, Contract!Records, Statuses

\* The contract sees one command move.
LEMMA LifeMoves ==
  ASSUME NEW c \in Commands, NEW l, Life(c)' = l,
         \A d \in Commands : d # c => Life(d)' = Life(d)
  PROVE  [d \in Commands |-> Life(d)]' = [[d \in Commands |-> Life(d)] EXCEPT ![c] = l]
OBVIOUS

\* The initial states of delivery are initial states of the contract.
LEMMA RefineInit == Init => Contract!CInit
BY DEF Init, Contract!CInit, Life

\* Every step of delivery is a step of the contract or none.
LEMMA RefineNext == IInv /\ IInv' /\ [Next]_vars => [Contract!CNext]_(Contract!cvars)
<1>. SUFFICES ASSUME IInv, IInv', [Next]_vars
              PROVE  [Contract!CNext]_(Contract!cvars)
  OBVIOUS
<1>1. ASSUME NEW c \in Commands, CreateRow(c)
       PROVE  Contract!Issue(c)
  <2>1. \A d \in Commands : d # c => Life(d)' = Life(d)
    BY <1>1 DEF CreateRow, Life, IInv, TypeOK, rowVars, pollVars, agentVars
  <2>2. Life(c) = "unknown" /\ Life(c)' = "issued"
    BY <1>1, LifeCases
    DEF CreateRow, Life, IInv, TypeOK, RowInv, TaskInv, Seen, Ends, rowVars,
        pollVars, agentVars
  <2>3. [d \in Commands |-> Life(d)]' = [[d \in Commands |-> Life(d)] EXCEPT ![c] = "issued"]
    BY <2>1, <2>2, LifeMoves
  <2>. QED
    BY <1>1, <2>2, <2>3
    DEF CreateRow, Contract!Issue, IInv, rowVars, pollVars, agentVars
<1>2. ASSUME NEW c \in Commands, SignRow(c)
       PROVE  Contract!Seal(c)
  <2>1. \A d \in Commands : d # c => Life(d)' = Life(d)
    BY <1>2 DEF SignRow, Life, IInv, TypeOK, rowVars, pollVars, agentVars
  <2>2. Life(c) # "unknown" /\ Life(c)' = Life(c)
    BY <1>2, LifeCases DEF SignRow, Life, IInv, RowInv, pollVars, agentVars
  <2>. QED
    BY <1>2, <2>1, <2>2 DEF SignRow, Contract!Seal, IInv, TypeOK, agentVars
<1>3. ASSUME NEW c \in Commands, Spawn(c)
       PROVE  Contract!Start(c)
  <2>1. \A d \in Commands : d # c => Life(d)' = Life(d)
    BY <1>3 DEF Spawn, Life, IInv, TypeOK, rowVars, pollVars, agentVars
  <2>2. Life(c) = "issued" /\ Life(c)' = "started"
    BY <1>3, LifeCases
    DEF Spawn, Life, IInv, TypeOK, RowInv, HandInv, TaskInv, Seen, Ends, rowVars,
        pollVars, agentVars
  <2>3. [d \in Commands |-> Life(d)]' = [[d \in Commands |-> Life(d)] EXCEPT ![c] = "started"]
    BY <2>1, <2>2, LifeMoves
  <2>. QED
    BY <1>3, <2>2, <2>3
    DEF Spawn, Contract!Start, IInv, HandInv, rowVars, pollVars, agentVars
<1>4. ASSUME NEW c \in Commands, Reject(c)
       PROVE  Contract!Refuse(c)
  <2>1. \A d \in Commands : d # c => Life(d)' = Life(d)
    BY <1>4 DEF Reject, Life, IInv, TypeOK, rowVars, pollVars, agentVars
  <2>2. Life(c) = "issued" /\ Life(c)' = "ended"
    BY <1>4, LifeCases
    DEF Reject, Life, IInv, TypeOK, RowInv, HandInv, TaskInv, Seen, Ends, rowVars,
        pollVars, agentVars
  <2>3. [d \in Commands |-> Life(d)]' = [[d \in Commands |-> Life(d)] EXCEPT ![c] = "ended"]
    BY <2>1, <2>2, LifeMoves
  <2>. QED
    BY <1>4, <2>2, <2>3
    DEF Reject, Contract!Refuse, IInv, HandInv, rowVars, pollVars, agentVars
<1>5. ASSUME NEW c \in Commands, NEW o \in Ends, Finish(c, o)
       PROVE  Contract!End(c, o)
  <2>1. \A d \in Commands : d # c => Life(d)' = Life(d)
    BY <1>5 DEF Finish, Life, IInv, TypeOK, rowVars, pollVars, agentVars
  <2>2. Life(c) = "started" /\ Life(c)' = "ended"
    BY <1>5, LifeCases
    DEF Finish, Life, IInv, TypeOK, RowInv, TaskInv, Seen, Ends, rowVars,
        pollVars, agentVars
  <2>3. [d \in Commands |-> Life(d)]' = [[d \in Commands |-> Life(d)] EXCEPT ![c] = "ended"]
    BY <2>1, <2>2, LifeMoves
  <2>. QED
    BY <1>5, <2>2, <2>3
    DEF Finish, Contract!End, IInv, rowVars, pollVars, agentVars
<1>6. ASSUME NEW c \in Commands, Report(c)
       PROVE  Contract!Learn
  <2>1. status' = [status EXCEPT ![c] = Due(c)] /\ UNCHANGED <<signed, starts, outcome>>
    BY <1>6 DEF Report, rowVars
  <2>2. status[c] # "none" /\ True(c, Due(c)) /\ Due(c) \in Statuses \ {"none", "queued"}
    BY <1>6, DueIsTrue DEF Report, IInv, RowInv
  <2>. QED  BY <2>1, <2>2, Learning DEF IInv, TypeOK
<1>7. ASSUME NEW r \in Requests, ClaimMark(r)
       PROVE  Contract!Learn
  <2>1. UNCHANGED <<signed, starts, outcome>>
    BY <1>7 DEF ClaimMark, agentVars
  <2>2. \A c \in Commands : status'[c] # status[c] => /\ status[c] = "queued"
                                                     /\ status'[c] = "accepted"
    BY <1>7 DEF ClaimMark, Queued, IInv, TypeOK
  <2>. QED  BY <2>1, <2>2, Learning DEF IInv, TypeOK, True
<1>8. ASSUME NEW m \in late, ApplyLate(m)
       PROVE  Contract!Learn
  <2>1. status' = [status EXCEPT ![m[1]] = m[2]] /\ UNCHANGED <<signed, starts, outcome>>
    BY <1>8 DEF ApplyLate, agentVars
  <2>2. /\ m[1] \in Commands /\ True(m[1], m[2]) /\ status[m[1]] # "none"
        /\ m[2] \in Statuses \ {"none", "queued"}
    BY <1>8 DEF IInv, TypeOK, ReportInv, RowInv, Reports, Ends, Statuses
  <2>. QED  BY <2>1, <2>2, Learning DEF IInv, TypeOK
<1>9. ASSUME NEW c \in Commands, DispatcherDies(c)
       PROVE  UNCHANGED Contract!cvars
  BY <1>9, Stutter DEF DispatcherDies, rowVars, agentVars
<1>10. ASSUME NEW c \in Commands, ReportUnanswered(c)
       PROVE  UNCHANGED Contract!cvars
  BY <1>10, Stutter DEF ReportUnanswered, rowVars, agentVars
<1>11. ASSUME NEW c \in Commands, ReportGivenUp(c)
       PROVE  UNCHANGED Contract!cvars
  BY <1>11, Stutter DEF ReportGivenUp, rowVars, agentVars
<1>12. ASSUME NEW r \in Requests, HeartbeatThenPoll(r)
       PROVE  UNCHANGED Contract!cvars
  BY <1>12, Stutter DEF HeartbeatThenPoll, rowVars, agentVars
<1>13. ASSUME NEW r \in Requests, PollGivenUp(r)
       PROVE  UNCHANGED Contract!cvars
  BY <1>13, Stutter DEF PollGivenUp, rowVars, agentVars
<1>14. ASSUME NEW r \in Requests, NEW s \in Requests, PollAgain(r, s)
       PROVE  UNCHANGED Contract!cvars
  BY <1>14, Stutter DEF PollAgain, rowVars, agentVars
<1>15. ASSUME NEW r \in Requests, ClaimRead(r)
       PROVE  UNCHANGED Contract!cvars
  BY <1>15, Stutter DEF ClaimRead, rowVars, agentVars
<1>16. ASSUME NEW r \in Requests, Answer(r)
       PROVE  UNCHANGED Contract!cvars
  BY <1>16, Stutter DEF Answer, rowVars, agentVars
<1>17. ASSUME AgentDies
       PROVE  UNCHANGED Contract!cvars
  BY <1>17, Stutter DEF AgentDies, rowVars, agentVars
<1>18. ASSUME AgentStarts
       PROVE  UNCHANGED Contract!cvars
  BY <1>18, Stutter DEF AgentStarts, rowVars, agentVars
<1>19. CASE UNCHANGED vars
  BY <1>19, Stutter DEF vars, rowVars, agentVars
<1>. QED
  BY <1>1, <1>2, <1>3, <1>4, <1>5, <1>6, <1>7, <1>8, <1>9, <1>10, <1>11,
     <1>12, <1>13, <1>14, <1>15, <1>16, <1>17, <1>18, <1>19
     DEF Next, Dispatcher, Work, Client, Handler, Contract!CNext, Ends

\* Claiming in two statements, retrying, losing and restarting implement the
\* contract: started at most once, sealed, ended once, truthfully recorded.
THEOREM DeliveryImplementsContract == Spec => DeliveryKeepsContract
BY RefineInit, RefineNext, Inductive, PTL
   DEF Spec, DeliveryKeepsContract, Contract!CSpec

=============================================================================
