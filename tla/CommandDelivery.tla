--------------------------- MODULE CommandDelivery ---------------------------
(***************************************************************************)
(* How a signed command travels from the control plane to the agent of one *)
(* node and how its result travels back.                                   *)
(*                                                                         *)
(* Four kinds of process share the NodeCommand rows of the node:           *)
(*                                                                         *)
(*   dispatchers    an API route or a worker job creates the row, then     *)
(*                  signs it with a second write                           *)
(*                  (worker/src/lib/command.ts, command.service.ts);       *)
(*   poll handlers  GET /agent/commands reads the queued rows, then marks  *)
(*                  them accepted with a second statement, and answers     *)
(*                  with the rows as it READ them (routes/agent.ts);       *)
(*   the agent      heartbeats, polls when the heartbeat says commands are *)
(*                  waiting, verifies each envelope, and runs the valid    *)
(*                  ones concurrently (agent/src/daemon.rs, executor.rs);  *)
(*   result handler POST /agent/commands/:id/result overwrites the status  *)
(*                  of the row (command-result.service.ts).                *)
(*                                                                         *)
(* HTTP is at-least-once: the agent's client gives a request up after its  *)
(* timeout and sends it again (api.rs), while the first copy may still be  *)
(* handled.  An abandoned poll keeps running on the server and its answer  *)
(* goes nowhere; an abandoned report may be applied late, or twice.        *)
(* Nothing the agent holds survives a restart of its process.              *)
(***************************************************************************)
EXTENDS Integers, FiniteSets

CONSTANTS
    Commands,    \* the commands ever created for the node
    Requests,    \* slots for GET /agent/commands handlers running at once
    NoRequest,   \* the agent waits for no poll
    Batch,       \* rows one claim takes at most (`take: 10`)
    MaxFaults    \* bound on time-outs, lost reports, crashes

ASSUME CommandsAssumption == IsFiniteSet(Commands)
ASSUME NoRequestAssumption == NoRequest \notin Requests
ASSUME BatchAssumption == Batch \in Nat \ {0}
ASSUME FaultAssumption == MaxFaults \in Nat

VARIABLES
    \* NodeCommand rows
    status,      \* status[c], "none" before the row exists
    signed,      \* signed[c]: the row holds its signature ('' until then)
    issuedAt,    \* issuedAt[c]: position of c in the order of issue
    dispatch,    \* dispatch[c]: the process that creates the row of c
    \* poll handlers
    pc,          \* pc[r]: where the handler in slot r stands
    read,        \* read[r]: commands of the rows it read
    valid,       \* valid[r]: those whose row held a signature when read
    \* the agent's process
    up,          \* it runs
    awaits,      \* the slot whose answer it waits for
    inHand,      \* envelopes it received and has not looked at
    inHandValid, \* those of them that verify
    task,        \* task[c]: what it is doing about c
    starts,      \* starts[c]: how often c was handed to the executor (history)
    outcome,     \* outcome[c]: how the execution of c ended (history)
    \* reports the agent gave up waiting for, which the API may yet apply
    late,
    faults       \* faults so far

rowVars   == <<status, signed, issuedAt, dispatch>>
pollVars  == <<pc, read, valid>>
agentVars == <<up, awaits, inHand, inHandValid, task, starts, outcome>>
vars == <<rowVars, pollVars, agentVars, late, faults>>

Statuses == {"none", "queued", "accepted", "running", "succeeded", "failed",
             "timed_out"}
Ends     == {"succeeded", "failed", "timed_out"}
Outcomes == Ends \cup {"none", "refused"}
Reports  == Commands \X {"accepted", "running", "succeeded", "failed",
                         "timed_out"}

Queued == {c \in Commands : status[c] = "queued"}

Fault == faults < MaxFaults /\ faults' = faults + 1

-----------------------------------------------------------------------------
Init ==
    /\ status = [c \in Commands |-> "none"]
    /\ signed = [c \in Commands |-> FALSE]
    /\ issuedAt = [c \in Commands |-> 0]
    /\ dispatch = [c \in Commands |-> "idle"]
    /\ pc = [r \in Requests |-> "free"]
    /\ read = [r \in Requests |-> {}]
    /\ valid = [r \in Requests |-> {}]
    /\ up = TRUE
    /\ awaits = NoRequest
    /\ inHand = {}
    /\ inHandValid = {}
    /\ task = [c \in Commands |-> "none"]
    /\ starts = [c \in Commands |-> 0]
    /\ outcome = [c \in Commands |-> "none"]
    /\ late = {}
    /\ faults = 0

-----------------------------------------------------------------------------
(* Dispatchers *)

\* nodeCommand.create with status 'queued' and signature ''.
CreateRow(c) ==
    /\ dispatch[c] = "idle"
    /\ dispatch' = [dispatch EXCEPT ![c] = "signing"]
    /\ status' = [status EXCEPT ![c] = "queued"]
    /\ issuedAt' = [issuedAt EXCEPT
                       ![c] = Cardinality({d \in Commands : status[d] # "none"})]
    /\ UNCHANGED <<signed, pollVars, agentVars, late, faults>>

\* nodeCommand.update of the signature, whatever became of the row meanwhile.
SignRow(c) ==
    /\ dispatch[c] = "signing"
    /\ dispatch' = [dispatch EXCEPT ![c] = "done"]
    /\ signed' = [signed EXCEPT ![c] = TRUE]
    /\ UNCHANGED <<status, issuedAt, pollVars, agentVars, late, faults>>

\* The dispatching process dies, or its second write fails.
DispatcherDies(c) ==
    /\ dispatch[c] = "signing"
    /\ Fault
    /\ dispatch' = [dispatch EXCEPT ![c] = "dead"]
    /\ UNCHANGED <<status, signed, issuedAt, pollVars, agentVars, late>>

-----------------------------------------------------------------------------
(* The agent asks *)

\* A heartbeat that answers hasPendingCommands, and the poll it leads to.  A
\* heartbeat that counts no queued row changes nothing here.
HeartbeatThenPoll(r) ==
    /\ up /\ awaits = NoRequest /\ inHand = {}
    /\ Queued # {}
    /\ pc[r] = "free"
    /\ pc' = [pc EXCEPT ![r] = "claim"]
    /\ awaits' = r
    /\ UNCHANGED <<rowVars, read, valid, up, inHand, inHandValid, task, starts,
                   outcome, late, faults>>

\* The client gives the poll up and sends it again.
PollAgain(r, s) ==
    /\ awaits = r
    /\ pc[s] = "free"
    /\ Fault
    /\ pc' = [pc EXCEPT ![s] = "claim"]
    /\ awaits' = s
    /\ UNCHANGED <<rowVars, read, valid, up, inHand, inHandValid, task, starts,
                   outcome, late>>

\* All retries are used: "polling commands failed".
PollGivenUp(r) ==
    /\ awaits = r
    /\ Fault
    /\ awaits' = NoRequest
    /\ UNCHANGED <<rowVars, pollVars, up, inHand, inHandValid, task, starts,
                   outcome, late>>

-----------------------------------------------------------------------------
(* Poll handlers: claimCommands *)

\* ORDER BY issuedAt LIMIT Batch
Oldest(S) ==
    {c \in S : Cardinality({d \in S : issuedAt[d] < issuedAt[c]}) < Batch}

\* Mutant of ClaimRead: LIMIT before the filter, so that accepted rows use it up.
ClaimReadLimitFirst(r) ==
    /\ pc[r] \in {"claim", "reclaim"}
    /\ LET page == Oldest({c \in Commands : status[c] \in {"queued", "accepted"}})
       IN  /\ read' = [read EXCEPT ![r] = page \cap Queued]
           /\ valid' = [valid EXCEPT ![r] = {c \in page \cap Queued : signed[c]}]
           /\ pc' = [pc EXCEPT ![r] = IF page \cap Queued # {} THEN "mark"
                                      ELSE IF pc[r] = "claim" THEN "reclaim"
                                      ELSE "answer"]
    /\ UNCHANGED <<rowVars, agentVars, late, faults>>

\* findMany.  An empty result is tried once more after a second ("claim" to
\* "reclaim"), then answered with the empty list.
ClaimRead(r) ==
    /\ pc[r] \in {"claim", "reclaim"}
    /\ read' = [read EXCEPT ![r] = Oldest(Queued)]
    /\ valid' = [valid EXCEPT ![r] = {c \in Oldest(Queued) : signed[c]}]
    /\ pc' = [pc EXCEPT ![r] = IF Queued # {} THEN "mark"
                               ELSE IF pc[r] = "claim" THEN "reclaim"
                               ELSE "answer"]
    /\ UNCHANGED <<rowVars, agentVars, late, faults>>

\* Mutant of ClaimMark: the rows are answered and stay queued.
ClaimMarkNothing(r) ==
    /\ pc[r] = "mark"
    /\ pc' = [pc EXCEPT ![r] = "answer"]
    /\ UNCHANGED <<rowVars, read, valid, agentVars, late, faults>>

\* updateMany WHERE id IN read AND status = 'queued'.  The number of rows it
\* changed is not looked at.
ClaimMark(r) ==
    /\ pc[r] = "mark"
    /\ status' = [c \in Commands |->
                     IF c \in read[r] \cap Queued THEN "accepted" ELSE status[c]]
    /\ pc' = [pc EXCEPT ![r] = "answer"]
    /\ UNCHANGED <<signed, issuedAt, dispatch, read, valid, agentVars, late,
                   faults>>

\* Mutant of Answer: the client also takes the answer of a poll it gave up.
AnswerAnyone(r) ==
    /\ pc[r] = "answer"
    /\ pc' = [pc EXCEPT ![r] = "free"]
    /\ read' = [read EXCEPT ![r] = {}]
    /\ valid' = [valid EXCEPT ![r] = {}]
    /\ inHand' = IF up THEN inHand \cup read[r] ELSE {}
    /\ inHandValid' = IF up THEN inHandValid \cup valid[r] ELSE {}
    /\ awaits' = IF awaits = r THEN NoRequest ELSE awaits
    /\ UNCHANGED <<rowVars, up, task, starts, outcome, late, faults>>

\* The rows as they were read reach the agent, if it still waits for them.
Answer(r) ==
    /\ pc[r] = "answer"
    /\ pc' = [pc EXCEPT ![r] = "free"]
    /\ read' = [read EXCEPT ![r] = {}]
    /\ valid' = [valid EXCEPT ![r] = {}]
    /\ IF awaits = r
       THEN /\ inHand' = read[r]
            /\ inHandValid' = valid[r]
            /\ awaits' = NoRequest
       ELSE UNCHANGED <<inHand, inHandValid, awaits>>
    /\ UNCHANGED <<rowVars, up, task, starts, outcome, late, faults>>

-----------------------------------------------------------------------------
(* The agent works *)

\* verify_command succeeds: the executor gets the command in a task of its own.
Spawn(c) ==
    /\ c \in inHand \cap inHandValid
    /\ inHand' = inHand \ {c}
    /\ task' = [task EXCEPT ![c] = "accept"]
    /\ starts' = [starts EXCEPT ![c] = @ + 1]
    /\ UNCHANGED <<rowVars, pollVars, up, awaits, inHandValid, outcome, late,
                   faults>>

\* verify_command fails: the command is never executed, only reported.
Reject(c) ==
    /\ c \in inHand \ inHandValid
    /\ inHand' = inHand \ {c}
    /\ outcome' = [outcome EXCEPT ![c] = "refused"]
    /\ task' = [task EXCEPT ![c] = "report"]
    /\ UNCHANGED <<rowVars, pollVars, up, awaits, inHandValid, starts, late,
                   faults>>

\* The handler of the payload returns, fails or exceeds the timeout.
Finish(c, o) ==
    /\ task[c] = "work"
    /\ task' = [task EXCEPT ![c] = "report"]
    /\ outcome' = [outcome EXCEPT ![c] = o]
    /\ UNCHANGED <<rowVars, pollVars, up, awaits, inHand, inHandValid, starts,
                   late, faults>>

\* The process stops: tasks, envelopes and the request it waits for are gone.
AgentDies ==
    /\ up
    /\ Fault
    /\ up' = FALSE
    /\ awaits' = NoRequest
    /\ inHand' = {}
    /\ inHandValid' = {}
    /\ task' = [c \in Commands |-> "none"]
    /\ UNCHANGED <<rowVars, pollVars, starts, outcome, late>>

\* systemd starts it again.
AgentStarts ==
    /\ ~up
    /\ up' = TRUE
    /\ UNCHANGED <<rowVars, pollVars, awaits, inHand, inHandValid, task, starts,
                   outcome, late, faults>>

-----------------------------------------------------------------------------
(* Reports: post_result on the agent, applyCommandResult in the API *)

\* Mutant of Due: a refused command is reported with a status of its own.
DueRefused(c) ==
    CASE task[c] = "accept" -> "accepted"
      [] task[c] = "begin"  -> "running"
      [] task[c] = "report" -> outcome[c]
      [] OTHER -> "none"

\* What the task of c has to report now, and where it stands after that.
Due(c) ==
    CASE task[c] = "accept" -> "accepted"
      [] task[c] = "begin"  -> "running"
      [] task[c] = "report" -> IF outcome[c] = "refused" THEN "failed"
                               ELSE outcome[c]
      [] OTHER -> "none"

Advance(c) ==
    task' = [task EXCEPT ![c] = CASE @ = "accept" -> "begin"
                                  [] @ = "begin"  -> "work"
                                  [] OTHER        -> "done"]

\* The API overwrites the status of the row, whatever it was, and its answer
\* reaches the agent.
Report(c) ==
    /\ Due(c) # "none"
    /\ status' = [status EXCEPT ![c] = Due(c)]
    /\ Advance(c)
    /\ UNCHANGED <<signed, issuedAt, dispatch, pollVars, up, awaits, inHand,
                   inHandValid, starts, outcome, late, faults>>

\* An attempt goes without an answer, so the agent will send it again; the API
\* may still be about to apply the first one.
ReportUnanswered(c) ==
    /\ Due(c) # "none"
    /\ Fault
    /\ late' = late \cup {<<c, Due(c)>>}
    /\ UNCHANGED <<rowVars, pollVars, agentVars>>

ApplyLate(m) ==
    /\ m \in late
    /\ status' = [status EXCEPT ![m[1]] = m[2]]
    /\ late' = late \ {m}
    /\ UNCHANGED <<signed, issuedAt, dispatch, pollVars, agentVars, faults>>

\* All attempts failed: "failed to post command result", and on it goes.
ReportGivenUp(c) ==
    /\ Due(c) # "none"
    /\ Fault
    /\ Advance(c)
    /\ UNCHANGED <<rowVars, pollVars, up, awaits, inHand, inHandValid, starts,
                   outcome, late>>

-----------------------------------------------------------------------------
Dispatcher(c) == CreateRow(c) \/ SignRow(c) \/ DispatcherDies(c)

Handler(r) == ClaimRead(r) \/ ClaimMark(r) \/ Answer(r)

Client(r) ==
    \/ HeartbeatThenPoll(r)
    \/ PollGivenUp(r)
    \/ \E s \in Requests : PollAgain(r, s)

Work(c) ==
    \/ Spawn(c)
    \/ Reject(c)
    \/ Report(c)
    \/ ReportUnanswered(c)
    \/ ReportGivenUp(c)
    \/ \E o \in Ends : Finish(c, o)

Next ==
    \/ \E c \in Commands : Dispatcher(c) \/ Work(c)
    \/ \E r \in Requests : Client(r) \/ Handler(r)
    \/ AgentDies
    \/ AgentStarts
    \/ \E m \in late : ApplyLate(m)

\* The API answers, the daemon loop runs, systemd restarts the agent.  Nothing
\* is assumed of the network, of dispatchers, or of the commands themselves.
Fairness ==
    /\ \A r \in Requests : WF_vars(Handler(r))
    /\ \A c \in Commands : WF_vars(Spawn(c) \/ Reject(c))
    /\ WF_vars(\E r \in Requests : HeartbeatThenPoll(r))
    /\ WF_vars(AgentStarts)

Spec == Init /\ [][Next]_vars

FairSpec == Spec /\ Fairness

-----------------------------------------------------------------------------
(* Properties *)

\* Every variable has its type.
TypeOK ==
    /\ status \in [Commands -> Statuses]
    /\ signed \in [Commands -> BOOLEAN]
    /\ issuedAt \in [Commands -> Nat]
    /\ dispatch \in [Commands -> {"idle", "signing", "done", "dead"}]
    /\ pc \in [Requests -> {"free", "claim", "reclaim", "mark", "answer"}]
    /\ read \in [Requests -> SUBSET Commands]
    /\ valid \in [Requests -> SUBSET Commands]
    /\ up \in BOOLEAN
    /\ awaits \in Requests \cup {NoRequest}
    /\ inHand \in SUBSET Commands
    /\ inHandValid \in SUBSET Commands
    /\ task \in [Commands -> {"none", "accept", "begin", "work", "report", "done"}]
    /\ starts \in [Commands -> Nat]
    /\ outcome \in [Commands -> Outcomes]
    /\ late \in SUBSET Reports
    /\ faults \in 0..MaxFaults

\* A command is handed to the executor at most once, although the claim reads
\* and marks in two statements, polls overlap and are retried, and the agent
\* restarts (claimCommands and poll_and_execute together).
AtMostOnce == \A c \in Commands : starts[c] <= 1

\* The executor only ever gets a command whose row is signed: one claimed
\* between the two writes of its dispatcher is refused (verify_command).
OnlySignedRuns == \A c \in Commands : starts[c] > 0 => signed[c]

\* The row of a command never says more than what happened on the node: no
\* report is made up, none goes to the wrong row, and the claim itself never
\* says more than `accepted` (applyCommandResult, claimCommands).
RecordIsTrue ==
    \A c \in Commands :
        /\ status[c] = "running" => starts[c] > 0
        /\ status[c] = "failed" => outcome[c] \in {"failed", "refused"}
        /\ status[c] \in {"succeeded", "timed_out"} => outcome[c] = status[c]

\* The promise as an abstract specification.
Life(c) ==
    IF outcome[c] # "none" THEN "ended"
    ELSE IF starts[c] > 0 THEN "started"
    ELSE IF status[c] # "none" THEN "issued"
    ELSE "unknown"

Contract == INSTANCE CommandContract WITH
                stage <- [c \in Commands |-> Life(c)],
                seal <- signed,
                verdict <- outcome,
                record <- status

\* Every step of delivery is a step of the contract or changes nothing it sees.
DeliveryKeepsContract == Contract!CSpec

\* A queued command leaves the queue once the faults stop: heartbeats find it,
\* and neither an abandoned poll nor a restart keeps it there.
QueueDrains ==
    \A c \in Commands : status[c] = "queued" ~> status[c] # "queued"

=============================================================================
