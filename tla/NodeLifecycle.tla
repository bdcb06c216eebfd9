---------------------------- MODULE NodeLifecycle ----------------------------
(***************************************************************************)
(* The life of the nodes of a workspace: a registration consumes a join    *)
(* token and creates the Node row, heartbeats keep the row online, the     *)
(* node_liveness sweep of the workers degrades the rows of nodes that have *)
(* gone silent, operators drain, disable and remove nodes.                 *)
(*                                                                         *)
(* All of them write the status of the row and none looks at what it was   *)
(* when the write takes effect: a request checks the token, the credential *)
(* or the row first and writes later, and a sweep writes, node by node,    *)
(* what it decided from one read of all of them.                           *)
(*                                                                         *)
(* Time is the age of the last heartbeat, in three grades: within 45 s,    *)
(* beyond NODE_DEGRADED_AFTER_MS, beyond NODE_OFFLINE_AFTER_MS.            *)
(***************************************************************************)
EXTENDS Integers, FiniteSets

CONSTANTS
    Nodes,          \* registrations, and the nodes they create
    Tokens,         \* join tokens
    NoToken,        \* presented by nobody yet
    Sweeps,         \* node_liveness jobs that may run at once
    MaxBeats,       \* heartbeats of a node the API handles at once
    MaxFaults,      \* bound on crashes, failed statements, repeated requests
    MaxOperations   \* bound on the requests of operators

ASSUME TokensAssumption == NoToken \notin Tokens
ASSUME BeatsAssumption == MaxBeats \in Nat \ {0}
ASSUME BoundsAssumption == MaxFaults \in Nat /\ MaxOperations \in Nat

VARIABLES
    \* NodeJoinToken rows
    token,       \* token[t]
    \* registrations
    reg,         \* reg[n]: where the registration that creates n stands
    with,        \* with[n]: the token it presents
    \* Node rows
    status,      \* status[n], "none" before the row exists
    age,         \* age[n]: grade of now - lastHeartbeatAt
    credential,  \* credential[n]: agentTokenHash is set
    disabled,
    deleted,     \* deletedAt is set
    \* processes
    up,          \* up[n]: the agent runs, and has its token
    beats,       \* beats[n]: heartbeats that are authenticated and not applied
    requests,    \* requests[n]: operators' requests that found n and wait to write
    sweep,       \* sweep[s][n]: the status s is about to write, "none" if none
    \* history and bounds
    raced,       \* tokens that two registrations had checked and not consumed
    faults,
    operations

tokenVars == <<token, reg, with, raced>>
nodeVars  == <<status, age, credential, disabled, deleted>>
bounds    == <<faults, operations>>
vars == <<tokenVars, nodeVars, up, beats, requests, sweep, bounds>>

Statuses == {"online", "degraded", "offline", "draining"}
Requests == {"drain", "remove", "disable", "enable"}

Fault == faults < MaxFaults /\ faults' = faults + 1 /\ UNCHANGED operations

Exists(n) == status[n] /= "none"

-----------------------------------------------------------------------------
Init ==
    /\ token = [t \in Tokens |-> "fresh"]
    /\ reg = [n \in Nodes |-> "idle"]
    /\ with = [n \in Nodes |-> NoToken]
    /\ status = [n \in Nodes |-> "none"]
    /\ age = [n \in Nodes |-> 0]
    /\ credential = [n \in Nodes |-> FALSE]
    /\ disabled = [n \in Nodes |-> FALSE]
    /\ deleted = [n \in Nodes |-> FALSE]
    /\ up = [n \in Nodes |-> FALSE]
    /\ beats = [n \in Nodes |-> 0]
    /\ requests = [n \in Nodes |-> {}]
    /\ sweep = [s \in Sweeps |-> [n \in Nodes |-> "none"]]
    /\ raced = {}
    /\ faults = 0
    /\ operations = 0

-----------------------------------------------------------------------------
(* Registration *)

\* Mutant: the token is not looked at again once it was found.
RegisterCheckUsed(n, t) ==
    /\ reg[n] = "idle"
    /\ token[t] \in {"fresh", "used"}
    /\ reg' = [reg EXCEPT ![n] = "checked"]
    /\ with' = [with EXCEPT ![n] = t]
    /\ raced' = IF \E m \in Nodes : reg[m] = "checked" /\ with[m] = t
                THEN raced \union {t} ELSE raced
    /\ UNCHANGED <<token, nodeVars, up, beats, requests, sweep, bounds>>

\* findUnique of the token, which is unused and has not expired.
RegisterCheck(n, t) ==
    /\ reg[n] = "idle"
    /\ token[t] = "fresh"
    /\ reg' = [reg EXCEPT ![n] = "checked"]
    /\ with' = [with EXCEPT ![n] = t]
    /\ raced' = IF \E m \in Nodes : reg[m] = "checked" /\ with[m] = t
                THEN raced \union {t} ELSE raced
    /\ UNCHANGED <<token, nodeVars, up, beats, requests, sweep, bounds>>

\* The transaction: the node, and the token by its id, used or not.  Without
\* the row of the token it is rolled back.
RegisterCommit(n) ==
    /\ reg[n] = "checked"
    /\ IF token[with[n]] = "purged"
       THEN /\ reg' = [reg EXCEPT ![n] = "failed"]
            /\ UNCHANGED <<token, status, credential>>
       ELSE /\ reg' = [reg EXCEPT ![n] = "registered"]
            /\ token' = [token EXCEPT ![with[n]] = "used"]
            /\ status' = [status EXCEPT ![n] = "online"]
            /\ credential' = [credential EXCEPT ![n] = TRUE]
    /\ UNCHANGED <<with, raced, age, disabled, deleted, up, beats, requests, sweep, bounds>>

RegisterFails(n) ==
    /\ reg[n] = "checked"
    /\ Fault
    /\ reg' = [reg EXCEPT ![n] = "failed"]
    /\ UNCHANGED <<token, with, raced, nodeVars, up, beats, requests, sweep>>

\* JOIN_TOKEN_TTL_MS passes.
Expire(t) ==
    /\ token[t] = "fresh"
    /\ token' = [token EXCEPT ![t] = "expired"]
    /\ UNCHANGED <<reg, with, raced, nodeVars, up, beats, requests, sweep, bounds>>

\* The cleanup job deletes tokens that expired unused, and used ones a day later.
Cleanup(t) ==
    /\ token[t] \in {"expired", "used"}
    /\ token' = [token EXCEPT ![t] = "purged"]
    /\ UNCHANGED <<reg, with, raced, nodeVars, up, beats, requests, sweep, bounds>>

-----------------------------------------------------------------------------
(* The agent and its heartbeats *)

\* The agent has saved what the registration answered, or is started again.  It
\* never starts if the answer was lost.
AgentStarts(n) ==
    /\ Exists(n) /\ ~up[n]
    /\ up' = [up EXCEPT ![n] = TRUE]
    /\ UNCHANGED <<tokenVars, nodeVars, beats, requests, sweep, bounds>>

AgentStops(n) ==
    /\ up[n]
    /\ Fault
    /\ up' = [up EXCEPT ![n] = FALSE]
    /\ UNCHANGED <<tokenVars, nodeVars, beats, requests, sweep>>

\* authenticateNode: by the hash of the token.
Authentic(n) == credential[n] /\ ~disabled[n]

BeginBeat(n) ==
    /\ up[n] /\ Authentic(n)
    /\ beats' = [beats EXCEPT ![n] = @ + 1]
    /\ UNCHANGED <<tokenVars, nodeVars, up, requests, sweep>>

Heartbeat(n) ==
    /\ beats[n] = 0
    /\ BeginBeat(n)
    /\ UNCHANGED bounds

\* The agent gave the one before up, and the API has not.
HeartbeatAgain(n) ==
    /\ beats[n] \in 1..(MaxBeats - 1)
    /\ BeginBeat(n)
    /\ Fault

\* Mutant: a row the sweep has given up is left to an operator.
ApplyBeatOnline(n) ==
    /\ beats[n] > 0
    /\ beats' = [beats EXCEPT ![n] = @ - 1]
    /\ status' = [status EXCEPT ![n] = IF @ = "offline" THEN @ ELSE "online"]
    /\ age' = [age EXCEPT ![n] = 0]
    /\ UNCHANGED <<tokenVars, credential, disabled, deleted, up, requests, sweep, bounds>>

\* The transaction sets the row online, whatever it was, and reads it back for
\* the answer: desiredStatus is `online`, always.
ApplyBeat(n) ==
    /\ beats[n] > 0
    /\ beats' = [beats EXCEPT ![n] = @ - 1]
    /\ status' = [status EXCEPT ![n] = "online"]
    /\ age' = [age EXCEPT ![n] = 0]
    /\ UNCHANGED <<tokenVars, credential, disabled, deleted, up, requests, sweep, bounds>>

BeatFails(n) ==
    /\ beats[n] > 0
    /\ Fault
    /\ beats' = [beats EXCEPT ![n] = @ - 1]
    /\ UNCHANGED <<tokenVars, nodeVars, up, requests, sweep>>

\* Time passes without a heartbeat.
Age(n) ==
    /\ Exists(n) /\ age[n] < 2
    /\ age' = [age EXCEPT ![n] = @ + 1]
    /\ UNCHANGED <<tokenVars, status, credential, disabled, deleted, up, beats, requests, sweep,
                   bounds>>

-----------------------------------------------------------------------------
(* Operators *)

\* The request finds the row, and is allowed.
Ask(n, q) ==
    /\ Exists(n) /\ ~deleted[n]
    /\ q \notin requests[n]
    /\ operations < MaxOperations
    /\ operations' = operations + 1
    /\ requests' = [requests EXCEPT ![n] = @ \union {q}]
    /\ UNCHANGED <<tokenVars, nodeVars, up, beats, sweep, faults>>

Serve(n, q) ==
    /\ q \in requests[n]
    /\ requests' = [requests EXCEPT ![n] = @ \ {q}]
    /\ UNCHANGED <<tokenVars, age, up, beats, sweep, bounds>>

Drain(n) ==
    /\ Serve(n, "drain")
    /\ status' = [status EXCEPT ![n] = "draining"]
    /\ UNCHANGED <<credential, disabled, deleted>>

\* Mutant: a disabled node gets a status of its own.
SetDisabledStatus(n) ==
    /\ \/ Serve(n, "disable") /\ status' = [status EXCEPT ![n] = "disabled"]
       \/ Serve(n, "enable") /\ status' = [status EXCEPT ![n] = "offline"]
    /\ UNCHANGED <<credential, disabled, deleted>>

SetDisabled(n) ==
    /\ \/ Serve(n, "disable") /\ disabled' = [disabled EXCEPT ![n] = TRUE]
       \/ Serve(n, "enable") /\ disabled' = [disabled EXCEPT ![n] = FALSE]
    /\ UNCHANGED <<status, credential, deleted>>

\* Mutant: the agent keeps its credential.
RemoveKeepsToken(n) ==
    /\ Serve(n, "remove")
    /\ status' = [status EXCEPT ![n] = "offline"]
    /\ deleted' = [deleted EXCEPT ![n] = TRUE]
    /\ UNCHANGED <<credential, disabled>>

\* The transaction; what it does to the apps of the node is MoveApp in
\* DeploymentLifecycle.
Remove(n) ==
    /\ Serve(n, "remove")
    /\ status' = [status EXCEPT ![n] = "offline"]
    /\ deleted' = [deleted EXCEPT ![n] = TRUE]
    /\ credential' = [credential EXCEPT ![n] = FALSE]
    /\ UNCHANGED disabled

-----------------------------------------------------------------------------
(* The node_liveness sweep *)

\* What the sweep makes of a row it reads.
Verdict(n) ==
    IF age[n] = 2 THEN "offline"
    ELSE IF status[n] = "draining" THEN "draining"
    ELSE IF age[n] = 1 THEN "degraded"
    ELSE "online"

\* Mutant: nodes that drain are left out of the query.
SweepReadServing(s) ==
    /\ \A n \in Nodes : sweep[s][n] = "none"
    /\ sweep' = [sweep EXCEPT ![s] =
                    [n \in Nodes |->
                        IF /\ status[n] \in {"online", "degraded"}
                           /\ ~deleted[n]
                           /\ Verdict(n) /= status[n]
                        THEN Verdict(n) ELSE "none"]]
    /\ UNCHANGED <<tokenVars, nodeVars, up, beats, requests, bounds>>

\* findMany, once; the verdicts that differ from what was read are written.
SweepRead(s) ==
    /\ \A n \in Nodes : sweep[s][n] = "none"
    /\ sweep' = [sweep EXCEPT ![s] =
                    [n \in Nodes |->
                        IF /\ status[n] \in {"online", "degraded", "draining"}
                           /\ ~deleted[n]
                           /\ Verdict(n) /= status[n]
                        THEN Verdict(n) ELSE "none"]]
    /\ UNCHANGED <<tokenVars, nodeVars, up, beats, requests, bounds>>

SweepWrite(s, n) ==
    /\ sweep[s][n] /= "none"
    /\ status' = [status EXCEPT ![n] = sweep[s][n]]
    /\ sweep' = [sweep EXCEPT ![s][n] = "none"]
    /\ UNCHANGED <<tokenVars, age, credential, disabled, deleted, up, beats, requests, bounds>>

\* A write fails, or the worker dies: the rest is not written.
SweepDies(s) ==
    /\ \E n \in Nodes : sweep[s][n] /= "none"
    /\ Fault
    /\ sweep' = [sweep EXCEPT ![s] = [n \in Nodes |-> "none"]]
    /\ UNCHANGED <<tokenVars, nodeVars, up, beats, requests>>

-----------------------------------------------------------------------------
Registration(n) ==
    RegisterCommit(n) \/ RegisterFails(n) \/ \E t \in Tokens : RegisterCheck(n, t)

Agent(n) ==
    \/ AgentStarts(n) \/ AgentStops(n)
    \/ Heartbeat(n) \/ HeartbeatAgain(n) \/ ApplyBeat(n) \/ BeatFails(n)

Operator(n) == Drain(n) \/ SetDisabled(n) \/ Remove(n) \/ \E q \in Requests : Ask(n, q)

Sweep(s) == SweepRead(s) \/ SweepDies(s) \/ \E n \in Nodes : SweepWrite(s, n)

Next ==
    \/ \E n \in Nodes : Registration(n) \/ Agent(n) \/ Age(n) \/ Operator(n)
    \/ \E t \in Tokens : Expire(t) \/ Cleanup(t)
    \/ \E s \in Sweeps : Sweep(s)

Spec == Init /\ [][Next]_vars

\* Time passes, the sweep runs every thirty seconds, a handler that has begun
\* goes on.  An agent that is up gets a heartbeat through now and then: it
\* sends one every fifteen seconds and repeats each five times.  Nothing is
\* assumed of agents that are down, nor of operators.
Fairness ==
    /\ \A n \in Nodes : WF_vars(Age(n)) /\ WF_vars(Heartbeat(n)) /\ WF_vars(ApplyBeat(n))
    /\ \A s \in Sweeps :
          WF_vars(SweepRead(s)) /\ \A n \in Nodes : WF_vars(SweepWrite(s, n))

FairSpec == Spec /\ Fairness

-----------------------------------------------------------------------------
(* Properties *)

\* The rows and the processes are in the states the code knows; that a node is
\* disabled is not a status.
TypeOK ==
    /\ token \in [Tokens -> {"fresh", "used", "expired", "purged"}]
    /\ reg \in [Nodes -> {"idle", "checked", "registered", "failed"}]
    /\ with \in [Nodes -> Tokens \union {NoToken}]
    /\ status \in [Nodes -> Statuses \union {"none"}]
    /\ age \in [Nodes -> 0..2]
    /\ credential \in [Nodes -> BOOLEAN]
    /\ disabled \in [Nodes -> BOOLEAN]
    /\ deleted \in [Nodes -> BOOLEAN]
    /\ up \in [Nodes -> BOOLEAN]
    /\ beats \in [Nodes -> 0..MaxBeats]
    /\ requests \in [Nodes -> SUBSET Requests]
    /\ sweep \in [Sweeps -> [Nodes -> Statuses \union {"none"}]]
    /\ raced \in SUBSET Tokens
    /\ faults \in 0..MaxFaults
    /\ operations \in 0..MaxOperations

\* One join token admits one node, unless two registrations had both checked it
\* before either consumed it: then it admits both (register checks the token
\* outside of the transaction that consumes it).
TokenAdmitsOne ==
    \A n, m \in Nodes :
        /\ reg[n] = "registered" /\ reg[m] = "registered"
        /\ with[n] = with[m] /\ with[n] \notin raced
        => n = m

\* Nothing that read the row of n before it was removed is still to write it.
Gone(n) ==
    /\ deleted[n]
    /\ beats[n] = 0 /\ requests[n] = {}
    /\ \A s \in Sweeps : sweep[s][n] = "none"

\* A removed node stays as it is once the requests and sweeps that had seen it
\* before have ended: its agent, restarted or not, is not let in again, no sweep
\* picks the row up, no operator finds it.
RemovedStaysGone ==
    [][\A n \in Nodes : Gone(n) => Gone(n)' /\ status'[n] = status[n]]_vars

\* A node whose agent is gone for good ends up offline and stays there, draining
\* or not, whatever a sweep that had read the row before writes over it.
SilentEndsOffline ==
    \A n \in Nodes :
        <>[](Exists(n) /\ ~up[n] /\ ~deleted[n]) => <>[](status[n] = "offline")

\* A node that was taken for dead and is not comes back.
LiveComesBack ==
    \A n \in Nodes :
        status[n] \in {"degraded", "offline"} ~>
            status[n] = "online" \/ ~up[n] \/ disabled[n] \/ deleted[n]

=============================================================================
