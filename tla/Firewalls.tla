----------------------------- MODULE Firewalls -----------------------------
(***************************************************************************)
(* Firewalls from the request to the nodes' nftables: routes/firewalls.ts, *)
(* processors/firewall.ts, configure_firewall of the agent, and what       *)
(* applyCommandResult makes of the reports.                                *)
(*                                                                         *)
(* An apply fans a command out to every node of the firewall, and each     *)
(* report sets the one status, that of a command the node refused too. A   *)
(* node has one table, yourstack_fw, which every firewall replaces.        *)
(*                                                                         *)
(* The apply jobs of a firewall share the id fw-<id>: while BullMQ knows   *)
(* it, another is ignored. It forgets a completed job when 200 others have *)
(* completed since, be its commands executed or not; a failed one never.   *)
(***************************************************************************)
EXTENDS Integers, FiniteSets, Faults

CONSTANTS
    Firewalls, Nodes,
    Broken,         \* the nodes without nftables
    MaxActs         \* bound on requests and faults together

ASSUME FirewallAssumption ==
    /\ Broken \subseteq Nodes /\ Nodes /= {}
    /\ MaxActs \in Nat

VARIABLES
    fw,         \* fw[f]: the row: status, nodes, rules (a version of them), deleted
    asked,      \* asked[f][a]: requests of f that are about to add a job with action a
    job,        \* job[f][a]: the job of f with action a that the queue knows
    todo,       \* todo[f]: what the apply job has read: rules, and nodes not yet sent to
    starts,     \* starts[f]: how often apply jobs of f were started
    commands,   \* the CONFIGURE_FIREWALL commands
    table,      \* table[n]: the firewall and rules in yourstack_fw of n, if any
    \* history
    acts,       \* requests and faults
    cause,      \* cause[f]: why the status of f may say less: "patched" since the last apply
                \* job read the row, commands of an earlier one "met" when it began, a
                \* request, job or command "lost" since, the last request to apply "ignored"
    declined    \* declined[f]: the nodes that refused a command since, and have enforced none

firewallVars == <<fw, asked, job, todo, starts, commands, table, acts, cause, declined>>
history == <<acts, cause, declined>>

Actions == {"apply", "remove"}
Statuses == {"none", "draft", "applying", "active", "failed"}

Nothing == [nodes |-> {}, rules |-> 0]

FirewallsInit ==
    /\ fw = [f \in Firewalls |-> [status |-> "none", nodes |-> {}, rules |-> 0, deleted |-> FALSE]]
    /\ asked = [f \in Firewalls |-> [a \in Actions |-> 0]]
    /\ job = [f \in Firewalls |-> [a \in Actions |-> "unknown"]]
    /\ todo = [f \in Firewalls |-> Nothing]
    /\ starts = [f \in Firewalls |-> 0]
    /\ commands = {}
    /\ table = [n \in Nodes |-> {}]
    /\ acts = 0
    /\ cause = [f \in Firewalls |-> {}]
    /\ declined = [f \in Firewalls |-> {}]

Act == acts < MaxActs /\ acts' = acts + 1

\* Something of f fails.
FaultOf(f) ==
    /\ Fault /\ Act
    /\ cause' = [cause EXCEPT ![f] = @ \union {"lost"}]

Living(f) == fw[f].status /= "none" /\ ~fw[f].deleted

-----------------------------------------------------------------------------
(* Requests *)

CreateFirewall(f) ==
    /\ fw[f].status = "none" /\ Act
    /\ \E ns \in SUBSET Nodes : fw' = [fw EXCEPT ![f].status = "draft", ![f].nodes = ns]
    /\ UNCHANGED <<asked, job, todo, starts, commands, table, cause, declined, faults>>

\* Rules and nodes are replaced; no job is added.
PatchFirewall(f) ==
    /\ Living(f) /\ Act
    /\ \/ fw' = [fw EXCEPT ![f].rules = @ + 1]
       \/ \E ns \in SUBSET Nodes \ {fw[f].nodes} : fw' = [fw EXCEPT ![f].nodes = ns]
    /\ cause' = [cause EXCEPT ![f] = @ \union {"patched"}]
    /\ UNCHANGED <<asked, job, todo, starts, commands, table, declined, faults>>

DeleteFirewall(f) ==
    /\ Living(f) /\ Act
    /\ fw' = [fw EXCEPT ![f].deleted = TRUE]
    /\ asked' = [asked EXCEPT ![f]["remove"] = @ + 1]
    /\ UNCHANGED <<job, todo, starts, commands, table, cause, declined, faults>>

ApplyFirewall(f) ==
    /\ Living(f) /\ Act /\ fw[f].nodes /= {}
    /\ fw' = [fw EXCEPT ![f].status = "applying"]
    /\ asked' = [asked EXCEPT ![f]["apply"] = @ + 1]
    /\ UNCHANGED <<job, todo, starts, commands, table, cause, declined, faults>>

\* An apply job whose id is known is not added again. That of a completed one may have
\* been forgotten since (removeOnComplete).
AddFirewallJob(f, a) ==
    /\ asked[f][a] > 0
    /\ asked' = [asked EXCEPT ![f][a] = @ - 1]
    /\ \E known \in {job[f][a] /= "unknown"} \union {job[f][a] \notin {"unknown", "ended"}} :
        /\ job' = [job EXCEPT ![f][a] = IF known THEN @ ELSE "waiting"]
        /\ cause' = [cause EXCEPT ![f] = IF a /= "apply" THEN @
                                           ELSE IF known THEN @ \union {"ignored"} ELSE @ \ {"ignored"}]
    /\ UNCHANGED <<fw, todo, starts, commands, table, acts, declined, faults>>

FirewallRequestDies(f, a) ==
    /\ asked[f][a] > 0 /\ FaultOf(f)
    /\ asked' = [asked EXCEPT ![f][a] = @ - 1]
    /\ UNCHANGED <<fw, job, todo, starts, commands, table, declined>>

-----------------------------------------------------------------------------
(* The jobs *)

Sending(f) == job[f]["apply"] \in {"sending", "resending"}

CommandsOf(f) == {c \in commands : c.fw = f}

\* The row of a removal is always deleted by then: its flush is never sent.
StartFirewallJob(f, a) ==
    /\ job[f][a] \in {"waiting", "stalled"}
    /\ IF fw[f].deleted
       THEN /\ job' = [job EXCEPT ![f][a] = "ended"]
            /\ UNCHANGED <<fw, todo, starts, cause, declined>>
       ELSE /\ job' = [job EXCEPT ![f][a] = IF @ = "waiting" THEN "sending" ELSE "resending"]
            /\ fw' = [fw EXCEPT ![f].status = "applying"]
            /\ todo' = [todo EXCEPT ![f] = [nodes |-> fw[f].nodes, rules |-> fw[f].rules]]
            /\ starts' = [starts EXCEPT ![f] = @ + 1]
            /\ cause' = [cause EXCEPT ![f] = (@ \ {"patched", "lost", "met"})
                                             \union IF CommandsOf(f) = {} THEN {} ELSE {"met"}]
            /\ declined' = [declined EXCEPT ![f] = {}]
    /\ UNCHANGED <<asked, commands, table, acts, faults>>

SendToNode(f) ==
    /\ Sending(f)
    /\ \E n \in todo[f].nodes :
        /\ todo' = [todo EXCEPT ![f].nodes = @ \ {n}]
        /\ commands' = commands \union
            {[fw |-> f, node |-> n, rules |-> todo[f].rules, start |-> starts[f], stage |-> "sent"]}
    /\ UNCHANGED <<fw, asked, job, starts, table, history, faults>>

EndFirewallJob(f) ==
    /\ Sending(f) /\ todo[f].nodes = {}
    /\ job' = [job EXCEPT ![f]["apply"] = "ended"]
    /\ todo' = [todo EXCEPT ![f] = Nothing]
    /\ UNCHANGED <<fw, asked, starts, commands, table, history, faults>>

\* A stalled job is started once more; one that throws has failed.
FirewallWorkerDies(f) ==
    /\ Sending(f) /\ FaultOf(f)
    /\ \E to \in {"failed"} \union IF job[f]["apply"] = "sending" THEN {"stalled"} ELSE {} :
        job' = [job EXCEPT ![f]["apply"] = to]
    /\ todo' = [todo EXCEPT ![f] = Nothing]
    /\ UNCHANGED <<fw, asked, starts, commands, table, declined>>

-----------------------------------------------------------------------------
(* The nodes and their reports *)

\* nft replaces the whole table, whoever's it was.
Enforce(c) ==
    /\ c.stage = "sent"
    /\ LET ok == c.node \notin Broken IN
        /\ commands' = (commands \ {c}) \union {[c EXCEPT !.stage = IF ok THEN "ok" ELSE "failed"]}
        /\ table' = IF ok THEN [table EXCEPT ![c.node] = {[fw |-> c.fw, rules |-> c.rules]}] ELSE table
        /\ declined' = IF ok THEN [declined EXCEPT ![c.fw] = @ \ {c.node}] ELSE declined
    /\ UNCHANGED <<fw, asked, job, todo, starts, acts, cause, faults>>

\* Claimed before it is signed, a command is reported failed and not executed.
RefuseFirewall(c) ==
    /\ c.stage = "sent"
    /\ commands' = (commands \ {c}) \union {[c EXCEPT !.stage = "failed"]}
    /\ declined' = [declined EXCEPT ![c.fw] = @ \union {c.node}]
    /\ UNCHANGED <<fw, asked, job, todo, starts, table, acts, cause, faults>>

\* Mutant: a node that cannot enforce is passed over.
ReportEnforced(c) ==
    /\ c.stage /= "sent"
    /\ commands' = commands \ {c}
    /\ fw' = IF c.stage = "ok" THEN [fw EXCEPT ![c.fw].status = "active"] ELSE fw
    /\ UNCHANGED <<asked, job, todo, starts, table, history, faults>>

\* The last report makes the status, be the row deleted or not.
ReportFirewall(c) ==
    /\ c.stage /= "sent"
    /\ commands' = commands \ {c}
    /\ fw' = [fw EXCEPT ![c.fw].status = IF c.stage = "ok" THEN "active" ELSE "failed"]
    /\ UNCHANGED <<asked, job, todo, starts, table, history, faults>>

\* The agent dies with the command, or its report is given up.
LoseFirewallCommand(c) ==
    /\ FaultOf(c.fw)
    /\ commands' = commands \ {c}
    /\ UNCHANGED <<fw, asked, job, todo, starts, table, declined>>

-----------------------------------------------------------------------------
FirewallsNext ==
    \/ \E f \in Firewalls :
        \/ CreateFirewall(f) \/ PatchFirewall(f) \/ DeleteFirewall(f) \/ ApplyFirewall(f)
        \/ SendToNode(f) \/ EndFirewallJob(f) \/ FirewallWorkerDies(f)
        \/ \E a \in Actions :
            AddFirewallJob(f, a) \/ FirewallRequestDies(f, a) \/ StartFirewallJob(f, a)
    \/ \E c \in commands :
        Enforce(c) \/ RefuseFirewall(c) \/ ReportFirewall(c) \/ LoseFirewallCommand(c)

FirewallsSpec == FirewallsInit /\ faults = 0 /\ [][FirewallsNext]_<<firewallVars, faults>>

-----------------------------------------------------------------------------
(* Properties *)

FirewallsTypeOK ==
    /\ fw \in [Firewalls -> [status : Statuses, nodes : SUBSET Nodes, rules : Nat, deleted : BOOLEAN]]
    /\ asked \in [Firewalls -> [Actions -> Nat]]
    /\ job \in [Firewalls -> [Actions -> {"unknown", "waiting", "sending", "stalled", "resending", "ended", "failed"}]]
    /\ todo \in [Firewalls -> [nodes : SUBSET Nodes, rules : Nat]]
    /\ starts \in [Firewalls -> Nat]
    /\ commands \subseteq [fw : Firewalls, node : Nodes, rules : Nat, start : Nat,
                           stage : {"sent", "ok", "failed"}]
    /\ table \in [Nodes -> SUBSET [fw : Firewalls, rules : Nat]]
    /\ acts \in Nat
    /\ cause \in [Firewalls -> SUBSET {"patched", "met", "lost", "ignored"}]
    /\ declined \in [Firewalls -> SUBSET Nodes]

\* Nothing of f is under way.
Settled(f) ==
    /\ \A a \in Actions : asked[f][a] = 0 /\ job[f][a] \in {"unknown", "ended", "failed"}
    /\ CommandsOf(f) = {}

\* What the status of a firewall says once nothing of it is under way, unless it was
\* patched or something of it was lost since the last apply began: active, that each of
\* its nodes that can, and did not refuse, enforces its rules, or another firewall's
\* which took the table over; failed, that one of its nodes cannot, or refused;
\* applying, that it was applied again while the id of a job was known, and nothing
\* came of that, or that the job found no node. Of the nodes it says nothing when that
\* apply met commands of the one before.
EnforcedHasCause ==
    \A f \in Firewalls :
        LET unable == Broken \union declined[f]
            alone == "met" \notin cause[f]
        IN  Settled(f) /\ Living(f) /\ cause[f] \intersect {"patched", "lost"} = {} =>
            /\ fw[f].status = "active" /\ alone =>
                /\ ~ fw[f].nodes \subseteq unable
                /\ \A n \in fw[f].nodes \ unable : \E t \in table[n] : t.fw = f => t.rules = fw[f].rules
            /\ fw[f].status = "failed" /\ alone => fw[f].nodes \intersect unable /= {}
            /\ fw[f].status = "applying" => "ignored" \in cause[f] \/ fw[f].nodes = {}
=============================================================================
