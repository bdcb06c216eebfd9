--------------------------- MODULE CommandContract ---------------------------
(***************************************************************************)
(* What the control plane and a node promise one another about signed      *)
(* commands, with no rows, polls or reports in it:                         *)
(*                                                                         *)
(*   - a command is started at most once, and only after it was sealed     *)
(*     (signed with the key of the node);                                  *)
(*   - a command ends once, with one verdict, and a command the node       *)
(*     refuses is never started;                                           *)
(*   - the record the control plane keeps of a command never says more     *)
(*     than what has happened to it on the node.  It may lag behind, and   *)
(*     it may go back to something that was true earlier.                  *)
(*                                                                         *)
(* A command may also be forgotten: nothing here obliges a step to happen. *)
(***************************************************************************)

CONSTANT Commands    \* the commands of one node

VARIABLES
    stage,     \* stage[c]: where c stands in its life
    seal,      \* seal[c]: c carries a valid signature
    verdict,   \* verdict[c]: how c ended
    record     \* record[c]: what the control plane says of c

cvars == <<stage, seal, verdict, record>>

Stages   == {"unknown", "issued", "started", "ended"}
Verdicts == {"none", "succeeded", "failed", "timed_out", "refused"}
Records  == {"none", "queued", "accepted", "running", "succeeded", "failed",
             "timed_out"}

\* What the record of c may come to say: the statuses that have been true.
Happened(c) ==
    {s \in Records :
        \/ s = "accepted"  /\ stage[c] # "unknown"
        \/ s = "running"   /\ stage[c] \in {"started", "ended"}
                           /\ verdict[c] # "refused"
        \/ s = "failed"    /\ verdict[c] \in {"failed", "refused"}
        \/ s = "succeeded" /\ verdict[c] = "succeeded"
        \/ s = "timed_out" /\ verdict[c] = "timed_out"}

CInit ==
    /\ stage = [c \in Commands |-> "unknown"]
    /\ seal = [c \in Commands |-> FALSE]
    /\ verdict = [c \in Commands |-> "none"]
    /\ record = [c \in Commands |-> "none"]

Issue(c) ==
    /\ stage[c] = "unknown"
    /\ stage' = [stage EXCEPT ![c] = "issued"]
    /\ record' = [record EXCEPT ![c] = "queued"]
    /\ UNCHANGED <<seal, verdict>>

Seal(c) ==
    /\ stage[c] # "unknown"
    /\ seal' = [seal EXCEPT ![c] = TRUE]
    /\ UNCHANGED <<stage, verdict, record>>

Start(c) ==
    /\ stage[c] = "issued"
    /\ seal[c]
    /\ stage' = [stage EXCEPT ![c] = "started"]
    /\ UNCHANGED <<seal, verdict, record>>

Refuse(c) ==
    /\ stage[c] = "issued"
    /\ stage' = [stage EXCEPT ![c] = "ended"]
    /\ verdict' = [verdict EXCEPT ![c] = "refused"]
    /\ UNCHANGED <<seal, record>>

End(c, v) ==
    /\ stage[c] = "started"
    /\ stage' = [stage EXCEPT ![c] = "ended"]
    /\ verdict' = [verdict EXCEPT ![c] = v]
    /\ UNCHANGED <<seal, record>>

\* The control plane learns something about some of the commands.
Learn ==
    /\ record' \in [Commands -> Records]
    /\ \A c \in Commands : record'[c] # record[c] => record'[c] \in Happened(c)
    /\ UNCHANGED <<stage, seal, verdict>>

CNext ==
    \/ \E c \in Commands :
          \/ Issue(c)
          \/ Seal(c)
          \/ Start(c)
          \/ Refuse(c)
          \/ \E v \in {"succeeded", "failed", "timed_out"} : End(c, v)
    \/ Learn

CSpec == CInit /\ [][CNext]_cvars

=============================================================================
