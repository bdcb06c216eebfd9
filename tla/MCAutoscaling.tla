---------------------------- MODULE MCAutoscaling ----------------------------
(***************************************************************************)
(* Instances of Autoscaling for TLC.                                       *)
(***************************************************************************)
EXTENDS Autoscaling, TLC

\* Two policies without a count in common, and one that is disabled.
MCPolicies ==
    {[enabled |-> TRUE, min |-> 0, max |-> 1],
     [enabled |-> TRUE, min |-> 2, max |-> 2],
     [enabled |-> FALSE, min |-> 0, max |-> 1]}

\* No load, within the deadband, one and a half times the target.
MCObservations == {0, 19, 30}

MCTarget == 20

\* Requests are interchangeable, and fairness is of none of them: the one that is chosen
\* first sets the policy first.
FirstRequest == CHOOSE q \in Requests : TRUE
FirstComesFirst == put'[FirstRequest] = "idle" => \A q \in Requests : put'[q] = "idle"

=============================================================================
