---------------------------- MODULE MCDashboard ----------------------------
(***************************************************************************)
(* Two pages of the dashboard that share nothing: that of a deployment,    *)
(* with what it shows, and the builder. TLC explores each of them alone,   *)
(* the other staying as it began.                                          *)
(***************************************************************************)
EXTENDS DeploymentPage, Builder

VARIABLE page

dashboardVars == <<page, vars, builderVars>>

DashboardInit ==
    /\ page \in {"deployment", "builder"}
    /\ Init /\ (page = "builder" => watcher = "page")
    /\ BuilderInit

DashboardNext ==
    /\ UNCHANGED page
    /\ \/ page = "deployment" /\ Next /\ UNCHANGED builderVars
       \/ page = "builder" /\ BuilderNext /\ UNCHANGED <<pipelineVars, pageVars>>

DashboardSpec == DashboardInit /\ [][DashboardNext]_dashboardVars

\* YamlKeepsCanvas, looked at where the canvas moves: the text beside the canvas
\* (stateToYaml), with its lists indented, gives a canvas of the same blueprint.
YamlKeepsDrawing == page = "builder" => YamlKeepsCanvas

=============================================================================
