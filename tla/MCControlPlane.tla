--------------------------- MODULE MCControlPlane ---------------------------
(***************************************************************************)
(* Eleven parts of the platform that share no row: what creates deploys,   *)
(* firewalls, blueprints, domains, the containers and the jobs of a node,  *)
(* the members of a workspace, what one person may do, secrets,            *)
(* installations of the GitHub App, and the code of releases. TLC explores *)
(* each of them alone, the others staying as they began.                   *)
(***************************************************************************)
EXTENDS Triggers, Firewalls, Blueprint, Domains, NodeContainers, Members,
        Secrets, Installations, NodeJobs, Releases, Access

VARIABLE part

partVars == <<part, faults, triggerVars, firewallVars, blueprintVars, domainVars, containerVars,
          memberVars, secretVars, installationVars, jobVars, releaseVars, accessVars>>

MCInit ==
    /\ part \in {"triggers", "firewalls", "blueprint", "domains", "containers", "members",
                 "secrets", "installations", "jobs", "releases", "access"}
    /\ faults = 0
    /\ TriggersInit /\ FirewallsInit /\ BlueprintInit /\ ContainersInit
    /\ DomainsInit /\ (part /= "domains" => \A h \in Hosts : ~resolves[h])
    /\ MembersInit /\ (part /= "members" => \A u \in People : member["organization"][u].role /= "member")
    /\ SecretsInit /\ InstallationsInit /\ JobsInit
    /\ ReleasesInit /\ (part /= "releases" => source = "git")
    /\ AccessInit /\ (part /= "access" => account.cookie = None /\ place.org = None /\ place.workspace = None)

MCNext ==
    /\ UNCHANGED part
    /\ \/ part = "triggers" /\ TriggersNext
          /\ UNCHANGED <<firewallVars, blueprintVars, domainVars, containerVars,
                         memberVars, secretVars, installationVars, jobVars, releaseVars, accessVars>>
       \/ part = "firewalls" /\ FirewallsNext
          /\ UNCHANGED <<triggerVars, blueprintVars, domainVars, containerVars,
                         memberVars, secretVars, installationVars, jobVars, releaseVars, accessVars>>
       \/ part = "blueprint" /\ BlueprintNext
          /\ UNCHANGED <<triggerVars, firewallVars, domainVars, containerVars,
                         memberVars, secretVars, installationVars, jobVars, releaseVars, accessVars>>
       \/ part = "domains" /\ DomainsNext
          /\ UNCHANGED <<triggerVars, firewallVars, blueprintVars, containerVars,
                         memberVars, secretVars, installationVars, jobVars, releaseVars, accessVars>>
       \/ part = "containers" /\ ContainersNext
          /\ UNCHANGED <<triggerVars, firewallVars, blueprintVars, domainVars,
                         memberVars, secretVars, installationVars, jobVars, releaseVars, accessVars>>
       \/ part = "members" /\ MembersNext
          /\ UNCHANGED <<faults, triggerVars, firewallVars, blueprintVars, domainVars,
                         containerVars, secretVars, installationVars, jobVars, releaseVars, accessVars>>
       \/ part = "secrets" /\ SecretsNext
          /\ UNCHANGED <<triggerVars, firewallVars, blueprintVars, domainVars,
                         containerVars, memberVars, installationVars, jobVars, releaseVars, accessVars>>
       \/ part = "installations" /\ InstallationsNext
          /\ UNCHANGED <<triggerVars, firewallVars, blueprintVars, domainVars,
                         containerVars, memberVars, secretVars, jobVars, releaseVars, accessVars>>
       \/ part = "jobs" /\ JobsNext
          /\ UNCHANGED <<triggerVars, firewallVars, blueprintVars, domainVars,
                         containerVars, memberVars, secretVars, installationVars, releaseVars, accessVars>>
       \/ part = "releases" /\ ReleasesNext
          /\ UNCHANGED <<triggerVars, firewallVars, blueprintVars, domainVars, containerVars,
                         memberVars, secretVars, installationVars, jobVars, accessVars>>
       \/ part = "access" /\ AccessNext
          /\ UNCHANGED <<faults, triggerVars, firewallVars, blueprintVars, domainVars,
                         containerVars, memberVars, secretVars, installationVars, jobVars, releaseVars>>

MCSpec == MCInit /\ [][MCNext]_partVars

\* Every variable of the part that moves has its type.
PartsTypeOK ==
    CASE part = "triggers" -> TriggersTypeOK
      [] part = "firewalls" -> FirewallsTypeOK
      [] part = "blueprint" -> BlueprintTypeOK
      [] part = "domains" -> DomainsTypeOK
      [] part = "containers" -> ContainersTypeOK
      [] part = "members" -> MembersTypeOK
      [] part = "secrets" -> SecretsTypeOK
      [] part = "installations" -> InstallationsTypeOK
      [] part = "jobs" -> JobsTypeOK
      [] part = "releases" -> ReleasesTypeOK
      [] part = "access" -> AccessTypeOK

\* Deliveries, pushes, firewalls and hosts differ in nothing: of each the one that is
\* chosen first is the first to be stored, begun, made or born.
First(S) == CHOOSE s \in S : TRUE
FirstComesFirst ==
    /\ at'[First(Deliveries)] = "idle" => \A d \in Deliveries : at'[d] = "idle"
    /\ at'[First(Pushes)] = "idle" => \A p \in Pushes : at'[p] = "idle"
    /\ fw'[First(Firewalls)].status = "none" => \A f \in Firewalls : fw'[f].status = "none"
    /\ born' = <<>> \/ born'[1] = First(Hosts)

=============================================================================
