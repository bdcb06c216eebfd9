------------------------------ MODULE Domains ------------------------------
(***************************************************************************)
(* The custom domains of one app that has a node: routes/domains.ts, the   *)
(* verification job of processors/domain.ts, and the two ways a route gets *)
(* into the node's Caddy: CONFIGURE_DOMAIN, which the job sends, and a     *)
(* deploy, which routes the oldest verified domain.                        *)
(*                                                                         *)
(* The container publishes another host port at every deploy. A deploy     *)
(* routes its domain there, when it is healthy; CONFIGURE_DOMAIN routes to *)
(* the port inside of the container, on the host. The node runs as many    *)
(* deploys at once as it is sent: one may replace the container of another *)
(* that is about to route to it.                                           *)
(***************************************************************************)
EXTENDS Integers, Sequences, FiniteSets, Faults

CONSTANTS
    Hosts, NoHost,  \* hostnames
    MAX_ATTEMPTS,   \* attempts of a verification
    MaxChecks,      \* bound on verifications
    MaxMoves        \* bound on requests, deploys, changes of DNS records and faults together

ASSUME DomainAssumption ==
    /\ NoHost \notin Hosts
    /\ MAX_ATTEMPTS \in Nat \ {0} /\ MaxChecks \in Nat \ {0}
    /\ MaxMoves \in Nat

Checks == 1..MaxChecks

VARIABLES
    domain,     \* domain[h]: Domain.status, "none" before it is added, "gone" when deleted
    born,       \* the hosts in the order of createdAt
    check,      \* check[h][j]: the j-th verification: where it stands, attempt, second run
    configures, \* the CONFIGURE_DOMAIN commands <<h, j, again>> on their way
    deploys,    \* the deploys: where each stands, and the domain in its specification
    port,       \* the host port of the container: the number of its deploy, 0 without one
    route,      \* route[h]: Caddy's route: -1 none, 0 the container's port, or a host port
    resolves,   \* resolves[h]: the DNS record points to the node
    \* history
    behind,     \* behind[h]: routed last by a deploy whose container was replaced by then
    unheeded,   \* unheeded[h]: the node has refused to configure h
    pointed,    \* pointed[h]: the record has once pointed to the node
    moves       \* requests, deploys, changes of DNS records and faults

domainVars == <<domain, born, check, configures, deploys, port, route, resolves,
                behind, unheeded, pointed, moves>>
dnsVars == <<resolves, pointed>>
nodeVars == <<deploys, port, route, behind, unheeded>>

Fresh(at) == [at |-> at, attempt |-> 0, again |-> FALSE]

DomainsInit ==
    /\ domain = [h \in Hosts |-> "none"]
    /\ born = <<>>
    /\ check = [h \in Hosts |-> [j \in Checks |-> Fresh("none")]]
    /\ configures = {}
    /\ deploys = <<>>
    /\ port = 0
    /\ route = [h \in Hosts |-> -1]
    /\ resolves \in [Hosts -> BOOLEAN]
    /\ behind = [h \in Hosts |-> FALSE]
    /\ unheeded = [h \in Hosts |-> FALSE]
    /\ pointed = resolves
    /\ moves = 0

MayCheck == Cardinality({c \in Hosts \X Checks : check[c[1]][c[2]].at /= "none"}) < MaxChecks
Move == moves < MaxMoves /\ moves' = moves + 1

Exists(h) == domain[h] \notin {"none", "gone"}

ChangeDns(h) ==
    /\ Move
    /\ resolves' = [resolves EXCEPT ![h] = ~@]
    /\ pointed' = [pointed EXCEPT ![h] = TRUE]
    /\ UNCHANGED <<domain, born, check, configures, nodeVars, faults>>

-----------------------------------------------------------------------------
(* Requests *)

CreateDomain(h) ==
    /\ domain[h] = "none" /\ MayCheck /\ Move
    /\ domain' = [domain EXCEPT ![h] = "pending"]
    /\ born' = Append(born, h)
    /\ check' = [check EXCEPT ![h][1].at = "asked"]
    /\ UNCHANGED <<configures, nodeVars, dnsVars, faults>>

AddDomainJob(h) ==
    /\ check[h][1].at = "asked"
    /\ check' = [check EXCEPT ![h][1].at = "waiting"]
    /\ UNCHANGED <<domain, born, configures, nodeVars, dnsVars, moves, faults>>

DomainRequestDies(h) ==
    /\ check[h][1].at = "asked" /\ Fault /\ Move
    /\ check' = [check EXCEPT ![h][1].at = "ended"]
    /\ UNCHANGED <<domain, born, configures, nodeVars, dnsVars>>

VerifyDomain(h) ==
    /\ Exists(h)
    /\ MayCheck /\ Move
    /\ \E j \in Checks \ {1} :
        /\ check[h][j].at = "none" /\ check[h][j - 1].at /= "none"
        /\ check' = [check EXCEPT ![h][j].at = "waiting"]
    /\ UNCHANGED <<domain, born, configures, nodeVars, dnsVars, faults>>

\* The row is deleted for good; the route stays on the node.
DeleteDomain(h) ==
    /\ Exists(h) /\ Move
    /\ domain' = [domain EXCEPT ![h] = "gone"]
    /\ UNCHANGED <<born, check, configures, nodeVars, dnsVars, faults>>

-----------------------------------------------------------------------------
(* The verification job. Writing a row that is gone throws and ends it. *)

StartCheck(h, j) ==
    /\ check[h][j].at = "waiting"
    /\ check' = [check EXCEPT ![h][j] = IF Exists(h) THEN [@ EXCEPT !.at = "checking"] ELSE Fresh("ended")]
    /\ domain' = [domain EXCEPT ![h] = IF Exists(h) THEN "verifying" ELSE @]
    /\ UNCHANGED <<born, configures, nodeVars, dnsVars, moves, faults>>

LastAttempt(c) == c.attempt + 1 >= MAX_ATTEMPTS

ResolveDomain(h, j) ==
    LET c == check[h][j]
        go(r) == check' = [check EXCEPT ![h][j] = r]
        write(s) == domain' = [domain EXCEPT ![h] = IF Exists(h) THEN s ELSE @]
    IN
    /\ c.at = "checking"
    /\ \/ resolves[h] /\ Exists(h) /\ go([c EXCEPT !.at = "verified"]) /\ write("verified")
       \/ ~resolves[h] /\ LastAttempt(c) /\ go(Fresh("ended")) /\ write("failed")
       \/ ~resolves[h] /\ ~LastAttempt(c) /\ go([Fresh("waiting") EXCEPT !.attempt = c.attempt + 1]) /\ UNCHANGED domain
       \/ resolves[h] /\ ~Exists(h) /\ go(Fresh("ended")) /\ UNCHANGED domain
    /\ UNCHANGED <<born, configures, nodeVars, dnsVars, moves, faults>>

SendConfigure(h, j) ==
    /\ check[h][j].at = "verified"
    /\ check' = [check EXCEPT ![h][j].at = "sent"]
    /\ configures' = configures \union {<<h, j, check[h][j].again>>}
    /\ UNCHANGED <<domain, born, nodeVars, dnsVars, moves, faults>>

\* The domain is active before the node has the command.
Activate(h, j) ==
    /\ check[h][j].at = "sent"
    /\ check' = [check EXCEPT ![h][j] = Fresh("ended")]
    /\ domain' = [domain EXCEPT ![h] = IF Exists(h) THEN "active" ELSE @]
    /\ UNCHANGED <<born, configures, nodeVars, dnsVars, moves, faults>>

\* A stalled job is started once more.
DomainWorkerDies(h, j) ==
    LET c == check[h][j] IN
    /\ c.at \in {"checking", "verified", "sent"} /\ Fault /\ Move
    /\ check' = [check EXCEPT ![h][j] = IF c.again THEN Fresh("ended")
                                          ELSE [@ EXCEPT !.at = "waiting", !.again = TRUE]]
    /\ UNCHANGED <<domain, born, configures, nodeVars, dnsVars>>

-----------------------------------------------------------------------------
(* The node *)

ConfigureDomain(c) ==
    /\ configures' = configures \ {c}
    /\ route' = [route EXCEPT ![c[1]] = 0]
    /\ behind' = [behind EXCEPT ![c[1]] = FALSE]
    /\ UNCHANGED <<domain, born, check, deploys, port, unheeded, dnsVars, moves, faults>>

\* Claimed before it is signed. Nobody looks at the report.
RefuseConfigure(c) ==
    /\ configures' = configures \ {c}
    /\ unheeded' = [unheeded EXCEPT ![c[1]] = TRUE]
    /\ UNCHANGED <<domain, born, check, deploys, port, route, behind, dnsVars, moves, faults>>

LoseConfigure(c) ==
    /\ Fault /\ Move
    /\ configures' = configures \ {c}
    /\ UNCHANGED <<domain, born, check, nodeVars, dnsVars>>

\* The oldest of some hosts, or none.
Oldest(host, hs) ==
    \/ host = NoHost /\ \A i \in DOMAIN born : born[i] \notin hs
    \/ \E i \in DOMAIN born : host = born[i] /\ host \in hs /\ \A k \in 1 .. i - 1 : born[k] \notin hs

BeginDeploy(host) ==
    /\ Move
    /\ deploys' = Append(deploys, [at |-> "sent", host |-> host])
    /\ UNCHANGED <<domain, born, check, configures, port, route, behind, unheeded, dnsVars, faults>>

\* Mutant: the oldest domain is deployed, whatever its status.
PickOldest ==
    \E host \in Hosts \union {NoHost} : Oldest(host, {h \in Hosts : Exists(h)}) /\ BeginDeploy(host)

\* The specification of a deploy names the oldest domain that is verified or active.
PickDomain ==
    \E host \in Hosts \union {NoHost} :
        Oldest(host, {h \in Hosts : domain[h] \in {"verified", "active"}}) /\ BeginDeploy(host)

\* A rollback sends the specification of an earlier deploy, domain and all.
PickSnapshot == \E d \in DOMAIN deploys : BeginDeploy(deploys[d].host)

DeployMoves(d, from, to) ==
    /\ deploys[d].at = from
    /\ deploys' = [deploys EXCEPT ![d].at = to]
    /\ UNCHANGED <<domain, born, check, configures, unheeded, dnsVars, moves, faults>>

\* The new container takes the name of the one before, which is removed.
RunContainer(d) ==
    /\ DeployMoves(d, "sent", "running")
    /\ port' = d
    /\ UNCHANGED <<route, behind>>

\* Only a container that is there answers.
FindHealthy(d) ==
    /\ port = d
    /\ DeployMoves(d, "running", "healthy")
    /\ UNCHANGED <<port, route, behind>>

\* It gets its route, be it there or not by now.
RouteDeploy(d) ==
    LET host == deploys[d].host IN
    /\ DeployMoves(d, "healthy", "routed")
    /\ route' = [h \in Hosts |-> IF h = host THEN d ELSE route[h]]
    /\ behind' = [h \in Hosts |-> IF h = host THEN port /= d ELSE behind[h]]
    /\ UNCHANGED port

\* Refused, not built, not healthy, broken off or lost; or Caddy did not take the route.
DeployFails(d) ==
    /\ \E from \in {"sent", "running", "healthy"} : DeployMoves(d, from, "failed")
    /\ UNCHANGED <<port, route, behind>>

-----------------------------------------------------------------------------
DomainsNext ==
    \/ \E h \in Hosts :
        \/ ChangeDns(h) \/ CreateDomain(h) \/ AddDomainJob(h) \/ DomainRequestDies(h)
        \/ VerifyDomain(h) \/ DeleteDomain(h)
        \/ \E j \in Checks :
            \/ StartCheck(h, j) \/ ResolveDomain(h, j) \/ SendConfigure(h, j)
            \/ Activate(h, j) \/ DomainWorkerDies(h, j)
    \/ \E c \in configures : ConfigureDomain(c) \/ RefuseConfigure(c) \/ LoseConfigure(c)
    \/ PickDomain \/ PickSnapshot
    \/ \E d \in DOMAIN deploys :
        RunContainer(d) \/ FindHealthy(d) \/ RouteDeploy(d) \/ DeployFails(d)

DomainsSpec == DomainsInit /\ faults = 0 /\ [][DomainsNext]_<<domainVars, faults>>

-----------------------------------------------------------------------------
(* Properties *)

DomainsTypeOK ==
    /\ domain \in [Hosts -> {"none", "pending", "verifying", "verified", "active", "failed", "gone"}]
    /\ born \in Seq(Hosts)
    /\ check \in [Hosts -> [Checks ->
        [at : {"none", "asked", "waiting", "checking", "verified", "sent", "ended"},
         attempt : 0 .. MAX_ATTEMPTS - 1, again : BOOLEAN]]]
    /\ configures \subseteq Hosts \X Checks \X BOOLEAN
    /\ deploys \in Seq([at : {"sent", "running", "healthy", "routed", "failed"}, host : Hosts \union {NoHost}])
    /\ port \in Nat /\ route \in [Hosts -> Nat \union {-1}]
    /\ resolves \in [Hosts -> BOOLEAN]
    /\ behind \in [Hosts -> BOOLEAN] /\ unheeded \in [Hosts -> BOOLEAN] /\ pointed \in [Hosts -> BOOLEAN]
    /\ moves \in Nat

DomainAtRest(h) ==
    /\ \A j \in Checks : check[h][j].at \in {"none", "ended"}
    /\ \A c \in configures : c[1] /= h
    /\ \A d \in DOMAIN deploys : deploys[d].at \in {"routed", "failed"}

\* The deploy that brought the container has routed h.
Routed(h) == port > 0 /\ deploys[port] = [at |-> "routed", host |-> h]

\* A host is routed only if its record once pointed to the node. When nothing of a
\* domain is under way and nothing failed, it is active or failed; an active one has
\* a route, unless the node refused it; and if the deploy of the container has routed it,
\* the route leads to that container, unless a command came later, which routes to the
\* port inside, or an older deploy did, which routes to the container that is gone.
RoutesLead ==
    \A h \in Hosts :
        /\ route[h] >= 0 => pointed[h]
        /\ DomainAtRest(h) /\ Exists(h) /\ faults = 0 =>
            /\ domain[h] \in {"active", "failed"}
            /\ domain[h] = "active" =>
                /\ route[h] >= 0 \/ unheeded[h]
                /\ Routed(h) => route[h] \in {port, 0} \/ behind[h]
=============================================================================
