------------------------------- MODULE Access -------------------------------
(***************************************************************************)
(* What one person may do: plugins/auth.ts and lib/auth.ts say who asks,   *)
(* lib/rbac.ts and shared/rbac.ts what the roles of that person allow, and *)
(* routes/organizations.ts, workspaces.ts, tokens.ts, admin.ts and auth.ts *)
(* change them.                                                            *)
(*                                                                         *)
(* The role in a workspace is the greatest that four places give, and a    *)
(* request reads them one after the other, while others write them. A      *)
(* write of another request is one step here: its own checks can only      *)
(* refuse it (module Members has those of the members).                    *)
(***************************************************************************)
EXTENDS Integers, FiniteSets

CONSTANTS
    Teams,          \* teams of the organization of the workspace
    MaxTurns        \* bound on writes of others and on ends of a session

ASSUME AccessAssumption ==
    MaxTurns \in Nat /\ {"organization", "workspace"} \intersect Teams = {}

None == "none"
OrgRoles == {None, "member", "admin", "owner"}
Roles == {None, "viewer", "developer", "admin", "owner"}
Needs == {"view", "write", "administer", "own"}

VARIABLES
    account,    \* session, API token and platform flag of the person
    place,      \* roles in the organization and in the workspace; is it suspended
    team,       \* team[t]: is it live, is the person on it, its grant on the workspace
    ask,        \* the request, and history of what held since it began
    turns       \* how many turns there were

accessVars == <<account, place, team, ask, turns>>

-----------------------------------------------------------------------------
RoleRank(r) == CASE r = None -> 0 [] r = "viewer" -> 1 [] r = "developer" -> 2
                 [] r = "admin" -> 3 [] r = "owner" -> 4

OrgRank(r) == CASE r = None -> -1 [] r = "member" -> 0 [] r = "admin" -> 1 [] r = "owner" -> 2

\* Mutant: the last place that gives a role decides.
LastRole(a, b) == IF b = None THEN a ELSE b

MaxRole(a, b) == IF RoleRank(a) >= RoleRank(b) THEN a ELSE b

\* The permissions fall into four classes, each role having one more than the last.
RolePermissions(r) ==
    CASE r = None -> {}
      [] r = "viewer" -> {"view"}
      [] r = "developer" -> {"view", "write"}
      [] r = "admin" -> {"view", "write", "administer"}
      [] r = "owner" -> Needs

\* Of the roles in the organization only two count in its workspaces.
FromOrg(r) == IF r \in {"owner", "admin"} THEN r ELSE None

Grants(ts) == {ts[t].grant : t \in {t \in Teams : ts[t].on}}

\* What the person's role is at one moment, all places taken together.
Standing(acc, pl, ts) ==
    IF acc.platform THEN "owner"
    ELSE CHOOSE r \in Roles :
            LET given == {FromOrg(pl.org), pl.workspace} \cup Grants(ts) IN
            /\ r \in given
            /\ \A s \in given : RoleRank(s) <= RoleRank(r)

OrgStanding(acc, pl) == IF acc.platform THEN "owner" ELSE pl.org

NoAsk == [at |-> "none", scope |-> "workspace", need |-> "view", carries |-> {}, admin |-> FALSE,
          role |-> None, suspended |-> FALSE, moments |-> {}, rose |-> FALSE, fell |-> FALSE]

\* The person may belong to the organization, to a team of it, and have made the workspace.
AccessInit ==
    /\ \E o \in {None, "member"}, w \in {None, "admin"}, on \in BOOLEAN, c \in {None, "live"} :
        /\ on => o = "member"
        /\ place = [org |-> o, workspace |-> w, suspended |-> FALSE]
        /\ team = [t \in Teams |-> [live |-> on, on |-> on, grant |-> IF on THEN "developer" ELSE None]]
        /\ account = [cookie |-> c, bearer |-> None, platform |-> FALSE]
    /\ ask = NoAsk
    /\ turns = 0

-----------------------------------------------------------------------------
(* What the others write. A request under way takes note of what held. *)

Weight(pl, teams, t) ==
    IF t = "organization" THEN RoleRank(FromOrg(pl.org))
    ELSE IF t = "workspace" THEN RoleRank(pl.workspace)
    ELSE IF teams[t].on THEN RoleRank(teams[t].grant) ELSE 0

SomeRises(pl, ts, pl2, ts2) ==
    \E s \in {"organization", "workspace"} \cup Teams : Weight(pl2, ts2, s) > Weight(pl, ts, s)

Moment(carries, acc, pl, ts) ==
    [known |-> \E c \in carries : acc[c] = "live", open |-> ~pl.suspended \/ acc.platform,
     workspace |-> Standing(acc, pl, ts), organization |-> OrgStanding(acc, pl)]

UnderWay == ask.at \notin {"none", "acted", "denied"}

Turn ==
    /\ turns < MaxTurns
    /\ turns' = turns + 1
    /\ ask' = IF ~UnderWay THEN ask
              ELSE [ask EXCEPT
                    !.moments = @ \cup {Moment(ask.carries, account', place', team')},
                    !.rose = @ \/ SomeRises(place, team, place', team') \/ account.platform /= account'.platform,
                    !.fell = @ \/ SomeRises(place', team', place, team)]

SetOrgRole ==
    /\ \E r \in OrgRoles \ {"owner", place.org} : place' = [place EXCEPT !.org = r]
    /\ UNCHANGED <<account, team>> /\ Turn

SetWorkspaceRole ==
    /\ \E r \in Roles \ {place.workspace} : place' = [place EXCEPT !.workspace = r]
    /\ UNCHANGED <<account, team>> /\ Turn

\* The platform's administrators suspend a workspace and take that back.
SuspendWorkspace ==
    /\ place' = [place EXCEPT !.suspended = ~@]
    /\ UNCHANGED <<account, team>> /\ Turn

CreateTeam(t) ==
    /\ ~team[t].live /\ team[t] = [live |-> FALSE, on |-> FALSE, grant |-> None]
    /\ team' = [team EXCEPT ![t].live = TRUE]
    /\ UNCHANGED <<account, place>> /\ Turn

\* The rows of its members and its grants stay.
DeleteTeam(t) ==
    /\ team[t].live
    /\ team' = [team EXCEPT ![t].live = FALSE]
    /\ UNCHANGED <<account, place>> /\ Turn

\* Who is added belongs to the organization.
AddTeamMember(t) ==
    /\ team[t].live /\ ~team[t].on /\ place.org /= None
    /\ team' = [team EXCEPT ![t].on = TRUE]
    /\ UNCHANGED <<account, place>> /\ Turn

RemoveTeamMember(t) ==
    /\ team[t].live /\ team[t].on
    /\ team' = [team EXCEPT ![t].on = FALSE]
    /\ UNCHANGED <<account, place>> /\ Turn

\* Also the end of a grant: None.
GrantWorkspace(t) ==
    /\ team[t].live
    /\ \E r \in Roles \ {team[t].grant} : team' = [team EXCEPT ![t].grant = r]
    /\ UNCHANGED <<account, place>> /\ Turn

-----------------------------------------------------------------------------
(* Sessions and tokens. *)

\* A login makes the person an administrator of the platform when the allowlist has
\* the address, and never takes that away.
Login ==
    /\ account.cookie = None
    /\ \E listed \in BOOLEAN :
        account' = [account EXCEPT !.cookie = "live", !.platform = @ \/ listed]
    /\ UNCHANGED <<place, team>> /\ Turn

\* A logout, or thirty days.
SessionEnds ==
    /\ account.cookie = "live"
    /\ account' = [account EXCEPT !.cookie = "ended"]
    /\ UNCHANGED <<place, team>> /\ Turn

CreateToken ==
    /\ account.bearer = None /\ account.cookie = "live" /\ (place.suspended => account.platform)
    /\ "write" \in RolePermissions(Standing(account, place, team))
    /\ account' = [account EXCEPT !.bearer = "live"]
    /\ UNCHANGED <<place, team>> /\ Turn

\* Revoked, or past its date.
TokenEnds ==
    /\ account.bearer = "live"
    /\ account' = [account EXCEPT !.bearer = "ended"]
    /\ UNCHANGED <<place, team>> /\ Turn

-----------------------------------------------------------------------------
(* One request. *)

Still == UNCHANGED <<account, place, team, turns>>

AskGoes(to) == ask' = [ask EXCEPT !.at = to]

Ask ==
    /\ ask.at = "none"
    /\ \E scope \in {"workspace", "organization"}, carries \in SUBSET {c \in {"cookie", "bearer"} : account[c] /= None} :
       \E need \in IF scope = "workspace" THEN Needs ELSE OrgRoles \ {None} :
        ask' = [NoAsk EXCEPT !.at = "cookie", !.scope = scope, !.carries = carries, !.need = need,
                             !.moments = {Moment(carries, account, place, team)}]
    /\ Still

\* The cookie first; the token counts when no session does.
Resolve(c, else) ==
    /\ ask.at = c
    /\ ask' = IF c \in ask.carries /\ account[c] = "live"
              THEN [ask EXCEPT !.at = ask.scope, !.admin = account.platform]
              ELSE [ask EXCEPT !.at = else]
    /\ Still

ResolveSession == Resolve("cookie", "bearer")
ResolveToken == Resolve("bearer", "unauthorized")

\* requireUser
Unauthorized == ask.at = "unauthorized" /\ AskGoes("denied") /\ Still

\* A platform administrator owns every workspace, a suspended one too.
ReadWorkspace ==
    /\ ask.at = "workspace"
    /\ IF ask.admin THEN ask' = [ask EXCEPT !.at = "permission", !.role = "owner"]
       ELSE ask' = [ask EXCEPT !.at = "orgMember", !.suspended = place.suspended]
    /\ Still

ReadOrgMember ==
    /\ ask.at = "orgMember"
    /\ ask' = [ask EXCEPT !.at = "wsMember", !.role = MaxRole(@, FromOrg(place.org))]
    /\ Still

ReadWorkspaceMember ==
    /\ ask.at = "wsMember"
    /\ ask' = [ask EXCEPT !.at = "grants", !.role = MaxRole(@, place.workspace)]
    /\ Still

\* The greatest of the grants, in whatever order they come.
ReadGrants ==
    LET best == CHOOSE r \in Grants(team) \cup {None} : \A s \in Grants(team) : RoleRank(s) <= RoleRank(r)
        role == MaxRole(ask.role, best)
    IN
    /\ ask.at = "grants"
    /\ ask' = [ask EXCEPT !.role = role, !.at = IF role = None \/ ask.suspended THEN "denied" ELSE "permission"]
    /\ Still

AssertPermission ==
    /\ ask.at = "permission"
    /\ AskGoes(IF ask.need \in RolePermissions(ask.role) THEN "acted" ELSE "denied")
    /\ Still

\* resolveOrgRole and requireOrgRole
RequireOrgRole ==
    LET role == IF ask.admin THEN "owner" ELSE place.org IN
    /\ ask.at = "organization"
    /\ ask' = [ask EXCEPT !.at = IF OrgRank(role) >= OrgRank(ask.need) THEN "acted" ELSE "denied"]
    /\ Still

-----------------------------------------------------------------------------
AccessNext ==
    \/ SetOrgRole \/ SetWorkspaceRole \/ SuspendWorkspace
    \/ \E t \in Teams : CreateTeam(t) \/ DeleteTeam(t) \/ AddTeamMember(t) \/ RemoveTeamMember(t) \/ GrantWorkspace(t)
    \/ Login \/ SessionEnds \/ CreateToken \/ TokenEnds
    \/ Ask \/ ResolveSession \/ ResolveToken \/ Unauthorized
    \/ ReadWorkspace \/ ReadOrgMember \/ ReadWorkspaceMember \/ ReadGrants \/ AssertPermission \/ RequireOrgRole

AccessSpec == AccessInit /\ [][AccessNext]_accessVars

-----------------------------------------------------------------------------
(* Properties *)

AccessTypeOK ==
    /\ account \in [cookie : {None, "live", "ended"}, bearer : {None, "live", "ended"}, platform : BOOLEAN]
    /\ place \in [org : OrgRoles, workspace : Roles, suspended : BOOLEAN]
    /\ team \in [Teams -> [live : BOOLEAN, on : BOOLEAN, grant : Roles]]
    /\ ask.role \in Roles /\ ask.need \in Needs \cup OrgRoles
    /\ turns \in 0 .. MaxTurns

\* A request that acts was signed in at a moment, and had a role that sufficed at a moment. One
\* that is turned away lacked that, or found the workspace suspended, at a moment, unless one
\* place came to give more and another to give less while it was under way.
AccessHasCause ==
    LET suffices(m) == IF ask.scope = "workspace" THEN ask.need \in RolePermissions(m.workspace)
                       ELSE OrgRank(m.organization) >= OrgRank(ask.need)
    IN
    /\ ask.at = "acted" =>
        /\ \E m \in ask.moments : m.known
        /\ \E m \in ask.moments : suffices(m)
        /\ ask.scope = "workspace" => \E m \in ask.moments : m.open
    /\ ask.at = "denied" =>
        \/ ask.rose /\ ask.fell
        \/ \E m \in ask.moments : ~m.known \/ ~suffices(m) \/ (ask.scope = "workspace" /\ ~m.open)
=============================================================================
