------------------------------ MODULE Members ------------------------------
(***************************************************************************)
(* Who belongs to an organization and to one workspace of it:              *)
(* routes/organizations.ts and routes/workspaces.ts.                       *)
(*                                                                         *)
(* A request reads the member it is about, counts the owners where the     *)
(* code guards the last one, and writes: three statements, each of which   *)
(* sees what the others have committed. Who may ask is left out: an owner  *)
(* of the organization may ask all of it (lib/rbac.ts).                    *)
(***************************************************************************)
EXTENDS Integers, FiniteSets

CONSTANTS
    People,         \* users
    MaxRequests     \* bound on requests

ASSUME MemberAssumption == People /= {} /\ IsFiniteSet(People) /\ MaxRequests \in Nat

Requests == 1 .. MaxRequests
Scopes == {"organization", "workspace"}
NoRole == "none"    \* of who is not a member

VARIABLES
    member,     \* member[s][u]: role of u in s, and how many rows u has had there
    request,    \* request[r]: the r-th request and where it stands
    raced       \* history: a request wrote a member of the workspace after another one
                \* had written one since it read

memberVars == <<member, request, raced>>

Founder == CHOOSE u \in People : TRUE

NoRequest == [at |-> "none", scope |-> "workspace", kind |-> "none", who |-> Founder,
              role |-> NoRole, row |-> 0, old |-> FALSE]

\* The organization has the one who created it, the workspace one of its members.
MembersInit ==
    /\ \E creator \in People, others \in {NoRole, "member"} :
        /\ creator /= Founder => others = "member"
        /\ member =
            [organization |-> [u \in People |-> IF u = Founder THEN [role |-> "owner", row |-> 1]
                                               ELSE [role |-> others, row |-> IF others = NoRole THEN 0 ELSE 1]],
             workspace |-> [u \in People |-> IF u = creator THEN [role |-> "owner", row |-> 1]
                                             ELSE [role |-> NoRole, row |-> 0]]]
    /\ request = [r \in Requests |-> NoRequest]
    /\ raced = FALSE

-----------------------------------------------------------------------------
Owners(s) == {u \in People : member[s][u].role = "owner"}

\* The roles a request may name: only a change in the workspace makes owners.
\* `viewer` stands for `developer`, too.
Invitable(s) == IF s = "workspace" THEN {"admin", "viewer"} ELSE {"admin", "member"}
Settable(s) == IF s = "workspace" THEN {"owner", "admin", "viewer"} ELSE {"admin", "member"}

BeginRequest(r) ==
    /\ request[r].at = "none" /\ \A q \in Requests : q < r => request[q].at /= "none"
    /\ \E s \in Scopes, k \in {"invite", "update", "remove"}, u \in People :
       \E role \in CASE k = "invite" -> Invitable(s) [] k = "update" -> Settable(s) [] k = "remove" -> {NoRole} :
        /\ request' = [request EXCEPT ![r] = [NoRequest EXCEPT
                        !.at = "begun", !.scope = s, !.kind = k, !.who = u, !.role = role]]
    /\ UNCHANGED <<member, raced>>

Answer(r) == request' = [request EXCEPT ![r] = [NoRequest EXCEPT !.at = "answered"]]

\* Conflict, not found, or an owner of the organization, whose role stays.
ReadMember(r) ==
    LET q == request[r]
        m == member[q.scope][q.who]
        refused == IF q.kind = "invite" THEN m.role /= NoRole
                   ELSE \/ m.role = NoRole
                        \/ q.kind = "update" /\ q.scope = "organization" /\ m.role = "owner"
        guarded == q.kind /= "invite" /\ m.role = "owner" /\ q.role /= "owner"
    IN
    /\ q.at = "begun"
    /\ IF refused THEN Answer(r)
       ELSE request' = [request EXCEPT ![r].at = IF guarded THEN "count" ELSE "write", ![r].row = m.row]
    /\ UNCHANGED <<member, raced>>

\* Mutant: whoever is a member counts.
CountMembers(r) ==
    /\ request[r].at = "count"
    /\ IF Cardinality({u \in People : member[request[r].scope][u].role /= NoRole}) <= 1 THEN Answer(r)
       ELSE request' = [request EXCEPT ![r].at = "write"]
    /\ UNCHANGED <<member, raced>>

\* Guard: don't allow removing the last owner.
CountOwners(r) ==
    /\ request[r].at = "count"
    /\ IF Cardinality(Owners(request[r].scope)) <= 1 THEN Answer(r)
       ELSE request' = [request EXCEPT ![r].at = "write"]
    /\ UNCHANGED <<member, raced>>

\* The row may be gone, or there already: the statement throws.
WriteMember(r) ==
    LET q == request[r]
        m == member[q.scope][q.who]
        throws == IF q.kind = "invite" THEN m.role /= NoRole ELSE m.role = NoRole \/ m.row /= q.row
        age(s) == [p \in Requests |->
                    IF s[p].at \in {"count", "write"} /\ s[p].scope = "workspace" THEN [s[p] EXCEPT !.old = TRUE] ELSE s[p]]
        answered == [request EXCEPT ![r] = [NoRequest EXCEPT !.at = "answered"]]
    IN
    /\ q.at = "write"
    /\ IF throws THEN Answer(r) /\ UNCHANGED <<member, raced>>
       ELSE /\ member' = [member EXCEPT ![q.scope][q.who] =
                    [role |-> q.role, row |-> IF q.kind = "invite" THEN @.row + 1 ELSE @.row]]
            /\ request' = IF q.scope = "workspace" THEN age(answered) ELSE answered
            /\ raced' = (raced \/ q.old)

-----------------------------------------------------------------------------
MembersNext ==
    \E r \in Requests : BeginRequest(r) \/ ReadMember(r) \/ CountOwners(r) \/ WriteMember(r)

MembersSpec == MembersInit /\ [][MembersNext]_memberVars

-----------------------------------------------------------------------------
(* Properties *)

MembersTypeOK ==
    /\ member \in [Scopes -> [People -> [role : {NoRole, "owner", "admin", "member", "viewer"}, row : Nat]]]
    /\ request \in [Requests -> [at : {"none", "begun", "count", "write", "answered"},
                               scope : Scopes, kind : {"none", "invite", "update", "remove"}, who : People,
                               role : {NoRole, "owner", "admin", "member", "viewer"},
                               row : Nat, old : BOOLEAN]]
    /\ raced \in BOOLEAN

\* The organization has an owner, whatever requests overlap. The workspace has one
\* of its own as long as no request wrote a member of it that it had read before
\* another one's write.
OwnersRemain ==
    /\ Owners("organization") /= {}
    /\ ~raced => Owners("workspace") /= {}
=============================================================================
