------------------------- MODULE ControlPlaneProofs -------------------------
(***************************************************************************)
(* What the parts of MCControlPlane that belong to the API, and the        *)
(* builder of the dashboard, promise; proved of each part alone for every  *)
(* value of its constants. At the end these results and those of           *)
(* NodeProofs are put together: what MCControlPlane and MCDashboard        *)
(* promise while one of their parts moves.                                 *)
(***************************************************************************)
EXTENDS MCControlPlane, MCDashboard, NodeProofs, FiniteSetTheorems, TLAPS

-----------------------------------------------------------------------------
(* Secrets. Between the read and the next start a job holds the value of   *)
(* the rows that counted when it read them, and those rows.                *)

ResolvedInv ==
    env.at /= "idle" =>
        \/ env.value = LastWritten(env.rows)
        \/ \E r \in env.rows : r.key /= env.key
        \/ \E r \in env.rows : r.value = env.value /\ env.rows /= {r}

SecretInv == SecretsTypeOK /\ ResolvedInv /\ LastValueReachesApp

\* Of one row the value is what was written last; of none it is none.
LEMMA OneRowIsLast ==
    /\ LastWritten({}) = NoValue
    /\ \A r \in SecretRows : LastWritten({r}) = r.value
<1>1. LastWritten({}) = NoValue
  BY DEF LastWritten
<1>2. ASSUME NEW r \in SecretRows PROVE LastWritten({r}) = r.value
  <2>1. (CHOOSE p \in {r} : \A q \in {r} : q.value <= p.value) = r
    BY DEF SecretRows
  <2> QED
    BY <2>1 DEF LastWritten
<1> QED
  BY <1>1, <1>2

\* A row that is written again is a row.
LEMMA RowUpdated ==
    ASSUME NEW r \in SecretRows, NEW v \in Nat, NEW k \in EncryptionKeys
    PROVE  [r EXCEPT !.value = v, !.key = k] \in SecretRows
BY DEF SecretRows

\* A request that writes the secret, and a new key, leave the job what it read.
LEMMA SecretWriteKeeps ==
    ASSUME SecretInv,
           \/ \E s \in SecretScopes : AddRow(s)
           \/ \E r \in secrets : UpdateSecret(r) \/ DeleteSecret(r)
           \/ ReplaceKey
    PROVE  SecretInv'
<1> USE DEF SecretInv
<1>1. UNCHANGED env
  BY DEF AddRow, UpdateSecret, DeleteSecret, ReplaceKey
<1>2. ResolvedInv' /\ LastValueReachesApp'
  BY <1>1 DEF ResolvedInv, LastValueReachesApp
<1>3. secrets' \subseteq SecretRows /\ secretsKey' \in EncryptionKeys /\ writes' \in Nat
  <2>1. secrets \subseteq SecretRows /\ secretsKey \in EncryptionKeys /\ writes \in Nat
    BY DEF SecretsTypeOK
  <2>2. ASSUME NEW s \in SecretScopes, AddRow(s)
        PROVE  secrets' \subseteq SecretRows /\ secretsKey' = secretsKey /\ writes' \in Nat
    <3>1. [id |-> writes + 1, scope |-> s, value |-> writes + 1, key |-> secretsKey] \in SecretRows
      BY <2>1 DEF SecretRows
    <3> QED
      BY <2>1, <2>2, <3>1 DEF AddRow, Write
  <2>3. ASSUME NEW r \in secrets, UpdateSecret(r)
        PROVE  secrets' \subseteq SecretRows /\ secretsKey' = secretsKey /\ writes' \in Nat
    <3>1. [r EXCEPT !.value = writes + 1, !.key = secretsKey] \in SecretRows
      <4>1. r \in SecretRows /\ writes + 1 \in Nat /\ secretsKey \in EncryptionKeys
        BY <2>1
      <4> QED
        BY <4>1, RowUpdated, Zenon
    <3>2. /\ secrets' = (secrets \ {r}) \union {[r EXCEPT !.value = writes + 1, !.key = secretsKey]}
          /\ secretsKey' = secretsKey /\ writes' = writes + 1
      BY <2>3 DEF UpdateSecret, Write
    <3>3. writes + 1 \in Nat /\ \A u \in SecretRows : (secrets \ {r}) \union {u} \subseteq SecretRows
      BY <2>1
    <3> QED
      BY <3>1, <3>2, <3>3, Zenon
  <2>4. ASSUME NEW r \in secrets, DeleteSecret(r)
        PROVE  secrets' \subseteq SecretRows /\ secretsKey' = secretsKey /\ writes' \in Nat
    BY <2>1, <2>4 DEF DeleteSecret, Write
  <2>5. CASE ReplaceKey
    BY <2>1, <2>5 DEF ReplaceKey, EncryptionKeys
  <2> QED
    BY <2>1, <2>2, <2>3, <2>4, <2>5
<1> QED
  BY <1>1, <1>2, <1>3 DEF SecretsTypeOK

\* What a job takes of rows that can all be decrypted, and of which there are not
\* several, is the value written last.
LEMMA SecretResolveKeeps ==
    ASSUME SecretInv, ResolveEnv
    PROVE  SecretInv'
<1> USE DEF SecretInv
<1> DEFINE rs == IF Readable("app") /= {} THEN Readable("app") ELSE Readable("project")
<1>1. PICK r \in IF rs /= {} THEN rs ELSE {[value |-> NoValue]} :
          env' = [at |-> "resolved", value |-> r.value, key |-> secretsKey,
                  rows |-> Effective, later |-> Effective]
  BY DEF ResolveEnv, Resolved
<1>2. secrets \subseteq SecretRows /\ Effective \subseteq secrets /\ rs \subseteq secrets
  BY DEF SecretsTypeOK, Effective, Of, Readable
<1>3. r.value \in Nat
  <2>1. CASE rs /= {}
    BY <1>1, <1>2, <2>1 DEF SecretRows
  <2>2. CASE rs = {}
    BY <1>1, <2>2 DEF NoValue
  <2> QED
    BY <2>1, <2>2
<1>4. SecretsTypeOK'
  BY <1>1, <1>2, <1>3 DEF SecretsTypeOK, ResolveEnv
<1>5. ASSUME \A q \in Effective : q.key = secretsKey
      PROVE  r.value = LastWritten(Effective) \/ (r \in Effective /\ Effective /= {r})
  <2>1. rs = Effective
    BY <1>5 DEF Effective, Readable, Of
  <2>2. CASE Effective = {}
    BY <1>1, <2>1, <2>2, OneRowIsLast
  <2>3. CASE Effective /= {}
    <3>1. r \in Effective /\ r \in SecretRows
      BY <1>1, <1>2, <2>1, <2>3
    <3> QED
      BY <3>1, OneRowIsLast
  <2> QED
    BY <2>2, <2>3
<1>6. ResolvedInv'
  BY <1>1, <1>5 DEF ResolvedInv
<1> QED
  BY <1>1, <1>4, <1>6 DEF LastValueReachesApp

\* Of a command that goes out it is known what its job had read.
LEMMA SecretSendKeeps ==
    ASSUME SecretInv, SendEnv \/ ResolveAgain
    PROVE  SecretInv'
<1> USE DEF SecretInv
<1>1. Effective \subseteq SecretRows
  BY DEF Effective, Of, SecretsTypeOK
<1>2. CASE SendEnv
  <2>1. env' = [env EXCEPT !.at = "sent", !.later = Effective]
    BY <1>2 DEF SendEnv
  <2>2. SecretsTypeOK'
    BY <1>1, <1>2, <2>1 DEF SecretsTypeOK, SendEnv
  <2>3. /\ env'.value = env.value /\ env'.key = env.key /\ env'.rows = env.rows
        /\ env'.later = Effective /\ env.at = "resolved"
    BY <1>2, <2>1 DEF SecretsTypeOK, SendEnv
  <2>4. ResolvedInv' /\ LastValueReachesApp'
    BY <2>3 DEF ResolvedInv, LastValueReachesApp
  <2> QED
    BY <2>2, <2>4
<1>3. CASE ResolveAgain
  BY <1>3 DEF ResolveAgain, Building, ResolvedInv, LastValueReachesApp, SecretsTypeOK, NoValue, EncryptionKeys
<1> QED
  BY <1>2, <1>3

\* It holds of the secrets and of the containers that get them at every moment.
LEMMA SecretsKept == SecretsSpec => []SecretInv
<1>1. SecretsInit /\ faults = 0 => SecretInv
  BY DEF SecretsInit, SecretInv, SecretsTypeOK, ResolvedInv, LastValueReachesApp,
         Building, NoValue, EncryptionKeys
<1>2. SecretInv /\ [SecretsNext]_<<secretVars, faults>> => SecretInv'
  <2> SUFFICES ASSUME SecretInv, [SecretsNext]_<<secretVars, faults>> PROVE SecretInv'
    OBVIOUS
  <2>1. CASE SecretsNext
    <3>1. CASE \E s \in SecretScopes : SetSecret(s)
      BY <3>1, SecretWriteKeeps DEF SetSecret
    <3>2. CASE InjectSecrets
      BY <3>2, SecretWriteKeeps DEF InjectSecrets, SecretScopes
    <3>3. CASE ReplaceKey \/ \E r \in secrets : UpdateSecret(r) \/ DeleteSecret(r)
      BY <3>3, SecretWriteKeeps
    <3>4. CASE ResolveEnv \/ SendEnv \/ ResolveAgain
      BY <3>4, SecretResolveKeeps, SecretSendKeeps
    <3> QED
      BY <2>1, <3>1, <3>2, <3>3, <3>4 DEF SecretsNext
  <2>2. CASE UNCHANGED <<secretVars, faults>>
    BY <2>2 DEF secretVars, SecretInv, SecretsTypeOK, ResolvedInv, LastValueReachesApp
  <2> QED
    BY <2>1, <2>2
<1> QED
  BY <1>1, <1>2, PTL DEF SecretsSpec

\* A container is started with the value of a secret that was written last, whatever
\* requests, deploys and restarted jobs come between; the exceptions are a write while
\* the job was under way, a row under another key and a key added beside its row
\* (worker/src/lib/secrets.ts, routes/secrets.ts).
THEOREM LastValueArrives == SecretsSpec => []LastValueReachesApp
<1>1. SecretInv => LastValueReachesApp
  BY DEF SecretInv
<1> QED
  BY SecretsKept, <1>1, PTL

-----------------------------------------------------------------------------
(* Members. The organization keeps the owner it began with, and no other:  *)
(* no request names that role there. Of the workspace, a request that is   *)
(* about to write, and found nobody writing since it read, leaves another  *)
(* owner than the one it writes.                                           *)

OrganizationInv ==
    /\ \A u \in People : member["organization"][u].role = "owner" <=> u = Founder
    /\ \A r \in Requests : request[r].scope = "organization" =>
        /\ request[r].role /= "owner"
        /\ request[r].kind = "remove" => request[r].role = NoRole
        /\ request[r].at = "write" => request[r].who /= Founder

WorkspaceInv ==
    ~raced =>
        /\ Owners("workspace") /= {}
        /\ \A r \in Requests :
            /\ request[r].scope = "workspace" /\ request[r].at = "write"
            /\ ~request[r].old /\ request[r].role /= "owner"
            => Owners("workspace") \ {request[r].who} /= {}

MembersInv == MembersTypeOK /\ OrganizationInv /\ WorkspaceInv

RequestRows ==
    [at : {"none", "begun", "count", "write", "answered"}, scope : Scopes,
     kind : {"none", "invite", "update", "remove"}, who : People,
     role : {NoRole, "owner", "admin", "member", "viewer"}, row : Nat, old : BOOLEAN]

\* Of two owners one remains when a member is written.
LEMMA OwnerBeside ==
    ASSUME NEW s \in Scopes, MembersTypeOK, NEW u \in People, Cardinality(Owners(s)) > 1
    PROVE  Owners(s) \ {u} /= {}
<1>1. IsFiniteSet(Owners(s))
  BY MemberAssumption, FS_Subset DEF Owners
<1>2. Cardinality({u}) = 1 /\ IsFiniteSet({u})
  BY FS_Singleton
<1>3. Owners(s) \subseteq {u} => Cardinality(Owners(s)) <= 1
  BY <1>1, <1>2, FS_Subset
<1>4. Cardinality(Owners(s)) \in Nat
  BY <1>1, FS_CardinalityType
<1> QED
  BY <1>3, <1>4

\* One owner is one to the guard.
LEMMA FounderAlone ==
    ASSUME OrganizationInv
    PROVE  Owners("organization") = {Founder} /\ Cardinality(Owners("organization")) = 1
<1>1. Founder \in People
  BY MemberAssumption DEF Founder
<1>2. Owners("organization") = {Founder}
  BY <1>1 DEF OrganizationInv, Owners
<1> QED
  BY <1>2, FS_Singleton

\* A request that is answered says no more about any member.
LEMMA MembersAnswerKeeps ==
    ASSUME MembersInv, NEW r \in Requests, Answer(r), UNCHANGED <<member, raced>>
    PROVE  MembersInv'
<1> USE DEF MembersInv
<1> DEFINE answered == [NoRequest EXCEPT !.at = "answered"]
<1>1. answered \in RequestRows /\ answered.scope = "workspace" /\ answered.at = "answered"
  BY MemberAssumption DEF NoRequest, RequestRows, Founder, Scopes
<1>2. request' = [request EXCEPT ![r] = answered]
  BY DEF Answer
<1> HIDE DEF answered
<1>3. request \in [Requests -> RequestRows]
  BY DEF MembersTypeOK, RequestRows
<1>4. request' \in [Requests -> RequestRows] /\ request'[r] = answered
      /\ \A p \in Requests \ {r} : request'[p] = request[p]
  BY <1>1, <1>2, <1>3
<1>5. MembersTypeOK'
  BY <1>4 DEF MembersTypeOK, RequestRows
<1>6. OrganizationInv'
  BY <1>1, <1>4 DEF OrganizationInv
<1>7. Owners("workspace")' = Owners("workspace")
  BY DEF Owners
<1>8. WorkspaceInv'
  BY <1>1, <1>4, <1>7 DEF WorkspaceInv
<1> QED
  BY <1>5, <1>6, <1>8

\* A request that begins, reads or counts writes no member, and goes on to write only
\* where the invariant lets it.
LEMMA MembersReadKeeps ==
    ASSUME MembersInv, NEW r \in Requests, BeginRequest(r) \/ ReadMember(r) \/ CountOwners(r)
    PROVE  MembersInv'
<1> USE DEF MembersInv
<1>1. member' = member /\ raced' = raced /\ Owners("workspace")' = Owners("workspace")
  BY DEF BeginRequest, ReadMember, CountOwners, Owners
<1>2. Founder \in People
  BY MemberAssumption DEF Founder
<1>3. CASE BeginRequest(r)
  <2>1. PICK s \in Scopes, k \in {"invite", "update", "remove"}, u \in People :
          \E role \in CASE k = "invite" -> Invitable(s) [] k = "update" -> Settable(s) [] k = "remove" -> {NoRole} :
            request' = [request EXCEPT ![r] = [NoRequest EXCEPT
                        !.at = "begun", !.scope = s, !.kind = k, !.who = u, !.role = role]]
    BY <1>3 DEF BeginRequest
  <2>2. PICK role \in {NoRole, "owner", "admin", "member", "viewer"} :
            /\ s = "organization" => role /= "owner"
            /\ k = "remove" => role = NoRole
            /\ request' = [request EXCEPT ![r] = [NoRequest EXCEPT
                        !.at = "begun", !.scope = s, !.kind = k, !.who = u, !.role = role]]
    BY <2>1 DEF Invitable, Settable, Scopes, NoRole
  <2>3. MembersTypeOK'
    BY <1>1, <1>2, <2>2 DEF MembersTypeOK, NoRequest, Scopes
  <2>4. OrganizationInv'
    BY <1>1, <2>2 DEF OrganizationInv, MembersTypeOK, NoRequest
  <2>5. WorkspaceInv'
    BY <1>1, <2>2 DEF WorkspaceInv, MembersTypeOK, NoRequest
  <2> QED
    BY <2>3, <2>4, <2>5
<1>4. CASE ReadMember(r)
  <2> DEFINE q == request[r]
             m == member[q.scope][q.who]
             refused == IF q.kind = "invite" THEN m.role /= NoRole
                        ELSE \/ m.role = NoRole
                             \/ q.kind = "update" /\ q.scope = "organization" /\ m.role = "owner"
             guarded == q.kind /= "invite" /\ m.role = "owner" /\ q.role /= "owner"
  <2>1. CASE refused
    <3>1. Answer(r)
      BY <1>4, <2>1 DEF ReadMember
    <3> QED
      BY <1>1, <3>1, MembersAnswerKeeps
  <2>2. CASE ~refused
    <3>1. q.at = "begun" /\ request' = [request EXCEPT ![r].at = IF guarded THEN "count" ELSE "write", ![r].row = m.row]
      BY <1>4, <2>2 DEF ReadMember
    <3>2. q.scope \in Scopes /\ q.who \in People /\ m.row \in Nat
      BY DEF MembersTypeOK
    <3>3. MembersTypeOK'
      <4>1. q \in RequestRows
        BY DEF MembersTypeOK, RequestRows
      <4> DEFINE to == IF guarded THEN "count" ELSE "write"
      <4>2. [q EXCEPT !.at = to, !.row = m.row] \in RequestRows
        BY <3>2, <4>1 DEF RequestRows
      <4>3. request' \in [Requests -> RequestRows]
        <5>1. request' = [request EXCEPT ![r].at = to, ![r].row = m.row]
          BY <3>1
        <5> HIDE DEF to, m
        <5>2. request \in [Requests -> RequestRows]
          BY DEF MembersTypeOK, RequestRows
        <5>3. request' = [request EXCEPT ![r] = [q EXCEPT !.at = to, !.row = m.row]]
          BY <5>1, <5>2
        <5> QED
          BY <4>2, <5>2, <5>3
      <4> QED
        BY <1>1, <4>3 DEF MembersTypeOK, RequestRows
    <3>4. q.scope = "organization" /\ ~guarded => q.who /= Founder
      BY <1>2, <2>2 DEF OrganizationInv, MembersTypeOK, NoRole
    <3>5. /\ \A p \in Requests : /\ request'[p].scope = request[p].scope /\ request'[p].role = request[p].role
                               /\ request'[p].kind = request[p].kind /\ request'[p].who = request[p].who
                               /\ request'[p].old = request[p].old
          /\ \A p \in Requests \ {r} : request'[p].at = request[p].at
          /\ request'[r].at = "write" => ~guarded
      <4> DEFINE to == IF guarded THEN "count" ELSE "write"
      <4>1. request' = [request EXCEPT ![r].at = to, ![r].row = m.row] /\ (to = "write" => ~guarded)
        BY <3>1
      <4> HIDE DEF to, m, guarded
      <4> QED
        BY <4>1 DEF MembersTypeOK
    <3>6. OrganizationInv'
      <4> HIDE DEF refused, guarded, m
      <4> QED
        BY <1>1, <3>4, <3>5 DEF OrganizationInv
    <3>7. q.scope = "workspace" /\ ~guarded /\ q.role /= "owner" => q.who \notin Owners("workspace")
      BY <2>2, <3>2 DEF Owners, NoRole
    <3>8. WorkspaceInv'
      <4> SUFFICES ASSUME ~raced, NEW p \in Requests,
                          request'[p].scope = "workspace", request'[p].at = "write",
                          ~request'[p].old, request'[p].role /= "owner"
                   PROVE  Owners("workspace") \ {request'[p].who} /= {}
        BY <1>1 DEF WorkspaceInv
      <4> HIDE DEF refused, guarded, m
      <4>1. CASE p /= r
        BY <3>5, <4>1 DEF WorkspaceInv
      <4>2. CASE p = r
        BY <3>5, <3>7, <4>2 DEF WorkspaceInv
      <4> QED
        BY <4>1, <4>2
    <3> QED
      BY <3>3, <3>6, <3>8
  <2> QED
    BY <2>1, <2>2
<1>5. CASE CountOwners(r)
  <2> DEFINE q == request[r]
  <2>0. q.scope \in Scopes /\ q.who \in People /\ q.at = "count"
    BY <1>5 DEF MembersTypeOK, CountOwners
  <2>1. CASE Cardinality(Owners(q.scope)) <= 1
    <3>1. Answer(r)
      BY <1>5, <2>1 DEF CountOwners
    <3> QED
      BY <1>1, <3>1, MembersAnswerKeeps
  <2>2. CASE ~(Cardinality(Owners(q.scope)) <= 1)
    <3>1. request' = [request EXCEPT ![r].at = "write"]
      BY <1>5, <2>2 DEF CountOwners
    <3>2. q.scope = "workspace"
      BY <2>0, <2>2, FounderAlone DEF Scopes
    <3>3. Owners("workspace") \ {q.who} /= {}
      <4>1. IsFiniteSet(Owners("workspace"))
        BY MemberAssumption, FS_Subset DEF Owners
      <4>2. Cardinality(Owners("workspace")) \in Nat
        BY <4>1, FS_CardinalityType
      <4> QED
        BY <2>0, <2>2, <3>2, <4>2, OwnerBeside
    <3>4. MembersTypeOK'
      <4>1. q \in RequestRows
        BY DEF MembersTypeOK, RequestRows
      <4>2. [q EXCEPT !.at = "write"] \in RequestRows
        BY <4>1 DEF RequestRows
      <4>3. request' \in [Requests -> RequestRows]
        BY <3>1, <4>2 DEF MembersTypeOK, RequestRows
      <4> QED
        BY <1>1, <4>3 DEF MembersTypeOK, RequestRows
    <3>5. OrganizationInv'
      BY <1>1, <3>1, <3>2 DEF OrganizationInv, MembersTypeOK
    <3>6. WorkspaceInv'
      <4> SUFFICES ASSUME ~raced, NEW p \in Requests,
                          request'[p].scope = "workspace", request'[p].at = "write",
                          ~request'[p].old, request'[p].role /= "owner"
                   PROVE  Owners("workspace") \ {request'[p].who} /= {}
        BY <1>1, <3>3 DEF WorkspaceInv
      <4>1. CASE p /= r
        BY <4>1, <3>1 DEF WorkspaceInv, MembersTypeOK
      <4>2. CASE p = r
        BY <4>2, <3>1, <3>3 DEF MembersTypeOK
      <4> QED
        BY <4>1, <4>2
    <3> QED
      BY <3>4, <3>5, <3>6
  <2> QED
    BY <2>1, <2>2
<1> QED
  BY <1>3, <1>4, <1>5

\* A write takes no owner from the organization; from the workspace only one beside
\* whom there was another, unless somebody wrote since the request read.
LEMMA MembersWriteKeeps ==
    ASSUME MembersInv, NEW r \in Requests, WriteMember(r)
    PROVE  MembersInv'
<1> USE DEF MembersInv
<1> DEFINE q == request[r]
           m == member[q.scope][q.who]
           throws == IF q.kind = "invite" THEN m.role /= NoRole ELSE m.role = NoRole \/ m.row /= q.row
           answered == [request EXCEPT ![r] = [NoRequest EXCEPT !.at = "answered"]]
           aged == [p \in Requests |->
                    IF answered[p].at \in {"count", "write"} /\ answered[p].scope = "workspace"
                    THEN [answered[p] EXCEPT !.old = TRUE] ELSE answered[p]]
           row == [role |-> q.role, row |-> IF q.kind = "invite" THEN m.row + 1 ELSE m.row]
<1>1. Founder \in People
  BY MemberAssumption DEF Founder
<1>2. /\ q.scope \in Scopes /\ q.who \in People /\ q.at = "write" /\ m.row \in Nat
      /\ q.role \in {NoRole, "owner", "admin", "member", "viewer"}
  <2>1. q.at = "write"
    BY DEF WriteMember
  <2>2. q.scope \in Scopes /\ q.who \in People /\ q.role \in {NoRole, "owner", "admin", "member", "viewer"}
    BY DEF MembersTypeOK
  <2>3. m.row \in Nat
    BY <2>2 DEF MembersTypeOK
  <2> QED
    BY <2>1, <2>2, <2>3
<1>3. CASE throws
  <2>1. Answer(r) /\ UNCHANGED <<member, raced>>
    BY <1>3 DEF WriteMember
  <2> QED
    BY <2>1, MembersAnswerKeeps
<1>4. CASE ~throws
  <2>1. /\ member' = [member EXCEPT ![q.scope][q.who] = row]
        /\ request' = IF q.scope = "workspace" THEN aged ELSE answered
        /\ raced' = (raced \/ q.old)
    BY <1>4 DEF WriteMember
  <2>2. row \in [role : {NoRole, "owner", "admin", "member", "viewer"}, row : Nat]
    BY <1>2
  <2>3. answered \in [Requests -> RequestRows]
    BY <1>1 DEF MembersTypeOK, RequestRows, NoRequest, Scopes
  <2>4. /\ aged \in [Requests -> RequestRows]
        /\ \A p \in Requests :
            /\ aged[p].scope = answered[p].scope /\ aged[p].at = answered[p].at
            /\ aged[p].role = answered[p].role /\ aged[p].kind = answered[p].kind
            /\ aged[p].who = answered[p].who
            /\ aged[p].at = "write" /\ aged[p].scope = "workspace" => aged[p].old
    <3> DEFINE grown(p) == [answered[p] EXCEPT !.old = TRUE]
    <3>1. \A p \in Requests : aged[p] = grown(p) \/ (aged[p] = answered[p] /\ ~(answered[p].at = "write" /\ answered[p].scope = "workspace"))
      OBVIOUS
    <3>2. \A p \in Requests : answered[p] \in RequestRows
      BY <2>3
    <3>3. aged = [p \in Requests |-> aged[p]]
      OBVIOUS
    <3> HIDE DEF answered, aged
    <3>4. \A p \in Requests :
            /\ grown(p) \in RequestRows /\ grown(p).old
            /\ grown(p).scope = answered[p].scope /\ grown(p).at = answered[p].at
            /\ grown(p).role = answered[p].role /\ grown(p).kind = answered[p].kind
            /\ grown(p).who = answered[p].who
      BY <3>2 DEF RequestRows
    <3> HIDE DEF grown
    <3>5. \A p \in Requests : aged[p] \in RequestRows
      BY <3>1, <3>2, <3>4
    <3>6. aged \in [Requests -> RequestRows]
      BY <3>3, <3>5
    <3> QED
      BY <3>1, <3>4, <3>6
  <2>5. /\ answered[r].scope = "workspace" /\ answered[r].at = "answered"
        /\ \A p \in Requests \ {r} : answered[p] = request[p]
    BY DEF MembersTypeOK, NoRequest
  <2>6. /\ request' \in [Requests -> RequestRows]
        /\ request'[r].scope = "workspace" /\ request'[r].at = "answered"
        /\ \A p \in Requests \ {r} :
            /\ request'[p].scope = request[p].scope /\ request'[p].at = request[p].at
            /\ request'[p].role = request[p].role /\ request'[p].kind = request[p].kind
            /\ request'[p].who = request[p].who
            /\ q.scope /= "workspace" => request'[p].old = request[p].old
        /\ q.scope = "workspace" => \A p \in Requests :
            request'[p].at = "write" /\ request'[p].scope = "workspace" => request'[p].old
    <3>1. CASE q.scope = "workspace"
      <4>1. request' = aged
        BY <2>1, <3>1
      <4> HIDE DEF aged, answered
      <4> QED
        BY <2>4, <2>5, <3>1, <4>1
    <3>2. CASE q.scope /= "workspace"
      <4>1. request' = answered
        BY <2>1, <3>2
      <4> HIDE DEF aged, answered
      <4> QED
        BY <2>3, <2>5, <3>2, <4>1
    <3> QED
      BY <3>1, <3>2
  <2> HIDE DEF aged, answered, row
  <2>7. MembersTypeOK'
    BY <1>2, <2>1, <2>2, <2>6 DEF MembersTypeOK, RequestRows
  <2>8. row.role = q.role
    BY DEF row
  <2>9. \A s \in Scopes, u \in People :
            member'[s][u] = IF s = q.scope /\ u = q.who THEN row ELSE member[s][u]
    BY <1>2, <2>1 DEF MembersTypeOK
  <2>10. OrganizationInv'
    <3>1. \A u \in People : member'["organization"][u].role = "owner" <=> u = Founder
      BY <1>2, <2>8, <2>9 DEF OrganizationInv, Scopes
    <3> QED
      BY <2>6, <3>1 DEF OrganizationInv
  <2>11. WorkspaceInv'
    <3> SUFFICES ASSUME ~raced'
                 PROVE  /\ Owners("workspace")' /= {}
                        /\ \A p \in Requests :
                            /\ request'[p].scope = "workspace" /\ request'[p].at = "write"
                            /\ ~request'[p].old /\ request'[p].role /= "owner"
                            => Owners("workspace")' \ {request'[p].who} /= {}
      BY DEF WorkspaceInv
    <3>1. ~raced /\ ~q.old
      BY <2>1
    <3>2. CASE q.scope = "workspace"
      <4>1. CASE q.role = "owner"
        <5>1. q.who \in Owners("workspace")'
          BY <1>2, <2>8, <2>9, <3>2, <4>1 DEF Owners, Scopes
        <5> QED
          BY <2>6, <3>2, <5>1
      <4>2. CASE q.role /= "owner"
        <5>1. PICK u \in Owners("workspace") : u /= q.who
          BY <1>2, <3>1, <3>2, <4>2 DEF WorkspaceInv
        <5>2. u \in Owners("workspace")'
          BY <2>9, <5>1 DEF Owners, Scopes
        <5> QED
          BY <2>6, <3>2, <5>2
      <4> QED
        BY <4>1, <4>2
    <3>3. CASE q.scope = "organization"
      <4>1. Owners("workspace")' = Owners("workspace")
        BY <2>9, <3>3 DEF Owners, Scopes
      <4> QED
        BY <2>6, <3>1, <3>3, <4>1 DEF WorkspaceInv
    <3> QED
      BY <1>2, <3>2, <3>3 DEF Scopes
  <2> QED
    BY <2>7, <2>10, <2>11
<1> QED
  BY <1>3, <1>4

\* It holds of the members at every moment, whatever requests overlap.
LEMMA MembersKept == MembersSpec => []MembersInv
<1>1. MembersInit => MembersInv
  <2> SUFFICES ASSUME MembersInit PROVE MembersInv
    OBVIOUS
  <2>1. Founder \in People
    BY MemberAssumption DEF Founder
  <2>2. PICK creator \in People, others \in {NoRole, "member"} :
          member =
            [organization |-> [u \in People |-> IF u = Founder THEN [role |-> "owner", row |-> 1]
                                               ELSE [role |-> others, row |-> IF others = NoRole THEN 0 ELSE 1]],
             workspace |-> [u \in People |-> IF u = creator THEN [role |-> "owner", row |-> 1]
                                             ELSE [role |-> NoRole, row |-> 0]]]
    BY DEF MembersInit
  <2>3. MembersTypeOK
    <3> DEFINE Rows == [role : {NoRole, "owner", "admin", "member", "viewer"}, row : Nat]
    <3>1. /\ DOMAIN member = Scopes
          /\ \A s \in Scopes : member[s] \in [People -> Rows]
      BY <2>2 DEF Scopes
    <3>2. member \in [Scopes -> [People -> Rows]]
      <4> HIDE DEF Rows
      <4>1. member = [s \in Scopes |-> member[s]]
        BY <2>2 DEF Scopes
      <4> QED
        BY <3>1, <4>1
    <3> QED
      BY <2>1, <3>2 DEF MembersInit, MembersTypeOK, NoRequest, Scopes
  <2>4. OrganizationInv
    BY <2>2 DEF MembersInit, OrganizationInv, NoRequest, NoRole
  <2>5. creator \in Owners("workspace")
    BY <2>2 DEF Owners
  <2>6. WorkspaceInv
    BY <2>5 DEF MembersInit, WorkspaceInv, NoRequest
  <2> QED
    BY <2>3, <2>4, <2>6 DEF MembersInv
<1>2. MembersInv /\ [MembersNext]_memberVars => MembersInv'
  <2> SUFFICES ASSUME MembersInv, [MembersNext]_memberVars PROVE MembersInv'
    OBVIOUS
  <2>1. CASE MembersNext
    BY <2>1, MembersReadKeeps, MembersWriteKeeps DEF MembersNext
  <2>2. CASE UNCHANGED memberVars
    BY <2>2 DEF memberVars, MembersInv, MembersTypeOK, OrganizationInv, WorkspaceInv, Owners
  <2> QED
    BY <2>1, <2>2
<1> QED
  BY <1>1, <1>2, PTL DEF MembersSpec

\* The organization never loses its last owner, however many requests overlap
\* (routes/organizations.ts); nor does the workspace, until a request writes a member of
\* it that another one has written since it read (routes/workspaces.ts).
THEOREM OwnersStay == MembersSpec => []OwnersRemain
<1>1. MembersInv => OwnersRemain
  BY FounderAlone DEF MembersInv, WorkspaceInv, OwnersRemain
<1> QED
  BY MembersKept, <1>1, PTL

-----------------------------------------------------------------------------
(* Triggers. What a maker has still before it in this pass of its loop it  *)
(* has not made in this pass, which is what "once" rests on; and what it   *)
(* has neither before it nor made was taken from it by someone.            *)

AtApp == {"admit", "read", "insert", "enqueue"}

MakerStands ==
    \A m \in Makers :
        /\ at[m] \in AtApp => app[m] \in Apps \ left[m]
        /\ at[m] \in {"read", "insert", "enqueue"} => app[m] \in Placed
        /\ at[m] = "idle" => left[m] = {}

\* m has not come to the insertion for a in this pass.
Pending(m, a) ==
    \/ at[m] \in {"idle", "stored", "waiting"}
    \/ at[m] \in AtApp \union {"next", "thrown"} /\ a \in left[m]
    \/ at[m] \in {"admit", "read", "insert"} /\ app[m] = a

Deaths(m) == IF m \in Deliveries THEN died[m] ELSE 0

MadeOnce ==
    /\ \A m \in Makers, a \in Apps :
        made[m][a] <= 1 + Deaths(m) /\ (Pending(m, a) => made[m][a] <= Deaths(m))
    /\ \A m \in ApiMakers :
        over[m] <= 1 /\ (over[m] = 1 => usage >= MaxPerDay /\ at[m] \notin {"read", "insert"})

OthersMade(m) == \E n \in Makers \ {m}, b \in Placed : made[n][b] > 0
Excused(m) == faults > 0 \/ OthersMade(m) \/ (m \in Pushes /\ usage >= MaxPerDay)

MissInv ==
    /\ \A d \in Deliveries : processed[d] => at[d] = "done"
    /\ \A m \in Makers : at[m] = "insert" => seen[m] = version[app[m]] \/ OthersMade(m)
    /\ \A d \in Deliveries : at[d] = "thrown" => Excused(d)
    /\ \A m \in Deliveries \union Pushes, a \in Placed :
        at[m] \in AtApp \union {"next", "thrown", "done"} =>
            \/ Excused(m) \/ made[m][a] > 0
            \/ at[m] /= "done" /\ a \in left[m]
            \/ at[m] \in {"admit", "read", "insert"} /\ app[m] = a

QueueInv ==
    /\ queued \subseteq Versions
    /\ \A m \in Enqueuing : <<app[m], seen[m] + 1>> \in Unqueued
    /\ \A m, n \in Enqueuing : m /= n => app[m] /= app[n] \/ seen[m] /= seen[n]
    /\ IsFiniteSet({m \in Makers : at[m] /= "idle"})
    /\ IsFiniteSet(Unqueued) /\ Cardinality(Unqueued) <= faults + Cardinality(Enqueuing)

TriggersInv ==
    TriggersTypeOK /\ faults \in Nat /\ MakerStands /\ MadeOnce /\ MissInv /\ QueueInv

\* Every variable keeps its type.
LEMMA TriggersTypeKeeps ==
    ASSUME TriggersTypeOK, MakerStands, faults \in Nat, TriggersNext
    PROVE  TriggersTypeOK' /\ faults' \in Nat
<1> USE PlacedAssumption DEF TriggersTypeOK, Makers, ApiMakers
<1> DEFINE PlaceRows == {"idle", "stored", "waiting", "next", "admit", "read", "insert",
                      "enqueue", "thrown", "done", "lost"}
<1>0. ASSUME NEW m \in Makers, LeaveApp(m)
      PROVE  app' \in [Makers -> Apps \union {NoApp}] /\ seen' \in [Makers -> Nat]
  BY <1>0 DEF LeaveApp
<1>1. faults' \in Nat
  BY DEF TriggersNext, Store, AddDelivery, StartDelivery, FinishDelivery, WorkerDies, StartPush,
         StartUser, FinishRequest, Admit, Visit, ReadVersion, Insert, Conflict, Enqueue,
         CreationFails, RequestDies, Fault
<1>2. ASSUME NEW d \in Deliveries,
             Store(d) \/ AddDelivery(d) \/ StartDelivery(d) \/ FinishDelivery(d) \/ WorkerDies(d)
      PROVE  TriggersTypeOK'
  <2>1. CASE Store(d) \/ AddDelivery(d) \/ StartDelivery(d)
    BY <2>1 DEF Store, AddDelivery, StartDelivery, Begin, Step, loopVars
  <2>2. CASE FinishDelivery(d)
    BY <1>0, <2>2 DEF FinishDelivery
  <2>3. CASE WorkerDies(d)
    BY <1>0, <2>3 DEF WorkerDies
  <2> QED
    BY <1>2, <2>1, <2>2, <2>3
<1>3. ASSUME NEW p \in Pushes, StartPush(p) PROVE TriggersTypeOK'
  BY <1>3 DEF StartPush, Begin, Step, loopVars
<1>4. ASSUME NEW u \in Users, StartUser(u) PROVE TriggersTypeOK'
  BY <1>4 DEF StartUser, Begin, Step, loopVars
<1>5. ASSUME NEW m \in ApiMakers, FinishRequest(m) \/ Admit(m) PROVE TriggersTypeOK'
  <2>1. CASE FinishRequest(m)
    BY <1>0, <2>1 DEF FinishRequest, Step, loopVars
  <2>2. CASE Admit(m)
    BY <2>2 DEF Admit, Step, loopVars
  <2> QED
    BY <1>5, <2>1, <2>2
<1>6. ASSUME NEW m \in Makers, Visit(m) \/ ReadVersion(m) PROVE TriggersTypeOK'
  <2>1. CASE Visit(m)
    BY <2>1 DEF Visit, loopVars
  <2>2. CASE ReadVersion(m)
    <3>1. version[app[m]] \in Nat
      BY <2>2 DEF MakerStands, ReadVersion, Step, AtApp
    <3> QED
      BY <2>2, <3>1 DEF ReadVersion, Step, loopVars
  <2> QED
    BY <1>6, <2>1, <2>2
<1>7. ASSUME NEW m \in Makers, Insert(m) PROVE TriggersTypeOK'
  <2>1. app[m] \in Apps
    BY <1>7 DEF MakerStands, Insert, Step, AtApp
  <2>2. made' \in [Makers -> [Apps -> Nat]]
    <3>1. [made[m] EXCEPT ![app[m]] = @ + 1] \in [Apps -> Nat]
      BY <2>1
    <3>2. made' = [made EXCEPT ![m] = [made[m] EXCEPT ![app[m]] = @ + 1]]
      BY <1>7 DEF Insert
    <3> QED
      BY <3>1, <3>2
  <2>3. over' \in [ApiMakers -> Nat]
    <3>1. \A n \in ApiMakers : over[n] + (IF n = m /\ usage >= MaxPerDay THEN 1 ELSE 0) \in Nat
      OBVIOUS
    <3> QED
      BY <1>7, <3>1 DEF Insert
  <2>4. version' \in [Apps -> Nat] /\ usage' \in Nat /\ at' \in [Makers -> PlaceRows]
    BY <1>7, <2>1 DEF Insert, Step
  <2> QED
    BY <1>7, <2>2, <2>3, <2>4 DEF Insert
<1>8. ASSUME NEW m \in Makers, Conflict(m) \/ CreationFails(m) \/ RequestDies(m) PROVE TriggersTypeOK'
  <2>1. at' \in [Makers -> PlaceRows]
    BY <1>8 DEF Conflict, CreationFails, RequestDies, Step
  <2> QED
    BY <1>0, <1>8, <2>1 DEF Conflict, CreationFails, RequestDies, loopVars
<1>9. ASSUME NEW m \in Makers, Enqueue(m) PROVE TriggersTypeOK'
  <2>1. <<app[m], seen[m] + 1>> \in Apps \X (Nat \ {0})
    BY <1>9 DEF MakerStands, Enqueue, Step, AtApp
  <2> QED
    BY <1>9, <2>1 DEF Enqueue, Step, LeaveApp
<1> QED
  BY <1>1, <1>2, <1>3, <1>4, <1>5, <1>6, <1>7, <1>8, <1>9 DEF TriggersNext

\* A maker is at an app that it has taken off its list, and reads or inserts only for
\* one that has a node.
LEMMA MakerStandsKeeps ==
    ASSUME TriggersTypeOK, MakerStands, TriggersNext
    PROVE  MakerStands'
<1> USE PlacedAssumption, MakerAssumption DEF TriggersTypeOK, MakerStands, AtApp, Makers, ApiMakers
<1>1. ASSUME NEW d \in Deliveries,
             Store(d) \/ AddDelivery(d) \/ StartDelivery(d) \/ FinishDelivery(d) \/ WorkerDies(d)
      PROVE  MakerStands'
  <2>1. CASE Store(d) \/ AddDelivery(d)
    BY <2>1 DEF Store, AddDelivery, Begin, Step, loopVars
  <2>2. CASE StartDelivery(d)
    BY <2>2 DEF StartDelivery, Step, loopVars
  <2>3. CASE FinishDelivery(d)
    BY <2>3 DEF FinishDelivery, LeaveApp
  <2>4. CASE WorkerDies(d)
    BY <2>4 DEF WorkerDies, LeaveApp
  <2> QED
    BY <1>1, <2>1, <2>2, <2>3, <2>4
<1>2. ASSUME NEW p \in Pushes, StartPush(p) PROVE MakerStands'
  BY <1>2 DEF StartPush, Begin, Step, loopVars
<1>3. ASSUME NEW u \in Users, StartUser(u) PROVE MakerStands'
  BY <1>3 DEF StartUser, Begin, Step, loopVars
<1>4. ASSUME NEW m \in ApiMakers, FinishRequest(m) \/ Admit(m) PROVE MakerStands'
  BY <1>4 DEF FinishRequest, Admit, Step, LeaveApp, loopVars
<1>5. ASSUME NEW m \in Makers, Visit(m) \/ ReadVersion(m) \/ Insert(m) PROVE MakerStands'
  BY <1>5 DEF Visit, ReadVersion, Insert, Step, loopVars
<1>6. ASSUME NEW m \in Makers, Conflict(m) \/ Enqueue(m) \/ CreationFails(m) \/ RequestDies(m) PROVE MakerStands'
  BY <1>6 DEF Conflict, Enqueue, CreationFails, RequestDies, Step, LeaveApp, loopVars
<1> QED
  BY <1>1, <1>2, <1>3, <1>4, <1>5, <1>6 DEF TriggersNext

\* No step makes what was made in this pass, and after a deployment over the limit the
\* maker is admitted no more.
LEMMA MadeOnceKeeps ==
    ASSUME TriggersTypeOK, MakerStands, MadeOnce, TriggersNext, TriggersTypeOK'
    PROVE  MadeOnce'
<1> USE PlacedAssumption, MakerAssumption
<1> DEFINE Mine(m) == \A a \in Apps : made'[m][a] <= 1 + Deaths(m)' /\ (Pending(m, a)' => made'[m][a] <= Deaths(m)')
           Held(m) == m \in ApiMakers =>
               over'[m] <= 1 /\ (over'[m] = 1 => usage' >= MaxPerDay /\ at'[m] \notin {"read", "insert"})
\* It is enough to look at the maker that moves.
<1> DEFINE OnItsOwn(m) ==
       /\ usage' >= usage
       /\ \A n \in Makers \ {m} : /\ at'[n] = at[n] /\ left'[n] = left[n] /\ app'[n] = app[n]
                                  /\ made'[n] = made[n]
                                  /\ n \in Deliveries => died'[n] = died[n]
                                  /\ n \in ApiMakers => over'[n] = over[n]
<1>1. ASSUME NEW m \in Makers, Mine(m), Held(m), OnItsOwn(m)
      PROVE  MadeOnce'
  <2>1. \A n \in Makers \ {m}, a \in Apps : Pending(n, a)' <=> Pending(n, a)
    BY <1>1 DEF Pending
  <2>2. \A n \in Makers \ {m} : Mine(n)
    <3>1. \A n \in Makers \ {m} : Deaths(n)' = Deaths(n)
      BY <1>1 DEF Deaths
    <3> QED
      BY <1>1, <2>1, <3>1 DEF MadeOnce
  <2>3. \A n \in ApiMakers \ {m} : Held(n)
    BY <1>1 DEF MadeOnce, TriggersTypeOK, Makers
  <2> QED
    BY <1>1, <2>2, <2>3 DEF MadeOnce, Makers
\* Most steps create nothing.
<1>2. ASSUME NEW m \in Makers, UNCHANGED <<made, died, over, usage>>,
             \A n \in Makers \ {m} : at'[n] = at[n] /\ left'[n] = left[n] /\ app'[n] = app[n],
             \A a \in Apps : Pending(m, a)' => Pending(m, a),
             at'[m] \in {"read", "insert"} => at[m] = "read" \/ m \in Deliveries \/ usage < MaxPerDay
      PROVE  MadeOnce'
  <2>1. Mine(m)
    BY <1>2 DEF MadeOnce, Deaths
  <2>2. Held(m)
    BY <1>2 DEF MadeOnce, ApiMakers, TriggersTypeOK
  <2>3. OnItsOwn(m)
    BY <1>2 DEF TriggersTypeOK
  <2> HIDE DEF Mine, Held, OnItsOwn
  <2> QED
    BY <1>1, <2>1, <2>2, <2>3
<1> USE DEF TriggersTypeOK, Makers, ApiMakers, Pending, AtApp
<1>3. ASSUME NEW d \in Deliveries, Store(d) \/ AddDelivery(d) \/ StartDelivery(d) PROVE MadeOnce'
  BY <1>2, <1>3 DEF Store, AddDelivery, StartDelivery, Begin, Step, loopVars
<1>4. ASSUME NEW d \in Deliveries, FinishDelivery(d) PROVE MadeOnce'
  BY <1>2, <1>4 DEF FinishDelivery, LeaveApp
<1>5. ASSUME NEW d \in Makers, d \in Deliveries, WorkerDies(d) PROVE MadeOnce'
  <2>1. /\ made' = made /\ usage' = usage /\ over' = over /\ left' = left
        /\ died'[d] = died[d] + 1 /\ died[d] \in Nat
        /\ \A n \in Makers \ {d} : at'[n] = at[n] /\ app'[n] = app[n] /\ (n \in Deliveries => died'[n] = died[n])
    BY <1>5 DEF WorkerDies, LeaveApp
  <2>2. \A a \in Apps : made[d][a] <= 1 + died[d]
    BY <1>5 DEF MadeOnce, Deaths
  <2>3. Mine(d)
    BY <1>5, <2>1, <2>2 DEF Deaths
  <2>4. Held(d)
    BY <1>5
  <2>5. OnItsOwn(d)
    BY <2>1
  <2> HIDE DEF Mine, Held, OnItsOwn
  <2> QED
    BY <1>1, <2>3, <2>4, <2>5
<1>6. ASSUME NEW p \in Pushes, StartPush(p) PROVE MadeOnce'
  BY <1>2, <1>6 DEF StartPush, Begin, Step, loopVars
<1>7. ASSUME NEW u \in Users, StartUser(u) PROVE MadeOnce'
  BY <1>2, <1>7 DEF StartUser, Begin, Step, loopVars
<1>8. ASSUME NEW m \in ApiMakers, FinishRequest(m) PROVE MadeOnce'
  BY <1>2, <1>8 DEF FinishRequest, Step, LeaveApp, loopVars
<1>9. ASSUME NEW m \in ApiMakers, Admit(m) PROVE MadeOnce'
  BY <1>2, <1>9 DEF Admit, Step, loopVars
<1>10. ASSUME NEW m \in Makers, Visit(m) PROVE MadeOnce'
  BY <1>2, <1>10 DEF Visit, loopVars
<1>11. ASSUME NEW m \in Makers, ReadVersion(m) PROVE MadeOnce'
  BY <1>2, <1>11 DEF ReadVersion, Step, loopVars
<1>12. ASSUME NEW m \in Makers, Insert(m) PROVE MadeOnce'
  <2> USE <1>12 DEF Insert, Step
  <2>1. app[m] \in Apps \ left[m]
    BY DEF MakerStands
  <2>2. /\ made'[m][app[m]] = made[m][app[m]] + 1
        /\ \A a \in Apps \ {app[m]} : made'[m][a] = made[m][a]
    BY <2>1
  <2>3. Mine(m)
    <3>1. Deaths(m)' = Deaths(m) /\ Deaths(m) \in Nat
      BY DEF Deaths
    <3> QED
      BY <2>1, <2>2, <3>1 DEF MadeOnce
  <2>4. ASSUME m \in ApiMakers PROVE over'[m] = IF usage >= MaxPerDay THEN 1 ELSE 0
    <3>1. over[m] <= 1 /\ over[m] /= 1 /\ over[m] \in Nat
      BY <2>4 DEF MadeOnce
    <3>2. over[m] = 0
      <4> HIDE DEF Insert, Step, TriggersTypeOK, Pending
      <4> QED
        BY <3>1
    <3> QED
      BY <2>4, <3>2
  <2>5. Held(m)
    BY <2>4
  <2>6. \A n \in ApiMakers \ {m} : over'[n] = over[n]
    OBVIOUS
  <2>7. usage' >= usage /\ \A n \in Makers \ {m} : at'[n] = at[n] /\ left'[n] = left[n] /\ app'[n] = app[n]
                                                 /\ made'[n] = made[n] /\ (n \in Deliveries => died'[n] = died[n])
    OBVIOUS
  <2>8. OnItsOwn(m)
    BY <2>6, <2>7
  <2> HIDE DEF Mine, Held, OnItsOwn
  <2> QED
    BY <1>1, <2>3, <2>5, <2>8
<1>13. ASSUME NEW m \in Makers, Conflict(m) \/ CreationFails(m) PROVE MadeOnce'
  BY <1>2, <1>13 DEF Conflict, CreationFails, Step, LeaveApp, loopVars
<1>14. ASSUME NEW m \in Makers, Enqueue(m) PROVE MadeOnce'
  BY <1>2, <1>14 DEF Enqueue, Step, LeaveApp
<1>15. ASSUME NEW m \in Makers, RequestDies(m) PROVE MadeOnce'
  BY <1>2, <1>15 DEF RequestDies, LeaveApp, loopVars
<1> QED
  BY <1>3, <1>4, <1>5, <1>6, <1>7, <1>8, <1>9, <1>10, <1>11, <1>12, <1>13, <1>14, <1>15 DEF TriggersNext

\* Whoever is passed over was overlapped, met a failure or the limit.
LEMMA MissKeeps ==
    ASSUME TriggersTypeOK, MakerStands, MissInv, faults \in Nat, TriggersNext,
           TriggersTypeOK', faults' \in Nat
    PROVE  MissInv'
<1> USE PlacedAssumption, MakerAssumption
<1> DEFINE Reads(m) == at'[m] = "insert" => seen'[m] = version'[app'[m]] \/ OthersMade(m)'
           Thrown(m) == m \in Deliveries =>
               (processed'[m] => at'[m] = "done") /\ (at'[m] = "thrown" => Excused(m)')
           Visits(m) == m \in Deliveries \union Pushes => \A a \in Placed :
               at'[m] \in AtApp \union {"next", "thrown", "done"} =>
                   \/ Excused(m)' \/ made'[m][a] > 0
                   \/ at'[m] /= "done" /\ a \in left'[m]
                   \/ at'[m] \in {"admit", "read", "insert"} /\ app'[m] = a
\* What excuses a maker goes on excusing it.
<1>1. /\ \A m \in Makers, a \in Apps : made'[m][a] >= made[m][a]
      /\ usage' >= usage /\ faults' >= faults
  <2>1. CASE UNCHANGED <<made, usage>>
    <3>1. faults' >= faults
      BY DEF TriggersNext, Store, AddDelivery, StartDelivery, FinishDelivery, WorkerDies, StartPush,
             StartUser, FinishRequest, Admit, Visit, ReadVersion, Insert, Conflict, Enqueue,
             CreationFails, RequestDies, Fault
    <3> QED
      BY <2>1, <3>1 DEF TriggersTypeOK
  <2>2. CASE \E m \in Makers : Insert(m)
    BY <2>2 DEF Insert, Step, TriggersTypeOK, MakerStands, AtApp
  <2> QED
    BY <2>1, <2>2 DEF TriggersNext, Store, AddDelivery, StartDelivery, FinishDelivery, WorkerDies, StartPush,
         StartUser, FinishRequest, Admit, Visit, ReadVersion, Conflict, Enqueue, CreationFails, RequestDies, loopVars
<1>2. \A m \in Makers : (OthersMade(m) => OthersMade(m)') /\ (Excused(m) => Excused(m)')
  <2>1. \A m \in Makers : OthersMade(m) => OthersMade(m)'
    <3> SUFFICES ASSUME NEW m \in Makers, NEW n \in Makers \ {m}, NEW b \in Placed, made[n][b] > 0
                 PROVE  made'[n][b] > 0
      BY DEF OthersMade
    <3> QED
      BY <1>1 DEF TriggersTypeOK
  <2> QED
    BY <1>1, <2>1 DEF Excused, TriggersTypeOK
\* It is enough to look at the maker that moves, if it does not insert.
<1>3. ASSUME NEW m \in Makers, Reads(m), Thrown(m), Visits(m), UNCHANGED <<version, made>>,
             \A n \in Makers \ {m} : /\ at'[n] = at[n] /\ left'[n] = left[n] /\ app'[n] = app[n]
                                     /\ seen'[n] = seen[n]
                                     /\ n \in Deliveries => processed'[n] = processed[n]
      PROVE  MissInv'
  <2>1. \A n \in Makers \ {m} : Reads(n) /\ Thrown(n) /\ Visits(n)
    BY <1>2, <1>3 DEF MissInv, Makers, ApiMakers
  <2> QED
    BY <1>3, <2>1 DEF MissInv, Makers, ApiMakers
<1> USE DEF TriggersTypeOK, Makers, ApiMakers, AtApp
<1>4. ASSUME NEW d \in Deliveries, Store(d) \/ AddDelivery(d) \/ StartDelivery(d) PROVE MissInv'
  <2>1. Reads(d) /\ Thrown(d) /\ Visits(d)
    BY <1>4 DEF Store, AddDelivery, StartDelivery, Begin, Step, loopVars, MissInv
  <2> QED
    BY <1>3, <1>4, <2>1 DEF Store, AddDelivery, StartDelivery, Begin, Step, loopVars
<1>5. ASSUME NEW d \in Deliveries, FinishDelivery(d) PROVE MissInv'
  <2>1. Reads(d) /\ Thrown(d) /\ Visits(d)
    BY <1>2, <1>5 DEF FinishDelivery, MissInv
  <2> QED
    BY <1>3, <1>5, <2>1 DEF FinishDelivery, LeaveApp
<1>6. ASSUME NEW d \in Deliveries, WorkerDies(d) PROVE MissInv'
  <2>1. Reads(d) /\ Thrown(d) /\ Visits(d)
    BY <1>6 DEF WorkerDies, MissInv
  <2> QED
    BY <1>3, <1>6, <2>1 DEF WorkerDies, LeaveApp
<1>7. ASSUME NEW p \in Pushes, StartPush(p) PROVE MissInv'
  <2>1. Reads(p) /\ Thrown(p) /\ Visits(p)
    BY <1>7 DEF StartPush, Begin, Step, loopVars
  <2> QED
    BY <1>3, <1>7, <2>1 DEF StartPush, Begin, Step, loopVars
<1>8. ASSUME NEW u \in Users, StartUser(u) PROVE MissInv'
  <2>1. Reads(u) /\ Thrown(u) /\ Visits(u)
    BY <1>8 DEF StartUser, Begin, Step, loopVars
  <2> QED
    BY <1>3, <1>8, <2>1 DEF StartUser, Begin, Step, loopVars
<1>9. ASSUME NEW m \in ApiMakers, FinishRequest(m) PROVE MissInv'
  <2>1. Reads(m) /\ Thrown(m) /\ Visits(m)
    BY <1>2, <1>9 DEF FinishRequest, Step, LeaveApp, loopVars, MissInv
  <2> QED
    BY <1>3, <1>9, <2>1 DEF FinishRequest, Step, LeaveApp, loopVars
<1>10. ASSUME NEW m \in ApiMakers, Admit(m) PROVE MissInv'
  <2>1. Reads(m) /\ Thrown(m)
    BY <1>10 DEF Admit, Step, loopVars
  <2>2. Visits(m)
    BY <1>2, <1>10 DEF Admit, Step, loopVars, MissInv, Excused
  <2> QED
    BY <1>3, <1>10, <2>1, <2>2 DEF Admit, Step, loopVars
<1>11. ASSUME NEW m \in Makers, Visit(m) PROVE MissInv'
  <2>1. PICK b \in left[m] :
          /\ at[m] = "next" /\ app' = [app EXCEPT ![m] = b] /\ left' = [left EXCEPT ![m] = @ \ {b}]
          /\ at' = [at EXCEPT ![m] = IF m \in ApiMakers THEN "admit" ELSE IF b \in Placed THEN "read" ELSE "next"]
    BY <1>11 DEF Visit
  <2>2. UNCHANGED <<processed, version, made>>
    BY <1>11 DEF Visit, loopVars
  <2>3. /\ at'[m] \in {"admit", "read", "next"} /\ app'[m] = b /\ left'[m] = left[m] \ {b}
        /\ b \in Placed => at'[m] \in {"admit", "read"}
    BY <2>1
  <2>4. Reads(m) /\ Thrown(m)
    BY <2>1, <2>2, <2>3 DEF MissInv
  <2>5. Visits(m)
    <3> SUFFICES ASSUME m \in Deliveries \union Pushes, NEW a \in Placed
                 PROVE  Excused(m)' \/ made'[m][a] > 0 \/ a \in left'[m] \/ app'[m] = a
      BY <2>3
    <3>1. Excused(m) \/ made[m][a] > 0 \/ a \in left[m]
      BY <2>1 DEF MissInv
    <3> QED
      BY <1>2, <2>2, <2>3, <3>1
  <2>6. /\ seen' = seen
        /\ \A n \in Makers \ {m} : at'[n] = at[n] /\ left'[n] = left[n] /\ app'[n] = app[n]
    <3>1. seen' = seen
      BY <1>11 DEF Visit
    <3> QED
      BY <2>1, <3>1
  <2> HIDE DEF Reads, Thrown, Visits
  <2> QED
    BY <1>3, <2>2, <2>4, <2>5, <2>6
<1>12. ASSUME NEW m \in Makers, ReadVersion(m) PROVE MissInv'
  <2>1. Reads(m) /\ Thrown(m) /\ Visits(m)
    BY <1>2, <1>12 DEF ReadVersion, Step, loopVars, MissInv
  <2> QED
    BY <1>3, <1>12, <2>1 DEF ReadVersion, Step, loopVars
\* An insertion is what overlaps the others.
<1>13. ASSUME NEW m \in Makers, Insert(m) PROVE MissInv'
  <2> USE <1>13 DEF Insert, Step
  <2>1. app[m] \in Placed /\ app[m] \in Apps
    BY DEF MakerStands
  <2>2. made'[m][app[m]] > 0 /\ \A n \in Makers \ {m} : made'[n] = made[n]
    BY <2>1
  <2>3. \A n \in Makers \ {m} : OthersMade(n)' /\ Excused(n)'
    BY <2>1, <2>2 DEF OthersMade, Excused
  <2>4. \A n \in Makers \ {m} : Reads(n) /\ Visits(n)
    BY <2>3
  <2>5. \A n \in Makers \ {m} : Thrown(n)
    BY <2>3 DEF MissInv
  <2>6. Reads(m) /\ Thrown(m)
    BY DEF MissInv
  <2>7. \A a \in Placed \ {app[m]} : made'[m][a] = made[m][a]
    BY <2>1
  <2>8. Visits(m)
    BY <1>2, <2>1, <2>2, <2>7 DEF MissInv
  <2> QED
    BY <2>4, <2>5, <2>6, <2>8 DEF MissInv
<1>14. ASSUME NEW m \in Makers, Conflict(m) PROVE MissInv'
  <2>1. Excused(m)'
    BY <1>2, <1>14 DEF Conflict, Step, MissInv, Excused
  <2>2. Reads(m) /\ Thrown(m) /\ Visits(m)
    BY <1>14, <2>1 DEF Conflict, Step, loopVars, MissInv
  <2> QED
    BY <1>3, <1>14, <2>2 DEF Conflict, Step, LeaveApp, loopVars
<1>15. ASSUME NEW m \in Makers, CreationFails(m) \/ RequestDies(m) PROVE MissInv'
  <2>1. Excused(m)'
    BY <1>15 DEF CreationFails, RequestDies, Fault, Excused
  <2>2. Reads(m) /\ Thrown(m) /\ Visits(m)
    BY <1>15, <2>1 DEF CreationFails, RequestDies, loopVars, MissInv
  <2> QED
    BY <1>3, <1>15, <2>2 DEF CreationFails, RequestDies, LeaveApp, loopVars
<1>16. ASSUME NEW m \in Makers, Enqueue(m) PROVE MissInv'
  <2>1. Reads(m) /\ Thrown(m) /\ Visits(m)
    BY <1>2, <1>16 DEF Enqueue, Step, MissInv
  <2> QED
    BY <1>3, <1>16, <2>1 DEF Enqueue, Step, LeaveApp
<1> QED
  BY <1>4, <1>5, <1>6, <1>7, <1>8, <1>9, <1>10, <1>11, <1>12, <1>13, <1>14, <1>15, <1>16 DEF TriggersNext

\* A version that has no job is one that its maker is about to queue, or one that a
\* failure took.
LEMMA QueueKeeps ==
    ASSUME TriggersTypeOK, MakerStands, QueueInv, faults \in Nat, TriggersNext,
           TriggersTypeOK', faults' \in Nat
    PROVE  QueueInv'
<1> USE PlacedAssumption, MakerAssumption
<1> DEFINE Busy == {m \in Makers : at[m] /= "idle"}
<1>1. IsFiniteSet(Enqueuing) /\ IsFiniteSet(Busy) /\ IsFiniteSet(Unqueued)
  <2>1. Enqueuing \subseteq Busy
    BY DEF Enqueuing
  <2> QED
    BY <2>1, FS_Subset DEF QueueInv
\* A step of one maker that neither inserts nor queues.
<1> DEFINE Quiet(m) ==
       /\ version' = version /\ queued' = queued /\ at'[m] /= "enqueue"
       /\ \A n \in Makers \ {m} : at'[n] = at[n] /\ app'[n] = app[n] /\ seen'[n] = seen[n]
       /\ faults' >= faults /\ (at[m] = "enqueue" => faults' = faults + 1)
<1>2. ASSUME NEW m \in Makers, Quiet(m) PROVE QueueInv'
  <2>1. Unqueued' = Unqueued
    BY <1>2 DEF Unqueued, Versions
  <2>2. Enqueuing' = Enqueuing \ {m}
    BY <1>2 DEF Enqueuing
  <2>3. Busy' \subseteq Busy \union {m}
    BY <1>2
  <2>4. IsFiniteSet(Busy')
    BY <1>1, <2>3, FS_AddElement, FS_Subset
  <2>5. Cardinality(Unqueued') <= faults' + Cardinality(Enqueuing')
    <3>1. Cardinality(Enqueuing) \in Nat /\ Cardinality(Unqueued) \in Nat
      BY <1>1, FS_CardinalityType
    <3>2. CASE at[m] = "enqueue"
      <4>1. Cardinality(Enqueuing \ {m}) = Cardinality(Enqueuing) - 1
        BY <1>1, <3>2, FS_RemoveElement DEF Enqueuing
      <4>2. Cardinality(Enqueuing') = Cardinality(Enqueuing) - 1 /\ Cardinality(Unqueued') = Cardinality(Unqueued)
        BY <2>1, <2>2, <4>1
      <4>3. faults' = faults + 1 /\ Cardinality(Unqueued) <= faults + Cardinality(Enqueuing)
        BY <1>2, <3>2 DEF QueueInv
      <4> QED
        BY <3>1, <4>2, <4>3
    <3>3. CASE at[m] /= "enqueue"
      <4>1. Enqueuing \ {m} = Enqueuing
        BY <3>3 DEF Enqueuing
      <4>2. Enqueuing' = Enqueuing /\ Unqueued' = Unqueued
        BY <2>1, <2>2, <4>1
      <4>3. faults' >= faults /\ faults \in Nat /\ faults' \in Nat
        BY <1>2
      <4>4. Cardinality(Unqueued) <= faults + Cardinality(Enqueuing)
        BY DEF QueueInv
      <4> QED
        BY <3>1, <4>2, <4>3, <4>4
    <3> QED
      BY <3>2, <3>3
  <2>6. queued' \subseteq Versions'
    BY <1>2 DEF QueueInv, Versions
  <2>7. \A n \in Enqueuing' : n \in Enqueuing /\ app'[n] = app[n] /\ seen'[n] = seen[n]
    BY <1>2, <2>2 DEF Enqueuing
  <2> QED
    BY <1>1, <2>1, <2>4, <2>5, <2>6, <2>7 DEF QueueInv
<1> HIDE DEF Quiet
<1>3. ASSUME NEW d \in Deliveries,
             Store(d) \/ AddDelivery(d) \/ StartDelivery(d) \/ FinishDelivery(d) \/ WorkerDies(d)
      PROVE  QueueInv'
  <2> USE DEF Quiet, TriggersTypeOK
  <2>1. d \in Makers
    BY DEF Makers
  <2>2. CASE Store(d) \/ AddDelivery(d) \/ StartDelivery(d)
    <3>1. Quiet(d)
      BY <2>1, <2>2 DEF Store, AddDelivery, StartDelivery, Begin, Step, loopVars
    <3> QED
      BY <1>2, <2>1, <3>1
  <2>3. CASE FinishDelivery(d)
    <3>1. Quiet(d)
      BY <2>1, <2>3 DEF FinishDelivery, LeaveApp
    <3> QED
      BY <1>2, <2>1, <3>1
  <2>4. CASE WorkerDies(d)
    <3>1. Quiet(d)
      BY <2>1, <2>4 DEF WorkerDies, LeaveApp, Fault
    <3> QED
      BY <1>2, <2>1, <3>1
  <2> QED
    BY <1>3, <2>2, <2>3, <2>4
<1>4. ASSUME NEW m \in Makers,
             StartPush(m) \/ StartUser(m) \/ FinishRequest(m) \/ Admit(m) \/ Visit(m) \/ ReadVersion(m)
      PROVE  QueueInv'
  <2>1. CASE StartPush(m) \/ StartUser(m)
    <3>1. Quiet(m)
      BY <2>1 DEF StartPush, StartUser, Begin, Step, loopVars, Quiet, TriggersTypeOK
    <3> QED
      BY <1>2, <3>1
  <2>2. CASE FinishRequest(m) \/ Admit(m)
    <3>1. Quiet(m)
      BY <2>2 DEF FinishRequest, Admit, Step, LeaveApp, loopVars, Quiet, TriggersTypeOK
    <3> QED
      BY <1>2, <3>1
  <2>3. CASE Visit(m) \/ ReadVersion(m)
    <3>1. Quiet(m)
      BY <2>3 DEF Visit, ReadVersion, Step, loopVars, Quiet, TriggersTypeOK
    <3> QED
      BY <1>2, <3>1
  <2> QED
    BY <1>4, <2>1, <2>2, <2>3
<1>5. ASSUME NEW m \in Makers, Conflict(m) \/ CreationFails(m) \/ RequestDies(m) PROVE QueueInv'
  <2>1. Quiet(m)
    BY <1>5 DEF Conflict, CreationFails, RequestDies, Step, LeaveApp, Fault, loopVars, Quiet, TriggersTypeOK
  <2> QED
    BY <1>2, <2>1
<1>9. ASSUME NEW m \in Makers, Insert(m) PROVE QueueInv'
  <2> DEFINE new == <<app[m], seen[m] + 1>>
  <2> USE <1>9 DEF Insert, Step, TriggersTypeOK
  <2>1. app[m] \in Apps /\ seen[m] = version[app[m]] /\ seen[m] \in Nat
    BY DEF MakerStands, AtApp
  <2>2. Versions' = Versions \union {new}
    <3>1. version'[app[m]] = seen[m] + 1 /\ \A a \in Apps \ {app[m]} : version'[a] = version[a]
      BY <2>1
    <3>2. \A v \in Nat : v \in 1 .. seen[m] + 1 <=> v \in 1 .. seen[m] \/ v = seen[m] + 1
      <4> HIDE DEF Insert, Step, TriggersTypeOK
      <4> QED
        BY <2>1
    <3>3. \A a, v : <<a, v>> \in Versions <=> a \in Apps /\ v \in 1 .. version[a]
      BY DEF Versions
    <3>4. \A a, v : <<a, v>> \in Versions' <=> a \in Apps /\ v \in 1 .. version'[a]
      BY DEF Versions
    <3>5. \A x \in Versions \union Versions' : \E a \in Apps, v \in Nat : x = <<a, v>>
      BY DEF Versions
    <3>6. ASSUME NEW a \in Apps, NEW v \in Nat
          PROVE  <<a, v>> \in Versions' <=> <<a, v>> \in Versions \/ (a = app[m] /\ v = seen[m] + 1)
      <4>1. CASE a = app[m]
        BY <2>1, <3>1, <3>2, <3>3, <3>4, <4>1
      <4>2. CASE a /= app[m]
        BY <3>1, <3>3, <3>4, <4>2
      <4> QED
        BY <4>1, <4>2
    <3>7. new \in Versions'
      BY <2>1, <3>1, <3>4
    <3> QED
      BY <3>5, <3>6, <3>7
  <2>3. new \notin Versions
    BY <2>1 DEF Versions
  <2>4. Unqueued' = Unqueued \union {new} /\ new \notin Unqueued
    <3>1. queued' = queued /\ new \notin queued
      BY <2>3 DEF QueueInv
    <3> HIDE DEF new
    <3> QED
      BY <2>2, <2>3, <3>1 DEF Unqueued
  <2>5. Enqueuing' = Enqueuing \union {m} /\ m \notin Enqueuing
    BY DEF Enqueuing
  <2>6. {n \in Makers : at'[n] /= "idle"} = Busy
    OBVIOUS
  <2>7. /\ IsFiniteSet(Unqueued') /\ Cardinality(Unqueued') = Cardinality(Unqueued) + 1
        /\ Cardinality(Enqueuing') = Cardinality(Enqueuing) + 1
    BY <1>1, <2>4, <2>5, FS_AddElement
  <2>8. Cardinality(Unqueued') <= faults' + Cardinality(Enqueuing')
    <3>1. Cardinality(Enqueuing) \in Nat /\ Cardinality(Unqueued) \in Nat
      BY <1>1, FS_CardinalityType
    <3>2. faults' = faults /\ Cardinality(Unqueued) <= faults + Cardinality(Enqueuing)
      BY DEF QueueInv
    <3> HIDE <1>9 DEF Insert, Step, TriggersTypeOK
    <3> QED
      BY <2>7, <3>1, <3>2
  <2>9. \A n \in Enqueuing : <<app[n], seen[n] + 1>> \in Unqueued /\ (app[n] /= app[m] \/ seen[n] /= seen[m])
    <3>1. \A n \in Enqueuing : <<app[n], seen[n] + 1>> \in Versions
      BY DEF QueueInv, Unqueued
    <3> QED
      BY <2>3, <3>1 DEF QueueInv
  <2>10. /\ \A n \in Enqueuing' : <<app'[n], seen'[n] + 1>> \in Unqueued'
         /\ \A n, o \in Enqueuing' : n /= o => app'[n] /= app'[o] \/ seen'[n] /= seen'[o]
    <3>1. app' = app /\ seen' = seen /\ m \in Makers
      OBVIOUS
    <3> HIDE DEF Insert, Step, TriggersTypeOK
    <3> QED
      BY <2>4, <2>5, <2>9, <3>1 DEF QueueInv
  <2>11. queued' \subseteq Versions'
    BY <2>2 DEF QueueInv
  <2> QED
    BY <1>1, <2>6, <2>7, <2>8, <2>10, <2>11 DEF QueueInv
<1>10. ASSUME NEW m \in Makers, Enqueue(m) PROVE QueueInv'
  <2> DEFINE new == <<app[m], seen[m] + 1>>
  <2> USE <1>10 DEF Enqueue, Step, LeaveApp, TriggersTypeOK
  <2>1. m \in Enqueuing
    BY DEF Enqueuing
  <2>2. new \in Unqueued
    BY <2>1 DEF QueueInv
  <2>3. Unqueued' = Unqueued \ {new} /\ Versions' = Versions
    BY DEF Unqueued, Versions
  <2>4. Enqueuing' = Enqueuing \ {m}
    BY DEF Enqueuing
  <2>5. /\ IsFiniteSet(Unqueued') /\ Cardinality(Unqueued') = Cardinality(Unqueued) - 1
        /\ Cardinality(Enqueuing') = Cardinality(Enqueuing) - 1
    <3>1. IsFiniteSet(Unqueued \ {new}) /\ Cardinality(Unqueued \ {new}) = Cardinality(Unqueued) - 1
      <4> HIDE DEF new, Enqueue, Step, LeaveApp, TriggersTypeOK
      <4> QED
        BY <1>1, <2>2, FS_RemoveElement
    <3>2. Cardinality(Enqueuing \ {m}) = Cardinality(Enqueuing) - 1
      BY <1>1, <2>1, FS_RemoveElement
    <3> QED
      BY <2>3, <2>4, <3>1, <3>2
  <2>6. Cardinality(Unqueued') <= faults' + Cardinality(Enqueuing')
    BY <1>1, <2>5, FS_CardinalityType DEF QueueInv
  <2>7. {n \in Makers : at'[n] /= "idle"} = Busy
    OBVIOUS
  <2>8. \A n \in Enqueuing' : n \in Enqueuing /\ app'[n] = app[n] /\ seen'[n] = seen[n] /\ <<app[n], seen[n] + 1>> /= new
    <3>1. \A n \in Enqueuing' : n \in Enqueuing /\ n /= m /\ app'[n] = app[n] /\ seen'[n] = seen[n]
      BY <2>4 DEF Enqueuing
    <3>2. \A n \in Enqueuing : n /= m => app[n] /= app[m] \/ seen[n] /= seen[m]
      BY <2>1 DEF QueueInv
    <3>3. \A n \in Enqueuing : seen[n] \in Nat /\ seen[m] \in Nat
      BY DEF Enqueuing
    <3>4. \A n \in Enqueuing' : app[n] /= app[m] \/ seen[n] + 1 /= seen[m] + 1
      <4> HIDE DEF Enqueue, Step, LeaveApp, TriggersTypeOK
      <4> QED
        BY <3>1, <3>2, <3>3
    <3> QED
      BY <3>1, <3>4
  <2>9. \A n \in Enqueuing' : <<app'[n], seen'[n] + 1>> \in Unqueued'
    BY <2>3, <2>8 DEF QueueInv
  <2>10. queued' \subseteq Versions'
    BY <2>2, <2>3 DEF QueueInv, Unqueued
  <2> QED
    <3>1. \A n, o \in Enqueuing : n /= o => app[n] /= app[o] \/ seen[n] /= seen[o]
      BY DEF QueueInv
    <3> HIDE DEF Enqueue, Step, LeaveApp, TriggersTypeOK
    <3>2. \A n, o \in Enqueuing' : n /= o => app'[n] /= app'[o] \/ seen'[n] /= seen'[o]
      BY <2>8, <3>1
    <3> QED
      BY <1>1, <2>5, <2>6, <2>7, <2>9, <2>10, <3>2 DEF QueueInv
<1> QED
  BY <1>3, <1>4, <1>5, <1>9, <1>10 DEF TriggersNext, Makers, ApiMakers

\* What a maker did in one pass of its loop, and what kept it from an app, whatever the
\* others did meanwhile: the parts of the invariant hold at first and after every step.
LEMMA TriggersStep ==
    /\ TriggersInit /\ faults = 0 => TriggersInv
    /\ TriggersInv /\ [TriggersNext]_<<triggerVars, faults>> => TriggersInv'
<1>1. ASSUME TriggersInit, faults = 0 PROVE TriggersInv
  <2> USE <1>1, PlacedAssumption, MakerAssumption DEF TriggersInit
  <2>1. TriggersTypeOK
    BY DEF TriggersTypeOK
  <2>2. MakerStands /\ MissInv
    BY DEF MakerStands, MissInv, AtApp, Makers, ApiMakers
  <2>7. MadeOnce
    BY DEF MadeOnce, Deaths, Makers, ApiMakers
  <2>3. Versions = {} /\ Unqueued = {}
    BY DEF Versions, Unqueued
  <2>4. {m \in Makers : at[m] /= "idle"} = {} /\ Enqueuing = {}
    BY DEF Enqueuing
  <2>5. IsFiniteSet({}) /\ Cardinality({}) = 0
    BY FS_EmptySet
  <2>6. QueueInv
    <3>1. queued = {} /\ faults = 0
      OBVIOUS
    <3>2. Cardinality(Unqueued) <= faults + Cardinality(Enqueuing)
      BY <2>3, <2>4, <2>5, <3>1
    <3> HIDE <1>1 DEF TriggersInit
    <3> QED
      BY <2>3, <2>4, <2>5, <3>1, <3>2 DEF QueueInv
  <2> QED
    BY <1>1, <2>1, <2>2, <2>6, <2>7 DEF TriggersInv
<1>2. ASSUME TriggersInv, TriggersNext PROVE TriggersInv'
  <2>1. TriggersTypeOK' /\ faults' \in Nat
    BY <1>2, TriggersTypeKeeps DEF TriggersInv
  <2> QED
    BY <1>2, <2>1, MakerStandsKeeps, MadeOnceKeeps, MissKeeps, QueueKeeps DEF TriggersInv
<1>3. ASSUME TriggersInv, UNCHANGED <<triggerVars, faults>> PROVE TriggersInv'
  BY <1>3 DEF triggerVars, TriggersInv, TriggersTypeOK, MakerStands, MadeOnce, Deaths, Pending, MissInv, OthersMade,
              Excused, QueueInv, Unqueued, Versions, Enqueuing
<1> QED
  BY <1>1, <1>2, <1>3

\* It holds of who deploys at every moment.
LEMMA TriggersKept == TriggersSpec => []TriggersInv
  BY TriggersStep, PTL DEF TriggersSpec

\* A delivery deploys an app once, and once more for every worker that died in its job;
\* a push and a user deploy it at most once and overrun the limit by at most one
\* deployment (processWebhookJob, handlePush, triggerDeployment).
THEOREM MakersDeployOnce == TriggersSpec => []DeploysOnce
<1>1. TriggersInv => DeploysOnce
  BY DEF TriggersInv, MadeOnce, Deaths, DeploysOnce
<1> QED
  BY <1>1, TriggersKept, PTL

\* A delivery or a push passes over an app with a node only if it was overlapped, met a
\* failure or met the limit; and a deployment without a job cost a failure each.
THEOREM MissesHaveCauses == TriggersSpec => []MissHasCause
<1>1. TriggersInv => MissHasCause
  <2> SUFFICES ASSUME TriggersInv PROVE MissHasCause
    OBVIOUS
  <2>1. ASSUME NEW m \in Deliveries \union Pushes, NEW a \in Placed, at[m] = "done", made[m][a] = 0
        PROVE  Excused(m)
    BY <2>1, PlacedAssumption DEF TriggersInv, MissInv, AtApp
  <2>2. Cardinality(Unqueued) <= faults + Cardinality(Enqueuing)
    BY DEF TriggersInv, QueueInv
  <2> QED
    BY <2>1, <2>2 DEF MissHasCause, Excused, OthersMade
<1> QED
  BY <1>1, TriggersKept, PTL

-----------------------------------------------------------------------------
(* Access. While a request is under way what held at each moment is noted, *)
(* so whatever it reads was true at one of them. A role that is put        *)
(* together from several reads is at least that of the last moment if      *)
(* nothing rose, and at least that of the first if nothing fell.           *)

AskStages == {"none", "cookie", "bearer", "unauthorized", "workspace", "orgMember", "wsMember",
           "grants", "permission", "organization", "acted", "denied"}
MomentRows == [known : BOOLEAN, open : BOOLEAN, workspace : Roles, organization : OrgRoles]
AskRows == [at : AskStages, scope : {"workspace", "organization"}, need : Needs \union OrgRoles,
            carries : SUBSET {"cookie", "bearer"}, admin : BOOLEAN, role : Roles, suspended : BOOLEAN,
            moments : SUBSET MomentRows, rose : BOOLEAN, fell : BOOLEAN]

Here == Moment(ask.carries, account, place, team)
Sources == {"organization", "workspace"} \union Teams
AtRoles == {"workspace", "orgMember", "wsMember", "grants", "permission"}

\* The places the request has not read yet.
Unread == CASE ask.at \in {"workspace", "orgMember"} -> Sources
            [] ask.at = "wsMember" -> {"workspace"} \union Teams
            [] ask.at = "grants" -> Teams
            [] OTHER -> {}

AskTypeOK ==
    /\ AccessTypeOK /\ ask \in AskRows
    /\ IF ask.scope = "workspace" THEN ask.need \in Needs ELSE ask.need \in OrgRoles \ {None}

\* Who asks: a token was made in a session, and an ended one never lives again.
AskerInv ==
    /\ account.bearer /= None => account.cookie /= None
    /\ UnderWay => Here \in ask.moments /\ \A c \in ask.carries : account[c] /= None
    /\ ask.at = "bearer" => "cookie" \notin ask.carries \/ account.cookie = "ended"
    /\ ask.at = "unauthorized" => \E m \in ask.moments : ~m.known
    /\ ask.at \in AtRoles \union {"organization"} =>
        /\ \E m \in ask.moments : m.known
        /\ account.cookie /= None /\ ask.admin = account.platform
        /\ ask.at = "organization" <=> ask.scope = "organization"

\* What the request has read.
ReadInv ==
    /\ ask.at \in {"cookie", "bearer", "unauthorized", "workspace"} => ask.role = None
    /\ ask.at \in {"orgMember", "wsMember", "grants"} =>
        /\ ~ask.admin
        /\ \E m \in ask.moments : m.open <=> ~ask.suspended
    /\ ask.at = "permission" => \E m \in ask.moments : m.open
    /\ ask.at = "permission" /\ ask.admin => ask.role = "owner"
    /\ ask.at \in AtRoles /\ ~ask.admin =>
        /\ \E m \in ask.moments : RoleRank(ask.role) <= RoleRank(m.workspace)
        /\ ask.rose \/ \A s \in Sources \ Unread : Weight(place, team, s) <= RoleRank(ask.role)
        /\ ask.fell \/ \E m \in ask.moments :
            \/ RoleRank(m.workspace) <= RoleRank(ask.role)
            \/ \E s \in Unread : RoleRank(m.workspace) <= Weight(place, team, s)

AccessInv == AskTypeOK /\ AskerInv /\ ReadInv /\ AccessHasCause

\* The roles are ordered, and one that is greater permits no less.
LEMMA RoleFacts ==
    /\ \A r \in Roles : RoleRank(r) \in 0 .. 4 /\ (RoleRank(r) = 0 <=> r = None)
    /\ \A r, s \in Roles : RoleRank(r) <= RoleRank(s) => RolePermissions(r) \subseteq RolePermissions(s)
    /\ RolePermissions(None) = {} /\ \A r \in Roles : RoleRank(r) <= RoleRank("owner")
    /\ \A o \in OrgRoles : FromOrg(o) \in Roles /\ OrgRank(o) \in -1 .. 2
    /\ \A r, s \in Roles : /\ MaxRole(r, s) \in {r, s}
                           /\ RoleRank(r) <= RoleRank(MaxRole(r, s)) /\ RoleRank(s) <= RoleRank(MaxRole(r, s))
<1>1. /\ RoleRank(None) = 0 /\ RoleRank("viewer") = 1 /\ RoleRank("developer") = 2
      /\ RoleRank("admin") = 3 /\ RoleRank("owner") = 4
  BY DEF RoleRank, None
<1>2. /\ RolePermissions(None) = {} /\ RolePermissions("viewer") = {"view"}
      /\ RolePermissions("developer") = {"view", "write"}
      /\ RolePermissions("admin") = {"view", "write", "administer"}
      /\ RolePermissions("owner") = {"view", "write", "administer", "own"}
  BY DEF RolePermissions, None, Needs
<1>3. \A r, s \in Roles : RoleRank(r) <= RoleRank(s) => RolePermissions(r) \subseteq RolePermissions(s)
  BY <1>1, <1>2 DEF Roles
<1>4. \A r \in Roles : RoleRank(r) \in 0 .. 4 /\ (RoleRank(r) = 0 <=> r = None) /\ RoleRank(r) <= RoleRank("owner")
  BY <1>1 DEF Roles, None
<1>5. \A o \in OrgRoles : FromOrg(o) \in Roles /\ OrgRank(o) \in -1 .. 2
  BY DEF OrgRoles, Roles, FromOrg, OrgRank, None
<1>6. \A r, s \in Roles : /\ MaxRole(r, s) \in {r, s}
                          /\ RoleRank(r) <= RoleRank(MaxRole(r, s)) /\ RoleRank(s) <= RoleRank(MaxRole(r, s))
  BY <1>4 DEF MaxRole
<1> QED
  BY <1>2, <1>3, <1>4, <1>5, <1>6

\* Of some roles one is the greatest.
LEMMA GreatestRole ==
    ASSUME NEW given \in SUBSET Roles, given /= {}
    PROVE  \E r \in given : \A s \in given : RoleRank(s) <= RoleRank(r)
<1>1. /\ RoleRank(None) = 0 /\ RoleRank("viewer") = 1 /\ RoleRank("developer") = 2
      /\ RoleRank("admin") = 3 /\ RoleRank("owner") = 4
  BY DEF RoleRank, None
<1>2. \A s \in given : s \in {None, "viewer", "developer", "admin", "owner"}
  BY DEF Roles
<1>3. CASE "owner" \in given
  BY <1>1, <1>2, <1>3
<1>4. CASE "owner" \notin given /\ "admin" \in given
  BY <1>1, <1>2, <1>4
<1>5. CASE "owner" \notin given /\ "admin" \notin given /\ "developer" \in given
  BY <1>1, <1>2, <1>5
<1>6. CASE "owner" \notin given /\ "admin" \notin given /\ "developer" \notin given /\ "viewer" \in given
  BY <1>1, <1>2, <1>6
<1>7. CASE given = {None}
  BY <1>7, <1>1
<1> QED
  BY <1>2, <1>3, <1>4, <1>5, <1>6, <1>7

\* A person who is not the platform's administrator stands where the greatest of the places
\* puts him.
LEMMA StandingIs ==
    ASSUME NEW acc, NEW pl \in [org : OrgRoles, workspace : Roles, suspended : BOOLEAN],
           NEW ts \in [Teams -> [live : BOOLEAN, on : BOOLEAN, grant : Roles]], ~acc.platform
    PROVE  /\ Standing(acc, pl, ts) \in Roles
           /\ \A s \in Sources : /\ Weight(pl, ts, s) \in 0 .. 4
                                 /\ Weight(pl, ts, s) <= RoleRank(Standing(acc, pl, ts))
           /\ \E s \in Sources : RoleRank(Standing(acc, pl, ts)) = Weight(pl, ts, s)
<1> DEFINE given == {FromOrg(pl.org), pl.workspace} \union Grants(ts)
           best == Standing(acc, pl, ts)
<1>1. \A t \in Teams : ts[t].grant \in Roles
  OBVIOUS
<1>2. given \in SUBSET Roles /\ given /= {}
  BY <1>1, RoleFacts DEF Grants
<1>3. best \in given /\ \A s \in given : RoleRank(s) <= RoleRank(best)
  <2>1. best = CHOOSE r \in Roles : r \in given /\ \A s \in given : RoleRank(s) <= RoleRank(r)
    BY DEF Standing
  <2>2. \E r \in Roles : r \in given /\ \A s \in given : RoleRank(s) <= RoleRank(r)
    BY <1>2, GreatestRole
  <2> HIDE DEF given, best
  <2> QED
    BY <2>1, <2>2
<1>4. /\ Weight(pl, ts, "organization") = RoleRank(FromOrg(pl.org))
      /\ Weight(pl, ts, "workspace") = RoleRank(pl.workspace)
      /\ \A t \in Teams : Weight(pl, ts, t) = IF ts[t].on THEN RoleRank(ts[t].grant) ELSE 0
  BY AccessAssumption DEF Weight
<1>5. \A t \in Teams : ts[t].on => ts[t].grant \in given
  BY DEF Grants
<1>6. ASSUME NEW s \in Sources PROVE Weight(pl, ts, s) \in 0 .. 4 /\ Weight(pl, ts, s) <= RoleRank(best)
  <2>1. RoleRank(best) \in 0 .. 4
    BY <1>2, <1>3, RoleFacts
  <2>2. RoleRank(FromOrg(pl.org)) <= RoleRank(best) /\ RoleRank(pl.workspace) <= RoleRank(best)
    BY <1>3
  <2>3. RoleRank(FromOrg(pl.org)) \in 0 .. 4 /\ RoleRank(pl.workspace) \in 0 .. 4
    BY RoleFacts
  <2>4. \A t \in Teams : Weight(pl, ts, t) \in 0 .. 4 /\ Weight(pl, ts, t) <= RoleRank(best)
    <3> TAKE t \in Teams
    <3> HIDE DEF best, given
    <3>1. CASE ts[t].on
      BY <1>1, <1>3, <1>4, <1>5, <3>1, RoleFacts
    <3>2. CASE ~ts[t].on
      BY <1>4, <2>1, <3>2
    <3> QED
      BY <3>1, <3>2
  <2> HIDE DEF best, given
  <2> QED
    BY <1>4, <2>2, <2>3, <2>4 DEF Sources
<1>7. \E s \in Sources : RoleRank(best) = Weight(pl, ts, s)
  <2>1. CASE best \in Grants(ts)
    <3>1. PICK t \in Teams : ts[t].on /\ best = ts[t].grant
      BY <2>1 DEF Grants
    <3> QED
      BY <1>4, <3>1 DEF Sources
  <2>2. CASE best \in {FromOrg(pl.org), pl.workspace}
    BY <1>4, <2>2 DEF Sources
  <2> QED
    BY <1>3, <2>1, <2>2
<1> QED
  BY <1>2, <1>3, <1>6, <1>7

Accounts == [cookie : {None, "live", "ended"}, bearer : {None, "live", "ended"}, platform : BOOLEAN]
PlaceRows == [org : OrgRoles, workspace : Roles, suspended : BOOLEAN]
TeamRows == [Teams -> [live : BOOLEAN, on : BOOLEAN, grant : Roles]]

\* A moment is a record of what its name says.
LEMMA MomentIs ==
    ASSUME NEW carries, NEW acc \in Accounts, NEW pl \in PlaceRows, NEW ts \in TeamRows
    PROVE  /\ Moment(carries, acc, pl, ts) \in MomentRows
           /\ Moment(carries, acc, pl, ts).known <=> \E c \in carries : acc[c] = "live"
           /\ Moment(carries, acc, pl, ts).open <=> ~pl.suspended \/ acc.platform
           /\ Moment(carries, acc, pl, ts).workspace = Standing(acc, pl, ts)
           /\ Moment(carries, acc, pl, ts).organization = OrgStanding(acc, pl)
<1>1. Standing(acc, pl, ts) \in Roles
  <2>1. CASE acc.platform
    BY <2>1 DEF Standing, Roles
  <2>2. CASE ~acc.platform
    BY <2>2, StandingIs DEF PlaceRows, TeamRows
  <2> QED
    BY <2>1, <2>2
<1>2. OrgStanding(acc, pl) \in OrgRoles
  BY DEF OrgStanding, OrgRoles, PlaceRows
<1>3. (\E c \in carries : acc[c] = "live") \in BOOLEAN /\ (~pl.suspended \/ acc.platform) \in BOOLEAN
  OBVIOUS
<1> QED
  BY <1>1, <1>2, <1>3 DEF Moment, MomentRows

\* What a write of others changes of a request.
LEMMA TurnNotes ==
    ASSUME AskTypeOK, Turn, account' \in Accounts, place' \in PlaceRows, team' \in TeamRows
    PROVE  /\ turns' \in 0 .. MaxTurns
           /\ ~UnderWay => ask' = ask
           /\ UnderWay => /\ ask' \in AskRows
                          /\ ask'.at = ask.at /\ ask'.scope = ask.scope /\ ask'.need = ask.need
                          /\ ask'.carries = ask.carries /\ ask'.admin = ask.admin /\ ask'.role = ask.role
                          /\ ask'.suspended = ask.suspended
                          /\ ask'.moments = ask.moments \union {Moment(ask.carries, account', place', team')}
                          /\ ask'.rose <=> (\/ ask.rose \/ SomeRises(place, team, place', team')
                                            \/ account.platform /= account'.platform)
                          /\ ask'.fell <=> (ask.fell \/ SomeRises(place', team', place, team))
<1> DEFINE up == ask.rose \/ SomeRises(place, team, place', team') \/ account.platform /= account'.platform
           down == ask.fell \/ SomeRises(place', team', place, team)
           noted == ask.moments \union {Moment(ask.carries, account', place', team')}
<1>1. turns' \in 0 .. MaxTurns
  BY AccessAssumption DEF Turn, AskTypeOK, AccessTypeOK
<1>2. up \in BOOLEAN /\ down \in BOOLEAN
  BY DEF SomeRises
<1>3. noted \in SUBSET MomentRows
  <2>1. Moment(ask.carries, account', place', team') \in MomentRows
    BY MomentIs
  <2>2. ask.moments \in SUBSET MomentRows
    BY DEF AskTypeOK, AskRows
  <2> QED
    BY <2>1, <2>2
<1>4. UnderWay => ask' = [ask EXCEPT !.moments = noted, !.rose = up, !.fell = down]
  BY DEF Turn
<1>5. ask \in AskRows
  BY DEF AskTypeOK
<1>6. ~UnderWay => ask' = ask
  BY DEF Turn
<1>7. ASSUME UnderWay
      PROVE /\ ask' \in AskRows
            /\ ask'.at = ask.at /\ ask'.scope = ask.scope /\ ask'.need = ask.need
            /\ ask'.carries = ask.carries /\ ask'.admin = ask.admin /\ ask'.role = ask.role
            /\ ask'.suspended = ask.suspended /\ ask'.moments = noted /\ (ask'.rose = up) /\ (ask'.fell = down)
  <2> HIDE DEF up, down, noted
  <2> QED
    BY <1>2, <1>3, <1>4, <1>5, <1>7 DEF AskRows
<1> QED
  BY <1>1, <1>6, <1>7

\* A write of others keeps the invariant when it ends no token or session for good, takes back
\* no platform flag from one who has signed in, and makes no token for one who has not.
LEMMA TurnKeeps ==
    ASSUME AccessInv, Turn, account' \in Accounts, place' \in PlaceRows, team' \in TeamRows,
           \A c \in {"cookie", "bearer"} : account[c] /= None => account'[c] /= None,
           account.cookie = "ended" => account'.cookie = "ended",
           account.cookie /= None => account'.platform = account.platform,
           account'.bearer /= None => account'.cookie /= None
    PROVE  AccessInv'
<1>1. CASE ~UnderWay
  <2>1. ask' = ask /\ turns' \in 0 .. MaxTurns
    BY <1>1, TurnNotes DEF AccessInv
  <2>2. AskTypeOK'
    BY <2>1 DEF AccessInv, AskTypeOK, AccessTypeOK, Accounts, PlaceRows, TeamRows
  <2>3. ask.at \in {"none", "acted", "denied"}
    BY <1>1 DEF UnderWay
  <2>4. AskerInv'
    BY <2>1, <2>3 DEF AskerInv, UnderWay, AtRoles
  <2>5. ReadInv'
    BY <2>1, <2>3 DEF ReadInv, AtRoles
  <2>6. AccessHasCause'
    BY <2>1 DEF AccessInv, AccessHasCause
  <2> QED
    BY <2>2, <2>4, <2>5, <2>6 DEF AccessInv
<1>2. CASE UnderWay
  <2>1. /\ turns' \in 0 .. MaxTurns /\ ask' \in AskRows
        /\ ask'.at = ask.at /\ ask'.scope = ask.scope /\ ask'.need = ask.need
        /\ ask'.carries = ask.carries /\ ask'.admin = ask.admin /\ ask'.role = ask.role
        /\ ask'.suspended = ask.suspended /\ ask'.moments = ask.moments \union {Here'}
        /\ ask'.rose <=> (\/ ask.rose \/ SomeRises(place, team, place', team')
                          \/ account.platform /= account'.platform)
        /\ ask'.fell <=> (ask.fell \/ SomeRises(place', team', place, team))
    BY <1>2, TurnNotes DEF AccessInv, Here
  <2>2. AskTypeOK'
    BY <2>1 DEF AccessInv, AskTypeOK, AccessTypeOK, Accounts, PlaceRows, TeamRows, AskRows
  <2>3. UnderWay' /\ ask.at \notin {"none", "acted", "denied"} /\ ask.moments \subseteq ask'.moments
    BY <1>2, <2>1 DEF UnderWay
  <2>4. AskerInv'
    <3>1. (account.bearer /= None => account.cookie /= None)'
      OBVIOUS
    <3>2. Here' \in ask'.moments
      BY <2>1
    <3>3. \A c \in ask'.carries : account'[c] /= None
      BY <1>2, <2>1 DEF AccessInv, AskerInv, AskTypeOK, AskRows
    <3>4. ask'.at = "bearer" => "cookie" \notin ask'.carries \/ account'.cookie = "ended"
      BY <2>1 DEF AccessInv, AskerInv
    <3>5. ask'.at = "unauthorized" => \E m \in ask'.moments : ~m.known
      BY <2>1, <2>3 DEF AccessInv, AskerInv
    <3>6. ask'.at \in AtRoles \union {"organization"} =>
            /\ \E m \in ask'.moments : m.known
            /\ account'.cookie /= None /\ ask'.admin = account'.platform
            /\ (ask'.at = "organization" <=> ask'.scope = "organization")
      BY <2>1, <2>3 DEF AccessInv, AskerInv
    <3> QED
      BY <3>1, <3>2, <3>3, <3>4, <3>5, <3>6 DEF AskerInv
  <2>5. ReadInv'
    <3>1. ask'.at \in {"cookie", "bearer", "unauthorized", "workspace"} => ask'.role = None
      BY <2>1 DEF AccessInv, ReadInv
    <3>2. ask'.at \in {"orgMember", "wsMember", "grants"} =>
            /\ ~ask'.admin
            /\ \E m \in ask'.moments : (m.open <=> ~ask'.suspended)
      BY <2>1, <2>3 DEF AccessInv, ReadInv
    <3>3. ask'.at = "permission" => \E m \in ask'.moments : m.open
      BY <2>1, <2>3 DEF AccessInv, ReadInv
    <3>4. ask'.at = "permission" /\ ask'.admin => ask'.role = "owner"
      BY <2>1 DEF AccessInv, ReadInv
    <3>5. ASSUME ask'.at \in AtRoles, ~ask'.admin
          PROVE /\ \E m \in ask'.moments : RoleRank(ask'.role) <= RoleRank(m.workspace)
                /\ ask'.rose \/ \A s \in Sources \ Unread' : Weight(place', team', s) <= RoleRank(ask'.role)
                /\ ask'.fell \/ \E m \in ask'.moments :
                    \/ RoleRank(m.workspace) <= RoleRank(ask'.role)
                    \/ \E s \in Unread' : RoleRank(m.workspace) <= Weight(place', team', s)
      <4>1. /\ \E m \in ask.moments : RoleRank(ask.role) <= RoleRank(m.workspace)
            /\ ask.rose \/ \A s \in Sources \ Unread : Weight(place, team, s) <= RoleRank(ask.role)
            /\ ask.fell \/ \E m \in ask.moments :
                \/ RoleRank(m.workspace) <= RoleRank(ask.role)
                \/ \E s \in Unread : RoleRank(m.workspace) <= Weight(place, team, s)
        BY <2>1, <3>5 DEF AccessInv, ReadInv
      <4>2. Unread' = Unread /\ Unread \subseteq Sources
        BY <2>1 DEF Unread, Sources
      <4>3. ~account.platform /\ ~account'.platform
        BY <2>1, <3>5 DEF AccessInv, AskerInv
      <4>4. \A s \in Sources : Weight(place, team, s) \in 0 .. 4 /\ Weight(place', team', s) \in 0 .. 4
        <5>1. place \in PlaceRows /\ team \in TeamRows
          BY DEF AccessInv, AskTypeOK, AccessTypeOK, PlaceRows, TeamRows
        <5> QED
          BY <4>3, <5>1, StandingIs DEF PlaceRows, TeamRows
      <4>5. ~ask'.rose => ~ask.rose /\ \A s \in Sources : Weight(place', team', s) <= Weight(place, team, s)
        BY <2>1, <4>4 DEF SomeRises, Sources
      <4>6. ~ask'.fell => ~ask.fell /\ \A s \in Sources : Weight(place, team, s) <= Weight(place', team', s)
        BY <2>1, <4>4 DEF SomeRises, Sources
      <4>7. RoleRank(ask.role) \in 0 .. 4 /\ \A m \in ask.moments : RoleRank(m.workspace) \in 0 .. 4
        BY RoleFacts DEF AccessInv, AskTypeOK, AskRows, MomentRows
      <4>8. ask'.rose \/ \A s \in Sources \ Unread' : Weight(place', team', s) <= RoleRank(ask'.role)
        BY <2>1, <4>1, <4>2, <4>4, <4>5, <4>7
      <4>9. ask'.fell \/ \E m \in ask'.moments :
              \/ RoleRank(m.workspace) <= RoleRank(ask'.role)
              \/ \E s \in Unread' : RoleRank(m.workspace) <= Weight(place', team', s)
        BY <2>1, <2>3, <4>1, <4>2, <4>4, <4>6, <4>7
      <4> QED
        BY <2>1, <2>3, <4>1, <4>8, <4>9
    <3> QED
      BY <3>1, <3>2, <3>3, <3>4, <3>5 DEF ReadInv
  <2>6. AccessHasCause'
    BY <2>1, <2>3 DEF AccessHasCause
  <2> QED
    BY <2>2, <2>4, <2>5, <2>6 DEF AccessInv
<1> QED
  BY <1>1, <1>2

\* No write of others breaks the invariant.
LEMMA WritesKeep ==
    ASSUME AccessInv,
           \/ SetOrgRole \/ SetWorkspaceRole \/ SuspendWorkspace
           \/ \E t \in Teams : CreateTeam(t) \/ DeleteTeam(t) \/ AddTeamMember(t) \/ RemoveTeamMember(t) \/ GrantWorkspace(t)
           \/ Login \/ SessionEnds \/ CreateToken \/ TokenEnds
    PROVE  AccessInv'
<1>1. account \in Accounts /\ place \in PlaceRows /\ team \in TeamRows
  BY DEF AccessInv, AskTypeOK, AccessTypeOK, Accounts, PlaceRows, TeamRows
<1>2. account.bearer /= None => account.cookie /= None
  BY DEF AccessInv, AskerInv
<1>3. ASSUME UNCHANGED account, Turn, place' \in PlaceRows, team' \in TeamRows PROVE AccessInv'
  BY <1>1, <1>2, <1>3, TurnKeeps
<1>4. CASE SetOrgRole
  BY <1>1, <1>3, <1>4 DEF SetOrgRole, PlaceRows
<1>5. CASE SetWorkspaceRole
  BY <1>1, <1>3, <1>5 DEF SetWorkspaceRole, PlaceRows
<1>6. CASE SuspendWorkspace
  BY <1>1, <1>3, <1>6 DEF SuspendWorkspace, PlaceRows
<1>7. ASSUME NEW t \in Teams,
             CreateTeam(t) \/ DeleteTeam(t) \/ AddTeamMember(t) \/ RemoveTeamMember(t) \/ GrantWorkspace(t)
      PROVE AccessInv'
  <2>1. UNCHANGED <<account, place>> /\ Turn
    BY <1>7 DEF CreateTeam, DeleteTeam, AddTeamMember, RemoveTeamMember, GrantWorkspace
  <2>2. team' \in TeamRows
    <3>1. CASE CreateTeam(t)
      BY <1>1, <3>1 DEF CreateTeam, TeamRows
    <3>2. CASE DeleteTeam(t)
      BY <1>1, <3>2 DEF DeleteTeam, TeamRows
    <3>3. CASE AddTeamMember(t)
      BY <1>1, <3>3 DEF AddTeamMember, TeamRows
    <3>4. CASE RemoveTeamMember(t)
      BY <1>1, <3>4 DEF RemoveTeamMember, TeamRows
    <3>5. CASE GrantWorkspace(t)
      BY <1>1, <3>5 DEF GrantWorkspace, TeamRows
    <3> QED
      BY <1>7, <3>1, <3>2, <3>3, <3>4, <3>5
  <2> QED
    BY <1>1, <1>3, <2>1, <2>2
<1>8. CASE Login
  <2>1. PICK known \in BOOLEAN : account' = [account EXCEPT !.cookie = "live", !.platform = @ \/ known]
    BY <1>8 DEF Login
  <2>2. account' \in Accounts /\ account.cookie = None /\ account'.cookie /= None
        /\ account'.bearer = account.bearer
    BY <1>1, <1>8, <2>1 DEF Login, Accounts, None
  <2>3. UNCHANGED <<place, team>> /\ Turn
    BY <1>8 DEF Login
  <2> QED
    BY <1>1, <2>2, <2>3, TurnKeeps DEF None
<1>9. CASE SessionEnds
  <2>1. /\ account' \in Accounts /\ account.cookie = "live" /\ account'.cookie = "ended"
        /\ account'.bearer = account.bearer /\ account'.platform = account.platform
    BY <1>1, <1>9 DEF SessionEnds, Accounts
  <2>2. UNCHANGED <<place, team>> /\ Turn
    BY <1>9 DEF SessionEnds
  <2> QED
    BY <1>1, <2>1, <2>2, TurnKeeps DEF None
<1>10. CASE CreateToken
  <2>1. /\ account' \in Accounts /\ account.cookie = "live" /\ account'.cookie = "live"
        /\ account'.bearer = "live" /\ account'.platform = account.platform
    BY <1>1, <1>10 DEF CreateToken, Accounts
  <2>2. UNCHANGED <<place, team>> /\ Turn
    BY <1>10 DEF CreateToken
  <2> QED
    BY <1>1, <2>1, <2>2, TurnKeeps DEF None
<1>11. CASE TokenEnds
  <2>1. /\ account' \in Accounts /\ account'.cookie = account.cookie /\ account.bearer = "live"
        /\ account'.bearer = "ended" /\ account'.platform = account.platform
    BY <1>1, <1>11 DEF TokenEnds, Accounts
  <2>2. UNCHANGED <<place, team>> /\ Turn
    BY <1>11 DEF TokenEnds
  <2> QED
    BY <1>1, <1>2, <2>1, <2>2, TurnKeeps DEF None
<1> QED
  BY <1>4, <1>5, <1>6, <1>7, <1>8, <1>9, <1>10, <1>11

\* A request that reads some of the places and takes the greatest of their roles has what it
\* needs of those that are left.
LEMMA ReadsKeep ==
    ASSUME AccessInv, ask.at \in AtRoles, ~ask.admin, NEW role \in Roles, NEW rest \in SUBSET Unread,
           RoleRank(ask.role) <= RoleRank(role),
           \A s \in Unread \ rest : Weight(place, team, s) <= RoleRank(role),
           role = ask.role \/ \E s \in Sources : RoleRank(role) <= Weight(place, team, s)
    PROVE  /\ \E m \in ask.moments : RoleRank(role) <= RoleRank(m.workspace)
           /\ ask.rose \/ \A s \in Sources \ rest : Weight(place, team, s) <= RoleRank(role)
           /\ ask.fell \/ \E m \in ask.moments :
               \/ RoleRank(m.workspace) <= RoleRank(role)
               \/ \E s \in rest : RoleRank(m.workspace) <= Weight(place, team, s)
           /\ Here \in ask.moments /\ \E s \in Sources : RoleRank(Here.workspace) = Weight(place, team, s)
<1>1. account \in Accounts /\ place \in PlaceRows /\ team \in TeamRows /\ ask \in AskRows
  BY DEF AccessInv, AskTypeOK, AccessTypeOK, Accounts, PlaceRows, TeamRows
<1>2. Here \in ask.moments /\ ~account.platform
  BY DEF AccessInv, AskerInv, UnderWay, AtRoles
<1>3. Here.workspace = Standing(account, place, team)
  BY <1>1, MomentIs DEF Here
<1>4. /\ \A s \in Sources : Weight(place, team, s) \in 0 .. 4 /\ Weight(place, team, s) <= RoleRank(Here.workspace)
      /\ \E s \in Sources : RoleRank(Here.workspace) = Weight(place, team, s)
  BY <1>1, <1>2, <1>3, StandingIs DEF PlaceRows, TeamRows
<1>5. /\ \E m \in ask.moments : RoleRank(ask.role) <= RoleRank(m.workspace)
      /\ ask.rose \/ \A s \in Sources \ Unread : Weight(place, team, s) <= RoleRank(ask.role)
      /\ ask.fell \/ \E m \in ask.moments :
          \/ RoleRank(m.workspace) <= RoleRank(ask.role)
          \/ \E s \in Unread : RoleRank(m.workspace) <= Weight(place, team, s)
  BY DEF AccessInv, ReadInv
<1>6. /\ RoleRank(role) \in 0 .. 4 /\ RoleRank(ask.role) \in 0 .. 4
      /\ \A m \in ask.moments : RoleRank(m.workspace) \in 0 .. 4
  BY <1>1, RoleFacts DEF AskRows, MomentRows
<1>7. Unread \subseteq Sources
  BY DEF Unread, Sources
<1>8. \E m \in ask.moments : RoleRank(role) <= RoleRank(m.workspace)
  BY <1>2, <1>4, <1>5, <1>6
<1>9. ask.rose \/ \A s \in Sources \ rest : Weight(place, team, s) <= RoleRank(role)
  BY <1>4, <1>5, <1>6, <1>7
<1>10. ask.fell \/ \E m \in ask.moments :
         \/ RoleRank(m.workspace) <= RoleRank(role)
         \/ \E s \in rest : RoleRank(m.workspace) <= Weight(place, team, s)
  BY <1>4, <1>5, <1>6, <1>7
<1> QED
  BY <1>2, <1>4, <1>8, <1>9, <1>10

\* A step of the request changes nothing but the request.
LEMMA StillKeeps ==
    ASSUME AccessInv, Still, ask' \in AskRows, ask'.scope = ask.scope, ask'.need = ask.need,
           ask'.carries = ask.carries, ask'.moments = ask.moments, ask.at \notin {"none", "acted", "denied"}
    PROVE  /\ AskTypeOK' /\ Here' = Here /\ Here' \in ask'.moments
           /\ \A c \in ask'.carries : account'[c] /= None
           /\ (account'.bearer /= None => account'.cookie /= None)
<1>1. AskTypeOK'
  BY DEF AccessInv, AskTypeOK, AccessTypeOK, Still, AskRows
<1>2. Here' = Here
  BY DEF Here, Still
<1> QED
  BY <1>1, <1>2 DEF AccessInv, AskerInv, UnderWay, Still

\* The request begins, and finds out who asks.
LEMMA AskerKeeps ==
    ASSUME AccessInv, Ask \/ ResolveSession \/ ResolveToken \/ Unauthorized
    PROVE  AccessInv'
<1>1. account \in Accounts /\ place \in PlaceRows /\ team \in TeamRows /\ ask \in AskRows
  BY DEF AccessInv, AskTypeOK, AccessTypeOK, Accounts, PlaceRows, TeamRows
<1>2. CASE Ask
  <2>1. PICK scope \in {"workspace", "organization"}, carries \in SUBSET {c \in {"cookie", "bearer"} : account[c] /= None},
             need \in Needs \union OrgRoles :
          /\ IF scope = "workspace" THEN need \in Needs ELSE need \in OrgRoles \ {None}
          /\ ask' = [NoAsk EXCEPT !.at = "cookie", !.scope = scope, !.carries = carries, !.need = need,
                                  !.moments = {Moment(carries, account, place, team)}]
    BY <1>2 DEF Ask
  <2>2. Moment(carries, account, place, team) \in MomentRows
    BY <1>1, MomentIs
  <2>3. /\ ask' \in AskRows /\ ask'.at = "cookie" /\ ask'.scope = scope /\ ask'.need = need
        /\ ask'.carries = carries /\ ask'.role = None
        /\ ask'.moments = {Moment(carries, account, place, team)}
    BY <2>1, <2>2 DEF NoAsk, AskRows, AskStages, Roles, None
  <2>4. UNCHANGED <<account, place, team, turns>>
    BY <1>2 DEF Ask, Still
  <2>5. AskTypeOK'
    BY <1>1, <2>1, <2>3, <2>4 DEF AccessInv, AskTypeOK, AccessTypeOK, AskRows
  <2>6. AskerInv'
    BY <2>3, <2>4 DEF AccessInv, AskerInv, Here, AtRoles
  <2>7. ReadInv'
    BY <2>3 DEF ReadInv, AtRoles
  <2>8. AccessHasCause'
    BY <2>3 DEF AccessHasCause
  <2> QED
    BY <2>5, <2>6, <2>7, <2>8 DEF AccessInv
<1>3. ASSUME NEW c \in {"cookie", "bearer"}, NEW else, Resolve(c, else),
             else = IF c = "cookie" THEN "bearer" ELSE "unauthorized"
      PROVE AccessInv'
  <2>1. Still /\ ask.at = c /\ ask.role = None /\ ask.at \notin {"none", "acted", "denied"}
    BY <1>3 DEF Resolve, AccessInv, ReadInv
  <2>2. Here \in ask.moments /\ \A d \in ask.carries : account[d] /= None
    BY <2>1 DEF AccessInv, AskerInv, UnderWay
  <2>3. /\ Here.known <=> \E d \in ask.carries : account[d] = "live"
        /\ Here.workspace = Standing(account, place, team)
    BY <1>1, MomentIs DEF Here
  <2>4. CASE c \in ask.carries /\ account[c] = "live"
    <3>1. ask' = [ask EXCEPT !.at = ask.scope, !.admin = account.platform]
      BY <1>3, <2>4 DEF Resolve
    <3>2. /\ ask' \in AskRows /\ ask'.at = ask.scope /\ ask'.admin = account.platform /\ ask'.role = None
          /\ ask'.scope = ask.scope /\ ask'.need = ask.need /\ ask'.carries = ask.carries
          /\ ask'.moments = ask.moments /\ ask'.rose = ask.rose /\ ask'.fell = ask.fell
      BY <1>1, <2>1, <3>1 DEF AskRows, Accounts, AskStages
    <3>3. /\ AskTypeOK' /\ Here' = Here /\ Here' \in ask'.moments
          /\ \A d \in ask'.carries : account'[d] /= None
          /\ (account'.bearer /= None => account'.cookie /= None)
      BY <2>1, <3>2, StillKeeps
    <3>4. UNCHANGED <<account, place, team>>
      BY <2>1 DEF Still
    <3>5. account.cookie /= None
      BY <2>4 DEF AccessInv, AskerInv, None
    <3>6. AskerInv'
      BY <1>1, <2>2, <2>3, <2>4, <3>2, <3>3, <3>4, <3>5 DEF AskerInv, AskRows
    <3>7. ReadInv'
      <4>1. ASSUME ask'.at \in AtRoles, ~ask'.admin
            PROVE /\ \E m \in ask'.moments : RoleRank(ask'.role) <= RoleRank(m.workspace)
                  /\ Sources \ Unread' = {}
                  /\ \E m \in ask'.moments : \E s \in Unread' : RoleRank(m.workspace) <= Weight(place', team', s)
        <5>1. ask'.at = "workspace"
          BY <1>1, <3>2, <4>1 DEF AtRoles, AskRows
        <5>2. Unread' = Sources
          BY <5>1 DEF Unread
        <5>3. \E s \in Sources : RoleRank(Here.workspace) = Weight(place, team, s) /\ Weight(place, team, s) \in 0 .. 4
          BY <1>1, <2>3, <3>2, <4>1, StandingIs DEF PlaceRows, TeamRows
        <5>4. RoleRank(None) = 0
          BY RoleFacts DEF Roles
        <5> QED
          BY <2>2, <3>2, <3>4, <5>2, <5>3, <5>4
      <4>2. ask'.at \in {"workspace", "organization"}
        BY <1>1, <3>2 DEF AskRows
      <4> QED
        BY <3>2, <4>1, <4>2 DEF ReadInv
    <3>8. AccessHasCause'
      BY <1>1, <3>2 DEF AccessHasCause, AskRows
    <3> QED
      BY <3>3, <3>6, <3>7, <3>8 DEF AccessInv
  <2>5. CASE ~(c \in ask.carries /\ account[c] = "live")
    <3>1. ask' = [ask EXCEPT !.at = else]
      BY <1>3, <2>5 DEF Resolve
    <3>2. /\ ask' \in AskRows /\ ask'.at = else /\ ask'.role = None
          /\ ask'.scope = ask.scope /\ ask'.need = ask.need /\ ask'.carries = ask.carries
          /\ ask'.moments = ask.moments
      BY <1>1, <1>3, <2>1, <3>1 DEF AskRows, AskStages
    <3>3. /\ AskTypeOK' /\ Here' = Here /\ Here' \in ask'.moments
          /\ \A d \in ask'.carries : account'[d] /= None
          /\ (account'.bearer /= None => account'.cookie /= None)
      BY <2>1, <3>2, StillKeeps
    <3>4. UNCHANGED <<account, place, team>>
      BY <2>1 DEF Still
    <3>5. c = "cookie" => "cookie" \notin ask.carries \/ account.cookie = "ended"
      BY <1>1, <2>2, <2>5 DEF Accounts
    <3>6. c = "bearer" => ~Here.known
      <4>1. c = "bearer" => "cookie" \notin ask.carries \/ account.cookie = "ended"
        BY <2>1 DEF AccessInv, AskerInv
      <4> QED
        BY <1>1, <2>3, <2>5, <4>1 DEF AskRows
    <3>7. AskerInv'
      BY <1>3, <2>2, <3>2, <3>3, <3>4, <3>5, <3>6 DEF AskerInv, AtRoles
    <3>8. ReadInv'
      BY <1>3, <3>2 DEF ReadInv, AtRoles
    <3>9. AccessHasCause'
      BY <1>3, <3>2 DEF AccessHasCause
    <3> QED
      BY <3>3, <3>7, <3>8, <3>9 DEF AccessInv
  <2> QED
    BY <2>4, <2>5
<1>4. CASE ResolveSession
  BY <1>3, <1>4 DEF ResolveSession
<1>5. CASE ResolveToken
  BY <1>3, <1>5 DEF ResolveToken
<1>6. CASE Unauthorized
  <2>1. /\ Still /\ ask.at = "unauthorized" /\ ask' \in AskRows /\ ask'.at = "denied"
        /\ ask'.scope = ask.scope /\ ask'.need = ask.need /\ ask'.carries = ask.carries
        /\ ask'.moments = ask.moments
    BY <1>1, <1>6 DEF Unauthorized, AskGoes, AskRows, AskStages
  <2>2. AskTypeOK' /\ (account'.bearer /= None => account'.cookie /= None)
    BY <2>1, StillKeeps
  <2>3. \E m \in ask.moments : ~m.known
    BY <2>1 DEF AccessInv, AskerInv
  <2>4. AskerInv'
    BY <2>1, <2>2 DEF AskerInv, UnderWay, AtRoles
  <2>5. ReadInv'
    BY <2>1 DEF ReadInv, AtRoles
  <2>6. AccessHasCause'
    BY <2>1, <2>3 DEF AccessHasCause
  <2> QED
    BY <2>2, <2>4, <2>5, <2>6 DEF AccessInv
<1> QED
  BY <1>2, <1>4, <1>5, <1>6

\* The request finds its role in a workspace and asks what that permits.
LEMMA RoleKeeps ==
    ASSUME AccessInv, ReadWorkspace \/ ReadOrgMember \/ ReadWorkspaceMember \/ ReadGrants \/ AssertPermission
    PROVE  AccessInv'
<1>1. account \in Accounts /\ place \in PlaceRows /\ team \in TeamRows /\ ask \in AskRows
  BY DEF AccessInv, AskTypeOK, AccessTypeOK, Accounts, PlaceRows, TeamRows
<1>2. ask.at \in AtRoles /\ Still /\ ask.at \notin {"none", "acted", "denied"}
  BY DEF ReadWorkspace, ReadOrgMember, ReadWorkspaceMember, ReadGrants, AssertPermission, AtRoles
<1>3. /\ \E m \in ask.moments : m.known
      /\ account.cookie /= None /\ ask.admin = account.platform /\ ask.scope = "workspace"
      /\ Here \in ask.moments
  BY <1>1, <1>2 DEF AccessInv, AskerInv, UnderWay, AtRoles, AskRows
<1>4. /\ Here.open <=> ~place.suspended \/ account.platform
      /\ Here.workspace = Standing(account, place, team)
  BY <1>1, MomentIs DEF Here
<1>5. ASSUME ask' \in AskRows, ask'.scope = ask.scope, ask'.need = ask.need, ask'.carries = ask.carries,
             ask'.moments = ask.moments, ask'.admin = ask.admin, ask'.at \in AtRoles \union {"acted", "denied"}
      PROVE /\ AskTypeOK' /\ AskerInv'
            /\ UNCHANGED <<account, place, team>>
  <2>1. /\ AskTypeOK' /\ Here' = Here /\ Here' \in ask'.moments
        /\ \A d \in ask'.carries : account'[d] /= None
        /\ (account'.bearer /= None => account'.cookie /= None)
    BY <1>2, <1>5, StillKeeps
  <2>2. UNCHANGED <<account, place, team>>
    BY <1>2 DEF Still
  <2> QED
    BY <1>3, <1>5, <2>1, <2>2 DEF AskerInv, AtRoles
<1>6. RoleRank(None) = 0 /\ None \in Roles
  BY RoleFacts DEF Roles
<1>7. /\ Weight(place, team, "organization") = RoleRank(FromOrg(place.org))
      /\ Weight(place, team, "workspace") = RoleRank(place.workspace)
      /\ \A t \in Teams : Weight(place, team, t) = IF team[t].on THEN RoleRank(team[t].grant) ELSE 0
  BY AccessAssumption DEF Weight
<1>8. FromOrg(place.org) \in Roles /\ place.workspace \in Roles /\ ask.role \in Roles
  BY <1>1, RoleFacts DEF PlaceRows, AskRows
<1>9. CASE ReadWorkspace
  <2>1. CASE ask.admin
    <3>1. /\ ask' \in AskRows /\ ask'.scope = ask.scope /\ ask'.need = ask.need /\ ask'.carries = ask.carries
          /\ ask'.moments = ask.moments /\ ask'.admin = ask.admin /\ ask'.at = "permission" /\ ask'.role = "owner"
      <4>1. ask' = [ask EXCEPT !.at = "permission", !.role = "owner"]
        BY <1>9, <2>1 DEF ReadWorkspace
      <4>2. "owner" \in Roles /\ "permission" \in AskStages
        BY DEF Roles, AskStages
      <4> QED
        BY <1>1, <4>1, <4>2 DEF AskRows
    <3>2. AskTypeOK' /\ AskerInv'
      BY <1>5, <3>1 DEF AtRoles
    <3>3. ReadInv'
      BY <1>3, <1>4, <2>1, <3>1 DEF ReadInv, AtRoles
    <3>4. AccessHasCause'
      BY <3>1 DEF AccessHasCause
    <3> QED
      BY <3>2, <3>3, <3>4 DEF AccessInv
  <2>2. CASE ~ask.admin
    <3>1. /\ ask' \in AskRows /\ ask'.scope = ask.scope /\ ask'.need = ask.need /\ ask'.carries = ask.carries
          /\ ask'.moments = ask.moments /\ ask'.admin = ask.admin /\ ask'.at = "orgMember" /\ ask'.role = ask.role
          /\ ask'.suspended = place.suspended /\ ask'.rose = ask.rose /\ ask'.fell = ask.fell
      <4>1. ask' = [ask EXCEPT !.at = "orgMember", !.suspended = place.suspended]
        BY <1>9, <2>2 DEF ReadWorkspace
      <4>2. place.suspended \in BOOLEAN /\ "orgMember" \in AskStages
        BY <1>1 DEF PlaceRows, AskStages
      <4> QED
        BY <1>1, <4>1, <4>2 DEF AskRows
    <3>2. AskTypeOK' /\ AskerInv' /\ UNCHANGED <<account, place, team>>
      BY <1>5, <3>1 DEF AtRoles
    <3>3. Unread = Sources /\ Unread' = Sources
      BY <1>9, <3>1 DEF ReadWorkspace, Unread
    <3>4. ReadInv'
      <4>1. /\ \E m \in ask.moments : RoleRank(ask.role) <= RoleRank(m.workspace)
            /\ ask.rose \/ \A s \in Sources \ Unread : Weight(place, team, s) <= RoleRank(ask.role)
            /\ ask.fell \/ \E m \in ask.moments :
                \/ RoleRank(m.workspace) <= RoleRank(ask.role)
                \/ \E s \in Unread : RoleRank(m.workspace) <= Weight(place, team, s)
        BY <1>2, <2>2 DEF AccessInv, ReadInv
      <4> QED
        BY <1>3, <1>4, <2>2, <3>1, <3>2, <3>3, <4>1 DEF ReadInv, AtRoles
    <3>5. AccessHasCause'
      BY <3>1 DEF AccessHasCause
    <3> QED
      BY <3>2, <3>4, <3>5 DEF AccessInv
  <2> QED
    BY <2>1, <2>2
<1>10. ASSUME NEW given \in Roles, NEW from \in Sources, Weight(place, team, from) = RoleRank(given),
              ask.at \in {"orgMember", "wsMember"},
              Unread \subseteq {from} \union Unread', Unread' \subseteq Unread,
              ask' = [ask EXCEPT !.at = IF ask.at = "orgMember" THEN "wsMember" ELSE "grants", !.role = MaxRole(@, given)]
       PROVE AccessInv'
  <2>1. /\ ask' \in AskRows /\ ask'.scope = ask.scope /\ ask'.need = ask.need /\ ask'.carries = ask.carries
        /\ ask'.moments = ask.moments /\ ask'.admin = ask.admin /\ ask'.at \in {"wsMember", "grants"}
        /\ ask'.role = MaxRole(ask.role, given) /\ ask'.suspended = ask.suspended
        /\ ask'.rose = ask.rose /\ ask'.fell = ask.fell
    <3>1. MaxRole(ask.role, given) \in Roles
      BY <1>8, RoleFacts
    <3> QED
      BY <1>1, <1>10, <3>1 DEF AskRows, AskStages
  <2>2. AskTypeOK' /\ AskerInv' /\ UNCHANGED <<account, place, team>>
    BY <1>5, <2>1 DEF AtRoles
  <2>3. /\ ask'.role \in {ask.role, given} /\ ask'.role \in Roles
        /\ RoleRank(ask.role) <= RoleRank(ask'.role) /\ RoleRank(given) <= RoleRank(ask'.role)
    BY <1>8, <2>1, RoleFacts
  <2>4. ~ask.admin /\ \E m \in ask.moments : (m.open <=> ~ask.suspended)
    BY <1>10 DEF AccessInv, ReadInv
  <2>5. RoleRank(given) \in 0 .. 4
    BY RoleFacts
  <2>6. /\ \E m \in ask.moments : RoleRank(ask'.role) <= RoleRank(m.workspace)
        /\ ask.rose \/ \A s \in Sources \ Unread' : Weight(place, team, s) <= RoleRank(ask'.role)
        /\ ask.fell \/ \E m \in ask.moments :
            \/ RoleRank(m.workspace) <= RoleRank(ask'.role)
            \/ \E s \in Unread' : RoleRank(m.workspace) <= Weight(place, team, s)
    <3>1. \A s \in Unread \ Unread' : Weight(place, team, s) <= RoleRank(ask'.role)
      BY <1>10, <2>3
    <3>2. ask'.role = ask.role \/ \E s \in Sources : RoleRank(ask'.role) <= Weight(place, team, s)
      BY <1>10, <2>3, <2>5
    <3> QED
      BY <1>2, <1>10, <2>3, <2>4, <3>1, <3>2, ReadsKeep
  <2>7. ReadInv'
    BY <2>1, <2>2, <2>4, <2>6 DEF ReadInv
  <2>8. AccessHasCause'
    BY <2>1 DEF AccessHasCause
  <2> QED
    BY <2>2, <2>7, <2>8 DEF AccessInv
<1>11. CASE ReadOrgMember
  <2>1. /\ ask.at = "orgMember"
        /\ ask' = [ask EXCEPT !.at = "wsMember", !.role = MaxRole(@, FromOrg(place.org))]
    BY <1>11 DEF ReadOrgMember
  <2>2. ask'.at = "wsMember"
    BY <1>1, <2>1 DEF AskRows
  <2>3. Unread = Sources /\ Unread' = {"workspace"} \union Teams
    BY <2>1, <2>2 DEF Unread
  <2> QED
    BY <1>7, <1>8, <1>10, <2>1, <2>3 DEF Sources
<1>12. CASE ReadWorkspaceMember
  <2>1. /\ ask.at = "wsMember"
        /\ ask' = [ask EXCEPT !.at = "grants", !.role = MaxRole(@, place.workspace)]
    BY <1>12 DEF ReadWorkspaceMember
  <2>2. ask'.at = "grants"
    BY <1>1, <2>1 DEF AskRows
  <2>3. Unread = {"workspace"} \union Teams /\ Unread' = Teams
    BY <2>1, <2>2 DEF Unread
  <2> QED
    BY <1>7, <1>8, <1>10, <2>1, <2>3 DEF Sources
<1>13. CASE ReadGrants
  <2> DEFINE best == CHOOSE r \in Grants(team) \union {None} : \A s \in Grants(team) : RoleRank(s) <= RoleRank(r)
             role == MaxRole(ask.role, best)
  <2>1. /\ ask.at = "grants"
        /\ ask' = [ask EXCEPT !.role = role, !.at = IF role = None \/ ask.suspended THEN "denied" ELSE "permission"]
    BY <1>13 DEF ReadGrants
  <2>2. Grants(team) \subseteq Roles /\ \A r \in Grants(team) : \E t \in Teams : team[t].on /\ team[t].grant = r
    BY <1>1 DEF Grants, TeamRows
  <2>3. best \in Grants(team) \union {None} /\ \A s \in Grants(team) : RoleRank(s) <= RoleRank(best)
    <3>1. \E r \in Grants(team) \union {None} : \A s \in Grants(team) \union {None} : RoleRank(s) <= RoleRank(r)
      <4> DEFINE given == Grants(team) \union {None}
      <4>1. given \in SUBSET Roles /\ given /= {}
        BY <1>6, <2>2
      <4> HIDE DEF given
      <4>2. \E r \in given : \A s \in given : RoleRank(s) <= RoleRank(r)
        BY <4>1, GreatestRole
      <4> QED
        BY <4>2 DEF given
    <3> QED
      BY <3>1
  <2>4. best \in Roles
    BY <1>6, <2>2, <2>3
  <2>5. \E s \in Sources : RoleRank(best) <= Weight(place, team, s)
    <3>1. CASE best \in Grants(team)
      <4>1. PICK t \in Teams : team[t].on /\ team[t].grant = best
        BY <2>2, <3>1
      <4>2. Weight(place, team, t) = RoleRank(best) /\ RoleRank(best) \in 0 .. 4
        BY <1>7, <2>4, <4>1, RoleFacts
      <4> HIDE DEF best
      <4>3. RoleRank(best) <= Weight(place, team, t)
        BY <4>2
      <4> QED
        BY <4>3 DEF Sources
    <3>2. CASE best = None
      <4>1. RoleRank(place.workspace) \in 0 .. 4
        BY <1>8, RoleFacts
      <4> HIDE DEF best
      <4> QED
        BY <1>6, <1>7, <3>2, <4>1 DEF Sources
    <3> QED
      BY <2>3, <3>1, <3>2
  <2>6. \A t \in Teams : Weight(place, team, t) <= RoleRank(best)
    <3> TAKE t \in Teams
    <3>1. RoleRank(best) \in 0 .. 4
      BY <2>4, RoleFacts
    <3>2. CASE team[t].on
      <4>1. team[t].grant \in Grants(team)
        BY <3>2 DEF Grants
      <4> QED
        BY <1>7, <2>3, <3>2, <4>1
    <3>3. CASE ~team[t].on
      <4> HIDE DEF best
      <4> QED
        BY <1>7, <3>1, <3>3
    <3> QED
      BY <3>2, <3>3
  <2> HIDE DEF best
  <2>7. /\ role \in {ask.role, best} /\ role \in Roles
        /\ RoleRank(ask.role) <= RoleRank(role) /\ RoleRank(best) <= RoleRank(role)
        /\ RoleRank(ask.role) \in 0 .. 4 /\ RoleRank(best) \in 0 .. 4 /\ RoleRank(role) \in 0 .. 4
    BY <1>8, <2>4, RoleFacts
  <2> HIDE DEF role
  <2>8. Unread = Teams
    BY <2>1 DEF Unread
  <2>9. ~ask.admin /\ \E m \in ask.moments : (m.open <=> ~ask.suspended)
    BY <2>1 DEF AccessInv, ReadInv
  <2>10. \A t \in Teams : Weight(place, team, t) \in 0 .. 4
    BY <1>1, <1>3, <2>9, StandingIs DEF PlaceRows, TeamRows, Sources
  <2>11. /\ \E m \in ask.moments : RoleRank(role) <= RoleRank(m.workspace)
         /\ ask.rose \/ \A s \in Sources : Weight(place, team, s) <= RoleRank(role)
         /\ ask.fell \/ \E m \in ask.moments : RoleRank(m.workspace) <= RoleRank(role)
         /\ \E s \in Sources : RoleRank(Here.workspace) = Weight(place, team, s)
    <3>1. \A s \in Unread \ {} : Weight(place, team, s) <= RoleRank(role)
      BY <2>6, <2>7, <2>8, <2>10
    <3>2. role = ask.role \/ \E s \in Sources : RoleRank(role) <= Weight(place, team, s)
      BY <2>5, <2>7
    <3>3. /\ \E m \in ask.moments : RoleRank(role) <= RoleRank(m.workspace)
          /\ ask.rose \/ \A s \in Sources \ {} : Weight(place, team, s) <= RoleRank(role)
          /\ ask.fell \/ \E m \in ask.moments :
              \/ RoleRank(m.workspace) <= RoleRank(role)
              \/ \E s \in {} : RoleRank(m.workspace) <= Weight(place, team, s)
          /\ \E s \in Sources : RoleRank(Here.workspace) = Weight(place, team, s)
      <4>1. {} \in SUBSET Unread
        OBVIOUS
      <4> QED
        BY <1>2, <2>7, <2>9, <3>1, <3>2, <4>1, ReadsKeep
    <3> QED
      BY <3>3
  <2>12. /\ ask' \in AskRows /\ ask'.scope = ask.scope /\ ask'.need = ask.need /\ ask'.carries = ask.carries
         /\ ask'.moments = ask.moments /\ ask'.admin = ask.admin /\ ask'.role = role
         /\ ask'.rose = ask.rose /\ ask'.fell = ask.fell
         /\ ask'.at = IF role = None \/ ask.suspended THEN "denied" ELSE "permission"
    BY <1>1, <2>1, <2>7 DEF AskRows, AskStages
  <2>13. AskTypeOK' /\ AskerInv' /\ UNCHANGED <<account, place, team>>
    BY <1>5, <2>12 DEF AtRoles
  <2>14. CASE ~(role = None \/ ask.suspended)
    <3>1. ask'.at = "permission"
      BY <2>12, <2>14
    <3>2. ReadInv'
      BY <2>9, <2>11, <2>12, <2>13, <2>14, <3>1 DEF ReadInv
    <3>3. AccessHasCause'
      BY <3>1 DEF AccessHasCause
    <3> QED
      BY <2>13, <3>2, <3>3 DEF AccessInv
  <2>15. CASE role = None \/ ask.suspended
    <3>1. ask'.at = "denied"
      BY <2>12, <2>15
    <3>2. ReadInv'
      BY <3>1 DEF ReadInv, AtRoles
    <3>3. AccessHasCause'
      <4>1. CASE ask.suspended
        BY <1>3, <2>9, <2>12, <3>1, <4>1 DEF AccessHasCause
      <4>2. CASE role = None
        <5>1. \A m \in ask.moments : m.workspace \in Roles /\ (RoleRank(m.workspace) <= 0 => m.workspace = None)
          BY <1>1, RoleFacts DEF AskRows, MomentRows
        <5>2. (ask.rose /\ ask.fell) \/ \E m \in ask.moments : m.workspace = None
          <6>1. ASSUME ~ask.rose PROVE RoleRank(Here.workspace) <= 0
            BY <1>6, <2>11, <4>2, <6>1
          <6> QED
            BY <1>3, <1>6, <2>11, <4>2, <5>1, <6>1
        <5>3. RolePermissions(None) = {}
          BY RoleFacts
        <5> QED
          BY <1>3, <2>12, <3>1, <5>2, <5>3 DEF AccessHasCause
      <4> QED
        BY <2>15, <4>1, <4>2
    <3> QED
      BY <2>13, <3>2, <3>3 DEF AccessInv
  <2> QED
    BY <2>14, <2>15
<1>14. CASE AssertPermission
  <2>1. /\ ask.at = "permission"
        /\ ask' = [ask EXCEPT !.at = IF ask.need \in RolePermissions(ask.role) THEN "acted" ELSE "denied"]
    BY <1>14 DEF AssertPermission, AskGoes
  <2>2. /\ ask' \in AskRows /\ ask'.scope = ask.scope /\ ask'.need = ask.need /\ ask'.carries = ask.carries
        /\ ask'.moments = ask.moments /\ ask'.admin = ask.admin /\ ask'.rose = ask.rose /\ ask'.fell = ask.fell
        /\ ask'.at = IF ask.need \in RolePermissions(ask.role) THEN "acted" ELSE "denied"
    BY <1>1, <2>1 DEF AskRows, AskStages
  <2>3. AskTypeOK' /\ AskerInv'
    BY <1>5, <2>2 DEF AtRoles
  <2>4. ReadInv'
    BY <2>2 DEF ReadInv, AtRoles
  <2>5. \A m \in ask.moments : m.workspace \in Roles /\ RoleRank(m.workspace) \in 0 .. 4
    BY <1>1, RoleFacts DEF AskRows, MomentRows
  <2>6. \A r, s \in Roles : RoleRank(r) <= RoleRank(s) => RolePermissions(r) \subseteq RolePermissions(s)
    BY RoleFacts
  <2>7. \E m \in ask.moments : m.open
    BY <2>1 DEF AccessInv, ReadInv
  <2>8. CASE ask.need \in RolePermissions(ask.role)
    <3>1. ask'.at = "acted"
      BY <2>2, <2>8
    <3>2. \E m \in ask.moments : ask.need \in RolePermissions(m.workspace)
      <4>1. CASE ask.admin
        <5>1. Here.workspace = "owner" /\ ask.role = "owner"
          BY <1>3, <1>4, <2>1, <4>1 DEF Standing, AccessInv, ReadInv
        <5> QED
          BY <1>3, <2>8, <5>1
      <4>2. CASE ~ask.admin
        <5>1. \E m \in ask.moments : RoleRank(ask.role) <= RoleRank(m.workspace)
          BY <1>2, <4>2 DEF AccessInv, ReadInv
        <5> QED
          BY <1>8, <2>5, <2>6, <2>8, <5>1
      <4> QED
        BY <4>1, <4>2
    <3> QED
      BY <1>3, <2>2, <2>3, <2>4, <2>7, <3>1, <3>2 DEF AccessInv, AccessHasCause
  <2>9. CASE ask.need \notin RolePermissions(ask.role)
    <3>1. ask'.at = "denied"
      BY <2>2, <2>9
    <3>2. ~ask.admin
      <4>1. ask.need \in Needs
        BY <1>3 DEF AccessInv, AskTypeOK
      <4>2. RolePermissions("owner") = Needs
        BY DEF RolePermissions, None
      <4> QED
        BY <2>1, <2>9, <4>1, <4>2 DEF AccessInv, ReadInv
    <3>3. /\ ask.rose \/ \A s \in Sources : Weight(place, team, s) <= RoleRank(ask.role)
          /\ ask.fell \/ \E m \in ask.moments : RoleRank(m.workspace) <= RoleRank(ask.role)
      <4>1. Unread = {}
        BY <2>1 DEF Unread
      <4> QED
        BY <1>2, <3>2, <4>1 DEF AccessInv, ReadInv
    <3>4. \E s \in Sources : RoleRank(Here.workspace) = Weight(place, team, s)
      BY <1>1, <1>3, <1>4, <3>2, StandingIs DEF PlaceRows, TeamRows
    <3>5. (ask.rose /\ ask.fell) \/ \E m \in ask.moments : RoleRank(m.workspace) <= RoleRank(ask.role)
      BY <1>3, <3>3, <3>4
    <3>6. (ask.rose /\ ask.fell) \/ \E m \in ask.moments : ask.need \notin RolePermissions(m.workspace)
      BY <1>8, <2>5, <2>6, <2>9, <3>5
    <3> QED
      BY <1>3, <2>2, <2>3, <2>4, <3>1, <3>6 DEF AccessInv, AccessHasCause
  <2> QED
    BY <2>8, <2>9
<1> QED
  BY <1>9, <1>11, <1>12, <1>13, <1>14

\* A request about the organization asks for a role in it.
LEMMA OrgRoleKeeps ==
    ASSUME AccessInv, RequireOrgRole
    PROVE  AccessInv'
<1> DEFINE role == IF ask.admin THEN "owner" ELSE place.org
<1>1. account \in Accounts /\ place \in PlaceRows /\ team \in TeamRows /\ ask \in AskRows
  BY DEF AccessInv, AskTypeOK, AccessTypeOK, Accounts, PlaceRows, TeamRows
<1>2. /\ Still /\ ask.at = "organization"
      /\ ask' = [ask EXCEPT !.at = IF OrgRank(role) >= OrgRank(ask.need) THEN "acted" ELSE "denied"]
  BY DEF RequireOrgRole
<1>3. /\ \E m \in ask.moments : m.known
      /\ ask.admin = account.platform /\ ask.scope = "organization" /\ Here \in ask.moments
  BY <1>2 DEF AccessInv, AskerInv, UnderWay
<1>4. Here.organization = role
  BY <1>1, <1>3, MomentIs DEF Here, OrgStanding
<1> HIDE DEF role
<1>5. /\ ask' \in AskRows /\ ask'.scope = ask.scope /\ ask'.need = ask.need /\ ask'.carries = ask.carries
      /\ ask'.moments = ask.moments
      /\ ask'.at = IF OrgRank(role) >= OrgRank(ask.need) THEN "acted" ELSE "denied"
  BY <1>1, <1>2 DEF AskRows, AskStages
<1>6. AskTypeOK' /\ (account'.bearer /= None => account'.cookie /= None)
  BY <1>2, <1>5, StillKeeps
<1>7. AskerInv'
  BY <1>5, <1>6 DEF AskerInv, UnderWay, AtRoles
<1>8. ReadInv'
  BY <1>5 DEF ReadInv, AtRoles
<1>9. AccessHasCause'
  BY <1>3, <1>4, <1>5 DEF AccessHasCause
<1> QED
  BY <1>6, <1>7, <1>8, <1>9 DEF AccessInv

\* It holds of a request at every moment, whoever writes between its reads.
LEMMA AccessKept == AccessSpec => []AccessInv
<1>1. AccessInit => AccessInv
  <2> SUFFICES ASSUME AccessInit PROVE AccessInv
    OBVIOUS
  <2>1. account \in Accounts /\ place \in PlaceRows /\ team \in TeamRows
    BY DEF AccessInit, Accounts, PlaceRows, TeamRows, OrgRoles, Roles, None
  <2>2. ask = NoAsk /\ turns = 0 /\ account.bearer = None
    BY DEF AccessInit
  <2>3. ask \in AskRows /\ ask.at = "none" /\ ask.scope = "workspace" /\ ask.need = "view" /\ ask.role = None
    BY <2>2 DEF NoAsk, AskRows, AskStages, Needs, Roles, None
  <2>4. AskTypeOK
    BY <2>1, <2>2, <2>3, AccessAssumption DEF AskTypeOK, AccessTypeOK, Accounts, PlaceRows, TeamRows, AskRows, Needs
  <2> QED
    BY <2>2, <2>3, <2>4 DEF AccessInv, AskerInv, ReadInv, AccessHasCause, UnderWay, AtRoles
<1>2. AccessInv /\ [AccessNext]_accessVars => AccessInv'
  <2> SUFFICES ASSUME AccessInv, [AccessNext]_accessVars PROVE AccessInv'
    OBVIOUS
  <2>1. CASE UNCHANGED accessVars
    BY <2>1 DEF accessVars, AccessInv, AskTypeOK, AccessTypeOK, AskerInv, ReadInv, AccessHasCause, UnderWay,
                Here, Unread
  <2>2. CASE AccessNext
    BY <2>2, WritesKeep, AskerKeeps, RoleKeeps, OrgRoleKeeps DEF AccessNext
  <2> QED
    BY <2>1, <2>2
<1> QED
  BY <1>1, <1>2, PTL DEF AccessSpec

\* What a request does to the places and what it is told have a cause while it is under way
\* (rbac.ts resolveWorkspaceAccess, auth.ts): whoever writes between its reads.
THEOREM AccessHasReasons == AccessSpec => []AccessHasCause
<1>1. AccessInv => AccessHasCause
  BY DEF AccessInv
<1> QED
  BY AccessKept, <1>1, PTL

-----------------------------------------------------------------------------
(* Installations. An event tells what a repository became; what none of    *)
(* the events on their way tells of is in the row as it is at GitHub.      *)

\* Event e tells whether repository r is there, and that it is.
Concerns(e, r) == changes[e].kind = "created" \/ r \in changes[e].repos
Names(e, r) == changes[e].kind \in {"created", "added"} /\ r \in changes[e].repos

\* Event e tells whether the installation is suspended.
Pauses(e) == changes[e].kind \in {"suspend", "unsuspend"}

\* The last change of each kind tells what GitHub has.
HubInv ==
    /\ \A r \in Repos, e \in DOMAIN changes :
        Concerns(e, r) /\ (\A f \in DOMAIN changes : f > e => ~Concerns(f, r)) =>
            (Names(e, r) <=> r \in hub.repos)
    /\ \A e \in DOMAIN changes :
        Pauses(e) /\ (\A f \in DOMAIN changes : f > e => ~Pauses(f)) =>
            (changes[e].kind = "suspend" <=> hub.suspended)
    /\ ~hub.installed => changes[Len(changes)].kind = "deleted"

\* Events are handled in order and one at a time, and each finds the row as it read it.
OrderInv ==
    ~astray =>
        /\ \A e \in DOMAIN changes : e > handled => e \in events
        /\ \A e \in 1 .. MaxChanges : ~NotReading(e) =>
            /\ e \in events /\ e = handled /\ changes[e].kind /= "deleted"
            /\ link.linked => handler[e] = link
        /\ ~hub.installed /\ (link.linked \/ callback.at = "read") => handled < Len(changes)

\* What no event since tells of is as the callback read it.
CallbackInv ==
    ~astray /\ callback.at = "read" =>
        \A r \in Repos :
            (\A e \in DOMAIN changes : e > handled => ~Concerns(e, r)) =>
                (r \in callback.repos <=> r \in hub.repos)

LinkInv ==
    ~astray /\ link.linked =>
        /\ \A r \in Repos :
            (\A e \in events : ~Concerns(e, r)) => (r \in link.repos <=> r \in hub.repos)
        /\ (\A e \in events : ~Pauses(e)) => link.suspended = hub.suspended

InstallationTypes ==
    InstallationsTypeOK /\ Len(changes) \in 1 .. MaxChanges /\ handled \in 0 .. Len(changes)
InstallationInv == InstallationTypes /\ HubInv /\ OrderInv /\ CallbackInv /\ LinkInv

ChangeRows == [kind : {"created", "added", "removed", "suspend", "unsuspend", "deleted"}, repos : SUBSET Repos]
Hubs == [installed : BOOLEAN, repos : SUBSET Repos, suspended : BOOLEAN]
LinkRows == [linked : BOOLEAN, repos : SUBSET Repos, suspended : BOOLEAN]
Callbacks == [at : {"asked", "read", "done"}, repos : SUBSET Repos]

\* A change at GitHub is the last one of its kind, and its event is on its way.
LEMMA HubKeeps ==
    ASSUME InstallationInv,
           \/ \E r \in Repos : AddRepository(r) \/ DropRepository(r)
           \/ Suspend \/ Uninstall
    PROVE  InstallationInv'
<1>1. /\ hub \in Hubs /\ changes \in Seq(ChangeRows) /\ events \subseteq DOMAIN changes
      /\ handled \in 0 .. Len(changes) /\ Len(changes) \in 1 .. MaxChanges /\ MaxChanges \in Nat
      /\ DOMAIN changes = 1 .. Len(changes)
  BY ChangeAssumption DEF InstallationInv, InstallationTypes, InstallationsTypeOK, Hubs, ChangeRows
<1> PICK n \in Nat : n = Len(changes) + 1
  BY <1>1
<1>2. PICK c \in ChangeRows :
        /\ hub.installed /\ Len(changes) < MaxChanges
        /\ changes' = Append(changes, c) /\ events' = events \union {n}
        /\ UNCHANGED <<handler, callback, link, handled, astray>>
        /\ hub' \in Hubs
        /\ c.kind /= "created"
        /\ \A r \in Repos :
            /\ r \notin c.repos => (r \in hub'.repos <=> r \in hub.repos)
            /\ r \in c.repos => (c.kind = "added" <=> r \in hub'.repos)
        /\ IF c.kind \in {"suspend", "unsuspend"} THEN hub'.suspended <=> c.kind = "suspend"
           ELSE hub'.suspended = hub.suspended
        /\ ~hub'.installed => c.kind = "deleted"
  <2>1. CASE \E r \in Repos : AddRepository(r)
    <3> PICK r \in Repos : AddRepository(r)
      BY <2>1
    <3> DEFINE c == [kind |-> "added", repos |-> {r}]
    <3>1. c \in ChangeRows
      BY DEF ChangeRows
    <3> QED
      BY <1>1, <3>1 DEF AddRepository, Change, Hubs
  <2>2. CASE \E r \in Repos : DropRepository(r)
    <3> PICK r \in Repos : DropRepository(r)
      BY <2>2
    <3> DEFINE c == [kind |-> "removed", repos |-> {r}]
    <3>1. c \in ChangeRows
      BY DEF ChangeRows
    <3> QED
      BY <1>1, <3>1 DEF DropRepository, Change, Hubs
  <2>3. CASE Suspend
    <3> DEFINE c == [kind |-> IF hub.suspended THEN "unsuspend" ELSE "suspend", repos |-> {}]
    <3>1. c \in ChangeRows
      BY DEF ChangeRows
    <3> QED
      BY <1>1, <2>3, <3>1 DEF Suspend, Change, Hubs
  <2>4. CASE Uninstall
    <3> DEFINE c == [kind |-> "deleted", repos |-> {}]
    <3>1. c \in ChangeRows
      BY DEF ChangeRows
    <3> QED
      BY <1>1, <2>4, <3>1 DEF Uninstall, Change, Hubs
  <2> QED
    BY <2>1, <2>2, <2>3, <2>4
<1>3. /\ Len(changes') = n /\ DOMAIN changes' = 1 .. n /\ changes'[n] = c /\ n \notin DOMAIN changes
      /\ changes' \in Seq(ChangeRows)
      /\ \A e \in DOMAIN changes : e < n /\ e \in DOMAIN changes' /\ changes'[e] = changes[e]
      /\ \A e \in DOMAIN changes' : e \in DOMAIN changes \/ e = n
  BY <1>1, <1>2
<1>4. /\ \A e \in DOMAIN changes : Pauses(e)' = Pauses(e)
      /\ \A e \in DOMAIN changes, r \in Repos : Concerns(e, r)' = Concerns(e, r) /\ Names(e, r)' = Names(e, r)
      /\ Pauses(n)' = (c.kind \in {"suspend", "unsuspend"})
      /\ \A r \in Repos : Concerns(n, r)' = (r \in c.repos) /\ Names(n, r)' = (c.kind = "added" /\ r \in c.repos)
  BY <1>2, <1>3 DEF Pauses, Concerns, Names
<1>5. InstallationTypes'
  BY <1>1, <1>2, <1>3 DEF InstallationInv, InstallationTypes, InstallationsTypeOK, Hubs, ChangeRows
<1>6. HubInv'
  <2>1. ASSUME NEW r \in Repos, NEW e \in DOMAIN changes', Concerns(e, r)',
               \A f \in DOMAIN changes' : f > e => ~Concerns(f, r)'
        PROVE  Names(e, r)' <=> r \in hub'.repos
    <3>1. CASE e = n
      BY <1>2, <1>4, <2>1, <3>1
    <3>2. CASE e /= n
      <4>1. e \in DOMAIN changes /\ ~Concerns(n, r)' /\ \A f \in DOMAIN changes : f > e => ~Concerns(f, r)
        BY <1>1, <1>3, <1>4, <2>1, <3>2
      <4>2. Names(e, r) <=> r \in hub.repos
        BY <1>4, <2>1, <4>1 DEF InstallationInv, HubInv
      <4> QED
        BY <1>2, <1>4, <4>1, <4>2
    <3> QED
      BY <3>1, <3>2
  <2>2. ASSUME NEW e \in DOMAIN changes', Pauses(e)', \A f \in DOMAIN changes' : f > e => ~Pauses(f)'
        PROVE  changes'[e].kind = "suspend" <=> hub'.suspended
    <3>1. CASE e = n
      BY <1>2, <1>3, <1>4, <2>2, <3>1
    <3>2. CASE e /= n
      <4>1. e \in DOMAIN changes /\ ~Pauses(n)' /\ \A f \in DOMAIN changes : f > e => ~Pauses(f)
        BY <1>1, <1>3, <1>4, <2>2, <3>2
      <4>2. changes[e].kind = "suspend" <=> hub.suspended
        BY <1>4, <2>2, <4>1 DEF InstallationInv, HubInv
      <4> QED
        BY <1>2, <1>3, <1>4, <4>1, <4>2
    <3> QED
      BY <3>1, <3>2
  <2>3. ~hub'.installed => changes'[Len(changes')].kind = "deleted"
    BY <1>2, <1>3
  <2> QED
    BY <2>1, <2>2, <2>3 DEF HubInv
<1>7. OrderInv'
  BY <1>1, <1>2, <1>3 DEF InstallationInv, OrderInv, NotReading, NoLink
<1>8. CallbackInv'
  <2> SUFFICES ASSUME ~astray, callback.at = "read", NEW r \in Repos,
                      \A e \in DOMAIN changes' : e > handled => ~Concerns(e, r)'
               PROVE  r \in callback.repos <=> r \in hub'.repos
    BY <1>2 DEF CallbackInv
  <2>1. handled < n /\ ~Concerns(n, r)'
    BY <1>1, <1>3 DEF InstallationInv, OrderInv
  <2>2. \A e \in DOMAIN changes : e > handled => ~Concerns(e, r)
    BY <1>3, <1>4
  <2>3. r \in callback.repos <=> r \in hub.repos
    BY <2>2 DEF InstallationInv, CallbackInv
  <2>4. r \notin c.repos
    BY <1>4, <2>1
  <2> QED
    BY <1>2, <2>3, <2>4
<1>9. LinkInv'
  BY <1>1, <1>2, <1>3, <1>4 DEF InstallationInv, LinkInv
<1> QED
  BY <1>5, <1>6, <1>7, <1>8, <1>9 DEF InstallationInv

\* The callback, and what GitHub makes of an event, keep the invariant.
LEMMA CallbackKeeps ==
    ASSUME InstallationInv,
           \/ OpenCallback \/ ReadInstallation \/ LinkInstallation \/ UnlinkInstallation
           \/ \E e \in 1 .. MaxChanges : LoseEvent(e) \/ Redeliver(e)
    PROVE  InstallationInv'
<1>1. /\ hub \in Hubs /\ changes \in Seq(ChangeRows) /\ events \subseteq DOMAIN changes
      /\ handler \in [1 .. MaxChanges -> LinkRows] /\ callback \in Callbacks /\ link \in LinkRows
      /\ handled \in 0 .. Len(changes) /\ Len(changes) \in 1 .. MaxChanges /\ MaxChanges \in Nat
      /\ astray \in BOOLEAN /\ handled \in 0 .. MaxChanges
      /\ DOMAIN changes = 1 .. Len(changes)
  BY ChangeAssumption
     DEF InstallationInv, InstallationTypes, InstallationsTypeOK, Hubs, ChangeRows, LinkRows, Callbacks
<1>2. UNCHANGED <<hub, changes, handled>> /\ (astray => astray')
  BY <1>1 DEF OpenCallback, ReadInstallation, LinkInstallation, UnlinkInstallation, LoseEvent, Redeliver
<1>3. NoLink \in LinkRows /\ ~NoLink.linked
  BY DEF NoLink, LinkRows
<1>4. ASSUME events' \subseteq DOMAIN changes, handler' \in [1 .. MaxChanges -> LinkRows],
             callback' \in Callbacks, link' \in LinkRows, astray' \in BOOLEAN
      PROVE  InstallationTypes'
  BY <1>1, <1>2, <1>4
     DEF InstallationTypes, InstallationsTypeOK, Hubs, ChangeRows, LinkRows, Callbacks
<1>5. HubInv'
  BY <1>2 DEF InstallationInv, HubInv, Pauses, Concerns, Names
<1>6. CASE OpenCallback
  <2>1. /\ UNCHANGED <<events, handler, link, astray>>
        /\ callback' = [at |-> "asked", repos |-> {}]
    BY <1>6 DEF OpenCallback
  <2>2. callback' \in Callbacks /\ callback'.at = "asked"
    BY <2>1 DEF Callbacks
  <2>3. InstallationTypes'
    BY <1>1, <1>4, <2>1, <2>2
  <2>4. OrderInv' /\ CallbackInv' /\ LinkInv'
    BY <1>2, <2>1, <2>2
       DEF InstallationInv, OrderInv, CallbackInv, LinkInv, NotReading, NoLink, Pauses, Concerns
  <2> QED
    BY <1>5, <2>3, <2>4 DEF InstallationInv
<1>7. CASE ReadInstallation
  <2>1. UNCHANGED <<events, handler, link>> /\ astray' \in BOOLEAN /\ callback' \in Callbacks
    <3>1. CASE hub.installed
      <4>1. /\ UNCHANGED <<events, handler, link>> /\ (astray' = astray \/ astray' = TRUE)
            /\ \/ callback' = [at |-> "read", repos |-> hub.repos]
               \/ callback' = [at |-> "read", repos |-> {}]
        BY <1>7, <3>1 DEF ReadInstallation
      <4>2. hub.repos \in SUBSET Repos
        BY <1>1 DEF Hubs
      <4> QED
        <5>1. callback' \in Callbacks
          BY <4>1, <4>2 DEF Callbacks
        <5>2. astray' \in BOOLEAN
          BY <1>1, <4>1
        <5> QED
          BY <4>1, <5>1, <5>2
    <3>2. CASE ~hub.installed
      <4>1. callback' = [callback EXCEPT !.at = "done"] /\ UNCHANGED <<events, handler, link, astray>>
        BY <1>7, <3>2 DEF ReadInstallation
      <4> QED
        BY <1>1, <4>1 DEF Callbacks
    <3> QED
      BY <3>1, <3>2
  <2>2. astray' \/ callback'.at = "done" \/ (hub.installed /\ callback'.repos = hub.repos)
    BY <1>1, <1>7 DEF ReadInstallation, Callbacks
  <2>3. InstallationTypes'
    BY <1>1, <1>4, <2>1
  <2>4. OrderInv' /\ CallbackInv' /\ LinkInv'
    BY <1>2, <2>1, <2>2
       DEF InstallationInv, OrderInv, CallbackInv, LinkInv, NotReading, NoLink, Pauses, Concerns
  <2> QED
    BY <1>5, <2>3, <2>4 DEF InstallationInv
<1>8. CASE LinkInstallation
  <2>1. /\ UNCHANGED <<events, handler>> /\ callback.at = "read"
        /\ callback' = [callback EXCEPT !.at = "done"]
        /\ link' = Linked(callback.repos, FALSE)
        /\ astray' = (astray \/ hub.suspended \/ \E e \in events : ~NotReading(e))
    BY <1>8 DEF LinkInstallation
  <2>2. /\ callback' \in Callbacks /\ callback'.at = "done"
        /\ link' \in LinkRows /\ link'.linked /\ link'.repos = callback.repos /\ link'.suspended = FALSE
        /\ astray' \in BOOLEAN
    BY <1>1, <2>1 DEF Linked, LinkRows, Callbacks
  <2>3. InstallationTypes'
    BY <1>1, <1>4, <2>1, <2>2
  <2>4. OrderInv'
    BY <1>2, <2>1, <2>2 DEF InstallationInv, OrderInv, NotReading, NoLink
  <2>5. CallbackInv'
    BY <2>2 DEF CallbackInv
  <2>6. LinkInv'
    BY <1>1, <1>2, <2>1, <2>2 DEF InstallationInv, OrderInv, CallbackInv, LinkInv, Pauses, Concerns, Hubs
  <2> QED
    BY <1>5, <2>3, <2>4, <2>5, <2>6 DEF InstallationInv
<1>9. CASE UnlinkInstallation
  <2>1. UNCHANGED <<events, handler, callback, astray>> /\ link' = NoLink
    BY <1>9 DEF UnlinkInstallation
  <2>2. InstallationTypes'
    BY <1>1, <1>3, <1>4, <2>1
  <2>3. OrderInv' /\ CallbackInv' /\ LinkInv'
    BY <1>2, <1>3, <2>1
       DEF InstallationInv, OrderInv, CallbackInv, LinkInv, NotReading, NoLink, Pauses, Concerns
  <2> QED
    BY <1>5, <2>2, <2>3 DEF InstallationInv
<1>10. ASSUME NEW e \in 1 .. MaxChanges, LoseEvent(e) PROVE InstallationInv'
  <2>1. UNCHANGED <<callback, link>> /\ events' \subseteq events /\ handler' = [handler EXCEPT ![e] = NoLink] /\ astray'
    BY <1>10 DEF LoseEvent
  <2>2. handler' \in [1 .. MaxChanges -> LinkRows] /\ astray' \in BOOLEAN
    BY <1>1, <1>3, <1>10, <2>1 DEF LoseEvent
  <2>3. InstallationTypes'
    BY <1>1, <1>4, <2>1, <2>2
  <2> QED
    BY <1>5, <2>1, <2>3 DEF InstallationInv, OrderInv, CallbackInv, LinkInv
<1>11. ASSUME NEW e \in 1 .. MaxChanges, Redeliver(e) PROVE InstallationInv'
  <2>1. UNCHANGED <<callback, link, handler, astray>> /\ events \subseteq events' /\ events' \subseteq DOMAIN changes
    BY <1>1, <1>11 DEF Redeliver
  <2>2. InstallationTypes'
    BY <1>1, <1>4, <2>1
  <2>3. OrderInv' /\ CallbackInv' /\ LinkInv'
    BY <1>2, <2>1
       DEF InstallationInv, OrderInv, CallbackInv, LinkInv, NotReading, NoLink, Pauses, Concerns
  <2> QED
    BY <1>5, <2>2, <2>3 DEF InstallationInv
<1> QED
  BY <1>6, <1>7, <1>8, <1>9, <1>10, <1>11

\* The handler of an event keeps the invariant: the row tells afterwards what the event says.
LEMMA EventKeeps ==
    ASSUME InstallationInv, NEW e \in 1 .. MaxChanges, ReadLink(e) \/ DeleteLink(e) \/ SyncLink(e)
    PROVE  InstallationInv'
<1>1. /\ hub \in Hubs /\ changes \in Seq(ChangeRows) /\ events \subseteq DOMAIN changes
      /\ handler \in [1 .. MaxChanges -> LinkRows] /\ callback \in Callbacks /\ link \in LinkRows
      /\ handled \in 0 .. Len(changes) /\ Len(changes) \in 1 .. MaxChanges /\ MaxChanges \in Nat
      /\ astray \in BOOLEAN /\ handled \in 0 .. MaxChanges
      /\ DOMAIN changes = 1 .. Len(changes)
  BY ChangeAssumption
     DEF InstallationInv, InstallationTypes, InstallationsTypeOK, Hubs, ChangeRows, LinkRows, Callbacks
<1>2. UNCHANGED <<hub, changes, callback>> /\ e \in events /\ e \in DOMAIN changes
  BY <1>1 DEF ReadLink, DeleteLink, SyncLink, Handle
<1>3. NoLink \in LinkRows /\ ~NoLink.linked
  BY DEF NoLink, LinkRows
<1>4. ASSUME events' \subseteq DOMAIN changes, handler' \in [1 .. MaxChanges -> LinkRows],
             link' \in LinkRows, astray' \in BOOLEAN, handled' \in {handled, e}
      PROVE  InstallationTypes'
  BY <1>1, <1>2, <1>4
     DEF InstallationTypes, InstallationsTypeOK, Hubs, ChangeRows, LinkRows, Callbacks
<1>5. HubInv'
  BY <1>2 DEF InstallationInv, HubInv, Pauses, Concerns, Names
<1>6. CASE ReadLink(e) \/ DeleteLink(e)
  <2>1. /\ handled' = e /\ NotReading(e)
        /\ astray' = (astray \/ e < handled \/ callback.at = "read" \/ \E o \in events : ~NotReading(o))
        /\ astray' \in BOOLEAN
    BY <1>6 DEF ReadLink, DeleteLink, Handle
  <2>2. ASSUME ~astray'
        PROVE  /\ ~astray /\ callback.at /= "read" /\ handled <= e
               /\ \A o \in 1 .. MaxChanges : NotReading(o)
               /\ \A o \in DOMAIN changes : o > handled => o \in events
    <3>1. ~astray /\ callback.at /= "read" /\ ~(e < handled) /\ \A o \in events : NotReading(o)
      BY <2>1, <2>2
    <3>2. OrderInv
      BY DEF InstallationInv
    <3>3. \A o \in 1 .. MaxChanges : NotReading(o)
      BY <3>1, <3>2 DEF OrderInv
    <3> QED
      BY <1>1, <1>2, <3>1, <3>2, <3>3 DEF OrderInv
  <2>3. CallbackInv'
    BY <1>2, <2>1, <2>2 DEF CallbackInv
  <2>4. CASE ReadLink(e) /\ link.linked
    <3>1. /\ UNCHANGED <<events, link>> /\ changes[e].kind /= "deleted"
          /\ handler' = [handler EXCEPT ![e] = link]
      BY <2>4 DEF ReadLink
    <3>2. InstallationTypes'
      BY <1>1, <1>4, <2>1, <3>1
    <3>3. OrderInv'
      <4> SUFFICES ASSUME ~astray' PROVE OrderInv'
        BY DEF OrderInv
      <4>1. \A o \in DOMAIN changes : o > e => o \in events
        BY <1>1, <2>2
      <4>2. \A o \in 1 .. MaxChanges : handler'[o] /= NoLink => o = e
        BY <1>1, <2>2, <3>1 DEF NotReading
      <4>3. handler'[e] = link
        BY <1>1, <3>1
      <4>4. ~hub.installed => e < Len(changes)
        BY <1>1, <1>2, <3>1 DEF InstallationInv, HubInv
      <4> QED
        BY <1>2, <2>1, <3>1, <4>1, <4>2, <4>3, <4>4 DEF OrderInv, NotReading, NoLink
    <3>4. LinkInv'
      BY <1>2, <2>2, <3>1 DEF InstallationInv, LinkInv, Pauses, Concerns
    <3> QED
      BY <1>5, <2>3, <3>2, <3>3, <3>4 DEF InstallationInv
  <2>5. CASE ~(ReadLink(e) /\ link.linked)
    <3>1. /\ events' = events \ {e} /\ handler' = [handler EXCEPT ![e] = NoLink]
          /\ link' \in LinkRows /\ ~link'.linked
      BY <1>1, <1>3, <1>6, <2>5 DEF ReadLink, DeleteLink, EndEvent
    <3>2. InstallationTypes'
      BY <1>1, <1>3, <1>4, <2>1, <3>1
    <3>3. OrderInv'
      <4> SUFFICES ASSUME ~astray' PROVE OrderInv'
        BY DEF OrderInv
      <4>1. \A o \in DOMAIN changes : o > e => o \in events'
        BY <1>1, <2>2, <3>1
      <4>2. \A o \in 1 .. MaxChanges : handler'[o] = NoLink
        BY <1>1, <2>2, <3>1 DEF NotReading
      <4> QED
        BY <1>2, <2>1, <2>2, <3>1, <4>1, <4>2 DEF OrderInv, NotReading, NoLink
    <3>4. LinkInv'
      BY <3>1 DEF LinkInv
    <3> QED
      BY <1>5, <2>3, <3>2, <3>3, <3>4 DEF InstallationInv
  <2> QED
    BY <2>4, <2>5
<1>7. CASE SyncLink(e)
  <2> DEFINE suspended == CASE changes[e].kind = "suspend" -> TRUE
                            [] changes[e].kind = "unsuspend" -> FALSE
                            [] OTHER -> handler[e].suspended
             repos == Repositories(handler[e], changes[e])
  <2>1. /\ UNCHANGED <<handled, astray>> /\ ~NotReading(e)
        /\ events' = events \ {e} /\ handler' = [handler EXCEPT ![e] = NoLink]
        /\ link' = IF link.linked THEN Linked(repos, suspended) ELSE link
    BY <1>7 DEF SyncLink, EndEvent
  <2>2. /\ suspended \in BOOLEAN /\ repos \in SUBSET Repos
        /\ changes[e].kind = "suspend" => suspended
        /\ changes[e].kind = "unsuspend" => ~suspended
        /\ ~Pauses(e) => suspended = handler[e].suspended
        /\ \A r \in Repos :
            /\ Concerns(e, r) => (r \in repos <=> Names(e, r))
            /\ ~Concerns(e, r) => (r \in repos <=> r \in handler[e].repos)
    <3>1. changes[e] \in ChangeRows /\ handler[e] \in LinkRows
      BY <1>1, <1>2
    <3> QED
      BY <3>1 DEF ChangeRows, LinkRows, Repositories, Pauses, Concerns, Names
  <2> HIDE DEF suspended, repos
  <2>3. /\ link' \in LinkRows /\ link'.linked = link.linked
        /\ link.linked => link'.repos = repos /\ link'.suspended = suspended
    BY <1>1, <2>1, <2>2 DEF Linked, LinkRows
  <2>4. InstallationTypes'
    BY <1>1, <1>3, <1>4, <2>1, <2>3
  <2>5. ASSUME ~astray
        PROVE  /\ e = handled /\ changes[e].kind /= "deleted" /\ (link.linked => handler[e] = link)
               /\ \A o \in 1 .. MaxChanges : o /= e => NotReading(o)
               /\ \A o \in DOMAIN changes : o > e => o \in events'
    BY <1>1, <2>1, <2>5 DEF InstallationInv, OrderInv
  <2>6. OrderInv'
    <3> SUFFICES ASSUME ~astray PROVE OrderInv'
      BY <2>1 DEF OrderInv
    <3>1. \A o \in 1 .. MaxChanges : handler'[o] = NoLink
      BY <1>1, <2>1, <2>5 DEF NotReading
    <3> QED
      BY <1>2, <2>1, <2>3, <2>5, <3>1 DEF InstallationInv, OrderInv, NotReading, NoLink
  <2>7. CallbackInv'
    BY <1>2, <2>1 DEF InstallationInv, CallbackInv, Concerns
  <2>8. LinkInv'
    <3> SUFFICES ASSUME ~astray, link.linked PROVE LinkInv'
      BY <2>1, <2>3 DEF LinkInv
    <3>1. ASSUME NEW r \in Repos, \A o \in events' : ~Concerns(o, r)
          PROVE  r \in link'.repos <=> r \in hub.repos
      <4>1. CASE Concerns(e, r)
        <5>1. Names(e, r) <=> r \in hub.repos
          BY <1>2, <2>5, <3>1, <4>1 DEF InstallationInv, HubInv
        <5> QED
          BY <2>2, <2>3, <4>1, <5>1
      <4>2. CASE ~Concerns(e, r)
        <5>1. \A o \in events : ~Concerns(o, r)
          BY <2>1, <3>1, <4>2
        <5>2. r \in link.repos <=> r \in hub.repos
          BY <5>1 DEF InstallationInv, LinkInv
        <5> QED
          BY <2>2, <2>3, <2>5, <4>2, <5>2
      <4> QED
        BY <4>1, <4>2
    <3>2. ASSUME \A o \in events' : ~Pauses(o) PROVE link'.suspended = hub.suspended
      <4>1. CASE Pauses(e)
        <5>1. changes[e].kind = "suspend" <=> hub.suspended
          BY <1>2, <2>5, <3>2, <4>1 DEF InstallationInv, HubInv
        <5> QED
          BY <1>1, <2>2, <2>3, <4>1, <5>1 DEF Pauses, Hubs
      <4>2. CASE ~Pauses(e)
        <5>1. \A o \in events : ~Pauses(o)
          BY <2>1, <3>2, <4>2
        <5> QED
          BY <2>2, <2>3, <2>5, <4>2, <5>1 DEF InstallationInv, LinkInv
      <4> QED
        BY <4>1, <4>2
    <3> QED
      BY <1>2, <3>1, <3>2 DEF LinkInv, Concerns, Pauses
  <2> QED
    BY <1>5, <2>4, <2>6, <2>7, <2>8 DEF InstallationInv
<1> QED
  BY <1>6, <1>7

\* It holds of a link, its callback and its events at every moment.
LEMMA InstallationsKept == InstallationsSpec => []InstallationInv
<1>1. InstallationsInit => InstallationInv
  <2> SUFFICES ASSUME InstallationsInit PROVE InstallationInv
    OBVIOUS
  <2> PICK r \in {CHOOSE r \in Repos : TRUE} :
        /\ hub = [installed |-> TRUE, repos |-> {r}, suspended |-> FALSE]
        /\ changes = <<[kind |-> "created", repos |-> {r}]>>
    BY DEF InstallationsInit
  <2>1. r \in Repos /\ MaxChanges \in Nat \ {0}
    BY ChangeAssumption
  <2>2. /\ hub \in Hubs /\ hub.installed /\ hub.repos = {r} /\ ~hub.suspended
        /\ changes \in Seq(ChangeRows) /\ Len(changes) = 1 /\ DOMAIN changes = {1}
        /\ changes[1].kind = "created" /\ changes[1].repos = {r}
    <3>1. [kind |-> "created", repos |-> {r}] \in ChangeRows
      BY <2>1 DEF ChangeRows
    <3> QED
      BY <2>1, <3>1 DEF Hubs
  <2>3. /\ events = {1} /\ callback \in Callbacks /\ callback.at = "asked" /\ link = NoLink
        /\ handled = 0 /\ astray = FALSE /\ handler = [e \in 1 .. MaxChanges |-> NoLink]
        /\ NoLink \in LinkRows /\ ~NoLink.linked
    BY DEF InstallationsInit, Callbacks, NoLink, LinkRows
  <2>4. InstallationTypes
    <3>1. handler \in [1 .. MaxChanges -> LinkRows] /\ link \in LinkRows
      BY <2>3
    <3>2. events \subseteq DOMAIN changes /\ Len(changes) \in 1 .. MaxChanges /\ handled \in 0 .. Len(changes)
          /\ handled \in 0 .. MaxChanges
      BY <2>1, <2>2, <2>3
    <3> QED
      BY <2>2, <2>3, <3>1, <3>2
         DEF InstallationTypes, InstallationsTypeOK, Hubs, ChangeRows, LinkRows, Callbacks
  <2>5. HubInv
    BY <2>2 DEF HubInv, Concerns, Names, Pauses
  <2> QED
    BY <2>2, <2>3, <2>4, <2>5 DEF InstallationInv, OrderInv, CallbackInv, LinkInv, NotReading
<1>2. InstallationInv /\ [InstallationsNext]_<<installationVars, faults>> => InstallationInv'
  <2> SUFFICES ASSUME InstallationInv, [InstallationsNext]_<<installationVars, faults>> PROVE InstallationInv'
    OBVIOUS
  <2>1. CASE UNCHANGED <<installationVars, faults>>
    BY <2>1 DEF installationVars, InstallationInv, InstallationTypes, InstallationsTypeOK, HubInv, OrderInv,
                CallbackInv, LinkInv, NotReading, NoLink, Concerns, Names, Pauses
  <2>2. CASE InstallationsNext
    BY <2>2, HubKeeps, CallbackKeeps, EventKeeps DEF InstallationsNext
  <2> QED
    BY <2>1, <2>2
<1> QED
  BY <1>1, <1>2, PTL DEF InstallationsSpec

\* When no event is on its way and the callback has ended, a linked row tells what GitHub
\* has, unless something went astray (github-app.ts, webhooks.ts syncInstallation).
THEOREM LinksFollowHubs == InstallationsSpec => []LinkFollowsHub
<1>1. InstallationInv => LinkFollowsHub
  <2> SUFFICES ASSUME InstallationInv, events = {}, callback.at = "done", link.linked, ~astray
               PROVE  hub.installed /\ link.repos = hub.repos /\ link.suspended = hub.suspended
    BY DEF LinkFollowsHub
  <2>1. link.repos \in SUBSET Repos /\ hub.repos \in SUBSET Repos
    BY DEF InstallationInv, InstallationTypes, InstallationsTypeOK
  <2>2. hub.installed
    BY DEF InstallationInv, InstallationTypes, InstallationsTypeOK, OrderInv
  <2>3. (\A r \in Repos : r \in link.repos <=> r \in hub.repos) /\ link.suspended = hub.suspended
    BY DEF InstallationInv, LinkInv
  <2> QED
    BY <2>1, <2>2, <2>3
<1> QED
  BY InstallationsKept, <1>1, PTL

-----------------------------------------------------------------------------
(* Blueprint. While no two applies overlap, what is left of a plan is not  *)
(* there, unless the project was deleted, whose name ends the apply. Of    *)
(* each item there are as many rows too few completed as applies are about *)
(* to complete it or failed to.                                            *)

\* Item i is one apply a has still to come to.
Ahead(a, i) ==
    \/ stage[a] = "create" /\ \E k \in pos[a] .. Len(Order) : i = Order[k]
    \/ stage[a] = "complete" /\ \E k \in pos[a] + 1 .. Len(Order) : i = Order[k]

\* There is, or was, a project.
HadProject == rows["project"] > 0 \/ gone["project"]

StageInv ==
    \A a \in Applies :
        /\ stage[a] = "complete" => pos[a] \in 2 .. Len(Order)
        /\ pos[a] \in 1 .. Len(Order) + 1
        /\ stage[a] \in {"idle", "found"} => pos[a] = 1
        /\ hasProject[a] \/ pos[a] > 1 => HadProject
        /\ stage[a] = "complete" => HadProject
        /\ stage[a] \in {"create", "complete"} /\ ~hasProject[a] => "project" \in plan[a]

RowsInv ==
    /\ (\E i \in Items : rows[i] > 0) => HadProject
    /\ \A i \in Unique : rows[i] <= 1

AloneInv ==
    ~overlapped =>
        /\ \A a, b \in Applies : stage[a] \notin Over /\ stage[b] \notin Over => a = b
        /\ \A i \in Items : rows[i] <= 1
        /\ \A a \in Applies :
            /\ stage[a] = "found" /\ ~hasProject[a] => rows["project"] = 0
            /\ \A i \in plan[a] : Ahead(a, i) =>
                \/ rows[i] = 0
                \/ i /= "project" /\ pos[a] = 1 /\ "project" \in plan[a] /\ gone["project"]

\* Without deletions what an apply has passed is there.
PassedInv ==
    deletes = 0 =>
        /\ \A i \in Items : ~gone[i]
        /\ \A a \in Applies :
            /\ hasProject[a] => rows["project"] > 0
            /\ stage[a] \in {"create", "complete", "done"} =>
                \A i \in Items : rows[i] > 0 \/ (i \in plan[a] /\ Ahead(a, i))

Completing(i) == {a \in Applies : stage[a] = "complete" /\ Order[pos[a]] = i}
\* Rows of item i whose second write nobody is about to make.
Lack(i) ==
    IF rows[i] > completed[i] + Cardinality(Completing(i))
    THEN rows[i] - (completed[i] + Cardinality(Completing(i)))
    ELSE 0
LackInv ==
    Lack("app") + Lack("database") + Lack("bucket") + Lack("function") + Lack("loadBalancer") <= faults

ThrownInv ==
    \A a \in Applies : stage[a] = "thrown" => overlapped \/ faults > 0 \/ \E i \in Unique : gone[i]

BlueInv ==
    /\ BlueprintTypeOK /\ faults \in Nat /\ StageInv /\ RowsInv /\ AloneInv /\ PassedInv /\ LackInv
    /\ ThrownInv

\* The items are created one after the other, the project first.
LEMMA OrderFacts ==
    /\ Len(Order) = 8 /\ Order[1] = "project"
    /\ \A k \in 1 .. 8 : Order[k] \in Items
    /\ \A k, l \in 1 .. 8 : Order[k] = Order[l] => k = l
    /\ \A i \in Items : \E k \in 1 .. 8 : Order[k] = i
<1>1. /\ Len(Order) = 8 /\ Order[1] = "project" /\ Order[2] = "app" /\ Order[3] = "database"
      /\ Order[4] = "bucket" /\ Order[5] = "function" /\ Order[6] = "cron" /\ Order[7] = "firewall"
      /\ Order[8] = "loadBalancer"
  BY DEF Order
<1>2. \A k \in 1 .. 8 : k = 1 \/ k = 2 \/ k = 3 \/ k = 4 \/ k = 5 \/ k = 6 \/ k = 7 \/ k = 8
  OBVIOUS
<1> QED
  BY <1>1, <1>2 DEF Items

\* A step that writes no row keeps what is known of plans.
LEMMA PlanKeeps ==
    ASSUME BlueInv, NEW a \in Applies,
           FindProject(a) \/ ComputePlan(a) \/ PassItem(a) \/ ItemConflicts(a) \/ FinishApply(a)
    PROVE  StageInv' /\ RowsInv' /\ AloneInv' /\ PassedInv'
<1>1. /\ stage \in [Applies -> {"idle", "found", "create", "complete", "done", "thrown"}]
      /\ pos \in [Applies -> Nat \ {0}] /\ hasProject \in [Applies -> BOOLEAN]
      /\ plan \in [Applies -> SUBSET Items] /\ rows \in [Items -> Nat] /\ gone \in [Items -> BOOLEAN]
      /\ overlapped \in BOOLEAN /\ "project" \in Items
  BY DEF BlueInv, BlueprintTypeOK, Items
<1>2. StageInv /\ RowsInv /\ AloneInv /\ PassedInv
  BY DEF BlueInv
<1>3. UNCHANGED <<rows, gone, deletes>> /\ (HadProject' <=> HadProject) /\ RowsInv'
  BY <1>2 DEF FindProject, ComputePlan, PassItem, ItemConflicts, FinishApply, tableVars, HadProject, RowsInv
<1>4. CASE FindProject(a)
  <2>1. /\ stage[a] = "idle" /\ stage' = [stage EXCEPT ![a] = "found"]
        /\ hasProject' = [hasProject EXCEPT ![a] = rows["project"] > 0]
        /\ overlapped' = (overlapped \/ \E b \in Applies : stage[b] \notin Over)
        /\ UNCHANGED <<pos, plan>>
    BY <1>4 DEF FindProject
  <2>2. StageInv'
    BY <1>1, <1>2, <1>3, <2>1 DEF StageInv, HadProject
  <2>3. AloneInv'
    <3> SUFFICES ASSUME ~overlapped' PROVE AloneInv'
      BY DEF AloneInv
    <3>1. ~overlapped /\ \A b \in Applies : stage[b] \in Over
      BY <1>1, <2>1
    <3>2. \A b \in Applies : b /= a => stage'[b] \in Over
      BY <1>1, <2>1, <3>1
    <3>3. rows["project"] \in Nat /\ (~hasProject'[a] => rows["project"] = 0)
      <4>1. rows["project"] \in Nat
        BY <1>1
      <4>2. hasProject'[a] <=> rows["project"] > 0
        BY <1>1, <2>1, Zenon
      <4> QED
        BY <4>1, <4>2
    <3>4. \A b \in Applies, i \in Items : ~Ahead(b, i)'
      BY <1>1, <2>1, <3>2 DEF Ahead, Over
    <3> QED
      BY <1>1, <1>2, <1>3, <2>1, <3>1, <3>2, <3>3, <3>4 DEF AloneInv, Over
  <2>4. PassedInv'
    BY <1>1, <1>2, <1>3, <2>1 DEF PassedInv, Ahead
  <2> QED
    BY <1>3, <2>2, <2>3, <2>4
<1>5. CASE ComputePlan(a)
  <2>1. /\ stage[a] = "found" /\ stage' = [stage EXCEPT ![a] = "create"]
        /\ plan' = [plan EXCEPT ![a] = Items \ Existing(a)]
        /\ UNCHANGED <<pos, hasProject, overlapped>>
    BY <1>5 DEF ComputePlan
  <2>2. /\ hasProject[a] => plan'[a] = {i \in Items \ {"project"} : ~(rows[i] > 0)}
        /\ ~hasProject[a] => /\ "project" \in plan'[a] /\ plan'[a] \subseteq Items
                             /\ \A i \in Items : i \notin plan'[a] => rows[i] > 0
                             /\ pos[a] = 1
    BY <1>1, <1>2, <2>1 DEF Existing, Items, StageInv
  <2>3. StageInv'
    BY <1>1, <1>2, <1>3, <2>1, <2>2 DEF StageInv
  <2>4. AloneInv'
    BY <1>1, <1>2, <1>3, <2>1, <2>2 DEF AloneInv, Ahead, Over, RowsInv, HadProject
  <2>5. PassedInv'
    BY <1>1, <1>2, <1>3, <2>1, <2>2, OrderFacts DEF PassedInv, Ahead, StageInv
  <2> QED
    BY <1>3, <2>3, <2>4, <2>5
<1>6. CASE PassItem(a)
  <2>1. PICK i \in Items : At(a, i) /\ i \notin plan[a]
    BY <1>6 DEF PassItem
  <2>2. /\ stage[a] = "create" /\ pos[a] \in 1 .. 8 /\ i = Order[pos[a]]
        /\ pos' = [pos EXCEPT ![a] = @ + 1] /\ UNCHANGED <<stage, hasProject, plan, overlapped>>
    BY <1>1, <1>6, <2>1, OrderFacts DEF PassItem, At
  <2>3. StageInv'
    BY <1>1, <1>2, <1>3, <2>1, <2>2, OrderFacts DEF StageInv
  <2>4. AloneInv'
    BY <1>1, <1>2, <1>3, <2>1, <2>2, OrderFacts DEF AloneInv, Ahead, Over
  <2>5. PassedInv'
    BY <1>1, <1>2, <1>3, <2>1, <2>2, OrderFacts DEF PassedInv, Ahead
  <2> QED
    BY <1>3, <2>3, <2>4, <2>5
<1>7. CASE ItemConflicts(a)
  <2>1. /\ stage[a] = "create" /\ stage' = [stage EXCEPT ![a] = "thrown"]
        /\ UNCHANGED <<pos, hasProject, plan, overlapped>>
    BY <1>7 DEF ItemConflicts, At
  <2>2. StageInv'
    BY <1>1, <1>2, <1>3, <2>1 DEF StageInv
  <2>3. AloneInv'
    BY <1>1, <1>2, <1>3, <2>1 DEF AloneInv, Ahead, Over
  <2>4. PassedInv'
    BY <1>1, <1>2, <1>3, <2>1 DEF PassedInv, Ahead
  <2> QED
    BY <1>3, <2>2, <2>3, <2>4
<1>8. CASE FinishApply(a)
  <2>1. /\ stage[a] = "create" /\ stage' = [stage EXCEPT ![a] = "done"] /\ pos[a] > 8
        /\ UNCHANGED <<pos, hasProject, plan, overlapped>>
    BY <1>8, OrderFacts DEF FinishApply
  <2>2. StageInv'
    BY <1>1, <1>2, <1>3, <2>1 DEF StageInv
  <2>3. AloneInv'
    BY <1>1, <1>2, <1>3, <2>1 DEF AloneInv, Ahead, Over
  <2>4. PassedInv'
    BY <1>1, <1>2, <1>3, <2>1, OrderFacts DEF PassedInv, Ahead
  <2> QED
    BY <1>3, <2>2, <2>3, <2>4
<1> QED
  BY <1>4, <1>5, <1>6, <1>7, <1>8

\* A step that writes a row, and a failure, keep what is known of plans.
LEMMA RowsKeep ==
    ASSUME BlueInv,
           \/ \E a \in Applies : CreateItem(a) \/ CompleteItem(a) \/ ApplyFails(a)
           \/ \E i \in Items : DeleteItem(i)
    PROVE  StageInv' /\ RowsInv' /\ AloneInv' /\ PassedInv'
<1>1. /\ stage \in [Applies -> {"idle", "found", "create", "complete", "done", "thrown"}]
      /\ pos \in [Applies -> Nat \ {0}] /\ hasProject \in [Applies -> BOOLEAN]
      /\ plan \in [Applies -> SUBSET Items] /\ rows \in [Items -> Nat] /\ gone \in [Items -> BOOLEAN]
      /\ overlapped \in BOOLEAN /\ deletes \in Nat /\ "project" \in Items /\ "project" \in Unique
  BY DEF BlueInv, BlueprintTypeOK, Items, Unique
<1>2. StageInv /\ RowsInv /\ AloneInv /\ PassedInv
  BY DEF BlueInv
<1>3. ASSUME NEW a \in Applies, CreateItem(a) PROVE StageInv' /\ RowsInv' /\ AloneInv' /\ PassedInv'
  <2>1. PICK i \in plan[a] :
          /\ At(a, i) /\ (i \in Unique => rows[i] = 0 /\ ~gone[i])
          /\ rows' = [rows EXCEPT ![i] = @ + 1]
          /\ IF i \in Completed
             THEN stage' = [stage EXCEPT ![a] = "complete"] /\ UNCHANGED pos
             ELSE pos' = [pos EXCEPT ![a] = @ + 1] /\ UNCHANGED stage
          /\ UNCHANGED <<hasProject, plan, gone, deletes, overlapped>>
    BY <1>3 DEF CreateItem
  <2>2. stage[a] = "create" /\ pos[a] \in 1 .. 8 /\ i = Order[pos[a]] /\ i \in Items
    BY <1>1, <2>1, OrderFacts DEF At
  <2>3. Ahead(a, i) /\ (i = "project" <=> pos[a] = 1)
    BY <2>2, OrderFacts DEF Ahead
  <2>4. HadProject'
    BY <1>1, <1>2, <2>1, <2>2, <2>3 DEF HadProject, StageInv
  <2>5. StageInv'
    <3>1. i \in Completed => pos[a] /= 1
      BY <2>3 DEF Completed, WithJob
    <3>2. CASE i \in Completed
      BY <1>1, <1>2, <2>1, <2>2, <2>4, <3>1, <3>2, OrderFacts DEF StageInv
    <3>3. CASE i \notin Completed
      BY <1>1, <1>2, <2>1, <2>2, <2>4, <3>3, OrderFacts DEF StageInv
    <3> QED
      BY <3>2, <3>3
  <2>6. RowsInv'
    BY <1>1, <1>2, <2>1, <2>2, <2>4 DEF RowsInv
  <2>7. AloneInv'
    <3> SUFFICES ASSUME ~overlapped PROVE AloneInv'
      BY <2>1 DEF AloneInv
    <3>1. \A b \in Applies : b /= a => stage[b] \in Over /\ stage'[b] = stage[b]
      BY <1>1, <1>2, <2>1, <2>2 DEF AloneInv, Over
    <3>2. rows[i] = 0
      BY <1>2, <2>1, <2>2, <2>3 DEF AloneInv
    <3>3. pos[a] = 1 /\ "project" \in plan[a] => ~gone["project"]
      BY <1>1, <2>1, <2>3
    <3>4. \A j \in plan[a] : Ahead(a, j)' => Ahead(a, j) /\ j /= i
      BY <1>1, <2>1, <2>2, OrderFacts DEF Ahead
    <3>5. \A j \in plan[a] : Ahead(a, j)' => rows'[j] = 0
      BY <1>1, <1>2, <2>1, <2>2, <3>3, <3>4 DEF AloneInv
    <3>6. \A b \in Applies, j \in Items : b /= a => ~Ahead(b, j)'
      BY <3>1 DEF Ahead, Over
    <3>7. \A j \in Items : rows'[j] <= 1
      BY <1>1, <1>2, <2>1, <2>2, <3>2 DEF AloneInv
    <3>8. \A b \in Applies : stage'[b] /= "found"
      BY <1>1, <2>1, <2>2, <3>1 DEF Over
    <3> QED
      BY <1>1, <2>1, <3>1, <3>5, <3>6, <3>7, <3>8 DEF AloneInv, Over
  <2>8. PassedInv'
    <3> SUFFICES ASSUME deletes = 0 PROVE PassedInv'
      BY <2>1 DEF PassedInv
    <3>1. \A j \in Items : rows'[j] >= rows[j] /\ rows'[i] > 0 /\ rows[j] \in Nat /\ rows'[j] \in Nat
      BY <1>1, <2>1, <2>2
    <3>2. \A b \in Applies, j \in Items : Ahead(b, j) => Ahead(b, j)' \/ j = i
      BY <1>1, <2>1, <2>2, OrderFacts DEF Ahead
    <3>3. \A b \in Applies : stage'[b] \in {"create", "complete", "done"} => stage[b] \in {"create", "complete", "done"}
      BY <1>1, <2>1, <2>2
    <3> QED
      BY <1>1, <1>2, <2>1, <3>1, <3>2, <3>3 DEF PassedInv
  <2> QED
    BY <2>5, <2>6, <2>7, <2>8
<1>4. ASSUME NEW a \in Applies, CompleteItem(a) PROVE StageInv' /\ RowsInv' /\ AloneInv' /\ PassedInv'
  <2>1. /\ stage[a] = "complete" /\ stage' = [stage EXCEPT ![a] = "create"]
        /\ pos' = [pos EXCEPT ![a] = @ + 1] /\ pos[a] \in 2 .. 8
        /\ UNCHANGED <<hasProject, plan, rows, gone, deletes, overlapped>>
    BY <1>2, <1>4, OrderFacts DEF CompleteItem, StageInv
  <2>2. StageInv' /\ RowsInv'
    BY <1>1, <1>2, <2>1, OrderFacts DEF StageInv, RowsInv, HadProject
  <2>3. \A b \in Applies, i \in Items : Ahead(b, i)' <=> Ahead(b, i)
    BY <1>1, <2>1, OrderFacts DEF Ahead
  <2>4. AloneInv'
    BY <1>1, <1>2, <2>1, <2>3 DEF AloneInv, Over
  <2>5. PassedInv'
    BY <1>1, <1>2, <2>1, <2>3 DEF PassedInv
  <2> QED
    BY <2>2, <2>4, <2>5
<1>5. ASSUME NEW a \in Applies, ApplyFails(a) PROVE StageInv' /\ RowsInv' /\ AloneInv' /\ PassedInv'
  <2>1. /\ stage[a] \notin Over /\ stage' = [stage EXCEPT ![a] = "thrown"]
        /\ UNCHANGED <<pos, hasProject, plan, rows, gone, deletes, overlapped>>
    BY <1>5 DEF ApplyFails, tableVars
  <2>2. StageInv' /\ RowsInv'
    BY <1>1, <1>2, <2>1 DEF StageInv, RowsInv, HadProject
  <2>3. AloneInv'
    BY <1>1, <1>2, <2>1 DEF AloneInv, Ahead, Over
  <2>4. PassedInv'
    BY <1>1, <1>2, <2>1 DEF PassedInv, Ahead
  <2> QED
    BY <2>2, <2>3, <2>4
<1>6. ASSUME NEW i \in Items, DeleteItem(i) PROVE StageInv' /\ RowsInv' /\ AloneInv' /\ PassedInv'
  <2>1. /\ rows[i] > 0 /\ rows' = [rows EXCEPT ![i] = @ - 1] /\ gone' = [gone EXCEPT ![i] = TRUE]
        /\ deletes' = deletes + 1
        /\ UNCHANGED <<stage, pos, hasProject, plan, overlapped>>
    BY <1>6 DEF DeleteItem
  <2>2. /\ \A j \in Items : rows'[j] <= rows[j] /\ (rows[j] = 0 => rows'[j] = 0) /\ (gone[j] => gone'[j])
        /\ HadProject => HadProject'
    BY <1>1, <2>1 DEF HadProject
  <2>3. StageInv' /\ RowsInv'
    BY <1>1, <1>2, <2>1, <2>2 DEF StageInv, RowsInv
  <2>4. AloneInv'
    BY <1>1, <1>2, <2>1, <2>2 DEF AloneInv, Ahead, Over
  <2>5. PassedInv'
    BY <1>1, <2>1 DEF PassedInv
  <2> QED
    BY <2>3, <2>4, <2>5
<1> QED
  BY <1>3, <1>4, <1>5, <1>6

\* Of each item the second writes made, about to be made or failed are as many as its rows.
LEMMA LackKeeps ==
    ASSUME BlueInv, BlueprintNext
    PROVE  LackInv' /\ faults' \in Nat
<1> DEFINE Five == {"app", "database", "bucket", "function", "loadBalancer"}
           Size(i) == Cardinality(Completing(i))
<1>1. /\ stage \in [Applies -> {"idle", "found", "create", "complete", "done", "thrown"}]
      /\ pos \in [Applies -> Nat \ {0}] /\ rows \in [Items -> Nat] /\ completed \in [Items -> Nat]
      /\ faults \in Nat /\ LackInv /\ Five = Completed /\ Five \subseteq Items
  BY DEF BlueInv, BlueprintTypeOK, Items, Completed, WithJob
<1>2. \A i \in Five : rows[i] \in Nat /\ completed[i] \in Nat
  BY <1>1
<1>3. \A T \in SUBSET Applies : IsFiniteSet(T) /\ Cardinality(T) \in Nat
  BY BlueprintAssumption, FS_Subset, FS_CardinalityType
<1>4. \A i \in Five : Completing(i) \in SUBSET Applies /\ Completing(i)' \in SUBSET Applies
  BY DEF Completing
<1>5. \A i \in Five : Size(i) \in Nat /\ Size(i)' \in Nat
  BY <1>3, <1>4
<1>6. \A i \in Five : Lack(i) \in Nat
  <2> TAKE i \in Five
  <2> DEFINE x == rows[i]
             y == completed[i] + Size(i)
  <2>1. x \in Nat /\ y \in Nat
    BY <1>2, <1>5
  <2>2. Lack(i) = IF x > y THEN x - y ELSE 0
    BY DEF Lack
  <2> HIDE DEF x, y
  <2> QED
    BY <2>1, <2>2
<1>7. ASSUME NEW i \in Five, NEW d \in Nat,
             rows'[i] \in Nat, completed'[i] \in Nat,
             rows'[i] + completed[i] + Size(i) <= rows[i] + completed'[i] + Size(i)' + d
      PROVE  Lack(i)' \in Nat /\ Lack(i)' <= Lack(i) + d
  <2> DEFINE x == rows[i]
             y == completed[i] + Size(i)
             u == rows'[i]
             v == completed'[i] + Size(i)'
  <2>1. x \in Nat /\ y \in Nat /\ u \in Nat /\ v \in Nat /\ u + y <= x + v + d
    BY <1>2, <1>5, <1>7
  <2>2. Lack(i) = IF x > y THEN x - y ELSE 0
    BY DEF Lack
  <2>3. Lack(i)' = IF u > v THEN u - v ELSE 0
    BY DEF Lack
  <2> HIDE DEF x, y, u, v
  <2> QED
    BY <2>1, <2>2, <2>3
<1>8. ASSUME NEW k, faults' = faults + 1, \A i \in Five : Lack(i)' \in Nat,
             \A i \in Five \ {k} : Lack(i)' <= Lack(i), k \in Five => Lack(k)' <= Lack(k) + 1
      PROVE  LackInv' /\ faults' \in Nat
  <2>1. \A i \in Five : Lack(i)' <= Lack(i) \/ (i = k /\ Lack(i)' <= Lack(i) + 1)
    BY <1>6, <1>8
  <2> HIDE DEF Five
  <2>2. {"app", "database", "bucket", "function", "loadBalancer"} = Five
    BY DEF Five
  <2> QED
    BY <1>1, <1>6, <1>8, <2>1, <2>2 DEF LackInv
<1>9. ASSUME UNCHANGED faults, \A i \in Five : Lack(i)' \in Nat /\ Lack(i)' <= Lack(i)
      PROVE  LackInv' /\ faults' \in Nat
  BY <1>1, <1>6, <1>9 DEF LackInv
<1>10. ASSUME UNCHANGED completed, \A i \in Five : rows'[i] \in Nat /\ rows'[i] <= rows[i],
              \A i \in Five : Completing(i)' = Completing(i)
       PROVE  \A i \in Five : Lack(i)' \in Nat /\ Lack(i)' <= Lack(i)
  <2> TAKE i \in Five
  <2>1. rows'[i] + completed[i] + Size(i) <= rows[i] + completed'[i] + Size(i)' + 0
    BY <1>2, <1>5, <1>10
  <2>2. completed'[i] \in Nat /\ 0 \in Nat
    BY <1>2, <1>10
  <2>3. Lack(i)' \in Nat /\ Lack(i)' <= Lack(i) + 0
    BY <1>7, <1>10, <2>1, <2>2
  <2> QED
    BY <1>6, <2>3
<1>11. ASSUME NEW a \in Applies,
              FindProject(a) \/ ComputePlan(a) \/ PassItem(a) \/ ItemConflicts(a) \/ FinishApply(a)
       PROVE  LackInv' /\ faults' \in Nat
  <2>1. UNCHANGED <<rows, completed, faults>>
    BY <1>11 DEF FindProject, ComputePlan, PassItem, ItemConflicts, FinishApply, tableVars
  <2>2. \A i \in Five : Completing(i)' = Completing(i)
    BY <1>1, <1>11 DEF FindProject, ComputePlan, PassItem, ItemConflicts, FinishApply, At, Completing
  <2> QED
    BY <1>2, <1>9, <1>10, <2>1, <2>2
<1>12. ASSUME NEW a \in Applies, CreateItem(a) PROVE LackInv' /\ faults' \in Nat
  <2>1. PICK i \in plan[a] :
          /\ At(a, i) /\ rows' = [rows EXCEPT ![i] = @ + 1]
          /\ IF i \in Completed
             THEN stage' = [stage EXCEPT ![a] = "complete"] /\ UNCHANGED pos
             ELSE pos' = [pos EXCEPT ![a] = @ + 1] /\ UNCHANGED stage
          /\ UNCHANGED <<completed, faults>>
    BY <1>12 DEF CreateItem
  <2>2. stage[a] = "create" /\ i = Order[pos[a]]
    BY <2>1 DEF At
  <2>3. CASE i \notin Completed
    <3>1. \A j \in Five : rows'[j] = rows[j] /\ Completing(j)' = Completing(j)
      BY <1>1, <2>1, <2>2, <2>3 DEF Completing
    <3> QED
      BY <1>2, <1>9, <1>10, <2>1, <3>1
  <2>4. CASE i \in Completed
    <3>1. \A j \in Five : Completing(j)' = IF j = i THEN Completing(j) \union {a} ELSE Completing(j)
      BY <1>1, <2>1, <2>2, <2>4 DEF Completing
    <3>2. i \in Five /\ a \notin Completing(i) /\ Size(i)' = Size(i) + 1
      <4>1. a \notin Completing(i)
        BY <2>2 DEF Completing
      <4> QED
        BY <1>1, <1>3, <1>4, <2>4, <3>1, <4>1, FS_AddElement
    <3>3. \A j \in Five : rows'[j] = IF j = i THEN rows[j] + 1 ELSE rows[j]
      BY <1>1, <2>1
    <3>4. ASSUME NEW j \in Five PROVE Lack(j)' \in Nat /\ Lack(j)' <= Lack(j)
      <4>1. Size(j)' = IF j = i THEN Size(j) + 1 ELSE Size(j)
        BY <3>1, <3>2
      <4>2. rows'[j] + completed[j] + Size(j) <= rows[j] + completed'[j] + Size(j)' + 0
        BY <1>2, <1>5, <2>1, <3>3, <4>1
      <4>3. rows'[j] \in Nat /\ completed'[j] \in Nat /\ 0 \in Nat
        BY <1>2, <2>1, <3>3
      <4>4. Lack(j)' \in Nat /\ Lack(j)' <= Lack(j) + 0
        BY <1>7, <4>2, <4>3
      <4> QED
        BY <1>6, <4>4
    <3> QED
      BY <1>9, <2>1, <3>4
  <2> QED
    BY <2>3, <2>4
<1>13. ASSUME NEW a \in Applies, CompleteItem(a) PROVE LackInv' /\ faults' \in Nat
  <2>1. /\ stage[a] = "complete" /\ stage' = [stage EXCEPT ![a] = "create"]
        /\ pos' = [pos EXCEPT ![a] = @ + 1]
        /\ completed' = [completed EXCEPT ![Order[pos[a]]] = @ + 1]
        /\ UNCHANGED <<rows, faults>>
    BY <1>13 DEF CompleteItem
  <2>2. \A j \in Five : Completing(j)' = IF j = Order[pos[a]] THEN Completing(j) \ {a} ELSE Completing(j)
    BY <1>1, <2>1 DEF Completing
  <2>3. ASSUME NEW j \in Five PROVE Lack(j)' \in Nat /\ Lack(j)' <= Lack(j)
    <3>1. j = Order[pos[a]] => a \in Completing(j)
      BY <2>1 DEF Completing
    <3>2. Size(j)' = IF j = Order[pos[a]] THEN Size(j) - 1 ELSE Size(j)
      BY <1>3, <1>4, <2>2, <3>1, FS_RemoveElement
    <3>3. completed'[j] = IF j = Order[pos[a]] THEN completed[j] + 1 ELSE completed[j]
      BY <1>1, <2>1
    <3>4. rows'[j] + completed[j] + Size(j) <= rows[j] + completed'[j] + Size(j)' + 0
      BY <1>2, <1>5, <2>1, <3>2, <3>3
    <3>5. rows'[j] \in Nat /\ completed'[j] \in Nat /\ 0 \in Nat
      BY <1>2, <2>1, <3>3
    <3>6. Lack(j)' \in Nat /\ Lack(j)' <= Lack(j) + 0
      BY <1>7, <3>4, <3>5
    <3> QED
      BY <1>6, <3>6
  <2> QED
    BY <1>9, <2>1, <2>3
<1>14. ASSUME NEW a \in Applies, ApplyFails(a) PROVE LackInv' /\ faults' \in Nat
  <2>1. /\ stage' = [stage EXCEPT ![a] = "thrown"] /\ faults' = faults + 1
        /\ UNCHANGED <<pos, rows, completed>>
    BY <1>14 DEF ApplyFails, tableVars, Fault
  <2>2. \A j \in Five : Completing(j)' = IF j = Order[pos[a]] THEN Completing(j) \ {a} ELSE Completing(j)
    BY <1>1, <2>1 DEF Completing
  <2>3. ASSUME NEW j \in Five, NEW d \in Nat, d = 1 \/ (d = 0 /\ j /= Order[pos[a]])
        PROVE  Lack(j)' \in Nat /\ Lack(j)' <= Lack(j) + d
    <3>1. Size(j) <= Size(j)' + d
      <4>1. CASE j = Order[pos[a]] /\ a \in Completing(j)
        <5>1. Size(j)' = Size(j) - 1
          BY <1>3, <1>4, <2>2, <4>1, FS_RemoveElement
        <5> QED
          BY <1>5, <2>3, <4>1, <5>1
      <4>2. CASE ~(j = Order[pos[a]] /\ a \in Completing(j))
        <5>1. Completing(j)' = Completing(j)
          BY <2>2, <4>2
        <5> QED
          BY <1>5, <5>1
      <4> QED
        BY <4>1, <4>2
    <3>2. rows'[j] + completed[j] + Size(j) <= rows[j] + completed'[j] + Size(j)' + d
      BY <1>2, <1>5, <2>1, <3>1
    <3>3. rows'[j] \in Nat /\ completed'[j] \in Nat
      BY <1>2, <2>1
    <3> QED
      BY <1>7, <3>2, <3>3
  <2>4. \A j \in Five \ {Order[pos[a]]} : Lack(j)' <= Lack(j)
    <3> TAKE j \in Five \ {Order[pos[a]]}
    <3>1. Lack(j)' <= Lack(j) + 0
      BY <2>3
    <3> QED
      BY <1>6, <3>1
  <2>5. \A j \in Five : Lack(j)' \in Nat /\ Lack(j)' <= Lack(j) + 1
    BY <2>3
  <2> QED
    BY <1>8, <2>1, <2>4, <2>5
<1>15. ASSUME NEW i \in Items, DeleteItem(i) PROVE LackInv' /\ faults' \in Nat
  <2>1. rows[i] > 0 /\ rows' = [rows EXCEPT ![i] = @ - 1] /\ UNCHANGED <<stage, pos, completed, faults>>
    BY <1>15 DEF DeleteItem
  <2>2. \A j \in Five : rows'[j] \in Nat /\ rows'[j] <= rows[j]
    BY <1>1, <2>1
  <2>3. \A j \in Five : Completing(j)' = Completing(j)
    BY <2>1 DEF Completing
  <2> QED
    BY <1>9, <1>10, <2>1, <2>2, <2>3
<1> QED
  BY <1>11, <1>12, <1>13, <1>14, <1>15 DEF BlueprintNext

\* The types.
LEMMA BlueprintTypes ==
    ASSUME BlueInv, BlueprintNext
    PROVE  BlueprintTypeOK'
<1>1. /\ stage \in [Applies -> {"idle", "found", "create", "complete", "done", "thrown"}]
      /\ pos \in [Applies -> Nat \ {0}] /\ hasProject \in [Applies -> BOOLEAN]
      /\ plan \in [Applies -> SUBSET Items] /\ rows \in [Items -> Nat] /\ gone \in [Items -> BOOLEAN]
      /\ completed \in [Items -> Nat] /\ overlapped \in BOOLEAN /\ deletes \in Nat
  BY DEF BlueInv, BlueprintTypeOK
<1>2. ASSUME NEW a \in Applies, FindProject(a) PROVE BlueprintTypeOK'
  <2>1. /\ stage' = [stage EXCEPT ![a] = "found"]
        /\ hasProject' = [hasProject EXCEPT ![a] = rows["project"] > 0]
        /\ overlapped' = (overlapped \/ \E b \in Applies : stage[b] \notin Over)
        /\ UNCHANGED <<pos, plan, rows, gone, completed, deletes>>
    BY <1>2 DEF FindProject, tableVars
  <2>2. hasProject' \in [Applies -> BOOLEAN]
    <3>1. (rows["project"] > 0) \in BOOLEAN
      OBVIOUS
    <3> QED
      BY <1>1, <2>1, <3>1
  <2>3. overlapped' \in BOOLEAN
    BY <2>1
  <2> QED
    BY <1>1, <2>1, <2>2, <2>3 DEF BlueprintTypeOK
<1>3. ASSUME NEW a \in Applies, ComputePlan(a) PROVE BlueprintTypeOK'
  <2>1. Items \ Existing(a) \in SUBSET Items
    OBVIOUS
  <2> QED
    BY <1>1, <1>3, <2>1 DEF ComputePlan, tableVars, BlueprintTypeOK
<1>4. ASSUME NEW a \in Applies, PassItem(a) \/ ItemConflicts(a) \/ FinishApply(a) \/ ApplyFails(a)
      PROVE  BlueprintTypeOK'
  <2>1. CASE PassItem(a)
    BY <1>1, <2>1 DEF PassItem, tableVars, BlueprintTypeOK
  <2>2. CASE ItemConflicts(a) \/ FinishApply(a) \/ ApplyFails(a)
    <3>1. /\ stage' \in [Applies -> {"idle", "found", "create", "complete", "done", "thrown"}]
          /\ UNCHANGED <<pos, hasProject, plan, rows, gone, completed, deletes, overlapped>>
      BY <1>1, <2>2 DEF ItemConflicts, FinishApply, ApplyFails, tableVars
    <3> QED
      BY <1>1, <3>1 DEF BlueprintTypeOK
  <2> QED
    BY <1>4, <2>1, <2>2
<1>5. ASSUME NEW a \in Applies, CreateItem(a) PROVE BlueprintTypeOK'
  BY <1>1, <1>5 DEF CreateItem, BlueprintTypeOK
<1>6. ASSUME NEW a \in Applies, CompleteItem(a) PROVE BlueprintTypeOK'
  <2>1. Order[pos[a]] \in Items
    BY <1>6, OrderFacts DEF CompleteItem, BlueInv, StageInv
  <2> QED
    BY <1>1, <1>6, <2>1 DEF CompleteItem, BlueprintTypeOK
<1>7. ASSUME NEW i \in Items, DeleteItem(i) PROVE BlueprintTypeOK'
  BY <1>1, <1>7 DEF DeleteItem, BlueprintTypeOK
<1> QED
  BY <1>2, <1>3, <1>4, <1>5, <1>6, <1>7 DEF BlueprintNext

\* An apply that is alone is refused by a name only when it belongs to a deleted row.
LEMMA ThrownKeeps ==
    ASSUME BlueInv, BlueprintNext
    PROVE  ThrownInv'
<1>1. /\ stage \in [Applies -> {"idle", "found", "create", "complete", "done", "thrown"}]
      /\ pos \in [Applies -> Nat \ {0}]
      /\ rows \in [Items -> Nat] /\ gone \in [Items -> BOOLEAN] /\ faults \in Nat
      /\ Unique \subseteq Items
  BY DEF BlueInv, BlueprintTypeOK, Unique, Items
<1>2. /\ faults' \in {faults, faults + 1} /\ (overlapped => overlapped')
      /\ \A i \in Items : gone[i] => gone'[i]
  <2>1. ASSUME NEW a \in Applies, FindProject(a)
        PROVE  UNCHANGED <<faults, gone>> /\ (overlapped => overlapped')
    BY <2>1 DEF FindProject, tableVars
  <2>2. ASSUME NEW a \in Applies,
               \/ ComputePlan(a) \/ PassItem(a) \/ CreateItem(a) \/ ItemConflicts(a)
               \/ CompleteItem(a) \/ FinishApply(a)
        PROVE  UNCHANGED <<faults, gone, overlapped>>
    BY <2>2 DEF ComputePlan, PassItem, CreateItem, ItemConflicts, CompleteItem, FinishApply, tableVars
  <2>3. ASSUME NEW a \in Applies, ApplyFails(a)
        PROVE  UNCHANGED <<gone, overlapped>> /\ faults' = faults + 1
    BY <2>3 DEF ApplyFails, Fault, tableVars
  <2>4. ASSUME NEW i \in Items, DeleteItem(i)
        PROVE  UNCHANGED <<faults, overlapped>> /\ gone' = [gone EXCEPT ![i] = TRUE]
    BY <2>4 DEF DeleteItem
  <2> QED
    BY <1>1, <2>1, <2>2, <2>3, <2>4 DEF BlueprintNext
<1>3. ASSUME NEW a \in Applies, ItemConflicts(a), ~overlapped
      PROVE  \E i \in Unique : gone[i]
  <2>1. PICK i \in plan[a] \intersect Unique : At(a, i) /\ (rows[i] > 0 \/ gone[i])
    BY <1>3 DEF ItemConflicts
  <2>2. Ahead(a, i) /\ i \in Items
    BY <1>1, <2>1, OrderFacts DEF At, Ahead
  <2>3. "project" \in Unique
    BY DEF Unique
  <2> QED
    BY <1>1, <1>3, <2>1, <2>2, <2>3 DEF BlueInv, AloneInv
<1>4. ASSUME NEW a \in Applies, ItemConflicts(a) PROVE ThrownInv'
  <2>1. stage' = [stage EXCEPT ![a] = "thrown"] /\ UNCHANGED <<gone, overlapped, faults>>
    BY <1>4 DEF ItemConflicts, tableVars
  <2> QED
    BY <1>1, <1>3, <1>4, <2>1 DEF BlueInv, ThrownInv
<1>5. ASSUME NEW a \in Applies, ApplyFails(a) PROVE ThrownInv'
  BY <1>1, <1>5 DEF ApplyFails, Fault, ThrownInv
<1>6. ASSUME \A a \in Applies : ~ItemConflicts(a) /\ ~ApplyFails(a) PROVE ThrownInv'
  <2>1. \A a \in Applies : stage'[a] = "thrown" => stage[a] = "thrown"
    BY <1>1, <1>6 DEF BlueprintNext, FindProject, ComputePlan, PassItem, CreateItem, CompleteItem,
                      FinishApply, DeleteItem
  <2> QED
    BY <1>1, <1>2, <2>1 DEF BlueInv, ThrownInv
<1> QED
  BY <1>4, <1>5, <1>6

\* Of five items as many lack a second write as writes of all of them are lacking, at most.
LEMMA LackCounts ==
    ASSUME BlueInv, \A a \in Applies : stage[a] \in Over
    PROVE  Cardinality({i \in Completed : rows[i] > completed[i]}) <= faults
<1> DEFINE S == {i \in Completed : rows[i] > completed[i]}
           One(i) == S \intersect {i}
<1>1. \A i \in Completed : rows[i] \in Nat /\ completed[i] \in Nat
  BY DEF BlueInv, BlueprintTypeOK, Completed, WithJob, Items
<1>2. \A i \in Completed : Completing(i) = {}
  BY DEF Completing, Over
<1>3. \A i \in Completed : /\ Lack(i) \in Nat
                           /\ IsFiniteSet(One(i)) /\ Cardinality(One(i)) \in Nat /\ Cardinality(One(i)) <= Lack(i)
  <2> TAKE i \in Completed
  <2>1. Lack(i) = IF rows[i] > completed[i] + 0 THEN rows[i] - (completed[i] + 0) ELSE 0
    BY <1>2, FS_EmptySet DEF Lack
  <2>2. CASE rows[i] > completed[i]
    <3>1. One(i) = {i}
      BY <2>2
    <3> HIDE DEF One
    <3>2. Lack(i) = rows[i] - completed[i] /\ Lack(i) \in Nat /\ Lack(i) >= 1
      BY <1>1, <2>1, <2>2
    <3>3. IsFiniteSet(One(i)) /\ Cardinality(One(i)) = 1
      BY <3>1, FS_Singleton
    <3> QED
      BY <3>2, <3>3
  <2>3. CASE ~(rows[i] > completed[i])
    <3>1. One(i) = {}
      BY <2>3
    <3> HIDE DEF One
    <3> QED
      BY <1>1, <2>1, <2>3, <3>1, FS_EmptySet
  <2> QED
    BY <2>2, <2>3
<1>4. S = One("app") \union (One("database") \union (One("bucket") \union (One("function") \union One("loadBalancer"))))
  BY DEF Completed, WithJob
<1>5. ASSUME NEW X, NEW Y, NEW x \in Nat, NEW y \in Nat, IsFiniteSet(X), IsFiniteSet(Y),
             Cardinality(X) \in Nat, Cardinality(Y) \in Nat, Cardinality(X) <= x, Cardinality(Y) <= y
      PROVE  IsFiniteSet(X \union Y) /\ Cardinality(X \union Y) \in Nat /\ Cardinality(X \union Y) <= x + y
  <2>1. /\ IsFiniteSet(X \union Y)
        /\ Cardinality(X \union Y) = Cardinality(X) + Cardinality(Y) - Cardinality(X \intersect Y)
    BY <1>5, FS_Union
  <2>2. Cardinality(X \intersect Y) \in Nat /\ Cardinality(X \union Y) \in Nat
    BY <1>5, <2>1, FS_Subset, FS_CardinalityType
  <2> QED
    BY <1>5, <2>1, <2>2
<1>6. "app" \in Completed /\ "database" \in Completed /\ "bucket" \in Completed
      /\ "function" \in Completed /\ "loadBalancer" \in Completed
  BY DEF Completed, WithJob
<1> DEFINE U4 == One("function") \union One("loadBalancer")
           U3 == One("bucket") \union U4
           U2 == One("database") \union U3
           n4 == Lack("function") + Lack("loadBalancer")
           n3 == Lack("bucket") + n4
           n2 == Lack("database") + n3
<1>7. /\ n4 \in Nat /\ n3 \in Nat /\ n2 \in Nat /\ Lack("app") + n2 <= faults
  <2>1. /\ Lack("app") \in Nat /\ Lack("database") \in Nat /\ Lack("bucket") \in Nat
        /\ Lack("function") \in Nat /\ Lack("loadBalancer") \in Nat
    BY <1>3, <1>6
  <2>2. faults \in Nat /\ Lack("app") + Lack("database") + Lack("bucket") + Lack("function") + Lack("loadBalancer") <= faults
    BY DEF BlueInv, LackInv
  <2> QED
    BY <2>1, <2>2
<1>8. S = One("app") \union U2
  BY <1>4
<1> HIDE DEF S, One
<1>9. IsFiniteSet(U4) /\ Cardinality(U4) \in Nat /\ Cardinality(U4) <= n4
  BY <1>3, <1>5, <1>6
<1> HIDE DEF U4, n4
<1>10. IsFiniteSet(U3) /\ Cardinality(U3) \in Nat /\ Cardinality(U3) <= n3
  BY <1>3, <1>5, <1>6, <1>7, <1>9
<1> HIDE DEF U3, n3
<1>11. IsFiniteSet(U2) /\ Cardinality(U2) \in Nat /\ Cardinality(U2) <= n2
  BY <1>3, <1>5, <1>6, <1>7, <1>10
<1> HIDE DEF U2, n2
<1>12. Cardinality(S) \in Nat /\ Cardinality(S) <= Lack("app") + n2
  BY <1>3, <1>5, <1>6, <1>7, <1>8, <1>11
<1>13. faults \in Nat /\ Lack("app") \in Nat
  BY <1>3, <1>6 DEF BlueInv
<1>14. Cardinality(S) <= faults
  BY <1>7, <1>12, <1>13
<1> QED
  BY <1>14 DEF S

\* It holds of the rows and of the applies at every moment.
LEMMA BlueprintKept == BlueprintSpec => []BlueInv
<1>1. BlueprintInit /\ faults = 0 => BlueInv
  <2> SUFFICES ASSUME BlueprintInit, faults = 0 PROVE BlueInv
    OBVIOUS
  <2>1. BlueprintTypeOK
    <3>1. /\ stage \in [Applies -> {"idle", "found", "create", "complete", "done", "thrown"}]
          /\ pos \in [Applies -> Nat \ {0}]
      BY DEF BlueprintInit
    <3>2. hasProject \in [Applies -> BOOLEAN] /\ plan \in [Applies -> SUBSET Items]
      BY DEF BlueprintInit
    <3>3. rows \in [Items -> Nat] /\ gone \in [Items -> BOOLEAN] /\ completed \in [Items -> Nat]
      BY DEF BlueprintInit
    <3>4. overlapped \in BOOLEAN /\ deletes \in Nat
      BY DEF BlueprintInit
    <3> QED
      BY <3>1, <3>2, <3>3, <3>4 DEF BlueprintTypeOK
  <2>2. StageInv /\ RowsInv /\ AloneInv /\ PassedInv
    BY OrderFacts DEF BlueprintInit, StageInv, RowsInv, AloneInv, PassedInv, Over, Ahead, Unique, Items
  <2>3. LackInv
    <3>1. \A i \in Items : rows[i] = 0 /\ completed[i] = 0 /\ Completing(i) = {}
      BY DEF BlueprintInit, Completing
    <3>2. \A i \in Items : Lack(i) = 0
      BY <3>1, FS_EmptySet DEF Lack
    <3> QED
      BY <3>2 DEF LackInv, Items
  <2> QED
    BY <2>1, <2>2, <2>3 DEF BlueInv, ThrownInv, BlueprintInit
<1>2. BlueInv /\ [BlueprintNext]_<<blueprintVars, faults>> => BlueInv'
  <2> SUFFICES ASSUME BlueInv, [BlueprintNext]_<<blueprintVars, faults>> PROVE BlueInv'
    OBVIOUS
  <2>1. CASE UNCHANGED <<blueprintVars, faults>>
    <3> USE <2>1 DEF blueprintVars
    <3>1. BlueprintTypeOK' /\ faults' \in Nat /\ ThrownInv'
      BY DEF BlueInv, BlueprintTypeOK, ThrownInv
    <3>2. StageInv' /\ RowsInv'
      BY DEF BlueInv, StageInv, RowsInv, HadProject
    <3>3. \A a, i : Ahead(a, i)' <=> Ahead(a, i)
      BY DEF Ahead
    <3>4. AloneInv' /\ PassedInv'
      BY <3>3 DEF BlueInv, AloneInv, PassedInv
    <3>5. \A i : Completing(i)' = Completing(i)
      BY DEF Completing
    <3>6. \A i : Lack(i)' = Lack(i)
      BY <3>5 DEF Lack
    <3>7. LackInv'
      BY <3>6 DEF BlueInv, LackInv
    <3> QED
      BY <3>1, <3>2, <3>4, <3>7 DEF BlueInv
  <2>2. CASE BlueprintNext
    <3>1. StageInv' /\ RowsInv' /\ AloneInv' /\ PassedInv'
      BY <2>2, PlanKeeps, RowsKeep DEF BlueprintNext
    <3>2. LackInv' /\ faults' \in Nat
      BY <2>2, LackKeeps
    <3>3. BlueprintTypeOK' /\ ThrownInv'
      BY <2>2, BlueprintTypes, ThrownKeeps
    <3> QED
      BY <3>1, <3>2, <3>3 DEF BlueInv
  <2> QED
    BY <2>1, <2>2
<1> QED
  BY <1>1, <1>2, PTL DEF BlueprintSpec

\* Applying a blueprint again makes nothing twice and leaves nothing out, but for an overlap,
\* a failure or a deletion (blueprint.ts POST /blueprint/apply).
THEOREM AppliesDoConverge == BlueprintSpec => []AppliesConverge
<1>1. BlueInv => AppliesConverge
  <2> SUFFICES ASSUME BlueInv PROVE AppliesConverge
    OBVIOUS
  <2>1. ASSUME NEW i \in Items, rows[i] > 1 PROVE overlapped /\ i \notin Unique
    BY <2>1 DEF BlueInv, RowsInv, AloneInv, BlueprintTypeOK
  <2>2. ASSUME NEW a \in Applies, stage[a] = "done", deletes = 0 PROVE \A i \in Items : rows[i] > 0
    BY <2>2 DEF BlueInv, PassedInv, Ahead
  <2> QED
    BY <2>1, <2>2, LackCounts DEF BlueInv, ThrownInv, AppliesConverge
<1> QED
  BY BlueprintKept, <1>1, PTL

-----------------------------------------------------------------------------
(* Builder. While the dialog of a plan is open nothing but an import moves *)
(* the canvas.                                                             *)

PlanInv ==
    dialog = "deploy" /\ ~mixed =>
        /\ \A a \in asking : a.bp = ToBlueprint(canvas)
        /\ planned /= NoBlueprint => planned = ToBlueprint(canvas)

BuilderInv == PlanInv /\ AppliesWhatItShows

\* What the user does on the page, where no dialog is open, keeps what the dialog shows.
LEMMA PageKeeps ==
    ASSUME BuilderInv, OnPage, UNCHANGED requestVars
    PROVE  BuilderInv'
BY DEF BuilderInv, PlanInv, AppliesWhatItShows, OnPage, requestVars

\* Every step keeps what the dialog shows.
LEMMA BuilderStep ==
    ASSUME BuilderInv, [BuilderNext]_<<builderVars, faults>>
    PROVE  BuilderInv'
<1>1. CASE UNCHANGED <<builderVars, faults>>
  BY <1>1 DEF builderVars, BuilderInv, PlanInv, AppliesWhatItShows
<1>2. ASSUME NEW kind \in NodeKinds, AddNode(kind) PROVE BuilderInv'
  BY <1>2, PageKeeps DEF AddNode
<1>3. CASE DeleteNode \/ UpdateNode \/ StartConnect \/ ClickBackground \/ TypeYaml \/ ApplyYaml
  BY <1>3, PageKeeps DEF DeleteNode, UpdateNode, StartConnect, ClickBackground, TypeYaml, ApplyYaml
<1>4. ASSUME NEW id \in Ids, ClickNode(id) PROVE BuilderInv'
  BY <1>4, PageKeeps DEF ClickNode
<1>5. ASSUME NEW e \in canvas.edges, RemoveEdge(e) PROVE BuilderInv'
  BY <1>5, PageKeeps DEF RemoveEdge
<1>6. CASE CloseDialog \/ OpenImport
  BY <1>6 DEF CloseDialog, OpenImport, OnPage, drawingVars, BuilderInv, PlanInv, AppliesWhatItShows
<1>7. CASE StartImport
  BY <1>7 DEF StartImport, drawingVars, BuilderInv, PlanInv, AppliesWhatItShows
<1>8. CASE ImportAnswers
  <2>1. UNCHANGED <<planned, asking, applied>>
    BY <1>8 DEF ImportAnswers
  <2>2. \/ mixed' = (mixed \/ dialog = "deploy") /\ dialog' = (IF dialog = "import" THEN "none" ELSE dialog)
        \/ UNCHANGED <<canvas, dialog, mixed>>
    BY <1>8 DEF ImportAnswers, drawingVars
  <2>3. (dialog' = "deploy" /\ ~mixed') => UNCHANGED canvas /\ dialog = "deploy" /\ ~mixed
    BY <2>2
  <2> QED
    BY <2>1, <2>3 DEF BuilderInv, PlanInv, AppliesWhatItShows
<1>9. CASE RunPlan
  <2> DEFINE a == [no |-> clicks, bp |-> ToBlueprint(canvas)]
  <2>1. /\ UNCHANGED <<canvas, applied>> /\ planned' = NoBlueprint
        /\ asking' = asking \union {a} /\ (mixed' <=> asking /= {})
    BY <1>9 DEF RunPlan, AskPlan, drawingVars
  <2>2. a.bp = ToBlueprint(canvas)
    OBVIOUS
  <2> HIDE DEF a
  <2>3. PlanInv'
    BY <2>1, <2>2 DEF PlanInv
  <2> QED
    BY <2>1, <2>3 DEF BuilderInv, AppliesWhatItShows
<1>10. ASSUME NEW a \in asking, PlanAnswers(a) PROVE BuilderInv'
  BY <1>10 DEF PlanAnswers, drawingVars, BuilderInv, PlanInv, AppliesWhatItShows
<1>11. CASE Confirm
  BY <1>11 DEF Confirm, drawingVars, BuilderInv, PlanInv, AppliesWhatItShows
<1>12. CASE DeployAnswers
  BY <1>12 DEF DeployAnswers, drawingVars, BuilderInv, PlanInv, AppliesWhatItShows
<1> QED
  BY <1>1, <1>2, <1>3, <1>4, <1>5, <1>6, <1>7, <1>8, <1>9, <1>10, <1>11, <1>12 DEF BuilderNext

\* It holds of the builder page at every moment.
LEMMA BuilderKept == BuilderSpec => []BuilderInv
<1>1. BuilderInit => BuilderInv
  BY DEF BuilderInit, BuilderInv, PlanInv, AppliesWhatItShows
<1>2. BuilderInv /\ [BuilderNext]_<<builderVars, faults>> => BuilderInv'
  BY BuilderStep
<1> QED
  BY <1>1, <1>2, PTL DEF BuilderSpec

\* What a user confirms is what the plan showed, unless plans or an import were mixed with
\* it (dashboard/builder/page.tsx runPlan, confirm).
THEOREM ConfirmedAsShown == BuilderSpec => []AppliesWhatItShows
<1>1. BuilderInv => AppliesWhatItShows
  BY DEF BuilderInv
<1> QED
  BY BuilderKept, <1>1, PTL

-----------------------------------------------------------------------------
(* The parts of MCControlPlane together. The part that moves takes steps   *)
(* of its own specification only, and the others stay as they began.       *)

\* That the part p is the one that moves.
InMotion(p) == part = p

\* The parts, and those of which no invariant counts the faults.
PartNames == {"triggers", "firewalls", "blueprint", "domains", "containers", "members",
              "secrets", "installations", "jobs", "releases", "access"}
Uncounted == {"firewalls", "members", "secrets", "installations", "releases", "access"}

\* How the parts begin (MCInit).
LEMMA PartsBegin ==
    MCInit =>
        /\ faults = 0
        /\ part \in PartNames
        /\ TriggersInit /\ FirewallsInit /\ BlueprintInit /\ DomainsInit
        /\ ContainersInit /\ MembersInit /\ SecretsInit /\ InstallationsInit
        /\ JobsInit /\ ReleasesInit /\ AccessInit
BY DEF MCInit, PartNames

\* One part moves, by itself (MCNext).
LEMMA OnePartMoves ==
    ASSUME [MCNext]_partVars
    PROVE  /\ UNCHANGED part
           /\ IF part = "triggers" THEN [TriggersNext]_<<triggerVars, faults>> ELSE UNCHANGED triggerVars
           /\ IF part = "firewalls" THEN [FirewallsNext]_<<firewallVars, faults>> ELSE UNCHANGED firewallVars
           /\ IF part = "blueprint" THEN [BlueprintNext]_<<blueprintVars, faults>> ELSE UNCHANGED blueprintVars
           /\ IF part = "domains" THEN [DomainsNext]_<<domainVars, faults>> ELSE UNCHANGED domainVars
           /\ IF part = "containers" THEN [ContainersNext]_<<containerVars, faults>> ELSE UNCHANGED containerVars
           /\ IF part = "members" THEN [MembersNext]_memberVars ELSE UNCHANGED memberVars
           /\ IF part = "secrets" THEN [SecretsNext]_<<secretVars, faults>> ELSE UNCHANGED secretVars
           /\ IF part = "installations" THEN [InstallationsNext]_<<installationVars, faults>>
              ELSE UNCHANGED installationVars
           /\ IF part = "jobs" THEN [JobsNext]_<<jobVars, faults>> ELSE UNCHANGED jobVars
           /\ IF part = "releases" THEN [ReleasesNext]_<<releaseVars, faults>> ELSE UNCHANGED releaseVars
           /\ IF part = "access" THEN [AccessNext]_accessVars ELSE UNCHANGED accessVars
           /\ part \in {"members", "access"} => UNCHANGED faults
BY DEF MCNext, partVars

\* A step of a part that keeps no count of the faults meets one at most.
LEMMA FaultsAreCounted ==
    ASSUME FirewallsNext \/ SecretsNext \/ InstallationsNext \/ ReleasesNext
    PROVE  faults' = faults \/ faults' = faults + 1
<1>1. CASE SecretsNext
  BY <1>1 DEF SecretsNext, SetSecret, InjectSecrets, AddRow, UpdateSecret, DeleteSecret, ReplaceKey,
              ResolveEnv, SendEnv, ResolveAgain, Fault
<1>2. CASE InstallationsNext
  <2>1. ASSUME NEW r \in Repos, AddRepository(r) \/ DropRepository(r) PROVE faults' = faults
    BY <2>1 DEF AddRepository, DropRepository, Change
  <2>2. ASSUME Suspend \/ Uninstall \/ LinkInstallation \/ UnlinkInstallation PROVE faults' = faults
    BY <2>2 DEF Suspend, Uninstall, Change, LinkInstallation, UnlinkInstallation
  <2>3. ASSUME OpenCallback \/ ReadInstallation PROVE faults' = faults \/ faults' = faults + 1
    BY <2>3 DEF OpenCallback, ReadInstallation, Fault
  <2>4. ASSUME NEW e \in 1 .. MaxChanges, LoseEvent(e) \/ Redeliver(e) PROVE faults' = faults + 1
    BY <2>4 DEF LoseEvent, Redeliver, Fault
  <2>5. ASSUME NEW e \in 1 .. MaxChanges, ReadLink(e) \/ DeleteLink(e) PROVE faults' = faults
    BY <2>5 DEF ReadLink, DeleteLink
  <2>6. ASSUME NEW e \in 1 .. MaxChanges, SyncLink(e) PROVE faults' = faults
    BY <2>6 DEF SyncLink
  <2> QED
    BY <1>2, <2>1, <2>2, <2>3, <2>4, <2>5, <2>6 DEF InstallationsNext
<1>3. CASE ReleasesNext
  BY <1>3 DEF ReleasesNext, Push, DeployPush, DeployRef, BuildSpec, Rollback, CloneRepo, DockerBuild, PullImage,
              RunImage, TimeOut, LateBuild, NodeStops, Fault
<1>4. CASE FirewallsNext
  <2>1. ASSUME NEW f \in Firewalls,
               CreateFirewall(f) \/ PatchFirewall(f) \/ DeleteFirewall(f) \/ ApplyFirewall(f)
               \/ SendToNode(f) \/ EndFirewallJob(f)
        PROVE  faults' = faults
    BY <2>1 DEF CreateFirewall, PatchFirewall, DeleteFirewall, ApplyFirewall, SendToNode, EndFirewallJob
  <2>2. ASSUME NEW f \in Firewalls, NEW a \in Actions, AddFirewallJob(f, a) \/ StartFirewallJob(f, a)
        PROVE  faults' = faults
    BY <2>2 DEF AddFirewallJob, StartFirewallJob
  <2>3. ASSUME NEW f \in Firewalls, FirewallWorkerDies(f) \/ \E a \in Actions : FirewallRequestDies(f, a)
        PROVE  faults' = faults + 1
    BY <2>3 DEF FirewallWorkerDies, FirewallRequestDies, FaultOf, Fault
  <2>4. ASSUME NEW c \in commands, Enforce(c) \/ RefuseFirewall(c) \/ ReportFirewall(c)
        PROVE  faults' = faults
    BY <2>4 DEF Enforce, RefuseFirewall, ReportFirewall
  <2>5. ASSUME NEW c \in commands, LoseFirewallCommand(c) PROVE faults' = faults + 1
    BY <2>5 DEF LoseFirewallCommand, FaultOf, Fault
  <2> QED
    BY <1>4, <2>1, <2>2, <2>3, <2>4, <2>5 DEF FirewallsNext
<1> QED
  BY <1>1, <1>2, <1>3, <1>4

\* What holds while one part moves: of that one what was proved of it alone, and the others
\* are as they began.
TriggersPart ==
    /\ InMotion("triggers") => TriggersInv /\ DeploysOnce /\ MissHasCause
    /\ ~InMotion("triggers") => TriggersInit
FirewallsPart ==
    /\ InMotion("firewalls") => FirewallInv /\ EnforcedHasCause
    /\ ~InMotion("firewalls") => FirewallsInit
BlueprintPart ==
    /\ InMotion("blueprint") => BlueInv /\ AppliesConverge
    /\ ~InMotion("blueprint") => BlueprintInit
DomainsPart ==
    /\ InMotion("domains") => DomainsInv /\ RoutesLead
    /\ ~InMotion("domains") => DomainsInit
ContainersPart ==
    /\ InMotion("containers") => ContainersInv /\ faults \in Nat /\ BoxFollowsOrders
    /\ ~InMotion("containers") => ContainersInit
MembersPart ==
    /\ InMotion("members") => MembersInv /\ OwnersRemain
    /\ ~InMotion("members") => MembersInit
SecretsPart ==
    /\ InMotion("secrets") => SecretInv /\ LastValueReachesApp
    /\ ~InMotion("secrets") => SecretsInit
InstallationsPart ==
    /\ InMotion("installations") => InstallationInv /\ LinkFollowsHub
    /\ ~InMotion("installations") => InstallationsInit
JobsPart ==
    /\ InMotion("jobs") => JobsInv /\ faults \in Nat /\ JobsEndAsReported
    /\ ~InMotion("jobs") => JobsInit
ReleasesPart ==
    /\ InMotion("releases") => ReleasesInv /\ RunsWhatItNames
    /\ ~InMotion("releases") => ReleasesInit
AccessPart ==
    /\ InMotion("access") => AccessInv /\ AccessHasCause
    /\ ~InMotion("access") => AccessInit

\* What is so of those that deploy, the part that moves or not.
LEMMA TriggersAmongParts == MCSpec => []TriggersPart
<1>1. MCInit => TriggersInit /\ faults = 0
  BY PartsBegin
<1>2. InMotion("triggers") /\ [MCNext]_partVars => InMotion("triggers")' /\ [TriggersNext]_<<triggerVars, faults>>
  BY OnePartMoves DEF InMotion
<1>3. ~InMotion("triggers") /\ TriggersInit /\ [MCNext]_partVars => ~InMotion("triggers")' /\ TriggersInit'
  BY OnePartMoves DEF InMotion, TriggersInit, triggerVars
<1> QED
  BY <1>1, <1>2, <1>3, TriggersKept, MakersDeployOnce, MissesHaveCauses, PTL DEF MCSpec, TriggersSpec, TriggersPart

\* What is so of the firewalls, the part that moves or not.
LEMMA FirewallsAmongParts == MCSpec => []FirewallsPart
<1>1. MCInit => FirewallsInit /\ faults = 0
  BY PartsBegin
<1>2. InMotion("firewalls") /\ [MCNext]_partVars => InMotion("firewalls")' /\ [FirewallsNext]_<<firewallVars, faults>>
  BY OnePartMoves DEF InMotion
<1>3. ~InMotion("firewalls") /\ FirewallsInit /\ [MCNext]_partVars => ~InMotion("firewalls")' /\ FirewallsInit'
  BY OnePartMoves DEF InMotion, FirewallsInit, firewallVars
<1> QED
  BY <1>1, <1>2, <1>3, FirewallsKept, FirewallsSayWhatIs, PTL DEF MCSpec, FirewallsSpec, FirewallsPart

\* What is so of the blueprints, the part that moves or not.
LEMMA BlueprintAmongParts == MCSpec => []BlueprintPart
<1>1. MCInit => BlueprintInit /\ faults = 0
  BY PartsBegin
<1>2. InMotion("blueprint") /\ [MCNext]_partVars => InMotion("blueprint")' /\ [BlueprintNext]_<<blueprintVars, faults>>
  BY OnePartMoves DEF InMotion
<1>3. ~InMotion("blueprint") /\ BlueprintInit /\ [MCNext]_partVars => ~InMotion("blueprint")' /\ BlueprintInit'
  BY OnePartMoves DEF InMotion, BlueprintInit, blueprintVars
<1> QED
  BY <1>1, <1>2, <1>3, BlueprintKept, AppliesDoConverge, PTL DEF MCSpec, BlueprintSpec, BlueprintPart

\* What is so of the domains, the part that moves or not.
LEMMA DomainsAmongParts == MCSpec => []DomainsPart
<1>1. MCInit => DomainsInit /\ faults = 0
  BY PartsBegin
<1>2. InMotion("domains") /\ [MCNext]_partVars => InMotion("domains")' /\ [DomainsNext]_<<domainVars, faults>>
  BY OnePartMoves DEF InMotion
<1>3. ~InMotion("domains") /\ DomainsInit /\ [MCNext]_partVars => ~InMotion("domains")' /\ DomainsInit'
  BY OnePartMoves DEF InMotion, DomainsInit, domainVars
<1> QED
  BY <1>1, <1>2, <1>3, DomainsKept, DomainsAreRouted, PTL DEF MCSpec, DomainsSpec, DomainsPart

\* What is so of the containers, the part that moves or not.
LEMMA ContainersAmongParts == MCSpec => []ContainersPart
<1>1. MCInit => ContainersInit /\ faults = 0
  BY PartsBegin
<1>2. InMotion("containers") /\ [MCNext]_partVars
        => InMotion("containers")' /\ [ContainersNext]_<<containerVars, faults>>
  BY OnePartMoves DEF InMotion
<1>3. ~InMotion("containers") /\ ContainersInit /\ [MCNext]_partVars => ~InMotion("containers")' /\ ContainersInit'
  BY OnePartMoves DEF InMotion, ContainersInit, containerVars
<1> QED
  BY <1>1, <1>2, <1>3, ContainersKept, BoxIsAsOrdered, PTL DEF MCSpec, ContainersSpec, ContainersPart

\* What is so of the members, the part that moves or not.
LEMMA MembersAmongParts == MCSpec => []MembersPart
<1>1. MCInit => MembersInit /\ faults = 0
  BY PartsBegin
<1>2. InMotion("members") /\ [MCNext]_partVars => InMotion("members")' /\ [MembersNext]_memberVars
  BY OnePartMoves DEF InMotion
<1>3. ~InMotion("members") /\ MembersInit /\ [MCNext]_partVars => ~InMotion("members")' /\ MembersInit'
  BY OnePartMoves DEF InMotion, MembersInit, memberVars
<1> QED
  BY <1>1, <1>2, <1>3, MembersKept, OwnersStay, PTL DEF MCSpec, MembersSpec, MembersPart

\* What is so of the secrets, the part that moves or not.
LEMMA SecretsAmongParts == MCSpec => []SecretsPart
<1>1. MCInit => SecretsInit /\ faults = 0
  BY PartsBegin
<1>2. InMotion("secrets") /\ [MCNext]_partVars => InMotion("secrets")' /\ [SecretsNext]_<<secretVars, faults>>
  BY OnePartMoves DEF InMotion
<1>3. ~InMotion("secrets") /\ SecretsInit /\ [MCNext]_partVars => ~InMotion("secrets")' /\ SecretsInit'
  BY OnePartMoves DEF InMotion, SecretsInit, secretVars
<1> QED
  BY <1>1, <1>2, <1>3, SecretsKept, LastValueArrives, PTL DEF MCSpec, SecretsSpec, SecretsPart

\* What is so of the installations, the part that moves or not.
LEMMA InstallationsAmongParts == MCSpec => []InstallationsPart
<1>1. MCInit => InstallationsInit /\ faults = 0
  BY PartsBegin
<1>2. InMotion("installations") /\ [MCNext]_partVars
        => InMotion("installations")' /\ [InstallationsNext]_<<installationVars, faults>>
  BY OnePartMoves DEF InMotion
<1>3. ~InMotion("installations") /\ InstallationsInit /\ [MCNext]_partVars
        => ~InMotion("installations")' /\ InstallationsInit'
  BY OnePartMoves DEF InMotion, InstallationsInit, installationVars
<1> QED
  BY <1>1, <1>2, <1>3, InstallationsKept, LinksFollowHubs, PTL DEF MCSpec, InstallationsSpec, InstallationsPart

\* What is so of the jobs, the part that moves or not.
LEMMA JobsAmongParts == MCSpec => []JobsPart
<1>1. MCInit => JobsInit /\ faults = 0
  BY PartsBegin
<1>2. InMotion("jobs") /\ [MCNext]_partVars => InMotion("jobs")' /\ [JobsNext]_<<jobVars, faults>>
  BY OnePartMoves DEF InMotion
<1>3. ~InMotion("jobs") /\ JobsInit /\ [MCNext]_partVars => ~InMotion("jobs")' /\ JobsInit'
  BY OnePartMoves DEF InMotion, JobsInit, jobVars
<1> QED
  BY <1>1, <1>2, <1>3, JobsKept, JobsEnd, PTL DEF MCSpec, JobsSpec, JobsPart

\* What is so of the releases, the part that moves or not.
LEMMA ReleasesAmongParts == MCSpec => []ReleasesPart
<1>1. MCInit => ReleasesInit /\ faults = 0
  BY PartsBegin
<1>2. InMotion("releases") /\ [MCNext]_partVars => InMotion("releases")' /\ [ReleasesNext]_<<releaseVars, faults>>
  BY OnePartMoves DEF InMotion
<1>3. ~InMotion("releases") /\ ReleasesInit /\ [MCNext]_partVars => ~InMotion("releases")' /\ ReleasesInit'
  BY OnePartMoves DEF InMotion, ReleasesInit, releaseVars
<1> QED
  BY <1>1, <1>2, <1>3, ReleasesKept, ReleasesRunWhatTheyName, PTL DEF MCSpec, ReleasesSpec, ReleasesPart

\* What is so of the request for access, the part that moves or not.
LEMMA AccessAmongParts == MCSpec => []AccessPart
<1>1. MCInit => AccessInit /\ faults = 0
  BY PartsBegin
<1>2. InMotion("access") /\ [MCNext]_partVars => InMotion("access")' /\ [AccessNext]_accessVars
  BY OnePartMoves DEF InMotion
<1>3. ~InMotion("access") /\ AccessInit /\ [MCNext]_partVars => ~InMotion("access")' /\ AccessInit'
  BY OnePartMoves DEF InMotion, AccessInit, accessVars
<1> QED
  BY <1>1, <1>2, <1>3, AccessKept, AccessHasReasons, PTL DEF MCSpec, AccessSpec, AccessPart

\* Of every part, and of the faults.
PartsInv ==
    /\ part \in PartNames /\ (part \in Uncounted => faults \in Nat)
    /\ TriggersPart /\ FirewallsPart /\ BlueprintPart /\ DomainsPart /\ ContainersPart
    /\ MembersPart /\ SecretsPart /\ InstallationsPart /\ JobsPart /\ ReleasesPart /\ AccessPart

\* It holds at every moment, whichever part moves.
LEMMA PartsKept == MCSpec => []PartsInv
<1>1. MCInit => part \in PartNames /\ faults = 0
  BY PartsBegin
<1>2. part \in PartNames /\ [MCNext]_partVars => (part \in PartNames)'
  BY OnePartMoves
<1>3. MCInit => (part \in Uncounted => faults \in Nat)
  BY <1>1
<1>4. /\ part \in Uncounted => faults \in Nat
      /\ [MCNext]_partVars
      => (part \in Uncounted => faults \in Nat)'
  BY OnePartMoves, FaultsAreCounted DEF Uncounted
<1>5. MCSpec => [](part \in PartNames /\ (part \in Uncounted => faults \in Nat))
  BY <1>1, <1>2, <1>3, <1>4, PTL DEF MCSpec
<1> QED
  BY <1>5, TriggersAmongParts, FirewallsAmongParts, BlueprintAmongParts, DomainsAmongParts,
     ContainersAmongParts, MembersAmongParts, SecretsAmongParts, InstallationsAmongParts, JobsAmongParts,
     ReleasesAmongParts, AccessAmongParts, PTL DEF PartsInv

\* The part that moves keeps its variables in their types (MCControlPlane).
THEOREM PartsAreTyped == MCSpec => []PartsTypeOK
<1>1. PartsInv => PartsTypeOK
  <2> SUFFICES ASSUME PartsInv PROVE PartsTypeOK
    OBVIOUS
  <2>1. CASE part = "triggers"
    BY <2>1 DEF PartsInv, TriggersPart, InMotion, TriggersInv, PartsTypeOK
  <2>2. CASE part = "firewalls"
    BY <2>2 DEF PartsInv, FirewallsPart, InMotion, FirewallInv, PartsTypeOK
  <2>3. CASE part = "blueprint"
    BY <2>3 DEF PartsInv, BlueprintPart, InMotion, BlueInv, PartsTypeOK
  <2>4. CASE part = "domains"
    BY <2>4 DEF PartsInv, DomainsPart, InMotion, DomainsInv, PartsTypeOK
  <2>5. CASE part = "containers"
    BY <2>5 DEF PartsInv, ContainersPart, InMotion, ContainersInv, PartsTypeOK
  <2>6. CASE part = "members"
    BY <2>6 DEF PartsInv, MembersPart, InMotion, MembersInv, PartsTypeOK
  <2>7. CASE part = "secrets"
    BY <2>7 DEF PartsInv, SecretsPart, InMotion, SecretInv, PartsTypeOK
  <2>8. CASE part = "installations"
    BY <2>8 DEF PartsInv, InstallationsPart, InMotion, InstallationInv, InstallationTypes, PartsTypeOK
  <2>9. CASE part = "jobs"
    BY <2>9 DEF PartsInv, JobsPart, InMotion, JobsInv, PartsTypeOK
  <2>10. CASE part = "releases"
    BY <2>10 DEF PartsInv, ReleasesPart, InMotion, ReleasesInv, PartsTypeOK
  <2>11. CASE part = "access"
    BY <2>11 DEF PartsInv, AccessPart, InMotion, AccessInv, AskTypeOK, PartsTypeOK
  <2> QED
    BY <2>1, <2>2, <2>3, <2>4, <2>5, <2>6, <2>7, <2>8, <2>9, <2>10, <2>11 DEF PartsInv, PartNames
<1> QED
  BY PartsKept, <1>1, PTL

\* Every promise of a part holds at every moment, of the parts that do not move as well.
THEOREM PartsKeepPromises ==
    MCSpec => [](/\ DeploysOnce /\ MissHasCause /\ EnforcedHasCause /\ AppliesConverge
                 /\ RoutesLead /\ BoxFollowsOrders /\ OwnersRemain /\ LastValueReachesApp
                 /\ LinkFollowsHub /\ JobsEndAsReported /\ RunsWhatItNames /\ AccessHasCause)
<1>0. ASSUME PartsInv PROVE faults \in Nat
  BY <1>0 DEF PartsInv, TriggersPart, FirewallsPart, BlueprintPart, DomainsPart, ContainersPart, JobsPart,
              InMotion, PartNames, Uncounted, TriggersInv, FirewallInv, BlueInv, DomainsInv
<1>1. ASSUME PartsInv PROVE DeploysOnce /\ MissHasCause
  <2>1. CASE ~InMotion("triggers")
    <3>1. TriggersInit /\ faults \in Nat
      BY <1>0, <1>1, <2>1 DEF PartsInv, TriggersPart
    <3>2. DeploysOnce
      BY <3>1 DEF TriggersInit, DeploysOnce, Makers, ApiMakers
    <3>3. Unqueued = {} /\ Enqueuing = {}
      BY <3>1 DEF TriggersInit, Unqueued, Versions, Enqueuing
    <3>4. Cardinality(Unqueued) <= faults + Cardinality(Enqueuing)
      BY <3>1, <3>3, FS_EmptySet
    <3> QED
      BY <3>1, <3>2, <3>4 DEF TriggersInit, MissHasCause, Makers, ApiMakers
  <2> QED
    BY <1>1, <2>1 DEF PartsInv, TriggersPart
<1>2. ASSUME PartsInv PROVE EnforcedHasCause
  BY <1>2 DEF PartsInv, FirewallsPart, FirewallsInit, EnforcedHasCause, Living
<1>3. ASSUME PartsInv PROVE AppliesConverge
  <2>1. CASE ~InMotion("blueprint")
    <3>1. BlueprintInit /\ faults \in Nat
      BY <1>0, <1>3, <2>1 DEF PartsInv, BlueprintPart
    <3>2. {i \in Completed : rows[i] > completed[i]} = {}
      BY <3>1 DEF BlueprintInit, Completed, WithJob, Items
    <3> QED
      BY <3>1, <3>2, FS_EmptySet DEF BlueprintInit, AppliesConverge
  <2> QED
    BY <1>3, <2>1 DEF PartsInv, BlueprintPart
<1>4. ASSUME PartsInv PROVE RoutesLead
  BY <1>4 DEF PartsInv, DomainsPart, DomainsInit, RoutesLead, Exists
<1>5. ASSUME PartsInv PROVE BoxFollowsOrders
  <2>1. ASSUME ContainersInit PROVE BoxFollowsOrders
    <3> USE <2>1, OrderAssumption DEF ContainersInit
    <3>1. ~(\E o \in Orders : order[o] = "deploy" /\ task[o] \in {"succeeded", "failed"})
      BY DEF Orders
    <3>2. LastOf("deploy", {"succeeded", "failed"}) = 0 /\ LastOf("deploy", {"succeeded"}) = 0
      BY DEF LastOf, Latest
    <3> QED
      BY <3>2 DEF BoxFollowsOrders, NoBox
  <2> QED
    BY <1>5, <2>1 DEF PartsInv, ContainersPart
<1>6. ASSUME PartsInv PROVE OwnersRemain
  <2>1. ASSUME MembersInit PROVE OwnersRemain
    <3>1. Founder \in People
      BY MemberAssumption DEF Founder
    <3>2. member["organization"][Founder].role = "owner" /\ \E u \in People : member["workspace"][u].role = "owner"
      BY <2>1, <3>1 DEF MembersInit
    <3> QED
      BY <3>1, <3>2 DEF OwnersRemain, Owners
  <2> QED
    BY <1>6, <2>1 DEF PartsInv, MembersPart
<1>7. ASSUME PartsInv PROVE LastValueReachesApp
  BY <1>7 DEF PartsInv, SecretsPart, SecretsInit, Building, LastValueReachesApp
<1>8. ASSUME PartsInv PROVE LinkFollowsHub
  BY <1>8 DEF PartsInv, InstallationsPart, InstallationsInit, LinkFollowsHub
<1>9. ASSUME PartsInv PROVE JobsEndAsReported
  BY <1>9 DEF PartsInv, JobsPart, JobsInit, Reported, JobsEndAsReported
<1>10. ASSUME PartsInv PROVE RunsWhatItNames
  BY <1>10 DEF PartsInv, ReleasesPart, ReleasesInit, NoRelease, RunsWhatItNames
<1>11. ASSUME PartsInv PROVE AccessHasCause
  BY <1>11 DEF PartsInv, AccessPart, AccessInit, NoAsk, AccessHasCause
<1>12. PartsInv => /\ DeploysOnce /\ MissHasCause /\ EnforcedHasCause /\ AppliesConverge
                  /\ RoutesLead /\ BoxFollowsOrders /\ OwnersRemain /\ LastValueReachesApp
                  /\ LinkFollowsHub /\ JobsEndAsReported /\ RunsWhatItNames /\ AccessHasCause
  BY <1>1, <1>2, <1>3, <1>4, <1>5, <1>6, <1>7, <1>8, <1>9, <1>10, <1>11
<1> QED
  BY PartsKept, <1>12, PTL

-----------------------------------------------------------------------------
(* The two pages of MCDashboard.                                           *)

\* One page moves, by itself (DashboardNext).
LEMMA OnePageMoves ==
    ASSUME [DashboardNext]_dashboardVars
    PROVE  \/ page = "deployment" /\ [Next]_vars /\ UNCHANGED <<page, builderVars>>
           \/ page = "builder" /\ [BuilderNext]_<<builderVars, faults>> /\ UNCHANGED <<page, pipelineVars, pageVars>>
           \/ UNCHANGED dashboardVars
BY DEF DashboardNext, dashboardVars, vars

\* Both pages keep their promises, whichever of them the user is on.
THEOREM PagesKeepPromises == DashboardSpec => [](WatchersLearnTheEnd /\ AppliesWhatItShows)
<1>1. DashboardInit => WatchInv /\ BuilderInv
  <2>1. DashboardInit => WatchInv
    BY WatchStarts DEF DashboardInit
  <2>2. DashboardInit => BuilderInv
    BY DEF DashboardInit, BuilderInit, BuilderInv, PlanInv, AppliesWhatItShows
  <2> QED
    BY <2>1, <2>2
<1>2. WatchInv /\ BuilderInv /\ [DashboardNext]_dashboardVars => WatchInv' /\ BuilderInv'
  <2> SUFFICES ASSUME WatchInv, BuilderInv, [DashboardNext]_dashboardVars PROVE WatchInv' /\ BuilderInv'
    OBVIOUS
  <2>1. \/ [Next]_vars
        \/ UNCHANGED <<pipelineVars, pageVars>>
    BY OnePageMoves DEF dashboardVars, vars
  <2>2. UNCHANGED <<pipelineVars, pageVars>> => WatchInv'
    BY DEF pipelineVars, pageVars, WatchInv, PipeTypes, WatchTypes, PipeStageInv, SaidInv, LinesInv, PageInv,
           CommandInv, Dispatched, NodeOver, Coming, Untold, OnWire, Events, IsLine, Brought, Shown, Displaced
  <2>3. \/ [BuilderNext]_<<builderVars, faults>>
        \/ UNCHANGED builderVars
    BY OnePageMoves DEF dashboardVars
  <2>4. UNCHANGED builderVars => BuilderInv'
    BY DEF builderVars, BuilderInv, PlanInv, AppliesWhatItShows
  <2> QED
    BY <2>1, <2>2, <2>3, <2>4, WatchKept, BuilderStep
<1>3. WatchInv /\ BuilderInv => WatchersLearnTheEnd /\ AppliesWhatItShows
  BY WatchersSee DEF BuilderInv
<1> QED
  BY <1>1, <1>2, <1>3, PTL DEF DashboardSpec

=============================================================================
