------------------------------ MODULE Secrets ------------------------------
(***************************************************************************)
(* One key of the secrets of an app and of its project: the rows behind    *)
(* it (routes/secrets.ts, injectSecrets in template.service.ts) and the    *)
(* environment that a deploy, or a rollback, builds of them                *)
(* (worker/src/lib/secrets.ts).                                            *)
(*                                                                         *)
(* The columns that do not belong to the scope of a row are null, and      *)
(* Postgres takes nulls for different: the unique index over scope, owner  *)
(* and key forbids nothing. A value is encrypted with the key of the       *)
(* platform's configuration. Once that has been replaced, the rows written *)
(* under the old one cannot be decrypted, and the app gets whatever is     *)
(* left, the value of its project or none.                                 *)
(***************************************************************************)
EXTENDS Integers, Faults

CONSTANT MaxWrites      \* bound on requests that write a secret

ASSUME SecretAssumption == MaxWrites \in Nat

SecretScopes == {"project", "app", "environment"}
NoValue == 0
EncryptionKeys == {"old", "new"}

VARIABLES
    secrets,    \* the rows: id, scope, value (numbered as they are written), the key it is under
    secretsKey, \* SECRETS_ENCRYPTION_KEY of the API and of the worker
    env,        \* where the job that builds an environment stands, and the value in it
    \* history
    writes      \* requests about the secret

secretVars == <<secrets, secretsKey, env, writes>>

\* Beside the value, env notes the key it was decrypted with, the rows that counted when
\* they were read (rows), and those that count when the command goes out (later).
Building == [at |-> "idle", value |-> NoValue, key |-> "old", rows |-> {}, later |-> {}]

SecretsInit ==
    /\ secrets = {}
    /\ secretsKey = "old"
    /\ env = Building
    /\ writes = 0

-----------------------------------------------------------------------------
Of(s) == {r \in secrets : r.scope = s}

\* The rows of the key that count: those of the app, or else those of the project.
Effective == IF Of("app") /= {} THEN Of("app") ELSE Of("project")

\* The value that its users wrote last, and have not deleted since, of the rows that count.
LastWritten(rows) ==
    IF rows = {} THEN NoValue ELSE (CHOOSE r \in rows : \A q \in rows : q.value <= r.value).value

Write == writes < MaxWrites /\ writes' = writes + 1

AddRow(s) ==
    /\ Write
    /\ secrets' = secrets \union
           {[id |-> writes + 1, scope |-> s, value |-> writes + 1, key |-> secretsKey]}
    /\ UNCHANGED <<secretsKey, env>>

\* The upsert looks for '' in the columns that are null, never finds a row, and adds one.
SetSecret(s) == AddRow(s) /\ UNCHANGED faults

\* createMany skips what an index forbids: nothing. The secrets of the app that a
\* template makes are its first.
InjectSecrets == AddRow("project") /\ UNCHANGED faults

UpdateSecret(r) ==
    /\ Write
    /\ secrets' = (secrets \ {r}) \union {[r EXCEPT !.value = writes + 1, !.key = secretsKey]}
    /\ UNCHANGED <<secretsKey, env, faults>>

\* With the last row of a scope the key is gone from it.
DeleteSecret(r) ==
    /\ Write
    /\ secrets' = secrets \ {r}
    /\ UNCHANGED <<secretsKey, env, faults>>

\* The platform is started with another key; nothing encrypts the rows anew.
ReplaceKey ==
    /\ secretsKey = "old"
    /\ secretsKey' = "new"
    /\ UNCHANGED <<secrets, env, writes, faults>>

-----------------------------------------------------------------------------
Readable(s) == {r \in Of(s) : r.key = secretsKey}

\* A job has read the rows, and takes the value of one of rs.
Resolved(rs) ==
    \E r \in IF rs /= {} THEN rs ELSE {[value |-> NoValue]} :
        env' = [at |-> "resolved", value |-> r.value, key |-> secretsKey,
                rows |-> Effective, later |-> Effective]

\* Mutant: what the project sets wins over the app.
ResolveProjectLast ==
    /\ env.at = "idle"
    /\ Resolved(IF Readable("project") /= {} THEN Readable("project") ELSE Readable("app"))
    /\ UNCHANGED <<secrets, secretsKey, writes, faults>>

\* No caller names an environment. A row that cannot be decrypted is skipped. The rows
\* come in no order, of one scope the last of them counts.
ResolveEnv ==
    /\ env.at = "idle"
    /\ Resolved(IF Readable("app") /= {} THEN Readable("app") ELSE Readable("project"))
    /\ UNCHANGED <<secrets, secretsKey, writes, faults>>

\* The command goes out with what was read, whatever has been written since.
SendEnv ==
    /\ env.at = "resolved"
    /\ env' = [env EXCEPT !.at = "sent", !.later = Effective]
    /\ UNCHANGED <<secrets, secretsKey, writes, faults>>

\* The next deploy or rollback resolves anew; so does a job that is started again.
ResolveAgain ==
    /\ \/ env.at = "sent" /\ UNCHANGED faults
       \/ env.at = "resolved" /\ Fault
    /\ env' = Building
    /\ UNCHANGED <<secrets, secretsKey, writes>>

SecretsNext ==
    \/ \E s \in SecretScopes : SetSecret(s)
    \/ InjectSecrets
    \/ \E r \in secrets : UpdateSecret(r) \/ DeleteSecret(r)
    \/ ReplaceKey
    \/ ResolveEnv \/ SendEnv \/ ResolveAgain

SecretsSpec == SecretsInit /\ faults = 0 /\ [][SecretsNext]_<<secretVars, faults>>

-----------------------------------------------------------------------------
(* Properties *)

SecretRows == [id : Nat, scope : SecretScopes, value : Nat, key : EncryptionKeys]

SecretsTypeOK ==
    /\ secrets \subseteq SecretRows
    /\ secretsKey \in EncryptionKeys
    /\ env \in [at : {"idle", "resolved", "sent"}, value : Nat, key : EncryptionKeys,
                rows : SUBSET SecretRows, later : SUBSET SecretRows]
    /\ writes \in Nat

\* A container is started with the value written last, that of the app before that of
\* the project, and with none if neither has one. The exceptions: the secret was written
\* while the job was under way (then it is the value from before); of the rows that
\* counted when they were read one could not be decrypted; or there were several, which
\* adding a key that is there makes: then it is the value of any of them. A row of the
\* project is no excuse while the app has one.
LastValueReachesApp ==
    env.at = "sent" =>
        \/ env.value = LastWritten(env.later)
        \/ env.rows /= env.later /\ env.value = LastWritten(env.rows)
        \/ \E r \in env.rows : r.key /= env.key
        \/ \E r \in env.rows : r.value = env.value /\ env.rows /= {r}
=============================================================================
