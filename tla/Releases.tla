------------------------------ MODULE Releases ------------------------------
(***************************************************************************)
(* Which code a release of one app runs. A deployment names a branch, or a *)
(* commit, and records the commit of the push that asked for it            *)
(* (webhook.ts, apps.ts); its specification gives the image a tag with its *)
(* version (lib/spec.ts); the node clones what the branch has by then,     *)
(* builds the image, and creates the container from the tag (docker.rs). A *)
(* rollback sends the specification of its target once more, tag and       *)
(* branch and all (rollback.ts). A pull request releases its branch into   *)
(* the same app. An app without a repository pulls an image by its name.   *)
(*                                                                         *)
(* What happens to the container is in NodeContainers, to the rows in      *)
(* DeploymentLifecycle.                                                    *)
(***************************************************************************)
EXTENDS Integers, Sequences, Faults

CONSTANTS
    MaxReleases,    \* bound on deployments and rollbacks
    MaxCommits      \* bound on commits

ASSUME ReleaseAssumption == MaxReleases \in Nat /\ MaxCommits \in Nat \ {0}

Releases == 1 .. MaxReleases
Branches == {"main", "pr"}      \* the app's branch, and that of a pull request
NoCommit == <<"main", 0>>
Commits == Branches \X (0 .. MaxCommits)

VARIABLES
    source,     \* "git", or "image": DeploySource.kind
    heads,      \* heads[b]: the number of the newest commit of b; 0: there is no branch
    release,    \* release[v]: the deployment of version v
    has,        \* has[v]: the commit in the build directory of v
    image,      \* image[t]: the commit the image with tag t was built from
    boxes,      \* history: the releases in the order in which they got the container
    ran,        \* history: ran[v]: the commit in the container of v
    met         \* history: met[v]: the releases that were on the node while v was

releaseVars == <<source, heads, release, has, image, boxes, ran, met>>
cloneVars == <<has, image, boxes, ran, met>>

NoRelease == [at |-> "none", ref |-> NoCommit, sha |-> NoCommit, tag |-> 0, root |-> 0]

ReleasesInit ==
    /\ source \in {"git", "image"}
    /\ heads = [b \in Branches |-> IF b = "main" THEN 1 ELSE 0]
    /\ release = [v \in Releases |-> NoRelease]
    /\ has = [v \in Releases |-> NoCommit]
    /\ image = [t \in Releases \union {0} |-> NoCommit]
    /\ boxes = <<>>
    /\ ran = [v \in Releases |-> NoCommit]
    /\ met = [v \in Releases |-> {}]

Pushed(c) == c[2] \in 1 .. heads[c[1]]
IsBranch(r) == r[2] = 0             \* a branch as a ref: <<b, 0>>
OnNode == {"cloned", "built", "adrift"}

\* The next version; two that take the same one meet the unique index.
Create(r) ==
    \E v \in Releases :
        /\ release[v].at = "none" /\ \A w \in Releases : w < v => release[w].at /= "none"
        /\ release' = [release EXCEPT ![v] = [r EXCEPT !.root = IF @ = 0 THEN v ELSE @]]

-----------------------------------------------------------------------------
(* What is asked for *)

Push(b) ==
    /\ heads["main"] + heads["pr"] < MaxCommits
    /\ heads' = [heads EXCEPT ![b] = @ + 1]
    /\ UNCHANGED <<source, release, cloneVars, faults>>

\* The delivery of a push, or of a pull request, comes when it comes.
DeployPush(c) ==
    /\ source = "git" /\ Pushed(c)
    /\ Create([NoRelease EXCEPT !.at = "queued", !.ref = <<c[1], 0>>, !.sha = c])
    /\ UNCHANGED <<source, heads, cloneVars, faults>>

\* A user names the app's branch, or a commit.
DeployRef(ref) ==
    /\ ref = <<"main", 0>> \/ (source = "git" /\ Pushed(ref))
    /\ Create([NoRelease EXCEPT !.at = "queued", !.ref = ref])
    /\ UNCHANGED <<source, heads, cloneVars, faults>>

\* Mutant: a tag without the version.
LatestTag(v) == 0

ImageTag(v) == v

BuildSpec(v) ==
    /\ release[v].at = "queued"
    /\ release' = [release EXCEPT ![v].at = "sent", ![v].tag = ImageTag(v)]
    /\ UNCHANGED <<source, heads, cloneVars, faults>>

\* Whatever became of the target, as long as its specification was stored.
Rollback(t) ==
    /\ release[t].at \notin {"none", "queued"}
    /\ Create([release[t] EXCEPT !.at = "sent"])
    /\ UNCHANGED <<source, heads, cloneVars, faults>>

-----------------------------------------------------------------------------
(* The node *)

Meet(v) ==
    LET there == {w \in Releases \ {v} : release[w].at \in OnNode} IN
    met' = [w \in Releases |-> IF w = v THEN there ELSE IF w \in there THEN met[w] \union {v} ELSE met[w]]

\* A branch is cloned as it is by now; a commit is checked out of a full clone.
CloneRepo(v) ==
    LET ref == release[v].ref IN
    /\ source = "git" /\ release[v].at = "sent"
    /\ release' = [release EXCEPT ![v].at = "cloned"]
    /\ has' = [has EXCEPT ![v] = IF IsBranch(ref) THEN <<ref[1], heads[ref[1]]>> ELSE ref]
    /\ Meet(v)
    /\ UNCHANGED <<source, heads, image, boxes, ran, faults>>

\* docker build moves the tag when it is done, or fails and leaves it.
DockerBuild(v) ==
    /\ release[v].at = "cloned"
    /\ \/ /\ release' = [release EXCEPT ![v].at = "built"]
          /\ image' = [image EXCEPT ![release[v].tag] = has[v]]
       \/ /\ release' = [release EXCEPT ![v].at = "failed"]
          /\ UNCHANGED image
    /\ UNCHANGED <<source, heads, has, boxes, ran, met, faults>>

\* A prebuilt image has one name in all releases of the app.
PullImage(v) ==
    LET c == <<"main", heads["main"]>> IN
    /\ source = "image" /\ release[v].at = "sent"
    /\ release' = [release EXCEPT ![v].at = "built"]
    /\ has' = [has EXCEPT ![v] = c]
    /\ image' = [image EXCEPT ![0] = c]
    /\ Meet(v)
    /\ UNCHANGED <<source, heads, boxes, ran, faults>>

\* The container is created from what has the tag now.
RunImage(v) ==
    LET t == IF source = "image" THEN 0 ELSE release[v].tag IN
    /\ release[v].at = "built"
    /\ release' = [release EXCEPT ![v].at = "ran"]
    /\ boxes' = Append(boxes, v)
    /\ ran' = [ran EXCEPT ![v] = image[t]]
    /\ UNCHANGED <<source, heads, has, image, met, faults>>

\* The command times out. The build is a process of its own and goes on.
TimeOut(v) ==
    /\ release[v].at \in {"cloned", "built"} /\ Fault
    /\ release' = [release EXCEPT ![v].at = IF @ = "cloned" THEN "adrift" ELSE "failed"]
    /\ UNCHANGED <<source, heads, cloneVars>>

LateBuild(v) ==
    /\ release[v].at = "adrift"
    /\ release' = [release EXCEPT ![v].at = "failed"]
    /\ image' = [image EXCEPT ![release[v].tag] = has[v]]
    /\ UNCHANGED <<source, heads, has, boxes, ran, met, faults>>

\* The agent's builds end with it.
NodeStops ==
    /\ \E v \in Releases : release[v].at \in OnNode
    /\ Fault
    /\ release' = [v \in Releases |->
        IF release[v].at \in OnNode THEN [release[v] EXCEPT !.at = "failed"] ELSE release[v]]
    /\ UNCHANGED <<source, heads, cloneVars>>

-----------------------------------------------------------------------------
ReleasesNext ==
    \/ \E b \in Branches : Push(b)
    \/ \E c \in Commits : DeployPush(c) \/ DeployRef(c)
    \/ \E v \in Releases :
        \/ BuildSpec(v) \/ Rollback(v)
        \/ CloneRepo(v) \/ DockerBuild(v) \/ PullImage(v) \/ RunImage(v)
        \/ TimeOut(v) \/ LateBuild(v)
    \/ NodeStops

ReleasesSpec == ReleasesInit /\ faults = 0 /\ [][ReleasesNext]_<<releaseVars, faults>>

-----------------------------------------------------------------------------
(* Properties *)

ReleasesTypeOK ==
    /\ source \in {"git", "image"}
    /\ heads \in [Branches -> 0 .. MaxCommits]
    /\ release \in [Releases ->
        [at : {"none", "queued", "sent", "ran", "failed"} \union OnNode,
         ref : Commits, sha : Commits, tag : Releases \union {0}, root : Releases \union {0}]]
    /\ has \in [Releases -> Commits] /\ ran \in [Releases -> Commits]
    /\ image \in [Releases \union {0} -> Commits]
    /\ boxes \in Seq(Releases)
    /\ met \in [Releases -> SUBSET Releases]

\* Releases whose images have the same name: of one target, or of an image that is pulled.
Kin(v, w) == source = "image" \/ release[v].root = release[w].root

\* A release that met none of its kin on the node runs what it fetched: the commit it
\* names, or one of the branch it names, no older than the push that asked for it. And
\* of two such releases of a branch, neither of which met the other, the later one runs
\* no older code, not even if it is a rollback to the earlier one.
RunsWhatItNames ==
    LET alone(v) == \A w \in met[v] : ~Kin(v, w)
    IN
    /\ \A v \in Releases : release[v].at = "ran" /\ alone(v) =>
        /\ Pushed(ran[v]) /\ ran[v] = has[v]
        /\ source = "git" /\ IsBranch(release[v].ref) =>
            /\ ran[v][1] = release[v].ref[1]
            /\ ran[v][2] >= release[v].sha[2]
        /\ ~IsBranch(release[v].ref) => ran[v] = release[v].ref
    /\ \A i, j \in DOMAIN boxes :
        LET v == boxes[i]  w == boxes[j] IN
        /\ i < j /\ alone(v) /\ alone(w) /\ v \notin met[w]
        /\ source = "image" \/ (IsBranch(release[v].ref) /\ release[v].ref = release[w].ref)
        => ran[v][2] <= ran[w][2]
=============================================================================
