------------------------------ MODULE Builder ------------------------------
(***************************************************************************)
(* The page on which a user draws a blueprint (dashboard/builder/page.tsx, *)
(* web/src/lib/builder.ts): the canvas, the YAML beside it, the import of  *)
(* a project and the plan that is shown before the blueprint is applied.   *)
(*                                                                         *)
(* Of the kinds of node there are those that relate to others, and the     *)
(* database for those that do not. A name is a pair, of a word and a       *)
(* number. Of a YAML text what counts is its blueprint and whether its     *)
(* lists are deeper than their keys. An open dialog covers the page for    *)
(* the pointer, and a user who gets under it with the keyboard is left     *)
(* out; the requests it began go on when it is closed.                     *)
(***************************************************************************)
EXTENDS Integers, FiniteSets, SequencesExt, Faults

CONSTANT MaxClicks      \* bound on what the user does

ASSUME ClickAssumption == MaxClicks \in Nat

NodeKinds == {"app", "database", "loadBalancer", "domain"}
Outside == <<"address", 1>>     \* a target that is no app of the blueprint
Nobody == 0
NoBlueprint == [none |-> TRUE]   \* no blueprint
NoText == [none |-> TRUE]        \* no text of the user's

VARIABLES
    canvas,     \* nodes in their order; edges, each a set of two ids; the last id given
    selected, connectFrom,
    typed,      \* the YAML that the user has typed, or NoText
    dialog,     \* the dialog that is open
    planned,    \* the blueprint of the plan in the dialog, or NoBlueprint
    planning, deploying,
    asking,     \* the blueprints whose plan is asked for, numbered
    importing,  \* is a project being imported
    \* history
    clicks,
    mixed,      \* a plan was asked for while another one was on its way, or the canvas
                \* was replaced under the dialog
    applied     \* what the plan showed and what was applied, and whether it was mixed

builderVars == <<canvas, selected, connectFrom, typed, dialog, planned, planning, deploying,
                 asking, importing, clicks, mixed, applied>>

Node(id, kind, name, targets) == [id |-> id, kind |-> kind, name |-> name, targets |-> targets]
Drawing(nodes, edges, last) == [nodes |-> nodes, edges |-> edges, last |-> last]
NodesOf(c, kind) == SelectSeq(c.nodes, LAMBDA n : n.kind = kind)
Neighbors(c, id) == {n \in ToSet(c.nodes) : n.id /= id /\ {n.id, id} \in c.edges}
NameOf(n) == n.name

\* A domain that no app is joined to is not in the blueprint.
ToBlueprint(c) ==
    LET app(n) == [name |-> n.name,
                   domains |-> {d.name : d \in {x \in Neighbors(c, n.id) : x.kind = "domain"}}]
        balancer(n) == [name |-> n.name,
                        targets |-> n.targets \union
                                    {a.name : a \in {x \in Neighbors(c, n.id) : x.kind = "app"}}]
        each(f(_), s) == [i \in DOMAIN s |-> f(s[i])]
    IN [apps |-> each(app, NodesOf(c, "app")),
        databases |-> each(NameOf, NodesOf(c, "database")),
        loadBalancers |-> each(balancer, NodesOf(c, "loadBalancer"))]

AppNames(bp) == {a.name : a \in ToSet(bp.apps)}
Valid(bp) == \A l \in ToSet(bp.loadBalancers) : l.targets /= {}
Empty(bp) == bp.apps = <<>> /\ bp.databases = <<>> /\ bp.loadBalancers = <<>>

\* toYaml prints a list at the indentation of its key.
Printed(bp) == [bp |-> bp, deeper |-> FALSE]
Indented(text) == [text EXCEPT !.deeper = TRUE]

\* fromYaml takes for the value of a key the lines that are deeper, and finds none under
\* the key of a list as printed; the schema wants lists, and targets of every balancer.
Accepted(text) == (text.deeper \/ Empty(text.bp)) /\ Valid(text.bp)

\* The nodes get new ids: the apps each with its domains, the databases, the balancers.
Layout(bp, last) ==
    LET with(s, kind, name, targets) ==
            Append(s, Node(last + Len(s) + 1, kind, name, targets))
        withDomains(s, a) ==
            FoldSet(LAMBDA d, acc : with(acc, "domain", d, {}),
                    with(s, "app", a.name, {}), a.domains)
        apps == FoldLeft(withDomains, <<>>, bp.apps)
        databases == FoldLeft(LAMBDA s, d : with(s, "database", d, {}), apps, bp.databases)
    IN FoldLeft(LAMBDA s, l : with(s, "loadBalancer", l.name, l.targets \ AppNames(bp)),
                databases, bp.loadBalancers)

Places(nodes, kind) == {i \in DOMAIN nodes : nodes[i].kind = kind}

\* A balancer is joined to the last app of the name that is its target.
JoinedBalancers(bp, nodes) ==
    LET lastApp(name) == CHOOSE j \in Places(nodes, "app") :
                            /\ nodes[j].name = name
                            /\ \A k \in Places(nodes, "app") : k > j => nodes[k].name /= name
        first == Len(nodes) - Len(bp.loadBalancers)
    IN UNION {{{nodes[i].id, nodes[lastApp(t)].id} :
                    t \in bp.loadBalancers[i - first].targets \intersect AppNames(bp)}
              : i \in Places(nodes, "loadBalancer")}

\* Mutant: the domains are laid out and joined to nothing.
JoinNoDomain(bp, nodes) == JoinedBalancers(bp, nodes)

\* A domain is joined to the app it came with.
Joined(bp, nodes) ==
    LET appOf(i) == CHOOSE j \in Places(nodes, "app") :
                        j < i /\ \A k \in Places(nodes, "app") : k < i => k <= j
    IN JoinedBalancers(bp, nodes)
       \union {{nodes[i].id, nodes[appOf(i)].id} : i \in Places(nodes, "domain")}

ToCanvas(bp, last) ==
    LET nodes == Layout(bp, last) IN Drawing(nodes, Joined(bp, nodes), last + Len(nodes))

\* What the API exports of a project; the targets of a balancer are addresses.
Exported ==
    [apps |-> <<[name |-> <<"app", 2>>, domains |-> {<<"domain", 1>>, <<"domain", 2>>}]>>,
     databases |-> <<>>,
     loadBalancers |-> <<[name |-> <<"lb", 1>>, targets |-> {Outside}]>>]

BuilderInit ==
    /\ canvas = Drawing(<<Node(3, "loadBalancer", <<"lb", 1>>, {}), Node(1, "app", <<"web", 1>>, {}),
                          Node(2, "database", <<"database", 1>>, {}),
                          Node(4, "domain", <<"domain", 1>>, {})>>,
                        {{3, 1}, {4, 1}}, 4)
    /\ selected = Nobody /\ connectFrom = Nobody
    /\ typed = NoText /\ dialog = "none" /\ planned = NoBlueprint
    /\ planning = FALSE /\ deploying = FALSE /\ asking = {} /\ importing = FALSE
    /\ clicks = 0 /\ mixed = FALSE /\ applied = [plan |-> NoBlueprint, sent |-> NoBlueprint, mixed |-> FALSE]

requestVars == <<dialog, planned, planning, deploying, asking, importing, mixed, applied>>

-----------------------------------------------------------------------------
(* The user, on the page *)

Click == clicks < MaxClicks /\ clicks' = clicks + 1
OnPage == dialog = "none" /\ Click
Ids == {n.id : n \in ToSet(canvas.nodes)}

\* The name counts the nodes of the kind.
AddNode(kind) ==
    LET n == Node(canvas.last + 1, kind,
                  CASE kind = "domain" -> <<"domain", 1>>
                    [] kind = "loadBalancer" -> <<"lb", Len(NodesOf(canvas, kind)) + 1>>
                    [] OTHER -> <<kind, Len(NodesOf(canvas, kind)) + 1>>, {})
    IN /\ OnPage
       /\ canvas' = Drawing(Append(canvas.nodes, n), canvas.edges, n.id)
       /\ selected' = n.id
       /\ UNCHANGED <<connectFrom, typed, requestVars, faults>>

\* A connection that was begun at the node goes on.
DeleteNode ==
    /\ OnPage /\ selected \in Ids
    /\ canvas' = [canvas EXCEPT !.nodes = SelectSeq(@, LAMBDA n : n.id /= selected),
                                !.edges = {e \in @ : selected \notin e}]
    /\ selected' = Nobody
    /\ UNCHANGED <<connectFrom, typed, requestVars, faults>>

\* The name of the selected node; of a domain, its hostname.
UpdateNode ==
    /\ OnPage /\ selected \in Ids
    /\ \E i \in DOMAIN canvas.nodes :
        LET name == <<canvas.nodes[i].kind, 2>> IN
        /\ canvas.nodes[i].id = selected /\ canvas.nodes[i].name /= name
        /\ canvas' = [canvas EXCEPT !.nodes[i].name = name]
    /\ UNCHANGED <<selected, connectFrom, typed, requestVars, faults>>

StartConnect ==
    /\ OnPage /\ selected \in Ids
    /\ connectFrom' = selected
    /\ UNCHANGED <<canvas, selected, typed, requestVars, faults>>

ClickNode(id) ==
    /\ OnPage /\ id \in Ids
    /\ IF connectFrom \notin {Nobody, id}
       THEN /\ canvas' = [canvas EXCEPT !.edges = @ \union {{connectFrom, id}}]
            /\ connectFrom' = Nobody /\ UNCHANGED selected
       ELSE selected' = id /\ UNCHANGED <<canvas, connectFrom>>
    /\ UNCHANGED <<typed, requestVars, faults>>

ClickBackground ==
    /\ OnPage
    /\ selected' = Nobody /\ connectFrom' = Nobody
    /\ UNCHANGED <<canvas, typed, requestVars, faults>>

\* Of an edge to a node that is gone there is no handle.
RemoveEdge(e) ==
    /\ OnPage /\ e \in canvas.edges /\ e \subseteq Ids
    /\ canvas' = [canvas EXCEPT !.edges = @ \ {e}]
    /\ UNCHANGED <<selected, connectFrom, typed, requestVars, faults>>

\* The text of the page: what the user typed, or else what the canvas prints.
Text == IF typed = NoText THEN Printed(ToBlueprint(canvas)) ELSE typed

\* The user copies an app, adds targets to each balancer, indents the lists, or reverts.
TypeYaml ==
    /\ OnPage
    /\ \/ Text.bp.apps /= <<>> /\ typed' = [Text EXCEPT !.bp.apps = Append(@, @[1])]
       \/ typed' = [Text EXCEPT !.bp.loadBalancers =
                        [i \in DOMAIN @ |-> [@[i] EXCEPT !.targets = @ \union {Outside, <<"app", 2>>}]]]
       \/ typed' = Indented(Text)
       \/ typed /= NoText /\ typed' = NoText
    /\ UNCHANGED <<canvas, selected, connectFrom, requestVars, faults>>

Replace(bp) ==
    /\ canvas' = ToCanvas(bp, canvas.last)
    /\ typed' = NoText
    /\ selected' = Nobody
    /\ UNCHANGED connectFrom

\* Refused, the text stays as it is.
ApplyYaml ==
    /\ OnPage /\ typed /= NoText /\ Accepted(typed)
    /\ Replace(typed.bp)
    /\ UNCHANGED <<requestVars, faults>>

-----------------------------------------------------------------------------
(* The dialogs and their requests *)

drawingVars == <<canvas, selected, connectFrom, typed>>

CloseDialog ==
    /\ dialog /= "none" /\ Click
    /\ dialog' = "none"
    /\ UNCHANGED <<drawingVars, planned, planning, deploying, asking, importing, mixed, applied, faults>>

OpenImport ==
    /\ OnPage
    /\ dialog' = "import"
    /\ UNCHANGED <<drawingVars, planned, planning, deploying, asking, importing, mixed, applied, faults>>

StartImport ==
    /\ dialog = "import" /\ ~importing /\ Click
    /\ importing' = TRUE
    /\ UNCHANGED <<drawingVars, dialog, planned, planning, deploying, asking, mixed, applied, faults>>

\* It closes the import, not a plan; and the canvas is replaced all the same.
ImportAnswers ==
    /\ importing
    /\ importing' = FALSE
    /\ \/ /\ Replace(Exported)
          /\ dialog' = IF dialog = "import" THEN "none" ELSE dialog
          /\ mixed' = (mixed \/ dialog = "deploy")
          /\ UNCHANGED faults
       \/ Fault /\ UNCHANGED <<drawingVars, dialog, mixed>>
    /\ UNCHANGED <<planned, planning, deploying, asking, clicks, applied>>

AskPlan(bp) ==
    /\ OnPage /\ Valid(bp)
    /\ asking' = asking \union {[no |-> clicks, bp |-> bp]}
    /\ planning' = TRUE /\ planned' = NoBlueprint /\ dialog' = "deploy"
    /\ mixed' = (asking /= {})
    /\ UNCHANGED <<drawingVars, deploying, importing, applied, faults>>

\* Mutant: it is the YAML that is planned, when it was edited.
PlanTyped == AskPlan(Text.bp)

\* YAML that was typed and not applied is not in the plan.
RunPlan == AskPlan(ToBlueprint(canvas))

\* An answer is shown in the dialog that is open, whichever it was asked for.
PlanAnswers(a) ==
    /\ a \in asking
    /\ asking' = asking \ {a}
    /\ planning' = FALSE
    /\ \/ planned' = a.bp /\ UNCHANGED <<dialog, faults>>
       \/ /\ Fault /\ UNCHANGED planned
          /\ dialog' = IF dialog = "deploy" THEN "none" ELSE dialog
    /\ UNCHANGED <<drawingVars, deploying, importing, clicks, mixed, applied>>

Confirm ==
    /\ dialog = "deploy" /\ ~planning /\ ~deploying /\ Click
    /\ planned /= NoBlueprint /\ ~Empty(planned)
    /\ deploying' = TRUE
    /\ applied' = [plan |-> planned, sent |-> ToBlueprint(canvas), mixed |-> mixed]
    /\ UNCHANGED <<drawingVars, dialog, planned, planning, asking, importing, mixed, faults>>

\* The answer closes the dialog of another plan too.
DeployAnswers ==
    /\ deploying
    /\ deploying' = FALSE
    /\ \/ /\ planned' = NoBlueprint
          /\ dialog' = IF dialog = "deploy" THEN "none" ELSE dialog
          /\ UNCHANGED faults
       \/ Fault /\ UNCHANGED <<planned, dialog>>
    /\ UNCHANGED <<drawingVars, planning, asking, importing, clicks, mixed, applied>>

BuilderNext ==
    \/ \E kind \in NodeKinds : AddNode(kind)
    \/ DeleteNode \/ UpdateNode \/ StartConnect \/ ClickBackground
    \/ \E id \in Ids : ClickNode(id)
    \/ \E e \in canvas.edges : RemoveEdge(e)
    \/ TypeYaml \/ ApplyYaml
    \/ CloseDialog \/ OpenImport \/ StartImport \/ ImportAnswers
    \/ RunPlan \/ \E a \in asking : PlanAnswers(a)
    \/ Confirm \/ DeployAnswers

BuilderSpec == BuilderInit /\ faults = 0 /\ [][BuilderNext]_<<builderVars, faults>>

-----------------------------------------------------------------------------
(* Properties *)

BuilderTypeOK ==
    /\ \A n \in ToSet(canvas.nodes) : n.kind \in NodeKinds /\ n.id \in 1 .. canvas.last
    /\ \A e \in canvas.edges : Cardinality(e) = 2 /\ e \subseteq 1 .. canvas.last
    /\ selected \in {Nobody} \union Ids
    /\ connectFrom \in 0 .. canvas.last
    /\ dialog \in {"none", "import", "deploy"}
    /\ {planning, deploying, importing, mixed} \subseteq BOOLEAN

\* What a user confirms is what the plan showed, unless a plan was asked for while
\* another one was on its way or a project was imported under the dialog: then the
\* dialog shows one blueprint and applies another.
AppliesWhatItShows == ~applied.mixed => applied.plan = applied.sent

\* The text beside the canvas, whatever was joined, renamed, deleted, replaced or typed
\* before, gives a canvas of the blueprint that it says when it is applied; but that takes
\* a user who indents its lists first (as printed it is refused, unless it has none) and
\* a target of every balancer.
YamlKeepsCanvas ==
    LET text == Indented(Text) IN
    Accepted(text) => ToBlueprint(ToCanvas(text.bp, canvas.last)) = text.bp
=============================================================================
