--------------------------- MODULE Installations ---------------------------
(***************************************************************************)
(* One installation of the GitHub App and the GithubInstallation row that  *)
(* links it to a workspace: the callback to which GitHub sends the browser *)
(* (routes/github-app.ts), and the events it posts of each change, which   *)
(* syncInstallation handles (routes/webhooks.ts).                          *)
(*                                                                         *)
(* GitHub is external. It may deliver events late, in another order, at    *)
(* once or again, and a user may open the callback again.                  *)
(***************************************************************************)
EXTENDS Integers, Sequences, FiniteSets, Faults

CONSTANTS
    Repos,          \* repositories of the account
    MaxChanges      \* bound on what happens at GitHub

\* What is installed first is one repository at least, and that is the first change.
ASSUME ChangeAssumption == MaxChanges \in Nat \ {0} /\ Repos /= {}

VARIABLES
    hub,        \* at GitHub: is it installed, on which repositories, is it suspended
    changes,    \* the events of its changes, in their order
    events,     \* those to be delivered
    handler,    \* handler[e]: the row as the handler of event e has read it
    callback,   \* where the callback stands, and the repositories it read
    link,       \* the row
    \* history
    handled,    \* the last event that was handled
    astray      \* an event was lost, handled after a later one, beside another one or
                \* beside the callback; or the callback failed to list the repositories,
                \* or linked what was suspended

installationVars == <<hub, changes, events, handler, callback, link, handled, astray>>

NoLink == [linked |-> FALSE, repos |-> {}, suspended |-> FALSE]
Linked(repos, suspended) == [linked |-> TRUE, repos |-> repos, suspended |-> suspended]
NotReading(e) == handler[e] = NoLink

InstallationsInit ==
    /\ \E r \in {CHOOSE r \in Repos : TRUE} :
        /\ hub = [installed |-> TRUE, repos |-> {r}, suspended |-> FALSE]
        /\ changes = <<[kind |-> "created", repos |-> {r}]>>
    /\ events = {1}
    /\ handler = [e \in 1 .. MaxChanges |-> NoLink]
    /\ callback = [at |-> "asked", repos |-> {}]
    /\ link = NoLink
    /\ handled = 0 /\ astray = FALSE

-----------------------------------------------------------------------------
(* GitHub *)

Change(kind, repos) ==
    /\ hub.installed /\ Len(changes) < MaxChanges
    /\ changes' = Append(changes, [kind |-> kind, repos |-> repos])
    /\ events' = events \union {Len(changes) + 1}
    /\ UNCHANGED <<handler, callback, link, handled, astray, faults>>

AddRepository(r) ==
    /\ r \notin hub.repos
    /\ hub' = [hub EXCEPT !.repos = @ \union {r}]
    /\ Change("added", {r})

DropRepository(r) ==
    /\ r \in hub.repos
    /\ hub' = [hub EXCEPT !.repos = @ \ {r}]
    /\ Change("removed", {r})

Suspend ==
    /\ hub' = [hub EXCEPT !.suspended = ~@]
    /\ Change(IF hub.suspended THEN "unsuspend" ELSE "suspend", {})

Uninstall ==
    /\ hub' = [hub EXCEPT !.installed = FALSE]
    /\ Change("deleted", {})

OpenCallback ==
    /\ callback.at = "done" /\ Fault
    /\ callback' = [at |-> "asked", repos |-> {}]
    /\ UNCHANGED <<hub, changes, events, handler, link, handled, astray>>

LoseEvent(e) ==
    /\ e \in events /\ Fault
    /\ events' = events \ {e}
    /\ handler' = [handler EXCEPT ![e] = NoLink]
    /\ astray' = TRUE
    /\ UNCHANGED <<hub, changes, callback, link, handled>>

Redeliver(e) ==
    /\ e \in DOMAIN changes \ events /\ Fault
    /\ events' = events \union {e}
    /\ UNCHANGED <<hub, changes, handler, callback, link, handled, astray>>

-----------------------------------------------------------------------------
(* The callback *)

\* It throws when the installation is gone, and takes a list it cannot read for empty.
ReadInstallation ==
    /\ callback.at = "asked"
    /\ IF hub.installed
       THEN \/ callback' = [at |-> "read", repos |-> hub.repos] /\ UNCHANGED <<astray, faults>>
            \/ callback' = [at |-> "read", repos |-> {}] /\ Fault /\ astray' = TRUE
       ELSE callback' = [callback EXCEPT !.at = "done"] /\ UNCHANGED <<astray, faults>>
    /\ UNCHANGED <<hub, changes, events, handler, link, handled>>

LinkInstallation ==
    /\ callback.at = "read"
    /\ callback' = [callback EXCEPT !.at = "done"]
    /\ link' = Linked(callback.repos, FALSE)
    /\ astray' = (astray \/ hub.suspended \/ \E e \in events : ~NotReading(e))
    /\ UNCHANGED <<hub, changes, events, handler, handled, faults>>

UnlinkInstallation ==
    /\ link.linked
    /\ link' = NoLink
    /\ UNCHANGED <<hub, changes, events, handler, callback, handled, astray, faults>>

-----------------------------------------------------------------------------
(* The handler of an event *)

Handle(e) ==
    /\ e \in events /\ NotReading(e)
    /\ handled' = e
    /\ astray' = (astray \/ e < handled \/ callback.at = "read" \/ \E o \in events : ~NotReading(o))

EndEvent(e) ==
    /\ events' = events \ {e}
    /\ handler' = [handler EXCEPT ![e] = NoLink]

\* Of an installation that has no row there is nothing to keep.
ReadLink(e) ==
    /\ Handle(e) /\ changes[e].kind /= "deleted"
    /\ IF link.linked THEN handler' = [handler EXCEPT ![e] = link] /\ UNCHANGED events
       ELSE EndEvent(e)
    /\ UNCHANGED <<hub, changes, callback, link, faults>>

DeleteLink(e) ==
    /\ Handle(e) /\ changes[e].kind = "deleted"
    /\ EndEvent(e)
    /\ link' = NoLink
    /\ UNCHANGED <<hub, changes, callback, faults>>

\* Mutant: the list the event names replaces the one of the row.
ReplaceRepositories(row, c) ==
    IF c.repos = {} THEN row.repos ELSE c.repos

\* What the event adds is added to what was read of the row, what it removes is taken from it.
Repositories(row, c) ==
    CASE c.kind = "created" -> c.repos
      [] c.kind = "added" -> row.repos \union c.repos
      [] OTHER -> row.repos \ c.repos

\* A row that went meanwhile makes the statement throw.
SyncLink(e) ==
    LET row == handler[e]
        c == changes[e]
    IN
    /\ e \in events /\ ~NotReading(e)
    /\ EndEvent(e)
    /\ link' = IF link.linked
               THEN Linked(Repositories(row, c), CASE c.kind = "suspend" -> TRUE
                                                   [] c.kind = "unsuspend" -> FALSE
                                                   [] OTHER -> row.suspended)
               ELSE link
    /\ UNCHANGED <<hub, changes, callback, handled, astray, faults>>

InstallationsNext ==
    \/ \E r \in Repos : AddRepository(r) \/ DropRepository(r)
    \/ Suspend \/ Uninstall \/ OpenCallback
    \/ ReadInstallation \/ LinkInstallation \/ UnlinkInstallation
    \/ \E e \in 1 .. MaxChanges :
        LoseEvent(e) \/ Redeliver(e) \/ ReadLink(e) \/ DeleteLink(e) \/ SyncLink(e)

InstallationsSpec ==
    InstallationsInit /\ faults = 0 /\ [][InstallationsNext]_<<installationVars, faults>>

-----------------------------------------------------------------------------
(* Properties *)

InstallationsTypeOK ==
    /\ hub \in [installed : BOOLEAN, repos : SUBSET Repos, suspended : BOOLEAN]
    /\ changes \in Seq([kind : {"created", "added", "removed", "suspend", "unsuspend", "deleted"},
                        repos : SUBSET Repos])
    /\ events \subseteq DOMAIN changes
    /\ handler \in [1 .. MaxChanges -> [linked : BOOLEAN, repos : SUBSET Repos, suspended : BOOLEAN]]
    /\ callback \in [at : {"asked", "read", "done"}, repos : SUBSET Repos]
    /\ link \in [linked : BOOLEAN, repos : SUBSET Repos, suspended : BOOLEAN]
    /\ handled \in 0 .. MaxChanges /\ astray \in BOOLEAN

\* When no event is on its way and the callback has ended, a row tells what GitHub
\* has: the installation is there, with these repositories, and suspended or not;
\* unless one of the events or the callback went astray.
LinkFollowsHub ==
    events = {} /\ callback.at = "done" /\ link.linked /\ ~astray =>
        /\ hub.installed
        /\ link.repos = hub.repos /\ link.suspended = hub.suspended
=============================================================================
