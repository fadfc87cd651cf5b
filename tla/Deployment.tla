----------------------------- MODULE Deployment -----------------------------
(***************************************************************************)
(* `pulumi up' of the programs the components declare: the engine          *)
(* provisions what is missing in an order the dependencies allow, in        *)
(* parallel; a call to Azure may fail, which ends the update after some     *)
(* resources have been created; the next `up' continues from the state it  *)
(* finds; a change of the configuration gives another program, and what it *)
(* no longer declares is deleted last.                                     *)
(***************************************************************************)
EXTENDS Naturals, Sequences, FiniteSets

CONSTANTS
    Stories,      \* by name: the updates that follow one another, as Pulumi!Update
    MaxFailures   \* bound: how often a call to Azure may fail

UrnsOf(nodes) == {n.urn : n \in nodes}

Updates == UNION {{Stories[s][t] : t \in 1 .. Len(Stories[s])} : s \in DOMAIN Stories}

Nodes == UNION {u.goal : u \in Updates}

ASSUME MaxFailuresAssumption == MaxFailures \in Nat

\* A URN stands for one resource; a resource waits for what it depends on, and
\* whatever it waits for is declared.
ASSUME UpdatesAssumption ==
    \A u \in Updates :
        /\ u.runs \in BOOLEAN
        /\ \A n, m \in u.goal : n.urn = m.urn => n = m
        /\ \A n \in u.goal : /\ n.deps \subseteq u.waits[n.urn]
                               /\ u.waits[n.urn] \subseteq UrnsOf(u.goal)

ASSUME StoriesAssumption ==
    \A s \in DOMAIN Stories : Len(Stories[s]) \in Nat /\ Len(Stories[s]) >= 1

VARIABLES
    story,      \* the story that is told
    turn,       \* which of its updates is the current one
    status,     \* of the update: "running", "failed" or "succeeded"
    state,      \* the state file: what has been provisioned, as declared then
    failures    \* calls that failed so far

vars == <<story, turn, status, state, failures>>

update == Stories[story][turn]

\* Declared and not yet as declared.
Pending == update.goal \ state

\* In the state file and no longer declared.
Stale == {n \in state : n.urn \notin UrnsOf(update.goal)}

Init ==
    /\ story \in DOMAIN Stories
    /\ turn = 1
    /\ status = "running"
    /\ state = {}
    /\ failures = 0

\* Everything it waits for, directly or not, is as declared.
Ready(n) == n \in Pending /\ update.waits[n.urn] \subseteq UrnsOf(update.goal \cap state)

\* Azure will not have it: its name, or a rule's priority, is taken by what another
\* URN has provisioned, or two of its secrets have the same key.
Unacceptable(n) ==
    \/ \E m \in state : m.urn # n.urn /\ m.takes \cap n.takes # {}
    \/ \E i, j \in 1 .. Len(n.keys) : i # j /\ n.keys[i] = n.keys[j]

\* Mutant of Provision: what was there under the URN stays.
ProvisionBeside(n) ==
    /\ status = "running"
    /\ Ready(n)
    /\ ~Unacceptable(n)
    /\ state' = state \cup {n}
    /\ UNCHANGED <<story, turn, status, failures>>

\* Create a resource, or update it when it is there under the same URN.
Provision(n) ==
    /\ status = "running"
    /\ Ready(n)
    /\ ~Unacceptable(n)
    /\ state' = {m \in state : m.urn # n.urn} \cup {n}
    /\ UNCHANGED <<story, turn, status, failures>>

\* The call fails: the update ends where it is.
ProvisionFails(n) ==
    /\ status = "running"
    /\ Ready(n)
    /\ failures < MaxFailures
    /\ failures' = failures + 1
    /\ status' = "failed"
    /\ UNCHANGED <<story, turn, state>>

Refuse(n) ==
    /\ status = "running"
    /\ Ready(n)
    /\ Unacceptable(n)
    /\ status' = "failed"
    /\ UNCHANGED <<story, turn, state, failures>>

\* Mutant of Deletable: in any order.
DeletableInAnyOrder(n) ==
    /\ update.runs
    /\ Pending = {}
    /\ n \in Stale

\* Deletions come after everything else, a dependent before what it depends on
\* directly, as the state file has it: what lies between and stays orders nothing.
Deletable(n) ==
    /\ update.runs
    /\ Pending = {}
    /\ n \in Stale
    /\ \A m \in Stale : n.urn \notin m.deps

Delete(n) ==
    /\ status = "running"
    /\ Deletable(n)
    /\ state' = state \ {n}
    /\ UNCHANGED <<story, turn, status, failures>>

DeleteFails(n) ==
    /\ status = "running"
    /\ Deletable(n)
    /\ failures < MaxFailures
    /\ failures' = failures + 1
    /\ status' = "failed"
    /\ UNCHANGED <<story, turn, state>>

\* The program raises, or declares a URN twice: some of what was registered before
\* has been provisioned, nothing is deleted, and the update fails.
Abort ==
    /\ status = "running"
    /\ ~update.runs
    /\ status' = "failed"
    /\ UNCHANGED <<story, turn, state, failures>>

Succeed ==
    /\ status = "running"
    /\ update.runs
    /\ Pending = {} /\ Stale = {}
    /\ status' = "succeeded"
    /\ UNCHANGED <<story, turn, state, failures>>

\* The operator runs the failed update again...
Retry ==
    /\ status = "failed"
    /\ status' = "running"
    /\ UNCHANGED <<story, turn, state, failures>>

\* ... or, whatever came of it, the next program.
NextUpdate ==
    /\ status # "running"
    /\ turn < Len(Stories[story])
    /\ turn' = turn + 1
    /\ status' = "running"
    /\ UNCHANGED <<story, state, failures>>

Next ==
    \/ \E n \in update.goal : Provision(n) \/ ProvisionFails(n) \/ Refuse(n)
    \/ \E n \in state : Delete(n) \/ DeleteFails(n)
    \/ Abort
    \/ Succeed
    \/ Retry
    \/ NextUpdate

Spec == Init /\ [][Next]_vars

\* The engine starts all that is ready at once, so what is ready whenever an update
\* is run is done in one of them, whatever else fails; a failed update is run again,
\* and an operator who runs the same program again and again changes it in the end.
Fairness ==
    /\ SF_vars(\E n \in update.goal : Provision(n))
    /\ WF_vars(\E n \in update.goal : Refuse(n))
    /\ WF_vars(\E n \in state : Delete(n))
    /\ WF_vars(Succeed) /\ WF_vars(Abort)
    /\ WF_vars(Retry) /\ SF_vars(NextUpdate)

FairSpec == Spec /\ Fairness

-----------------------------------------------------------------------------
(* Properties *)

\* The variables have their types; the state file knows a URN once.
TypeOK ==
    /\ story \in DOMAIN Stories
    /\ turn \in 1 .. Len(Stories[story])
    /\ status \in {"running", "failed", "succeeded"}
    /\ failures \in 0 .. MaxFailures
    /\ state \subseteq Nodes
    /\ \A n, m \in state : n.urn = m.urn => n = m

\* Whatever exists waits for nothing that does not.
Closed == \A n \in state : n.deps \subseteq UrnsOf(state)

\* What a deployment promises, ClosedStore: a failed update, an edit and a deletion
\* leave no resource behind that has lost what it depends on.
Store == INSTANCE ClosedStore WITH have <- state
Implements == Store!Spec

\* Whatever exists finds all that its arguments name, by an Output or by a plain
\* string (the group of a private endpoint, the container of an SFTP user, the
\* origins of a Front Door route): a name alone makes nothing wait.
NoDangling == \A n \in state : n.uses \subseteq UrnsOf(state)

\* Two creations or updates that write to an object which takes one write at a time
\* (the rule collection groups of a firewall policy) are never due together, whatever
\* groups an edit adds, removes or moves and wherever the update before it ended.  Not
\* so deletions: groups that an edit removes and that were not neighbours in the
\* chain are due together.
OnePutAtATime ==
    \A n, m \in update.goal :
        Ready(n) /\ Ready(m) /\ n.lock = m.lock /\ n.lock # <<>> => n = m

\* An output that a program exports is not overwritten by another of its exports.
OutputsKept == status = "succeeded" => update.shadowed = {}

\* An update fails only when a call to Azure does.
DeploysAsConfigured == status = "failed" => failures > 0

\* The stack ends up as its last program declares it, whatever the programs before it
\* left half-built when they raised, when a call failed or when they were edited.
Converges ==
    <>[](/\ turn = Len(Stories[story])
         /\ status = "succeeded"
         /\ state = update.goal)
=============================================================================
