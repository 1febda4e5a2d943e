------------------------------ MODULE TaskOrder ------------------------------
(***************************************************************************)
(* The order in which the tasks of a workflow are given to the provider:   *)
(* sdd_workflow_task_order (crates/ao2-runtime/src/lib.rs) for an SDD task *)
(* graph and ao2_run_spec_ordered_tasks (crates/ao2-cli/src/               *)
(* run_execution.rs) for a run spec.  Both scan the listing pass after     *)
(* pass and take every task whose dependencies were taken before it; they  *)
(* differ in when a dependency on an unknown task is found.                *)
(***************************************************************************)
EXTENDS Naturals, Sequences

CONSTANTS
    Ids,        \* task ids
    NoId,       \* a dependency without a `from`
    Listings,   \* the task lists considered, as sequences of ids
    EdgeSets    \* the dependency sets considered

Edges == [from : Ids \cup {NoId}, to : Ids]

ASSUME OrderAssumption ==
    /\ NoId \notin Ids
    /\ Listings \subseteq Seq(Ids)
    /\ EdgeSets \subseteq SUBSET Edges

VARIABLES
    kind,       \* which of the two functions runs
    tasks,      \* workflow_tasks: the ids, as listed
    edges,      \* workflow_dependencies, or the depends_on of each task
    at,         \* where the function is
    pos,        \* the task of the pass that is looked at
    completed, ordered, progressed

orderVars == <<kind, tasks, edges, at, pos, completed, ordered, progressed>>

Kinds == {"sdd", "run_spec"}
Final == {"ordered", "cycle", "unknown"}
Listed == {tasks[i] : i \in 1..Len(tasks)}

\* The dependencies of a task.
Deps(id) == {e.from : e \in {d \in edges : d.to = id}}

FirstTask == 1

\* The depends_on of a run spec are strings.  A task that is listed twice is taken
\* to have the same dependencies both times.
OrderInit ==
    /\ kind \in Kinds
    /\ tasks \in Listings
    /\ edges \in EdgeSets
    /\ kind = "run_spec" => \A e \in edges : e.from # NoId
    /\ at = "check"
    /\ pos = FirstTask
    /\ completed = {}
    /\ ordered = <<>>
    /\ progressed = FALSE

\* An SDD dependency into a task that is not listed is ignored; one from a task
\* that is not listed, or from none, is an error before any task is ordered.
Dangling == \E e \in edges : e.to \in Listed /\ e.from \notin Listed

Check ==
    /\ at = "check"
    /\ at' = IF kind = "sdd" /\ Dangling THEN "unknown" ELSE "pass"
    /\ UNCHANGED <<kind, tasks, edges, pos, completed, ordered, progressed>>

\* while ordered.len() < tasks.len()
BeginPass ==
    /\ at = "pass"
    /\ IF Len(ordered) < Len(tasks)
         THEN at' = "scan" /\ pos' = FirstTask /\ progressed' = FALSE
         ELSE at' = "ordered" /\ UNCHANGED <<pos, progressed>>
    /\ UNCHANGED <<kind, tasks, edges, completed, ordered>>

\* Mutated form: one dependency is enough.
Ready_OnAny(id) == Deps(id) # {} => Deps(id) \cap completed # {}
Ready(id) == Deps(id) \subseteq completed

\* Mutated form: completed tasks are looked at again.
Pending_Always(id) == TRUE
Pending(id) == id \notin completed

\* A run spec finds an unknown dependency when it comes to the task.
Unlisted(id) == kind = "run_spec" /\ ~(Deps(id) \subseteq Listed)

Scanning == at = "scan" /\ pos <= Len(tasks)

Placed(id) == Append(ordered, id)

Take ==
    /\ Scanning
    /\ Pending(tasks[pos]) /\ ~Unlisted(tasks[pos]) /\ Ready(tasks[pos])
    /\ ordered' = Placed(tasks[pos])
    /\ completed' = completed \cup {tasks[pos]}
    /\ progressed' = TRUE
    /\ pos' = pos + 1
    /\ UNCHANGED <<kind, tasks, edges, at>>

Skip ==
    /\ Scanning
    /\ Pending(tasks[pos]) => ~Unlisted(tasks[pos]) /\ ~Ready(tasks[pos])
    /\ pos' = pos + 1
    /\ UNCHANGED <<kind, tasks, edges, at, completed, ordered, progressed>>

Reject ==
    /\ Scanning
    /\ Pending(tasks[pos]) /\ Unlisted(tasks[pos])
    /\ at' = "unknown"
    /\ UNCHANGED <<kind, tasks, edges, pos, completed, ordered, progressed>>

\* Mutated form: a pass without progress is followed by another one.
AfterPass_Again == "pass"

\* Mutated form: one pass must do.
AfterPass_Once == IF Len(ordered) = Len(tasks) THEN "pass" ELSE "cycle"
AfterPass == IF progressed THEN "pass" ELSE "cycle"

EndPass ==
    /\ at = "scan"
    /\ pos > Len(tasks)
    /\ at' = AfterPass
    /\ UNCHANGED <<kind, tasks, edges, pos, completed, ordered, progressed>>

OrderNext == Check \/ BeginPass \/ Take \/ Skip \/ Reject \/ EndPass

OrderSpec == OrderInit /\ [][OrderNext]_orderVars
FairOrderSpec == OrderSpec /\ WF_orderVars(OrderNext)

-----------------------------------------------------------------------------
(* Properties                                                              *)

OrderTypeOK ==
    /\ kind \in Kinds
    /\ tasks \in Seq(Ids)
    /\ edges \subseteq Edges
    /\ at \in {"check", "pass", "scan"} \cup Final
    /\ pos \in 1..(Len(tasks) + 1)
    /\ completed \subseteq Ids
    /\ ordered \in Seq(Ids)
    /\ progressed \in BOOLEAN

\* No task is given to the provider before the tasks it depends on, and none
\* twice: each runs under a requester and a sandbox of its own.
Topological ==
    \A i \in 1..Len(ordered) :
        \A d \in Deps(ordered[i]) : \E j \in 1..(i - 1) : ordered[j] = d

NoTaskTwice ==
    \A i, j \in 1..Len(ordered) : ordered[i] = ordered[j] => i = j

\* A workflow is only started when every listed task has its turn.
Complete ==
    at = "ordered" => /\ Len(ordered) = Len(tasks)
                      /\ Listed = {ordered[i] : i \in 1..Len(ordered)}

\* Tasks that can never run: each waits for another one of them.
Stuck(S) == S # {} /\ \A id \in S : Deps(id) \cap S # {}

\* "contains a dependency cycle" is said of a graph that has one, or of a
\* listing that names a task twice; never of one that could be ordered.
CycleIsReal ==
    at = "cycle" =>
        \/ \E S \in SUBSET Listed : Stuck(S)
        \/ \E i, j \in 1..Len(tasks) : i # j /\ tasks[i] = tasks[j]

\* "depends on unknown task" is said only of a listed task with such a dependency.
UnknownIsReal == at = "unknown" => Dangling

\* Every graph is ordered or refused.
Decides == <>(at \in Final)
=============================================================================
