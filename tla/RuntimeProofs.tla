---------------------------- MODULE RuntimeProofs ----------------------------
(***************************************************************************)
(* Proofs about what stands before and after a governed run: the order in  *)
(* which its tasks are given to the provider (TaskOrder), for listings of  *)
(* any length and any dependencies, and the publication of its repair      *)
(* (Publication), for any number of invocations.  The two modules share no *)
(* variable; each theorem is about the specification it names.             *)
(***************************************************************************)
EXTENDS TaskOrder, Publication, FiniteSetTheorems, TLAPS

(* The order of the tasks.                                                 *)

Taken == {ordered[i] : i \in 1..Len(ordered)}

\* What a pass without progress has shown of the tasks behind pos.
Blocked(id) == id \notin completed => /\ Deps(id) \subseteq Listed
                                      /\ ~(Deps(id) \subseteq completed)

Scanned ==
    at \in {"scan", "cycle"} /\ ~progressed =>
        /\ Len(ordered) < Len(tasks)
        /\ \A i \in 1..(pos - 1) : Blocked(tasks[i])

OrderInv ==
    /\ OrderTypeOK /\ NoTaskTwice /\ Topological /\ UnknownIsReal
    /\ completed = Taken
    /\ completed \subseteq Listed
    /\ kind = "sdd" /\ at \notin {"check", "unknown"} => ~Dangling
    /\ Scanned
    /\ at = "cycle" => ~progressed /\ pos = Len(tasks) + 1
    /\ at = "ordered" => Len(ordered) >= Len(tasks)

\* A listing names at most as many tasks as it has entries, and exactly as many
\* when it names none twice.
LEMMA Count ==
    ASSUME NEW s \in Seq(Ids)
    PROVE  LET R == {s[i] : i \in 1..Len(s)} IN
           /\ IsFiniteSet(R)
           /\ Cardinality(R) <= Len(s)
           /\ (\A i, j \in 1..Len(s) : s[i] = s[j] => i = j) => Cardinality(R) = Len(s)
<1> DEFINE R == {s[i] : i \in 1..Len(s)}
<1>1. Len(s) \in Nat /\ s \in Surjection(1..Len(s), R)
  BY DEF Surjection
<1>2. IsFiniteSet(1..Len(s)) /\ Cardinality(1..Len(s)) = Len(s)
  <2>1. /\ IsFiniteSet(1..Len(s))
        /\ Cardinality(1..Len(s)) = IF 1 > Len(s) THEN 0 ELSE Len(s) - 1 + 1
    <3>1. 1 \in Int /\ Len(s) \in Int
      BY <1>1
    <3> QED BY <3>1, FS_Interval
  <2> QED BY <1>1, <2>1
<1>3. (\A i, j \in 1..Len(s) : s[i] = s[j] => i = j) => s \in Injection(1..Len(s), R)
  BY <1>1 DEF Surjection, Injection, IsInjective
<1>4. /\ IsFiniteSet(R) /\ Cardinality(R) <= Cardinality(1..Len(s))
      /\ Cardinality(R) = Cardinality(1..Len(s)) <=> s \in Injection(1..Len(s), R)
  BY <1>1, <1>2, FS_Surjection
<1> QED BY <1>2, <1>3, <1>4

\* Nothing has been taken when the function is entered.
LEMMA OrderStart == ASSUME OrderInit PROVE OrderInv
<1>1. tasks \in Seq(Ids) /\ Len(tasks) \in Nat /\ edges \subseteq Edges
  BY OrderAssumption DEF OrderInit
<1>2. ordered = <<>> /\ Len(ordered) = 0 /\ ordered \in Seq(Ids)
  BY DEF OrderInit
<1>3. OrderTypeOK
  <2>1. pos \in 1..(Len(tasks) + 1)
    BY <1>1 DEF OrderInit, FirstTask
  <2>2. progressed \in BOOLEAN /\ completed \subseteq Ids /\ kind \in Kinds /\ at = "check"
    BY DEF OrderInit
  <2> QED BY <1>1, <1>2, <2>1, <2>2, Zenon DEF OrderTypeOK
<1>4. NoTaskTwice /\ Topological
  BY <1>2 DEF NoTaskTwice, Topological
<1>5. completed = Taken /\ completed = {}
  BY <1>2 DEF OrderInit, Taken
<1> QED BY <1>3, <1>4, <1>5 DEF OrderInit, OrderInv, UnknownIsReal, Scanned

\* A task taken in a pass is put behind everything it depends on.
LEMMA TakeKeeps == ASSUME OrderInv, Take PROVE OrderInv'
<1> DEFINE id == tasks[pos]
           n == Len(ordered)
<1> USE DEF OrderInv
<1>1. /\ at = "scan" /\ pos \in 1..Len(tasks) /\ id \in Ids /\ id \in Listed
      /\ id \notin completed /\ Deps(id) \subseteq completed
      /\ ordered' = Append(ordered, id) /\ completed' = completed \cup {id}
      /\ progressed' = TRUE /\ pos' = pos + 1 /\ n \in Nat
      /\ UNCHANGED <<kind, tasks, edges, at>>
  BY DEF Take, Scanning, Pending, Ready, Placed, OrderTypeOK, Listed
<1>2. /\ ordered' \in Seq(Ids) /\ Len(ordered') = n + 1 /\ ordered'[n + 1] = id
      /\ \A i \in 1..n : ordered'[i] = ordered[i]
  BY <1>1 DEF OrderTypeOK
<1>3. OrderTypeOK'
  BY <1>1, <1>2 DEF OrderTypeOK
<1>4. NoTaskTwice'
  BY <1>1, <1>2 DEF NoTaskTwice, Taken
<1>5. completed' = Taken'
  BY <1>1, <1>2 DEF Taken
<1>6. Topological'
  <2>1. ASSUME NEW i \in 1..n, NEW d \in Deps(ordered[i])
        PROVE  \E j \in 1..(i - 1) : ordered'[j] = d
    <3>1. PICK j \in 1..(i - 1) : ordered[j] = d
      BY <1>1 DEF Topological
    <3> QED BY <1>1, <1>2, <3>1
  <2>2. ASSUME NEW d \in Deps(id)
        PROVE  \E j \in 1..n : ordered'[j] = d
    BY <1>1, <1>2 DEF Taken
  <2>3. \A k \in Ids : Deps(k)' = Deps(k)
    BY <1>1 DEF Deps
  <2>4. \A i \in 1..n : ordered[i] \in Ids
    BY <1>1 DEF OrderTypeOK
  <2> SUFFICES ASSUME NEW i \in 1..(n + 1), NEW d \in Deps(ordered'[i])
               PROVE  \E j \in 1..(i - 1) : ordered'[j] = d
    <3>1. \A i \in 1..(n + 1) : ordered'[i] \in Ids
      BY <1>1, <1>2, <2>4
    <3> QED BY <1>2, <2>3, <3>1 DEF Topological
  <2>5. CASE i = n + 1
    BY <1>1, <1>2, <2>2, <2>5
  <2>6. CASE i \in 1..n
    BY <1>2, <2>1, <2>6
  <2> QED BY <1>1, <2>5, <2>6
<1>7. completed' \subseteq Listed' /\ UnknownIsReal' /\ (~Dangling => ~Dangling')
  BY <1>1 DEF Listed, UnknownIsReal, Dangling
<1> QED BY <1>1, <1>3, <1>4, <1>5, <1>6, <1>7 DEF Scanned

\* A task is passed over because it was taken or because it waits for another.
LEMMA SkipKeeps == ASSUME OrderInv, Skip PROVE OrderInv'
<1> USE DEF OrderInv
<1>1. /\ at = "scan" /\ pos \in 1..Len(tasks) /\ tasks[pos] \in Ids /\ pos' = pos + 1
      /\ UNCHANGED <<kind, tasks, edges, at, completed, ordered, progressed>>
  BY DEF Skip, Scanning, OrderTypeOK
<1>2. OrderTypeOK' /\ NoTaskTwice' /\ UnknownIsReal'
  BY <1>1 DEF OrderTypeOK, NoTaskTwice, UnknownIsReal, Deps, Listed, Dangling
<1>6. Topological' = Topological
  BY <1>1, Zenon DEF Topological, Deps
<1>3. completed' = Taken' /\ completed' \subseteq Listed' /\ Dangling' = Dangling
  BY <1>1 DEF Taken, Listed, Dangling
<1>4. Blocked(tasks[pos])
  <2>1. kind = "sdd" => Deps(tasks[pos]) \subseteq Listed
    BY <1>1 DEF Dangling, Deps, Listed
  <2>2. kind = "run_spec" /\ tasks[pos] \notin completed => Deps(tasks[pos]) \subseteq Listed
    BY DEF Skip, Pending, Unlisted
  <2>3. tasks[pos] \notin completed => ~(Deps(tasks[pos]) \subseteq completed)
    BY DEF Skip, Pending, Ready
  <2> QED BY <2>1, <2>2, <2>3 DEF Blocked, OrderTypeOK, Kinds
<1>5. Scanned'
  <2>1. \A id : Blocked(id)' = Blocked(id)
    BY <1>1 DEF Blocked, Deps, Listed
  <2> QED BY <1>1, <1>4, <2>1 DEF Scanned
<1> QED BY <1>1, <1>2, <1>3, <1>5, <1>6

\* The checks and the ends of passes leave what was taken alone.
LEMMA OtherKeeps ==
    ASSUME OrderInv, Check \/ BeginPass \/ Reject \/ EndPass \/ UNCHANGED orderVars
    PROVE  OrderInv'
<1> USE DEF OrderInv
<1>1. UNCHANGED <<kind, tasks, edges, completed, ordered>>
  BY DEF Check, BeginPass, Reject, EndPass, orderVars
<1>2. NoTaskTwice' /\ Topological'
  <2>1. NoTaskTwice' = NoTaskTwice
    BY <1>1, Zenon DEF NoTaskTwice
  <2>2. Topological' = Topological
    BY <1>1, Zenon DEF Topological, Deps
  <2> QED BY <2>1, <2>2
<1>3. completed' = Taken' /\ completed' \subseteq Listed' /\ Dangling' = Dangling
      /\ \A id : Blocked(id)' = Blocked(id)
  BY <1>1 DEF Taken, Listed, Dangling, Blocked, Deps
<1>4. CASE Check
  BY <1>1, <1>2, <1>3, <1>4 DEF Check, OrderTypeOK, Final, UnknownIsReal, Scanned
<1>5. CASE BeginPass
  <2>1. OrderTypeOK'
    <3>1. pos' \in 1..(Len(tasks) + 1)
      <4>1. Len(tasks) \in Nat /\ pos \in 1..(Len(tasks) + 1)
        BY DEF OrderTypeOK
      <4>2. pos' = 1 \/ pos' = pos
        BY <1>5 DEF BeginPass, FirstTask
      <4> QED BY <4>1, <4>2
    <3>3. progressed' \in BOOLEAN
      BY <1>5 DEF BeginPass, OrderTypeOK
    <3>2. at' \in {"scan", "ordered"}
      BY <1>5 DEF BeginPass
    <3> QED BY <1>1, <3>1, <3>2, <3>3 DEF OrderTypeOK, Final
  <2>2. Scanned'
    BY <1>1, <1>5 DEF BeginPass, Scanned, FirstTask
  <2>3. Len(ordered) \in Nat /\ Len(tasks) \in Nat
    BY DEF OrderTypeOK
  <2> QED BY <1>1, <1>2, <1>3, <1>5, <2>1, <2>2, <2>3 DEF BeginPass, UnknownIsReal
<1>6. CASE Reject
  <2>1. OrderTypeOK' /\ at' = "unknown"
    BY <1>1, <1>6 DEF Reject, OrderTypeOK, Final
  <2>2. Dangling
    BY <1>6 DEF Reject, Scanning, Unlisted, Dangling, Deps, Listed, OrderTypeOK
  <2> QED BY <1>2, <1>3, <2>1, <2>2 DEF UnknownIsReal, Scanned
<1>7. CASE EndPass
  <2>1. OrderTypeOK'
    BY <1>1, <1>7 DEF EndPass, AfterPass, OrderTypeOK, Final
  <2>2. /\ at = "scan" /\ pos' = pos /\ progressed' = progressed /\ pos = Len(tasks) + 1
        /\ at' = IF progressed THEN "pass" ELSE "cycle"
    BY <1>7 DEF EndPass, AfterPass, OrderTypeOK
  <2>3. Scanned'
    BY <1>1, <1>3, <2>2 DEF Scanned
  <2> QED BY <1>1, <1>2, <1>3, <2>1, <2>2, <2>3 DEF UnknownIsReal
<1>8. CASE UNCHANGED orderVars
  BY <1>1, <1>2, <1>3, <1>8 DEF orderVars, OrderTypeOK, UnknownIsReal, Scanned
<1> QED BY <1>4, <1>5, <1>6, <1>7, <1>8

\* OrderInv is inductive.
LEMMA OrderInvariant == OrderSpec => []OrderInv
<1>1. OrderInv /\ [OrderNext]_orderVars => OrderInv'
  BY TakeKeeps, SkipKeeps, OtherKeeps DEF OrderNext
<1> QED BY <1>1, OrderStart, PTL DEF OrderSpec

\* No task is given to the provider before the tasks it depends on.
THEOREM OrderIsTopological == OrderSpec => []Topological
<1>1. OrderInv => Topological
  BY DEF OrderInv
<1> QED BY <1>1, OrderInvariant, PTL

\* No task is given to the provider twice.
THEOREM OrderIsInjective == OrderSpec => []NoTaskTwice
<1>1. OrderInv => NoTaskTwice
  BY DEF OrderInv
<1> QED BY <1>1, OrderInvariant, PTL

\* Every listed task has its turn in a workflow that is started.
THEOREM OrderIsComplete == OrderSpec => []Complete
<1>1. ASSUME OrderInv, at = "ordered"
      PROVE  Len(ordered) = Len(tasks) /\ Listed = Taken
  <2>1. /\ IsFiniteSet(Listed) /\ Cardinality(Listed) <= Len(tasks)
        /\ IsFiniteSet(Taken) /\ Cardinality(Taken) = Len(ordered)
    BY <1>1, Count DEF OrderInv, OrderTypeOK, NoTaskTwice, Listed, Taken
  <2>2. Taken \subseteq Listed /\ Len(ordered) >= Len(tasks)
    BY <1>1 DEF OrderInv
  <2>3. Len(ordered) \in Nat /\ Len(tasks) \in Nat
    BY <1>1 DEF OrderInv, OrderTypeOK
  <2>4. Cardinality(Listed) \in Nat
    BY <2>1, FS_CardinalityType
  <2>5. Cardinality(Taken) <= Cardinality(Listed)
    BY <2>1, <2>2, FS_Subset
  <2>6. Cardinality(Listed) = Cardinality(Taken) /\ Len(ordered) = Len(tasks)
    BY <2>1, <2>2, <2>3, <2>4, <2>5
  <2> QED BY <2>1, <2>2, <2>6, FS_Subset
<1>2. OrderInv => Complete
  BY <1>1 DEF Complete, Taken
<1> QED BY <1>2, OrderInvariant, PTL

\* A dependency cycle is reported only where tasks wait for one another, or where
\* the listing names a task twice.
THEOREM OnlyRealCycles == OrderSpec => []CycleIsReal
<1>1. ASSUME OrderInv, at = "cycle",
             \A i, j \in 1..Len(tasks) : tasks[i] = tasks[j] => i = j
      PROVE  \E S \in SUBSET Listed : Stuck(S)
  <2> DEFINE S == Listed \ completed
  <2>1. S # {}
    <3>1. /\ IsFiniteSet(Listed) /\ Cardinality(Listed) = Len(tasks)
          /\ Cardinality(Taken) = Len(ordered)
      BY <1>1, Count DEF OrderInv, OrderTypeOK, NoTaskTwice, Listed, Taken
    <3>2. Len(ordered) < Len(tasks) /\ Len(ordered) \in Nat /\ Len(tasks) \in Nat
      BY <1>1 DEF OrderInv, Scanned, OrderTypeOK
    <3>3. Taken # Listed
      BY <3>1, <3>2
    <3> QED BY <1>1, <3>3 DEF OrderInv
  <2>2. ASSUME NEW id \in S
        PROVE  Deps(id) \cap S # {}
    <3>1. PICK i \in 1..Len(tasks) : tasks[i] = id
      BY DEF Listed
    <3>2. Len(tasks) \in Nat /\ pos - 1 = Len(tasks)
      BY <1>1 DEF OrderInv, OrderTypeOK
    <3>3. Blocked(id)
      BY <1>1, <3>1, <3>2 DEF OrderInv, Scanned
    <3> QED BY <3>3 DEF Blocked
  <2> QED BY <2>1, <2>2 DEF Stuck
<1>2. OrderInv => CycleIsReal
  BY <1>1 DEF CycleIsReal
<1> QED BY <1>2, OrderInvariant, PTL

-----------------------------------------------------------------------------
(* The publication of a repair.                                            *)

\* Where an invocation stands while its request is under way.
Place == [op \in Ops |-> CASE op = "fork" -> "forking"
                           [] op = "push" -> "pushing"
                           [] op = "draft" -> "opening"]

\* A request is under way for an invocation that has no answer yet, and waits or
\* has given up; no invocation has two.
Asked ==
    \A a \in asks :
        /\ reply[a.by].is = "none"
        /\ run[a.by].at \in {Place[a.op], "broken"}
        /\ \A b \in asks : a.by = b.by => a = b

PubInv ==
    /\ TypeOK
    /\ \A c \in Calls : run[c].at \in {"forkRead", "branchRead"} => run[c].left >= 1
    /\ Asked

\* The invocation c was told that it created the pull request n.
Claims(c, n) ==
    \/ run[c].at = "opening" /\ reply[c].is = "ok" /\ reply[c].pull = n
    \/ "draft" \in run[c].did /\ run[c].pull = n

CreatorInv ==
    /\ \A c \in Calls, n \in Nat : Claims(c, n) => n \in 1..Len(pulls)
    /\ \A c, d \in Calls, n \in Nat : Claims(c, n) /\ Claims(d, n) => c = d
    /\ \A c \in Calls :
          "draft" \in run[c].did => run[c].at \in {"pull", "done", "refused", "broken"}

\* What holds on GitHub as long as nobody else changes anything: the branch, once
\* shown, stays, and there is one pull request at most, which is as approved.
Undrifted ==
    /\ base = "base"
    /\ branch # "none" => fork = "ready"
    /\ shown = "head" => branch = "head"
    /\ Len(pulls) <= 1
    /\ \A n \in 1..Len(pulls) : pulls[n] = [state |-> "draft", base |-> "base"]
    /\ \A a \in asks : a.op = "draft" => shown = "head"

\* What an invocation has learnt is still so.
Learnt(c) ==
    /\ run[c].at \in {"drafts", "opening", "draftsRead", "pull", "done"} => shown = "head"
    /\ run[c].at = "draftsRead" => Len(pulls) = 1
    /\ run[c].at = "opening" /\ reply[c].is = "conflict" => Len(pulls) = 1
    /\ run[c].at = "opening" /\ reply[c].is = "ok" => reply[c].pull = 1 /\ Len(pulls) = 1
    /\ run[c].at \in {"pull", "done"} => run[c].pull = 1 /\ Len(pulls) = 1

Following == {"base", "stale", "fork", "branch", "drafts", "pull", "done", "broken"}

\* An invocation that started after a success meets nothing it would have to write.
Follows(c) ==
    /\ before[c] # {} => /\ \E d \in Calls : run[d].at = "done"
                         /\ run[c].at \in Following
                         /\ ~Wrote(c)
    /\ run[c].at = "idle" => before[c] = {} /\ ~Wrote(c)

QuietInv == drifts = 0 => Undrifted /\ \A c \in Calls : Learnt(c) /\ Follows(c)

(* One invocation's step: what it may change.                              *)

Runs == [Calls -> [at : Statuses, left : 0..(ForkReads + BranchReads),
                   did : SUBSET Ops, pull : Nat]]

\* The request c sends before it waits.
Sends(c, op) ==
    /\ asks' = asks \cup {[by |-> c, op |-> op]}
    /\ reply' = [reply EXCEPT ![c] = NoReply]
    /\ made' = made \cup {[by |-> c, op |-> op, time |-> now]}
    /\ run'[c].at = Place[op]

LEMMA Goes ==
    ASSUME run \in Runs, NEW c \in Calls, NEW place \in Statuses, Goto(c, place)
    PROVE  /\ run' \in Runs
           /\ run'[c].at = place /\ run'[c].left = run[c].left
           /\ run'[c].did = run[c].did /\ run'[c].pull = run[c].pull
           /\ \A d \in Calls \ {c} : run'[d] = run[d]
BY DEF Goto, Runs

LEMMA Waits ==
    ASSUME run \in Runs, NEW c \in Calls, NEW op \in Ops, Send(c, op, Place[op])
    PROVE  /\ Sends(c, op)
           /\ run' \in Runs
           /\ run'[c].left = run[c].left /\ run'[c].did = run[c].did
           /\ run'[c].pull = run[c].pull
           /\ \A d \in Calls \ {c} : run'[d] = run[d]
           /\ UNCHANGED <<github, now, before, told, drifts, faults>>
<1>1. Place[op] \in Statuses
  BY DEF Place, Ops, Statuses, Waiting
<1>2. Goto(c, Place[op])
  BY DEF Send
<1> QED BY <1>1, <1>2, Goes DEF Send, Sends

\* The steps that set more than the place.
Turned(c, p, l, D, n) ==
    \/ run' = [run EXCEPT ![c].at = p, ![c].left = l, ![c].did = D] /\ n = run[c].pull
    \/ run' = [run EXCEPT ![c].at = p, ![c].did = D] /\ n = run[c].pull /\ l = run[c].left
    \/ run' = [run EXCEPT ![c].at = p, ![c].pull = n] /\ D = run[c].did /\ l = run[c].left
    \/ run' = [run EXCEPT ![c].at = p, ![c].pull = n, ![c].did = D] /\ l = run[c].left
    \/ run' = [run EXCEPT ![c].left = l] /\ p = run[c].at /\ D = run[c].did /\ n = run[c].pull

LEMMA Turns ==
    ASSUME run \in Runs, NEW c \in Calls, NEW p \in Statuses,
           NEW l \in 0..(ForkReads + BranchReads), NEW D \in SUBSET Ops, NEW n \in Nat,
           Turned(c, p, l, D, n)
    PROVE  /\ run' \in Runs
           /\ run'[c].at = p /\ run'[c].left = l /\ run'[c].did = D /\ run'[c].pull = n
           /\ \A d \in Calls \ {c} : run'[d] = run[d]
<1> DEFINE R == [at : Statuses, left : 0..(ForkReads + BranchReads),
                 did : SUBSET Ops, pull : Nat]
           r == [at |-> p, left |-> l, did |-> D, pull |-> n]
<1>1. r \in R /\ run \in [Calls -> R]
  BY DEF Runs
<1>2. run'[c] = r
  <2>1. run \in [Calls -> R] /\ run[c] = [at |-> run[c].at, left |-> run[c].left,
                                          did |-> run[c].did, pull |-> run[c].pull]
    BY DEF Runs
  <2>2. CASE run' = [run EXCEPT ![c].at = p, ![c].left = l, ![c].did = D] /\ n = run[c].pull
    <3>1. run'[c] = [[[run[c] EXCEPT !.at = p] EXCEPT !.left = l] EXCEPT !.did = D]
      BY <2>1, <2>2
    <3> QED BY <2>1, <2>2, <3>1
  <2>3. CASE run' = [run EXCEPT ![c].at = p, ![c].did = D] /\ n = run[c].pull /\ l = run[c].left
    <3>1. run'[c] = [[run[c] EXCEPT !.at = p] EXCEPT !.did = D]
      BY <2>1, <2>3
    <3> QED BY <2>1, <2>3, <3>1
  <2>4. CASE run' = [run EXCEPT ![c].at = p, ![c].pull = n] /\ D = run[c].did /\ l = run[c].left
    <3>1. run'[c] = [[run[c] EXCEPT !.at = p] EXCEPT !.pull = n]
      BY <2>1, <2>4
    <3> QED BY <2>1, <2>4, <3>1
  <2>5. CASE /\ run' = [run EXCEPT ![c].at = p, ![c].pull = n, ![c].did = D]
             /\ l = run[c].left
    <3>1. run'[c] = [[[run[c] EXCEPT !.at = p] EXCEPT !.pull = n] EXCEPT !.did = D]
      BY <2>1, <2>5
    <3> QED BY <2>1, <2>5, <3>1
  <2>6. CASE /\ run' = [run EXCEPT ![c].left = l]
             /\ p = run[c].at /\ D = run[c].did /\ n = run[c].pull
    <3>1. run'[c] = [run[c] EXCEPT !.left = l]
      BY <2>1, <2>6
    <3> QED BY <2>1, <2>6, <3>1
  <2> QED BY <2>2, <2>3, <2>4, <2>5, <2>6 DEF Turned
<1>3. /\ DOMAIN run' = Calls /\ run' = [d \in Calls |-> run'[d]]
      /\ \A d \in Calls \ {c} : run'[d] = run[d]
  BY DEF Runs, Turned
<1>4. run' \in [Calls -> R]
  <2>1. \A d \in Calls : run'[d] \in R
    <3> HIDE DEF R, r
    <3> QED BY <1>1, <1>2, <1>3
  <2> HIDE DEF R
  <2> QED BY <1>3, <2>1
<1> QED BY <1>2, <1>3, <1>4 DEF Runs

Unread(c) == run'[c].at \in {"forkRead", "branchRead"} => run'[c].left >= 1

\* An invocation's step leaves GitHub and the other invocations alone.
LEMMA CallMoves ==
    ASSUME PubInv, NEW c \in Calls, Start(c) \/ Proceed(c) \/ ReadFails(c)
    PROVE  /\ run' \in Runs /\ \A d \in Calls \ {c} : run'[d] = run[d]
           /\ UNCHANGED <<github, now, drifts>> /\ faults' \in 0..MaxFault
           /\ before' \in [Calls -> SUBSET Calls] /\ told' \in [Calls -> 0..MaxDrift]
           /\ Unread(c)
           /\ run[c].at \in {"idle"} \cup Reading \cup Waiting
           /\ \/ UNCHANGED <<asks, reply, made>> /\ run'[c].at \notin Waiting
              \/ \E op \in Ops : Sends(c, op) /\ run[c].at \notin Waiting
<1> DEFINE Framed == /\ UNCHANGED <<github, now, drifts>> /\ faults' \in 0..MaxFault
                     /\ before' \in [Calls -> SUBSET Calls] /\ told' \in [Calls -> 0..MaxDrift]
           Quiet == UNCHANGED <<asks, reply, made>> /\ run'[c].at \notin Waiting
           Known == run' \in Runs /\ \A d \in Calls \ {c} : run'[d] = run[d]
<1>1. /\ run \in Runs /\ run[c].at \in Statuses /\ run[c].left \in 0..(ForkReads + BranchReads)
      /\ run[c].did \in SUBSET Ops /\ run[c].pull \in Nat
      /\ (run[c].at \in {"forkRead", "branchRead"} => run[c].left >= 1)
      /\ reply[c].pull \in Nat /\ Len(pulls) \in Nat
      /\ ForkReads \in Nat \ {0} /\ BranchReads \in Nat \ {0}
  BY PublicationAssumption DEF PubInv, TypeOK, Runs
<1>2. Silent => Framed /\ UNCHANGED <<asks, reply, made>>
  BY DEF Silent, PubInv, TypeOK, github, network, history
<1>3. ASSUME NEW place \in Statuses \ Waiting, Goto(c, place)
      PROVE  Known /\ run'[c].at = place /\ run'[c].left = run[c].left
  BY <1>1, <1>3, Goes DEF Goto
<1>4. ASSUME NEW place \in {"base", "stale", "fork", "branch", "drafts", "refused", "broken",
                           "prepare", "expired"},
             Goto(c, place), Silent
      PROVE  Known /\ Framed /\ Quiet /\ Unread(c)
  <2>1. place \in Statuses \ Waiting /\ place \notin {"forkRead", "branchRead"}
    BY DEF Statuses, Reading, Waiting, Refusals
  <2> QED BY <1>2, <1>3, <1>4, <2>1 DEF Unread
<1>5. ASSUME NEW op \in Ops, Send(c, op, Place[op])
      PROVE  Known /\ Framed /\ Unread(c) /\ Sends(c, op)
  <2>1. Place[op] \notin {"forkRead", "branchRead"}
    BY DEF Place, Ops
  <2>3. /\ faults \in 0..MaxFault /\ before \in [Calls -> SUBSET Calls]
        /\ told \in [Calls -> 0..MaxDrift]
    BY DEF PubInv, TypeOK
  <2> QED BY <1>1, <1>5, <2>1, <2>3, Waits DEF Sends, Unread
<1>6. ASSUME NEW p \in Statuses \ Waiting, NEW l \in 0..(ForkReads + BranchReads),
             NEW D \in SUBSET Ops, NEW n \in Nat, Silent,
             p \in {"forkRead", "branchRead"} => l >= 1,
             Turned(c, p, l, D, n)
      PROVE  Known /\ Framed /\ Quiet /\ Unread(c)
  <2>1. Known /\ run'[c].at = p /\ run'[c].left = l
    BY <1>1, <1>6, Turns
  <2> QED BY <1>2, <1>6, <2>1 DEF Unread
<1>7. ASSUME NEW op \in Ops, NEW place \in {"forkRead", "branchRead"},
             NEW reads \in {ForkReads, BranchReads}, Reread(c, op, place, reads)
      PROVE  Known /\ Framed /\ Quiet /\ Unread(c)
  <2>1. place \in Statuses \ Waiting
    BY DEF Statuses, Reading, Waiting
  <2>2. reads \in 0..(ForkReads + BranchReads) /\ reads >= 1
    BY <1>1
  <2>3. run[c].did \cup {op} \in SUBSET Ops
    BY <1>1
  <2>4. run' = [run EXCEPT ![c].at = place, ![c].left = reads, ![c].did = run[c].did \cup {op}]
    BY <1>7 DEF Reread
  <2> QED BY <1>1, <1>6, <1>7, <2>1, <2>2, <2>3, <2>4 DEF Reread, Turned
<1>8. ASSUME Again(c), run[c].at \in {"forkRead", "branchRead"}
      PROVE  Known /\ Framed /\ Quiet /\ Unread(c)
  <2>1. CASE run[c].left = 1
    BY <1>4, <1>8, <2>1 DEF Again
  <2>2. CASE run[c].left # 1
    <3>1. run' = [run EXCEPT ![c].left = run[c].left - 1] /\ Silent
      BY <1>8, <2>2 DEF Again, LeftAfter
    <3>2. /\ run[c].left - 1 \in 0..(ForkReads + BranchReads) /\ run[c].left - 1 >= 1
          /\ run[c].at \in Statuses \ Waiting
      BY <1>1, <1>8, <2>2 DEF Waiting
    <3> QED BY <1>1, <1>6, <3>1, <3>2 DEF Turned
  <2> QED BY <2>1, <2>2
<1>9. ASSUME NEW n \in Open, Silent, run' = [run EXCEPT ![c].at = "pull", ![c].pull = n]
      PROVE  Known /\ Framed /\ Quiet /\ Unread(c)
  <2>1. n \in Nat /\ "pull" \in Statuses \ Waiting
    BY <1>1 DEF Open, Statuses, Reading, Waiting
  <2> QED BY <1>1, <1>6, <1>9, <2>1 DEF Turned
<1>10. ASSUME TakeDraft(c) PROVE Known /\ Framed /\ Quiet /\ Unread(c)
  BY <1>4, <1>9, <1>10 DEF TakeDraft
<1>12. CASE Start(c)
  <2>1. \E place \in {"base", "stale"} : Goto(c, place)
    BY <1>12 DEF Start
  <2>2. Known /\ run'[c].at \in {"base", "stale"}
    BY <1>3, <2>1 DEF Statuses, Reading, Waiting
  <2>3. Framed /\ UNCHANGED <<asks, reply, made>>
    <3>1. /\ before \in [Calls -> SUBSET Calls] /\ faults \in 0..MaxFault
          /\ told \in [Calls -> 0..MaxDrift]
      BY DEF PubInv, TypeOK
    <3>2. {d \in Calls : run[d].at = "done"} \in SUBSET Calls
      OBVIOUS
    <3> QED BY <1>12, <3>1, <3>2 DEF Start, network, github
  <2> QED BY <1>12, <2>2, <2>3 DEF Start, Waiting, Unread
<1>13. CASE ReadFails(c)
  <2>1. Known /\ run'[c].at = "broken"
    BY <1>3, <1>13 DEF ReadFails, Statuses, Waiting, Refusals
  <2>2. Framed /\ UNCHANGED <<asks, reply, made>>
    BY <1>13, PublicationAssumption DEF ReadFails, PubInv, TypeOK, network, github, history
  <2> QED BY <1>13, <2>1, <2>2 DEF ReadFails, Waiting, Unread
<1>14. ASSUME Proceed(c) PROVE run[c].at \in Reading \cup Waiting
  BY <1>14, Zenon DEF Proceed, ReadBase, ReadFork, ForkMade, RereadFork, ReadBranch, Push, Pushed,
     RereadBranch, FindDrafts, Opened, Conflicted, RereadDrafts, ReadPull, Refused,
     TimeOut, Answered, Reading, Waiting
<1>15. CASE ReadBase(c) \/ Refused(c) \/ TimeOut(c)
  <2>1. \E place \in {"fork", "refused", "broken"} : Goto(c, place) /\ Silent
    BY <1>15 DEF ReadBase, Refused, TimeOut
  <2> QED BY <1>4, <1>14, <1>15, <2>1 DEF Proceed
<1>21. CASE ReadPull(c)
  <2>1. \E place \in {"done", "refused"} : Goto(c, place)
    BY <1>21 DEF ReadPull
  <2>2. Known /\ run'[c].at \in {"done", "refused"}
    BY <1>3, <2>1 DEF Statuses, Waiting, Refusals
  <2>3. Framed /\ UNCHANGED <<asks, reply, made>>
    <3>1. drifts \in 0..MaxDrift /\ told \in [Calls -> 0..MaxDrift]
      BY DEF PubInv, TypeOK
    <3>2. UNCHANGED told \/ told' = [told EXCEPT ![c] = drifts]
      BY <1>21 DEF ReadPull
    <3>3. told' \in [Calls -> 0..MaxDrift]
      BY <3>1, <3>2
    <3>4. UNCHANGED <<github, network, now, made, before, drifts, faults>>
      BY <1>21 DEF ReadPull
    <3> QED BY <3>3, <3>4 DEF PubInv, TypeOK, network, github
  <2> QED BY <1>14, <1>21, <2>2, <2>3 DEF Proceed, Waiting, Unread
<1>16. CASE ReadFork(c) \/ ReadBranch(c) \/ Push(c) \/ FindDrafts(c)
  <2>1. \/ \E place \in {"branch", "drafts", "refused", "prepare", "expired"} :
             Goto(c, place) /\ Silent
        \/ \E op \in Ops : Send(c, op, Place[op])
        \/ TakeDraft(c)
    <3>1. /\ Place["fork"] = "forking" /\ Place["push"] = "pushing" /\ Place["draft"] = "opening"
          /\ "fork" \in Ops /\ "push" \in Ops /\ "draft" \in Ops
      BY DEF Place, Ops
    <3> QED BY <1>16, <3>1 DEF ReadFork, ReadBranch, Push, FindDrafts, Expired
  <2>2. run[c].at \in Reading \ Waiting
    BY <1>16 DEF ReadFork, ReadBranch, Push, FindDrafts, Reading, Waiting
  <2> QED BY <1>4, <1>5, <1>10, <2>1, <2>2
<1>17. CASE ForkMade(c) \/ Pushed(c)
  <2>1. \/ Reread(c, "fork", "forkRead", ForkReads)
        \/ Reread(c, "push", "branchRead", BranchReads)
    BY <1>17 DEF ForkMade, Pushed
  <2>2. "fork" \in Ops /\ "push" \in Ops
    BY DEF Ops
  <2> QED BY <1>7, <1>14, <1>17, <2>1, <2>2 DEF Proceed
<1>18. CASE RereadFork(c) \/ RereadBranch(c)
  <2>1. /\ run[c].at \in {"forkRead", "branchRead"}
        /\ \/ \E place \in {"branch", "drafts", "refused"} : Goto(c, place) /\ Silent
           \/ Again(c)
    BY <1>18 DEF RereadFork, RereadBranch
  <2> QED BY <1>4, <1>8, <1>14, <1>18, <2>1 DEF Proceed
<1>19. CASE Opened(c) \/ Conflicted(c)
  <2>1. "pull" \in Statuses \ Waiting /\ "draftsRead" \in Statuses \ Waiting
    BY DEF Statuses, Reading, Waiting
  <2>2. run[c].did \cup {"draft"} \in SUBSET Ops
    BY <1>1 DEF Ops
  <2>3. Silent /\ \/ run' = [run EXCEPT ![c].at = "pull", ![c].pull = reply[c].pull,
                                        ![c].did = run[c].did \cup {"draft"}]
                  \/ run' = [run EXCEPT ![c].at = "draftsRead", ![c].did = run[c].did]
    BY <1>19 DEF Opened, Conflicted, DoneBy
  <2> QED BY <1>1, <1>6, <1>14, <1>19, <2>1, <2>2, <2>3 DEF Proceed, Turned
<1>20. CASE RereadDrafts(c)
  BY <1>10, <1>14, <1>20 DEF RereadDrafts, Proceed
<1> QED BY <1>12, <1>13, <1>15, <1>16, <1>17, <1>18, <1>19, <1>20, <1>21 DEF Proceed

LEMMA PubStart == ASSUME Init PROVE PubInv
<1>1. TypeOK
  BY PublicationAssumption DEF Init, TypeOK, NoReply, Statuses
<1> QED BY <1>1 DEF Init, PubInv, Asked

\* A request is forgotten only by an invocation that gives up.
LEMMA CallKeeps ==
    ASSUME PubInv, NEW c \in Calls, Start(c) \/ Proceed(c) \/ ReadFails(c)
    PROVE  PubInv'
<1>1. /\ run' \in Runs /\ \A d \in Calls \ {c} : run'[d] = run[d]
      /\ UNCHANGED <<github, now, drifts>> /\ faults' \in 0..MaxFault
      /\ before' \in [Calls -> SUBSET Calls] /\ told' \in [Calls -> 0..MaxDrift]
      /\ Unread(c)
      /\ run[c].at \in {"idle"} \cup Reading \cup Waiting
      /\ \/ UNCHANGED <<asks, reply, made>> /\ run'[c].at \notin Waiting
         \/ \E op \in Ops : Sends(c, op) /\ run[c].at \notin Waiting
  BY CallMoves
<1>2. \A d \in Calls : run'[d].at \in {"forkRead", "branchRead"} => run'[d].left >= 1
  BY <1>1 DEF Unread, PubInv
<1>3. ASSUME NEW a \in asks, a.by = c
      PROVE  run[c].at = Place[a.op] /\ Place[a.op] \in Waiting
  <2>1. a.op \in Ops
    BY DEF PubInv, TypeOK
  <2>2. Place[a.op] \in Waiting
    BY <2>1 DEF Place, Waiting, Ops
  <2>3. "broken" \notin {"idle"} \cup Reading \cup Waiting
    BY DEF Reading, Waiting
  <2> QED BY <1>1, <1>3, <2>2, <2>3 DEF PubInv, Asked
<1>4. CASE UNCHANGED <<asks, reply, made>> /\ run'[c].at \notin Waiting
  <2>1. TypeOK'
    BY <1>1, <1>4 DEF PubInv, TypeOK, Runs, github
  <2>2. Asked'
    <3>1. ASSUME NEW a \in asks, a.by = c PROVE run'[c].at = "broken"
      <4>1. run[c].at \in Waiting /\ reply[c].is = "none"
        BY <1>3, <3>1 DEF PubInv, Asked
      <4>2. TimeOut(c)
        BY <4>1, Zenon DEF Start, Proceed, ReadFails, ReadBase, ReadFork, ForkMade, RereadFork,
           ReadBranch, Push, Pushed, RereadBranch, FindDrafts, Opened, Conflicted,
           RereadDrafts, ReadPull, Refused, Answered, Waiting, Reading
      <4> QED BY <4>2, Goes DEF TimeOut, Statuses, Refusals, PubInv, TypeOK, Runs
    <3>2. \A a \in asks : a.by \in Calls
      BY DEF PubInv, TypeOK
    <3> QED BY <1>1, <1>4, <3>1, <3>2 DEF PubInv, Asked
  <2> QED BY <1>2, <2>1, <2>2 DEF PubInv
<1>5. ASSUME NEW op \in Ops, Sends(c, op), run[c].at \notin Waiting
      PROVE  PubInv'
  <2>1. \A a \in asks : a.by # c
    BY <1>3, <1>5
  <2>2. TypeOK'
    <3>1. reply' \in [Calls -> [is : {"none", "ok", "conflict", "error"}, pull : Nat]]
      BY <1>5 DEF Sends, PubInv, TypeOK, NoReply
    <3>2. made' \subseteq [by : Calls, op : Ops, time : Nat]
      BY <1>5, PublicationAssumption DEF Sends, PubInv, TypeOK
    <3>3. asks' \subseteq [by : Calls, op : Ops]
      BY <1>5 DEF Sends, PubInv, TypeOK
    <3> QED BY <1>1, <3>1, <3>2, <3>3 DEF PubInv, TypeOK, Runs, github
  <2>3. Asked'
    <3>1. /\ asks' = asks \cup {[by |-> c, op |-> op]}
          /\ reply'[c].is = "none" /\ run'[c].at = Place[op]
          /\ \A d \in Calls \ {c} : reply'[d] = reply[d] /\ run'[d] = run[d]
      BY <1>1, <1>5 DEF Sends, PubInv, TypeOK, NoReply
    <3>2. \A a \in asks : a.by \in Calls \ {c}
      BY <2>1 DEF PubInv, TypeOK
    <3> QED BY <3>1, <3>2 DEF PubInv, Asked
  <2> QED BY <1>2, <2>2, <2>3 DEF PubInv
<1> QED BY <1>1, <1>4, <1>5

\* An answer goes to the invocation that asked, and only the answer "ok" to a draft
\* request comes with a new pull request.
LEMMA AnswerMoves ==
    ASSUME PubInv, NEW a \in asks, LandFork(a) \/ LandPush(a) \/ LandDraft(a) \/ Lose(a)
    PROVE  /\ UNCHANGED <<run, now, made, before, told, drifts, faults, base, shown>>
           /\ asks' = asks \ {a} /\ a.by \in Calls /\ a.op \in Ops
           /\ fork' = fork \/ (fork = "none" /\ fork' = "creating")
           /\ branch' = branch \/ (fork = "ready" /\ branch' = "head")
           /\ \E is \in {"ok", "conflict", "error"} :
                 /\ reply' = [reply EXCEPT ![a.by] = [is |-> is, pull |-> Len(pulls')]]
                 /\ IF a.op = "draft" /\ is = "ok"
                      THEN /\ Open = {} /\ branch # "none"
                           /\ pulls' = Append(pulls, [state |-> "draft", base |-> base])
                      ELSE UNCHANGED pulls
                 /\ is = "conflict" => a.op = "draft" /\ ~(branch # "none" /\ Open = {})
<1>1. a.by \in Calls /\ a.op \in Ops
  BY DEF PubInv, TypeOK
<1>2. CASE LandFork(a)
  BY <1>1, <1>2 DEF LandFork, Answer, history
<1>3. CASE LandPush(a)
  BY <1>1, <1>3 DEF LandPush, Answer, history
<1>4. CASE LandDraft(a)
  BY <1>1, <1>4 DEF LandDraft, Answer, history
<1>5. CASE Lose(a)
  BY <1>1, <1>5 DEF Lose, Answer, history, github
<1> QED BY <1>2, <1>3, <1>4, <1>5

LEMMA AnswerKeeps ==
    ASSUME PubInv, NEW a \in asks, LandFork(a) \/ LandPush(a) \/ LandDraft(a) \/ Lose(a)
    PROVE  PubInv' /\ Len(pulls') >= Len(pulls)
<1>1. PICK is \in {"ok", "conflict", "error"} :
         /\ UNCHANGED <<run, now, made, before, told, drifts, faults, base, shown>>
         /\ asks' = asks \ {a} /\ a.by \in Calls
         /\ fork' = fork \/ (fork = "none" /\ fork' = "creating")
         /\ branch' = branch \/ (fork = "ready" /\ branch' = "head")
         /\ reply' = [reply EXCEPT ![a.by] = [is |-> is, pull |-> Len(pulls')]]
         /\ \/ pulls' = Append(pulls, [state |-> "draft", base |-> base])
            \/ UNCHANGED pulls
  BY AnswerMoves, Zenon
<1>2. /\ pulls' \in Seq([state : {"draft", "edited", "closed"}, base : {"base", "other"}])
      /\ Len(pulls') \in Nat /\ Len(pulls') >= Len(pulls)
  <2>1. [state |-> "draft", base |-> base] \in [state : {"draft", "edited", "closed"}, base : {"base", "other"}]
    BY DEF PubInv, TypeOK
  <2>2. pulls \in Seq([state : {"draft", "edited", "closed"}, base : {"base", "other"}])
    BY DEF PubInv, TypeOK
  <2>3. CASE UNCHANGED pulls
    BY <2>2, <2>3
  <2>4. CASE pulls' = Append(pulls, [state |-> "draft", base |-> base])
    BY <2>1, <2>2, <2>4
  <2> QED BY <1>1, <2>3, <2>4
<1>3. TypeOK'
  BY <1>1, <1>2 DEF PubInv, TypeOK
<1>4. Asked'
  <2>1. \A b \in asks' : b \in asks /\ b.by # a.by
    BY <1>1 DEF PubInv, Asked
  <2>2. \A d \in Calls \ {a.by} : reply'[d] = reply[d]
    BY <1>1 DEF PubInv, TypeOK
  <2>3. \A b \in asks : b.by \in Calls
    BY DEF PubInv, TypeOK
  <2> QED BY <1>1, <2>1, <2>2, <2>3 DEF PubInv, Asked
<1> QED BY <1>1, <1>2, <1>3, <1>4 DEF PubInv

\* What others do, and GitHub's own steps, touch neither the invocations nor the
\* number of pull requests; a step with no drift left the pull requests alone.
LEMMA OthersKeep ==
    ASSUME PubInv,
           SettleFork \/ Show \/ MoveBase \/ MoveBranch \/ EditPull \/ Tick \/ UNCHANGED vars
    PROVE  /\ PubInv' /\ UNCHANGED <<asks, reply, run, made, before, told>>
           /\ Len(pulls') = Len(pulls)
<1>1. UNCHANGED <<asks, reply, run, made, before, told>>
  BY DEF SettleFork, Show, MoveBase, MoveBranch, EditPull, Tick, Drift, Keep, vars, network,
     history
<1> DEFINE P == [state : {"draft", "edited", "closed"}, base : {"base", "other"}]
<1>2. pulls \in Seq(P) /\ Len(pulls) \in Nat /\ \A n \in 1..Len(pulls) : pulls[n] \in P
  <2>1. pulls \in Seq(P)
    BY DEF PubInv, TypeOK
  <2> HIDE DEF P
  <2> QED BY <2>1
<1>3. pulls' \in Seq(P) /\ Len(pulls') = Len(pulls)
  <2>1. CASE UNCHANGED pulls
    BY <1>2, <2>1
  <2>2. CASE MoveBranch
    <3>1. \A n \in 1..Len(pulls) : [pulls[n] EXCEPT !.state = "closed"] \in P
      BY <1>2
    <3> HIDE DEF P
    <3>2. pulls' = [n \in 1..Len(pulls) |->
                      IF branch' = "none" THEN [pulls[n] EXCEPT !.state = "closed"] ELSE pulls[n]]
      BY <2>2 DEF MoveBranch
    <3> QED BY <1>2, <3>1, <3>2
  <2>3. CASE EditPull
    <3>1. PICK n \in Open, s \in {"edited", "closed"} : pulls' = [pulls EXCEPT ![n].state = s]
      BY <2>3 DEF EditPull
    <3>2. n \in 1..Len(pulls) /\ [pulls[n] EXCEPT !.state = s] \in P
      BY <1>2, <3>1 DEF Open
    <3> HIDE DEF P
    <3> QED BY <1>2, <3>1, <3>2
  <2> QED BY <2>1, <2>2, <2>3 DEF SettleFork, Show, MoveBase, Tick, vars, github
<1>4. TypeOK'
  <2>1. base' \in {"base", "other"} /\ fork' \in {"none", "creating", "ready", "foreign"}
    BY DEF PubInv, TypeOK, SettleFork, Show, MoveBase, MoveBranch, EditPull, Tick, vars, github
  <2>2. branch' \in {"none", "head", "other"} /\ shown' \in {"none", "head", "other"}
    BY DEF PubInv, TypeOK, SettleFork, Show, MoveBase, MoveBranch, EditPull, Tick, vars, github
  <2>3. now' \in 0..MaxTime /\ drifts' \in 0..MaxDrift /\ faults' \in 0..MaxFault
    BY PublicationAssumption DEF PubInv, TypeOK, SettleFork, Show, MoveBase, MoveBranch,
       EditPull, Tick, vars, Drift, Keep
  <2> QED BY <1>1, <1>3, <2>1, <2>2, <2>3 DEF PubInv, TypeOK
<1> QED BY <1>1, <1>3, <1>4 DEF PubInv, Asked

LEMMA PubStep == ASSUME PubInv, [Next]_vars PROVE PubInv'
BY CallKeeps, AnswerKeeps, OthersKeep DEF Next

LEMMA PubInvariant == Spec => []PubInv
BY PubStart, PubStep, PTL DEF Spec

\* Every variable of the publication keeps its type, whatever is answered, lost,
\* refused or changed by others.
THEOREM PublicationType == Spec => []TypeOK
<1>1. PubInv => TypeOK
  BY DEF PubInv
<1> QED BY <1>1, PubInvariant, PTL

\* The steps of one invocation: where each place leads, and what it takes along.
Path(c) ==
    LET p == run[c].at
        q == run'[c].at
        same == run'[c].did = run[c].did /\ run'[c].pull = run[c].pull
        wrote(op) == run'[c].did = run[c].did \cup {op} /\ run'[c].pull = run[c].pull
    IN
    \/ p = "idle" /\ q \in {"base", "stale"} /\ same
    \/ p \in Reading \cup Waiting /\ q = "broken" /\ same
    \/ p = "base" /\ q = (IF base = "base" THEN "fork" ELSE "refused") /\ same
    \/ p = "fork" /\ ForkMissing /\ q \in {"forking", "expired"} /\ same
    \/ p = "fork" /\ ~ForkMissing /\ q = (IF fork = "ready" THEN "branch" ELSE "refused") /\ same
    \/ p = "forking" /\ q = "forkRead" /\ wrote("fork")
    \/ p = "forkRead" /\ q \in {"branch", "forkRead", "refused"} /\ same
    \/ p = "branch" /\ BranchMissing /\ q \in {"prepare", "expired"} /\ same
    \/ p = "prepare" /\ q = "pushing" /\ same
    \/ /\ p = "branch" /\ ~BranchMissing /\ same
       /\ q = IF shown = "head" THEN "drafts" ELSE "refused"
    \/ p = "pushing" /\ q = "branchRead" /\ wrote("push")
    \/ p = "branchRead" /\ q \in {"branchRead", "refused"} /\ same
    \/ p = "branchRead" /\ shown = "head" /\ q = "drafts" /\ same
    \/ p = "drafts" /\ Open = {} /\ q \in {"opening", "expired"} /\ same
    \/ /\ p = "opening" /\ reply[c].is = "ok" /\ q = "pull"
       /\ run'[c].did = run[c].did \cup {"draft"} /\ run'[c].pull = reply[c].pull
    \/ p = "opening" /\ reply[c].is = "conflict" /\ q = "draftsRead" /\ same
    \/ /\ p = "draftsRead" \/ (p = "drafts" /\ Open # {})
       /\ \E n \in Open : Found(n) /\ run'[c].pull = n
       /\ q = "pull" /\ run'[c].did = run[c].did
    \/ /\ p = "draftsRead" \/ (p = "drafts" /\ Open # {})
       /\ ~(\E n \in Open : Found(n)) /\ q = "refused" /\ same
    \/ p = "pull" /\ q = (IF Verified(c) THEN "done" ELSE "refused") /\ same

LEMMA Paths ==
    ASSUME PubInv, NEW c \in Calls, Start(c) \/ Proceed(c) \/ ReadFails(c)
    PROVE  Path(c)
<1> DEFINE same == run'[c].did = run[c].did /\ run'[c].pull = run[c].pull
<1>1. /\ run \in Runs /\ run[c].at \in Statuses /\ run[c].left \in 0..(ForkReads + BranchReads)
      /\ run[c].did \in SUBSET Ops /\ run[c].pull \in Nat
      /\ (run[c].at \in {"forkRead", "branchRead"} => run[c].left >= 1)
      /\ reply[c].pull \in Nat /\ Len(pulls) \in Nat
      /\ ForkReads \in Nat \ {0} /\ BranchReads \in Nat \ {0}
  BY PublicationAssumption DEF PubInv, TypeOK, Runs
<1>2. ASSUME NEW place \in Statuses, Goto(c, place)
      PROVE  run'[c].at = place /\ same
  BY <1>1, <1>2, Goes
<1>3. \A place \in {"base", "stale", "fork", "branch", "drafts", "done", "refused", "broken", "forking", "pushing", "opening", "expired", "prepare"} :
         place \in Statuses
  BY DEF Statuses, Reading, Waiting, Refusals
<1>4. ASSUME NEW op, NEW place \in Waiting, Send(c, op, place) \/ Expired(c, op)
      PROVE  run'[c].at \in {place, "expired"} /\ same
  BY <1>2, <1>3, <1>4 DEF Send, Expired, Waiting
<1>5. ASSUME NEW p \in Statuses, NEW l \in 0..(ForkReads + BranchReads), NEW D \in SUBSET Ops,
             NEW n \in Nat, Turned(c, p, l, D, n)
      PROVE  run'[c].at = p /\ run'[c].did = D /\ run'[c].pull = n
  BY <1>5, <1>1, Turns
<1>6. ASSUME NEW op \in Ops, NEW place \in {"forkRead", "branchRead"},
             NEW reads \in {ForkReads, BranchReads}, Reread(c, op, place, reads)
      PROVE  /\ run'[c].at = place /\ run'[c].did = run[c].did \cup {op}
             /\ run'[c].pull = run[c].pull
  <2>1. place \in Statuses /\ reads \in 0..(ForkReads + BranchReads)
    BY <1>1 DEF Statuses, Reading
  <2>2. run[c].did \cup {op} \in SUBSET Ops
    BY <1>1
  <2>3. Turned(c, place, reads, run[c].did \cup {op}, run[c].pull)
    BY <1>6 DEF Reread, Turned
  <2> QED BY <1>1, <2>1, <2>2, <2>3, <1>5
<1>7. ASSUME Again(c), run[c].at \in {"forkRead", "branchRead"}
      PROVE  run'[c].at \in {run[c].at, "refused"} /\ same
  <2>1. CASE run[c].left = 1
    BY <1>2, <1>3, <1>7, <2>1 DEF Again
  <2>2. CASE run[c].left # 1
    <3>1. Turned(c, run[c].at, run[c].left - 1, run[c].did, run[c].pull)
      BY <1>7, <2>2 DEF Again, LeftAfter, Turned
    <3>2. run[c].left - 1 \in 0..(ForkReads + BranchReads)
      BY <1>1, <1>7
    <3> QED BY <1>5, <1>1, <3>1, <3>2
  <2> QED BY <2>1, <2>2
<1>8. ASSUME TakeDraft(c), run[c].at = "draftsRead" \/ (run[c].at = "drafts" /\ Open # {})
      PROVE  Path(c)
  <2>1. CASE ~(\E n \in Open : Found(n)) /\ Goto(c, "refused")
    BY <1>2, <1>3, <1>8, <2>1 DEF Path
  <2>2. ASSUME NEW n \in Open, Found(n), run' = [run EXCEPT ![c].at = "pull", ![c].pull = n]
        PROVE  Path(c)
    <3>1. n \in Nat /\ "pull" \in Statuses
      BY <1>1 DEF Open, Statuses, Reading
    <3>2. Turned(c, "pull", run[c].left, run[c].did, n)
      BY <2>2 DEF Turned
    <3>3. run'[c].at = "pull" /\ run'[c].did = run[c].did /\ run'[c].pull = n
      BY <1>1, <3>1, <3>2, <1>5
    <3> QED BY <1>8, <2>2, <3>3 DEF Path
  <2> QED BY <1>8, <2>1, <2>2 DEF TakeDraft
<1>9. CASE Start(c)
  <2>1. run[c].at = "idle" /\ \E place \in {"base", "stale"} : Goto(c, place)
    BY <1>9 DEF Start
  <2> QED BY <1>2, <1>3, <2>1 DEF Path
<1>10. CASE ReadFails(c) \/ Refused(c) \/ TimeOut(c)
  BY <1>2, <1>3, <1>10 DEF ReadFails, Refused, TimeOut, Path
<1>11. CASE ReadBase(c) \/ ReadPull(c)
  BY <1>2, <1>3, <1>11 DEF ReadBase, ReadPull, Path
<1>12. CASE ReadFork(c)
  BY <1>2, <1>3, <1>4, <1>12 DEF ReadFork, Path, Waiting
<1>13. CASE ReadBranch(c)
  <2>1. Goto(c, "prepare") \/ Goto(c, "expired") => run'[c].at \in {"prepare", "expired"} /\ same
    BY <1>2, <1>3
  <2> QED BY <1>2, <1>3, <1>13, <2>1 DEF ReadBranch, Expired, Path
<1>20. CASE Push(c)
  BY <1>2, <1>3, <1>20 DEF Push, Send, Path
<1>14. CASE FindDrafts(c)
  BY <1>4, <1>8, <1>14 DEF FindDrafts, Path, Waiting
<1>15. CASE ForkMade(c) \/ Pushed(c)
  BY <1>6, <1>15 DEF ForkMade, Pushed, Answered, Path, Ops
<1>16. CASE RereadFork(c) \/ RereadBranch(c)
  BY <1>2, <1>3, <1>7, <1>16 DEF RereadFork, RereadBranch, Path
<1>17. CASE Opened(c)
  <2>1. Turned(c, "pull", run[c].left, run[c].did \cup {"draft"}, reply[c].pull)
    BY <1>17 DEF Opened, Turned
  <2>2. "pull" \in Statuses /\ run[c].did \cup {"draft"} \in SUBSET Ops
    BY <1>1 DEF Statuses, Reading, Ops
  <2>3. /\ run'[c].at = "pull" /\ run'[c].did = run[c].did \cup {"draft"}
        /\ run'[c].pull = reply[c].pull
    BY <1>5, <1>1, <2>1, <2>2
  <2> QED BY <1>17, <2>3 DEF Opened, Answered, Path
<1>18. CASE Conflicted(c)
  <2>1. Turned(c, "draftsRead", run[c].left, run[c].did, run[c].pull)
    BY <1>18 DEF Conflicted, DoneBy, Turned
  <2>2. "draftsRead" \in Statuses
    BY DEF Statuses, Reading
  <2>3. run'[c].at = "draftsRead" /\ same
    BY <1>1, <2>1, <2>2, <1>5
  <2> QED BY <1>18, <2>3 DEF Conflicted, Answered, Path
<1>19. CASE RereadDrafts(c)
  BY <1>8, <1>19 DEF RereadDrafts
<1> QED BY <1>9, <1>10, <1>11, <1>12, <1>13, <1>14, <1>15, <1>16, <1>17, <1>18, <1>19,
        <1>20 DEF Proceed

(* Who may say that it created the draft.                                  *)

LEMMA CreatorStep == ASSUME PubInv, CreatorInv, [Next]_vars PROVE CreatorInv'
<1>1. /\ run \in Runs /\ reply \in [Calls -> [is : {"none", "ok", "conflict", "error"}, pull : Nat]]
      /\ Len(pulls) \in Nat /\ Len(pulls') \in Nat
  <2>1. PubInv => Len(pulls) \in Nat
    BY DEF PubInv, TypeOK
  <2>2. Len(pulls') \in Nat
    BY PubStep DEF PubInv, TypeOK
  <2> QED BY <2>1, <2>2 DEF PubInv, TypeOK, Runs
<1>2. ASSUME NEW c \in Calls, Start(c) \/ Proceed(c) \/ ReadFails(c)
      PROVE  CreatorInv'
  <2>1. Path(c) /\ \A d \in Calls \ {c} : run'[d] = run[d]
    BY <1>2, CallMoves, Paths
  <2>2. /\ pulls' = pulls
        /\ \/ reply' = reply /\ run'[c].at # "opening"
           \/ reply'[c].is = "none" /\ \A d \in Calls \ {c} : reply'[d] = reply[d]
    <3>1. \A op \in Ops : Sends(c, op) => /\ reply'[c].is = "none"
                                          /\ \A d \in Calls \ {c} : reply'[d] = reply[d]
      BY <1>1 DEF Sends, NoReply
    <3> QED BY <1>2, <3>1, CallMoves DEF github, Waiting
  <2>3. /\ "draft" \in run'[c].did => run'[c].at \in {"pull", "done", "refused", "broken"}
        /\ \A n \in Nat : Claims(c, n)' => Claims(c, n)
    <3>1. \A x : x \in run[c].did \cup {"fork"} /\ x = "draft" => x \in run[c].did
      OBVIOUS
    <3>2. \A x : x \in run[c].did \cup {"push"} /\ x = "draft" => x \in run[c].did
      OBVIOUS
    <3>3. "draft" \in run[c].did => run[c].at \in {"pull", "done", "refused", "broken"}
      BY DEF CreatorInv
    <3>4. run'[c].at = "opening" => reply'[c].is # "ok"
      BY <2>2
    <3> QED BY <2>1, <3>1, <3>2, <3>3, <3>4 DEF Path, Claims, Reading, Waiting
  <2>4. \A d \in Calls \ {c}, n \in Nat : Claims(d, n)' = Claims(d, n)
    BY <2>1, <2>2 DEF Claims
  <2>5. \A d \in Calls, n \in Nat : Claims(d, n)' => Claims(d, n)
    BY <2>3, <2>4
  <2> QED BY <2>1, <2>2, <2>3, <2>5 DEF CreatorInv
<1>3. ASSUME NEW a \in asks, LandFork(a) \/ LandPush(a) \/ LandDraft(a) \/ Lose(a)
      PROVE  CreatorInv'
  <2>1. PICK is \in {"ok", "conflict", "error"} :
           /\ run' = run /\ a.by \in Calls
           /\ reply' = [reply EXCEPT ![a.by] = [is |-> is, pull |-> Len(pulls')]]
           /\ IF a.op = "draft" /\ is = "ok"
                THEN pulls' = Append(pulls, [state |-> "draft", base |-> base])
                ELSE UNCHANGED pulls
    BY <1>3, AnswerMoves, Zenon
  <2>2. /\ reply'[a.by].is = is /\ reply'[a.by].pull = Len(pulls')
        /\ \A d \in Calls \ {a.by} : reply'[d] = reply[d]
    BY <1>1, <2>1
  <2>3. a.op \in Ops /\ (run[a.by].at = "opening" => a.op = "draft")
    BY <2>1 DEF PubInv, TypeOK, Asked, Place, Ops
  <2>4. \A d \in Calls \ {a.by}, n \in Nat : Claims(d, n)' = Claims(d, n)
    BY <2>1, <2>2 DEF Claims
  <2>5. CASE run[a.by].at = "opening" /\ is = "ok"
    <3>1. Len(pulls') = Len(pulls) + 1
      BY <2>1, <2>3, <2>5 DEF PubInv, TypeOK
    <3>2. \A n \in Nat : Claims(a.by, n)' => n = Len(pulls) + 1
      BY <2>1, <2>2, <2>5, <3>1 DEF Claims, CreatorInv
    <3>3. \A d \in Calls \ {a.by}, n \in Nat : Claims(d, n)' => n \in 1..Len(pulls)
      BY <2>4 DEF CreatorInv
    <3>4. ASSUME NEW d \in Calls, NEW n \in Nat, Claims(d, n)'
          PROVE  n \in 1..Len(pulls') /\ (n = Len(pulls) + 1 <=> d = a.by)
      BY <1>1, <3>1, <3>2, <3>3, <3>4
    <3>5. \A d, e \in Calls, n \in Nat : Claims(d, n)' /\ Claims(e, n)' => d = e
      BY <2>4, <3>4 DEF CreatorInv
    <3> QED BY <2>1, <3>4, <3>5 DEF CreatorInv
  <2>6. CASE ~(run[a.by].at = "opening" /\ is = "ok")
    <3>1. \A n \in Nat : Claims(a.by, n)' => Claims(a.by, n)
      BY <2>1, <2>2, <2>6 DEF Claims
    <3>2. \A d \in Calls, n \in Nat : Claims(d, n)' => Claims(d, n)
      BY <2>4, <3>1
    <3>3. Len(pulls') >= Len(pulls)
      BY <1>3, AnswerKeeps
    <3>4. \A d \in Calls, n \in Nat : Claims(d, n)' => n \in 1..Len(pulls')
      BY <1>1, <3>2, <3>3 DEF CreatorInv
    <3> QED BY <2>1, <3>2, <3>4 DEF CreatorInv
  <2> QED BY <2>5, <2>6
<1>4. ASSUME SettleFork \/ Show \/ MoveBase \/ MoveBranch \/ EditPull \/ Tick \/ UNCHANGED vars
      PROVE  CreatorInv'
  BY <1>4, OthersKeep DEF CreatorInv, Claims
<1> QED BY <1>2, <1>3, <1>4 DEF Next

\* Of two invocations that end at the same draft, at most one says that it created
\* it: the answer "created" goes to one request only, and a conflict is not one.
THEOREM DraftIsClaimedOnce == Spec => []OneCreator
<1>1. Init => CreatorInv
  BY DEF Init, CreatorInv, Claims, NoReply
<1>2. ASSUME PubInv, CreatorInv PROVE OneCreator
  <2>1. \A c \in Calls : run[c].pull \in Nat
    BY <1>2 DEF PubInv, TypeOK
  <2> QED BY <1>2, <2>1 DEF CreatorInv, Claims, OneCreator
<1> QED BY <1>1, <1>2, CreatorStep, PubInvariant, PTL DEF Spec

(* What a report says stays so.                                            *)

StandInv ==
    /\ \A m, n \in Open : m = n
    /\ \A c \in Calls : told[c] <= drifts
    /\ \A c \in Calls : run[c].at = "pull" => run[c].pull \in 1..Len(pulls)
    /\ ReportStands

LEMMA StandCall ==
    ASSUME PubInv, CreatorInv, StandInv, NEW c \in Calls, Start(c) \/ Proceed(c) \/ ReadFails(c)
    PROVE  StandInv'
<1>1. /\ Path(c) /\ UNCHANGED <<github, drifts>> /\ \A d \in Calls \ {c} : run'[d] = run[d]
      /\ run[c].at # "done"
  BY CallMoves, Paths DEF Reading, Waiting
<1>2. UNCHANGED <<base, fork, branch, shown, pulls>> /\ Open' = Open
  BY <1>1 DEF github, Open
<1>3. UNCHANGED told \/ told' = [told EXCEPT ![c] = drifts]
  <2>1. Start(c) \/ ReadFails(c) \/ ReadPull(c) => UNCHANGED told \/ told' = [told EXCEPT ![c] = drifts]
    BY DEF Start, ReadFails, ReadPull, history
  <2>2. ASSUME Proceed(c), ~ReadPull(c) PROVE UNCHANGED told
    BY <2>2 DEF Proceed, ReadBase, ReadFork, ForkMade, RereadFork, ReadBranch, Push, Pushed,
       RereadBranch, FindDrafts, Opened, Conflicted, RereadDrafts, Refused, TimeOut,
       Send, Expired, TakeDraft, Again, Reread, Silent, history
  <2> QED BY <2>1, <2>2
<1>4. /\ \A d \in Calls \ {c} : told'[d] = told[d]
      /\ told'[c] = told[c] \/ told'[c] = drifts
      /\ drifts \in Nat
  BY <1>3, PublicationAssumption DEF PubInv, TypeOK
<1>5. \A d \in Calls : told'[d] <= drifts'
  BY <1>1, <1>4 DEF StandInv
<1>6. run'[c].at = "pull" => run'[c].pull \in 1..Len(pulls)
  <2>1. ASSUME run[c].at = "opening", reply[c].is = "ok"
        PROVE  reply[c].pull \in 1..Len(pulls)
    <3>1. reply[c].pull \in Nat
      BY DEF PubInv, TypeOK
    <3> QED BY <2>1, <3>1 DEF CreatorInv, Claims
  <2>2. \A n \in Open : n \in 1..Len(pulls)
    BY DEF Open
  <2> QED BY <1>1, <2>1, <2>2 DEF Path, Reading, Waiting
<1>7. run'[c].at = "done" => Open = {run'[c].pull} /\ Exact(run'[c].pull)
  <2>1. ASSUME run'[c].at = "done"
        PROVE  run[c].at = "pull" /\ Exact(run[c].pull) /\ run'[c].pull = run[c].pull
    BY <1>1, <2>1 DEF Path, Verified
  <2>2. ASSUME run[c].at = "pull", Exact(run[c].pull) PROVE run[c].pull \in Open
    BY <2>2 DEF StandInv, Exact, Open
  <2>3. \A n \in Open : Open = {n}
    BY DEF StandInv
  <2> QED BY <2>1, <2>2, <2>3
<1>8. \A n : Exact(n)' <=> Exact(n)
  BY <1>2 DEF Exact
<1>9. ReportStands'
  BY <1>1, <1>2, <1>4, <1>7, <1>8 DEF StandInv, ReportStands
<1> QED BY <1>1, <1>2, <1>5, <1>6, <1>9 DEF StandInv

LEMMA StandAnswer ==
    ASSUME PubInv, StandInv, NEW a \in asks,
           LandFork(a) \/ LandPush(a) \/ LandDraft(a) \/ Lose(a)
    PROVE  StandInv'
<1>1. /\ UNCHANGED <<run, told, drifts>>
      /\ branch' = branch \/ branch' = "head"
      /\ \/ UNCHANGED pulls
         \/ Open = {} /\ pulls' = Append(pulls, [state |-> "draft", base |-> base])
  BY AnswerMoves
<1>2. CASE UNCHANGED pulls
  BY <1>1, <1>2 DEF StandInv, ReportStands, Open, Exact
<1>3. CASE Open = {} /\ pulls' = Append(pulls, [state |-> "draft", base |-> base])
  <2>1. /\ Len(pulls) \in Nat /\ Len(pulls') = Len(pulls) + 1
        /\ \A n \in 1..Len(pulls) : pulls'[n] = pulls[n]
    BY <1>3 DEF PubInv, TypeOK
  <2>2. \A n \in Open' : n = Len(pulls) + 1
    <3>1. \A n \in 1..Len(pulls) : pulls[n].state = "closed"
      BY <1>3 DEF Open
    <3> QED BY <2>1, <3>1 DEF Open
  <2>3. \A c \in Calls : ~(run[c].at = "done" /\ told[c] = drifts)
    BY <1>3 DEF StandInv, ReportStands
  <2> QED BY <1>1, <2>1, <2>2, <2>3 DEF StandInv, ReportStands
<1> QED BY <1>1, <1>2, <1>3

LEMMA StandStep == ASSUME PubInv, CreatorInv, StandInv, [Next]_vars PROVE StandInv'
<1>1. ASSUME NEW c \in Calls, Start(c) \/ Proceed(c) \/ ReadFails(c) PROVE StandInv'
  BY <1>1, StandCall
<1>2. ASSUME NEW a \in asks, LandFork(a) \/ LandPush(a) \/ LandDraft(a) \/ Lose(a)
      PROVE  StandInv'
  BY <1>2, StandAnswer
<1>3. CASE SettleFork \/ Show \/ Tick \/ UNCHANGED vars
  <2>1. UNCHANGED <<run, told, drifts, branch, pulls>>
    BY <1>3, OthersKeep DEF SettleFork, Show, Tick, vars, github
  <2> QED BY <2>1 DEF StandInv, ReportStands, Open, Exact
<1>4. CASE MoveBase \/ MoveBranch \/ EditPull
  <2>1. UNCHANGED <<run, told>> /\ Len(pulls') = Len(pulls) /\ drifts' = drifts + 1
    BY <1>4, OthersKeep DEF MoveBase, MoveBranch, EditPull, Drift
  <2>2. drifts \in Nat /\ \A c \in Calls : told[c] \in Nat /\ told[c] <= drifts
    BY PublicationAssumption DEF PubInv, TypeOK, StandInv
  <2>3. \A c \in Calls : told'[c] <= drifts' /\ told'[c] # drifts'
    BY <2>1, <2>2
  <2>4. Open' \subseteq Open
    <3>1. Len(pulls) \in Nat
      BY DEF PubInv, TypeOK
    <3>2. \A n \in 1..Len(pulls) : pulls'[n].state # "closed" => pulls[n].state # "closed"
      <4>1. CASE MoveBase
        BY <4>1 DEF MoveBase
      <4>2. CASE MoveBranch
        <5>1. \A n \in 1..Len(pulls) : [pulls[n] EXCEPT !.state = "closed"].state = "closed"
          <6> DEFINE P == [state : {"draft", "edited", "closed"}, base : {"base", "other"}]
          <6>1. pulls \in Seq(P)
            BY DEF PubInv, TypeOK
          <6>2. \A r \in P : [r EXCEPT !.state = "closed"].state = "closed"
            OBVIOUS
          <6> HIDE DEF P
          <6>3. \A n \in 1..Len(pulls) : pulls[n] \in P
            BY <6>1
          <6> QED BY <6>2, <6>3
        <5>2. pulls' = [n \in 1..Len(pulls) |->
                          IF branch' = "none" THEN [pulls[n] EXCEPT !.state = "closed"] ELSE pulls[n]]
          BY <4>2 DEF MoveBranch
        <5>3. \A n \in 1..Len(pulls) : pulls'[n] = [pulls[n] EXCEPT !.state = "closed"]
                                           \/ pulls'[n] = pulls[n]
          <6>1. CASE branch' = "none"
            BY <5>2, <6>1, Zenon
          <6>2. CASE branch' # "none"
            BY <5>2, <6>2, Zenon
          <6> QED BY <6>1, <6>2
        <5>4. ASSUME NEW n \in 1..Len(pulls), pulls'[n].state # "closed" PROVE pulls[n].state # "closed"
          <6>1. pulls'[n] = pulls[n]
            <7>1. CASE pulls'[n] = [pulls[n] EXCEPT !.state = "closed"]
              <8>1. pulls'[n].state = [pulls[n] EXCEPT !.state = "closed"].state
                BY <7>1
              <8> QED BY <5>1, <5>4, <8>1
            <7> QED BY <5>3, <7>1
          <6> QED BY <5>4, <6>1
        <5> QED BY <5>4
      <4>3. CASE EditPull
        <5>1. PICK n \in Open, s \in {"edited", "closed"} : pulls' = [pulls EXCEPT ![n].state = s]
          BY <4>3 DEF EditPull
        <5>2. /\ n \in 1..Len(pulls) /\ pulls[n].state # "closed"
              /\ \A m \in 1..Len(pulls) : m # n => pulls'[m] = pulls[m]
          BY <5>1 DEF Open, PubInv, TypeOK
        <5> QED BY <5>2
      <4> QED BY <1>4, <4>1, <4>2, <4>3
    <3> QED BY <2>1, <3>1, <3>2 DEF Open
  <2> QED BY <2>1, <2>3, <2>4 DEF StandInv, ReportStands
<1> QED BY <1>1, <1>2, <1>3, <1>4 DEF Next

\* What an invocation reported stays so until somebody else changes something: the
\* requests of other invocations, and those that outlive their command, open no second
\* pull request and move no branch that is as approved.
THEOREM ReportsStand == Spec => []ReportStands
<1>1. Init => StandInv
  BY DEF Init, StandInv, ReportStands, Open
<1>2. Init => CreatorInv
  BY DEF Init, CreatorInv, Claims, NoReply
<1>3. StandInv => ReportStands
  BY DEF StandInv
<1> QED BY <1>1, <1>2, <1>3, StandStep, CreatorStep, PubInvariant, PTL DEF Spec

(* A retry, when nobody else changes anything.                             *)

LEMMA OpenPull ==
    ASSUME PubInv, Undrifted
    PROVE  /\ Open = 1..Len(pulls) /\ Len(pulls) \in {0, 1}
           /\ shown = "head" /\ Len(pulls) = 1 => Open = {1} /\ Exact(1) /\ Found(1)
<1>1. Len(pulls) \in Nat
  BY DEF PubInv, TypeOK
<1>2. Len(pulls) \in {0, 1} /\ Open = 1..Len(pulls)
  <2>1. Len(pulls) \in {0, 1}
    <3>1. Len(pulls) <= 1
      BY DEF Undrifted
    <3>2. \A k \in Nat : k <= 1 => k \in {0, 1}
      OBVIOUS
    <3> QED BY <1>1, <3>1, <3>2
  <2>2. \A n \in 1..Len(pulls) : pulls[n].state # "closed"
    BY DEF Undrifted
  <2>3. Open = 1..Len(pulls)
    BY <2>2, Zenon DEF Open
  <2> QED BY <2>1, <2>3
<1>3. ASSUME shown = "head", Len(pulls) = 1 PROVE Open = {1} /\ Exact(1)
  BY <1>2, <1>3 DEF Undrifted, Exact
<1> QED BY <1>2, <1>3 DEF Found

LEMMA QuietCall ==
    ASSUME PubInv, Undrifted, \A d \in Calls : Learnt(d) /\ Follows(d),
           NEW c \in Calls, Start(c) \/ Proceed(c) \/ ReadFails(c)
    PROVE  Undrifted' /\ \A d \in Calls : Learnt(d)' /\ Follows(d)'
<1>1. /\ Path(c) /\ UNCHANGED github /\ \A d \in Calls \ {c} : run'[d] = run[d]
      /\ run[c].at \in {"idle"} \cup Reading \cup Waiting
      /\ \/ UNCHANGED <<asks, reply, made>> /\ run'[c].at \notin Waiting
         \/ \E op \in Ops : Sends(c, op)
  BY CallMoves, Paths
<1>2. /\ run \in Runs /\ reply \in [Calls -> [is : {"none", "ok", "conflict", "error"}, pull : Nat]]
      /\ Len(pulls) \in {0, 1} /\ Open = 1..Len(pulls)
  BY OpenPull DEF PubInv, TypeOK, Runs
<1>3. /\ Learnt(c) /\ Follows(c)
      /\ UNCHANGED <<base, fork, branch, shown, pulls>>
  BY <1>1 DEF github
<1>4. /\ \A d \in Calls \ {c} : reply'[d] = reply[d] /\ (Wrote(d)' <=> Wrote(d))
      /\ run'[c].at = "opening" => reply'[c].is = "none"
      /\ run'[c].at \notin Waiting => reply'[c] = reply[c] /\ (Wrote(c)' <=> Wrote(c))
  <2>1. CASE UNCHANGED <<asks, reply, made>> /\ run'[c].at \notin Waiting
    BY <2>1 DEF Wrote, Waiting
  <2>2. ASSUME NEW op \in Ops, Sends(c, op)
        PROVE  /\ \A d \in Calls \ {c} : reply'[d] = reply[d] /\ (Wrote(d)' <=> Wrote(d))
               /\ reply'[c].is = "none" /\ run'[c].at \in Waiting
    BY <1>2, <2>2 DEF Sends, Wrote, NoReply, Place, Ops, Waiting
  <2> QED BY <1>1, <2>1, <2>2
<1>5. Undrifted'
  <2>1. ASSUME NEW op \in Ops, Sends(c, op), op = "draft" PROVE shown = "head"
    <3>1. run'[c].at = "opening"
      BY <2>1 DEF Sends, Place
    <3>2. run[c].at = "drafts"
      BY <1>1, <3>1 DEF Path
    <3> QED BY <1>3, <3>2 DEF Learnt
  <2>2. \A a \in asks' : a \in asks \/ (\E op \in Ops : Sends(c, op) /\ a.op = op)
    BY <1>1 DEF Sends
  <2> QED BY <1>3, <2>1, <2>2 DEF Undrifted
<1>6. Learnt(c)'
  <2>1. \A n \in Open : Len(pulls) = 1 /\ n = 1
    <3>1. CASE Len(pulls) = 0
      BY <1>2, <3>1
    <3>2. CASE Len(pulls) = 1
      BY <1>2, <3>2
    <3> QED BY <1>2, <3>1, <3>2
  <2> QED BY <1>1, <1>3, <1>4, <2>1 DEF Path, Learnt, Reading, Waiting
<1>7. ASSUME NEW d \in Calls \ {c} PROVE Learnt(d)'
  BY <1>1, <1>3, <1>4, <1>7 DEF Learnt
<1>8. ASSUME NEW d \in Calls, run[d].at = "done" PROVE run'[d].at = "done" /\ d # c
  BY <1>1, <1>8 DEF Reading, Waiting
<1>9. before' = before \/ /\ run[c].at = "idle" /\ run'[c].at \in {"base", "stale"}
                          /\ before' = [before EXCEPT ![c] = {d \in Calls : run[d].at = "done"}]
  <2>1. CASE Start(c)
    <3>1. \E place \in {"base", "stale"} : Goto(c, place)
      BY <2>1 DEF Start
    <3>2. \A place \in {"base", "stale"} : place \in Statuses
      BY DEF Statuses, Reading
    <3>3. run'[c].at \in {"base", "stale"}
      BY <1>2, <3>1, <3>2, Goes
    <3> QED BY <2>1, <3>3 DEF Start
  <2>2. CASE ReadFails(c)
    BY <2>2 DEF ReadFails, history
  <2>3. CASE Proceed(c)
    BY <2>3 DEF Proceed, ReadBase, ReadFork, ForkMade, RereadFork, ReadBranch, Push, Pushed,
       RereadBranch, FindDrafts, Opened, Conflicted, RereadDrafts, ReadPull, Refused, TimeOut,
       Send, Expired, TakeDraft, Again, Reread, Silent, history
  <2> QED BY <2>1, <2>2, <2>3
<1>10. before \in [Calls -> SUBSET Calls]
  BY DEF PubInv, TypeOK
<1>11. ASSUME NEW d \in Calls \ {c} PROVE Follows(d)'
  <2>1. before'[d] = before[d] /\ Follows(d)
    BY <1>9, <1>10
  <2> QED BY <1>1, <1>4, <1>8, <2>1 DEF Follows
<1>12. Follows(c)'
  <2>1. CASE run[c].at = "idle"
    <3>1. run'[c].at \in {"base", "stale"} /\ ~Wrote(c)
      BY <1>1, <1>3, <2>1 DEF Path, Follows, Reading, Waiting
    <3>2. ~Wrote(c)'
      BY <1>4, <3>1 DEF Waiting
    <3>3. before'[c] # {} => \E d \in Calls : run[d].at = "done"
      BY <1>3, <1>9, <1>10, <2>1 DEF Follows
    <3>4. before'[c] # {} => \E d \in Calls : run'[d].at = "done"
      BY <1>8, <3>3
    <3> QED BY <3>1, <3>2, <3>4 DEF Follows, Following
  <2>2. CASE run[c].at # "idle" /\ before[c] = {}
    <3>1. before'[c] = {} /\ run'[c].at # "idle"
      BY <1>1, <1>9, <2>2 DEF Path
    <3> QED BY <3>1 DEF Follows
  <2>3. CASE run[c].at # "idle" /\ before[c] # {}
    <3>1. PICK d \in Calls : run[d].at = "done" /\ Learnt(d)
      BY <1>3, <2>3 DEF Follows
    <3>2. shown = "head" /\ Len(pulls) = 1 /\ branch = "head" /\ fork = "ready" /\ base = "base"
      BY <3>1 DEF Learnt, Undrifted
    <3>3. Open = {1} /\ Exact(1) /\ Found(1) /\ ~ForkMissing /\ ~BranchMissing
      BY <3>2, OpenPull DEF ForkMissing, BranchMissing
    <3>4. run[c].at \in Following /\ ~Wrote(c) /\ (run[c].at = "pull" => run[c].pull = 1)
      BY <1>3, <2>3 DEF Follows, Learnt
    <3>5. run[c].at = "pull" => Verified(c)
      BY <3>3, <3>4 DEF Verified
    <3>6. \E n \in Open : Found(n)
      BY <3>3
    <3>7. run'[c].at \in Following
      BY <1>1, <3>2, <3>3, <3>4, <3>5, <3>6 DEF Path, Following
    <3>8. ~Wrote(c)'
      BY <1>4, <3>4, <3>7 DEF Following, Waiting
    <3> QED BY <1>8, <3>1, <3>7, <3>8 DEF Follows, Following
  <2> QED BY <2>1, <2>2, <2>3
<1> QED BY <1>5, <1>6, <1>7, <1>11, <1>12

LEMMA QuietAnswer ==
    ASSUME PubInv, Undrifted, \A d \in Calls : Learnt(d) /\ Follows(d),
           NEW a \in asks, LandFork(a) \/ LandPush(a) \/ LandDraft(a) \/ Lose(a)
    PROVE  Undrifted' /\ \A d \in Calls : Learnt(d)' /\ Follows(d)'
<1>1. PICK is \in {"ok", "conflict", "error"} :
         /\ UNCHANGED <<run, made, before, base, shown>>
         /\ asks' = asks \ {a} /\ a.by \in Calls
         /\ fork' = fork \/ (fork = "none" /\ fork' = "creating")
         /\ branch' = branch \/ (fork = "ready" /\ branch' = "head")
         /\ reply' = [reply EXCEPT ![a.by] = [is |-> is, pull |-> Len(pulls')]]
         /\ IF a.op = "draft" /\ is = "ok"
              THEN Open = {} /\ pulls' = Append(pulls, [state |-> "draft", base |-> base])
              ELSE UNCHANGED pulls
         /\ is = "conflict" => a.op = "draft" /\ ~(branch # "none" /\ Open = {})
  BY AnswerMoves, Zenon
<1>2. /\ reply \in [Calls -> [is : {"none", "ok", "conflict", "error"}, pull : Nat]]
      /\ Len(pulls) \in {0, 1} /\ Open = 1..Len(pulls)
      /\ pulls \in Seq([state : {"draft", "edited", "closed"}, base : {"base", "other"}])
  BY OpenPull DEF PubInv, TypeOK
<1>3. /\ reply'[a.by].is = is /\ reply'[a.by].pull = Len(pulls')
      /\ \A d \in Calls \ {a.by} : reply'[d] = reply[d]
  BY <1>1, <1>2
<1>4. a.op = "draft" => shown = "head" /\ branch = "head"
  BY DEF Undrifted
<1>5. \/ UNCHANGED pulls
      \/ Len(pulls) = 0 /\ Len(pulls') = 1 /\ pulls'[1] = [state |-> "draft", base |-> "base"]
  <2>1. CASE a.op = "draft" /\ is = "ok"
    <3>1. Len(pulls) = 0
      BY <1>1, <1>2, <2>1
    <3> QED BY <1>1, <1>2, <2>1, <3>1 DEF Undrifted
  <2> QED BY <1>1, <2>1
<1>6. Undrifted'
  <2>1. Len(pulls') <= 1 /\ \A n \in 1..Len(pulls') : pulls'[n] = [state |-> "draft", base |-> "base"]
    BY <1>5 DEF Undrifted
  <2> QED BY <1>1, <2>1 DEF Undrifted
<1>7. /\ Len(pulls) = 1 => Len(pulls') = 1
      /\ is = "conflict" => Len(pulls') = 1
      /\ a.op = "draft" /\ is = "ok" => Len(pulls') = 1
  <2>1. is = "conflict" => Len(pulls) = 1
    BY <1>1, <1>2, <1>4
  <2>2. ASSUME a.op = "draft", is = "ok" PROVE Len(pulls') = Len(pulls) + 1 /\ Len(pulls) = 0
    BY <1>1, <1>2, <2>2
  <2> QED BY <1>5, <2>1, <2>2
<1>8. a.op \in Ops /\ (run[a.by].at = "opening" => a.op = "draft")
  BY <1>1 DEF PubInv, TypeOK, Asked, Place, Ops
<1>9. ASSUME NEW d \in Calls PROVE Learnt(d)'
  <2>1. Learnt(d) /\ run' = run /\ shown' = shown
    BY <1>1
  <2>2. CASE d = a.by
    BY <1>3, <1>7, <1>8, <2>1, <2>2 DEF Learnt
  <2>3. CASE d # a.by
    BY <1>3, <1>7, <2>1, <2>3 DEF Learnt
  <2> QED BY <2>2, <2>3
<1>10. \A d \in Calls : Follows(d)'
  BY <1>1 DEF Follows, Wrote
<1> QED BY <1>6, <1>9, <1>10

LEMMA QuietStep == ASSUME PubInv, QuietInv, [Next]_vars PROVE QuietInv'
<1> SUFFICES ASSUME drifts' = 0
             PROVE  Undrifted' /\ \A d \in Calls : Learnt(d)' /\ Follows(d)'
  BY DEF QuietInv
<1>1. drifts \in Nat /\ (drifts' = drifts \/ drifts' = drifts + 1)
  <2>1. drifts \in Nat
    BY PublicationAssumption DEF PubInv, TypeOK
  <2>2. CASE \E c \in Calls : Start(c) \/ Proceed(c) \/ ReadFails(c)
    BY <2>2, CallMoves
  <2>3. CASE \E a \in asks : LandFork(a) \/ LandPush(a) \/ LandDraft(a) \/ Lose(a)
    BY <2>3, AnswerMoves
  <2>4. SettleFork \/ Show \/ Tick => drifts' = drifts
    BY SMT DEF SettleFork, Show, Tick
  <2>5. UNCHANGED vars => drifts' = drifts
    BY SMT DEF vars
  <2>6. MoveBase \/ MoveBranch \/ EditPull => Drift
    BY Zenon DEF MoveBase, MoveBranch, EditPull
  <2>7. Drift => drifts' = drifts + 1
    BY Zenon DEF Drift
  <2> QED BY <2>1, <2>2, <2>3, <2>4, <2>5, <2>6, <2>7 DEF Next
<1>2. Undrifted /\ \A d \in Calls : Learnt(d) /\ Follows(d)
  BY <1>1 DEF QuietInv
<1>3. CASE \E c \in Calls : Start(c) \/ Proceed(c) \/ ReadFails(c)
  BY <1>2, <1>3, QuietCall
<1>4. CASE \E a \in asks : LandFork(a) \/ LandPush(a) \/ LandDraft(a) \/ Lose(a)
  BY <1>2, <1>4, QuietAnswer
<1>5. CASE SettleFork \/ Show \/ Tick \/ UNCHANGED vars
  <2>1. UNCHANGED <<asks, reply, run, made, before>>
    BY <1>5, OthersKeep
  <2>2. /\ UNCHANGED <<base, branch, pulls>>
        /\ fork' = fork \/ fork' = "ready"
        /\ shown' = shown \/ shown' = branch
    BY <1>5 DEF SettleFork, Show, Tick, vars, github
  <2>3. Undrifted' /\ (shown = "head" => shown' = "head")
    BY <1>2, <2>1, <2>2 DEF Undrifted
  <2> QED BY <1>2, <2>1, <2>2, <2>3 DEF Learnt, Follows, Wrote
<1>6. CASE MoveBase \/ MoveBranch \/ EditPull
  BY <1>1, <1>6 DEF MoveBase, MoveBranch, EditPull, Drift
<1> QED BY <1>3, <1>4, <1>5, <1>6 DEF Next

LEMMA QuietInvariant == Spec => []QuietInv
<1>1. Init => QuietInv
  BY DEF Init, QuietInv, Undrifted, Learnt, Follows, Wrote, NoReply
<1> QED BY <1>1, QuietStep, PubInvariant, PTL DEF Spec

\* When nobody else changes anything on GitHub, an invocation that starts after one
\* has succeeded sends nothing, whatever is still under way for others.
THEOREM RetryWritesNothing == Spec => []RetryReadsOnly
<1>1. QuietInv => RetryReadsOnly
  BY DEF QuietInv, RetryReadsOnly, Follows
<1> QED BY <1>1, QuietInvariant, PTL

\* And it is not refused, nor too late: it ends at the same draft unless a read fails.
THEOREM RetryIsNotRefused == Spec => []RetrySucceeds
<1>1. QuietInv => RetrySucceeds
  BY DEF QuietInv, RetrySucceeds, Follows, Following
<1> QED BY <1>1, QuietInvariant, PTL
=============================================================================
