------------------------ MODULE WorkbenchQueueProofs ------------------------
(* Proofs about WorkbenchQueue, for every number of jobs, retention, restarts  *)
(* and faults: its types, that what the operator was told stays in queue.json, *)
(* that a settled job stays settled and that a cancel is honoured.             *)
EXTENDS WorkbenchQueue, TLAPS

-----------------------------------------------------------------------------
(* The list                                                                  *)

Lists == [Ids -> Statuses]

\* Pruning takes settled jobs off the list and changes nothing else.
LEMMA PruneFacts ==
  ASSUME NEW js \in Lists
  PROVE  /\ Prune(js) \in Lists
         /\ \A i \in Ids : Prune(js)[i] = js[i] \/ (js[i] \in Settled /\ Prune(js)[i] = "evicted")
BY DEF Prune, Evicted, Lists, Statuses

\* A restart leaves no job active, and loses and finds none.
LEMMA LoadedFacts ==
  ASSUME NEW js \in Lists
  PROVE  /\ Loaded(js) \in Lists
         /\ \A i \in Ids :
              /\ Loaded(js)[i] \notin Active
              /\ Loaded(js)[i] = "none" <=> js[i] = "none"
              /\ js[i] \in {"cancelled", "evicted"} => Loaded(js)[i] \in {"cancelled", "evicted"}
<1> DEFINE mid == [i \in Ids |-> IF js[i] \in Active THEN "interrupted" ELSE js[i]]
<1>1. mid \in Lists
  BY DEF Lists, Statuses, Listed, Settled
<1>2. Loaded(js) = Prune(mid)
  BY DEF Loaded
<1> QED
  BY <1>1, <1>2, PruneFacts DEF Active, Settled

-----------------------------------------------------------------------------
(* Types                                                                     *)

Stages == {"idle", "mark", "skip", "spawn", "insert", "check", "poll", "join",
           "reaped", "apply", "finish", "finished", "prune"}
Workers == [at : Stages, job : Ids \cup {NoJob}, out : Settled \cup {"none"}]
Servers == [at : {"idle", "save", "answer", "mark", "cancelSave", "lateSave"}, job : Ids \cup {NoJob}]

SharedOK ==
    /\ jobs \in Lists /\ disk \in Lists
    /\ channel \in Seq(Ids) /\ children \subseteq Ids
    /\ proc \in [Ids -> {"none", "running", "doomed", "ok", "bad"}]

\* A thread that is at something has a job.
ThreadsOK ==
    /\ worker \in Workers /\ (worker.at # "idle" => worker.job \in Ids)
    /\ server \in Servers /\ (server.at # "idle" => server.job \in Ids)

HistoryOK ==
    /\ issued \in 0..MaxJobs
    /\ started \subseteq Ids /\ told \subseteq Ids /\ landed \subseteq Ids
    /\ stopped \in [Ids -> {"never", "queued", "running", "late"}]

BudgetOK == restarts \in 0..MaxRestarts /\ faults \in 0..MaxFaults

Types == SharedOK /\ ThreadsOK /\ HistoryOK /\ BudgetOK

LEMMA TypesImply == Types => TypeOK
BY DEF Types, SharedOK, ThreadsOK, HistoryOK, BudgetOK, TypeOK, Lists, Workers, Servers, Stages

LEMMA InitTypes == Init => Types
<1> SUFFICES ASSUME Init PROVE Types
  OBVIOUS
<1>1. SharedOK
  BY DEF Init, SharedOK, Lists, Statuses
<1>2. ThreadsOK
  BY DEF Init, ThreadsOK, Workers, Servers, Stages
<1>3. HistoryOK
  BY BoundsAssumption DEF Init, HistoryOK
<1>4. BudgetOK
  BY BoundsAssumption DEF Init, BudgetOK
<1> QED
  BY <1>1, <1>2, <1>3, <1>4 DEF Types

LEMMA NextTypes == Types /\ [Next]_vars => Types'
<1> SUFFICES ASSUME Types, [Next]_vars PROVE Types'
  OBVIOUS
<1> USE DEF Types
<1>1. CASE Enqueue \/ \E i \in Ids : Retry(i)
  <2>0. Enqueue
    BY <1>1 DEF Retry
  <2>1. issued + 1 \in Ids
    BY <2>0, BoundsAssumption DEF Enqueue, HistoryOK, Ids
  <2>2. [jobs EXCEPT ![issued + 1] = "queued"] \in Lists
    BY <2>1 DEF SharedOK, Lists, Statuses, Listed, Active
  <2>3. SharedOK'
    BY <2>0, <2>2, PruneFacts DEF Enqueue, SharedOK
  <2>4. ThreadsOK'
    BY <2>0, <2>1 DEF Enqueue, Serve, ThreadsOK, Servers
  <2>5. HistoryOK'
    BY <2>0, BoundsAssumption DEF Enqueue, HistoryOK
  <2> QED
    BY <2>0, <2>3, <2>4, <2>5 DEF Enqueue, BudgetOK, budget
<1>2. CASE SendJob
  <2>1. SharedOK'
    BY <1>2 DEF SendJob, Serve, Save, SaveFails, SharedOK, ThreadsOK
  <2>2. ThreadsOK'
    BY <1>2 DEF SendJob, Serve, ThreadsOK, Servers
  <2> QED
    BY <1>2, <2>1, <2>2, BoundsAssumption DEF SendJob, Save, SaveFails, HistoryOK, BudgetOK, history
<1>3. CASE Answer
  <2>1. ThreadsOK'
    BY <1>3 DEF Answer, Serve, ThreadsOK, Servers
  <2>2. HistoryOK'
    BY <1>3 DEF Answer, Serve, ThreadsOK, HistoryOK
  <2> QED
    BY <1>3, <2>1, <2>2, BoundsAssumption DEF Answer, SharedOK, BudgetOK, shared
<1>4. ASSUME NEW i \in Ids, CancelKill(i) PROVE Types'
  BY <1>4 DEF CancelKill, Serve, SharedOK, ThreadsOK, Servers, HistoryOK, BudgetOK, history, budget
<1>5. CASE CancelMark
  <2>0. server.job \in Ids
    BY <1>5 DEF CancelMark, Serve, ThreadsOK
  <2>1. SharedOK'
    BY <1>5, <2>0 DEF CancelMark, SharedOK, Lists, Statuses, Listed, Settled
  <2>2. ThreadsOK'
    BY <1>5, <2>0 DEF CancelMark, Serve, ThreadsOK, Servers
  <2>3. HistoryOK'
    BY <1>5, <2>0 DEF CancelMark, Stage, HistoryOK
  <2> QED
    BY <1>5, <2>1, <2>2, <2>3 DEF CancelMark, BudgetOK, budget
<1>6. CASE CancelSave
  <2>0. server.job \in Ids
    BY <1>6 DEF CancelSave, Serve, ThreadsOK
  <2>1. ThreadsOK'
    BY <1>6 DEF CancelSave, Serve, ThreadsOK, Servers
  <2> QED
    BY <1>6, <2>0, <2>1, BoundsAssumption
       DEF CancelSave, Save, SaveFails, SharedOK, HistoryOK, BudgetOK
<1>7. CASE Take
  <2>0. Head(channel) \in Ids /\ Tail(channel) \in Seq(Ids)
    BY <1>7 DEF Take, SharedOK
  <2>1. SharedOK'
    BY <1>7, <2>0 DEF Take, SharedOK, Lists, Statuses, Listed, Active
  <2>2. ThreadsOK'
    BY <1>7, <2>0 DEF Take, ThreadsOK, Workers, Stages
  <2> QED
    BY <1>7, <2>1, <2>2 DEF Take, HistoryOK, BudgetOK, history, budget
<1>8. CASE MarkSave
  <2>1. ThreadsOK'
    BY <1>8 DEF MarkSave, Work, Rest, ThreadsOK, Workers, Stages
  <2> QED
    BY <1>8, <2>1, BoundsAssumption
       DEF MarkSave, Save, SaveFails, SharedOK, HistoryOK, BudgetOK, history
<1>9. CASE Spawn
  <2>1. ThreadsOK'
    BY <1>9 DEF Spawn, Work, Report, ThreadsOK, Workers, Stages, Settled
  <2>2. SharedOK'
    BY <1>9 DEF Spawn, Work, Report, ThreadsOK, SharedOK
  <2> QED
    BY <1>9, <2>1, <2>2, BoundsAssumption DEF Spawn, HistoryOK, BudgetOK, history
<1>10. CASE Insert
  BY <1>10 DEF Insert, Work, SharedOK, ThreadsOK, Workers, Stages, HistoryOK, BudgetOK, history, budget
<1>11. CASE Check
  <2>1. ThreadsOK'
    BY <1>11 DEF Check, Work, Report, ThreadsOK, Workers, Stages, Settled
  <2>2. SharedOK'
    BY <1>11 DEF Check, Work, Report, ThreadsOK, SharedOK
  <2> QED
    BY <1>11, <2>1, <2>2 DEF Check, HistoryOK, BudgetOK, history, budget
<1>12. CASE Poll
  BY <1>12 DEF Poll, AskAgain, Work, SharedOK, ThreadsOK, Workers, Stages, HistoryOK, BudgetOK, history, budget
<1>13. CASE Reaped
  BY <1>13 DEF Reaped, Work, Report, SharedOK, ThreadsOK, Workers, Stages, Settled, HistoryOK, BudgetOK,
               shared, history, budget
<1>21. CASE Join
  <2>1. ThreadsOK'
    BY <1>21 DEF Join, Work, Report, ThreadsOK, Workers, Stages, Settled
  <2> QED
    BY <1>21, <2>1, BoundsAssumption DEF Join, SharedOK, HistoryOK, BudgetOK, shared, history
<1>14. CASE Apply
  BY <1>14 DEF Apply, Report, SharedOK, ThreadsOK, Workers, Stages, Settled, HistoryOK, BudgetOK, shared, budget
<1>15. CASE Finish
  <2>1. ThreadsOK'
    BY <1>15 DEF Finish, Work, ThreadsOK, Workers, Stages
  <2>2. SharedOK'
    BY <1>15 DEF Finish, Work, Outcome, ThreadsOK, Workers, SharedOK, Lists, Statuses, Listed
  <2> QED
    BY <1>15, <2>1, <2>2 DEF Finish, HistoryOK, BudgetOK, history, budget
<1>16. CASE FinishSave
  <2>1. ThreadsOK'
    BY <1>16 DEF FinishSave, Work, ThreadsOK, Workers, Stages
  <2> QED
    BY <1>16, <2>1, BoundsAssumption
       DEF FinishSave, Save, SaveFails, SharedOK, HistoryOK, BudgetOK, history
<1>17. CASE PruneSave
  <2>1. ThreadsOK'
    BY <1>17 DEF PruneSave, Rest, ThreadsOK, Workers, Stages
  <2>2. SharedOK'
    BY <1>17, PruneFacts DEF PruneSave, Save, SaveFails, SharedOK
  <2> QED
    BY <1>17, <2>1, <2>2, BoundsAssumption
       DEF PruneSave, Save, SaveFails, HistoryOK, BudgetOK, history
<1>18. ASSUME NEW i \in Ids, Exit(i) \/ Terminate(i) PROVE Types'
  BY <1>18 DEF Exit, Terminate, SharedOK, ThreadsOK, HistoryOK, BudgetOK, history, budget
<1>19. CASE Restart
  <2>1. SharedOK'
    BY <1>19, LoadedFacts DEF Restart, SharedOK
  <2>2. ThreadsOK'
    BY <1>19 DEF Restart, Rest, ThreadsOK, Workers, Servers, Stages
  <2> QED
    BY <1>19, <2>1, <2>2, BoundsAssumption DEF Restart, HistoryOK, BudgetOK, history
<1>20. CASE UNCHANGED vars
  BY <1>20 DEF vars, SharedOK, ThreadsOK, HistoryOK, BudgetOK, shared, history, budget
<1> QED
  BY <1>1, <1>2, <1>3, <1>4, <1>5, <1>6, <1>7, <1>8, <1>9, <1>10, <1>11, <1>12, <1>13, <1>14,
     <1>15, <1>16, <1>17, <1>18, <1>19, <1>20, <1>21 DEF Next, ServerStep, WorkerStep

(* The list, the table, the threads and the counters keep their types.         *)
THEOREM TypesHold == Spec => []TypeOK
BY InitTypes, NextTypes, TypesImply, PTL DEF Spec

-----------------------------------------------------------------------------
(* The inductive invariant                                                   *)

\* From its start to its report the worker's job is running, or cancelled, or, once
\* cancelled, pruned.
Working == Stages \ {"idle", "skip", "finished", "prune"}
Begun == {"running", "cancelled", "evicted"}

WorkerInv ==
    /\ worker.at \in Working => jobs[worker.job] \in Begun
    /\ worker.at = "finish" => worker.out \in Settled
    /\ worker.at = "apply" /\ jobs[worker.job] = "cancelled" => stopped[worker.job] = "late"

\* What the serving thread is about to say holds already.
ServerInv ==
    /\ server.at \in {"save", "answer"} => jobs[server.job] # "none"
    /\ server.at = "answer" => disk[server.job] # "none"
    /\ server.at = "cancelSave" => jobs[server.job] \in {"cancelled", "evicted"}

\* An id that was not issued names nothing.
IssuedInv ==
    \A i \in Ids : i > issued =>
        /\ jobs[i] = "none" /\ disk[i] = "none" /\ proc[i] = "none"
        /\ stopped[i] = "never" /\ i \notin started /\ i \notin told

ToldInv ==
    /\ \A i \in started : jobs[i] # "none" /\ disk[i] # "none"
    /\ \A i \in told : {jobs[i], disk[i]} \subseteq {"cancelled", "evicted"}

\* A job that is queued has no process; one cancelled then will never have one.
StopInv ==
    \A i \in Ids :
        /\ jobs[i] = "queued" => proc[i] = "none"
        /\ stopped[i] = "queued" =>
              /\ jobs[i] \notin Active /\ proc[i] = "none"
              /\ worker.job = i => worker.at \notin Working

IInv == Types /\ WorkerInv /\ ServerInv /\ IssuedInv /\ ToldInv /\ StopInv

Inv == WorkerInv /\ ServerInv /\ IssuedInv /\ ToldInv /\ StopInv

LEMMA InitInv == Init => IInv
<1> SUFFICES ASSUME Init PROVE Types /\ WorkerInv /\ ServerInv /\ IssuedInv /\ ToldInv /\ StopInv
  BY DEF IInv
<1> QED
  BY InitTypes DEF Init, WorkerInv, ServerInv, IssuedInv, ToldInv, StopInv, Working, Active

LEMMA EnqueueInv == IInv /\ Enqueue => Inv'
<1> SUFFICES ASSUME IInv, Enqueue PROVE Inv'
  OBVIOUS
<1> DEFINE new == issued + 1
           js == [jobs EXCEPT ![new] = "queued"]
<1>1. new \in Ids /\ new > issued /\ issued' = new /\ server' = [at |-> "save", job |-> new]
  BY BoundsAssumption DEF Enqueue, Serve, IInv, Types, HistoryOK, Ids
<1>2. jobs \in Lists /\ js \in Lists /\ jobs' = Prune(js)
  BY <1>1 DEF Enqueue, IInv, Types, SharedOK, Lists, Statuses, Listed, Active
<1>3. \A i \in Ids : jobs'[i] = js[i] \/ (js[i] \in Settled /\ jobs'[i] = "evicted")
  BY <1>2, PruneFacts
<1>4. jobs'[new] = "queued"
  BY <1>1, <1>2, <1>3 DEF Lists, Settled
<1>5. \A i \in Ids \ {new} : jobs'[i] = jobs[i] \/ (jobs[i] \in Settled /\ jobs'[i] = "evicted")
  BY <1>2, <1>3 DEF Lists
<1>6. UNCHANGED <<disk, channel, children, proc, worker, started, stopped, told, landed>>
  BY DEF Enqueue
<1>7. jobs[new] = "none" /\ disk[new] = "none" /\ proc[new] = "none" /\ stopped[new] = "never"
      /\ new \notin started /\ new \notin told
  BY <1>1 DEF IInv, IssuedInv
<1>8. WorkerInv'
  BY <1>1, <1>5, <1>6, <1>7 DEF IInv, WorkerInv, Types, ThreadsOK, Working, Begun, Stages, Settled
<1>9. ServerInv'
  BY <1>1, <1>4 DEF ServerInv
<1>10. IssuedInv'
  BY <1>1, <1>5, <1>6 DEF IInv, IssuedInv, Types, HistoryOK, Ids, Settled
<1>11. ToldInv'
  BY <1>5, <1>6, <1>7 DEF IInv, ToldInv, Types, HistoryOK, Settled
<1>12. StopInv'
  BY <1>1, <1>4, <1>5, <1>6, <1>7 DEF IInv, StopInv, Active, Settled
<1> QED
  BY <1>8, <1>9, <1>10, <1>11, <1>12 DEF Inv

LEMMA ServerStepsInv == IInv /\ (ServerStep \/ \E i \in Ids : CancelKill(i)) => Inv'
<1> SUFFICES ASSUME IInv, ServerStep \/ \E i \in Ids : CancelKill(i) PROVE Inv'
  OBVIOUS
<1> USE DEF IInv, Types, Inv
<1>1. CASE SendJob
  <2>0. server.job \in Ids
    BY <1>1 DEF SendJob, Serve, ThreadsOK
  <2>1. ServerInv'
    BY <1>1, <2>0 DEF SendJob, Serve, Save, SaveFails, ServerInv
  <2> QED
    BY <1>1, <2>1 DEF SendJob, Save, SaveFails, WorkerInv, IssuedInv, ToldInv, StopInv, HistoryOK, history
<1>2. CASE Answer
  <2>0. server.job \in Ids /\ server.at = "answer" /\ server.job <= issued
    BY <1>2 DEF Answer, Serve, ThreadsOK, ServerInv, IssuedInv, HistoryOK, Ids
  <2> QED
    BY <1>2, <2>0 DEF Answer, Serve, WorkerInv, ServerInv, IssuedInv, ToldInv, StopInv, HistoryOK, Ids, shared
<1>3. ASSUME NEW i \in Ids, CancelKill(i) PROVE Inv'
  <2>1. \A k \in Ids : proc'[k] = proc[k] \/ proc[k] = "running"
    BY <1>3 DEF CancelKill, SharedOK
  <2> QED
    BY <1>3, <2>1 DEF CancelKill, Serve, WorkerInv, ServerInv, IssuedInv, ToldInv, StopInv, history
<1>4. CASE CancelMark
  <2> DEFINE i == server.job
  <2>0. i \in Ids /\ server.at = "mark"
    BY <1>4 DEF CancelMark, Serve, ThreadsOK
  <2>1. CASE jobs[i] \notin Active
    BY <1>4, <2>0, <2>1
       DEF CancelMark, Cancellable, Serve, WorkerInv, ServerInv, IssuedInv, ToldInv, StopInv
  <2>2. CASE jobs[i] \in Active
    <3>1. /\ jobs' = [jobs EXCEPT ![i] = "cancelled"]
          /\ stopped' = [stopped EXCEPT ![i] = Stage(i)]
          /\ server' = [at |-> "cancelSave", job |-> i]
      BY <1>4, <2>2 DEF CancelMark, Cancellable, Serve, Listed
    <3>2. UNCHANGED <<disk, proc, worker, issued, started, told>>
      BY <1>4 DEF CancelMark
    <3>3. jobs'[i] = "cancelled" /\ stopped'[i] = Stage(i)
      BY <2>0, <3>1 DEF SharedOK, HistoryOK, Lists
    <3>4. \A k \in Ids \ {i} : jobs'[k] = jobs[k] /\ stopped'[k] = stopped[k]
      BY <3>1 DEF SharedOK, HistoryOK, Lists
    <3>5. i <= issued
      BY <2>0, <2>2 DEF IssuedInv, HistoryOK, Ids, Active
    <3>6. Stage(i) = "queued" => jobs[i] = "queued"
      BY <2>2 DEF Stage
    <3>7. WorkerInv'
      BY <2>2, <3>2, <3>3, <3>4 DEF WorkerInv, Stage, ThreadsOK, Begun, Working, Stages, Active
    <3>8. ServerInv'
      BY <3>1, <3>3 DEF ServerInv
    <3>9. IssuedInv'
      BY <2>0, <3>2, <3>4, <3>5 DEF IssuedInv, HistoryOK, Ids
    <3>10. ToldInv'
      BY <2>0, <3>2, <3>3, <3>4 DEF ToldInv, HistoryOK
    <3>11. StopInv'
      BY <2>0, <3>2, <3>3, <3>4, <3>6 DEF StopInv, WorkerInv, Begun, Active
    <3> QED
      BY <3>7, <3>8, <3>9, <3>10, <3>11
  <2> QED
    BY <2>1, <2>2
<1>5. CASE CancelSave
  <2>0. server.job \in Ids
    BY <1>5 DEF CancelSave, Serve, ThreadsOK
  <2>1. server.at = "cancelSave" => server.job <= issued
    BY <2>0 DEF ServerInv, IssuedInv, HistoryOK, Ids
  <2>2. server'.at = "idle"
    BY <1>5 DEF CancelSave, Serve
  <2>3. IssuedInv'
    BY <1>5, <2>0, <2>1 DEF CancelSave, Serve, Save, SaveFails, IssuedInv, HistoryOK, Ids
  <2>4. ToldInv'
    BY <1>5, <2>0 DEF CancelSave, Serve, Save, SaveFails, ServerInv, ToldInv, HistoryOK
  <2> QED
    BY <1>5, <2>2, <2>3, <2>4 DEF CancelSave, WorkerInv, ServerInv, StopInv
<1> QED
  BY <1>1, <1>2, <1>3, <1>4, <1>5 DEF ServerStep

LEMMA WorkerStepsInv == IInv /\ (WorkerStep \/ Join) => Inv'
<1> SUFFICES ASSUME IInv, WorkerStep \/ Join PROVE Inv'
  OBVIOUS
<1> USE DEF IInv, Types, Inv
<1> DEFINE w == worker.job
<1>1. CASE Take
  <2> DEFINE h == Head(channel)
  <2>0. h \in Ids
    BY <1>1 DEF Take, SharedOK
  <2>1. CASE ~Runnable(h)
    BY <1>1, <2>1 DEF Take, Runnable, WorkerInv, ServerInv, IssuedInv, ToldInv, StopInv,
                      Working, Stages, history
  <2>2. CASE Runnable(h)
    <3>1. jobs[h] = "queued" /\ jobs' = [jobs EXCEPT ![h] = "running"]
          /\ worker' = [at |-> "mark", job |-> h, out |-> "none"]
      BY <1>1, <2>2 DEF Take, Runnable
    <3>2. UNCHANGED <<disk, proc, server, issued, started, stopped, told>>
      BY <1>1 DEF Take, history
    <3>3. jobs'[h] = "running" /\ \A k \in Ids \ {h} : jobs'[k] = jobs[k]
      BY <2>0, <3>1 DEF SharedOK, Lists
    <3>4. WorkerInv'
      BY <3>1, <3>3 DEF WorkerInv, Begun
    <3>5. ServerInv'
      BY <3>1, <3>2, <3>3 DEF ServerInv, ThreadsOK
    <3>6. IssuedInv'
      BY <3>1, <3>2, <3>3 DEF IssuedInv
    <3>7. ToldInv'
      BY <3>1, <3>2, <3>3 DEF ToldInv, HistoryOK
    <3>8. StopInv'
      BY <2>0, <3>1, <3>2, <3>3 DEF StopInv, Active
    <3> QED
      BY <3>4, <3>5, <3>6, <3>7, <3>8
  <2> QED
    BY <2>1, <2>2
<1>2. CASE MarkSave
  <2>1. WorkerInv' /\ StopInv'
    BY <1>2 DEF MarkSave, Work, Rest, ThreadsOK, Workers, WorkerInv, StopInv, Working, Stages, history
  <2>2. ServerInv' /\ ToldInv' /\ IssuedInv'
    BY <1>2 DEF MarkSave, Save, SaveFails, ServerInv, ToldInv, IssuedInv, ThreadsOK, HistoryOK, history
  <2> QED
    BY <2>1, <2>2
<1>3. CASE Spawn
  <2>0. w \in Ids /\ worker.at = "spawn" /\ worker'.job = w /\ worker'.at \in {"insert", "finish"}
    BY <1>3 DEF Spawn, Work, Report, ThreadsOK, Workers
  <2>1. jobs[w] \in Begun /\ stopped[w] # "queued" /\ w <= issued
    BY <2>0 DEF WorkerInv, StopInv, IssuedInv, HistoryOK, Ids, Working, Stages, Begun
  <2>2. \A k \in Ids \ {w} : proc'[k] = proc[k]
    BY <1>3 DEF Spawn, SharedOK
  <2>3. WorkerInv'
    BY <1>3, <2>0, <2>1 DEF Spawn, Work, Report, ThreadsOK, Workers, WorkerInv, Settled, history
  <2>4. IssuedInv'
    BY <1>3, <2>1, <2>2 DEF Spawn, IssuedInv, HistoryOK, Ids, history
  <2>5. StopInv'
    BY <1>3, <2>0, <2>1, <2>2 DEF Spawn, StopInv, Begun, history
  <2> QED
    BY <1>3, <2>3, <2>4, <2>5 DEF Spawn, ServerInv, ToldInv, history
<1>4. CASE Insert
  BY <1>4 DEF Insert, Work, ThreadsOK, Workers, WorkerInv, ServerInv, IssuedInv, ToldInv, StopInv,
              Working, Stages, history
<1>5. CASE Check
  <2>0. \A k \in Ids : proc'[k] = proc[k] \/ proc[k] = "running"
    BY <1>5 DEF Check, SharedOK
  <2>1. worker.at = "check" /\ worker'.job = w /\ worker'.at \in {"finish", "poll"}
    BY <1>5 DEF Check, Work, Report, ThreadsOK, Workers
  <2>2. WorkerInv'
    BY <1>5, <2>1 DEF Check, Work, Report, ThreadsOK, Workers, WorkerInv, Settled, Working, Stages, history
  <2>3. StopInv'
    BY <1>5, <2>0, <2>1 DEF Check, StopInv, Working, Stages, history
  <2> QED
    BY <1>5, <2>0, <2>2, <2>3 DEF Check, ServerInv, IssuedInv, ToldInv, history
<1>6. CASE Poll
  BY <1>6 DEF Poll, AskAgain, Work, ThreadsOK, Workers, WorkerInv, ServerInv, IssuedInv, ToldInv, StopInv,
              Working, Stages, history
<1>7. CASE Reaped
  <2>1. worker.at = "reaped" /\ worker'.job = w /\ worker'.at \in {"finish", "apply"}
    BY <1>7 DEF Reaped, Work, Report, ThreadsOK, Workers
  <2>2. WorkerInv'
    BY <1>7, <2>1 DEF Reaped, Work, Report, ThreadsOK, Workers, WorkerInv, Settled, Working, Stages,
                      shared, history
  <2> QED
    BY <1>7, <2>1, <2>2 DEF Reaped, ServerInv, IssuedInv, ToldInv, StopInv, Working, Stages, shared, history
<1>12. CASE Join
  <2>1. worker.at = "join" /\ worker'.job = w /\ worker'.at \in {"finish", "reaped"}
    BY <1>12 DEF Join, Work, Report, ThreadsOK, Workers
  <2>2. WorkerInv'
    BY <1>12, <2>1 DEF Join, Work, Report, ThreadsOK, Workers, WorkerInv, Settled, Working, Stages,
                      shared, history
  <2> QED
    BY <1>12, <2>1, <2>2 DEF Join, ServerInv, IssuedInv, ToldInv, StopInv, Working, Stages, shared, history
<1>8. CASE Apply
  <2>1. worker.at = "apply" /\ worker'.job = w /\ worker'.at = "finish" /\ worker'.out \in Settled
    BY <1>8 DEF Apply, Report, ThreadsOK, Workers, Settled
  <2> QED
    BY <1>8, <2>1 DEF Apply, WorkerInv, ServerInv, IssuedInv, ToldInv, StopInv, Working, Stages, shared
<1>9. CASE Finish
  <2>0. w \in Ids /\ worker.at = "finish" /\ worker'.job = w /\ worker'.at = "finished"
    BY <1>9 DEF Finish, Work, ThreadsOK, Workers
  <2>1. jobs[w] \in Begun /\ worker.out \in Settled /\ w <= issued
    BY <2>0 DEF WorkerInv, IssuedInv, HistoryOK, Ids, Working, Stages, Begun
  <2>2. /\ \A k \in Ids \ {w} : jobs'[k] = jobs[k]
        /\ jobs'[w] = jobs[w] \/ (jobs[w] = "running" /\ jobs'[w] \in Settled)
    <3>1. jobs' = Outcome(jobs, w, worker.out)
      BY <1>9 DEF Finish
    <3>2. CASE jobs[w] = "running"
      BY <2>0, <2>1, <3>1, <3>2 DEF Outcome, SharedOK, Lists, Listed, Active
    <3>3. CASE jobs[w] # "running"
      BY <2>1, <3>1, <3>3 DEF Outcome, Begun, Listed, Active, Settled
    <3> QED
      BY <3>2, <3>3
  <2>3. UNCHANGED <<disk, proc, server, issued, started, stopped, told>>
    BY <1>9 DEF Finish, history
  <2>4. WorkerInv'
    BY <2>0 DEF WorkerInv, Working
  <2>5. ServerInv'
    BY <2>2, <2>3 DEF ServerInv, ThreadsOK, Settled
  <2>6. IssuedInv'
    BY <2>1, <2>2, <2>3 DEF IssuedInv, HistoryOK, Ids
  <2>7. ToldInv'
    BY <2>2, <2>3 DEF ToldInv, HistoryOK, Settled
  <2>8. StopInv'
    BY <2>0, <2>2, <2>3 DEF StopInv, Working, Active, Settled
  <2> QED
    BY <2>4, <2>5, <2>6, <2>7, <2>8
<1>10. CASE FinishSave
  <2>1. WorkerInv' /\ StopInv'
    BY <1>10 DEF FinishSave, Work, ThreadsOK, Workers, WorkerInv, StopInv, Working, Stages, history
  <2>2. ServerInv' /\ ToldInv' /\ IssuedInv'
    BY <1>10 DEF FinishSave, Save, SaveFails, ServerInv, ToldInv, IssuedInv, ThreadsOK, HistoryOK, history
  <2> QED
    BY <2>1, <2>2
<1>11. CASE PruneSave
  <2>1. \A i \in Ids : jobs'[i] = jobs[i] \/ (jobs[i] \in Settled /\ jobs'[i] = "evicted")
    BY <1>11, PruneFacts DEF PruneSave, SharedOK
  <2>2. disk' = disk \/ disk' = jobs'
    BY <1>11 DEF PruneSave, Save, SaveFails
  <2>3. UNCHANGED <<proc, server, issued, started, stopped, told>> /\ worker' = Rest
    BY <1>11 DEF PruneSave, history
  <2>4. WorkerInv'
    BY <2>3 DEF WorkerInv, Rest, Working
  <2>5. ServerInv'
    BY <2>1, <2>2, <2>3 DEF ServerInv, ThreadsOK, Settled
  <2>6. IssuedInv'
    BY <2>1, <2>2, <2>3 DEF IssuedInv, Settled
  <2>7. ToldInv'
    BY <2>1, <2>2, <2>3 DEF ToldInv, HistoryOK, Settled
  <2>8. StopInv'
    BY <2>1, <2>3 DEF StopInv, Rest, Working, Active, Settled
  <2> QED
    BY <2>4, <2>5, <2>6, <2>7, <2>8
<1> QED
  BY <1>1, <1>2, <1>3, <1>4, <1>5, <1>6, <1>7, <1>8, <1>9, <1>10, <1>11, <1>12 DEF WorkerStep

LEMMA RestartInv == IInv /\ Restart => Inv'
<1> SUFFICES ASSUME IInv, Restart PROVE Inv'
  OBVIOUS
<1>1. /\ jobs' = disk'
      /\ \A i \in Ids :
           /\ jobs'[i] \notin Active
           /\ jobs'[i] = "none" <=> disk[i] = "none"
           /\ disk[i] \in {"cancelled", "evicted"} => jobs'[i] \in {"cancelled", "evicted"}
  BY LoadedFacts DEF Restart, IInv, Types, SharedOK
<1>2. UNCHANGED <<proc, issued, started, stopped, told>> /\ worker' = Rest /\ server'.at = "idle"
  BY DEF Restart, history
<1>3. WorkerInv' /\ ServerInv'
  BY <1>2 DEF WorkerInv, ServerInv, Rest, Working
<1>4. IssuedInv'
  BY <1>1, <1>2 DEF IInv, IssuedInv
<1>5. ToldInv'
  BY <1>1, <1>2 DEF IInv, ToldInv, Types, HistoryOK
<1>6. StopInv'
  BY <1>1, <1>2 DEF IInv, StopInv, Rest, Working, Active
<1> QED
  BY <1>3, <1>4, <1>5, <1>6 DEF Inv

LEMMA NextInv == IInv /\ [Next]_vars => IInv'
<1> SUFFICES ASSUME IInv, [Next]_vars PROVE Inv'
  BY NextTypes DEF IInv, Inv
<1>1. ASSUME NEW i \in Ids, Exit(i) \/ Terminate(i) PROVE Inv'
  <2>1. \A k \in Ids : proc'[k] = proc[k] \/ proc[k] \in {"running", "doomed"}
    BY <1>1 DEF Exit, Terminate, IInv, Types, SharedOK
  <2> QED
    BY <1>1, <2>1 DEF Exit, Terminate, IInv, Inv, WorkerInv, ServerInv, IssuedInv, ToldInv, StopInv, history
<1>2. CASE UNCHANGED vars
  BY <1>2 DEF vars, shared, history, budget, IInv, Inv, WorkerInv, ServerInv, IssuedInv, ToldInv, StopInv
<1>3. ASSUME NEW i \in Ids, Retry(i) PROVE Enqueue
  BY <1>3 DEF Retry
<1> QED
  BY <1>1, <1>2, <1>3, EnqueueInv, ServerStepsInv, WorkerStepsInv, RestartInv DEF Next

LEMMA InvHolds == Spec => []IInv
BY InitInv, NextInv, PTL DEF Spec

-----------------------------------------------------------------------------
(* What the operator relies on                                               *)

(* A start that was answered is in queue.json and a cancel that was answered   *)
(* is there as cancelled, across every interleaving of the two threads' saves, *)
(* failed saves and restarts, until the job is pruned.                         *)
THEOREM ToldHolds == Spec => []ToldIsDurable
<1>1. IInv => ToldIsDurable
  BY DEF IInv, ToldInv, ToldIsDurable
<1> QED
  BY <1>1, InvHolds, PTL

LEMMA StepSettled ==
  IInv /\ [Next]_vars =>
    [\A i \in Ids : jobs[i] \in Settled /\ restarts' = restarts => jobs'[i] \in {jobs[i], "evicted"}]_vars
<1> SUFFICES ASSUME IInv, [Next]_vars, NEW i \in Ids, jobs[i] \in Settled, restarts' = restarts
             PROVE  jobs'[i] \in {jobs[i], "evicted"}
  OBVIOUS
<1>1. CASE Enqueue \/ \E k \in Ids : Retry(k)
  <2>0. issued + 1 \in Ids /\ jobs[issued + 1] = "none"
    BY <1>1, BoundsAssumption DEF Enqueue, Retry, IInv, IssuedInv, Types, HistoryOK, Ids
  <2>1. i # issued + 1 /\ issued + 1 \in Ids /\ jobs' = Prune([jobs EXCEPT ![issued + 1] = "queued"])
    BY <1>1, <2>0 DEF Enqueue, Retry, Settled
  <2>2. [jobs EXCEPT ![issued + 1] = "queued"] \in Lists
    BY <2>1 DEF IInv, Types, SharedOK, Lists, Statuses, Listed, Active
  <2> QED
    BY <2>1, <2>2, PruneFacts DEF Lists
<1>2. CASE CancelMark
  BY <1>2 DEF CancelMark, Cancellable, Serve, IInv, Types, SharedOK, ThreadsOK, Lists, Active, Settled
<1>3. CASE Take
  BY <1>3 DEF Take, Runnable, IInv, Types, SharedOK, Lists, Settled
<1>4. CASE Finish
  <2>1. worker.at = "finish" /\ worker.job \in Ids /\ jobs[worker.job] \in Begun
    BY <1>4 DEF Finish, Work, IInv, Types, ThreadsOK, WorkerInv, Working, Stages
  <2> QED
    BY <1>4, <2>1 DEF Finish, Outcome, IInv, Types, SharedOK, Lists, Begun, Settled
<1>5. CASE PruneSave
  BY <1>5, PruneFacts DEF PruneSave, IInv, Types, SharedOK
<1>6. CASE Restart
  BY <1>6 DEF Restart, IInv, Types, BudgetOK
<1>7. CASE UNCHANGED jobs
  BY <1>7
<1> QED
  BY <1>1, <1>2, <1>3, <1>4, <1>5, <1>6, <1>7
     DEF Next, ServerStep, WorkerStep, vars, shared, SendJob, Answer, CancelKill, CancelSave, MarkSave, Spawn,
         Insert, Check, Poll, Join, Reaped, Apply, FinishSave, Exit, Terminate

(* No late result, late cancel or later save changes a job that has settled:    *)
(* it keeps its status until it is pruned or the server starts again.          *)
THEOREM SettledHolds == Spec => SettledIsFinal
BY InvHolds, StepSettled, PTL DEF Spec, SettledIsFinal

LEMMA StepHonoured ==
  IInv /\ IInv' /\ [Next]_vars =>
    [\A i \in Ids :
        /\ stopped[i] = "queued" => proc'[i] = "none"
        /\ (i \in landed' \ landed /\ jobs[i] = "cancelled") => stopped[i] = "late"]_vars
<1> SUFFICES ASSUME IInv, IInv', [Next]_vars, NEW i \in Ids
             PROVE  /\ stopped[i] = "queued" => proc'[i] = "none"
                    /\ (i \in landed' \ landed /\ jobs[i] = "cancelled") => stopped[i] = "late"
  OBVIOUS
<1>1. ASSUME stopped[i] = "queued" PROVE proc'[i] = "none"
  <2>1. jobs[i] \notin Active /\ proc[i] = "none" /\ (worker.job = i => worker.at \notin Working)
    BY <1>1 DEF IInv, StopInv
  <2>2. CASE Spawn
    BY <2>1, <2>2 DEF Spawn, Work, Report, Working, Stages, IInv, Types, SharedOK
  <2>3. CASE Check
    BY <2>1, <2>3 DEF Check, IInv, Types, SharedOK
  <2>4. ASSUME NEW k \in Ids, CancelKill(k) \/ Exit(k) \/ Terminate(k) PROVE proc'[i] = "none"
    BY <2>1, <2>4 DEF CancelKill, Exit, Terminate, IInv, Types, SharedOK
  <2>5. CASE UNCHANGED proc
    BY <2>1, <2>5
  <2> QED
    BY <2>2, <2>3, <2>4, <2>5
       DEF Next, ServerStep, WorkerStep, vars, shared, Enqueue, Retry, SendJob, Answer, CancelMark, CancelSave,
           Take, MarkSave, Insert, Poll, Join, Reaped, Apply, Finish, FinishSave, PruneSave, Restart
<1>2. ASSUME i \in landed' \ landed, jobs[i] = "cancelled" PROVE stopped[i] = "late"
  <2>1. CASE Apply
    BY <1>2, <2>1 DEF Apply, Report, IInv, WorkerInv
  <2>2. CASE UNCHANGED landed
    BY <1>2, <2>2
  <2> QED
    BY <2>1, <2>2
       DEF Next, ServerStep, WorkerStep, vars, history, Enqueue, Retry, SendJob, Answer, CancelKill, CancelMark,
           CancelSave, Take, MarkSave, Spawn, Insert, Check, Poll, Join, Reaped, Finish, FinishSave, PruneSave,
           Exit, Terminate, Restart
<1> QED
  BY <1>1, <1>2

(* A job cancelled while it was queued never gets a process, and no patch of a  *)
(* job lands once it is cancelled, unless the cancel came after the worker had  *)
(* looked at the status for the last time.                                     *)
THEOREM CancelHolds == Spec => CancelHonoured
BY InvHolds, StepHonoured, PTL DEF Spec, CancelHonoured
=============================================================================
