--------------------------- MODULE WorkbenchQueue ---------------------------
(* The execution queue of `ao2 workbench serve` (ao2-cli/src/workbench_queue.rs). *)
(* One thread serves HTTP requests, one worker thread executes jobs one after  *)
(* another; they share the list of jobs and the table of child processes, each *)
(* behind its own mutex, and a channel.  The list is written to queue.json.    *)
EXTENDS Integers, FiniteSets, Sequences

CONSTANTS
    MaxJobs,        \* job ids that may be issued
    Retention,      \* --queue-retention: how many jobs the list keeps
    MaxRestarts,    \* how often the server may be killed and started again
    MaxFaults       \* how many file operations or spawns may fail

ASSUME BoundsAssumption ==
    /\ MaxJobs \in Nat /\ Retention \in Nat
    /\ MaxRestarts \in Nat /\ MaxFaults \in Nat

Ids == 1..MaxJobs
NoJob == 0

Active == {"queued", "running"}
Settled == {"cancelled", "accepted", "failed", "interrupted"}
Listed == Active \cup Settled

VARIABLES
    jobs,       \* status of each job in memory; "none": no such id, "evicted": pruned
    disk,       \* the same, as queue.json has it
    channel,    \* requests sent to the worker and not yet received
    children,   \* active_children: jobs whose process is in the table
    proc,       \* the process of each job
    worker,     \* the worker thread: where it is, its job, what it will report
    server,     \* the serving thread: where it is, and the job of its request
    issued,     \* ids issued so far
    started,    \* jobs whose start was answered with "queued"
    stopped,    \* for each job, when a cancel took effect: "never", or the stage it met
    told,       \* jobs whose cancel was answered with cancel_applied
    landed,     \* jobs whose sandbox patches were approved and applied
    restarts, faults

shared == <<jobs, disk, channel, children, proc>>
history == <<issued, started, stopped, told, landed>>
budget == <<restarts, faults>>
vars == <<shared, worker, server, history, budget>>

Init ==
    /\ jobs = [i \in Ids |-> "none"] /\ disk = jobs
    /\ channel = <<>> /\ children = {} /\ proc = [i \in Ids |-> "none"]
    /\ worker = [at |-> "idle", job |-> NoJob, out |-> "none"]
    /\ server = [at |-> "idle", job |-> NoJob]
    /\ issued = 0 /\ started = {} /\ told = {} /\ landed = {}
    /\ stopped = [i \in Ids |-> "never"]
    /\ restarts = 0 /\ faults = 0

-----------------------------------------------------------------------------
(* The list                                                                *)

Count(js, S) == Cardinality({i \in Ids : js[i] \in S})

\* Ids grow along the list, so the first jobs that are not active are those with
\* the smallest ids; each removal shortens the list by one.
Evicted(js, i) ==
    /\ js[i] \in Settled
    /\ Cardinality({k \in 1..i : js[k] \in Settled}) <= Count(js, Listed) - Retention

Prune(js) == [i \in Ids |-> IF Evicted(js, i) THEN "evicted" ELSE js[i]]

\* Writing queue.json, with the list locked: the file is what the list is, or the
\* write fails and the file is as before.
Save(js) == disk' = js /\ UNCHANGED faults
SaveFails == faults < MaxFaults /\ faults' = faults + 1 /\ UNCHANGED disk

-----------------------------------------------------------------------------
(* Requests                                                                *)

Serve(from, to, i) ==
    /\ server.at = from
    /\ server' = [at |-> to, job |-> IF to = "idle" THEN NoJob ELSE i]

\* enqueue, enqueue_repair_resume and enqueue_provider_pilot push a new job.
Enqueue ==
    /\ issued < MaxJobs
    /\ Serve("idle", "save", issued + 1)
    /\ issued' = issued + 1
    /\ jobs' = Prune([jobs EXCEPT ![issued + 1] = "queued"])
    /\ UNCHANGED <<disk, channel, children, proc, worker, started, stopped, told, landed, budget>>

\* retry copies a listed job, whatever its status, under a new id.
Retry(i) == jobs[i] \in Listed /\ Enqueue

SendJob ==
    /\ \/ Serve("save", "answer", server.job)
          /\ Save(jobs) /\ channel' = Append(channel, server.job)
       \/ Serve("save", "idle", NoJob) /\ SaveFails /\ UNCHANGED channel
    /\ UNCHANGED <<jobs, children, proc, worker, history, restarts>>

\* Audit event and answer; the event may fail to be written, and the answer says so.
Answer ==
    /\ Serve("answer", "idle", NoJob)
    /\ \/ started' = started \cup {server.job} /\ UNCHANGED faults
       \/ faults < MaxFaults /\ faults' = faults + 1 /\ UNCHANGED started
    /\ UNCHANGED <<shared, worker, issued, stopped, told, landed, restarts>>

\* cancel first ends the process of the job, if the table has it ...
CancelKill(i) ==
    /\ i <= issued
    /\ Serve("idle", "mark", i)
    /\ proc' = IF i \in children /\ proc[i] = "running" THEN [proc EXCEPT ![i] = "bad"] ELSE proc
    /\ UNCHANGED <<jobs, disk, channel, children, worker, history, budget>>

\* The stage a cancel meets a job at: once the worker has looked at the status for
\* the last time, a cancel is too late to stop it.
Stage(i) ==
    IF jobs[i] = "queued" THEN "queued"
    ELSE IF worker.job = i /\ worker.at \in {"apply", "finish"} THEN "late" ELSE "running"

\* Mutated form: a job that has ended is cancelled too.
Cancellable_Ended(i) == jobs[i] \in Listed
Cancellable(i) == jobs[i] \in Active

\* ... and then marks it, if it is still active.  An unknown job is an error.
CancelMark ==
    LET i == server.job IN
    /\ \/ /\ Serve("mark", "cancelSave", i) /\ Cancellable(i)
          /\ jobs' = [jobs EXCEPT ![i] = "cancelled"]
          /\ stopped' = [stopped EXCEPT ![i] = Stage(i)]
       \/ /\ Serve("mark", "lateSave", i) /\ jobs[i] \in Listed /\ ~Cancellable(i)
          /\ UNCHANGED <<jobs, stopped>>
       \/ /\ Serve("mark", "idle", NoJob) /\ jobs[i] \notin Listed
          /\ UNCHANGED <<jobs, stopped>>
    /\ UNCHANGED <<disk, channel, children, proc, worker, issued, started, told, landed, budget>>

\* The list is saved; an error there or in the audit log is all the answer says.
CancelSave ==
    /\ \/ Serve("cancelSave", "idle", NoJob) /\ Save(jobs) /\ told' = told \cup {server.job}
       \/ Serve("lateSave", "idle", NoJob) /\ Save(jobs) /\ UNCHANGED told
       \/ /\ server.at \in {"cancelSave", "lateSave"} /\ Serve(server.at, "idle", NoJob)
          /\ SaveFails /\ UNCHANGED told
    /\ UNCHANGED <<jobs, channel, children, proc, worker, issued, started, stopped, landed, restarts>>

-----------------------------------------------------------------------------
(* The worker                                                              *)

Work(from, to) ==
    /\ worker.at = from
    /\ worker' = [worker EXCEPT !.at = to]

Report(from, out) ==
    /\ worker.at = from
    /\ worker' = [worker EXCEPT !.at = "finish", !.out = out]

Rest == [at |-> "idle", job |-> NoJob, out |-> "none"]

\* Mutated form: a request that was received is run.
Runnable_Received(i) == TRUE
Runnable(i) == jobs[i] = "queued"

\* Receive a request; the job becomes running only if it is still queued.
Take ==
    LET i == Head(channel) IN
    /\ worker.at = "idle" /\ channel # <<>>
    /\ channel' = Tail(channel)
    /\ worker' = [at |-> IF Runnable(i) THEN "mark" ELSE "skip", job |-> i, out |-> "none"]
    /\ jobs' = IF Runnable(i) THEN [jobs EXCEPT ![i] = "running"] ELSE jobs
    /\ UNCHANGED <<disk, children, proc, server, history, budget>>

\* The job is run only if that could be saved.
MarkSave ==
    /\ \/ Work("mark", "spawn") /\ Save(jobs)
       \/ worker.at = "mark" /\ worker' = Rest /\ SaveFails
       \/ worker.at = "skip" /\ worker' = Rest /\ (Save(jobs) \/ SaveFails)
    /\ UNCHANGED <<jobs, channel, children, proc, server, history, restarts>>

\* The child is spawned.  When its log files cannot be written the job fails and
\* the child, in a process group of its own, is left to itself.
Spawn ==
    /\ \/ /\ Work("spawn", "insert")
          /\ proc' = [proc EXCEPT ![worker.job] = "running"] /\ UNCHANGED faults
       \/ /\ Report("spawn", "failed")
          /\ faults < MaxFaults /\ faults' = faults + 1
          /\ \E p \in {"none", "running"} : proc' = [proc EXCEPT ![worker.job] = p]
    /\ UNCHANGED <<jobs, disk, channel, children, server, history, restarts>>

Insert ==
    /\ Work("insert", "check")
    /\ children' = children \cup {worker.job}
    /\ UNCHANGED <<jobs, disk, channel, proc, server, history, budget>>

\* A cancelled job's child is taken from the table and given to a thread that ends it.
\* The check after the insertion and the first one of the loop are the same.
Check ==
    LET i == worker.job IN
    /\ \/ /\ Report("check", "cancelled") /\ jobs[i] = "cancelled"
          /\ children' = children \ {i}
          /\ proc' = IF proc[i] = "running" THEN [proc EXCEPT ![i] = "doomed"] ELSE proc
       \/ Work("check", "poll") /\ jobs[i] # "cancelled" /\ UNCHANGED <<children, proc>>
    /\ UNCHANGED <<jobs, disk, channel, server, history, budget>>

\* Mutated form: the status is looked at before the loop and after it.
AskAgain_Never == "poll"
AskAgain == "check"

Poll ==
    /\ \/ Work("poll", AskAgain) /\ proc[worker.job] = "running" /\ UNCHANGED children
       \/ /\ Work("poll", "join") /\ proc[worker.job] # "running"
          /\ children' = children \ {worker.job}
    /\ UNCHANGED <<jobs, disk, channel, proc, server, history, budget>>

\* The threads that copy the child's output to the log files are waited for: they end when
\* nobody holds the pipes any more, which what the child left running may do, or fail.
Join ==
    /\ \/ Work("join", "reaped") /\ UNCHANGED faults
       \/ Report("join", "failed") /\ faults < MaxFaults /\ faults' = faults + 1
    /\ UNCHANGED <<shared, server, history, restarts>>

Reaped ==
    LET i == worker.job IN
    /\ \/ Report("reaped", "cancelled") /\ jobs[i] = "cancelled"
       \/ Report("reaped", "failed") /\ jobs[i] # "cancelled" /\ proc[i] = "bad"
       \/ Work("reaped", "apply") /\ jobs[i] # "cancelled" /\ proc[i] = "ok"
    /\ UNCHANGED <<shared, server, history, budget>>

\* approve_and_resume_persisted_sandbox_patches, then report and summary.
Apply ==
    /\ \E out \in {"accepted", "failed"} : Report("apply", out)
    /\ landed' = landed \cup {worker.job}
    /\ UNCHANGED <<shared, server, issued, started, stopped, told, budget>>

\* Mutated form: whatever the job's status is.
Outcome_Always(js, i, out) == IF js[i] \in Listed THEN [js EXCEPT ![i] = out] ELSE js

\* The result is entered, unless the job was cancelled or is no longer listed.
Outcome(js, i, out) ==
    IF js[i] \in Listed \ {"cancelled"} THEN [js EXCEPT ![i] = out] ELSE js

Finish ==
    /\ Work("finish", "finished")
    /\ jobs' = Outcome(jobs, worker.job, worker.out)
    /\ UNCHANGED <<disk, channel, children, proc, server, history, budget>>

\* Errors of these two saves are ignored.
FinishSave ==
    /\ Work("finished", "prune") /\ (Save(jobs) \/ SaveFails)
    /\ UNCHANGED <<jobs, channel, children, proc, server, history, restarts>>

PruneSave ==
    /\ worker.at = "prune" /\ worker' = Rest
    /\ jobs' = Prune(jobs) /\ (Save(jobs') \/ SaveFails)
    /\ UNCHANGED <<channel, children, proc, server, history, restarts>>

-----------------------------------------------------------------------------
(* Processes and the server process                                        *)

Exit(i) ==
    /\ proc[i] = "running"
    /\ \E p \in {"ok", "bad"} : proc' = [proc EXCEPT ![i] = p]
    /\ UNCHANGED <<jobs, disk, channel, children, worker, server, history, budget>>

\* The thread of detach_cancelled_workbench_child.
Terminate(i) ==
    /\ proc[i] = "doomed"
    /\ proc' = [proc EXCEPT ![i] = "bad"]
    /\ UNCHANGED <<jobs, disk, channel, children, worker, server, history, budget>>

\* load_workbench_queue_state: what was active is interrupted, then the list is pruned.
Loaded(js) == Prune([i \in Ids |-> IF js[i] \in Active THEN "interrupted" ELSE js[i]])

\* The server is killed and started again; children are in process groups of their
\* own and survive.
Restart ==
    /\ restarts < MaxRestarts /\ restarts' = restarts + 1
    /\ jobs' = Loaded(disk) /\ disk' = Loaded(disk)
    /\ channel' = <<>> /\ children' = {}
    /\ worker' = Rest /\ server' = [at |-> "idle", job |-> NoJob]
    /\ UNCHANGED <<proc, history, faults>>

ServerStep == SendJob \/ Answer \/ CancelMark \/ CancelSave
WorkerStep == Take \/ MarkSave \/ Spawn \/ Insert \/ Check \/ Poll \/ Reaped \/ Apply
              \/ Finish \/ FinishSave \/ PruneSave

Next ==
    \/ Enqueue
    \/ \E i \in Ids : Retry(i) \/ CancelKill(i) \/ Exit(i) \/ Terminate(i)
    \/ ServerStep \/ WorkerStep \/ Join \/ Restart

Spec == Init /\ [][Next]_vars

\* The threads run.  A job's process need not end, and nobody need ask for anything.
ThreadsRun ==
    /\ WF_vars(ServerStep) /\ WF_vars(WorkerStep)
    /\ \A i \in Ids : WF_vars(Terminate(i))

HeldSpec == Spec /\ ThreadsRun

\* What an ended child has left running lets go of its output.
FairSpec == HeldSpec /\ WF_vars(Join)

-----------------------------------------------------------------------------
(* Properties                                                              *)

Statuses == Listed \cup {"none", "evicted"}

TypeOK ==
    /\ jobs \in [Ids -> Statuses] /\ disk \in [Ids -> Statuses]
    /\ channel \in Seq(Ids) /\ children \subseteq Ids
    /\ proc \in [Ids -> {"none", "running", "doomed", "ok", "bad"}]
    /\ worker \in [at : {"idle", "mark", "skip", "spawn", "insert", "check", "poll", "join",
                         "reaped", "apply", "finish", "finished", "prune"},
                   job : Ids \cup {NoJob}, out : Settled \cup {"none"}]
    /\ server \in [at : {"idle", "save", "answer", "mark", "cancelSave", "lateSave"},
                   job : Ids \cup {NoJob}]
    /\ issued \in 0..MaxJobs
    /\ started \subseteq Ids /\ told \subseteq Ids /\ landed \subseteq Ids
    /\ stopped \in [Ids -> {"never", "queued", "running", "late"}]
    /\ restarts \in 0..MaxRestarts /\ faults \in 0..MaxFaults

\* What the operator was told is in queue.json, whatever is saved by whom and in which
\* order: a started job is there, a cancelled one is there as cancelled, until pruned.
ToldIsDurable ==
    /\ \A i \in started : disk[i] # "none"
    /\ \A i \in told : disk[i] \in {"cancelled", "evicted"}

\* A job cancelled while it was queued never gets a process, and one cancelled before
\* the worker's last look lands no patch, as long as the list has it as cancelled.
CancelHonoured ==
    [][\A i \in Ids :
        /\ stopped[i] = "queued" => proc'[i] = "none"
        /\ (i \in landed' \ landed /\ jobs[i] = "cancelled") => stopped[i] = "late"]_vars

\* A job that has settled keeps its status until it is pruned: no late result of the
\* worker, no late cancel and no later save changes it.  (A restart reads the file, which
\* a failed save has left behind.)
SettledIsFinal ==
    [][\A i \in Ids : jobs[i] \in Settled /\ restarts' = restarts
                        => jobs'[i] \in {jobs[i], "evicted"}]_vars

\* Cancelling frees the worker, also from a process that would never end, unless the job
\* is pruned before the worker has seen it.  (From the wait for the log threads of a child
\* that has ended nothing frees it but their end.)
CancelFrees ==
    \A i \in Ids : (worker.job = i /\ jobs[i] = "cancelled")
                      ~> (worker.job # i \/ jobs[i] = "evicted")
=============================================================================
