# A verification project for ao2

`ao2` runs coding agents ("providers") under governance: a workflow may only
change a repository through a patch that a human has approved, every step leaves
evidence, and a run can be suspended, resumed, repaired and replayed. This
directory holds TLA+ modules translated from the Rust (and Python) sources, TLC
configurations that check them on small instances, and TLAPS proofs of the
properties that matter most. Source paths below are relative to the repository.

Run `tlc -config <cfg> <module>` and `tlapm <module>` in this directory; which
configuration belongs to which module is in `PROJECT.json` ("runs").

## 1. Inventory

### 1.1 The parts of the system

| part | source | state it keeps | operations |
|---|---|---|---|
| Governed run | `crates/ao2-runtime/src/lib.rs` | `.ao2/runs/<id>/`: `run-record.json`, `approvals/*.json`, `events.jsonl`, `consumed-tickets.json`, `provider-options.json`, `sandbox-<role>-<action>/`, `evidence-pack.json`, `.lock`; and the target repository | `run`, `run --provider`, `approve`, `resume`, `replay`, `run_health` |
| Sandbox patch | `crates/ao2-adapters/src/sandbox_patch.rs`, `lib.rs` | none (two directories are compared) | preview, digest, apply |
| Policy | `crates/ao2-policy` | none | `evaluate`, `create_approval_ticket`, `grant_exact` |
| Task ordering | `sdd_workflow_task_order` (ao2-runtime), `ao2_run_spec_ordered_tasks` (`ao2-cli/src/run_execution.rs`) | locals of one call | order a task graph, or refuse it |
| Publication | `crates/ao2-runtime/src/github_issue_publication.rs` | none; everything is on GitHub | read, write what is missing, read back |
| Provider adapters | `crates/ao2-adapters`, `-codex`, `-claude` | one child process | run with time limit, parse the transcript |
| Artifact store, core types | `crates/ao2-artifacts`, `ao2-core` | content-addressed files | put, get |
| Windows outbound worker | `scripts/ao2_windows_outbound_worker.py` | claim ledger and journal, result outbox, processed tasks | poll, claim, execute, post |
| Pulse auto-advance | `ao2-runtime/src/pulse_event_loop.rs`, `scripts/pulse-*.sh` | `.ao2-local/pulse/latest/` (packet, `resume.json`), ledger of digests, gate file, STOP file | poll, run a packet once, publish, ask the gate, generate the next packet; register, stop |
| Workbench queue | `ao2-cli/src/workbench_queue.rs`, `workbench_server.rs` | the list of jobs in memory and in `queue.json`, a channel, the table of child processes | enqueue, retry, cancel, work, prune, reload |
| Factory queue | `ao2-cli/src/factory_queue*.rs` | `queue.json`; per project start its directory of receipts | submit, cancel, retry, run next, complete a project start, poll, attest |
| Recovery of a project start | `ao2-cli/src/factory_queue_recovery*.rs`, `memory_store.rs` | `.ao2/memory/records.jsonl`, `run-links.jsonl` | record summary, checkpoint, claim, continuation, execution; read each back; evaluate, hand off |
| Installation | `ao2-cli/src/install_cmd.rs` | binary, its verification evidence, and the rollback copies of both | update, roll back |
| SDD planner | `crates/sdd-planner` | locals of one call | plan, validate, repair |
| Quality gates, release, plugins, control plane, issue intake | `ao2-cli/src/...` | JSON documents | one-pass assembly and comparison |

### 1.2 How they interact

The governed run is the centre. `run` writes the first approval ticket and the
record; `approve`, a process of its own, rewrites one ticket and the record;
`run --provider` and `resume` load the record, order the tasks, start a provider
per task in a temporary sandbox, compute the sandbox patch, find or request a
ticket bound to the patch's digest, apply an approved patch to the repository,
run the verifier, loop over repairs and write evidence and record. The processes
share **files only**; the one lock (`RunLock`, `.lock`) is taken by `approve`
alone. The workbench starts governed runs as child processes of its worker
thread and approves their patches when they have ended; the factory queue runs
plans and project starts within the command that takes them. The workbench's two
threads share memory behind mutexes; the commands of the factory queue share one
file that each rewrites as a whole, without a lock; the Pulse loop shares a
directory with the scripts that register packets. The recovery commands read the
factory queue's file and pass on to one another through the memory files only:
each is approved by the digest of the previous one's readback. Publication starts when a repair pack has been approved: it talks to
GitHub through child processes (`gh`, `git`) with time limits.

### 1.3 What is hard, and what makes each part correct

* *Governed run.* Read-modify-write of whole files by processes that may
  overlap; crashes between any two files; a repository and a sandbox that may
  change between approval and apply; tickets that expire or are consumed; the
  repair budget that starts anew with each resume. Correct means: nothing
  reaches the repository except an approved subject; nothing that was granted is
  lost; an accepted run has really applied its steps and its evidence agrees; a
  run that is approved and resumed is closed eventually.
* *Task ordering.* Cycles, unknown dependencies, repeated ids, a loop whose exit
  test compares two lengths. Correct means: topological, without repetition,
  complete, and refusals only for a reason.
* *Publication.* A request that times out may still land; two invocations may
  collide; GitHub shows writes late; an approval may expire, and other people
  may push, in the middle. Correct means: a retry after success only reads and
  succeeds, one invocation at most says that it created the draft, what was
  reported stays true until somebody else changes it, foreign repositories and
  branches stay untouched, every call ends. (That no request is sent outside its
  approval is promised, but not kept: section 4.)
* *Outbound worker.* Restarts between claim, execution and result; a polling
  thread and action threads that flush one outbox; files that cannot be written
  or read. Correct means: nothing runs twice, no result is lost or replaced,
  every queued result is delivered.
* *Workbench queue.* A cancel meets the worker between any two of its steps; a
  list that prunes what is settled; saves that fail; a child that never ends; a
  restart. Correct means: what the operator was told is in the file, a cancelled
  job stays cancelled and lands nothing, and cancelling frees the worker.
* *Factory queue.* Every command loads, changes and stores the whole file, and
  taking an entry needs several such rounds; commands die in between, and stores
  overlap, since there is no lock. Correct means: no run is listed twice, and none
  is accepted without having been executed and packaged. (Lost entries, unasked
  executions and a wrong attestation are what the code does not prevent: section 4.)
* *Recovery.* A chain of five digests, each over what was readable at some
  moment; records and links in two files, each appended to by two writes; commands
  that die, overlap or are repeated. Correct means: what is closed rests on a chain
  that was complete when each part of it was approved, and the operator gets there
  by the commands AO2 names, as long as memory can be read and no claim is spoilt.
* *Installation.* Four files replaced one after another, by a process that may
  die. Correct means: the evidence beside a binary vouches for that binary, a
  rollback restores what a completed update found, and (on POSIX) there is always a
  binary.
* *Pulse loop.* Tasks run before their ledger line is written; the packet is read
  several times while others replace it; the ledger may be torn or unreadable; a
  gate file may be stale. Correct means: no batch twice, and, with the refresh of
  the gate on, no packet past a blocked pull request.

The hazards, line by line, with the properties that cover them, are in
`PROJECT.json` ("hazards").

## 2. Plan

Done, in this order:

1. `SandboxPatch`, `GovernedRun`, `MCGovernedRun`: the approval gate, with
   crashes, overlap, drift and expiry; then `GovernedRunProofs` (type
   correctness, the gate properties, `AcceptedMeansLanded`; and, for commands one
   after the other, `EvidenceAgrees`, `LandsExactly`, `NoLostGrant`, `ReplayClean`,
   `TerminalFinal`, `OneStepPerTicket`, `SandboxMeansSuspended`).
2. `TaskOrder`, `MCTaskOrder`.
3. `Publication`, `MCPublication`; then `RuntimeProofs` about both.
4. `OutboundWorker`, `MCOutboundWorker`, `OutboundWorkerProofs`.
5. `WorkbenchQueue`, `MCWorkbenchQueue`, `WorkbenchQueueProofs`.
6. `FactoryQueue`, `MCFactoryQueue`, `FactoryQueueProofs`.
7. `Activation` (abstract), `Installer`, `MCInstaller`, `InstallerProofs` with the
   refinement.
8. `PulseLoop`, `MCPulseLoop`, `PulseLoopProofs`.
9. `RecoveryChain`, `MCRecovery`, `RecoveryChainProofs`.

Left:

10. The closing and replay of a run: artifact digests, `run_health`, repair
   records; composed with `GovernedRun`'s record and checkpoint.
11. `run_pulse_event_loop`, the orchestrator of `sdd-planner`, the time-out of
    `LocalCliAdapter::run`, the evaluator's decision and the release handoff that
    follow the closure of a recovery.
12. Theorems: the weakest condition on `Overlap` under which the properties of
    `GovernedRun` that assume `OnlyApprovalsOverlap` still hold.

Runs stay small (one or two processes of each kind, one or two files, two or
three contents); whatever they leave open for larger instances is what the
theorems are for.

## 3. Modules

### 3.1 `SandboxPatch`

A directory is a function from `Files` to contents (or `Absent`).
`Preview(base, before, after)` is `build_approval_subject`: the commit and, for
each file that differs, its state on both sides. The code approves the SHA-256
of the canonical JSON of this; the digest is taken to be injective, so the
subject stands for its digest. Modes and link targets are part of a content.

### 3.2 `GovernedRun`

One run, any number of `Approvers` and `Runners`. A step of the specification
touches the shared files once; what the code computes in memory between two file
operations is part of the step before or after it. `pc[p]` is the place between
two file operations, `ctx[p]` the `RunContext` a call loaded, `loc[p]` its
locals. When a call returns (with a value or an error) both are forgotten, which
is what the end of the process does.

| variable | code |
|---|---|
| `target`, `head` | working tree and HEAD of the target repository |
| `sandbox[s]` | `sandbox-<role>-<action>` of step `s` (main tasks first, then repairs) |
| `status`, `bound` | `approvals/<ticket>.json`: status; requester and action digest |
| `record` | `run-record.json`: status, tickets, the steps with a transcript summary, last closure report |
| `consumed`, `opts` | `consumed-tickets.json`, presence of `provider-options.json` |
| `chk` | the ticket digests of the last integrity checkpoint in `events.jsonl` |
| `pack` | verdict of `evidence-pack.json` |
| `lock` | holder of `.lock` |
| `promotions`, `landed` | history: applies begun (ticket, step, subject), steps whose apply finished |

| actions | code |
|---|---|
| `Approve*` | `approve_risky_pr_ticket`: find the ticket, take the lock, write the approval file, load the context, replace the ticket, checkpoint, record |
| `ProviderRun`, `ResumeStart`, `ClearConsumed` | the entries of `run_risky_pr_with_provider_prompt` and `resume_risky_pr_provider_free` |
| `Enter*`, `ProviderCall`, `ProviderFail`, `CopyFile`, `CopyDone` | the first half of `apply_provider_prompt_patch_for_role`: skip, persisted sandbox, or provider and `copy_dir_recursive`, file by file |
| `Gate*`, `Wait*` | its gate: stale ticket, new request, expired ticket, approved ticket, and the writes of a suspension |
| `Recheck`, `ApplyRefused`, `ApplyBegin`, `ApplyFile`, `ApplyFail`, `ApplyDone`, `RemoveSandbox`, `Consume` | `recheck_sandbox_preview` and `apply_sandbox_patch`, file by file, and the book-keeping after it |
| `Verify*`, `Export`, `Final*` | verifier, repair loop, evidence pack, checkpoint, record |
| `Crash`, `Edit`, `Commit`, `Expire` | a process dies; others change the repository; thirty minutes pass |

`RemoveSandbox` deletes the sandbox of an applied step file by file. The code ignores
the error of `remove_dir_all` (`lib.rs:1757`), so a deletion that fails (the fault
`Unlinks`), or a death inside it, leaves part of the sandbox. The next resume takes
what is left for a suspended step; its gate finds the ticket stale and fails
closed, at that resume and at every later one: nothing more is applied, and the run is
never closed.

The initial state is what `start_risky_pr_provider_free` leaves: a record that
waits, with one pending ticket. The approval that the same command line may give
to that first ticket is an `Approver`'s.

`Overlap` names the processes an operator may run at the same time, `Mortal`
those that may die; a run chooses them to ask one question at a time.

### 3.3 `TaskOrder`

The scan of both ordering functions: passes over the listing, `completed`,
`ordered`, `progressed`. `kind` chooses the function; they differ in when an
unknown dependency is found. An initial state is any listing with any edges. Of
a run spec's task that is listed twice both entries are taken to have the same
dependencies.

### 3.4 `Publication`

`run[c]` is one invocation of `apply_publication_plan`: where it is, re-reads
left, what it says it did, the draft it works with. Each read is one step; `Approved`
and `Expired` look at the window of an approval, and `Send` hands the request over.
For a fork and a draft the code does both at once. For the push it looks first
(lines 1500-1505) and then has Git list its configuration and resolve the
destination, each with a time limit of its own, before `git push` (1721-1725): that
is the place `prepare`, between `ReadBranch` and `Push`. `told` notes how many changes
others had made when an invocation reported. `asks` are requests under way and `reply` the answers: an
invocation that times out kills its child, but the request may land later
(`LandFork`, `LandPush`, `LandDraft`) or never (`Lose`). `shown` lags behind
`branch`, a fork becomes readable some time after it was created. `MoveBase`,
`MoveBranch` and `EditPull` are other people. GitHub's part is external: it is
modelled from the answers the code distinguishes. The list of pull requests is
taken to be up to date (GitHub's delay is modelled for forks and branches only);
the local checks of repository and login either pass or are `ReadFails`.

### 3.5 `OutboundWorker`

| variable | code |
|---|---|
| `ledger` | `task-ledger.json`, by request |
| `journal`, `torn` | `task-ledger-events.jsonl`: the events that can be parsed, and whether the last line was cut off (the next event then lands on the same line and neither can be parsed) |
| `outbox` | `result-outbox/<request>.json`: none, a refusal, a result, or not JSON |
| `mem` | `WorkerState._ledger` |
| `at`, `loc`, `batch`, `cur` | where each thread is; the locals of `flush_result_outbox`; the tasks of the board; the request the polling thread claims |

`List`, `Read`, `ReadGone`, `Quarantine`, `Post`, `PostFails`, `Remove`,
`Flushed` are `flush_result_outbox`, which every thread calls; `AfterException`
says where an exception leads (a poll ends, a best-effort post goes on). `Fetch`
and `Task*` are `poll_once` and `accept_control_task`; whether a task passes the
allow-list and its authorization is chosen anew at each poll, as the time window,
the clock skew and the verifier's own time-out have it. `Claim*`, `RunAction`,
`Queue*`, `Complete*` are the claim, the action and its end; the lock of
`WorkerState` is held from a journal event to the ledger file, which
`LockFree` reads off the places of the threads. `Crash`, `SpoilLedger`,
`SpoilBoard` and `Restart` are the process dying, files that turn out not to be
JSON, and `_load` with `_replay_journal`. A control board may hold any requests;
what the control plane keeps is not modelled.

### 3.6 `WorkbenchQueue`

| variable | code |
|---|---|
| `jobs`, `disk` | `WorkbenchQueueState.jobs` and `queue.json`: the status of each id |
| `channel`, `children` | the `mpsc` channel, the `active_children` table |
| `proc` | the child of each job: running, handed to a thread that ends it (`doomed`), exited well or badly |
| `worker`, `server` | where the worker thread and the serving thread are |
| `started`, `told`, `stopped`, `landed` | history: what was answered, when a cancel took effect, whose patches were applied |

A step is what a thread does while it holds a mutex, or one file or process
operation. `Enqueue`, `Retry`, `SendJob`, `Answer` are `enqueue` (with its two
siblings, which differ in the job's kind) and `retry`; `Cancel*` is `cancel`,
which ends the child first and marks the job afterwards; `Take` ... `PruneSave`
are the worker loop, with `mark_workbench_job_running` and
`execute_workbench_job`; `Restart` is `load_workbench_queue_state` of a new
server. `Evicted` is `prune_workbench_jobs`: the oldest jobs that are not active
go until the list is short enough. The server handles one request at a time. When a
child has ended its two log-writer threads are joined (`Join`), before its status is
looked at (`Reaped`): that fails if one of them panicked or could not write, and waits as long as something the child has
left running holds the pipe. `FairSpec` assumes that this ends, `HeldSpec` does not.
`Apply` is the approval and resumption of the run's patches, a step here and all
of `GovernedRun` there.

### 3.7 `FactoryQueue`

Each command (`cmd[c]`) is a process: it loads `queue.json` into `snap` with its change
made, and stores all of it (`Store`). A load and its store are two steps, and nothing
keeps two commands apart: the code takes no lock. `Places` are where a command is
between two rounds, `Changes` the stores it is about to make. `Pick`, `Claim`,
`Execute`, `Finish` and `Package` are `queue-run-next`; `Deny` blocks an entry whose
plan has changed since it was queued, or whose execution or packaging fails; a project
start holds the list it loaded during the whole packaging of its closure.
`Complete`, `CompletePick`, `Report`, `Contract` are `queue-project-start-complete`,
`NextAction` is the poll. `List` saves the queue listing, and `Attest` is
`cancel-authority`, which looks at that saved listing, not at the queue. `earned` is
history: the runs of which a verdict was accepted and, of a project start, packaged.
The statuses `accepted_with_concerns`, `failed`, `completed` and the `blocked` of a
verdict are counted as `rejected`: no code treats them differently here.

### 3.8 `Installer` and `Activation`

`Activation` is the promise: what is `trusted` is what is `active`; the evidence
is withdrawn before another binary is put in place, and given for what is in
place. `Installer` has the four files, the command under way and the operating
system: `Keep`, `KeepEvidence`, `Withdraw`, `Replace`, `Vouch` are the file
operations of `install_update_result` and `rollback_install` in their order, each
atomic on POSIX (`atomic_write` renames), in two steps on Windows (the file is
removed first). `Die` is a death at any of these places, or a file operation that
fails. `EvidenceIsTrue == Trust!Spec`, where `Trust` instantiates `Activation` with
`active <- bin` and, for `trusted`, the evidence, until an update dies between the copy
of the binary and the copy of its evidence (`unpaired`): what is kept from then on may
belong to two releases, a rollback puts it back as it is, and nothing is promised.

### 3.9 `PulseLoop`

| variable | code |
|---|---|
| `resume`, `tasks` | `resume.json`, and the eval loop with its manifest, in the packet directory; a packet stands for the digest of its eval loop |
| `ledger`, `cut` | the digests on whole lines of the ledger; whether it ends in part of a line, which swallows the next entry |
| `stop`, `pr`, `gate` | the STOP file, the pull request as GitHub shows it, the gate file |
| `loop` | the process of `run_pulse_auto_advance`: its place, its options, the digest taken, the batch read |
| `mirror` | `pulse-local-mirror.sh`, run by the operator (`Register`) or for the generator (`Generate`) |
| `done`, `excused` | history: batches that passed; those whose ledger line was not written, torn, or not readable, or that were put in place of another after the digest was taken |

`Missing`, `Unfit`, `Duplicate`, `New` are the checks at the top of the loop in their
order; `Unfit` stands for a digest that does not match, a packet that does not ask to be
continued, and a decision to stop (`Stopping`). `load_seen` fails open: a ledger that
cannot be read counts as empty (`Unread`), lines that cannot be parsed are skipped. The
eval loop is read a second time for the batch (`Load`). `Record` appends the ledger
line, `Unrecorded` fails at it, in part or altogether. An entry that lacks only its
newline counts as cut, although it can be parsed until something is appended.

The gate has three modes (`Gates`): not asked; the file that is there decides (`Skip`,
the branch for `--pr-ci-gate-update 0`); or it is refreshed first. The updater writes
what GitHub shows, or "waiting" when `gh` fails, and exits 0, so the loop goes on to
`Decide` (`Refresh`); only a non-zero exit ends the run (`RefreshFails`). A gate file
without a pull request counts as passed, as a green one does. The mirror (`Clear`,
`Unlink`, `Copy`, `Hash`, `Resume`) is the same script for the operator and the
generator, and the two may interleave at any of its file operations. Whether an
iteration was the last that `--max-iterations` allows is left open, and so is whether
the publisher fails (without `--direct-main-publish` there is none). The commands the
loop waits for are taken to die with it.

### 3.10 `RecoveryChain`

`queue` is the queue file (how often it was written, which stands for its digest)
with the status of each project start, `memory` the records and the ids that are
linked. A packet of the chain is a record of what its digest covers: a resume
receipt has the packet of the run it selects and the errors for which later runs
were passed over (`Reason`), a plan its receipt and checkpoint, a claim status
its plan and the lengths of both memory files. These only grow, so a length stands
for a digest. Every readback is an operator on `memory` and `queue` that gives
the set of ready packets; the summary and the checkpoint are looked up as the
newest one (`NewestLinked`), the other three have to be unique (`Unique`).

`Submit` is a command whose approval digest has been compared; `AppendRecord` and
`LinkRun` are its two appends, and `append_jsonl` makes two unlocked writes of each: the
text, and then the end of the line (`EndOfLine`). A death between the two, or another
command's append there, leaves two records on one line, and from then on every readback
fails (`Readable`; `read_jsonl_values` refuses the whole file). The time of a record is
its place in the file: two records made in the same millisecond are left out.
`OtherCommand` is somebody else's command, ending after any of its writes, at any point
between the operator's steps; `WriteQueue` is any write of the factory queue (in
`FactoryQueue` it has its own actions).

`CalledFor` is the operator, who gives only the commands that AO2's readbacks name: a
summary of the latest project start once it is accepted; otherwise AO2 says
`wait_for_queue_terminal` or `operator_attention_required`, and the operator waits. A
claim that is recorded twice, or whose link is missing, is never named again
(`Spoilt`); an operator who meets it, or a memory that cannot be read, has no command
left.

### 3.11 Proof modules

`GovernedRunProofs`, `OutboundWorkerProofs`, `WorkbenchQueueProofs`,
`FactoryQueueProofs`, `InstallerProofs`, `PulseLoopProofs` and
`RecoveryChainProofs` extend the module they are about and `TLAPS`.
`RuntimeProofs` extends two, `TaskOrder` and `Publication`, which share no
variable; that is why the definitions of `TaskOrder` carry its name (`OrderSpec`,
`OrderTypeOK`). `MC*` modules define constants for TLC only.

## 4. Runs

| run | asks | bounds, and why they are enough |
|---|---|---|
| `Run_sequential` | do the files of a run agree between commands, and does it end? `ReplayClean`, `OneStepPerTicket`, `SandboxMeansSuspended`, `TerminalFinal`, `Terminates` | an SDD graph of two tasks, a repair budget of two, two files, three provider results (nothing, one change, change and deletion): every path through gate, apply, verifier and repair; commands one after another |
| `Run_crashes` | `EvidenceAgrees`, `LandsExactly` when a runner dies twice, a provider fails, a sandbox cannot be deleted and a ticket expires, `NoLostGrant` with two `ao2 approve` at once | two files, so that an apply, and the deletion of a sandbox, can be cut between them; five tickets, since a cut request leaves one behind, and two approvals at once need two open tickets |
| `Run_overlap` | `PromotionsApproved`, `AcceptedMeansLanded`, `GrantBacked` with two runners and an approver at once, one death and one change of the repository at any point | one file; the overlap is what multiplies. All three are theorems for any size |
| `Order_graphs` | `Topological`, `Complete`, `CycleIsReal`, `Decides` | listings up to three tasks over three ids with repetition, up to three edges: self-loops, 2- and 3-cycles, diamonds, unknown and missing ends |
| `Publish` | `RetryReadsOnly`, `RetrySucceeds`, `OneCreator`, `ReportStands` | two invocations that collide or of which one retries, two changes by others, one failing read, approvals that end, answers that never come |
| `Worker_restarts` | `AtMostOnce`, `ResultKept`, `NotOverwritten`, `Delivered` | one observer request and one action, so two threads flush; one fault of each kind, which reaches a crash followed by a lost ledger |
| `Queue_workbench` | `ToldIsDurable`, `CancelHonoured`, `SettledIsFinal`, `CancelFrees` | two jobs and a list that keeps one, so that a running job is pruned after its cancel; two faults, so that a save fails twice; one restart. The theorems hold for any number |
| `Queue_factory` | `NoRunTwice`, `AcceptedIsEarned`, with loads and stores that overlap in any way | one run of each kind, two commands alive at once, five commands, saved listings or edits of a plan: submit, run, cancel, retry and run again, or complete, with a store of one command between the load and the store of the other; any command may die anywhere. Both are theorems for any size |
| `Recovery_chain` | `ClosureReplays`, `Closes` | two project starts, so that the receipt passes one over; two disturbances: a death, somebody's command (ended after any of its writes), a write of the queue file, so that a claim is doubled, or unlinked, or outdated, at each place of the chain, and lines are torn |
| `Install_deaths` | `EvidenceIsTrue` (the refinement), `RollbackRestores` | three releases, five commands, two deaths, at any place: an update over an update that died, and a rollback after it |
| `Pulse_loop` | `RunsOnce`, `GreenToAdvance` | two packets; one death, failing read or torn line: a packet is done, replaced while it is run, and registered again; the operator's mirror and the generator's interleave. Both are theorems for any size |
| `Bug_lost_grant` | `NoLostGrant`, which a resume beside an approve violates | one runner and one approver that overlap, nothing else |

Every run switches deadlock detection off: a closed run, a decided ordering and
a finished publication are states in which the system rightly stops, and the
bounds on tickets, time and faults stop the environment.

`MaxTickets` bounds the requests of a run (a request is disabled once they are
used up); `MaxFaults`, `MaxTime`, `MaxDrift`, `MaxFault` bound the environment.
In `Run_sequential` the ticket bound is never what stops a
run: there are as many tickets as steps plus the first one.

### What the code does not keep

`Bug_lost_grant` is a run of the project: it checks a statement quoted from the
repository that the code does not keep (`PROJECT.json`, "findings", names the
lines). The other configurations are kept beside it as reproducible
counterexamples; each gives a shortest behaviour of the same specification.

| `tlc -config` | what happens |
|---|---|
| `Bug_lost_grant.cfg MCGovernedRun` | only `approve` takes the run lock; a resume that loaded the record before writes it back without the grant |
| `Bug_sandbox_after_crash.cfg MCGovernedRun` | a crash inside `copy_dir_recursive` leaves a partial sandbox; the next resume takes the directory's existence for a suspension ("If sandbox exists, we suspended and are now resuming", `lib.rs:1374`) and offers the missing files as deletions |
| `Bug_repair_budget.cfg MCGovernedRun` | every resume deletes `consumed-tickets.json`, so a second repair of a plain workflow finds the first repair's approved ticket stale and fails closed, at every resume: the run is never closed. An SDD workflow, whose main tasks have requesters of their own, gets one repair more |
| `Bug_late_push.cfg MCPublication` | `CallsInWindow`: the window of the push approval is looked at, two Git commands run, the window ends, and the push is sent (`github_issue_publication.rs:1721`; a test is named `apply_rechecks_expiry_immediately_before_each_write`) |
| `Bug_lost_result.cfg MCOutboundWorker` | a worker thread that posts an old refusal removes the file by name when it is done; by then it may hold the result of the same request, accepted at a later poll. The ledger says done, the result is never posted |
| `Bug_held_output.cfg MCWorkbenchQueue` | `CancelFrees` without the assumption on `Join`: a grandchild holds the pipe of a child that was cancelled and has ended; the worker waits for it |
| `Bug_lost_request.cfg MCFactoryQueue` | `HistoryKept`: an entry submitted while another command holds the list is dropped by that command's store (`factory_queue.rs:73`; every entry says `ao2_persists_queue_history_cancel_retry_state`) |
| `Bug_false_attestation.cfg MCFactoryQueue` | `AttestationTrue`: an entry is cancelled while it is executed, the listing saved then has no active entry, and it is attested that AO2 "has no in-flight AO2 run to cancel" |
| `Bug_two_starts.cfg MCFactoryQueue` | an entry is cancelled between the claim's load and its store, or taken by two commands at once; it is executed all the same |
| `Bug_poll_act.cfg MCFactoryQueue` | a `queue-project-start-complete` whose run-next took another entry writes that down, and fails; the entry asked for is later executed by `queue-run-next`; the poll then says "call complete", and complete refuses the file it finds, every time |
| `Bug_two_continuations.cfg MCRecovery` | two continuations overlap: both compare the digest and look for an earlier record before either appends, and both are recorded ("AO2 refused to record a duplicate recovery resume continuation", `factory_queue_recovery.rs:2158`). Neither can be used afterwards |
| `Bug_torn_memory.cfg MCRecovery` | `StaysReadable`: a command dies between a text and the end of its line, the next record lands on the same line, and every later readback fails (`memory_store.rs:545`, `:561`) |
| `Bug_stale_evidence.cfg MCInstaller` | `EvidenceVouches`: an update dies between copying the binary and copying its evidence to the rollback files; the rollback then puts the evidence of one release beside the binary of another |
| `Bug_unverified_batch.cfg MCPulseLoop` | `RunsWhatItVerified`: a registration replaces the packet after its digest was compared and before the tasks are read |

`Pulse_runs.cfg MCPulseLoop` passes: it checks `PacketRuns` (a registered packet is
begun unless the loop ends or the packet is replaced) without faults, under `FairSpec`,
and with a packet that asks not to be continued. It is kept for whoever changes the
loop, with an assumption on commands (section 5) that the code does not enforce.

The factory queue has no lock, and the two properties that its run checks are what is
left without one: `NoRunTwice` and `AcceptedIsEarned` hold for every interleaving, and
are proved so; that nothing is lost and that an attestation is true do not.

Known gaps that no run states: an approver that dies between the approval file
and the record leaves a grant the record never learns of, because the next
`approve` returns early; after a crash between checkpoint and record, replay
reports a digest failure until the next write; an approved ticket that expired
before the resume stops the run for good; a ticket whose request died before the
record was written can be approved after the run was accepted, which sets the
record back to waiting (`TerminalFinal` is checked without crashes); with a
budget of two repairs, a ticket forgotten by a resume can serve a later step with
the same digest, and already with a budget of one, or two in an SDD workflow, if
somebody puts the repository back in between (`OneStepPerTicket` is proved for two
steps of the implementer and no such change); with another digest the forgotten
ticket is stale there, and the step leaves a sandbox that no record knows of, which
needs a third step of the implementer or one failure of a provider
(`SandboxMeansSuspended` is proved without either); two overlapping runners share a sandbox directory, so
the apply of one may copy bytes the other has just put there (`LandsExactly` is
checked without overlap, and `PromotionsApproved` speaks of what is compared
when an apply begins); a sandbox that was not deleted, or only in part, is taken for a
suspended step, whose ticket is stale at every resume, so that the run is never closed
(with `Unlinks = 1` `Run_sequential` violates `Terminates`; `EvidenceAgrees` and
`LandsExactly` hold nevertheless, as `Run_crashes` shows). In the worker, a request whose process dies between
its claim and its result is never answered, and a cut journal line together with
a lost ledger file lets a request run again (`Remembers`).

In the workbench queue, a running job that is cancelled and then pruned, because
another request arrives before the worker has looked, is no longer seen as
cancelled: the worker waits for its child and applies its patches (both
properties on cancelling say "while the list has it"). If the file cannot be
written when a job is marked running, the job stays `running` in memory without
being run, until a restart. `retry` takes a job of any status, a running one
included. Children are in process groups of their own and survive the server;
the job is listed as interrupted while its process goes on. In the factory queue,
a command that dies leaves its entry `running`, and the poll says wait; for a
blocked or cancelled entry the poll has no decision and fails. A cancel or retry
of an entry under execution changes only its status, which the verdict later
replaces. In a recovery, a claim that is recorded twice or not linked is never named
again by a readback, and AO2 has no command that leads on from it. In the installer, an
update that is repeated after it died
keeps the new files as the rollback copy (on Windows possibly none). In the Pulse
loop, a batch runs again after a death between the tasks and the ledger line, after a
torn line, and while the ledger cannot be read; a death after the line leaves it
unpublished; with the gate switched off or its refresh skipped nothing is promised of
the pull request; a blocked pull request ends a loop that was told to run forever.

## 5. Fairness

`GovernedRun.FairSpec`: weak fairness of every started process (a process that
does not die runs on; the provider and the verifier have time limits), strong
fairness of the operator approving each pending ticket and resuming the run.
Strong, because between two commands the start of either is enabled and disabled
again. A verifier may fail for ever and a provider may produce anything:
termination has to come from the repair budget. No crash, drift or expiry is
assumed away by fairness: `Run_sequential` has none because with them the code
does not terminate (section 4).

`TaskOrder.FairOrderSpec`: the function keeps running. `Publication.FairSpec`: the
command keeps running and enforces its time limits; nothing is assumed of GitHub
or of the network.

`OutboundWorker.FairSpec`: threads run on, the process is started again (a
scheduled task), and, strongly, a board that the polling thread posts again and
again arrives at last: a network that is up now and then is all that a retry can
use. Posts may fail any number of times before, and crashes are not excluded.

`WorkbenchQueue.FairSpec`: the serving thread finishes the request it is
handling, the worker thread and the thread that ends a cancelled child run on, and what
an ended child has left running lets go of its output, so that the log writers can be
joined. The code does not enforce the last; `HeldSpec` is without it. Nothing is assumed of a job's process, which may never end, nor of requests.
`RecoveryChain.Spec`: weak fairness of the operator, who gives the next command
until the closure is ready, and whose commands run on unless they die; the
disturbances are bounded, not assumed away.
`PulseLoop.FairSpec` (of `Pulse_runs.cfg` only): the loop is one thread (`OwnStep`), and
the commands it waits for end (`CommandStep`). The latter is an assumption about the
commands: `run_command_str_in_dir` has no time limit. `FactoryQueue` and `Installer` are
checked for safety only: their commands are started by an operator and may die
anywhere.

## 6. What is proved

For every value of the constants that satisfies the assumptions named in the
modules that declare them (TLC evaluates these on each run):

* `TypeCorrect`: `Spec => []TypeOK` for `GovernedRun`. One step per action; the
  lemmas on records and locals say that each single assignment keeps them typed.
* `GrantsBacked`, `Approved`, `Final`: `GrantBacked`, `PromotionsApproved` and
  `GrantsAreFinal`. Their common inductive invariant is
  `GateInv == TypeOK /\ GrantBacked /\ FileFirst /\ TicketHeld /\ PromotionsApproved`.
  `PromotionsApproved` alone is not inductive: between the gate and the first
  file written, a runner has only its local `tkt`, and `TicketHeld` says that
  this ticket is granted and bound to the runner's requester and subject.
  `FileFirst` says that a ticket in any record or context has its approval file,
  which keeps a request from taking an id that another process's context still
  lists as approved. That grants and bindings never change is a lemma about
  single steps, and it is what keeps both stable while other processes move.
* `NoneInFlight`: `NoPendingInFlight`, by
  `FlightInv == TypeOK /\ GrantBacked /\ FileFirst /\ TicketFound /\ OneTicketFirst /\ NoPendingInFlight`.
  `OneTicketFirst` is needed for the first provider run, which looks for *some*
  approved ticket, not for the absence of pending ones: until
  `provider-options.json` exists there is only one ticket.
* `AcceptedLanded`: `AcceptedMeansLanded`, by `LandedInv`. A step is skipped when its
  provider summary is on record and its sandbox is gone; `SkipIsSafe` says that
  then it was applied, whoever did it, because a summary enters a context only
  together with a sandbox (`SummarySources`) and only `remove_dir_all` after an
  apply takes a sandbox away (`SandboxStays`). `Passed` carries this along each
  process to the verifier and to the closing write.
* `EvidenceTrue`, `LandedAsApproved`, `GrantsReachTheRecord`, `ReplayIsClean`,
  `ClosedForGood`, `TicketsAreUsedOnce` and `SandboxesAreOnRecord`: `EvidenceAgrees`,
  `LandsExactly`, `NoLostGrant`, `ReplayClean`, `TerminalFinal`, `OneStepPerTicket` and
  `SandboxMeansSuspended`, for any tasks, files and numbers of commands. These
  are the properties that the code keeps only when its commands do not get in each
  other's way, and each theorem assumes as little of that as it can:

  | theorem | assumes | what happens otherwise |
  |---|---|---|
  | `EvidenceTrue` | `OneContinuation`: one `ao2 run` or `ao2 resume` at a time; approvals overlap it, anything dies, files drift | two runners report and write the pack in turns |
  | `LandedAsApproved` | `OneContinuation`, `NoDrift` | the other runner writes the sandbox that is being copied, or somebody else the file that was just written |
  | `GrantsReachTheRecord` | `OnlyApprovalsOverlap`, no approver dies | `Bug_lost_grant.cfg`; the gap after the approval file (section 4) |
  | `ReplayIsClean` | `OnlyApprovalsOverlap`, no command dies | the checkpoint is written before the record |
  | `ClosedForGood` | `OnlyApprovalsOverlap`, no runner dies | a ticket whose request died is approved after the run was accepted |
  | `TicketsAreUsedOnce` | `OnlyApprovalsOverlap`, no runner dies, `NoDrift`, `RemovalsSucceed`, `TwoUnnamed` | a ticket forgotten by a resume serves the later step with the same digest |
  | `SandboxesAreOnRecord` | `OnlyApprovalsOverlap`, no runner dies, `NoProviderFails`, `RemovalsSucceed`, `TwoUnnamed` | `Bug_sandbox_after_crash.cfg`; a ticket forgotten by a resume is stale at the later step; what is left of an applied sandbox is taken for a suspended step |

  `OneContinuation` and `OnlyApprovalsOverlap` are conditions on the constant
  `Overlap`, `NoDeathOf(S)` and `NoDrift` on the fault budgets, so the runs that
  check these properties are instances. `TurnInv` is what they have in common:
  two processes that are under way may overlap (`Together`), and an approver that
  writes holds the run lock (`LockHeld`). On it rest `EvidenceInv` (from the verifier's report
  to the closing write, the runner's context carries the verdict that the pack
  shows, and the record is still open), `ApplyExact` (while an apply is under way, what is done
  already equals the approved tree and what is left still has its old bytes in the
  repository), `GrantInv` (a granted ticket is approved in the record, or in the
  context of the approver that is about to write it: `GrantUnderway`), `LastCheckpoint`
  (between commands, and up to the first write of one, the checkpoint is of the
  record) and `ClosedInv` (an open request is in the record, or the runner
  that made it is about to write it; a call closes only without one, and an approval
  is granted only while the run is waiting).

  The last two look across calls. Every resume deletes `consumed-tickets.json`, so what
  keeps a ticket from a second step is only that the steps come in order and differ.
  `TwoUnnamed` says that the implementer, the requester of every step that is not an
  SDD task, has two at most (one repair of a plain workflow, two of an SDD one).
  `OrderInv` is the order: a call comes to a step with every earlier one on record and
  their sandboxes gone (`InOrder`), a ticket is asked for when the steps up to its own
  are summarised, and recorded with it (`AskedInOrder`), and a sandbox that is left is
  that of a step on record (`LeftOnRecord`). `StepInv` adds what has been applied:
  the steps up to it are behind the run (`BehindRun`), what the implementer's first
  step wrote stays until the second is applied (`FirstStands`, where `NoDrift` and
  `ApplyExact` are used), so the second is previewed on that and is bound to another
  subject unless it changes nothing (`SubjectsDiffer`), and after it the run is closed
  (`SecondCloses`), so there is no third. `LeftInv` is about the second step, which may
  share the first one's requester but not its ticket: the call that applies the first
  either closes the run or goes on, with every ticket of the implementer consumed,
  until the second is on record (`OnToSecond`, by `OneFirst` and `NotSpent`); so a
  gate that finds a ticket at all is that of a step on record (`GateOnRecord`), and a
  call that stops anywhere else has written it (`LateLeft`). Every recorded step has a
  ticket (`Ticketed`), and the record lists it (`Listed`).
* `DraftIsClaimedOnce`, `ReportsStand`, `RetryWritesNothing` and `RetryIsNotRefused`
  (`OneCreator`, `ReportStands`, `RetryReadsOnly`, `RetrySucceeds`) and the type
  invariant of `Publication`, for any number of invocations, of changes by others and
  of unanswered calls. `PubInv` says where an invocation stands while GitHub has a call
  of it (`Asked`): it waits for the answer, or has given up, so that a late answer
  changes GitHub and nothing else. `CreatorInv` (a created pull request is claimed by
  one invocation, from the answer on) gives `OneCreator`. For `ReportStands`,
  `StandInv` adds that there is one open draft at most, whoever asked for it: a report
  read it as the approved one, and as long as nobody else has changed anything since, a
  late push finds the approved head and a late request for a draft is a conflict. For
  the retry, `QuietInv` says what is true while nobody else changes anything: the
  branch, once shown, stays what the approval names, there is one draft at most, and it
  is open on the right base (`Undrifted`); every invocation has read that in the order
  it asks (`Learnt`); and one that started after another was done only reads
  (`Follows`).
* `OrderIsTopological`, `OrderIsInjective`, `OrderIsComplete`, `OnlyRealCycles`:
  for listings of any length and any edges, by `OrderInv` (what is ordered is
  listed, is ordered once and after its dependencies; a pass without progress
  has left every task it looked at waiting). Completeness needs a counting
  argument, from the library's facts on cardinalities.

* `WorkbenchQueueProofs`: `TypesHold`, `ToldHolds`, `SettledHolds`, `CancelHolds`,
  for any number of jobs, any retention, restarts and faults. `ToldIsDurable` is
  inductive with `ServerInv` (what the serving thread is about to say is in
  `queue.json` already, and a cancelled job stays cancelled until it is pruned) and
  `IssuedInv` (an id that was not issued names nothing). `CancelHonoured` rests on
  `StopInv` (a queued job has no process; one that was cancelled while queued is
  not active, and the worker is never past `Take` with it) and on `WorkerInv` (from
  its start to its report the worker's job is running, cancelled, or pruned once
  cancelled).
* `FactoryQueueProofs`: `TypesHold`, `ListedOnce` (`NoRunTwice`) and `EarnedHolds`
  (`AcceptedIsEarned`) for any interleaving of loads, stores and deaths. Every list a
  command holds descends from a list without duplicates (`DistinctInv`). Every list,
  stored or held, accepts earned runs only, except that the list of a command with an
  accepted verdict accepts that run too, from the verdict to its store (`Accepts`,
  `Backed`, in `SoundInv`): a stale store can lose an acceptance but not invent one.
* `InstallerProofs`: `TypesHold`, `RollbackHolds`, `BinaryStaysHolds`, and
  `ImplementsActivation`: `Spec => EvidenceIsTrue`, with deaths at any place. The
  invariant says at each place of a command what the files hold: what an update that
  came to its end has kept is what it found (`KeptInv`), and, until an update dies
  between its two copies (`Bug_stale_evidence.cfg` shows what comes then), the evidence
  in place, and the evidence kept with the rollback copy, is that of the binary beside
  it, or missing (`EvidenceInv`); each file operation is then a step of `Activation` or a
  stutter.
* `PulseLoopProofs`: `TypesHold`, `RunsOnceHolds`, `GreenHolds`, for any number of
  packets, registrations, deaths and failing reads. What passed is in the ledger, or
  excused, or the batch that the loop is about to record (`DoneInv`); what is being run
  is not in the ledger unless it is excused (`BatchInv`), because only the loop writes
  to it; and with the refresh on, from the moment an iteration asks, the loop has seen
  the pull request green whenever it was, and a gate file that is not waiting at
  `Decide` was written by this iteration's refresh (`GreenInv`).
* `OutboundWorkerProofs`: `TypesHold`, `AtMostOnceHolds`, `NotOverwrittenHolds`, `ResultKeptHolds`, for
  any number of requests, threads, crashes and faults of every kind. A request
  that was started is `OnFile`: in the ledger until the ledger is damaged, in the
  journal until a line of it was cut off, and in the memory of a process that is
  up. As long as one of the two files is whole, a restart reads it back. What is
  being claimed is not known yet, and its journal line comes before its ledger
  entry (`ClaimInv`); a thread that runs is in the memory (`ThreadInv`); what has a
  result in the outbox, or a thread about to queue one, is on file (`BoardInv`). That a
  queued result stays until it was posted (`ResultKeptHolds`) needs only what a thread
  in the middle of sending may hold (`SentInv`): what it is about to remove has
  arrived, and is a refusal only of a request that was refused.
* `RecoveryChainProofs`: `ClosureHolds` (`ClosureReplays`), for any number of project
  starts, deaths, commands of others and writes of the queue. A claim or
  continuation status carries the lengths of the two files of memory, and was ready
  at those lengths when somebody was given it (`ClaimSound`, `ContinuationSound`);
  memory only grows (`Grown`), so that prefix never changes, and a write of the queue
  outdates every packet made before it, so a closure that is ready is one of the queue
  as it is. `ChainInv` asks this of every record and of the one about to be appended.

The theorems about the gate and about what an accepted run has landed hold for *any*
number of overlapping processes and crashes: the gate is sound even where the
book-keeping around it (section 4) is not.

`GrantsAreFinal`, `NoPendingInFlight`, `NoTaskTwice` and `BinaryStays` are proved and no run
checks them; the type invariants are proved and are part of the
inductive invariants.

Only model-checked: liveness (`Terminates`, `Decides`, `Delivered`, `CancelFrees`,
`Closes`); every safety property that a run checks is a theorem, under
the assumptions named above (and `NoLostGrant` is also refuted without them, by
`Bug_lost_grant`). Liveness under fairness and ENABLED are beyond the prover; so is
induction over data, and RECURSIVE operators, of which these modules have none.

## 7. What is not modelled, and why

* Of the governed run: the fixture-template path and the provider-free resume
  (no gate on a sandbox patch), the environment variable that lets a run approve
  its own patches in a loop, `run_health`, report texts, redaction.
* Files outside `snapshot_tree` (ignored directories); a patch is the files it
  changes.
* Collisions of SHA-256 digests.
* Of the worker: the actions themselves (child processes with time limits), the
  physical-host lease, the check of a signature.
* Of publication: the validation of the authority documents (pure comparison of
  JSON, before the first read), wording of errors.
* Of the workbench: the job's log files, reading the list, support bundles, the
  launch form; one server per target is taken for granted (a second one would
  rewrite the same file).
* Of the factory queue: attempts and transition history (written, never read
  back), digests of the artifacts a poll compares, bundles and packets beyond
  "packaged or not", the transition that a signed cancel authority makes.
* Of the recovery: what follows the closure. The evaluator's decision writes its
  payload, signs it and writes the decision, without a lock; the handoff, its
  status, summary, receipt, and the publication's readiness, dispatch, readback and
  closure packets are each derived by one call from files that are named and
  compared by digest. Of the memory store: search, export and publishing.
* Of the installer: mode bits, the extraction and verification of an archive
  (inputs), two installs at once. Of Pulse: the chained decision of
  `run_pulse_event_loop`, the options `--allow-duplicate` and `--generate-next 0`, two
  loops over one ledger, commands that outlive a loop that was killed, what tasks do.
* Parts with status `not_modelled` in `PROJECT.json`: left for later (section 2), or
  one-pass assembly of JSON documents with no state between steps.
