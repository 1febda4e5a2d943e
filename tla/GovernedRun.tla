----------------------------- MODULE GovernedRun -----------------------------
(***************************************************************************)
(* One provider-backed run of a real-project workflow                      *)
(* (crates/ao2-runtime/src/lib.rs): the files under .ao2/runs/<run-id> and *)
(* the ao2 processes that act on them.  An Approver is a process running   *)
(* `ao2 approve`; a Runner is one running `ao2 run --provider` or          *)
(* `ao2 resume`.  Only `ao2 approve` takes the run lock.                   *)
(*                                                                         *)
(* Each process step touches the shared files once, so that every          *)
(* interleaving of two processes and every crash point between two file    *)
(* operations of the code is a behaviour of this specification.            *)
(***************************************************************************)
EXTENDS SandboxPatch, FiniteSets

CONSTANTS
    Approvers, Runners,     \* ao2 processes, by the command they run
    NoProc,                 \* nobody holds the run lock
    MainSteps,              \* provider tasks before the verifier: 1, or the SDD tasks
    MaxRepair,              \* max_repair_attempts of provider-options.json
    Sdd,                    \* TRUE: the workflow is an SDD task graph
    InitialTree,            \* the target repository when the run starts
    ProviderTrees,          \* what a provider may leave in its sandbox
    MaxTickets,             \* bound on the tickets of one run
    Overlap,                \* processes the operator may run at the same time
    Mortal,                 \* processes that may die half-way
    MaxFaults               \* bound on crashes, drifts, failures of providers and of
                            \* removals, expiries

Procs == Approvers \cup Runners
Tickets == 1..MaxTickets
Steps == 1..(MainSteps + MaxRepair)
FaultKinds == {"crash", "drift", "fail", "expire", "unlink"}

ASSUME RunAssumption ==
    /\ Approvers \cap Runners = {}
    /\ NoProc \notin Approvers \cup Runners
    /\ MainSteps \in Nat \ {0}
    /\ MaxRepair \in Nat
    /\ Sdd \in BOOLEAN
    /\ ~Sdd => MainSteps = 1
    /\ InitialTree \in [Files -> Values \cup {Absent}]
    /\ ProviderTrees \subseteq [Files -> Values \cup {Absent}]
    /\ MaxTickets \in Nat \ {0}
    /\ Overlap \subseteq Approvers \cup Runners
    /\ Mortal \subseteq Approvers \cup Runners
    /\ MaxFaults \in [FaultKinds -> Nat]
    /\ NoSub \notin Subjects(0..MaxFaults["drift"])

VARIABLES
    target,     \* the working tree of the target repository
    head,       \* its HEAD commit
    sandbox,    \* sandbox-<role>-<action>: the persisted sandbox of each step
    status,     \* approvals/<ticket>.json: the ticket's status
    bound,      \* approvals/<ticket>.json: requester and action digest
    record,     \* run-record.json
    consumed,   \* consumed-tickets.json (no file: the empty set)
    opts,       \* provider-options.json exists
    chk,        \* approval tickets of the last integrity checkpoint event
    pack,       \* verdict of evidence-pack.json
    lock,       \* holder of <run_dir>/.lock
    pc, ctx,    \* each process: where it is, and its RunContext
    loc,        \* each process: the locals of its current call
    faults,     \* what has gone wrong so far, by kind
    expired,    \* tickets past expires_at
    promotions, \* history: the applications begun, with ticket and subject
    landed      \* history: the steps whose patch was applied to the last file

repo == <<target, head>>
tickets == <<status, bound>>
files == <<record, consumed, opts, chk, pack>>
history == <<promotions, landed>>
vars == <<target, head, sandbox, status, bound, record, consumed, opts, chk,
          pack, lock, pc, ctx, loc, faults, expired, promotions, landed>>

-----------------------------------------------------------------------------
(* The run record, and what a process holds in memory.                     *)

TicketStatus == {"none", "pending", "approved"}
Terminal == {"accepted", "rejected"}
Heads == 0..MaxFaults["drift"]

\* The principal of the sandbox:apply request: the SDD task, or the implementer.
Implementer == 0
Requester(s) == IF Sdd /\ s <= MainSteps THEN s ELSE Implementer
Requesters == 0..MainSteps

\* A sandbox:apply ticket is bound to a requester and an exact subject.  The
\* ticket of `ao2 run` itself (filesystem:write_file) is bound to neither.
NoBinding == [req |-> Implementer, sub |-> NoSub]
Bindings == [req : Requesters, sub : Subjects(Heads) \cup {NoSub}]

\* run-record.json; done stands for the provider_transcript_summary artifacts,
\* verdict for the last closure report.
Records == [st      : {"waiting"} \cup Terminal,
            tix     : [Tickets -> TicketStatus],
            done    : SUBSET Steps,
            verdict : {"blocked"} \cup Terminal]

FirstTicket == 1
NewTickets == [t \in Tickets |-> IF t = FirstTicket THEN "pending" ELSE "none"]
NewRecord == [st |-> "waiting", tix |-> NewTickets, done |-> {},
              verdict |-> "blocked"]

Locals == [step : Steps, sub : Subjects(Heads) \cup {NoSub},
           tkt  : Tickets, seen : SUBSET Tickets,
           out  : Trees, todo : SUBSET Files,
           end  : {"waiting"} \cup Terminal]
NoLocals == [step |-> 1, sub |-> NoSub, tkt |-> FirstTicket, seen |-> {},
             out |-> EmptyTree, todo |-> {}, end |-> "waiting"]

ApproverPCs == {"a_lock", "a_grant", "a_load", "a_check", "a_write"}
RunnerPCs == {"clear", "enter", "provider", "copy", "gate", "w_check",
              "w_write", "recheck", "apply_check", "apply", "remove",
              "consume", "verify", "export", "f_check", "f_write"}
PCs == {"idle"} \cup ApproverPCs \cup RunnerPCs

HasPending(tix) == \E t \in Tickets : tix[t] = "pending"
HasApproved(tix) == \E t \in Tickets : tix[t] = "approved"

Goto(p, l) == pc' = [pc EXCEPT ![p] = l]

\* The call returns, with a value or an error: its locals are gone.
Return(p) ==
    /\ Goto(p, "idle")
    /\ loc' = [loc EXCEPT ![p] = NoLocals]
    /\ ctx' = [ctx EXCEPT ![p] = NewRecord]

AtRest == \A p \in Procs : pc[p] = "idle"

\* Commands outside Overlap run alone.
MayStart(p) ==
    /\ pc[p] = "idle"
    /\ \A q \in Procs : pc[q] # "idle" => {p, q} \subseteq Overlap

Fault(k) ==
    /\ faults[k] < MaxFaults[k]
    /\ faults' = [faults EXCEPT ![k] = @ + 1]

-----------------------------------------------------------------------------
\* The state start_risky_pr_provider_free leaves: one pending ticket, recorded.
Init ==
    /\ target = InitialTree
    /\ head = 0
    /\ sandbox = [s \in Steps |-> NoTree]
    /\ status = NewTickets
    /\ bound = [t \in Tickets |-> NoBinding]
    /\ record = NewRecord
    /\ consumed = {}
    /\ opts = FALSE
    /\ chk = NewTickets
    /\ pack = "blocked"
    /\ lock = NoProc
    /\ pc = [p \in Procs |-> "idle"]
    /\ ctx = [p \in Procs |-> NewRecord]
    /\ loc = [p \in Procs |-> NoLocals]
    /\ faults = [k \in FaultKinds |-> 0]
    /\ expired = {}
    /\ promotions = {}
    /\ landed = {}

-----------------------------------------------------------------------------
(* approve_risky_pr_ticket                                                 *)

\* find_approval_path: some run holds the ticket.
ApproveStart(p, t) ==
    /\ MayStart(p)
    /\ status[t] # "none"
    /\ Goto(p, "a_lock")
    /\ loc' = [loc EXCEPT ![p].tkt = t]
    /\ UNCHANGED <<repo, sandbox, tickets, files, lock, ctx, faults, expired, history>>

\* Mutated form: the lock is not waited for.
LockFree_Ignored == TRUE
LockFree == lock = NoProc

\* RunLock::acquire blocks until the lock is free.
ApproveLock(p) ==
    /\ pc[p] = "a_lock"
    /\ LockFree
    /\ lock' = p
    /\ Goto(p, "a_grant")
    /\ UNCHANGED <<repo, sandbox, tickets, files, ctx, loc, faults, expired, history>>

\* An approved ticket is returned as it is.
ApproveAlready(p) ==
    /\ pc[p] = "a_grant"
    /\ status[loc[p].tkt] = "approved"
    /\ lock' = NoProc
    /\ Return(p)
    /\ UNCHANGED <<repo, sandbox, tickets, files, faults, expired, history>>

\* Mutated form: the approval file keeps its old status.
GrantFile_Unwritten(t) == status
GrantFile(t) == [status EXCEPT ![t] = "approved"]

\* grant_exact, then atomic_write of the approval file.
ApproveGrant(p) ==
    /\ pc[p] = "a_grant"
    /\ status[loc[p].tkt] # "approved"
    /\ status' = GrantFile(loc[p].tkt)
    /\ Goto(p, "a_load")
    /\ UNCHANGED <<repo, sandbox, bound, files, lock, ctx, loc, faults, expired, history>>

\* Mutated form: replace_ticket is left out.
ReplaceTicket_Omitted(t) == record
ReplaceTicket(t) == [record EXCEPT !.tix[t] = "approved"]

\* load_run_context and replace_ticket.
ApproveLoad(p) ==
    /\ pc[p] = "a_load"
    /\ ctx' = [ctx EXCEPT ![p] = ReplaceTicket(loc[p].tkt)]
    /\ Goto(p, "a_check")
    /\ UNCHANGED <<repo, sandbox, tickets, files, lock, loc, faults, expired, history>>

\* Mutated form: the digests are those of the record on disk.
Checkpoint_OfRecord(p) == chk' = record.tix
Checkpoint(p) == chk' = ctx[p].tix

\* write_run_record, first half: the checkpoint event is appended and synced.
ApproveCheckpoint(p) ==
    /\ pc[p] = "a_check"
    /\ Checkpoint(p)
    /\ Goto(p, "a_write")
    /\ UNCHANGED <<repo, sandbox, tickets, record, consumed, opts, pack, lock,
                   ctx, loc, faults, expired, history>>

\* write_run_record, second half: the record is replaced; the lock is dropped.
ApproveWrite(p) ==
    /\ pc[p] = "a_write"
    /\ record' = [ctx[p] EXCEPT !.st = "waiting"]
    /\ lock' = NoProc
    /\ Return(p)
    /\ UNCHANGED <<repo, sandbox, tickets, consumed, opts, chk, pack, faults,
                   expired, history>>

-----------------------------------------------------------------------------
(* run_risky_pr_with_provider_prompt and resume_risky_pr_provider_free     *)

LoadContext(p) ==
    /\ ctx' = [ctx EXCEPT ![p] = record]
    /\ Goto(p, "clear")

\* The provider-backed run continues once some ticket is approved, and saves
\* provider-options.json for the resumes to come.
ProviderRun(p) ==
    /\ MayStart(p)
    /\ ~opts
    /\ record.st = "waiting"
    /\ HasApproved(record.tix)
    /\ opts' = TRUE
    /\ LoadContext(p)
    /\ UNCHANGED <<repo, sandbox, tickets, record, consumed, chk, pack, lock,
                   loc, faults, expired, history>>

\* Mutated form: any status may be resumed.
Resumable_Always == TRUE
Resumable == record.st = "waiting"

Undecided == HasPending(record.tix)

\* A resume refuses a run that is not waiting, or that has a pending ticket.
ResumeStart(p) ==
    /\ MayStart(p)
    /\ opts
    /\ Resumable
    /\ ~Undecided
    /\ LoadContext(p)
    /\ UNCHANGED <<repo, sandbox, tickets, files, lock, loc, faults, expired, history>>

\* Either call begins by removing consumed-tickets.json.
ClearConsumed(p) ==
    /\ pc[p] = "clear"
    /\ consumed' = {}
    /\ Goto(p, "enter")
    /\ UNCHANGED <<repo, sandbox, tickets, record, opts, chk, pack, lock, ctx,
                   loc, faults, expired, history>>

-----------------------------------------------------------------------------
(* apply_provider_prompt_patch_for_role: one provider step                 *)

\* After the last main task the verifier runs; before it, the next task does.
StepDone(p) ==
    IF loc[p].step < MainSteps
      THEN /\ loc' = [loc EXCEPT ![p] = [NoLocals EXCEPT !.step = loc[p].step + 1]]
           /\ Goto(p, "enter")
      ELSE /\ loc' = [loc EXCEPT ![p] = [NoLocals EXCEPT !.step = loc[p].step]]
           /\ Goto(p, "verify")

\* Mutated form: the summary alone is taken for an applied step.
AppliedBefore_BySummary(p) == loc[p].step \in ctx[p].done
AppliedBefore(p) == loc[p].step \in ctx[p].done /\ sandbox[loc[p].step] = NoTree

\* summary_exists && !sandbox_exists: the step was applied by an earlier call.
EnterSkip(p) ==
    /\ pc[p] = "enter"
    /\ AppliedBefore(p)
    /\ StepDone(p)
    /\ UNCHANGED <<repo, sandbox, tickets, files, lock, ctx, faults, expired, history>>

\* "If sandbox exists, we suspended and are now resuming."
EnterPersisted(p) ==
    /\ pc[p] = "enter"
    /\ sandbox[loc[p].step] # NoTree
    /\ loc' = [loc EXCEPT ![p].sub = Preview(head, target, sandbox[loc[p].step])]
    /\ Goto(p, "gate")
    /\ UNCHANGED <<repo, sandbox, tickets, files, lock, ctx, faults, expired, history>>

EnterProvider(p) ==
    /\ pc[p] = "enter"
    /\ loc[p].step \notin ctx[p].done
    /\ sandbox[loc[p].step] = NoTree
    /\ Goto(p, "provider")
    /\ UNCHANGED <<repo, sandbox, tickets, files, lock, ctx, loc, faults, expired, history>>

\* Mutated form: the summary is not listed among the artifacts.
Summarised_Not(p) == ctx[p].done
Summarised(p) == ctx[p].done \cup {loc[p].step}

\* The provider works in a temporary sandbox; its transcript summary becomes an
\* artifact of the context, the patch is previewed, and copy_dir_recursive
\* begins by creating the persisted sandbox directory.
ProviderCall(p) ==
    /\ pc[p] = "provider"
    /\ \E tree \in ProviderTrees :
          LET s == loc[p].step IN
          /\ loc' = [loc EXCEPT ![p].out = tree,
                                ![p].sub = Preview(head, target, tree),
                                ![p].todo = {f \in Files : tree[f] # Absent}]
          /\ ctx' = [ctx EXCEPT ![p].done = Summarised(p)]
          /\ sandbox' = [sandbox EXCEPT ![s] = IF @ = NoTree THEN EmptyTree ELSE @]
    /\ Goto(p, "copy")
    /\ UNCHANGED <<repo, tickets, files, lock, faults, expired, history>>

\* A blocker (time-out, non-zero exit): the call fails, the record is not written.
ProviderFail(p) ==
    /\ pc[p] = "provider"
    /\ Fault("fail")
    /\ Return(p)
    /\ UNCHANGED <<repo, sandbox, tickets, files, lock, expired, history>>

\* copy_dir_recursive: file by file, over whatever the directory holds.
CopyFile(p) ==
    /\ pc[p] = "copy"
    /\ \E f \in loc[p].todo :
          /\ sandbox' = [sandbox EXCEPT ![loc[p].step] = CopyInto(@, f, loc[p].out[f])]
          /\ loc' = [loc EXCEPT ![p].todo = @ \ {f}]
    /\ UNCHANGED <<repo, tickets, files, lock, pc, ctx, faults, expired, history>>

CopyDone(p) ==
    /\ pc[p] = "copy"
    /\ loc[p].todo = {}
    /\ Goto(p, "gate")
    /\ UNCHANGED <<repo, sandbox, tickets, files, lock, ctx, loc, faults, expired, history>>

\* Tickets of this context for the step's requester, not listed as consumed.
Usable(p) ==
    {t \in Tickets : /\ ctx[p].tix[t] = "approved"
                     /\ bound[t].sub # NoSub
                     /\ bound[t].req = Requester(loc[p].step)
                     /\ t \notin consumed}

\* Mutated form: any usable ticket will do.
Exact_AnyDigest(p) == Usable(p)
Exact(p) == {t \in Usable(p) : bound[t].sub = loc[p].sub}

\* The oldest of them, which is the first in the record's order.
Chosen(p) == {t \in Exact(p) : \A u \in Exact(p) : t <= u}

\* No ticket for this digest, but one for another digest: the gate fails closed.
GateStale(p) ==
    /\ pc[p] = "gate"
    /\ Exact(p) = {}
    /\ Usable(p) # {}
    /\ Return(p)
    /\ UNCHANGED <<repo, sandbox, tickets, files, lock, faults, expired, history>>

\* create_approval_ticket takes an identifier no other ticket has.
NewTicket(p, t) ==
    /\ status[t] = "none"
    /\ \A u \in Tickets : u < t => status[u] # "none"

\* Neither: a ticket is created, its file is written, and the context lists it.
\* (The code first looks for a pending ticket of the same digest in the context;
\* NoPendingInFlight says there is none.)
GateRequest(p) ==
    /\ pc[p] = "gate"
    /\ Usable(p) = {}
    /\ \E t \in Tickets :
          /\ NewTicket(p, t)
          /\ status' = [status EXCEPT ![t] = "pending"]
          /\ bound' = [bound EXCEPT ![t] = [req |-> Requester(loc[p].step),
                                            sub |-> loc[p].sub]]
          /\ ctx' = [ctx EXCEPT ![p].tix[t] = "pending"]
    /\ Goto(p, "w_check")
    /\ UNCHANGED <<repo, sandbox, files, lock, loc, faults, expired, history>>

\* write_run_record(WaitingForApproval): checkpoint event, then the record.
WaitCheckpoint(p) ==
    /\ pc[p] = "w_check"
    /\ Checkpoint(p)
    /\ Goto(p, "w_write")
    /\ UNCHANGED <<repo, sandbox, tickets, record, consumed, opts, pack, lock,
                   ctx, loc, faults, expired, history>>

WaitWrite(p) ==
    /\ pc[p] = "w_write"
    /\ record' = [ctx[p] EXCEPT !.st = "waiting"]
    /\ loc' = [loc EXCEPT ![p].end = "waiting"]
    /\ Goto(p, "export")
    /\ UNCHANGED <<repo, sandbox, tickets, consumed, opts, chk, pack, lock, ctx,
                   faults, expired, history>>

\* An approved ticket for this very digest: refused once expired.
GateExpired(p) ==
    /\ pc[p] = "gate"
    /\ \E t \in Chosen(p) : t \in expired
    /\ Return(p)
    /\ UNCHANGED <<repo, sandbox, tickets, files, lock, faults, expired, history>>

GateApproved(p) ==
    /\ pc[p] = "gate"
    /\ \E t \in Chosen(p) \ expired :
          loc' = [loc EXCEPT ![p].tkt = t, ![p].seen = consumed]
    /\ Goto(p, "recheck")
    /\ UNCHANGED <<repo, sandbox, tickets, files, lock, ctx, faults, expired, history>>

-----------------------------------------------------------------------------
(* The apply: two more previews, then apply_sandbox_patch file by file     *)

SandboxUnchanged(p) ==
    /\ sandbox[loc[p].step] # NoTree
    /\ Preview(head, target, sandbox[loc[p].step]) = loc[p].sub

\* The preview recomputed by the runtime, and again inside apply_sandbox_patch.
ApplyRefused(p) ==
    /\ pc[p] \in {"recheck", "apply_check"}
    /\ ~SandboxUnchanged(p)
    /\ Return(p)
    /\ UNCHANGED <<repo, sandbox, tickets, files, lock, faults, expired, history>>

Recheck(p) ==
    /\ pc[p] = "recheck"
    /\ SandboxUnchanged(p)
    /\ Goto(p, "apply_check")
    /\ UNCHANGED <<repo, sandbox, tickets, files, lock, ctx, loc, faults, expired, history>>

ApplyBegin(p) ==
    /\ pc[p] = "apply_check"
    /\ SandboxUnchanged(p)
    /\ loc' = [loc EXCEPT ![p].todo = DOMAIN loc[p].sub.ops]
    /\ promotions' = promotions \cup
          {[tkt |-> loc[p].tkt, step |-> loc[p].step, sub |-> loc[p].sub]}
    /\ Goto(p, "apply")
    /\ UNCHANGED <<repo, sandbox, tickets, files, lock, ctx, faults, expired, landed>>

\* An addition or a modification copies what the sandbox holds by now.
Source(p, f) == IF sandbox[loc[p].step] = NoTree THEN Absent
                ELSE sandbox[loc[p].step][f]

\* Mutated form: a deleted file is left where it is.
FileAfter_KeepsDeleted(p, f) ==
    IF loc[p].sub.ops[f].after = Absent THEN target[f] ELSE Source(p, f)
FileAfter(p, f) ==
    IF loc[p].sub.ops[f].after = Absent THEN Absent ELSE Source(p, f)

\* fs::copy fails when the sandbox file is gone.
Copyable(p, f) == loc[p].sub.ops[f].after = Absent \/ Source(p, f) # Absent

ApplyFile(p) ==
    /\ pc[p] = "apply"
    /\ \E f \in loc[p].todo :
          /\ Copyable(p, f)
          /\ target' = [target EXCEPT ![f] = FileAfter(p, f)]
          /\ loc' = [loc EXCEPT ![p].todo = @ \ {f}]
    /\ UNCHANGED <<head, sandbox, tickets, files, lock, pc, ctx, faults, expired, history>>

ApplyFail(p) ==
    /\ pc[p] = "apply"
    /\ \E f \in loc[p].todo : ~Copyable(p, f)
    /\ Return(p)
    /\ UNCHANGED <<repo, sandbox, tickets, files, lock, faults, expired, history>>

ApplyDone(p) ==
    /\ pc[p] = "apply"
    /\ loc[p].todo = {}
    /\ landed' = landed \cup {loc[p].step}
    /\ Goto(p, "remove")
    /\ UNCHANGED <<repo, sandbox, tickets, files, lock, ctx, loc, faults, expired, promotions>>

\* fs::remove_dir_all of the sandbox: its files go one by one and the directory last.  An
\* error ends it there and is ignored.
RemoveSandbox(p) ==
    LET s == loc[p].step
        left == IF sandbox[s] = NoTree THEN {} ELSE {f \in Files : sandbox[s][f] # Absent}
    IN  /\ pc[p] = "remove"
        /\ \/ /\ \E f \in left : sandbox' = [sandbox EXCEPT ![s][f] = Absent]
              /\ UNCHANGED <<pc, faults>>
           \/ /\ left = {}
              /\ sandbox' = [sandbox EXCEPT ![s] = NoTree]
              /\ Goto(p, "consume") /\ UNCHANGED faults
           \/ Fault("unlink") /\ Goto(p, "consume") /\ UNCHANGED sandbox
        /\ UNCHANGED <<repo, tickets, files, lock, ctx, loc, expired, history>>

\* Mutated form: the ticket is not added.
ConsumedAfter_Forgotten(p) == loc[p].seen
ConsumedAfter(p) == loc[p].seen \cup {loc[p].tkt}

\* The list read at the gate, with this ticket, is written back.
Consume(p) ==
    /\ pc[p] = "consume"
    /\ consumed' = ConsumedAfter(p)
    /\ StepDone(p)
    /\ UNCHANGED <<repo, sandbox, tickets, record, opts, chk, pack, lock, ctx,
                   faults, expired, history>>

-----------------------------------------------------------------------------
(* run_real_project_provider_workflow after the main tasks: the verifier,  *)
(* the repair loop, and the closing writes                                 *)

\* Mutated form: no closure report is pushed.
Close_Unreported(p, verdict, end) ==
    /\ loc' = [loc EXCEPT ![p].end = end]
    /\ Goto(p, "export")
    /\ UNCHANGED ctx

Close(p, verdict, end) ==
    /\ ctx' = [ctx EXCEPT ![p].verdict = verdict]
    /\ loc' = [loc EXCEPT ![p].end = end]
    /\ Goto(p, "export")

VerifyPass(p) ==
    /\ pc[p] = "verify"
    /\ Close(p, "accepted", "accepted")
    /\ UNCHANGED <<repo, sandbox, tickets, files, lock, faults, expired, history>>

AttemptLeft(p) == loc[p].step < MainSteps + MaxRepair

\* The verifier fails and another repair attempt is allowed.
VerifyRetry(p) ==
    /\ pc[p] = "verify"
    /\ AttemptLeft(p)
    /\ loc' = [loc EXCEPT ![p] = [NoLocals EXCEPT !.step = loc[p].step + 1]]
    /\ Goto(p, "enter")
    /\ UNCHANGED <<repo, sandbox, tickets, files, lock, ctx, faults, expired, history>>

\* The verifier fails and the repair budget is spent.  (The code would wait
\* instead if the context still held a pending ticket; see NoPendingInFlight.)
VerifyExhausted(p) ==
    /\ pc[p] = "verify"
    /\ ~AttemptLeft(p)
    /\ Close(p, "rejected", "rejected")
    /\ UNCHANGED <<repo, sandbox, tickets, files, lock, faults, expired, history>>

\* export_evidence_pack.
Export(p) ==
    /\ pc[p] = "export"
    /\ pack' = ctx[p].verdict
    /\ Goto(p, "f_check")
    /\ UNCHANGED <<repo, sandbox, tickets, record, consumed, opts, chk, lock,
                   ctx, loc, faults, expired, history>>

FinalCheckpoint(p) ==
    /\ pc[p] = "f_check"
    /\ Checkpoint(p)
    /\ Goto(p, "f_write")
    /\ UNCHANGED <<repo, sandbox, tickets, record, consumed, opts, pack, lock,
                   ctx, loc, faults, expired, history>>

FinalWrite(p) ==
    /\ pc[p] = "f_write"
    /\ record' = [ctx[p] EXCEPT !.st = loc[p].end]
    /\ Return(p)
    /\ UNCHANGED <<repo, sandbox, tickets, consumed, opts, chk, pack, lock,
                   faults, expired, history>>

-----------------------------------------------------------------------------
(* What happens around the processes                                       *)

\* A process dies between two of its steps; the OS releases its lock.
Crash(p) ==
    /\ p \in Mortal
    /\ pc[p] # "idle"
    /\ Fault("crash")
    /\ lock' = IF lock = p THEN NoProc ELSE lock
    /\ Return(p)
    /\ UNCHANGED <<repo, sandbox, tickets, files, expired, history>>

\* Somebody edits a file of the target repository, or commits to it.
Edit(f, v) ==
    /\ Fault("drift")
    /\ target[f] # v
    /\ target' = [target EXCEPT ![f] = v]
    /\ UNCHANGED <<head, sandbox, tickets, files, lock, pc, ctx, loc, expired, history>>

Commit ==
    /\ Fault("drift")
    /\ head' = head + 1
    /\ UNCHANGED <<target, sandbox, tickets, files, lock, pc, ctx, loc, expired, history>>

\* Thirty minutes pass since a ticket was created.
Expire(t) ==
    /\ Fault("expire")
    /\ status[t] # "none"
    /\ t \notin expired
    /\ expired' = expired \cup {t}
    /\ UNCHANGED <<repo, sandbox, tickets, files, lock, pc, ctx, loc, history>>

-----------------------------------------------------------------------------
ApproverStep(p) ==
    \/ ApproveLock(p) \/ ApproveAlready(p) \/ ApproveGrant(p) \/ ApproveLoad(p)
    \/ ApproveCheckpoint(p) \/ ApproveWrite(p)

GateStep(p) ==
    \/ EnterSkip(p) \/ EnterPersisted(p) \/ EnterProvider(p)
    \/ ProviderCall(p) \/ ProviderFail(p) \/ CopyFile(p) \/ CopyDone(p)
    \/ GateStale(p) \/ GateRequest(p) \/ WaitCheckpoint(p) \/ WaitWrite(p)
    \/ GateExpired(p) \/ GateApproved(p)

ApplyStep(p) ==
    \/ ApplyRefused(p) \/ Recheck(p) \/ ApplyBegin(p) \/ ApplyFile(p)
    \/ ApplyFail(p) \/ ApplyDone(p) \/ RemoveSandbox(p) \/ Consume(p)

CloseStep(p) ==
    \/ VerifyPass(p) \/ VerifyRetry(p) \/ VerifyExhausted(p)
    \/ Export(p) \/ FinalCheckpoint(p) \/ FinalWrite(p)

RunnerStep(p) == ClearConsumed(p) \/ GateStep(p) \/ ApplyStep(p) \/ CloseStep(p)

Environment ==
    \/ \E p \in Procs : Crash(p)
    \/ \E f \in Files, v \in Content : Edit(f, v)
    \/ Commit
    \/ \E t \in Tickets : Expire(t)

Next ==
    \/ \E p \in Approvers : ApproverStep(p) \/ \E t \in Tickets : ApproveStart(p, t)
    \/ \E p \in Runners : RunnerStep(p) \/ ProviderRun(p) \/ ResumeStart(p)
    \/ Environment

Spec == Init /\ [][Next]_vars

\* A started command runs on; the operator keeps approving every ticket on
\* offer and keeps resuming the run.  Nothing else is fair: a verifier may fail
\* for ever, a provider may produce anything.
Fairness ==
    /\ \A p \in Approvers : WF_vars(ApproverStep(p))
    /\ \A p \in Runners : WF_vars(RunnerStep(p))
    /\ \A t \in Tickets : SF_vars(\E p \in Approvers : status[t] = "pending" /\ ApproveStart(p, t))
    /\ SF_vars(\E p \in Runners : ProviderRun(p) \/ ResumeStart(p))

FairSpec == Spec /\ Fairness

-----------------------------------------------------------------------------
(* Properties                                                              *)

\* Type invariant of the repository, the run directory and the processes.
RepoOK ==
    /\ target \in Trees
    /\ head \in Heads
    /\ sandbox \in [Steps -> Trees \cup {NoTree}]

TicketsOK ==
    /\ status \in [Tickets -> TicketStatus]
    /\ bound \in [Tickets -> Bindings]

FilesOK ==
    /\ record \in Records
    /\ consumed \subseteq Tickets
    /\ opts \in BOOLEAN
    /\ chk \in [Tickets -> TicketStatus]
    /\ pack \in {"blocked"} \cup Terminal
    /\ lock \in Procs \cup {NoProc}

ProcsOK ==
    /\ pc \in [Procs -> PCs]
    /\ ctx \in [Procs -> Records]
    /\ loc \in [Procs -> Locals]

FaultsOK ==
    /\ faults \in [FaultKinds -> Nat]
    /\ \A k \in FaultKinds : faults[k] <= MaxFaults[k]
    /\ head <= faults["drift"]
    /\ expired \subseteq Tickets

HistoryOK ==
    /\ promotions \subseteq [tkt : Tickets, step : Steps, sub : Subjects(Heads)]
    /\ landed \subseteq Steps

TypeOK == RepoOK /\ TicketsOK /\ FilesOK /\ ProcsOK /\ FaultsOK /\ HistoryOK

\* No approval comes from anywhere but `ao2 approve`: a ticket that run-record.json,
\* or the context a process will write there, shows as approved has been granted
\* in its approval file, whatever processes overlap or crash.
GrantBacked ==
    \A t \in Tickets :
        /\ record.tix[t] = "approved" => status[t] = "approved"
        /\ \A p \in Procs : ctx[p].tix[t] = "approved" => status[t] = "approved"

\* Every application of a sandbox to the repository was begun under a granted
\* ticket bound to that requester and to exactly that subject (base commit and
\* before and after state of every file).
PromotionsApproved ==
    \A m \in promotions :
        /\ status[m.tkt] = "approved"
        /\ bound[m.tkt] = [req |-> Requester(m.step), sub |-> m.sub]

\* A runner that is on its way to the gate, or past it, holds no undecided ticket:
\* it never requests a second approval while one is open, never finds a pending
\* ticket to use again, and the verifier never runs under an open request.
NoPendingInFlight ==
    \A p \in Runners :
        pc[p] \in RunnerPCs \ {"w_check", "w_write", "export", "f_check", "f_write"}
            => ~HasPending(ctx[p].tix)

\* A granted ticket stays granted and a ticket's binding never changes once its
\* file exists: nothing rewrites what the human approved.
GrantsAreFinal ==
    [][\A t \in Tickets :
          /\ status[t] = "approved" => status'[t] = "approved"
          /\ status[t] # "none" => bound'[t] = bound[t]]_vars

\* Between commands, a grant that was made is in the run record, where a resume
\* looks for it: no process has dropped another's update.
NoLostGrant ==
    AtRest => \A t \in Tickets : status[t] = "approved" => record.tix[t] = "approved"

\* Between commands, the last integrity checkpoint of events.jsonl is that of the
\* run record, so replay_run reports no digest failure.
ReplayClean == AtRest => chk = record.tix

\* An accepted or rejected run stays so (resume refuses it, approve has no
\* pending ticket left to grant).
TerminalFinal == [][record.st \in Terminal => record'.st = record.st]_vars

\* One ticket promotes the (non-empty) patch of at most one step: a consumed
\* ticket is not used again for another sandbox.
OneStepPerTicket ==
    \A m, n \in promotions :
        (m.tkt = n.tkt /\ DOMAIN m.sub.ops # {}) => m.step = n.step

\* A run is accepted only after the patch of each main task has been applied to
\* its last file; a step is never skipped because its sandbox was merely lost.
AcceptedMeansLanded ==
    record.st = "accepted" => (1..MainSteps) \subseteq landed

\* The closing status, the last closure report and the evidence pack agree.
EvidenceAgrees ==
    record.st \in Terminal => record.verdict = record.st /\ pack = record.st

\* When an apply finishes, the files of its subject are as approved.
LandsExactly ==
    \A p \in Runners : pc[p] = "remove" =>
        \A f \in DOMAIN loc[p].sub.ops : target[f] = loc[p].sub.ops[f].after

\* Between commands, a persisted sandbox belongs to a step the run suspended at:
\* its provider call is recorded and a ticket was requested for it.
SandboxMeansSuspended ==
    AtRest => \A s \in Steps : sandbox[s] # NoTree =>
        /\ s \in record.done
        /\ \E t \in Tickets : record.tix[t] # "none" /\ bound[t].req = Requester(s)
                              /\ bound[t].sub # NoSub

\* With an operator who approves and resumes, the run ends accepted or rejected:
\* the repair loop retries until the verifier passes or the budget is spent.
Terminates == <>(record.st \in Terminal)
=============================================================================
