----------------------------- MODULE Publication -----------------------------
(***************************************************************************)
(* Publishing an approved repair on GitHub: apply_publication_plan and     *)
(* apply_with_transport (crates/ao2-runtime/src/github_issue_publication   *)
(* .rs).  The plan carries two approvals, one for the fork and the branch, *)
(* one for the draft pull request, each with a window of time.  Nothing is *)
(* stored on this side: an invocation reads what is there, writes what is  *)
(* missing and reads it back, and a retry is one more invocation.  GitHub, *)
(* the network and the other people with write access are the environment. *)
(***************************************************************************)
EXTENDS Naturals, Sequences, FiniteSets

CONSTANTS
    Calls,          \* invocations of the command, at once or one after another
    ForkReads,      \* re-reads after a fork is created
    BranchReads,    \* re-reads after a branch is pushed
    From, Until,    \* the approval windows, by operation
    MaxTime,        \* bound: the clock
    MaxDrift,       \* bound: changes others make on GitHub
    MaxFault        \* bound: reads that fail

Ops == {"fork", "push", "draft"}

ASSUME PublicationAssumption ==
    /\ ForkReads \in Nat \ {0} /\ BranchReads \in Nat \ {0}
    /\ From \in [Ops -> Nat] /\ Until \in [Ops -> Nat]
    /\ MaxTime \in Nat /\ MaxDrift \in Nat /\ MaxFault \in Nat

VARIABLES
    base,       \* tip of the upstream default branch
    fork,       \* the repository of the approved fork's name
    branch,     \* tip of the repair branch in the fork
    shown,      \* what a reader is told the tip is
    pulls,      \* pull requests from that branch into the default branch
    asks,       \* write requests under way
    reply,      \* invocation -> the answer it waits for
    run,        \* invocation -> where it is and what it knows
    now,
    drifts, faults,
    made, before, told  \* history: requests sent, successes seen at the start, and how
                        \* much others had changed at the report

github == <<base, fork, branch, shown, pulls>>
network == <<asks, reply>>
history == <<made, before, told>>
vars == <<github, network, run, now, history, drifts, faults>>

NoReply == [is |-> "none", pull |-> 0]
Reading == {"base", "fork", "forkRead", "branch", "branchRead", "drafts", "draftsRead", "pull",
            "prepare"}
Waiting == {"forking", "pushing", "opening"}
Refusals == {"refused", "expired", "broken"}

Init ==
    /\ base = "base"
    /\ fork \in {"none", "ready", "foreign"}
    /\ branch \in IF fork = "ready" THEN {"none", "head", "other"} ELSE {"none"}
    /\ shown = branch
    /\ pulls = <<>>
    /\ asks = {}
    /\ reply = [c \in Calls |-> NoReply]
    /\ run = [c \in Calls |-> [at |-> "idle", left |-> 0, did |-> {}, pull |-> 0]]
    /\ now = 0
    /\ made = {} /\ before = [c \in Calls |-> {}] /\ told = [c \in Calls |-> 0]
    /\ drifts = 0 /\ faults = 0

Approved(op) == From[op] <= now /\ now < Until[op]

Open == {n \in 1..Len(pulls) : pulls[n].state # "closed"}

\* exact_pull: an open draft as approved, between the approved commits.
Exact(n) == pulls[n].state = "draft" /\ pulls[n].base = "base" /\ branch = "head"

\* Mutated form: only the answer to the own request is trusted.
Found_Never(n) == FALSE

\* The one open pull request, if it is the approved one.
Found(n) == Open = {n} /\ Exact(n)

Goto(c, place) == run' = [run EXCEPT ![c].at = place]
Silent == UNCHANGED <<github, network, now, history, drifts, faults>>

-----------------------------------------------------------------------------
(* One invocation                                                          *)

Start(c) ==
    /\ run[c].at = "idle"
    /\ Goto(c, IF \A op \in Ops : Approved(op) THEN "base" ELSE "stale")
    /\ before' = [before EXCEPT ![c] = {d \in Calls : run[d].at = "done"}]
    /\ UNCHANGED <<github, network, now, made, told, drifts, faults>>

ReadBase(c) ==
    /\ run[c].at = "base"
    /\ Goto(c, IF base = "base" THEN "fork" ELSE "refused")
    /\ Silent

Send(c, op, place) ==
    /\ asks' = asks \cup {[by |-> c, op |-> op]}
    /\ reply' = [reply EXCEPT ![c] = NoReply]
    /\ made' = made \cup {[by |-> c, op |-> op, time |-> now]}
    /\ Goto(c, place)
    /\ UNCHANGED <<github, now, before, told, drifts, faults>>

\* Before every write its approval is looked at once more.
Expired(c, op) == ~Approved(op) /\ Goto(c, "expired") /\ Silent

\* The answer arrives; what it reports as done is read back before it is used.
Answered(c, place, is) == run[c].at = place /\ reply[c].is = is
Reread(c, op, place, reads) ==
    /\ run' = [run EXCEPT ![c].at = place, ![c].left = reads, ![c].did = @ \cup {op}]
    /\ Silent

LeftAfter(c) == run[c].left - 1

Again(c) ==
    /\ IF run[c].left = 1
         THEN Goto(c, "refused")
         ELSE run' = [run EXCEPT ![c].left = LeftAfter(c)]
    /\ Silent

\* Mutated form: the fork is created each time.
ForkMissing_Always == fork # "foreign"
ForkMissing == fork \in {"none", "creating"}

ReadFork(c) ==
    /\ run[c].at = "fork"
    /\ \/ ForkMissing /\ Approved("fork") /\ Send(c, "fork", "forking")
       \/ ForkMissing /\ Expired(c, "fork")
       \/ ~ForkMissing /\ Goto(c, IF fork = "ready" THEN "branch" ELSE "refused") /\ Silent

ForkMade(c) == Answered(c, "forking", "ok") /\ Reread(c, "fork", "forkRead", ForkReads)

RereadFork(c) ==
    /\ run[c].at = "forkRead"
    /\ \/ fork = "ready" /\ Goto(c, "branch") /\ Silent
       \/ fork = "foreign" /\ Goto(c, "refused") /\ Silent
       \/ fork \in {"none", "creating"} /\ Again(c)

BranchMissing == shown = "none"

ReadBranch(c) ==
    /\ run[c].at = "branch"
    /\ \/ BranchMissing /\ Approved("push") /\ Goto(c, "prepare") /\ Silent
       \/ BranchMissing /\ Expired(c, "push")
       \/ ~BranchMissing /\ Goto(c, IF shown = "head" THEN "drafts" ELSE "refused") /\ Silent

\* push_branch first has Git list its configuration and resolve the destination, and
\* pushes however long that took.
Push(c) == run[c].at = "prepare" /\ Send(c, "push", "pushing")

Pushed(c) == Answered(c, "pushing", "ok") /\ Reread(c, "push", "branchRead", BranchReads)

RereadBranch(c) ==
    /\ run[c].at = "branchRead"
    /\ \/ shown = "head" /\ Goto(c, "drafts") /\ Silent
       \/ shown # "head" /\ Again(c)

\* An existing draft is taken when it is the only one and the approved one.
TakeDraft(c) ==
    /\ \/ \E n \in Open : Found(n) /\ run' = [run EXCEPT ![c].at = "pull", ![c].pull = n]
       \/ ~(\E n \in Open : Found(n)) /\ Goto(c, "refused")
    /\ Silent

FindDrafts(c) ==
    /\ run[c].at = "drafts"
    /\ \/ Open = {} /\ Approved("draft") /\ Send(c, "draft", "opening")
       \/ Open = {} /\ Expired(c, "draft")
       \/ Open # {} /\ TakeDraft(c)

\* Mutated form: a conflict counts as a creation.
DoneBy_Anyone(c) == run[c].did \cup {"draft"}
DoneBy(c) == run[c].did

Opened(c) ==
    /\ Answered(c, "opening", "ok")
    /\ run' = [run EXCEPT ![c].at = "pull", ![c].pull = reply[c].pull, ![c].did = @ \cup {"draft"}]
    /\ Silent

Conflicted(c) ==
    /\ Answered(c, "opening", "conflict")
    /\ run' = [run EXCEPT ![c].at = "draftsRead", ![c].did = DoneBy(c)]
    /\ Silent

RereadDrafts(c) == run[c].at = "draftsRead" /\ TakeDraft(c)

\* Mutated form: the last reading is not compared.
Verified_Unread(c) == run[c].pull > 0
Verified(c) == Exact(run[c].pull)

ReadPull(c) ==
    /\ run[c].at = "pull"
    /\ \/ Verified(c) /\ Goto(c, "done") /\ told' = [told EXCEPT ![c] = drifts]
       \/ ~Verified(c) /\ Goto(c, "refused") /\ UNCHANGED told
    /\ UNCHANGED <<github, network, now, made, before, drifts, faults>>

\* A request that is refused, or not answered within the command's time limit.
\* The child is killed; its request may still reach GitHub.
Refused(c) ==
    /\ run[c].at \in Waiting
    /\ reply[c].is = "error"
    /\ Goto(c, "broken")
    /\ Silent

TimeOut(c) ==
    /\ run[c].at \in Waiting
    /\ Goto(c, "broken")
    /\ Silent

\* A read, or a check of the local repository or of the login, fails.
ReadFails(c) ==
    /\ run[c].at \in Reading
    /\ faults < MaxFault
    /\ faults' = faults + 1
    /\ Goto(c, "broken")
    /\ UNCHANGED <<github, network, now, history, drifts>>

Proceed(c) ==
    \/ ReadBase(c) \/ ReadFork(c) \/ ForkMade(c) \/ RereadFork(c)
    \/ ReadBranch(c) \/ Push(c) \/ Pushed(c) \/ RereadBranch(c)
    \/ FindDrafts(c) \/ Opened(c) \/ Conflicted(c) \/ RereadDrafts(c) \/ ReadPull(c)
    \/ Refused(c) \/ TimeOut(c)

-----------------------------------------------------------------------------
(* GitHub                                                                  *)

Answer(a, is) ==
    /\ asks' = asks \ {a}
    /\ reply' = [reply EXCEPT ![a.by] = [is |-> is, pull |-> Len(pulls')]]
    /\ UNCHANGED <<run, now, history, drifts, faults>>

\* Forking again answers with the fork that exists.
LandFork(a) ==
    /\ a.op = "fork"
    /\ fork' = IF fork = "none" THEN "creating" ELSE fork
    /\ UNCHANGED <<base, branch, shown, pulls>>
    /\ Answer(a, "ok")

\* A push without force: another head is kept unless the push is a fast-forward.
LandPush(a) ==
    /\ a.op = "push"
    /\ UNCHANGED <<base, fork, shown, pulls>>
    /\ \/ fork = "ready" /\ branch' = "head" /\ Answer(a, "ok")
       \/ branch = "other" /\ UNCHANGED branch /\ Answer(a, "error")

\* GitHub keeps one open pull request for a head and a base.
LandDraft(a) ==
    /\ a.op = "draft"
    /\ IF branch # "none" /\ Open = {}
         THEN pulls' = Append(pulls, [state |-> "draft", base |-> base]) /\ Answer(a, "ok")
         ELSE UNCHANGED pulls /\ Answer(a, "conflict")
    /\ UNCHANGED <<base, fork, branch, shown>>

\* The request does not arrive, or is turned down.
Lose(a) ==
    /\ UNCHANGED github
    /\ Answer(a, "error")

Keep == UNCHANGED <<network, run, now, history, faults>>

\* A new fork, or a new tip, becomes readable.
SettleFork ==
    /\ fork = "creating" /\ fork' = "ready"
    /\ UNCHANGED <<base, branch, shown, pulls, drifts>> /\ Keep

Show ==
    /\ shown # branch /\ shown' = branch
    /\ UNCHANGED <<base, fork, branch, pulls, drifts>> /\ Keep

-----------------------------------------------------------------------------
(* Others                                                                  *)

Drift == drifts < MaxDrift /\ drifts' = drifts + 1 /\ Keep

MoveBase == Drift /\ base' = "other" /\ UNCHANGED <<fork, branch, shown, pulls>>

\* Deleting a branch closes its pull request.
MoveBranch ==
    /\ Drift
    /\ fork = "ready"
    /\ branch' \in {"none", "other"} \ {branch}
    /\ pulls' = [n \in 1..Len(pulls) |->
                    IF branch' = "none" THEN [pulls[n] EXCEPT !.state = "closed"] ELSE pulls[n]]
    /\ UNCHANGED <<base, fork, shown>>

EditPull ==
    /\ Drift
    /\ \E n \in Open, s \in {"edited", "closed"} : pulls' = [pulls EXCEPT ![n].state = s]
    /\ UNCHANGED <<base, fork, branch, shown>>

Tick ==
    /\ now < MaxTime
    /\ now' = now + 1
    /\ UNCHANGED <<github, network, run, history, drifts, faults>>

Next ==
    \/ \E c \in Calls : Start(c) \/ Proceed(c) \/ ReadFails(c)
    \/ \E a \in asks : LandFork(a) \/ LandPush(a) \/ LandDraft(a) \/ Lose(a)
    \/ SettleFork \/ Show
    \/ MoveBase \/ MoveBranch \/ EditPull \/ Tick

Spec == Init /\ [][Next]_vars

-----------------------------------------------------------------------------
(* Properties                                                              *)

Statuses == {"idle", "stale", "done"} \cup Reading \cup Waiting \cup Refusals

TypeOK ==
    /\ base \in {"base", "other"}
    /\ fork \in {"none", "creating", "ready", "foreign"}
    /\ branch \in {"none", "head", "other"} /\ shown \in {"none", "head", "other"}
    /\ pulls \in Seq([state : {"draft", "edited", "closed"}, base : {"base", "other"}])
    /\ asks \subseteq [by : Calls, op : Ops]
    /\ reply \in [Calls -> [is : {"none", "ok", "conflict", "error"}, pull : Nat]]
    /\ run \in [Calls -> [at : Statuses, left : 0..(ForkReads + BranchReads),
                          did : SUBSET Ops, pull : Nat]]
    /\ made \subseteq [by : Calls, op : Ops, time : Nat]
    /\ before \in [Calls -> SUBSET Calls] /\ told \in [Calls -> 0..MaxDrift]
    /\ now \in 0..MaxTime /\ drifts \in 0..MaxDrift /\ faults \in 0..MaxFault

\* No request is sent outside the window of its own approval, however long the
\* commands before it took (apply_rechecks_expiry_immediately_before_each_write).
\* Refuted: the push leaves two commands after its approval was looked at.
CallsInWindow == \A m \in made : From[m.op] <= m.time /\ m.time < Until[m.op]

Wrote(c) == \E m \in made : m.by = c

\* An invocation that starts after one has succeeded sends nothing, when nobody
\* else has changed anything (exact_retry_is_read_only_and_idempotent), even with
\* requests of other invocations still under way.
RetryReadsOnly == drifts = 0 => \A c \in Calls : before[c] # {} => ~Wrote(c)

\* And it succeeds, unless a read fails.
RetrySucceeds ==
    drifts = 0 => \A c \in Calls : before[c] # {} => run[c].at \notin {"refused", "expired"}

\* What "applied" or "idempotent_readback" said stays so until somebody else changes
\* something: the pull request it names is the one open one, a draft between the
\* approved commits, in spite of what the requests of other invocations, or of
\* commands killed long ago, still do.
ReportStands ==
    \A c \in Calls :
        run[c].at = "done" /\ told[c] = drifts
            => Open = {run[c].pull} /\ Exact(run[c].pull)

\* Of two invocations that end at the same draft, at most one says it created it,
\* also when their requests collide.
OneCreator ==
    \A c, d \in Calls :
        /\ run[c].at = "done" /\ run[d].at = "done" /\ run[c].pull = run[d].pull
        /\ "draft" \in run[c].did /\ "draft" \in run[d].did
        => c = d
=============================================================================
