---------------------------- MODULE OutboundWorker ----------------------------
(***************************************************************************)
(* The Windows outbound worker (scripts/ao2_windows_outbound_worker.py):   *)
(* one process with a polling thread and one thread for each action it     *)
(* runs.  They share the claim ledger, kept as a file that is replaced as  *)
(* a whole and as a journal of events, and the result outbox, one file for *)
(* each request.  The process may die and be started again.                *)
(***************************************************************************)
EXTENDS Naturals

CONSTANTS
    Requests,       \* request ids
    Observers,      \* those whose action runs in the polling thread
    Main,           \* the polling thread
    NoReq,          \* no request
    MaxFaults       \* bound on what goes wrong, by kind

FaultKinds == {"crash", "torn", "ledger", "board", "save"}

ASSUME WorkerAssumption ==
    /\ Observers \subseteq Requests
    /\ Main \notin Requests /\ NoReq \notin Requests
    /\ MaxFaults \in [FaultKinds -> Nat]

\* Every other request has a thread of its own.
Threads == {Main} \cup (Requests \ Observers)

VARIABLES
    ledger,     \* task-ledger.json
    journal,    \* task-ledger-events.jsonl: the events that can be parsed
    torn,       \* its last line has no end
    outbox,     \* result-outbox: the board queued for each request
    mem,        \* WorkerState._ledger
    at, loc,    \* each thread: where it is, and the locals of flush_result_outbox
    batch,      \* the control tasks of the board that are still to be looked at
    cur,        \* the request the polling thread claims or answers
    posted,     \* history: the boards that reached the control plane
    ran, queued, refused, spoiled,  \* history: by request
    faults

disk == <<ledger, journal, torn>>
local == <<loc, batch, cur>>
history == <<posted, ran, queued, refused, spoiled>>
vars == <<disk, outbox, mem, at, local, history, faults>>

Unknown == [r \in Requests |-> "none"]
NoLocals == [todo |-> {}, pick |-> NoReq, board |-> "none", then |-> "idle"]
Req(t) == IF t = Main THEN cur ELSE t

Init ==
    /\ ledger = Unknown /\ journal = {} /\ torn = FALSE
    /\ outbox = Unknown
    /\ mem = Unknown
    /\ at = [t \in Threads |-> IF t = Main THEN "idle" ELSE "off"]
    /\ loc = [t \in Threads |-> NoLocals]
    /\ batch = {} /\ cur = NoReq
    /\ posted = {} /\ ran = [r \in Requests |-> 0]
    /\ queued = {} /\ refused = {} /\ spoiled = {}
    /\ faults = [k \in FaultKinds |-> 0]

Goto(t, place) == at' = [at EXCEPT ![t] = place]

Fault(k) ==
    /\ faults[k] < MaxFaults[k]
    /\ faults' = [faults EXCEPT ![k] = @ + 1]

\* WorkerState._lock is held from a journal event to the ledger file.
LockFree == \A t \in Threads : at[t] \notin {"save", "close"}

-----------------------------------------------------------------------------
(* flush_result_outbox, called by every thread                             *)

Flush(t, then) ==
    /\ Goto(t, "list")
    /\ loc' = [loc EXCEPT ![t].then = then]

List(t) ==
    /\ at[t] = "list"
    /\ loc' = [loc EXCEPT ![t].todo = {r \in Requests : outbox[r] # "none"}]
    /\ Goto(t, "read")
    /\ UNCHANGED <<disk, outbox, mem, batch, cur, history, faults>>

\* _post_result_best_effort goes on after an exception, poll_once does not.
AfterException(t) == IF loc[t].then = "fetch" THEN "idle" ELSE loc[t].then

Abandon(t) ==
    /\ Goto(t, AfterException(t))
    /\ loc' = [loc EXCEPT ![t] = NoLocals]
    /\ UNCHANGED <<batch, cur>>

Read(t) ==
    /\ at[t] = "read"
    /\ \E r \in loc[t].todo :
          /\ outbox[r] \in {"refusal", "result"}
          /\ loc' = [loc EXCEPT ![t].todo = @ \ {r}, ![t].pick = r, ![t].board = outbox[r]]
    /\ Goto(t, "post")
    /\ UNCHANGED <<disk, outbox, mem, batch, cur, history, faults>>

\* Another thread has removed the file since it was listed.
ReadGone(t) ==
    /\ at[t] = "read"
    /\ \E r \in loc[t].todo : outbox[r] = "none"
    /\ Abandon(t)
    /\ UNCHANGED <<disk, outbox, mem, history, faults>>

\* A file that is not JSON is renamed to .invalid.json.
Quarantine(t) ==
    /\ at[t] = "read"
    /\ \E r \in loc[t].todo :
          /\ outbox[r] = "spoiled"
          /\ outbox' = [outbox EXCEPT ![r] = "none"]
          /\ loc' = [loc EXCEPT ![t].todo = @ \ {r}]
    /\ UNCHANGED <<disk, mem, at, batch, cur, history, faults>>

Post(t, r) ==
    /\ at[t] = "post"
    /\ loc[t].pick = r
    /\ posted' = posted \cup {<<r, loc[t].board>>}
    /\ Goto(t, "remove")
    /\ UNCHANGED <<disk, outbox, mem, local, ran, queued, refused, spoiled, faults>>

\* Mutated form: the file goes whatever becomes of the request.
OutboxAfterFailure_Cleared(t) == [outbox EXCEPT ![loc[t].pick] = "none"]
OutboxAfterFailure(t) == outbox

\* The request fails, or only its answer is lost.
PostFails(t) ==
    /\ at[t] = "post"
    /\ \/ posted' = posted
       \/ posted' = posted \cup {<<loc[t].pick, loc[t].board>>}
    /\ outbox' = OutboxAfterFailure(t)
    /\ Abandon(t)
    /\ UNCHANGED <<disk, mem, ran, queued, refused, spoiled, faults>>

\* remove_queued_result: whatever the file holds by now.
Remove(t) ==
    /\ at[t] = "remove"
    /\ outbox' = [outbox EXCEPT ![loc[t].pick] = "none"]
    /\ loc' = [loc EXCEPT ![t].pick = NoReq, ![t].board = "none"]
    /\ Goto(t, "read")
    /\ UNCHANGED <<disk, mem, batch, cur, history, faults>>

Flushed(t) ==
    /\ at[t] = "read"
    /\ loc[t].todo = {}
    /\ Goto(t, loc[t].then)
    /\ loc' = [loc EXCEPT ![t] = NoLocals]
    /\ UNCHANGED <<disk, outbox, mem, batch, cur, history, faults>>

FlushStep(t) ==
    \/ List(t) \/ Read(t) \/ ReadGone(t) \/ Quarantine(t)
    \/ PostFails(t) \/ Remove(t) \/ Flushed(t)

-----------------------------------------------------------------------------
(* poll_once and accept_control_task                                       *)

\* Mutated form: the outbox is not looked at.
FirstOfPoll_Board == "fetch"
FirstOfPoll == "list"

PollBegin ==
    /\ at[Main] = "idle"
    /\ Goto(Main, FirstOfPoll)
    /\ loc' = [loc EXCEPT ![Main].then = "fetch"]
    /\ UNCHANGED <<disk, outbox, mem, batch, cur, history, faults>>

\* The tasks for this node, each request once; none if the board is refused.
Fetch ==
    /\ at[Main] = "fetch"
    /\ batch' \in SUBSET Requests
    /\ Goto(Main, "task")
    /\ UNCHANGED <<disk, outbox, mem, loc, cur, history, faults>>

\* Mutated form: has_request is left to claim.
Duplicate_Unchecked(r) == FALSE
Duplicate(r) == mem[r] # "none"

TakeTask(r) ==
    /\ at[Main] = "task"
    /\ LockFree
    /\ r \in batch
    /\ batch' = batch \ {r}

TaskDuplicate(r) ==
    /\ TakeTask(r)
    /\ Duplicate(r)
    /\ UNCHANGED <<disk, outbox, mem, at, loc, cur, history, faults>>

\* Not allowlisted, malformed, or not authorized at this moment: the same task
\* may be authorized at the next poll, or no more.
TaskRefused(r) ==
    /\ TakeTask(r)
    /\ ~Duplicate(r)
    /\ outbox' = [outbox EXCEPT ![r] = "refusal"]
    /\ refused' = refused \cup {r}
    /\ Flush(Main, "task")
    /\ UNCHANGED <<disk, mem, cur, posted, ran, queued, spoiled, faults>>

TaskPasses(r) ==
    /\ TakeTask(r)
    /\ ~Duplicate(r)
    /\ mem[r] = "none"
    /\ cur' = r
    /\ Goto(Main, "claim")
    /\ UNCHANGED <<disk, outbox, mem, loc, history, faults>>

PollEnd ==
    /\ at[Main] = "task"
    /\ batch = {}
    /\ Goto(Main, "idle")
    /\ UNCHANGED <<disk, outbox, mem, local, history, faults>>

-----------------------------------------------------------------------------
(* WorkerState.claim and complete                                          *)

\* The event is a line of its own, unless the line before it has no end.
AppendEvent(e) ==
    /\ journal' = IF torn THEN journal ELSE journal \cup {e}
    /\ torn' = FALSE
    /\ UNCHANGED ledger

ClaimEvent ==
    /\ at[Main] = "claim"
    /\ LockFree
    /\ AppendEvent([event |-> "claim", req |-> cur])
    /\ Goto(Main, "save")
    /\ UNCHANGED <<outbox, mem, local, history, faults>>

\* The ledger file is replaced; then the action is started.
ClaimSave ==
    /\ at[Main] = "save"
    /\ mem' = [mem EXCEPT ![cur] = "in_progress"]
    /\ ledger' = mem'
    /\ IF cur \in Observers
         THEN Goto(Main, "queue") /\ UNCHANGED cur
         ELSE at' = [at EXCEPT ![Main] = "task", ![cur] = "run"] /\ cur' = NoReq
    /\ UNCHANGED <<journal, torn, outbox, loc, batch, history, faults>>

\* The file cannot be replaced, in ten attempts: the poll ends.
ClaimSaveFails ==
    /\ at[Main] = "save"
    /\ Fault("save")
    /\ mem' = [mem EXCEPT ![cur] = "in_progress"]
    /\ Goto(Main, "idle")
    /\ batch' = {} /\ cur' = NoReq
    /\ UNCHANGED <<disk, outbox, loc, history>>

\* run_action; an exception is a result, too.
RunAction(t) ==
    /\ at[t] = "run"
    /\ ran' = [ran EXCEPT ![t] = @ + 1]
    /\ Goto(t, "queue")
    /\ UNCHANGED <<disk, outbox, mem, local, posted, queued, refused, spoiled, faults>>

\* post_result: queue_result_board, then flush.
QueueResult(t) ==
    /\ at[t] = "queue"
    /\ LockFree
    /\ outbox' = [outbox EXCEPT ![Req(t)] = "result"]
    /\ queued' = queued \cup {Req(t)}
    /\ Flush(t, "done")
    /\ UNCHANGED <<disk, mem, batch, cur, posted, ran, refused, spoiled, faults>>

QueueFails(t) ==
    /\ at[t] = "queue"
    /\ LockFree
    /\ Fault("save")
    /\ Goto(t, "done")
    /\ UNCHANGED <<disk, outbox, mem, local, history>>

CompleteEvent(t) ==
    /\ at[t] = "done"
    /\ LockFree
    /\ AppendEvent([event |-> "complete", req |-> Req(t)])
    /\ Goto(t, "close")
    /\ UNCHANGED <<outbox, mem, local, history, faults>>

Completed(t, place) ==
    /\ at[t] = "close"
    /\ mem' = [mem EXCEPT ![Req(t)] = "done"]
    /\ Goto(t, IF t = Main THEN place ELSE "off")
    /\ cur' = IF t = Main THEN NoReq ELSE cur
    /\ UNCHANGED <<journal, torn, outbox, loc, history>>

CompleteSave(t) ==
    /\ Completed(t, "task")
    /\ ledger' = mem'
    /\ UNCHANGED <<batch, faults>>

\* The action thread ends with the exception; in the polling thread the poll ends.
CompleteSaveFails(t) ==
    /\ Completed(t, "idle")
    /\ Fault("save")
    /\ batch' = IF t = Main THEN {} ELSE batch
    /\ UNCHANGED ledger

ActionStep(t) ==
    \/ RunAction(t) \/ QueueResult(t) \/ QueueFails(t)
    \/ CompleteEvent(t) \/ CompleteSave(t) \/ CompleteSaveFails(t)

-----------------------------------------------------------------------------
(* Restarts                                                                *)

\* The process dies; a line of the journal may be cut off.
Crash ==
    /\ at[Main] # "down"
    /\ faults["crash"] < MaxFaults["crash"]
    /\ \/ /\ faults' = [faults EXCEPT !["crash"] = @ + 1]
          /\ UNCHANGED torn
       \/ /\ faults["torn"] < MaxFaults["torn"]
          /\ LockFree
          /\ \E t \in Threads : at[t] \in {"claim", "done"}
          /\ faults' = [faults EXCEPT !["crash"] = @ + 1, !["torn"] = @ + 1]
          /\ torn' = TRUE
    /\ at' = [t \in Threads |-> IF t = Main THEN "down" ELSE "off"]
    /\ loc' = [t \in Threads |-> NoLocals]
    /\ mem' = Unknown
    /\ batch' = {} /\ cur' = NoReq
    /\ UNCHANGED <<ledger, journal, outbox, history>>

\* task-ledger.json, or a queued board, turns out not to be JSON.
SpoilLedger ==
    /\ at[Main] = "down"
    /\ Fault("ledger")
    /\ ledger' = Unknown
    /\ UNCHANGED <<journal, torn, outbox, mem, at, local, history>>

SpoilBoard(r) ==
    /\ at[Main] = "down"
    /\ Fault("board")
    /\ outbox[r] # "none"
    /\ outbox' = [outbox EXCEPT ![r] = "spoiled"]
    /\ spoiled' = spoiled \cup {r}
    /\ UNCHANGED <<disk, mem, at, local, posted, ran, queued, refused>>

\* Mutated form: the journal is not replayed.
Replayed_LedgerOnly(r) == ledger[r]

\* _load and _replay_journal; a file that is not JSON counts as a blank ledger.
Replayed(r) ==
    IF [event |-> "complete", req |-> r] \in journal THEN "done"
    ELSE IF ledger[r] = "none" /\ [event |-> "claim", req |-> r] \in journal THEN "in_progress"
    ELSE ledger[r]

\* Nothing is done about a request that was in progress.
Restart ==
    /\ at[Main] = "down"
    /\ mem' = [r \in Requests |-> Replayed(r)]
    /\ Goto(Main, "idle")
    /\ UNCHANGED <<disk, outbox, local, history, faults>>

-----------------------------------------------------------------------------
MainStep ==
    \/ PollBegin \/ Fetch \/ PollEnd \/ ClaimEvent \/ ClaimSave \/ ClaimSaveFails
    \/ \E r \in Requests : TaskDuplicate(r) \/ TaskRefused(r) \/ TaskPasses(r)

Step(t) == FlushStep(t) \/ ActionStep(t) \/ (t = Main /\ MainStep)

Next ==
    \/ \E t \in Threads : Step(t) \/ \E r \in Requests : Post(t, r)
    \/ Crash \/ SpoilLedger \/ (\E r \in Requests : SpoilBoard(r)) \/ Restart

Spec == Init /\ [][Next]_vars

\* Threads run on, the process is started again (it is a scheduled task), and a
\* board that is sent again and again arrives at last.
Fairness ==
    /\ \A t \in Threads : WF_vars(Step(t) \/ \E r \in Requests : Post(t, r))
    /\ \A r \in Requests : SF_vars(Post(Main, r))
    /\ WF_vars(Restart)

FairSpec == Spec /\ Fairness

-----------------------------------------------------------------------------
(* Properties                                                              *)

Flushing == {"list", "read", "post", "remove"}
Statuses == {"none", "in_progress", "done"}
Boards == {"none", "refusal", "result", "spoiled"}

TypeOK ==
    /\ ledger \in [Requests -> Statuses] /\ mem \in [Requests -> Statuses]
    /\ journal \subseteq [event : {"claim", "complete"}, req : Requests]
    /\ torn \in BOOLEAN
    /\ outbox \in [Requests -> Boards]
    /\ at[Main] \in {"down", "idle", "fetch", "task", "claim", "save", "queue", "done", "close"}
                       \cup Flushing
    /\ \A r \in Requests \ Observers :
          at[r] \in {"off", "run", "queue", "done", "close"} \cup Flushing
    /\ loc \in [Threads -> [todo : SUBSET Requests, pick : Requests \cup {NoReq},
                            board : Boards \ {"spoiled"},
                            then : {"idle", "fetch", "task", "done"}]]
    /\ batch \subseteq Requests /\ cur \in Requests \cup {NoReq}
    /\ posted \subseteq Requests \X {"refusal", "result"}
    /\ ran \in [Requests -> Nat]
    /\ queued \subseteq Requests /\ refused \subseteq Requests /\ spoiled \subseteq Requests
    /\ \A k \in FaultKinds : faults[k] \in 0..MaxFaults[k]

\* Ledger and journal together, either may be damaged.
Remembers == faults["torn"] = 0 \/ faults["ledger"] = 0

\* No request is run twice, over crashes and restarts at any point and with a
\* ledger file that is lost (test_duplicate_and_completed_tasks_are_not_executed_twice).
AtMostOnce == Remembers => \A r \in Requests : ran[r] <= 1

\* A result that waits to be sent is never replaced by a refusal of the same
\* request (test_claimed_mutation_is_not_reverified_or_overwritten), over restarts.
NotOverwritten ==
    [][Remembers => \A r \in Requests : outbox[r] = "result" => outbox'[r] # "refusal"]_vars

\* A result that was queued waits in the outbox until it has reached the control
\* plane, whichever threads flush the outbox and whenever the process dies.  This
\* is so for a request that was not refused before it was accepted.
Kept(r) == outbox[r] = "result" \/ <<r, "result">> \in posted
ResultKept == \A r \in queued \ (spoiled \cup refused) : Kept(r)

\* docs/windows-outbound-worker.md says so without that condition: "the worker
\* leaves the original sanitized result in that outbox".
ResultStays == \A r \in queued \ spoiled : Kept(r)

\* And it is sent in the end, on a network that works again and again.
Delivered ==
    \A r \in Requests :
        r \in queued ~> <<r, "result">> \in posted \/ r \in spoiled \cup refused
=============================================================================
