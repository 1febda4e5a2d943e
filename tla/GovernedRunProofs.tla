-------------------------- MODULE GovernedRunProofs --------------------------
(***************************************************************************)
(* Proofs about GovernedRun: type correctness (every action keeps each     *)
(* part of TypeOK that it can disturb, and leaves the others alone), the   *)
(* approval gate, what an accepted run has applied, and what commands that *)
(* do not get in each other's way keep: the evidence, the applied bytes,   *)
(* the grants, the checkpoint, the closing of a run, its tickets and its   *)
(* sandboxes.                                                              *)
(***************************************************************************)
EXTENDS GovernedRun, TLAPS

\* A preview of two directories at a known commit is a subject (build_approval_subject).
LEMMA PreviewType ==
    \A h \in Heads, x \in Trees, y \in Trees : Preview(h, x, y) \in Subjects(Heads)
BY DEF Subjects

\* The operations of a subject are on files that snapshot_tree visits.
LEMMA SubjectFiles ==
    ASSUME NEW s \in Subjects(Heads)
    PROVE  DOMAIN s.ops \subseteq Files
<1>1. PICK h \in Heads, b \in Trees, a \in Trees : s = Preview(h, b, a)
  BY DEF Subjects
<1> QED BY <1>1 DEF Preview, Changed

\* What start_risky_pr_provider_free records, and the locals of a call that has returned.
LEMMA NewTypes == NewRecord \in Records /\ NoLocals \in Locals
BY RunAssumption DEF NewRecord, Records, NewTickets, TicketStatus, Tickets,
   Terminal,
   NoLocals, Locals, Steps, FirstTicket, Trees, EmptyTree, Content

\* The fields of run-record.json.
LEMMA RecordFields ==
    ASSUME NEW r \in Records
    PROVE  /\ r.tix \in [Tickets -> TicketStatus]
           /\ r.done \subseteq Steps
           /\ r.verdict \in {"blocked"} \cup Terminal
           /\ r.st \in {"waiting"} \cup Terminal
BY DEF Records

\* replace_ticket, a new ticket, a new artifact, a report or a status leave a record a record.
LEMMA RecordEdit ==
    ASSUME NEW r \in Records
    PROVE  /\ \A t \in Tickets, v \in TicketStatus : [r EXCEPT !.tix[t] = v] \in Records
           /\ \A x \in {"waiting"} \cup Terminal : [r EXCEPT !.st = x] \in Records
           /\ [r EXCEPT !.st = "waiting"] \in Records
           /\ \A x \in SUBSET Steps : [r EXCEPT !.done = x] \in Records
           /\ \A x \in {"blocked"} \cup Terminal : [r EXCEPT !.verdict = x] \in Records
           /\ [r EXCEPT !.verdict = "accepted"] \in Records
           /\ [r EXCEPT !.verdict = "rejected"] \in Records
BY DEF Records, Terminal

\* The locals of apply_provider_prompt_patch_for_role.
LEMMA LocalFields ==
    ASSUME NEW l \in Locals
    PROVE  /\ l.step \in Steps
           /\ l.sub \in Subjects(Heads) \cup {NoSub}
           /\ l.tkt \in Tickets
           /\ l.seen \subseteq Tickets
           /\ l.out \in Trees
           /\ l.todo \subseteq Files
           /\ l.end \in {"waiting"} \cup Terminal
BY DEF Locals

\* Assigning one of its locals leaves them well typed.
LEMMA LocalEdit ==
    ASSUME NEW l \in Locals
    PROVE  /\ \A x \in Steps : [l EXCEPT !.step = x] \in Locals
           /\ \A x \in Subjects(Heads) : [l EXCEPT !.sub = x] \in Locals
           /\ \A x \in Tickets : [l EXCEPT !.tkt = x] \in Locals
           /\ \A x \in Tickets, y \in SUBSET Tickets : [l EXCEPT !.tkt = x, !.seen = y] \in Locals
           /\ \A x \in SUBSET Files : [l EXCEPT !.todo = x] \in Locals
           /\ \A x \in {"waiting"} \cup Terminal : [l EXCEPT !.end = x] \in Locals
           /\ [l EXCEPT !.end = "waiting"] \in Locals
           /\ [l EXCEPT !.end = "accepted"] \in Locals
           /\ [l EXCEPT !.end = "rejected"] \in Locals
BY DEF Locals, Terminal

\* A call that returns, with a value or an error, leaves its process well typed.
LEMMA ReturnType ==
    ASSUME ProcsOK, NEW p \in Procs, Return(p)
    PROVE  ProcsOK'
BY NewTypes DEF ProcsOK, Return, Goto, PCs

\* A provider step that succeeds leads to a next step that exists.
LEMMA StepDoneType ==
    ASSUME ProcsOK, NEW p \in Procs, StepDone(p), UNCHANGED ctx
    PROVE  ProcsOK'
<1>1. loc[p].step \in Steps
  BY LocalFields DEF ProcsOK
<1>2. loc[p].step < MainSteps => loc[p].step + 1 \in Steps
  BY <1>1, RunAssumption DEF Steps
<1>3. \A s \in Steps : [NoLocals EXCEPT !.step = s] \in Locals
  BY NewTypes, LocalEdit
<1> QED BY <1>1, <1>2, <1>3 DEF ProcsOK, StepDone, Goto, PCs, RunnerPCs

\* What goes wrong stays within its bound, and so does the number of commits.
LEMMA FaultType ==
    ASSUME FaultsOK, head \in Heads, NEW k \in FaultKinds, Fault(k)
    PROVE  /\ faults' \in [FaultKinds -> Nat]
           /\ \A j \in FaultKinds : faults'[j] <= MaxFaults[j]
           /\ head <= faults'["drift"]
           /\ k = "drift" => head + 1 \in Heads /\ head + 1 <= faults'["drift"]
<1>1. /\ faults[k] \in Nat /\ MaxFaults[k] \in Nat /\ faults[k] + 1 <= MaxFaults[k]
      /\ faults' = [faults EXCEPT ![k] = faults[k] + 1]
      /\ head \in Nat
  BY RunAssumption DEF FaultsOK, Fault, FaultKinds, Heads
<1>2. faults' \in [FaultKinds -> Nat]
  BY <1>1 DEF FaultsOK
<1>3. \A j \in FaultKinds : faults'[j] <= MaxFaults[j]
  BY <1>1 DEF FaultsOK
<1>4. head <= faults'["drift"]
  BY <1>1 DEF FaultsOK, FaultKinds
<1>5. k = "drift" => head + 1 \in Heads /\ head + 1 <= faults'["drift"]
  BY <1>1, RunAssumption DEF FaultsOK, FaultKinds, Heads
<1> QED BY <1>2, <1>3, <1>4, <1>5

\* No deletion of a file fails.
RemovalsSucceed == MaxFaults["unlink"] = 0

\* remove_dir_all takes one file of the sandbox, or its last, or gives up; it leads to the list of
\* consumed tickets once it takes no more.
LEMMA Removal ==
    ASSUME TypeOK, NEW p \in Procs, RemoveSandbox(p)
    PROVE  /\ pc[p] = "remove" /\ loc' = loc
           /\ \E T \in Trees \cup {NoTree} :
                 /\ sandbox' = [sandbox EXCEPT ![loc[p].step] = T]
                 /\ T # NoTree => sandbox[loc[p].step] # NoTree
                 /\ \/ pc' = pc /\ T # NoTree /\ faults' = faults
                    \/ /\ pc' = [pc EXCEPT ![p] = "consume"]
                       /\ \/ faults' = faults /\ T = NoTree
                          \/ Fault("unlink") /\ T = sandbox[loc[p].step]
<1> DEFINE s == loc[p].step
<1>1. /\ s \in Steps /\ sandbox \in [Steps -> Trees \cup {NoTree}] /\ NoTree \notin Trees
  BY LocalFields, PatchAssumption DEF TypeOK, RepoOK, ProcsOK, Trees, Content
<1>2. /\ pc[p] = "remove" /\ loc' = loc
      /\ \/ /\ \E f \in Files : sandbox' = [sandbox EXCEPT ![s][f] = Absent]
            /\ sandbox[s] # NoTree /\ pc' = pc /\ faults' = faults
         \/ /\ sandbox' = [sandbox EXCEPT ![s] = NoTree]
            /\ Goto(p, "consume") /\ faults' = faults
         \/ Fault("unlink") /\ Goto(p, "consume") /\ sandbox' = sandbox
  BY DEF RemoveSandbox
<1>3. CASE /\ \E f \in Files : sandbox' = [sandbox EXCEPT ![s][f] = Absent]
           /\ sandbox[s] # NoTree /\ pc' = pc /\ faults' = faults
  <2>1. PICK f \in Files : sandbox' = [sandbox EXCEPT ![s][f] = Absent]
    BY <1>3
  <2>2. sandbox[s] \in Trees
    BY <1>1, <1>3
  <2> DEFINE T == [sandbox[s] EXCEPT ![f] = Absent]
  <2>3. T \in Trees
    BY <2>2 DEF Trees, Content
  <2>4. sandbox' = [sandbox EXCEPT ![s] = T]
    BY <2>1
  <2> QED BY <1>1, <1>2, <1>3, <2>3, <2>4
<1>4. CASE /\ sandbox' = [sandbox EXCEPT ![s] = NoTree]
           /\ Goto(p, "consume") /\ faults' = faults
  BY <1>2, <1>4 DEF Goto
<1>5. CASE Fault("unlink") /\ Goto(p, "consume") /\ sandbox' = sandbox
  <2>1. sandbox' = [sandbox EXCEPT ![s] = sandbox[s]] /\ sandbox[s] \in Trees \cup {NoTree}
    BY <1>1, <1>5
  <2> QED BY <1>2, <1>5, <2>1 DEF Goto
<1> QED BY <1>2, <1>3, <1>4, <1>5

\* Where no deletion fails the sandbox is gone before the ticket is put on the list.
LEMMA RemovalComplete ==
    ASSUME RemovalsSucceed, TypeOK, NEW p \in Procs, RemoveSandbox(p), pc'[p] # "remove"
    PROVE  sandbox' = [sandbox EXCEPT ![loc[p].step] = NoTree]
<1>1. ~Fault("unlink")
  BY DEF Fault, RemovalsSucceed, TypeOK, FaultsOK, FaultKinds
<1> QED BY <1>1, Removal

\* Every step of a process, and of the world around it, keeps the type invariant.
LEMMA TypeStep == ASSUME TypeOK, [Next]_vars PROVE TypeOK'
<1> USE RunAssumption DEF TypeOK, repo, tickets, files, history
<1>1. ASSUME NEW p \in Procs, ApproveLock(p) PROVE TypeOK'
  <2>1. FilesOK' /\ ProcsOK'
    BY <1>1 DEF ApproveLock, LockFree, FilesOK, ProcsOK, Goto, PCs, ApproverPCs
  <2>2. RepoOK' /\ TicketsOK' /\ FaultsOK' /\ HistoryOK'
    BY <1>1 DEF ApproveLock, RepoOK, TicketsOK, FaultsOK, HistoryOK
  <2> QED BY <2>1, <2>2 DEF TypeOK
<1>2. ASSUME NEW p \in Procs, ApproveAlready(p) PROVE TypeOK'
  <2>1. FilesOK' /\ ProcsOK'
    BY <1>2, ReturnType DEF ApproveAlready, FilesOK, ProcsOK
  <2>2. RepoOK' /\ TicketsOK' /\ FaultsOK' /\ HistoryOK'
    BY <1>2 DEF ApproveAlready, RepoOK, TicketsOK, FaultsOK, HistoryOK
  <2> QED BY <2>1, <2>2 DEF TypeOK
<1>3. ASSUME NEW p \in Procs, ApproveGrant(p) PROVE TypeOK'
  <2>1. TicketsOK' /\ ProcsOK'
    BY <1>3, LocalFields DEF ApproveGrant, GrantFile, TicketsOK, ProcsOK, Goto,
       PCs, ApproverPCs, TicketStatus
  <2>2. RepoOK' /\ FilesOK' /\ FaultsOK' /\ HistoryOK'
    BY <1>3 DEF ApproveGrant, RepoOK, FilesOK, FaultsOK, HistoryOK
  <2> QED BY <2>1, <2>2 DEF TypeOK
<1>4. ASSUME NEW p \in Procs, ApproveLoad(p) PROVE TypeOK'
  <2>1. ProcsOK'
    BY <1>4, RecordEdit, LocalFields DEF ApproveLoad, ReplaceTicket, ProcsOK,
       FilesOK, Goto, PCs, ApproverPCs, TicketStatus
  <2>2. RepoOK' /\ TicketsOK' /\ FilesOK' /\ FaultsOK' /\ HistoryOK'
    BY <1>4 DEF ApproveLoad, RepoOK, TicketsOK, FilesOK, FaultsOK, HistoryOK
  <2> QED BY <2>1, <2>2 DEF TypeOK
<1>5. ASSUME NEW p \in Procs, ApproveCheckpoint(p) PROVE TypeOK'
  <2>1. FilesOK' /\ ProcsOK'
    BY <1>5, RecordFields DEF ApproveCheckpoint, Checkpoint, FilesOK, ProcsOK,
       Goto, PCs, ApproverPCs
  <2>2. RepoOK' /\ TicketsOK' /\ FaultsOK' /\ HistoryOK'
    BY <1>5 DEF ApproveCheckpoint, RepoOK, TicketsOK, FaultsOK, HistoryOK
  <2> QED BY <2>1, <2>2 DEF TypeOK
<1>6. ASSUME NEW p \in Procs, ApproveWrite(p) PROVE TypeOK'
  <2>1. FilesOK' /\ ProcsOK'
    BY <1>6, ReturnType, RecordEdit DEF ApproveWrite, FilesOK, ProcsOK
  <2>2. RepoOK' /\ TicketsOK' /\ FaultsOK' /\ HistoryOK'
    BY <1>6 DEF ApproveWrite, RepoOK, TicketsOK, FaultsOK, HistoryOK
  <2> QED BY <2>1, <2>2 DEF TypeOK
<1>7. ASSUME NEW p \in Procs, ProviderRun(p) PROVE TypeOK'
  <2>1. FilesOK' /\ ProcsOK'
    BY <1>7 DEF ProviderRun, LoadContext, FilesOK, ProcsOK, Goto, PCs, RunnerPCs
  <2>2. RepoOK' /\ TicketsOK' /\ FaultsOK' /\ HistoryOK'
    BY <1>7 DEF ProviderRun, RepoOK, TicketsOK, FaultsOK, HistoryOK
  <2> QED BY <2>1, <2>2 DEF TypeOK
<1>8. ASSUME NEW p \in Procs, ResumeStart(p) PROVE TypeOK'
  <2>1. ProcsOK'
    BY <1>8 DEF ResumeStart, LoadContext, FilesOK, ProcsOK, Goto, PCs, RunnerPCs
  <2>2. RepoOK' /\ TicketsOK' /\ FilesOK' /\ FaultsOK' /\ HistoryOK'
    BY <1>8 DEF ResumeStart, RepoOK, TicketsOK, FilesOK, FaultsOK, HistoryOK
  <2> QED BY <2>1, <2>2 DEF TypeOK
<1>9. ASSUME NEW p \in Procs, ClearConsumed(p) PROVE TypeOK'
  <2>1. FilesOK' /\ ProcsOK'
    BY <1>9 DEF ClearConsumed, FilesOK, ProcsOK, Goto, PCs, RunnerPCs
  <2>2. RepoOK' /\ TicketsOK' /\ FaultsOK' /\ HistoryOK'
    BY <1>9 DEF ClearConsumed, RepoOK, TicketsOK, FaultsOK, HistoryOK
  <2> QED BY <2>1, <2>2 DEF TypeOK
<1>10. ASSUME NEW p \in Procs, EnterSkip(p) PROVE TypeOK'
  <2>1. ProcsOK'
    BY <1>10, StepDoneType DEF EnterSkip
  <2>2. RepoOK' /\ TicketsOK' /\ FilesOK' /\ FaultsOK' /\ HistoryOK'
    BY <1>10 DEF EnterSkip, RepoOK, TicketsOK, FilesOK, FaultsOK, HistoryOK
  <2> QED BY <2>1, <2>2 DEF TypeOK
<1>11. ASSUME NEW p \in Procs, EnterPersisted(p) PROVE TypeOK'
  <2>1. ProcsOK'
    BY <1>11, LocalFields, LocalEdit, PreviewType DEF EnterPersisted, RepoOK,
       ProcsOK, Goto, PCs, RunnerPCs
  <2>2. RepoOK' /\ TicketsOK' /\ FilesOK' /\ FaultsOK' /\ HistoryOK'
    BY <1>11 DEF EnterPersisted, RepoOK, TicketsOK, FilesOK, FaultsOK, HistoryOK
  <2> QED BY <2>1, <2>2 DEF TypeOK
<1>12. ASSUME NEW p \in Procs, EnterProvider(p) PROVE TypeOK'
  <2>1. ProcsOK'
    BY <1>12 DEF EnterProvider, ProcsOK, Goto, PCs, RunnerPCs
  <2>2. RepoOK' /\ TicketsOK' /\ FilesOK' /\ FaultsOK' /\ HistoryOK'
    BY <1>12 DEF EnterProvider, RepoOK, TicketsOK, FilesOK, FaultsOK, HistoryOK
  <2> QED BY <2>1, <2>2 DEF TypeOK
<1>13. ASSUME NEW p \in Procs, ProviderFail(p) PROVE TypeOK'
  <2>1. ProcsOK' /\ FaultsOK'
    BY <1>13, ReturnType, FaultType DEF ProviderFail, RepoOK, FaultsOK, FaultKinds
  <2>2. RepoOK' /\ TicketsOK' /\ FilesOK' /\ HistoryOK'
    BY <1>13 DEF ProviderFail, RepoOK, TicketsOK, FilesOK, HistoryOK
  <2> QED BY <2>1, <2>2 DEF TypeOK
<1>14. ASSUME NEW p \in Procs, CopyDone(p) PROVE TypeOK'
  <2>1. ProcsOK'
    BY <1>14 DEF CopyDone, ProcsOK, Goto, PCs, RunnerPCs
  <2>2. RepoOK' /\ TicketsOK' /\ FilesOK' /\ FaultsOK' /\ HistoryOK'
    BY <1>14 DEF CopyDone, RepoOK, TicketsOK, FilesOK, FaultsOK, HistoryOK
  <2> QED BY <2>1, <2>2 DEF TypeOK
<1>15. ASSUME NEW p \in Procs, GateStale(p) PROVE TypeOK'
  <2>1. ProcsOK'
    BY <1>15, ReturnType DEF GateStale
  <2>2. RepoOK' /\ TicketsOK' /\ FilesOK' /\ FaultsOK' /\ HistoryOK'
    BY <1>15 DEF GateStale, RepoOK, TicketsOK, FilesOK, FaultsOK, HistoryOK
  <2> QED BY <2>1, <2>2 DEF TypeOK
<1>16. ASSUME NEW p \in Procs, WaitCheckpoint(p) PROVE TypeOK'
  <2>1. FilesOK' /\ ProcsOK'
    BY <1>16, RecordFields DEF WaitCheckpoint, Checkpoint, FilesOK, ProcsOK, Goto,
       PCs, RunnerPCs
  <2>2. RepoOK' /\ TicketsOK' /\ FaultsOK' /\ HistoryOK'
    BY <1>16 DEF WaitCheckpoint, RepoOK, TicketsOK, FaultsOK, HistoryOK
  <2> QED BY <2>1, <2>2 DEF TypeOK
<1>17. ASSUME NEW p \in Procs, WaitWrite(p) PROVE TypeOK'
  <2>1. FilesOK' /\ ProcsOK'
    BY <1>17, RecordEdit, LocalEdit DEF WaitWrite, FilesOK, ProcsOK, Goto, PCs,
       RunnerPCs
  <2>2. RepoOK' /\ TicketsOK' /\ FaultsOK' /\ HistoryOK'
    BY <1>17 DEF WaitWrite, RepoOK, TicketsOK, FaultsOK, HistoryOK
  <2> QED BY <2>1, <2>2 DEF TypeOK
<1>18. ASSUME NEW p \in Procs, GateExpired(p) PROVE TypeOK'
  <2>1. ProcsOK'
    BY <1>18, ReturnType DEF GateExpired
  <2>2. RepoOK' /\ TicketsOK' /\ FilesOK' /\ FaultsOK' /\ HistoryOK'
    BY <1>18 DEF GateExpired, RepoOK, TicketsOK, FilesOK, FaultsOK, HistoryOK
  <2> QED BY <2>1, <2>2 DEF TypeOK
<1>19. ASSUME NEW p \in Procs, ApplyRefused(p) PROVE TypeOK'
  <2>1. ProcsOK'
    BY <1>19, ReturnType DEF ApplyRefused
  <2>2. RepoOK' /\ TicketsOK' /\ FilesOK' /\ FaultsOK' /\ HistoryOK'
    BY <1>19 DEF ApplyRefused, RepoOK, TicketsOK, FilesOK, FaultsOK, HistoryOK
  <2> QED BY <2>1, <2>2 DEF TypeOK
<1>20. ASSUME NEW p \in Procs, Recheck(p) PROVE TypeOK'
  <2>1. ProcsOK'
    BY <1>20 DEF Recheck, ProcsOK, Goto, PCs, RunnerPCs
  <2>2. RepoOK' /\ TicketsOK' /\ FilesOK' /\ FaultsOK' /\ HistoryOK'
    BY <1>20 DEF Recheck, RepoOK, TicketsOK, FilesOK, FaultsOK, HistoryOK
  <2> QED BY <2>1, <2>2 DEF TypeOK
<1>21. ASSUME NEW p \in Procs, ApplyFail(p) PROVE TypeOK'
  <2>1. ProcsOK'
    BY <1>21, ReturnType DEF ApplyFail
  <2>2. RepoOK' /\ TicketsOK' /\ FilesOK' /\ FaultsOK' /\ HistoryOK'
    BY <1>21 DEF ApplyFail, RepoOK, TicketsOK, FilesOK, FaultsOK, HistoryOK
  <2> QED BY <2>1, <2>2 DEF TypeOK
<1>22. ASSUME NEW p \in Procs, ApplyDone(p) PROVE TypeOK'
  <2>1. ProcsOK' /\ HistoryOK'
    BY <1>22, LocalFields DEF ApplyDone, HistoryOK, ProcsOK, Goto, PCs, RunnerPCs
  <2>2. RepoOK' /\ TicketsOK' /\ FilesOK' /\ FaultsOK'
    BY <1>22 DEF ApplyDone, RepoOK, TicketsOK, FilesOK, FaultsOK
  <2> QED BY <2>1, <2>2 DEF TypeOK
<1>23. ASSUME NEW p \in Procs, RemoveSandbox(p) PROVE TypeOK'
  <2>1. UNCHANGED <<repo, tickets, files, ctx, lock, expired, history>>
    BY <1>23 DEF RemoveSandbox
  <2>2. PICK T \in Trees \cup {NoTree} :
          /\ sandbox' = [sandbox EXCEPT ![loc[p].step] = T]
          /\ pc' = pc \/ pc' = [pc EXCEPT ![p] = "consume"]
          /\ faults' = faults \/ Fault("unlink")
    BY <1>23, Removal
  <2>3. RepoOK' /\ loc' = loc
    BY <1>23, <2>1, <2>2, Removal DEF RepoOK
  <2>4. ProcsOK'
    BY <2>1, <2>2, <2>3 DEF ProcsOK, PCs, RunnerPCs
  <2>5. FaultsOK'
    <3>1. CASE faults' = faults
      BY <2>1, <3>1 DEF FaultsOK
    <3>2. CASE Fault("unlink")
      <4>1. /\ faults' \in [FaultKinds -> Nat]
            /\ \A j \in FaultKinds : faults'[j] <= MaxFaults[j]
            /\ head <= faults'["drift"]
        BY <3>2, FaultType DEF RepoOK, FaultKinds
      <4> QED BY <2>1, <4>1 DEF FaultsOK
    <3> QED BY <2>2, <3>1, <3>2
  <2>6. TicketsOK' /\ FilesOK' /\ HistoryOK'
    BY <2>1 DEF TicketsOK, FilesOK, HistoryOK
  <2> QED BY <2>3, <2>4, <2>5, <2>6 DEF TypeOK
<1>24. ASSUME NEW p \in Procs, Consume(p) PROVE TypeOK'
  <2>1. FilesOK' /\ ProcsOK'
    BY <1>24, StepDoneType, LocalFields DEF Consume, ConsumedAfter, FilesOK, ProcsOK
  <2>2. RepoOK' /\ TicketsOK' /\ FaultsOK' /\ HistoryOK'
    BY <1>24 DEF Consume, RepoOK, TicketsOK, FaultsOK, HistoryOK
  <2> QED BY <2>1, <2>2 DEF TypeOK
<1>25. ASSUME NEW p \in Procs, VerifyPass(p) PROVE TypeOK'
  <2>1. ProcsOK'
    BY <1>25, RecordEdit, LocalEdit DEF VerifyPass, Close, ProcsOK, Goto, PCs,
       RunnerPCs
  <2>2. RepoOK' /\ TicketsOK' /\ FilesOK' /\ FaultsOK' /\ HistoryOK'
    BY <1>25 DEF VerifyPass, RepoOK, TicketsOK, FilesOK, FaultsOK, HistoryOK
  <2> QED BY <2>1, <2>2 DEF TypeOK
<1>26. ASSUME NEW p \in Procs, VerifyExhausted(p) PROVE TypeOK'
  <2>1. ProcsOK'
    BY <1>26, RecordEdit, LocalEdit DEF VerifyExhausted, Close, ProcsOK, Goto,
       PCs, RunnerPCs
  <2>2. RepoOK' /\ TicketsOK' /\ FilesOK' /\ FaultsOK' /\ HistoryOK'
    BY <1>26 DEF VerifyExhausted, RepoOK, TicketsOK, FilesOK, FaultsOK, HistoryOK
  <2> QED BY <2>1, <2>2 DEF TypeOK
<1>27. ASSUME NEW p \in Procs, Export(p) PROVE TypeOK'
  <2>1. FilesOK' /\ ProcsOK'
    BY <1>27, RecordFields DEF Export, FilesOK, ProcsOK, Goto, PCs, RunnerPCs
  <2>2. RepoOK' /\ TicketsOK' /\ FaultsOK' /\ HistoryOK'
    BY <1>27 DEF Export, RepoOK, TicketsOK, FaultsOK, HistoryOK
  <2> QED BY <2>1, <2>2 DEF TypeOK
<1>28. ASSUME NEW p \in Procs, FinalCheckpoint(p) PROVE TypeOK'
  <2>1. FilesOK' /\ ProcsOK'
    BY <1>28, RecordFields DEF FinalCheckpoint, Checkpoint, FilesOK, ProcsOK,
       Goto, PCs, RunnerPCs
  <2>2. RepoOK' /\ TicketsOK' /\ FaultsOK' /\ HistoryOK'
    BY <1>28 DEF FinalCheckpoint, RepoOK, TicketsOK, FaultsOK, HistoryOK
  <2> QED BY <2>1, <2>2 DEF TypeOK
<1>29. ASSUME NEW p \in Procs, FinalWrite(p) PROVE TypeOK'
  <2>1. FilesOK' /\ ProcsOK'
    BY <1>29, ReturnType, RecordEdit, LocalFields DEF FinalWrite, FilesOK, ProcsOK
  <2>2. RepoOK' /\ TicketsOK' /\ FaultsOK' /\ HistoryOK'
    BY <1>29 DEF FinalWrite, RepoOK, TicketsOK, FaultsOK, HistoryOK
  <2> QED BY <2>1, <2>2 DEF TypeOK
<1>30. ASSUME NEW p \in Procs, Crash(p) PROVE TypeOK'
  <2>1. FaultsOK' /\ RepoOK'
    BY <1>30, FaultType DEF Crash, repo, RepoOK, FaultsOK, FaultKinds
  <2>2. ProcsOK' /\ FilesOK'
    BY <1>30, ReturnType DEF Crash, files, FilesOK
  <2>3. TicketsOK' /\ HistoryOK'
    BY <1>30 DEF Crash, tickets, history, TicketsOK, HistoryOK
  <2> QED BY <2>1, <2>2, <2>3 DEF TypeOK
<1>31. ASSUME NEW p \in Procs, NEW t \in Tickets, ApproveStart(p, t) PROVE TypeOK'
  <2>1. ProcsOK'
    BY <1>31, LocalEdit DEF ApproveStart, ProcsOK, Goto, PCs, ApproverPCs
  <2>2. RepoOK' /\ TicketsOK' /\ FilesOK' /\ FaultsOK' /\ HistoryOK'
    BY <1>31 DEF ApproveStart, RepoOK, TicketsOK, FilesOK, FaultsOK, HistoryOK
  <2> QED BY <2>1, <2>2 DEF TypeOK
<1>32. ASSUME NEW p \in Procs, ProviderCall(p) PROVE TypeOK'
  <2> DEFINE s == loc[p].step
  <2>1. s \in Steps /\ ctx[p] \in Records /\ loc[p] \in Locals
    BY LocalFields DEF ProcsOK
  <2>2. PICK tree \in ProviderTrees :
          /\ loc' = [loc EXCEPT ![p].out = tree,
                                ![p].sub = Preview(head, target, tree),
                                ![p].todo = {f \in Files : tree[f] # Absent}]
          /\ ctx' = [ctx EXCEPT ![p].done = Summarised(p)]
          /\ sandbox' = [sandbox EXCEPT ![s] = IF @ = NoTree THEN EmptyTree ELSE @]
    BY <1>32 DEF ProviderCall
  <2>3. tree \in Trees /\ EmptyTree \in Trees
    BY DEF Trees, Content, EmptyTree
  <2>4. Preview(head, target, tree) \in Subjects(Heads)
    BY <2>3, PreviewType DEF RepoOK
  <2>5. Summarised(p) \in SUBSET Steps
    BY <2>1, RecordFields DEF Summarised
  <2>6. ctx' \in [Procs -> Records]
    BY <2>1, <2>2, <2>5, RecordEdit DEF ProcsOK
  <2>7. loc' \in [Procs -> Locals]
    BY <2>1, <2>2, <2>3, <2>4 DEF ProcsOK, Locals
  <2>8. RepoOK'
    BY <1>32, <2>1, <2>2, <2>3 DEF ProviderCall, RepoOK, repo
  <2>9. ProcsOK'
    BY <1>32, <2>6, <2>7 DEF ProviderCall, ProcsOK, Goto, PCs, RunnerPCs
  <2>10. TicketsOK' /\ FilesOK' /\ FaultsOK' /\ HistoryOK'
    BY <1>32 DEF ProviderCall, TicketsOK, FilesOK, FaultsOK, HistoryOK
  <2> QED BY <2>8, <2>9, <2>10 DEF TypeOK
<1>33. ASSUME NEW p \in Procs, CopyFile(p) PROVE TypeOK'
  <2>1. PICK f \in loc[p].todo :
          /\ sandbox' = [sandbox EXCEPT ![loc[p].step] = CopyInto(@, f, loc[p].out[f])]
          /\ loc' = [loc EXCEPT ![p].todo = @ \ {f}]
    BY <1>33 DEF CopyFile
  <2>2. loc[p] \in Locals /\ loc[p].step \in Steps /\ loc[p].todo \subseteq Files /\ loc[p].out \in Trees
    BY LocalFields DEF ProcsOK
  <2>3. \A tree \in Trees \cup {NoTree} : CopyInto(tree, f, loc[p].out[f]) \in Trees
    BY <2>1, <2>2 DEF CopyInto, Trees, EmptyTree, Content
  <2>4. RepoOK'
    BY <1>33, <2>1, <2>2, <2>3 DEF CopyFile, RepoOK, repo
  <2>5. ProcsOK'
    BY <1>33, <2>1, <2>2, LocalEdit DEF CopyFile, ProcsOK
  <2>6. TicketsOK' /\ FilesOK' /\ FaultsOK' /\ HistoryOK'
    BY <1>33 DEF CopyFile, TicketsOK, FilesOK, FaultsOK, HistoryOK
  <2> QED BY <2>4, <2>5, <2>6 DEF TypeOK
<1>34. ASSUME NEW p \in Procs, GateRequest(p) PROVE TypeOK'
  <2>1. PICK t \in Tickets :
          /\ status' = [status EXCEPT ![t] = "pending"]
          /\ bound' = [bound EXCEPT ![t] = [req |-> Requester(loc[p].step), sub |-> loc[p].sub]]
          /\ ctx' = [ctx EXCEPT ![p].tix[t] = "pending"]
    BY <1>34 DEF GateRequest
  <2>2. loc[p].step \in Steps /\ loc[p].sub \in Subjects(Heads) \cup {NoSub} /\ ctx[p] \in Records
    BY LocalFields DEF ProcsOK
  <2>3. Requester(loc[p].step) \in Requesters
    BY <2>2, RunAssumption DEF Requester, Requesters, Implementer, Steps
  <2>4. TicketsOK'
    BY <2>1, <2>2, <2>3 DEF TicketsOK, Bindings, TicketStatus
  <2>5. ctx' \in [Procs -> Records]
    BY <2>1, <2>2, RecordEdit DEF ProcsOK, TicketStatus
  <2>6. ProcsOK'
    BY <1>34, <2>5 DEF GateRequest, ProcsOK, Goto, PCs, RunnerPCs
  <2>7. RepoOK' /\ FilesOK' /\ FaultsOK' /\ HistoryOK'
    BY <1>34 DEF GateRequest, repo, files, history, RepoOK, FilesOK, FaultsOK,
       HistoryOK
  <2> QED BY <2>4, <2>6, <2>7 DEF TypeOK
<1>35. ASSUME NEW p \in Procs, GateApproved(p) PROVE TypeOK'
  <2>1. PICK t \in Tickets : loc' = [loc EXCEPT ![p].tkt = t, ![p].seen = consumed]
    BY <1>35 DEF GateApproved, Chosen, Exact, Usable
  <2>2. loc' \in [Procs -> Locals]
    <3>1. [loc[p] EXCEPT !.tkt = t, !.seen = consumed] \in Locals
      BY LocalEdit DEF ProcsOK, FilesOK
    <3>2. loc' = [loc EXCEPT ![p] = [loc[p] EXCEPT !.tkt = t, !.seen = consumed]]
      BY <2>1
    <3> QED BY <3>1, <3>2 DEF ProcsOK
  <2>3. ProcsOK'
    BY <1>35, <2>2 DEF GateApproved, ProcsOK, Goto, PCs, RunnerPCs
  <2>4. RepoOK' /\ TicketsOK' /\ FilesOK' /\ FaultsOK' /\ HistoryOK'
    BY <1>35 DEF GateApproved, RepoOK, TicketsOK, FilesOK, FaultsOK, HistoryOK
  <2> QED BY <2>3, <2>4 DEF TypeOK
<1>36. ASSUME NEW p \in Procs, ApplyBegin(p) PROVE TypeOK'
  <2>1. loc[p] \in Locals /\ loc[p].step \in Steps /\ loc[p].tkt \in Tickets
    BY LocalFields DEF ProcsOK
  <2>2. loc[p].sub \in Subjects(Heads)
    BY <1>36, <2>1, PreviewType DEF ApplyBegin, SandboxUnchanged, RepoOK
  <2>3. ProcsOK'
    BY <1>36, <2>1, <2>2, SubjectFiles, LocalEdit DEF ApplyBegin, ProcsOK, Goto,
       PCs, RunnerPCs
  <2>4. HistoryOK'
    BY <1>36, <2>1, <2>2 DEF ApplyBegin, HistoryOK
  <2>5. RepoOK' /\ TicketsOK' /\ FilesOK' /\ FaultsOK'
    BY <1>36 DEF ApplyBegin, repo, tickets, files, RepoOK, TicketsOK, FilesOK,
       FaultsOK
  <2> QED BY <2>3, <2>4, <2>5 DEF TypeOK
<1>37. ASSUME NEW p \in Procs, ApplyFile(p) PROVE TypeOK'
  <2>1. PICK f \in loc[p].todo :
          /\ target' = [target EXCEPT ![f] = FileAfter(p, f)]
          /\ loc' = [loc EXCEPT ![p].todo = @ \ {f}]
    BY <1>37 DEF ApplyFile
  <2>2. loc[p] \in Locals /\ loc[p].step \in Steps /\ loc[p].todo \subseteq Files
    BY LocalFields DEF ProcsOK
  <2>3. FileAfter(p, f) \in Content
    BY <2>1, <2>2 DEF FileAfter, Source, RepoOK, Trees, Content
  <2>4. RepoOK'
    BY <1>37, <2>1, <2>2, <2>3 DEF ApplyFile, RepoOK, Trees
  <2>5. ProcsOK'
    BY <1>37, <2>1, <2>2, LocalEdit DEF ApplyFile, ProcsOK
  <2>6. TicketsOK' /\ FilesOK' /\ FaultsOK' /\ HistoryOK'
    BY <1>37 DEF ApplyFile, tickets, files, history, TicketsOK, FilesOK, FaultsOK,
       HistoryOK
  <2> QED BY <2>4, <2>5, <2>6 DEF TypeOK
<1>38. ASSUME NEW p \in Procs, VerifyRetry(p) PROVE TypeOK'
  <2>1. loc[p].step + 1 \in Steps
    BY <1>38, LocalFields DEF VerifyRetry, AttemptLeft, ProcsOK, Steps
  <2>2. ProcsOK'
    BY <1>38, <2>1, NewTypes, LocalEdit DEF VerifyRetry, ProcsOK, Goto, PCs,
       RunnerPCs
  <2>3. RepoOK' /\ TicketsOK' /\ FilesOK' /\ FaultsOK' /\ HistoryOK'
    BY <1>38 DEF VerifyRetry, RepoOK, TicketsOK, FilesOK, FaultsOK, HistoryOK
  <2> QED BY <2>2, <2>3 DEF TypeOK
<1>39. ASSUME NEW f \in Files, NEW v \in Content, Edit(f, v) PROVE TypeOK'
  <2>1. RepoOK' /\ FaultsOK'
    BY <1>39, FaultType DEF Edit, RepoOK, FaultsOK, FaultKinds, Trees
  <2>2. TicketsOK' /\ FilesOK' /\ ProcsOK' /\ HistoryOK'
    BY <1>39 DEF Edit, tickets, files, history, TicketsOK, FilesOK, ProcsOK,
       HistoryOK
  <2> QED BY <2>1, <2>2 DEF TypeOK
<1>40. ASSUME Commit PROVE TypeOK'
  <2>1. RepoOK' /\ FaultsOK'
    BY <1>40, FaultType DEF Commit, RepoOK, FaultsOK, FaultKinds
  <2>2. TicketsOK' /\ FilesOK' /\ ProcsOK' /\ HistoryOK'
    BY <1>40 DEF Commit, tickets, files, history, TicketsOK, FilesOK, ProcsOK,
       HistoryOK
  <2> QED BY <2>1, <2>2 DEF TypeOK
<1>41. ASSUME NEW t \in Tickets, Expire(t) PROVE TypeOK'
  <2>1. RepoOK' /\ FaultsOK'
    BY <1>41, FaultType DEF Expire, repo, RepoOK, FaultsOK, FaultKinds
  <2>2. TicketsOK' /\ FilesOK' /\ ProcsOK' /\ HistoryOK'
    BY <1>41 DEF Expire, tickets, files, history, TicketsOK, FilesOK, ProcsOK,
       HistoryOK
  <2> QED BY <2>1, <2>2 DEF TypeOK
<1>42. ASSUME UNCHANGED vars PROVE TypeOK'
  BY <1>42 DEF vars, RepoOK, TicketsOK, FilesOK, ProcsOK, FaultsOK, HistoryOK
<1> QED
  BY <1>1, <1>2, <1>3, <1>4, <1>5, <1>6, <1>7, <1>8, <1>9, <1>10, <1>11, <1>12,
     <1>13, <1>14, <1>15, <1>16, <1>17, <1>18, <1>19, <1>20, <1>21, <1>22, <1>23,
     <1>24, <1>25, <1>26, <1>27, <1>28, <1>29, <1>30, <1>31, <1>32, <1>33, <1>34,
     <1>35, <1>36, <1>37, <1>38, <1>39, <1>40, <1>41, <1>42
  DEF Next, ApproverStep, RunnerStep, GateStep, ApplyStep, CloseStep, Environment, Procs

\* The run that `ao2 run` starts is well typed.
THEOREM TypeInit == Init => TypeOK
<1> SUFFICES ASSUME Init PROVE TypeOK
  OBVIOUS
<1> USE RunAssumption DEF Init
<1>1. RepoOK
  BY DEF RepoOK, Trees, Content, Heads, FaultKinds
<1>2. TicketsOK
  BY DEF TicketsOK, NewTickets, TicketStatus, NoBinding, Bindings, Requesters,
     Implementer
<1>3. FilesOK
  BY NewTypes DEF FilesOK, NewTickets, TicketStatus
<1>4. ProcsOK
  BY NewTypes DEF ProcsOK, PCs
<1>5. FaultsOK
  BY DEF FaultsOK, FaultKinds
<1>6. HistoryOK
  BY DEF HistoryOK
<1> QED BY <1>1, <1>2, <1>3, <1>4, <1>5, <1>6 DEF TypeOK

\* Every file of the run directory and every process stays well typed: in particular no
\* step past the repair budget is ever entered and no ticket past the last is used.
THEOREM TypeCorrect == Spec => []TypeOK
BY TypeInit, TypeStep, PTL DEF Spec

-----------------------------------------------------------------------------
(* The approval gate, for every value of the constants: any number of        *)
(* processes, overlapping and crashing at will.                              *)


\* Past the gate a runner holds a granted ticket for its requester and subject.
TicketHeld ==
    \A p \in Procs : pc[p] \in {"recheck", "apply_check"} =>
        /\ status[loc[p].tkt] = "approved"
        /\ bound[loc[p].tkt] = [req |-> Requester(loc[p].step), sub |-> loc[p].sub]

\* An approver edits the record only after it has written the approval file.
FileFirst == \A p \in Procs : pc[p] = "a_load" => status[loc[p].tkt] = "approved"

\* It looks at a ticket that find_approval_path found.
TicketFound ==
    \A p \in Procs : pc[p] \in {"a_lock", "a_grant"} => status[loc[p].tkt] # "none"

\* Before the provider-backed run there is no ticket but that of `ao2 run`.
OneTicketFirst ==
    ~opts => /\ \A p \in Runners : pc[p] = "idle"
             /\ \A t \in Tickets \ {FirstTicket} :
                   /\ status[t] = "none"
                   /\ record.tix[t] = "none"
                   /\ \A p \in Procs : ctx[p].tix[t] = "none"

GateInv == TypeOK /\ GrantBacked /\ FileFirst /\ TicketHeld /\ PromotionsApproved
FlightInv == /\ TypeOK /\ GrantBacked /\ FileFirst /\ TicketFound
             /\ OneTicketFirst /\ NoPendingInFlight

\* Only a grant and a request write approval files.
LEMMA TicketWrites ==
    ASSUME [Next]_vars
    PROVE  UNCHANGED tickets \/ \E p \in Procs : ApproveGrant(p) \/ GateRequest(p)
<1>1. ASSUME NEW p \in Approvers, ApproverStep(p) \/ \E t \in Tickets : ApproveStart(p, t)
      PROVE  UNCHANGED tickets \/ ApproveGrant(p)
  BY <1>1 DEF ApproverStep, ApproveStart, ApproveLock, ApproveAlready, ApproveLoad,
     ApproveCheckpoint, ApproveWrite
<1>2. ASSUME NEW p \in Runners, GateStep(p)
      PROVE  UNCHANGED tickets \/ GateRequest(p)
  BY <1>2 DEF GateStep, EnterSkip, EnterPersisted, EnterProvider, ProviderCall,
     ProviderFail, CopyFile, CopyDone, GateStale, WaitCheckpoint, WaitWrite,
     GateExpired, GateApproved
<1>3. ASSUME NEW p \in Runners,
             ApplyStep(p) \/ ClearConsumed(p) \/ ProviderRun(p) \/ ResumeStart(p)
      PROVE  UNCHANGED tickets
  BY <1>3 DEF ClearConsumed, ProviderRun, ResumeStart, ApplyStep, ApplyRefused, Recheck,
     ApplyBegin, ApplyFile, ApplyFail, ApplyDone, RemoveSandbox, Consume
<1>4. ASSUME NEW p \in Runners, CloseStep(p)
      PROVE  UNCHANGED tickets
  BY <1>4 DEF CloseStep, VerifyPass, VerifyRetry, VerifyExhausted, Export,
     FinalCheckpoint, FinalWrite
<1>5. ASSUME Environment \/ UNCHANGED vars
      PROVE  UNCHANGED tickets
  BY <1>5 DEF Environment, Crash, Edit, Commit, Expire, vars, tickets
<1> QED
  BY <1>1, <1>2, <1>3, <1>4, <1>5 DEF Next, RunnerStep, Procs

\* A grant is never withdrawn, and no ticket with a file is bound anew: what
\* one step of any process or of the environment does to the approval files.
LEMMA GrantsKept ==
    ASSUME TypeOK, [Next]_vars, NEW t \in Tickets
    PROVE  /\ status[t] = "approved" => status'[t] = "approved"
           /\ status[t] # "none" => bound'[t] = bound[t]
<1>1. CASE UNCHANGED tickets
  BY <1>1 DEF tickets
<1>2. ASSUME NEW p \in Procs, ApproveGrant(p)
      PROVE  status[t] = "approved" => status'[t] = "approved" /\ bound'[t] = bound[t]
  BY <1>2 DEF ApproveGrant, GrantFile, TypeOK, TicketsOK
<1>3. ASSUME NEW p \in Procs, ApproveGrant(p)
      PROVE  bound' = bound
  BY <1>3 DEF ApproveGrant
<1>4. ASSUME NEW p \in Procs, GateRequest(p)
      PROVE  status[t] # "none" => status'[t] = status[t] /\ bound'[t] = bound[t]
  BY <1>4 DEF GateRequest, NewTicket, TypeOK, TicketsOK
<1> QED
  BY <1>1, <1>2, <1>3, <1>4, TicketWrites


\* Applications are begun by ApplyBegin alone.
LEMMA PromotionWrites ==
    ASSUME [Next]_vars
    PROVE  promotions' = promotions \/ \E p \in Procs : ApplyBegin(p)
<1>1. ASSUME NEW p \in Approvers, ApproverStep(p) \/ \E t \in Tickets : ApproveStart(p, t)
      PROVE  promotions' = promotions
  BY <1>1 DEF history, ApproverStep, ApproveStart, ApproveLock, ApproveAlready,
     ApproveGrant, ApproveLoad, ApproveCheckpoint, ApproveWrite
<1>2. ASSUME NEW p \in Runners, GateStep(p)
      PROVE  promotions' = promotions
  BY <1>2 DEF history, GateStep, EnterSkip, EnterPersisted, EnterProvider, ProviderCall,
     ProviderFail, CopyFile, CopyDone, GateStale, GateRequest, WaitCheckpoint,
     WaitWrite, GateExpired, GateApproved
<1>3. ASSUME NEW p \in Runners,
             ApplyStep(p) \/ ClearConsumed(p) \/ ProviderRun(p) \/ ResumeStart(p)
      PROVE  promotions' = promotions \/ ApplyBegin(p)
  BY <1>3 DEF history, ClearConsumed, ProviderRun, ResumeStart, ApplyStep, ApplyRefused,
     Recheck, ApplyFile, ApplyFail, ApplyDone, RemoveSandbox, Consume
<1>4. ASSUME NEW p \in Runners, CloseStep(p)
      PROVE  promotions' = promotions
  BY <1>4 DEF history, CloseStep, VerifyPass, VerifyRetry, VerifyExhausted, Export,
     FinalCheckpoint, FinalWrite
<1>5. ASSUME Environment \/ UNCHANGED vars
      PROVE  promotions' = promotions
  BY <1>5 DEF history, Environment, Crash, Edit, Commit, Expire, vars
<1> QED
  BY <1>1, <1>2, <1>3, <1>4, <1>5 DEF Next, RunnerStep, Procs

\* A process is past the gate because it was, with the same locals, or because
\* it has just passed it; and before replace_ticket only after a grant.
LEMMA GatePassed ==
    ASSUME TypeOK, [Next]_vars, NEW q \in Procs
    PROVE  /\ pc'[q] \in {"recheck", "apply_check"} =>
                  \/ pc[q] \in {"recheck", "apply_check"} /\ loc'[q] = loc[q]
                  \/ GateApproved(q)
           /\ pc'[q] = "a_load" => \/ pc[q] = "a_load" /\ loc'[q] = loc[q]
                                   \/ ApproveGrant(q)
<1> DEFINE Held == pc'[q] \in {"recheck", "apply_check"} =>
                       \/ pc[q] \in {"recheck", "apply_check"} /\ loc'[q] = loc[q]
                       \/ GateApproved(q)
           Granted == pc'[q] = "a_load" => \/ pc[q] = "a_load" /\ loc'[q] = loc[q]
                                           \/ ApproveGrant(q)
<1> USE DEF TypeOK, ProcsOK, Goto, Return, StepDone, Close, LoadContext
<1>1. ASSUME NEW p \in Approvers, ApproverStep(p) \/ \E t \in Tickets : ApproveStart(p, t)
      PROVE  Held /\ Granted
  BY <1>1 DEF ApproverStep, ApproveStart, ApproveLock, ApproveAlready,
     ApproveGrant, ApproveLoad, ApproveCheckpoint, ApproveWrite, Procs
<1>2. ASSUME NEW p \in Runners, GateStep(p)
      PROVE  Held /\ Granted
  BY <1>2 DEF GateStep, EnterSkip, EnterPersisted, EnterProvider, ProviderCall,
     ProviderFail, CopyFile, CopyDone, GateStale, GateRequest, WaitCheckpoint,
     WaitWrite, GateExpired, GateApproved, Procs
<1>3. ASSUME NEW p \in Runners,
             ApplyStep(p) \/ ClearConsumed(p) \/ ProviderRun(p) \/ ResumeStart(p)
      PROVE  Held /\ Granted
  BY <1>3 DEF ClearConsumed, ProviderRun, ResumeStart, ApplyStep, ApplyRefused,
     Recheck, ApplyBegin, ApplyFile, ApplyFail, ApplyDone, RemoveSandbox, Consume, Procs
<1>4. ASSUME NEW p \in Runners, CloseStep(p)
      PROVE  Held /\ Granted
  BY <1>4 DEF CloseStep, VerifyPass, VerifyRetry, VerifyExhausted, Export,
     FinalCheckpoint, FinalWrite, Procs
<1>5. ASSUME Environment \/ UNCHANGED vars
      PROVE  Held /\ Granted
  BY <1>5 DEF Environment, Crash, Edit, Commit, Expire, vars
<1> QED
  BY <1>1, <1>2, <1>3, <1>4, <1>5 DEF Next, RunnerStep, Procs


\* Approvals come from the record, from a context, or from replace_ticket after
\* the approval file: no other write of run-record.json or of a RunContext
\* turns a ticket into an approved one.
LEMMA ApprovalSources ==
    ASSUME TypeOK, [Next]_vars, NEW t \in Tickets, NEW q \in Procs
    PROVE  /\ record'.tix[t] = "approved" =>
                  record.tix[t] = "approved" \/ \E p \in Procs : ctx[p].tix[t] = "approved"
           /\ ctx'[q].tix[t] = "approved" =>
                  \/ ctx[q].tix[t] = "approved"
                  \/ record.tix[t] = "approved"
                  \/ pc[q] = "a_load" /\ loc[q].tkt = t
<1> DEFINE OnDisk == record'.tix[t] = "approved" =>
                         \/ record.tix[t] = "approved"
                         \/ \E p \in Procs : ctx[p].tix[t] = "approved"
           InMemory == ctx'[q].tix[t] = "approved" =>
                         \/ ctx[q].tix[t] = "approved"
                         \/ record.tix[t] = "approved"
                         \/ pc[q] = "a_load" /\ loc[q].tkt = t
<1>1. NewRecord.tix[t] # "approved"
  BY DEF NewRecord, NewTickets
<1>2. \A p \in Procs : ctx[p] \in Records
  BY DEF TypeOK, ProcsOK
<1> USE DEF TypeOK, ProcsOK, FilesOK, Goto, Return, Close, LoadContext, Records
<1>3. ASSUME NEW p \in Approvers, ApproverStep(p) \/ \E u \in Tickets : ApproveStart(p, u)
      PROVE  OnDisk /\ InMemory
  <2>1. CASE ApproveLoad(p)
    BY <2>1 DEF ApproveLoad, ReplaceTicket, files, Procs
  <2>2. CASE ApproveWrite(p)
    BY <1>1, <1>2, <2>2 DEF ApproveWrite, Procs
  <2>3. CASE ApproveLock(p) \/ ApproveAlready(p) \/ ApproveGrant(p) \/ ApproveCheckpoint(p)
             \/ \E u \in Tickets : ApproveStart(p, u)
    BY <1>1, <2>3 DEF ApproveStart, ApproveLock, ApproveAlready, ApproveGrant,
       ApproveCheckpoint, files, Procs
  <2> QED BY <1>3, <2>1, <2>2, <2>3 DEF ApproverStep
<1>4. ASSUME NEW p \in Runners, GateStep(p)
      PROVE  OnDisk /\ InMemory
  <2>1. CASE ProviderCall(p)
    BY <1>2, <2>1 DEF ProviderCall, files, Procs
  <2>2. CASE GateRequest(p)
    BY <1>2, <2>2 DEF GateRequest, files, Procs, TicketStatus
  <2>3. CASE WaitWrite(p)
    BY <1>2, <2>3 DEF WaitWrite, Procs
  <2>4. CASE \/ EnterSkip(p) \/ EnterPersisted(p) \/ EnterProvider(p) \/ ProviderFail(p)
             \/ CopyFile(p) \/ CopyDone(p) \/ GateStale(p) \/ WaitCheckpoint(p)
             \/ GateExpired(p) \/ GateApproved(p)
    BY <1>1, <2>4 DEF EnterSkip, EnterPersisted, EnterProvider, ProviderFail, CopyFile,
       CopyDone, GateStale, WaitCheckpoint, GateExpired, GateApproved, files, Procs
  <2> QED BY <1>4, <2>1, <2>2, <2>3, <2>4 DEF GateStep
<1>5. ASSUME NEW p \in Runners,
             ApplyStep(p) \/ ClearConsumed(p) \/ ProviderRun(p) \/ ResumeStart(p)
      PROVE  OnDisk /\ InMemory
  BY <1>1, <1>5 DEF ClearConsumed, ProviderRun, ResumeStart, ApplyStep, ApplyRefused,
     Recheck, ApplyBegin, ApplyFile, ApplyFail, ApplyDone, RemoveSandbox, Consume,
     files, Procs
<1>6. ASSUME NEW p \in Runners, CloseStep(p)
      PROVE  OnDisk /\ InMemory
  <2>1. CASE FinalWrite(p)
    BY <1>1, <1>2, <2>1 DEF FinalWrite, Procs
  <2>2. CASE VerifyPass(p) \/ VerifyExhausted(p)
    <3>1. ctx' = [ctx EXCEPT ![p].verdict = "accepted"]
              \/ ctx' = [ctx EXCEPT ![p].verdict = "rejected"]
      BY <2>2 DEF VerifyPass, VerifyExhausted
    <3>2. ctx'[q].tix = ctx[q].tix
      <4>1. \A r \in Records, x \in Terminal : [r EXCEPT !.verdict = x].tix = r.tix
        BY DEF Records
      <4>2. \E x \in Terminal : ctx' = [ctx EXCEPT ![p] = [ctx[p] EXCEPT !.verdict = x]]
        BY <3>1 DEF Terminal
      <4>3. CASE p = q
        BY <1>2, <4>1, <4>2, <4>3
      <4>4. CASE p # q
        BY <4>2, <4>4
      <4> QED BY <4>3, <4>4
    <3>3. record' = record
      BY <2>2 DEF VerifyPass, VerifyExhausted, files
    <3> QED BY <3>2, <3>3
  <2>3. CASE VerifyRetry(p) \/ Export(p) \/ FinalCheckpoint(p)
    BY <2>3 DEF VerifyRetry, Export, FinalCheckpoint, files
  <2> QED BY <1>6, <2>1, <2>2, <2>3 DEF CloseStep
<1>7. ASSUME Environment \/ UNCHANGED vars
      PROVE  OnDisk /\ InMemory
  BY <1>1, <1>7 DEF Environment, Crash, Edit, Commit, Expire, vars, files
<1> QED
  BY <1>3, <1>4, <1>5, <1>6, <1>7 DEF Next, RunnerStep

\* The gate invariant is inductive.
LEMMA GateStart == Init => GateInv
<1> SUFFICES ASSUME Init PROVE GateInv
  OBVIOUS
<1>1. TypeOK
  BY TypeInit
<1>2. GrantBacked
  BY DEF Init, GrantBacked, NewRecord, NewTickets
<1>3. FileFirst /\ TicketHeld /\ PromotionsApproved
  BY DEF Init, FileFirst, TicketHeld, PromotionsApproved
<1> QED BY <1>1, <1>2, <1>3 DEF GateInv

\* No step of a process, a crash or the environment breaks the gate invariant.
LEMMA GateStepKeeps == ASSUME GateInv, [Next]_vars PROVE GateInv'
<1> USE DEF GateInv
<1>1. TypeOK'
  BY TypeStep
<1>2. \A p \in Procs : /\ loc[p] \in Locals /\ loc[p].tkt \in Tickets
                       /\ loc[p].step \in Steps /\ ctx[p] \in Records
  BY LocalFields DEF TypeOK, ProcsOK
<1>3. GrantBacked'
  <2>1. ASSUME NEW t \in Tickets, record'.tix[t] = "approved"
        PROVE  status'[t] = "approved"
    <3>1. CASE Procs = {}
      <4>1. record'.tix[t] = record.tix[t]
        BY <3>1 DEF Next, Procs, Environment, Edit, Commit, Expire, files, vars
      <4> QED BY <4>1, <2>1, GrantsKept DEF GrantBacked
    <3>2. CASE Procs # {}
      BY <3>2, <2>1, ApprovalSources, GrantsKept DEF GrantBacked
    <3> QED BY <3>1, <3>2
  <2>2. ASSUME NEW t \in Tickets, NEW q \in Procs, ctx'[q].tix[t] = "approved"
        PROVE  status'[t] = "approved"
    BY <2>2, ApprovalSources, GrantsKept DEF GrantBacked, FileFirst
  <2> QED BY <2>1, <2>2 DEF GrantBacked
<1>4. FileFirst'
  <2>1. ASSUME NEW q \in Procs, pc'[q] = "a_load"
        PROVE  status'[loc'[q].tkt] = "approved"
    <3>1. CASE pc[q] = "a_load" /\ loc'[q] = loc[q]
      BY <1>2, <3>1, GrantsKept DEF FileFirst
    <3>2. CASE ApproveGrant(q)
      BY <1>2, <3>2 DEF ApproveGrant, GrantFile, TypeOK, TicketsOK
    <3> QED BY <2>1, <3>1, <3>2, GatePassed
  <2> QED BY <2>1 DEF FileFirst
<1>5. TicketHeld'
  <2>1. ASSUME NEW q \in Procs, pc'[q] \in {"recheck", "apply_check"}
        PROVE  /\ status'[loc'[q].tkt] = "approved"
               /\ bound'[loc'[q].tkt] = [req |-> Requester(loc'[q].step), sub |-> loc'[q].sub]
    <3>1. CASE pc[q] \in {"recheck", "apply_check"} /\ loc'[q] = loc[q]
      BY <1>2, <3>1, GrantsKept DEF TicketHeld
    <3>2. CASE GateApproved(q)
      <4>1. PICK t \in Chosen(q) \ expired :
                loc' = [loc EXCEPT ![q].tkt = t, ![q].seen = consumed]
        BY <3>2 DEF GateApproved
      <4>2. /\ t \in Tickets /\ ctx[q].tix[t] = "approved"
            /\ bound[t].req = Requester(loc[q].step) /\ bound[t].sub = loc[q].sub
        BY DEF Chosen, Exact, Usable
      <4>3. loc'[q].tkt = t /\ loc'[q].step = loc[q].step /\ loc'[q].sub = loc[q].sub
        BY <1>2, <4>1 DEF TypeOK, ProcsOK, Locals
      <4>4. bound[t] = [req |-> Requester(loc[q].step), sub |-> loc[q].sub]
        BY <4>2 DEF TypeOK, TicketsOK, Bindings
      <4>5. tickets' = tickets
        BY <3>2 DEF GateApproved
      <4> QED BY <4>2, <4>3, <4>4, <4>5 DEF GrantBacked, tickets
    <3> QED BY <2>1, <3>1, <3>2, GatePassed
  <2> QED BY <2>1 DEF TicketHeld
<1>6. PromotionsApproved'
  <2>1. ASSUME NEW m \in promotions'
        PROVE  /\ status'[m.tkt] = "approved"
               /\ bound'[m.tkt] = [req |-> Requester(m.step), sub |-> m.sub]
    <3>1. CASE m \in promotions
      BY <3>1, GrantsKept DEF PromotionsApproved, TypeOK, HistoryOK
    <3>2. ASSUME NEW p \in Procs, ApplyBegin(p),
                 m = [tkt |-> loc[p].tkt, step |-> loc[p].step, sub |-> loc[p].sub]
          PROVE  /\ status'[m.tkt] = "approved"
                 /\ bound'[m.tkt] = [req |-> Requester(m.step), sub |-> m.sub]
      BY <1>2, <3>2, GrantsKept DEF ApplyBegin, TicketHeld
    <3>3. m \in promotions \/ \E p \in Procs : ApplyBegin(p) /\
             m = [tkt |-> loc[p].tkt, step |-> loc[p].step, sub |-> loc[p].sub]
      BY <2>1, PromotionWrites DEF ApplyBegin
    <3> QED BY <3>1, <3>2, <3>3
  <2> QED BY <2>1 DEF PromotionsApproved
<1> QED BY <1>1, <1>3, <1>4, <1>5, <1>6

\* GateInv holds in every reachable state, whatever processes overlap.
LEMMA GateInvariant == Spec => []GateInv
BY GateStart, GateStepKeeps, PTL DEF Spec

\* No approval comes from anywhere but `ao2 approve`: every ticket the record or a
\* RunContext shows as approved was granted in its approval file.
THEOREM GrantsBacked == Spec => []GrantBacked
<1>1. GateInv => GrantBacked
  BY DEF GateInv
<1> QED BY <1>1, GateInvariant, PTL

\* Every call of apply_sandbox_patch is made under a granted ticket bound to that
\* requester and to exactly that subject.
THEOREM Approved == Spec => []PromotionsApproved
<1>1. GateInv => PromotionsApproved
  BY DEF GateInv
<1> QED BY <1>1, GateInvariant, PTL

\* No step rewrites a granted ticket or the binding of a ticket that exists.
THEOREM Final == Spec => GrantsAreFinal
<1>1. TypeOK /\ [Next]_vars =>
        [\A t \in Tickets :
            /\ status[t] = "approved" => status'[t] = "approved"
            /\ status[t] # "none" => bound'[t] = bound[t]]_vars
  BY GrantsKept
<1> QED BY <1>1, TypeCorrect, PTL DEF Spec, GrantsAreFinal


\* The states in which a runner works with the context it has loaded.
InFlight == RunnerPCs \ {"w_check", "w_write", "export", "f_check", "f_write"}

\* A runner gets there by loading the record, and stays without touching the
\* tickets of its context.
LEMMA FlightSources ==
    ASSUME TypeOK, [Next]_vars, NEW q \in Runners, pc'[q] \in InFlight
    PROVE  \/ pc[q] \in InFlight /\ ctx'[q].tix = ctx[q].tix
           \/ ProviderRun(q) \/ ResumeStart(q)
<1> DEFINE Stays == pc[q] \in InFlight /\ ctx'[q].tix = ctx[q].tix
<1>1. \A p \in Procs : ctx[p] \in Records
  BY DEF TypeOK, ProcsOK
<1>2. \A r \in Records, x \in SUBSET Steps : [r EXCEPT !.done = x].tix = r.tix
  BY DEF Records
<1> USE DEF TypeOK, ProcsOK, Goto, Return, Close, StepDone, InFlight, RunnerPCs, Procs
<1>3. ASSUME NEW p \in Approvers, ApproverStep(p) \/ \E u \in Tickets : ApproveStart(p, u)
      PROVE  Stays
  <2>1. p # q
    BY RunAssumption
  <2>2. pc'[q] = pc[q] /\ ctx'[q] = ctx[q]
    BY <1>3, <2>1 DEF ApproverStep, ApproveStart, ApproveLock, ApproveAlready,
       ApproveGrant, ApproveLoad, ApproveCheckpoint, ApproveWrite
  <2> QED BY <2>2
<1>4. ASSUME NEW p \in Runners, GateStep(p)
      PROVE  Stays
  <2>1. CASE ProviderCall(p)
    <3>1. pc[p] = "provider" /\ pc' = [pc EXCEPT ![p] = "copy"]
      BY <2>1 DEF ProviderCall
    <3>2. ctx' = [ctx EXCEPT ![p] = [ctx[p] EXCEPT !.done = Summarised(p)]]
      BY <2>1 DEF ProviderCall
    <3>3. Summarised(p) \in SUBSET Steps
      BY <1>1, RecordFields, LocalFields DEF Summarised
    <3>4. ctx'[q].tix = ctx[q].tix
      BY <1>1, <1>2, <3>2, <3>3
    <3> QED BY <3>1, <3>4
  <2>2. CASE GateRequest(p)
    BY <2>2 DEF GateRequest
  <2>3. CASE \/ EnterSkip(p) \/ EnterPersisted(p) \/ EnterProvider(p) \/ ProviderFail(p)
             \/ CopyFile(p) \/ CopyDone(p) \/ GateStale(p) \/ WaitCheckpoint(p)
             \/ WaitWrite(p) \/ GateExpired(p) \/ GateApproved(p)
    BY <2>3 DEF EnterSkip, EnterPersisted, EnterProvider, ProviderFail, CopyFile,
       CopyDone, GateStale, WaitCheckpoint, WaitWrite, GateExpired, GateApproved
  <2> QED BY <1>4, <2>1, <2>2, <2>3 DEF GateStep
<1>5. ASSUME NEW p \in Runners, ApplyStep(p) \/ ClearConsumed(p)
      PROVE  Stays
  BY <1>5 DEF ClearConsumed, ApplyStep, ApplyRefused, Recheck, ApplyBegin, ApplyFile,
     ApplyFail, ApplyDone, RemoveSandbox, Consume
<1>6. ASSUME NEW p \in Runners, CloseStep(p)
      PROVE  Stays
  BY <1>6 DEF CloseStep, VerifyPass, VerifyRetry, VerifyExhausted, Export,
     FinalCheckpoint, FinalWrite
<1>7. ASSUME NEW p \in Runners, ProviderRun(p) \/ ResumeStart(p)
      PROVE  Stays \/ ProviderRun(q) \/ ResumeStart(q)
  BY <1>7 DEF ProviderRun, ResumeStart, LoadContext
<1>8. ASSUME Environment \/ UNCHANGED vars
      PROVE  Stays
  BY <1>8 DEF Environment, Crash, Edit, Commit, Expire, vars
<1> QED
  BY <1>3, <1>4, <1>5, <1>6, <1>7, <1>8 DEF Next, RunnerStep

\* Before provider-options.json is written every runner is idle, so that only
\* an approver or the environment can take the step.
LEMMA BeforeOptions ==
    ASSUME FlightInv, [Next]_vars, ~opts'
    PROVE  /\ ~opts
           /\ \/ \E p \in Approvers : ApproverStep(p) \/ \E t \in Tickets : ApproveStart(p, t)
              \/ Environment
              \/ UNCHANGED vars
<1>1. ~opts
  <2>1. ASSUME NEW p \in Approvers, ApproverStep(p) \/ \E t \in Tickets : ApproveStart(p, t)
        PROVE  opts' = opts
    BY <2>1 DEF files, ApproverStep, ApproveStart, ApproveLock, ApproveAlready,
       ApproveGrant, ApproveLoad, ApproveCheckpoint, ApproveWrite
  <2>2. ASSUME NEW p \in Runners, GateStep(p)
        PROVE  opts' = opts
    BY <2>2 DEF files, GateStep, EnterSkip, EnterPersisted, EnterProvider, ProviderCall,
       ProviderFail, CopyFile, CopyDone, GateStale, GateRequest, WaitCheckpoint,
       WaitWrite, GateExpired, GateApproved
  <2>3. ASSUME NEW p \in Runners,
               ApplyStep(p) \/ ClearConsumed(p) \/ ResumeStart(p) \/ CloseStep(p)
        PROVE  opts' = opts
    BY <2>3 DEF files, ClearConsumed, ResumeStart, ApplyStep, ApplyRefused, Recheck,
       ApplyBegin, ApplyFile, ApplyFail, ApplyDone, RemoveSandbox, Consume, CloseStep,
       VerifyPass, VerifyRetry, VerifyExhausted, Export, FinalCheckpoint, FinalWrite
  <2>4. ASSUME NEW p \in Runners, ProviderRun(p)
        PROVE  FALSE
    BY <2>4 DEF ProviderRun
  <2>5. ASSUME Environment \/ UNCHANGED vars
        PROVE  opts' = opts
    BY <2>5 DEF files, Environment, Crash, Edit, Commit, Expire, vars
  <2> QED BY <2>1, <2>2, <2>3, <2>4, <2>5 DEF Next, RunnerStep
<1>2. ASSUME NEW p \in Runners, RunnerStep(p) \/ ProviderRun(p) \/ ResumeStart(p)
      PROVE  FALSE
  <2>1. pc[p] = "idle"
    BY <1>1 DEF FlightInv, OneTicketFirst
  <2>2. ~GateStep(p)
    BY <2>1 DEF GateStep, EnterSkip, EnterPersisted, EnterProvider, ProviderCall,
       ProviderFail, CopyFile, CopyDone, GateStale, GateRequest, WaitCheckpoint,
       WaitWrite, GateExpired, GateApproved
  <2>3. ~ApplyStep(p) /\ ~ClearConsumed(p)
    BY <2>1 DEF ClearConsumed, ApplyStep, ApplyRefused, Recheck, ApplyBegin, ApplyFile,
       ApplyFail, ApplyDone, RemoveSandbox, Consume
  <2>4. ~CloseStep(p)
    BY <2>1 DEF CloseStep, VerifyPass, VerifyRetry, VerifyExhausted, Export,
       FinalCheckpoint, FinalWrite
  <2>5. ~ProviderRun(p) /\ ~ResumeStart(p)
    BY <1>1 DEF ProviderRun, ResumeStart
  <2> QED BY <1>2, <2>2, <2>3, <2>4, <2>5 DEF RunnerStep
<1> QED BY <1>1, <1>2 DEF Next

\* An approver that waits for the lock, or has it, looks at a ticket it found.
LEMMA TicketSought ==
    ASSUME TypeOK, [Next]_vars, NEW q \in Procs, pc'[q] \in {"a_lock", "a_grant"}
    PROVE  \/ pc[q] \in {"a_lock", "a_grant"} /\ loc'[q] = loc[q]
           \/ \E t \in Tickets : ApproveStart(q, t)
<1> DEFINE Goal == \/ pc[q] \in {"a_lock", "a_grant"} /\ loc'[q] = loc[q]
                   \/ \E t \in Tickets : ApproveStart(q, t)
<1> USE DEF TypeOK, ProcsOK, Goto, Return, StepDone, Close, LoadContext, Procs
<1>1. ASSUME NEW p \in Approvers, ApproverStep(p)
      PROVE  Goal
  BY <1>1 DEF ApproverStep, ApproveLock, ApproveAlready, ApproveGrant, ApproveLoad,
     ApproveCheckpoint, ApproveWrite
<1>2. ASSUME NEW p \in Approvers, NEW t \in Tickets, ApproveStart(p, t)
      PROVE  Goal
  <2>1. CASE p = q
    BY <1>2, <2>1
  <2>2. CASE p # q
    BY <1>2, <2>2 DEF ApproveStart
  <2> QED BY <2>1, <2>2
<1>3. ASSUME NEW p \in Runners, GateStep(p)
      PROVE  Goal
  BY <1>3 DEF GateStep, EnterSkip, EnterPersisted, EnterProvider, ProviderCall,
     ProviderFail, CopyFile, CopyDone, GateStale, GateRequest, WaitCheckpoint,
     WaitWrite, GateExpired, GateApproved
<1>4. ASSUME NEW p \in Runners,
             ApplyStep(p) \/ ClearConsumed(p) \/ ProviderRun(p) \/ ResumeStart(p)
      PROVE  Goal
  BY <1>4 DEF ClearConsumed, ProviderRun, ResumeStart, ApplyStep, ApplyRefused,
     Recheck, ApplyBegin, ApplyFile, ApplyFail, ApplyDone, RemoveSandbox, Consume
<1>5. ASSUME NEW p \in Runners, CloseStep(p)
      PROVE  Goal
  BY <1>5 DEF CloseStep, VerifyPass, VerifyRetry, VerifyExhausted, Export,
     FinalCheckpoint, FinalWrite
<1>6. ASSUME Environment \/ UNCHANGED vars
      PROVE  Goal
  BY <1>6 DEF Environment, Crash, Edit, Commit, Expire, vars
<1> QED
  BY <1>1, <1>2, <1>3, <1>4, <1>5, <1>6 DEF Next, RunnerStep

\* No step removes an approval file.
LEMMA FilesStay ==
    ASSUME TypeOK, [Next]_vars, NEW t \in Tickets, status[t] # "none"
    PROVE  status'[t] # "none"
<1>1. ASSUME NEW p \in Procs, ApproveGrant(p)
      PROVE  status'[t] # "none"
  BY <1>1 DEF ApproveGrant, GrantFile, TypeOK, TicketsOK
<1>2. ASSUME NEW p \in Procs, GateRequest(p)
      PROVE  status'[t] # "none"
  BY <1>2 DEF GateRequest, TypeOK, TicketsOK
<1> QED BY <1>1, <1>2, TicketWrites DEF tickets

\* A new run has no runner under way and no second ticket.
LEMMA FlightStart == Init => FlightInv
<1> SUFFICES ASSUME Init PROVE FlightInv
  OBVIOUS
<1>1. TypeOK /\ GrantBacked /\ FileFirst
  BY GateStart DEF GateInv
<1>2. TicketFound /\ NoPendingInFlight
  BY DEF Init, TicketFound, NoPendingInFlight, RunnerPCs, Procs
<1>3. OneTicketFirst
  BY DEF Init, OneTicketFirst, NewTickets, NewRecord, FirstTicket, Procs
<1> QED BY <1>1, <1>2, <1>3 DEF FlightInv

\* No step breaks the flight invariant: contexts past a resume hold decided
\* tickets only, and a ticket a process holds has a file.
LEMMA FlightStepKeeps ==
    ASSUME FlightInv, TypeOK', [Next]_vars
    PROVE  TicketFound' /\ OneTicketFirst' /\ NoPendingInFlight'
<1> USE DEF FlightInv
<1>1. TicketFound'
  <2>1. ASSUME NEW q \in Procs, pc'[q] \in {"a_lock", "a_grant"}
        PROVE  status'[loc'[q].tkt] # "none"
    <3>1. loc[q].tkt \in Tickets
      BY LocalFields DEF TypeOK, ProcsOK
    <3>2. CASE pc[q] \in {"a_lock", "a_grant"} /\ loc'[q] = loc[q]
      BY <3>1, <3>2, FilesStay DEF TicketFound
    <3>3. CASE \E t \in Tickets : ApproveStart(q, t)
      BY <3>3 DEF ApproveStart, tickets, TypeOK, ProcsOK, Locals
    <3> QED BY <2>1, <3>2, <3>3, TicketSought
  <2> QED BY <2>1 DEF TicketFound
<1>2. OneTicketFirst'
  <2> SUFFICES ASSUME ~opts' PROVE OneTicketFirst'
    BY DEF OneTicketFirst
  <2>1. ~opts
    BY BeforeOptions
  <2>2. ASSUME NEW p \in Approvers, ApproverStep(p) \/ \E t \in Tickets : ApproveStart(p, t)
        PROVE  OneTicketFirst'
    <3>1. \A r \in Runners : r # p
      BY RunAssumption
    <3>2. \A r \in Runners : pc'[r] = pc[r]
      BY <2>2, <3>1 DEF ApproverStep, ApproveStart, ApproveLock, ApproveAlready,
         ApproveGrant, ApproveLoad, ApproveCheckpoint, ApproveWrite, Goto, Return,
         TypeOK, ProcsOK, Procs
    <3>3. p \in Procs /\ loc[p].tkt \in Tickets
      BY LocalFields DEF TypeOK, ProcsOK, Procs
    <3>4. pc[p] \in {"a_grant", "a_load"} => loc[p].tkt = FirstTicket
      BY <2>1, <3>3 DEF OneTicketFirst, TicketFound, FileFirst
    <3>5. ASSUME NEW t \in Tickets \ {FirstTicket}
          PROVE  /\ status'[t] = "none"
                 /\ record'.tix[t] = "none"
                 /\ \A q \in Procs : ctx'[q].tix[t] = "none"
      <4> DEFINE Goal == /\ status'[t] = "none"
                         /\ record'.tix[t] = "none"
                         /\ \A q \in Procs : ctx'[q].tix[t] = "none"
      <4>1. /\ status[t] = "none" /\ record.tix[t] = "none"
            /\ \A q \in Procs : ctx[q].tix[t] = "none" /\ ctx[q] \in Records
            /\ NewRecord.tix[t] = "none"
        BY <2>1 DEF OneTicketFirst, NewRecord, NewTickets, TypeOK, ProcsOK
      <4>2. CASE ApproveGrant(p)
        BY <3>3, <3>4, <4>1, <4>2 DEF ApproveGrant, GrantFile, files, TypeOK, TicketsOK
      <4>3. CASE ApproveLoad(p)
        BY <3>3, <3>4, <4>1, <4>3 DEF ApproveLoad, ReplaceTicket, files, tickets, TypeOK,
           ProcsOK, FilesOK, Records
      <4>4. CASE ApproveWrite(p)
        BY <3>3, <4>1, <4>4 DEF ApproveWrite, Return, tickets, TypeOK, ProcsOK, Records
      <4>5. CASE ApproveLock(p) \/ ApproveAlready(p) \/ ApproveCheckpoint(p)
                 \/ \E u \in Tickets : ApproveStart(p, u)
        BY <3>3, <4>1, <4>5 DEF ApproveStart, ApproveLock, ApproveAlready,
           ApproveCheckpoint, Return, files, tickets, TypeOK, ProcsOK
      <4> QED BY <2>2, <4>2, <4>3, <4>4, <4>5 DEF ApproverStep
    <3> QED BY <2>1, <3>2, <3>5 DEF OneTicketFirst
  <2>3. ASSUME NEW p \in Procs, Crash(p)
        PROVE  OneTicketFirst'
    <3>1. \A t \in Tickets \ {FirstTicket} : NewRecord.tix[t] = "none"
      BY DEF NewRecord, NewTickets
    <3>2. \A q \in Procs : /\ ctx'[q] = ctx[q] \/ ctx'[q] = NewRecord
                           /\ pc'[q] = pc[q] \/ pc'[q] = "idle"
      BY <2>3 DEF Crash, Return, Goto, TypeOK, ProcsOK
    <3>3. status' = status /\ record' = record
      BY <2>3 DEF Crash, tickets, files
    <3> QED BY <2>1, <3>1, <3>2, <3>3 DEF OneTicketFirst, Procs
  <2>4. CASE (\E f \in Files, v \in Content : Edit(f, v)) \/ Commit
             \/ (\E t \in Tickets : Expire(t)) \/ UNCHANGED vars
    BY <2>1, <2>4 DEF Edit, Commit, Expire, vars, OneTicketFirst, tickets, files
  <2> QED BY <2>2, <2>3, <2>4, BeforeOptions DEF Environment
<1>3. NoPendingInFlight'
  <2>1. ASSUME NEW q \in Runners, pc'[q] \in InFlight
        PROVE  ~HasPending(ctx'[q].tix)
    <3>1. CASE pc[q] \in InFlight /\ ctx'[q].tix = ctx[q].tix
      BY <3>1 DEF NoPendingInFlight, InFlight
    <3>2. CASE ProviderRun(q)
      <4>1. ctx'[q] = record
        BY <3>2 DEF ProviderRun, LoadContext, TypeOK, ProcsOK, Procs
      <4>2. \A t \in Tickets : t # FirstTicket => record.tix[t] = "none"
        BY <3>2 DEF ProviderRun, OneTicketFirst
      <4>3. record.tix[FirstTicket] = "approved"
        BY <3>2, <4>2 DEF ProviderRun, HasApproved
      <4> QED BY <4>1, <4>2, <4>3 DEF HasPending
    <3>3. CASE ResumeStart(q)
      <4>1. ctx'[q] = record
        BY <3>3 DEF ResumeStart, LoadContext, TypeOK, ProcsOK, Procs
      <4> QED BY <3>3, <4>1 DEF ResumeStart, Undecided
    <3> QED BY <2>1, <3>1, <3>2, <3>3, FlightSources
  <2> QED BY <2>1 DEF NoPendingInFlight, InFlight
<1> QED BY <1>1, <1>2, <1>3

\* FlightInv holds in every reachable state.
LEMMA FlightInvariant == Spec => []FlightInv
<1>1. TypeOK /\ GrantBacked /\ FileFirst /\ TicketFound /\ OneTicketFirst /\ NoPendingInFlight
        => FlightInv
  BY DEF FlightInv
<1>2. GateInv => TypeOK /\ GrantBacked /\ FileFirst
  BY DEF GateInv
<1>3. FlightInv /\ TypeOK' /\ [Next]_vars => TicketFound' /\ OneTicketFirst' /\ NoPendingInFlight'
  BY FlightStepKeeps
<1>4. FlightInv /\ GateInv' /\ [Next]_vars => FlightInv'
  BY <1>3 DEF FlightInv, GateInv
<1> QED BY <1>4, FlightStart, GateInvariant, PTL DEF Spec

\* A runner on its way to the gate or past it holds no undecided ticket, so it
\* never opens a second request and the verifier never runs under an open one.
THEOREM NoneInFlight == Spec => []NoPendingInFlight
<1>1. FlightInv => NoPendingInFlight
  BY DEF FlightInv
<1> QED BY <1>1, FlightInvariant, PTL

-----------------------------------------------------------------------------
(* What an accepted run has applied                                        *)

MainTasks == 1..MainSteps

\* A process past a main task has seen it applied, in its own call or in an earlier one.
Passed(q) ==
    /\ \A s \in MainTasks : s < loc[q].step => s \in landed
    /\ pc[q] = "verify" \/ loc[q].end = "accepted" => MainTasks \subseteq landed
    /\ pc[q] \in {"remove", "consume"} => loc[q].step \in landed

\* Steps whose provider summary is on record, or will be.
Summaries == record.done \cup UNION {ctx[q].done : q \in Procs}

\* A summary without a sandbox means an applied step, whoever removed the sandbox.
SkipIsSafe == \A s \in Summaries : sandbox[s] = NoTree => s \in landed

LandedInv == /\ \A q \in Procs : Passed(q)
             /\ SkipIsSafe
             /\ AcceptedMeansLanded

LEMMA LandedStart == Init => LandedInv
<1> SUFFICES ASSUME Init PROVE LandedInv
  OBVIOUS
<1>1. \A q \in Procs : Passed(q)
  BY DEF Init, Passed, NoLocals, MainTasks
<1>2. Summaries = {}
  BY DEF Init, Summaries, NewRecord
<1> QED BY <1>1, <1>2 DEF LandedInv, SkipIsSafe, AcceptedMeansLanded, Init, NewRecord

\* Only remove_dir_all takes a sandbox away, and only ApplyDone marks a step as applied.
LEMMA SandboxStays ==
    ASSUME TypeOK, LandedInv, [Next]_vars
    PROVE  /\ landed \subseteq landed'
           /\ \A s \in Steps : sandbox'[s] = NoTree => sandbox[s] = NoTree \/ s \in landed
<1> DEFINE Kept == \A s \in Steps : sandbox'[s] = NoTree => sandbox[s] = NoTree \/ s \in landed
<1>0. /\ sandbox \in [Steps -> Trees \cup {NoTree}]
      /\ \A p \in Procs : loc[p] \in Locals /\ loc[p].step \in Steps
      /\ NoTree \notin Trees /\ EmptyTree \in Trees
  BY LocalFields, PatchAssumption DEF TypeOK, RepoOK, ProcsOK, Trees, EmptyTree, Content
<1>1. ASSUME NEW p \in Procs, ProviderCall(p)
      PROVE  Kept /\ landed' = landed
  BY <1>0, <1>1 DEF ProviderCall, history
<1>2. ASSUME NEW p \in Procs, CopyFile(p)
      PROVE  Kept /\ landed' = landed
  <2>1. PICK f \in loc[p].todo :
          sandbox' = [sandbox EXCEPT ![loc[p].step] = CopyInto(@, f, loc[p].out[f])]
    BY <1>2 DEF CopyFile
  <2>2. f \in Files /\ loc[p].out[f] \in Content
    BY <1>0, LocalFields DEF Trees
  <2>3. \A tree \in Trees \cup {NoTree} : CopyInto(tree, f, loc[p].out[f]) \in Trees
    BY <1>0, <2>2 DEF CopyInto, Trees
  <2> QED BY <1>0, <1>2, <2>1, <2>3 DEF CopyFile, history
<1>3. ASSUME NEW p \in Procs, RemoveSandbox(p)
      PROVE  Kept /\ landed' = landed
  <2>1. loc[p].step \in landed
    BY <1>3 DEF RemoveSandbox, LandedInv, Passed
  <2> QED BY <1>0, <1>3, <2>1 DEF RemoveSandbox, history
<1>4. ASSUME NEW p \in Procs, ApplyDone(p)
      PROVE  Kept /\ landed \subseteq landed'
  BY <1>4 DEF ApplyDone, repo
<1>5. CASE UNCHANGED <<sandbox, landed>>
  BY <1>5
<1>6. ASSUME NEW p \in Approvers, ApproverStep(p) \/ \E t \in Tickets : ApproveStart(p, t)
      PROVE  UNCHANGED <<sandbox, landed>>
  BY <1>6 DEF ApproverStep, ApproveStart, ApproveLock, ApproveAlready, ApproveGrant,
     ApproveLoad, ApproveCheckpoint, ApproveWrite, history
<1>7. ASSUME NEW p \in Runners, RunnerStep(p) \/ ProviderRun(p) \/ ResumeStart(p)
      PROVE  \/ UNCHANGED <<sandbox, landed>>
             \/ ProviderCall(p) \/ CopyFile(p) \/ RemoveSandbox(p) \/ ApplyDone(p)
  BY <1>7 DEF RunnerStep, ProviderRun, ResumeStart, ClearConsumed,
     GateStep, EnterSkip, EnterPersisted, EnterProvider, ProviderFail, CopyDone, GateStale,
     GateRequest, WaitCheckpoint, WaitWrite, GateExpired, GateApproved,
     ApplyStep, ApplyRefused, Recheck, ApplyBegin, ApplyFile, ApplyFail, Consume,
     CloseStep, VerifyPass, VerifyRetry, VerifyExhausted, Export, FinalCheckpoint, FinalWrite,
     history
<1>8. CASE Environment \/ UNCHANGED vars
  BY <1>8 DEF Environment, Crash, Edit, Commit, Expire, vars, history
<1> QED BY <1>1, <1>2, <1>3, <1>4, <1>5, <1>6, <1>7, <1>8 DEF Next, Procs

\* A summary is new only where a provider has just left a sandbox.
LEMMA SummarySources ==
    ASSUME TypeOK, [Next]_vars
    PROVE  Summaries' \subseteq Summaries \cup {s \in Steps : sandbox'[s] # NoTree}
<1> DEFINE Lists == {record.done, {}} \cup {ctx[q].done : q \in Procs}
           Copied == record'.done \in Lists /\ \A q \in Procs : ctx'[q].done \in Lists
<1>0. /\ ctx \in [Procs -> Records] /\ record \in Records /\ NewRecord.done = {}
      /\ record.done \in Lists /\ {} \in Lists /\ \A q \in Procs : ctx[q].done \in Lists
  BY DEF TypeOK, ProcsOK, FilesOK, NewRecord
<1> HIDE DEF Lists
<1>1. ASSUME NEW p \in Procs, Return(p), record' = record
      PROVE  Copied
  BY <1>0, <1>1 DEF Return
<1>2. ASSUME NEW p \in Procs, ApproveLoad(p)
      PROVE  Copied
  BY <1>0, <1>2 DEF ApproveLoad, ReplaceTicket, Records, files
<1>3. ASSUME NEW p \in Procs, ApproveWrite(p) \/ FinalWrite(p)
      PROVE  Copied
  BY <1>0, <1>3 DEF ApproveWrite, FinalWrite, Return, Records
<1>4. ASSUME NEW p \in Procs, ProviderRun(p) \/ ResumeStart(p)
      PROVE  Copied
  BY <1>0, <1>4 DEF ProviderRun, ResumeStart, LoadContext, files
<1>5. ASSUME NEW p \in Procs, GateRequest(p)
      PROVE  Copied
  BY <1>0, <1>5 DEF GateRequest, Records, files
<1>6. ASSUME NEW p \in Procs, WaitWrite(p)
      PROVE  Copied
  BY <1>0, <1>6 DEF WaitWrite, Records
<1>7. ASSUME NEW p \in Procs, NEW v, NEW e, Close(p, v, e), record' = record
      PROVE  Copied
  BY <1>0, <1>7 DEF Close, Records
<1>8. ASSUME UNCHANGED <<record, ctx>>
      PROVE  Copied
  BY <1>0, <1>8
<1>9. ASSUME NEW p \in Approvers, ApproverStep(p) \/ \E t \in Tickets : ApproveStart(p, t)
      PROVE  Copied
  <2>1. p \in Procs
    BY DEF Procs
  <2>2. \/ UNCHANGED <<record, ctx>> \/ ApproveLoad(p) \/ ApproveWrite(p)
        \/ Return(p) /\ record' = record
    BY <1>9 DEF ApproverStep, ApproveStart, ApproveLock, ApproveAlready, ApproveGrant,
       ApproveCheckpoint, files
  <2> QED BY <1>1, <1>2, <1>3, <1>8, <2>1, <2>2
<1>10. ASSUME NEW p \in Runners, RunnerStep(p) \/ ProviderRun(p) \/ ResumeStart(p)
       PROVE  Copied \/ ProviderCall(p)
  <2>1. p \in Procs
    BY DEF Procs
  <2>2. \/ UNCHANGED <<record, ctx>> \/ ProviderCall(p)
        \/ ProviderRun(p) \/ ResumeStart(p) \/ GateRequest(p) \/ WaitWrite(p) \/ FinalWrite(p)
        \/ Return(p) /\ record' = record
        \/ (\E v, e : Close(p, v, e)) /\ record' = record
    BY <1>10 DEF RunnerStep, ClearConsumed, GateStep, EnterSkip, EnterPersisted,
       EnterProvider, ProviderFail, CopyFile, CopyDone, GateStale, WaitCheckpoint,
       GateExpired, GateApproved, ApplyStep, ApplyRefused, Recheck, ApplyBegin, ApplyFile,
       ApplyFail, ApplyDone, RemoveSandbox, Consume, CloseStep, VerifyPass, VerifyRetry,
       VerifyExhausted, Export, FinalCheckpoint, files
  <2> QED BY <1>1, <1>3, <1>4, <1>5, <1>6, <1>7, <1>8, <2>1, <2>2
<1>11. ASSUME Environment \/ UNCHANGED vars
       PROVE  Copied
  <2>1. \/ UNCHANGED <<record, ctx>>
        \/ \E p \in Procs : Return(p) /\ record' = record
    BY <1>11 DEF Environment, Crash, Edit, Commit, Expire, vars, files
  <2> QED BY <1>1, <1>8, <2>1
<1>12. CASE Copied
  BY <1>12 DEF Summaries, Lists
<1>13. ASSUME NEW p \in Procs, ProviderCall(p)
       PROVE  Summaries' \subseteq Summaries \cup {s \in Steps : sandbox'[s] # NoTree}
  <2>1. /\ sandbox \in [Steps -> Trees \cup {NoTree}] /\ loc[p].step \in Steps
        /\ NoTree \notin Trees /\ EmptyTree \in Trees
    BY LocalFields, PatchAssumption DEF TypeOK, RepoOK, ProcsOK, Trees, EmptyTree, Content
  <2>2. /\ ctx' = [ctx EXCEPT ![p].done = ctx[p].done \cup {loc[p].step}]
        /\ sandbox'[loc[p].step] # NoTree /\ record' = record
    BY <1>13, <2>1 DEF ProviderCall, Summarised, files
  <2>3. \A q \in Procs : ctx'[q].done \subseteq ctx[q].done \cup {loc[p].step}
    BY <1>0, <2>2 DEF Records
  <2> QED BY <2>1, <2>2, <2>3 DEF Summaries
<1> QED BY <1>9, <1>10, <1>11, <1>12, <1>13 DEF Next, Procs

\* Each process goes past a main task only once it is applied.
LEMMA PassedStep ==
    ASSUME TypeOK, LandedInv, [Next]_vars, NEW q \in Procs
    PROVE  Passed(q)'
<1>0. /\ landed \subseteq landed'
      /\ pc \in [Procs -> PCs] /\ loc \in [Procs -> Locals] /\ MainSteps \in Nat
      /\ \A p \in Procs : loc[p].step \in Nat /\ loc[p].step \in Steps
      /\ NoLocals.step = 1 /\ NoLocals.end = "waiting"
      /\ \A x : NoLocals.step = 1 /\ [NoLocals EXCEPT !.step = x].step = x
                /\ [NoLocals EXCEPT !.step = x].end = "waiting"
      /\ Passed(q)
  BY SandboxStays, LocalFields, RunAssumption
     DEF TypeOK, ProcsOK, Steps, NoLocals, LandedInv
<1> DEFINE Stays == /\ loc'[q].step = loc[q].step /\ loc'[q].end = loc[q].end
                    /\ pc'[q] = pc[q] \/ pc'[q] \notin {"verify", "remove", "consume"}
<1>1. Stays => Passed(q)'
  BY <1>0 DEF Passed
<1>2. ASSUME loc'[q] = NoLocals, pc'[q] \notin {"verify", "remove", "consume"}
      PROVE  Passed(q)'
  BY <1>0, <1>2 DEF Passed, MainTasks
<1>3. ASSUME NEW p \in Procs, p # q,
             \/ ApproverStep(p) \/ (\E t \in Tickets : ApproveStart(p, t))
             \/ RunnerStep(p) \/ ProviderRun(p) \/ ResumeStart(p) \/ Crash(p)
      PROVE  Stays
  <2>1. CASE ApproverStep(p) \/ (\E t \in Tickets : ApproveStart(p, t)) \/ Crash(p)
    BY <1>0, <1>3, <2>1 DEF ApproverStep, ApproveStart, ApproveLock, ApproveAlready,
       ApproveGrant, ApproveLoad, ApproveCheckpoint, ApproveWrite, Crash, Return, Goto
  <2>2. CASE GateStep(p)
    BY <1>0, <1>3, <2>2 DEF GateStep, EnterSkip, EnterPersisted, EnterProvider, ProviderCall,
       ProviderFail, CopyFile, CopyDone, GateStale, GateRequest, WaitCheckpoint, WaitWrite,
       GateExpired, GateApproved, Return, Goto, StepDone
  <2>3. CASE ApplyStep(p) \/ ClearConsumed(p) \/ ProviderRun(p) \/ ResumeStart(p)
    BY <1>0, <1>3, <2>3 DEF ApplyStep, ApplyRefused, Recheck, ApplyBegin, ApplyFile, ApplyFail,
       ApplyDone, RemoveSandbox, Consume, ClearConsumed, ProviderRun, ResumeStart, LoadContext,
       Return, Goto, StepDone
  <2>4. CASE CloseStep(p)
    BY <1>0, <1>3, <2>4 DEF CloseStep, VerifyPass, VerifyRetry, VerifyExhausted, Export,
       FinalCheckpoint, FinalWrite, Close, Return, Goto
  <2> QED BY <1>3, <2>1, <2>2, <2>3, <2>4 DEF RunnerStep
<1>4. ASSUME Return(q)
      PROVE  Passed(q)'
  BY <1>0, <1>2, <1>4 DEF Return, Goto
<1>5. ASSUME ApproverStep(q) \/ (\E t \in Tickets : ApproveStart(q, t)) \/ Crash(q)
             \/ ClearConsumed(q) \/ ProviderRun(q) \/ ResumeStart(q)
      PROVE  Passed(q)'
  <2>1. Stays \/ Return(q)
    BY <1>0, <1>5 DEF ApproverStep, ApproveStart, ApproveLock, ApproveAlready, ApproveGrant,
       ApproveLoad, ApproveCheckpoint, ApproveWrite, Crash, ClearConsumed, ProviderRun,
       ResumeStart, LoadContext, Goto, Locals
  <2> QED BY <1>1, <1>4, <2>1
<1>6. ASSUME loc[q].step \in landed, StepDone(q)
      PROVE  Passed(q)'
  <2>1. \A s \in MainTasks : s <= loc[q].step => s \in landed'
    BY <1>0, <1>6 DEF Passed, MainTasks
  <2>2. CASE loc[q].step < MainSteps
    <3>1. /\ loc'[q].step = loc[q].step + 1 /\ loc'[q].end = "waiting" /\ pc'[q] = "enter"
      BY <1>0, <1>6, <2>2 DEF StepDone, Goto, NoLocals
    <3> QED BY <1>0, <2>1, <3>1 DEF Passed, MainTasks
  <2>3. CASE ~(loc[q].step < MainSteps)
    <3>1. /\ loc'[q].step = loc[q].step /\ loc'[q].end = "waiting" /\ pc'[q] = "verify"
      BY <1>0, <1>6, <2>3 DEF StepDone, Goto, NoLocals
    <3> QED BY <1>0, <2>1, <2>3, <3>1 DEF Passed, MainTasks
  <2> QED BY <2>2, <2>3
<1>7. ASSUME GateStep(q)
      PROVE  Passed(q)'
  <2>1. CASE EnterSkip(q)
    <3>1. loc[q].step \in ctx[q].done /\ sandbox[loc[q].step] = NoTree /\ StepDone(q)
      BY <2>1 DEF EnterSkip, AppliedBefore
    <3>2. loc[q].step \in landed
      BY <3>1 DEF LandedInv, SkipIsSafe, Summaries
    <3> QED BY <1>6, <3>1, <3>2
  <2>2. CASE ~EnterSkip(q)
    <3>1. ASSUME EnterPersisted(q) \/ EnterProvider(q) \/ ProviderCall(q) \/ CopyFile(q)
          PROVE  Stays
      <4>1. CASE EnterPersisted(q)
        BY <1>0, <4>1 DEF EnterPersisted, Goto, Locals
      <4>2. CASE EnterProvider(q)
        BY <1>0, <4>2 DEF EnterProvider, Goto
      <4>3. CASE ProviderCall(q)
        <5>1. PICK tree \in ProviderTrees :
                loc' = [loc EXCEPT ![q].out = tree,
                                   ![q].sub = Preview(head, target, tree),
                                   ![q].todo = {f \in Files : tree[f] # Absent}]
          BY <4>3 DEF ProviderCall
        <5>2. loc'[q].step = loc[q].step /\ loc'[q].end = loc[q].end
          BY <1>0, <5>1 DEF Locals
        <5>3. pc'[q] = "copy"
          BY <1>0, <4>3 DEF ProviderCall, Goto
        <5> QED BY <5>2, <5>3
      <4>4. CASE CopyFile(q)
        <5>1. PICK todo : loc' = [loc EXCEPT ![q].todo = todo]
          BY <4>4 DEF CopyFile
        <5> QED BY <1>0, <4>4, <5>1 DEF CopyFile, Locals
      <4> QED BY <3>1, <4>1, <4>2, <4>3, <4>4
    <3>2. ASSUME CopyDone(q) \/ GateRequest(q) \/ WaitCheckpoint(q) \/ GateApproved(q)
          PROVE  Stays
      BY <1>0, <3>2 DEF CopyDone, GateRequest, WaitCheckpoint, GateApproved, Goto, Locals
    <3>3. CASE ProviderFail(q) \/ GateStale(q) \/ GateExpired(q)
      BY <1>4, <3>3 DEF ProviderFail, GateStale, GateExpired
    <3>4. CASE WaitWrite(q)
      <4>1. /\ loc'[q].step = loc[q].step /\ loc'[q].end = "waiting" /\ pc'[q] = "export"
        BY <1>0, <3>4 DEF WaitWrite, Goto, Locals
      <4> QED BY <1>0, <4>1 DEF Passed
    <3> QED BY <1>1, <1>7, <2>2, <3>1, <3>2, <3>3, <3>4 DEF GateStep
  <2> QED BY <2>1, <2>2
<1>8. ASSUME ApplyStep(q)
      PROVE  Passed(q)'
  <2>1. CASE ApplyDone(q)
    <3>1. /\ loc' = loc /\ landed' = landed \cup {loc[q].step} /\ pc'[q] = "remove"
      BY <1>0, <2>1 DEF ApplyDone, Goto
    <3> QED BY <1>0, <3>1 DEF Passed
  <2>2. CASE RemoveSandbox(q)
    <3>1. loc' = loc /\ pc[q] = "remove" /\ pc'[q] \in {"remove", "consume"}
      BY <1>0, <2>2 DEF RemoveSandbox, Goto
    <3> QED BY <1>0, <3>1 DEF Passed
  <2>3. CASE Consume(q)
    <3>1. StepDone(q) /\ loc[q].step \in landed
      BY <1>0, <2>3 DEF Consume, Passed
    <3> QED BY <1>6, <3>1
  <2>4. CASE ~(ApplyDone(q) \/ RemoveSandbox(q) \/ Consume(q))
    <3>1. Stays \/ Return(q)
      BY <1>0, <1>8, <2>4 DEF ApplyStep, ApplyRefused, Recheck, ApplyBegin, ApplyFile,
         ApplyFail, Goto, Locals
    <3> QED BY <1>1, <1>4, <3>1
  <2> QED BY <2>1, <2>2, <2>3, <2>4
<1>9. ASSUME CloseStep(q)
      PROVE  Passed(q)'
  <2>1. CASE VerifyPass(q) \/ VerifyExhausted(q)
    <3>1. /\ pc[q] = "verify" /\ loc'[q].step = loc[q].step /\ pc'[q] = "export"
      BY <1>0, <2>1 DEF VerifyPass, VerifyExhausted, Close, Goto, Locals
    <3> QED BY <1>0, <3>1 DEF Passed
  <2>2. CASE VerifyRetry(q)
    <3>1. /\ pc[q] = "verify" /\ loc'[q].end = "waiting" /\ pc'[q] = "enter"
      BY <1>0, <2>2 DEF VerifyRetry, Goto
    <3> QED BY <1>0, <3>1 DEF Passed
  <2>3. CASE Export(q) \/ FinalCheckpoint(q) \/ FinalWrite(q)
    <3>1. Stays \/ Return(q)
      BY <1>0, <2>3 DEF Export, FinalCheckpoint, FinalWrite, Goto
    <3> QED BY <1>1, <1>4, <3>1
  <2> QED BY <1>9, <2>1, <2>2, <2>3 DEF CloseStep
<1>10. CASE (\E f \in Files, v \in Content : Edit(f, v)) \/ Commit
            \/ (\E t \in Tickets : Expire(t)) \/ UNCHANGED vars
  <2>1. Stays
    BY <1>10 DEF Edit, Commit, Expire, vars
  <2> QED BY <1>1, <2>1
<1>11. ASSUME NEW p \in Procs,
              \/ ApproverStep(p) \/ (\E t \in Tickets : ApproveStart(p, t))
              \/ RunnerStep(p) \/ ProviderRun(p) \/ ResumeStart(p) \/ Crash(p)
       PROVE  Passed(q)'
  BY <1>1, <1>3, <1>5, <1>7, <1>8, <1>9, <1>11 DEF RunnerStep
<1> QED BY <1>10, <1>11 DEF Next, Environment, Procs

\* The record becomes accepted only at the end of a call that saw the verifier pass.
LEMMA AcceptedSources ==
    ASSUME TypeOK, [Next]_vars, record'.st = "accepted"
    PROVE  record.st = "accepted" \/ \E q \in Procs : loc[q].end = "accepted"
<1>1. record \in Records /\ ctx \in [Procs -> Records]
  BY DEF TypeOK, ProcsOK, FilesOK
<1>2. ASSUME NEW p \in Procs, ApproveWrite(p) \/ WaitWrite(p)
      PROVE  record'.st = "waiting"
  BY <1>1, <1>2 DEF ApproveWrite, WaitWrite, Records
<1>3. ASSUME NEW p \in Procs, FinalWrite(p)
      PROVE  record'.st = loc[p].end
  BY <1>1, <1>3 DEF FinalWrite, Records
<1>4. ASSUME NEW p \in Approvers, ApproverStep(p) \/ \E t \in Tickets : ApproveStart(p, t)
      PROVE  record' = record \/ ApproveWrite(p)
  BY <1>4 DEF ApproverStep, ApproveStart, ApproveLock, ApproveAlready, ApproveGrant,
     ApproveLoad, ApproveCheckpoint, files
<1>5. ASSUME NEW p \in Runners, RunnerStep(p) \/ ProviderRun(p) \/ ResumeStart(p)
      PROVE  record' = record \/ WaitWrite(p) \/ FinalWrite(p)
  BY <1>5 DEF RunnerStep, ProviderRun, ResumeStart, ClearConsumed, GateStep, EnterSkip,
     EnterPersisted, EnterProvider, ProviderCall, ProviderFail, CopyFile, CopyDone, GateStale,
     GateRequest, WaitCheckpoint, GateExpired, GateApproved, ApplyStep, ApplyRefused, Recheck,
     ApplyBegin, ApplyFile, ApplyFail, ApplyDone, RemoveSandbox, Consume, CloseStep, VerifyPass,
     VerifyRetry, VerifyExhausted, Export, FinalCheckpoint, files
<1>6. CASE Environment \/ UNCHANGED vars
  BY <1>6 DEF Environment, Crash, Edit, Commit, Expire, vars, files
<1> QED BY <1>2, <1>3, <1>4, <1>5, <1>6 DEF Next, Procs

LEMMA LandedStep == ASSUME TypeOK, LandedInv, [Next]_vars PROVE LandedInv'
<1>1. \A q \in Procs : Passed(q)'
  BY PassedStep
<1>2. SkipIsSafe'
  <2>1. Summaries \subseteq Steps
    BY DEF Summaries, TypeOK, ProcsOK, FilesOK, Records
  <2>2. Summaries' \subseteq Summaries \cup {s \in Steps : sandbox'[s] # NoTree}
    BY SummarySources
  <2>3. \A s \in Summaries : sandbox'[s] = NoTree => s \in landed'
    BY <2>1, SandboxStays DEF LandedInv, SkipIsSafe
  <2> QED BY <2>2, <2>3 DEF SkipIsSafe
<1>3. AcceptedMeansLanded'
  <2>1. landed \subseteq landed'
    BY SandboxStays
  <2> QED BY <2>1, AcceptedSources DEF LandedInv, Passed, AcceptedMeansLanded, MainTasks
<1> QED BY <1>1, <1>2, <1>3 DEF LandedInv

\* A run is accepted only after the patch of each main task has been applied, whatever
\* processes overlap, crash or find the sandbox of an earlier call.
THEOREM AcceptedLanded == Spec => []AcceptedMeansLanded
<1>1. LandedInv => AcceptedMeansLanded
  BY DEF LandedInv
<1> QED BY <1>1, LandedStart, LandedStep, TypeCorrect, PTL DEF Spec

-----------------------------------------------------------------------------
(* Commands one after the other.  The properties below are lost when two     *)
(* continuations overlap, when an approval overlaps a resume, or when a      *)
(* command dies at the wrong moment; each theorem says which of these its    *)
(* run must not meet, as a hypothesis on the constants.                      *)

\* At any time one continuation (`ao2 run`, `ao2 resume`) at most.
OneContinuation == \A p, q \in Runners \cap Overlap : p = q

\* Only approvals overlap, and only each other.
OnlyApprovalsOverlap == Overlap \subseteq Approvers

\* None of these commands dies half-way.
NoDeathOf(S) == MaxFaults["crash"] = 0 \/ Mortal \cap S = {}

\* Nobody else edits the target repository.
NoDrift == MaxFaults["drift"] = 0

ApproverMove(p) == ApproverStep(p) \/ \E t \in Tickets : ApproveStart(p, t)
RunnerMove(p) == RunnerStep(p) \/ ProviderRun(p) \/ ResumeStart(p)
Outside == \/ \E f \in Files, v \in Content : Edit(f, v)
           \/ Commit
           \/ \E t \in Tickets : Expire(t)
           \/ UNCHANGED vars

\* Nobody but p goes on.
OthersWait(p) == \A q \in Procs \ {p} : pc'[q] = pc[q] /\ ctx'[q] = ctx[q] /\ loc'[q] = loc[q]

\* A runner works in memory and in its sandbox: the files of the run directory and
\* the tickets of its context stay as they are.
Works(p) ==
    /\ pc[p] \in InFlight /\ pc'[p] \in InFlight
    /\ ctx'[p].tix = ctx[p].tix /\ ctx'[p].verdict = ctx[p].verdict
    /\ UNCHANGED <<record, chk, pack, lock, status, bound>>

\* A command begins, by loading the run record.
Begins(p) ==
    /\ MayStart(p)
    /\ record.st = "waiting"
    /\ pc'[p] = "clear" /\ ctx'[p] = record
    /\ UNCHANGED <<record, chk, pack, lock, status, bound>>

\* A command ends before it has touched the record.
GivesUp(p) ==
    /\ pc[p] \in InFlight
    /\ Return(p)
    /\ UNCHANGED <<record, chk, pack, lock, status, bound>>

\* The last step of a command: one of these per step, and nobody else goes on.
LEMMA WhoMoves ==
    ASSUME TypeOK, [Next]_vars
    PROVE  \/ \E p \in Approvers : (ApproverMove(p) \/ Crash(p)) /\ OthersWait(p)
           \/ \E p \in Runners : (RunnerMove(p) \/ Crash(p)) /\ OthersWait(p)
           \/ Outside /\ UNCHANGED <<pc, ctx, loc>>
<1> USE DEF TypeOK, ProcsOK, OthersWait
<1>1. ASSUME NEW p \in Procs, Return(p)
      PROVE  OthersWait(p)
  BY <1>1 DEF Return, Goto
<1>2. ASSUME NEW p \in Procs, ApproverMove(p)
      PROVE  OthersWait(p)
  BY <1>1, <1>2 DEF ApproverMove, ApproverStep, ApproveStart, ApproveLock, ApproveAlready,
     ApproveGrant, ApproveLoad, ApproveCheckpoint, ApproveWrite, Goto
<1>3. ASSUME NEW p \in Procs, GateStep(p)
      PROVE  OthersWait(p)
  BY <1>1, <1>3 DEF GateStep, EnterSkip, EnterPersisted, EnterProvider, ProviderCall,
     ProviderFail, CopyFile, CopyDone, GateStale, GateRequest, WaitCheckpoint, WaitWrite,
     GateExpired, GateApproved, Goto, StepDone
<1>4. ASSUME NEW p \in Procs, ApplyStep(p) \/ ClearConsumed(p) \/ ProviderRun(p) \/ ResumeStart(p)
      PROVE  OthersWait(p)
  BY <1>1, <1>4 DEF ApplyStep, ApplyRefused, Recheck, ApplyBegin, ApplyFile, ApplyFail,
     ApplyDone, RemoveSandbox, Consume, ClearConsumed, ProviderRun, ResumeStart, LoadContext,
     Goto, StepDone
<1>5. ASSUME NEW p \in Procs, CloseStep(p)
      PROVE  OthersWait(p)
  BY <1>1, <1>5 DEF CloseStep, VerifyPass, VerifyRetry, VerifyExhausted, Export,
     FinalCheckpoint, FinalWrite, Close, Goto
<1>6. ASSUME NEW p \in Procs, Crash(p)
      PROVE  OthersWait(p)
  BY <1>1, <1>6 DEF Crash
<1>7. Outside => UNCHANGED <<pc, ctx, loc>>
  BY DEF Outside, Edit, Commit, Expire, vars
<1> QED
  BY <1>2, <1>3, <1>4, <1>5, <1>6, <1>7
  DEF Next, RunnerStep, Environment, Outside, ApproverMove, RunnerMove, Procs

\* What a step of a runner does to the run directory: ten of its actions write there,
\* the others only work.
LEMMA RunnerKinds ==
    ASSUME TypeOK, NEW p \in Runners, RunnerMove(p)
    PROVE  \/ Begins(p) \/ Works(p) \/ GivesUp(p)
           \/ GateRequest(p) \/ WaitCheckpoint(p) \/ WaitWrite(p)
           \/ VerifyPass(p) \/ VerifyExhausted(p)
           \/ Export(p) \/ FinalCheckpoint(p) \/ FinalWrite(p)
<1> USE DEF TypeOK, ProcsOK, Goto, StepDone, InFlight, RunnerPCs, Procs, files, tickets
<1>1. CASE ProviderRun(p) \/ ResumeStart(p)
  BY <1>1 DEF ProviderRun, ResumeStart, Resumable, LoadContext, Begins
<1>2. CASE ProviderFail(p) \/ GateStale(p) \/ GateExpired(p) \/ ApplyRefused(p) \/ ApplyFail(p)
  BY <1>2 DEF ProviderFail, GateStale, GateExpired, ApplyRefused, ApplyFail, GivesUp
<1>3. CASE ProviderCall(p)
  <2>1. ctx' = [ctx EXCEPT ![p].done = Summarised(p)]
    BY <1>3 DEF ProviderCall
  <2>2. ctx'[p].tix = ctx[p].tix /\ ctx'[p].verdict = ctx[p].verdict
    BY <2>1 DEF Records
  <2> QED BY <1>3, <2>2 DEF ProviderCall, Works
<1>4. CASE \/ ClearConsumed(p) \/ EnterSkip(p) \/ EnterPersisted(p) \/ EnterProvider(p)
           \/ CopyFile(p) \/ CopyDone(p) \/ GateApproved(p)
  BY <1>4 DEF ClearConsumed, EnterSkip, EnterPersisted, EnterProvider, CopyFile, CopyDone,
     GateApproved, Works
<1>5. CASE \/ Recheck(p) \/ ApplyBegin(p) \/ ApplyFile(p) \/ ApplyDone(p) \/ RemoveSandbox(p)
           \/ Consume(p) \/ VerifyRetry(p)
  BY <1>5 DEF Recheck, ApplyBegin, ApplyFile, ApplyDone, RemoveSandbox, Consume, VerifyRetry,
     Works
<1> QED
  BY <1>1, <1>2, <1>3, <1>4, <1>5 DEF RunnerMove, RunnerStep, GateStep, ApplyStep, CloseStep

\* Approvers and runners stay in the code of their own command.
Roles == /\ \A p \in Approvers : pc[p] \in {"idle"} \cup ApproverPCs
         /\ \A p \in Runners : pc[p] \in {"idle"} \cup RunnerPCs

\* Two processes are under way at the same time only if the operator lets them overlap.
Together == \A p, q \in Procs :
    p # q /\ pc[p] # "idle" /\ pc[q] # "idle" => {p, q} \subseteq Overlap

\* RunLock::acquire: from the grant to the write of the record an approver has the lock.
LockHeld == \A p \in Procs : pc[p] \in ApproverPCs \ {"a_lock"} => lock = p

TurnInv == TypeOK /\ Roles /\ Together /\ LockHeld

\* No step of a runner, and nothing outside, takes or drops the run lock.
LEMMA LockStays ==
    ASSUME TypeOK, NEW p \in Runners, RunnerMove(p)
    PROVE  lock' = lock
BY DEF RunnerMove, RunnerStep, ProviderRun, ResumeStart, ClearConsumed, GateStep, EnterSkip,
   EnterPersisted, EnterProvider, ProviderCall, ProviderFail, CopyFile, CopyDone, GateStale,
   GateRequest, WaitCheckpoint, WaitWrite, GateExpired, GateApproved, ApplyStep, ApplyRefused,
   Recheck, ApplyBegin, ApplyFile, ApplyFail, ApplyDone, RemoveSandbox, Consume, CloseStep,
   VerifyPass, VerifyRetry, VerifyExhausted, Export, FinalCheckpoint, FinalWrite, files

\* Where one step leads, in the approver's code or in the runner's.
LEMMA NextPlace ==
    ASSUME TypeOK, Roles, NEW p \in Procs
    PROVE  /\ p \in Approvers /\ ApproverMove(p) =>
                  /\ pc'[p] \in {"idle"} \cup ApproverPCs
                  /\ pc[p] = "idle" => MayStart(p)
           /\ p \in Runners /\ RunnerMove(p) =>
                  /\ pc'[p] \in {"idle"} \cup RunnerPCs
                  /\ pc[p] = "idle" => MayStart(p)
           /\ Crash(p) => pc'[p] = "idle"
<1> USE DEF TypeOK, ProcsOK, Goto, Return
<1>1. ASSUME p \in Approvers, ApproverMove(p)
      PROVE  /\ pc'[p] \in {"idle"} \cup ApproverPCs
             /\ pc[p] = "idle" => MayStart(p)
  BY <1>1 DEF ApproverMove, ApproverStep, ApproveStart, ApproveLock, ApproveAlready,
     ApproveGrant, ApproveLoad, ApproveCheckpoint, ApproveWrite, ApproverPCs
<1>2. ASSUME p \in Runners, RunnerMove(p)
      PROVE  /\ pc'[p] \in {"idle"} \cup RunnerPCs
             /\ pc[p] = "idle" => MayStart(p)
  <2>1. CASE Begins(p) \/ Works(p) \/ GivesUp(p)
    BY <2>1 DEF Begins, Works, GivesUp, InFlight, RunnerPCs
  <2>2. CASE \/ GateRequest(p) \/ WaitCheckpoint(p) \/ WaitWrite(p)
             \/ VerifyPass(p) \/ VerifyExhausted(p)
             \/ Export(p) \/ FinalCheckpoint(p) \/ FinalWrite(p)
    BY <2>2 DEF GateRequest, WaitCheckpoint, WaitWrite, VerifyPass, VerifyExhausted, Export,
       FinalCheckpoint, FinalWrite, Close, RunnerPCs
  <2> QED BY <1>2, <2>1, <2>2, RunnerKinds
<1>3. Crash(p) => pc'[p] = "idle"
  BY DEF Crash
<1> QED BY <1>1, <1>2, <1>3

\* No step breaks the discipline of starts and of the run lock.
LEMMA TurnStep == ASSUME TurnInv, [Next]_vars PROVE TurnInv'
<1> USE DEF TurnInv
<1>1. TypeOK'
  BY TypeStep
<1>2. /\ \A p \in Approvers : p \in Procs
      /\ \A p \in Runners : p \in Procs
      /\ Approvers \cap Runners = {}
      /\ ApproverPCs \cap RunnerPCs = {}
  BY RunAssumption DEF Procs, ApproverPCs, RunnerPCs
<1>3. ASSUME NEW p \in Approvers, ApproverMove(p), OthersWait(p)
      PROVE  Roles' /\ Together' /\ LockHeld'
  <2>1. /\ pc'[p] \in {"idle"} \cup ApproverPCs
        /\ pc[p] = "idle" => MayStart(p)
    BY <1>2, <1>3, NextPlace
  <2>2. Roles'
    BY <1>2, <1>3, <2>1 DEF Roles, OthersWait
  <2>3. Together'
    BY <1>2, <1>3, <2>1 DEF Together, OthersWait, MayStart
  <2>4. LockHeld'
    <3>1. /\ pc \in [Procs -> PCs] /\ NoProc \notin Procs
          /\ lock \in Procs \cup {NoProc}
      BY RunAssumption DEF TypeOK, ProcsOK, FilesOK, Procs
    <3>2. CASE ApproveLock(p)
      BY <1>2, <1>3, <3>1, <3>2 DEF ApproveLock, LockFree, LockHeld, OthersWait, Goto
    <3>3. CASE ApproveAlready(p) \/ ApproveWrite(p)
      BY <1>2, <1>3, <3>1, <3>3 DEF ApproveAlready, ApproveWrite, Return, LockHeld, OthersWait,
         Goto, ApproverPCs
    <3>4. CASE ApproveGrant(p) \/ ApproveLoad(p) \/ ApproveCheckpoint(p)
               \/ \E t \in Tickets : ApproveStart(p, t)
      BY <1>2, <1>3, <3>1, <3>4 DEF ApproveStart, ApproveGrant, ApproveLoad, ApproveCheckpoint,
         LockHeld, OthersWait, Goto, ApproverPCs, files
    <3> QED BY <1>3, <3>2, <3>3, <3>4 DEF ApproverMove, ApproverStep
  <2> QED BY <2>2, <2>3, <2>4
<1>4. ASSUME NEW p \in Runners, RunnerMove(p), OthersWait(p)
      PROVE  Roles' /\ Together' /\ LockHeld'
  <2>1. /\ pc'[p] \in {"idle"} \cup RunnerPCs
        /\ pc[p] = "idle" => MayStart(p)
    BY <1>2, <1>4, NextPlace
  <2>2. Roles'
    BY <1>2, <1>4, <2>1 DEF Roles, OthersWait
  <2>3. Together'
    BY <1>2, <1>4, <2>1 DEF Together, OthersWait, MayStart
  <2>4. lock' = lock
    BY <1>4, LockStays
  <2>5. pc'[p] \notin ApproverPCs
    BY <1>2, <2>1 DEF ApproverPCs
  <2>6. LockHeld'
    BY <1>4, <2>4, <2>5 DEF LockHeld, OthersWait
  <2> QED BY <2>2, <2>3, <2>6
<1>5. ASSUME NEW p \in Procs, Crash(p), OthersWait(p)
      PROVE  Roles' /\ Together' /\ LockHeld'
  <2>1. pc'[p] = "idle" /\ lock' = (IF lock = p THEN NoProc ELSE lock)
    BY <1>5 DEF Crash, Return, Goto, TypeOK, ProcsOK
  <2>2. Roles'
    BY <1>2, <1>5, <2>1 DEF Roles, OthersWait
  <2>3. Together'
    BY <1>5, <2>1 DEF Together, OthersWait
  <2>4. LockHeld'
    BY <1>5, <2>1 DEF LockHeld, OthersWait, ApproverPCs
  <2> QED BY <2>2, <2>3, <2>4
<1>6. ASSUME Outside, UNCHANGED <<pc, ctx, loc>>
      PROVE  Roles' /\ Together' /\ LockHeld'
  <2>1. lock' = lock
    BY <1>6 DEF Outside, Edit, Commit, Expire, vars
  <2> QED BY <1>6, <2>1 DEF Roles, Together, LockHeld
<1> QED BY <1>1, <1>2, <1>3, <1>4, <1>5, <1>6, WhoMoves

\* Two commands overlap only as the operator lets them, and two approvals never grant at
\* the same time: whoever is past the lock has it.
LEMMA TurnInvariant == Spec => []TurnInv
<1>1. Init => TurnInv
  BY TypeInit DEF Init, TurnInv, Roles, Together, LockHeld, ApproverPCs, Procs
<1> QED BY <1>1, TurnStep, PTL DEF Spec

\* With one continuation at a time, no two runners are under way.
LEMMA OneRunner ==
    ASSUME TurnInv, OneContinuation, NEW p \in Runners, NEW q \in Runners,
           pc[p] # "idle", pc[q] # "idle"
    PROVE  p = q
BY DEF TurnInv, Together, OneContinuation, Procs

\* With only approvals overlapping, a runner under way is alone.
LEMMA RunnerAlone ==
    ASSUME TurnInv, OnlyApprovalsOverlap, NEW p \in Runners, NEW q \in Procs,
           pc[p] # "idle", pc[q] # "idle"
    PROVE  p = q
BY RunAssumption DEF TurnInv, Together, OnlyApprovalsOverlap, Procs

\* A runner that may start under that hypothesis finds every process at rest.
LEMMA StartsAlone ==
    ASSUME OnlyApprovalsOverlap, NEW p \in Runners, MayStart(p)
    PROVE  AtRest
BY RunAssumption DEF MayStart, OnlyApprovalsOverlap, AtRest, Procs

\* Two approvers past the lock are one.
LEMMA OneHolder ==
    ASSUME TurnInv, NEW p \in Procs, NEW q \in Procs,
           pc[p] \in ApproverPCs \ {"a_lock"}, pc[q] \in ApproverPCs \ {"a_lock"}
    PROVE  p = q
BY DEF TurnInv, LockHeld

\* An idle runner moves only by loading the record.
LEMMA StartsByLoading ==
    ASSUME TypeOK, NEW p \in Runners, RunnerMove(p), pc[p] = "idle"
    PROVE  Begins(p)
BY RunnerKinds DEF Works, GivesUp, InFlight, RunnerPCs, GateRequest, WaitCheckpoint, WaitWrite,
   VerifyPass, VerifyExhausted, Export, FinalCheckpoint, FinalWrite

\* While a continuation moves, no other is under way.
LEMMA OthersAtRest ==
    ASSUME OneContinuation, TurnInv, TurnInv',
           NEW p \in Runners, RunnerMove(p), OthersWait(p), NEW q \in Runners, q # p
    PROVE  pc[q] = "idle" /\ pc'[q] = "idle"
<1>1. pc'[q] = pc[q]
  BY DEF OthersWait, Procs
<1>2. ASSUME pc[q] # "idle"
      PROVE  FALSE
  <2>1. pc[p] = "idle"
    BY <1>2, OneRunner
  <2>2. pc'[p] = "clear"
    BY <2>1, StartsByLoading DEF Begins, TurnInv
  <2> QED BY <1>1, <1>2, <2>2 DEF TurnInv, Together, OneContinuation, Procs
<1> QED BY <1>1, <1>2

\* While a runner moves everybody else is idle; so are the runners while an approver has the lock.
LEMMA MovesAlone ==
    ASSUME OnlyApprovalsOverlap, TurnInv
    PROVE  /\ \A p \in Runners : RunnerMove(p) => \A q \in Procs : q # p => pc[q] = "idle"
           /\ \A p \in Approvers : pc[p] \in ApproverPCs \ {"a_lock"} =>
                 \A q \in Procs : q # p => pc[q] \in {"idle", "a_lock"}
<1>1. \A p \in Runners : p \in Procs /\ p \notin Approvers
  BY RunAssumption DEF Procs
<1>2. ASSUME NEW p \in Runners, RunnerMove(p), NEW q \in Procs, q # p
      PROVE  pc[q] = "idle"
  <2>1. CASE pc[p] = "idle"
    BY <1>2, <2>1, StartsByLoading, StartsAlone DEF Begins, AtRest, TurnInv
  <2>2. CASE pc[p] # "idle"
    BY <1>2, <2>2, RunnerAlone
  <2> QED BY <2>1, <2>2
<1>3. ASSUME NEW p \in Approvers, pc[p] \in ApproverPCs \ {"a_lock"}, NEW q \in Procs, q # p
      PROVE  pc[q] \in {"idle", "a_lock"}
  <2>1. CASE q \in Runners
    BY <1>1, <1>3, <2>1, RunnerAlone DEF ApproverPCs, Procs
  <2>2. CASE q \in Approvers
    <3>1. pc[q] \in {"idle"} \cup ApproverPCs
      BY <2>2 DEF TurnInv, Roles
    <3> QED BY <1>3, <3>1, OneHolder DEF Procs
  <2> QED BY <2>1, <2>2 DEF Procs
<1> QED BY <1>2, <1>3

-----------------------------------------------------------------------------
(* The closing status, the last closure report and the evidence pack.        *)

\* A continuation under way works on a run that is waiting.
OpenRun == \A p \in Runners : pc[p] # "idle" => record.st = "waiting"

\* The report a call closes with is that of the status it will write, and once the pack
\* is exported it has the same verdict.
Reported ==
    \A p \in Runners : loc[p].end \in Terminal =>
        /\ pc[p] \in {"export", "f_check", "f_write"} => ctx[p].verdict = loc[p].end
        /\ pc[p] \in {"f_check", "f_write"} => pack = loc[p].end

EvidenceInv == OpenRun /\ Reported /\ EvidenceAgrees

\* An approver leaves the evidence pack alone, and reopens the run when it writes the record.
LEMMA ApproverWrites ==
    ASSUME TypeOK, NEW p \in Approvers, ApproverMove(p)
    PROVE  /\ pack' = pack /\ UNCHANGED <<repo, sandbox>>
           /\ record' = record \/ record'.st = "waiting"
<1>1. CASE ApproveWrite(p)
  BY <1>1 DEF ApproveWrite, TypeOK, ProcsOK, Records, Procs
<1>2. CASE ~ApproveWrite(p)
  BY <1>2 DEF ApproverMove, ApproverStep, ApproveStart, ApproveLock, ApproveAlready,
     ApproveGrant, ApproveLoad, ApproveCheckpoint, files
<1> QED BY <1>1, <1>2 DEF ApproveWrite

\* A crash, an edit, a commit or the passing of time touches no file of the run directory
\* but the lock.
LEMMA OutsideFiles ==
    ASSUME Outside \/ \E p \in Procs : Crash(p)
    PROVE  UNCHANGED <<files, tickets, sandbox>>
BY DEF Outside, Edit, Commit, Expire, Crash, vars, files, tickets

\* No step of one continuation at a time makes the three disagree.
LEMMA EvidenceStep ==
    ASSUME OneContinuation, TurnInv, TurnInv', EvidenceInv, [Next]_vars
    PROVE  EvidenceInv'
<1> USE DEF EvidenceInv
<1>1. /\ \A p \in Runners : p \in Procs /\ p \notin Approvers
      /\ TypeOK /\ ctx \in [Procs -> Records] /\ loc \in [Procs -> Locals]
      /\ pc \in [Procs -> PCs] /\ record \in Records
  BY RunAssumption DEF TurnInv, TypeOK, ProcsOK, FilesOK, Procs
<1>2. ASSUME NEW p \in Approvers, ApproverMove(p), OthersWait(p)
      PROVE  EvidenceInv'
  <2>1. \A q \in Runners : pc'[q] = pc[q] /\ ctx'[q] = ctx[q] /\ loc'[q] = loc[q]
    BY <1>1, <1>2 DEF OthersWait
  <2>2. pack' = pack /\ (record' = record \/ record'.st = "waiting")
    BY <1>1, <1>2, ApproverWrites
  <2>3. OpenRun'
    BY <2>1, <2>2 DEF OpenRun
  <2>4. Reported'
    BY <2>1, <2>2 DEF Reported
  <2>5. EvidenceAgrees'
    BY <2>2 DEF EvidenceAgrees, Terminal
  <2> QED BY <2>3, <2>4, <2>5
<1>3. ASSUME NEW p \in Runners, RunnerMove(p), OthersWait(p)
      PROVE  EvidenceInv'
  <2>1. \A q \in Runners : q # p => pc'[q] = "idle"
    BY <1>3, OthersAtRest
  <2>2. CASE Begins(p)
    <3>1. /\ pc'[p] = "clear" /\ record.st = "waiting" /\ record' = record
      BY <2>2 DEF Begins
    <3> QED BY <2>1, <3>1 DEF OpenRun, Reported, EvidenceAgrees, Terminal
  <2>3. pc[p] = "idle" => Begins(p)
    BY <1>1, <1>3, StartsByLoading
  <2>4. ASSUME pc[p] # "idle", ~Begins(p)
        PROVE  EvidenceInv'
    <3>1. record.st = "waiting" /\ \A q \in Runners : q # p => pc'[q] = "idle"
      BY <2>1, <2>4 DEF OpenRun
    <3>2. ASSUME record' = record,
                 loc'[p].end \in Terminal =>
                     /\ pc'[p] \in {"export", "f_check", "f_write"} => ctx'[p].verdict = loc'[p].end
                     /\ pc'[p] \in {"f_check", "f_write"} => pack' = loc'[p].end
          PROVE  EvidenceInv'
      BY <3>1, <3>2 DEF OpenRun, Reported, EvidenceAgrees, Terminal
    <3>3. CASE Works(p)
      BY <3>2, <3>3 DEF Works, InFlight
    <3>4. CASE GivesUp(p)
      BY <1>1, <3>2, <3>4 DEF GivesUp, Return, Goto
    <3>5. CASE GateRequest(p) \/ WaitCheckpoint(p)
      BY <1>1, <3>2, <3>5 DEF GateRequest, WaitCheckpoint, Goto, files
    <3>6. CASE WaitWrite(p)
      <4>1. /\ record'.st = "waiting" /\ loc'[p].end = "waiting"
        BY <1>1, <3>6 DEF WaitWrite, Records, Locals
      <4> QED BY <3>1, <4>1 DEF OpenRun, Reported, EvidenceAgrees, Terminal
    <3>7. CASE VerifyPass(p) \/ VerifyExhausted(p)
      <4>1. /\ record' = record /\ pc'[p] = "export"
            /\ ctx'[p].verdict = loc'[p].end
        BY <1>1, <3>7 DEF VerifyPass, VerifyExhausted, Close, Goto, files, Records, Locals
      <4> QED BY <3>2, <4>1
    <3>8. CASE Export(p)
      <4>1. /\ record' = record /\ pc[p] = "export" /\ ctx' = ctx /\ loc' = loc
            /\ pack' = ctx[p].verdict
        BY <3>8 DEF Export
      <4> QED BY <3>2, <4>1 DEF Reported
    <3>9. CASE FinalCheckpoint(p)
      <4>1. /\ record' = record /\ pc[p] = "f_check" /\ ctx' = ctx /\ loc' = loc /\ pack' = pack
        BY <3>9 DEF FinalCheckpoint
      <4> QED BY <3>2, <4>1 DEF Reported
    <3>10. CASE FinalWrite(p)
      <4>1. /\ record'.st = loc[p].end /\ record'.verdict = ctx[p].verdict /\ pack' = pack
            /\ pc[p] = "f_write" /\ pc'[p] = "idle"
        BY <1>1, <3>10 DEF FinalWrite, Return, Goto, Records
      <4>2. EvidenceAgrees'
        BY <4>1 DEF EvidenceAgrees, Reported
      <4>3. OpenRun' /\ Reported'
        BY <3>1, <4>1 DEF OpenRun, Reported
      <4> QED BY <4>2, <4>3
    <3> QED
      BY <1>1, <1>3, <2>4, <3>3, <3>4, <3>5, <3>6, <3>7, <3>8, <3>9, <3>10, RunnerKinds
  <2> QED BY <2>2, <2>3, <2>4
<1>4. ASSUME NEW p \in Procs, Crash(p), OthersWait(p)
      PROVE  EvidenceInv'
  <2>1. /\ pc'[p] = "idle" /\ record' = record /\ pack' = pack
    BY <1>1, <1>4, OutsideFiles DEF Crash, Return, Goto, files
  <2>2. \A q \in Runners : q # p => pc'[q] = pc[q] /\ ctx'[q] = ctx[q] /\ loc'[q] = loc[q]
    BY <1>1, <1>4 DEF OthersWait
  <2> QED BY <2>1, <2>2 DEF OpenRun, Reported, EvidenceAgrees
<1>5. ASSUME Outside, UNCHANGED <<pc, ctx, loc>>
      PROVE  EvidenceInv'
  <2>1. record' = record /\ pack' = pack
    BY <1>5, OutsideFiles DEF files
  <2> QED BY <1>5, <2>1 DEF OpenRun, Reported, EvidenceAgrees
<1> QED BY <1>1, <1>2, <1>3, <1>4, <1>5, WhoMoves DEF Procs

\* With one continuation at a time, whatever dies and whatever approvals overlap it, an accepted
\* or rejected run has a closure report and an evidence pack that say so.
THEOREM EvidenceTrue == ASSUME OneContinuation PROVE Spec => []EvidenceAgrees
<1>1. Init => EvidenceInv
  BY DEF Init, EvidenceInv, OpenRun, Reported, EvidenceAgrees, NewRecord, NoLocals, Terminal, Procs
<1>2. TurnInv /\ TurnInv' /\ EvidenceInv /\ [Next]_vars => EvidenceInv'
  BY EvidenceStep
<1>3. EvidenceInv => EvidenceAgrees
  BY DEF EvidenceInv
<1> QED BY <1>1, <1>2, <1>3, TurnInvariant, PTL DEF Spec

-----------------------------------------------------------------------------
(* What an apply leaves in the target repository.                            *)

\* While the files of a subject are applied the sandbox holds what the subject says, and
\* so do the files that are done.
ApplyExact ==
    \A p \in Runners :
        /\ pc[p] = "apply" =>
              /\ loc[p].sub \in Subjects(Heads)
              /\ \A f \in DOMAIN loc[p].sub.ops :
                    /\ sandbox[loc[p].step] # NoTree
                    /\ sandbox[loc[p].step][f] = loc[p].sub.ops[f].after
                    /\ f \notin loc[p].todo => target[f] = loc[p].sub.ops[f].after
        /\ pc[p] = "remove" =>
              \A f \in DOMAIN loc[p].sub.ops : target[f] = loc[p].sub.ops[f].after

\* A runner applies because it has begun to, or goes on; it removes the sandbox once all is done.
LEMMA ApplySources ==
    ASSUME TypeOK, NEW p \in Runners, RunnerMove(p)
    PROVE  /\ pc'[p] = "apply" => ApplyBegin(p) \/ ApplyFile(p)
           /\ pc'[p] = "remove" => ApplyDone(p) \/ RemoveSandbox(p)
<1> USE DEF TypeOK, ProcsOK, Goto, Return, StepDone, Procs
<1>1. CASE ProviderRun(p) \/ ResumeStart(p) \/ ClearConsumed(p)
  BY <1>1 DEF ProviderRun, ResumeStart, ClearConsumed, LoadContext
<1>2. CASE GateStep(p)
  BY <1>2 DEF GateStep, EnterSkip, EnterPersisted, EnterProvider, ProviderCall, ProviderFail,
     CopyFile, CopyDone, GateStale, GateRequest, WaitCheckpoint, WaitWrite, GateExpired,
     GateApproved
<1>3. CASE ApplyStep(p)
  BY <1>3 DEF ApplyStep, ApplyRefused, Recheck, ApplyBegin, ApplyFile, ApplyFail, ApplyDone,
     RemoveSandbox, Consume
<1>4. CASE CloseStep(p)
  BY <1>4 DEF CloseStep, VerifyPass, VerifyRetry, VerifyExhausted, Export, FinalCheckpoint,
     FinalWrite, Close
<1> QED BY <1>1, <1>2, <1>3, <1>4 DEF RunnerMove, RunnerStep

\* The files of a preview of a directory that differ are as the directory has them.
LEMMA PreviewAfter ==
    ASSUME NEW h, NEW x, NEW y, NEW f \in DOMAIN Preview(h, x, y).ops
    PROVE  f \in Files /\ Preview(h, x, y).ops[f].after = y[f]
BY DEF Preview, Changed

\* Without an edit from outside the target repository changes by an apply only.
LEMMA ApplyStepKeeps ==
    ASSUME OneContinuation, NoDrift, TurnInv, TurnInv', ApplyExact, [Next]_vars
    PROVE  ApplyExact'
<1>1. /\ \A p \in Runners : p \in Procs /\ p \notin Approvers
      /\ TypeOK /\ loc \in [Procs -> Locals] /\ pc \in [Procs -> PCs]
      /\ target \in Trees /\ sandbox \in [Steps -> Trees \cup {NoTree}]
  BY RunAssumption DEF TurnInv, TypeOK, ProcsOK, RepoOK, Procs
<1>2. ASSUME NEW p \in Runners, RunnerMove(p), OthersWait(p)
      PROVE  ApplyExact'
  <2>1. \A q \in Runners : q # p => pc'[q] = "idle"
    BY <1>2, OthersAtRest
  <2>2. loc[p] \in Locals /\ loc[p].step \in Steps
    BY <1>1, LocalFields
  <2>3. CASE ApplyBegin(p)
    <3>1. /\ loc'[p].sub = loc[p].sub /\ loc'[p].step = loc[p].step
          /\ loc'[p].todo = DOMAIN loc[p].sub.ops
          /\ sandbox' = sandbox /\ sandbox[loc[p].step] # NoTree
          /\ loc[p].sub = Preview(head, target, sandbox[loc[p].step])
          /\ pc'[p] = "apply"
      BY <1>1, <2>2, <2>3 DEF ApplyBegin, SandboxUnchanged, Goto, Locals
    <3>2. loc[p].sub \in Subjects(Heads)
      BY <1>1, <2>2, <3>1, PreviewType DEF TypeOK, RepoOK
    <3>3. \A f \in DOMAIN loc[p].sub.ops :
             sandbox[loc[p].step][f] = loc[p].sub.ops[f].after
      BY <3>1, PreviewAfter
    <3> QED BY <2>1, <3>1, <3>2, <3>3 DEF ApplyExact
  <2>4. CASE ApplyFile(p)
    <3>1. PICK f \in loc[p].todo :
             /\ target' = [target EXCEPT ![f] = FileAfter(p, f)]
             /\ loc' = [loc EXCEPT ![p].todo = @ \ {f}]
      BY <2>4 DEF ApplyFile
    <3>2. /\ loc'[p].sub = loc[p].sub /\ loc'[p].step = loc[p].step
          /\ loc'[p].todo = loc[p].todo \ {f}
          /\ sandbox' = sandbox /\ pc[p] = "apply" /\ pc' = pc
      BY <1>1, <2>2, <2>4, <3>1 DEF ApplyFile, Locals
    <3>3. DOMAIN target = Files /\ DOMAIN loc[p].sub.ops \subseteq Files
      BY <1>1, <3>2, SubjectFiles DEF ApplyExact, Trees
    <3>4. f \in DOMAIN loc[p].sub.ops => FileAfter(p, f) = loc[p].sub.ops[f].after
      BY <3>2 DEF FileAfter, Source, ApplyExact
    <3>5. \A g \in DOMAIN loc[p].sub.ops :
             g \notin loc'[p].todo => target'[g] = loc[p].sub.ops[g].after
      BY <3>1, <3>2, <3>3, <3>4 DEF ApplyExact
    <3> QED BY <2>1, <3>2, <3>5 DEF ApplyExact
  <2>5. CASE ApplyDone(p)
    <3>1. /\ pc[p] = "apply" /\ pc'[p] = "remove" /\ loc' = loc /\ loc[p].todo = {}
          /\ target' = target
      BY <1>1, <2>5 DEF ApplyDone, Goto, repo
    <3> QED BY <2>1, <3>1 DEF ApplyExact
  <2>6. CASE RemoveSandbox(p)
    <3>1. /\ pc[p] = "remove" /\ pc'[p] \in {"remove", "consume"} /\ loc' = loc
          /\ target' = target
      BY <1>1, <2>6, Removal DEF RemoveSandbox, repo
    <3> QED BY <2>1, <3>1 DEF ApplyExact
  <2>7. CASE pc'[p] \notin {"apply", "remove"}
    BY <2>1, <2>7 DEF ApplyExact
  <2> QED BY <1>1, <1>2, <2>3, <2>4, <2>5, <2>6, <2>7, ApplySources
<1>3. ASSUME NEW p \in Approvers, ApproverMove(p) \/ Crash(p), OthersWait(p)
      PROVE  ApplyExact'
  <2>1. \A q \in Runners : pc'[q] = pc[q] /\ loc'[q] = loc[q]
    BY <1>1, <1>3 DEF OthersWait
  <2>2. target' = target /\ sandbox' = sandbox
    BY <1>1, <1>3, ApproverWrites DEF Crash, repo
  <2> QED BY <2>1, <2>2 DEF ApplyExact
<1>4. ASSUME NEW p \in Runners, Crash(p), OthersWait(p)
      PROVE  ApplyExact'
  <2>1. /\ pc'[p] = "idle" /\ target' = target /\ sandbox' = sandbox
        /\ \A q \in Runners : q # p => pc'[q] = pc[q] /\ loc'[q] = loc[q]
    BY <1>1, <1>4 DEF Crash, Return, Goto, OthersWait, repo
  <2> QED BY <2>1 DEF ApplyExact
<1>5. ASSUME Outside, UNCHANGED <<pc, ctx, loc>>
      PROVE  ApplyExact'
  <2>1. ~Fault("drift")
    BY <1>1 DEF Fault, NoDrift, TypeOK, FaultsOK, FaultKinds
  <2>2. target' = target /\ sandbox' = sandbox
    BY <1>5, <2>1 DEF Outside, Edit, Commit, Expire, vars, repo
  <2> QED BY <1>5, <2>2 DEF ApplyExact
<1> QED BY <1>1, <1>2, <1>3, <1>4, <1>5, WhoMoves

\* With one continuation at a time and nobody else editing the repository, an apply that finishes
\* leaves every file of its subject as it was approved, whatever dies and whatever is approved
\* meanwhile.
THEOREM LandedAsApproved ==
    ASSUME OneContinuation, NoDrift PROVE Spec => []LandsExactly
<1>1. Init => ApplyExact
  BY DEF Init, ApplyExact, Procs
<1>2. TurnInv /\ TurnInv' /\ ApplyExact /\ [Next]_vars => ApplyExact'
  BY ApplyStepKeeps
<1>3. ApplyExact => LandsExactly
  BY DEF ApplyExact, LandsExactly
<1> QED BY <1>1, <1>2, <1>3, TurnInvariant, PTL DEF Spec

-----------------------------------------------------------------------------
(* What an approval has granted reaches the run record.                      *)

\* A grant is in the record, or the approver that made it is on its way to write it there.
GrantUnderway ==
    \A t \in Tickets : status[t] = "approved" =>
        \/ record.tix[t] = "approved"
        \/ \E p \in Approvers : pc[p] \in {"a_load", "a_check", "a_write"} /\ loc[p].tkt = t

\* Whoever will write the record knows every grant.
GrantKnown ==
    \A t \in Tickets, p \in Procs :
        status[t] = "approved" /\ pc[p] \in {"a_check", "a_write"} \cup RunnerPCs
            => ctx[p].tix[t] = "approved"

GrantInv == GrantUnderway /\ GrantKnown

\* Where the steps of an approver lead, and what they write.
LEMMA ApproverKinds ==
    ASSUME TypeOK, NEW p \in Approvers, ApproverMove(p)
    PROVE  \/ /\ pc'[p] \in {"idle", "a_lock", "a_grant"}
              /\ pc[p] \in {"idle", "a_lock", "a_grant"}
              /\ UNCHANGED <<status, bound, record, chk>>
           \/ ApproveGrant(p) \/ ApproveLoad(p) \/ ApproveCheckpoint(p) \/ ApproveWrite(p)
BY DEF ApproverMove, ApproverStep, ApproveStart, MayStart, ApproveLock, ApproveAlready, Return,
   Goto, TypeOK, ProcsOK, Procs, tickets, files

\* One approver's step keeps every grant.
LEMMA GrantByApprover ==
    ASSUME OnlyApprovalsOverlap, TurnInv, GrantInv,
           NEW p \in Approvers, ApproverMove(p), OthersWait(p)
    PROVE  GrantInv'
<1> USE DEF GrantInv
<1>1. /\ p \in Procs /\ TypeOK /\ ctx \in [Procs -> Records] /\ loc \in [Procs -> Locals]
      /\ pc \in [Procs -> PCs] /\ record \in Records
      /\ status \in [Tickets -> TicketStatus] /\ loc[p].tkt \in Tickets
      /\ \A q \in Approvers : q \in Procs
      /\ \A q \in Approvers : pc[q] \notin RunnerPCs
  BY LocalFields DEF TurnInv, TypeOK, ProcsOK, TicketsOK, FilesOK, Procs, Roles, ApproverPCs,
     RunnerPCs
<1>2. \A q \in Procs : q # p => pc'[q] = pc[q] /\ ctx'[q] = ctx[q] /\ loc'[q] = loc[q]
  BY DEF OthersWait
<1>3. CASE /\ pc'[p] \in {"idle", "a_lock", "a_grant"}
           /\ pc[p] \in {"idle", "a_lock", "a_grant"}
           /\ UNCHANGED <<status, bound, record, chk>>
  <2>1. GrantUnderway'
    BY <1>1, <1>2, <1>3 DEF GrantUnderway
  <2>2. GrantKnown'
    BY <1>2, <1>3 DEF GrantKnown, RunnerPCs
  <2> QED BY <2>1, <2>2
<1>4. ASSUME pc[p] # "idle", pc[p] # "a_lock"
      PROVE  \A q \in Procs : q # p => pc[q] \notin {"a_load", "a_check", "a_write"} \cup RunnerPCs
  <2>1. pc[p] \in ApproverPCs \ {"a_lock"}
    BY <1>4 DEF TurnInv, Roles
  <2> QED BY <2>1, MovesAlone DEF RunnerPCs
<1>5. CASE ApproveGrant(p)
  <2>1. /\ pc[p] = "a_grant" /\ pc'[p] = "a_load" /\ loc' = loc /\ record' = record
        /\ status' = [status EXCEPT ![loc[p].tkt] = "approved"]
    BY <1>1, <1>5 DEF ApproveGrant, GrantFile, Goto, files
  <2>2. GrantUnderway'
    BY <1>1, <1>2, <2>1 DEF GrantUnderway
  <2>3. GrantKnown'
    BY <1>1, <1>2, <1>4, <2>1 DEF GrantKnown, RunnerPCs
  <2> QED BY <2>2, <2>3
<1>6. CASE ApproveLoad(p)
  <2>1. /\ pc[p] = "a_load" /\ pc'[p] = "a_check" /\ loc' = loc /\ record' = record
        /\ status' = status
        /\ ctx'[p] = [record EXCEPT !.tix[loc[p].tkt] = "approved"]
    BY <1>1, <1>6 DEF ApproveLoad, ReplaceTicket, Goto, files, tickets
  <2>2. GrantUnderway'
    BY <1>1, <1>2, <2>1 DEF GrantUnderway
  <2>3. ASSUME NEW t \in Tickets, status[t] = "approved"
        PROVE  ctx'[p].tix[t] = "approved"
    <3>1. t = loc[p].tkt \/ record.tix[t] = "approved"
      BY <1>1, <1>4, <2>1, <2>3 DEF GrantUnderway
    <3> QED BY <1>1, <2>1, <3>1 DEF Records
  <2>4. ASSUME NEW t \in Tickets, NEW q \in Procs, status'[t] = "approved",
               pc'[q] \in {"a_check", "a_write"} \cup RunnerPCs
        PROVE  ctx'[q].tix[t] = "approved"
    <3>1. CASE q = p
      BY <2>1, <2>3, <2>4, <3>1
    <3>2. CASE q # p
      BY <1>2, <2>1, <2>4, <3>2 DEF GrantKnown
    <3> QED BY <3>1, <3>2
  <2>5. GrantKnown'
    BY <2>4 DEF GrantKnown
  <2> QED BY <2>2, <2>5
<1>7. CASE ApproveCheckpoint(p)
  <2>1. /\ pc[p] = "a_check" /\ pc'[p] = "a_write" /\ loc' = loc /\ record' = record
        /\ status' = status /\ ctx' = ctx
    BY <1>1, <1>7 DEF ApproveCheckpoint, Goto, tickets
  <2>2. GrantUnderway'
    BY <1>1, <1>2, <2>1 DEF GrantUnderway
  <2>3. GrantKnown'
    BY <1>2, <2>1 DEF GrantKnown
  <2> QED BY <2>2, <2>3
<1>8. CASE ApproveWrite(p)
  <2>1. /\ pc[p] = "a_write" /\ pc'[p] = "idle" /\ status' = status
        /\ record'.tix = ctx[p].tix
    BY <1>1, <1>8 DEF ApproveWrite, Return, Goto, tickets, Records
  <2>2. GrantUnderway'
    BY <1>1, <2>1 DEF GrantUnderway, GrantKnown
  <2>3. GrantKnown'
    BY <1>2, <2>1 DEF GrantKnown, RunnerPCs
  <2> QED BY <2>2, <2>3
<1> QED BY <1>1, <1>3, <1>5, <1>6, <1>7, <1>8, ApproverKinds

\* What happens to the tickets of the run when a runner, alone, moves: it loads the record, goes
\* on with what it loaded, adds one open request, or writes its own tickets back.
LEMMA RunnerTickets ==
    ASSUME TypeOK, NEW p \in Runners, RunnerMove(p)
    PROVE  \/ Begins(p)
           \/ GateRequest(p)
           \/ /\ pc[p] \in RunnerPCs
              /\ status' = status
              /\ pc'[p] # "idle" => ctx'[p].tix = ctx[p].tix
              /\ record'.tix \in {record.tix, ctx[p].tix}
<1>1. p \in Procs /\ ctx \in [Procs -> Records] /\ pc \in [Procs -> PCs]
  BY DEF TypeOK, ProcsOK, Procs
<1>2. CASE Works(p) \/ GivesUp(p)
  BY <1>1, <1>2 DEF Works, GivesUp, Return, Goto, InFlight
<1>3. CASE WaitCheckpoint(p) \/ Export(p) \/ FinalCheckpoint(p)
  BY <1>3 DEF WaitCheckpoint, Export, FinalCheckpoint, tickets, RunnerPCs
<1>4. CASE VerifyPass(p) \/ VerifyExhausted(p)
  BY <1>1, <1>4 DEF VerifyPass, VerifyExhausted, Close, tickets, files, Records, RunnerPCs
<1>5. CASE WaitWrite(p)
  BY <1>1, <1>5 DEF WaitWrite, tickets, Records, RunnerPCs
<1>6. CASE FinalWrite(p)
  BY <1>1, <1>6 DEF FinalWrite, Return, Goto, tickets, Records, RunnerPCs
<1> QED BY <1>2, <1>3, <1>4, <1>5, <1>6, RunnerKinds

\* One runner's step keeps every grant.
LEMMA GrantByRunner ==
    ASSUME OnlyApprovalsOverlap, TurnInv, GrantInv,
           NEW p \in Runners, RunnerMove(p), OthersWait(p)
    PROVE  GrantInv'
<1> USE DEF GrantInv
<1>1. /\ p \in Procs /\ TypeOK /\ ctx \in [Procs -> Records] /\ pc \in [Procs -> PCs]
      /\ status \in [Tickets -> TicketStatus]
      /\ \A q \in Approvers : q \in Procs /\ q # p
      /\ \A q \in Approvers : pc[q] \notin RunnerPCs
      /\ "idle" \notin RunnerPCs \cup {"a_load", "a_check", "a_write"}
  BY RunAssumption DEF TurnInv, TypeOK, ProcsOK, TicketsOK, Procs, Roles, ApproverPCs, RunnerPCs
<1>2. \A q \in Procs : q # p => pc'[q] = pc[q] /\ ctx'[q] = ctx[q] /\ loc'[q] = loc[q]
  BY DEF OthersWait
<1>3. \A q \in Procs : q # p => pc[q] = "idle"
  BY MovesAlone
<1>4. CASE Begins(p)
  <2>1. /\ status' = status /\ record' = record /\ ctx'[p] = record /\ pc[p] = "idle"
    BY <1>4 DEF Begins, MayStart
  <2>2. \A t \in Tickets : status[t] = "approved" => record.tix[t] = "approved"
    BY <1>1, <1>3 DEF GrantUnderway
  <2> QED BY <1>1, <1>2, <1>3, <2>1, <2>2 DEF GrantUnderway, GrantKnown
<1>5. ASSUME pc[p] # "idle"
      PROVE  \A t \in Tickets : status[t] = "approved" =>
                 record.tix[t] = "approved" /\ ctx[p].tix[t] = "approved"
  <2>1. pc[p] \in RunnerPCs
    BY <1>5 DEF TurnInv, Roles
  <2> QED BY <1>1, <1>3, <2>1 DEF GrantUnderway, GrantKnown
<1>6. CASE GateRequest(p)
  <2>1. PICK t \in Tickets : /\ status[t] = "none"
                             /\ status' = [status EXCEPT ![t] = "pending"]
                             /\ ctx' = [ctx EXCEPT ![p].tix[t] = "pending"]
    BY <1>6 DEF GateRequest, NewTicket
  <2>2. record' = record /\ pc[p] # "idle"
    BY <1>6 DEF GateRequest, files
  <2>3. \A u \in Tickets : status'[u] = "approved" =>
            status[u] = "approved" /\ record'.tix[u] = "approved" /\ ctx'[p].tix[u] = "approved"
    BY <1>1, <1>5, <2>1, <2>2 DEF Records
  <2> QED BY <1>1, <1>2, <1>3, <2>3 DEF GrantUnderway, GrantKnown
<1>7. CASE /\ pc[p] \in RunnerPCs
           /\ status' = status
           /\ pc'[p] # "idle" => ctx'[p].tix = ctx[p].tix
           /\ record'.tix \in {record.tix, ctx[p].tix}
  <2>1. pc[p] # "idle"
    BY <1>1, <1>7
  <2> QED BY <1>1, <1>2, <1>3, <1>5, <1>7, <2>1 DEF GrantUnderway, GrantKnown
<1> QED BY <1>1, <1>4, <1>6, <1>7, RunnerTickets

\* No step drops a grant, unless it is the death of an approver.
LEMMA GrantStep ==
    ASSUME OnlyApprovalsOverlap, NoDeathOf(Approvers), TurnInv, GrantInv, [Next]_vars
    PROVE  GrantInv'
<1>1. /\ TypeOK /\ pc \in [Procs -> PCs] /\ \A q \in Runners : q \in Procs /\ q \notin Approvers
      /\ \A q \in Approvers : q \in Procs
  BY RunAssumption DEF TurnInv, TypeOK, ProcsOK, Procs
<1>2. ASSUME NEW p \in Approvers, Crash(p)
      PROVE  FALSE
  BY <1>1, <1>2 DEF Crash, Fault, NoDeathOf, TypeOK, FaultsOK, FaultKinds
<1>3. ASSUME NEW p \in Runners, Crash(p), OthersWait(p)
      PROVE  GrantInv'
  <2>1. pc'[p] = "idle" /\ status' = status /\ record' = record
    BY <1>1, <1>3, OutsideFiles DEF Crash, Return, Goto, tickets, files
  <2> QED BY <1>1, <1>3, <2>1 DEF GrantInv, GrantUnderway, GrantKnown, OthersWait, RunnerPCs
<1>4. ASSUME Outside, UNCHANGED <<pc, ctx, loc>>
      PROVE  GrantInv'
  <2>1. status' = status /\ record' = record
    BY <1>4, OutsideFiles DEF tickets, files
  <2> QED BY <1>4, <2>1 DEF GrantInv, GrantUnderway, GrantKnown
<1> QED BY <1>1, <1>2, <1>3, <1>4, GrantByApprover, GrantByRunner, WhoMoves

\* When only approvals overlap and no approval dies half-way, whatever continuations die, every
\* grant is in the run record once the commands have ended.
THEOREM GrantsReachTheRecord ==
    ASSUME OnlyApprovalsOverlap, NoDeathOf(Approvers) PROVE Spec => []NoLostGrant
<1>1. Init => GrantInv
  BY DEF Init, GrantInv, GrantUnderway, GrantKnown, NewTickets, NewRecord
<1>2. TurnInv /\ GrantInv /\ [Next]_vars => GrantInv'
  BY GrantStep
<1>3. GrantInv => NoLostGrant
  BY DEF GrantInv, GrantUnderway, NoLostGrant, AtRest, Procs
<1> QED BY <1>1, <1>2, <1>3, TurnInvariant, PTL DEF Spec

-----------------------------------------------------------------------------
(* The last integrity checkpoint of events.jsonl.                            *)

Writing == {"a_write", "w_write", "f_write"}

\* It is that of the record, or of the context about to become the record.
LastCheckpoint ==
    /\ chk = record.tix \/ \E p \in Procs : pc[p] \in Writing
    /\ \A p \in Procs : pc[p] \in Writing => chk = ctx[p].tix

\* No step parts the checkpoint from the record for longer than one command takes.
LEMMA CheckpointStep ==
    ASSUME OnlyApprovalsOverlap, NoDeathOf(Procs), TurnInv, LastCheckpoint, [Next]_vars
    PROVE  LastCheckpoint'
<1>1. /\ TypeOK /\ pc \in [Procs -> PCs] /\ ctx \in [Procs -> Records]
      /\ \A q \in Runners : q \in Procs
      /\ \A q \in Approvers : q \in Procs
  BY DEF TurnInv, TypeOK, ProcsOK, Procs
<1>2. ASSUME NEW p \in Approvers, ApproverMove(p), OthersWait(p)
      PROVE  LastCheckpoint'
  <2>1. /\ \A q \in Procs : q # p => pc'[q] = pc[q] /\ ctx'[q] = ctx[q]
        /\ pc[p] \in ApproverPCs \ {"a_lock"} => \A q \in Procs : q # p => pc'[q] \notin Writing
    BY <1>2, MovesAlone DEF OthersWait, Writing
  <2>2. CASE /\ pc'[p] \in {"idle", "a_lock", "a_grant"}
             /\ pc[p] \in {"idle", "a_lock", "a_grant"}
             /\ UNCHANGED <<status, bound, record, chk>>
    BY <2>1, <2>2 DEF LastCheckpoint, Writing
  <2>3. CASE ApproveGrant(p) \/ ApproveLoad(p)
    <3>1. /\ chk' = chk /\ record' = record
          /\ pc[p] \notin Writing /\ pc'[p] \notin Writing
      BY <1>1, <2>3 DEF ApproveGrant, ApproveLoad, Goto, files, Writing
    <3> QED BY <2>1, <3>1 DEF LastCheckpoint
  <2>4. CASE ApproveCheckpoint(p)
    <3>1. pc[p] = "a_check" /\ pc'[p] = "a_write" /\ chk' = ctx[p].tix /\ ctx' = ctx
      BY <1>1, <2>4 DEF ApproveCheckpoint, Checkpoint, Goto
    <3> QED BY <1>1, <2>1, <3>1 DEF LastCheckpoint, Writing, ApproverPCs
  <2>5. CASE ApproveWrite(p)
    <3>1. pc[p] = "a_write" /\ pc'[p] = "idle" /\ chk' = chk /\ record'.tix = ctx[p].tix
      BY <1>1, <2>5 DEF ApproveWrite, Return, Goto, Records
    <3> QED BY <1>1, <2>1, <3>1 DEF LastCheckpoint, Writing, ApproverPCs
  <2> QED BY <1>1, <1>2, <2>2, <2>3, <2>4, <2>5, ApproverKinds
<1>3. ASSUME NEW p \in Runners, RunnerMove(p), OthersWait(p)
      PROVE  LastCheckpoint'
  <2>1. \A q \in Procs : q # p => pc[q] = "idle" /\ pc'[q] = "idle"
    BY <1>3, MovesAlone DEF OthersWait
  <2>2. ASSUME chk' = chk, record' = record, pc[p] \notin Writing, pc'[p] \notin Writing
        PROVE  LastCheckpoint'
    BY <2>1, <2>2 DEF LastCheckpoint, Writing
  <2>3. CASE Begins(p) \/ Works(p) \/ GivesUp(p)
    BY <1>1, <2>2, <2>3 DEF Begins, MayStart, Works, GivesUp, Return, Goto, InFlight,
       RunnerPCs, Writing
  <2>4. CASE GateRequest(p) \/ VerifyPass(p) \/ VerifyExhausted(p) \/ Export(p)
    BY <1>1, <2>2, <2>4 DEF GateRequest, VerifyPass, VerifyExhausted, Close, Export, Goto, files,
       Writing
  <2>5. CASE WaitCheckpoint(p) \/ FinalCheckpoint(p)
    <3>1. pc'[p] \in Writing /\ chk' = ctx[p].tix /\ ctx' = ctx
      BY <1>1, <2>5 DEF WaitCheckpoint, FinalCheckpoint, Checkpoint, Goto, Writing
    <3> QED BY <1>1, <2>1, <3>1 DEF LastCheckpoint, Writing
  <2>6. CASE WaitWrite(p) \/ FinalWrite(p)
    <3>1. pc[p] \in Writing /\ pc'[p] \notin Writing /\ chk' = chk /\ record'.tix = ctx[p].tix
      BY <1>1, <2>6 DEF WaitWrite, FinalWrite, Return, Goto, Records, Writing
    <3> QED BY <1>1, <2>1, <3>1 DEF LastCheckpoint, Writing
  <2> QED BY <1>1, <1>3, <2>3, <2>4, <2>5, <2>6, RunnerKinds
<1>4. ASSUME NEW p \in Procs, Crash(p)
      PROVE  FALSE
  BY <1>1, <1>4 DEF Crash, Fault, NoDeathOf, TypeOK, FaultsOK, FaultKinds
<1>5. ASSUME Outside, UNCHANGED <<pc, ctx, loc>>
      PROVE  LastCheckpoint'
  <2>1. chk' = chk /\ record' = record
    BY <1>5, OutsideFiles DEF files
  <2> QED BY <1>5, <2>1 DEF LastCheckpoint
<1> QED BY <1>1, <1>2, <1>3, <1>4, <1>5, WhoMoves

\* When only approvals overlap and no command dies half-way, replay_run finds no digest failure
\* once the commands have ended.
THEOREM ReplayIsClean ==
    ASSUME OnlyApprovalsOverlap, NoDeathOf(Procs) PROVE Spec => []ReplayClean
<1>1. Init => LastCheckpoint
  BY DEF Init, LastCheckpoint, NewRecord, Writing
<1>2. TurnInv /\ LastCheckpoint /\ [Next]_vars => LastCheckpoint'
  BY CheckpointStep
<1>3. LastCheckpoint => ReplayClean
  BY DEF LastCheckpoint, ReplayClean, AtRest, Writing
<1> QED BY <1>1, <1>2, <1>3, TurnInvariant, PTL DEF Spec

-----------------------------------------------------------------------------
(* A closed run stays closed.                                                *)

\* An open request is in the record, or the runner that made it is about to write it there.
RequestUnderway ==
    \A t \in Tickets : status[t] = "pending" =>
        record.tix[t] = "pending" \/ \E p \in Runners : pc[p] \in {"w_check", "w_write"}

\* Whoever will write the record knows every open request.
RequestKnown ==
    \A t \in Tickets, p \in Procs :
        status[t] = "pending" /\ pc[p] \in {"a_check", "a_write"} \cup RunnerPCs
            => ctx[p].tix[t] = "pending"

\* A call closes the run only without an open request, and none is open once it is closed.
ClosingDecided ==
    \A p \in Runners :
        pc[p] \in {"export", "f_check", "f_write"} /\ loc[p].end \in Terminal
            => ~HasPending(ctx[p].tix)
ClosedDecided == record.st \in Terminal => \A t \in Tickets : status[t] # "pending"

\* An approver that has granted works on a run that is waiting.
GrantsOpenRun ==
    \A p \in Approvers : pc[p] \in {"a_load", "a_check", "a_write"} => record.st = "waiting"

ClosedInv == RequestUnderway /\ RequestKnown /\ ClosingDecided /\ ClosedDecided /\ GrantsOpenRun

\* How a runner comes to close, and that a request it has made is written with the record.
LEMMA RunnerCloses ==
    ASSUME TypeOK, NEW p \in Runners, RunnerMove(p)
    PROVE  /\ pc'[p] \in {"export", "f_check", "f_write"} /\ loc'[p].end \in Terminal =>
                  /\ ctx'[p].tix = ctx[p].tix
                  /\ \/ pc[p] = "verify"
                     \/ pc[p] \in {"export", "f_check", "f_write"} /\ loc[p].end \in Terminal
           /\ pc[p] \in {"w_check", "w_write"} =>
                  pc'[p] \in {"w_check", "w_write"} \/ record'.tix = ctx[p].tix
           /\ \/ record' = record
              \/ record'.st = "waiting"
              \/ record'.st = loc[p].end /\ pc[p] = "f_write"
<1> USE DEF TypeOK, ProcsOK, Goto, Procs
<1>1. CASE Begins(p) \/ Works(p) \/ GivesUp(p)
  BY <1>1 DEF Begins, MayStart, Works, GivesUp, Return, InFlight, RunnerPCs
<1>2. CASE GateRequest(p) \/ WaitCheckpoint(p) \/ Export(p) \/ FinalCheckpoint(p)
  BY <1>2 DEF GateRequest, WaitCheckpoint, Export, FinalCheckpoint, files
<1>3. CASE VerifyPass(p) \/ VerifyExhausted(p)
  BY <1>3 DEF VerifyPass, VerifyExhausted, Close, files, Records
<1>4. CASE WaitWrite(p)
  BY <1>4 DEF WaitWrite, Records, Locals, Terminal
<1>5. CASE FinalWrite(p)
  BY <1>5 DEF FinalWrite, Return, Records
<1> QED BY <1>1, <1>2, <1>3, <1>4, <1>5, RunnerKinds

\* An approver's step opens no request and closes no run.
LEMMA ClosedByApprover ==
    ASSUME OnlyApprovalsOverlap, TurnInv, FlightInv, ClosedInv,
           NEW p \in Approvers, ApproverMove(p), OthersWait(p)
    PROVE  ClosedInv'
<1> USE DEF ClosedInv
<1>1. /\ p \in Procs /\ TypeOK /\ ctx \in [Procs -> Records] /\ loc \in [Procs -> Locals]
      /\ pc \in [Procs -> PCs] /\ record \in Records
      /\ status \in [Tickets -> TicketStatus] /\ loc[p].tkt \in Tickets
      /\ \A q \in Runners : q \in Procs /\ q # p
      /\ \A q \in Approvers : q \in Procs
  BY LocalFields, RunAssumption
     DEF TurnInv, TypeOK, ProcsOK, TicketsOK, FilesOK, Procs
<1>2. \A q \in Procs : q # p => pc'[q] = pc[q] /\ ctx'[q] = ctx[q] /\ loc'[q] = loc[q]
  BY DEF OthersWait
<1>3. pc[p] \in ApproverPCs \ {"a_lock"} => \A q \in Runners : pc[q] \notin RunnerPCs
  BY <1>1, MovesAlone DEF RunnerPCs
<1>4. ClosingDecided'
  BY <1>1, <1>2 DEF ClosingDecided
<1>5. CASE /\ pc'[p] \in {"idle", "a_lock", "a_grant"}
           /\ pc[p] \in {"idle", "a_lock", "a_grant"}
           /\ UNCHANGED <<status, bound, record, chk>>
  <2>1. RequestUnderway'
    BY <1>1, <1>2, <1>5 DEF RequestUnderway
  <2>2. RequestKnown'
    BY <1>2, <1>5 DEF RequestKnown, RunnerPCs
  <2>3. ClosedDecided' /\ GrantsOpenRun'
    BY <1>1, <1>2, <1>5 DEF ClosedDecided, GrantsOpenRun
  <2> QED BY <1>4, <2>1, <2>2, <2>3
<1>6. CASE ApproveGrant(p)
  <2>1. /\ pc[p] = "a_grant" /\ pc'[p] = "a_load" /\ record' = record
        /\ status[loc[p].tkt] # "approved"
        /\ status' = [status EXCEPT ![loc[p].tkt] = "approved"]
    BY <1>1, <1>6 DEF ApproveGrant, GrantFile, Goto, files
  <2>2. \A t \in Tickets : status'[t] = "pending" => status[t] = "pending"
    BY <1>1, <2>1
  <2>3. RequestUnderway'
    BY <1>1, <1>2, <2>1, <2>2 DEF RequestUnderway
  <2>4. RequestKnown'
    BY <1>2, <2>1, <2>2 DEF RequestKnown, RunnerPCs
  <2>5. status[loc[p].tkt] = "pending"
    BY <1>1, <2>1 DEF FlightInv, TicketFound, TicketStatus
  <2>6. record.st = "waiting"
    BY <1>1, <2>5 DEF ClosedDecided, Records
  <2>7. ClosedDecided' /\ GrantsOpenRun'
    BY <2>1, <2>6 DEF ClosedDecided, GrantsOpenRun, Terminal
  <2> QED BY <1>4, <2>3, <2>4, <2>7
<1>7. CASE ApproveLoad(p)
  <2>1. /\ pc[p] = "a_load" /\ pc'[p] = "a_check" /\ record' = record /\ status' = status
        /\ ctx'[p] = [record EXCEPT !.tix[loc[p].tkt] = "approved"]
    BY <1>1, <1>7 DEF ApproveLoad, ReplaceTicket, Goto, files, tickets
  <2>2. ASSUME NEW t \in Tickets, status[t] = "pending"
        PROVE  ctx'[p].tix[t] = "pending"
    <3>1. record.tix[t] = "pending"
      BY <1>3, <2>1, <2>2 DEF RequestUnderway, RunnerPCs, ApproverPCs
    <3>2. t # loc[p].tkt
      BY <1>1, <2>1, <2>2 DEF FlightInv, FileFirst
    <3> QED BY <1>1, <2>1, <3>1, <3>2 DEF Records
  <2>3. ASSUME NEW t \in Tickets, NEW q \in Procs, status'[t] = "pending",
               pc'[q] \in {"a_check", "a_write"} \cup RunnerPCs
        PROVE  ctx'[q].tix[t] = "pending"
    <3>1. CASE q = p
      BY <2>1, <2>2, <2>3, <3>1
    <3>2. CASE q # p
      BY <1>2, <2>1, <2>3, <3>2 DEF RequestKnown
    <3> QED BY <3>1, <3>2
  <2>4. RequestUnderway' /\ ClosedDecided'
    BY <1>1, <1>2, <2>1 DEF RequestUnderway, ClosedDecided
  <2>5. GrantsOpenRun'
    BY <2>1 DEF GrantsOpenRun
  <2>6. RequestKnown'
    BY <2>3 DEF RequestKnown
  <2> QED BY <1>4, <2>4, <2>5, <2>6
<1>8. CASE ApproveCheckpoint(p)
  <2>1. /\ pc[p] = "a_check" /\ pc'[p] = "a_write" /\ record' = record /\ status' = status
        /\ ctx' = ctx
    BY <1>1, <1>8 DEF ApproveCheckpoint, Goto, tickets
  <2>2. RequestUnderway' /\ ClosedDecided' /\ GrantsOpenRun'
    BY <1>1, <1>2, <2>1 DEF RequestUnderway, ClosedDecided, GrantsOpenRun
  <2>3. RequestKnown'
    BY <1>2, <2>1 DEF RequestKnown
  <2> QED BY <1>4, <2>2, <2>3
<1>9. CASE ApproveWrite(p)
  <2>1. /\ pc[p] = "a_write" /\ pc'[p] = "idle" /\ status' = status
        /\ record'.tix = ctx[p].tix /\ record'.st = "waiting"
    BY <1>1, <1>9 DEF ApproveWrite, Return, Goto, tickets, Records
  <2>2. RequestUnderway'
    BY <1>1, <2>1 DEF RequestUnderway, RequestKnown
  <2>3. RequestKnown'
    BY <1>2, <2>1 DEF RequestKnown, RunnerPCs
  <2>4. ClosedDecided' /\ GrantsOpenRun'
    BY <2>1 DEF ClosedDecided, GrantsOpenRun, Terminal
  <2> QED BY <1>4, <2>2, <2>3, <2>4
<1> QED BY <1>1, <1>5, <1>6, <1>7, <1>8, <1>9, ApproverKinds

\* A runner's step writes every open request down, and closes the run only when there is none.
LEMMA ClosedByRunner ==
    ASSUME OnlyApprovalsOverlap, TurnInv, FlightInv, OpenRun, ClosedInv,
           NEW p \in Runners, RunnerMove(p), OthersWait(p)
    PROVE  ClosedInv'
<1> USE DEF ClosedInv
<1>1. /\ p \in Procs /\ TypeOK /\ ctx \in [Procs -> Records] /\ pc \in [Procs -> PCs]
      /\ status \in [Tickets -> TicketStatus]
      /\ \A q \in Runners : q \in Procs
      /\ \A q \in Approvers : q \in Procs /\ q # p
      /\ "idle" \notin RunnerPCs \cup {"a_load", "a_check", "a_write"}
  BY RunAssumption DEF TurnInv, TypeOK, ProcsOK, TicketsOK, Procs, RunnerPCs
<1>2. \A q \in Procs : q # p => pc[q] = "idle" /\ pc'[q] = "idle"
  BY MovesAlone DEF OthersWait
<1>3. GrantsOpenRun'
  BY <1>1, <1>2 DEF GrantsOpenRun
<1>4. ClosingDecided'
  <2>1. ASSUME pc'[p] \in {"export", "f_check", "f_write"}, loc'[p].end \in Terminal
        PROVE  ~HasPending(ctx'[p].tix)
    <3>1. /\ ctx'[p].tix = ctx[p].tix
          /\ \/ pc[p] = "verify"
             \/ pc[p] \in {"export", "f_check", "f_write"} /\ loc[p].end \in Terminal
      BY <1>1, <2>1, RunnerCloses
    <3>2. ~HasPending(ctx[p].tix)
      BY <3>1 DEF FlightInv, NoPendingInFlight, RunnerPCs, ClosingDecided
    <3> QED BY <3>1, <3>2
  <2> QED BY <1>1, <1>2, <2>1 DEF ClosingDecided
<1>5. CASE Begins(p)
  <2>1. /\ status' = status /\ record' = record /\ ctx'[p] = record /\ pc[p] = "idle"
    BY <1>5 DEF Begins, MayStart
  <2>2. \A t \in Tickets : status[t] = "pending" => record.tix[t] = "pending"
    BY <1>1, <1>2, <2>1 DEF RequestUnderway
  <2>3. RequestUnderway' /\ RequestKnown' /\ ClosedDecided'
    BY <1>1, <1>2, <2>1, <2>2 DEF RequestUnderway, RequestKnown, ClosedDecided
  <2> QED BY <1>3, <1>4, <2>3
<1>6. ASSUME pc[p] # "idle"
      PROVE  /\ record.st = "waiting"
             /\ \A t \in Tickets : status[t] = "pending" => ctx[p].tix[t] = "pending"
  <2>1. pc[p] \in RunnerPCs
    BY <1>6 DEF TurnInv, Roles
  <2> QED BY <1>1, <1>6, <2>1 DEF OpenRun, RequestKnown
<1>7. CASE GateRequest(p)
  <2>1. PICK t \in Tickets : /\ status' = [status EXCEPT ![t] = "pending"]
                             /\ ctx' = [ctx EXCEPT ![p].tix[t] = "pending"]
    BY <1>7 DEF GateRequest
  <2>2. record' = record /\ pc[p] # "idle" /\ pc'[p] = "w_check"
    BY <1>1, <1>7 DEF GateRequest, Goto, files
  <2>3. \A u \in Tickets : status'[u] = "pending" => ctx'[p].tix[u] = "pending"
    BY <1>1, <1>6, <2>1, <2>2 DEF Records
  <2>4. RequestUnderway' /\ RequestKnown' /\ ClosedDecided'
    BY <1>1, <1>2, <1>6, <2>2, <2>3
    DEF RequestUnderway, RequestKnown, ClosedDecided, Terminal
  <2> QED BY <1>3, <1>4, <2>4
<1>8. CASE /\ pc[p] \in RunnerPCs
           /\ status' = status
           /\ pc'[p] # "idle" => ctx'[p].tix = ctx[p].tix
           /\ record'.tix \in {record.tix, ctx[p].tix}
  <2>1. /\ pc[p] # "idle"
        /\ pc[p] \in {"w_check", "w_write"} =>
              pc'[p] \in {"w_check", "w_write"} \/ record'.tix = ctx[p].tix
        /\ \/ record' = record
           \/ record'.st = "waiting"
           \/ record'.st = loc[p].end /\ pc[p] = "f_write"
    BY <1>1, <1>8, RunnerCloses
  <2>2. RequestUnderway'
    BY <1>1, <1>2, <1>6, <1>8, <2>1 DEF RequestUnderway
  <2>3. RequestKnown'
    BY <1>1, <1>2, <1>6, <1>8, <2>1 DEF RequestKnown
  <2>4. ASSUME record'.st \in Terminal, NEW t \in Tickets, status[t] = "pending"
        PROVE  FALSE
    <3>1. loc[p].end \in Terminal /\ pc[p] = "f_write"
      BY <1>6, <2>1, <2>4 DEF Terminal
    <3>2. ~HasPending(ctx[p].tix)
      BY <3>1 DEF ClosingDecided
    <3> QED BY <1>6, <2>1, <2>4, <3>2 DEF HasPending
  <2>5. ClosedDecided'
    BY <1>8, <2>4 DEF ClosedDecided
  <2> QED BY <1>3, <1>4, <2>2, <2>3, <2>5
<1> QED BY <1>1, <1>5, <1>7, <1>8, RunnerTickets

\* No step but the death of a continuation loses an open request or closes over one.
LEMMA ClosedStep ==
    ASSUME OnlyApprovalsOverlap, NoDeathOf(Runners), TurnInv, FlightInv, OpenRun, ClosedInv,
           [Next]_vars
    PROVE  ClosedInv'
<1>1. /\ TypeOK /\ pc \in [Procs -> PCs]
      /\ \A q \in Runners : q \in Procs /\ q \notin Approvers
      /\ \A q \in Approvers : q \in Procs
  BY RunAssumption DEF TurnInv, TypeOK, ProcsOK, Procs
<1>2. ASSUME NEW p \in Runners, Crash(p)
      PROVE  FALSE
  BY <1>1, <1>2 DEF Crash, Fault, NoDeathOf, TypeOK, FaultsOK, FaultKinds
<1>3. ASSUME NEW p \in Approvers, Crash(p), OthersWait(p)
      PROVE  ClosedInv'
  <2>1. pc'[p] = "idle" /\ status' = status /\ record' = record
    BY <1>1, <1>3, OutsideFiles DEF Crash, Return, Goto, tickets, files
  <2>2. \A q \in Procs : q # p => pc'[q] = pc[q] /\ ctx'[q] = ctx[q] /\ loc'[q] = loc[q]
    BY <1>3 DEF OthersWait
  <2>3. RequestUnderway' /\ ClosedDecided' /\ GrantsOpenRun'
    BY <1>1, <2>1, <2>2 DEF ClosedInv, RequestUnderway, ClosedDecided, GrantsOpenRun
  <2>4. RequestKnown' /\ ClosingDecided'
    BY <1>1, <2>1, <2>2 DEF ClosedInv, RequestKnown, ClosingDecided, RunnerPCs
  <2> QED BY <2>3, <2>4 DEF ClosedInv
<1>4. ASSUME Outside, UNCHANGED <<pc, ctx, loc>>
      PROVE  ClosedInv'
  <2>1. status' = status /\ record' = record
    BY <1>4, OutsideFiles DEF tickets, files
  <2> QED
    BY <1>4, <2>1 DEF ClosedInv, RequestUnderway, RequestKnown, ClosingDecided, ClosedDecided,
       GrantsOpenRun
<1> QED BY <1>1, <1>2, <1>3, <1>4, ClosedByApprover, ClosedByRunner, WhoMoves

\* The record of a closed run is written by nobody.
LEMMA ClosedUnwritten ==
    ASSUME TurnInv, OpenRun, ClosedInv, [Next]_vars, record.st \in Terminal
    PROVE  record'.st = record.st
<1>1. TypeOK /\ record.st # "waiting"
  BY DEF TurnInv, Terminal
<1>2. ASSUME NEW p \in Approvers, ApproverMove(p)
      PROVE  record' = record
  BY <1>1, <1>2, ApproverKinds
     DEF ClosedInv, GrantsOpenRun, ApproveGrant, ApproveLoad, ApproveCheckpoint, ApproveWrite, files
<1>3. ASSUME NEW p \in Runners, RunnerMove(p)
      PROVE  FALSE
  BY <1>1, <1>3, StartsByLoading DEF Begins, OpenRun
<1>4. ASSUME Outside \/ \E p \in Procs : Crash(p)
      PROVE  record' = record
  BY <1>4, OutsideFiles DEF files
<1> QED BY <1>1, <1>2, <1>3, <1>4, WhoMoves DEF Procs

\* When only approvals overlap and no continuation dies half-way, an accepted or rejected run
\* stays so, whatever approvals die.
THEOREM ClosedForGood ==
    ASSUME OnlyApprovalsOverlap, NoDeathOf(Runners) PROVE Spec => TerminalFinal
<1>1. OneContinuation
  BY RunAssumption DEF OneContinuation, OnlyApprovalsOverlap
<1>2. Init => EvidenceInv
  BY DEF Init, EvidenceInv, OpenRun, Reported, EvidenceAgrees, NewRecord, NoLocals, Terminal, Procs
<1>3. TurnInv /\ TurnInv' /\ EvidenceInv /\ [Next]_vars => EvidenceInv'
  BY <1>1, EvidenceStep
<1>4. Init => ClosedInv
  BY DEF Init, ClosedInv, RequestUnderway, RequestKnown, ClosingDecided, ClosedDecided,
     GrantsOpenRun, NewTickets, NewRecord, NoLocals, Terminal, Procs, RunnerPCs
<1>5. EvidenceInv => OpenRun
  BY DEF EvidenceInv
<1>6. TurnInv /\ FlightInv /\ OpenRun /\ ClosedInv /\ [Next]_vars => ClosedInv'
  BY ClosedStep
<1>7. TurnInv /\ OpenRun /\ ClosedInv /\ [Next]_vars
        => [record.st \in Terminal => record'.st = record.st]_vars
  BY ClosedUnwritten
<1> QED
  BY <1>2, <1>3, <1>4, <1>5, <1>6, <1>7, TurnInvariant, FlightInvariant, PTL
  DEF Spec, TerminalFinal


-----------------------------------------------------------------------------
(* One ticket, one step.  Steps of the same requester may share a ticket only  *)
(* if their subjects are the same, and with two steps of the implementer they   *)
(* are not: the second is previewed on what the first has written.              *)

\* The first step whose requester is the implementer, and the number of such steps.
FirstUnnamed == IF Sdd THEN MainSteps + 1 ELSE 1
TwoUnnamed == IF Sdd THEN MaxRepair <= 2 ELSE MaxRepair <= 1

Upto(k) == {s \in Steps : s <= k}
Early == Upto(FirstUnnamed)

\* The step a ticket of this requester was first asked for.
StepOf(r) == IF r = Implementer THEN FirstUnnamed ELSE r

Applying == {"apply", "remove"}
Asking == {"copy", "gate", "w_check", "w_write"}
Allowed == {"recheck", "apply_check"} \cup Applying \cup {"consume"}

\* A continuation goes through the steps in their order: those before its own are
\* summarised and have no sandbox, and its own is on record before it is applied.
InOrder ==
    \A p \in Runners :
        /\ pc[p] = "idle" => loc[p].step = 1
        /\ pc[p] # "idle" => record.done \subseteq ctx[p].done
        /\ \A k \in Steps : k < loc[p].step => k \in ctx[p].done /\ sandbox[k] = NoTree
        /\ pc[p] = "provider" => loc[p].step \notin ctx[p].done
        /\ loc[p].step \in Early =>
             /\ pc[p] \in Asking \cup Allowed \cup {"verify"} => loc[p].step \in ctx[p].done
             /\ pc[p] \in Allowed => Upto(loc[p].step) \subseteq record.done
             /\ pc[p] \in {"consume", "verify"} => sandbox[loc[p].step] = NoTree

\* An approval changes no artifact of the record.
ArtifactsKept ==
    \A p \in Approvers : pc[p] \in {"a_check", "a_write"} => ctx[p].done = record.done

\* A ticket is asked for when the steps up to its own are summarised, and the record
\* says so once the ticket is in it.
AskedInOrder ==
    \A t \in Tickets : bound[t].sub # NoSub =>
        LET before == Upto(StepOf(bound[t].req)) IN
        \/ before \subseteq record.done
        \/ \E p \in Runners : pc[p] \in {"w_check", "w_write"} /\ before \subseteq ctx[p].done

\* A sandbox that is left is that of a step on record.
LeftOnRecord ==
    \A s \in Early : sandbox[s] # NoTree =>
        s \in record.done \/ \E p \in Runners : loc[p].step = s /\ pc[p] \in Asking

\* Once the apply of an early step has begun, the steps up to it are behind the run.
BehindRun ==
    /\ \A m \in promotions : m.step \in Early =>
          /\ Upto(m.step) \subseteq record.done
          /\ \A k \in Upto(m.step) : sandbox[k] = NoTree \/
                \E p \in Runners : pc[p] \in Applying /\ loc[p].step = k
          /\ \A p \in Runners :
                /\ pc[p] \in {"provider", "recheck", "apply_check"} \cup Asking => loc[p].step > m.step
                /\ pc[p] \in Applying =>
                      /\ loc[p].step >= m.step
                      /\ loc[p].step = m.step => loc[p].sub = m.sub
    /\ \A p \in Runners : pc[p] \in Applying => \E m \in promotions : m.step = loc[p].step

\* What the implementer's first step wrote is there until the second one is applied.
FirstStands ==
    \A m \in promotions : m.step = FirstUnnamed =>
        \/ \A f \in DOMAIN m.sub.ops : target[f] = m.sub.ops[f].after
        \/ \E p \in Runners : pc[p] = "apply" /\ loc[p].step = FirstUnnamed
        \/ \E n \in promotions : n.step > FirstUnnamed

\* The second one is the last step, and the run is closed after it.
SecondCloses ==
    \A n \in promotions : n.step > FirstUnnamed =>
        \/ record.st \in Terminal
        \/ \E p \in Runners :
              /\ loc[p].step > FirstUnnamed
              /\ \/ pc[p] \in Applying \cup {"consume", "verify"}
                 \/ pc[p] \in {"export", "f_check", "f_write"} /\ loc[p].end \in Terminal

\* They do not write the same change.
SubjectsDiffer ==
    \A m, n \in promotions :
        m.step = FirstUnnamed /\ n.step > FirstUnnamed /\ m.sub = n.sub => DOMAIN m.sub.ops = {}

\* What is left to be applied are files of the patch.
PatchFiles == \A p \in Runners : pc[p] = "apply" => loc[p].todo \subseteq DOMAIN loc[p].sub.ops

OrderInv == InOrder /\ ArtifactsKept /\ AskedInOrder /\ LeftOnRecord
StepInv == /\ OrderInv /\ PatchFiles
           /\ BehindRun /\ FirstStands /\ SecondCloses /\ SubjectsDiffer

\* By which action a runner comes to each place of its code.
LEMMA RunnerSources ==
    ASSUME TypeOK, NEW p \in Runners, RunnerMove(p)
    PROVE  /\ pc'[p] = "clear" => Begins(p)
           /\ pc'[p] = "enter" =>
                 ClearConsumed(p) \/ EnterSkip(p) \/ Consume(p) \/ VerifyRetry(p)
           /\ pc'[p] = "provider" => EnterProvider(p)
           /\ pc'[p] = "copy" => ProviderCall(p) \/ CopyFile(p)
           /\ pc'[p] = "gate" => EnterPersisted(p) \/ CopyDone(p)
           /\ pc'[p] = "w_check" => GateRequest(p)
           /\ pc'[p] = "w_write" => WaitCheckpoint(p)
           /\ pc'[p] = "recheck" => GateApproved(p)
           /\ pc'[p] = "apply_check" => Recheck(p)
           /\ pc'[p] = "apply" => ApplyBegin(p) \/ ApplyFile(p)
           /\ pc'[p] = "remove" => ApplyDone(p) \/ RemoveSandbox(p)
           /\ pc'[p] = "consume" => RemoveSandbox(p)
           /\ pc'[p] = "verify" => EnterSkip(p) \/ Consume(p)
           /\ pc'[p] = "idle" =>
                 ProviderFail(p) \/ GateStale(p) \/ GateExpired(p) \/ ApplyRefused(p)
                 \/ ApplyFail(p) \/ FinalWrite(p)
<1> USE DEF TypeOK, ProcsOK, Goto, Procs
<1>1. CASE ProviderRun(p) \/ ResumeStart(p)
  <2>1. Begins(p)
    BY <1>1, StartsByLoading DEF ProviderRun, ResumeStart, MayStart
  <2> QED BY <2>1 DEF Begins
<1>2. CASE ClearConsumed(p)
  BY <1>2 DEF ClearConsumed
<1>3. CASE \/ EnterSkip(p) \/ EnterPersisted(p) \/ EnterProvider(p)
           \/ ProviderCall(p) \/ ProviderFail(p) \/ CopyFile(p) \/ CopyDone(p)
  BY <1>3 DEF EnterSkip, EnterPersisted, EnterProvider, ProviderCall, ProviderFail, CopyFile,
     CopyDone, StepDone, Return
<1>4. CASE \/ GateStale(p) \/ GateRequest(p) \/ WaitCheckpoint(p) \/ WaitWrite(p)
           \/ GateExpired(p) \/ GateApproved(p)
  BY <1>4 DEF GateStale, GateRequest, WaitCheckpoint, WaitWrite, GateExpired, GateApproved, Return
<1>5. CASE ApplyStep(p)
  BY <1>5 DEF ApplyStep, ApplyRefused, Recheck, ApplyBegin, ApplyFile, ApplyFail, ApplyDone,
     RemoveSandbox, Consume, StepDone, Return
<1>6. CASE CloseStep(p)
  BY <1>6 DEF CloseStep, VerifyPass, VerifyRetry, VerifyExhausted, Export, FinalCheckpoint,
     FinalWrite, Close, Return
<1> QED BY <1>1, <1>2, <1>3, <1>4, <1>5, <1>6 DEF RunnerMove, RunnerStep, GateStep

\* Which of its actions change what is on disk.
LEMMA RunnerWrites ==
    ASSUME TypeOK, NEW p \in Runners, RunnerMove(p)
    PROVE  /\ record' = record \/ WaitWrite(p) \/ FinalWrite(p)
           /\ sandbox' = sandbox \/ ProviderCall(p) \/ CopyFile(p) \/ RemoveSandbox(p)
           /\ bound' = bound \/ GateRequest(p)
           /\ promotions' = promotions \/ ApplyBegin(p)
           /\ target' = target \/ ApplyFile(p)
<1> USE DEF repo, tickets, files, history
<1>1. CASE ProviderRun(p) \/ ResumeStart(p)
  BY <1>1 DEF ProviderRun, ResumeStart
<1>2. CASE ClearConsumed(p)
  BY <1>2 DEF ClearConsumed
<1>3. CASE \/ EnterSkip(p) \/ EnterPersisted(p) \/ EnterProvider(p)
           \/ ProviderFail(p) \/ CopyDone(p)
  BY <1>3 DEF EnterSkip, EnterPersisted, EnterProvider, ProviderFail, CopyDone
<1>4. CASE ProviderCall(p) \/ CopyFile(p)
  BY <1>4 DEF ProviderCall, CopyFile
<1>5. CASE GateRequest(p) \/ WaitWrite(p)
  BY <1>5 DEF GateRequest, WaitWrite
<1>6. CASE GateStale(p) \/ WaitCheckpoint(p) \/ GateExpired(p) \/ GateApproved(p)
  BY <1>6 DEF GateStale, WaitCheckpoint, GateExpired, GateApproved
<1>7. CASE ApplyRefused(p) \/ Recheck(p) \/ ApplyFail(p) \/ ApplyDone(p) \/ Consume(p)
  BY <1>7 DEF ApplyRefused, Recheck, ApplyFail, ApplyDone, Consume
<1>8. CASE ApplyBegin(p) \/ ApplyFile(p) \/ RemoveSandbox(p)
  BY <1>8 DEF ApplyBegin, ApplyFile, RemoveSandbox
<1>9. CASE CloseStep(p)
  BY <1>9 DEF CloseStep, VerifyPass, VerifyRetry, VerifyExhausted, Export, FinalCheckpoint,
     FinalWrite
<1> QED
  BY <1>1, <1>2, <1>3, <1>4, <1>5, <1>6, <1>7, <1>8, <1>9
  DEF RunnerMove, RunnerStep, GateStep, ApplyStep

\* And which add an artifact to its context, or lead to another step.
LEMMA RunnerCarries ==
    ASSUME TypeOK, NEW p \in Runners, RunnerMove(p), pc'[p] # "idle"
    PROVE  /\ ctx'[p].done = ctx[p].done \/ pc'[p] = "clear" \/ ProviderCall(p)
           /\ loc'[p].step = loc[p].step \/ EnterSkip(p) \/ Consume(p) \/ VerifyRetry(p)
<1> USE DEF TypeOK, ProcsOK, Goto, Procs
<1>0. p \in Procs /\ ctx[p] \in Records /\ loc[p] \in Locals
  OBVIOUS
<1>1. CASE ProviderRun(p) \/ ResumeStart(p)
  BY <1>1 DEF ProviderRun, ResumeStart, LoadContext
<1>2. CASE ClearConsumed(p) \/ EnterProvider(p) \/ CopyDone(p) \/ Recheck(p) \/ ApplyDone(p)
           \/ RemoveSandbox(p) \/ Export(p) \/ FinalCheckpoint(p) \/ WaitCheckpoint(p)
  BY <1>2 DEF ClearConsumed, EnterProvider, CopyDone, Recheck, ApplyDone, RemoveSandbox, Export,
     FinalCheckpoint, WaitCheckpoint
<1>3. CASE EnterSkip(p) \/ Consume(p) \/ VerifyRetry(p)
  BY <1>3 DEF EnterSkip, Consume, VerifyRetry
<1>4. CASE EnterPersisted(p) \/ CopyFile(p) \/ GateApproved(p) \/ ApplyBegin(p) \/ ApplyFile(p)
           \/ WaitWrite(p)
  <2>1. ctx' = ctx
    BY <1>4 DEF EnterPersisted, CopyFile, GateApproved, ApplyBegin, ApplyFile, WaitWrite
  <2>2. CASE EnterPersisted(p) \/ ApplyBegin(p) \/ WaitWrite(p)
    BY <1>0, <2>1, <2>2 DEF EnterPersisted, ApplyBegin, WaitWrite, Locals
  <2>3. CASE CopyFile(p) \/ ApplyFile(p)
    <3>1. PICK T : loc' = [loc EXCEPT ![p].todo = T]
      BY <2>3 DEF CopyFile, ApplyFile
    <3> QED BY <1>0, <2>1, <3>1 DEF Locals
  <2>4. CASE GateApproved(p)
    <3>1. PICK t : loc' = [loc EXCEPT ![p].tkt = t, ![p].seen = consumed]
      BY <2>4 DEF GateApproved
    <3> QED BY <1>0, <2>1, <3>1 DEF Locals
  <2> QED BY <1>4, <2>2, <2>3, <2>4
<1>5. CASE ProviderCall(p)
  <2>1. \E tree \in ProviderTrees :
           loc' = [loc EXCEPT ![p].out = tree,
                              ![p].sub = Preview(head, target, tree),
                              ![p].todo = {f \in Files : tree[f] # Absent}]
    BY <1>5, Zenon DEF ProviderCall
  <2>2. PICK tree \in ProviderTrees :
           loc' = [loc EXCEPT ![p].out = tree,
                              ![p].sub = Preview(head, target, tree),
                              ![p].todo = {f \in Files : tree[f] # Absent}]
    BY <2>1, Zenon
  <2>3. loc'[p].step = loc[p].step
    BY <1>0, <2>2 DEF Locals
  <2> QED BY <1>5, <2>3
<1>6. CASE GateRequest(p)
  BY <1>0, <1>6 DEF GateRequest, Records
<1>7. CASE VerifyPass(p) \/ VerifyExhausted(p)
  BY <1>0, <1>7 DEF VerifyPass, VerifyExhausted, Close, Records, Locals
<1>8. CASE ProviderFail(p) \/ GateStale(p) \/ GateExpired(p) \/ ApplyRefused(p) \/ ApplyFail(p)
           \/ FinalWrite(p)
  BY <1>8 DEF ProviderFail, GateStale, GateExpired, ApplyRefused, ApplyFail, FinalWrite, Return
<1> QED
  BY <1>1, <1>2, <1>3, <1>4, <1>5, <1>6, <1>7, <1>8
  DEF RunnerMove, RunnerStep, GateStep, ApplyStep, CloseStep

\* With two steps of the implementer at most, the second one is the last step of all.
LEMMA EarlySteps ==
    ASSUME TwoUnnamed
    PROVE  /\ FirstUnnamed \in Nat \ {0}
           /\ \A s, k \in Steps : k < s => k \in Early
           /\ \A s \in Early : Upto(s) = Upto(StepOf(Requester(s))) /\ s <= FirstUnnamed
           /\ \A s \in Steps : s \notin Early =>
                 /\ s = FirstUnnamed + 1 /\ s = MainSteps + MaxRepair
                 /\ Upto(StepOf(Requester(s))) = Early
           /\ 1 \in Early /\ MainSteps \in Early
BY RunAssumption DEF TwoUnnamed, FirstUnnamed, Steps, Upto, Early, StepOf, Requester, Implementer

\* A ticket that can be used for an early step was asked for when that step was recorded.
LEMMA UsableOnRecord ==
    ASSUME OnlyApprovalsOverlap, TwoUnnamed, TurnInv, OrderInv,
           NEW p \in Runners, pc[p] = "gate", loc[p].step \in Early, NEW t \in Usable(p)
    PROVE  Upto(loc[p].step) \subseteq record.done
<1>1. t \in Tickets /\ bound[t].sub # NoSub /\ bound[t].req = Requester(loc[p].step)
  BY DEF Usable
<1>2. \A q \in Runners : pc[q] \notin {"w_check", "w_write"}
  BY RunnerAlone DEF Procs
<1>3. Upto(StepOf(bound[t].req)) \subseteq record.done
  BY <1>1, <1>2 DEF OrderInv, AskedInOrder
<1> QED BY <1>1, <1>3, EarlySteps

\* A runner takes the steps in their order.
LEMMA InOrderByRunner ==
    ASSUME OnlyApprovalsOverlap, RemovalsSucceed, TwoUnnamed, TurnInv, TurnInv', OrderInv,
           NEW p \in Runners, RunnerMove(p), OthersWait(p)
    PROVE  InOrder'
<1> DEFINE s == loc[p].step
           u == loc'[p].step
<1>1. /\ p \in Procs /\ TypeOK /\ pc \in [Procs -> PCs] /\ sandbox \in [Steps -> Trees \cup {NoTree}]
      /\ ctx \in [Procs -> Records] /\ loc \in [Procs -> Locals]
      /\ s \in Steps /\ u \in Steps
      /\ \A q \in Runners : q \in Procs
  BY LocalFields DEF TurnInv, TypeOK, ProcsOK, RepoOK, Procs, Locals
<1>2. \A q \in Runners : q # p =>
         pc[q] = "idle" /\ pc'[q] = "idle" /\ loc[q].step = 1 /\ loc'[q].step = 1
  BY <1>1, MovesAlone DEF OthersWait, OrderInv, InOrder
<1>3. /\ pc[p] = "idle" => s = 1 /\ Begins(p)
      /\ pc[p] # "idle" => record.done \subseteq ctx[p].done
      /\ \A k \in Steps : k < s => k \in ctx[p].done /\ sandbox[k] = NoTree
      /\ pc[p] = "provider" => s \notin ctx[p].done
      /\ s \in Early =>
           /\ pc[p] \in Asking \cup Allowed \cup {"verify"} => s \in ctx[p].done
           /\ pc[p] \in Allowed => Upto(s) \subseteq record.done
           /\ pc[p] \in {"consume", "verify"} => sandbox[s] = NoTree
  BY <1>1, StartsByLoading DEF OrderInv, InOrder
<1>4. pc'[p] = "idle" => u = 1
  BY <1>1, RunnerSources DEF ProviderFail, GateStale, GateExpired, ApplyRefused, ApplyFail, FinalWrite,
     Return, NoLocals
<1>5. ASSUME pc'[p] # "idle"
      PROVE  /\ record'.done \subseteq ctx'[p].done
             /\ pc'[p] # "clear" => ctx[p].done \subseteq ctx'[p].done
             /\ pc[p] = "idle" => pc'[p] = "clear"
  <2>1. CASE pc'[p] = "clear"
    BY <1>1, <2>1, RunnerSources DEF Begins
  <2>2. CASE pc'[p] # "clear"
    <3>1. pc[p] # "idle"
      BY <1>3, <2>2 DEF Begins
    <3>2. ctx[p].done \subseteq ctx'[p].done
      <4>1. ASSUME ProviderCall(p)
            PROVE  ctx'[p].done = Summarised(p)
        <5>1. ctx' = [ctx EXCEPT ![p].done = Summarised(p)]
          BY <4>1 DEF ProviderCall
        <5> QED BY <1>1, <5>1 DEF Records
      <4> QED BY <1>5, <2>2, <4>1, <1>1, RunnerCarries DEF Summarised
    <3>3. record'.done \in {record.done, ctx[p].done}
      BY <1>1, RunnerWrites DEF WaitWrite, FinalWrite, Records
    <3> QED BY <1>3, <3>1, <3>2, <3>3
  <2> QED BY <2>1, <2>2
<1>6. \A k \in Steps : k # s => sandbox'[k] = sandbox[k]
  BY <1>1, RunnerWrites DEF ProviderCall, CopyFile, RemoveSandbox
<1>7. ASSUME EnterSkip(p) \/ Consume(p) \/ VerifyRetry(p)
      PROVE  /\ sandbox' = sandbox /\ ctx' = ctx /\ record' = record
             /\ u \in {s, s + 1}
             /\ pc[p] # "idle" /\ pc'[p] # "clear"
             /\ s \in Early => s \in ctx[p].done /\ sandbox[s] = NoTree
  BY <1>1, <1>3, <1>7
  DEF EnterSkip, Consume, VerifyRetry, StepDone, AppliedBefore, NoLocals, files, Goto, Allowed
<1>8. ASSUME NEW k \in Steps, k < u
      PROVE  k \in ctx'[p].done /\ sandbox'[k] = NoTree
  <2>0. pc'[p] # "idle"
    BY <1>4, <1>8 DEF Steps
  <2>1. CASE EnterSkip(p) \/ Consume(p) \/ VerifyRetry(p)
    <3>1. k < s \/ k = s
      BY <1>1, <1>7, <1>8, <2>1 DEF Steps
    <3>2. k \in Early
      BY <1>1, <1>8, EarlySteps
    <3> QED BY <1>3, <1>7, <2>1, <3>1, <3>2
  <2>2. CASE ~(EnterSkip(p) \/ Consume(p) \/ VerifyRetry(p))
    <3>1. u = s
      BY <1>1, <2>0, <2>2, RunnerCarries
    <3>2. pc'[p] # "clear"
      <4>1. pc'[p] = "clear" => pc[p] = "idle"
        BY <1>1, RunnerSources DEF Begins, MayStart
      <4> QED BY <1>3, <1>8, <3>1, <4>1 DEF Steps
    <3> QED BY <1>1, <1>3, <1>5, <1>6, <1>8, <2>0, <3>1, <3>2 DEF Steps
  <2> QED BY <2>1, <2>2
<1>9. pc'[p] = "provider" => u \notin ctx'[p].done
  BY <1>1, RunnerSources DEF EnterProvider
<1>10. ASSUME u \in Early, pc'[p] \in Asking \cup Allowed \cup {"verify"}
       PROVE  u \in ctx'[p].done
  <2>0. /\ pc'[p] # "idle" /\ pc'[p] # "clear"
        /\ pc'[p] # "enter"
        /\ ctx[p].done \subseteq ctx'[p].done
    BY <1>5, <1>10 DEF Asking, Allowed, Applying
  <2>1. CASE ProviderCall(p)
    <3>1. ctx' = [ctx EXCEPT ![p].done = Summarised(p)] /\ pc[p] = "provider"
      BY <2>1 DEF ProviderCall
    <3>2. ctx'[p].done = Summarised(p)
      BY <1>1, <3>1 DEF Records
    <3>3. u = s
      BY <1>1, <2>0, <3>1, RunnerCarries DEF EnterSkip, Consume, VerifyRetry
    <3> QED BY <3>2, <3>3 DEF Summarised
  <2>2. CASE EnterPersisted(p)
    <3>1. pc[p] = "enter" /\ sandbox[s] # NoTree /\ ctx' = ctx /\ pc' = [pc EXCEPT ![p] = "gate"]
      BY <2>2 DEF EnterPersisted, Goto
    <3>2. u = s
      BY <1>1, <2>2 DEF EnterPersisted, Locals
    <3>3. \A q \in Runners : pc[q] \in Asking => q = p
      BY <1>1, <3>1, RunnerAlone DEF Asking
    <3>4. s \in record.done
      BY <1>10, <3>1, <3>2, <3>3 DEF OrderInv, LeftOnRecord, Asking
    <3> QED BY <1>3, <3>1, <3>2, <3>4
  <2>3. CASE EnterSkip(p) \/ Consume(p)
    <3>1. u = s
      BY <1>1, <2>0, <2>3 DEF EnterSkip, Consume, StepDone, Goto, NoLocals
    <3> QED BY <1>7, <1>10, <2>0, <2>3, <3>1
  <2>4. CASE ~(ProviderCall(p) \/ EnterPersisted(p) \/ EnterSkip(p) \/ Consume(p))
    <3>1. /\ \/ CopyFile(p) \/ CopyDone(p) \/ GateRequest(p) \/ WaitCheckpoint(p) \/ GateApproved(p)
             \/ Recheck(p) \/ ApplyBegin(p) \/ ApplyFile(p) \/ ApplyDone(p) \/ RemoveSandbox(p)
      BY <1>1, <1>10, <2>4, RunnerSources DEF Asking, Allowed, Applying
    <3>2. pc[p] \in Asking \cup Allowed
      BY <3>1 DEF CopyFile, CopyDone, GateRequest, WaitCheckpoint, GateApproved, Recheck, ApplyBegin,
         ApplyFile, ApplyDone, RemoveSandbox, Asking, Allowed, Applying
    <3>3. u = s
      BY <1>1, <2>0, <2>4, <3>2, RunnerCarries DEF VerifyRetry, Asking, Allowed, Applying
    <3> QED BY <1>3, <1>10, <2>0, <3>2, <3>3
  <2> QED BY <2>1, <2>2, <2>3, <2>4
<1>11. ASSUME u \in Early, pc'[p] \in Allowed
       PROVE  Upto(u) \subseteq record'.done
  <2>1. pc'[p] \notin {"idle", "clear", "enter"} /\ pc'[p] # "verify"
    BY <1>11 DEF Allowed, Applying
  <2>2. \/ GateApproved(p) \/ Recheck(p) \/ ApplyBegin(p) \/ ApplyFile(p) \/ ApplyDone(p)
        \/ RemoveSandbox(p)
    BY <1>1, <1>11, RunnerSources DEF Allowed, Applying
  <2>3. pc[p] \in Allowed \cup {"gate"} /\ pc[p] # "consume" /\ record' = record
    BY <2>2 DEF GateApproved, Recheck, ApplyBegin, ApplyFile, ApplyDone, RemoveSandbox, Allowed,
       Applying, files
  <2>4. u = s
    BY <1>1, <2>1, <2>3, RunnerCarries
       DEF EnterSkip, Consume, VerifyRetry, Allowed, Applying
  <2>5. CASE GateApproved(p)
    <3>1. PICK t : t \in Usable(p)
      BY <2>5 DEF GateApproved, Chosen, Exact
    <3> QED BY <1>11, <2>3, <2>4, <2>5, <3>1, UsableOnRecord DEF GateApproved
  <2>6. CASE ~GateApproved(p)
    <3>1. pc[p] \in Allowed
      BY <2>2, <2>6 DEF Recheck, ApplyBegin, ApplyFile, ApplyDone, RemoveSandbox, Allowed, Applying
    <3> QED BY <1>3, <1>11, <2>3, <2>4, <3>1
  <2> QED BY <2>5, <2>6
<1>12. ASSUME u \in Early, pc'[p] \in {"consume", "verify"}
       PROVE  sandbox'[u] = NoTree
  <2>1. CASE RemoveSandbox(p)
    <3>1. u = s
      BY <1>1, <2>1, Removal
    <3>2. sandbox' = [sandbox EXCEPT ![s] = NoTree]
      BY <1>1, <1>12, <2>1, RemovalComplete
    <3> QED BY <1>1, <3>1, <3>2
  <2>2. CASE EnterSkip(p) \/ Consume(p)
    <3>1. u = s
      BY <1>1, <1>12, <2>2 DEF EnterSkip, Consume, StepDone, Goto, NoLocals
    <3> QED BY <1>7, <1>12, <2>2, <3>1
  <2> QED BY <1>1, <1>12, <2>1, <2>2, RunnerSources
<1>13. ASSUME NEW q \in Runners, q # p
       PROVE  /\ pc'[q] = "idle" /\ loc'[q].step = 1
              /\ \A k \in Steps : ~(k < loc'[q].step)
  BY <1>2, <1>13 DEF Steps
<1>14. "idle" \notin Asking \cup Allowed \cup {"verify", "consume", "provider"}
  BY DEF Asking, Allowed, Applying
<1>15. pc'[p] # "idle" => record'.done \subseteq ctx'[p].done
  BY <1>5
<1> QED BY <1>4, <1>8, <1>9, <1>10, <1>11, <1>12, <1>13, <1>14, <1>15 DEF InOrder

\* An apply goes through to its last file: each file to copy is in the sandbox.
LEMMA ApplyGoesOn ==
    ASSUME TypeOK, ApplyExact, PatchFiles, NEW p \in Runners
    PROVE  ~ApplyFail(p)
<1> SUFFICES ASSUME ApplyFail(p) PROVE FALSE
  OBVIOUS
<1>1. pc[p] = "apply"
  BY DEF ApplyFail
<1>2. PICK f \in loc[p].todo : ~Copyable(p, f)
  BY DEF ApplyFail
<1>3. /\ f \in DOMAIN loc[p].sub.ops /\ sandbox[loc[p].step] # NoTree
      /\ sandbox[loc[p].step][f] = loc[p].sub.ops[f].after
  BY <1>1, <1>2 DEF PatchFiles, ApplyExact
<1> QED BY <1>2, <1>3 DEF Copyable, Source

\* The record keeps its artifacts, and has those of a suspended call once it is written.
LEMMA ArtifactsGrow ==
    ASSUME TurnInv, InOrder, NEW p \in Runners, RunnerMove(p)
    PROVE  /\ record.done \subseteq record'.done
           /\ pc[p] = "w_check" => pc'[p] = "w_write" /\ ctx' = ctx /\ loc' = loc
           /\ pc[p] = "w_write" => record'.done = ctx[p].done
<1>1. /\ p \in Procs /\ TypeOK /\ pc \in [Procs -> PCs] /\ ctx \in [Procs -> Records]
  BY DEF TurnInv, TypeOK, ProcsOK, Procs
<1>2. ASSUME WaitWrite(p) \/ FinalWrite(p)
      PROVE  record'.done = ctx[p].done /\ record.done \subseteq ctx[p].done
  BY <1>1, <1>2 DEF WaitWrite, FinalWrite, Records, InOrder
<1>3. record.done \subseteq record'.done
  BY <1>1, <1>2, RunnerWrites
<1>4. CASE pc[p] \notin {"w_check", "w_write"}
  BY <1>3, <1>4
<1>5. CASE pc[p] \in {"w_check", "w_write"}
  <2>1. WaitCheckpoint(p) \/ WaitWrite(p)
    BY <1>5 DEF RunnerMove, RunnerStep, ProviderRun, ResumeStart, MayStart, ClearConsumed, GateStep,
       ApplyStep, CloseStep, EnterSkip, EnterPersisted, EnterProvider, ProviderCall, ProviderFail,
       CopyFile, CopyDone, GateStale, GateRequest, GateExpired, GateApproved, ApplyRefused, Recheck,
       ApplyBegin, ApplyFile, ApplyFail, ApplyDone, RemoveSandbox, Consume, VerifyPass, VerifyRetry,
       VerifyExhausted, Export, FinalCheckpoint, FinalWrite
  <2>2. CASE WaitCheckpoint(p)
    BY <1>1, <1>3, <2>2 DEF WaitCheckpoint, Goto
  <2>3. CASE WaitWrite(p)
    BY <1>2, <1>3, <2>3 DEF WaitWrite
  <2> QED BY <2>1, <2>2, <2>3
<1> QED BY <1>4, <1>5

\* A ticket is asked for after the steps before it.
LEMMA AskedByRunner ==
    ASSUME OnlyApprovalsOverlap, TwoUnnamed, TurnInv, TurnInv', OrderInv,
           NEW p \in Runners, RunnerMove(p), OthersWait(p)
    PROVE  AskedInOrder'
<1> DEFINE s == loc[p].step
<1>1. /\ p \in Procs /\ TypeOK /\ pc \in [Procs -> PCs] /\ InOrder
      /\ ctx \in [Procs -> Records] /\ loc \in [Procs -> Locals] /\ s \in Steps
      /\ bound \in [Tickets -> Bindings]
      /\ \A q \in Runners : q \in Procs
  BY LocalFields DEF TurnInv, TypeOK, ProcsOK, TicketsOK, Procs, OrderInv
<1>2. \A q \in Runners : q # p => pc[q] = "idle"
  BY <1>1, MovesAlone
<1>3. ASSUME NEW t \in Tickets, bound'[t].sub # NoSub
      PROVE  LET before == Upto(StepOf(bound'[t].req)) IN
             \/ before \subseteq record'.done
             \/ \E q \in Runners : pc'[q] \in {"w_check", "w_write"} /\ before \subseteq ctx'[q].done
  <2>1. CASE bound'[t] = bound[t]
    <3> DEFINE before == Upto(StepOf(bound[t].req))
    <3>1. \/ before \subseteq record.done
          \/ pc[p] \in {"w_check", "w_write"} /\ before \subseteq ctx[p].done
      BY <1>2, <1>3, <2>1 DEF OrderInv, AskedInOrder
    <3>2. \/ before \subseteq record'.done
          \/ pc'[p] \in {"w_check", "w_write"} /\ before \subseteq ctx'[p].done
      BY <1>1, <3>1, ArtifactsGrow
    <3> QED BY <2>1, <3>2
  <2>2. CASE bound'[t] # bound[t]
    <3>1. GateRequest(p)
      BY <1>1, <2>2, RunnerWrites
    <3>2. /\ pc[p] = "gate" /\ pc'[p] = "w_check" /\ bound'[t].req = Requester(s)
      BY <1>1, <2>2, <3>1 DEF GateRequest, Goto, Bindings
    <3>3. ctx'[p].done = ctx[p].done
      BY <1>1, <3>2, RunnerCarries DEF ProviderCall
    <3>4. Upto(StepOf(Requester(s))) \subseteq ctx[p].done
      <4>1. \A k \in Steps : k < s => k \in ctx[p].done
        BY <1>1 DEF InOrder
      <4>2. CASE s \in Early
        <5>1. s \in ctx[p].done
          BY <1>1, <3>2, <4>2 DEF InOrder, Asking
        <5>2. Upto(StepOf(Requester(s))) = Upto(s)
          BY <4>2, EarlySteps
        <5>3. \A k \in Upto(s) : k \in Steps /\ (k < s \/ k = s)
          BY <1>1 DEF Upto, Steps
        <5> QED BY <4>1, <5>1, <5>2, <5>3
      <4>3. CASE s \notin Early
        BY <1>1, <4>1, <4>3, EarlySteps DEF Upto, Early, Steps
      <4> QED BY <4>2, <4>3
    <3> QED BY <3>2, <3>3, <3>4
  <2> QED BY <2>1, <2>2
<1> QED BY <1>3 DEF AskedInOrder

\* A call that stops with its sandbox made has its step on record.
LEMMA LeftByRunner ==
    ASSUME OnlyApprovalsOverlap, TwoUnnamed, TurnInv, TurnInv', OrderInv,
           NEW p \in Runners, RunnerMove(p), OthersWait(p)
    PROVE  LeftOnRecord'
<1> DEFINE s == loc[p].step
<1>1. /\ p \in Procs /\ TypeOK /\ pc \in [Procs -> PCs] /\ InOrder
      /\ ctx \in [Procs -> Records] /\ loc \in [Procs -> Locals] /\ s \in Steps
      /\ sandbox \in [Steps -> Trees \cup {NoTree}]
      /\ \A q \in Runners : q \in Procs
  BY LocalFields DEF TurnInv, TypeOK, ProcsOK, RepoOK, Procs, OrderInv
<1>2. \A q \in Runners : q # p => pc[q] = "idle"
  BY <1>1, MovesAlone
<1>3. ASSUME pc[p] \in Asking, s \in Early
      PROVE  s \in record'.done \/ (pc'[p] \in Asking /\ loc'[p].step = s)
  <2>1. \/ CopyFile(p) \/ CopyDone(p) \/ GateStale(p) \/ GateExpired(p) \/ GateApproved(p)
        \/ GateRequest(p) \/ WaitCheckpoint(p) \/ WaitWrite(p)
    BY <1>3 DEF Asking, RunnerMove, RunnerStep, ProviderRun, ResumeStart, MayStart, ClearConsumed,
       GateStep, ApplyStep, CloseStep, EnterSkip, EnterPersisted, EnterProvider, ProviderCall,
       ProviderFail, ApplyRefused, Recheck, ApplyBegin, ApplyFile, ApplyFail, ApplyDone,
       RemoveSandbox, Consume, VerifyPass, VerifyRetry, VerifyExhausted, Export, FinalCheckpoint,
       FinalWrite
  <2>2. CASE GateStale(p) \/ GateExpired(p) \/ GateApproved(p)
    <3>1. pc[p] = "gate" /\ record' = record
      BY <2>2 DEF GateStale, GateExpired, GateApproved, files
    <3>2. PICK t : t \in Usable(p)
      BY <2>2 DEF GateStale, GateExpired, GateApproved, Chosen, Exact
    <3>3. s \in record.done
      <4>1. Upto(s) \subseteq record.done
        BY <1>3, <3>1, <3>2, UsableOnRecord
      <4>2. s \in Upto(s)
        BY <1>1 DEF Upto, Steps
      <4> QED BY <4>1, <4>2
    <3> QED BY <3>1, <3>3
  <2>3. CASE WaitWrite(p)
    BY <1>1, <1>3, <2>3, ArtifactsGrow DEF WaitWrite, InOrder
  <2>4. CASE CopyFile(p) \/ CopyDone(p) \/ GateRequest(p) \/ WaitCheckpoint(p)
    <3>1. pc'[p] \in Asking /\ pc[p] \in Asking
      BY <1>1, <1>3, <2>4 DEF CopyFile, CopyDone, GateRequest, WaitCheckpoint, Goto, Asking
    <3>2. loc'[p].step = s
      BY <1>1, <3>1, RunnerCarries DEF Asking, EnterSkip, Consume, VerifyRetry
    <3> QED BY <3>1, <3>2
  <2> QED BY <2>1, <2>2, <2>3, <2>4
<1>4. ASSUME NEW r \in Early, sandbox'[r] # NoTree
      PROVE  r \in record'.done \/ \E q \in Runners : loc'[q].step = r /\ pc'[q] \in Asking
  <2>1. CASE sandbox[r] # NoTree
    <3>1. r \in record.done \/ (s = r /\ pc[p] \in Asking)
      BY <1>2, <1>4, <2>1 DEF OrderInv, LeftOnRecord, Asking
    <3> QED BY <1>1, <1>3, <1>4, <3>1, ArtifactsGrow
  <2>2. CASE sandbox[r] = NoTree
    <3>1. (ProviderCall(p) \/ CopyFile(p)) /\ r = s
      <4>1. r \in Steps
        BY DEF Early, Upto
      <4>2. ProviderCall(p) \/ CopyFile(p) \/ RemoveSandbox(p)
        BY <1>1, <1>4, <2>2, RunnerWrites
      <4>3. \E T : sandbox' = [sandbox EXCEPT ![s] = T]
        BY <1>1, <4>2, Removal DEF ProviderCall, CopyFile
      <4>4. r = s
        BY <1>1, <1>4, <2>2, <4>1, <4>3
      <4>5. ~RemoveSandbox(p)
        <5>1. SUFFICES ASSUME RemoveSandbox(p) PROVE FALSE
          OBVIOUS
        <5>2. PICK T : /\ sandbox' = [sandbox EXCEPT ![s] = T]
                       /\ T # NoTree => sandbox[s] # NoTree
          BY <1>1, <5>1, Removal
        <5>3. sandbox'[s] = T
          BY <1>1, <4>1, <4>4, <5>2
        <5> QED BY <1>4, <2>2, <4>4, <5>2, <5>3
      <4> QED BY <4>2, <4>4, <4>5
    <3>2. pc'[p] = "copy" /\ pc[p] \in {"provider", "copy"}
      BY <1>1, <3>1 DEF ProviderCall, CopyFile, Goto
    <3>3. loc'[p].step = s
      BY <1>1, <3>2, RunnerCarries DEF EnterSkip, Consume, VerifyRetry
    <3> QED BY <3>1, <3>2, <3>3 DEF Asking
  <2> QED BY <2>1, <2>2
<1> QED BY <1>4 DEF LeftOnRecord

\* Where an apply is taken up, and where it leads.
LEMMA ApplyPlaces ==
    ASSUME OnlyApprovalsOverlap, TurnInv, TurnInv', ApplyExact, StepInv,
           NEW p \in Runners, RunnerMove(p), OthersWait(p)
    PROVE  /\ pc[p] \in Applying =>
                 \/ RemoveSandbox(p)
                 \/ /\ ApplyFile(p) \/ ApplyDone(p)
                    /\ pc'[p] \in Applying /\ loc'[p].step = loc[p].step /\ loc'[p].sub = loc[p].sub
                    /\ sandbox' = sandbox /\ promotions' = promotions
           /\ pc'[p] \in Applying => ApplyBegin(p) \/ pc[p] \in Applying
           /\ RemoveSandbox(p) =>
                 loc' = loc /\ promotions' = promotions /\ pc[p] = "remove"
           /\ ApplyBegin(p) =>
                 /\ pc[p] = "apply_check" /\ pc'[p] = "apply"
                 /\ loc' = [loc EXCEPT ![p].todo = DOMAIN loc[p].sub.ops]
                 /\ loc'[p].step = loc[p].step /\ loc'[p].sub = loc[p].sub
                 /\ sandbox' = sandbox /\ target' = target
                 /\ promotions' = promotions \cup
                       {[tkt |-> loc[p].tkt, step |-> loc[p].step, sub |-> loc[p].sub]}
<1>1. /\ p \in Procs /\ TypeOK /\ pc \in [Procs -> PCs] /\ loc[p] \in Locals /\ PatchFiles
      /\ loc \in [Procs -> Locals]
  BY DEF TurnInv, TypeOK, ProcsOK, Procs, StepInv
<1>2. ASSUME pc[p] \in Applying
      PROVE  ApplyFile(p) \/ ApplyDone(p) \/ RemoveSandbox(p)
  <2>1. ApplyFile(p) \/ ApplyFail(p) \/ ApplyDone(p) \/ RemoveSandbox(p)
    BY <1>2 DEF Applying, RunnerMove, RunnerStep, ProviderRun, ResumeStart, MayStart, ClearConsumed,
       GateStep, ApplyStep, CloseStep, EnterSkip, EnterPersisted, EnterProvider, ProviderCall,
       ProviderFail, CopyFile, CopyDone, GateStale, GateRequest, WaitCheckpoint, WaitWrite,
       GateExpired, GateApproved, ApplyRefused, Recheck, ApplyBegin, Consume,
       VerifyPass, VerifyRetry, VerifyExhausted, Export, FinalCheckpoint, FinalWrite
  <2> QED BY <1>1, <2>1, ApplyGoesOn
<1>3. ASSUME ApplyFile(p)
      PROVE  /\ pc'[p] \in Applying /\ loc'[p].step = loc[p].step /\ loc'[p].sub = loc[p].sub
             /\ sandbox' = sandbox /\ promotions' = promotions
  <2>1. PICK T : loc' = [loc EXCEPT ![p].todo = T]
    BY <1>3 DEF ApplyFile
  <2> QED BY <1>1, <1>3, <2>1 DEF ApplyFile, Applying, Locals, history
<1>4. ASSUME ApplyDone(p)
      PROVE  /\ pc'[p] \in Applying /\ loc'[p].step = loc[p].step /\ loc'[p].sub = loc[p].sub
             /\ sandbox' = sandbox /\ promotions' = promotions
  BY <1>1, <1>4 DEF ApplyDone, Goto, Applying
<1>5. /\ pc'[p] \in Applying => ApplyBegin(p) \/ pc[p] \in Applying
      /\ RemoveSandbox(p) => loc' = loc /\ promotions' = promotions /\ pc[p] = "remove"
  BY <1>1, RunnerSources DEF Applying, ApplyFile, ApplyDone, RemoveSandbox, Goto, history
<1>6. ASSUME ApplyBegin(p)
      PROVE  /\ pc[p] = "apply_check" /\ pc'[p] = "apply"
             /\ loc' = [loc EXCEPT ![p].todo = DOMAIN loc[p].sub.ops]
             /\ loc'[p].step = loc[p].step /\ loc'[p].sub = loc[p].sub
             /\ sandbox' = sandbox /\ target' = target
             /\ promotions' = promotions \cup
                   {[tkt |-> loc[p].tkt, step |-> loc[p].step, sub |-> loc[p].sub]}
  BY <1>1, <1>6 DEF ApplyBegin, Goto, Locals, repo
<1> QED BY <1>2, <1>3, <1>4, <1>5, <1>6

\* An apply goes over the files of its patch only.
LEMMA FilesByRunner ==
    ASSUME OnlyApprovalsOverlap, TurnInv, TurnInv', ApplyExact, StepInv,
           NEW p \in Runners, RunnerMove(p), OthersWait(p)
    PROVE  PatchFiles'
<1>1. /\ p \in Procs /\ TypeOK /\ pc \in [Procs -> PCs] /\ loc \in [Procs -> Locals]
      /\ \A q \in Runners : q \in Procs
  BY DEF TurnInv, TypeOK, ProcsOK, Procs
<1>2. \A q \in Procs : q # p => pc[q] = "idle" /\ pc'[q] = "idle"
  BY <1>1, MovesAlone DEF OthersWait
<1>3. ASSUME pc'[p] = "apply"
      PROVE  loc'[p].todo \subseteq DOMAIN loc'[p].sub.ops
  <2>1. CASE ApplyBegin(p)
    <3>1. loc'[p] = [loc[p] EXCEPT !.todo = DOMAIN loc[p].sub.ops]
      BY <1>1, <2>1, ApplyPlaces
    <3>2. loc[p] \in Locals
      BY <1>1
    <3> QED BY <3>1, <3>2 DEF Locals
  <2>2. CASE ApplyFile(p)
    <3>1. PICK f \in loc[p].todo : loc' = [loc EXCEPT ![p].todo = @ \ {f}]
      BY <2>2 DEF ApplyFile
    <3>2. pc[p] = "apply" /\ loc[p].todo \subseteq DOMAIN loc[p].sub.ops
      BY <2>2 DEF ApplyFile, StepInv, PatchFiles
    <3> QED BY <1>1, <3>1, <3>2 DEF Locals
  <2> QED BY <1>1, <1>3, <2>1, <2>2, RunnerSources
<1> QED BY <1>1, <1>2, <1>3 DEF PatchFiles

\* An early step that was applied is behind the run.
LEMMA BehindByRunner ==
    ASSUME OnlyApprovalsOverlap, RemovalsSucceed, TwoUnnamed,
           TurnInv, TurnInv', ApplyExact, StepInv,
           NEW p \in Runners, RunnerMove(p), OthersWait(p)
    PROVE  BehindRun'
<1> DEFINE s == loc[p].step
           u == loc'[p].step
           Begun == [tkt |-> loc[p].tkt, step |-> loc[p].step, sub |-> loc[p].sub]
<1>1. /\ p \in Procs /\ TypeOK /\ pc \in [Procs -> PCs] /\ InOrder
      /\ ctx \in [Procs -> Records] /\ loc \in [Procs -> Locals] /\ s \in Steps /\ u \in Steps
      /\ sandbox \in [Steps -> Trees \cup {NoTree}]
      /\ \A q \in Runners : q \in Procs
      /\ Steps \subseteq Nat /\ \A m \in promotions : m.step \in Steps
  BY RunAssumption, LocalFields
     DEF TurnInv, TypeOK, ProcsOK, RepoOK, HistoryOK, Procs, StepInv, OrderInv, Steps, Locals
<1>2. \A q \in Runners : q # p => pc[q] = "idle" /\ pc'[q] = "idle"
  BY <1>1, MovesAlone DEF OthersWait
<1>3. /\ record.done \subseteq record'.done
      /\ ApplyBegin(p) =>
            /\ pc[p] = "apply_check" /\ pc'[p] = "apply" /\ u = s
            /\ sandbox' = sandbox /\ loc'[p].sub = loc[p].sub
            /\ promotions' = promotions \cup {Begun}
      /\ ~ApplyBegin(p) => promotions' = promotions
  BY <1>1, ArtifactsGrow, ApplyPlaces, RunnerWrites
<1>4. "idle" \notin {"provider", "recheck", "apply_check"} \cup Asking \cup Applying
  BY DEF Asking, Applying
<1>5. ASSUME NEW m \in promotions, m.step \in Early
      PROVE  /\ Upto(m.step) \subseteq record.done
             /\ \A k \in Upto(m.step) : sandbox[k] = NoTree \/ (pc[p] \in Applying /\ s = k)
             /\ pc[p] \in {"provider", "recheck", "apply_check"} \cup Asking => s > m.step
             /\ pc[p] \in Applying => s >= m.step /\ (s = m.step => loc[p].sub = m.sub)
  BY <1>2, <1>4, <1>5 DEF StepInv, BehindRun
<1>6. ASSUME NEW m \in promotions, m.step \in Early
      PROVE  /\ Upto(m.step) \subseteq record'.done
             /\ \A k \in Upto(m.step) : sandbox'[k] = NoTree \/ (pc'[p] \in Applying /\ u = k)
  <2>1. ASSUME NEW k \in Upto(m.step)
        PROVE  sandbox'[k] = NoTree \/ (pc'[p] \in Applying /\ u = k)
    <3>1. k \in Steps /\ k <= m.step
      BY DEF Upto
    <3>2. CASE ProviderCall(p) \/ CopyFile(p)
      <4>1. pc[p] \in {"provider"} \cup Asking /\ pc[p] \notin Applying
        BY <3>2 DEF ProviderCall, CopyFile, Asking, Applying
      <4>2. s > m.step /\ sandbox[k] = NoTree
        BY <1>5, <1>6, <4>1
      <4>4. k # s
        BY <1>1, <1>6, <3>1, <4>2 DEF Steps
      <4>3. \E T : sandbox' = [sandbox EXCEPT ![s] = T]
        BY <3>2 DEF ProviderCall, CopyFile
      <4> QED BY <1>1, <3>1, <4>2, <4>3, <4>4
    <3>3. CASE RemoveSandbox(p)
      <4>1. PICK T : /\ sandbox' = [sandbox EXCEPT ![s] = T]
                     /\ T # NoTree => sandbox[s] # NoTree
        BY <1>1, <3>3, Removal
      <4>2. u = s
        BY <1>1, <3>3, Removal
      <4>3. CASE pc'[p] = "remove"
        BY <1>1, <1>5, <1>6, <3>1, <4>1, <4>2, <4>3 DEF Applying
      <4>4. CASE pc'[p] # "remove"
        <5>1. sandbox' = [sandbox EXCEPT ![s] = NoTree]
          BY <1>1, <3>3, <4>4, RemovalComplete
        <5> QED BY <1>1, <1>5, <1>6, <3>1, <5>1
      <4> QED BY <4>3, <4>4
    <3>4. CASE ~(ProviderCall(p) \/ CopyFile(p) \/ RemoveSandbox(p))
      <4>1. sandbox' = sandbox
        BY <1>1, <3>4, RunnerWrites
      <4> QED BY <1>5, <1>6, <3>4, <4>1, ApplyPlaces
    <3> QED BY <3>2, <3>3, <3>4
  <2> QED BY <1>3, <1>5, <1>6, <2>1
<1>7. ASSUME NEW m \in promotions, m.step \in Early,
             pc'[p] \in {"provider", "recheck", "apply_check"} \cup Asking
      PROVE  u > m.step
  <2>1. CASE EnterProvider(p) \/ EnterPersisted(p)
    <3>1. pc[p] = "enter" /\ ctx' = ctx /\ pc[p] \notin Applying
      BY <2>1 DEF EnterProvider, EnterPersisted, Applying
    <3>2. u = s
      BY <1>1, <1>7, <2>1 DEF EnterProvider, EnterPersisted, Locals
    <3>3. s \notin record.done \/ sandbox[s] # NoTree
      BY <1>1, <2>1, <3>1 DEF EnterProvider, EnterPersisted, InOrder
    <3>4. s \notin Upto(m.step)
      <4>1. s \in Upto(m.step) => s \in record.done /\ sandbox[s] = NoTree
        BY <1>5, <1>7, <3>1
      <4> QED BY <3>3, <4>1
    <3> QED BY <1>1, <1>7, <3>2, <3>4 DEF Upto, Steps
  <2>2. CASE ~(EnterProvider(p) \/ EnterPersisted(p))
    <3>1. \/ ProviderCall(p) \/ CopyFile(p) \/ CopyDone(p) \/ GateRequest(p) \/ WaitCheckpoint(p)
          \/ GateApproved(p) \/ Recheck(p)
      BY <1>1, <1>7, <2>2, RunnerSources DEF Asking
    <3>2. pc[p] \in {"provider", "recheck", "apply_check"} \cup Asking
      BY <3>1 DEF ProviderCall, CopyFile, CopyDone, GateRequest, WaitCheckpoint, GateApproved, Recheck,
         Asking
    <3>3. u = s
      BY <1>1, <1>4, <1>7, <3>2, RunnerCarries DEF EnterSkip, Consume, VerifyRetry, Asking
    <3> QED BY <1>5, <1>7, <3>2, <3>3
  <2> QED BY <2>1, <2>2
<1>8. ASSUME NEW m \in promotions, m.step \in Early, pc'[p] \in Applying
      PROVE  u >= m.step /\ (u = m.step => loc'[p].sub = m.sub)
  <2>1. CASE ApplyBegin(p)
    <3>1. s > m.step /\ u = s
      BY <1>3, <1>5, <1>8, <2>1
    <3> QED BY <1>1, <1>8, <3>1 DEF Steps
  <2>2. CASE ~ApplyBegin(p)
    <3>1. /\ pc[p] \in Applying /\ u = s /\ loc'[p].sub = loc[p].sub
      BY <1>8, <2>2, ApplyPlaces
    <3> QED BY <1>5, <1>8, <3>1
  <2> QED BY <2>1, <2>2
<1>9. ASSUME NEW m \in promotions', m.step \in Early
      PROVE  /\ Upto(m.step) \subseteq record'.done
             /\ \A k \in Upto(m.step) : sandbox'[k] = NoTree \/ (pc'[p] \in Applying /\ u = k)
             /\ pc'[p] \in {"provider", "recheck", "apply_check"} \cup Asking => u > m.step
             /\ pc'[p] \in Applying => u >= m.step /\ (u = m.step => loc'[p].sub = m.sub)
  <2>1. CASE m \in promotions
    BY <1>6, <1>7, <1>8, <1>9, <2>1
  <2>2. CASE m \notin promotions
    <3>1. ApplyBegin(p) /\ m = Begun /\ m.step = s /\ m.sub = loc[p].sub
      BY <1>3, <1>9, <2>2
    <3>2. /\ Upto(s) \subseteq record.done
          /\ \A k \in Steps : k < s => sandbox[k] = NoTree
      BY <1>1, <1>3, <1>9, <3>1 DEF InOrder, Allowed
    <3>3. \A k \in Upto(s) : k \in Steps /\ (k < s \/ k = s)
      BY <1>1 DEF Upto, Steps
    <3>4. pc'[p] \in Applying /\ pc'[p] \notin {"provider", "recheck", "apply_check"} \cup Asking
      BY <1>3, <3>1 DEF Applying, Asking
    <3>5. Upto(m.step) \subseteq record'.done
      BY <1>3, <3>1, <3>2
    <3>6. ASSUME NEW k \in Upto(m.step)
          PROVE  sandbox'[k] = NoTree \/ (pc'[p] \in Applying /\ u = k)
      BY <1>3, <3>1, <3>2, <3>3, <3>4, <3>6
    <3>7. u >= m.step /\ loc'[p].sub = m.sub
      BY <1>1, <1>3, <3>1 DEF Steps
    <3> QED BY <3>4, <3>5, <3>6, <3>7
  <2> QED BY <2>1, <2>2
<1>10. ASSUME pc'[p] \in Applying
       PROVE  \E m \in promotions' : m.step = u
  <2>1. CASE ApplyBegin(p)
    <3>1. Begun \in promotions' /\ Begun.step = s /\ u = s
      BY <1>3, <2>1
    <3> QED BY <3>1
  <2>2. CASE ~ApplyBegin(p)
    BY <1>3, <1>10, <2>2, ApplyPlaces DEF StepInv, BehindRun
  <2> QED BY <2>1, <2>2
<1> HIDE DEF s, u
<1> QED BY <1>2, <1>4, <1>9, <1>10 DEF BehindRun, s, u

\* A second application of the implementer's is not begun twice, nor before the first.
LEMMA BeginsOnce ==
    ASSUME OnlyApprovalsOverlap, TurnInv, OpenRun, StepInv, NEW p \in Runners, ApplyBegin(p)
    PROVE  \A n \in promotions : ~(n.step > FirstUnnamed)
<1>1. pc[p] = "apply_check" /\ record.st = "waiting" /\ p \in Procs
  BY DEF ApplyBegin, OpenRun, Procs
<1>2. \A q \in Runners : pc[q] # "idle" => q = p
  BY <1>1, RunnerAlone DEF Procs
<1>3. record.st \notin Terminal
  BY <1>1 DEF Terminal
<1> QED BY <1>1, <1>2, <1>3 DEF StepInv, SecondCloses, Applying

\* What it finds is what the first one wrote, so it writes something else.
LEMMA DifferByRunner ==
    ASSUME OnlyApprovalsOverlap, TwoUnnamed, TurnInv, TurnInv', OpenRun, ApplyExact, StepInv,
           NEW p \in Runners, RunnerMove(p), OthersWait(p)
    PROVE  SubjectsDiffer'
<1> DEFINE Begun == [tkt |-> loc[p].tkt, step |-> loc[p].step, sub |-> loc[p].sub]
<1>1. CASE ~ApplyBegin(p)
  <2>1. promotions' = promotions
    BY <1>1, RunnerWrites DEF TurnInv
  <2> QED BY <2>1 DEF StepInv, SubjectsDiffer
<1>2. CASE ApplyBegin(p)
  <2>1. /\ pc[p] = "apply_check"
        /\ promotions' = promotions \cup {Begun}
        /\ loc[p].sub = Preview(head, target, sandbox[loc[p].step])
    BY <1>2, ApplyPlaces DEF ApplyBegin, SandboxUnchanged
  <2>2. \A n \in promotions : ~(n.step > FirstUnnamed)
    BY <1>2, BeginsOnce
  <2>3. ASSUME NEW m \in promotions, m.step = FirstUnnamed, NEW f \in DOMAIN m.sub.ops
        PROVE  target[f] = m.sub.ops[f].after
    <3>1. \A q \in Runners : pc[q] # "idle" => q = p
      BY <2>1, RunnerAlone DEF Procs
    <3> QED BY <2>1, <2>2, <2>3, <3>1 DEF StepInv, FirstStands
  <2>4. ASSUME NEW m \in promotions, m.step = FirstUnnamed, m.sub = loc[p].sub,
               NEW f \in DOMAIN m.sub.ops
        PROVE  FALSE
    <3>1. target[f] = m.sub.ops[f].after
      BY <2>3, <2>4
    <3>2. /\ f \in Changed(target, sandbox[loc[p].step])
          /\ loc[p].sub.ops[f].after = sandbox[loc[p].step][f]
      BY <2>1, <2>4 DEF Preview
    <3> QED BY <2>4, <3>1, <3>2 DEF Changed
  <2>5. ASSUME NEW m \in promotions', NEW n \in promotions',
               m.step = FirstUnnamed, n.step > FirstUnnamed, m.sub = n.sub
        PROVE  DOMAIN m.sub.ops = {}
    <3>1. n = Begun /\ n.step = loc[p].step /\ n.sub = loc[p].sub
      BY <2>1, <2>2, <2>5
    <3>2. m \in promotions
      <4>1. FirstUnnamed \in Nat
        BY EarlySteps
      <4> QED BY <2>1, <2>5, <3>1, <4>1
    <3> QED BY <2>4, <2>5, <3>1, <3>2
  <2> QED BY <2>5 DEF SubjectsDiffer
<1> QED BY <1>1, <1>2

\* What the implementer's first step wrote is overwritten by the second one only.
LEMMA FirstByRunner ==
    ASSUME OnlyApprovalsOverlap, TwoUnnamed, TurnInv, TurnInv', ApplyExact, ApplyExact', StepInv,
           NEW p \in Runners, RunnerMove(p), OthersWait(p)
    PROVE  FirstStands'
<1> DEFINE s == loc[p].step
           Begun == [tkt |-> loc[p].tkt, step |-> loc[p].step, sub |-> loc[p].sub]
<1>1. /\ p \in Procs /\ TypeOK /\ s \in Steps /\ FirstUnnamed \in Nat
      /\ pc \in [Procs -> PCs]
      /\ \A q \in Runners : q \in Procs
      /\ \A k \in Steps : k \in Nat /\ (k <= FirstUnnamed => k \in Early)
      /\ \A m \in promotions : m.step \in Steps
  BY RunAssumption, LocalFields, EarlySteps
     DEF TurnInv, TypeOK, ProcsOK, HistoryOK, Procs, Steps, Early, Upto
<1>2. \A q \in Runners : q # p => pc[q] = "idle"
  BY <1>1, MovesAlone
<1>3. ASSUME NEW m \in promotions, m.step = FirstUnnamed
      PROVE  /\ pc[p] \in {"recheck", "apply_check"} => s > FirstUnnamed
             /\ pc[p] \in Applying =>
                   /\ s >= FirstUnnamed /\ (s = FirstUnnamed => loc[p].sub = m.sub)
                   /\ \E n \in promotions : n.step = s
             /\ \/ \A f \in DOMAIN m.sub.ops : target[f] = m.sub.ops[f].after
                \/ pc[p] = "apply" /\ s = FirstUnnamed
                \/ \E n \in promotions : n.step > FirstUnnamed
  <2>1. m.step \in Early
    BY <1>1, <1>3
  <2>2. \/ \A f \in DOMAIN m.sub.ops : target[f] = m.sub.ops[f].after
        \/ pc[p] = "apply" /\ s = FirstUnnamed
        \/ \E n \in promotions : n.step > FirstUnnamed
    BY <1>2, <1>3 DEF StepInv, FirstStands
  <2>3. pc[p] \in {"recheck", "apply_check"} => s > FirstUnnamed
    BY <1>3, <2>1 DEF StepInv, BehindRun
  <2>4. pc[p] \in Applying =>
           /\ s >= FirstUnnamed /\ (s = FirstUnnamed => loc[p].sub = m.sub)
           /\ \E n \in promotions : n.step = s
    BY <1>3, <2>1 DEF StepInv, BehindRun
  <2> QED BY <2>2, <2>3, <2>4
<1>4. ASSUME NEW m \in promotions', m.step = FirstUnnamed
      PROVE  \/ \A f \in DOMAIN m.sub.ops : target'[f] = m.sub.ops[f].after
             \/ pc'[p] = "apply" /\ loc'[p].step = FirstUnnamed
             \/ \E n \in promotions' : n.step > FirstUnnamed
  <2>1. CASE ApplyBegin(p)
    <3>1. /\ pc[p] = "apply_check" /\ pc'[p] = "apply" /\ loc'[p].step = s
          /\ promotions' = promotions \cup {Begun} /\ Begun.step = s
      BY <2>1, ApplyPlaces
    <3>2. CASE m \in promotions
      <4>1. s > FirstUnnamed
        BY <1>3, <1>4, <3>1, <3>2
      <4> QED BY <3>1, <4>1
    <3>3. CASE m \notin promotions
      <4>1. s = FirstUnnamed
        BY <1>4, <3>1, <3>3
      <4> QED BY <3>1, <4>1
    <3> QED BY <3>2, <3>3
  <2>2. CASE ApplyFile(p)
    <3>1. /\ promotions' = promotions /\ loc'[p].step = s /\ pc[p] \in Applying /\ pc'[p] = "apply"
      BY <1>1, <2>2, ApplyPlaces DEF ApplyFile, RemoveSandbox, Applying
    <3>2. s >= FirstUnnamed /\ \E n \in promotions : n.step = s
      BY <1>3, <1>4, <3>1
    <3> QED BY <1>1, <3>1, <3>2
  <2>3. CASE ~ApplyBegin(p) /\ ~ApplyFile(p)
    <3>1. promotions' = promotions /\ target' = target
      BY <1>1, <2>3, RunnerWrites
    <3>2. CASE pc[p] = "apply" /\ s = FirstUnnamed
      <4>1. ApplyDone(p) /\ pc'[p] = "remove" /\ loc'[p].sub = loc[p].sub
        BY <1>1, <2>3, <3>2, ApplyPlaces DEF Applying, RemoveSandbox, ApplyDone, Goto
      <4>2. loc[p].sub = m.sub
        BY <1>3, <1>4, <3>1, <3>2 DEF Applying
      <4>3. \A f \in DOMAIN loc'[p].sub.ops : target'[f] = loc'[p].sub.ops[f].after
        BY <4>1 DEF ApplyExact
      <4> QED BY <4>1, <4>2, <4>3
    <3>3. CASE ~(pc[p] = "apply" /\ s = FirstUnnamed)
      BY <1>3, <1>4, <3>1, <3>3
    <3> QED BY <3>2, <3>3
  <2> QED BY <2>1, <2>2, <2>3
<1> QED BY <1>4 DEF FirstStands

\* After the second one the run is closed by the same call.
LEMMA SecondByRunner ==
    ASSUME OnlyApprovalsOverlap, TwoUnnamed, TurnInv, TurnInv', OpenRun, ApplyExact, StepInv,
           NEW p \in Runners, RunnerMove(p), OthersWait(p)
    PROVE  SecondCloses'
<1> DEFINE s == loc[p].step
           Begun == [tkt |-> loc[p].tkt, step |-> loc[p].step, sub |-> loc[p].sub]
<1>1. /\ p \in Procs /\ TypeOK /\ s \in Steps
      /\ pc \in [Procs -> PCs] /\ loc \in [Procs -> Locals] /\ ctx \in [Procs -> Records]
      /\ \A q \in Runners : q \in Procs
  BY LocalFields DEF TurnInv, TypeOK, ProcsOK, Procs
<1>2. \A q \in Runners : q # p => pc[q] = "idle"
  BY <1>1, MovesAlone
<1>3. record.st \notin Terminal
  <2>1. pc[p] = "idle" => Begins(p)
    BY <1>1, StartsByLoading
  <2> QED BY <2>1 DEF OpenRun, Begins, Terminal
<1>4. ASSUME s > FirstUnnamed
      PROVE  ~(s < MainSteps) /\ s = MainSteps + MaxRepair
  BY <1>1, <1>4, EarlySteps, RunAssumption DEF Early, Upto, Steps
<1>5. ASSUME s > FirstUnnamed, pc[p] \in Applying
      PROVE  loc'[p].step = s /\ pc'[p] \in Applying \cup {"consume"}
  BY <1>1, <1>5, ApplyPlaces DEF RemoveSandbox, Goto
<1>6. ASSUME s > FirstUnnamed, pc[p] = "consume"
      PROVE  loc'[p].step = s /\ pc'[p] = "verify"
  <2>1. Consume(p)
    BY <1>6 DEF RunnerMove, RunnerStep, ProviderRun, ResumeStart, MayStart, ClearConsumed, GateStep,
       ApplyStep, CloseStep, EnterSkip, EnterPersisted, EnterProvider, ProviderCall, ProviderFail,
       CopyFile, CopyDone, GateStale, GateRequest, WaitCheckpoint, WaitWrite, GateExpired,
       GateApproved, ApplyRefused, Recheck, ApplyBegin, ApplyFile, ApplyFail, ApplyDone,
       RemoveSandbox, VerifyPass, VerifyRetry, VerifyExhausted, Export, FinalCheckpoint, FinalWrite
  <2>2. /\ loc' = [loc EXCEPT ![p] = [NoLocals EXCEPT !.step = loc[p].step]]
        /\ pc' = [pc EXCEPT ![p] = "verify"]
    BY <1>4, <1>6, <2>1 DEF Consume, StepDone, Goto
  <2> QED BY <1>1, <2>2 DEF NoLocals
<1>7. ASSUME s > FirstUnnamed,
             \/ pc[p] = "verify"
             \/ pc[p] \in {"export", "f_check", "f_write"} /\ loc[p].end \in Terminal
      PROVE  \/ record'.st \in Terminal
             \/ /\ loc'[p].step = s
                /\ pc'[p] \in {"export", "f_check", "f_write"} /\ loc'[p].end \in Terminal
  <2>1. VerifyPass(p) \/ VerifyExhausted(p) \/ Export(p) \/ FinalCheckpoint(p) \/ FinalWrite(p)
    <3>1. ~AttemptLeft(p)
      BY <1>1, <1>4, <1>7 DEF AttemptLeft, Steps
    <3>2. CloseStep(p)
      BY <1>7 DEF RunnerMove, RunnerStep, ProviderRun, ResumeStart, MayStart, ClearConsumed, GateStep,
         ApplyStep, EnterSkip, EnterPersisted, EnterProvider, ProviderCall, ProviderFail,
         CopyFile, CopyDone, GateStale, GateRequest, WaitCheckpoint, WaitWrite, GateExpired,
         GateApproved, ApplyRefused, Recheck, ApplyBegin, ApplyFile, ApplyFail, ApplyDone,
         RemoveSandbox, Consume
    <3> QED BY <3>1, <3>2 DEF CloseStep, VerifyRetry
  <2>2. CASE VerifyPass(p) \/ VerifyExhausted(p)
    <3>1. PICK e \in Terminal : loc' = [loc EXCEPT ![p].end = e] /\ pc' = [pc EXCEPT ![p] = "export"]
      BY <2>2 DEF VerifyPass, VerifyExhausted, Close, Goto, Terminal
    <3> QED BY <1>1, <3>1 DEF Locals
  <2>3. CASE Export(p) \/ FinalCheckpoint(p)
    BY <1>1, <1>7, <2>3 DEF Export, FinalCheckpoint, Goto
  <2>4. CASE FinalWrite(p)
    BY <1>1, <1>7, <2>4 DEF FinalWrite, Records
  <2> QED BY <2>1, <2>2, <2>3, <2>4
<1>8. ASSUME NEW n \in promotions', n.step > FirstUnnamed
      PROVE  \/ record'.st \in Terminal
             \/ /\ loc'[p].step > FirstUnnamed
                /\ \/ pc'[p] \in Applying \cup {"consume", "verify"}
                   \/ pc'[p] \in {"export", "f_check", "f_write"} /\ loc'[p].end \in Terminal
  <2>1. CASE ApplyBegin(p)
    <3>1. /\ pc'[p] = "apply" /\ loc'[p].step = s /\ Begun.step = s
          /\ promotions' = promotions \cup {Begun}
      BY <2>1, ApplyPlaces
    <3>2. n = Begun
      BY <1>8, <2>1, <3>1, BeginsOnce
    <3> QED BY <1>8, <3>1, <3>2 DEF Applying
  <2>2. CASE ~ApplyBegin(p)
    <3>1. n \in promotions
      BY <1>1, <1>8, <2>2, RunnerWrites
    <3>2. /\ s > FirstUnnamed
          /\ \/ pc[p] \in Applying \cup {"consume", "verify"}
             \/ pc[p] \in {"export", "f_check", "f_write"} /\ loc[p].end \in Terminal
      BY <1>2, <1>3, <1>8, <3>1 DEF StepInv, SecondCloses, Applying
    <3> QED BY <1>5, <1>6, <1>7, <3>2
  <2> QED BY <2>1, <2>2
<1> QED BY <1>8 DEF SecondCloses

\* A step that leaves the continuations and their files alone.
LEMMA OtherStep ==
    ASSUME StepInv, OrderInv', record'.done = record.done,
           record.st \in Terminal => record'.st = record.st,
           UNCHANGED <<sandbox, target, promotions>>,
           \A p \in Runners : pc'[p] = pc[p] /\ loc'[p] = loc[p]
    PROVE  StepInv'
<1>1. PatchFiles'
  BY DEF StepInv, PatchFiles
<1>2. BehindRun'
  BY DEF StepInv, BehindRun
<1>3. FirstStands'
  BY DEF StepInv, FirstStands
<1>4. SecondCloses'
  BY DEF StepInv, SecondCloses
<1>5. SubjectsDiffer'
  BY DEF StepInv, SubjectsDiffer
<1> QED BY <1>1, <1>2, <1>3, <1>4, <1>5 DEF StepInv

\* An approver's step, or its death, keeps the artifacts of the record.
LEMMA KeptByApprover ==
    ASSUME TurnInv, ArtifactsKept, NEW p \in Approvers, ApproverMove(p) \/ Crash(p), OthersWait(p)
    PROVE  /\ record'.done = record.done /\ ArtifactsKept'
           /\ UNCHANGED <<sandbox, target, promotions, bound>>
<1>1. /\ p \in Procs /\ TypeOK /\ pc \in [Procs -> PCs] /\ ctx \in [Procs -> Records]
      /\ record \in Records
      /\ \A q \in Approvers : q \in Procs
  BY DEF TurnInv, TypeOK, ProcsOK, FilesOK, Procs
<1>2. UNCHANGED <<sandbox, target, promotions, bound>>
  BY DEF ApproverMove, ApproverStep, ApproveStart, ApproveLock, ApproveAlready, ApproveGrant,
     ApproveLoad, ApproveCheckpoint, ApproveWrite, Crash, repo, tickets, history
<1>3. record'.done = record.done
  <2>1. CASE ApproveWrite(p)
    BY <1>1, <2>1 DEF ApproveWrite, ArtifactsKept, Records
  <2>2. CASE ~ApproveWrite(p)
    <3>1. record' = record
      BY <2>2 DEF ApproverMove, ApproverStep, ApproveStart, ApproveLock, ApproveAlready, ApproveGrant,
         ApproveLoad, ApproveCheckpoint, Crash, files
    <3> QED BY <3>1
  <2> QED BY <2>1, <2>2
<1>4. ASSUME pc'[p] \in {"a_check", "a_write"}
      PROVE  ctx'[p].done = record.done
  <2>1. ApproveLoad(p) \/ ApproveCheckpoint(p)
    BY <1>1, <1>4 DEF ApproverMove, ApproverStep, ApproveStart, ApproveLock, ApproveAlready,
       ApproveGrant, ApproveWrite, Crash, Return, Goto
  <2>2. CASE ApproveLoad(p)
    BY <1>1, <2>2 DEF ApproveLoad, ReplaceTicket, Records
  <2>3. CASE ApproveCheckpoint(p)
    BY <1>1, <2>3 DEF ApproveCheckpoint, ArtifactsKept
  <2> QED BY <2>1, <2>2, <2>3
<1> QED BY <1>1, <1>2, <1>3, <1>4 DEF ArtifactsKept, OthersWait

\* No step but the death of a continuation takes the run through its steps in another order.
LEMMA OrderStep ==
    ASSUME OnlyApprovalsOverlap, NoDeathOf(Runners), RemovalsSucceed, TwoUnnamed,
           TurnInv, TurnInv', OrderInv, [Next]_vars
    PROVE  OrderInv'
<1>1. /\ TypeOK
      /\ \A q \in Runners : q \in Procs /\ q \notin Approvers
      /\ \A q \in Approvers : q \in Procs
  BY RunAssumption DEF TurnInv, TypeOK, Procs
<1>2. ASSUME NEW p \in Runners, Crash(p)
      PROVE  FALSE
  BY <1>1, <1>2 DEF Crash, Fault, NoDeathOf, TypeOK, FaultsOK, FaultKinds
<1>3. ASSUME NEW p \in Runners, RunnerMove(p), OthersWait(p)
      PROVE  OrderInv'
  <2>1. \A q \in Approvers : pc'[q] = "idle"
    BY <1>1, <1>3, MovesAlone DEF OthersWait
  <2>2. ArtifactsKept'
    BY <2>1 DEF ArtifactsKept
  <2> QED BY <1>3, <2>2, InOrderByRunner, AskedByRunner, LeftByRunner DEF OrderInv
<1>4. ASSUME ArtifactsKept', record'.done = record.done, UNCHANGED <<sandbox, bound>>,
             \A p \in Runners : pc'[p] = pc[p] /\ ctx'[p] = ctx[p] /\ loc'[p] = loc[p]
      PROVE  OrderInv'
  <2>1. InOrder'
    BY <1>4 DEF OrderInv, InOrder
  <2>2. AskedInOrder'
    BY <1>4 DEF OrderInv, AskedInOrder
  <2>3. LeftOnRecord'
    BY <1>4 DEF OrderInv, LeftOnRecord
  <2> QED BY <1>4, <2>1, <2>2, <2>3 DEF OrderInv
<1>5. ASSUME NEW p \in Approvers, ApproverMove(p) \/ Crash(p), OthersWait(p)
      PROVE  OrderInv'
  <2>1. \A q \in Runners : pc'[q] = pc[q] /\ ctx'[q] = ctx[q] /\ loc'[q] = loc[q]
    BY <1>1, <1>5 DEF OthersWait
  <2>2. /\ record'.done = record.done /\ ArtifactsKept'
        /\ UNCHANGED <<sandbox, target, promotions, bound>>
    BY <1>5, KeptByApprover DEF OrderInv
  <2> QED BY <1>4, <2>1, <2>2
<1>6. ASSUME Outside, UNCHANGED <<pc, ctx, loc>>
      PROVE  OrderInv'
  <2>1. record' = record /\ UNCHANGED <<sandbox, bound>>
    BY <1>6, OutsideFiles DEF files, tickets
  <2>2. ArtifactsKept'
    BY <1>6, <2>1 DEF OrderInv, ArtifactsKept
  <2> QED BY <1>4, <1>6, <2>1, <2>2
<1> QED BY <1>1, <1>2, <1>3, <1>5, <1>6, WhoMoves

\* And nobody else undoes what was applied.
LEMMA StepsStep ==
    ASSUME OnlyApprovalsOverlap, NoDeathOf(Runners), RemovalsSucceed, NoDrift, TwoUnnamed,
           TurnInv, TurnInv', OpenRun, ClosedInv, ApplyExact, ApplyExact', StepInv, [Next]_vars
    PROVE  StepInv'
<1>1. /\ TypeOK
      /\ \A q \in Runners : q \in Procs /\ q \notin Approvers
      /\ \A q \in Approvers : q \in Procs
  BY RunAssumption DEF TurnInv, TypeOK, Procs
<1>2. record.st \in Terminal => record'.st = record.st
  BY ClosedUnwritten
<1>3. OrderInv'
  BY OrderStep DEF StepInv
<1>4. ASSUME NEW p \in Runners, Crash(p)
      PROVE  FALSE
  BY <1>1, <1>4 DEF Crash, Fault, NoDeathOf, TypeOK, FaultsOK, FaultKinds
<1>5. ASSUME NEW p \in Runners, RunnerMove(p), OthersWait(p)
      PROVE  StepInv'
  BY <1>3, <1>5, FilesByRunner, BehindByRunner, FirstByRunner, SecondByRunner, DifferByRunner
  DEF StepInv
<1>6. ASSUME NEW p \in Approvers, ApproverMove(p) \/ Crash(p), OthersWait(p)
      PROVE  StepInv'
  <2>1. \A q \in Runners : pc'[q] = pc[q] /\ loc'[q] = loc[q]
    BY <1>1, <1>6 DEF OthersWait
  <2>2. record'.done = record.done /\ UNCHANGED <<sandbox, target, promotions, bound>>
    BY <1>6, KeptByApprover DEF StepInv, OrderInv
  <2> QED BY <1>2, <1>3, <2>1, <2>2, OtherStep
<1>7. ASSUME Outside, UNCHANGED <<pc, ctx, loc>>
      PROVE  StepInv'
  <2>1. record' = record /\ UNCHANGED <<sandbox, target, promotions>>
    BY <1>1, <1>7 DEF Outside, Edit, Commit, Expire, Fault, NoDrift, TypeOK, FaultsOK, FaultKinds,
       vars, repo, tickets, files, history
  <2> QED BY <1>2, <1>3, <1>7, <2>1, OtherStep
<1> QED BY <1>1, <1>4, <1>5, <1>6, <1>7, WhoMoves

LEMMA StepsStart == Init => StepInv
<1> SUFFICES ASSUME Init PROVE StepInv
  OBVIOUS
<1>1. /\ \A q \in Procs : pc[q] = "idle" /\ loc[q] = NoLocals /\ ctx[q] = NewRecord
      /\ \A q \in Runners : q \in Procs
      /\ \A q \in Approvers : q \in Procs
      /\ \A t \in Tickets : bound[t].sub = NoSub
      /\ \A s \in Steps : sandbox[s] = NoTree
      /\ promotions = {}
  BY DEF Init, Procs, NoBinding
<1>2. InOrder
  BY <1>1 DEF InOrder, NoLocals, Steps, Asking, Allowed, Applying
<1>3. ArtifactsKept /\ AskedInOrder /\ PatchFiles
  BY <1>1 DEF ArtifactsKept, AskedInOrder, PatchFiles
<1>4. LeftOnRecord
  BY <1>1 DEF LeftOnRecord, Early, Upto
<1>5. BehindRun /\ FirstStands /\ SecondCloses /\ SubjectsDiffer
  BY <1>1 DEF BehindRun, FirstStands, SecondCloses, SubjectsDiffer, Applying
<1> QED BY <1>2, <1>3, <1>4, <1>5 DEF StepInv, OrderInv

\* A continuation under way works on an open run, and requests are known while it does.
LEMMA OpenInvariant ==
    ASSUME OnlyApprovalsOverlap, NoDeathOf(Runners) PROVE Spec => [](OpenRun /\ ClosedInv)
<1>1. OneContinuation
  BY RunAssumption DEF OneContinuation, OnlyApprovalsOverlap
<1>2. Init => EvidenceInv
  BY DEF Init, EvidenceInv, OpenRun, Reported, EvidenceAgrees, NewRecord, NoLocals, Terminal, Procs
<1>3. TurnInv /\ TurnInv' /\ EvidenceInv /\ [Next]_vars => EvidenceInv'
  BY <1>1, EvidenceStep
<1>4. Init => ClosedInv
  BY DEF Init, ClosedInv, RequestUnderway, RequestKnown, ClosingDecided, ClosedDecided,
     GrantsOpenRun, NewTickets, NewRecord, NoLocals, Terminal, Procs, RunnerPCs
<1>5. EvidenceInv => OpenRun
  BY DEF EvidenceInv
<1>6. TurnInv /\ FlightInv /\ OpenRun /\ ClosedInv /\ [Next]_vars => ClosedInv'
  BY ClosedStep
<1> QED
  BY <1>2, <1>3, <1>4, <1>5, <1>6, TurnInvariant, FlightInvariant, PTL
  DEF Spec

LEMMA OrderInvariant ==
    ASSUME OnlyApprovalsOverlap, NoDeathOf(Runners), RemovalsSucceed, TwoUnnamed
    PROVE  Spec => []OrderInv
<1>1. Init => OrderInv
  BY StepsStart DEF StepInv
<1>2. TurnInv /\ TurnInv' /\ OrderInv /\ [Next]_vars => OrderInv'
  BY OrderStep
<1> QED BY <1>1, <1>2, TurnInvariant, PTL DEF Spec

\* With two steps of the implementer at most, one ticket promotes the (non-empty) patch of
\* one step only, although every resume forgets which tickets were consumed: when only
\* approvals overlap, no continuation dies, an applied sandbox is deleted and nobody else edits
\* the repository, whatever providers fail, tickets expire and approvals die.
THEOREM TicketsAreUsedOnce ==
    ASSUME OnlyApprovalsOverlap, NoDeathOf(Runners), RemovalsSucceed, NoDrift, TwoUnnamed
    PROVE  Spec => []OneStepPerTicket
<1>1. OneContinuation
  BY RunAssumption DEF OneContinuation, OnlyApprovalsOverlap
<1>2. Init => ApplyExact
  BY DEF Init, ApplyExact, Procs
<1>3. TurnInv /\ TurnInv' /\ ApplyExact /\ [Next]_vars => ApplyExact'
  BY <1>1, ApplyStepKeeps
<1>4. /\ TurnInv /\ TurnInv' /\ OpenRun /\ ClosedInv /\ ApplyExact /\ ApplyExact'
      /\ StepInv /\ [Next]_vars
      => StepInv'
  BY StepsStep
<1>5. GateInv /\ StepInv => OneStepPerTicket
  <2> SUFFICES ASSUME GateInv, StepInv, NEW m \in promotions, NEW n \in promotions,
                      m.tkt = n.tkt, DOMAIN m.sub.ops # {}
               PROVE  m.step = n.step
    BY DEF OneStepPerTicket
  <2>1. /\ m.step \in Steps /\ n.step \in Steps
        /\ Requester(m.step) = Requester(n.step) /\ m.sub = n.sub
    <3>1. m.step \in Steps /\ n.step \in Steps
      BY DEF GateInv, TypeOK, HistoryOK
    <3>2. /\ bound[m.tkt] = [req |-> Requester(m.step), sub |-> m.sub]
          /\ bound[n.tkt] = [req |-> Requester(n.step), sub |-> n.sub]
      BY DEF GateInv, PromotionsApproved
    <3>3. [req |-> Requester(m.step), sub |-> m.sub] = [req |-> Requester(n.step), sub |-> n.sub]
      BY <3>2
    <3>4. Requester(m.step) = Requester(n.step) /\ m.sub = n.sub
      BY <3>3
    <3> QED BY <3>1, <3>4
  <2>2. CASE m.step >= FirstUnnamed /\ n.step >= FirstUnnamed
    <3>1. ~(m.step = FirstUnnamed /\ n.step > FirstUnnamed)
      BY <2>1 DEF StepInv, SubjectsDiffer
    <3>2. ~(n.step = FirstUnnamed /\ m.step > FirstUnnamed)
      BY <2>1 DEF StepInv, SubjectsDiffer
    <3>3. \A s \in Steps : s > FirstUnnamed => s = FirstUnnamed + 1
      BY EarlySteps DEF Early, Upto, Steps
    <3> QED BY <2>1, <2>2, <3>1, <3>2, <3>3, EarlySteps DEF Steps
  <2>3. CASE ~(m.step >= FirstUnnamed /\ n.step >= FirstUnnamed)
    BY <2>1, <2>3, RunAssumption DEF Requester, Implementer, FirstUnnamed, Steps
  <2> QED BY <2>2, <2>3
<1> QED
  BY <1>2, <1>3, <1>4, <1>5, StepsStart, OpenInvariant, GateInvariant, TurnInvariant, PTL
  DEF Spec

-----------------------------------------------------------------------------
(* A sandbox that is left behind is that of a suspended step.                *)

\* No provider times out or exits with an error.
NoProviderFails == MaxFaults["fail"] = 0

Late == Steps \ Early
TicketsFor(r) == {t \in Tickets : bound[t].sub # NoSub /\ bound[t].req = r}

\* A continuation carries what is on record, and a step it is about to ask for.
Carried ==
    \A p \in Runners :
        /\ pc[p] \notin Asking => ctx[p].done \subseteq record.done
        /\ pc[p] \in Asking =>
              /\ ctx[p].done \subseteq record.done \cup {loc[p].step}
              /\ loc[p].step \in ctx[p].done
              /\ sandbox[loc[p].step] # NoTree
              /\ loc[p].sub # NoSub
        /\ pc[p] \in Allowed => loc[p].tkt \in TicketsFor(Requester(loc[p].step))

\* A step on record has been asked for.
Ticketed ==
    /\ \A k \in record.done : TicketsFor(Requester(k)) # {}
    /\ \A p \in Runners :
          pc[p] \in {"w_check", "w_write"} => TicketsFor(Requester(loc[p].step)) # {}
    /\ \A t \in Tickets : bound[t].sub # NoSub => status[t] # "none"

\* The record lists every ticket asked for, or a runner is about to list it.
Listed ==
    /\ \A t \in Tickets : bound[t].sub # NoSub =>
          record.tix[t] # "none" \/ \E p \in Runners : pc[p] \in {"w_check", "w_write"}
    /\ \A t \in Tickets, p \in Procs :
          bound[t].sub # NoSub /\ pc[p] \in {"a_check", "a_write"} \cup RunnerPCs
              => ctx[p].tix[t] # "none"

\* LeftOnRecord, of the implementer's second step.
LateLeft ==
    \A l \in Late : sandbox[l] # NoTree =>
        l \in record.done \/ \E p \in Runners : loc[p].step = l /\ pc[p] \in Asking

\* The implementer has one ticket until its second step asks.
OneFirst ==
    \A t, u \in TicketsFor(Implementer) : t # u =>
        \E l \in Late :
            l \in record.done \/ \E p \in Runners : loc[p].step = l /\ pc[p] \in {"w_check", "w_write"}

\* It is not consumed before the implementer's first step is applied.
NotSpent ==
    \A p \in Runners :
        /\ loc[p].step \in Early /\ pc[p] \in {"enter", "provider", "copy", "gate"} \cup Allowed =>
              consumed \cap TicketsFor(Implementer) = {}
        /\ loc[p].step < FirstUnnamed /\ pc[p] = "verify" =>
              consumed \cap TicketsFor(Implementer) = {}
        /\ loc[p].step \in Early /\ pc[p] \in Allowed =>
              loc[p].seen \cap TicketsFor(Implementer) = {}

\* And it is consumed when the second one comes to the gate.
Spent == TicketsFor(Implementer) \subseteq consumed

\* The call that applies the first step closes the run, or goes on to the gate of the second.
GoesOn(p, l) ==
    \/ loc[p].step = FirstUnnamed /\ pc[p] = "consume"
    \/ loc[p].step = FirstUnnamed /\ pc[p] = "verify" /\ Spent
    \/ loc[p].step = l /\ pc[p] \in {"enter", "provider", "copy", "gate"} /\ Spent
    \/ loc[p].step = l /\ pc[p] \in {"w_check", "w_write"}
    \/ pc[p] \in {"export", "f_check", "f_write"} /\ loc[p].end \in Terminal

OnToSecond ==
    \A l \in Late :
        record.st = "waiting" /\ l \notin record.done
        /\ FirstUnnamed \in record.done /\ sandbox[FirstUnnamed] = NoTree
            => \E p \in Runners : GoesOn(p, l)

LeftInv == /\ Carried /\ Ticketed /\ Listed /\ LateLeft /\ OneFirst /\ NotSpent /\ OnToSecond

\* There is one late step, and no early step but the first unnamed one is the implementer's.
LEMMA LateSteps ==
    ASSUME TwoUnnamed
    PROVE  /\ \A l \in Late : /\ l = FirstUnnamed + 1 /\ Requester(l) = Implementer
                              /\ FirstUnnamed \in Steps /\ FirstUnnamed < l
           /\ \A k \in Early : Requester(k) = Implementer => k = FirstUnnamed
           /\ Requester(FirstUnnamed) = Implementer
           /\ Late \subseteq Steps /\ FirstUnnamed \notin Late /\ FirstUnnamed >= MainSteps
BY RunAssumption
   DEF TwoUnnamed, FirstUnnamed, Steps, Upto, Early, Late, Requester, Implementer

\* With no failure a call that is alone comes to its end.
LEMMA ProviderAnswers == ASSUME NoProviderFails, TypeOK, NEW p PROVE ~ProviderFail(p)
BY DEF NoProviderFails, ProviderFail, Fault, TypeOK, FaultsOK, FaultKinds

\* A step that finds a ticket to use, of its own or a stale one, is on record.
LEMMA GateOnRecord ==
    ASSUME OnlyApprovalsOverlap, TwoUnnamed, TurnInv, OpenRun, OrderInv, LeftInv,
           NEW p \in Runners, pc[p] = "gate", NEW t \in Usable(p)
    PROVE  loc[p].step \in record.done
<1> DEFINE s == loc[p].step
<1>1. p \in Procs /\ TypeOK /\ s \in Steps
  BY LocalFields DEF TurnInv, TypeOK, ProcsOK, Procs
<1>2. CASE s \in Early
  <2>1. Upto(s) \subseteq record.done
    BY <1>2, UsableOnRecord
  <2> QED BY <1>1, <2>1 DEF Upto, Steps
<1>3. CASE s \notin Early
  <2> SUFFICES ASSUME s \notin record.done PROVE FALSE
    OBVIOUS
  <2>1. s \in Late /\ FirstUnnamed \in Steps /\ FirstUnnamed < s /\ Requester(s) = Implementer
    BY <1>1, <1>3, LateSteps DEF Late
  <2>2. FirstUnnamed \in ctx[p].done /\ sandbox[FirstUnnamed] = NoTree
    BY <2>1 DEF OrderInv, InOrder
  <2>3. FirstUnnamed \in record.done
    BY <2>1, <2>2 DEF LeftInv, Carried, Asking
  <2>4. record.st = "waiting" /\ \A q \in Runners : pc[q] # "idle" => q = p
    BY RunnerAlone DEF OpenRun, Procs
  <2>5. Spent
    BY <2>1, <2>2, <2>3, <2>4 DEF LeftInv, OnToSecond, GoesOn
  <2> QED BY <2>1, <2>5 DEF Spent, TicketsFor, Usable
<1> QED BY <1>2, <1>3

\* What a runner does next, by the place it is at.
LEMMA RunnerActs ==
    ASSUME TypeOK, NEW p \in Runners, RunnerMove(p)
    PROVE  /\ pc[p] = "enter" => EnterSkip(p) \/ EnterPersisted(p) \/ EnterProvider(p)
           /\ pc[p] = "provider" => ProviderCall(p) \/ ProviderFail(p)
           /\ pc[p] = "copy" => CopyFile(p) \/ CopyDone(p)
           /\ pc[p] = "gate" => GateStale(p) \/ GateRequest(p) \/ GateExpired(p) \/ GateApproved(p)
           /\ pc[p] = "w_check" => WaitCheckpoint(p)
           /\ pc[p] = "w_write" => WaitWrite(p)
           /\ pc[p] = "consume" => Consume(p)
           /\ pc[p] = "verify" => VerifyPass(p) \/ VerifyRetry(p) \/ VerifyExhausted(p)
           /\ pc[p] = "export" => Export(p)
           /\ pc[p] = "f_check" => FinalCheckpoint(p)
           /\ pc[p] = "f_write" => FinalWrite(p)
BY DEF RunnerMove, RunnerStep, ProviderRun, ResumeStart, MayStart, ClearConsumed, GateStep,
   ApplyStep, CloseStep, EnterSkip, EnterPersisted, EnterProvider, ProviderCall, ProviderFail,
   CopyFile, CopyDone, GateStale, GateRequest, WaitCheckpoint, WaitWrite, GateExpired, GateApproved,
   ApplyRefused, Recheck, ApplyBegin, ApplyFile, ApplyFail, ApplyDone, RemoveSandbox, Consume,
   VerifyPass, VerifyRetry, VerifyExhausted, Export, FinalCheckpoint, FinalWrite

\* A call to a provider that answers, field by field.
LEMMA ProviderAnswer ==
    ASSUME TypeOK, NEW p \in Runners, ProviderCall(p)
    PROVE  /\ pc[p] = "provider" /\ pc'[p] = "copy"
           /\ loc'[p].step = loc[p].step /\ loc'[p].sub \in Subjects(Heads)
           /\ ctx'[p].done = ctx[p].done \cup {loc[p].step} /\ ctx'[p].tix = ctx[p].tix
           /\ sandbox'[loc[p].step] # NoTree
           /\ UNCHANGED <<bound, status, record, consumed>>
<1>1. /\ p \in Procs /\ pc \in [Procs -> PCs] /\ ctx \in [Procs -> Records]
      /\ loc \in [Procs -> Locals] /\ loc[p].step \in Steps
      /\ sandbox \in [Steps -> Trees \cup {NoTree}] /\ head \in Heads /\ target \in Trees
  BY LocalFields DEF TypeOK, ProcsOK, RepoOK, Procs
<1>2. \E tree \in ProviderTrees :
         loc' = [loc EXCEPT ![p].out = tree,
                            ![p].sub = Preview(head, target, tree),
                            ![p].todo = {f \in Files : tree[f] # Absent}]
  BY Zenon DEF ProviderCall
<1>3. PICK tree \in ProviderTrees :
         loc' = [loc EXCEPT ![p].out = tree,
                            ![p].sub = Preview(head, target, tree),
                            ![p].todo = {f \in Files : tree[f] # Absent}]
  BY <1>2, Zenon
<1>4. tree \in Trees
  BY RunAssumption DEF Trees, Content
<1>5. Preview(head, target, tree) \in Subjects(Heads)
  BY <1>1, <1>4, PreviewType
<1>6. loc'[p].step = loc[p].step /\ loc'[p].sub \in Subjects(Heads)
  BY <1>1, <1>3, <1>5 DEF Locals
<1>7. ctx' = [ctx EXCEPT ![p].done = Summarised(p)] /\ pc[p] = "provider"
  BY DEF ProviderCall
<1>8. ctx'[p].done = ctx[p].done \cup {loc[p].step} /\ ctx'[p].tix = ctx[p].tix
  BY <1>1, <1>7 DEF Records, Summarised
<1>9. sandbox'[loc[p].step] # NoTree
  <2>1. EmptyTree # NoTree
    BY PatchAssumption DEF EmptyTree, Content
  <2>2. sandbox' = [sandbox EXCEPT ![loc[p].step] = IF @ = NoTree THEN EmptyTree ELSE @]
    BY DEF ProviderCall
  <2> QED BY <1>1, <2>1, <2>2
<1>10. pc'[p] = "copy" /\ UNCHANGED <<bound, status, record, consumed>>
  BY <1>1 DEF ProviderCall, Goto, tickets, files
<1> QED BY <1>6, <1>7, <1>8, <1>9, <1>10

\* Tickets are only added, one that was not there at a time.
LEMMA TicketsGrow ==
    ASSUME TypeOK, Ticketed, NEW p \in Runners, RunnerMove(p)
    PROVE  /\ \A t \in Tickets : bound[t].sub # NoSub => bound'[t] = bound[t]
           /\ \A t \in Tickets : status[t] # "none" => status'[t] # "none"
           /\ ~GateRequest(p) => bound' = bound /\ status' = status
           /\ GateRequest(p) => \E n \in Tickets :
                 /\ status[n] = "none" /\ status'[n] = "pending"
                 /\ bound'[n] = [req |-> Requester(loc[p].step), sub |-> loc[p].sub]
                 /\ ctx'[p].tix = [ctx[p].tix EXCEPT ![n] = "pending"]
                 /\ \A t \in Tickets : t # n => bound'[t] = bound[t] /\ status'[t] = status[t]
<1>1. /\ p \in Procs /\ ctx \in [Procs -> Records] /\ bound \in [Tickets -> Bindings]
      /\ status \in [Tickets -> TicketStatus]
  BY DEF TypeOK, ProcsOK, TicketsOK, Procs
<1>2. CASE ~GateRequest(p)
  <2>1. bound' = bound
    BY <1>2, RunnerWrites
  <2>2. status' = status
    BY <1>2, RunnerTickets DEF Begins
  <2> QED BY <1>2, <2>1, <2>2
<1>3. CASE GateRequest(p)
  <2>1. PICK n \in Tickets :
           /\ status[n] = "none"
           /\ status' = [status EXCEPT ![n] = "pending"]
           /\ bound' = [bound EXCEPT ![n] = [req |-> Requester(loc[p].step), sub |-> loc[p].sub]]
           /\ ctx' = [ctx EXCEPT ![p].tix[n] = "pending"]
    BY <1>3 DEF GateRequest, NewTicket
  <2>2. ctx'[p].tix = [ctx[p].tix EXCEPT ![n] = "pending"]
    BY <1>1, <2>1 DEF Records
  <2>3. bound[n].sub = NoSub
    BY <2>1 DEF Ticketed
  <2> QED BY <1>1, <1>3, <2>1, <2>2, <2>3
<1> QED BY <1>2, <1>3

\* What a runner's step carries on.
LEMMA CarriedByRunner ==
    ASSUME OnlyApprovalsOverlap, TwoUnnamed, TurnInv, TurnInv', OpenRun, OrderInv, LeftInv,
           NEW p \in Runners, RunnerMove(p), OthersWait(p)
    PROVE  Carried'
<1> DEFINE s == loc[p].step
<1>1. /\ p \in Procs /\ TypeOK /\ pc \in [Procs -> PCs] /\ InOrder /\ Carried /\ Ticketed
      /\ ctx \in [Procs -> Records] /\ loc \in [Procs -> Locals] /\ s \in Steps
      /\ sandbox \in [Steps -> Trees \cup {NoTree}]
      /\ \A q \in Runners : q \in Procs
  BY LocalFields DEF TurnInv, TypeOK, ProcsOK, RepoOK, Procs, OrderInv, LeftInv
<1>2. "idle" \notin Asking \cup Allowed
  BY DEF Asking, Allowed, Applying
<1>3. record.done \subseteq record'.done
  BY <1>1, ArtifactsGrow
<1>4. ASSUME NEW q \in Runners, q # p
      PROVE  pc'[q] = "idle" /\ ctx'[q].done \subseteq record'.done
  <2>1. pc[q] = "idle" /\ pc'[q] = "idle" /\ ctx'[q] = ctx[q]
    BY <1>1, <1>4, MovesAlone DEF OthersWait
  <2> QED BY <1>1, <1>2, <1>3, <2>1 DEF Carried
<1>5. ASSUME pc'[p] \notin Asking
      PROVE  ctx'[p].done \subseteq record'.done
  <2>1. CASE pc'[p] = "idle"
    <3>1. \/ ProviderFail(p) \/ GateStale(p) \/ GateExpired(p) \/ ApplyRefused(p) \/ ApplyFail(p)
          \/ FinalWrite(p)
      BY <1>1, <2>1, RunnerSources
    <3>2. ctx' = [ctx EXCEPT ![p] = NewRecord]
      BY <3>1 DEF ProviderFail, GateStale, GateExpired, ApplyRefused, ApplyFail, FinalWrite, Return
    <3> QED BY <1>1, <3>2 DEF NewRecord
  <2>2. CASE pc'[p] = "clear"
    BY <1>1, <2>2, RunnerSources DEF Begins
  <2>3. CASE pc'[p] \notin {"idle", "clear"}
    <3>1. ~ProviderCall(p)
      BY <1>1, <1>5, ProviderAnswer DEF Asking
    <3>2. ctx'[p].done = ctx[p].done
      BY <1>1, <2>3, <3>1, RunnerCarries
    <3>3. CASE pc[p] \notin Asking
      BY <1>1, <1>3, <3>2, <3>3 DEF Carried
    <3>4. CASE pc[p] \in Asking
      <4>1. GateApproved(p) \/ pc[p] = "w_write"
        <5>1. \/ CopyFile(p) \/ CopyDone(p) \/ GateRequest(p) \/ WaitCheckpoint(p)
              \/ GateStale(p) \/ GateExpired(p) \/ GateApproved(p) \/ pc[p] = "w_write"
          BY <1>1, <3>4, RunnerActs DEF Asking
        <5>2. ~(CopyFile(p) \/ CopyDone(p) \/ GateRequest(p) \/ WaitCheckpoint(p))
          BY <1>1, <1>5 DEF CopyFile, CopyDone, GateRequest, WaitCheckpoint, Goto, Asking
        <5>3. ~(GateStale(p) \/ GateExpired(p))
          BY <1>1, <2>3 DEF GateStale, GateExpired, Return, Goto
        <5> QED BY <5>1, <5>2, <5>3
      <4>2. CASE GateApproved(p)
        <5>1. PICK t : t \in Usable(p)
          BY <4>2 DEF GateApproved, Chosen, Exact
        <5>2. pc[p] = "gate"
          BY <4>2 DEF GateApproved
        <5>3. s \in record.done
          BY <5>1, <5>2, GateOnRecord
        <5> QED BY <1>1, <1>3, <3>2, <3>4, <5>3 DEF Carried
      <4>3. CASE pc[p] = "w_write"
        BY <1>1, <3>2, <4>3, ArtifactsGrow
      <4> QED BY <4>1, <4>2, <4>3
    <3> QED BY <3>3, <3>4
  <2> QED BY <2>1, <2>2, <2>3
<1>6. ASSUME pc'[p] \in Asking
      PROVE  /\ ctx'[p].done \subseteq record'.done \cup {loc'[p].step}
             /\ loc'[p].step \in ctx'[p].done
             /\ sandbox'[loc'[p].step] # NoTree
             /\ loc'[p].sub # NoSub
  <2>1. \/ ProviderCall(p) \/ CopyFile(p) \/ EnterPersisted(p) \/ CopyDone(p) \/ GateRequest(p)
        \/ WaitCheckpoint(p)
    BY <1>1, <1>6, RunnerSources DEF Asking
  <2>2. CASE ProviderCall(p)
    <3>1. pc[p] \notin Asking
      BY <2>2 DEF ProviderCall, Asking
    <3>2. ctx[p].done \subseteq record.done
      BY <1>1, <3>1 DEF Carried
    <3>3. NoSub \notin Subjects(Heads)
      BY RunAssumption DEF Heads
    <3> QED BY <1>1, <1>3, <2>2, <3>2, <3>3, ProviderAnswer
  <2>3. CASE EnterPersisted(p)
    <3>1. /\ pc[p] = "enter" /\ sandbox' = sandbox /\ sandbox[s] # NoTree /\ ctx' = ctx
          /\ loc' = [loc EXCEPT ![p].sub = Preview(head, target, sandbox[s])]
      BY <2>3 DEF EnterPersisted
    <3>2. Preview(head, target, sandbox[s]) \in Subjects(Heads)
      BY <1>1, <3>1, PreviewType DEF TypeOK, RepoOK
    <3>3. loc'[p].step = s /\ loc'[p].sub # NoSub
      BY <1>1, <3>1, <3>2, RunAssumption DEF Locals, Heads
    <3>4. s \in record.done
      <4>1. \A q \in Runners : pc[q] \notin Asking
        <5>1. \A q \in Runners : pc[q] = "idle" \/ q = p
          BY <1>1, MovesAlone
        <5> QED BY <1>2, <3>1, <5>1 DEF Asking
      <4>2. s \in Early \/ s \in Late
        BY <1>1 DEF Late
      <4> QED BY <3>1, <4>1, <4>2 DEF OrderInv, LeftOnRecord, LeftInv, LateLeft
    <3>5. record.done \subseteq ctx[p].done /\ ctx[p].done \subseteq record.done
      BY <1>1, <3>1 DEF InOrder, Carried, Asking
    <3> QED BY <1>3, <3>1, <3>3, <3>4, <3>5
  <2>4. CASE CopyFile(p) \/ CopyDone(p) \/ GateRequest(p) \/ WaitCheckpoint(p)
    <3>1. pc[p] \in Asking
      BY <2>4 DEF CopyFile, CopyDone, GateRequest, WaitCheckpoint, Asking
    <3>2. ctx'[p].done = ctx[p].done /\ loc'[p].step = s
      <4>1. pc'[p] \notin {"idle", "clear"} /\ ~ProviderCall(p)
        BY <1>6, <3>1 DEF Asking, ProviderCall
      <4> QED BY <1>1, <3>1, <4>1, RunnerCarries DEF EnterSkip, Consume, VerifyRetry, Asking
    <3>3. loc'[p].sub = loc[p].sub
      <4>1. CASE CopyFile(p)
        <5>1. PICK T : loc' = [loc EXCEPT ![p].todo = T]
          BY <4>1 DEF CopyFile
        <5> QED BY <1>1, <5>1 DEF Locals
      <4> QED BY <2>4, <4>1 DEF CopyDone, GateRequest, WaitCheckpoint
    <3>4. sandbox'[s] # NoTree
      <4>1. CASE CopyFile(p)
        <5>1. PICK f \in loc[p].todo :
                 sandbox' = [sandbox EXCEPT ![s] = CopyInto(@, f, loc[p].out[f])]
          BY <4>1 DEF CopyFile
        <5>2. sandbox[s] # NoTree
          BY <1>1, <3>1 DEF Carried
        <5>3. sandbox'[s] = [sandbox[s] EXCEPT ![f] = loc[p].out[f]]
          BY <1>1, <5>1, <5>2 DEF CopyInto
        <5>4. f \in Files /\ loc[p].out[f] \in Content /\ sandbox[s] \in Trees
          BY <1>1, <5>2, LocalFields DEF Trees
        <5>5. sandbox'[s] \in Trees
          BY <5>3, <5>4 DEF Trees
        <5> QED BY <5>5, PatchAssumption DEF Trees, Content
      <4>2. CASE CopyDone(p) \/ GateRequest(p) \/ WaitCheckpoint(p)
        BY <1>1, <3>1, <4>2 DEF CopyDone, GateRequest, WaitCheckpoint, Carried
      <4> QED BY <2>4, <4>1, <4>2
    <3> QED BY <1>1, <1>3, <3>1, <3>2, <3>3, <3>4 DEF Carried
  <2> QED BY <2>1, <2>2, <2>3, <2>4
<1>7. ASSUME pc'[p] \in Allowed
      PROVE  (loc[p].tkt \in TicketsFor(Requester(loc[p].step)))'
  <2>1. \/ GateApproved(p) \/ Recheck(p) \/ ApplyBegin(p) \/ ApplyFile(p) \/ ApplyDone(p)
        \/ RemoveSandbox(p)
    BY <1>1, <1>7, RunnerSources DEF Allowed, Applying
  <2>2. bound' = bound
    BY <2>1 DEF GateApproved, Recheck, ApplyBegin, ApplyFile, ApplyDone, RemoveSandbox, tickets
  <2>3. loc'[p].tkt \in TicketsFor(Requester(loc'[p].step))
    <3>1. CASE GateApproved(p)
      <4>1. PICK t \in Chosen(p) : loc' = [loc EXCEPT ![p].tkt = t, ![p].seen = consumed]
        BY <3>1 DEF GateApproved
      <4>2. loc'[p].tkt = t /\ loc'[p].step = s
        BY <1>1, <4>1 DEF Locals
      <4> QED BY <4>1, <4>2 DEF Chosen, Exact, Usable, TicketsFor
    <3>2. CASE Recheck(p) \/ ApplyDone(p) \/ RemoveSandbox(p)
      <4>1. loc' = loc /\ pc[p] \in Allowed
        BY <3>2 DEF Recheck, ApplyDone, RemoveSandbox, Allowed, Applying
      <4> QED BY <1>1, <4>1 DEF Carried
    <3>3. CASE ApplyBegin(p) \/ ApplyFile(p)
      <4>1. (\E T : loc' = [loc EXCEPT ![p].todo = T]) /\ pc[p] \in Allowed
        BY <3>3 DEF ApplyBegin, ApplyFile, Allowed, Applying
      <4>2. loc'[p].tkt = loc[p].tkt /\ loc'[p].step = s
        BY <1>1, <4>1 DEF Locals
      <4> QED BY <1>1, <4>1, <4>2 DEF Carried
    <3> QED BY <2>1, <3>1, <3>2, <3>3
  <2> QED BY <2>2, <2>3 DEF TicketsFor
<1> QED BY <1>2, <1>4, <1>5, <1>6, <1>7 DEF Carried

\* A step is recorded after its ticket was asked for.
LEMMA TicketedByRunner ==
    ASSUME OnlyApprovalsOverlap, TurnInv, OrderInv, LeftInv,
           NEW p \in Runners, RunnerMove(p), OthersWait(p)
    PROVE  Ticketed'
<1> DEFINE s == loc[p].step
<1>1. /\ p \in Procs /\ TypeOK /\ pc \in [Procs -> PCs] /\ InOrder /\ Carried /\ Ticketed
      /\ ctx \in [Procs -> Records]
      /\ \A q \in Runners : q \in Procs
  BY DEF TurnInv, TypeOK, ProcsOK, Procs, OrderInv, LeftInv
<1>2. \A q \in Runners : q # p => pc'[q] = "idle"
  BY <1>1, MovesAlone DEF OthersWait
<1>3. ASSUME NEW r, TicketsFor(r) # {}
      PROVE  TicketsFor(r)' # {}
  BY <1>1, <1>3, TicketsGrow DEF TicketsFor
<1>4. ASSUME NEW k \in record'.done
      PROVE  TicketsFor(Requester(k))' # {}
  <2>1. CASE k \in record.done
    BY <1>1, <1>3, <2>1 DEF Ticketed
  <2>2. CASE k \notin record.done
    <3>1. (WaitWrite(p) \/ FinalWrite(p)) /\ record'.done = ctx[p].done
      BY <1>1, <1>4, <2>2, RunnerWrites DEF WaitWrite, FinalWrite, Records
    <3>2. pc[p] = "w_write" /\ k = s
      BY <1>1, <1>4, <2>2, <3>1 DEF WaitWrite, FinalWrite, Carried, Asking
    <3>3. TicketsFor(Requester(s)) # {}
      BY <1>1, <3>2 DEF Ticketed
    <3> QED BY <1>3, <3>2, <3>3
  <2> QED BY <2>1, <2>2
<1>5. ASSUME pc'[p] \in {"w_check", "w_write"}
      PROVE  (TicketsFor(Requester(loc[p].step)) # {})'
  <2>1. (GateRequest(p) \/ WaitCheckpoint(p)) /\ loc' = loc
    <3>1. GateRequest(p) \/ WaitCheckpoint(p)
      BY <1>1, <1>5, RunnerSources
    <3> QED BY <3>1 DEF GateRequest, WaitCheckpoint
  <2>2. TicketsFor(Requester(s))' # {}
    <3>1. CASE GateRequest(p)
      <4>1. loc[p].sub # NoSub
        BY <1>1, <3>1 DEF GateRequest, Carried, Asking
      <4>2. PICK n \in Tickets : bound'[n] = [req |-> Requester(s), sub |-> loc[p].sub]
        BY <1>1, <3>1, TicketsGrow
      <4>3. bound'[n].sub # NoSub /\ bound'[n].req = Requester(s)
        BY <4>1, <4>2
      <4>4. n \in {t \in Tickets : bound'[t].sub # NoSub /\ bound'[t].req = Requester(s)}
        BY <4>3
      <4> QED BY <2>1, <4>4 DEF TicketsFor
    <3>2. CASE WaitCheckpoint(p)
      <4>1. TicketsFor(Requester(s)) # {}
        BY <1>1, <3>2 DEF WaitCheckpoint, Ticketed
      <4> QED BY <1>1, <2>1, <4>1, TicketsGrow DEF TicketsFor
    <3> QED BY <2>1, <3>1, <3>2
  <2> QED BY <2>1, <2>2
<1>6. \A t \in Tickets : bound'[t].sub # NoSub => status'[t] # "none"
  <2>1. CASE GateRequest(p)
    <3>1. PICK n \in Tickets :
             /\ status'[n] = "pending"
             /\ \A t \in Tickets : t # n => bound'[t] = bound[t] /\ status'[t] = status[t]
      BY <1>1, <2>1, TicketsGrow
    <3> QED BY <1>1, <3>1 DEF Ticketed
  <2>2. CASE ~GateRequest(p)
    BY <1>1, <2>2, TicketsGrow DEF Ticketed
  <2> QED BY <2>1, <2>2
<1> QED BY <1>2, <1>4, <1>5, <1>6 DEF Ticketed

\* A ticket asked for is written to the record by the call that asked.
LEMMA ListedByRunner ==
    ASSUME OnlyApprovalsOverlap, TurnInv, LeftInv,
           NEW p \in Runners, RunnerMove(p), OthersWait(p)
    PROVE  Listed'
<1>1. /\ p \in Procs /\ TypeOK /\ ctx \in [Procs -> Records] /\ pc \in [Procs -> PCs]
      /\ Listed /\ Ticketed
      /\ \A q \in Runners : q \in Procs
      /\ "idle" \notin RunnerPCs \cup {"a_check", "a_write"}
      /\ {"w_check", "w_write"} \subseteq RunnerPCs
  BY DEF TurnInv, TypeOK, ProcsOK, Procs, RunnerPCs, LeftInv
<1>2. \A q \in Procs : q # p => pc[q] = "idle" /\ pc'[q] = "idle"
  BY MovesAlone DEF OthersWait
<1>3. CASE Begins(p)
  <2>1. /\ bound' = bound /\ record' = record /\ ctx'[p] = record /\ pc[p] = "idle"
    BY <1>3 DEF Begins, MayStart
  <2>2. \A t \in Tickets : bound[t].sub # NoSub => record.tix[t] # "none"
    BY <1>1, <1>2, <2>1 DEF Listed
  <2> QED BY <1>1, <1>2, <2>1, <2>2 DEF Listed
<1>4. CASE GateRequest(p)
  <2>1. PICK n \in Tickets :
           /\ ctx'[p].tix = [ctx[p].tix EXCEPT ![n] = "pending"]
           /\ \A t \in Tickets : t # n => bound'[t] = bound[t] /\ status'[t] = status[t]
    BY <1>1, <1>4, TicketsGrow
  <2>2. pc[p] \in RunnerPCs /\ pc'[p] = "w_check"
    BY <1>1, <1>4 DEF GateRequest, Goto, RunnerPCs
  <2>3. ctx[p].tix \in [Tickets -> TicketStatus]
    BY <1>1, RecordFields
  <2>4. \A t \in Tickets : bound'[t].sub # NoSub => ctx'[p].tix[t] # "none"
    BY <1>1, <2>1, <2>2, <2>3 DEF Listed
  <2> QED BY <1>1, <1>2, <2>2, <2>4 DEF Listed
<1>5. CASE /\ ~GateRequest(p)
           /\ pc[p] \in RunnerPCs
           /\ pc'[p] # "idle" => ctx'[p].tix = ctx[p].tix
           /\ record'.tix \in {record.tix, ctx[p].tix}
  <2>1. /\ bound' = bound
        /\ pc[p] \in {"w_check", "w_write"} =>
              pc'[p] \in {"w_check", "w_write"} \/ record'.tix = ctx[p].tix
    BY <1>1, <1>5, RunnerCloses, RunnerWrites
  <2>2. \A t \in Tickets : bound[t].sub # NoSub => ctx[p].tix[t] # "none"
    BY <1>1, <1>5 DEF Listed
  <2>3. \A t \in Tickets : bound[t].sub # NoSub =>
            record.tix[t] # "none" \/ pc[p] \in {"w_check", "w_write"}
    BY <1>1, <1>2 DEF Listed
  <2>4. \A t \in Tickets : bound[t].sub # NoSub =>
            record'.tix[t] # "none" \/ pc'[p] \in {"w_check", "w_write"}
    BY <1>5, <2>1, <2>2, <2>3
  <2> QED BY <1>1, <1>2, <1>5, <2>1, <2>2, <2>4 DEF Listed
<1> QED BY <1>1, <1>3, <1>4, <1>5, RunnerTickets

\* A call that asks for the second step of the implementer goes on until it is on record.
LEMMA LateLeftByRunner ==
    ASSUME OnlyApprovalsOverlap, TwoUnnamed, TurnInv, OpenRun, OrderInv, LeftInv,
           NEW p \in Runners, RunnerMove(p), OthersWait(p)
    PROVE  LateLeft'
<1> DEFINE s == loc[p].step
<1>1. /\ p \in Procs /\ TypeOK /\ pc \in [Procs -> PCs] /\ InOrder
      /\ ctx \in [Procs -> Records] /\ loc \in [Procs -> Locals] /\ s \in Steps
      /\ sandbox \in [Steps -> Trees \cup {NoTree}]
      /\ \A q \in Runners : q \in Procs
  BY LocalFields DEF TurnInv, TypeOK, ProcsOK, RepoOK, Procs, OrderInv
<1>2. \A q \in Runners : q # p => pc[q] = "idle"
  BY <1>1, MovesAlone
<1>3. ASSUME pc[p] \in Asking
      PROVE  s \in record'.done \/ (pc'[p] \in Asking /\ loc'[p].step = s)
  <2>1. \/ CopyFile(p) \/ CopyDone(p) \/ GateStale(p) \/ GateExpired(p) \/ GateApproved(p)
        \/ GateRequest(p) \/ WaitCheckpoint(p) \/ pc[p] = "w_write"
    BY <1>1, <1>3, RunnerActs DEF Asking
  <2>2. CASE GateStale(p) \/ GateExpired(p) \/ GateApproved(p)
    <3>1. pc[p] = "gate" /\ record' = record
      BY <2>2 DEF GateStale, GateExpired, GateApproved, files
    <3>2. PICK t : t \in Usable(p)
      BY <2>2 DEF GateStale, GateExpired, GateApproved, Chosen, Exact
    <3> QED BY <3>1, <3>2, GateOnRecord
  <2>3. CASE pc[p] = "w_write"
    BY <1>1, <1>3, <2>3, ArtifactsGrow DEF LeftInv, Carried
  <2>4. CASE CopyFile(p) \/ CopyDone(p) \/ GateRequest(p) \/ WaitCheckpoint(p)
    <3>1. pc'[p] \in Asking /\ pc[p] \in Asking
      BY <1>1, <1>3, <2>4 DEF CopyFile, CopyDone, GateRequest, WaitCheckpoint, Goto, Asking
    <3>2. loc'[p].step = s
      BY <1>1, <3>1, RunnerCarries DEF Asking, EnterSkip, Consume, VerifyRetry
    <3> QED BY <3>1, <3>2
  <2> QED BY <2>1, <2>2, <2>3, <2>4
<1>4. ASSUME NEW l \in Late, sandbox'[l] # NoTree
      PROVE  l \in record'.done \/ \E q \in Runners : loc'[q].step = l /\ pc'[q] \in Asking
  <2>1. CASE sandbox[l] # NoTree
    <3>1. l \in record.done \/ (s = l /\ pc[p] \in Asking)
      BY <1>2, <1>4, <2>1 DEF LeftInv, LateLeft, Asking
    <3> QED BY <1>1, <1>3, <1>4, <3>1, ArtifactsGrow
  <2>2. CASE sandbox[l] = NoTree
    <3>1. (ProviderCall(p) \/ CopyFile(p)) /\ l = s
      <4>1. l \in Steps
        BY DEF Late
      <4>2. ProviderCall(p) \/ CopyFile(p) \/ RemoveSandbox(p)
        BY <1>1, <1>4, <2>2, RunnerWrites
      <4>3. \E T : sandbox' = [sandbox EXCEPT ![s] = T]
        BY <1>1, <4>2, Removal DEF ProviderCall, CopyFile
      <4>4. l = s
        BY <1>1, <1>4, <2>2, <4>1, <4>3
      <4>5. ~RemoveSandbox(p)
        <5>1. SUFFICES ASSUME RemoveSandbox(p) PROVE FALSE
          OBVIOUS
        <5>2. PICK T : /\ sandbox' = [sandbox EXCEPT ![s] = T]
                       /\ T # NoTree => sandbox[s] # NoTree
          BY <1>1, <5>1, Removal
        <5>3. sandbox'[s] = T
          BY <1>1, <4>1, <4>4, <5>2
        <5> QED BY <1>4, <2>2, <4>4, <5>2, <5>3
      <4> QED BY <4>2, <4>4, <4>5
    <3>2. pc'[p] = "copy" /\ pc[p] \in {"provider", "copy"}
      BY <1>1, <3>1 DEF ProviderCall, CopyFile, Goto
    <3>3. loc'[p].step = s
      BY <1>1, <3>2, RunnerCarries DEF EnterSkip, Consume, VerifyRetry
    <3> QED BY <3>1, <3>2, <3>3 DEF Asking
  <2> QED BY <2>1, <2>2
<1> QED BY <1>4 DEF LateLeft

\* A second ticket of the implementer is asked for by its second step only.
LEMMA OneFirstByRunner ==
    ASSUME OnlyApprovalsOverlap, TwoUnnamed, TurnInv, FlightInv, OrderInv, LeftInv,
           NEW p \in Runners, RunnerMove(p), OthersWait(p)
    PROVE  OneFirst'
<1> DEFINE s == loc[p].step
           Known(t) == bound[t].sub # NoSub /\ bound[t].req = Implementer
<1>1. /\ p \in Procs /\ TypeOK /\ pc \in [Procs -> PCs] /\ InOrder /\ Carried /\ Ticketed
      /\ ctx \in [Procs -> Records] /\ s \in Steps
      /\ \A q \in Runners : q \in Procs
  BY LocalFields DEF TurnInv, TypeOK, ProcsOK, Procs, OrderInv, LeftInv
<1>2. \A q \in Runners : q # p => pc[q] = "idle"
  BY <1>1, MovesAlone
<1>3. ASSUME NEW t \in Tickets, NEW u \in Tickets, t # u, Known(t), Known(u)
      PROVE  \E l \in Late : \/ l \in record'.done
                             \/ loc'[p].step = l /\ pc'[p] \in {"w_check", "w_write"}
  <2>1. PICK l \in Late : l \in record.done \/ (s = l /\ pc[p] \in {"w_check", "w_write"})
    BY <1>2, <1>3 DEF LeftInv, OneFirst, TicketsFor
  <2>2. CASE l \in record.done
    <3>1. record.done \subseteq record'.done
      BY <1>1, ArtifactsGrow
    <3> QED BY <2>2, <3>1
  <2>3. CASE s = l /\ pc[p] = "w_check"
    BY <1>1, <2>3, ArtifactsGrow
  <2>4. CASE s = l /\ pc[p] = "w_write"
    <3>1. record'.done = ctx[p].done /\ s \in ctx[p].done
      BY <1>1, <2>4, ArtifactsGrow DEF Carried, Asking
    <3> QED BY <2>4, <3>1
  <2> QED BY <2>1, <2>2, <2>3, <2>4
<1>4. ASSUME GateRequest(p), Requester(s) = Implementer, NEW v \in Tickets, Known(v)
      PROVE  s \in Late /\ loc'[p].step = s /\ pc'[p] = "w_check"
  <2>1. pc[p] = "gate" /\ Usable(p) = {} /\ loc' = loc /\ pc'[p] = "w_check"
    BY <1>1, <1>4 DEF GateRequest, Goto
  <2>2. ASSUME s \in Early
        PROVE  FALSE
    <3>0. consumed \cap TicketsFor(Implementer) = {}
      BY <2>1, <2>2 DEF LeftInv, NotSpent
    <3>1. v \notin consumed
      BY <1>4, <3>0 DEF TicketsFor
    <3>2. ctx[p].tix[v] # "none"
      BY <1>1, <1>4, <2>1 DEF LeftInv, Listed, RunnerPCs
    <3>3. ctx[p].tix[v] # "pending"
      BY <2>1 DEF FlightInv, NoPendingInFlight, HasPending, RunnerPCs
    <3>4. ctx[p].tix[v] \in TicketStatus
      BY <1>1, RecordFields
    <3> QED BY <1>4, <2>1, <3>1, <3>2, <3>3, <3>4 DEF Usable, TicketStatus
  <2> QED BY <1>1, <2>1, <2>2 DEF Late
<1>5. ASSUME NEW t \in TicketsFor(Implementer)', NEW u \in TicketsFor(Implementer)', t # u
      PROVE  \E l \in Late : \/ l \in record'.done
                             \/ loc'[p].step = l /\ pc'[p] \in {"w_check", "w_write"}
  <2>0. /\ t \in Tickets /\ bound'[t].sub # NoSub /\ bound'[t].req = Implementer
        /\ u \in Tickets /\ bound'[u].sub # NoSub /\ bound'[u].req = Implementer
    BY DEF TicketsFor
  <2>1. CASE ~GateRequest(p)
    <3>1. bound' = bound
      BY <1>1, <2>1, TicketsGrow
    <3> QED BY <1>3, <1>5, <2>0, <3>1
  <2>2. CASE GateRequest(p)
    <3>1. PICK n \in Tickets :
             /\ bound'[n] = [req |-> Requester(s), sub |-> loc[p].sub]
             /\ \A v \in Tickets : v # n => bound'[v] = bound[v] /\ status'[v] = status[v]
      BY <1>1, <2>2, TicketsGrow
    <3>2. \A v \in Tickets : v # n => bound'[v] = bound[v]
      BY <3>1
    <3>3. CASE t # n /\ u # n
      BY <1>3, <1>5, <2>0, <3>2, <3>3
    <3>4. CASE t = n \/ u = n
      <4>1. Requester(s) = Implementer
        BY <2>0, <3>1, <3>4
      <4>2. \E v \in Tickets : Known(v)
        BY <1>5, <2>0, <3>2, <3>4
      <4> QED BY <1>4, <2>2, <4>1, <4>2
    <3> QED BY <3>3, <3>4
  <2> QED BY <2>1, <2>2
<1> QED BY <1>5 DEF OneFirst

\* An earlier step consumes another requester's ticket.
LEMMA NotSpentByRunner ==
    ASSUME OnlyApprovalsOverlap, TwoUnnamed, TurnInv, LeftInv,
           TurnInv', NEW p \in Runners, RunnerMove(p), OthersWait(p)
    PROVE  NotSpent'
<1> DEFINE s == loc[p].step
           u == loc'[p].step
           I == TicketsFor(Implementer)
<1>1. /\ p \in Procs /\ TypeOK /\ pc \in [Procs -> PCs] /\ Carried /\ Ticketed
      /\ loc \in [Procs -> Locals] /\ s \in Steps
      /\ \A q \in Runners : q \in Procs
  BY LocalFields DEF TurnInv, TypeOK, ProcsOK, Procs, LeftInv
<1>2. \A q \in Runners : q # p => pc'[q] = "idle"
  BY <1>1, MovesAlone DEF OthersWait
<1>3. /\ s \in Early /\ pc[p] \in {"enter", "provider", "copy", "gate"} \cup Allowed =>
            consumed \cap I = {}
      /\ s < FirstUnnamed /\ pc[p] = "verify" => consumed \cap I = {}
      /\ s \in Early /\ pc[p] \in Allowed => loc[p].seen \cap I = {}
  BY DEF LeftInv, NotSpent
<1>4. "idle" \notin {"enter", "provider", "copy", "gate", "verify"} \cup Allowed
  BY DEF Allowed, Applying
<1>5. FirstUnnamed \in Nat /\ \A k \in Early : k \in Steps /\ k <= FirstUnnamed
  BY EarlySteps DEF Early, Upto
<1>6. ASSUME pc'[p] \in {"enter", "verify"}, u \in Early, pc'[p] = "verify" => u < FirstUnnamed
      PROVE  consumed' \cap I = {}
  <2>1. ClearConsumed(p) \/ EnterSkip(p) \/ Consume(p) \/ VerifyRetry(p)
    BY <1>1, <1>6, RunnerSources
  <2>2. CASE ClearConsumed(p)
    BY <2>2 DEF ClearConsumed
  <2>3. CASE EnterSkip(p)
    <3>1. pc[p] = "enter" /\ consumed' = consumed /\ u \in {s, s + 1}
      BY <1>1, <2>3 DEF EnterSkip, StepDone, NoLocals, files
    <3>2. s \in Early
      BY <1>1, <1>5, <1>6, <3>1 DEF Early, Upto, Steps
    <3> QED BY <1>3, <3>1, <3>2
  <2>4. CASE Consume(p)
    <3>1. /\ pc[p] = "consume" /\ consumed' = loc[p].seen \cup {loc[p].tkt}
          /\ (u = s /\ pc'[p] = "verify") \/ u = s + 1
      BY <1>1, <2>4 DEF Consume, ConsumedAfter, StepDone, NoLocals, Goto
    <3>2. s \in Early /\ s # FirstUnnamed
      BY <1>1, <1>5, <1>6, <3>1 DEF Early, Upto, Steps
    <3>3. loc[p].tkt \in TicketsFor(Requester(s)) /\ Requester(s) # Implementer
      BY <1>1, <3>1, <3>2, LateSteps DEF Carried, Allowed
    <3>4. loc[p].tkt \notin I
      BY <3>3 DEF TicketsFor
    <3>5. loc[p].seen \cap I = {}
      BY <1>3, <3>1, <3>2 DEF Allowed
    <3> QED BY <3>1, <3>4, <3>5
  <2>5. CASE VerifyRetry(p)
    <3>1. pc[p] = "verify" /\ consumed' = consumed /\ u = s + 1
      BY <1>1, <2>5 DEF VerifyRetry, NoLocals, files
    <3>2. s < FirstUnnamed
      BY <1>1, <1>5, <1>6, <3>1 DEF Steps
    <3> QED BY <1>3, <3>1, <3>2
  <2> QED BY <2>1, <2>2, <2>3, <2>4, <2>5
<1>7. ASSUME pc'[p] \in {"provider", "copy", "gate"} \cup Allowed, u \in Early
      PROVE  /\ consumed' \cap I = {}
             /\ pc'[p] \in Allowed => loc'[p].seen \cap I = {}
  <2>1. \/ EnterProvider(p) \/ ProviderCall(p) \/ CopyFile(p) \/ EnterPersisted(p) \/ CopyDone(p)
        \/ GateApproved(p) \/ Recheck(p) \/ ApplyBegin(p) \/ ApplyFile(p) \/ ApplyDone(p)
        \/ RemoveSandbox(p)
    BY <1>1, <1>7, RunnerSources DEF Allowed, Applying
  <2>2. consumed' = consumed
    BY <2>1 DEF EnterProvider, ProviderCall, CopyFile, EnterPersisted, CopyDone, GateApproved,
       Recheck, ApplyBegin, ApplyFile, ApplyDone, RemoveSandbox, files
  <2>3. pc[p] \in {"enter", "provider", "copy", "gate"} \cup Allowed /\ pc[p] # "consume"
    BY <2>1 DEF EnterProvider, ProviderCall, CopyFile, EnterPersisted, CopyDone, GateApproved,
       Recheck, ApplyBegin, ApplyFile, ApplyDone, RemoveSandbox, Allowed, Applying
  <2>4. u = s
    <3>1. pc'[p] # "idle" /\ pc'[p] \notin {"enter", "verify"}
      BY <1>7 DEF Allowed, Applying
    <3>2. ~(EnterSkip(p) \/ Consume(p) \/ VerifyRetry(p))
      BY <1>1, <3>1 DEF EnterSkip, Consume, VerifyRetry, StepDone, Goto
    <3> QED BY <1>1, <3>1, <3>2, RunnerCarries
  <2>5. consumed \cap I = {}
    BY <1>3, <1>7, <2>3, <2>4
  <2>6. ASSUME pc'[p] \in Allowed
        PROVE  loc'[p].seen \cap I = {}
    <3>1. CASE GateApproved(p)
      <4>1. PICK t : loc' = [loc EXCEPT ![p].tkt = t, ![p].seen = consumed]
        BY <3>1 DEF GateApproved
      <4>2. loc'[p].seen = consumed
        BY <1>1, <4>1 DEF Locals
      <4> QED BY <2>5, <4>2
    <3>2. CASE ~GateApproved(p)
      <4>1. /\ pc[p] \in Allowed
            /\ loc' = loc \/ \E T : loc' = [loc EXCEPT ![p].todo = T]
        <5>1. Recheck(p) \/ ApplyBegin(p) \/ ApplyFile(p) \/ ApplyDone(p) \/ RemoveSandbox(p)
          BY <1>1, <2>6, <3>2, RunnerSources DEF Allowed, Applying
        <5> QED BY <5>1 DEF Recheck, ApplyBegin, ApplyFile, ApplyDone, RemoveSandbox,
               Allowed, Applying
      <4>2. loc'[p].seen = loc[p].seen
        BY <1>1, <4>1 DEF Locals
      <4> QED BY <1>3, <1>7, <2>4, <4>1, <4>2
    <3> QED BY <3>1, <3>2
  <2> QED BY <2>2, <2>5, <2>6
<1>8. u < FirstUnnamed /\ u \in Steps => u \in Early
  BY <1>5 DEF Early, Upto, Steps
<1>9. ASSUME pc'[p] # "idle"
      PROVE  u \in Steps
  <2>1. loc' \in [Procs -> Locals]
    BY DEF TurnInv, TypeOK, ProcsOK
  <2> QED BY <1>1, <2>1, LocalFields
<1>10. pc'[p] \in RunnerPCs \cup {"idle"}
  BY DEF TurnInv, Roles
<1>11. TicketsFor(Implementer)' = I \/ pc'[p] = "w_check"
  <2>1. CASE GateRequest(p)
    BY <1>1, <2>1 DEF GateRequest, Goto
  <2>2. CASE ~GateRequest(p)
    BY <1>1, <2>2, TicketsGrow DEF TicketsFor
  <2> QED BY <2>1, <2>2
<1>12. "w_check" \notin {"enter", "provider", "copy", "gate", "verify"} \cup Allowed
  BY DEF Allowed, Applying
<1>13. "verify" \notin Allowed /\ "enter" \notin Allowed
  BY DEF Allowed, Applying
<1>14. /\ u \in Early /\ pc'[p] \in {"enter", "provider", "copy", "gate"} \cup Allowed =>
             consumed' \cap TicketsFor(Implementer)' = {}
       /\ u < FirstUnnamed /\ pc'[p] = "verify" => consumed' \cap TicketsFor(Implementer)' = {}
       /\ u \in Early /\ pc'[p] \in Allowed => loc'[p].seen \cap TicketsFor(Implementer)' = {}
  BY <1>6, <1>7, <1>8, <1>9, <1>11, <1>12, <1>13
<1> QED BY <1>2, <1>4, <1>14 DEF NotSpent

\* The call that applies the implementer's first step does not stop before the second is on
\* record, unless it closes the run.
LEMMA OnToSecondByRunner ==
    ASSUME OnlyApprovalsOverlap, NoProviderFails, TwoUnnamed, TurnInv, TurnInv', OpenRun,
           OrderInv, LeftInv, Carried', NEW p \in Runners, RunnerMove(p), OthersWait(p)
    PROVE  OnToSecond'
<1> DEFINE s == loc[p].step
           f == FirstUnnamed
<1> SUFFICES ASSUME NEW l \in Late, record'.st = "waiting", l \notin record'.done,
                    f \in record'.done, sandbox'[f] = NoTree
             PROVE  GoesOn(p, l)'
  BY DEF OnToSecond
<1>1. /\ p \in Procs /\ TypeOK /\ pc \in [Procs -> PCs] /\ InOrder /\ Carried /\ Ticketed
      /\ ctx \in [Procs -> Records] /\ loc \in [Procs -> Locals] /\ s \in Steps
      /\ sandbox \in [Steps -> Trees \cup {NoTree}]
      /\ \A q \in Runners : q \in Procs
  BY LocalFields DEF TurnInv, TypeOK, ProcsOK, RepoOK, Procs, OrderInv, LeftInv
<1>2. \A q \in Runners : q # p => pc[q] = "idle"
  BY <1>1, MovesAlone
<1>3. /\ l = f + 1 /\ f \in Steps /\ f < l /\ f >= MainSteps /\ Requester(f) = Implementer
      /\ f \notin Late /\ l \in Steps
      /\ \A k \in Late : k = l
  BY LateSteps
<1>4. record.done \subseteq record'.done /\ l \notin record.done
  BY <1>1, ArtifactsGrow
<1>5. record.st = "waiting"
  BY <1>1, StartsByLoading DEF Begins, OpenRun
<1>6. ASSUME f \notin record.done
      PROVE  FALSE
  <2>1. (WaitWrite(p) \/ FinalWrite(p)) /\ record'.done = ctx[p].done
    BY <1>1, <1>6, RunnerWrites DEF WaitWrite, FinalWrite, Records
  <2>2. pc[p] = "w_write" /\ s = f /\ sandbox[s] # NoTree
    BY <1>1, <1>6, <2>1 DEF WaitWrite, FinalWrite, Carried, Asking
  <2>3. sandbox' = sandbox
    BY <2>1 DEF WaitWrite, FinalWrite
  <2> QED BY <2>2, <2>3
<1>7. CASE sandbox[f] # NoTree
  <2>1. ProviderCall(p) \/ CopyFile(p) \/ RemoveSandbox(p)
    BY <1>1, <1>7, RunnerWrites
  <2>2. s = f
    <3>1. \E T : sandbox' = [sandbox EXCEPT ![s] = T]
      BY <1>1, <2>1, Removal DEF ProviderCall, CopyFile
    <3> QED BY <1>1, <1>3, <1>7, <3>1
  <2>3. ~ProviderCall(p)
    BY <1>1, <2>2, ProviderAnswer
  <2>4. ~CopyFile(p)
    <3>1. SUFFICES ASSUME CopyFile(p) PROVE FALSE
      OBVIOUS
    <3>2. pc[p] = "copy" /\ pc'[p] = "copy"
      BY <3>1 DEF CopyFile
    <3>3. loc'[p].step = s
      BY <1>1, <3>2, RunnerCarries DEF EnterSkip, Consume, VerifyRetry
    <3> QED BY <2>2, <3>2, <3>3 DEF Carried, Asking
  <2>5. pc'[p] = "consume" /\ loc' = loc
    <3>1. RemoveSandbox(p) /\ pc \in [Procs -> PCs] /\ loc' = loc
      BY <1>1, <2>1, <2>3, <2>4, Removal
    <3>2. PICK T : /\ sandbox' = [sandbox EXCEPT ![s] = T]
                   /\ \/ pc' = pc /\ T # NoTree
                      \/ pc' = [pc EXCEPT ![p] = "consume"]
      BY <1>1, <3>1, Removal
    <3>3. T = NoTree
      BY <1>1, <2>2, <3>2
    <3> QED BY <1>1, <3>1, <3>2, <3>3
  <2> QED BY <2>2, <2>5 DEF GoesOn
<1>8. CASE f \in record.done /\ sandbox[f] = NoTree
  <2>1. GoesOn(p, l)
    <3>1. PICK q \in Runners : GoesOn(q, l)
      BY <1>4, <1>5, <1>8 DEF LeftInv, OnToSecond
    <3>2. pc[q] # "idle"
      BY <3>1 DEF GoesOn
    <3> QED BY <1>2, <3>1, <3>2
  <2>2. ~GateRequest(p) => TicketsFor(Implementer)' = TicketsFor(Implementer)
    BY <1>1, TicketsGrow DEF TicketsFor
  <2>3. CASE s = f /\ pc[p] = "consume"
    <3>1. Consume(p)
      BY <1>1, <2>3, RunnerActs
    <3>2. pc'[p] = "verify" /\ loc'[p].step = f /\ consumed' = loc[p].seen \cup {loc[p].tkt}
      <4>1. ~(f < MainSteps)
        BY <1>3, RunAssumption DEF Steps
      <4>2. /\ loc' = [loc EXCEPT ![p] = [NoLocals EXCEPT !.step = f]]
            /\ pc' = [pc EXCEPT ![p] = "verify"]
            /\ consumed' = loc[p].seen \cup {loc[p].tkt}
        BY <2>3, <3>1, <4>1 DEF Consume, ConsumedAfter, StepDone, Goto
      <4> QED BY <1>1, <4>2 DEF NoLocals
    <3>3. loc[p].tkt \in TicketsFor(Implementer)
      BY <1>1, <1>3, <2>3 DEF Carried, Allowed
    <3>4. \A t \in TicketsFor(Implementer) : t = loc[p].tkt
      <4>1. \A k \in Late : k \notin record.done
        BY <1>3, <1>4
      <4>2. \A q \in Runners : pc[q] \notin {"w_check", "w_write"}
        BY <1>2, <2>3
      <4> QED BY <3>3, <4>1, <4>2 DEF LeftInv, OneFirst
    <3>5. ~GateRequest(p)
      BY <2>3 DEF GateRequest
    <3> QED BY <2>2, <3>2, <3>4, <3>5 DEF GoesOn, Spent
  <2>4. CASE s = f /\ pc[p] = "verify" /\ Spent
    <3>1. VerifyPass(p) \/ VerifyRetry(p) \/ VerifyExhausted(p)
      BY <1>1, <2>4, RunnerActs
    <3>2. CASE VerifyPass(p) \/ VerifyExhausted(p)
      <4>1. /\ pc'[p] = "export"
            /\ \E v \in Terminal : loc' = [loc EXCEPT ![p].end = v]
        BY <1>1, <3>2 DEF VerifyPass, VerifyExhausted, Close, Goto, Terminal
      <4>2. loc'[p].end \in Terminal
        BY <1>1, <4>1 DEF Locals
      <4> QED BY <4>1, <4>2 DEF GoesOn
    <3>3. CASE VerifyRetry(p)
      <4>1. pc'[p] = "enter" /\ loc'[p].step = l /\ consumed' = consumed
        BY <1>1, <1>3, <2>4, <3>3 DEF VerifyRetry, Goto, NoLocals, files
      <4>2. ~GateRequest(p)
        BY <2>4 DEF GateRequest
      <4> QED BY <2>2, <2>4, <4>1, <4>2 DEF GoesOn, Spent
    <3> QED BY <3>1, <3>2, <3>3
  <2>5. CASE s = l /\ pc[p] \in {"enter", "provider", "copy", "gate"} /\ Spent
    <3>1. ~EnterSkip(p)
      BY <1>1, <1>4, <2>5 DEF EnterSkip, AppliedBefore, Carried, Asking
    <3>2. ~EnterPersisted(p)
      <4>1. SUFFICES ASSUME EnterPersisted(p) PROVE FALSE
        OBVIOUS
      <4>2. pc[p] = "enter" /\ sandbox[l] # NoTree
        BY <2>5, <4>1 DEF EnterPersisted
      <4>3. \A q \in Runners : pc[q] \notin Asking
        BY <1>2, <4>2 DEF Asking
      <4> QED BY <1>4, <4>2, <4>3 DEF LeftInv, LateLeft
    <3>3. ~ProviderFail(p)
      BY <1>1, ProviderAnswers
    <3>4. ~(GateStale(p) \/ GateExpired(p) \/ GateApproved(p))
      <4>1. SUFFICES ASSUME GateStale(p) \/ GateExpired(p) \/ GateApproved(p) PROVE FALSE
        OBVIOUS
      <4>2. pc[p] = "gate" /\ \E t : t \in Usable(p)
        BY <4>1 DEF GateStale, GateExpired, GateApproved, Chosen, Exact
      <4> QED BY <1>4, <2>5, <4>2, GateOnRecord
    <3>5. \/ EnterProvider(p) \/ ProviderCall(p) \/ CopyFile(p) \/ CopyDone(p) \/ GateRequest(p)
      BY <1>1, <2>5, <3>1, <3>2, <3>3, <3>4, RunnerActs
    <3>6. CASE GateRequest(p)
      BY <1>1, <2>5, <3>6 DEF GateRequest, Goto, GoesOn
    <3>7. CASE ~GateRequest(p)
      <4>1. pc'[p] \in {"provider", "copy", "gate"} /\ consumed' = consumed
        BY <1>1, <3>5, <3>7 DEF EnterProvider, ProviderCall, CopyFile, CopyDone, Goto, files
      <4>2. loc'[p].step = l
        <5>1. ~(EnterSkip(p) \/ Consume(p) \/ VerifyRetry(p))
          BY <2>5, <3>1 DEF Consume, VerifyRetry
        <5> QED BY <1>1, <2>5, <4>1, <5>1, RunnerCarries
      <4> QED BY <2>2, <2>5, <3>7, <4>1, <4>2 DEF GoesOn, Spent
    <3> QED BY <3>6, <3>7
  <2>6. CASE s = l /\ pc[p] \in {"w_check", "w_write"}
    <3>1. pc[p] # "w_write"
      BY <1>1, <2>6, ArtifactsGrow DEF Carried, Asking
    <3> QED BY <1>1, <2>6, <3>1, ArtifactsGrow DEF GoesOn
  <2>7. CASE pc[p] \in {"export", "f_check", "f_write"} /\ loc[p].end \in Terminal
    <3>1. ~FinalWrite(p)
      BY <1>1, <2>7 DEF FinalWrite, Records, Terminal
    <3>2. Export(p) \/ FinalCheckpoint(p)
      BY <1>1, <2>7, <3>1, RunnerActs
    <3> QED BY <1>1, <2>7, <3>2 DEF Export, FinalCheckpoint, Goto, GoesOn
  <2> QED BY <2>1, <2>3, <2>4, <2>5, <2>6, <2>7 DEF GoesOn
<1> QED BY <1>6, <1>7, <1>8

\* A step that leaves the continuations and what they go by alone.
LEMMA OtherLeft ==
    ASSUME LeftInv, Listed', record'.done = record.done,
           record'.st = "waiting" => record.st = "waiting",
           \A t \in Tickets : status[t] # "none" => status'[t] # "none",
           UNCHANGED <<sandbox, bound, consumed>>,
           \A p \in Runners : pc'[p] = pc[p] /\ ctx'[p] = ctx[p] /\ loc'[p] = loc[p]
    PROVE  LeftInv'
<1>1. Carried'
  BY DEF LeftInv, Carried, TicketsFor
<1>2. Ticketed'
  BY DEF LeftInv, Ticketed, TicketsFor
<1>3. LateLeft'
  BY DEF LeftInv, LateLeft
<1>4. TicketsFor(Implementer)' = TicketsFor(Implementer)
  BY DEF TicketsFor
<1>5. OneFirst'
  BY <1>4 DEF LeftInv, OneFirst
<1>6. NotSpent'
  BY <1>4 DEF LeftInv, NotSpent
<1>7. OnToSecond'
  BY <1>4 DEF LeftInv, OnToSecond, GoesOn, Spent
<1> QED BY <1>1, <1>2, <1>3, <1>5, <1>6, <1>7 DEF LeftInv

\* An approver, or its death, leaves the tickets asked for where they are.
LEMMA ListedByApprover ==
    ASSUME OnlyApprovalsOverlap, TurnInv, LeftInv,
           NEW p \in Approvers, ApproverMove(p) \/ Crash(p), OthersWait(p)
    PROVE  /\ Listed' /\ consumed' = consumed
           /\ \A t \in Tickets : status[t] # "none" => status'[t] # "none"
<1>1. /\ p \in Procs /\ TypeOK /\ ctx \in [Procs -> Records] /\ loc \in [Procs -> Locals]
      /\ pc \in [Procs -> PCs] /\ record \in Records
      /\ status \in [Tickets -> TicketStatus] /\ loc[p].tkt \in Tickets
      /\ \A q \in Runners : q \in Procs /\ q # p
      /\ {"w_check", "w_write"} \subseteq RunnerPCs
      /\ RunnerPCs \cap ({"idle"} \cup ApproverPCs) = {}
  BY LocalFields, RunAssumption
     DEF TurnInv, TypeOK, ProcsOK, TicketsOK, FilesOK, Procs, RunnerPCs, ApproverPCs
<1>2. \A q \in Procs : q # p => pc'[q] = pc[q] /\ ctx'[q] = ctx[q]
  BY DEF OthersWait
<1>3. bound' = bound
  BY DEF ApproverMove, ApproverStep, ApproveStart, ApproveLock, ApproveAlready,
     ApproveGrant, ApproveLoad, ApproveCheckpoint, ApproveWrite, Crash, tickets
<1>4. consumed' = consumed
  BY DEF ApproverMove, ApproverStep, ApproveStart, ApproveLock, ApproveAlready,
     ApproveGrant, ApproveLoad, ApproveCheckpoint, ApproveWrite, Crash, files
<1>5. \A t \in Tickets : status[t] # "none" => status'[t] # "none"
  <2>1. CASE ApproveGrant(p)
    BY <1>1, <2>1 DEF ApproveGrant, GrantFile
  <2>2. CASE ~ApproveGrant(p)
    BY <2>2 DEF ApproverMove, ApproverStep, ApproveStart, ApproveLock, ApproveAlready,
       ApproveLoad, ApproveCheckpoint, ApproveWrite, Crash, tickets
  <2> QED BY <2>1, <2>2
<1>6. ASSUME NEW t \in Tickets, bound[t].sub # NoSub
      PROVE  /\ record'.tix[t] # "none" \/ \E q \in Runners : pc'[q] \in {"w_check", "w_write"}
             /\ pc'[p] \in {"a_check", "a_write"} \cup RunnerPCs => ctx'[p].tix[t] # "none"
  <2>1. record.tix[t] # "none" \/ \E q \in Runners : pc'[q] \in {"w_check", "w_write"}
    BY <1>1, <1>2, <1>6 DEF LeftInv, Listed
  <2>2. pc[p] \in {"a_check", "a_write"} => ctx[p].tix[t] # "none"
    BY <1>1, <1>6 DEF LeftInv, Listed
  <2>3. CASE ApproveLoad(p)
    <3>1. /\ pc[p] = "a_load" /\ record' = record
          /\ ctx'[p] = [record EXCEPT !.tix[loc[p].tkt] = "approved"]
      BY <1>1, <2>3 DEF ApproveLoad, ReplaceTicket, files
    <3>2. \A q \in Runners : pc[q] \notin {"w_check", "w_write"}
      BY <1>1, <3>1, MovesAlone DEF ApproverPCs
    <3>3. record.tix[t] # "none"
      BY <1>1, <1>2, <2>1, <3>2
    <3>4. ctx'[p].tix[t] # "none"
      BY <1>1, <3>1, <3>3 DEF Records
    <3> QED BY <3>1, <3>3, <3>4
  <2>4. CASE ApproveCheckpoint(p)
    BY <1>1, <2>1, <2>2, <2>4 DEF ApproveCheckpoint
  <2>5. CASE ApproveWrite(p)
    <3>1. pc[p] = "a_write" /\ record'.tix = ctx[p].tix /\ pc'[p] = "idle"
      BY <1>1, <2>5 DEF ApproveWrite, Return, Goto, Records
    <3> QED BY <1>1, <2>2, <3>1
  <2>6. CASE ~(ApproveLoad(p) \/ ApproveCheckpoint(p) \/ ApproveWrite(p))
    <3>1. record' = record /\ pc'[p] \in {"idle", "a_lock", "a_grant", "a_load"}
      BY <1>1, <2>6 DEF ApproverMove, ApproverStep, ApproveStart, ApproveLock, ApproveAlready,
         ApproveGrant, Crash, Return, Goto, files
    <3> QED BY <1>1, <2>1, <3>1 DEF ApproverPCs
  <2> QED BY <2>3, <2>4, <2>5, <2>6
<1>7. Listed'
  <2>1. ASSUME NEW t \in Tickets, NEW q \in Procs, bound'[t].sub # NoSub,
               pc'[q] \in {"a_check", "a_write"} \cup RunnerPCs
        PROVE  ctx'[q].tix[t] # "none"
    <3>1. CASE q = p
      BY <1>3, <1>6, <2>1, <3>1
    <3>2. CASE q # p
      BY <1>2, <1>3, <2>1, <3>2 DEF LeftInv, Listed
    <3> QED BY <3>1, <3>2
  <2> QED BY <1>3, <1>6, <2>1 DEF Listed
<1> QED BY <1>4, <1>5, <1>7

\* No step leaves a sandbox behind that is not on record.
LEMMA LeftStep ==
    ASSUME OnlyApprovalsOverlap, NoDeathOf(Runners), NoProviderFails, TwoUnnamed,
           TurnInv, TurnInv', FlightInv, OpenRun, ClosedInv, OrderInv, LeftInv, [Next]_vars
    PROVE  LeftInv'
<1>1. /\ TypeOK /\ record \in Records
      /\ \A q \in Runners : q \in Procs /\ q \notin Approvers
      /\ \A q \in Approvers : q \in Procs
  BY RunAssumption DEF TurnInv, TypeOK, FilesOK, Procs
<1>2. record'.st = "waiting" => record.st = "waiting"
  BY <1>1, ClosedUnwritten DEF Records, Terminal
<1>3. ASSUME NEW p \in Runners, Crash(p)
      PROVE  FALSE
  BY <1>1, <1>3 DEF Crash, Fault, NoDeathOf, TypeOK, FaultsOK, FaultKinds
<1>4. ASSUME NEW p \in Runners, RunnerMove(p), OthersWait(p)
      PROVE  LeftInv'
  <2>1. Carried'
    BY <1>4, CarriedByRunner
  <2> QED BY <1>4, <2>1, TicketedByRunner, ListedByRunner, LateLeftByRunner, OneFirstByRunner,
          NotSpentByRunner, OnToSecondByRunner DEF LeftInv
<1>5. ASSUME NEW p \in Approvers, ApproverMove(p) \/ Crash(p), OthersWait(p)
      PROVE  LeftInv'
  <2>1. \A q \in Runners : pc'[q] = pc[q] /\ ctx'[q] = ctx[q] /\ loc'[q] = loc[q]
    BY <1>1, <1>5 DEF OthersWait
  <2>2. record'.done = record.done /\ UNCHANGED <<sandbox, bound>>
    BY <1>5, KeptByApprover DEF OrderInv
  <2>3. /\ Listed' /\ consumed' = consumed
        /\ \A t \in Tickets : status[t] # "none" => status'[t] # "none"
    BY <1>5, ListedByApprover
  <2> QED BY <1>2, <2>1, <2>2, <2>3, OtherLeft
<1>6. ASSUME Outside, UNCHANGED <<pc, ctx, loc>>
      PROVE  LeftInv'
  <2>1. UNCHANGED <<record, sandbox, bound, status, consumed>>
    BY <1>6 DEF Outside, Edit, Commit, Expire, vars, tickets, files
  <2>2. Listed'
    BY <1>6, <2>1 DEF LeftInv, Listed
  <2> QED BY <1>6, <2>1, <2>2, OtherLeft
<1> QED BY <1>1, <1>3, <1>4, <1>5, <1>6, WhoMoves

LEMMA LeftStart == Init => LeftInv
<1> SUFFICES ASSUME Init PROVE LeftInv
  OBVIOUS
<1>1. /\ \A q \in Procs : pc[q] = "idle" /\ loc[q] = NoLocals /\ ctx[q] = NewRecord
      /\ \A q \in Runners : q \in Procs
      /\ \A t \in Tickets : bound[t] = NoBinding /\ bound[t].sub = NoSub
      /\ \A s \in Steps : sandbox[s] = NoTree
      /\ record = NewRecord /\ record.done = {}
      /\ consumed = {}
  BY DEF Init, Procs, NoBinding, NewRecord
<1>2. Carried /\ Listed
  BY <1>1 DEF Carried, Listed, NewRecord, Asking, Allowed, Applying, RunnerPCs
<1>3. Ticketed
  BY <1>1 DEF Ticketed
<1>4. LateLeft /\ NotSpent
  BY <1>1 DEF LateLeft, NotSpent, Late, Allowed, Applying
<1>5. OneFirst /\ OnToSecond
  BY <1>1 DEF OneFirst, OnToSecond, TicketsFor
<1> QED BY <1>2, <1>3, <1>4, <1>5 DEF LeftInv

\* With two steps of the implementer at most, the sandboxes that commands leave are those of
\* steps the run is suspended at: when only approvals overlap, no continuation dies, no provider
\* fails and an applied sandbox is deleted, whatever others change, tickets expire and approvals
\* die.
THEOREM SandboxesAreOnRecord ==
    ASSUME OnlyApprovalsOverlap, NoDeathOf(Runners), NoProviderFails, RemovalsSucceed, TwoUnnamed
    PROVE  Spec => []SandboxMeansSuspended
<1>1. Init => LeftInv
  BY LeftStart
<1>2. /\ TurnInv /\ TurnInv' /\ FlightInv /\ OpenRun /\ ClosedInv /\ OrderInv
      /\ LeftInv /\ [Next]_vars
      => LeftInv'
  BY LeftStep
<1>3. OrderInv /\ LeftInv => SandboxMeansSuspended
  <2> SUFFICES ASSUME OrderInv, LeftInv, AtRest, NEW s \in Steps, sandbox[s] # NoTree
               PROVE  /\ s \in record.done
                      /\ \E t \in Tickets : /\ record.tix[t] # "none"
                                            /\ bound[t].req = Requester(s)
                                            /\ bound[t].sub # NoSub
    BY DEF SandboxMeansSuspended
  <2>1. \A q \in Runners : pc[q] \notin Asking /\ pc[q] \notin {"w_check", "w_write"}
    BY DEF AtRest, Procs, Asking
  <2>2. s \in record.done
    BY <2>1 DEF OrderInv, LeftOnRecord, LeftInv, LateLeft, Late
  <2>3. PICK t \in TicketsFor(Requester(s)) : TRUE
    BY <2>2 DEF LeftInv, Ticketed
  <2>4. t \in Tickets /\ bound[t].sub # NoSub /\ bound[t].req = Requester(s)
    BY DEF TicketsFor
  <2>5. record.tix[t] # "none"
    BY <2>1, <2>4 DEF LeftInv, Listed
  <2> QED BY <2>2, <2>4, <2>5
<1> QED
  BY <1>1, <1>2, <1>3, OrderInvariant, OpenInvariant, TurnInvariant, FlightInvariant, PTL
  DEF Spec
=============================================================================
