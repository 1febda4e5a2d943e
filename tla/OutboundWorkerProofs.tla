------------------------- MODULE OutboundWorkerProofs -------------------------
(***************************************************************************)
(* Proofs about OutboundWorker, for any number of requests, of crashes and *)
(* of everything else that goes wrong.                                     *)
(***************************************************************************)
EXTENDS OutboundWorker, TLAPS

Own == Requests \ Observers

MainPlaces == {"down", "idle", "fetch", "task", "claim", "save", "queue", "done", "close"}
                 \cup Flushing
OwnPlaces == {"off", "run", "queue", "done", "close"} \cup Flushing
Locals == [todo : SUBSET Requests, pick : Requests \cup {NoReq}, board : Boards \ {"spoiled"},
           then : {"idle", "fetch", "task", "done"}]

\* While these hold the polling thread has a request in its hands.
Holding == at[Main] \in {"claim", "save", "queue", "done", "close"}
              \/ (at[Main] \in Flushing /\ loc[Main].then = "done")

Shape ==
    /\ at \in [Threads -> MainPlaces \cup OwnPlaces]
    /\ faults \in [FaultKinds -> Nat]
    /\ \A r \in Own : at[r] \in Flushing => loc[r].then = "done"
    /\ Holding => cur \in Requests
    /\ \A t \in Threads : at[t] = "post" =>
          loc[t].pick \in Requests /\ loc[t].board \in {"refusal", "result"}

Types == TypeOK /\ Shape

LEMMA OwnThreads == Main \in Threads /\ Main \notin Own /\ Own \subseteq Threads
                    /\ (\A t \in Threads : t # Main => t \in Own) /\ Own \subseteq Requests
BY WorkerAssumption DEF Own, Threads

LEMMA InitTypes == Init => Types
<1> SUFFICES ASSUME Init PROVE Types
  OBVIOUS
<1>1. \A k \in FaultKinds : faults[k] \in 0..MaxFaults[k]
  BY WorkerAssumption DEF Init
<1>2. /\ at \in [Threads -> MainPlaces \cup OwnPlaces]
      /\ at[Main] = "idle" /\ \A r \in Own : at[r] = "off"
  BY OwnThreads DEF Init, MainPlaces, OwnPlaces
<1>3. loc \in [Threads -> Locals]
  BY DEF Init, NoLocals, Locals, Boards
<1>4. Shape
  BY <1>2, OwnThreads DEF Init, Shape, Holding, Flushing, FaultKinds
<1>5. /\ ledger \in [Requests -> Statuses] /\ mem \in [Requests -> Statuses]
      /\ outbox \in [Requests -> Boards] /\ ran \in [Requests -> Nat]
  BY DEF Init, Unknown, Statuses, Boards
<1> QED
  BY <1>1, <1>2, <1>3, <1>4, <1>5 DEF Init, Types, TypeOK, Locals, Own

\* What holds of a step that moves one thread to a place of its own.
LEMMA MovedTypes ==
  ASSUME Types, NEW t \in Threads, NEW place, Goto(t, place),
         t = Main => place \in MainPlaces, t # Main => place \in OwnPlaces
  PROVE  /\ at' \in [Threads -> MainPlaces \cup OwnPlaces]
         /\ at'[t] = place /\ \A u \in Threads : u # t => at'[u] = at[u]
         /\ at'[Main] \in MainPlaces /\ \A r \in Own : at'[r] \in OwnPlaces
BY OwnThreads DEF Types, Shape, TypeOK, Goto, MainPlaces, OwnPlaces, Own

\* The part of the type that concerns places and locals, and the rest of it.
ThreadsOK ==
    /\ at[Main] \in MainPlaces /\ \A r \in Own : at[r] \in OwnPlaces
    /\ loc \in [Threads -> Locals]
    /\ batch \subseteq Requests /\ cur \in Requests \cup {NoReq}
FilesOK ==
    /\ ledger \in [Requests -> Statuses] /\ mem \in [Requests -> Statuses]
    /\ journal \subseteq [event : {"claim", "complete"}, req : Requests]
    /\ torn \in BOOLEAN
    /\ outbox \in [Requests -> Boards]
HistoryOK ==
    /\ posted \subseteq Requests \X {"refusal", "result"}
    /\ ran \in [Requests -> Nat]
    /\ queued \subseteq Requests /\ refused \subseteq Requests /\ spoiled \subseteq Requests
FaultsOK == \A k \in FaultKinds : faults[k] \in 0..MaxFaults[k]

LEMMA TypeParts == TypeOK <=> ThreadsOK /\ FilesOK /\ HistoryOK /\ FaultsOK
BY DEF TypeOK, ThreadsOK, FilesOK, HistoryOK, FaultsOK, MainPlaces, OwnPlaces, Own, Locals

LEMMA FaultTypes ==
  ASSUME Types, NEW k \in FaultKinds, Fault(k)
  PROVE  FaultsOK' /\ faults' \in [FaultKinds -> Nat]
<1>1. faults \in [FaultKinds -> Nat] /\ MaxFaults \in [FaultKinds -> Nat]
  BY WorkerAssumption DEF Types, Shape
<1> QED
  BY <1>1 DEF Fault, FaultsOK, Types, TypeOK

-----------------------------------------------------------------------------
(* Type correctness, by groups of steps                                      *)

InHand == {"claim", "save", "queue", "done", "close"}

\* A thread that moves: what its own place and locals must meet.
LEMMA MoveTypes ==
  ASSUME Types, NEW t \in Threads, NEW place, Goto(t, place),
         t = Main => place \in MainPlaces, t # Main => place \in OwnPlaces /\ cur' = cur,
         loc' \in [Threads -> Locals], \A u \in Threads : u # t => loc'[u] = loc[u],
         t # Main /\ place \in Flushing => loc'[t].then = "done",
         place = "post" => loc'[t].pick \in Requests /\ loc'[t].board \in {"refusal", "result"},
         t = Main /\ (place \in InHand \/ (place \in Flushing /\ loc'[Main].then = "done"))
             => cur' \in Requests,
         batch' \subseteq Requests, cur' \in Requests \cup {NoReq},
         FilesOK', HistoryOK', FaultsOK', faults' \in [FaultKinds -> Nat]
  PROVE  Types'
<1>1. /\ at' \in [Threads -> MainPlaces \cup OwnPlaces]
      /\ at'[t] = place /\ \A u \in Threads : u # t => at'[u] = at[u]
      /\ at'[Main] \in MainPlaces /\ \A r \in Own : at'[r] \in OwnPlaces
  BY MovedTypes
<1>2. \A r \in Own : at'[r] \in Flushing => loc'[r].then = "done"
  BY <1>1, OwnThreads DEF Types, Shape
<1>3. \A u \in Threads : at'[u] = "post" =>
        loc'[u].pick \in Requests /\ loc'[u].board \in {"refusal", "result"}
  BY <1>1 DEF Types, Shape
<1>4. Holding' => cur' \in Requests
  <2>1. CASE t = Main
    BY <1>1, <2>1 DEF Holding, InHand
  <2>2. CASE t # Main
    BY <1>1, <2>2, OwnThreads DEF Holding, Types, Shape
  <2> QED
    BY <2>1, <2>2
<1>5. Shape'
  BY <1>1, <1>2, <1>3, <1>4 DEF Shape
<1>6. ThreadsOK'
  BY <1>1 DEF ThreadsOK
<1> QED
  BY <1>5, <1>6, TypeParts, PTL DEF Types

LEMMA FlushTypes ==
  ASSUME Types, NEW t \in Threads, FlushStep(t)
  PROVE  Types'
<1> DEFINE NewLocals == loc' \in [Threads -> Locals] /\ \A u \in Threads : u # t => loc'[u] = loc[u]
<1>0. /\ loc \in [Threads -> Locals]
      /\ batch \subseteq Requests /\ cur \in Requests \cup {NoReq}
      /\ ThreadsOK /\ FilesOK /\ HistoryOK /\ FaultsOK
      /\ faults \in [FaultKinds -> Nat]
      /\ t = Main => at[t] \in MainPlaces
      /\ t # Main => at[t] \in OwnPlaces
  BY OwnThreads, TypeParts DEF Types, Shape, ThreadsOK
<1>1. t # Main /\ at[t] \in Flushing => loc[t].then = "done"
  BY OwnThreads DEF Types, Shape
<1>2. t = Main /\ at[t] \in Flushing /\ loc[t].then = "done" => cur \in Requests
  BY DEF Types, Shape, Holding
<1>3. "none" \in Boards
  BY DEF Boards
<1>4. CASE List(t)
  <2>1. NewLocals /\ loc'[t].then = loc[t].then
    BY <1>0, <1>4 DEF List, Locals
  <2>2. FilesOK' /\ HistoryOK' /\ FaultsOK'
    BY <1>0, <1>4 DEF List, FilesOK, HistoryOK, FaultsOK, disk, history
  <2> QED
    BY <1>0, <1>1, <1>2, <1>4, <2>1, <2>2, MoveTypes
       DEF List, Flushing, InHand, MainPlaces, OwnPlaces
<1>5. CASE Read(t)
  <2>1. NewLocals /\ loc'[t].then = loc[t].then
        /\ loc'[t].pick \in Requests /\ loc'[t].board \in {"refusal", "result"}
    <3>1. PICK r \in loc[t].todo : /\ outbox[r] \in {"refusal", "result"}
                 /\ loc' = [loc EXCEPT ![t].todo = @ \ {r}, ![t].pick = r, ![t].board = outbox[r]]
      BY <1>5 DEF Read
    <3>2. loc[t] \in Locals /\ r \in Requests /\ outbox[r] \in Boards \ {"spoiled"}
      BY <1>0, <3>1 DEF Locals, Boards
    <3>3. [loc[t] EXCEPT !.todo = @ \ {r}, !.pick = r, !.board = outbox[r]] \in Locals
      BY <3>2 DEF Locals
    <3>4. loc' = [loc EXCEPT ![t] = [loc[t] EXCEPT !.todo = @ \ {r}, !.pick = r, !.board = outbox[r]]]
      BY <1>0, <3>1 DEF Locals
    <3> QED
      BY <1>0, <3>1, <3>2, <3>3, <3>4 DEF Locals
  <2>2. FilesOK' /\ HistoryOK' /\ FaultsOK'
    BY <1>0, <1>5 DEF Read, FilesOK, HistoryOK, FaultsOK, disk, history
  <2> QED
    BY <1>0, <1>1, <1>2, <1>5, <2>1, <2>2, MoveTypes
       DEF Read, Flushing, InHand, MainPlaces, OwnPlaces
<1>6. CASE ReadGone(t) \/ PostFails(t)
  <2>1. NoLocals \in Locals /\ loc' = [loc EXCEPT ![t] = NoLocals]
    BY <1>6 DEF ReadGone, PostFails, Abandon, NoLocals, Locals, Boards
  <2>2. NewLocals
    BY <1>0, <2>1
  <2>3. FilesOK' /\ FaultsOK'
    BY <1>0, <1>3, <1>6 DEF ReadGone, PostFails, OutboxAfterFailure, FilesOK, FaultsOK, disk
  <2>4. HistoryOK'
    <3>1. CASE ReadGone(t)
      BY <1>0, <3>1 DEF ReadGone, HistoryOK, history
    <3>2. CASE PostFails(t)
      <4>1. loc[t].pick \in Requests /\ loc[t].board \in {"refusal", "result"}
        BY <3>2 DEF PostFails, Types, Shape
      <4> QED
        BY <1>0, <3>2, <4>1 DEF PostFails, HistoryOK
    <3> QED
      BY <1>6, <3>1, <3>2
  <2>5. loc[t].then \in {"idle", "fetch", "task", "done"} /\ at[t] \in Flushing
    BY <1>0, <1>6 DEF ReadGone, PostFails, Locals, Flushing
  <2>6. /\ Goto(t, AfterException(t)) /\ UNCHANGED <<batch, cur>>
        /\ AfterException(t) \in {"idle", "task", "done"}
        /\ AfterException(t) = "done" => loc[t].then = "done"
        /\ loc[t].then = "done" => AfterException(t) = "done"
    BY <1>6, <2>5 DEF ReadGone, PostFails, Abandon, AfterException
  <2>7. faults' \in [FaultKinds -> Nat]
    BY <1>0, <1>6 DEF ReadGone, PostFails
  <2> QED
    BY <1>0, <1>1, <1>2, <2>2, <2>3, <2>4, <2>5, <2>6, <2>7, MoveTypes
       DEF Flushing, InHand, MainPlaces, OwnPlaces
<1>7. CASE Quarantine(t)
  <2>1. PICK r \in loc[t].todo : /\ outbox' = [outbox EXCEPT ![r] = "none"]
                                 /\ loc' = [loc EXCEPT ![t].todo = @ \ {r}]
    BY <1>7 DEF Quarantine
  <2>2. NewLocals /\ loc'[t].then = loc[t].then
    BY <1>0, <2>1 DEF Locals
  <2>3. FilesOK' /\ HistoryOK' /\ FaultsOK'
    BY <1>0, <1>3, <1>7, <2>1 DEF Quarantine, FilesOK, HistoryOK, FaultsOK, disk, history
  <2>4. Goto(t, "read")
    BY <1>7 DEF Quarantine, Goto, Types, Shape
  <2> QED
    BY <1>0, <1>1, <1>2, <1>7, <2>2, <2>3, <2>4, MoveTypes
       DEF Quarantine, Flushing, InHand, MainPlaces, OwnPlaces
<1>8. CASE Remove(t)
  <2>1. NewLocals /\ loc'[t].then = loc[t].then
    BY <1>0, <1>3, <1>8 DEF Remove, Locals
  <2>2. FilesOK' /\ HistoryOK' /\ FaultsOK'
    BY <1>0, <1>3, <1>8 DEF Remove, FilesOK, HistoryOK, FaultsOK, disk, history
  <2> QED
    BY <1>0, <1>1, <1>2, <1>8, <2>1, <2>2, MoveTypes
       DEF Remove, Flushing, InHand, MainPlaces, OwnPlaces
<1>9. CASE Flushed(t)
  <2>1. NoLocals \in Locals /\ loc' = [loc EXCEPT ![t] = NoLocals]
    BY <1>9 DEF Flushed, NoLocals, Locals, Boards
  <2>2. NewLocals
    BY <1>0, <2>1
  <2>3. FilesOK' /\ HistoryOK' /\ FaultsOK'
    BY <1>0, <1>9 DEF Flushed, FilesOK, HistoryOK, FaultsOK, disk, history
  <2>4. loc[t].then \in {"idle", "fetch", "task", "done"} /\ Goto(t, loc[t].then)
    BY <1>0, <1>9 DEF Flushed, Locals
  <2> QED
    BY <1>0, <1>1, <1>2, <1>9, <2>2, <2>3, <2>4, MoveTypes
       DEF Flushed, Flushing, InHand, MainPlaces, OwnPlaces
<1> QED
  BY <1>4, <1>5, <1>6, <1>7, <1>8, <1>9 DEF FlushStep

LEMMA PostTypes ==
  ASSUME Types, NEW t \in Threads, NEW r \in Requests, Post(t, r)
  PROVE  Types'
<1>1. loc[t].board \in {"refusal", "result"} /\ loc[t].pick = r
  BY DEF Post, Types, Shape
<1>2. FilesOK' /\ HistoryOK' /\ FaultsOK'
  BY <1>1, TypeParts DEF Post, Types, FilesOK, HistoryOK, FaultsOK, disk
<1>3. t # Main => loc[t].then = "done"
  BY OwnThreads DEF Post, Types, Shape, Flushing
<1>4. t = Main /\ loc[t].then = "done" => cur \in Requests
  BY DEF Post, Types, Shape, Holding, Flushing
<1> QED
  BY <1>2, <1>3, <1>4, TypeParts, MoveTypes
     DEF Post, local, Types, Shape, ThreadsOK, Flushing, InHand, MainPlaces, OwnPlaces

LEMMA MainTypes == Types /\ MainStep => Types'
<1> SUFFICES ASSUME Types, MainStep PROVE Types'
  OBVIOUS
<1>0. /\ loc \in [Threads -> Locals]
      /\ batch \subseteq Requests /\ cur \in Requests \cup {NoReq}
      /\ ThreadsOK /\ FilesOK /\ HistoryOK /\ FaultsOK
      /\ faults \in [FaultKinds -> Nat]
      /\ Main \in Threads
  BY OwnThreads, TypeParts DEF Types, Shape, ThreadsOK
<1>1. /\ at[Main] \in InHand => cur \in Requests
      /\ "refusal" \in Boards /\ {"in_progress", "done"} \subseteq Statuses
  BY DEF Types, Shape, Holding, InHand, Boards, Statuses
<1>2. CASE PollBegin \/ \E r \in Requests : TaskRefused(r)
  <2>1. /\ loc' \in [Threads -> Locals]
        /\ \A u \in Threads : u # Main => loc'[u] = loc[u]
        /\ loc'[Main].then \in {"fetch", "task"}
    BY <1>0, <1>2 DEF PollBegin, TaskRefused, Flush, Locals
  <2>2. Goto(Main, "list") /\ batch' \subseteq Requests /\ cur' = cur
    BY <1>0, <1>2 DEF PollBegin, FirstOfPoll, TaskRefused, TakeTask, Flush
  <2>3. FilesOK' /\ HistoryOK' /\ FaultsOK' /\ faults' = faults
    BY <1>0, <1>1, <1>2
       DEF PollBegin, TaskRefused, FilesOK, HistoryOK, FaultsOK, disk, history
  <2> QED
    BY <1>0, <2>1, <2>2, <2>3, MoveTypes DEF Flushing, InHand, MainPlaces
<1>3. CASE Fetch \/ PollEnd
  <2>1. FilesOK' /\ HistoryOK' /\ FaultsOK' /\ UNCHANGED <<loc, cur, faults>> /\ batch' \subseteq Requests
    BY <1>0, <1>3 DEF Fetch, PollEnd, FilesOK, HistoryOK, FaultsOK, disk, history, local
  <2> QED
    <3>1. PICK place \in {"task", "idle"} : Goto(Main, place)
      BY <1>3 DEF Fetch, PollEnd
    <3> QED
      BY <1>0, <2>1, <3>1, MoveTypes DEF Flushing, InHand, MainPlaces
<1>4. CASE \E r \in Requests : TaskDuplicate(r)
  <2>1. ThreadsOK' /\ FilesOK' /\ HistoryOK' /\ FaultsOK'
    BY <1>0, <1>4 DEF TaskDuplicate, TakeTask, ThreadsOK, FilesOK, HistoryOK, FaultsOK, disk, history
  <2>2. Shape'
    BY <1>4 DEF TaskDuplicate, Types, Shape, Holding
  <2> QED
    BY <2>1, <2>2, TypeParts, PTL DEF Types
<1>5. CASE \E r \in Requests : TaskPasses(r)
  <2>1. FilesOK' /\ HistoryOK' /\ FaultsOK' /\ batch' \subseteq Requests /\ cur' \in Requests
    BY <1>0, <1>5 DEF TaskPasses, TakeTask, FilesOK, HistoryOK, FaultsOK, disk, history
  <2> QED
    BY <1>0, <1>5, <2>1, MoveTypes DEF TaskPasses, Flushing, InHand, MainPlaces
<1>6. CASE ClaimEvent
  <2>0. cur \in Requests /\ [event |-> "claim", req |-> cur] \in [event : {"claim", "complete"}, req : Requests]
    BY <1>1, <1>6 DEF ClaimEvent, InHand
  <2>1. FilesOK' /\ HistoryOK' /\ FaultsOK'
    BY <1>0, <1>6, <2>0 DEF ClaimEvent, AppendEvent, FilesOK, HistoryOK, FaultsOK, history
  <2> QED
    BY <1>0, <1>6, <2>0, <2>1, MoveTypes DEF ClaimEvent, local, Flushing, InHand, MainPlaces
<1>7. CASE ClaimSave
  <2>0. cur \in Requests
    BY <1>1, <1>7 DEF ClaimSave, InHand
  <2>1. FilesOK' /\ HistoryOK' /\ FaultsOK'
    BY <1>0, <1>1, <1>7, <2>0 DEF ClaimSave, FilesOK, HistoryOK, FaultsOK, history
  <2>2. CASE cur \in Observers
    BY <1>0, <1>7, <2>0, <2>1, <2>2, MoveTypes DEF ClaimSave, Flushing, InHand, MainPlaces
  <2>3. CASE cur \notin Observers
    <3>1. cur \in Own /\ cur # Main /\ at \in [Threads -> MainPlaces \cup OwnPlaces]
      BY <2>0, <2>3, OwnThreads DEF Own, Types, Shape
    <3>2. /\ at' = [at EXCEPT ![Main] = "task", ![cur] = "run"]
          /\ at' \in [Threads -> MainPlaces \cup OwnPlaces]
          /\ at'[Main] = "task" /\ at'[cur] = "run"
          /\ \A u \in Threads \ {Main, cur} : at'[u] = at[u]
      BY <1>0, <1>7, <2>3, <3>1, OwnThreads DEF ClaimSave, MainPlaces, OwnPlaces
    <3>3. UNCHANGED <<loc, batch, faults>> /\ cur' = NoReq
      BY <1>7, <2>3 DEF ClaimSave
    <3>4. ThreadsOK'
      BY <1>0, <3>2, <3>3, OwnThreads DEF ThreadsOK, MainPlaces, OwnPlaces
    <3>5. Shape'
      BY <3>2, <3>3, OwnThreads DEF Types, Shape, Holding, Flushing
    <3> QED
      BY <2>1, <3>4, <3>5, TypeParts, PTL DEF Types
  <2> QED
    BY <2>2, <2>3
<1>8. CASE ClaimSaveFails
  <2>0. cur \in Requests
    BY <1>1, <1>8 DEF ClaimSaveFails, InHand
  <2>1. FilesOK' /\ HistoryOK'
    BY <1>0, <1>1, <1>8, <2>0 DEF ClaimSaveFails, FilesOK, HistoryOK, disk, history
  <2>2. FaultsOK' /\ faults' \in [FaultKinds -> Nat]
    BY <1>8, FaultTypes DEF ClaimSaveFails, FaultKinds
  <2>3. Goto(Main, "idle") /\ UNCHANGED loc /\ batch' = {} /\ cur' = NoReq
    BY <1>8 DEF ClaimSaveFails
  <2> QED
    BY <1>0, <2>1, <2>2, <2>3, MoveTypes DEF Flushing, InHand, MainPlaces
<1> QED
  BY <1>2, <1>3, <1>4, <1>5, <1>6, <1>7, <1>8 DEF MainStep

LEMMA ActionTypes ==
  ASSUME Types, NEW t \in Threads, ActionStep(t)
  PROVE  Types'
<1>0. /\ loc \in [Threads -> Locals]
      /\ batch \subseteq Requests /\ cur \in Requests \cup {NoReq}
      /\ ThreadsOK /\ FilesOK /\ HistoryOK /\ FaultsOK
      /\ faults \in [FaultKinds -> Nat]
  BY OwnThreads, TypeParts DEF Types, Shape, ThreadsOK
<1>1. at[t] \in {"queue", "done", "close"} => Req(t) \in Requests /\ (t = Main => cur \in Requests)
  BY OwnThreads DEF Types, Shape, Holding, Req
<1>2. "result" \in Boards /\ "done" \in Statuses
  BY DEF Boards, Statuses
<1>3. CASE RunAction(t)
  <2>1. t # Main
    BY <1>0, <1>3 DEF RunAction, ThreadsOK, MainPlaces, Flushing
  <2>2. t \in Requests
    BY <2>1, OwnThreads
  <2>3. HistoryOK'
    BY <1>0, <1>3, <2>2 DEF RunAction, HistoryOK
  <2>4. FilesOK' /\ FaultsOK'
    BY <1>0, <1>3 DEF RunAction, FilesOK, FaultsOK, disk
  <2> QED
    BY <1>0, <1>3, <2>1, <2>3, <2>4, MoveTypes DEF RunAction, local, Flushing, OwnPlaces
<1>4. CASE QueueResult(t)
  <2>1. /\ loc' \in [Threads -> Locals]
        /\ \A u \in Threads : u # t => loc'[u] = loc[u]
        /\ loc'[t].then = "done"
    BY <1>0, <1>4 DEF QueueResult, Flush, Locals
  <2>2. FilesOK' /\ HistoryOK' /\ FaultsOK'
    BY <1>0, <1>1, <1>2, <1>4 DEF QueueResult, FilesOK, HistoryOK, FaultsOK, disk
  <2> QED
    BY <1>0, <1>1, <1>4, <2>1, <2>2, MoveTypes
       DEF QueueResult, Flush, Flushing, InHand, MainPlaces, OwnPlaces
<1>5. CASE QueueFails(t)
  <2>1. FilesOK' /\ HistoryOK' /\ FaultsOK' /\ faults' \in [FaultKinds -> Nat]
    BY <1>0, <1>5, FaultTypes DEF QueueFails, FilesOK, HistoryOK, FaultKinds, disk, history
  <2> QED
    BY <1>0, <1>1, <1>5, <2>1, MoveTypes
       DEF QueueFails, local, Flushing, InHand, MainPlaces, OwnPlaces
<1>6. CASE CompleteEvent(t)
  <2>0. Req(t) \in Requests
        /\ [event |-> "complete", req |-> Req(t)] \in [event : {"claim", "complete"}, req : Requests]
    BY <1>1, <1>6 DEF CompleteEvent
  <2>1. FilesOK' /\ HistoryOK' /\ FaultsOK'
    BY <1>0, <1>6, <2>0 DEF CompleteEvent, AppendEvent, FilesOK, HistoryOK, FaultsOK, history
  <2> QED
    BY <1>0, <1>1, <1>6, <2>1, MoveTypes
       DEF CompleteEvent, local, Flushing, InHand, MainPlaces, OwnPlaces
<1>7. CASE CompleteSave(t) \/ CompleteSaveFails(t)
  <2>0. Req(t) \in Requests
    BY <1>1, <1>7 DEF CompleteSave, CompleteSaveFails, Completed
  <2>1. mem' \in [Requests -> Statuses]
    BY <1>0, <1>2, <1>7, <2>0 DEF CompleteSave, CompleteSaveFails, Completed, FilesOK
  <2>2. FilesOK' /\ HistoryOK'
    BY <1>0, <1>7, <2>1 DEF CompleteSave, CompleteSaveFails, Completed, FilesOK, HistoryOK, history
  <2>3. FaultsOK' /\ faults' \in [FaultKinds -> Nat]
    BY <1>0, <1>7, FaultTypes DEF CompleteSave, CompleteSaveFails, FaultsOK, FaultKinds
  <2>4. /\ UNCHANGED loc /\ batch' \subseteq Requests /\ cur' \in Requests \cup {NoReq}
        /\ t # Main => cur' = cur
    BY <1>0, <1>7 DEF CompleteSave, CompleteSaveFails, Completed
  <2>5. PICK place \in {"task", "idle"} : Goto(t, IF t = Main THEN place ELSE "off")
    BY <1>7 DEF CompleteSave, CompleteSaveFails, Completed
  <2> QED
    BY <1>0, <2>2, <2>3, <2>4, <2>5, MoveTypes DEF Flushing, InHand, MainPlaces, OwnPlaces
<1> QED
  BY <1>3, <1>4, <1>5, <1>6, <1>7 DEF ActionStep

LEMMA FaultStepTypes ==
  Types /\ (Crash \/ SpoilLedger \/ (\E r \in Requests : SpoilBoard(r)) \/ Restart) => Types'
<1> SUFFICES ASSUME Types, Crash \/ SpoilLedger \/ (\E r \in Requests : SpoilBoard(r)) \/ Restart
             PROVE  Types'
  OBVIOUS
<1>0. /\ ThreadsOK /\ FilesOK /\ HistoryOK /\ FaultsOK
      /\ faults \in [FaultKinds -> Nat] /\ MaxFaults \in [FaultKinds -> Nat]
      /\ Main \in Threads
      /\ {"none", "in_progress", "done"} \subseteq Statuses /\ {"none", "spoiled"} \subseteq Boards
  BY OwnThreads, TypeParts, WorkerAssumption DEF Types, Shape, Statuses, Boards
<1>1. CASE Crash
  <2>1. FilesOK' /\ HistoryOK'
    BY <1>0, <1>1 DEF Crash, FilesOK, HistoryOK, history, Unknown
  <2>2. FaultsOK' /\ faults' \in [FaultKinds -> Nat]
    <3>1. CASE faults' = [faults EXCEPT !["crash"] = @ + 1]
      BY <1>0, <1>1, <3>1 DEF Crash, FaultsOK, FaultKinds
    <3>2. CASE faults["torn"] < MaxFaults["torn"] /\ faults' = [faults EXCEPT !["crash"] = @ + 1, !["torn"] = @ + 1]
      BY <1>0, <1>1, <3>2 DEF Crash, FaultsOK, FaultKinds
    <3> QED
      BY <1>1, <3>1, <3>2 DEF Crash
  <2>3. NoLocals \in Locals
    BY DEF NoLocals, Locals, Boards
  <2>4. /\ at' = [t \in Threads |-> IF t = Main THEN "down" ELSE "off"]
        /\ loc' = [t \in Threads |-> NoLocals] /\ batch' = {} /\ cur' = NoReq
    BY <1>1 DEF Crash
  <2>5. ThreadsOK'
    BY <2>3, <2>4, OwnThreads DEF ThreadsOK, MainPlaces, OwnPlaces
  <2>6. Shape'
    BY <2>2, <2>4, OwnThreads DEF Shape, Holding, Flushing, MainPlaces, OwnPlaces
  <2> QED
    BY <2>1, <2>2, <2>5, <2>6, TypeParts, PTL DEF Types
<1>2. CASE SpoilLedger \/ \E r \in Requests : SpoilBoard(r)
  <2>1. FilesOK' /\ HistoryOK'
    BY <1>0, <1>2 DEF SpoilLedger, SpoilBoard, FilesOK, HistoryOK, disk, history, Unknown
  <2>2. FaultsOK' /\ faults' \in [FaultKinds -> Nat]
    BY <1>2, FaultTypes DEF SpoilLedger, SpoilBoard, FaultKinds
  <2>3. UNCHANGED <<at, loc, batch, cur>>
    BY <1>2 DEF SpoilLedger, SpoilBoard, local
  <2>4. ThreadsOK' /\ Shape'
    BY <1>0, <2>2, <2>3 DEF ThreadsOK, Types, Shape, Holding
  <2> QED
    BY <2>1, <2>2, <2>4, TypeParts, PTL DEF Types
<1>3. CASE Restart
  <2>1. mem' \in [Requests -> Statuses]
    BY <1>0, <1>3 DEF Restart, Replayed, FilesOK
  <2>2. FilesOK' /\ HistoryOK' /\ FaultsOK'
    BY <1>0, <1>3, <2>1 DEF Restart, FilesOK, HistoryOK, FaultsOK, disk, history
  <2>3. Goto(Main, "idle") /\ UNCHANGED <<loc, batch, cur, faults>>
    BY <1>3 DEF Restart, local
  <2> QED
    BY <1>0, <2>2, <2>3, MoveTypes DEF ThreadsOK, Flushing, InHand, MainPlaces
<1> QED
  BY <1>1, <1>2, <1>3

LEMMA NextTypes == Types /\ [Next]_vars => Types'
<1>1. ASSUME Types, UNCHANGED vars PROVE Types'
  BY <1>1 DEF vars, disk, local, history, Types, TypeOK, Shape, Holding
<1> QED
  BY <1>1, FlushTypes, PostTypes, MainTypes, ActionTypes, FaultStepTypes DEF Next, Step

LEMMA TypesInvariant == Spec => []Types
BY InitTypes, NextTypes, PTL DEF Spec

(* The ledger, the journal, the outbox and every thread's place and locals are  *)
(* well typed, over crashes at any point and damaged files.                     *)
THEOREM TypesHold == Spec => []TypeOK
<1>1. Types => TypeOK
  BY DEF Types
<1> QED
  BY <1>1, TypesInvariant, PTL

-----------------------------------------------------------------------------
(* No request is run twice                                                   *)

ClaimOf(r) == [event |-> "claim", req |-> r]

\* The threads of a process that is down are gone; one that runs is in the memory.
ThreadInv ==
    /\ at[Main] = "down" => \A r \in Own : at[r] = "off"
    /\ \A r \in Own : at[r] # "off" => mem[r] # "none"

\* What is being claimed is not claimed yet, and its event comes before the ledger.
ClaimInv ==
    /\ torn => faults["torn"] > 0
    /\ at[Main] \in {"claim", "save"} => mem[cur] = "none"
    /\ at[Main] = "save" /\ faults["torn"] = 0 => ClaimOf(cur) \in journal

\* A request that was started is on file, twice, until one of the files is damaged.
OnFile(r) ==
    /\ faults["ledger"] = 0 => ledger[r] # "none"
    /\ faults["torn"] = 0 => ClaimOf(r) \in journal
    /\ at[Main] # "down" => mem[r] # "none"
StartInv ==
    Remembers =>
        /\ \A r \in Requests : ran[r] # 0 => OnFile(r) /\ ran[r] <= 1
        /\ \A r \in Own : at[r] = "run" => OnFile(r) /\ ran[r] = 0

IInv == ThreadInv /\ ClaimInv /\ StartInv

LEMMA InitInv == Init => IInv
<1> SUFFICES ASSUME Init PROVE IInv
  OBVIOUS
<1>1. at[Main] = "idle" /\ \A r \in Own : at[r] = "off"
  BY OwnThreads DEF Init
<1>2. \A r \in Requests : ran[r] = 0
  BY DEF Init
<1> QED
  BY <1>1, <1>2 DEF Init, IInv, ThreadInv, ClaimInv, StartInv

FaultsGrow == faults'["torn"] >= faults["torn"] /\ faults'["ledger"] >= faults["ledger"]

LEMMA FaultsNat == Types => /\ faults["torn"] \in Nat /\ faults["ledger"] \in Nat
                            /\ faults \in [FaultKinds -> Nat]
BY DEF Types, Shape, FaultKinds

LEMMA FaultGrows ==
  ASSUME Types, NEW k \in FaultKinds, Fault(k)
  PROVE  FaultsGrow
BY FaultsNat DEF Fault, FaultsGrow, FaultKinds

\* Steps that neither claim, start, end nor lose anything.
LEMMA QuietInv ==
  ASSUME Types, Types', IInv, UNCHANGED <<mem, ledger, ran>>, journal \subseteq journal',
         FaultsGrow, torn' => torn,
         at[Main] = "down" => UNCHANGED at,
         at'[Main] = "down" => at[Main] = "down",
         at'[Main] \in {"claim", "save"} => at'[Main] = at[Main] /\ cur' = cur,
         \A r \in Own : (at'[r] = "run" => at[r] = "run") /\ (at'[r] # "off" => at[r] # "off")
  PROVE  IInv'
<1>0. /\ faults["torn"] \in Nat /\ faults["ledger"] \in Nat
      /\ faults'["torn"] \in Nat /\ faults'["ledger"] \in Nat
  BY DEF Types, Shape, FaultKinds
<1>1. ThreadInv'
  BY DEF IInv, ThreadInv
<1>2. ClaimInv'
  BY <1>0 DEF IInv, ClaimInv, FaultsGrow
<1>3. Remembers' => Remembers
  BY <1>0 DEF Remembers, FaultsGrow
<1>4. ASSUME NEW r, OnFile(r) PROVE OnFile(r)'
  BY <1>0, <1>4 DEF OnFile, FaultsGrow
<1>5. StartInv'
  BY <1>3, <1>4 DEF IInv, StartInv
<1> QED
  BY <1>1, <1>2, <1>5 DEF IInv

LEMMA FlushInv ==
  ASSUME Types, Types', IInv, NEW t \in Threads,
         FlushStep(t) \/ \E r \in Requests : Post(t, r)
  PROVE  IInv'
<1>1. at[t] \in Flushing /\ (t # Main => loc[t].then = "done")
      /\ loc[t].then \in {"idle", "fetch", "task", "done"}
  BY OwnThreads
     DEF FlushStep, List, Read, ReadGone, Quarantine, PostFails, Remove, Flushed, Post,
         Types, TypeOK, Shape, Flushing
<1>2. UNCHANGED <<mem, ledger, ran, journal, torn, faults>>
  BY <1>1 DEF FlushStep, List, Read, ReadGone, Quarantine, PostFails, Remove, Flushed, Post,
              disk, history
<1>3. PICK place \in {"idle", "fetch", "task", "done"} \cup Flushing : Goto(t, place)
  <2>1. CASE Quarantine(t)
    BY <1>1, <2>1 DEF Quarantine, Goto, Types, Shape
  <2>2. CASE ReadGone(t) \/ PostFails(t)
    BY <1>1, <2>2 DEF ReadGone, PostFails, Abandon, AfterException
  <2> QED
    BY <1>1, <2>1, <2>2 DEF FlushStep, List, Read, Remove, Flushed, Post, Flushing
<1>4. /\ at'[t] = place /\ \A u \in Threads : u # t => at'[u] = at[u]
  BY <1>3 DEF Goto, Types, Shape
<1>5. cur' = cur
  BY DEF FlushStep, List, Read, ReadGone, Quarantine, PostFails, Remove, Flushed, Post, Abandon, local
<1>6. at[Main] # "down"
  BY <1>1, OwnThreads DEF IInv, ThreadInv, Flushing
<1>7. at'[Main] # "down" /\ (at'[Main] \in {"claim", "save"} => at'[Main] = at[Main])
  BY <1>3, <1>4, <1>6, OwnThreads DEF Flushing
<1>8. \A r \in Own : (at'[r] = "run" => at[r] = "run") /\ (at'[r] # "off" => at[r] # "off")
  BY <1>1, <1>3, <1>4, OwnThreads DEF Flushing
<1>9. FaultsGrow
  BY <1>2, FaultsNat DEF FaultsGrow
<1> QED
  BY <1>2, <1>5, <1>6, <1>7, <1>8, <1>9, QuietInv

LEMMA MainInv ==
  ASSUME Types, Types', IInv, MainStep
  PROVE  IInv'
<1>0. Main \in Threads /\ at \in [Threads -> MainPlaces \cup OwnPlaces] /\ at[Main] # "down"
  BY OwnThreads DEF Types, Shape, MainStep, PollBegin, Fetch, PollEnd, ClaimEvent, ClaimSave,
        ClaimSaveFails, TaskDuplicate, TaskRefused, TaskPasses, TakeTask
<1>1. CASE PollBegin \/ Fetch \/ PollEnd \/ \E r \in Requests : TaskDuplicate(r) \/ TaskRefused(r)
  <2>1. UNCHANGED <<mem, ledger, ran, journal, torn, faults>>
    BY <1>1 DEF PollBegin, Fetch, PollEnd, TaskDuplicate, TaskRefused, disk, history
  <2>2. PICK place \in {"task", "idle", "list"} : Goto(Main, place)
    BY <1>0, <1>1 DEF PollBegin, FirstOfPoll, Fetch, PollEnd, TaskDuplicate, TaskRefused, TakeTask, Flush, Goto
  <2>3. /\ at'[Main] = place /\ \A r \in Own : at'[r] = at[r]
    BY <1>0, <2>2, OwnThreads DEF Goto
  <2>4. FaultsGrow
    BY <2>1, FaultsNat DEF FaultsGrow
  <2> QED
    BY <1>0, <2>1, <2>3, <2>4, QuietInv
<1>2. CASE \E r \in Requests : TaskPasses(r)
  <2>1. /\ UNCHANGED <<mem, ledger, ran, journal, torn, faults>>
        /\ mem[cur'] = "none" /\ Goto(Main, "claim")
    BY <1>2 DEF TaskPasses, disk, history
  <2>2. at'[Main] = "claim" /\ \A r \in Own : at'[r] = at[r]
    BY <1>0, <2>1, OwnThreads DEF Goto
  <2> QED
    BY <1>0, <2>1, <2>2 DEF IInv, ThreadInv, ClaimInv, StartInv, OnFile, Remembers
<1>3. CASE ClaimEvent
  <2>1. /\ UNCHANGED <<mem, ledger, ran, cur, faults>>
        /\ mem[cur] = "none" /\ Goto(Main, "save") /\ torn' = FALSE
        /\ journal \subseteq journal'
        /\ ~torn => ClaimOf(cur) \in journal'
    BY <1>3 DEF ClaimEvent, AppendEvent, local, history, IInv, ClaimInv, ClaimOf
  <2>2. at'[Main] = "save" /\ \A r \in Own : at'[r] = at[r]
    BY <1>0, <2>1, OwnThreads DEF Goto
  <2>3. faults["torn"] = 0 => ~torn
    BY FaultsNat DEF IInv, ClaimInv
  <2> QED
    BY <1>0, <2>1, <2>2, <2>3 DEF IInv, ThreadInv, ClaimInv, StartInv, OnFile, Remembers
<1>4. CASE ClaimSave \/ ClaimSaveFails
  <2>0. /\ cur \in Requests /\ mem[cur] = "none" /\ mem \in [Requests -> Statuses]
        /\ ledger \in [Requests -> Statuses]
    BY <1>4 DEF ClaimSave, ClaimSaveFails, Types, TypeOK, Shape, Holding, IInv, ClaimInv
  <2>1. mem' = [mem EXCEPT ![cur] = "in_progress"]
    BY <1>4 DEF ClaimSave, ClaimSaveFails
  <2>2. \A r \in Requests : mem[r] # "none" => mem'[r] # "none"
    BY <2>0, <2>1
  <2>3. UNCHANGED <<journal, torn, ran>> /\ FaultsGrow
    BY <1>4, FaultGrows, FaultsNat DEF ClaimSave, ClaimSaveFails, disk, history, FaultsGrow, FaultKinds
  <2>4. at'[Main] \notin {"down", "claim", "save"}
    BY <1>0, <1>4, OwnThreads, WorkerAssumption DEF ClaimSave, ClaimSaveFails, Goto
  <2>5. \A r \in Own : r # cur => at'[r] = at[r]
    BY <1>0, <1>4, OwnThreads DEF ClaimSave, ClaimSaveFails, Goto
  <2>6. ThreadInv'
    BY <2>0, <2>1, <2>2, <2>4, <2>5, OwnThreads DEF IInv, ThreadInv
  <2>7. /\ faults["torn"] \in Nat /\ faults["ledger"] \in Nat
        /\ faults'["torn"] \in Nat /\ faults'["ledger"] \in Nat
    BY DEF Types, Shape, FaultKinds
  <2>8. ClaimInv'
    BY <2>3, <2>4, <2>7 DEF IInv, ClaimInv, FaultsGrow
  <2>9. ledger' = ledger \/ ledger' = mem'
    BY <1>4 DEF ClaimSave, ClaimSaveFails, disk
  <2>10. ASSUME NEW r \in Requests, OnFile(r) PROVE OnFile(r)'
    BY <1>0, <2>2, <2>3, <2>7, <2>9, <2>10 DEF OnFile, FaultsGrow
  <2>11. Remembers' => Remembers
    BY <2>3, <2>7 DEF Remembers, FaultsGrow
  <2>12. ASSUME Remembers, NEW r \in Own, at'[r] = "run" PROVE OnFile(r)' /\ ran'[r] = 0
    <3>1. CASE at[r] = "run"
      BY <2>3, <2>10, <2>12, <3>1, OwnThreads DEF IInv, StartInv
    <3>2. CASE at[r] # "run"
      <4>1. r = cur /\ ClaimSave
        BY <1>0, <1>4, <2>5, <2>12, <3>2, OwnThreads DEF ClaimSaveFails, Goto
      <4>2. /\ mem'[r] # "none" /\ ledger' = mem'
            /\ faults["torn"] = 0 => ClaimOf(cur) \in journal
        BY <2>0, <2>1, <4>1 DEF ClaimSave, IInv, ClaimInv
      <4>3. ran[r] = 0
        BY <1>0, <2>0, <2>12, <4>1 DEF IInv, StartInv, OnFile
      <4> QED
        BY <2>3, <2>7, <4>1, <4>2, <4>3 DEF OnFile, FaultsGrow
    <3> QED
      BY <3>1, <3>2
  <2> QED
    BY <2>3, <2>6, <2>8, <2>10, <2>11, <2>12 DEF IInv, StartInv
<1> QED
  BY <1>1, <1>2, <1>3, <1>4 DEF MainStep

LEMMA ActionInv ==
  ASSUME Types, Types', IInv, NEW t \in Threads, ActionStep(t)
  PROVE  IInv'
<1>0. at \in [Threads -> MainPlaces \cup OwnPlaces] /\ at[t] \in {"run", "queue", "done", "close"}
  BY DEF Types, Shape, ActionStep, RunAction, QueueResult, QueueFails, CompleteEvent,
         CompleteSave, CompleteSaveFails, Completed
<1>1. at[Main] # "down"
  BY <1>0, OwnThreads DEF IInv, ThreadInv
<1>2. CASE QueueResult(t) \/ QueueFails(t) \/ CompleteEvent(t)
  <2>1. UNCHANGED <<mem, ledger, ran, cur>> /\ journal \subseteq journal' /\ (torn' => torn)
    BY <1>2 DEF QueueResult, QueueFails, CompleteEvent, AppendEvent, disk, history, local
  <2>2. FaultsGrow
    BY <1>2, FaultGrows, FaultsNat
       DEF QueueResult, QueueFails, CompleteEvent, FaultsGrow, FaultKinds
  <2>3. PICK place \in {"list", "done", "close"} : Goto(t, place)
    BY <1>2 DEF QueueResult, QueueFails, CompleteEvent, Flush
  <2>4. at'[t] = place /\ \A u \in Threads : u # t => at'[u] = at[u]
    BY <1>0, <2>3 DEF Goto
  <2> QED
    BY <1>0, <1>1, <2>1, <2>2, <2>4, OwnThreads, QuietInv
<1>3. CASE RunAction(t)
  <2>1. t \in Own
    BY <1>3, OwnThreads DEF RunAction, Types, TypeOK, Flushing
  <2>2. /\ UNCHANGED <<mem, ledger, journal, torn, cur, faults>>
        /\ ran' = [ran EXCEPT ![t] = @ + 1] /\ Goto(t, "queue")
    BY <1>3 DEF RunAction, disk, local
  <2>3. /\ at'[t] = "queue" /\ at'[Main] = at[Main]
        /\ \A r \in Own : r # t => at'[r] = at[r]
    BY <1>0, <2>1, <2>2, OwnThreads DEF Goto
  <2>4. ThreadInv' /\ ClaimInv'
    BY <1>0, <1>1, <2>1, <2>2, <2>3 DEF IInv, ThreadInv, ClaimInv
  <2>5. ran \in [Requests -> Nat] /\ t \in Requests
    BY <2>1, OwnThreads DEF Types, TypeOK
  <2>6. \A r : OnFile(r) => OnFile(r)'
    BY <2>2, <2>3 DEF OnFile
  <2>7. Remembers => OnFile(t) /\ ran[t] = 0
    BY <1>3, <2>1 DEF RunAction, IInv, StartInv
  <2>8. Remembers' => Remembers
    BY <2>2 DEF Remembers
  <2>9. \A r \in Requests : r # t => ran'[r] = ran[r]
    BY <2>2, <2>5
  <2>10. Remembers => ran'[t] = 1
    BY <2>2, <2>5, <2>7
  <2>11. StartInv'
    BY <2>3, <2>5, <2>6, <2>7, <2>8, <2>9, <2>10, OwnThreads DEF IInv, StartInv
  <2> QED
    BY <2>4, <2>11 DEF IInv
<1>4. CASE CompleteSave(t) \/ CompleteSaveFails(t)
  <2>0. /\ Req(t) \in Requests /\ mem \in [Requests -> Statuses]
        /\ at[t] = "close" /\ mem' = [mem EXCEPT ![Req(t)] = "done"]
    BY <1>4, OwnThreads DEF CompleteSave, CompleteSaveFails, Completed, Types, TypeOK, Shape,
          Holding, Req
  <2>1. \A r \in Requests : mem[r] # "none" => mem'[r] # "none"
    BY <2>0
  <2>2. UNCHANGED <<journal, torn, ran>> /\ FaultsGrow
    BY <1>4, FaultGrows, FaultsNat
       DEF CompleteSave, CompleteSaveFails, Completed, history, FaultsGrow, FaultKinds
  <2>3. /\ faults["torn"] \in Nat /\ faults["ledger"] \in Nat
        /\ faults'["torn"] \in Nat /\ faults'["ledger"] \in Nat
    BY DEF Types, Shape, FaultKinds
  <2>4. ledger' = ledger \/ ledger' = mem'
    BY <1>4 DEF CompleteSave, CompleteSaveFails
  <2>5. PICK place \in {"task", "idle"} : Goto(t, IF t = Main THEN place ELSE "off")
    BY <1>4 DEF CompleteSave, CompleteSaveFails, Completed
  <2>6. /\ at'[t] = (IF t = Main THEN place ELSE "off")
        /\ \A u \in Threads : u # t => at'[u] = at[u]
        /\ t # Main => cur' = cur /\ Req(t) = t
    BY <1>0, <1>4, <2>5 DEF Goto, CompleteSave, CompleteSaveFails, Completed, Req
  <2>7. ThreadInv'
    BY <1>1, <2>1, <2>6, OwnThreads DEF IInv, ThreadInv
  <2>8. ClaimInv'
    <3>1. CASE t = Main
      BY <2>2, <2>3, <2>6, <3>1 DEF IInv, ClaimInv, FaultsGrow
    <3>2. CASE t # Main
      <4>1. mem[t] # "none" /\ at'[Main] = at[Main] /\ cur' = cur
        BY <2>0, <2>6, <3>2, OwnThreads DEF IInv, ThreadInv
      <4>2. at[Main] \in {"claim", "save"} => cur \in Requests /\ mem'[cur] = "none"
        BY <2>0, <2>6, <3>2, <4>1 DEF IInv, ClaimInv, Types, Shape, Holding
      <4> QED
        BY <2>2, <2>3, <4>1, <4>2 DEF IInv, ClaimInv, FaultsGrow
    <3> QED
      BY <3>1, <3>2
  <2>9. ASSUME NEW r \in Requests, OnFile(r) PROVE OnFile(r)'
    BY <1>1, <2>1, <2>2, <2>3, <2>4, <2>9 DEF OnFile, FaultsGrow
  <2>10. Remembers' => Remembers
    BY <2>2, <2>3 DEF Remembers, FaultsGrow
  <2>11. \A r \in Own : at'[r] = "run" => at[r] = "run"
    BY <2>6, OwnThreads
  <2>12. StartInv'
    BY <2>2, <2>9, <2>10, <2>11, OwnThreads DEF IInv, StartInv
  <2> QED
    BY <2>7, <2>8, <2>12 DEF IInv
<1> QED
  BY <1>2, <1>3, <1>4 DEF ActionStep

LEMMA FaultInv ==
  ASSUME Types, Types', IInv,
         Crash \/ SpoilLedger \/ (\E r \in Requests : SpoilBoard(r)) \/ Restart
  PROVE  IInv'
<1>0. /\ faults["torn"] \in Nat /\ faults["ledger"] \in Nat
      /\ faults'["torn"] \in Nat /\ faults'["ledger"] \in Nat
      /\ faults \in [FaultKinds -> Nat]
      /\ at \in [Threads -> MainPlaces \cup OwnPlaces] /\ Main \in Threads
  BY OwnThreads DEF Types, Shape, FaultKinds
<1>1. CASE Crash
  <2>1. UNCHANGED <<ledger, journal, ran>>
    BY <1>1 DEF Crash, history
  <2>2. at'[Main] = "down" /\ \A r \in Own : at'[r] = "off"
    BY <1>1, OwnThreads DEF Crash
  <2>3. FaultsGrow /\ (torn' => torn \/ faults'["torn"] > 0)
    BY <1>0, <1>1 DEF Crash, FaultsGrow, FaultKinds
  <2>4. ThreadInv' /\ ClaimInv'
    BY <1>0, <2>2, <2>3 DEF IInv, ThreadInv, ClaimInv, FaultsGrow
  <2>5. Remembers' => Remembers
    BY <1>0, <2>3 DEF Remembers, FaultsGrow
  <2>6. \A r : OnFile(r) => OnFile(r)'
    BY <1>0, <2>1, <2>2, <2>3 DEF OnFile, FaultsGrow
  <2>7. StartInv'
    BY <2>1, <2>2, <2>5, <2>6 DEF IInv, StartInv
  <2> QED
    BY <2>4, <2>7 DEF IInv
<1>2. CASE SpoilLedger
  <2>1. /\ UNCHANGED <<journal, torn, mem, at, cur, ran>>
        /\ faults'["ledger"] > 0 /\ faults'["torn"] = faults["torn"]
    BY <1>0, <1>2 DEF SpoilLedger, Fault, FaultKinds, local, history
  <2>2. Remembers' => Remembers
    BY <1>0, <2>1 DEF Remembers
  <2>3. \A r : OnFile(r) => OnFile(r)'
    BY <2>1 DEF OnFile
  <2> QED
    BY <2>1, <2>2, <2>3 DEF IInv, ThreadInv, ClaimInv, StartInv
<1>3. CASE \E r \in Requests : SpoilBoard(r)
  <2>1. UNCHANGED <<ledger, journal, torn, mem, at, cur, ran>> /\ FaultsGrow
    BY <1>3, FaultGrows DEF SpoilBoard, disk, local, FaultKinds
  <2> QED
    BY <2>1, QuietInv
<1>4. CASE Restart
  <2>1. UNCHANGED <<ledger, journal, torn, ran, faults>>
    BY <1>4 DEF Restart, disk, history
  <2>2. at'[Main] = "idle" /\ \A r \in Own : at'[r] = "off"
    BY <1>0, <1>4, OwnThreads DEF Restart, Goto, IInv, ThreadInv
  <2>3. ThreadInv' /\ ClaimInv'
    BY <2>1, <2>2 DEF IInv, ThreadInv, ClaimInv
  <2>4. ASSUME Remembers, NEW r \in Requests, OnFile(r) PROVE OnFile(r)'
    <3>1. ledger[r] # "none" \/ ClaimOf(r) \in journal
      BY <1>0, <2>4 DEF OnFile, Remembers
    <3>2. mem'[r] # "none"
      BY <1>4, <3>1 DEF Restart, Replayed, ClaimOf
    <3> QED
      BY <2>1, <2>4, <3>2 DEF OnFile
  <2>5. StartInv'
    BY <2>1, <2>2, <2>4 DEF IInv, StartInv, Remembers
  <2> QED
    BY <2>3, <2>5 DEF IInv
<1> QED
  BY <1>1, <1>2, <1>3, <1>4

LEMMA StutterInv == IInv /\ UNCHANGED vars => IInv'
BY DEF vars, disk, local, history, IInv, ThreadInv, ClaimInv, StartInv, OnFile, Remembers

LEMMA NextInv == Types /\ Types' /\ IInv /\ [Next]_vars => IInv'
BY FlushInv, MainInv, ActionInv, FaultInv, StutterInv DEF Next, Step

(* No request is run twice, however often the process dies and wherever, and    *)
(* whichever of its two files is damaged, as long as it is only one of them.    *)
THEOREM AtMostOnceHolds == Spec => []AtMostOnce
<1>1. Types /\ IInv => AtMostOnce
  <2> SUFFICES ASSUME Types, IInv, Remembers, NEW r \in Requests PROVE ran[r] <= 1
    BY DEF AtMostOnce
  <2>1. ran[r] \in Nat
    BY DEF Types, TypeOK
  <2> QED
    BY <2>1 DEF IInv, StartInv
<1> QED
  BY <1>1, InitInv, NextInv, TypesInvariant, PTL DEF Spec

-----------------------------------------------------------------------------
(* No result is replaced by a refusal                                        *)

LEMMA GrowsOnFile ==
  ASSUME Types, Types', IInv, IInv', [Next]_vars
  PROVE  journal \subseteq journal' /\ FaultsGrow
<1>1. CASE UNCHANGED vars
  BY <1>1, FaultsNat DEF vars, disk, FaultsGrow
<1>2. ASSUME NEW t \in Threads, FlushStep(t) \/ \E r \in Requests : Post(t, r)
      PROVE  journal \subseteq journal' /\ FaultsGrow
  <2>1. UNCHANGED <<journal, faults>>
    BY <1>2 DEF FlushStep, List, Read, ReadGone, Quarantine, PostFails, Remove, Flushed, Post, disk
  <2> QED
    BY <2>1, FaultsNat DEF FaultsGrow
<1>3. CASE MainStep
  <2>1. CASE ClaimSaveFails
    BY <2>1, FaultGrows DEF ClaimSaveFails, disk, FaultKinds
  <2>2. CASE ~ClaimSaveFails
    BY <1>3, <2>2, FaultsNat
       DEF MainStep, PollBegin, Fetch, PollEnd, ClaimEvent, AppendEvent, ClaimSave,
           TaskDuplicate, TaskRefused, TaskPasses, disk, FaultsGrow
  <2> QED
    BY <2>1, <2>2
<1>4. ASSUME NEW t \in Threads, ActionStep(t) PROVE journal \subseteq journal' /\ FaultsGrow
  BY <1>4, FaultGrows, FaultsNat
     DEF ActionStep, RunAction, QueueResult, QueueFails, CompleteEvent, AppendEvent,
         CompleteSave, CompleteSaveFails, Completed, disk, FaultsGrow, FaultKinds
<1>5. CASE Crash
  BY <1>5, FaultsNat DEF Crash, FaultsGrow, FaultKinds
<1>6. CASE SpoilLedger \/ (\E r \in Requests : SpoilBoard(r)) \/ Restart
  BY <1>6, FaultGrows, FaultsNat DEF SpoilLedger, SpoilBoard, Restart, disk, FaultsGrow, FaultKinds
<1> QED
  BY <1>1, <1>2, <1>3, <1>4, <1>5, <1>6 DEF Next, Step

\* What is on file stays there.
LEMMA OnFileKept ==
  ASSUME Types, Types', IInv, IInv', [Next]_vars, Remembers', NEW r \in Requests, OnFile(r)
  PROVE  OnFile(r)'
<1>0. /\ faults["torn"] \in Nat /\ faults["ledger"] \in Nat
      /\ faults'["torn"] \in Nat /\ faults'["ledger"] \in Nat
      /\ journal \subseteq journal' /\ FaultsGrow
      /\ mem \in [Requests -> Statuses] /\ ledger \in [Requests -> Statuses]
      /\ at \in [Threads -> MainPlaces \cup OwnPlaces] /\ Main \in Threads
  BY GrowsOnFile, OwnThreads DEF Types, TypeOK, Shape, FaultKinds
<1>1. Remembers
  BY <1>0 DEF Remembers, FaultsGrow
<1>2. CASE UNCHANGED <<mem, ledger>> /\ (at[Main] = "down" => at'[Main] = "down")
  BY <1>0, <1>2 DEF OnFile, FaultsGrow
<1>3. CASE ClaimSave \/ ClaimSaveFails \/ \E t \in Threads : CompleteSave(t) \/ CompleteSaveFails(t)
  <2>1. at[Main] # "down" /\ (ledger' = ledger \/ ledger' = mem')
    BY <1>3, OwnThreads DEF ClaimSave, ClaimSaveFails, CompleteSave, CompleteSaveFails, Completed,
          disk, IInv, ThreadInv
  <2>2. mem[r] # "none" => mem'[r] # "none"
    BY <1>0, <1>3 DEF ClaimSave, ClaimSaveFails, CompleteSave, CompleteSaveFails, Completed
  <2> QED
    BY <1>0, <2>1, <2>2 DEF OnFile, FaultsGrow
<1>4. CASE Crash
  <2>1. UNCHANGED ledger /\ at'[Main] = "down"
    BY <1>0, <1>4 DEF Crash
  <2> QED
    BY <1>0, <2>1 DEF OnFile, FaultsGrow
<1>5. CASE SpoilLedger
  <2>1. UNCHANGED <<mem, at>> /\ faults'["ledger"] > 0
    BY <1>0, <1>5 DEF SpoilLedger, Fault, Types, Shape, FaultKinds
  <2> QED
    BY <1>0, <2>1 DEF OnFile, FaultsGrow
<1>6. CASE Restart
  <2>1. ledger[r] # "none" \/ ClaimOf(r) \in journal
    BY <1>0, <1>1 DEF OnFile, Remembers
  <2>2. mem'[r] # "none" /\ UNCHANGED ledger
    BY <1>6, <2>1 DEF Restart, Replayed, ClaimOf, disk
  <2> QED
    BY <1>0, <2>2 DEF OnFile, FaultsGrow
<1>7. CASE UNCHANGED vars
  BY <1>2, <1>7 DEF vars, disk
<1>8. CASE \E t \in Threads : FlushStep(t) \/ \E q \in Requests : Post(t, q)
  <2>1. UNCHANGED <<mem, ledger>>
    BY <1>8 DEF FlushStep, List, Read, ReadGone, Quarantine, PostFails, Remove, Flushed, Post, disk
  <2>2. at[Main] # "down"
    BY <1>8, OwnThreads DEF FlushStep, List, Read, ReadGone, Quarantine, PostFails, Remove, Flushed,
          Post, IInv, ThreadInv
  <2> QED
    BY <1>2, <2>1, <2>2
<1>9. CASE \/ PollBegin \/ Fetch \/ PollEnd \/ ClaimEvent
           \/ \E q \in Requests : TaskDuplicate(q) \/ TaskRefused(q) \/ TaskPasses(q)
  <2>1. UNCHANGED <<mem, ledger>>
    BY <1>9 DEF PollBegin, Fetch, PollEnd, ClaimEvent, AppendEvent, TaskDuplicate, TaskRefused,
                TaskPasses, disk
  <2>2. at[Main] # "down"
    BY <1>9 DEF PollBegin, Fetch, PollEnd, ClaimEvent, TaskDuplicate, TaskRefused, TaskPasses, TakeTask
  <2> QED
    BY <1>2, <2>1, <2>2
<1>10. CASE \E t \in Threads : RunAction(t) \/ QueueResult(t) \/ QueueFails(t) \/ CompleteEvent(t)
  <2>1. UNCHANGED <<mem, ledger>>
    BY <1>10 DEF RunAction, QueueResult, QueueFails, CompleteEvent, AppendEvent, disk
  <2>2. at[Main] # "down"
    BY <1>10, OwnThreads DEF RunAction, QueueResult, QueueFails, CompleteEvent, IInv, ThreadInv
  <2> QED
    BY <1>2, <2>1, <2>2
<1>11. CASE \E q \in Requests : SpoilBoard(q)
  BY <1>2, <1>11 DEF SpoilBoard, disk
<1> QED
  BY <1>3, <1>4, <1>5, <1>6, <1>7, <1>8, <1>9, <1>10, <1>11 DEF Next, Step, MainStep, ActionStep

\* Whose result is queued, or about to be, is on file.
BoardInv ==
    Remembers =>
        /\ \A r \in Requests : outbox[r] = "result" => OnFile(r)
        /\ \A t \in Threads : at[t] = "queue" => OnFile(Req(t))

LEMMA InitBoard == Init => BoardInv
<1> SUFFICES ASSUME Init PROVE BoardInv
  OBVIOUS
<1>1. \A t \in Threads : at[t] # "queue"
  BY DEF Init
<1> QED
  BY <1>1 DEF Init, BoardInv, Unknown

LEMMA NextBoard ==
  ASSUME Types, Types', IInv, IInv', BoardInv, [Next]_vars
  PROVE  BoardInv'
<1> SUFFICES ASSUME Remembers'
             PROVE  /\ \A r \in Requests : outbox'[r] = "result" => OnFile(r)'
                    /\ \A t \in Threads : at'[t] = "queue" => OnFile(Req(t))'
  BY DEF BoardInv
<1>0. /\ outbox \in [Requests -> Boards]
      /\ at \in [Threads -> MainPlaces \cup OwnPlaces] /\ Main \in Threads
      /\ cur \in Requests \cup {NoReq}
  BY OwnThreads DEF Types, TypeOK, Shape
<1>1. Remembers
  BY GrowsOnFile DEF Remembers, FaultsGrow, Types, Shape, FaultKinds
<1>2. \A r \in Requests : OnFile(r) => OnFile(r)'
  BY OnFileKept
<1>3. \A t \in Threads : at[t] = "queue" => Req(t) \in Requests
  BY OwnThreads DEF Types, Shape, Holding, Req
<1>4. ASSUME NEW r \in Requests, outbox'[r] = "result" PROVE OnFile(r)'
  <2>1. CASE outbox[r] = "result"
    BY <1>1, <1>2, <2>1 DEF BoardInv
  <2>2. CASE outbox[r] # "result"
    <3>1. PICK t \in Threads : QueueResult(t)
      <4>1. CASE outbox' = outbox
        BY <1>4, <2>2, <4>1
      <4>2. CASE \E q \in Requests, b \in {"none", "refusal", "spoiled"} : outbox' = [outbox EXCEPT ![q] = b]
        BY <1>0, <1>4, <2>2, <4>2
      <4>3. CASE \E t \in Threads : FlushStep(t) \/ \E q \in Requests : Post(t, q)
        BY <1>0, <1>4, <2>2, <4>3
           DEF FlushStep, List, Read, ReadGone, Quarantine, PostFails, OutboxAfterFailure,
               Remove, Flushed, Post
      <4> QED
        BY <4>1, <4>2, <4>3
           DEF Next, Step, MainStep, PollBegin, Fetch, PollEnd, ClaimEvent, ClaimSave, ClaimSaveFails,
               TaskDuplicate, TaskRefused, TaskPasses, ActionStep, RunAction, QueueFails,
               CompleteEvent, CompleteSave, CompleteSaveFails, Completed, Crash, SpoilLedger,
               SpoilBoard, Restart, vars
    <3>2. r = Req(t) /\ at[t] = "queue"
      BY <1>0, <1>4, <2>2, <3>1 DEF QueueResult
    <3> QED
      BY <1>1, <1>2, <3>2 DEF BoardInv
  <2> QED
    BY <2>1, <2>2
<1>5. ASSUME NEW t \in Threads, at'[t] = "queue" PROVE OnFile(Req(t))'
  <2>1. CASE at[t] = "queue" /\ Req(t)' = Req(t)
    <3>1. OnFile(Req(t)) /\ Req(t) \in Requests
      BY <1>1, <1>3, <2>1 DEF BoardInv
    <3> QED
      BY <1>2, <2>1, <3>1 DEF OnFile
  <2>2. CASE RunAction(t)
    <3>1. t \in Own /\ t # Main
      BY <2>2, OwnThreads DEF RunAction, Types, TypeOK, Flushing
    <3>2. OnFile(t) /\ t \in Requests
      BY <1>1, <2>2, <3>1, OwnThreads DEF RunAction, IInv, StartInv
    <3> QED
      BY <1>2, <3>1, <3>2 DEF Req, OnFile
  <2>3. CASE t = Main /\ ClaimSave
    <3>1. /\ cur \in Requests /\ mem \in [Requests -> Statuses]
          /\ mem' = [mem EXCEPT ![cur] = "in_progress"] /\ ledger' = mem'
          /\ UNCHANGED <<journal, faults>>
          /\ faults["torn"] = 0 => ClaimOf(cur) \in journal
      BY <2>3 DEF ClaimSave, Types, TypeOK, Shape, Holding, IInv, ClaimInv
    <3>2. cur' = cur
      BY <1>0, <1>5, <2>3, <3>1, OwnThreads DEF ClaimSave, Own
    <3> QED
      BY <2>3, <3>1, <3>2 DEF Req, OnFile
  <2>4. CASE \E u \in Threads : u # t /\ (Step(u) \/ \E r \in Requests : Post(u, r))
    <3>1. CASE t \in Own /\ MainStep
      <4>1. at'[t] = at[t] \/ at'[t] = "run"
        BY <1>0, <3>1, OwnThreads
           DEF MainStep, PollBegin, Fetch, PollEnd, ClaimEvent, ClaimSave, ClaimSaveFails,
               TaskDuplicate, TaskRefused, TaskPasses, TakeTask, Flush, Goto
      <4> QED
        BY <1>5, <2>1, <3>1, <4>1, OwnThreads DEF Req
    <3>2. PICK u \in Threads : /\ u # t
                              /\ \/ MainStep /\ t \in Own
                                 \/ FlushStep(u) \/ ActionStep(u) \/ \E r \in Requests : Post(u, r)
      BY <2>4, OwnThreads DEF Step
    <3>3. CASE FlushStep(u) \/ ActionStep(u) \/ \E r \in Requests : Post(u, r)
      <4>1. at'[t] = at[t]
        BY <1>0, <3>2, <3>3
           DEF FlushStep, List, Read, ReadGone, Quarantine, PostFails, Remove, Flushed, Post, Abandon,
               ActionStep, RunAction, QueueResult, QueueFails, CompleteEvent, CompleteSave,
               CompleteSaveFails, Completed, Flush, Goto
      <4>2. u # Main => cur' = cur
        BY <3>3
           DEF FlushStep, List, Read, ReadGone, Quarantine, PostFails, Remove, Flushed, Post, Abandon,
               ActionStep, RunAction, QueueResult, QueueFails, CompleteEvent, CompleteSave,
               CompleteSaveFails, Completed, local
      <4> QED
        BY <1>5, <2>1, <3>2, <4>1, <4>2 DEF Req
    <3> QED
      BY <3>1, <3>2, <3>3
  <2>5. CASE Step(t) \/ \E r \in Requests : Post(t, r)
    <3>1. CASE t = Main /\ MainStep
      BY <1>0, <1>5, <2>3, <3>1
         DEF MainStep, PollBegin, FirstOfPoll, Fetch, PollEnd, ClaimEvent, ClaimSaveFails,
             TaskDuplicate, TaskRefused, TaskPasses, TakeTask, Flush, Goto
    <3>2. CASE ActionStep(t)
      <4>1. RunAction(t)
        BY <1>0, <1>5, <3>2
           DEF ActionStep, QueueResult, QueueFails, CompleteEvent, CompleteSave,
               CompleteSaveFails, Completed, Flush, Goto
      <4> QED
        BY <2>2, <4>1
    <3>3. CASE FlushStep(t) \/ \E r \in Requests : Post(t, r)
      <4>1. loc[t].then \in {"idle", "fetch", "task", "done"}
        BY DEF Types, TypeOK
      <4> QED
        BY <1>0, <1>5, <3>3, <4>1
           DEF FlushStep, List, Read, ReadGone, Quarantine, PostFails, Remove, Flushed, Post, Abandon,
               AfterException, Goto
    <3> QED
      BY <2>5, <3>1, <3>2, <3>3 DEF Step
  <2>6. CASE Crash \/ SpoilLedger \/ (\E r \in Requests : SpoilBoard(r)) \/ Restart \/ UNCHANGED vars
    <3>1. CASE Crash
      BY <1>5, <3>1 DEF Crash
    <3>2. CASE Restart
      <4>1. at'[Main] = "idle" /\ \A r \in Own : at'[r] = "off"
        BY <1>0, <3>2, OwnThreads DEF Restart, Goto, IInv, ThreadInv
      <4> QED
        BY <1>5, <4>1, OwnThreads
    <3>3. CASE SpoilLedger \/ (\E r \in Requests : SpoilBoard(r)) \/ UNCHANGED vars
      <4>1. UNCHANGED <<at, cur>>
        BY <3>3 DEF SpoilLedger, SpoilBoard, vars, local
      <4> QED
        BY <1>5, <2>1, <4>1 DEF Req
    <3> QED
      BY <2>6, <3>1, <3>2, <3>3
  <2> QED
    BY <2>4, <2>5, <2>6 DEF Next
<1> QED
  BY <1>4, <1>5

(* A queued result is never replaced by a refusal of its own request, over      *)
(* restarts, as long as only one of the two files is damaged.                   *)
THEOREM NotOverwrittenHolds == Spec => NotOverwritten
<1>1. Types /\ IInv /\ BoardInv /\ [Next]_vars =>
        [Remembers => \A r \in Requests : outbox[r] = "result" => outbox'[r] # "refusal"]_vars
  <2> SUFFICES ASSUME Types, IInv, BoardInv, [Next]_vars, Remembers,
                      NEW r \in Requests, outbox[r] = "result"
               PROVE  outbox'[r] # "refusal"
    OBVIOUS
  <2>0. outbox \in [Requests -> Boards]
    BY DEF Types, TypeOK
  <2>1. ASSUME NEW q \in Requests, TaskRefused(q) PROVE outbox'[r] # "refusal"
    <3>1. at[Main] = "task" /\ mem[q] = "none" /\ outbox' = [outbox EXCEPT ![q] = "refusal"]
      BY <2>1 DEF TaskRefused, TakeTask, Duplicate
    <3>2. mem[r] # "none"
      BY <3>1 DEF BoardInv, OnFile
    <3> QED
      BY <2>0, <3>1, <3>2
  <2>2. CASE outbox' = outbox
    BY <2>2
  <2>4. CASE \E q : \E b \in {"none", "spoiled"} : outbox' = [outbox EXCEPT ![q] = b]
    BY <2>0, <2>4
  <2>5. CASE \E t \in Threads : QueueResult(t)
    BY <2>0, <2>5 DEF QueueResult
  <2>6. CASE \E t \in Threads : FlushStep(t) \/ \E q \in Requests : Post(t, q)
    BY <2>0, <2>6
       DEF FlushStep, List, Read, ReadGone, Quarantine, PostFails, OutboxAfterFailure,
           Remove, Flushed, Post
  <2> QED
    BY <2>1, <2>2, <2>4, <2>5, <2>6
       DEF Next, Step, MainStep, PollBegin, Fetch, PollEnd, ClaimEvent, ClaimSave, ClaimSaveFails,
           TaskDuplicate, TaskPasses, ActionStep, RunAction, QueueFails,
           CompleteEvent, CompleteSave, CompleteSaveFails, Completed, Crash, SpoilLedger,
           SpoilBoard, Restart, vars
<1>2. Spec => [](Types /\ IInv /\ BoardInv)
  BY InitInv, NextInv, InitBoard, NextBoard, TypesInvariant, PTL DEF Spec
<1> QED
  BY <1>1, <1>2, PTL DEF Spec, NotOverwritten

-----------------------------------------------------------------------------
(* What was queued                                                           *)

\* What a thread has sent, or is about to, is a refusal only of a request that was
\* refused; what it is about to remove has reached the control plane.
SentInv ==
    \A t \in Threads :
        /\ at[t] \in {"post", "remove"} =>
              /\ loc[t].pick \in Requests /\ loc[t].board \in {"refusal", "result"}
              /\ loc[t].board = "refusal" => loc[t].pick \in refused
        /\ at[t] = "remove" => <<loc[t].pick, loc[t].board>> \in posted

\* The outbox holds refusals and spoiled boards only of requests that were refused, or
\* whose board was spoiled.
BoxInv ==
    \A r \in Requests : /\ outbox[r] = "refusal" => r \in refused
                        /\ outbox[r] = "spoiled" => r \in spoiled

KeptInv == SentInv /\ BoxInv /\ ResultKept

LEMMA InitKept == Init => KeptInv
BY DEF Init, KeptInv, SentInv, BoxInv, ResultKept, Unknown

\* A step of flush_result_outbox, or its post.
LEMMA FlushKept ==
  ASSUME Types, KeptInv, NEW t \in Threads, FlushStep(t) \/ \E r \in Requests : Post(t, r)
  PROVE  KeptInv'
<1>0. /\ outbox \in [Requests -> Boards] /\ at \in [Threads -> MainPlaces \cup OwnPlaces]
      /\ loc \in [Threads -> Locals] /\ queued \subseteq Requests
      /\ AfterException(t) \in {"idle", "fetch", "task", "done"}
      /\ loc[t].then \in {"idle", "fetch", "task", "done"}
  BY DEF Types, TypeOK, Shape, Locals, AfterException
<1> USE DEF KeptInv
<1>1. CASE List(t) \/ ReadGone(t) \/ Flushed(t)
  <2>1. /\ UNCHANGED <<outbox, posted, queued, refused, spoiled>>
        /\ at'[t] \notin {"post", "remove"}
        /\ \A u \in Threads : u # t => at'[u] = at[u] /\ loc'[u] = loc[u]
    BY <1>0, <1>1 DEF List, ReadGone, Flushed, Abandon, Goto, history
  <2> QED
    BY <2>1 DEF SentInv, BoxInv, ResultKept, Kept
<1>2. CASE Read(t)
  <2>1. PICK r \in loc[t].todo :
          /\ outbox[r] \in {"refusal", "result"}
          /\ loc' = [loc EXCEPT ![t].todo = @ \ {r}, ![t].pick = r, ![t].board = outbox[r]]
    BY <1>2 DEF Read
  <2>2. /\ UNCHANGED <<outbox, posted, queued, refused, spoiled>>
        /\ at'[t] = "post" /\ r \in Requests
        /\ loc'[t].pick = r /\ loc'[t].board = outbox[r]
        /\ \A u \in Threads : u # t => at'[u] = at[u] /\ loc'[u] = loc[u]
    BY <1>0, <1>2, <2>1 DEF Read, Goto, history, Locals
  <2>3. outbox[r] \in {"refusal", "result"} /\ (outbox[r] = "refusal" => r \in refused)
    BY <2>1, <2>2 DEF BoxInv
  <2>4. SentInv'
    BY <2>2, <2>3 DEF SentInv
  <2>5. BoxInv' /\ ResultKept'
    BY <2>2 DEF BoxInv, ResultKept, Kept
  <2> QED
    BY <2>4, <2>5
<1>3. CASE Quarantine(t)
  <2>1. PICK r \in loc[t].todo : /\ outbox[r] = "spoiled"
                                /\ outbox' = [outbox EXCEPT ![r] = "none"]
                                /\ loc' = [loc EXCEPT ![t].todo = @ \ {r}]
    BY <1>3 DEF Quarantine
  <2>2. /\ UNCHANGED <<at, posted, queued, refused, spoiled>> /\ r \in Requests
        /\ \A u \in Threads : loc'[u].pick = loc[u].pick /\ loc'[u].board = loc[u].board
    BY <1>0, <1>3, <2>1 DEF Quarantine, history, Locals
  <2>3. r \in spoiled
    BY <2>1, <2>2 DEF BoxInv
  <2> QED
    BY <1>0, <2>1, <2>2, <2>3 DEF SentInv, BoxInv, ResultKept, Kept
<1>4. CASE PostFails(t)
  <2>1. /\ UNCHANGED <<outbox, queued, refused, spoiled>> /\ posted \subseteq posted'
        /\ at'[t] \notin {"post", "remove"}
        /\ \A u \in Threads : u # t => at'[u] = at[u] /\ loc'[u] = loc[u]
    BY <1>0, <1>4 DEF PostFails, OutboxAfterFailure, Abandon, Goto
  <2> QED
    BY <2>1 DEF SentInv, BoxInv, ResultKept, Kept
<1>5. CASE Remove(t)
  <2>1. /\ UNCHANGED <<posted, queued, refused, spoiled>>
        /\ at'[t] = "read"
        /\ \A u \in Threads : u # t => at'[u] = at[u] /\ loc'[u] = loc[u]
        /\ outbox' = [outbox EXCEPT ![loc[t].pick] = "none"]
    BY <1>0, <1>5 DEF Remove, Goto, history
  <2>2. /\ loc[t].pick \in Requests
        /\ loc[t].pick \in refused \/ <<loc[t].pick, "result">> \in posted
    BY <1>5 DEF Remove, SentInv
  <2> QED
    BY <1>0, <2>1, <2>2 DEF SentInv, BoxInv, ResultKept, Kept
<1>6. ASSUME NEW r \in Requests, Post(t, r)
      PROVE  KeptInv'
  <2>1. /\ UNCHANGED <<outbox, loc, queued, refused, spoiled>>
        /\ at[t] = "post" /\ at'[t] = "remove"
        /\ \A u \in Threads : u # t => at'[u] = at[u]
        /\ posted' = posted \cup {<<loc[t].pick, loc[t].board>>}
    BY <1>0, <1>6 DEF Post, Goto, local
  <2> QED
    BY <2>1 DEF SentInv, BoxInv, ResultKept, Kept
<1> QED
  BY <1>1, <1>2, <1>3, <1>4, <1>5, <1>6 DEF FlushStep

\* Any other step of a thread leaves places of sending alone; it may queue a board.
LEMMA OtherKept ==
  ASSUME Types, KeptInv, NEW t \in Threads, ActionStep(t) \/ (t = Main /\ MainStep)
  PROVE  KeptInv'
<1>0. /\ outbox \in [Requests -> Boards] /\ at \in [Threads -> MainPlaces \cup OwnPlaces]
      /\ loc \in [Threads -> Locals] /\ queued \subseteq Requests
  BY DEF Types, TypeOK, Shape, Locals
<1>1. \A u \in Threads :
        /\ at'[u] \in {"post", "remove"} => at'[u] = at[u]
        /\ loc'[u].pick = loc[u].pick /\ loc'[u].board = loc[u].board
  <2>1. CASE ActionStep(t)
    BY <1>0, <2>1
       DEF ActionStep, RunAction, QueueResult, QueueFails, CompleteEvent, CompleteSave,
           CompleteSaveFails, Completed, Flush, Goto, Locals, local
  <2>2. CASE t = Main /\ MainStep
    BY <1>0, <2>2, OwnThreads
       DEF MainStep, PollBegin, FirstOfPoll, Fetch, PollEnd, ClaimEvent, ClaimSave, ClaimSaveFails,
           TaskDuplicate, TaskRefused, TaskPasses, TakeTask, Flush, Goto, Locals, local
  <2> QED
    BY <2>1, <2>2
<1>2. /\ posted' = posted /\ spoiled' = spoiled
      /\ \/ UNCHANGED <<outbox, queued, refused>>
         \/ \E r \in Requests : /\ outbox' = [outbox EXCEPT ![r] = "refusal"]
                                /\ refused' = refused \cup {r} /\ queued' = queued
         \/ \E r \in Requests : /\ outbox' = [outbox EXCEPT ![r] = "result"]
                                /\ queued' = queued \cup {r} /\ refused' = refused
  <2>1. at[t] = "queue" => Req(t) \in Requests
    BY OwnThreads DEF Types, Shape, Holding, Req
  <2>2. CASE ActionStep(t)
    BY <2>1, <2>2
       DEF ActionStep, RunAction, QueueResult, QueueFails, CompleteEvent, CompleteSave,
           CompleteSaveFails, Completed, history
  <2>3. CASE t = Main /\ MainStep
    BY <2>3
       DEF MainStep, PollBegin, Fetch, PollEnd, ClaimEvent, ClaimSave, ClaimSaveFails,
           TaskDuplicate, TaskRefused, TaskPasses, history
  <2> QED
    BY <2>2, <2>3
<1>3. SentInv'
  BY <1>1, <1>2 DEF KeptInv, SentInv
<1>4. BoxInv' /\ ResultKept'
  BY <1>0, <1>2 DEF KeptInv, BoxInv, ResultKept, Kept
<1> QED
  BY <1>3, <1>4 DEF KeptInv

LEMMA FaultKept ==
  ASSUME Types, IInv, KeptInv,
         Crash \/ SpoilLedger \/ (\E r \in Requests : SpoilBoard(r)) \/ Restart \/ UNCHANGED vars
  PROVE  KeptInv'
<1>0. outbox \in [Requests -> Boards] /\ at \in [Threads -> MainPlaces \cup OwnPlaces]
  BY DEF Types, TypeOK, Shape
<1>1. CASE Crash
  BY <1>1 DEF Crash, history, KeptInv, SentInv, BoxInv, ResultKept, Kept
<1>2. CASE SpoilLedger \/ UNCHANGED vars
  BY <1>2 DEF SpoilLedger, vars, local, history, KeptInv, SentInv, BoxInv, ResultKept, Kept
<1>3. ASSUME NEW r \in Requests, SpoilBoard(r)
      PROVE  KeptInv'
  BY <1>0, <1>3 DEF SpoilBoard, local, KeptInv, SentInv, BoxInv, ResultKept, Kept
<1>4. CASE Restart
  <2>1. /\ \A t \in Threads : at'[t] = at[t] \/ at'[t] = "idle"
        /\ UNCHANGED <<outbox, loc, history>>
    BY <1>0, <1>4, OwnThreads DEF Restart, Goto, local
  <2> QED
    BY <2>1 DEF history, KeptInv, SentInv, BoxInv, ResultKept, Kept
<1> QED
  BY <1>1, <1>2, <1>3, <1>4

(* A queued result waits in the outbox until it has reached the control plane,  *)
(* unless its request was refused before or its file spoiled, whichever threads *)
(* flush the outbox and whenever the process dies.                              *)
THEOREM ResultKeptHolds == Spec => []ResultKept
<1>1. Types /\ IInv /\ KeptInv /\ [Next]_vars => KeptInv'
  BY FlushKept, OtherKept, FaultKept DEF Next, Step
<1>2. KeptInv => ResultKept
  BY DEF KeptInv
<1>3. Spec => []Types /\ []IInv
  BY TypesInvariant, InitTypes, NextTypes, InitInv, NextInv, PTL DEF Spec
<1> QED
  BY InitKept, <1>1, <1>2, <1>3, PTL DEF Spec
=============================================================================
