--------------------------- MODULE RecoveryChain ---------------------------
(* The governed recovery of a finished project start                          *)
(* (ao2-cli/src/factory_queue_recovery*.rs).  Five commands, each approved by *)
(* the exact digest of what it read, append one record and one run link to    *)
(* AO2's memory: the completion summary, the resume checkpoint, the claim of  *)
(* the plan, its continuation and its execution.  Every other packet is       *)
(* computed again from the queue file and the two memory files.               *)
(*                                                                            *)
(* A digest is modelled by what the packet it covers depends on.  A file of   *)
(* memory is the sequence of the writes to it: a line is a text and its end,  *)
(* written one after the other.  The files only grow, so their digests are    *)
(* their lengths.  A readback is the set of the packets it shows as ready:    *)
(* one, or none when it fails.                                                *)
EXTENDS Naturals, FiniteSets, Sequences

CONSTANTS
    Runs,           \* the project starts of the queue are 1..Runs, the latest last
    MaxTrouble      \* how many commands die, are given by others, or write the queue

ASSUME BoundsAssumption == Runs \in Nat \ {0} /\ MaxTrouble \in Nat

VARIABLES
    queue,      \* queue.json: how often it was written, and the status of each run
    memory,     \* records.jsonl and run-links.jsonl
    job,        \* the operator's command: what it is about to append or to link
    trouble     \* deaths, commands of others and writes of the queue so far

vars == <<queue, memory, job, trouble>>

Idle == [at |-> "idle"]

Init ==
    /\ queue = [version |-> 0, status |-> [r \in 1..Runs |-> "accepted"]]
    /\ memory = [records |-> <<>>, links |-> <<>>]
    /\ job = Idle
    /\ trouble = 0

-----------------------------------------------------------------------------
(* Readbacks, of memory m and queue q                                      *)

Elements(s) == {s[i] : i \in DOMAIN s}

EndOfLine == [kind |-> "end"]
Link(id) == [kind |-> "link", id |-> id]

\* Two texts stand on one line, which cannot be parsed.
Torn(file) ==
    \E i \in 1 .. Len(file) - 1 : file[i] # EndOfLine /\ file[i + 1] # EndOfLine

\* One such line, and every readback fails.
Readable(m) == ~Torn(m.records) /\ ~Torn(m.links)

\* Mutated form: a record counts for whatever plan or status of its run is asked for.
Matching_Run(m, kind, run, bind) ==
    SelectSeq(m.records, LAMBDA r : r.kind = kind /\ r.run = run)

\* The records of a kind that are bound to this digest.
Matching(m, kind, run, bind) ==
    SelectSeq(m.records, LAMBDA r : r.kind = kind /\ r.run = run /\ r.bind = bind)

\* The summary and checkpoint readbacks take the newest record and need its link.
NewestLinked(m, found) ==
    {r \in Elements(found) : /\ \A s \in Elements(found) : s.id <= r.id
                             /\ Link(r.id) \in Elements(m.links)}

\* The claim, continuation and execution readbacks need one record with one link.
Unique(m, found) ==
    Len(found) = 1 /\ Cardinality({i \in DOMAIN m.links : m.links[i] = Link(found[1].id)}) = 1

Summaries(m, run) == SelectSeq(m.records, LAMBDA r : r.kind = "summary" /\ r.run = run)

\* The packets of accepted runs whose newest summary is linked and of this queue.
Packets(m, q) ==
    UNION {{[run |-> r, queue |-> q.version, summary |-> s.id] :
              s \in {t \in NewestLinked(m, Summaries(m, r)) : t.bind = q.version}} :
           r \in {a \in 1..Runs : Readable(m) /\ q.status[a] = "accepted"}}

\* The error for which a finished run is passed over: it was not accepted, or its summary
\* is not on record, has no link, or is of another queue.
Reason(m, q, run) ==
    LET found == Summaries(m, run)
        linked == NewestLinked(m, found)
    IN  IF q.status[run] # "accepted" THEN <<run, q.status[run]>>
        ELSE IF found = <<>> THEN <<run, "missing">>
        ELSE IF linked = {} THEN <<run, "unlinked", found[Len(found)].id>>
        ELSE <<run, "stale", {r.bind : r \in linked}>>

\* The resume receipt: the packet of the latest run that has one, and the later ones skipped.
Receipts(m, q) ==
    {[packet |-> p, skipped |-> {Reason(m, q, r) : r \in {s \in p.run + 1 .. Runs :
                                                            q.status[s] # "running"}}] :
     p \in {a \in Packets(m, q) : \A b \in Packets(m, q) : b.run <= a.run}}

\* The plan binds the receipt and its newest checkpoint.
Plans(m, q) ==
    UNION {{[receipt |-> r, checkpoint |-> c.id] :
              c \in NewestLinked(m, Matching(m, "checkpoint", r.packet.run, r))} :
           r \in Receipts(m, q)}

Claims(m, plan) == Matching(m, "claim", plan.receipt.packet.run, plan)

\* Plans whose claim can be replayed.
Claimed(m, q) == {p \in Plans(m, q) : Unique(m, Claims(m, p))}

\* The claim status shows the digests of both files of memory.
ClaimStatuses(m, q) ==
    {[plan |-> p, records |-> Len(m.records), links |-> Len(m.links)] : p \in Claimed(m, q)}

Continuations(m, claimed) ==
    Matching(m, "continuation", claimed.plan.receipt.packet.run, claimed)

\* The claim statuses of the current plan whose continuation can be replayed.
Continued(m, q) ==
    {c \in {r.bind : r \in {s \in Elements(m.records) : s.kind = "continuation"}} :
       c.plan \in Claimed(m, q) /\ Unique(m, Continuations(m, c))}

ContinuationStatuses(m, q) ==
    {[claimed |-> c, records |-> Len(m.records), links |-> Len(m.links)] : c \in Continued(m, q)}

Executions(m, continued) ==
    Matching(m, "execution", continued.claimed.plan.receipt.packet.run, continued)

\* The execution status replays the record alone, under the packet that is current.
Executed(m, q) ==
    {c \in {r.bind : r \in {s \in Elements(m.records) : s.kind = "execution"}} :
       /\ c.claimed.plan.receipt.packet \in {p.receipt.packet : p \in Plans(m, q)}
       /\ Unique(m, Executions(m, c))}

\* Next-action and closure are ready for what was executed.
Closed == Executed(memory, queue) # {}

-----------------------------------------------------------------------------
(* The five commands that write                                            *)

Record(kind, packet, bind) == [kind |-> kind, run |-> packet.run, bind |-> bind]

\* What each command records under the digest its readback shows.  A summary, a
\* checkpoint and a claim may be recorded again and again.
SummaryMemory ==
    {[kind |-> "summary", run |-> r, bind |-> queue.version] :
        r \in {s \in 1..Runs : queue.status[s] = "accepted"}}
ResumeCheckpoint == {Record("checkpoint", r.packet, r) : r \in Receipts(memory, queue)}
ResumeClaim == {Record("claim", p.receipt.packet, p) : p \in Plans(memory, queue)}

\* Mutated form: a plan that is claimed twice is continued.
ResumeContinue_Claimed ==
    {Record("continuation", p.receipt.packet,
            [plan |-> p, records |-> Len(memory.records), links |-> Len(memory.links)]) :
        p \in {a \in Plans(memory, queue) : Claims(memory, a) # <<>>}}

\* A continuation or execution that is on record is refused.
ResumeContinue ==
    {Record("continuation", c.plan.receipt.packet, c) :
        c \in {d \in ClaimStatuses(memory, queue) : Continuations(memory, d) = <<>>}}
PostContinuationExecute ==
    {Record("execution", c.claimed.plan.receipt.packet, c) :
        c \in {d \in ContinuationStatuses(memory, queue) : Executions(memory, d) = <<>>}}

\* A claim is on record for the plan, and cannot be replayed: no readback names a command.
Spoilt == \E p \in Plans(memory, queue) \ Claimed(memory, queue) : Claims(memory, p) # <<>>

\* The command the readbacks call for.  Without a complete packet the recovery action looks
\* at the latest project start alone: it names the recording of its summary, or to wait for
\* it, or the attention of the operator.
CalledFor ==
    IF Receipts(memory, queue) = {} THEN {c \in SummaryMemory : c.run = Runs}
    ELSE IF Plans(memory, queue) = {} THEN ResumeCheckpoint
    ELSE IF Spoilt THEN {}
    ELSE IF Claimed(memory, queue) = {} THEN ResumeClaim
    ELSE IF Continued(memory, queue) = {} THEN ResumeContinue
    ELSE PostContinuationExecute

\* The operator gives the command that is called for; the digest it names is checked.
\* When memory cannot be read the recovery action goes on naming the summary, which is
\* appended and read by nobody: the operator of the model gives up there.
Submit ==
    /\ job = Idle /\ UNCHANGED <<queue, memory, trouble>>
    /\ ~Closed /\ Readable(memory)
    /\ \E c \in CalledFor : job' = [at |-> "append", rec |-> c]

\* The record is made, with the time as its id.
New(c) == [id |-> Len(memory.records) + 1, kind |-> c.kind, run |-> c.run, bind |-> c.bind]

AppendRecord ==
    /\ job.at = "append"
    /\ memory' = [memory EXCEPT !.records = Append(@, New(job.rec))]
    /\ job' = [at |-> "record end", id |-> Len(memory.records) + 1]
    /\ UNCHANGED <<queue, trouble>>

\* The end of a line is a write of its own.
EndRecord ==
    /\ job.at = "record end"
    /\ memory' = [memory EXCEPT !.records = Append(@, EndOfLine)]
    /\ job' = [at |-> "link", id |-> job.id]
    /\ UNCHANGED <<queue, trouble>>

\* The link needs a file of records that can be read, with the record in it.
LinkRun ==
    /\ job.at = "link"
    /\ IF Torn(memory.records) THEN job' = Idle /\ UNCHANGED memory
       ELSE /\ memory' = [memory EXCEPT !.links = Append(@, Link(job.id))]
            /\ job' = [at |-> "link end", id |-> job.id]
    /\ UNCHANGED <<queue, trouble>>

EndLink ==
    /\ job.at = "link end"
    /\ memory' = [memory EXCEPT !.links = Append(@, EndOfLine)]
    /\ job' = Idle
    /\ UNCHANGED <<queue, trouble>>

-----------------------------------------------------------------------------
(* What happens meanwhile                                                  *)

Trouble == trouble < MaxTrouble /\ trouble' = trouble + 1

\* The operator's command dies between two of its steps.
Die ==
    /\ Trouble /\ job # Idle /\ job' = Idle
    /\ UNCHANGED <<queue, memory>>

\* Somebody else gives any command, which is done, or dies after any of its writes, between
\* two steps of the operator's.
OtherCommand ==
    /\ Trouble
    /\ \E c \in SummaryMemory \cup ResumeCheckpoint \cup ResumeClaim \cup ResumeContinue
                \cup PostContinuationExecute,
          record \in 1..2, link \in 0..2 :
          LET line == SubSeq(<<New(c), EndOfLine>>, 1, record)
              linked == SubSeq(<<Link(New(c).id), EndOfLine>>, 1, link)
          IN  /\ link > 0 => record = 2 /\ ~Torn(memory.records \o line)
              /\ memory' = [records |-> memory.records \o line, links |-> memory.links \o linked]
    /\ UNCHANGED <<queue, job>>

\* Another command writes the queue file, and may leave an entry with another status.
WriteQueue ==
    /\ Trouble
    /\ \E r \in 1..Runs, s \in {"running", "accepted", "rejected"} :
          queue' = [version |-> queue.version + 1, status |-> [queue.status EXCEPT ![r] = s]]
    /\ UNCHANGED <<memory, job>>

-----------------------------------------------------------------------------
Operator == Submit \/ AppendRecord \/ EndRecord \/ LinkRun \/ EndLink

Next == Operator \/ Die \/ OtherCommand \/ WriteQueue

\* The operator gives the next command, and a command goes on unless it dies.
Spec == Init /\ [][Next]_vars /\ WF_vars(Operator)

-----------------------------------------------------------------------------
(* Properties                                                              *)

\* Memory as it was when its files had these lengths.
At(n) ==
    [records |-> SubSeq(memory.records, 1, n.records), links |-> SubSeq(memory.links, 1, n.links)]

\* A closure that is ready rests on a chain that was complete when it was approved: when
\* the continuation was, the claim was unique and replayed, and when the execution was,
\* both were.
ClosureReplays ==
    \A c \in Executed(memory, queue) :
       c \in ContinuationStatuses(At(c), queue) /\ c.claimed \in ClaimStatuses(At(c.claimed), queue)

\* While the latest project start is accepted, the operator who gives the commands AO2 calls
\* for ends with a closure that is ready, whatever else died half-way, was done twice or
\* changed under the chain: unless a death or an overlap joined two lines of memory, or left
\* a claim without its link or twice, for which AO2 calls for nothing.
Closes ==
    <>[](queue.status[Runs] = "accepted" /\ Readable(memory) /\ ~Spoilt => Closed)

\* A death inside one command does not make every later readback fail.
StaysReadable == Readable(memory)

\* No two continuations or executions are on record for the same digest.
NoDuplicates ==
    \A i, j \in DOMAIN memory.records :
       LET r == memory.records[i]
           s == memory.records[j]
       IN  r.kind \in {"continuation", "execution"} /\ r.kind = s.kind /\ r.bind = s.bind => i = j
=============================================================================
