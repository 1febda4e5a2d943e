------------------------ MODULE RecoveryChainProofs ------------------------
(* Proof that a closure rests on a complete chain, for any number of project  *)
(* starts and disturbances.  The argument: what a status of the chain covers  *)
(* was true of memory at the lengths it carries; memory only grows, so it is  *)
(* still true of that prefix; and a write of the queue file makes every       *)
(* earlier packet outdated.                                                   *)
EXTENDS RecoveryChain, SequenceTheorems, TLAPS

-----------------------------------------------------------------------------
(* The invariant, of any memory m and queue q                                *)

\* Both files of memory are sequences of lines.
Memories(m) == m \in [records : Seq(Elements(m.records)), links : Seq(Elements(m.links))]

\* The prefix of memory a status covers.
Cut(m, n) == [records |-> SubSeq(m.records, 1, n.records), links |-> SubSeq(m.links, 1, n.links)]

Covers(m, n) == n.records \in 0 .. Len(m.records) /\ n.links \in 0 .. Len(m.links)

\* A claim status that somebody's continuation is bound to was ready when it was approved.
ClaimSound(m, q, d) ==
    /\ Covers(m, d)
    /\ d.plan.receipt.packet.queue \in 0 .. q.version
    /\ d.plan.receipt.packet.queue = q.version => d \in ClaimStatuses(Cut(m, d), q)

\* So was a continuation status that an execution is bound to, and the claim status in it.
ContinuationSound(m, q, c) ==
    /\ Covers(m, c)
    /\ c.claimed.plan.receipt.packet.queue = q.version => c \in ContinuationStatuses(Cut(m, c), q)
    /\ ClaimSound(m, q, c.claimed)

Sound(m, q, r) ==
    /\ r.kind = "continuation" => ClaimSound(m, q, r.bind)
    /\ r.kind = "execution" => ContinuationSound(m, q, r.bind)

ChainInv ==
    /\ Memories(memory)
    /\ queue.version \in Nat
    /\ \A r \in Elements(memory.records) : Sound(memory, queue, r)
    /\ job.at = "append" => Sound(memory, queue, job.rec)

-----------------------------------------------------------------------------
(* Memory grows                                                              *)

\* What is appended is after all that was there.
LEMMA AppendFacts ==
  ASSUME NEW s, NEW t, s \in Seq(Elements(s)), t \in Seq(Elements(t))
  PROVE  /\ s \o t \in Seq(Elements(s \o t))
         /\ Elements(s \o t) = Elements(s) \cup Elements(t)
         /\ \A n \in 0 .. Len(s) : n \in 0 .. Len(s \o t) /\ SubSeq(s \o t, 1, n) = SubSeq(s, 1, n)
<1> DEFINE S == Elements(s) \cup Elements(t)
           u == s \o t
<1>1. s \in Seq(S) /\ t \in Seq(S)
  OBVIOUS
<1>2. /\ u \in Seq(S) /\ Len(s) \in Nat /\ Len(t) \in Nat /\ Len(u) = Len(s) + Len(t)
      /\ \A i \in 1 .. Len(s) : u[i] = s[i]
      /\ \A i \in 1 .. Len(t) : u[Len(s) + i] = t[i]
  BY <1>1
<1>3. DOMAIN s = 1 .. Len(s) /\ DOMAIN t = 1 .. Len(t) /\ DOMAIN u = 1 .. Len(u)
  BY <1>1, <1>2
<1>4. Elements(u) = S
  <2>1. ASSUME NEW i \in 1 .. Len(u)
        PROVE  u[i] \in S
    BY <1>2
  <2>2. ASSUME NEW i \in 1 .. Len(s)
        PROVE  s[i] \in Elements(u)
    BY <1>2, <1>3 DEF Elements
  <2>3. ASSUME NEW i \in 1 .. Len(t)
        PROVE  t[i] \in Elements(u)
    <3>1. Len(s) + i \in 1 .. Len(u) /\ u[Len(s) + i] = t[i]
      BY <1>2
    <3> QED
      BY <1>3, <3>1 DEF Elements
  <2> QED
    BY <1>3, <2>1, <2>2, <2>3 DEF Elements
<1>5. ASSUME NEW n \in 0 .. Len(s)
      PROVE  n \in 0 .. Len(u) /\ SubSeq(u, 1, n) = SubSeq(s, 1, n)
  BY <1>1, <1>2, <1>5
<1> QED
  BY <1>2, <1>4, <1>5

\* The line of one text.
LEMMA OneFacts ==
  ASSUME NEW s, NEW x, s \in Seq(Elements(s))
  PROVE  /\ Append(s, x) = s \o <<x>>
         /\ <<x>> \in Seq(Elements(<<x>>)) /\ Elements(<<x>>) = {x}
<1>1. Elements(<<x>>) = {x} /\ <<x>> \in Seq({x})
  BY DEF Elements
<1>2. Append(s, x) = s \o <<x>>
  <2>1. s \in Seq(Elements(s) \cup {x}) /\ x \in Elements(s) \cup {x}
    OBVIOUS
  <2> QED
    BY <2>1, AppendIsConcat
<1> QED
  BY <1>1, <1>2

\* What somebody writes, or leaves off half-way.
LEMMA PartFacts ==
  ASSUME NEW x, NEW y, NEW n \in 0 .. 2
  PROVE  /\ SubSeq(<<x, y>>, 1, n) \in Seq(Elements(SubSeq(<<x, y>>, 1, n)))
         /\ Elements(SubSeq(<<x, y>>, 1, n)) \subseteq {x, y}
<1> DEFINE t == SubSeq(<<x, y>>, 1, n)
<1>1. t \in Seq({x, y}) /\ Len(t) = n /\ DOMAIN t = 1 .. n
  OBVIOUS
<1>2. Elements(t) \subseteq {x, y}
  BY <1>1 DEF Elements
<1>3. \A i \in 1 .. n : t[i] \in Elements(t)
  BY <1>1 DEF Elements
<1>4. t \in Seq(Elements(t))
  <2> HIDE DEF t
  <2> QED
    BY <1>1, <1>3
<1> QED
  BY <1>2, <1>4

\* What was recorded on good grounds stays so, as memory grows and the queue is written.
LEMMA SoundStays ==
  ASSUME NEW m, NEW q, NEW m2, NEW q2, NEW r, Sound(m, q, r), q.version \in Nat,
         \A n : Covers(m, n) => Covers(m2, n) /\ Cut(m2, n) = Cut(m, n),
         q2 = q \/ q2.version = q.version + 1
  PROVE  Sound(m2, q2, r)
<1>1. ASSUME NEW d, ClaimSound(m, q, d)
      PROVE  ClaimSound(m2, q2, d)
  BY <1>1 DEF ClaimSound
<1>2. ASSUME NEW c, ContinuationSound(m, q, c)
      PROVE  ContinuationSound(m2, q2, c)
  <2>1. ClaimSound(m2, q2, c.claimed) /\ c.claimed.plan.receipt.packet.queue \in 0 .. q.version
    BY <1>1, <1>2 DEF ContinuationSound, ClaimSound
  <2> QED
    BY <1>2, <2>1 DEF ContinuationSound
<1> QED
  BY <1>1, <1>2 DEF Sound

\* A file of memory to which something was appended.
Longer(s, t) == \E u : u \in Seq(Elements(u)) /\ t = s \o u

LEMMA LongerFacts ==
  ASSUME NEW s, NEW t, s \in Seq(Elements(s)), Longer(s, t)
  PROVE  /\ t \in Seq(Elements(t))
         /\ \A n \in 0 .. Len(s) : n \in 0 .. Len(t) /\ SubSeq(t, 1, n) = SubSeq(s, 1, n)
BY AppendFacts DEF Longer

\* A record is appended, something is linked, or both: all that was covered is as it was.
LEMMA Grown ==
  ASSUME NEW m, NEW m2, Memories(m), m2 = [records |-> m2.records, links |-> m2.links],
         Longer(m.records, m2.records), Longer(m.links, m2.links)
  PROVE  /\ Memories(m2)
         /\ \A n : Covers(m, n) => Covers(m2, n) /\ Cut(m2, n) = Cut(m, n)
<1>1. m.records \in Seq(Elements(m.records)) /\ m.links \in Seq(Elements(m.links))
  BY DEF Memories
<1>2. /\ m2.records \in Seq(Elements(m2.records))
      /\ \A n \in 0 .. Len(m.records) :
            n \in 0 .. Len(m2.records) /\ SubSeq(m2.records, 1, n) = SubSeq(m.records, 1, n)
  BY <1>1, LongerFacts
<1>3. /\ m2.links \in Seq(Elements(m2.links))
      /\ \A n \in 0 .. Len(m.links) :
            n \in 0 .. Len(m2.links) /\ SubSeq(m2.links, 1, n) = SubSeq(m.links, 1, n)
  BY <1>1, LongerFacts
<1>4. Memories(m2)
  BY <1>2, <1>3 DEF Memories
<1>5. ASSUME NEW n, Covers(m, n)
      PROVE  Covers(m2, n) /\ Cut(m2, n) = Cut(m, n)
  <2>1. n.records \in 0 .. Len(m.records) /\ n.links \in 0 .. Len(m.links)
    BY <1>5 DEF Covers
  <2>2. /\ n.records \in 0 .. Len(m2.records)
        /\ SubSeq(m2.records, 1, n.records) = SubSeq(m.records, 1, n.records)
    BY <1>2, <2>1
  <2>3. n.links \in 0 .. Len(m2.links) /\ SubSeq(m2.links, 1, n.links) = SubSeq(m.links, 1, n.links)
    BY <1>3, <2>1
  <2> QED
    BY <2>2, <2>3 DEF Covers, Cut
<1> QED
  BY <1>4, <1>5

-----------------------------------------------------------------------------
(* What the readbacks show                                                   *)

\* A plan is of the queue as it is.
LEMMA PlanOfQueue ==
  ASSUME NEW m, NEW q, NEW p \in Plans(m, q)
  PROVE  p.receipt.packet.queue = q.version
<1>1. PICK r \in Receipts(m, q) : p.receipt = r
  BY DEF Plans
<1>2. r.packet \in Packets(m, q)
  BY DEF Receipts
<1> QED
  BY <1>1, <1>2 DEF Packets

\* The whole of memory is its prefix of full length.
LEMMA CutAll ==
  ASSUME NEW m, NEW n, Memories(m), n.records = Len(m.records), n.links = Len(m.links)
  PROVE  Covers(m, n) /\ Cut(m, n) = m
<1>1. m.records \in Seq(Elements(m.records)) /\ m.links \in Seq(Elements(m.links))
      /\ m = [records |-> m.records, links |-> m.links]
  BY DEF Memories
<1>2. SubSeq(m.records, 1, Len(m.records)) = m.records /\ Len(m.records) \in Nat
  BY <1>1, SubSeqFull
<1>3. SubSeq(m.links, 1, Len(m.links)) = m.links /\ Len(m.links) \in Nat
  BY <1>1, SubSeqFull
<1> QED
  BY <1>1, <1>2, <1>3 DEF Covers, Cut

\* What any command records under a status that is ready now is well founded.
LEMMA GivenIsSound ==
  ASSUME ChainInv,
         NEW c \in SummaryMemory \cup ResumeCheckpoint \cup ResumeClaim \cup ResumeContinue
                   \cup PostContinuationExecute
  PROVE  Sound(memory, queue, c)
<1>1. CASE c \in SummaryMemory \cup ResumeCheckpoint \cup ResumeClaim
  BY <1>1 DEF SummaryMemory, ResumeCheckpoint, ResumeClaim, Record, Sound
<1>2. ASSUME NEW d \in ClaimStatuses(memory, queue)
      PROVE  ClaimSound(memory, queue, d)
  <2>1. /\ d.plan \in Plans(memory, queue)
        /\ d.records = Len(memory.records) /\ d.links = Len(memory.links)
    BY DEF ClaimStatuses, Claimed
  <2>2. Covers(memory, d) /\ Cut(memory, d) = memory
    BY <2>1, CutAll DEF ChainInv
  <2>3. d.plan.receipt.packet.queue = queue.version
    BY <2>1, PlanOfQueue
  <2> QED
    BY <2>2, <2>3, <1>2 DEF ClaimSound, ChainInv
<1>3. CASE c \in ResumeContinue
  <2>1. PICK d \in ClaimStatuses(memory, queue) : c.kind = "continuation" /\ c.bind = d
    BY <1>3 DEF ResumeContinue, Record
  <2> QED
    BY <2>1, <1>2 DEF Sound
<1>4. CASE c \in PostContinuationExecute
  <2>1. PICK d \in ContinuationStatuses(memory, queue) : c.kind = "execution" /\ c.bind = d
    BY <1>4 DEF PostContinuationExecute, Record
  <2>2. /\ d.claimed \in Continued(memory, queue)
        /\ d.records = Len(memory.records) /\ d.links = Len(memory.links)
    BY DEF ContinuationStatuses
  <2>3. Covers(memory, d) /\ Cut(memory, d) = memory
    BY <2>2, CutAll DEF ChainInv
  <2>4. PICK r \in Elements(memory.records) : r.kind = "continuation" /\ r.bind = d.claimed
    BY <2>2 DEF Continued
  <2>5. ClaimSound(memory, queue, d.claimed)
    BY <2>4 DEF ChainInv, Sound
  <2> QED
    BY <2>1, <2>3, <2>5 DEF Sound, ContinuationSound
<1> QED
  BY <1>1, <1>3, <1>4

\* The end of a line claims nothing.
LEMMA EndIsSound == \A m, q : Sound(m, q, EndOfLine)
BY DEF Sound, EndOfLine

\* So is the record that is made for it.
LEMMA MadeIsSound ==
  ASSUME NEW m, NEW q, NEW c, NEW i, Sound(m, q, c)
  PROVE  Sound(m, q, [id |-> i, kind |-> c.kind, run |-> c.run, bind |-> c.bind])
BY DEF Sound

-----------------------------------------------------------------------------
(* The steps                                                                 *)

LEMMA ChainInit == Init => ChainInv
BY DEF Init, ChainInv, Memories, Elements, Idle

\* Whatever is appended to both files, by one command or another.
LEMMA FilesGrow ==
  ASSUME ChainInv, NEW line, NEW linked,
         line \in Seq(Elements(line)), linked \in Seq(Elements(linked)),
         \A r \in Elements(line) : Sound(memory, queue, r),
         memory' = [records |-> memory.records \o line, links |-> memory.links \o linked],
         queue' = queue, job'.at = "append" => job' = job
  PROVE  ChainInv'
<1>1. Memories(memory) /\ queue.version \in Nat
  BY DEF ChainInv
<1>2. PICK m2 : m2 = [records |-> memory.records \o line, links |-> memory.links \o linked]
  OBVIOUS
<1>3. /\ m2 = [records |-> m2.records, links |-> m2.links]
      /\ m2.records = memory.records \o line
      /\ Longer(memory.records, m2.records) /\ Longer(memory.links, m2.links)
  BY <1>2 DEF Longer
<1>4. /\ Memories(m2)
      /\ \A n : Covers(memory, n) => Covers(m2, n) /\ Cut(m2, n) = Cut(memory, n)
  BY <1>1, <1>3, Grown
<1>5. Elements(m2.records) = Elements(memory.records) \cup Elements(line)
  BY <1>1, <1>3, AppendFacts DEF Memories
<1>6. \A r : Sound(memory, queue, r) => Sound(m2, queue, r)
  BY <1>1, <1>4, SoundStays
<1>7. memory' = m2
  BY <1>2
<1> QED
  BY <1>4, <1>5, <1>6, <1>7 DEF ChainInv

LEMMA RecordGrows ==
  ASSUME ChainInv, NEW x, Sound(memory, queue, x),
         memory' = [records |-> Append(memory.records, x), links |-> memory.links],
         queue' = queue, job'.at # "append"
  PROVE  ChainInv'
<1>1. memory.records \in Seq(Elements(memory.records)) /\ memory.links \in Seq(Elements(memory.links))
  BY DEF ChainInv, Memories
<1>2. /\ Append(memory.records, x) = memory.records \o <<x>>
      /\ <<x>> \in Seq(Elements(<<x>>)) /\ Elements(<<x>>) = {x}
  BY <1>1, OneFacts
<1>3. memory.links = memory.links \o << >> /\ << >> \in Seq(Elements(<< >>))
  BY <1>1
<1> QED
  BY <1>2, <1>3, FilesGrow

LEMMA LinksGrow ==
  ASSUME ChainInv, NEW x,
         memory' = [records |-> memory.records, links |-> Append(memory.links, x)],
         queue' = queue, job'.at # "append"
  PROVE  ChainInv'
<1>1. memory.records \in Seq(Elements(memory.records)) /\ memory.links \in Seq(Elements(memory.links))
  BY DEF ChainInv, Memories
<1>2. Append(memory.links, x) = memory.links \o <<x>> /\ <<x>> \in Seq(Elements(<<x>>))
  BY <1>1, OneFacts
<1>3. /\ memory.records = memory.records \o << >> /\ << >> \in Seq(Elements(<< >>))
      /\ Elements(<< >>) = {}
  BY <1>1 DEF Elements
<1> QED
  BY <1>2, <1>3, FilesGrow

LEMMA ChainNext ==
  ASSUME ChainInv, [Next]_vars
  PROVE  ChainInv'
<1> USE DEF ChainInv
<1>1. CASE Submit
  <2>1. PICK c \in CalledFor : job' = [at |-> "append", rec |-> c]
    BY <1>1 DEF Submit
  <2>2. Sound(memory, queue, c)
    BY <2>1, GivenIsSound DEF CalledFor
  <2> QED
    BY <1>1, <2>1, <2>2 DEF Submit
<1>2. CASE AppendRecord
  <2> DEFINE x == New(job.rec)
  <2>1. memory' = [records |-> Append(memory.records, x), links |-> memory.links]
        /\ queue' = queue /\ job'.at = "record end"
    BY <1>2 DEF AppendRecord, Memories
  <2>2. Sound(memory, queue, x)
    BY <1>2, MadeIsSound DEF AppendRecord, New
  <2> HIDE DEF x, ChainInv
  <2> QED
    BY <2>1, <2>2, RecordGrows
<1>3. CASE EndRecord
  <2>1. memory' = [records |-> Append(memory.records, EndOfLine), links |-> memory.links]
        /\ queue' = queue
    BY <1>3 DEF EndRecord, Memories
  <2>2. job'.at # "append"
    BY <1>3 DEF EndRecord
  <2>3. Sound(memory, queue, EndOfLine)
    BY EndIsSound
  <2> HIDE DEF ChainInv
  <2> QED
    BY <2>1, <2>2, <2>3, RecordGrows
<1>4. CASE LinkRun \/ EndLink
  <2>0. job'.at # "append"
    <3>1. CASE job' = Idle
      BY <3>1 DEF Idle
    <3>2. CASE job' = [at |-> "link end", id |-> job.id]
      BY <3>2
    <3> QED
      BY <1>4, <3>1, <3>2 DEF LinkRun, EndLink
  <2>1. CASE UNCHANGED memory
    <3> QED
      BY <1>4, <2>0, <2>1 DEF LinkRun, EndLink
  <2>2. ASSUME NEW x, memory' = [memory EXCEPT !.links = Append(@, x)]
        PROVE  ChainInv'
    <3>1. memory' = [records |-> memory.records, links |-> Append(memory.links, x)]
          /\ queue' = queue
      BY <1>4, <2>2 DEF LinkRun, EndLink, Memories
    <3> QED
      BY <2>0, <3>1, LinksGrow
  <2> QED
    BY <1>4, <2>1, <2>2 DEF LinkRun, EndLink
<1>5. CASE Die
  BY <1>5 DEF Die, Idle
<1>6. CASE OtherCommand
  <2>1. PICK c \in SummaryMemory \cup ResumeCheckpoint \cup ResumeClaim \cup ResumeContinue
                   \cup PostContinuationExecute,
             record \in 1..2, link \in 0..2 :
          memory' = [records |-> memory.records \o SubSeq(<<New(c), EndOfLine>>, 1, record),
                     links |-> memory.links \o SubSeq(<<Link(New(c).id), EndOfLine>>, 1, link)]
    BY <1>6 DEF OtherCommand
  <2> DEFINE line == SubSeq(<<New(c), EndOfLine>>, 1, record)
             linked == SubSeq(<<Link(New(c).id), EndOfLine>>, 1, link)
  <2>2. Sound(memory, queue, New(c))
    BY GivenIsSound, MadeIsSound DEF New
  <2>3. line \in Seq(Elements(line)) /\ Elements(line) \subseteq {New(c), EndOfLine}
    BY PartFacts
  <2>4. linked \in Seq(Elements(linked))
    BY PartFacts
  <2>5. queue' = queue /\ job' = job
    BY <1>6 DEF OtherCommand
  <2>6. memory' = [records |-> memory.records \o line, links |-> memory.links \o linked]
    BY <2>1
  <2> HIDE DEF line, linked
  <2>7. \A r \in Elements(line) : Sound(memory, queue, r)
    BY <2>2, <2>3, EndIsSound
  <2> QED
    BY <2>3, <2>4, <2>5, <2>6, <2>7, FilesGrow
<1>7. CASE WriteQueue
  <2>1. queue'.version = queue.version + 1 /\ memory' = memory /\ job' = job
    BY <1>7 DEF WriteQueue
  <2>2. \A r : Sound(memory, queue, r) => Sound(memory, queue', r)
    BY <2>1, SoundStays
  <2> QED
    BY <2>1, <2>2
<1>8. CASE UNCHANGED vars
  BY <1>8 DEF vars
<1> QED
  BY <1>1, <1>2, <1>3, <1>4, <1>5, <1>6, <1>7, <1>8 DEF Next, Operator

\* A ready closure is of the current packet, and what it was approved by was ready.
LEMMA ChainReplays == ChainInv => ClosureReplays
<1> SUFFICES ASSUME ChainInv, NEW c \in Executed(memory, queue)
             PROVE  c \in ContinuationStatuses(At(c), queue)
                    /\ c.claimed \in ClaimStatuses(At(c.claimed), queue)
  BY DEF ClosureReplays
<1>1. PICK r \in Elements(memory.records) : r.kind = "execution" /\ r.bind = c
  BY DEF Executed
<1>2. PICK p \in Plans(memory, queue) : c.claimed.plan.receipt.packet = p.receipt.packet
  BY DEF Executed
<1>3. c.claimed.plan.receipt.packet.queue = queue.version
  BY <1>2, PlanOfQueue
<1>4. ContinuationSound(memory, queue, c)
  BY <1>1 DEF ChainInv, Sound
<1> QED
  BY <1>3, <1>4 DEF ContinuationSound, ClaimSound, At, Cut

\* Whatever dies, is repeated or is changed meanwhile: a closure that post-continuation
\* closure reports as ready rests on a continuation and a claim that were ready when each
\* was approved by its digest.
THEOREM ClosureHolds == Spec => []ClosureReplays
BY ChainInit, ChainNext, ChainReplays, PTL DEF Spec
=============================================================================
