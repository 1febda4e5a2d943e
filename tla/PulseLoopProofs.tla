-------------------------- MODULE PulseLoopProofs --------------------------
(***************************************************************************)
(* Proofs about PulseLoop, for any number of packets, registrations,       *)
(* deaths and failing reads.                                               *)
(***************************************************************************)
EXTENDS PulseLoop, TLAPS

Loops == [at : Stages, forever : BOOLEAN, localOnly : BOOLEAN, gate : Gates,
          digest : File, batch : File, local : BOOLEAN, green : BOOLEAN]

Makers == {"operator", "generator"}
Works == [at : {"idle", "clear", "unlink", "copy", "hash", "resume"}, packet : File]

\* The loop works on packets, not on missing files.
Named ==
    /\ loop.at \in {"load", "work", "record"} => loop.digest \in Packets
    /\ loop.at \in {"work", "record"} => loop.batch \in Packets

LEMMA OffTyped == Off \in Loops /\ Off.at = "off"
BY DEF Off, Loops, Stages, File, Gates

LEMMA IdleTyped == Idle \in Works /\ Idle.at = "idle"
BY DEF Idle, Works, File

\* The records a loop goes on with are loops again.
LEMMA LoopTyped ==
  ASSUME loop \in Loops, NEW stage \in Stages, NEW g \in BOOLEAN, NEW d \in File
  PROVE  /\ [loop EXCEPT !.at = stage] \in Loops
         /\ [loop EXCEPT !.at = stage, !.digest = d] \in Loops
         /\ [loop EXCEPT !.at = stage, !.batch = d] \in Loops
         /\ [loop EXCEPT !.at = stage, !.local = g] \in Loops
         /\ [loop EXCEPT !.green = g] \in Loops
         /\ [Fresh EXCEPT !.at = stage] \in Loops
         /\ [Fresh EXCEPT !.at = stage, !.green = g] \in Loops
BY DEF Loops, Fresh, Off, File

\* What the options leave of the gate's answer and of the place.
LEMMA FreshFields ==
  ASSUME loop \in Loops, NEW stage, NEW g
  PROVE  /\ [Fresh EXCEPT !.at = stage].at = stage
         /\ [Fresh EXCEPT !.at = stage, !.green = g].at = stage
         /\ [Fresh EXCEPT !.at = stage, !.green = g].green = g
BY DEF Loops, Fresh, Off

LEMMA InitType == Init => TypeOK
<1> SUFFICES ASSUME Init PROVE TypeOK
  OBVIOUS
<1>1. loop \in Loops
  BY OffTyped DEF Init
<1>2. mirror \in [Makers -> Works]
  BY IdleTyped DEF Init, Makers
<1>3. faults \in 0 .. MaxFaults
  BY PulseAssumption DEF Init
<1>4. /\ resume \in File /\ tasks \in File
      /\ ledger \subseteq Packets /\ fresh \subseteq Packets
      /\ done \subseteq Packets /\ excused \subseteq Packets
      /\ {cut, stop} \subseteq BOOLEAN
      /\ pr \in {"green", "open"} /\ gate \in {"missing", "green", "waiting"}
  BY DEF Init
<1> QED
  BY <1>1, <1>2, <1>3, <1>4 DEF TypeOK, Loops, Makers, Works

LEMMA MirrorTyped ==
  ASSUME TypeOK, NEW m \in Makers, Mirror(m)
  PROVE  resume' \in File /\ tasks' \in File /\ mirror' \in [Makers -> Works]
<1>1. mirror \in [Makers -> Works] /\ resume \in File /\ tasks \in File
  BY DEF TypeOK, Makers, Works
<1>2. mirror[m] \in Works /\ mirror[m].packet \in File
  BY <1>1 DEF Works
<1>3. CASE Clear(m) \/ Unlink(m) \/ Copy(m)
  <2>1. PICK stage \in {"unlink", "copy", "hash"} : Proceed(m, stage)
    BY <1>3 DEF Clear, Unlink, Copy
  <2>2. [mirror[m] EXCEPT !.at = stage] \in Works
    BY <1>2 DEF Works
  <2>3. mirror' = [mirror EXCEPT ![m] = [mirror[m] EXCEPT !.at = stage]]
    BY <2>1, <1>1 DEF Proceed
  <2>4. mirror' \in [Makers -> Works]
    BY <2>2, <2>3, <1>1
  <2> QED
    BY <1>1, <1>2, <1>3, <2>4 DEF Clear, Unlink, Copy, File
<1>4. CASE Hash(m)
  <2>1. [at |-> "resume", packet |-> tasks] \in Works
    BY <1>1 DEF Works
  <2> QED
    BY <1>1, <1>4, <2>1, IdleTyped DEF Hash
<1>5. CASE Resume(m) \/ MirrorFails(m)
  BY <1>1, <1>2, <1>5, IdleTyped DEF Resume, MirrorFails
<1> QED
  BY <1>3, <1>4, <1>5 DEF Mirror

LEMMA NextType == TypeOK /\ Named /\ [Next]_vars => TypeOK'
<1> SUFFICES ASSUME TypeOK, Named, [Next]_vars PROVE TypeOK'
  OBVIOUS
<1> USE DEF At, Go, Over
<1>0. loop \in Loops /\ mirror \in [Makers -> Works]
  BY DEF TypeOK, Loops, Makers, Works
\* The loop's moves that leave all but the history, the ledger and the gate file alone.
<1>1. CASE Start
  <2>1. loop' \in Loops
    BY <1>1, OffTyped DEF Start, Loops, Stages
  <2> QED
    BY <1>1, <2>1 DEF Start, TypeOK, Loops, packet, lines, world, history
<1>2. CASE Stopped \/ Missing \/ Unfit \/ Duplicate \/ Generated \/ Next_Iteration
  <2>1. loop' \in Loops
    BY <1>0, <1>2, OffTyped, LoopTyped
       DEF Stopped, Missing, Unfit, Duplicate, Generated, Next_Iteration, Ask, Poll, Stages, File
  <2> QED
    BY <1>2, <2>1
       DEF Stopped, Missing, Unfit, Duplicate, Generated, Next_Iteration,
           TypeOK, Loops, packet, lines, world, history
<1>3. CASE New \/ Unread
  <2>1. loop' \in Loops
    <3>1. loop' = [loop EXCEPT !.at = "load", !.digest = resume] /\ resume \in File
      BY <1>3 DEF New, Unread, Take, TypeOK
    <3> QED
      BY <1>0, <3>1, LoopTyped DEF Stages
  <2>2. excused' \subseteq Packets
    BY <1>3 DEF New, Unread, Registered, TypeOK, history
  <2>3. faults' \in 0 .. MaxFaults
    BY <1>3, PulseAssumption DEF New, Unread, TypeOK, world
  <2> QED
    BY <1>3, <2>1, <2>2, <2>3 DEF New, Unread, TypeOK, Loops, packet, lines, world, history
<1>4. CASE Load
  <2>1. loop' \in Loops
    <3>1. CASE Over
      BY <3>1, OffTyped
    <3>2. CASE loop' = [loop EXCEPT !.at = "work", !.batch = tasks]
      BY <1>0, <3>2, LoopTyped DEF TypeOK, Stages
    <3> QED
      BY <1>4, <3>1, <3>2 DEF Load
  <2>2. excused' \subseteq Packets
    BY <1>4 DEF Load, TypeOK, File
  <2> QED
    BY <1>4, <2>1, <2>2 DEF Load, TypeOK, Loops, packet, lines, world
<1>5. CASE Pass \/ TaskFails \/ Record \/ Unrecorded \/ Publish
  <2>1. loop' \in Loops
    BY <1>0, <1>5, OffTyped, LoopTyped
       DEF Pass, TaskFails, Record, Unrecorded, Publish, Stages, File
  <2>2. ledger' \subseteq Packets /\ done' \subseteq Packets /\ excused' \subseteq Packets
    BY <1>5 DEF Named, Pass, TaskFails, Record, Unrecorded, Publish, TypeOK, packet, lines, history
  <2>3. cut' \in BOOLEAN
    BY <1>5 DEF Pass, TaskFails, Record, Unrecorded, Publish, TypeOK, lines
  <2> QED
    BY <1>5, <2>1, <2>2, <2>3
       DEF Pass, TaskFails, Record, Unrecorded, Publish, TypeOK, Loops, packet, world
<1>6. CASE Skip \/ Refresh \/ RefreshFails \/ Decide
  <2>1. loop' \in Loops
    BY <1>0, <1>6, OffTyped, LoopTyped
       DEF Skip, Refresh, RefreshFails, Refused, Decide, Stages, File
  <2>2. gate' \in {"missing", "green", "waiting"}
    BY <1>6 DEF Skip, Refresh, RefreshFails, Decide, Shown, TypeOK
  <2> QED
    BY <1>6, <2>1, <2>2
       DEF Skip, Refresh, RefreshFails, Decide, TypeOK, Loops, packet, lines, world, history
<1>7. CASE Generate
  <2>1. loop' \in Loops
    BY <1>0, <1>7, LoopTyped DEF Generate, Poll, Stages, File
  <2>2. fresh' \subseteq Packets /\ mirror' \in [Makers -> Works]
    <3>1. CASE UNCHANGED packet
      BY <1>0, <3>1 DEF packet, TypeOK
    <3>2. ASSUME NEW p \in fresh,
                 mirror' = [mirror EXCEPT !["generator"] = [at |-> "clear", packet |-> p]]
          PROVE  mirror' \in [Makers -> Works]
      <4>1. [at |-> "clear", packet |-> p] \in Works
        BY DEF Works, File, TypeOK
      <4> QED
        BY <1>0, <3>2, <4>1
    <3> QED
      BY <1>7, <3>1, <3>2 DEF Generate, TypeOK
  <2>3. resume' \in File /\ tasks' \in File
    BY <1>7 DEF Generate, TypeOK, packet
  <2> QED
    BY <1>7, <2>1, <2>2, <2>3 DEF Generate, TypeOK, Loops, Makers, Works, lines, world, history
<1>8. ASSUME NEW m \in Makers, Mirror(m) PROVE TypeOK'
  <2>1. Aside
    BY <1>8 DEF Mirror, Clear, Unlink, Copy, Hash, Resume, MirrorFails
  <2> QED
    BY <1>8, <2>1, MirrorTyped DEF TypeOK, Makers, Works, Aside, lines, history
<1>9. ASSUME NEW p \in Packets, Register(p) PROVE TypeOK'
  <2>1. [at |-> "clear", packet |-> p] \in Works
    BY DEF Works, File
  <2>2. mirror' \in [Makers -> Works]
    BY <1>0, <1>9, <2>1 DEF Register
  <2> QED
    BY <1>9, <2>2 DEF Register, TypeOK, Makers, Works, lines, history
<1>10. CASE Die
  <2>1. mirror' \in [Makers -> Works]
    BY <1>0, <1>10, IdleTyped DEF Die
  <2>2. loop' \in Loops
    BY <1>10, OffTyped DEF Die
  <2>3. excused' \subseteq Packets
    BY <1>10 DEF Die, TypeOK, Named
  <2>4. faults' \in 0 .. MaxFaults
    BY <1>10, PulseAssumption DEF Die, TypeOK
  <2>5. gate' \in {"missing", "green", "waiting"} /\ cut' \in BOOLEAN
    BY <1>10 DEF Die, TypeOK, Shown
  <2> QED
    BY <1>10, <2>1, <2>2, <2>3, <2>4, <2>5 DEF Die, TypeOK, Loops, Makers, Works
<1>11. CASE PullRequest \/ StopFile
  <2>1. loop' \in Loops
    BY <1>0, <1>11, LoopTyped DEF PullRequest, StopFile, File, Stages
  <2> QED
    BY <1>11, <2>1 DEF PullRequest, StopFile, TypeOK, Loops, packet, lines, history
<1>12. CASE UNCHANGED vars
  BY <1>12 DEF vars, TypeOK
<1> QED
  BY <1>1, <1>2, <1>3, <1>4, <1>5, <1>6, <1>7, <1>8, <1>9, <1>10, <1>11, <1>12
     DEF Next, OwnStep, CommandStep, Makers

-----------------------------------------------------------------------------
(* The inductive invariant                                                   *)

\* What runs is not in the ledger yet, or it is excused; and so it is when it is not
\* what its digest was taken of.
BatchInv ==
    /\ loop.at \in {"load", "work", "record"} =>
          loop.digest \notin ledger \/ loop.digest \in excused
    /\ loop.at \in {"work", "record"} =>
          loop.batch = loop.digest \/ loop.batch \in excused

\* A batch that passed is in the ledger, or about to be, or excused.
DoneInv ==
    \A p \in done :
        \/ p \in ledger
        \/ p \in excused
        \/ loop.at = "record" /\ loop.batch = p

\* An iteration that asks the gate has seen the pull request whenever it was green.
GreenInv ==
    /\ loop.at = "gate" /\ pr = "green" => loop.green
    /\ loop.at = "decide" /\ loop.gate = "refresh" /\ gate # "waiting" => loop.green
    /\ GreenToAdvance

IInv == TypeOK /\ Named /\ BatchInv /\ DoneInv /\ GreenInv

LEMMA InitInv == Init => IInv
<1> SUFFICES ASSUME Init PROVE IInv
  OBVIOUS
<1>1. TypeOK /\ loop.at = "off"
  BY InitType, OffTyped DEF Init
<1> QED
  BY <1>1 DEF Init, IInv, Named, BatchInv, DoneInv, GreenInv, GreenToAdvance

Rest == Named /\ BatchInv /\ DoneInv /\ GreenInv

\* A loop that is at none of the places the invariant speaks of.  What it had run and not
\* recorded is excused.
LEMMA OverInv ==
  ASSUME IInv, UNCHANGED <<ledger, done>>, excused \subseteq excused',
         loop'.at \in {"off", "poll", "publish", "next"},
         loop.at = "record" => loop.batch \in excused'
  PROVE  Rest'
BY DEF Rest, IInv, Named, BatchInv, DoneInv, GreenInv, GreenToAdvance

\* What a move to another place leaves alone.
LEMMA Moved ==
  ASSUME TypeOK, NEW stage, Go(stage)
  PROVE  /\ loop'.at = stage /\ loop'.digest = loop.digest /\ loop'.batch = loop.batch
         /\ loop'.local = loop.local /\ loop'.green = loop.green /\ loop'.gate = loop.gate
BY DEF Go, TypeOK

\* An iteration that asks for the next packet looks at the pull request now.
LEMMA AskInv ==
  ASSUME IInv, loop.at # "record", UNCHANGED <<ledger, done, excused, pr, gate>>, Ask
  PROVE  Rest'
<1>1. loop'.at = "gate" /\ loop'.green = (pr = "green")
  BY FreshFields DEF IInv, TypeOK, Ask, Loops
<1> QED
  BY <1>1 DEF Rest, IInv, Named, BatchInv, DoneInv, GreenInv, GreenToAdvance

\* A step that leaves the loop where it is, with the ledger and the history.
LEMMA ElseInv ==
  ASSUME IInv, UNCHANGED <<loop, ledger, done, excused, pr, gate>>
  PROVE  Rest'
BY DEF Rest, IInv, Named, BatchInv, DoneInv, GreenInv, GreenToAdvance

LEMMA NextInv == IInv /\ [Next]_vars => IInv'
<1> SUFFICES ASSUME IInv, [Next]_vars PROVE Rest'
  BY NextType DEF IInv, Rest
<1> USE DEF At
<1>0. TypeOK /\ loop \in Loops
  BY DEF IInv, TypeOK, Loops
<1>1. CASE Start
  <2>1. loop'.at = "poll"
    BY <1>1 DEF Start, Off
  <2> QED
    BY <1>1, <2>1, OverInv DEF Start, lines, history
<1>2. CASE Stopped \/ Unfit \/ TaskFails
  BY <1>2, OverInv, OffTyped DEF Stopped, Unfit, TaskFails, Over, lines, history
<1>3. CASE Missing
  <2>1. CASE Over
    BY <1>3, <2>1, OverInv, OffTyped DEF Missing, Over, lines, history
  <2>2. CASE UNCHANGED loop
    BY <1>3, <2>2, ElseInv DEF Missing, lines, world, history
  <2> QED
    BY <1>3, <2>1, <2>2 DEF Missing
<1>4. CASE Duplicate \/ Next_Iteration
  <2>1. CASE Over
    BY <1>4, <2>1, OverInv, OffTyped DEF Duplicate, Registered, Next_Iteration, Over, lines, history
  <2>2. CASE Ask
    BY <1>4, <2>2, AskInv DEF Duplicate, Registered, Next_Iteration, lines, world, history
  <2> QED
    BY <1>4, <2>1, <2>2 DEF Duplicate, Next_Iteration
<1>5. CASE New \/ Unread
  <2>1. loop'.at = "load" /\ loop'.digest = resume
    BY <1>0, <1>5 DEF New, Unread, Take, Loops
  <2>2. resume \in Packets /\ (resume \notin ledger \/ resume \in excused')
    BY <1>5 DEF New, Unread, Registered, Seen
  <2>3. UNCHANGED <<ledger, done>> /\ excused \subseteq excused' /\ loop.at = "poll"
    BY <1>5 DEF New, Unread, Registered, lines, history
  <2> QED
    BY <2>1, <2>2, <2>3 DEF Rest, IInv, Named, BatchInv, DoneInv, GreenInv, GreenToAdvance
<1>6. CASE Load
  <2>1. CASE tasks = None
    BY <1>6, <2>1, OverInv, OffTyped DEF Load, Over, lines
  <2>2. CASE tasks # None
    <3>1. loop'.at = "work" /\ loop'.batch = tasks /\ loop'.digest = loop.digest
      BY <1>0, <1>6, <2>2 DEF Load, Loops
    <3>2. tasks \in Packets
      BY <1>0, <2>2 DEF TypeOK, File
    <3>3. UNCHANGED <<ledger, done>> /\ excused \subseteq excused' /\ loop.at = "load"
      BY <1>6 DEF Load, lines
    <3>4. tasks = loop.digest \/ tasks \in excused'
      BY <1>6, <2>2 DEF Load
    <3> QED
      BY <3>1, <3>2, <3>3, <3>4
         DEF Rest, IInv, Named, BatchInv, DoneInv, GreenInv, GreenToAdvance
  <2> QED
    BY <2>1, <2>2
<1>7. CASE Pass
  <2>1. loop'.at = "record" /\ loop'.digest = loop.digest /\ loop'.batch = loop.batch
    BY <1>0, <1>7, Moved DEF Pass
  <2>2. /\ ledger' = ledger /\ excused' = excused /\ done' = done \union {loop.batch}
        /\ loop.at = "work"
    BY <1>7 DEF Pass, lines
  <2> QED
    BY <2>1, <2>2 DEF Rest, IInv, Named, BatchInv, DoneInv, GreenInv, GreenToAdvance
<1>8. CASE Record
  <2>1. loop'.at = "publish"
    BY <1>0, <1>8, Moved DEF Record
  <2>2. done' = done /\ ledger \subseteq ledger' /\ excused \subseteq excused'
    BY <1>8 DEF Record
  <2>3. loop.batch \in ledger' \/ loop.batch \in excused'
    BY <1>8 DEF Record, IInv, BatchInv
  <2> QED
    BY <2>1, <2>2, <2>3 DEF Rest, IInv, Named, BatchInv, DoneInv, GreenInv, GreenToAdvance
<1>9. CASE Unrecorded
  BY <1>9, OverInv, OffTyped DEF Unrecorded, Over
<1>10. CASE Publish
  <2>1. loop'.at \in {"next", "off"}
    BY <1>0, <1>10, Moved, OffTyped DEF Publish, Over
  <2> QED
    BY <1>10, <2>1, OverInv DEF Publish, lines, history
<1>11. CASE Skip \/ Refresh
  <2>1. /\ loop'.at = "decide" /\ loop'.green = loop.green /\ loop'.gate = loop.gate
        /\ loop.at = "gate" /\ UNCHANGED <<ledger, done, excused, pr>>
    BY <1>0, <1>11, Moved DEF Skip, Refresh, lines, world, history
  <2>2. loop.gate = "refresh" /\ gate' # "waiting" => pr = "green"
    BY <1>11 DEF Skip, Refresh, Shown
  <2> QED
    BY <2>1, <2>2 DEF Rest, IInv, Named, BatchInv, DoneInv, GreenInv, GreenToAdvance
<1>12. CASE RefreshFails
  BY <1>12, OverInv, OffTyped DEF RefreshFails, Refused, Over, lines, history
<1>13. CASE Decide
  <2> DEFINE passed == loop.gate = "off" \/ gate # "waiting"
  <2>1. CASE ~(passed \/ loop.localOnly)
    BY <1>13, <2>1, OverInv, OffTyped DEF Decide, Over, lines, history
  <2>2. CASE passed \/ loop.localOnly
    <3>1. loop' = [loop EXCEPT !.at = "generate", !.local = ~passed]
      BY <1>13, <2>2 DEF Decide
    <3>2. /\ loop'.at = "generate" /\ loop'.local = ~passed
          /\ loop'.green = loop.green /\ loop'.gate = loop.gate
      BY <1>0, <3>1 DEF Loops
    <3>3. UNCHANGED <<ledger, done, excused>> /\ loop.at = "decide"
      BY <1>13 DEF Decide, lines, history
    <3> QED
      BY <3>2, <3>3 DEF Rest, IInv, Named, BatchInv, DoneInv, GreenInv, GreenToAdvance
  <2> QED
    BY <2>1, <2>2
<1>14. CASE Generate
  <2>1. UNCHANGED <<ledger, done, excused>> /\ loop.at = "generate"
    BY <1>14 DEF Generate, lines, history
  <2>2. CASE Poll
    BY <1>0, <2>1, <2>2, OverInv, FreshFields DEF Poll
  <2>3. CASE Go("mirror")
    BY <1>0, <2>1, <2>3, Moved DEF Rest, IInv, Named, BatchInv, DoneInv, GreenInv, GreenToAdvance
  <2> QED
    BY <1>14, <2>2, <2>3 DEF Generate
<1>15. CASE Generated
  BY <1>0, <1>15, OverInv, FreshFields DEF Generated, Poll, lines, history
<1>16. CASE Die
  BY <1>16, OverInv, OffTyped DEF Die, Over
<1>17. CASE PullRequest
  <2>1. /\ loop'.at = loop.at /\ loop'.digest = loop.digest /\ loop'.batch = loop.batch
        /\ loop'.local = loop.local /\ loop'.gate = loop.gate
    BY <1>0, <1>17 DEF PullRequest, Loops
  <2>2. (loop.green => loop'.green) /\ (loop.at = "gate" /\ pr' = "green" => loop'.green)
    BY <1>0, <1>17 DEF PullRequest, Loops
  <2>3. UNCHANGED <<ledger, done, excused, gate>>
    BY <1>17 DEF PullRequest, lines, history
  <2> QED
    BY <2>1, <2>2, <2>3 DEF Rest, IInv, Named, BatchInv, DoneInv, GreenInv, GreenToAdvance
<1>18. CASE StopFile \/ Mirror("operator") \/ Mirror("generator") \/ \E p \in Packets : Register(p)
  BY <1>18, ElseInv
     DEF StopFile, Mirror, Clear, Unlink, Copy, Hash, Resume, MirrorFails, Aside, Register,
         lines, history
<1>19. CASE UNCHANGED vars
  BY <1>19, ElseInv DEF vars
<1> QED
  BY <1>1, <1>2, <1>3, <1>4, <1>5, <1>6, <1>7, <1>8, <1>9, <1>10, <1>11, <1>12, <1>13,
     <1>14, <1>15, <1>16, <1>17, <1>18, <1>19 DEF Next, OwnStep, CommandStep

LEMMA InvHolds == Spec => []IInv
BY InitInv, NextInv, PTL DEF Spec

-----------------------------------------------------------------------------
(* What the loop never does                                                  *)

(* Every file of the loop names packets, and the loop itself and the two that *)
(* put packets in place are always at one of their places, however they are   *)
(* interrupted.                                                               *)
THEOREM TypesHold == Spec => []TypeOK
<1>1. IInv => TypeOK
  BY DEF IInv
<1> QED
  BY <1>1, InvHolds, PTL

\* Only the reading of the tasks takes a loop from there to work.
LEMMA OnlyLoadBegins ==
  ASSUME TypeOK, [Next]_vars, loop.at = "load", loop'.at = "work"
  PROVE  Load
<1>0. loop \in Loops
  BY DEF TypeOK, Loops
<1> USE DEF At
<1>1. CASE Die
  BY <1>1, OffTyped DEF Die, Over
<1>2. CASE PullRequest
  BY <1>0, <1>2 DEF PullRequest, Loops
<1>3. CASE StopFile \/ Mirror("operator") \/ Mirror("generator") \/ \E p \in Packets : Register(p)
  BY <1>3
     DEF StopFile, Mirror, Clear, Unlink, Copy, Hash, Resume, MirrorFails, Aside, Register
<1>4. CASE UNCHANGED vars
  BY <1>4 DEF vars
<1> QED
  BY <1>1, <1>2, <1>3, <1>4
     DEF Next, OwnStep, CommandStep, Start, Stopped, Missing, Unfit, Duplicate, New, Unread,
         Registered, Pass, TaskFails, Record, Unrecorded, Publish, Next_Iteration, Skip, Refresh,
         RefreshFails, Decide, Generate, Generated

(* A batch that passed is not begun a second time, whatever is registered and *)
(* whenever the loop dies, except in the cases that excuse it.                *)
THEOREM RunsOnceHolds == Spec => RunsOnce
<1>1. IInv /\ [Next]_vars =>
        [\A p \in done : At("load") /\ loop'.at = "work" /\ loop'.batch = p => p \in excused']_vars
  <2> SUFFICES ASSUME IInv, [Next]_vars, NEW p \in done,
                      loop.at = "load", loop'.at = "work", loop'.batch = p
               PROVE  p \in excused'
    BY DEF At
  <2>1. Load /\ loop \in Loops
    BY OnlyLoadBegins DEF IInv, TypeOK, Loops
  <2>2. tasks # None
    BY <2>1, OffTyped DEF Load, Over
  <2>3. tasks = p
    BY <2>1, <2>2 DEF Load, Loops
  <2>4. p \in ledger \/ p \in excused
    BY DEF IInv, DoneInv
  <2>5. loop.digest \notin ledger \/ loop.digest \in excused
    BY DEF IInv, BatchInv
  <2> QED
    BY <2>1, <2>2, <2>3, <2>4, <2>5 DEF Load
<1> QED
  BY <1>1, InvHolds, PTL DEF Spec, RunsOnce

(* With the refresh not switched off, the next packet is generated for a pull *)
(* request that GitHub showed green since the iteration asked, or as a        *)
(* local-only one, however the pull request and the gate file change          *)
(* meanwhile and wherever the updater fails.                                  *)
THEOREM GreenHolds == Spec => []GreenToAdvance
<1>1. IInv => GreenToAdvance
  BY DEF IInv, GreenInv
<1> QED
  BY <1>1, InvHolds, PTL
=============================================================================
