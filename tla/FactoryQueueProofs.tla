------------------------- MODULE FactoryQueueProofs -------------------------
(* Proofs about FactoryQueue, for every set of runs and commands, whatever      *)
(* commands run side by side: the queue takes no lock and nothing is assumed.   *)
EXTENDS FactoryQueue, SequenceTheorems, WellFoundedInduction, TLAPS

-----------------------------------------------------------------------------
(* The list                                                                  *)

Lists == Seq(Entries)
Distinct(q) == \A i, j \in DOMAIN q : q[i].run = q[j].run => i = j
New(r) == [run |-> r, status |-> "queued"]

\* Setting the status of a run changes the entries of that run, and nothing else.
LEMMA SetFacts ==
  ASSUME NEW q \in Lists, NEW r \in Runs, NEW s \in Statuses
  PROVE  /\ SetStatus(q, r, s) \in Lists
         /\ Distinct(q) => Distinct(SetStatus(q, r, s))
         /\ \A x \in Runs : Has(SetStatus(q, r, s), x) <=> Has(q, x)
         /\ \A x \in Runs \ {r}, t \in Statuses : Is(SetStatus(q, r, s), x, t) <=> Is(q, x, t)
         /\ \A t \in Statuses : Is(SetStatus(q, r, s), r, t) => t = s
         /\ Has(q, r) => Is(SetStatus(q, r, s), r, s)
<1> DEFINE p == SetStatus(q, r, s)
<1>1. DOMAIN p = DOMAIN q /\ DOMAIN q = 1 .. Len(q) /\ Len(q) \in Nat
  BY DEF SetStatus, Lists
<1>2. \A i \in DOMAIN q : q[i] \in Entries
  BY DEF Lists
<1>3. \A i \in DOMAIN q : p[i] \in Entries /\ p[i].run = q[i].run
                          /\ p[i] = [run |-> q[i].run, status |-> IF q[i].run = r THEN s ELSE q[i].status]
  <2> TAKE i \in DOMAIN q
  <2>1. q[i] = [run |-> q[i].run, status |-> q[i].status] /\ q[i].run \in Runs /\ q[i].status \in Statuses
    BY <1>2 DEF Entries
  <2>2. p[i] = IF q[i].run = r THEN [q[i] EXCEPT !.status = s] ELSE q[i]
    BY DEF SetStatus
  <2>3. CASE q[i].run = r
    BY <2>1, <2>2, <2>3 DEF Entries
  <2>4. CASE q[i].run # r
    BY <2>1, <2>2, <2>4 DEF Entries
  <2> QED
    BY <2>3, <2>4
<1>4. p \in Lists
  <2>1. p = [i \in DOMAIN q |-> p[i]]
    BY DEF SetStatus
  <2>2. p \in [1 .. Len(q) -> Entries]
    BY <1>1, <1>3, <2>1
  <2> QED
    BY <1>1, <2>2, SeqDef DEF Lists
<1>5. \A i \in DOMAIN q : q[i] = [run |-> q[i].run, status |-> q[i].status] /\ q[i].status \in Statuses
  BY <1>2 DEF Entries
<1> HIDE DEF p
<1>6. Distinct(q) => Distinct(p)
  BY <1>1, <1>3 DEF Distinct
<1>7. \A x \in Runs : Has(p, x) <=> Has(q, x)
  BY <1>1, <1>3 DEF Has
<1>8. \A x \in Runs \ {r}, t \in Statuses : Is(p, x, t) <=> Is(q, x, t)
  BY <1>1, <1>3, <1>5 DEF Is
<1>9. \A t \in Statuses : Is(p, r, t) => t = s
  BY <1>1, <1>3 DEF Is
<1>10. Has(q, r) => Is(p, r, s)
  BY <1>1, <1>3 DEF Has, Is
<1> QED
  BY <1>4, <1>6, <1>7, <1>8, <1>9, <1>10 DEF p

\* Appending an entry for a run that is not listed.
LEMMA AppendFacts ==
  ASSUME NEW q \in Lists, NEW r \in Runs, ~Has(q, r)
  PROVE  /\ Append(q, New(r)) \in Lists
         /\ Distinct(q) => Distinct(Append(q, New(r)))
         /\ Is(Append(q, New(r)), r, "queued")
         /\ \A t \in Statuses : Is(Append(q, New(r)), r, t) => t = "queued"
         /\ \A x \in Runs \ {r}, t \in Statuses : Is(Append(q, New(r)), x, t) <=> Is(q, x, t)
<1> DEFINE p == Append(q, New(r))
           n == Len(q)
<1>1. New(r) \in Entries
  BY DEF New, Entries, Statuses
<1>2. p \in Lists
  BY <1>1 DEF Lists
<1>3. DOMAIN p = 1 .. n + 1 /\ DOMAIN q = 1 .. n /\ n \in Nat
  BY <1>1 DEF Lists
<1>4. \A i \in 1 .. n : p[i] = q[i] /\ q[i].run # r
  BY <1>1, <1>3 DEF Lists, Has
<1>5. p[n + 1] = New(r)
  BY <1>1 DEF Lists
<1> HIDE DEF p, n
<1>6. Distinct(q) => Distinct(p)
  BY <1>3, <1>4, <1>5 DEF Distinct, New
<1>7. Is(p, r, "queued") /\ \A t \in Statuses : Is(p, r, t) => t = "queued"
  BY <1>3, <1>4, <1>5 DEF Is, New
<1>8. \A x \in Runs \ {r}, t \in Statuses : Is(p, x, t) <=> Is(q, x, t)
  BY <1>3, <1>4, <1>5 DEF Is, New
<1> QED
  BY <1>2, <1>6, <1>7, <1>8 DEF p

LEMMA IsHas ==
  ASSUME NEW q, NEW r, NEW s, Is(q, r, s)
  PROVE  Has(q, r)
BY DEF Is, Has

\* The first queued entry is a queued run.
LEMMA FirstFacts ==
  ASSUME NEW q \in Lists, Queued(q) # {}
  PROVE  First(q) \in Runs /\ Is(q, First(q), "queued")
<1>1. Queued(q) \subseteq Nat /\ DOMAIN q = 1 .. Len(q) /\ Len(q) \in Nat
  BY DEF Queued, Lists
<1>2. \E i \in Queued(q) : \A j \in Queued(q) : i <= j
  <2>1. PICK i \in Queued(q) : \A j \in Queued(q) : <<j, i>> \notin OpToRel(<, Nat)
    BY <1>1, WFMin, NatLessThanWellFounded
  <2>2. \A j \in Queued(q) : ~(j < i)
    BY <1>1, <2>1 DEF OpToRel
  <2> QED
    BY <1>1, <2>2
<1>3. PICK i \in Queued(q) : First(q) = q[i].run
  BY <1>2 DEF First
<1>4. q[i] \in Entries /\ q[i].status = "queued"
  BY <1>1, <1>3 DEF Queued, Lists
<1> QED
  BY <1>3, <1>4 DEF Queued, Is, Entries

-----------------------------------------------------------------------------
(* What holds of the commands and the lists they hold                        *)

Commands == [at : Places \cup Changes, run : Runs \cup {None}, out : {"none", "accepted", "rejected"},
             goal : Projects \cup {None}, snap : Lists]

\* Stages at which a command has a run, and stages at which it has a goal.
Running == (Places \cup Changes) \ {"idle", "pick"}
Aiming == {"report", "contract", "pick"}

CmdOK ==
    /\ cmd \in [Cmds -> Commands]
    /\ \A c \in Cmds :
         /\ cmd[c].at \in Running => cmd[c].run \in Runs
         /\ cmd[c].at \in Aiming => cmd[c].goal \in Projects
         /\ cmd[c].at = "done" => cmd[c].out # "none"

RestOK ==
    /\ intact \subseteq Runs
    /\ nextFile \in [Projects -> Runs \cup {None}] /\ contracted \subseteq Projects
    /\ listing \in [active : BOOLEAN, inflight : BOOLEAN, attested : BOOLEAN]
    /\ given \in 0 .. MaxCommands /\ earned \subseteq Runs

Types == queue \in Lists /\ CmdOK /\ RestOK

\* Nobody holds a list with a run in it twice.
DistinctInv == Distinct(queue) /\ \A c \in Cmds : Distinct(cmd[c].snap)

\* A held list accepts a run that was not: the holder has its verdict, and will store it
\* when, of a project start, it is packaged.
Backed(at, r, out, x) ==
    x = r /\ out = "accepted" /\ (at \in {"package", "close"} \/ (at = "finish" /\ x \in Plans))
Accepts(q, at, r, out) ==
    \A x \in Runs : Is(q, x, "accepted") => x \in earned \/ Backed(at, r, out, x)

SoundInv ==
    /\ AcceptedIsEarned
    /\ \A c \in Cmds : Accepts(cmd[c].snap, cmd[c].at, cmd[c].run, cmd[c].out)

Inv == Types /\ DistinctInv /\ SoundInv

\* One command moves on; the others stay where they are.
Moved(c, v) == cmd' = [cmd EXCEPT ![c] = v]

LEMMA TypesImply == Types => TypeOK
BY DEF Types, CmdOK, RestOK, TypeOK, Lists, Commands

\* A command that becomes a good one leaves the commands good.
LEMMA MoveOK ==
  ASSUME CmdOK, NEW c \in Cmds, NEW v \in Commands, Moved(c, v),
         v.at \in Running => v.run \in Runs,
         v.at \in Aiming => v.goal \in Projects,
         v.at = "done" => v.out # "none"
  PROVE  CmdOK' /\ cmd'[c] = v /\ \A d \in Cmds \ {c} : cmd'[d] = cmd[d]
BY DEF Moved, CmdOK

LEMMA EmptyList ==
  <<>> \in Lists /\ Distinct(<<>>) /\ \A x, t : ~Is(<<>>, x, t)
BY DEF Lists, Distinct, Is

LEMMA GoneOK == Gone \in Commands /\ Gone.at = "idle" /\ Gone.snap = <<>>
BY DEF Gone, Commands, Places, Lists

\* A step that moves one command on, and neither the queue nor what was earned.
Fine(c) ==
    /\ CmdOK' /\ \A d \in Cmds \ {c} : cmd'[d] = cmd[d]
    /\ Distinct(cmd'[c].snap)
    /\ Accepts(cmd'[c].snap, cmd'[c].at, cmd'[c].run, cmd'[c].out)

LEMMA GoFine ==
  ASSUME Inv, NEW c \in Cmds, NEW place \in (Places \cup Changes) \ {"done"}, NEW r \in Runs,
         NEW q \in Lists, Go(c, place, r, q), Distinct(q),
         place \in Aiming => cmd[c].goal \in Projects,
         Accepts(q, place, r, cmd[c].out)
  PROVE  Fine(c)
<1> DEFINE v == [cmd[c] EXCEPT !.at = place, !.run = r, !.snap = q]
<1>1. cmd[c] \in Commands /\ CmdOK
  BY DEF Inv, Types, CmdOK
<1>2. /\ v \in Commands /\ v.at = place /\ v.run = r /\ v.snap = q
      /\ v.out = cmd[c].out /\ v.goal = cmd[c].goal
  BY <1>1 DEF Commands
<1>3. Moved(c, v)
  BY <1>1 DEF Go, Moved, CmdOK
<1> HIDE DEF v
<1>4. CmdOK' /\ cmd'[c] = v /\ \A d \in Cmds \ {c} : cmd'[d] = cmd[d]
  BY <1>1, <1>2, <1>3, MoveOK
<1> QED
  BY <1>2, <1>4 DEF Fine

\* The list is put away: the next round loads it again.
LEMMA ReloadFine ==
  ASSUME Inv, NEW c \in Cmds, NEW place \in Places \ {"done"}, NEW r \in Runs,
         Go(c, place, r, <<>>), place \in Aiming => cmd[c].goal \in Projects
  PROVE  Fine(c)
<1>1. Accepts(<<>>, place, r, cmd[c].out)
  BY EmptyList DEF Accepts
<1> QED
  BY <1>1, EmptyList, GoFine

LEMMA EndFine ==
  ASSUME Inv, NEW c \in Cmds, End(c)
  PROVE  Fine(c)
<1>1. CmdOK' /\ cmd'[c] = Gone /\ \A d \in Cmds \ {c} : cmd'[d] = cmd[d]
  <2>1. Moved(c, Gone) /\ CmdOK
    BY DEF End, Moved, Inv, Types
  <2>2. Gone.at \notin Running /\ Gone.at \notin Aiming /\ Gone.at # "done"
    BY GoneOK DEF Running, Aiming
  <2> QED
    BY <2>1, <2>2, GoneOK, MoveOK
<1> QED
  BY <1>1, GoneOK, EmptyList DEF Fine, Accepts

\* A list as it is loaded accepts what was earned; with a verdict entered, that one too.
LEMMA LoadedAccepts ==
  ASSUME Inv, NEW r \in Runs, NEW s \in Statuses, NEW at, NEW out,
         s = "accepted" => Backed(at, r, out, r)
  PROVE  Accepts(SetStatus(queue, r, s), at, r, out)
<1>1. queue \in Lists /\ \A x \in Runs : Is(queue, x, "accepted") => x \in earned
  BY DEF Inv, Types, SoundInv, AcceptedIsEarned
<1>2. \A x \in Runs \ {r} : Is(SetStatus(queue, r, s), x, "accepted") => x \in earned
  BY <1>1, SetFacts DEF Statuses
<1>3. Is(SetStatus(queue, r, s), r, "accepted") => s = "accepted"
  BY <1>1, SetFacts DEF Statuses
<1> QED
  BY <1>2, <1>3 DEF Accepts

\* A round that will store a change of one status, other than to accepted.
LEMMA ChangeFine ==
  ASSUME Inv, NEW c \in Cmds, NEW change \in Changes, NEW r \in Runs,
         NEW s \in Statuses \ {"accepted"}, Change(c, change, r, s)
  PROVE  Fine(c)
<1> DEFINE q == SetStatus(queue, r, s)
<1>1. q \in Lists /\ Distinct(q)
  BY SetFacts DEF Inv, Types, DistinctInv
<1>2. Accepts(q, change, r, cmd[c].out)
  BY LoadedAccepts
<1>3. change \in (Places \cup Changes) \ {"done"} /\ change \notin Aiming
  BY DEF Changes, Aiming
<1>4. CASE Go(c, change, r, q)
  <2> HIDE DEF q
  <2> QED
    BY <1>1, <1>2, <1>3, <1>4, GoFine
<1> QED
  BY <1>4, EndFine DEF Change

LEMMA PickFine ==
  ASSUME Inv, NEW c \in Cmds, Queued(queue) # {}, Pick(c)
  PROVE  Fine(c)
<1> DEFINE r == First(queue)
<1>1. r \in Runs
  BY FirstFacts DEF Inv, Types
<1>2. PICK place \in {"claim", "deny"} : Go(c, place, r, <<>>)
  BY DEF Pick
<1>3. place \in Places \ {"done"} /\ place \notin Aiming
  BY DEF Places, Aiming
<1> HIDE DEF r
<1> QED
  BY <1>1, <1>2, <1>3, ReloadFine

LEMMA SubmitFine ==
  ASSUME Inv, NEW c \in Cmds, NEW r \in Runs, NEW g \in Projects \cup {None},
         SubmitAs(c, r, g), ~Has(queue, r)
  PROVE  Fine(c)
<1> DEFINE q == Append(queue, New(r))
           v == [at |-> "submit", run |-> r, out |-> "none", goal |-> g, snap |-> q]
<1>1. q \in Lists /\ Distinct(q) /\ queue \in Lists
  BY AppendFacts DEF Inv, Types, DistinctInv
<1>2. Accepts(q, "submit", r, "none")
  <2>1. \A x \in Runs \ {r} : Is(q, x, "accepted") => Is(queue, x, "accepted")
    BY <1>1, AppendFacts DEF Statuses
  <2>2. ~Is(q, r, "accepted")
    BY <1>1, AppendFacts DEF Statuses
  <2> QED
    BY <2>1, <2>2 DEF Accepts, Inv, SoundInv, AcceptedIsEarned
<1>3. Moved(c, v) /\ CmdOK
  BY DEF SubmitAs, Moved, New, Inv, Types
<1> HIDE DEF q
<1>4. /\ v \in Commands /\ v.at = "submit" /\ v.run = r /\ v.snap = q /\ v.out = "none"
      /\ v.at \notin Aiming
  BY <1>1 DEF Commands, Changes, Aiming
<1> HIDE DEF v
<1>5. CmdOK' /\ cmd'[c] = v /\ \A d \in Cmds \ {c} : cmd'[d] = cmd[d]
  BY <1>3, <1>4, MoveOK
<1> QED
  BY <1>1, <1>2, <1>4, <1>5 DEF Fine

\* The stage of a command that has a run.
LEMMA AtRun ==
  ASSUME Inv, NEW c \in Cmds, cmd[c].at \notin {"idle", "pick"}
  PROVE  cmd[c].run \in Runs /\ cmd[c] \in Commands
BY DEF Inv, Types, CmdOK, Commands, Running

LEMMA ExecuteFine ==
  ASSUME Inv, NEW c \in Cmds, Execute(c)
  PROVE  Fine(c)
<1>1. cmd[c].run \in Runs /\ cmd[c] \in Commands /\ cmd[c].at = "execute" /\ CmdOK
  BY AtRun DEF Execute, Inv, Types
<1>2. ASSUME NEW s \in {"accepted", "rejected"},
             cmd' = [cmd EXCEPT ![c] = [@ EXCEPT !.at = "done", !.out = s]]
      PROVE  Fine(c)
  <2> DEFINE v == [cmd[c] EXCEPT !.at = "done", !.out = s]
  <2>1. /\ v \in Commands /\ v.at = "done" /\ v.run = cmd[c].run /\ v.out # "none"
        /\ v.snap = cmd[c].snap /\ v.at \notin Aiming
    BY <1>1 DEF Commands, Places, Aiming
  <2>2. Moved(c, v)
    BY <1>2 DEF Moved
  <2> HIDE DEF v
  <2>3. CmdOK' /\ cmd'[c] = v /\ \A d \in Cmds \ {c} : cmd'[d] = cmd[d]
    BY <1>1, <2>1, <2>2, MoveOK
  <2>4. Distinct(cmd[c].snap)
    BY DEF Inv, DistinctInv
  <2>5. \A x \in Runs : Is(cmd[c].snap, x, "accepted") => x \in earned
    BY <1>1 DEF Inv, SoundInv, Accepts, Backed
  <2> QED
    BY <2>1, <2>3, <2>4, <2>5 DEF Fine, Accepts
<1>3. CASE Go(c, "deny", cmd[c].run, <<>>)
  BY <1>1, <1>3, ReloadFine DEF Places, Aiming
<1> QED
  BY <1>2, <1>3 DEF Execute

LEMMA FinishFine ==
  ASSUME Inv, NEW c \in Cmds, Finish(c)
  PROVE  Fine(c)
<1> DEFINE r == cmd[c].run
           q == SetStatus(queue, r, cmd[c].out)
<1>1. r \in Runs /\ cmd[c] \in Commands /\ cmd[c].out # "none"
  BY AtRun DEF Finish, Inv, Types, CmdOK
<1>2. cmd[c].out \in Statuses
  BY <1>1 DEF Commands, Statuses
<1>3. q \in Lists /\ Distinct(q)
  BY <1>1, <1>2, SetFacts DEF Inv, Types, DistinctInv
<1>4. CASE Go(c, Closing(r), r, q)
  <2>1. /\ Closing(r) \in (Places \cup Changes) \ {"done"} /\ Closing(r) \notin Aiming
        /\ Closing(r) = "package" \/ (Closing(r) = "finish" /\ r \in Plans)
    BY <1>1 DEF Closing, Places, Changes, Aiming, Runs
  <2>2. Accepts(q, Closing(r), r, cmd[c].out)
    BY <1>1, <1>2, <2>1, LoadedAccepts DEF Backed
  <2> DEFINE place == Closing(r)
  <2>3. place \in (Places \cup Changes) \ {"done"} /\ place \notin Aiming
        /\ Go(c, place, r, q) /\ Accepts(q, place, r, cmd[c].out)
    BY <1>4, <2>1, <2>2
  <2> HIDE DEF q, r, place
  <2> QED
    BY <1>1, <1>3, <2>3, GoFine
<1> QED
  BY <1>4, EndFine DEF Finish

LEMMA PackageFine ==
  ASSUME Inv, NEW c \in Cmds, Package(c)
  PROVE  Fine(c)
<1>1. cmd[c].run \in Runs /\ cmd[c] \in Commands /\ cmd[c].at = "package"
  BY AtRun DEF Package
<1>2. CASE Go(c, "close", cmd[c].run, cmd[c].snap)
  <2>1. "close" \in (Places \cup Changes) \ {"done"} /\ "close" \notin Aiming
    BY DEF Changes, Aiming
  <2>2. cmd[c].snap \in Lists /\ Distinct(cmd[c].snap)
    BY <1>1 DEF Commands, Inv, DistinctInv
  <2>3. Accepts(cmd[c].snap, "close", cmd[c].run, cmd[c].out)
    BY <1>1 DEF Inv, SoundInv, Accepts, Backed
  <2> QED
    BY <1>1, <1>2, <2>1, <2>2, <2>3, GoFine
<1>3. CASE Go(c, "deny", cmd[c].run, <<>>)
  BY <1>1, <1>3, ReloadFine DEF Places, Aiming
<1> QED
  BY <1>2, <1>3 DEF Package

\* A command of queue-project-start-complete that finds its entry listed.
LEMMA CompleteFine ==
  ASSUME Inv, NEW c \in Cmds, NEW r \in Projects, Complete(c, r)
  PROVE  Fine(c)
<1>1. r \in Runs
  BY DEF Runs
<1>2. CASE ~Has(queue, r) /\ SubmitAs(c, r, r)
  BY <1>1, <1>2, SubmitFine
<1>3. ASSUME NEW v \in Commands, v.at \in {"pick", "report"}, v.run = r \/ v.at = "pick",
             v.goal = r, v.snap = <<>>, Moved(c, v)
      PROVE  Fine(c)
  <2>1. v.at \in Running => v.run \in Runs
    BY <1>1, <1>3 DEF Running
  <2>2. CmdOK' /\ cmd'[c] = v /\ \A d \in Cmds \ {c} : cmd'[d] = cmd[d]
    BY <1>3, <2>1, MoveOK DEF Inv, Types
  <2> QED
    BY <1>3, <2>2, EmptyList DEF Fine, Accepts
<1>4. CASE cmd' = [cmd EXCEPT ![c] = [Gone EXCEPT !.at = "pick", !.goal = r]]
  <2> DEFINE v == [Gone EXCEPT !.at = "pick", !.goal = r]
  <2>1. v \in Commands /\ v.at = "pick" /\ v.goal = r /\ v.snap = <<>>
    BY GoneOK DEF Gone, Commands, Places
  <2>2. Moved(c, v)
    BY <1>4 DEF Moved
  <2> HIDE DEF v
  <2> QED
    BY <1>3, <2>1, <2>2
<1>5. CASE cmd' = [cmd EXCEPT ![c] = [Gone EXCEPT !.at = "report", !.run = r, !.out = "accepted", !.goal = r]]
  <2> DEFINE v == [Gone EXCEPT !.at = "report", !.run = r, !.out = "accepted", !.goal = r]
  <2>1. v \in Commands /\ v.at = "report" /\ v.goal = r /\ v.snap = <<>> /\ v.run = r
    BY <1>1, GoneOK DEF Gone, Commands, Places
  <2>2. Moved(c, v)
    BY <1>5 DEF Moved
  <2> HIDE DEF v
  <2> QED
    BY <1>3, <2>1, <2>2
<1> QED
  BY <1>2, <1>4, <1>5 DEF Complete

LEMMA ReportFine ==
  ASSUME Inv, NEW c \in Cmds, Report(c)
  PROVE  Fine(c) /\ RestOK'
<1> DEFINE r == cmd[c].goal
<1>1. r \in Projects /\ r \in Runs /\ cmd[c].run \in Runs
  BY AtRun DEF Report, Inv, Types, CmdOK, Aiming, Runs
<1>2. RestOK'
  BY <1>1 DEF Report, Inv, Types, RestOK
<1>3. CASE Go(c, "contract", r, <<>>)
  <2>1. "contract" \in Places \ {"done"} /\ cmd[c].goal \in Projects
    BY <1>1 DEF Places
  <2> HIDE DEF r
  <2> QED
    BY <1>1, <1>2, <1>3, <2>1, ReloadFine
<1> QED
  BY <1>2, <1>3, EndFine DEF Report

-----------------------------------------------------------------------------
(* Every step keeps the invariant                                            *)

LEMMA FineInv ==
  ASSUME Inv, NEW c \in Cmds, Fine(c), UNCHANGED <<queue, earned>>, RestOK',
         contracted' \subseteq earned
  PROVE  Inv'
<1>1. Types' /\ DistinctInv'
  BY DEF Inv, Types, DistinctInv, Fine
<1>2. \A d \in Cmds : Accepts(cmd'[d].snap, cmd'[d].at, cmd'[d].run, cmd'[d].out)
  BY DEF Fine, Inv, SoundInv
<1>3. SoundInv'
  BY <1>2 DEF Inv, SoundInv, AcceptedIsEarned, Accepts
<1> QED
  BY <1>1, <1>3 DEF Inv

LEMMA StoreInv ==
  ASSUME Inv, NEW c \in Cmds, Store(c)
  PROVE  Inv'
<1> DEFINE r == cmd[c].run
           q == cmd[c].snap
<1>1. /\ r \in Runs /\ cmd[c] \in Commands /\ q \in Lists /\ Distinct(q)
      /\ cmd[c].goal \in Projects \cup {None} /\ cmd[c].at \in Changes
  <2>1. cmd[c].at \in Changes /\ cmd[c].at \notin {"idle", "pick"}
    BY DEF Store, Changes
  <2> QED
    BY <2>1, AtRun DEF Commands, Inv, DistinctInv
<1>2. earned \subseteq earned' /\ earned' \subseteq Runs
  BY <1>1 DEF Store, Inv, Types, RestOK
<1>3. \A x \in Runs : Is(q, x, "accepted") => x \in earned'
  <2> SUFFICES ASSUME NEW x \in Runs, Is(q, x, "accepted"), x \notin earned
               PROVE  x \in earned'
    BY <1>2
  <2>1. Backed(cmd[c].at, r, cmd[c].out, x)
    BY DEF Inv, SoundInv, Accepts
  <2>2. Has(q, x)
    BY IsHas
  <2>3. Earns(c)
    BY <1>1, <2>1, <2>2 DEF Earns, Backed, Changes
  <2> QED
    BY <2>1, <2>3 DEF Store, Backed
<1>4. Fine(c)
  <2>1. CASE After(c) = "idle"
    BY <2>1, EndFine DEF Store
  <2>2. CASE After(c) # "idle"
    <3> DEFINE place == After(c)
    <3>1. place \in Places \ {"done"} /\ (place \in Aiming => cmd[c].goal \in Projects)
      BY <1>1, <2>2 DEF After, Places, Aiming
    <3>2. Go(c, place, r, <<>>)
      BY <2>2 DEF Store
    <3> HIDE DEF place
    <3> QED
      BY <1>1, <3>1, <3>2, ReloadFine
  <2> QED
    BY <2>1, <2>2
<1>5. queue' = q /\ UNCHANGED <<intact, files, given>>
  BY DEF Store
<1>6. Types' /\ DistinctInv'
  <2>1. RestOK'
    BY <1>2, <1>5 DEF Inv, Types, RestOK, files
  <2>2. \A d \in Cmds : Distinct(cmd'[d].snap)
    BY <1>4 DEF Fine, Inv, DistinctInv
  <2> QED
    BY <1>1, <1>4, <1>5, <2>1, <2>2 DEF Types, DistinctInv, Fine
<1>7. SoundInv'
  <2>1. \A d \in Cmds : Accepts(cmd'[d].snap, cmd'[d].at, cmd'[d].run, cmd'[d].out)
    BY <1>4 DEF Fine, Inv, SoundInv
  <2>2. \A d \in Cmds, x \in Runs : Is(cmd'[d].snap, x, "accepted")
           => x \in earned' \/ Backed(cmd'[d].at, cmd'[d].run, cmd'[d].out, x)
    BY <1>2, <2>1 DEF Accepts
  <2>3. AcceptedIsEarned'
    BY <1>2, <1>3, <1>5 DEF AcceptedIsEarned, Inv, SoundInv, files
  <2>4. (\A d \in Cmds : Accepts(cmd[d].snap, cmd[d].at, cmd[d].run, cmd[d].out))'
    BY <2>2 DEF Accepts
  <2> QED
    BY <2>3, <2>4 DEF SoundInv
<1> QED
  BY <1>6, <1>7 DEF Inv

\* A step that leaves the queue, the commands and what was earned alone.
LEMMA AsideInv ==
  ASSUME Inv, UNCHANGED <<queue, cmd, contracted, earned>>, RestOK'
  PROVE  Inv'
BY DEF Inv, Types, DistinctInv, SoundInv, AcceptedIsEarned, CmdOK, Accepts

LEMMA NextInv ==
  ASSUME Inv, [Next]_vars
  PROVE  Inv'
<1> USE CommandsAssumption
<1>1. ASSUME NEW c \in Cmds, Fine(c), UNCHANGED <<queue, intact, files, earned>>,
             given' = given \/ (given < MaxCommands /\ given' = given + 1)
      PROVE  Inv'
  <2>1. RestOK'
    BY <1>1 DEF Inv, Types, RestOK, files
  <2>2. contracted' \subseteq earned
    BY <1>1 DEF Inv, SoundInv, AcceptedIsEarned, files
  <2> QED
    BY <1>1, <2>1, <2>2, FineInv
<1>2. ASSUME NEW c \in Cmds, RunNext(c)
      PROVE  Inv'
  BY <1>1, <1>2, PickFine DEF RunNext, Give
<1>3. ASSUME NEW c \in Cmds, Claim(c) \/ Deny(c)
      PROVE  Inv'
  <2>1. cmd[c].run \in Runs
    BY <1>3, AtRun DEF Claim, Deny
  <2>2. Fine(c)
    BY <1>3, <2>1, ChangeFine DEF Claim, Deny, Changes, Statuses
  <2> QED
    BY <1>1, <1>3, <2>2 DEF Claim, Deny
<1>4. ASSUME NEW c \in Cmds, Execute(c) \/ Finish(c) \/ Package(c) \/ CompletePick(c)
      PROVE  Inv'
  <2>1. Fine(c)
    BY <1>4, ExecuteFine, FinishFine, PackageFine, PickFine, EndFine DEF CompletePick
  <2> QED
    BY <1>1, <1>4, <2>1 DEF Execute, Finish, Package, CompletePick
<1>5. ASSUME NEW c \in Cmds, Report(c)
      PROVE  Inv'
  <2>1. UNCHANGED <<queue, earned, contracted>> /\ contracted \subseteq earned
    BY <1>5 DEF Report, Inv, SoundInv, AcceptedIsEarned
  <2> QED
    BY <1>5, <2>1, ReportFine, FineInv
<1>6. ASSUME NEW c \in Cmds, Contract(c)
      PROVE  Inv'
  <2>1. cmd[c].goal \in Projects /\ cmd[c].goal \in Runs
    BY <1>6 DEF Contract, Inv, Types, CmdOK, Aiming, Runs
  <2>2. RestOK'
    BY <1>6, <2>1 DEF Contract, Inv, Types, RestOK
  <2>3. contracted' \subseteq earned
    BY <1>6, <2>1 DEF Contract, Inv, SoundInv, AcceptedIsEarned
  <2> QED
    BY <1>6, <2>2, <2>3, EndFine, FineInv DEF Contract
<1>7. ASSUME NEW c \in Cmds, Crash(c)
      PROVE  Inv'
  BY <1>1, <1>7, EndFine DEF Crash
<1>8. ASSUME NEW c \in Cmds, NEW r \in Runs, Submit(c, r) \/ Cancel(c, r) \/ Retry(c, r)
      PROVE  Inv'
  <2>1. Fine(c)
    BY <1>8, SubmitFine, ChangeFine DEF Submit, Cancel, Retry, Changes, Statuses
  <2> QED
    BY <1>1, <1>8, <2>1 DEF Submit, Cancel, Retry, Give
<1>9. ASSUME NEW c \in Cmds, NEW r \in Projects, Complete(c, r)
      PROVE  Inv'
  BY <1>1, <1>9, CompleteFine DEF Complete, Give
<1>10. ASSUME NEW r \in Runs, Drift(r)
       PROVE  Inv'
  <2>1. RestOK'
    BY <1>10 DEF Drift, Inv, Types, RestOK, files
  <2> QED
    BY <1>10, <2>1, AsideInv DEF Drift, files
<1>11. CASE List
  <2>1. RestOK'
    BY <1>11 DEF List, Inv, Types, RestOK
  <2> QED
    BY <1>11, <2>1, AsideInv DEF List
<1>12. CASE Attest
  <2>1. RestOK'
    BY <1>12 DEF Attest, Inv, Types, RestOK
  <2> QED
    BY <1>12, <2>1, AsideInv DEF Attest
<1>13. CASE UNCHANGED vars
  <2>1. RestOK'
    BY <1>13 DEF vars, files, Inv, Types, RestOK
  <2> QED
    BY <1>13, <2>1, AsideInv DEF vars, files
<1> QED
  BY <1>2, <1>3, <1>4, <1>5, <1>6, <1>7, <1>8, <1>9, <1>10, <1>11, <1>12, <1>13, StoreInv DEF Next

LEMMA InitInv == Init => Inv
<1> SUFFICES ASSUME Init
             PROVE  Inv
  OBVIOUS
<1>1. \A c \in Cmds : cmd[c] = Gone
  BY DEF Init
<1>2. CmdOK
  BY <1>1, GoneOK DEF Init, CmdOK, Running, Aiming
<1>3. RestOK
  BY CommandsAssumption DEF Init, RestOK, Unlisted
<1>4. DistinctInv
  BY <1>1, GoneOK, EmptyList DEF Init, DistinctInv
<1>5. SoundInv
  BY <1>1, GoneOK, EmptyList DEF Init, SoundInv, AcceptedIsEarned, Accepts
<1> QED
  BY <1>2, <1>3, <1>4, <1>5, EmptyList DEF Inv, Types, Init

LEMMA AlwaysInv == Spec => []Inv
BY InitInv, NextInv, PTL DEF Spec

\* The queue, the commands and the lists they hold keep their types, whatever commands
\* run side by side.
THEOREM TypesHold == Spec => []TypeOK
<1>1. Inv => TypeOK
  BY TypesImply DEF Inv
<1> QED
  BY <1>1, AlwaysInv, PTL

\* No run is listed twice, also when commands store over one another: an entry is appended
\* only to a list the same command loaded and found it missing from.
THEOREM ListedOnce == Spec => []NoRunTwice
<1>1. Inv => NoRunTwice
  BY DEF Inv, DistinctInv, Distinct, NoRunTwice
<1> QED
  BY <1>1, AlwaysInv, PTL

\* What the queue lists as accepted was executed, accepted and, for a project start,
\* packaged first, although a command stores over what others stored since it loaded: a
\* list that accepts more is held only by the command that has the verdict.
THEOREM EarnedHolds == Spec => []AcceptedIsEarned
<1>1. Inv => AcceptedIsEarned
  BY DEF Inv, SoundInv
<1> QED
  BY <1>1, AlwaysInv, PTL
=============================================================================
