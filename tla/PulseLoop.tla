----------------------------- MODULE PulseLoop -----------------------------
(***************************************************************************)
(* The Pulse auto-advance loop (run_pulse_auto_advance): it polls the      *)
(* registered task packet, runs it once, notes its digest in the ledger,   *)
(* publishes, asks the PR gate, and has the next packet generated.  Around *)
(* it: an operator who registers packets and raises or removes the STOP    *)
(* file, the pull request, and a process that can die between two steps.   *)
(* A packet is named by the digest of its eval loop.                       *)
(***************************************************************************)
EXTENDS Naturals, FiniteSets

CONSTANTS Packets,     \* packets there can be
          Stopping,    \* packets that do not ask to be continued, or decide "stop"
          None,        \* no file
          Registrant,  \* whether an operator may register packets
          MaxFaults    \* bound: deaths of the loop's process and failing ledger reads

ASSUME PulseAssumption ==
  /\ None \notin Packets /\ Stopping \subseteq Packets
  /\ Registrant \in BOOLEAN
  /\ MaxFaults \in Nat

VARIABLES
  resume,     \* the packet .ao2-local/pulse/latest/resume.json names
  tasks,      \* the packet whose eval loop and manifest lie beside it
  ledger,     \* the digests on the whole lines of pulse-auto-advance-ledger.jsonl
  cut,        \* the ledger ends in a part of a line
  stop,       \* the STOP file is there
  pr,         \* the pull request as GitHub shows it
  gate,       \* what pr-ci-gate.json says
  loop,       \* the loop's process
  mirror,     \* the two who put a packet in place: the operator and the generator
  fresh,      \* packets nobody has generated or registered yet
  done,       \* history: packets whose whole batch of tasks passed
  excused,    \* history: packets done under no digest the ledger shows
  faults

vars == <<resume, tasks, ledger, cut, stop, pr, gate, loop, mirror, fresh, done, excused, faults>>
packet == <<resume, tasks, mirror, fresh>>
lines == <<ledger, cut>>
world == <<stop, pr, faults>>
history == <<done, excused>>

File == Packets \union {None}
Stages == {"off", "poll", "load", "work", "record", "publish", "next", "gate", "decide",
           "generate", "mirror"}

\* What the command is told about the gate: not to ask it, to ask the file that is there,
\* or to have the file refreshed first.
Gates == {"off", "file", "refresh"}

Off == [at |-> "off", forever |-> FALSE, localOnly |-> FALSE, gate |-> "off",
        digest |-> None, batch |-> None, local |-> FALSE, green |-> FALSE]

\* The options, all that a loop keeps from one poll to the next.
Fresh == [Off EXCEPT !.forever = loop.forever, !.localOnly = loop.localOnly, !.gate = loop.gate]

At(stage) == loop.at = stage
Go(stage) == loop' = [loop EXCEPT !.at = stage]
Poll == loop' = [Fresh EXCEPT !.at = "poll"]
Over == loop' = Off

Idle == [at |-> "idle", packet |-> None]

Init ==
  /\ resume \in File /\ tasks = resume
  /\ ledger = {} /\ cut = FALSE /\ stop = FALSE
  /\ pr \in {"green", "open"} /\ gate \in {"missing", "green"}
  /\ loop = Off /\ mirror = [m \in {"operator", "generator"} |-> Idle]
  /\ fresh = Packets \ {resume}
  /\ done = {} /\ excused = {} /\ faults = 0

-----------------------------------------------------------------------------
(* The top of the loop.                                                    *)

\* A start with the STOP file or without a registered packet ends at once.  The options of
\* the gate matter to a loop that runs forever.
Start ==
  /\ At("off") /\ ~stop /\ resume # None
  /\ \/ loop' = [Off EXCEPT !.at = "poll"]
     \/ \E localOnly \in BOOLEAN, option \in Gates :
          loop' = [Off EXCEPT !.at = "poll", !.forever = TRUE,
                              !.localOnly = localOnly, !.gate = option]
  /\ UNCHANGED <<packet, lines, gate, world, history>>

\* Mutated form: a digest counts as run only when the ledger holds nothing else.
Seen_Only(d) == ledger = {d}
\* Mutated form: any line of the ledger counts.
Seen_Any(d) == ledger # {}

\* Lines that cannot be parsed do not count.
Seen(d) == d \in ledger

Halts == stop

Stopped ==
  /\ At("poll") /\ Halts /\ Over
  /\ UNCHANGED <<packet, lines, gate, world, history>>

\* A loop that runs forever waits for a resume file; a single run fails.
Missing ==
  /\ At("poll") /\ ~Halts /\ resume = None
  /\ IF loop.forever THEN UNCHANGED loop ELSE Over
  /\ UNCHANGED <<packet, lines, gate, world, history>>

\* The eval loop is missing or not what resume.json says, the packet does not ask to be
\* continued, or the decision beside it is to stop: the run ends.
Unfit ==
  /\ At("poll") /\ ~Halts /\ resume # None
  /\ tasks # resume \/ resume \in Stopping
  /\ Over
  /\ UNCHANGED <<packet, lines, gate, world, history>>

Registered == At("poll") /\ ~Halts /\ resume \in Packets \ Stopping /\ tasks = resume

\* The gate is asked from here on; what GitHub shows meanwhile counts.
Ask == loop' = [Fresh EXCEPT !.at = "gate", !.green = (pr = "green")]

Duplicate ==
  /\ Registered /\ Seen(resume)
  /\ IF loop.forever THEN Ask ELSE Over
  /\ UNCHANGED <<packet, lines, gate, world, history>>

Take == loop' = [loop EXCEPT !.at = "load", !.digest = resume]

New ==
  /\ Registered /\ ~Seen(resume) /\ Take
  /\ UNCHANGED <<packet, lines, gate, world, history>>

\* A ledger that cannot be read counts as empty.
Unread ==
  /\ Registered /\ Seen(resume) /\ Take
  /\ faults < MaxFaults /\ faults' = faults + 1
  /\ excused' = excused \union {resume}
  /\ UNCHANGED <<packet, lines, gate, stop, pr, done>>

-----------------------------------------------------------------------------
(* One iteration.                                                          *)

\* The eval loop is read again, and the manifest for the first time, after the
\* digest was taken: what runs is what lies there now.
Load ==
  /\ At("load")
  /\ IF tasks = None THEN Over
     ELSE loop' = [loop EXCEPT !.at = "work", !.batch = tasks]
  /\ excused' = excused \union ({tasks} \ {None, loop.digest})
  /\ UNCHANGED <<packet, lines, gate, world, done>>

Pass ==
  /\ At("work") /\ Go("record")
  /\ done' = done \union {loop.batch}
  /\ UNCHANGED <<packet, lines, gate, world, excused>>

TaskFails ==
  /\ At("work") /\ Over
  /\ UNCHANGED <<packet, lines, gate, world, history>>

\* An entry appended to a part of a line makes one line with it, which nobody can parse.
Record ==
  /\ At("record") /\ Go("publish")
  /\ cut' = FALSE
  /\ ledger' = IF cut THEN ledger ELSE ledger \union {loop.digest}
  /\ excused' = IF cut THEN excused \union {loop.batch} ELSE excused
  /\ UNCHANGED <<packet, gate, world, done>>

\* An append that fails ends the run, with the entry written in part or not at all.
Unrecorded ==
  /\ At("record") /\ Over
  /\ cut' \in {cut, TRUE}
  /\ excused' = excused \union {loop.batch}
  /\ UNCHANGED <<packet, ledger, gate, world, done>>

\* The publisher's failure ends the run; without --direct-main-publish there is none.
Publish ==
  /\ At("publish") /\ (Go("next") \/ Over)
  /\ UNCHANGED <<packet, lines, gate, world, history>>

\* A single run has passed, and so has one that met --max-iterations.
Next_Iteration ==
  /\ At("next") /\ (Over \/ (loop.forever /\ Ask))
  /\ UNCHANGED <<packet, lines, gate, world, history>>

-----------------------------------------------------------------------------
(* pulse_generate_next: the gate, then the next packet.                    *)

\* Without a refresh the file that is there decides.
Skip ==
  /\ At("gate") /\ loop.gate # "refresh" /\ Go("decide")
  /\ UNCHANGED <<packet, lines, gate, world, history>>

\* The updater writes what GitHub shows, or "waiting" when it cannot ask GitHub.
Shown == IF pr = "green" THEN "green" ELSE "waiting"

Refresh ==
  /\ At("gate") /\ loop.gate = "refresh" /\ Go("decide")
  /\ gate' \in {Shown, "waiting"}
  /\ UNCHANGED <<packet, lines, world, history>>

\* Mutated form: the gate file of an earlier refresh is used instead.
Refused_StaleFile == Go("decide")

\* A refresh whose command fails counts as waiting, and a wait ends the run.
Refused == Over

\* The file may be left as it was, or half-written, which reads as waiting.
RefreshFails ==
  /\ At("gate") /\ loop.gate = "refresh" /\ Refused
  /\ gate' \in {gate, "waiting"}
  /\ UNCHANGED <<packet, lines, world, history>>

\* A missing file does not block.
Decide ==
  LET passed == loop.gate = "off" \/ gate # "waiting" IN
  /\ At("decide")
  /\ IF passed \/ loop.localOnly
       THEN loop' = [loop EXCEPT !.at = "generate", !.local = ~passed]
       ELSE Over
  /\ UNCHANGED <<packet, lines, gate, world, history>>

\* With the exit gate ready the generator registers nothing; it may also fail.
Generate ==
  /\ At("generate")
  /\ \/ Poll /\ UNCHANGED packet
     \/ \E p \in fresh :
          /\ Go("mirror") /\ fresh' = fresh \ {p}
          /\ mirror' = [mirror EXCEPT !["generator"] = [at |-> "clear", packet |-> p]]
          /\ UNCHANGED <<resume, tasks>>
  /\ UNCHANGED <<lines, gate, world, history>>

\* Whether the generator has registered its packet or failed, the loop polls again.
Generated ==
  /\ At("mirror") /\ mirror["generator"].at = "idle" /\ Poll
  /\ UNCHANGED <<packet, lines, gate, world, history>>

-----------------------------------------------------------------------------
(* The mirror puts a packet in place: the directory is cleared, the files are *)
(* copied, and resume.json is written with the digest of what lies there.    *)

Mirrors(m, stage) == mirror[m].at = stage
Proceed(m, stage) == mirror' = [mirror EXCEPT ![m].at = stage]
Aside == UNCHANGED <<lines, stop, pr, gate, loop, history, faults, fresh>>

Clear(m) ==
  /\ Mirrors(m, "clear") /\ Proceed(m, "unlink")
  /\ \/ tasks' = None /\ UNCHANGED resume
     \/ resume' = None /\ UNCHANGED tasks
  /\ Aside

Unlink(m) ==
  /\ Mirrors(m, "unlink") /\ Proceed(m, "copy")
  /\ tasks' = None /\ resume' = None
  /\ Aside

Copy(m) ==
  /\ Mirrors(m, "copy") /\ Proceed(m, "hash")
  /\ tasks' = mirror[m].packet
  /\ Aside /\ UNCHANGED resume

\* Without an eval loop there is nothing to name, and the mirror is incomplete.
Hash(m) ==
  /\ Mirrors(m, "hash")
  /\ mirror' = [mirror EXCEPT ![m] =
                   IF tasks = None THEN Idle ELSE [at |-> "resume", packet |-> tasks]]
  /\ Aside /\ UNCHANGED <<resume, tasks>>

Resume(m) ==
  /\ Mirrors(m, "resume")
  /\ mirror' = [mirror EXCEPT ![m] = Idle]
  /\ resume' = mirror[m].packet
  /\ Aside /\ UNCHANGED tasks

\* A mirror that fails leaves the directory as far as it got.
MirrorFails(m) ==
  /\ mirror[m].at # "idle"
  /\ mirror' = [mirror EXCEPT ![m] = Idle]
  /\ Aside /\ UNCHANGED <<resume, tasks>>

Mirror(m) == Clear(m) \/ Unlink(m) \/ Copy(m) \/ Hash(m) \/ Resume(m) \/ MirrorFails(m)

-----------------------------------------------------------------------------
(* The surroundings.                                                       *)

\* The operator's pulse:register-auto-advance.
Register(p) ==
  /\ Registrant /\ Mirrors("operator", "idle")
  /\ mirror' = [mirror EXCEPT !["operator"] = [at |-> "clear", packet |-> p]]
  /\ fresh' = fresh \ {p}
  /\ UNCHANGED <<resume, tasks, lines, stop, pr, gate, loop, history, faults>>

\* The loop dies, and the command it waits for with it.
Die ==
  /\ ~At("off") /\ faults < MaxFaults /\ faults' = faults + 1
  /\ Over
  /\ mirror' = [mirror EXCEPT !["generator"] = Idle]
  /\ gate' \in IF At("gate") /\ loop.gate = "refresh" THEN {gate, Shown, "waiting"} ELSE {gate}
  /\ cut' \in IF At("record") THEN {cut, TRUE} ELSE {cut}
  /\ excused' = IF At("record") THEN excused \union {loop.batch} ELSE excused
  /\ UNCHANGED <<resume, tasks, fresh, ledger, stop, pr, done>>

PullRequest ==
  /\ pr' \in {"green", "open"} \ {pr}
  /\ loop' = IF At("gate") /\ pr' = "green" THEN [loop EXCEPT !.green = TRUE] ELSE loop
  /\ UNCHANGED <<packet, lines, stop, gate, history, faults>>

StopFile ==
  /\ stop' = ~stop
  /\ UNCHANGED <<packet, lines, pr, gate, loop, history, faults>>

\* What the loop does itself, and what a command does that it waits for.
OwnStep ==
  \/ Stopped \/ Missing \/ Unfit \/ Duplicate \/ New \/ Load \/ Record \/ Next_Iteration
  \/ Skip \/ Decide \/ Generated
CommandStep ==
  \/ Pass \/ TaskFails \/ Publish \/ Refresh \/ RefreshFails \/ Generate \/ Mirror("generator")

Next ==
  \/ Start
  \/ OwnStep \/ CommandStep
  \/ Unread \/ Unrecorded \/ Die
  \/ Mirror("operator") \/ \E p \in Packets : Register(p)
  \/ PullRequest \/ StopFile

Spec == Init /\ [][Next]_vars

\* The loop is one thread; that a command ends is assumed of the command, which is given
\* no time limit.
FairSpec == Spec /\ WF_vars(OwnStep) /\ WF_vars(CommandStep)

-----------------------------------------------------------------------------
TypeOK ==
  /\ resume \in File /\ tasks \in File
  /\ ledger \subseteq Packets /\ fresh \subseteq Packets
  /\ {cut, stop} \subseteq BOOLEAN
  /\ pr \in {"green", "open"} /\ gate \in {"missing", "green", "waiting"}
  /\ loop \in [at : Stages, forever : BOOLEAN, localOnly : BOOLEAN, gate : Gates,
               digest : File, batch : File, local : BOOLEAN, green : BOOLEAN]
  /\ mirror \in [{"operator", "generator"} ->
                   [at : {"idle", "clear", "unlink", "copy", "hash", "resume"}, packet : File]]
  /\ done \subseteq Packets /\ excused \subseteq Packets
  /\ faults \in 0 .. MaxFaults

(* A batch that has passed is never begun again, however often its packet is *)
(* registered and the loop restarted, except that of a packet excused: its   *)
(* ledger line was not written, was joined to part of another or could not   *)
(* be read, or it was put in place of another after that one's digest was    *)
(* taken.                                                                    *)
RunsOnce == [][\A p \in done : At("load") /\ loop'.at = "work" /\ loop'.batch = p => p \in excused']_vars

(* With the refresh not switched off, a packet that is not local-only is     *)
(* generated only if GitHub showed the pull request green at some moment     *)
(* since this iteration asked: a green file of an earlier refresh, a failing *)
(* or interrupted updater and a gate file it half-wrote do not let it pass.  *)
GreenToAdvance ==
  loop.at \in {"generate", "mirror"} /\ loop.gate = "refresh" /\ ~loop.local => loop.green

(* A packet registered and not yet in the ledger is begun by a loop that     *)
(* runs forever, unless the loop ends or the packet is replaced.             *)
PacketRuns ==
  \A p \in Packets :
    (~At("off") /\ resume = p /\ tasks = p /\ p \notin ledger)
      ~> (At("off") \/ loop.batch = p \/ resume # p \/ tasks # p \/ p \in ledger)

(* What runs under a digest is what that digest was taken of.                *)
RunsWhatItVerified == loop.at \in {"work", "record"} => loop.batch = loop.digest
=============================================================================
