---------------------------- MODULE FactoryQueue ----------------------------
(* The persisted queue of governed runs (ao2-cli/src/factory_queue*.rs).  Every *)
(* `ao2 factory queue-*` command is a process of its own: it loads queue.json,  *)
(* changes the list it loaded and writes all of it back.  Running the next entry*)
(* takes several such rounds, with the execution, and for a project start the   *)
(* packaging of its closure, between them.                                      *)
EXTENDS Naturals, FiniteSets, Sequences

CONSTANTS
    Plans, Projects,    \* run ids of governed plans and of project-start jobs
    Cmds,               \* command processes that may be alive together
    MaxCommands,        \* how many commands are given and plans edited
    None

ASSUME KindsAssumption == Plans \cap Projects = {} /\ None \notin Plans \cup Projects
ASSUME CommandsAssumption == MaxCommands \in Nat

Runs == Plans \cup Projects

VARIABLES
    queue,      \* the entries of queue.json
    cmd,        \* each command: where it is, its run, outcome, goal, and the list it holds
    intact,     \* runs whose plan or spec still has the digest it was queued with
    nextFile,   \* the run named by the run-next file in a project start's directory
    contracted, \* project starts whose directory has a completion contract
    listing,    \* the queue listing a front end saved last, and whether it was attested
    given,      \* commands given so far
    earned      \* runs of which an execution was accepted and, of a project start, packaged

files == <<nextFile, contracted, listing>>
vars == <<queue, cmd, intact, files, given, earned>>

\* No listing was saved yet.  The field inflight records what was executed by then.
Unlisted == [active |-> TRUE, inflight |-> FALSE, attested |-> FALSE]

Gone == [at |-> "idle", run |-> None, out |-> "none", goal |-> None, snap |-> <<>>]

Init ==
    /\ queue = <<>> /\ cmd = [c \in Cmds |-> Gone] /\ intact = Runs
    /\ nextFile = [r \in Projects |-> None] /\ contracted = {} /\ listing = Unlisted
    /\ given = 0 /\ earned = {}

-----------------------------------------------------------------------------
(* The list                                                                *)

\* Mutated form: only an entry that is active counts.
Has_Active(q, r) == \E i \in DOMAIN q : q[i].run = r /\ q[i].status \in {"queued", "running"}
Has(q, r) == \E i \in DOMAIN q : q[i].run = r
Is(q, r, s) == \E i \in DOMAIN q : q[i] = [run |-> r, status |-> s]
SetStatus(q, r, s) ==
    [i \in DOMAIN q |-> IF q[i].run = r THEN [q[i] EXCEPT !.status = s] ELSE q[i]]

Queued(q) == {i \in DOMAIN q : q[i].status = "queued"}
First(q) == q[CHOOSE i \in Queued(q) : \A j \in Queued(q) : i <= j].run

\* The entries cancel-authority takes for runs in flight.
NoActiveRuns(q) == \A i \in DOMAIN q : q[i].status \notin {"queued", "running"}

-----------------------------------------------------------------------------
(* Rounds of load, change and store: no lock is taken, so that the rounds of   *)
(* two commands overlap in any way                                             *)

\* Where a command is between two rounds: to load the queue next, executing, packaging...
Places == {"idle", "pick", "claim", "deny", "execute", "done", "package", "report", "contract"}

\* A command about to store is where its change is named.
Changes == {"submit", "cancel", "retry", "start", "block", "finish", "close"}

\* The command goes on with run r, holding the list q.
Go(c, place, r, q) ==
    cmd' = [cmd EXCEPT ![c] = [@ EXCEPT !.at = place, !.run = r, !.snap = q]]

End(c) == cmd' = [cmd EXCEPT ![c] = Gone]

\* A round: the list is loaded, and ends in an error if it has no such run.
Change(c, change, r, status) ==
    IF Has(queue, r) THEN Go(c, change, r, SetStatus(queue, r, status)) ELSE End(c)

Executing(r) == \E c \in Cmds : cmd[c].run = r /\ cmd[c].at \in {"execute", "done"}

\* Where a command goes once it has stored its change.  A verdict for an entry that is
\* gone from the list is an error.
After(c) ==
    CASE cmd[c].at = "start" -> "execute"
      [] cmd[c].at = "submit" /\ cmd[c].goal # None -> "pick"
      [] cmd[c].at \in {"finish", "close"} /\ cmd[c].goal # None /\ Has(cmd[c].snap, cmd[c].run)
            -> "report"
      [] OTHER -> "idle"

\* The stored list has an accepted run, and its execution and packaging are done.
Earns(c) ==
    /\ cmd[c].out = "accepted" /\ Has(cmd[c].snap, cmd[c].run)
    /\ cmd[c].at = "close" \/ (cmd[c].at = "finish" /\ cmd[c].run \in Plans)

\* Writing queue.json replaces the file by the list the command holds.
Store(c) ==
    LET r == cmd[c].run IN
    /\ cmd[c].at \in Changes
    /\ queue' = cmd[c].snap
    /\ IF After(c) = "idle" THEN End(c) ELSE Go(c, After(c), r, <<>>)
    /\ earned' = IF Earns(c) THEN earned \cup {r} ELSE earned
    /\ UNCHANGED <<intact, files, given>>

-----------------------------------------------------------------------------
(* The operator's commands                                                 *)

Give(c) == cmd[c].at = "idle" /\ given < MaxCommands /\ given' = given + 1

\* A new entry is appended; submitting an id that is listed is an error.
SubmitAs(c, r, goal) ==
    cmd' = [cmd EXCEPT ![c] = [at |-> "submit", run |-> r, out |-> "none", goal |-> goal,
                               snap |-> Append(queue, [run |-> r, status |-> "queued"])]]

Submit(c, r) ==
    /\ Give(c) /\ ~Has(queue, r) /\ SubmitAs(c, r, None)
    /\ UNCHANGED <<queue, intact, files, earned>>

\* queue-cancel and queue-retry set the status whatever it was.
Cancel(c, r) ==
    /\ Give(c) /\ Has(queue, r) /\ Change(c, "cancel", r, "cancelled")
    /\ UNCHANGED <<queue, intact, files, earned>>

Retry(c, r) ==
    /\ Give(c) /\ Has(queue, r) /\ Change(c, "retry", r, "queued")
    /\ UNCHANGED <<queue, intact, files, earned>>

\* Somebody edits a plan or a spec that was queued.
Drift(r) ==
    /\ r \in intact /\ Has(queue, r) /\ given < MaxCommands /\ given' = given + 1
    /\ intact' = intact \ {r}
    /\ UNCHANGED <<queue, cmd, files, earned>>

\* A front end saves the queue listing...
List ==
    /\ given < MaxCommands /\ given' = given + 1
    /\ listing' = [active |-> ~NoActiveRuns(queue), attested |-> FALSE,
                   inflight |-> \E r \in Runs : Executing(r)]
    /\ UNCHANGED <<queue, cmd, intact, nextFile, contracted, earned>>

\* ...and cancel-authority attests from the saved listing that no run is in flight.
Attest ==
    /\ ~listing.active /\ listing' = [listing EXCEPT !.attested = TRUE]
    /\ UNCHANGED <<queue, cmd, intact, nextFile, contracted, given, earned>>

-----------------------------------------------------------------------------
(* queue-run-next                                                          *)

\* The first queued entry is taken, and refused if its plan is not what was queued.
Pick(c) ==
    LET r == First(queue) IN Go(c, IF r \in intact THEN "claim" ELSE "deny", r, <<>>)

RunNext(c) ==
    /\ Give(c) /\ Queued(queue) # {} /\ Pick(c)
    /\ UNCHANGED <<queue, intact, files, earned>>

\* The queue is loaded again and the entry becomes running, whatever it is by now.
Claim(c) ==
    /\ cmd[c].at = "claim" /\ Change(c, "start", cmd[c].run, "running")
    /\ UNCHANGED <<queue, intact, files, given, earned>>

\* So it is when the entry becomes blocked, before its execution or after a failure of it.
Deny(c) ==
    /\ cmd[c].at = "deny" /\ Change(c, "block", cmd[c].run, "blocked")
    /\ UNCHANGED <<queue, intact, files, given, earned>>

\* An execution ends with a verdict, or with an error that blocks the entry.
Execute(c) ==
    /\ cmd[c].at = "execute"
    /\ \/ \E s \in {"accepted", "rejected"} :
            cmd' = [cmd EXCEPT ![c] = [@ EXCEPT !.at = "done", !.out = s]]
       \/ Go(c, "deny", cmd[c].run, <<>>)
    /\ UNCHANGED <<queue, intact, files, given, earned>>

\* Mutated form: the verdict of a project start is stored before it is packaged.
Closing_Early(r) == "finish"

\* Of a project start the closure is packaged before the verdict is stored.
Closing(r) == IF r \in Projects THEN "package" ELSE "finish"

\* The verdict goes into the list as it is loaded now; there is nothing to package for a
\* project start that is gone from it.
Finish(c) ==
    LET r == cmd[c].run IN
    /\ cmd[c].at = "done"
    /\ IF Has(queue, r) \/ Closing(r) = "finish"
       THEN Go(c, Closing(r), r, SetStatus(queue, r, cmd[c].out)) ELSE End(c)
    /\ UNCHANGED <<queue, intact, files, given, earned>>

\* Packaging: done, and the list held since before it is stored; or an error that blocks
\* the entry; or an error that leaves it running (also a death).
Package(c) ==
    /\ cmd[c].at = "package"
    /\ \/ Go(c, "close", cmd[c].run, cmd[c].snap)
       \/ Go(c, "deny", cmd[c].run, <<>>)
    /\ UNCHANGED <<queue, intact, files, given, earned>>

-----------------------------------------------------------------------------
(* queue-project-start-complete                                            *)

\* An entry is submitted, resumed while it is queued, or its evidence reused once it is
\* accepted: then the run-next file must name it or be missing.
Complete(c, r) ==
    /\ Give(c)
    /\ \/ ~Has(queue, r) /\ SubmitAs(c, r, r)
       \/ /\ Is(queue, r, "queued") /\ r \in intact
          /\ cmd' = [cmd EXCEPT ![c] = [Gone EXCEPT !.at = "pick", !.goal = r]]
       \/ /\ Is(queue, r, "accepted") /\ r \in intact /\ nextFile[r] \in {r, None}
          /\ cmd' = [cmd EXCEPT ![c] = [Gone EXCEPT !.at = "report", !.run = r,
                                                    !.out = "accepted", !.goal = r]]
    /\ UNCHANGED <<queue, intact, files, earned>>

\* It runs the next entry, whichever that is.
CompletePick(c) ==
    /\ cmd[c].at = "pick"
    /\ IF Queued(queue) = {} THEN End(c) ELSE Pick(c)
    /\ UNCHANGED <<queue, intact, files, given, earned>>

\* What was run is written down before it is compared with what was asked for.
Report(c) ==
    LET r == cmd[c].goal IN
    /\ cmd[c].at = "report"
    /\ nextFile' = [nextFile EXCEPT ![r] = cmd[c].run]
    /\ IF cmd[c].run = r /\ cmd[c].out = "accepted" THEN Go(c, "contract", r, <<>>) ELSE End(c)
    /\ UNCHANGED <<queue, intact, contracted, listing, given, earned>>

\* The completion contract is made from the queue as it is loaded now.
Contract(c) ==
    LET r == cmd[c].goal IN
    /\ cmd[c].at = "contract" /\ End(c)
    /\ contracted' = IF Is(queue, r, "accepted") THEN contracted \cup {r} ELSE contracted
    /\ UNCHANGED <<queue, intact, nextFile, listing, given, earned>>

\* What the poll of a project start tells the front end to do next.
Artifacts(r) == nextFile[r] # None /\ r \in contracted
NextAction(r) ==
    CASE ~Has(queue, r) \/ Is(queue, r, "queued") -> "complete"
      [] Is(queue, r, "running") -> "wait"
      [] Is(queue, r, "rejected") -> "review"
      [] Is(queue, r, "accepted") /\ ~Artifacts(r) -> "complete"
      [] Is(queue, r, "accepted") /\ Artifacts(r) ->
            IF nextFile[r] = r THEN "publish" ELSE "review"
      [] OTHER -> "error"

-----------------------------------------------------------------------------

\* A command is killed, or fails where the code only returns the error.
Crash(c) ==
    /\ cmd[c].at # "idle" /\ End(c)
    /\ UNCHANGED <<queue, intact, files, given, earned>>

Next ==
    \/ \E c \in Cmds :
          \/ RunNext(c) \/ Claim(c) \/ Deny(c) \/ Execute(c) \/ Finish(c) \/ Package(c)
          \/ CompletePick(c) \/ Report(c) \/ Contract(c) \/ Store(c) \/ Crash(c)
    \/ \E c \in Cmds, r \in Runs : Submit(c, r) \/ Cancel(c, r) \/ Retry(c, r)
    \/ \E c \in Cmds, r \in Projects : Complete(c, r)
    \/ \E r \in Runs : Drift(r)
    \/ List \/ Attest

Spec == Init /\ [][Next]_vars

-----------------------------------------------------------------------------
(* Properties                                                              *)

Statuses == {"queued", "running", "accepted", "rejected", "blocked", "cancelled"}
Entries == [run : Runs, status : Statuses]

TypeOK ==
    /\ queue \in Seq(Entries)
    /\ cmd \in [Cmds -> [at : Places \cup Changes, run : Runs \cup {None},
                         out : {"none", "accepted", "rejected"},
                         goal : Projects \cup {None}, snap : Seq(Entries)]]
    /\ intact \subseteq Runs
    /\ nextFile \in [Projects -> Runs \cup {None}] /\ contracted \subseteq Projects
    /\ listing \in [active : BOOLEAN, inflight : BOOLEAN, attested : BOOLEAN]
    /\ given \in 0..MaxCommands /\ earned \subseteq Runs

\* No run is listed twice, whatever is submitted, retried and completed by whom.
NoRunTwice == \A i, j \in DOMAIN queue : queue[i].run = queue[j].run => i = j

\* A run is accepted in the queue, and a project start has a completion contract, only if
\* an execution of it was accepted and, of a project start, packaged and then stored:
\* whatever stale lists are stored meanwhile, none of them accepts what was not.
AcceptedIsEarned ==
    /\ \A r \in Runs : Is(queue, r, "accepted") => r \in earned
    /\ contracted \subseteq earned

\* A run that is listed stays listed: AO2 persists the history of the queue.
HistoryKept == [][\A r \in Runs : Has(queue, r) => Has(queue', r)]_vars

\* When it is attested that no run is in flight, none was when the listing was saved.
AttestationTrue == listing.attested => ~listing.inflight

\* A run is executed by one command at a time.
OneExecution ==
    \A c, d \in Cmds :
        ({cmd[c].at, cmd[d].at} \subseteq {"execute", "done"} /\ cmd[c].run = cmd[d].run) => c = d

\* When the poll tells the front end to call complete for a project start, complete does
\* not refuse the evidence it finds.
PollAgrees ==
    \A r \in Projects :
        (NextAction(r) = "complete" /\ Is(queue, r, "accepted")) => nextFile[r] \in {r, None}
=============================================================================
