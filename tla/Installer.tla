------------------------------ MODULE Installer ------------------------------
(* `ao2 install update` and `ao2 install rollback` (install_cmd.rs): four files *)
(* are replaced one after another, and a command may die between any two, or    *)
(* end there because a file operation fails.                                    *)
EXTENDS Naturals

CONSTANTS
    Versions,       \* releases whose archive passes verification
    MaxCommands,    \* commands given
    MaxDeaths,      \* commands that die
    None

Systems == {"posix", "windows"}
Ends == {"none", "begun", "ended", "died"}
Places == {"keep", "keepEvidence", "withdraw", "replace", "vouch"}

ASSUME VersionsAssumption == None \notin Versions
ASSUME BoundsAssumption == MaxCommands \in Nat /\ MaxDeaths \in Nat

VARIABLES
    bin, evidence,          \* the installed binary; the version its evidence names
    oldBin, oldEvidence,    \* <binary>.rollback and the evidence kept with it
    job,                    \* the command under way and where it is
    system,                 \* on Windows a file is removed before it is written
    before,                 \* what was installed when the last update began
    last,                   \* what became of that update, or of a command after it
    unpaired,               \* an update died between the copies of binary and evidence
    given, deaths

files == <<bin, evidence, oldBin, oldEvidence>>
history == <<before, last, unpaired>>
vars == <<files, job, system, history, given, deaths>>

NoJob == [op |-> "none", at |-> "idle", version |-> None]

\* A binary may have been put there by other means, without evidence.
Init ==
    /\ bin \in Versions \cup {None} /\ evidence = None
    /\ oldBin = None /\ oldEvidence = None
    /\ job = NoJob /\ system \in Systems
    /\ before = [bin |-> None, evidence |-> None] /\ last = "none"
    /\ unpaired = FALSE
    /\ given = 0 /\ deaths = 0

-----------------------------------------------------------------------------

At(place) == job.at = place
Goto(place) == job' = [job EXCEPT !.at = place]

\* Replacing a file is one rename; Windows removes what is there in a step of its own.
Writable(file) == system = "windows" => file = None
Removable(file) == system = "windows" /\ file # None

Update(v) ==
    /\ At("idle") /\ given < MaxCommands /\ given' = given + 1
    /\ job' = [op |-> "update", at |-> "keep", version |-> v]
    /\ before' = [bin |-> bin, evidence |-> evidence] /\ last' = "begun"
    /\ UNCHANGED <<files, system, unpaired, deaths>>

Rollback ==
    /\ At("idle") /\ given < MaxCommands /\ given' = given + 1
    /\ oldBin # None
    /\ job' = [op |-> "rollback", at |-> "withdraw", version |-> oldBin]
    /\ UNCHANGED <<files, system, history, deaths>>

\* The installed binary is copied; with nothing installed an old copy is removed.
Keep ==
    /\ At("keep")
    /\ \/ Removable(oldBin) /\ bin # None /\ oldBin' = None /\ UNCHANGED job
       \/ (Writable(oldBin) \/ bin = None) /\ oldBin' = bin /\ Goto("keepEvidence")
    /\ UNCHANGED <<bin, evidence, oldEvidence, system, history, given, deaths>>

\* Mutated form: an older copy stays where there is no evidence to copy.
Copied_Present == IF evidence = None THEN oldEvidence ELSE evidence

\* So is its evidence; where it has none, or with nothing installed, an older copy is
\* removed.
Copied == IF bin = None THEN None ELSE evidence

KeepEvidence ==
    /\ At("keepEvidence")
    /\ \/ Removable(oldEvidence) /\ Copied # None /\ oldEvidence' = None /\ UNCHANGED job
       \/ (Writable(oldEvidence) \/ Copied = None) /\ oldEvidence' = Copied /\ Goto("withdraw")
    /\ UNCHANGED <<bin, evidence, oldBin, system, history, given, deaths>>

\* Mutated form: the evidence stays until it is replaced.
Withdrawn_Kept == evidence
Withdrawn == None

Withdraw ==
    /\ At("withdraw") /\ Goto("replace")
    /\ evidence' = Withdrawn
    /\ UNCHANGED <<bin, oldBin, oldEvidence, system, history, given, deaths>>

Replaceable == Writable(bin)

Replace ==
    /\ At("replace")
    /\ \/ ~Replaceable /\ bin' = None /\ UNCHANGED job
       \/ Replaceable /\ bin' = job.version /\ Goto("vouch")
    /\ UNCHANGED <<evidence, oldBin, oldEvidence, system, history, given, deaths>>

\* An update writes the evidence of its release; a rollback copies what was kept, if any.
Vouched == IF job.op = "update" THEN job.version ELSE oldEvidence

Vouch ==
    /\ At("vouch") /\ job' = NoJob
    /\ evidence' = IF Vouched = None THEN evidence ELSE Vouched
    /\ last' = IF job.op = "update" THEN "ended" ELSE last
    /\ UNCHANGED <<bin, oldBin, oldEvidence, system, before, unpaired, given, deaths>>

Die ==
    /\ ~At("idle") /\ deaths < MaxDeaths /\ deaths' = deaths + 1
    /\ job' = NoJob /\ last' = "died"
    /\ unpaired' = (unpaired \/ At("keepEvidence"))
    /\ UNCHANGED <<files, system, before, given>>

Next ==
    \/ \E v \in Versions : Update(v)
    \/ Rollback \/ Keep \/ KeepEvidence \/ Withdraw \/ Replace \/ Vouch \/ Die

Spec == Init /\ [][Next]_vars

-----------------------------------------------------------------------------
(* Properties                                                              *)

Kept == Versions \cup {None}

TypeOK ==
    /\ bin \in Kept /\ evidence \in Kept /\ oldBin \in Kept /\ oldEvidence \in Kept
    /\ job \in [op : {"none", "update", "rollback"}, at : Places \cup {"idle"}, version : Kept]
    /\ system \in Systems /\ last \in Ends
    /\ before \in [bin : Kept, evidence : Kept]
    /\ unpaired \in BOOLEAN
    /\ given \in Nat /\ deaths \in Nat

\* The four files implement the promise: evidence is withdrawn before the binary changes
\* and given only for the binary in place, until an update dies between its two copies;
\* from then on what was kept may not belong together, and nothing is promised.
Trust == INSTANCE Activation
           WITH active <- bin, trusted <- IF unpaired THEN None ELSE evidence
EvidenceIsTrue == Trust!Spec

\* What the tests promise without that reservation.
EvidenceVouches == evidence \in {None, bin}

\* A rollback after an update that came to its end puts back the binary and the evidence,
\* or the lack of it, that were there before.
RollbackRestores ==
    [][(At("vouch") /\ job.op = "rollback" /\ job'.at = "idle" /\ last' = "ended")
          => (bin' = before.bin /\ evidence' = before.evidence)]_vars

\* Except on Windows an installed binary is there at every moment, whoever dies when.
BinaryStays == [][system = "posix" /\ bin # None => bin' # None]_vars
=============================================================================
