--------------------------- MODULE InstallerProofs ---------------------------
(* Proofs about Installer: its types, what a rollback restores, that a binary   *)
(* stays where it is, and that it implements Activation, wherever commands die. *)
EXTENDS Installer, TLAPS

-----------------------------------------------------------------------------
(* Types                                                                     *)

LEMMA InitType == Init => TypeOK
<1> SUFFICES ASSUME Init PROVE TypeOK
  OBVIOUS
<1>1. unpaired \in BOOLEAN
  BY Zenon DEF Init
<1> QED
  BY <1>1 DEF Init, TypeOK, NoJob, Kept, Places, Systems, Ends

LEMMA NextType == TypeOK /\ [Next]_vars => TypeOK'
<1> SUFFICES ASSUME TypeOK, [Next]_vars PROVE TypeOK'
  OBVIOUS
<1> USE DEF TypeOK, Kept, At, Goto, Places, Systems, Ends
<1>1. ASSUME NEW v \in Versions, Update(v) PROVE TypeOK'
  BY <1>1 DEF Update, files
<1>2. CASE Rollback
  BY <1>2 DEF Rollback, files, history
<1>3. CASE Keep
  BY <1>3 DEF Keep, history
<1>4. CASE KeepEvidence
  BY <1>4 DEF KeepEvidence, Copied, history
<1>5. CASE Withdraw
  BY <1>5 DEF Withdraw, Withdrawn, history
<1>6. CASE Replace
  BY <1>6 DEF Replace, history
<1>7. CASE Vouch
  BY <1>7 DEF Vouch, Vouched, NoJob
<1>8. CASE Die
  BY <1>8 DEF Die, NoJob, files
<1>9. CASE UNCHANGED vars
  BY <1>9 DEF vars, files, history
<1> QED
  BY <1>1, <1>2, <1>3, <1>4, <1>5, <1>6, <1>7, <1>8, <1>9 DEF Next

(* The files, the command under way and the counters keep their types: every   *)
(* version a file names is one that was installed.                             *)
THEOREM TypesHold == Spec => []TypeOK
BY InitType, NextType, PTL DEF Spec

-----------------------------------------------------------------------------
(* The inductive invariant                                                   *)

\* A command under way: what it installs, and what its place says of the files.
JobInv ==
    /\ ~At("idle") => job.version # None
    /\ At("keep") \/ At("keepEvidence") => job.op = "update"
    /\ ~At("idle") => job.op \in {"update", "rollback"}
    /\ ~At("idle") /\ job.op = "rollback" => job.version = oldBin
    /\ At("keepEvidence") => oldBin = bin
    /\ At("vouch") => bin = job.version

\* Evidence is there only beside a binary, and not while that is being replaced.
PlaceInv ==
    /\ bin = None => evidence = None
    /\ At("replace") \/ At("vouch") => evidence = None

\* What the older copy is a copy of.
KeptInv ==
    /\ At("keep") \/ At("keepEvidence") => bin = before.bin /\ evidence = before.evidence
    /\ last = "ended" => At("idle") \/ job.op = "rollback"
    /\ last = "ended" \/ (job.op = "update" /\ job.at \in {"withdraw", "replace", "vouch"})
          => oldBin = before.bin /\ oldEvidence = before.evidence

IInv == TypeOK /\ JobInv /\ PlaceInv /\ KeptInv

LEMMA InitInv == Init => IInv
<1> SUFFICES ASSUME Init PROVE IInv
  OBVIOUS
<1>1. TypeOK
  BY InitType
<1> QED
  BY <1>1 DEF Init, IInv, JobInv, PlaceInv, KeptInv, At, NoJob

LEMMA NextInv == IInv /\ [Next]_vars => IInv'
<1> SUFFICES ASSUME IInv, [Next]_vars PROVE (JobInv /\ PlaceInv /\ KeptInv)'
  BY NextType DEF IInv
<1> USE DEF JobInv, PlaceInv, KeptInv, At, Goto
<1>1. ASSUME NEW v \in Versions, Update(v) PROVE (JobInv /\ PlaceInv /\ KeptInv)'
  BY <1>1, VersionsAssumption DEF Update, files, IInv
<1>2. CASE Rollback
  BY <1>2 DEF Rollback, files, history, IInv
<1>3. CASE Keep
  BY <1>3 DEF Keep, history, IInv, TypeOK
<1>4. CASE KeepEvidence
  BY <1>4 DEF KeepEvidence, Copied, history, IInv, TypeOK
<1>5. CASE Withdraw
  BY <1>5 DEF Withdraw, Withdrawn, history, IInv, TypeOK
<1>6. CASE Replace
  BY <1>6 DEF Replace, history, IInv, TypeOK
<1>7. CASE Vouch
  BY <1>7 DEF Vouch, Vouched, NoJob, IInv, TypeOK
<1>8. CASE Die
  BY <1>8 DEF Die, NoJob, files, IInv, TypeOK
<1>9. CASE UNCHANGED vars
  BY <1>9 DEF vars, files, history, IInv
<1> QED
  BY <1>1, <1>2, <1>3, <1>4, <1>5, <1>6, <1>7, <1>8, <1>9 DEF Next

LEMMA InvHolds == Spec => []IInv
BY InitInv, NextInv, PTL DEF Spec

-----------------------------------------------------------------------------
(* What evidence vouches for                                                 *)

\* The evidence beside the binary, and the evidence kept beside the older copy.
EvidenceInv ==
    /\ ~unpaired => evidence \in {None, bin}
    /\ ~unpaired /\ oldBin # None /\ ~At("keepEvidence") => oldEvidence \in {None, oldBin}

LEMMA EvidenceInvHolds == Spec => []EvidenceInv
<1>1. Init => EvidenceInv
  BY DEF Init, EvidenceInv
<1>2. IInv /\ EvidenceInv /\ [Next]_vars => EvidenceInv'
  <2> SUFFICES ASSUME IInv, EvidenceInv, [Next]_vars PROVE EvidenceInv'
    OBVIOUS
  <2> USE DEF EvidenceInv, JobInv, PlaceInv, At, Goto, IInv, TypeOK
  <2>1. CASE (\E v \in Versions : Update(v)) \/ Rollback
    BY <2>1 DEF Update, Rollback, files, history
  <2>2. CASE Keep
    BY <2>2 DEF Keep, history
  <2>3. CASE KeepEvidence
    BY <2>3 DEF KeepEvidence, Copied, history
  <2>4. CASE Withdraw
    BY <2>4 DEF Withdraw, Withdrawn, history
  <2>5. CASE Replace
    BY <2>5 DEF Replace, history
  <2>6. CASE Vouch
    BY <2>6 DEF Vouch, Vouched, NoJob
  <2>7. CASE Die
    BY <2>7 DEF Die, NoJob, files
  <2>8. CASE UNCHANGED vars
    BY <2>8 DEF vars, files, history
  <2> QED
    BY <2>1, <2>2, <2>3, <2>4, <2>5, <2>6, <2>7, <2>8 DEF Next
<1> QED
  BY <1>1, <1>2, InvHolds, PTL DEF Spec

-----------------------------------------------------------------------------
(* The promise                                                               *)

LEMMA StepImplements ==
  IInv /\ EvidenceInv' /\ [Next]_vars => [Trust!Next]_Trust!vars
<1> SUFFICES ASSUME IInv, EvidenceInv', [Next]_vars PROVE [Trust!Next]_Trust!vars
  OBVIOUS
<1> USE DEF Trust!Next, Trust!vars, Trust!Withdraw, Trust!Activate, Trust!Vouch, At, Goto
<1>1. CASE (\E v \in Versions : Update(v)) \/ Rollback \/ Keep \/ KeepEvidence
  <2>1. UNCHANGED <<bin, evidence, unpaired>>
    BY <1>1 DEF Update, Rollback, Keep, KeepEvidence, files, history
  <2> QED
    BY <2>1
<1>2. CASE Withdraw
  BY <1>2 DEF Withdraw, Withdrawn, history
<1>3. CASE Replace
  BY <1>3 DEF Replace, history, IInv, PlaceInv, TypeOK, Kept
<1>4. CASE Vouch
  BY <1>4 DEF Vouch, Vouched, IInv, JobInv, EvidenceInv
<1>5. CASE UNCHANGED vars
  BY <1>5 DEF vars, files, history
<1>6. CASE Die
  <2>1. UNCHANGED <<bin, evidence>>
    BY <1>6 DEF Die, files
  <2>2. CASE At("keepEvidence")
    <3>1. unpaired'
      BY <1>6, <2>2, Zenon DEF Die
    <3> QED
      BY <2>1, <3>1
  <2>3. CASE ~At("keepEvidence")
    <3>1. unpaired' = unpaired
      BY <1>6, <2>3 DEF Die, IInv, TypeOK
    <3> QED
      BY <2>1, <3>1
  <2> QED
    BY <2>2, <2>3
<1> QED
  BY <1>1, <1>2, <1>3, <1>4, <1>5, <1>6 DEF Next

(* The four files implement the promise of Activation: evidence is withdrawn    *)
(* before the binary changes and given only for the binary in place, until a    *)
(* command dies between the copy of the binary and the copy of its evidence.    *)
THEOREM ImplementsActivation == Spec => EvidenceIsTrue
<1>1. Init => Trust!Init
  BY DEF Init, Trust!Init
<1>2. IInv /\ EvidenceInv' /\ [Next]_vars => [Trust!Next]_Trust!vars
  BY StepImplements
<1>3. Spec => []IInv /\ []EvidenceInv
  BY InvHolds, EvidenceInvHolds, PTL
<1> QED
  BY <1>1, <1>2, <1>3, PTL DEF Spec, EvidenceIsTrue, Trust!Spec

(* A rollback after an update that came to its end restores the binary and the  *)
(* evidence, or the lack of it, that the update found, wherever commands died   *)
(* before that update or after it.                                              *)
THEOREM RollbackHolds == Spec => RollbackRestores
<1>1. IInv /\ [Next]_vars =>
        [(At("vouch") /\ job.op = "rollback" /\ job'.at = "idle" /\ last' = "ended")
            => (bin' = before.bin /\ evidence' = before.evidence)]_vars
  <2> SUFFICES ASSUME IInv, [Next]_vars, At("vouch"), job.op = "rollback", job'.at = "idle", last' = "ended"
               PROVE  (bin' = before.bin /\ evidence' = before.evidence) \/ UNCHANGED vars
    OBVIOUS
  <2> USE DEF At, IInv
  <2>1. CASE Vouch
    BY <2>1 DEF Vouch, Vouched, JobInv, PlaceInv, KeptInv
  <2>2. CASE Die
    BY <2>2 DEF Die
  <2>3. CASE UNCHANGED vars
    BY <2>3
  <2> QED
    BY <2>1, <2>2, <2>3 DEF Next, Update, Rollback, Keep, KeepEvidence, Withdraw, Replace
<1>2. Spec => []IInv
  BY InvHolds
<1> QED
  BY <1>1, <1>2, PTL DEF Spec, RollbackRestores

LEMMA NextStays == IInv /\ [Next]_vars => [system = "posix" /\ bin # None => bin' # None]_vars
<1> SUFFICES ASSUME IInv, [Next]_vars, system = "posix", bin # None PROVE bin' # None \/ UNCHANGED vars
  OBVIOUS
<1>1. CASE Replace
  BY <1>1 DEF Replace, Replaceable, Writable, At, IInv, JobInv
<1> QED
  BY <1>1 DEF Next, Update, Rollback, Keep, KeepEvidence, Withdraw, Vouch, Die, files

(* On a system with atomic renames an installed binary never disappears.        *)
THEOREM BinaryStaysHolds == Spec => BinaryStays
BY InvHolds, NextStays, PTL DEF Spec, BinaryStays
=============================================================================
