---------------------------- MODULE SandboxPatch ----------------------------
(***************************************************************************)
(* What a sandbox patch is (crates/ao2-adapters/src/sandbox_patch.rs): the *)
(* difference between the target repository and a sandbox, as the ordered  *)
(* list of file operations with the state of each file before and after,   *)
(* bound to the commit the repository stands at.  Its SHA-256 is the       *)
(* action digest of the approval ticket; the digest is taken to be         *)
(* injective, so the subject itself stands for it.                         *)
(***************************************************************************)
EXTENDS Naturals

CONSTANTS
    Files,      \* the paths snapshot_tree visits (ignored directories excluded)
    Values,     \* contents, modes and link targets a file may have
    Absent,     \* the path does not exist
    NoTree,     \* the directory does not exist
    NoSub       \* no approval subject

ASSUME PatchAssumption ==
    /\ Absent \notin Values
    /\ NoTree \notin [Files -> Values \cup {Absent}]

Content == Values \cup {Absent}

\* A directory as snapshot_tree sees it; a path of WalkDir order is not kept.
Trees == [Files -> Content]
EmptyTree == [f \in Files |-> Absent]

\* The operations: Added, Deleted or Modified, by the two states of the file.
Changed(before, after) == {f \in Files : before[f] # after[f]}

\* build_approval_subject: base commit and the operations with both states.
Preview(base, before, after) ==
    [base |-> base,
     ops  |-> [f \in Changed(before, after) |->
                  [before |-> before[f], after |-> after[f]]]]

Subjects(Bases) == {Preview(h, b, a) : h \in Bases, b \in Trees, a \in Trees}

\* One file copied into a directory (fs::create_dir_all of the parent first).
CopyInto(tree, f, v) ==
    [(IF tree = NoTree THEN EmptyTree ELSE tree) EXCEPT ![f] = v]
=============================================================================
