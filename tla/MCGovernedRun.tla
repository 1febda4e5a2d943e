--------------------------- MODULE MCGovernedRun ---------------------------
(* GovernedRun for TLC: two files with two contents, and the trees a        *)
(* provider may produce among them.                                        *)
EXTENDS GovernedRun, TLC

CONSTANTS a, b, v0, v1, Crashes, Drifts, Failures, Expiries, Unlinks

MCFiles == {a, b}
MCValues == {v0, v1}
MCInitialTree == [f \in MCFiles |-> v0]

\* Nothing changed, one file modified, one modified and one deleted.
MCProviderTrees == {MCInitialTree,
                    [MCInitialTree EXCEPT ![a] = v1],
                    [MCInitialTree EXCEPT ![a] = v1, ![b] = Absent]}

\* One way to change one file.
MCOneTree == {[MCInitialTree EXCEPT ![a] = v1]}
MCTwoTrees == {[MCInitialTree EXCEPT ![a] = v1],
               [MCInitialTree EXCEPT ![a] = v1, ![b] = Absent]}

\* One file only, for the runs with overlapping processes.
MCOneFile == {a}
MCOneFileInitial == [f \in MCOneFile |-> v0]
MCOneFileTrees == {[MCOneFileInitial EXCEPT ![a] = v1]}

\* Runners are interchangeable (safety properties only).
RunnerSymmetry == Permutations(Runners)

MCMaxFaults == [k \in FaultKinds |->
                  CASE k = "crash" -> Crashes
                    [] k = "drift" -> Drifts
                    [] k = "fail" -> Failures
                    [] k = "expire" -> Expiries
                    [] k = "unlink" -> Unlinks]
=============================================================================
