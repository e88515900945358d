--------------------------- MODULE MCRunLifecycle ---------------------------
(* Small instances of RunLifecycle for TLC. *)
EXTENDS RunLifecycle, TLC

CONSTANTS r1, r2, w1, w2

MCRuns == {r1, r2}
MCOneRun == {r1}
MCWorkers == {w1, w2}

(* Workers, and runs, differ only by name, and no safety property names one. *)
WorkerSymmetry == Permutations(MCWorkers)
RunWorkerSymmetry == Permutations(MCRuns) \union Permutations(MCWorkers)
=============================================================================
