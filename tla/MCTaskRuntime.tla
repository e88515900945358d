---------------------------- MODULE MCTaskRuntime ----------------------------
(* Small instances of TaskRuntime for TLC. *)
EXTENDS TaskRuntime, TLC

CONSTANTS t1, t2, w1, w2

MCTasks == {t1, t2}
MCWorkers == {w1, w2}
(* t1 is a ReAct task and t2, which needs it, has an adapter. *)
MCChain == t1 :> {} @@ t2 :> {t1}
MCAdapted == {t2}
MCBoth == {"postgresql", "sqlite"}

WorkerSymmetry == Permutations(MCWorkers)
=============================================================================
