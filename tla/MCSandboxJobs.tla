---------------------------- MODULE MCSandboxJobs ----------------------------
(* A small instance of SandboxJobs for TLC. *)
EXTENDS SandboxJobs, TLC

CONSTANTS j1, t1, t2, t3, p1, p2

MCOneJob == {j1}
MCThreads == {t1, t2, t3}

(* Two threads of one process, the sandbox loop of a run and the main loop *)
(* it outlived, and one of another.                                        *)
MCNames == (t1 :> p1) @@ (t2 :> p1) @@ (t3 :> p2)
=============================================================================
