---------------------------- MODULE MCToolApproval ----------------------------
(* A small instance of ToolApproval for TLC. *)
EXTENDS ToolApproval

CONSTANTS r1, w1, w2, a1

MCRuns == {r1}
MCWorkers == {w1, w2}
MCApis == {a1}
=============================================================================
