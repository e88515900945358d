----------------------------- MODULE MCPreview -----------------------------
(* A small instance of Preview for TLC. *)
EXTENDS Preview

CONSTANTS a, b, bad, page1

(* Two contents that are accepted and one that is not. *)
MCArtifactOf == [c \in {a, b, bad} |-> IF c = bad THEN Nil ELSE c]
=============================================================================
