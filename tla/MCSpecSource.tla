---------------------------- MODULE MCSpecSource ----------------------------
(* Instances of SpecSource for TLC. *)
EXTENDS SpecSource

CONSTANTS c1, c2, bad  \* two valid commits and one whose file is rejected

MCCommits == {c1, c2, bad}
MCValidCommits == {c1, c2}
=============================================================================
