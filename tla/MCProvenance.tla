---------------------------- MODULE MCProvenance ----------------------------
(* Provenance with two commits, two configurations and one board.           *)
EXTENDS Provenance, TLC

CONSTANTS c1, c2, k1, k2, b1

Alike == Permutations({c1, c2}) \cup Permutations({k1, k2})

\* Nothing, or one kind of thing that goes wrong.
OneKind == {{}, {"pull_during_build"}, {"menuconfig_during_build"},
            {"dies", "sidecar_fails"}, {"unrecorded"}, {"unreadable"}}
=============================================================================
