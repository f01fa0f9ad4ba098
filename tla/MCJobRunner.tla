---------------------------- MODULE MCJobRunner ----------------------------
(* Two request threads of the dispatch pool; nothing, or one kind of       *)
(* thing, goes wrong.                                                      *)
EXTENDS JobRunner

CONSTANTS r1, r2

MCRequests == {r1, r2}

MCDisturbances == {{}, {"thread_fails"}, {"late_submit"}, {"early_cancel"}}
=============================================================================
