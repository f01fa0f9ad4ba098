---------------------------- MODULE MCAdoption -----------------------------
(* Two boards, two types, two request threads and one CLI process.          *)
EXTENDS Adoption, TLC

CONSTANTS r1, r2, c1, t1, t2, b1, b2, o1, o2, k1, k2

MCRequests == {r1, r2}
MCClis == {c1}
MCTypes == {t1, t2}
MCBoards == {b1, b2}
MCOptions == {o1}
MCKeys == {k1, k2}

\* Types differ in nothing but their names, and so do request threads.
Swap(x, y) == (x :> y) @@ (y :> x)
Alike == {Swap(t1, t2), Swap(r1, r2), Swap(t1, t2) @@ Swap(r1, r2)}

\* b1 waits in DFU mode; b2 is not there, with Katapult or without.  Each has a DFU
\* serial of its own, or they share one.
Starts(ownKeys) ==
  {[bus |-> (b1 :> "dfu") @@ (b2 :> "away"), boot |-> (b1 :> NoType) @@ (b2 :> katapult),
    dfuOf |-> (b1 :> k1) @@ (b2 :> IF own THEN k2 ELSE k1)] :
      katapult \in MCTypes \cup {NoType}, own \in ownKeys}

Having(e, i, m, kinds, ownKeys) ==
  {start @@ [edits |-> e, installs |-> i, moves |-> m, disturbances |-> kinds] :
     start \in Starts(ownKeys)}

MCScenarios ==
  Having(2, 0, 0, {"edits_meet", "cli_tracks_again"}, {TRUE})
  \cup Having(2, 0, 0, {}, {TRUE})
  \cup Having(2, 0, 1, {"dies"}, {TRUE})
  \cup Having(1, 1, 2, {}, {TRUE})
  \cup Having(0, 1, 3, {}, {FALSE})
  \cup Having(0, 2, 4, {}, {TRUE})
  \cup Having(1, 1, 1, {"edits_meet", "edit_meets_adoption", "cli_tracks_again",
                        "handler_fails"}, {TRUE})
  \cup Having(0, 2, 3, {"dies"}, {TRUE})
  \cup Having(0, 2, 3, {"pairings_meet", "early_board", "board_flickers", "cli_install",
                        "download_unreported"}, {TRUE})
=============================================================================
