------------------------- MODULE MCKconfigSessions --------------------------
(* Two tabs on two targets; the store keeps two sessions instead of four.   *)
EXTENDS KconfigSessions, TLC

CONSTANTS x1, x2, t1, t2, a1, a2

MCTabs == {x1, x2}
MCTargets == {t1, t2}
MCAnswers == {a1, a2}

Alike == Permutations(MCTabs)

Having(n, targets, kinds) == [opens |-> n, targets |-> targets, disturbances |-> kinds]

MCScenarios ==
  {Having(2, {t1, t2}, {"expires", "others_build"}),
   Having(3, {t1}, {"two_tabs", "force"}),
   Having(2, {t1}, {"two_tabs", "late_call", "expires", "parse_fails"}),
   Having(2, {t1}, {"menuconfig", "save_fails", "dies"}),
   Having(2, {t1}, {"opens_meet", "save_fails"})}
=============================================================================
