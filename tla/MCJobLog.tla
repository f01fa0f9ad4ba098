----------------------------- MODULE MCJobLog ------------------------------
(* Two jobs of three lines; the ring and a batch hold two.                  *)
EXTENDS JobLog

Having(j, d, n, c, kinds) ==
  [jobs |-> j, drops |-> d, notices |-> n, cancels |-> c, disturbances |-> kinds]

MCScenarios ==
  {Having(2, 0, 0, {}, {}), Having(1, 0, 1, {1}, {}), Having(1, 2, 1, {}, {}),
   Having(1, 1, 1, {}, {"tail_lost"}), Having(1, 1, 0, {1}, {"told_early"}),
   Having(1, 1, 0, {}, {"tail_lost", "reports_overlap"})}

\* One job that a client cancels as it ends; the connection stays up.
CancelledAtTheEnd == {Having(1, 0, 0, {1}, {"told_early"})}
=============================================================================
