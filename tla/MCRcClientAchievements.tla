----------------------- MODULE MCRcClientAchievements -----------------------
(* Hosts for the model checker.                                             *)
EXTENDS RcClientAchievements

Plain == [saves |-> FALSE, fails |-> FALSE, encores |-> FALSE, submits |-> FALSE]

SafeHosts ==
  {[Plain EXCEPT !.submits = TRUE], [Plain EXCEPT !.saves = TRUE],
   [Plain EXCEPT !.encores = TRUE], [Plain EXCEPT !.fails = TRUE]}

SubmittingHosts == {[Plain EXCEPT !.submits = TRUE]}
=============================================================================
