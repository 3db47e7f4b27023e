----------------------- MODULE MCRcClientLeaderboards -----------------------
(***************************************************************************)
(* Games and hosts for TLC: two leaderboards with one formula, or two, or  *)
(* one that counts hits.                                                   *)
(***************************************************************************)
EXTENDS RcClientLeaderboards

Shared == [l \in Leaderboards |-> "v"]
Own == [l \in Leaderboards |-> IF l = 1 THEN "v" ELSE "w"]
Hits == [l \in Leaderboards |-> "h"]

Plain == [formula |-> Shared, values |-> 1, noStart |-> {}, softcore |-> FALSE,
          saves |-> FALSE, fails |-> FALSE]

\* Save states with values that change; unreadable memory, leaderboards in softcore
\* and one in development with values that do not; a tracker for each;
\* values that count hits.
SafeHosts ==
  {[Plain EXCEPT !.saves = TRUE],
   [Plain EXCEPT !.values = 0, !.noStart = {2}, !.softcore = TRUE, !.fails = TRUE],
   [Plain EXCEPT !.formula = Own],
   [Plain EXCEPT !.formula = Hits, !.values = 2]}

=============================================================================
