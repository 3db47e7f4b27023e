---------------------------- MODULE MCRcRuntime ----------------------------
(* An instance of RcRuntime: an achievement that is measured and has a second *)
(* version, one that is not measured, a leaderboard, and two scripts.         *)
EXTENDS RcRuntime

Counter  == [id |-> 1, md5 |-> "counter", address |-> "low", data |-> {0, 1, Unknown},
             fresh |-> Unknown, target |-> 1, size |-> 2]
Counter2 == [Counter EXCEPT !.md5 = "counter2", !.size = 3]
Plain    == [id |-> 2, md5 |-> "plain", address |-> "high", data |-> {0},
             fresh |-> 0, target |-> 0, size |-> 1]
Race     == [id |-> 3, md5 |-> "race", address |-> "high", data |-> {0, 1},
             fresh |-> 0, target |-> 0, size |-> 4]

Level  == [md5 |-> "level", names |-> <<"stage", "lives">>,
           conditional |-> TRUE, display |-> TRUE]
Lives  == [md5 |-> "lives", names |-> <<"lives">>, conditional |-> FALSE, display |-> TRUE]
Nothing == [md5 |-> "nothing", names |-> <<>>, conditional |-> FALSE, display |-> FALSE]

Uses(achievements, leaderboards, scripts, loaded, boards) ==
  [achievements |-> achievements, leaderboards |-> leaderboards, scripts |-> scripts,
   loaded |-> loaded, boards |-> boards]

MCHosts == {
  Uses({Counter, Counter2, Plain}, {}, {}, <<Counter, Plain>>, <<>>),
  Uses({Plain}, {Race}, {}, <<>>, <<Race>>),
  Uses({Counter}, {}, {Level, Lives, Nothing}, <<>>, <<>>)}
=============================================================================
