---------------------------- MODULE MCRcClientLoad ----------------------------
(* Hosts for the model checker.                                             *)
EXTENDS RcClientLoad

Known == {"sets", "error"}

Plain == [threaded |-> FALSE, background |-> TRUE, aborts |-> FALSE, logins |-> FALSE,
          spectating |-> FALSE, hashes |-> 1, answers |-> Known \cup {"unknown"}]

\* Hosts that let the handlers of answers activate games and find several hashes for a
\* file, one with threads, and two that activate games when they are idle: one logs in
\* and out, the other aborts loads.
Queueing == [Plain EXCEPT !.background = FALSE, !.hashes = 0]
MCHosts == {
  Plain, [Plain EXCEPT !.spectating = TRUE],
  [Plain EXCEPT !.threaded = TRUE, !.hashes = 0, !.answers = Known],
  [Queueing EXCEPT !.logins = TRUE], [Queueing EXCEPT !.aborts = TRUE]}
=============================================================================
