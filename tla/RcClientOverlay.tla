--------------------------- MODULE RcClientOverlay ---------------------------
(***************************************************************************)
(* What the events of rc_client promise the host that draws an overlay:    *)
(* something is shown when it was hidden, hidden or updated when it was    *)
(* shown, and playing the events one by one gives what is in use.  The     *)
(* leaderboard trackers and the challenge indicators implement this.       *)
(***************************************************************************)
EXTENDS Naturals, Sequences, SequencesExt

CONSTANT Elements      \* what can be shown

VARIABLES shown,       \* the elements in use
          raised       \* the events of the call that has just been made

vars == <<shown, raised>>

Events == [type : {"SHOW", "HIDE", "UPDATE"}, id : Elements]

Init == shown = {} /\ raised = <<>>

\* The overlay a host draws when it handles `events' in order.
Played(before, events) ==
  FoldLeft(LAMBDA drawn, e : CASE e.type = "SHOW"   -> drawn \cup {e.id}
                               [] e.type = "HIDE"   -> drawn \ {e.id}
                               [] e.type = "UPDATE" -> drawn,
           before, events)

Legal(before, events) ==
  \A i \in DOMAIN events :
    events[i].type = "SHOW" <=> events[i].id \notin Played(before, SubSeq(events, 1, i - 1))

\* A call of the client raises events, which the host has handled before the next.
Call ==
  /\ raised = <<>>
  /\ raised' \in Seq(Events)
  /\ Legal(shown, raised')
  /\ shown' = Played(shown, raised')

Handled ==
  /\ raised' = <<>>
  /\ UNCHANGED shown

Next == Call \/ Handled

Spec == Init /\ [][Next]_vars
=============================================================================
