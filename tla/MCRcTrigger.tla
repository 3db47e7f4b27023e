---------------------------- MODULE MCRcTrigger ----------------------------
(***************************************************************************)
(* Trigger definitions for TLC, small enough to enumerate every frame.     *)
(***************************************************************************)
EXTENDS RcTrigger

C(type, required) == [type |-> type, required |-> required]

\* A reset in one group, a ResetNextIf chain, a pause and a primed core in another.
Gated ==
  [core |-> TRUE, saves |-> FALSE,
   groups |-> <<<<C("ResetNextIf", 0), C("Standard", 2), C("PauseIf", 0), C("Trigger", 0)>>,
                <<C("ResetIf", 0)>>>>]

\* A measured core that can be paused while an alternative resets it.
MeasuredCore ==
  [core |-> TRUE, saves |-> FALSE,
   groups |-> <<<<C("PauseIf", 1), C("Measured", 2)>>,
                <<C("ResetIf", 2)>>,
                <<C("Standard", 0)>>>>]

\* Added and subtracted hits, and a reset in the same group.
Tallied ==
  [core |-> TRUE, saves |-> FALSE,
   groups |-> <<<<C("AddHits", 0), C("SubHits", 2), C("Measured", 2), C("ResetIf", 0)>>>>]

\* Alternatives only; the second resets through a chain.
Alternatives ==
  [core |-> FALSE, saves |-> FALSE,
   groups |-> <<<<C("PauseIf", 0), C("MeasuredIf", 0), C("Measured", 2)>>,
                <<C("AndNext", 1), C("ResetIf", 1)>>>>]

\* OrNext into a hit target, and a combining condition that feeds nothing.
Chained ==
  [core |-> TRUE, saves |-> FALSE,
   groups |-> <<<<C("OrNext", 0), C("Standard", 2), C("Standard", 0), C("AddHits", 0)>>>>]

\* Two groups measure; one of them can be paused, a later one resets both.
TwoMeasures ==
  [core |-> FALSE, saves |-> FALSE,
   groups |-> <<<<C("Measured", 3)>>, <<C("PauseIf", 0), C("Measured", 3)>>,
                <<C("ResetIf", 0)>>>>]

\* The core pauses while an alternative measures and resets its own count.
PausedCore ==
  [core |-> TRUE, saves |-> FALSE,
   groups |-> <<<<C("PauseIf", 0)>>, <<C("ResetNextIf", 0), C("Measured", 2)>>>>]

\* An AddHits chain that ends without a target, before a condition that has one.
Untargeted ==
  [core |-> TRUE, saves |-> FALSE,
   groups |-> <<<<C("AddHits", 0), C("MeasuredIf", 0), C("Measured", 2)>>>>]

\* The same, where the chain is that of a later condition that is evaluated earlier.
UntargetedReset ==
  [core |-> TRUE, saves |-> FALSE,
   groups |-> <<<<C("Measured", 2), C("AddHits", 0), C("ResetIf", 0)>>>>]

Saving(d) == [d EXCEPT !.saves = TRUE]

Triggers ==
  {Gated, MeasuredCore, Tallied, Alternatives, Chained, TwoMeasures, PausedCore, Untargeted,
   UntargetedReset, Saving(Gated), Saving(MeasuredCore)}
=============================================================================
