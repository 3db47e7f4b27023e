------------------------- MODULE RcTriggerLifecycle -------------------------
(***************************************************************************)
(* What rc_evaluate_trigger promises its callers, without its conditions:  *)
(* the states of a trigger, the value each evaluation returns, and when an *)
(* achievement may fire.  What the conditions compute in a frame is a      *)
(* choice here; RcTrigger computes it and implements this module.          *)
(***************************************************************************)

VARIABLES state,   \* rc_trigger_t.state
          result,  \* what the last call returned, "none" if it was no evaluation
          calm     \* history: since the trigger last began waiting, some frame
                   \* was not ready to fire

vars == <<state, result, calm>>

\* rc_trigger_state_active
ActiveStates == {"WAITING", "ACTIVE", "PAUSED", "PRIMED"}
IdleStates   == {"INACTIVE", "TRIGGERED", "DISABLED"}
Settled      == {"ACTIVE", "PAUSED", "PRIMED"}

Init ==
  /\ state = "WAITING"
  /\ result = "none"
  /\ calm = FALSE

-----------------------------------------------------------------------------
\* A trigger that is not active ignores the frame.
FrameIgnored ==
  /\ state \in IdleStates
  /\ result' = "INACTIVE"
  /\ UNCHANGED <<state, calm>>

\* A ResetIf cleared hit counts: the state is kept, except that it may not be PRIMED.
FrameReset ==
  /\ state \in ActiveStates
  /\ state' = IF state = "PRIMED" THEN "ACTIVE" ELSE state
  /\ result' = "RESET"
  /\ calm' = TRUE

\* The frame was not ready to fire.
FrameSettles ==
  /\ state \in ActiveStates
  /\ state' \in Settled
  /\ result' \in {state', "RESET"}
  /\ calm' = TRUE

\* The frame was ready to fire, but no frame yet was not: wait again.
FrameWaits ==
  /\ state = "WAITING"
  /\ result' = "WAITING"
  /\ UNCHANGED <<state, calm>>

FrameFires ==
  /\ state \in Settled
  /\ state' = "TRIGGERED"
  /\ result' = "TRIGGERED"
  /\ UNCHANGED calm

\* The caller makes the trigger wait, or takes it out of play.
HostResets ==
  /\ state' = "WAITING"
  /\ result' = "none"
  /\ calm' = FALSE

HostStops ==
  /\ state' \in {"INACTIVE", "DISABLED"}
  /\ result' = "none"
  /\ calm' = FALSE

\* A save state puts an active trigger back to how it was when it was written.
HostRestores ==
  /\ state \in ActiveStates
  /\ state' \in ActiveStates
  /\ result' = "none"
  /\ calm' \in BOOLEAN
  /\ state' # "WAITING" => calm'

\* The owner writes a save state.
HostSaves ==
  /\ result' = "none"
  /\ UNCHANGED <<state, calm>>

Host == HostResets \/ HostStops \/ HostRestores \/ HostSaves

Frame == FrameIgnored \/ FrameReset \/ FrameSettles \/ FrameWaits \/ FrameFires

Next == Frame \/ Host

Spec == Init /\ [][Next]_vars

-----------------------------------------------------------------------------
TypeOK ==
  /\ state \in ActiveStates \cup IdleStates
  /\ result \in ActiveStates \cup {"none", "INACTIVE", "RESET", "TRIGGERED"}
  /\ calm \in BOOLEAN

\* A trigger that has left WAITING has seen a frame that was not ready to fire.
SettledIsCalm == state \in Settled \cup {"TRIGGERED"} => calm

\* A frame that fires finds calm set: an achievement never fires because of what
\* was already true when it was activated or reset.
NeverFiresAtOnce == [][result' = "TRIGGERED" /\ result # "TRIGGERED" => calm]_vars

\* Once triggered, a trigger stays so until its owner resets or stops it: it
\* cannot be reported as triggered twice in a row.
FiresOnce == [][state = "TRIGGERED" => result' # "TRIGGERED"]_vars
=============================================================================
