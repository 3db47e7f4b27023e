--------------------------- MODULE RcClientPause ---------------------------
(***************************************************************************)
(* The pause throttle of rc_client.  A hardcore player may not use the     *)
(* pause button as a slow-motion switch: after a pause has been granted,   *)
(* a number of frames must run before the next one is, and pausing again   *)
(* inside the decay window lengthens that number.                          *)
(*                                                                         *)
(*   required_unpaused_frames   frames to run between two pauses           *)
(*   unpaused_frame_decay       counts down one per frame from             *)
(*                              Multiplier * required_unpaused_frames      *)
(*                                                                         *)
(* Both are uint16_t in rc_client_state_t.  TypeOK bounds the requirement  *)
(* by MaxPenalty + MinimumFrames - 1, 319 in the code, so no product here  *)
(* leaves that range.                                                      *)
(***************************************************************************)
EXTENDS Naturals

CONSTANTS MinimumFrames,   \* RC_MINIMUM_UNPAUSED_FRAMES, 20 in the code
          MaxPenalty,      \* 5 * 60, the requirement is not raised from here on
          HistoryBound     \* bound of the two history counters below

ASSUME PauseAssumption ==
  /\ MinimumFrames \in Nat \ {0}
  /\ MaxPenalty \in Nat
  /\ MinimumFrames <= MaxPenalty
  /\ HistoryBound \in Nat
  /\ HistoryBound >= MaxPenalty + MinimumFrames

\* RC_PAUSE_DECAY_MULTIPLIER
Multiplier == 4

VARIABLES hardcore, required_unpaused_frames, unpaused_frame_decay,
          answer,       \* what the last call returned, "none" if it was no query
          sinceGrant,   \* history: frames run since the last pause granted in hardcore
          promise       \* history: frames_remaining of the last refusal, counted
                        \* down by the frames run since; HistoryBound + 1 = none

throttle == <<required_unpaused_frames, unpaused_frame_decay>>
vars == <<hardcore, throttle, answer, sinceGrant, promise>>

NoPromise == HistoryBound + 1

Init ==
  /\ hardcore = TRUE
  /\ required_unpaused_frames = MinimumFrames
  /\ unpaused_frame_decay = 0
  /\ answer = "none"
  /\ sinceGrant = HistoryBound
  /\ promise = NoPromise

-----------------------------------------------------------------------------
\* Halving that never goes below the minimum.
Lowered(required) ==
  IF required \div 2 <= MinimumFrames THEN MinimumFrames ELSE required \div 2

\* Mutant: the requirement is lowered once, and the countdown is not restarted.
DoFrameLowersOnce ==
  /\ answer' = "none"
  /\ unpaused_frame_decay' = IF unpaused_frame_decay > 0 THEN unpaused_frame_decay - 1 ELSE 0
  /\ required_unpaused_frames' =
       IF unpaused_frame_decay = 1 THEN Lowered(required_unpaused_frames)
                                   ELSE required_unpaused_frames
  /\ UNCHANGED <<hardcore, sinceGrant, promise>>

\* The end of rc_client_do_frame, which runs whether or not a game is loaded.
DoFrame ==
  /\ answer' = "none"
  /\ sinceGrant' = IF sinceGrant < HistoryBound THEN sinceGrant + 1 ELSE sinceGrant
  /\ promise' = IF promise \in 1..HistoryBound THEN promise - 1 ELSE promise
  /\ IF unpaused_frame_decay = 1 /\ required_unpaused_frames > MinimumFrames
     THEN /\ required_unpaused_frames' = Lowered(required_unpaused_frames)
          /\ unpaused_frame_decay' =
               required_unpaused_frames' * (Multiplier - 1) - 1
     ELSE /\ unpaused_frame_decay' =
               IF unpaused_frame_decay > 0 THEN unpaused_frame_decay - 1 ELSE 0
          /\ UNCHANGED required_unpaused_frames
  /\ UNCHANGED hardcore

-----------------------------------------------------------------------------
\* rc_client_can_pause: no frame has run since the pause was granted.
FullDecay == unpaused_frame_decay = required_unpaused_frames * Multiplier

\* Mutant: off by one.
TooSoonByOne == unpaused_frame_decay > required_unpaused_frames * (Multiplier - 1) + 1

\* ... or fewer than the required number of frames have.
TooSoon == unpaused_frame_decay > required_unpaused_frames * (Multiplier - 1)

\* The requirement once a pause is granted: raised inside the decay window.
Raised ==
  IF unpaused_frame_decay > 0 /\ required_unpaused_frames < MaxPenalty
  THEN required_unpaused_frames + MinimumFrames
  ELSE required_unpaused_frames

CanPauseSoftcore ==
  /\ ~hardcore
  /\ answer' = "allowed"
  /\ UNCHANGED <<hardcore, throttle, sinceGrant, promise>>

CanPauseAgain ==
  /\ hardcore /\ FullDecay
  /\ answer' = "allowed"
  /\ UNCHANGED <<hardcore, throttle, sinceGrant, promise>>

\* Mutant: frames_remaining is one short.
CanPauseRefusedShort ==
  /\ hardcore /\ ~FullDecay /\ TooSoon
  /\ answer' = "refused"
  /\ promise' = unpaused_frame_decay - required_unpaused_frames * (Multiplier - 1) - 1
  /\ UNCHANGED <<hardcore, throttle, sinceGrant>>

CanPauseRefused ==
  /\ hardcore /\ ~FullDecay /\ TooSoon
  /\ answer' = "refused"
  /\ promise' = unpaused_frame_decay - required_unpaused_frames * (Multiplier - 1)
  /\ UNCHANGED <<hardcore, throttle, sinceGrant>>

CanPauseGranted ==
  /\ hardcore /\ ~FullDecay /\ ~TooSoon
  /\ answer' = "allowed"
  /\ required_unpaused_frames' = Raised
  /\ unpaused_frame_decay' = required_unpaused_frames' * Multiplier
  /\ sinceGrant' = 0
  /\ promise' = NoPromise
  /\ UNCHANGED hardcore

CanPause ==
  CanPauseSoftcore \/ CanPauseAgain \/ CanPauseRefused \/ CanPauseGranted

\* rc_client_set_hardcore_enabled leaves the throttle alone.
ToggleHardcore ==
  /\ hardcore' = ~hardcore
  /\ answer' = "none"
  /\ UNCHANGED <<throttle, sinceGrant, promise>>

Next == DoFrame \/ CanPause \/ ToggleHardcore

Spec == Init /\ [][Next]_vars

\* The emulator keeps running frames; nothing obliges a player to pause.
FairSpec == Spec /\ WF_vars(DoFrame)

-----------------------------------------------------------------------------
\* Every counter stays in the range the code relies on.
TypeOK ==
  /\ hardcore \in BOOLEAN
  /\ required_unpaused_frames \in MinimumFrames .. (MaxPenalty + MinimumFrames - 1)
  /\ unpaused_frame_decay \in 0 .. (required_unpaused_frames * Multiplier)
  /\ answer \in {"none", "allowed", "refused"}
  /\ sinceGrant \in 0 .. HistoryBound
  /\ promise \in 0 .. NoPromise

\* While the throttle is closed the countdown agrees with the frames really run
\* since the last grant, and once it is open the required frames have been run.
CountdownTracksFrames ==
  IF TooSoon
  THEN /\ sinceGrant + unpaused_frame_decay = required_unpaused_frames * Multiplier
       /\ promise # NoPromise =>
            promise = unpaused_frame_decay - required_unpaused_frames * (Multiplier - 1)
  ELSE sinceGrant >= required_unpaused_frames

\* A hardcore pause that changes the throttle is only granted after the frames
\* required by the previous grant have run: can_pause cannot be used to advance
\* the game a few frames at a time.
PausesAreSpaced ==
  [][CanPauseGranted => sinceGrant >= required_unpaused_frames]_vars

\* frames_remaining is exact: once that many frames have run, rc_client_can_pause
\* does not refuse again ("frames still required before pause is allowed").
PromiseKept ==
  [][promise = 0 => answer' # "refused"]_vars

\* With frames running and no further pause granted, the penalty wears off.
PenaltyExpires ==
  <>[][~CanPauseGranted]_vars =>
     <>[](required_unpaused_frames = MinimumFrames /\ unpaused_frame_decay = 0)
=============================================================================
