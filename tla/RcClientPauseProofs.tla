------------------------ MODULE RcClientPauseProofs ------------------------
(***************************************************************************)
(* Theorems about RcClientPause for every minimum, cap and history bound.  *)
(***************************************************************************)
EXTENDS RcClientPause, TLAPS

\* The inductive invariant: the ranges of the counters alone do not say why a
\* refusal's promise is exact, so the countdown is tied to the frames run.
IInv == TypeOK /\ CountdownTracksFrames

\* Halving keeps the requirement between the minimum and its old value.
LEMMA LoweredRange ==
  ASSUME NEW r \in Nat, r > MinimumFrames
  PROVE  Lowered(r) \in MinimumFrames .. r
BY PauseAssumption DEF Lowered

\* The initial state satisfies the invariant.
LEMMA InitIInv == Init => IInv
BY PauseAssumption DEF Init, IInv, TypeOK, CountdownTracksFrames, TooSoon,
                       Multiplier, NoPromise

\* Every call of the host preserves it.
LEMMA NextIInv == IInv /\ [Next]_vars => IInv'
<1> SUFFICES ASSUME IInv, [Next]_vars PROVE IInv'
  OBVIOUS
<1> USE PauseAssumption DEF IInv, TypeOK, CountdownTracksFrames, TooSoon, Multiplier,
                            NoPromise
<1>1. CASE DoFrame
  <2>1. CASE unpaused_frame_decay = 1 /\ required_unpaused_frames > MinimumFrames
    <3>1. required_unpaused_frames' \in MinimumFrames .. required_unpaused_frames
      BY <1>1, <2>1, LoweredRange DEF DoFrame
    <3> QED
      BY <1>1, <2>1, <3>1 DEF DoFrame
  <2>2. CASE ~(unpaused_frame_decay = 1 /\ required_unpaused_frames > MinimumFrames)
    BY <1>1, <2>2 DEF DoFrame
  <2> QED
    BY <2>1, <2>2
<1>2. CASE CanPauseSoftcore
  BY <1>2 DEF CanPauseSoftcore, throttle
<1>3. CASE CanPauseAgain
  BY <1>3 DEF CanPauseAgain, throttle
<1>4. CASE CanPauseRefused
  BY <1>4 DEF CanPauseRefused, throttle, TooSoon, FullDecay
<1>5. CASE CanPauseGranted
  BY <1>5 DEF CanPauseGranted, Raised
<1>6. CASE ToggleHardcore
  BY <1>6 DEF ToggleHardcore, throttle
<1>7. CASE UNCHANGED vars
  BY <1>7 DEF vars, throttle
<1> QED
  BY <1>1, <1>2, <1>3, <1>4, <1>5, <1>6, <1>7 DEF Next, CanPause

\* The countdown and the frames really run always agree.
THEOREM PauseInvariant == Spec => []IInv
BY InitIInv, NextIInv, PTL DEF Spec

\* The counters of rc_client_state_t stay in range.
THEOREM PauseTypeCorrect == Spec => []TypeOK
BY PauseInvariant, PTL DEF IInv

\* A pause that re-arms the throttle is only granted after the frames the
\* previous grant required have run.
THEOREM PausesSpaced == Spec => PausesAreSpaced
<1>1. IInv /\ [Next]_vars =>
        [CanPauseGranted => sinceGrant >= required_unpaused_frames]_vars
  BY DEF IInv, CountdownTracksFrames, CanPauseGranted
<1> QED
  BY <1>1, PauseInvariant, PTL DEF Spec, PausesAreSpaced

\* A refused caller who runs the frames it was told to is not refused again.
THEOREM PromisesKept == Spec => PromiseKept
<1>1. IInv /\ [Next]_vars => [promise = 0 => answer' # "refused"]_vars
  <2> SUFFICES ASSUME IInv, Next, promise = 0 PROVE answer' # "refused"
    OBVIOUS
  <2>1. ~TooSoon
    BY PauseAssumption DEF IInv, TypeOK, CountdownTracksFrames, TooSoon, NoPromise,
                           Multiplier
  <2> QED
    BY <2>1 DEF Next, DoFrame, CanPause, CanPauseSoftcore, CanPauseAgain,
                CanPauseRefused, CanPauseGranted, ToggleHardcore
<1> QED
  BY <1>1, PauseInvariant, PTL DEF Spec, PromiseKept
=============================================================================
