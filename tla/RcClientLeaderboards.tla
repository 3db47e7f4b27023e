------------------------ MODULE RcClientLeaderboards ------------------------
(***************************************************************************)
(* The leaderboards of a loaded game and the trackers that show the value  *)
(* of the attempts in progress.  Leaderboards with the same value share a  *)
(* tracker; a tracker nobody refers to is hidden and used again.           *)
(*                                                                         *)
(* Every action is one call of the host, with the events it raises before  *)
(* it returns.  Values come from memory, the same for all leaderboards     *)
(* with the same formula, or count the frames since the attempt began in   *)
(* which a condition held.                                                 *)
(***************************************************************************)
EXTENDS RcLboard, Naturals, Sequences, SequencesExt

CONSTANTS Count,            \* number of leaderboards, processed in order
          FromHits,         \* formulas that count hits
          Hosts             \* games and hosts to consider, one is chosen:
                            \* formula  value_djb2 and format of each leaderboard
                            \* values    bound on values (int32_t in the code)
                            \* noStart   leaderboards whose start trigger is empty
                            \* softcore  allow_leaderboards_in_softcore
                            \* saves     the host saves and restores progress
                            \* fails     memory may turn out to be unreadable

Leaderboards == 1 .. Count

ASSUME LeaderboardAssumption ==
  /\ Count \in Nat
  /\ Hosts \subseteq [formula : [Leaderboards -> STRING], values : Nat,
                     noStart : SUBSET Leaderboards, softcore : BOOLEAN, saves : BOOLEAN,
                     fails : BOOLEAN]

VARIABLES host,       \* never changes
          board,      \* of each leaderboard: see TypeOK
          trackers,   \* the trackers allocated for the game: see TypeOK
          listed,     \* leaderboards in runtime.lboards
          hardcore, waiting_for_reset,
          saved,      \* a save state: at most one function from leaderboards
                      \* to what is stored for them
          raised,     \* the tracker events raised by the last call, in order
          announced   \* and its leaderboard events

game == [board |-> board, trackers |-> trackers]
vars == <<host, board, trackers, listed, hardcore, waiting_for_reset, saved, raised,
          announced>>

Tracker == [refs : 0 .. Count, formula : Range(host.formula),
            raw : 0 .. host.values, pending : SUBSET {"SHOW", "HIDE", "UPDATE"}]

NewBoard(public) ==
  [state |-> "WAITING", public |-> public, value |-> 0, tracker |-> 0, pending |-> {}]

Allowed(h) == h \/ host.softcore

\* rc_client_activate_leaderboards for a game that has just been loaded.
Loaded(h) == [l \in Leaderboards |-> NewBoard(IF Allowed(h) THEN "ACTIVE" ELSE "INACTIVE")]

Init ==
  /\ host \in Hosts
  /\ hardcore \in BOOLEAN
  /\ board = Loaded(hardcore)
  /\ listed = IF Allowed(hardcore) THEN Leaderboards ELSE {}
  /\ trackers = <<>>
  /\ waiting_for_reset = FALSE
  /\ saved = {}
  /\ raised = <<>> /\ announced = {}

-----------------------------------------------------------------------------
(* Trackers: operators on [board, trackers].                                *)

\* Mutant: a tracker is shared whatever it counts.
ShareableAny(c, l) ==
  {i \in DOMAIN c.trackers : c.trackers[i].refs > 0 /\ c.trackers[i].formula = host.formula[l]}

\* The tracker in use that l can share: its value may have to be updated, unless
\* the value comes from hits.
Shareable(c, l) ==
  {i \in DOMAIN c.trackers :
     /\ c.trackers[i].refs > 0
     /\ c.trackers[i].formula = host.formula[l]
     /\ c.trackers[i].raw = c.board[l].value \/ host.formula[l] \notin FromHits}

Available(c) ==
  {i \in DOMAIN c.trackers : c.trackers[i].refs = 0 /\ c.trackers[i].pending = {}}

First(indices) == CHOOSE i \in indices : \A j \in indices : i <= j

\* rc_client_update_leaderboard_tracker
UpdateTracker(c, l) ==
  LET i == c.board[l].tracker
  IN IF i = 0 \/ c.trackers[i].raw = c.board[l].value THEN c
     ELSE [c EXCEPT !.trackers[i].raw = c.board[l].value,
                    !.trackers[i].pending = @ \cup {"UPDATE"}]

\* rc_client_allocate_leaderboard_tracker
AllocateTracker(c, l) ==
  LET claimed == [refs |-> 1, formula |-> host.formula[l], raw |-> c.board[l].value,
                  pending |-> {"SHOW"}]
  IN IF Shareable(c, l) # {}
     THEN LET i == First(Shareable(c, l))
          IN UpdateTracker([c EXCEPT !.trackers[i].refs = @ + 1,
                                     !.trackers[i].pending = @ \ {"HIDE"},
                                     !.board[l].tracker = i], l)
     ELSE IF Available(c) # {}
     THEN [c EXCEPT !.trackers[First(Available(c))] = claimed,
                    !.board[l].tracker = First(Available(c))]
     ELSE [c EXCEPT !.trackers = Append(@, claimed),
                    !.board[l].tracker = Len(c.trackers) + 1]

\* rc_client_release_leaderboard_tracker
ReleaseTracker(c, l) ==
  LET i == c.board[l].tracker
  IN IF i = 0 THEN c
     ELSE [c EXCEPT !.board[l].tracker = 0,
                    !.trackers[i].refs = @ - 1,
                    !.trackers[i].pending = IF c.trackers[i].refs = 1 THEN @ \cup {"HIDE"} ELSE @]

\* Apply Op to every leaderboard in order.
ForEach(Op(_, _), c) ==
  LET upTo[l \in 0 .. Count] == IF l = 0 THEN c ELSE Op(upTo[l - 1], l)
  IN upTo[Count]

-----------------------------------------------------------------------------
(* Raising events.                                                          *)

\* One event for each tracker that has one, in their order.
InOrder(kinds) ==
  FoldLeftDomain(LAMBDA events, i : IF kinds[i] = "none" THEN events
                                    ELSE Append(events, [type |-> kinds[i], id |-> i]),
                 <<>>, kinds)

\* Mutant: a tracker that has come and gone in one call is shown.
TrackerEventsShown(c) ==
  LET kind(p) == CASE "SHOW" \in p                         -> "SHOW"
                   [] "SHOW" \notin p /\ "HIDE" \in p      -> "HIDE"
                   [] p = {"UPDATE"}                       -> "UPDATE"
                   [] OTHER                                -> "none"
  IN InOrder([i \in DOMAIN c.trackers |-> kind(c.trackers[i].pending)])

\* rc_client_raise_leaderboard_tracker_events: one event at most for a tracker.
TrackerEvents(c) ==
  LET kind(p) == CASE "HIDE" \in p /\ "SHOW" \notin p    -> "HIDE"
                   [] "SHOW" \in p /\ "HIDE" \notin p    -> "SHOW"
                   [] p = {"UPDATE"}                     -> "UPDATE"
                   [] OTHER                              -> "none"
  IN InOrder([i \in DOMAIN c.trackers |-> kind(c.trackers[i].pending)])

\* rc_client_raise_leaderboard_events: the first of these that is pending.
BoardEvents(c) ==
  LET kind(p) == CASE "FAILED" \in p                            -> "FAILED"
                   [] "FAILED" \notin p /\ "SUBMITTED" \in p    -> "SUBMITTED"
                   [] OTHER                                     -> "STARTED"
  IN {[type |-> kind(c.board[l].pending), id |-> l] :
        l \in {k \in Leaderboards : c.board[k].pending # {}}}

\* rc_client_raise_pending_events
RaisePendingEvents(c) ==
  /\ raised' = TrackerEvents(c)
  /\ announced' = BoardEvents(c)
  /\ board' = [l \in Leaderboards |-> [c.board[l] EXCEPT !.pending = {}]]
  /\ trackers' = [i \in DOMAIN c.trackers |-> [c.trackers[i] EXCEPT !.pending = {}]]

-----------------------------------------------------------------------------
(* rc_client_do_frame                                                       *)

\* rc_client_invalidate_memref_leaderboards
Invalidated(c, failing) ==
  [c EXCEPT !.board = [l \in Leaderboards |->
     IF l \in failing /\ @[l].public # "DISABLED"
     THEN [@[l] EXCEPT !.public = "DISABLED", !.state = "DISABLED"] ELSE @[l]]]

\* The value of an attempt in a frame: `memory' is what the formula reads, or
\* whether its condition holds.  An attempt that begins counts from 0.
ValueNow(b, formula, new, memory) ==
  CASE new \notin {"STARTED", "TRIGGERED"} -> 0
    [] new \in {"STARTED", "TRIGGERED"} /\ formula \notin FromHits -> memory[formula]
    [] OTHER ->
         LET hits == (IF b.state = "ACTIVE" THEN 0 ELSE b.value)
                       + (IF memory[formula] > 0 THEN 1 ELSE 0)
         IN IF hits > host.values THEN host.values ELSE hits

\* Mutant: an attempt that fails is not announced.
OutcomeSilent(c, l, old, returned) ==
  CASE returned = "STARTED" /\ old # "STARTED" ->
         AllocateTracker([c EXCEPT !.board[l].public = "TRACKING",
                                   !.board[l].pending = @ \cup {"STARTED"}], l)
    [] returned = "STARTED" /\ old = "STARTED" -> UpdateTracker(c, l)
    [] returned = "CANCELED" -> ReleaseTracker([c EXCEPT !.board[l].public = "ACTIVE"], l)
    [] returned = "TRIGGERED" ->
         LET n == [c EXCEPT !.board[l].public = "ACTIVE",
                            !.board[l].pending = @ \cup {"SUBMITTED"}]
         IN ReleaseTracker(IF old = "STARTED" THEN UpdateTracker(n, l)
                                              ELSE AllocateTracker(n, l), l)
    [] OTHER -> c

\* The events of a leaderboard whose state has become `returned'.
Outcome(c, l, old, returned) ==
  CASE returned = "STARTED" /\ old # "STARTED" ->
         AllocateTracker([c EXCEPT !.board[l].public = "TRACKING",
                                   !.board[l].pending = @ \cup {"STARTED"}], l)
    [] returned = "STARTED" /\ old = "STARTED" -> UpdateTracker(c, l)
    [] returned = "CANCELED" ->
         ReleaseTracker([c EXCEPT !.board[l].public = "ACTIVE",
                                  !.board[l].pending = @ \cup {"FAILED"}], l)
    [] returned = "TRIGGERED" ->
         LET n == [c EXCEPT !.board[l].public = "ACTIVE",
                            !.board[l].pending = @ \cup {"SUBMITTED"}]
         IN ReleaseTracker(IF old = "STARTED" THEN UpdateTracker(n, l)
                                              ELSE AllocateTracker(n, l), l)
    [] OTHER -> c

\* rc_client_do_frame_process_leaderboards, for one leaderboard.
Processed(c, l, true, memory) ==
  LET b   == c.board[l]
      ret == Returned(b.state, true, l \in host.noStart)
  IN IF b.public \in {"INACTIVE", "DISABLED"} THEN c
     ELSE Outcome([c EXCEPT !.board[l].state = Evaluated(b.state, true, l \in host.noStart),
                            !.board[l].value = ValueNow(b, host.formula[l], ret, memory)],
                  l, b.state, ret)

DoFrame ==
  /\ raised = <<>> /\ announced = {}
  /\ ~waiting_for_reset
  /\ \E failing \in IF host.fails THEN SUBSET Leaderboards ELSE {{}} :
     \E true \in [Leaderboards -> SUBSET {"start", "cancel", "submit"}] :
     \E memory \in [Range(host.formula) -> 0 .. host.values] :
       LET c == Invalidated(game, failing)
       IN RaisePendingEvents(
            IF Allowed(hardcore)
            THEN ForEach(LAMBDA s, l : Processed(s, l, true[l], memory), c)
            ELSE c)
  /\ UNCHANGED <<host, listed, hardcore, waiting_for_reset, saved>>

-----------------------------------------------------------------------------
(* Other calls of the host.                                                 *)

\* The host has handled the events.
Handled ==
  /\ raised # <<>> \/ announced # {}
  /\ raised' = <<>> /\ announced' = {}
  /\ UNCHANGED <<host, board, trackers, listed, hardcore, waiting_for_reset, saved>>

\* rc_reset_lboard; the value of a leaderboard that is not attempted is not used.
ResetBoard(b) == [b EXCEPT !.state = "WAITING", !.value = 0]

\* rc_client_subset_reset_leaderboards
ResetBoards(c) ==
  ForEach(LAMBDA s, l :
            CASE s.board[l].public \in {"INACTIVE", "DISABLED"} -> s
              [] s.board[l].public = "TRACKING" ->
                   [ReleaseTracker(s, l) EXCEPT
                      !.board[l] = [ResetBoard(@) EXCEPT !.public = "ACTIVE"]]
              [] OTHER -> [s EXCEPT !.board[l] = ResetBoard(@)],
          c)

\* rc_client_reset
Reset ==
  /\ raised = <<>> /\ announced = {}
  /\ waiting_for_reset' = FALSE
  /\ RaisePendingEvents(ResetBoards(game))
  /\ UNCHANGED <<host, listed, hardcore, saved>>

\* rc_client_enable_hardcore: leaderboards that were inactive wait.
EnableHardcore ==
  /\ raised = <<>> /\ announced = {}
  /\ ~hardcore
  /\ hardcore' = TRUE
  /\ waiting_for_reset' = TRUE
  /\ board' = [l \in Leaderboards |->
                 IF board[l].public = "INACTIVE"
                 THEN [ResetBoard(board[l]) EXCEPT !.public = "ACTIVE"] ELSE board[l]]
  /\ listed' = {l \in Leaderboards : board'[l].public \in {"ACTIVE", "TRACKING"}}
  /\ UNCHANGED <<host, trackers, saved, raised, announced>>

\* Mutant: an attempt in progress is not stopped.
DeactivatedWaiting(c) ==
  ForEach(LAMBDA s, l :
            IF s.board[l].public # "ACTIVE" THEN s
            ELSE [s EXCEPT !.board[l].public = "INACTIVE"],
          c)

\* rc_client_deactivate_leaderboards
Deactivated(c) ==
  ForEach(LAMBDA s, l :
            CASE s.board[l].public \in {"INACTIVE", "DISABLED"} -> s
              [] s.board[l].public = "TRACKING" ->
                   [ReleaseTracker(s, l) EXCEPT !.board[l].public = "INACTIVE"]
              [] OTHER -> [s EXCEPT !.board[l].public = "INACTIVE"],
          c)

\* rc_client_disable_hardcore
DisableHardcore ==
  /\ raised = <<>> /\ announced = {}
  /\ hardcore
  /\ hardcore' = FALSE
  /\ listed' = IF host.softcore THEN listed ELSE {}
  /\ RaisePendingEvents(IF host.softcore THEN game ELSE Deactivated(game))
  /\ UNCHANGED <<host, waiting_for_reset, saved>>

\* rc_runtime_progress_write_leaderboards
Serialize ==
  /\ host.saves
  /\ raised = <<>> /\ announced = {}
  /\ saved' = {[l \in {k \in listed : LboardActive(board[k].state)} |->
                  [state |-> board[l].state, value |-> board[l].value]]}
  /\ UNCHANGED <<host, board, trackers, listed, hardcore, waiting_for_reset, raised, announced>>

\* rc_client_subset_before_deserialize_progress
BeforeDeserialize(c) ==
  [c EXCEPT !.board = [l \in Leaderboards |->
     IF @[l].state = "STARTED" /\ @[l].public = "TRACKING"
     THEN [@[l] EXCEPT !.pending = {"FAILED"} \cup c.board[l].pending] ELSE @[l]]]

\* The leaderboards in rc_runtime_deserialize_progress: those that are active take
\* what is saved for them, the others are reset.
Restored(c, s) ==
  [c EXCEPT !.board = [l \in Leaderboards |->
     CASE l \in listed /\ LboardActive(@[l].state) /\ l \in DOMAIN s ->
            [@[l] EXCEPT !.state = s[l].state, !.value = s[l].value]
       [] l \in listed /\ LboardActive(@[l].state) /\ l \notin DOMAIN s -> ResetBoard(@[l])
       [] OTHER -> @[l]]]

\* rc_runtime_reset, for a save state that cannot be read.
RuntimeReset(c) ==
  [c EXCEPT !.board = [l \in Leaderboards |-> IF l \in listed THEN ResetBoard(@[l]) ELSE @[l]]]

\* Mutant: an attempt that goes on takes another reference.
AfterDeserializeAgain(c) ==
  ForEach(LAMBDA s, l :
            LET b == s.board[l]
                n == [s EXCEPT !.board[l].pending = @ \ {"FAILED"}]
            IN CASE b.public \in {"INACTIVE", "DISABLED"} -> s
                 [] b.public \in {"ACTIVE", "TRACKING"} /\ b.state = "STARTED" ->
                      AllocateTracker([n EXCEPT !.board[l].public = "TRACKING"], l)
                 [] b.public \in {"ACTIVE", "TRACKING"} /\ b.state # "STARTED"
                      /\ "FAILED" \in b.pending ->
                      ReleaseTracker([n EXCEPT !.board[l].public = "ACTIVE"], l)
                 [] OTHER -> s,
          c)

\* rc_client_subset_after_deserialize_progress
AfterDeserialize(c) ==
  ForEach(LAMBDA s, l :
            LET b == s.board[l]
                n == [s EXCEPT !.board[l].pending = @ \ {"FAILED"}]
            IN CASE b.public \in {"INACTIVE", "DISABLED"} -> s
                 [] b.public \in {"ACTIVE", "TRACKING"} /\ b.state = "STARTED" ->
                      LET t == [n EXCEPT !.board[l].public = "TRACKING"]
                      IN IF "FAILED" \in b.pending THEN UpdateTracker(t, l)
                                                   ELSE AllocateTracker(t, l)
                 [] b.public \in {"ACTIVE", "TRACKING"} /\ b.state # "STARTED"
                      /\ "FAILED" \in b.pending ->
                      ReleaseTracker([n EXCEPT !.board[l].public = "ACTIVE"], l)
                 [] OTHER -> s,
          c)

\* rc_client_deserialize_progress, also without a save state.
Deserialize ==
  /\ host.saves
  /\ raised = <<>> /\ announced = {}
  /\ LET c == BeforeDeserialize(game)
     IN \/ RaisePendingEvents(AfterDeserialize(ResetBoards(c)))
        \/ RaisePendingEvents(AfterDeserialize(RuntimeReset(c)))
        \/ \E s \in saved : RaisePendingEvents(AfterDeserialize(Restored(c, s)))
  /\ UNCHANGED <<host, listed, hardcore, waiting_for_reset, saved>>

\* rc_client_unload_game hides what is shown before the game is freed; another
\* game is loaded later.
Unload ==
  /\ raised = <<>> /\ announced = {}
  /\ raised' = TrackerEvents(ForEach(LAMBDA s, l : IF s.board[l].public = "TRACKING"
                                                   THEN ReleaseTracker(s, l) ELSE s, game))
  /\ board' = Loaded(hardcore)
  /\ listed' = IF Allowed(hardcore) THEN Leaderboards ELSE {}
  /\ trackers' = <<>>
  /\ waiting_for_reset' = FALSE
  /\ saved' = {}
  /\ UNCHANGED <<host, hardcore, announced>>

Next ==
  \/ DoFrame \/ Handled \/ Reset \/ EnableHardcore \/ DisableHardcore
  \/ Serialize \/ Deserialize \/ Unload

Spec == Init /\ [][Next]_vars

-----------------------------------------------------------------------------
TypeOK ==
  /\ host \in Hosts
  /\ board \in [Leaderboards ->
       [state : LboardStates, public : {"INACTIVE", "ACTIVE", "TRACKING", "DISABLED"},
        value : 0 .. host.values, tracker : 0 .. Count,
        pending : SUBSET {"STARTED", "FAILED", "SUBMITTED"}]]
  /\ trackers \in Seq(Tracker)
  /\ listed \subseteq Leaderboards

\* Whatever trackers are shared, released and claimed in one frame: a tracker is
\* referred to as often as it is counted, an attempt in progress has one, and no
\* other leaderboard has (except one disabled in the middle of an attempt).  Trackers
\* are used again, so there are never more than leaderboards.
ReferencesCounted ==
  /\ TypeOK
  /\ Len(trackers) <= Count
  /\ \A i \in DOMAIN trackers :
       trackers[i].refs = Cardinality({l \in Leaderboards : board[l].tracker = i})
  /\ \A l \in Leaderboards :
       /\ board[l].public = "TRACKING" => board[l].tracker # 0
       /\ board[l].tracker # 0 => board[l].public \in {"TRACKING", "DISABLED"}
       /\ board[l].public \in {"ACTIVE", "TRACKING"} =>
            (board[l].public = "TRACKING" <=> board[l].state = "STARTED")

\* The value on the tracker of an attempt is the value of that attempt: "if the value
\* comes from tracking hits, we can't assume the trackers started in the same frame, so
\* we can't share the tracker" (rc_client.c:4647).  The code still shares one between
\* attempts that count hits while the values are equal.  So an attempt that begins where
\* a later leaderboard of the list shows the value of the last frame stays one behind
\* what is shown; and what is restored to attempts that share may differ in any way,
\* so values that count hits are left out where the host restores progress.
TrackerShowsValue ==
  \A l \in Leaderboards :
    LET shown == trackers[board[l].tracker].raw
        value == board[l].value
    IN board[l].public = "TRACKING" =>
         IF host.formula[l] \notin FromHits THEN shown = value
         ELSE host.saves \/ shown \in {value, value + 1}

\* What there is to say of a leaderboard that was `old' before a frame and is `new'
\* after it: that an attempt has begun, or how one has ended.  An attempt that begins
\* and ends in one frame has only been submitted.
News(old, new) ==
  CASE old.public = "ACTIVE" /\ new.public = "TRACKING" -> {"STARTED"}
    [] old.public = "TRACKING" /\ new.public = "ACTIVE" ->
         {IF new.state = "TRIGGERED" THEN "SUBMITTED" ELSE "FAILED"}
    [] old.public = "ACTIVE" /\ new.public = "ACTIVE"
       /\ new.state = "TRIGGERED" /\ old.state # "TRIGGERED" -> {"SUBMITTED"}
    [] OTHER -> {}

\* A call other than rc_client_do_frame.
BetweenFrames ==
  Handled \/ Reset \/ EnableHardcore \/ DisableHardcore \/ Serialize \/ Deserialize \/ Unload

\* A frame says of each leaderboard that its attempt has begun, has failed or has been
\* submitted exactly when it has, once; and what has failed or has been submitted does
\* not start again, nor is submitted, before its start condition has been false
\* (state ACTIVE).  A leaderboard that unreadable memory disables leaves its attempt
\* without a word, and so do a reset, a restored save, a change of mode and an unload:
\* those calls announce nothing.
AttemptsAnnounced ==
  [][LET told(l) == {e.type : e \in {f \in announced' : f.id = l}}
     IN IF BetweenFrames THEN announced' \subseteq announced
        ELSE \A l \in Leaderboards :
               /\ told(l) = News(board[l], board'[l])
               /\ told(l) # {} =>
                    board[l].state = IF board[l].public = "TRACKING" THEN "STARTED"
                                                                     ELSE "ACTIVE"]_vars

\* In softcore no leaderboard is attempted, unless the host allows it.
SoftcoreIdle ==
  ~Allowed(hardcore) =>
    /\ \A l \in Leaderboards : board[l].public \in {"INACTIVE", "DISABLED"}
    /\ announced = {} \/ \A e \in announced : e.type # "SUBMITTED"

\* The tracker events are those of a host's overlay: the trackers in use.  With
\* unreadable memory the tracker of a leaderboard that is disabled in the middle of an
\* attempt is left on screen: such hosts are left out.
Overlay ==
  INSTANCE RcClientOverlay WITH
    Elements <- Leaderboards,
    shown    <- IF host.fails THEN {} ELSE {i \in DOMAIN trackers : trackers[i].refs > 0},
    raised   <- IF host.fails THEN <<>> ELSE raised

RefinesOverlay == Overlay!Spec
=============================================================================
