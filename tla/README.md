# A TLA+ verification of rcheevos

rcheevos is the library with which emulators award RetroAchievements: it parses
the definitions of achievements and leaderboards, evaluates them against the
memory of the emulated machine once per frame, talks to the server, and tells
the host what to show.  This directory holds TLA+ modules translated from its
sources, the TLC configurations that check them on small instances, and proofs
that TLAPS checks.  `PROJECT.json` lists components, runs, mutants, hazards and
theorems, and says for every definition which lines of the source it stands for.

    tlc -workers 2 -config RcClientLoad.cfg MCRcClientLoad
    tlapm RcClientLoadProofs.tla

## 1. Inventory

Paths are relative to `src/src`.

| component | state | operations | properties that make it correct | module |
|---|---|---|---|---|
| condition sets (`rcheevos/condset.c`) | hit counts, paused flag | evaluation of one frame | counts stop at the target; nothing counted while paused; a reset is reported | `RcCondset` |
| triggers (`rcheevos/trigger.c`) | state, has_hits, measured value | evaluate, reset, save, restore | never fires on what was true all along; measured value is backed by hits | `RcTrigger` |
| leaderboards (`rcheevos/lboard.c`) | state, value, progress | evaluate, reset | an attempt starts, is submitted or fails once | `RcLboard` |
| memory references, operands, conditions, values (`rcheevos/memref.c`, `operand.c`, `condition.c`, `value.c`) | value, prior, changed | parse into shared references, update per frame, combine, compare | sharing and optimized comparison change no meaning | `RcMemory` |
| allocation (`rcheevos/alloc.c`) | pools of references | count, reserve, allocate | what is reserved suffices | `RcMemory` |
| runtime (`rcheevos/runtime.c`) | lists of triggers, leaderboards, a script | activate, deactivate, invalidate, do_frame, reset | each item once a frame; events tell its state | `RcRuntime` |
| save states (`rcheevos/runtime_progress.c`) | cached sizes | size, serialize, deserialize | the size suffices; what is restored is what was stored, or reset | `RcRuntime`, `RcMemory`, `RcTrigger` |
| rich presence scripts (`rcheevos/richpresence.c`) | lookup trees, display conditions | parse, update, reset, ask | the label of the value, the first display that holds, never past the buffer | `RcRichpresence` |
| validator (`rcheevos/rc_validate.c`) | none | validate a trigger | what it says of conditions is so | `RcValidate` |
| client: loading (`rc_client.c`) | load state, game, user, hashes | begin load, two requests, login, activation, unload, abort | no use after free; called back once; the latest load wins | `RcClientLoad` |
| client: asynchronous calls and media | table of handles, pending media | login, fetches, abort, change media, logout, destroy | each callback accounted for; the media is what the host asked for | `RcClientAsync` |
| client: submissions | queue of scheduled callbacks, requests in flight, disconnect flags | award, submit entry, retry, ping, idle | nothing lost; queue in order; indicator tells the truth | `RcClientSubmit` |
| client: achievements, progress indicator | public state, unlock bits, pending events, list of active ones, mastery, timer | frame, reset, mode changes, save states, awards | nothing earned twice in a mode; indicators right | `RcClientAchievements`, `RcClientProgress` |
| client: leaderboards and trackers | public state, shared trackers with reference counts | the same | counts exact; tracker shows the value of the attempt | `RcClientLeaderboards` |
| client: pause throttle | required frames, countdown | can_pause, frame | pauses are spaced; frames_remaining is exact | `RcClientPause` |
| client: lists, summaries, unlocks | buckets, percentages | create list, summary, apply unlocks | all of a game, once, as its state says | `RcClientLists` |
| external client, RAIntegration (`rc_client_external.c`, `rc_client_raintegration.c`) | a DLL | delegation | - | - |
| requests to the server (`rapi/`) | none | build URL, parse JSON | - | - |
| hashing (`rhash/`) | iterator over consoles | next hash | - | - |
| formats, consoles, libretro helpers, buffers, mutexes (`rcheevos/format.c`, `consoleinfo.c`, `rc_libretro.c`, `rc_util.c`, `rc_compat.c`) | tables | conversions | - | - |

How they interact.  The host calls the client (`rc_client_do_frame`,
`rc_client_idle`, `rc_client_reset`, loads, logins); the client calls the
runtime's evaluation and raises events into the host.  A request is a call of
the host's `server_call` with a callback that runs whenever the host likes: at
once, later on the same thread, or on another one.  Handlers share the memory of
the client under one mutex, which they leave before they raise events or issue
requests, so each handler is a sequence of critical sections.  Below the client,
everything runs on the thread of the host; there the difficulty is sharing: one
memory reference serves many conditions, one tracker many leaderboards, one list
is walked while event handlers change it.

What is hard here: the count of outstanding requests that decides when a load
state is freed; loads and media changes that replace one another while answers
are on their way; retries with back-off across unload and logout; pending-event
bits that are set in one function and raised in another, of which several may
meet in one frame; save states that replace the state of triggers behind the
back of the events, and whose sizes are cached; hit counts, which pauses,
resets, chains and save states all touch; the two passes by which definitions
and lists are first counted and then written; and conclusions drawn from ranges
of unsigned numbers.  `PROJECT.json` lists each of these at its line.

## 2. Modules

| module | models | extends or composes |
|---|---|---|
| `RcCondset` | one evaluation of a group, `rc_test_condset` | - |
| `RcTrigger` | an `rc_trigger_t` and its owner | extends `RcCondset`; implements `RcTriggerLifecycle` |
| `RcTriggerLifecycle` | abstract: what any trigger promises | - |
| `RcTriggerProofs` | proofs about triggers and groups | extends `RcTrigger` and TLAPS |
| `RcMemory` | references, operands, comparators, pools, their save states | - |
| `RcLboard` | states of an `rc_lboard_t` | - |
| `RcRuntime` | an `rc_runtime_t`, its host, its save states | instantiates `RcLboard` |
| `RcRichpresence` | lookup tables, displays, the message | - |
| `RcValidate` | the validator of triggers | - |
| `RcClientPause`, `RcClientPauseProofs` | the pause throttle, proofs | - |
| `RcClientSubmit` | awards and entries on their way to the server, `rc_client_idle` | - |
| `RcClientLoad` | loading, login, activation, unload | - |
| `RcClientAsync` | handles, logins, fetches, media changes | - |
| `RcClientSubmitProofs`, `RcClientLoadProofs`, `RcClientAsyncProofs`, `RcClientAchievementsProofs`, `RcClientLeaderboardsProofs`, `RcRuntimeProofs` | proofs | each extends its module and TLAPS |
| `RcClientLeaderboards` | leaderboards of a game, trackers, events | extends `RcLboard`; implements `RcClientOverlay` |
| `RcClientProgress` | operators on the progress indicator | - |
| `RcClientAchievements` | achievements of a game, events, mastery | extends `RcClientProgress`; implements `RcClientOverlay` twice |
| `RcClientOverlay` | abstract: events a host can draw by | - |
| `RcClientLists` | unlocks, lists and summaries of a game | - |
| `MCRcData` | the three modules of data, one at a time | extends `RcClientLists`, `RcRichpresence`, `RcValidate` |
| other `MC...` | instances for TLC | |

Conventions.  Variables have the names of the fields they stand for.  A C
function that runs inside one critical section is an operator on a record (the
memory it changes); an action is one call of the host, or one critical section
where several threads meet.  Definitions called *Mutant* are single mistakes
that could be made in the code; each property is shown to notice one.  Variables
called *history* record what happened and are read by properties only.
`Hosts` (and `Threading`, `Definitions`, `Triggers`, `Games`) is a set of
configurations of which the initial state chooses one, so one run covers several
kinds of host; the chosen one never changes.  The type invariant of a module is a
conjunct of one of its safety invariants, so each run checks both.

### Conditions and triggers

`RcCondset` keeps the order of evaluation of `rc_test_condset`: the group is
sorted into classes (pause, reset, hittarget, measured, other), and each class is
evaluated with its chains of combining conditions.  What a comparison reads from
memory is an input of the frame (the set of conditions that are true), so the
model covers every memory content at once.  `RcTrigger` adds
`rc_evaluate_trigger`: groups combined, measured value kept over a pause,
resets, WAITING until a frame is not true, then ACTIVE, PRIMED or PAUSED, then
TRIGGERED; `Reset`, `Stop`, `Serialize` and `Deserialize` are what the owner
may do between frames.  `RcTriggerLifecycle` has a variable `calm`: a frame has
been seen since the last restart in which the trigger could not fire.

### Memory

`Parse...` operators turn a definition into references and conditions as
`rc_parse_operand`, `rc_condition_update_parse_state` and
`rc_alloc_modified_memref` do, in two passes, of which the first counts.
`DoFrame` reads each reference once, then combines the modified ones in the order
of their allocation.  The meaning of the same definition is written a second
time (`Meant`, `MeantLeft`), directly over the history of the memory, without
references, widths read or comparators; the properties relate the two.  Widths
are scaled: a byte has four bits, the 32-bit word is 256, floats are counted in
quarters.

### Runtime

`do_frame` is a program counter, `loop` and `at`, because event handlers run in
the middle of it and may deactivate the item they are told of.  `visits` counts how often
an item is looked at; `view` is what a host knows that does nothing but follow
events.  `asked` is the size the host was told.  Items are compared by
definition (`md5`); an item keeps `data`, which stands for the hit counts and
memory that a chunk holds.

### Rich presence, validator, lists

These do not touch each other and share only a run.  `RcRichpresence` builds the
table line by line, balances it, and evaluates displays into buffers of several
sizes; `RcValidate` parses conditions into operands (chains become modified
memory references), computes ranges, and compares conditions pairwise, over
groups; its properties evaluate the conditions over every memory.
`RcClientLists` follows a game through unlocks, frames, failures and mode changes
and makes every list at every moment.

### Submissions

A submission is in exactly one place: `inflight`, `queue`, `running` (taken from
the queue by idle), `updating` (a handler between two critical sections),
`settled` or `dropped`.  Time is relative: `Tick` brings every entry of the
queue nearer.  `host` is the program counter of `rc_client_idle`.

### Loading, asynchronous calls

In `RcClientLoad`, `client` is the memory that is shared; `pc` and `local`
belong to the handlers.
The handlers of the fetch and of the session answers go through *aborting*,
*leaving* or *ended*, *processing*, *holding*, *activating*, *validating*,
*concluding*: each step one critical section of
`rc_client_fetch_game_sets_callback`, `rc_client_start_session_callback` and
`rc_client_activate_game`.  Without `threaded`, a step of one handler excludes
others; a session request may be answered before `server_call` returns.
`life` and `games` say what has been freed, `corrupt` that freed memory was used.

`RcClientAsync` takes of a load the three moments a media change depends on
(begun, data known, active) and follows the calls of the host: each is *unused*,
*pending* (a media change that waits for a load), *inflight*, *done* or *lost*.
A call is begun in one step and returns in another, so an answer may come during
`server_call`.  `handles` is the table of slots.

### Leaderboards, achievements, progress indicator

Each action is one call of the host, ending with the events it raises, which the
host handles (`Handled`) before the next.  `raised` holds the SHOW, HIDE and
UPDATE events in order.  `RcClientOverlay` says what a host relies on: SHOW only
for something hidden, HIDE and UPDATE only for something shown, and after each
call what has been drawn is what is in use.  The refinement mappings take
trackers with references, achievements that are active and primed, and the timer
of the progress indicator for what is in use.  In `RcClientAchievements` the
outcome of a trigger in a frame is any that `RcTriggerLifecycle` allows, which
`RcTrigger` is proved to implement.

## 3. Runs

| run | checks | shows |
|---|---|---|
| `RcClientPause` | PausesAreSpaced, PromiseKept, PenaltyExpires | the throttle with the constants of the code |
| `RcTrigger` | HitsWithinTarget, FiredMeansMet, MeasuredBacked, LostHitsAnnounced, PausedGroupsKeepHits, RefinesLifecycle | triggers of eleven shapes, every sequence of frames and owner calls |
| `RcMemory` | OperandsFollowHistory, ComparisonsAgree, PoolsSuffice | shared and modified references, every memory of three frames, restarts |
| `RcRuntime` | EachItemOnce, EventsTellStates, SizeSuffices, RestoresTheSnapshot | three hosts of the runtime, handlers that change its lists, saves |
| `RcData` | ListsAgree, ScriptsAgree, VerdictsHold | lists and summaries; scripts; verdicts on pairs of conditions |
| `RcDataRedundant` | RedundantIsImplied (violated) | the stricter of two conditions is called redundant |
| `RcClientSubmit` | AccountedFor, IndicatorMatches, EarnedSettles, IndicatorClears | two submissions, with and without threads |
| `RcClientLoad` | LifetimesRespected, RequestsCounted, CallbackOnce, LatestWins, UnlocksDelivered, LoadsConclude | two loads on five kinds of host |
| `RcClientAsync` | CallbacksAccounted, MediaFollowsHost | three calls, two slots, two games |
| `RcClientLeaderboards` | ReferencesCounted, TrackerShowsValue, SoftcoreIdle, AttemptsAnnounced, RefinesOverlay | two leaderboards, four kinds of game and host |
| `RcClientAchievements` | ListedAreActive, HardcoreFromReset, HideIsScheduled, RefinesOverlay | two achievements, four kinds of host |
| `RcClientAchievementsUnloaded` | AnswersFindGame (violated) | an answer uses the game after it is unloaded |

Bounds, and why they are enough.

* `RcClientPause`: the minimum and the cap are those of the code (20 and 300
  frames).  `HistoryBound` stops the count of frames since the last grant above
  every requirement the throttle can reach.
* `RcTrigger`: hit targets up to 3, so that a count can be below, at and past a
  target; `MaxTally` 2 stops counts without a target, of which only zero and
  not zero is looked at, except as addends to targets of 2.  Eleven definitions, each
  built around one interplay: reset chains and pauses with a primed core, a
  measured core that is paused while another group resets it, added and
  subtracted hits, alternatives only, OrNext, two measures, chains that end
  without a target and spill into a condition written after or before them.
* `RcMemory`: three frames are the least in which a value, its delta and a prior
  value that is older than the delta differ (`FrameBound`).  Pools begin with two
  references (`FirstChunk`, 32 in the code), so that they grow.
* `RcRuntime`: three frames and three other calls of the host (`CallBound`): enough
  to ask for the size, change something, save, change something else and restore,
  the first states being given by the hosts.  Two achievements, of which one has
  two versions; one leaderboard; three scripts.
* `RcData`: two achievements, in one subset or in two, so that buckets are shared,
  split and sorted; the clock runs for one second past the recent ones
  (`TimeBound`).  Tables of three lines (`LineBound`), the smallest that are
  balanced, over values to `Top` 4; buffers of one, two and nine characters.
  Conditions with values below, at and above each other in one group and in two, after
  chains that match or not.
* `RcClientSubmit`: two submissions and the ping are the least that can be out of
  order.  `Doublings` 2 and `MaxDelay` 3 keep a growing and a constant part of the
  back-off; `RetryBound` stops `retry_count` where nothing depends on it.
* `RcClientLoad`: two load states, so that one can replace the other at any point;
  a third adds only a second replacement.  One further hash beyond the first.
  `calls` stops at 3, past everything that is allowed.
* `RcClientAsync`: three calls for two slots, so that a slot is used again while the
  other is taken; two games; a disc with a hash the server knows or not, and a file
  that has none.  `Impatient` FALSE leaves out two hosts (section 5).
* `RcClientLeaderboards`: two leaderboards with values 0 and 1: a shared tracker
  or two, a tracker that is released and claimed in one frame, equal and
  different values.  The values are read from memory or count hits (`FromHits`); those
  that count hits run to 2, so that one goes on after another was started.  A frame is
  told by `AttemptsAnnounced` from the states before and after it: it announces what has
  begun or ended, all of it, and the other calls nothing.
* `RcClientAchievements`: two achievements, so that one is awarded, primed or
  restored while the other is not.  `HideDelay` 1: a timer that has or has not
  run down.

Deadlock is not checked where the system stops, having used its load states,
calls, frames or lines: `RcClientLoad`, `RcClientAsync`, `RcRuntime`, `RcData`.

Fairness.  `RcClientPause`: `DoFrame` is weakly fair, the emulator runs.
`RcClientSubmit`: `rc_client_idle` is weakly fair, since the documentation asks
hosts to call it regularly when no frames run, and `rc_client_do_frame` calls it;
a handler that is running goes on; the clock and a good answer
are strongly fair, because a tick is not possible inside idle and a request is
not always in flight: the server answers in the end if it is asked again and
again.  `RcClientLoad`: every request and login is answered, handlers go on,
and a queued activation is run.  Nothing is assumed of
what the host chooses to do.

What the liveness properties say is limited by the code: a load that waits for a
login and is then unloaded or replaced is neither called back nor freed
(`LoadsConclude` names it); a submission whose user logged out before its retry is
dropped (`EarnedSettles` names it).

## 4. What is proved

TLAPS checks the theorems for every value of the constants that satisfies the
named assumptions.

* `RcClientPauseProofs`, from `PauseAssumption` (the minimum is a positive number,
  the cap not below it, the history bound above what can be required): the
  inductive invariant is `TypeOK /\ CountdownTracksFrames`.  The ranges of the
  counters alone are not inductive towards the promise: that a refused host which
  runs the promised frames is not refused again needs the countdown to agree with
  the frames run since the last grant.  From it follow `PauseTypeCorrect` (the
  requirement never exceeds the cap by more than one increment, so the products of
  `uint16_t` in the code do not overflow), and `PausesSpaced` and `PromisesKept`, two of the
  properties the run checks.
* `RcTriggerProofs`, for every definition of a trigger: any number of groups, and of
  conditions of any type in any order with any targets; `TriggerAssumption` only says
  that a definition is that.  A frame is computed by a fold over the groups of
  folds over the classes of their conditions, so the module first shows, by induction on
  the number of turns (`Induction`), that such a fold is a run: a
  state to start in and one turn after another (`ClassUnfolds`, `GroupsUnfold`).  The
  argument then climbs from one turn to the frame, twice.
  - What is done to the hit counts: `SlotTurned` for a condition, `Stage` for a class,
    `GroupTurned`, `FrameTurned`.  The inductive invariant `IInv` says that the state and
    what is saved of it stay in range, hits within their targets (`TypesHold`); that a
    trigger which can fire has seen a frame in which it could not, and so has
    one that a save would restore (`CalmHolds`); and that `has_hits` covers
    every hit of a trigger that is not restored from save states (`HitsKnown`), which is not
    evident where a group was paused and so not looked at in the last frame.
    `TriggerInvariant`, `HitsStayWithinTarget`, `LostHitsAlwaysAnnounced` and
    `PausedGroupsAlwaysKeepHits` follow, and `ImplementsLifecycle`: the initial state and
    every step map to the lifecycle.  What the lifecycle guarantees of any trigger
    (`LifecycleInvariant`) thereby holds of `RcTrigger`: `NeverAtOnce`, `ReportedOnce`.
  - What is decided: `Judged` for a condition, `ClassJudged`, `GroupJudged`,
    `FrameJudged`.  A class is evaluated out of the order in which its conditions are
    written, and `add_hits` is carried from one class into the next; that the hits a
    condition is given are those of its own chain (`Sums`, `Accumulates`) therefore needs
    that no chain evaluated earlier ended without taking its hits
    (`NothingSpilled`).  That also corrected the model: `Spilled` used to look at
    conditions written earlier, not at those evaluated earlier.  `FiredAlwaysMet` follows.
    `MeasuredAlwaysBacked` needs `NumbersBacked`, which adds to `MeasuredBacked` that the
    same is true of a save, with the hits and the pauses saved with it.  The
    proof showed the property to be false as it was first stated, for triggers that are
    paused (section 5); `PausesTogether` describes those for which the code is right.
  The parts of `IInv` and `NumbersBacked` were evaluated by TLC over the states of the
  run `RcTrigger` before they were proved; the run itself checks what follows from them.

* `RcClientSubmitProofs`, for any number of submissions, any back-off and any host.
  `AccountedFor` is not inductive: that a submission is in one place says nothing of
  the order in which the queue is left.  The inductive invariant adds that the queue
  is ordered by time (`Ordered`), without which an entry may be overtaken; that
  each entry is in one place only and once in the queue (`OnePlace`); that the ping in the
  queue is that of the game (`PingOfGame`); that idle runs one callback at a time
  (`RunsOne`), and that what it will look at next is not before its present time
  (`TestedLater`).  `AccountedForAlways` follows.  `IndicatorMatchesAlways` needs one
  more invariant, `ToldInv`, of the flags and what the host was last told.
* `RcClientAsyncProofs`, for any number of calls, slots and games.  `CallsOK` ties each
  call to its slot, `SlotsHold` says that a call under way for which a slot was found
  is in the table and no other entry is, `SlotsEnough` counts them: the count of used
  slots is what keeps the host from meeting a full table.  `LoadOK` and
  `MediaOK` say which media change belongs to which load.  `CallbacksAccountedAlways`
  is proved for hosts that are not `Impatient`: the others make the code use a NULL
  pointer (section 5).  `MediaFollowsHostAlways` needs no assumption.
* `RcClientAchievementsProofs`, for any number of achievements and any host:
  `ListedAreActiveAlways`, `HardcoreStartsFromReset`, `HideAlwaysScheduled`.  The
  inductive invariant (`AchievementsOK`, `TrackerOK`, `OthersOK`, `HardcoreFromReset`)
  says what the trigger, the unlock bits and the list have to be for each public
  state, and that the timer of the progress indicator runs while something is shown.
  `ImplementsOverlay` shows that both indicators implement `RcClientOverlay` (step simulation
  by `IndicatorsStep` and `PopupStep`).  The events of a call are a fold over the achievements and
  what a host draws is a fold over the events; `InOrderRuns` and `PlayedRuns` unfold them, and
  `InOrderDraws` says that such events are legal and draw what they say if each tells
  a change (`Tells`).  That they do is proved of a frame, a reset, a restore (which
  compares what is primed before and after, whatever happens in between), a change of
  mode and unloading.
* `RcClientLoadProofs`, for any number of loads and any kind of host, with threads and
  without.  `CInv` says, of each load, where its two requests and the host are (`Stage`)
  and that `outstanding_requests` is the sum of what each place holds (`Counted`): a request
  in flight holds one, a handler until it calls `rc_client_end_load_state` one, the
  hold around the sets a second one.  It is inductive because in addition it fixes which
  places can be taken together: the session is only requested from within the
  handler of the sets, the host works on a load only before its first request or
  after its last answer, and a load state that is not used yet is nowhere.  One lemma for each
  function of the code says what it changes (`ErrorFacts`, `ClosedFacts`,
  `RefusedFacts`, `DetachedFacts`, `FetchFacts`, `SessionFacts`), one for each action
  that it keeps `CInv`.  `RequestsCountedAlways` follows: the two sets of
  `RequestsCounted` have that cardinality.
  The second half of the module is for hosts without threads and games that have
  sets (`Sequential`, `SetsAreSent`; section 5 says what happens in the other cases).
  That a load state is alive when a handler comes back to it does not follow from the
  counts: a load whose callback is queued, or that waits for the login, has none.
  `LiveAt` therefore says for each place what the handler there relies on: that it is
  the current load (`OfCurrent`), that it alone is left of its load, that the game is
  still owned, that the session is known when the sets are, that the callback has not been
  called while the load is current.  `SafeAt` adds that a load state that was freed is neither
  current nor queued, and that no request of it is anywhere.  While no thread runs this
  is a statement about the shared memory (`Rest`), which is what calls of the host have to
  keep; `QuietFacts` is the argument that handlers on one thread only meet when a
  session is answered inside `server_call`.  `LifetimesAlways`, `CallbackOnceAlways` and
  `UnlocksDeliveredAlways` follow.  `LatestWinsAlways` needs one thing more (`Latest`): that the
  load in progress is the one begun last, and so is that of a thread which may yet put
  its own in that place or report success.  `SteadyFacts`, `SteadyEnds`, `SteadyAsks` and
  `SteadyUnloads` say that no function of the code replaces a game or load by another.

* `RcClientLeaderboardsProofs`, for any number of leaderboards and any host, with hits,
  save states and unreadable memory.  A call takes the leaderboards in turn and raises
  its events at the end, so what holds between calls (`IInv`) is broken between
  turns.  `FrameAt`, `ResetAt`, `StopAt` and `RestoreAt` say for each kind of call what
  holds after k turns; `FrameTurn` and its like prove one turn, `Steps` leads to the last
  one by induction on its number, and `Raises` from there back to `IInv`.  The heart is `Core`: the
  counts of the trackers are the numbers of leaderboards that refer to them, and a
  tracker given back in this call, which cannot be claimed before its HIDE is
  raised, is accounted for by a leaderboard that has had its turn and took no other.  So
  there is room when one has to be made (`Room`), and the code never has more trackers
  than leaderboards.  `ReferencesAreCounted`, `SoftcoreIsIdle` and `AttemptsAreAnnounced` need no
  further assumption.  For the last, `Tells` says what is pending for a leaderboard that has
  had its turn: the event of what has become of its attempt since the frame began, if
  anything has (`News`).  `TrackersShowValues` is for games in which no value counts hits;
  what `TrackerShowsValue` says of the others is only model-checked.  `ReadingsAreShown`
  is for any game: what is read from memory is shown, whatever other values count.
  `ImplementsOverlay` shows that the trackers implement `RcClientOverlay`, for hosts whose
  memory can be read (the others leave a tracker on screen).  A tracker may be shown,
  shared, updated, given back and left in one call, and raises one event at most;
  `Drawable` says what is pending for each, in terms of what was on screen when the
  call began: a tracker in use has SHOW pending exactly if it was not, one that went has
  HIDE and not SHOW, one that came and went has both, which tells the host nothing.  Each
  turn keeps that (`Keeps`, part of `Moves`), so no claim takes a tracker of which the HIDE
  has not been raised.  `TrackersDrawn` leads from there to the events, by the same folds
  as for the indicators; `UnloadTurns` to the last HIDE of a game that is unloaded.

* `RcRuntimeProofs`, for any host: any number of achievements, leaderboards and scripts,
  data and sizes of any kind, any number of frames and calls.  `RuntimeAssumption` says
  what definitions are, that a list given to begin with has one item with an id, as
  `rc_runtime_activate_achievement` keeps it, and that a checksum stands for one script.
  The four properties of the run follow from one invariant, `RInv`:
  - `Lists`: the items are those of the host, one with an id, and what a host
    that follows the events was told of each agrees with it (`Synced`).
  - `Walk`: the items above the index at which a frame is have been looked at once and
    have nothing unreported, those below have not.  The removal of an item puts the
    last of the list, which has been looked at, in its place; this passes over no item
    because the list is walked from its end and a handler drops only the item whose
    event it is given.  One turn, with the deactivations of its handler, is described by `TurnFacts`;
    `EvaluatedFacts` and `BoardEvaluationFacts` say that its events tell the change, whatever
    their order (`FollowedRuns` unfolds the fold over them).
  - `SizeHolds`: what a save would take, if all that is active were stored, is not more
    than the size that was told.  A frame, a deactivation or a restore leaves of
    a list what injects into the list it was (`SizesShrink`), and a sum over a subset with
    the same sizes is not larger (`SumShrinks`, by induction on the number of terms).  The
    sizes that are cached take part only through `IsItem`: a cached size is 0 or that of the
    definition.
  - `SavedIsSnapshot`: the chunks, names and values of the last save are those of the
    snapshot, of which a restore is compared with what is there then.
  `EachItemOnceAlways`, `EventsTellStatesAlways`, `SizeSufficesAlways` and
  `RestoresTheSnapshotAlways` follow; the last, an action property, from
  `TriggerIsRestored`, `BoardIsRestored` and `ScriptIsRestored`.  The conjuncts of `RInv` were
  evaluated by TLC over the states of the run `RcRuntime` before they were proved.

Only model-checked, and why.

* Liveness (`LoadsConclude`, `EarnedSettles`, `IndicatorClears`, `PenaltyExpires`):
  out of the prover's reach, as is ENABLED.
* What is computed by recursion over data in `RcMemory`, `RcRichpresence`,
  `RcValidate` and `RcClientLists`.  The theorems
  of the library for that take an operator as a parameter, which no prover here can
  instantiate.  Induction on a number, stated with a set (`Induction`), is within
  reach and carries the loop over leaderboards and the nested folds of a frame; these modules
  recurse over trees as well, or use operators that are declared RECURSIVE.

## 5. Where the code and its documentation disagree

Two disagreements have a run that is expected to be violated.

* `RcClientAchievementsUnloaded`: the answer to an award uses `client->game`
  without asking whether there is one (`rc_client.c:4174`).
* `RcDataRedundant`: of two conditions that give a least value, `>=`, the stricter is
  reported as redundant (`rc_validate.c:766`); for `>` the code decides the other
  way round.

The others were met while modelling; the models follow the code, and the
properties name the exception or leave the case out.

Conditions, memory, save states:

* Hits added by AddHits to a condition without a target are said to be ignored
  (`condset.c:466`) and are carried to the next condition with a target
  (`condset.c:478`), also when that is of a later class and written before them:
  `Spilled` in `RcTrigger`.
* A measured number that came from hits is to be reset with them while the trigger is
  paused ("fix measured value from hitcount not resetting while paused", `CHANGELOG.md:211`).
  The code recognises it by comparing it with the hits of a Measured condition of a
  paused group (`trigger.c:108`, `trigger.c:252`).  It misses a number to which a chain of
  AddHits or SubHits contributed, and one whose hits went on, or were reset, while
  another group was paused: with a core of PauseIf, AddHits and a
  Measured of two hits, and an alternative with a ResetIf, the trigger
  shows 1 when it has no hit left.  The number is right again once the trigger is not
  paused.  `MeasuredBacked` asks nothing of a paused trigger but where
  `PausesTogether` holds.
* `has_hits` is not restored with the hits of a save state
  (`runtime_progress.c:607`), so a reset in the next frame is not reported.
* A second SubSource of a chain keeps the type of its parent when that is negated;
  a BCD or inverted value loses its transformation when it is recalled
  (`operand.c:556`); a reference compared with its own delta of another size is
  compared as equal while it does not change (`condition.c:639`, `condition.c:668`);
  operands that recall are equal however they read.  `RcMemory` has definitions with the
  third, which `ComparisonsAgree` excepts by name (`SizesOfUnchanged`), and none with the
  others, which the comment of `OperandsFollowHistory` lists.
* A restored sum over an indirect reference is computed before the pointer is
  followed again (`runtime_progress.c:167`), and the prior value of a restored sum
  is that of its parts: `updated` excludes the first, the definitions of
  the run the second.
* The first test of a state at `runtime.c:672` compares with a constant of another
  enumeration, and the second loop over leaderboards in an activation finds
  nothing: harmless.
* Resetting the runtime, or the handler of DISABLED, raises no UNPRIMED; after a
  restore the value of a leaderboard is announced only when it differs from the one
  announced last.  Deactivating another item from a handler is unsafe and left out.

Rich presence and validator:

* A range of a lookup table that widens another is not tested against the rest
  (`richpresence.c:359`): the overlap is not reported and, once the tree is
  balanced, a value may lose its label.  Ranges that end before they begin are
  accepted.  `ScriptsAgree` speaks of tables without overlaps.
* `rc_client_get_rich_presence_message` "returns the number of characters written"
  (`rc_client.h:686`); for a message that is cut it returns the full length.  `FitsBuffer`
  excepts that case.
* The validator compares a condition with the constant first by the negated
  comparison instead of the mirrored one (`rc_validate.c:617`); it compares sums by
  the address of their last operand, without its size, and ranges of AND, XOR and
  MOD assume a maximum of the form 2^k-1.  `VerdictsHold` leaves out conditions with
  the constant first, pairs of `>=`, and sums that end in different operands.

Client:

* RECONNECTED is decided from the queue, which a retry leaves when it is sent
  (`rc_client.c:528`).
* The handler of the sets, when the game has none, fails the load and frees it; an
  error in the session answer uses it before it is noticed (`rc_client.c:1878`): the
  hosts of the run get no such answer (`"empty"`).
* With several threads, the session handler gives up its count before it stores its
  answer (`rc_client.c:1886`): a load fails although both answers were good.
  `UnlocksDelivered` leaves them out.
* A tracker is shared on the strength of its value in the last frame
  (`rc_client.c:4646`), although a comment says that attempts that count hits and were
  not started in the same frame cannot share one (`rc_client.c:4647`).  Of two such
  attempts the later one may be one behind what is shown, and what is restored to two
  that share may differ in any way: `TrackerShowsValue` asks for no more of values that
  count hits.
* With several threads, the handler of an answer that names no game puts it in the place
  of the game without looking whether its load was replaced meanwhile
  (`rc_client.c:2522`), or takes the place of a newer load to try a further hash: the
  hosts with threads of the run only get answers for games that are known, and
  `LatestWinsAlways` is for hosts without threads.
* A load marked with `rc_client_abort_async` "will not be called"
  (`rc_client.h:135`); it is called when another load begins
  (`rc_client.c:2819`).
* A load replaced while its activation is queued, or between two critical sections
  of a handler on another thread, is called back twice: `CallbackOnce`.
* Media changed to a known or unhashable hash after the data of a game has come and
  before it is active, and entries of a leaderboard around a user who is still
  logging in, use a NULL pointer (`rc_client.c:3113`, `rc_client.c:5011`):
  `Impatient` hosts, left out.
* A call that finds no free slot has no entry in the table: its handle is reported
  as not valid, so NULL is returned, and the destruction of the client does not
  reach it (`rc_client.c:406`).  The hosts of `RcClientAsync` keep no more calls
  under way than there are slots.
* A media change that waits for a load is replaced or dropped without a call of its
  callback (`rc_client.c:3111`).  An answer for unknown media that comes before the
  session answer is reported as aborted, though a test expects success
  (`test_rc_client.c:3449`).  Two media changes that are answered in the other order
  leave the older media.
* Hardcore may be enabled while unrecognized media is in place: `overruled`.
* Unreadable memory disables a leaderboard in the middle of an attempt, or a primed
  achievement, and what it shows is not hidden when the game is unloaded
  (`rc_client.c:1297`, `rc_client.c:3032`): the refinements leave `fails` out.
* Encore mode "has no effect while a game is loaded" (`rc_client.h:77`), but a
  change of hardcore mode looks at it (`rc_client.c:1446`): `encored`.
* `rc_client_subset_toggle_hardcore_achievements` raises a HIDE event with the mutex
  held, events being raised outside it elsewhere.
* `rc_client_award_achievement` dereferences `client->game` three lines before it
  tests it for NULL (`rc_client.c:4289`).
* The percentage of an achievement is not updated as long as nothing has been
  measured after a reset, so it stays "almost there"; grouped by lock state, an
  unofficial one that is primed is listed as locked; a game with only hidden
  leaderboards has leaderboards and an empty list of them.

## 6. Not modelled

Failing allocations, except where a flag above says so.  The external client and
RAIntegration: every call is handed to a DLL that is not in the repository.
Building of URLs and parsing of JSON (`rapi/`), digests and disc images
(`rhash/`), formatting of values, tables of consoles: sequential conversions of
data and constants.  The splitting of definitions and scripts into tokens: the
modules begin with conditions and lines.  In `RcMemory`, a value remembered again
by what recalls it, and the relinking of Remember across PauseIf
(`condset.c:140`).  In `RcClientLists`, encore mode, labels and texts.  In
`RcRuntime`, the getters of measured values and the bytes of a save.  Calls of the
client by the host from inside an event handler.  Contents of requests.

## 7. Plan

1. Done: triggers; pause throttle; submissions; loading; leaderboards; achievements
   and progress indicator; asynchronous calls and media; memory references and
   allocation; the runtime and its save states; lists, scripts, validator.
2. Next proofs, in the order of what they would add: loads on several threads.
3. Then, if the model is to grow: the iterator over hashes (`rhash/hash.c`), the
   memory regions of libretro cores (`rc_libretro.c`), event handlers that call the
   client, and users who change between a submission and its retry.
