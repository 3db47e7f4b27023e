--------------------------- MODULE RcClientSubmit ---------------------------
(***************************************************************************)
(* Delivery of achievement unlocks and leaderboard entries to the server.  *)
(*                                                                         *)
(* A submission is sent when it is earned, resent at once after its first  *)
(* failure, and after that queued with a growing delay among the scheduled *)
(* callbacks of the client, which rc_client_idle runs.  While a retry is   *)
(* queued the player is shown a "disconnected" indicator.                  *)
(*                                                                         *)
(* The two kinds of submission differ in what they do with a good answer,  *)
(* which is left out; their control is the same.  The queue also holds the *)
(* periodic ping of the loaded game.  `when' is kept relative to the clock *)
(* and never below 0: entries that are overdue keep their order, and a new *)
(* entry is always in the future.  The clock stands still inside one call  *)
(* of rc_client_idle, which reads it once.                                 *)
(***************************************************************************)
EXTENDS Naturals, SequencesExt

CONSTANTS Submissions,   \* unlocks and leaderboard entries the player may earn
          Doublings,     \* retry_count up to which the delay doubles, 8 in the code
          MaxDelay,      \* delay of every later retry, 120 seconds in the code
          FirstPing, PingPeriod,  \* 30 and 120 seconds in the code
          Threading      \* whether answers may be handled on threads of their own

ASSUME SubmitAssumption ==
  /\ Doublings \in Nat \ {0, 1}
  /\ MaxDelay \in Nat \ {0}
  /\ FirstPing \in Nat \ {0} /\ PingPeriod \in Nat \ {0}
  /\ Threading \subseteq BOOLEAN

CONSTANT Ping            \* the queue entry of rc_client_ping

ASSUME PingAssumption == Ping \notin Submissions

VARIABLES threaded,             \* answers are handled on threads of their own
          logged_in, game,      \* a user, a loaded game
          queue,                \* state.scheduled_callbacks: [item, when]
          disconnect,           \* state.disconnect, the flags that are set
          host,                 \* where the host thread is in rc_client_idle
          running,              \* the item idle has taken from the queue
          retry_count,
          earned,               \* submissions made so far
          inflight,             \* requests the server has not answered
          updating,             \* callbacks yet to call update_disconnect_state
          settled,              \* accepted or refused by the server
          dropped,              \* freed: the request could not be built
          event, shown          \* the event raised last, history: the indicator

submissions == <<retry_count, earned, inflight, settled, dropped>>
vars == <<threaded, logged_in, game, queue, disconnect, host, running, submissions,
          updating, event, shown>>

None == {}
\* retry_count beyond which nothing the model keeps depends on it.
RetryBound == Doublings + 1

Init ==
  /\ threaded \in Threading
  /\ logged_in = TRUE /\ game = FALSE
  /\ queue = <<>>
  /\ disconnect = {}
  /\ host = "out" /\ running = None
  /\ retry_count = [s \in Submissions |-> 0]
  /\ earned = {} /\ inflight = {} /\ updating = {} /\ settled = {} /\ dropped = {}
  /\ event = "none" /\ shown = FALSE

-----------------------------------------------------------------------------
\* 1s -> 2s -> 4s -> ... -> MaxDelay -> MaxDelay
Delay(count) == IF count > Doublings THEN MaxDelay ELSE 2 ^ (count - 2)

\* Mutant: a new entry is put at the end.
ScheduledLast(item, when) == Append(queue, [item |-> item, when |-> when])

\* rc_client_schedule_callback: before the first entry that is due later.
Scheduled(item, when) ==
  LET later == {i \in DOMAIN queue : when < queue[i].when}
      at    == IF later = {} THEN Len(queue) + 1
               ELSE CHOOSE i \in later : \A j \in later : i <= j
  IN InsertAt(queue, at, [item |-> item, when |-> when])

Items == {queue[i].item : i \in DOMAIN queue}

\* Mutant: the ping counts as a retry.
UpdateDisconnectPing ==
  disconnect' =
    CASE queue # <<>> /\ "VISIBLE" \notin disconnect -> {"SHOW_PENDING"}
      [] queue = <<>> /\ "VISIBLE" \in disconnect    -> {"VISIBLE", "HIDE_PENDING"}
      [] queue # <<>> /\ "VISIBLE" \in disconnect    -> {"VISIBLE"}
      [] OTHER                                       -> {}

\* Mutant: nothing hides the indicator.
UpdateDisconnectStays ==
  disconnect' = IF Items \cap Submissions # {} /\ "VISIBLE" \notin disconnect
                THEN {"SHOW_PENDING"} ELSE disconnect \cap {"VISIBLE"}

\* rc_client_update_disconnect_state; the ping does not count.
UpdateDisconnect ==
  LET retrying == Items \cap Submissions # {}
  IN disconnect' =
       CASE retrying /\ "VISIBLE" \notin disconnect -> {"SHOW_PENDING"}
         [] ~retrying /\ "VISIBLE" \in disconnect   -> {"VISIBLE", "HIDE_PENDING"}
         [] retrying /\ "VISIBLE" \in disconnect    -> {"VISIBLE"}
         [] OTHER                                   -> {}

\* The host thread waits for a callback that runs on it.
HostRuns == threaded \/ updating = {}

\* server_call may answer at once, on the thread of the caller, or at any later
\* time; without threads of its own it does so between two steps of the host.
HandlerRuns == threaded \/ (host \in {"out", "loop"} /\ updating = {})

\* rc_client_award_achievement_server_call, rc_client_submit_leaderboard_entry_
\* server_call: without a user the request cannot be built and the data is freed.
ServerCall(s) ==
  IF logged_in
  THEN inflight' = inflight \cup {s} /\ UNCHANGED dropped
  ELSE inflight' = inflight \ {s} /\ dropped' = dropped \cup {s}

-----------------------------------------------------------------------------
(* The host: loading and unloading games, earning, logging out.             *)

HostIdle == host = "out" /\ HostRuns

LoadGame ==
  /\ HostIdle /\ logged_in /\ ~game
  /\ game' = TRUE
  /\ queue' = Scheduled(Ping, FirstPing)
  /\ event' = "none"
  /\ UNCHANGED <<threaded, logged_in, disconnect, host, running, submissions, updating, shown>>

\* rc_client_unload_game takes out the ping of the game, which is queued once.
WithoutPing ==
  IF Ping \in Items
  THEN RemoveAt(queue, CHOOSE i \in DOMAIN queue : queue[i].item = Ping)
  ELSE queue

UnloadGame ==
  /\ HostIdle /\ game
  /\ game' = FALSE
  /\ queue' = WithoutPing
  /\ event' = "none"
  /\ UNCHANGED <<threaded, logged_in, disconnect, host, running, submissions, updating, shown>>

\* rc_client_logout unloads the game, and leaves retries where they are.
LogOut ==
  /\ HostIdle /\ logged_in
  /\ logged_in' = FALSE /\ game' = FALSE
  /\ queue' = WithoutPing
  /\ event' = "none"
  /\ UNCHANGED <<threaded, disconnect, host, running, submissions, updating, shown>>

LogIn ==
  /\ HostIdle /\ ~logged_in
  /\ logged_in' = TRUE
  /\ event' = "none"
  /\ UNCHANGED <<threaded, game, queue, disconnect, host, running, submissions, updating, shown>>

\* rc_client_award_achievement, rc_client_submit_leaderboard_entry
Earn(s) ==
  /\ HostIdle /\ game /\ s \notin earned
  /\ earned' = earned \cup {s}
  /\ ServerCall(s)
  /\ event' = "none"
  /\ UNCHANGED <<threaded, logged_in, game, queue, disconnect, host, running, retry_count,
                 settled, updating, shown>>

Tick ==
  /\ host = "out"
  /\ \E e \in ToSet(queue) : e.when > 0
  /\ queue' = [i \in DOMAIN queue |->
                 [queue[i] EXCEPT !.when = IF @ > 0 THEN @ - 1 ELSE 0]]
  /\ event' = "none"
  /\ UNCHANGED <<threaded, logged_in, game, disconnect, host, running, submissions, updating,
                 shown>>

-----------------------------------------------------------------------------
(* rc_client_idle                                                           *)

IdleBegin ==
  /\ HostIdle
  /\ host' = IF queue # <<>> THEN "loop" ELSE "test"
  /\ event' = "none"
  /\ UNCHANGED <<threaded, logged_in, game, queue, disconnect, running, submissions, updating,
                 shown>>

Due == queue # <<>> /\ Head(queue).when = 0

IdlePop ==
  /\ host = "loop" /\ HostRuns /\ Due
  /\ running' = {Head(queue).item}
  /\ queue' = Tail(queue)
  /\ host' = "run"
  /\ event' = "none"
  /\ UNCHANGED <<threaded, logged_in, game, disconnect, submissions, updating, shown>>

\* rc_client_award_achievement_retry, rc_client_submit_leaderboard_entry_retry
IdleRetry(s) ==
  /\ host = "run" /\ HostRuns /\ s \in running
  /\ ServerCall(s)
  /\ running' = None
  /\ host' = "loop"
  /\ event' = "none"
  /\ UNCHANGED <<threaded, logged_in, game, queue, disconnect, retry_count, earned, settled,
                 updating, shown>>

IdlePing ==
  /\ host = "run" /\ HostRuns /\ Ping \in running
  /\ queue' = Scheduled(Ping, PingPeriod)
  /\ running' = None
  /\ host' = "loop"
  /\ event' = "none"
  /\ UNCHANGED <<threaded, logged_in, game, disconnect, submissions, updating, shown>>

IdleLeavesLoop ==
  /\ host = "loop" /\ HostRuns /\ ~Due
  /\ host' = "test"
  /\ event' = "none"
  /\ UNCHANGED <<threaded, logged_in, game, queue, disconnect, running, submissions, updating,
                 shown>>

\* The flags are read outside the lock ...
IdleTest ==
  /\ host = "test" /\ HostRuns
  /\ host' = IF disconnect \ {"VISIBLE"} # {} THEN "raise" ELSE "out"
  /\ event' = "none"
  /\ UNCHANGED <<threaded, logged_in, game, queue, disconnect, running, submissions, updating,
                 shown>>

\* ... and again inside it: rc_client_raise_disconnect_events.
IdleRaise ==
  /\ host = "raise" /\ HostRuns
  /\ shown' = ("SHOW_PENDING" \in disconnect)
  /\ disconnect' = IF shown' THEN {"VISIBLE"} ELSE {}
  /\ event' = IF shown' THEN "DISCONNECTED" ELSE "RECONNECTED"
  /\ host' = "out"
  /\ UNCHANGED <<threaded, logged_in, game, queue, running, submissions, updating>>

Idle ==
  \/ IdleBegin \/ IdlePop \/ IdlePing \/ IdleLeavesLoop \/ IdleTest \/ IdleRaise
  \/ \E s \in Submissions : IdleRetry(s)

-----------------------------------------------------------------------------
(* rc_client_award_achievement_callback and rc_client_submit_leaderboard_   *)
(* entry_callback.  A callback returns before its request is answered again.*)

Answerable(s) == s \in inflight /\ HandlerRuns /\ s \notin updating

\* Accepted, or refused with an error that is not to be retried.
AnsweredForGood(s) ==
  /\ Answerable(s)
  /\ inflight' = inflight \ {s}
  /\ settled' = settled \cup {s}
  /\ updating' = IF retry_count[s] > 0 THEN updating \cup {s} ELSE updating
  /\ event' \in {"none", "SERVER_ERROR"}
  /\ UNCHANGED <<threaded, logged_in, game, queue, disconnect, host, running, retry_count,
                 earned, dropped, shown>>

\* The first retry is immediate.
FailedFirst(s) ==
  /\ Answerable(s) /\ retry_count[s] = 0
  /\ retry_count' = [retry_count EXCEPT ![s] = 1]
  /\ ServerCall(s)
  /\ event' = "none"
  /\ UNCHANGED <<threaded, logged_in, game, queue, disconnect, host, running, earned, settled,
                 updating, shown>>

\* Mutant: gives up once the delay has stopped growing.
FailedAgainGivesUp(s) ==
  /\ Answerable(s) /\ retry_count[s] > 0
  /\ retry_count' = [retry_count EXCEPT ![s] = IF @ < RetryBound THEN @ + 1 ELSE @]
  /\ inflight' = inflight \ {s}
  /\ queue' = IF retry_count[s] = RetryBound THEN queue
                ELSE Scheduled(s, Delay(retry_count'[s]))
  /\ updating' = updating \cup {s}
  /\ event' = "none"
  /\ UNCHANGED <<threaded, logged_in, game, disconnect, host, running, earned, settled, dropped,
                 shown>>

FailedAgain(s) ==
  /\ Answerable(s) /\ retry_count[s] > 0
  /\ retry_count' = [retry_count EXCEPT ![s] = IF @ < RetryBound THEN @ + 1 ELSE @]
  /\ inflight' = inflight \ {s}
  /\ queue' = Scheduled(s, Delay(retry_count'[s]))
  /\ updating' = updating \cup {s}
  /\ event' = "none"
  /\ UNCHANGED <<threaded, logged_in, game, disconnect, host, running, earned, settled, dropped,
                 shown>>

\* The end of a callback, in a critical section of its own.
Update(s) ==
  /\ s \in updating
  /\ UpdateDisconnect
  /\ updating' = updating \ {s}
  /\ event' = "none"
  /\ UNCHANGED <<threaded, logged_in, game, queue, host, running, submissions, shown>>

Handler ==
  \E s \in Submissions :
    AnsweredForGood(s) \/ FailedFirst(s) \/ FailedAgain(s) \/ Update(s)

Host == LoadGame \/ UnloadGame \/ LogOut \/ LogIn \/ \E s \in Submissions : Earn(s)

Next == Host \/ Tick \/ Idle \/ Handler

Spec == Init /\ [][Next]_vars

\* The host keeps calling rc_client_idle (or do_frame, which does), callbacks
\* that have begun finish, time passes, and a request that is sent over and over
\* is answered for good some time.
FairSpec ==
  /\ Spec
  /\ WF_vars(Idle)
  /\ SF_vars(Tick)
  /\ \A s \in Submissions : WF_vars(Update(s)) /\ SF_vars(AnsweredForGood(s))

-----------------------------------------------------------------------------
TypeOK ==
  /\ threaded \in BOOLEAN
  /\ logged_in \in BOOLEAN /\ game \in BOOLEAN /\ (game => logged_in)
  /\ queue \in Seq([item : Submissions \cup {Ping}, when : Nat])
  /\ disconnect \in {{}, {"VISIBLE"}, {"SHOW_PENDING"}, {"VISIBLE", "HIDE_PENDING"}}
  /\ host \in {"out", "loop", "run", "test", "raise"}
  /\ running \subseteq Submissions \cup {Ping}
  /\ retry_count \in [Submissions -> 0 .. RetryBound]
  /\ earned \subseteq Submissions /\ updating \subseteq earned
  /\ inflight \cup settled \cup dropped \subseteq earned
  /\ event \in {"none", "DISCONNECTED", "RECONNECTED", "SERVER_ERROR"}
  /\ shown \in BOOLEAN

\* The places where a submission can be.
Places == <<inflight, Items, running, settled, dropped>>

\* No unlock is ever forgotten or sent twice at a time: whatever the order of
\* answers, retries, pings and unloads, an earned submission is in one place, in
\* the queue at most once, and only the ping of a loaded game is queued besides.  The
\* queue is in the order in which its entries are due, so an entry that is not due
\* never delays one that is: idle looks at the first entry only.
AccountedFor ==
  /\ TypeOK
  /\ \A s \in Submissions :
       Cardinality({p \in DOMAIN Places : s \in Places[p]}) = IF s \in earned THEN 1 ELSE 0
  /\ Ping \in Items \cup running <=> game
  /\ \A i, j \in DOMAIN queue : queue[i].item = queue[j].item => i = j
  /\ \A i, j \in DOMAIN queue : i < j => queue[i].when <= queue[j].when
  /\ host = "test" => \A i \in DOMAIN queue : queue[i].when > 0

\* What the player will have been told once the events of the flags are raised.
Announced == "SHOW_PENDING" \in disconnect \/ disconnect = {"VISIBLE"}

\* With callbacks on the host thread, the indicator is on (or about to be) while
\* a retry waits in the queue, and off when nothing was ever retried or lost; and
\* the events have told the player so.
IndicatorMatches ==
  ~threaded /\ updating = {} =>
    /\ shown <=> "VISIBLE" \in disconnect
    /\ Items \cap Submissions # {} => Announced
    /\ Announced => \/ \E s \in earned \ settled : retry_count[s] > 0
                    \/ dropped # {}

\* Whatever was earned reaches the server, also when the game is unloaded
\* meanwhile, unless the user is logged out when the request has to be built.
EarnedSettles == \A s \in Submissions : s \in earned ~> s \in settled \cup dropped

\* Once everything is settled the indicator goes away, and stays away.
IndicatorClears == settled = Submissions ~> [](~shown /\ disconnect = {})
=============================================================================
