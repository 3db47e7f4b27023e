---------------------------- MODULE RcClientLoad ----------------------------
(***************************************************************************)
(* Loading a game by hash: rc_client_begin_load_game, the two requests it  *)
(* issues (game sets, start session), the login it may have to wait for,   *)
(* activation, and everything the host may do meanwhile: unload, log out,  *)
(* load another game, abort.                                               *)
(*                                                                         *)
(* client is the memory that the host and the handlers of server answers   *)
(* share.  Each handler is a thread with a program counter and moves from  *)
(* one critical section of the client's mutex to the next.  Without        *)
(* threads of their own the handlers run on that of the host, one at a     *)
(* time, except that server_call may answer the session request before it  *)
(* returns.                                                                *)
(*                                                                         *)
(* Left out: failing allocations, the external client, change of media and *)
(* rc_client_destroy.                                                      *)
(***************************************************************************)
EXTENDS Integers, FiniteSets

CONSTANTS Loads,        \* load states, each used by one rc_client_begin_load_game
          Hosts         \* the hosts to consider, one is chosen at the start:
                        \* threaded    answers are handled on threads of their own
                        \* background  allow_background_memory_reads
                        \* hashes      further hashes the iterator may find
                        \* answers     what the server may say of the sets
                        \* aborts      the host may call rc_client_abort_async
                        \* logins      logins and logouts happen meanwhile
                        \* spectating  spectator mode, in which nothing is unlocked

CONSTANT NoLoad         \* a NULL pointer

ASSUME LoadAssumption ==
  /\ NoLoad \notin Loads
  /\ Hosts \subseteq
       [threaded : BOOLEAN, background : BOOLEAN, aborts : BOOLEAN,
        logins : BOOLEAN, spectating : BOOLEAN, hashes : Nat,
        answers : SUBSET {"sets", "empty", "unknown", "error"}]

VARIABLES client,     \* the shared memory, see TypeOK
          pc, local,  \* of every handler and of the host: where it is, and what
                      \* it has been answered
          hostLoad,   \* the load the host thread is working on
          newest,     \* history: the load begun last
          manual      \* history: loads aborted with rc_client_abort_async

threads == <<pc, local, hostLoad>>
vars == <<client, threads, newest, manual>>

Kinds == {"fetch", "session"}
Requests == Loads \X Kinds
Host == <<NoLoad, "host">>
Threads == Requests \cup {Host}

LoadState ==
  [life : {"unused", "live", "freed"},
   progress : {"NONE", "AWAIT_LOGIN", "FETCHING", "IDENTIFYING", "STARTING", "DONE",
               "ABORTED"},
   outstanding : 0 .. 2,        \* outstanding_requests
   aborted : BOOLEAN,           \* async_handle.aborted
   callback : BOOLEAN,          \* the callback pointer is not NULL
   session : BOOLEAN,           \* start_session_response
   hashes : Nat,                \* what is left in hash_iterator
   mapping : {"no", "can", "is_unknown"},  \* whether identify_unknown_hash may
                                           \* name the game, or has
   owner : BOOLEAN,             \* load_state->game is not NULL
   calls : 0 .. 3,              \* history: calls of the callback
   result : {"none", "OK", "ABORTED", "ERROR"}]  \* history: result of the last

NewLoadState(n) ==
  [life |-> "live", progress |-> "NONE", outstanding |-> 0, aborted |-> FALSE,
   callback |-> TRUE, session |-> FALSE, hashes |-> n,
   mapping |-> IF n = 0 THEN "can" ELSE "no", owner |-> FALSE, calls |-> 0,
   result |-> "none"]

\* Whether unlocks are tracked is decided before the load: spectator mode cannot
\* be left while it is locked.
Init ==
  /\ client \in
       {[host |-> h, load |-> NoLoad, game |-> NoLoad, login |-> "none",
         user |-> IF h.logins THEN "NONE" ELSE "LOGGED_IN", credentials |-> ~h.logins,
         inflight |-> {}, queued |-> {},
         state |-> [l \in Loads |-> [NewLoadState(0) EXCEPT !.life = "unused"]],
         games |-> [l \in Loads |-> "none"], corrupt |-> FALSE] : h \in Hosts}
  /\ pc = [t \in Threads |-> "out"]
  /\ local = [t \in Threads |-> "none"]
  /\ hostLoad = NoLoad /\ newest = NoLoad /\ manual = {}

-----------------------------------------------------------------------------
(* The functions of rc_client.c that handlers and host call: operators on   *)
(* the shared memory.                                                       *)

Called(c, l, result) ==
  IF c.state[l].callback
  THEN [c EXCEPT !.state[l].calls = IF @ < 3 THEN @ + 1 ELSE @,
                 !.state[l].result = result]
  ELSE c

\* rc_client_free_game, by load because each load allocates one.
FreeGame(c, l) ==
  [c EXCEPT !.games[l] = "freed", !.corrupt = @ \/ c.games[l] = "freed"]

FreeLoadState(c, l) ==
  LET n == IF c.state[l].owner THEN FreeGame(c, l) ELSE c
  IN [n EXCEPT !.state[l].life = "freed"]

\* rc_client_end_load_state; -1 stands for an aborted load.
Ended(c, l) ==
  [c EXCEPT !.state[l].outstanding = IF @ > 0 THEN @ - 1 ELSE 0]

Remaining(c, l) ==
  IF c.load # l THEN -1 ELSE Ended(c, l).state[l].outstanding

\* Mutant: an aborted load is not freed.
EndLoadStateLeaks(c, l) == Ended(c, l)

EndLoadState(c, l) ==
  LET n == Ended(c, l)
      m == IF n.state[l].progress # "ABORTED" THEN Called(n, l, "ABORTED") ELSE n
  IN IF c.load # l /\ n.state[l].outstanding = 0 THEN FreeLoadState(m, l) ELSE n

\* Mutant: the load state is freed whatever is still in flight.
LoadErrorFrees(c, l, result) ==
  FreeLoadState(Called([c EXCEPT !.state[l].progress = "ABORTED",
                                 !.load = IF @ = l THEN NoLoad ELSE @], l, result), l)

LoadError(c, l, result) ==
  LET n == Called([c EXCEPT !.state[l].progress = "ABORTED",
                            !.load = IF @ = l THEN NoLoad ELSE @], l, result)
  IN IF c.state[l].outstanding = 0 THEN FreeLoadState(n, l) ELSE n

\* What unload_game and abort_load_in_progress do to the load in progress.
Detached(c) ==
  IF c.load = NoLoad THEN c
  ELSE [c EXCEPT !.state[c.load].aborted = TRUE, !.load = NoLoad,
                 !.corrupt = @ \/ c.state[c.load].life = "freed"]

\* rc_client_unload_game; the load process cleans up a game still being loaded.
UnloadGame(c) ==
  LET n == [Detached(c) EXCEPT !.game = NoLoad]
  IN IF \/ c.game = NoLoad
        \/ c.load = c.game /\ c.state[c.load].owner
     THEN n ELSE FreeGame(n, c.game)

\* rc_client_begin_fetch_game_sets
BeginFetch(c, l) ==
  CASE c.user = "LOGGED_IN" ->
         [c EXCEPT !.state[l].progress = "IDENTIFYING", !.state[l].outstanding = @ + 1,
                   !.inflight = @ \cup {<<l, "fetch">>}]
    [] c.user = "LOGIN_REQUESTED" -> [c EXCEPT !.state[l].progress = "AWAIT_LOGIN"]
    [] c.user = "NONE" -> LoadError(c, l, "ERROR")

\* Mutant: the request to start a session is not counted.
BeginSessionUncounted(c, l) ==
  LET n == [c EXCEPT !.state[l].progress = "STARTING", !.state[l].outstanding = @ + 1]
  IN CASE c.host.spectating -> n
       [] ~c.host.spectating /\ ~c.credentials -> LoadError(n, l, "ERROR")
       [] OTHER -> [n EXCEPT !.inflight = @ \cup {<<l, "session">>}]

\* The hold kept while the sets are processed, then rc_client_begin_start_session.
BeginSession(c, l) ==
  LET n == [c EXCEPT !.state[l].progress = "STARTING", !.state[l].outstanding = @ + 1]
  IN CASE c.host.spectating -> n
       [] ~c.host.spectating /\ ~c.credentials -> LoadError(n, l, "ERROR")
       [] OTHER -> [n EXCEPT !.state[l].outstanding = @ + 1,
                             !.inflight = @ \cup {<<l, "session">>}]

\* rc_client_activate_game, from its first critical section to its last.
ActivateBegin(c, l) == [c EXCEPT !.state[l].progress = IF c.load = l THEN "DONE" ELSE "ABORTED"]

Refused(c, l, result) == FreeLoadState(Called(c, l, result), l)

Awaiting(c) == c.load # NoLoad /\ c.state[c.load].progress = "AWAIT_LOGIN"

\* rc_client_logout
LogOutOf(c) ==
  LET n == UnloadGame([c EXCEPT !.user = "NONE", !.credentials = FALSE])
  IN IF Awaiting(c) THEN LoadError(n, c.load, "ABORTED") ELSE n

-----------------------------------------------------------------------------
(* Threads.                                                                 *)

LoadOf(t) == IF t = Host THEN hostLoad ELSE t[1]

Running == {t \in Threads : pc[t] # "out"}

\* Without threads a handler runs to its end, unless it calls server_call and the
\* session request is answered before server_call returns.
Runs(t) ==
  \/ client.host.threaded
  \/ Running \subseteq {t}
  \/ \E l \in Loads : /\ t = <<l, "session">>
                      /\ Running \subseteq {t, <<l, "fetch">>}
                      /\ pc[<<l, "fetch">>] = "processing"

\* Thread t may leave `from': its load state has not been freed.
At(t, from) ==
  /\ pc[t] = from /\ Runs(t)
  /\ ~client.corrupt
  /\ client.state[LoadOf(t)].life = "live"

Goes(t, to, with) ==
  /\ pc' = [pc EXCEPT ![t] = to]
  /\ local' = [local EXCEPT ![t] = with]

Steps(t, to, with) ==
  /\ Goes(t, to, with)
  /\ UNCHANGED <<hostLoad, newest, manual>>

Returns(t) == Steps(t, "out", "none")

\* Undefined behaviour: the thread uses a load state that has been freed.
UseAfterFree(t) ==
  /\ pc[t] # "out" \/ t \in client.inflight
  /\ Runs(t) /\ ~client.corrupt
  /\ client.state[LoadOf(t)].life = "freed"
  /\ client' = [client EXCEPT !.corrupt = TRUE]
  /\ UNCHANGED <<threads, newest, manual>>

-----------------------------------------------------------------------------
(* Handlers: rc_client_fetch_game_sets_callback and                         *)
(* rc_client_start_session_callback.                                        *)

\* A game the host has named is known to the server.
Answers(t) ==
  CASE t[2] = "session" -> {"ok", "error"}
    [] t[2] = "fetch" /\ client.state[t[1]].mapping = "is_unknown" ->
         client.host.answers \ {"unknown"}
    [] OTHER -> client.host.answers

\* rc_client_end_async
Answered(t) ==
  /\ t \in client.inflight /\ At(t, "out")
  /\ client' = [client EXCEPT !.inflight = @ \ {t}]
  /\ IF client.state[t[1]].aborted
     THEN Steps(t, "aborting", "none")
     ELSE \E a \in Answers(t) : Steps(t, "ended", a)

\* Mutant: the callback is not cleared first.
AbortingCallsBack(t) ==
  /\ At(t, "aborting")
  /\ client' = LoadError(client, LoadOf(t), "ABORTED")
  /\ Steps(t, "leaving", "none")

\* rc_client_load_aborted
Aborting(t) ==
  /\ At(t, "aborting")
  /\ client' = LoadError([client EXCEPT !.state[LoadOf(t)].callback = FALSE],
                         LoadOf(t), "ABORTED")
  /\ Steps(t, "leaving", "none")

Leaving(t) ==
  /\ At(t, "leaving")
  /\ client' = EndLoadState(client, LoadOf(t))
  /\ Returns(t)

\* The error is looked at before the number of requests that remain.
Ending(t) ==
  LET remaining == Remaining(client, LoadOf(t))
  IN /\ At(t, "ended")
     /\ client' = EndLoadState(client, LoadOf(t))
     /\ CASE local[t] = "error" -> Steps(t, "failing", "none")
          [] local[t] # "error" /\ remaining = -1 -> Returns(t)
          [] local[t] = "unknown" /\ remaining # -1 -> Steps(t, "resolving", "none")
          [] local[t] \in {"sets", "empty"} /\ remaining # -1 ->
               Steps(t, "starting", local[t])
          [] local[t] = "ok" /\ remaining = 0 /\ client.host.background ->
               Steps(t, "activating", "ok")
          [] local[t] = "ok" /\ remaining = 0 /\ ~client.host.background ->
               Steps(t, "storing", "last")
          [] local[t] = "ok" /\ remaining > 0 -> Steps(t, "storing", "none")

Failing(t) ==
  /\ At(t, "failing")
  /\ client' = LoadError(client, LoadOf(t), "ERROR")
  /\ Returns(t)

\* Mutant: the last session response is not kept for the queued activation.
StoringForgets(t) ==
  /\ At(t, "storing")
  /\ client' = [client EXCEPT
                  !.state[LoadOf(t)].session = @ \/ local[t] # "last",
                  !.queued = IF local[t] = "last" THEN @ \cup {LoadOf(t)} ELSE @]
  /\ Returns(t)

\* The session response is kept for the other handler, or the game is queued for
\* activation by the host.
Storing(t) ==
  /\ At(t, "storing")
  /\ client' = [client EXCEPT
                  !.state[LoadOf(t)].session = TRUE,
                  !.queued = IF local[t] = "last" THEN @ \cup {LoadOf(t)} ELSE @]
  /\ Returns(t)

Starting(t) ==
  /\ At(t, "starting")
  /\ client' = BeginSession(client, LoadOf(t))
  /\ Steps(t, "processing", local[t])

Processing(t) ==
  /\ At(t, "processing")
  /\ client' = IF local[t] = "empty" THEN LoadError(client, LoadOf(t), "ERROR")
                                    ELSE client
  /\ Steps(t, "holding", "none")

Holding(t) ==
  LET l == LoadOf(t)
      remaining == Remaining(client, l)
      c == EndLoadState(client, l)
  IN /\ At(t, "holding")
     /\ IF remaining = 0 /\ client.host.background
        THEN /\ client' = c
             /\ Steps(t, "activating", IF c.state[l].session THEN "ok" ELSE "none")
        ELSE /\ client' = IF remaining = 0 THEN [c EXCEPT !.queued = @ \cup {l}] ELSE c
             /\ Returns(t)

-----------------------------------------------------------------------------
(* rc_client_load_game: attach, then resolve the hash.                      *)

Attaching(t) ==
  LET l == LoadOf(t)
  IN /\ At(t, "attaching")
     /\ CASE client.load = NoLoad ->
               /\ client' = [UnloadGame(client) EXCEPT !.state[l].owner = TRUE,
                                                       !.games[l] = "live"]
               /\ Steps(t, "attached", "none")
          [] client.load = l ->
               /\ client' = client
               /\ Steps(t, "identifying", "none")
          [] OTHER ->
               /\ client' = Refused(client, l, "ABORTED")
               /\ Returns(t)

Attached(t) ==
  /\ At(t, "attached")
  /\ client' = [client EXCEPT !.load = LoadOf(t)]
  /\ Steps(t, "identifying", "none")

\* The hash may be known already to belong to no game.
Identifying(t) ==
  /\ At(t, "identifying")
  /\ \/ client' = BeginFetch(client, LoadOf(t)) /\ Returns(t)
     \/ client' = client /\ Steps(t, "resolving", "none")

\* rc_client_process_resolved_hash for a hash without a game.
NextHash(t) ==
  LET l == LoadOf(t)
  IN /\ At(t, "resolving") /\ client.state[l].hashes > 0
     /\ client' = [client EXCEPT !.state[l].hashes = @ - 1]
     /\ Steps(t, "attaching", "none")

HostNamesGame(t) ==
  LET l == LoadOf(t)
  IN /\ At(t, "resolving") /\ client.state[l].mapping = "can"
     /\ client' = BeginFetch([client EXCEPT !.state[l].mapping = "is_unknown"], l)
     /\ Returns(t)

UnknownGame(t) ==
  LET l == LoadOf(t)
  IN /\ At(t, "resolving") /\ client.state[l].hashes = 0
     /\ client' = LoadError([client EXCEPT !.game = l, !.state[l].owner = FALSE],
                            l, "ERROR")
     /\ Returns(t)

-----------------------------------------------------------------------------
(* rc_client_activate_game, from one critical section to the next.          *)

Activating(t) ==
  LET l == LoadOf(t)
      c == ActivateBegin(client, l)
  IN /\ At(t, "activating")
     /\ CASE client.load # l -> client' = Refused(c, l, "ABORTED") /\ Returns(t)
          [] client.load = l /\ local[t] = "none" /\ ~client.host.spectating ->
               client' = Refused(c, l, "ERROR") /\ Returns(t)
          [] OTHER -> client' = c /\ Steps(t, "applying", "none")

\* Mutant: the load is not looked at again before its game is made current.
MakingActiveAnyway(t) ==
  /\ At(t, "applying")
  /\ client' = [client EXCEPT !.game = LoadOf(t)]
  /\ Steps(t, "validating", "none")

MakingActive(t) ==
  LET l == LoadOf(t)
  IN /\ At(t, "applying")
     /\ IF client.load = l
        THEN client' = [client EXCEPT !.game = l] /\ Steps(t, "validating", "none")
        ELSE /\ client' = [client EXCEPT !.state[l].progress = "ABORTED"]
             /\ Steps(t, "concluding", "none")

\* Achievements and leaderboards are activated if the load is still current.
Validating(t) ==
  LET l == LoadOf(t)
  IN /\ At(t, "validating")
     /\ client' = IF client.load = l
                  THEN [client EXCEPT !.load = NoLoad]
                  ELSE [client EXCEPT !.state[l].progress = "ABORTED",
                                      !.corrupt = client.games[l] = "freed"]
     /\ Steps(t, "concluding", "none")

Concluding(t) ==
  LET l == LoadOf(t)
  IN /\ At(t, "concluding")
     /\ client' = IF client.state[l].progress = "ABORTED"
                  THEN Refused(client, l, "ABORTED")
                  ELSE FreeLoadState([Called(client, l, "OK") EXCEPT
                                        !.state[l].owner = FALSE], l)
     /\ Returns(t)

Step(t) ==
  \/ Aborting(t) \/ Leaving(t) \/ Ending(t) \/ Failing(t) \/ Storing(t)
  \/ Starting(t) \/ Processing(t) \/ Holding(t)
  \/ Attaching(t) \/ Attached(t) \/ Identifying(t)
  \/ NextHash(t) \/ HostNamesGame(t) \/ UnknownGame(t)
  \/ Activating(t) \/ MakingActive(t) \/ Validating(t) \/ Concluding(t)

-----------------------------------------------------------------------------
(* The host.                                                                *)

HostIdle == pc[Host] = "out" /\ Runs(Host) /\ ~client.corrupt

\* rc_client_begin_load_game and rc_client_begin_identify_and_load_game, up to
\* rc_client_load_game: what was being loaded is aborted.
BeginLoad(l) ==
  /\ HostIdle /\ client.state[l].life = "unused"
  /\ \E n \in 0 .. client.host.hashes :
       client' = [(IF client.load = NoLoad THEN client
                   ELSE Called(Detached(client), client.load, "ABORTED"))
                    EXCEPT !.state[l] = NewLoadState(n)]
  /\ hostLoad' = l /\ newest' = l
  /\ Goes(Host, "attaching", "none")
  /\ UNCHANGED manual

\* rc_client_idle runs rc_client_dispatch_activate_game.
DispatchActivate(l) ==
  /\ HostIdle /\ l \in client.queued
  /\ client' = [client EXCEPT !.queued = @ \ {l}]
  /\ hostLoad' = l
  /\ Goes(Host, "activating", IF client.state[l].session THEN "ok" ELSE "none")
  /\ UNCHANGED <<newest, manual>>

Unload ==
  /\ HostIdle
  /\ client.game # NoLoad \/ client.load # NoLoad
  /\ client' = UnloadGame(client)
  /\ UNCHANGED <<threads, newest, manual>>

AbortLoad(l) ==
  /\ client.host.aborts /\ HostIdle /\ client.load = l /\ l \notin manual
  /\ client' = [client EXCEPT !.state[l].aborted = TRUE]
  /\ manual' = manual \cup {l}
  /\ UNCHANGED <<threads, newest>>

\* rc_client_begin_login
BeginLogin ==
  /\ client.host.logins /\ HostIdle
  /\ client.login = "none" /\ client.user # "LOGIN_REQUESTED"
  /\ client' = [client EXCEPT !.user = "LOGIN_REQUESTED", !.login = "inflight"]
  /\ UNCHANGED <<threads, newest, manual>>

LogOut ==
  /\ client.host.logins /\ HostIdle /\ client.user # "NONE"
  /\ client' = LogOutOf(client)
  /\ UNCHANGED <<threads, newest, manual>>

AbortLogin ==
  /\ HostIdle /\ client.login = "inflight"
  /\ client' = [client EXCEPT !.login = "aborted"]
  /\ UNCHANGED <<threads, newest, manual>>

\* rc_client_login_callback; a load that waited for the login goes on, or fails.
LoginAnswered ==
  /\ ~client.corrupt /\ client.login # "none" /\ (client.host.threaded \/ Running = {})
  /\ LET c == [client EXCEPT !.login = "none"]
         Resumed(n) == IF Awaiting(n) THEN BeginFetch(n, n.load) ELSE n
     IN \/ client.login = "aborted" /\ client' = LogOutOf(c)
        \/ client.login = "inflight" /\ client.user = "NONE" /\ client' = c
        \/ /\ client.login = "inflight" /\ client.user # "NONE"
           /\ \/ client' = Resumed([c EXCEPT !.user = "LOGGED_IN", !.credentials = TRUE])
              \/ client' = Resumed([c EXCEPT !.user = "NONE"])
  /\ UNCHANGED <<threads, newest, manual>>

HostNext ==
  \/ \E l \in Loads : BeginLoad(l) \/ DispatchActivate(l) \/ AbortLoad(l)
  \/ Unload \/ BeginLogin \/ LogOut \/ AbortLogin

Next ==
  \/ HostNext \/ LoginAnswered
  \/ \E t \in Requests : Answered(t)
  \/ \E t \in Threads : Step(t) \/ UseAfterFree(t)

Spec == Init /\ [][Next]_vars

\* The server answers, handlers run to their end, and the host keeps calling
\* rc_client_idle.
FairSpec ==
  /\ Spec
  /\ WF_vars(LoginAnswered)
  /\ \A t \in Requests : WF_vars(Answered(t))
  /\ \A t \in Threads : WF_vars(Step(t))
  /\ \A l \in Loads : WF_vars(DispatchActivate(l))

-----------------------------------------------------------------------------
TypeOK ==
  /\ client.load \in Loads \cup {NoLoad} /\ client.game \in Loads \cup {NoLoad}
  /\ client.user \in {"NONE", "LOGIN_REQUESTED", "LOGGED_IN"}
  /\ client.login \in {"none", "inflight", "aborted"}
  /\ client.inflight \subseteq Requests /\ client.queued \subseteq Loads
  /\ client.state \in [Loads -> LoadState]
  /\ client.games \in [Loads -> {"none", "live", "freed"}]
  /\ {client.credentials, client.corrupt} \subseteq BOOLEAN
  /\ client.host \in Hosts
  /\ hostLoad \in Loads \cup {NoLoad}

\* With handlers on the host thread, no handler, and no later call, uses a load
\* state or a game that was freed, and nothing is freed twice, in whatever order
\* answers, unloads and loads come.
LifetimesRespected ==
  /\ TypeOK
  /\ ~client.host.threaded =>
       /\ ~client.corrupt
       /\ client.load # NoLoad => client.state[client.load].life = "live"
       /\ client.game # NoLoad => client.games[client.game] = "live"

\* outstanding_requests counts what may still use the load state: requests in
\* flight, handlers that have not given up their count, and the hold kept while
\* sets are processed.  It is what decides when a load state can be freed.
RequestsCounted ==
  \A l \in Loads :
    LET requests == {t \in client.inflight : t[1] = l}
        holding  == {t \in Threads : /\ pc[t] \in {"aborting", "leaving", "ended",
                                                   "processing", "holding"}
                                     /\ LoadOf(t) = l}
    IN client.state[l].life = "live" =>
         client.state[l].outstanding = Cardinality(requests) + Cardinality(holding)

\* The host hears about a load once at most, except of one that is replaced while
\* its activation is queued, or while the thread of a handler is between two
\* critical sections: twice then, when it is replaced and when that is noticed.
CallbackOnce ==
  \A l \in Loads :
    client.state[l].calls <=
      IF client.host.background /\ ~client.host.threaded THEN 1 ELSE 2

\* An answer that comes late never puts an older game in the place of a newer one,
\* and with handlers on the host thread success is only reported for the game that
\* is now played, of the load that was begun last.
LatestWins ==
  [][/\ client'.game # client.game /\ client'.game # NoLoad => client'.game = newest
     /\ \A l \in Loads :
          (/\ client'.state[l].result = "OK" /\ client.state[l].result # "OK"
           /\ ~client.host.threaded) =>
            client'.game = l /\ client'.load # l /\ newest' = l]_vars

\* A game only lacks its unlocks when they could not be allocated ("unlocks not
\* available - assume malloc failed"), which is left out here; with handlers on the host
\* thread.
UnlocksDelivered ==
  \A t \in Threads :
    pc[t] = "activating" /\ ~client.host.spectating /\ ~client.host.threaded => local[t] = "ok"

\* The host hears about every load, unless it unloaded it, logged out or aborted
\* it, and every load state is freed in the end, except one that was waiting for the
\* login when it was unloaded or replaced: nothing refers to that one any more. With
\* handlers on the host thread.
LoadsConclude ==
  \A l \in Loads :
    client.state[l].life = "live" /\ ~client.host.threaded ~>
      /\ client.state[l].calls > 0 \/ client.state[l].aborted
      /\ \/ client.state[l].life = "freed"
         \/ client.state[l].aborted /\ client.state[l].progress = "AWAIT_LOGIN"
=============================================================================
