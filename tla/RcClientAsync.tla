--------------------------- MODULE RcClientAsync ---------------------------
(***************************************************************************)
(* The asynchronous calls of rc_client: logging in, changing the media of  *)
(* the game, and fetching lists (leaderboard entries, progress of a user,  *)
(* the hash library).  Each has a handle the host may abort, recorded in   *)
(* the few slots of the client, and a callback.  Meanwhile games are       *)
(* loaded and unloaded, the user logs out, and the client is destroyed.    *)
(*                                                                         *)
(* Loading itself is RcClientLoad; here it has the three moments a change  *)
(* of media depends on: begun, data of the game known, game active.        *)
(***************************************************************************)
EXTENDS Naturals, FiniteSets, Functions, FiniteSetsExt

CONSTANTS
  Requests,  \* calls of the host, each with a callback of its own
  NoRequest, \* a NULL pointer
  SlotCount, \* elements of async_handles
  Files,     \* a function: the hash of each file the host may insert
  Loaded,    \* the hash games are loaded by
  NoHash,    \* "[NO HASH]", of a file that cannot be hashed
  LoadBound, \* games the host loads
  Impatient  \* the host changes media also between the data of a game and its
             \* activation to a hash it knows, or one that cannot be looked up; and
             \* it lets entries of a leaderboard be fetched while it logs out

Hashes == Range(Files) \cup {Loaded, NoHash}
Slots  == 1 .. SlotCount

ASSUME AsyncAssumption ==
  /\ NoRequest \notin Requests /\ IsFiniteSet(Requests)
  /\ SlotCount \in Nat \ {0} /\ LoadBound \in Nat /\ Impatient \in BOOLEAN

VARIABLES
  requests,  \* of each call: see Unused
  handles,   \* client->state.async_handles
  beginning, \* the call whose rc_client_begin_... has not returned
  user,      \* client->state.user
  named,     \* client->user.display_name is not NULL
  game,      \* client->game, 0 for NULL; games are numbered as they are loaded
  load,      \* client->state.load: [game, known, pending], game 0 for NULL
  media,     \* client->game->public_.hash
  hashes,    \* client->hashes: the game a hash names
  hardcore, destroyed,
  overruled, \* history: hardcore was enabled with this media in place
  corrupt    \* history: freed memory or a NULL pointer was used

calls  == <<requests, handles, beginning>>
player == <<user, named>>
games  == <<game, load, media>>
rules  == <<hardcore, overruled>>
vars == <<calls, player, games, hashes, rules, destroyed, corrupt>>

Unused ==
  [stage |-> "unused",  \* then "pending", "inflight", and "done" or "lost"
   kind |-> "none",     \* "login", "progress", "library", "entries", "media"
   aborted |-> "no",    \* async_handle.aborted: "ABORTED", "DESTROYED"
   given |-> FALSE,     \* the host was given the handle
   game |-> 0, hash |-> NoHash,  \* of a change of media: of what game, to what
   calls |-> 0,         \* of the callback
   late |-> FALSE]      \* history: it was called though the call was aborted

NoLoad == [game |-> 0, known |-> FALSE, pending |-> NoRequest]

Init ==
  /\ requests = [r \in Requests |-> Unused]
  /\ handles = [s \in Slots |-> NoRequest] /\ beginning = NoRequest
  /\ user = "NONE" /\ named = FALSE
  /\ game = 0 /\ load = NoLoad /\ media = NoHash
  /\ hashes = [h \in Hashes |-> "unknown"]
  /\ hardcore = TRUE /\ overruled = FALSE /\ destroyed = FALSE /\ corrupt = FALSE

-----------------------------------------------------------------------------
(* The slots of handles *)

\* rc_client_begin_async: when every slot is taken the handle is not recorded.
Recorded(slots, r) ==
  IF \E s \in Slots : slots[s] = NoRequest
  THEN [slots EXCEPT ![Min({s \in Slots : slots[s] = NoRequest})] = r]
  ELSE slots

\* Mutant: only a call that was not aborted gives its slot back.
ReleasedUnlessAborted(slots, r) ==
  [s \in Slots |-> IF slots[s] = r /\ requests[r].aborted = "no" THEN NoRequest ELSE slots[s]]

\* rc_client_end_async
Released(slots, r) == [s \in Slots |-> IF slots[s] = r THEN NoRequest ELSE slots[s]]

\* rc_client_async_handle_valid
HandleValid(r) == r \in Range(handles)

InFlight == {r \in Requests : requests[r].stage = "inflight"}

\* The callback of r is called, for the last time.
CalledBack(calling, r) ==
  [calling EXCEPT ![r].stage = "done", ![r].calls = @ + 1,
                  ![r].late = calling[r].aborted # "no"]

\* r ends without a call of its callback.
Dropped(calling, r) ==
  IF r = NoRequest THEN calling ELSE [calling EXCEPT ![r].stage = "lost"]

\* server_call is about to be called for r, of a kind.
Issued(calling, r) == [calling EXCEPT ![r].stage = "inflight"]

-----------------------------------------------------------------------------
(* The host, between its calls *)

Ready == ~destroyed /\ beginning = NoRequest

Free(r) == Ready /\ requests[r] = Unused

\* The host keeps no more calls under way than the client has slots; slots that
\* loads take are not counted, here and in SlotCount.
MayIssue == Cardinality({r \in Requests : requests[r].stage \in {"inflight", "pending"}}) < SlotCount

\* The function that began the call returns: the host is given the handle if the
\* call seems to be under way still.
Return ==
  LET r == beginning
      given == IF requests[r].kind = "login" THEN user = "LOGIN_REQUESTED" ELSE HandleValid(r)
  IN /\ r # NoRequest
     /\ requests' = [requests EXCEPT ![r].given = given]
     /\ corrupt' = (corrupt \/ (given /\ requests[r].stage # "inflight"))
     /\ beginning' = NoRequest
     /\ UNCHANGED <<handles, player, games, hashes, rules, destroyed>>

Begin(r, kind) ==
  /\ MayIssue
  /\ requests' = Issued([requests EXCEPT ![r].kind = kind], r)
  /\ handles' = Recorded(handles, r)
  /\ beginning' = r

\* A call is refused at once: only its callback is called.
Refuse(r, kind) ==
  /\ requests' = CalledBack([requests EXCEPT ![r].kind = kind], r)
  /\ UNCHANGED <<handles, beginning>>

\* rc_client_begin_login; a second one is refused while the first is under way.
BeginLogin(r) ==
  /\ Free(r)
  /\ IF user = "LOGIN_REQUESTED" THEN Refuse(r, "login") ELSE Begin(r, "login")
  /\ user' = "LOGIN_REQUESTED"
  /\ UNCHANGED <<named, games, hashes, rules, destroyed, corrupt>>

BeginFetchAllUserProgress(r) ==
  /\ Free(r)
  /\ IF user = "LOGGED_IN" THEN Begin(r, "progress") ELSE Refuse(r, "progress")
  /\ UNCHANGED <<player, games, hashes, rules, destroyed, corrupt>>

BeginFetchHashLibrary(r) ==
  /\ Free(r) /\ Begin(r, "library")
  /\ UNCHANGED <<player, games, hashes, rules, destroyed, corrupt>>

\* Around the user, the entries need a name.
BeginFetchLeaderboardEntries(r) ==
  /\ Free(r)
  /\ IF named THEN Begin(r, "entries") ELSE Refuse(r, "entries")
  /\ UNCHANGED <<player, games, hashes, rules, destroyed, corrupt>>

\* rc_client_abort_async
AbortAsync(r) ==
  /\ Ready /\ requests[r].given /\ requests[r].stage = "inflight"
  /\ requests[r].aborted = "no"
  /\ requests' = [requests EXCEPT ![r].aborted = "ABORTED"]
  /\ UNCHANGED <<handles, beginning, player, games, hashes, rules, destroyed, corrupt>>

\* rc_client_set_hardcore_enabled
SetHardcoreEnabled ==
  /\ Ready
  /\ hardcore' = ~hardcore /\ overruled' = ~hardcore
  /\ UNCHANGED <<calls, player, games, hashes, destroyed, corrupt>>

-----------------------------------------------------------------------------
(* Games *)

\* rc_client_unload_game: a load in progress is aborted; a change of media that
\* waited for it is freed with it.
Unloaded ==
  /\ game' = 0 /\ load' = NoLoad /\ media' = NoHash
  /\ requests' = Dropped(requests, load.pending)

UnloadGame ==
  /\ Ready /\ (game # 0 \/ load # NoLoad)
  /\ Unloaded
  /\ UNCHANGED <<handles, beginning, player, hashes, rules, destroyed, corrupt>>

\* Entries of a leaderboard are under way, and their callback will be called.
AwaitsEntries ==
  \E r \in InFlight : requests[r].kind = "entries" /\ requests[r].aborted = "no"

Logout ==
  /\ Ready /\ user # "NONE" /\ (AwaitsEntries => Impatient)
  /\ user' = "NONE" /\ named' = FALSE
  /\ Unloaded
  /\ UNCHANGED <<handles, beginning, hashes, rules, destroyed, corrupt>>

\* rc_client_begin_load_game, over whatever is loaded or being loaded; the data of
\* the game is not known yet.
BeginLoadGame ==
  /\ Ready /\ user = "LOGGED_IN"
  /\ \E n \in 1 .. LoadBound :
       /\ n = 1 + Max({game, load.game} \cup {requests[r].game : r \in Requests})
       /\ load' = [game |-> n, known |-> FALSE, pending |-> NoRequest]
  /\ game' = 0 /\ media' = NoHash
  /\ requests' = Dropped(requests, load.pending)
  /\ UNCHANGED <<handles, beginning, player, hashes, rules, destroyed, corrupt>>

\* The answer with the data of the game; the hash it was loaded by is its own.
LoadAnswered ==
  /\ load.game # 0 /\ ~load.known
  /\ load' = [load EXCEPT !.known = TRUE]
  /\ hashes' = [hashes EXCEPT ![Loaded] = "game"]
  /\ UNCHANGED <<calls, player, game, media, rules, destroyed, corrupt>>

\* rc_client_load_error
LoadFails ==
  /\ load.game # 0
  /\ load' = NoLoad
  /\ requests' = Dropped(requests, load.pending)
  /\ UNCHANGED <<handles, beginning, player, game, media, hashes, rules, destroyed, corrupt>>

-----------------------------------------------------------------------------
(* Changing the media *)

\* rc_client_change_media_internal: unidentified media ends hardcore.
ChangeMediaInternal(calling, r, hash, id, current) ==
  /\ media' = hash
  /\ hardcore' = (hardcore /\ id # "none") /\ overruled' = FALSE
  /\ requests' = CalledBack(calling, r)
  /\ corrupt' = (corrupt \/ current = 0)

\* "[NO HASH]", and hashes looked up before, need no request.
AtOnce(hash) == hash = NoHash \/ hashes[hash] # "unknown"

\* rc_client_begin_change_media_internal, of the game that is loaded or being
\* loaded, while client->game is current.
BeginChangeMediaInternal(r, hash, of, current, returning) ==
  LET asked == [requests EXCEPT ![r].kind = "media", ![r].game = of, ![r].hash = hash]
  IN \/ /\ AtOnce(hash)
        /\ ChangeMediaInternal(asked, r, hash, hashes[hash], current)
        /\ UNCHANGED <<handles, beginning>>
     \/ /\ ~AtOnce(hash)
        /\ requests' = Issued(asked, r)
        /\ handles' = Recorded(handles, r)
        /\ beginning' = IF returning THEN r ELSE beginning
        /\ UNCHANGED <<rules, corrupt>>
        /\ media' = IF game = current THEN media ELSE Loaded

\* rc_client_check_pending_media, as long as the data of the game is not known:
\* the change waits for it, and one that waited is forgotten.
Waits(r, hash) ==
  /\ load.game # 0 /\ ~load.known
  /\ load' = [load EXCEPT !.pending = r]
  /\ requests' = [Dropped(requests, load.pending) EXCEPT
       ![r].stage = "pending", ![r].kind = "media", ![r].hash = hash]
  /\ UNCHANGED <<handles, beginning, media, rules, corrupt>>

\* rc_client_begin_change_media
BeginChangeMedia(r, hash) ==
  /\ Free(r) /\ MayIssue
  /\ \/ Waits(r, hash)
     \/ /\ load.known /\ (AtOnce(hash) => Impatient)
        /\ BeginChangeMediaInternal(r, hash, load.game, game, TRUE)
        /\ UNCHANGED load
     \/ /\ load.game = 0 /\ game # 0
        /\ BeginChangeMediaInternal(r, hash, game, game, TRUE)
        /\ UNCHANGED load
     \/ /\ load.game = 0 /\ game = 0
        /\ Refuse(r, "media")
        /\ UNCHANGED <<load, media, rules, corrupt>>
  /\ UNCHANGED <<player, game, hashes, destroyed>>

\* rc_client_begin_identify_and_change_media: a path is hashed once for a game, and
\* gives the same hash from then on.
BeginIdentifyAndChangeMedia(r, file) == BeginChangeMedia(r, Files[file])

\* rc_client_activate_game: the game is active, and the change of media that waited
\* for its data begins; nobody is given its handle.
ActivateGame ==
  /\ load.known
  /\ game' = load.game /\ load' = NoLoad
  /\ IF load.pending = NoRequest
     THEN media' = Loaded /\ UNCHANGED <<calls, rules, corrupt>>
     ELSE BeginChangeMediaInternal(load.pending, requests[load.pending].hash,
                                   load.game, load.game, FALSE)
  /\ UNCHANGED <<player, hashes, destroyed>>

-----------------------------------------------------------------------------
(* Answers of the server, which may come while the call is begun *)

\* Its slot is given back before anything else.
Answerable(r, kind) ==
  /\ requests[r].stage = "inflight" /\ ~destroyed /\ requests[r].kind = kind
  /\ handles' = Released(handles, r)

\* rc_client_login_callback. An aborted login logs out whoever is logged in; one
\* answered after a logout is over.
LoginAnswered(r) ==
  /\ Answerable(r, "login")
  /\ \/ /\ requests[r].aborted = "ABORTED" /\ (AwaitsEntries => Impatient)
        /\ user' = "NONE" /\ named' = FALSE
        /\ game' = 0 /\ load' = NoLoad /\ media' = NoHash
        /\ requests' = Dropped(Dropped(requests, load.pending), r)
     \/ /\ requests[r].aborted = "no"
        /\ \/ user = "NONE" /\ UNCHANGED player
           \/ user # "NONE" /\ user' = "NONE" /\ UNCHANGED named
           \/ user # "NONE" /\ user' = "LOGGED_IN" /\ named' = TRUE
        /\ requests' = CalledBack(requests, r)
        /\ UNCHANGED games
  /\ UNCHANGED <<beginning, hashes, rules, destroyed, corrupt>>

\* A list is fetched: an abort drops it, an error is passed on, and what is made of
\* the list happens only otherwise.
FetchAnswered(r, kind, broken) ==
  /\ Answerable(r, kind)
  /\ \/ /\ requests[r].aborted = "ABORTED"
        /\ requests' = Dropped(requests, r)
        /\ UNCHANGED corrupt
     \/ /\ requests[r].aborted = "no"
        /\ requests' = CalledBack(requests, r)
        /\ corrupt' \in {corrupt, corrupt \/ broken}
  /\ UNCHANGED <<beginning, player, games, hashes, rules, destroyed>>

\* rc_client_fetch_all_user_progress_callback
ProgressAnswered(r) == FetchAnswered(r, "progress", FALSE)

\* rc_client_fetch_hash_library_callback
LibraryAnswered(r) == FetchAnswered(r, "library", FALSE)

\* rc_client_fetch_leaderboard_entries_callback: the entries are compared with the
\* name of the user.
EntriesAnswered(r) == FetchAnswered(r, "entries", ~named)

\* Mutant: the change is made to whatever game is active.
AnyGameIs(r) == game # 0

\* The game the change was asked of is active.
StillActive(r) == game = requests[r].game

\* Games the server may say a hash is of: it does not change its mind.
Identities(hash) ==
  IF hashes[hash] = "unknown" THEN {"game", "other", "none"} ELSE {hashes[hash]}

\* rc_client_identify_changed_media_callback
MediaAnswered(r) ==
  LET hash == requests[r].hash
      answered(id) == hashes' = [hashes EXCEPT ![hash] = id]
  IN /\ Answerable(r, "media")
     /\ \/ /\ requests[r].aborted = "ABORTED"
           /\ requests' = Dropped(requests, r)
           /\ UNCHANGED hashes \/ \E id \in Identities(hash) : answered(id)
           /\ UNCHANGED <<media, rules, corrupt>>
        \/ /\ requests[r].aborted = "no" \* the game has changed, or an error
           /\ requests' = CalledBack(requests, r)
           /\ UNCHANGED <<media, hashes, rules, corrupt>>
        \/ /\ requests[r].aborted = "no" /\ StillActive(r)
           /\ \E id \in Identities(hash) :
                answered(id) /\ ChangeMediaInternal(requests, r, hash, id, game)
     /\ UNCHANGED <<beginning, player, game, load, destroyed>>

\* rc_client_destroy: calls that have a slot learn of it.
Destroy ==
  /\ Ready
  /\ destroyed' = TRUE
  /\ game' = 0 /\ load' = NoLoad /\ media' = NoHash
  /\ requests' = [r \in Requests |->
       IF HandleValid(r) THEN [requests[r] EXCEPT !.aborted = "DESTROYED"]
       ELSE Dropped(requests, load.pending)[r]]
  /\ UNCHANGED <<handles, beginning, player, hashes, rules, corrupt>>

\* rc_client_end_async of a call that is answered too late to find the client.
AnsweredAfterDestroy(r) ==
  /\ destroyed /\ requests[r].stage = "inflight"
  /\ requests' = Dropped(requests, r)
  /\ corrupt' = (corrupt \/ requests[r].aborted # "DESTROYED")
  /\ UNCHANGED <<handles, beginning, player, games, hashes, rules, destroyed>>

HostCalls ==
  \E r \in Requests :
    \/ BeginLogin(r) \/ BeginFetchAllUserProgress(r) \/ BeginFetchHashLibrary(r)
    \/ BeginFetchLeaderboardEntries(r) \/ AbortAsync(r)
    \/ \E hash \in Hashes \ {NoHash} : BeginChangeMedia(r, hash)
    \/ \E file \in DOMAIN Files : BeginIdentifyAndChangeMedia(r, file)

Answers ==
  \E r \in Requests :
    \/ LoginAnswered(r) \/ MediaAnswered(r) \/ AnsweredAfterDestroy(r)
    \/ ProgressAnswered(r) \/ LibraryAnswered(r) \/ EntriesAnswered(r)

Next ==
  \/ HostCalls \/ Return \/ SetHardcoreEnabled \/ UnloadGame \/ Logout \/ Destroy
  \/ BeginLoadGame \/ LoadAnswered \/ LoadFails \/ ActivateGame \/ Answers

Spec == Init /\ [][Next]_vars

-----------------------------------------------------------------------------
(* Properties *)

TypeOK ==
  /\ \A r \in Requests :
       /\ requests[r].stage \in {"unused", "pending", "inflight", "done", "lost"}
       /\ requests[r].aborted \in {"no", "ABORTED", "DESTROYED"}
       /\ requests[r].hash \in Hashes
  /\ handles \in [Slots -> Requests \cup {NoRequest}]
  /\ user \in {"NONE", "LOGIN_REQUESTED", "LOGGED_IN"}
  /\ game \in 0 .. LoadBound /\ load.game \in 0 .. LoadBound

\* The callback of a call is called once when it is answered, and never of one
\* that was aborted; what ends without it was aborted, or is a change of media
\* that waited for a game (the host is not told of those).
CalledOnceUnlessAborted ==
  \A r \in Requests :
    /\ requests[r].calls = IF requests[r].stage = "done" THEN 1 ELSE 0
    /\ ~requests[r].late
    /\ requests[r].stage = "lost" =>
         requests[r].aborted # "no" \/ (requests[r].kind = "media" /\ requests[r].game = 0)

\* The slots hold the calls under way, each once: so an abort, and the destruction of the
\* client, reach every call the host was given the handle of.
SlotsHoldCallsUnderWay ==
  ~destroyed =>
    /\ \A s \in Slots : handles[s] \in InFlight \cup {NoRequest}
    /\ \A r \in InFlight : Cardinality({s \in Slots : handles[s] = r}) = 1

\* No answer, in whatever order with logouts, other loads, aborts and the
\* destruction of the client, uses memory that is gone.
CallbacksAccounted ==
  TypeOK /\ CalledOnceUnlessAborted /\ SlotsHoldCallsUnderWay /\ ~corrupt

\* The media of a game is what it was loaded by or what the host asked for and did
\* not take back, of that game and no earlier one; and hardcore does not go on with
\* media that is known to be unidentified, unless it was enabled after that.
MediaFollowsHost ==
  game # 0 =>
    /\ \/ media = Loaded
       \/ \E r \in Requests :
            /\ requests[r].kind = "media" /\ requests[r].game = game
            /\ requests[r].hash = media /\ requests[r].stage = "done"
            /\ requests[r].aborted = "no"
    /\ hardcore /\ ~overruled => hashes[media] # "none"

=============================================================================
