-------------------------- MODULE RcClientLoadProofs --------------------------
(***************************************************************************)
(* For every set of loads and hosts, with threads or without: while a load *)
(* state is alive, outstanding_requests counts what may still use it       *)
(* (RequestsCounted).  With handlers on the thread of the host, in whatever *)
(* order answers, unloads and loads come: nothing that was freed is used   *)
(* (LifetimesRespected), an activated game has its unlocks                 *)
(* (UnlocksDelivered), a load is called back once, or twice if it is       *)
(* replaced while its activation is queued (CallbackOnce), and the load    *)
(* begun last wins (LatestWins).                                           *)
(***************************************************************************)
EXTENDS RcClientLoad, FiniteSetTheorems, TLAPS

Lives == {"none", "live", "freed"}

Shared ==
  [host : Hosts, load : Loads \cup {NoLoad}, game : Loads \cup {NoLoad},
   login : {"none", "inflight", "aborted"},
   user : {"NONE", "LOGIN_REQUESTED", "LOGGED_IN"}, credentials : BOOLEAN,
   inflight : SUBSET Requests, queued : SUBSET Loads,
   state : [Loads -> LoadState], games : [Loads -> Lives], corrupt : BOOLEAN]

\* What the operators on the shared memory leave alone.
Kept(c, d) ==
  /\ d.host = c.host /\ d.login = c.login /\ d.user = c.user
  /\ (d.credentials <=> c.credentials)
  /\ d.inflight = c.inflight /\ d.queued = c.queued

OthersKept(l, c, d) ==
  \A q \in Loads \ {l} : d.state[q] = c.state[q] /\ d.games[q] = c.games[q]

StatesKept(l, c, d) == \A q \in Loads \ {l} : d.state[q] = c.state[q]

\* What they leave alone of a load state.
Settings(s, t) ==
  /\ (t.aborted <=> s.aborted) /\ (t.session <=> s.session)
  /\ t.hashes = s.hashes /\ t.mapping = s.mapping

MoreCalls(s, t) == t.calls = IF s.callback /\ s.calls < 3 THEN s.calls + 1 ELSE s.calls

\* A load state takes the place of another.
LEMMA PutFacts ==
  ASSUME NEW c \in Shared, NEW l \in Loads, NEW s \in LoadState
  PROVE  LET d == [c EXCEPT !.state = [c.state EXCEPT ![l] = s]]
         IN /\ d \in Shared /\ Kept(c, d) /\ OthersKept(l, c, d)
            /\ d.load = c.load /\ d.game = c.game /\ (d.corrupt <=> c.corrupt)
            /\ d.games = c.games /\ d.state[l] = s
<1> DEFINE states == [c.state EXCEPT ![l] = s]
           d == [c EXCEPT !.state = states]
<1>1. c.state \in [Loads -> LoadState]
  BY DEF Shared
<1>2. /\ states \in [Loads -> LoadState] /\ states[l] = s
      /\ \A q \in Loads \ {l} : states[q] = c.state[q]
  BY <1>1
<1> HIDE DEF states
<1>3. d \in Shared /\ d.state = states
  BY <1>2 DEF Shared
<1>4. /\ Kept(c, d) /\ d.load = c.load /\ d.game = c.game /\ (d.corrupt <=> c.corrupt)
      /\ d.games = c.games
  BY DEF Shared, Kept
<1>5. OthersKept(l, c, d) /\ d.state[l] = s
  BY <1>2, <1>3, <1>4 DEF OthersKept
<1> HIDE DEF d
<1>6. [c EXCEPT !.state = [c.state EXCEPT ![l] = s]] = d
  BY DEF d, states
<1> QED BY <1>3, <1>4, <1>5, <1>6

IsCalled(l, c, d) ==
  /\ d \in Shared /\ Kept(c, d) /\ OthersKept(l, c, d)
  /\ d.load = c.load /\ d.game = c.game /\ (d.corrupt <=> c.corrupt) /\ d.games = c.games
  /\ Settings(c.state[l], d.state[l]) /\ MoreCalls(c.state[l], d.state[l])
  /\ d.state[l].life = c.state[l].life /\ d.state[l].progress = c.state[l].progress
  /\ d.state[l].outstanding = c.state[l].outstanding
  /\ (d.state[l].callback <=> c.state[l].callback)
  /\ (d.state[l].owner <=> c.state[l].owner)

\* The callback is called if there is one.
LEMMA CalledFacts ==
  ASSUME NEW c \in Shared, NEW l \in Loads, NEW result \in {"OK", "ABORTED", "ERROR"}
  PROVE  IsCalled(l, c, Called(c, l, result))
<1>1. c.state[l] \in LoadState
  BY DEF Shared
<1>2. CASE c.state[l].callback
  <2> DEFINE more == IF c.state[l].calls < 3 THEN c.state[l].calls + 1 ELSE c.state[l].calls
             s == [c.state[l] EXCEPT !.calls = more, !.result = result]
             d == [c EXCEPT !.state = [c.state EXCEPT ![l] = s]]
  <2>1. more \in 0 .. 3
    BY <1>1 DEF LoadState
  <2>2. Called(c, l, result) = d
    <3>1. c.state \in [Loads -> LoadState]
      BY DEF Shared
    <3> QED BY <1>2, <3>1 DEF Called, Shared
  <2>3. more = IF c.state[l].callback /\ c.state[l].calls < 3 THEN c.state[l].calls + 1
               ELSE c.state[l].calls
    BY <1>2
  <2> HIDE DEF more
  <2>4. s \in LoadState
    BY <1>1, <2>1 DEF LoadState
  <2>5. /\ Settings(c.state[l], s) /\ MoreCalls(c.state[l], s)
        /\ s.life = c.state[l].life /\ s.progress = c.state[l].progress
        /\ s.outstanding = c.state[l].outstanding
        /\ (s.callback <=> c.state[l].callback) /\ (s.owner <=> c.state[l].owner)
    BY <1>1, <2>3 DEF LoadState, Settings, MoreCalls
  <2> HIDE DEF s
  <2>6. /\ d \in Shared /\ Kept(c, d) /\ OthersKept(l, c, d)
        /\ d.load = c.load /\ d.game = c.game /\ (d.corrupt <=> c.corrupt)
        /\ d.games = c.games /\ d.state[l] = s
    BY <2>4, PutFacts
  <2> HIDE DEF d
  <2> QED BY <2>2, <2>5, <2>6 DEF IsCalled
<1>3. CASE ~c.state[l].callback
  <2>1. Called(c, l, result) = c
    BY <1>3 DEF Called
  <2> QED BY <1>1, <1>3, <2>1 DEF IsCalled, Kept, OthersKept, Settings, MoreCalls, LoadState
<1> QED BY <1>2, <1>3

\* What is left of a load state that is freed, by itself or with its game.
IsFreed(l, c, d) ==
  /\ d \in Shared /\ Kept(c, d) /\ OthersKept(l, c, d)
  /\ d.load = c.load /\ d.game = c.game
  /\ d.corrupt <=> c.corrupt \/ (c.state[l].owner /\ c.games[l] = "freed")
  /\ d.games[l] = IF c.state[l].owner THEN "freed" ELSE c.games[l]
  /\ d.state[l] = [c.state[l] EXCEPT !.life = "freed"]

\* rc_client_free_game
LEMMA FreeGameFacts ==
  ASSUME NEW c \in Shared, NEW l \in Loads
  PROVE  LET d == FreeGame(c, l)
         IN /\ d \in Shared /\ Kept(c, d) /\ OthersKept(l, c, d)
            /\ d.load = c.load /\ d.game = c.game /\ d.state = c.state
            /\ d.corrupt <=> c.corrupt \/ c.games[l] = "freed"
            /\ d.games[l] = "freed"
<1> DEFINE broken == c.corrupt \/ c.games[l] = "freed"
           games == [c.games EXCEPT ![l] = "freed"]
           d == [c EXCEPT !.games = games, !.corrupt = broken]
<1>1. c.games \in [Loads -> Lives]
  BY DEF Shared
<1>2. /\ games \in [Loads -> Lives] /\ games[l] = "freed"
      /\ \A q \in Loads \ {l} : games[q] = c.games[q]
  BY <1>1 DEF Lives
<1>3. broken \in BOOLEAN
  OBVIOUS
<1>4. FreeGame(c, l) = d
  BY DEF FreeGame
<1>5. broken <=> c.corrupt \/ c.games[l] = "freed"
  OBVIOUS
<1> HIDE DEF games, broken
<1>6. d \in Shared /\ d.games = games /\ (d.corrupt <=> broken) /\ d.state = c.state
  BY <1>2, <1>3 DEF Shared
<1>7. Kept(c, d) /\ d.load = c.load /\ d.game = c.game
  BY DEF Shared, Kept
<1>8. OthersKept(l, c, d) /\ d.games[l] = "freed"
  BY <1>2, <1>6 DEF OthersKept
<1> HIDE DEF d
<1> QED BY <1>4, <1>5, <1>6, <1>7, <1>8

\* rc_client_free_load_state
LEMMA FreeFacts ==
  ASSUME NEW c \in Shared, NEW l \in Loads
  PROVE  IsFreed(l, c, FreeLoadState(c, l))
<1> DEFINE n == IF c.state[l].owner THEN FreeGame(c, l) ELSE c
           s == [n.state[l] EXCEPT !.life = "freed"]
           d == [n EXCEPT !.state = [n.state EXCEPT ![l] = s]]
<1>1. /\ n \in Shared /\ Kept(c, n) /\ OthersKept(l, c, n)
      /\ n.load = c.load /\ n.game = c.game /\ n.state = c.state
      /\ n.corrupt <=> c.corrupt \/ (c.state[l].owner /\ c.games[l] = "freed")
      /\ n.games[l] = IF c.state[l].owner THEN "freed" ELSE c.games[l]
  <2>1. CASE c.state[l].owner
    BY <2>1, FreeGameFacts
  <2>2. CASE ~c.state[l].owner
    BY <2>2 DEF Kept, OthersKept
  <2> QED BY <2>1, <2>2
<1>2. FreeLoadState(c, l) = d
  BY DEF FreeLoadState
<1> HIDE DEF n
<1>3. s \in LoadState /\ s = [c.state[l] EXCEPT !.life = "freed"]
  <2>1. n.state[l] \in LoadState
    BY <1>1 DEF Shared
  <2> QED BY <2>1, <1>1 DEF LoadState
<1> HIDE DEF s
<1>4. /\ d \in Shared /\ Kept(n, d) /\ OthersKept(l, n, d)
      /\ d.load = n.load /\ d.game = n.game /\ (d.corrupt <=> n.corrupt)
      /\ d.games = n.games /\ d.state[l] = s
  BY <1>1, <1>3, PutFacts
<1> HIDE DEF d
<1> QED BY <1>1, <1>2, <1>3, <1>4 DEF IsFreed, Kept, OthersKept

\* A load whose state is s before and t after an error.
Erred(s, t) ==
  /\ Settings(s, t) /\ MoreCalls(s, t)
  /\ t.life = IF s.outstanding = 0 THEN "freed" ELSE s.life
  /\ t.progress = "ABORTED" /\ t.outstanding = s.outstanding
  /\ (t.callback <=> s.callback) /\ (t.owner <=> s.owner)

IsError(l, c, d) ==
  /\ d \in Shared /\ Kept(c, d) /\ OthersKept(l, c, d)
  /\ d.load = (IF c.load = l THEN NoLoad ELSE c.load) /\ d.game = c.game
  /\ Erred(c.state[l], d.state[l])
  /\ c.state[l].outstanding = 0 =>
       /\ d.corrupt <=> c.corrupt \/ (c.state[l].owner /\ c.games[l] = "freed")
       /\ d.games[l] = IF c.state[l].owner THEN "freed" ELSE c.games[l]
  /\ c.state[l].outstanding # 0 =>
       (d.corrupt <=> c.corrupt) /\ d.games = c.games

\* rc_client_load_error frees the load state only when no request is outstanding.
LEMMA ErrorFacts ==
  ASSUME NEW c \in Shared, NEW l \in Loads, NEW result \in {"ABORTED", "ERROR"}
  PROVE  IsError(l, c, LoadError(c, l, result))
<1> DEFINE s == [c.state[l] EXCEPT !.progress = "ABORTED"]
           b == [c EXCEPT !.state = [c.state EXCEPT ![l] = s]]
           a == [b EXCEPT !.load = IF @ = l THEN NoLoad ELSE @]
           n == Called(a, l, result)
<1>0. c.state[l] \in LoadState /\ c.state \in [Loads -> LoadState]
  BY DEF Shared
<1>1. /\ s \in LoadState /\ Settings(c.state[l], s) /\ s.calls = c.state[l].calls
      /\ s.life = c.state[l].life /\ s.progress = "ABORTED"
      /\ s.outstanding = c.state[l].outstanding
      /\ (s.callback <=> c.state[l].callback) /\ (s.owner <=> c.state[l].owner)
  BY <1>0 DEF LoadState, Settings
<1>2. LoadError(c, l, result) = IF c.state[l].outstanding = 0 THEN FreeLoadState(n, l) ELSE n
  BY DEF LoadError
<1> HIDE DEF s
<1>3. /\ b \in Shared /\ Kept(c, b) /\ OthersKept(l, c, b)
      /\ b.load = c.load /\ b.game = c.game /\ (b.corrupt <=> c.corrupt)
      /\ b.games = c.games /\ b.state[l] = s
  BY <1>1, PutFacts
<1> HIDE DEF b
<1>4. /\ a \in Shared /\ Kept(b, a) /\ OthersKept(l, b, a)
      /\ a.load = (IF b.load = l THEN NoLoad ELSE b.load) /\ a.game = b.game
      /\ (a.corrupt <=> b.corrupt) /\ a.games = b.games /\ a.state = b.state
  BY <1>3 DEF Shared, Kept, OthersKept
<1> HIDE DEF a
<1>5. IsCalled(l, a, n)
  BY <1>4, CalledFacts
<1> HIDE DEF n
<1>6. /\ n \in Shared /\ Kept(c, n) /\ OthersKept(l, c, n)
      /\ n.load = (IF c.load = l THEN NoLoad ELSE c.load) /\ n.game = c.game
      /\ (n.corrupt <=> c.corrupt) /\ n.games = c.games
      /\ Settings(c.state[l], n.state[l]) /\ MoreCalls(c.state[l], n.state[l])
      /\ n.state[l].life = c.state[l].life /\ n.state[l].progress = "ABORTED"
      /\ n.state[l].outstanding = c.state[l].outstanding
      /\ (n.state[l].callback <=> c.state[l].callback)
      /\ (n.state[l].owner <=> c.state[l].owner)
  <2>1. n \in Shared /\ Kept(c, n) /\ OthersKept(l, c, n)
    BY <1>3, <1>4, <1>5 DEF IsCalled, Kept, OthersKept
  <2>2. /\ n.load = (IF c.load = l THEN NoLoad ELSE c.load) /\ n.game = c.game
        /\ (n.corrupt <=> c.corrupt) /\ n.games = c.games
    BY <1>3, <1>4, <1>5 DEF IsCalled
  <2> QED BY <2>1, <2>2, <1>1, <1>3, <1>4, <1>5 DEF IsCalled, Settings, MoreCalls
<1>7. CASE c.state[l].outstanding # 0
  BY <1>2, <1>6, <1>7 DEF IsError, Erred
<1>8. CASE c.state[l].outstanding = 0
  <2> DEFINE d == FreeLoadState(n, l)
  <2>1. IsFreed(l, n, d)
    BY <1>6, FreeFacts
  <2>2. LoadError(c, l, result) = d
    BY <1>2, <1>8
  <2> HIDE DEF d
  <2>3. n.state[l] \in LoadState
    BY <1>6 DEF Shared
  <2>4. Settings(n.state[l], d.state[l]) /\ d.state[l].calls = n.state[l].calls
        /\ d.state[l].life = "freed" /\ d.state[l].progress = n.state[l].progress
        /\ d.state[l].outstanding = n.state[l].outstanding
        /\ (d.state[l].callback <=> n.state[l].callback)
        /\ (d.state[l].owner <=> n.state[l].owner)
    BY <2>1, <2>3 DEF IsFreed, Settings, LoadState
  <2>5. Erred(c.state[l], d.state[l])
    BY <2>4, <1>6, <1>8 DEF Erred, Settings, MoreCalls
  <2>6. d \in Shared /\ Kept(c, d) /\ OthersKept(l, c, d)
    BY <2>1, <1>6 DEF IsFreed, Kept, OthersKept
  <2> QED BY <2>1, <2>2, <2>5, <2>6, <1>6, <1>8 DEF IsError, IsFreed
<1> QED BY <1>7, <1>8

\* A request less is outstanding.
Less(n) == IF n > 0 THEN n - 1 ELSE 0

IsEnded(l, c, d) ==
  /\ d \in Shared /\ Kept(c, d) /\ OthersKept(l, c, d)
  /\ d.load = c.load /\ d.game = c.game /\ (d.corrupt <=> c.corrupt) /\ d.games = c.games
  /\ d.state[l] = [c.state[l] EXCEPT !.outstanding = Less(c.state[l].outstanding)]

LEMMA EndedFacts ==
  ASSUME NEW c \in Shared, NEW l \in Loads
  PROVE  IsEnded(l, c, Ended(c, l))
<1> DEFINE less == Less(c.state[l].outstanding)
           s == [c.state[l] EXCEPT !.outstanding = less]
           d == [c EXCEPT !.state = [c.state EXCEPT ![l] = s]]
<1>1. c.state[l] \in LoadState /\ c.state \in [Loads -> LoadState]
  BY DEF Shared
<1>2. Ended(c, l) = d
  BY <1>1 DEF Ended, Less, LoadState
<1>3. less \in 0 .. 2
  BY <1>1 DEF Less, LoadState
<1>4. s \in LoadState
  <2> HIDE DEF less
  <2> QED BY <1>1, <1>3 DEF LoadState
<1>5. s = [c.state[l] EXCEPT !.outstanding = Less(c.state[l].outstanding)]
  OBVIOUS
<1> HIDE DEF s
<1>6. /\ d \in Shared /\ Kept(c, d) /\ OthersKept(l, c, d)
      /\ d.load = c.load /\ d.game = c.game /\ (d.corrupt <=> c.corrupt)
      /\ d.games = c.games /\ d.state[l] = s
  BY <1>4, PutFacts
<1> HIDE DEF d
<1> QED BY <1>2, <1>5, <1>6 DEF IsEnded

\* A load whose state is s when a request of it is over, and t after that; loading
\* says that it is the current load.
Closed(s, t, loading) ==
  /\ Settings(s, t)
  /\ t.progress = s.progress /\ t.outstanding = Less(s.outstanding)
  /\ (t.callback <=> s.callback) /\ (t.owner <=> s.owner)
  /\ t.life = IF ~loading /\ Less(s.outstanding) = 0 THEN "freed" ELSE s.life
  /\ IF ~loading /\ Less(s.outstanding) = 0 /\ s.progress # "ABORTED"
     THEN MoreCalls(s, t) ELSE t.calls = s.calls

IsClosed(l, c, d) ==
  /\ d \in Shared /\ Kept(c, d) /\ OthersKept(l, c, d)
  /\ d.load = c.load /\ d.game = c.game
  /\ Closed(c.state[l], d.state[l], c.load = l)
  /\ c.load # l /\ Less(c.state[l].outstanding) = 0 =>
       /\ d.corrupt <=> c.corrupt \/ (c.state[l].owner /\ c.games[l] = "freed")
       /\ d.games[l] = IF c.state[l].owner THEN "freed" ELSE c.games[l]
  /\ c.load = l \/ Less(c.state[l].outstanding) # 0 =>
       (d.corrupt <=> c.corrupt) /\ d.games = c.games

\* rc_client_end_load_state frees the state of a load that is not current when its
\* last request is over.
LEMMA ClosedFacts ==
  ASSUME NEW c \in Shared, NEW l \in Loads
  PROVE  IsClosed(l, c, EndLoadState(c, l))
<1> DEFINE n == Ended(c, l)
           m == IF n.state[l].progress # "ABORTED" THEN Called(n, l, "ABORTED") ELSE n
<1>0. c.state[l] \in LoadState
  BY DEF Shared
<1>1. IsEnded(l, c, n)
  BY EndedFacts
<1>2. EndLoadState(c, l) =
        IF c.load # l /\ n.state[l].outstanding = 0 THEN FreeLoadState(m, l) ELSE n
  BY DEF EndLoadState
<1> HIDE DEF n
<1>3. /\ Settings(c.state[l], n.state[l]) /\ n.state[l].calls = c.state[l].calls
      /\ n.state[l].life = c.state[l].life /\ n.state[l].progress = c.state[l].progress
      /\ n.state[l].outstanding = Less(c.state[l].outstanding)
      /\ (n.state[l].callback <=> c.state[l].callback)
      /\ (n.state[l].owner <=> c.state[l].owner)
  <2> DEFINE less == Less(c.state[l].outstanding)
  <2>1. n.state[l] = [c.state[l] EXCEPT !.outstanding = less]
    BY <1>1 DEF IsEnded
  <2> HIDE DEF less
  <2>2. /\ Settings(c.state[l], n.state[l]) /\ n.state[l].calls = c.state[l].calls
        /\ n.state[l].life = c.state[l].life /\ n.state[l].progress = c.state[l].progress
        /\ n.state[l].outstanding = less
        /\ (n.state[l].callback <=> c.state[l].callback)
        /\ (n.state[l].owner <=> c.state[l].owner)
    BY <1>0, <2>1 DEF Settings, LoadState
  <2> QED BY <2>2 DEF less
<1>4. CASE ~(c.load # l /\ n.state[l].outstanding = 0)
  <2>1. EndLoadState(c, l) = n
    BY <1>2, <1>4
  <2>2. Closed(c.state[l], n.state[l], c.load = l)
    BY <1>3, <1>4 DEF Closed
  <2> QED BY <2>1, <2>2, <1>1, <1>3, <1>4 DEF IsClosed, IsEnded
<1>5. CASE c.load # l /\ n.state[l].outstanding = 0
  <2> DEFINE d == FreeLoadState(m, l)
  <2>1. EndLoadState(c, l) = d
    BY <1>2, <1>5
  <2>2. /\ m \in Shared /\ Kept(c, m) /\ OthersKept(l, c, m)
        /\ m.load = c.load /\ m.game = c.game /\ (m.corrupt <=> c.corrupt)
        /\ m.games = c.games
        /\ Settings(n.state[l], m.state[l])
        /\ m.state[l].progress = n.state[l].progress
        /\ m.state[l].outstanding = n.state[l].outstanding
        /\ (m.state[l].callback <=> n.state[l].callback)
        /\ (m.state[l].owner <=> n.state[l].owner)
        /\ IF n.state[l].progress # "ABORTED" THEN MoreCalls(n.state[l], m.state[l])
           ELSE m.state[l].calls = n.state[l].calls
    <3>1. CASE n.state[l].progress # "ABORTED"
      <4>1. m = Called(n, l, "ABORTED")
        BY <3>1
      <4> HIDE DEF m
      <4>2. IsCalled(l, n, m)
        BY <4>1, <1>1, CalledFacts DEF IsEnded
      <4>3. Kept(c, m) /\ OthersKept(l, c, m)
        BY <4>2, <1>1 DEF IsEnded, IsCalled, Kept, OthersKept
      <4> QED BY <3>1, <4>2, <4>3, <1>1 DEF IsEnded, IsCalled
    <3>2. CASE n.state[l].progress = "ABORTED"
      <4>1. m = n
        BY <3>2
      <4> HIDE DEF m
      <4>2. Settings(n.state[l], m.state[l])
        BY <4>1 DEF Settings
      <4> QED BY <3>2, <4>1, <4>2, <1>1 DEF IsEnded
    <3> QED BY <3>1, <3>2
  <2> HIDE DEF m
  <2>3. IsFreed(l, m, d)
    BY <2>2, FreeFacts
  <2> HIDE DEF d
  <2>4. m.state[l] \in LoadState
    BY <2>2 DEF Shared
  <2>5. Settings(m.state[l], d.state[l]) /\ d.state[l].calls = m.state[l].calls
        /\ d.state[l].life = "freed" /\ d.state[l].progress = m.state[l].progress
        /\ d.state[l].outstanding = m.state[l].outstanding
        /\ (d.state[l].callback <=> m.state[l].callback)
        /\ (d.state[l].owner <=> m.state[l].owner)
    BY <2>3, <2>4 DEF IsFreed, Settings, LoadState
  <2>6. Settings(c.state[l], d.state[l])
    BY <2>2, <2>5, <1>3 DEF Settings
  <2>7. IF c.state[l].progress # "ABORTED" THEN MoreCalls(c.state[l], d.state[l])
        ELSE d.state[l].calls = c.state[l].calls
    BY <2>2, <2>5, <1>3 DEF MoreCalls
  <2>8. Closed(c.state[l], d.state[l], c.load = l)
    BY <2>2, <2>5, <2>6, <2>7, <1>3, <1>5 DEF Closed
  <2>9. d \in Shared /\ Kept(c, d) /\ OthersKept(l, c, d) /\ d.load = c.load /\ d.game = c.game
    BY <2>2, <2>3 DEF IsFreed, Kept, OthersKept
  <2>10. /\ d.corrupt <=> c.corrupt \/ (c.state[l].owner /\ c.games[l] = "freed")
         /\ d.games[l] = IF c.state[l].owner THEN "freed" ELSE c.games[l]
    BY <2>2, <2>3, <1>3 DEF IsFreed
  <2> QED BY <2>1, <2>8, <2>9, <2>10, <1>3, <1>5 DEF IsClosed
<1> QED BY <1>4, <1>5

IsRefused(l, c, d) ==
  /\ d \in Shared /\ Kept(c, d) /\ OthersKept(l, c, d)
  /\ d.load = c.load /\ d.game = c.game
  /\ d.corrupt <=> c.corrupt \/ (c.state[l].owner /\ c.games[l] = "freed")
  /\ d.games[l] = IF c.state[l].owner THEN "freed" ELSE c.games[l]
  /\ Settings(c.state[l], d.state[l]) /\ MoreCalls(c.state[l], d.state[l])
  /\ d.state[l].life = "freed" /\ d.state[l].progress = c.state[l].progress
  /\ d.state[l].outstanding = c.state[l].outstanding
  /\ (d.state[l].callback <=> c.state[l].callback)
  /\ (d.state[l].owner <=> c.state[l].owner)

\* A load that is refused is over, whatever is outstanding.
LEMMA RefusedFacts ==
  ASSUME NEW c \in Shared, NEW l \in Loads, NEW result \in {"OK", "ABORTED", "ERROR"}
  PROVE  IsRefused(l, c, Refused(c, l, result))
<1> DEFINE n == Called(c, l, result)
           d == FreeLoadState(n, l)
<1>1. IsCalled(l, c, n)
  BY CalledFacts
<1>2. Refused(c, l, result) = d
  BY DEF Refused
<1> HIDE DEF n
<1>3. IsFreed(l, n, d)
  BY <1>1, FreeFacts DEF IsCalled
<1> HIDE DEF d
<1>4. n.state[l] \in LoadState
  BY <1>1 DEF IsCalled, Shared
<1>5. Settings(n.state[l], d.state[l]) /\ d.state[l].calls = n.state[l].calls
      /\ d.state[l].life = "freed" /\ d.state[l].progress = n.state[l].progress
      /\ d.state[l].outstanding = n.state[l].outstanding
      /\ (d.state[l].callback <=> n.state[l].callback)
      /\ (d.state[l].owner <=> n.state[l].owner)
  BY <1>3, <1>4 DEF IsFreed, Settings, LoadState
<1>6. Settings(c.state[l], d.state[l]) /\ MoreCalls(c.state[l], d.state[l])
  BY <1>1, <1>5 DEF IsCalled, Settings, MoreCalls
<1>7. Kept(c, d) /\ OthersKept(l, c, d)
  BY <1>1, <1>3 DEF IsCalled, IsFreed, Kept, OthersKept
<1> QED BY <1>1, <1>2, <1>3, <1>5, <1>6, <1>7 DEF IsRefused, IsCalled, IsFreed

\* The load that was current, if there was one, is told.
Told(c, d) ==
  \A q \in Loads :
    d.state[q] = IF q = c.load THEN [c.state[q] EXCEPT !.aborted = TRUE] ELSE c.state[q]

IsDetached(c, d) ==
  /\ d \in Shared /\ Kept(c, d) /\ Told(c, d)
  /\ d.load = NoLoad /\ d.game = c.game /\ d.games = c.games
  /\ d.corrupt <=> c.corrupt \/ (c.load # NoLoad /\ c.state[c.load].life = "freed")

LEMMA DetachedFacts ==
  ASSUME NEW c \in Shared
  PROVE  IsDetached(c, Detached(c))
<1>1. CASE c.load = NoLoad
  <2>1. Detached(c) = c
    BY <1>1 DEF Detached
  <2>2. Told(c, c)
    BY <1>1, LoadAssumption DEF Told
  <2> QED BY <1>1, <2>1, <2>2 DEF IsDetached, Kept
<1>2. CASE c.load # NoLoad
  <2> DEFINE l == c.load
             s == [c.state[l] EXCEPT !.aborted = TRUE]
             b == [c EXCEPT !.state = [c.state EXCEPT ![l] = s]]
             broken == c.corrupt \/ c.state[l].life = "freed"
             d == [b EXCEPT !.load = NoLoad, !.corrupt = broken]
  <2>1. l \in Loads
    BY <1>2 DEF Shared
  <2>2. Detached(c) = d
    <3>1. b.corrupt = c.corrupt
      BY DEF Shared
    <3> QED BY <1>2 DEF Detached, Shared
  <2>3. s \in LoadState
    <3>1. c.state[l] \in LoadState
      BY <2>1 DEF Shared
    <3> QED BY <3>1 DEF LoadState
  <2>4. s = [c.state[l] EXCEPT !.aborted = TRUE]
    OBVIOUS
  <2>5. broken \in BOOLEAN /\ (broken <=> c.corrupt \/ c.state[l].life = "freed")
    OBVIOUS
  <2>6. l = c.load
    OBVIOUS
  <2> HIDE DEF s, broken, l
  <2>7. /\ b \in Shared /\ Kept(c, b) /\ OthersKept(l, c, b)
        /\ b.load = c.load /\ b.game = c.game /\ (b.corrupt <=> c.corrupt)
        /\ b.games = c.games /\ b.state[l] = s
    BY <2>1, <2>3, PutFacts
  <2> HIDE DEF b
  <2>8. /\ d \in Shared /\ Kept(b, d) /\ d.state = b.state /\ d.games = b.games
        /\ d.load = NoLoad /\ d.game = b.game /\ (d.corrupt <=> broken)
    BY <2>5, <2>7 DEF Shared, Kept
  <2> HIDE DEF d
  <2>9. Told(c, d)
    <3>1. ASSUME NEW q \in Loads, q # c.load PROVE d.state[q] = c.state[q]
      BY <2>6, <2>7, <2>8, <3>1 DEF OthersKept
    <3>2. d.state[c.load] = [c.state[c.load] EXCEPT !.aborted = TRUE]
      <4>1. d.state[l] = s
        BY <2>7, <2>8
      <4> QED BY <4>1, <2>4, <2>6
    <3> QED BY <3>1, <3>2 DEF Told
  <2> QED BY <1>2, <2>2, <2>5, <2>6, <2>7, <2>8, <2>9 DEF IsDetached, Kept
<1> QED BY <1>1, <1>2

\* The game that was current is freed, unless its load will free it.
KeptByLoad(c) == c.load = c.game /\ c.state[c.load].owner

IsUnloaded(c, d) ==
  /\ d \in Shared /\ Kept(c, d) /\ Told(c, d)
  /\ d.load = NoLoad /\ d.game = NoLoad
  /\ \A q \in Loads : d.games[q] = IF q = c.game /\ ~KeptByLoad(c) THEN "freed" ELSE c.games[q]
  /\ d.corrupt <=> \/ c.corrupt
                   \/ c.load # NoLoad /\ c.state[c.load].life = "freed"
                   \/ c.game # NoLoad /\ ~KeptByLoad(c) /\ c.games[c.game] = "freed"

\* rc_client_unload_game
LEMMA UnloadedFacts ==
  ASSUME NEW c \in Shared
  PROVE  IsUnloaded(c, UnloadGame(c))
<1> DEFINE a == Detached(c)
           n == [a EXCEPT !.game = NoLoad]
<1>1. IsDetached(c, a)
  BY DetachedFacts
<1>2. UnloadGame(c) = IF c.game = NoLoad \/ KeptByLoad(c) THEN n ELSE FreeGame(n, c.game)
  BY DEF UnloadGame, KeptByLoad
<1> HIDE DEF a
<1>3. /\ n \in Shared /\ Kept(c, n) /\ Told(c, n) /\ n.load = NoLoad /\ n.game = NoLoad
      /\ n.games = c.games
      /\ n.corrupt <=> c.corrupt \/ (c.load # NoLoad /\ c.state[c.load].life = "freed")
  <2>1. a \in Shared
    BY <1>1 DEF IsDetached
  <2>2. /\ n \in Shared /\ Kept(a, n) /\ n.state = a.state /\ n.load = a.load
        /\ n.game = NoLoad /\ n.games = a.games /\ (n.corrupt <=> a.corrupt)
    BY <2>1 DEF Shared, Kept
  <2> HIDE DEF n
  <2> QED BY <1>1, <2>2 DEF IsDetached, Kept, Told
<1> HIDE DEF n
<1>4. CASE c.game = NoLoad \/ KeptByLoad(c)
  <2>1. UnloadGame(c) = n
    BY <1>2, <1>4
  <2>2. \A q \in Loads : n.games[q] = IF q = c.game /\ ~KeptByLoad(c) THEN "freed" ELSE c.games[q]
    BY <1>3, <1>4, LoadAssumption
  <2> QED BY <2>1, <2>2, <1>3, <1>4 DEF IsUnloaded
<1>5. CASE c.game # NoLoad /\ ~KeptByLoad(c)
  <2> DEFINE d == FreeGame(n, c.game)
  <2>1. UnloadGame(c) = d
    BY <1>2, <1>5
  <2>2. c.game \in Loads
    BY <1>5 DEF Shared
  <2>3. /\ d \in Shared /\ Kept(n, d) /\ OthersKept(c.game, n, d)
        /\ d.load = n.load /\ d.game = n.game /\ d.state = n.state
        /\ d.corrupt <=> n.corrupt \/ n.games[c.game] = "freed"
        /\ d.games[c.game] = "freed"
    BY <1>3, <2>2, FreeGameFacts
  <2> HIDE DEF d
  <2>4. Kept(c, d) /\ Told(c, d)
    BY <1>3, <2>3 DEF Kept, Told
  <2>5. \A q \in Loads : d.games[q] = IF q = c.game /\ ~KeptByLoad(c) THEN "freed" ELSE c.games[q]
    BY <1>3, <1>5, <2>3 DEF OthersKept
  <2> QED BY <2>1, <2>3, <2>4, <2>5, <1>3, <1>5 DEF IsUnloaded
<1> QED BY <1>4, <1>5

\* What issuing a request leaves alone.
Standing(c, d) ==
  /\ d.host = c.host /\ d.login = c.login /\ d.user = c.user
  /\ (d.credentials <=> c.credentials) /\ d.queued = c.queued
  /\ d.load = c.load /\ d.game = c.game /\ d.games = c.games
  /\ (d.corrupt <=> c.corrupt)

IsIssued(l, kind, progress, more, c, d) ==
  /\ d \in Shared /\ Standing(c, d) /\ OthersKept(l, c, d)
  /\ d.inflight = c.inflight \cup {<<l, kind>>}
  /\ d.state[l] = [c.state[l] EXCEPT !.progress = progress,
                                     !.outstanding = c.state[l].outstanding + more]

IsAt(l, progress, more, c, d) ==
  /\ d \in Shared /\ Standing(c, d) /\ OthersKept(l, c, d)
  /\ d.inflight = c.inflight
  /\ d.state[l] = [c.state[l] EXCEPT !.progress = progress,
                                     !.outstanding = c.state[l].outstanding + more]

Progresses ==
  {"NONE", "AWAIT_LOGIN", "FETCHING", "IDENTIFYING", "STARTING", "DONE", "ABORTED"}

MovedOn(c, l, progress, more) ==
  [c EXCEPT !.state = [c.state EXCEPT ![l] =
     [c.state[l] EXCEPT !.progress = progress,
                        !.outstanding = c.state[l].outstanding + more]]]

\* A load moves on, and more of its requests are outstanding.
LEMMA AtFacts ==
  ASSUME NEW c \in Shared, NEW l \in Loads, NEW progress \in Progresses, NEW more \in 0 .. 2,
         c.state[l].outstanding + more <= 2
  PROVE  IsAt(l, progress, more, c, MovedOn(c, l, progress, more))
<1> DEFINE s == [c.state[l] EXCEPT !.progress = progress,
                                   !.outstanding = c.state[l].outstanding + more]
           d == [c EXCEPT !.state = [c.state EXCEPT ![l] = s]]
<1>1. c.state[l] \in LoadState
  BY DEF Shared
<1>2. s \in LoadState
  <2>1. c.state[l].outstanding + more \in 0 .. 2
    BY <1>1 DEF LoadState
  <2> QED BY <1>1, <2>1 DEF LoadState, Progresses
<1>3. s = [c.state[l] EXCEPT !.progress = progress,
                             !.outstanding = c.state[l].outstanding + more]
  OBVIOUS
<1> HIDE DEF s
<1>4. /\ d \in Shared /\ Kept(c, d) /\ OthersKept(l, c, d)
      /\ d.load = c.load /\ d.game = c.game /\ (d.corrupt <=> c.corrupt)
      /\ d.games = c.games /\ d.state[l] = s
  BY <1>2, PutFacts
<1> HIDE DEF d
<1>5. IsAt(l, progress, more, c, d)
  BY <1>3, <1>4 DEF IsAt, Kept, Standing
<1> QED BY <1>5 DEF d, s, MovedOn

\* A request is issued for a load.
LEMMA IssuedFacts ==
  ASSUME NEW c \in Shared, NEW l \in Loads, NEW progress, NEW more, NEW b,
         NEW kind \in Kinds, IsAt(l, progress, more, c, b)
  PROVE  IsIssued(l, kind, progress, more, c,
                  [b EXCEPT !.inflight = c.inflight \cup {<<l, kind>>}])
<1> DEFINE requests == c.inflight \cup {<<l, kind>>}
           d == [b EXCEPT !.inflight = requests]
<1>1. requests \in SUBSET Requests
  BY DEF Shared, Requests
<1>2. requests = c.inflight \cup {<<l, kind>>}
  OBVIOUS
<1>3. b \in Shared
  BY DEF IsAt
<1> HIDE DEF requests
<1>4. d \in Shared /\ d.inflight = requests
  BY <1>1, <1>3 DEF Shared
<1>5. /\ Standing(b, d) /\ d.state = b.state /\ d.games = b.games
  BY <1>3 DEF Standing, Shared
<1> HIDE DEF d
<1>6. Standing(c, d) /\ OthersKept(l, c, d)
  BY <1>5 DEF IsAt, Standing, OthersKept
<1>7. IsIssued(l, kind, progress, more, c, d)
  BY <1>2, <1>4, <1>5, <1>6 DEF IsIssued, IsAt
<1> QED BY <1>7 DEF d, requests

\* rc_client_begin_fetch_game_sets issues the request, waits for the login, or fails.
LEMMA FetchFacts ==
  ASSUME NEW c \in Shared, NEW l \in Loads, c.state[l].outstanding < 2
  PROVE  LET d == BeginFetch(c, l)
         IN \/ c.user = "LOGGED_IN" /\ IsIssued(l, "fetch", "IDENTIFYING", 1, c, d)
            \/ c.user = "LOGIN_REQUESTED" /\ IsAt(l, "AWAIT_LOGIN", 0, c, d)
            \/ c.user = "NONE" /\ IsError(l, c, d)
<1>0. /\ c.state[l] \in LoadState /\ c.state \in [Loads -> LoadState]
      /\ c.state[l].outstanding \in 0 .. 1
  BY DEF Shared, LoadState
<1>1. c.user \in {"NONE", "LOGIN_REQUESTED", "LOGGED_IN"}
  BY DEF Shared
<1>2. CASE c.user = "LOGGED_IN"
  <2> DEFINE b == MovedOn(c, l, "IDENTIFYING", 1)
             d == [b EXCEPT !.inflight = c.inflight \cup {<<l, "fetch">>}]
  <2>1. IsAt(l, "IDENTIFYING", 1, c, b)
    <3>1. c.state[l].outstanding + 1 <= 2 /\ "IDENTIFYING" \in Progresses /\ 1 \in 0 .. 2
      BY <1>0 DEF Progresses
    <3> QED BY <3>1, AtFacts
  <2>2. BeginFetch(c, l) = d
    <3>1. b.inflight = c.inflight
      BY <2>1 DEF IsAt
    <3>2. BeginFetch(c, l) =
            [c EXCEPT !.state[l].progress = "IDENTIFYING", !.state[l].outstanding = @ + 1,
                      !.inflight = @ \cup {<<l, "fetch">>}]
      BY <1>2 DEF BeginFetch
    <3>3. [c EXCEPT !.state[l].progress = "IDENTIFYING", !.state[l].outstanding = @ + 1]
            = b
      BY <1>0 DEF Shared, LoadState, MovedOn
    <3>4. BeginFetch(c, l) = [b EXCEPT !.inflight = @ \cup {<<l, "fetch">>}]
      <4> HIDE DEF b
      <4> QED BY <3>2, <3>3
    <3> HIDE DEF b
    <3> QED BY <3>1, <3>4
  <2> HIDE DEF b
  <2>3. IsIssued(l, "fetch", "IDENTIFYING", 1, c, d)
    BY <2>1, IssuedFacts DEF Kinds
  <2> HIDE DEF d
  <2> QED BY <1>2, <2>2, <2>3
<1>3. CASE c.user = "LOGIN_REQUESTED"
  <2> DEFINE b == MovedOn(c, l, "AWAIT_LOGIN", 0)
  <2>1. IsAt(l, "AWAIT_LOGIN", 0, c, b)
    <3>1. c.state[l].outstanding + 0 <= 2 /\ "AWAIT_LOGIN" \in Progresses /\ 0 \in 0 .. 2
      BY <1>0 DEF Progresses
    <3> QED BY <3>1, AtFacts
  <2>2. BeginFetch(c, l) = b
    <3>1. [c.state[l] EXCEPT !.progress = "AWAIT_LOGIN",
                             !.outstanding = c.state[l].outstanding + 0]
            = [c.state[l] EXCEPT !.progress = "AWAIT_LOGIN"]
      <4> DEFINE r == c.state[l]
                 o == r.outstanding + 0
      <4>1. r \in LoadState /\ o = r.outstanding
        BY <1>0
      <4> HIDE DEF r, o
      <4>2. [r EXCEPT !.progress = "AWAIT_LOGIN", !.outstanding = o]
              = [r EXCEPT !.progress = "AWAIT_LOGIN"]
        BY <4>1 DEF LoadState
      <4> QED BY <4>2 DEF r, o
    <3>2. BeginFetch(c, l) = [c EXCEPT !.state[l].progress = "AWAIT_LOGIN"]
      BY <1>3 DEF BeginFetch
    <3> QED BY <3>1, <3>2 DEF MovedOn
  <2> HIDE DEF b
  <2> QED BY <1>3, <2>1, <2>2
<1>4. CASE c.user = "NONE"
  <2>1. BeginFetch(c, l) = LoadError(c, l, "ERROR")
    BY <1>4 DEF BeginFetch
  <2> QED BY <1>4, <2>1, ErrorFacts
<1> QED BY <1>1, <1>2, <1>3, <1>4

\* The answer is processed while the request to start a session is under way, if
\* there is to be a session.
LEMMA SessionFacts ==
  ASSUME NEW c \in Shared, NEW l \in Loads, c.state[l].outstanding = 0
  PROVE  LET d == BeginSession(c, l)
         IN \/ c.host.spectating /\ IsAt(l, "STARTING", 1, c, d)
            \/ /\ ~c.host.spectating /\ ~c.credentials
               /\ \E n : IsAt(l, "STARTING", 1, c, n) /\ IsError(l, n, d)
            \/ /\ ~c.host.spectating /\ c.credentials
               /\ IsIssued(l, "session", "STARTING", 2, c, d)
<1>0. /\ c.state[l] \in LoadState /\ c.state \in [Loads -> LoadState]
  BY DEF Shared
<1> DEFINE n == MovedOn(c, l, "STARTING", 1)
<1>1. IsAt(l, "STARTING", 1, c, n)
  <2>1. c.state[l].outstanding + 1 <= 2 /\ "STARTING" \in Progresses /\ 1 \in 0 .. 2
    BY <1>0 DEF Progresses
  <2> QED BY <2>1, AtFacts
<1>2. n = [c EXCEPT !.state[l].progress = "STARTING", !.state[l].outstanding = @ + 1]
  BY <1>0 DEF Shared, LoadState, MovedOn
<1>3. BeginSession(c, l) =
        CASE c.host.spectating -> n
          [] ~c.host.spectating /\ ~c.credentials -> LoadError(n, l, "ERROR")
          [] OTHER -> [n EXCEPT !.state[l].outstanding = @ + 1,
                                !.inflight = @ \cup {<<l, "session">>}]
  <2> HIDE DEF n
  <2> QED BY <1>2 DEF BeginSession
<1>4. CASE c.host.spectating
  <2> HIDE DEF n
  <2> QED BY <1>1, <1>3, <1>4
<1>5. CASE ~c.host.spectating /\ ~c.credentials
  <2> HIDE DEF n
  <2>1. n \in Shared
    BY <1>1 DEF IsAt
  <2>2. BeginSession(c, l) = LoadError(n, l, "ERROR")
    BY <1>3, <1>5
  <2>3. IsError(l, n, LoadError(n, l, "ERROR"))
    BY <2>1, ErrorFacts
  <2> QED BY <1>1, <1>5, <2>2, <2>3
<1>6. CASE ~c.host.spectating /\ c.credentials
  <2> DEFINE b == MovedOn(c, l, "STARTING", 2)
             d == [b EXCEPT !.inflight = c.inflight \cup {<<l, "session">>}]
  <2>1. IsAt(l, "STARTING", 2, c, b)
    <3>1. c.state[l].outstanding + 2 <= 2 /\ "STARTING" \in Progresses /\ 2 \in 0 .. 2
      BY <1>0 DEF Progresses
    <3> QED BY <3>1, AtFacts
  <2>2. b = [n EXCEPT !.state[l].outstanding = @ + 1]
    <3> DEFINE u == [c.state[l] EXCEPT !.progress = "STARTING",
                                       !.outstanding = c.state[l].outstanding + 1]
               v == [c.state[l] EXCEPT !.progress = "STARTING",
                                       !.outstanding = c.state[l].outstanding + 2]
               w == [u EXCEPT !.outstanding = u.outstanding + 1]
    <3>1. v = w
      <4> DEFINE r == c.state[l]
                 k == r.outstanding + 2
                 j == u.outstanding + 1
      <4>1. r \in LoadState /\ k = j
        <5>1. u.outstanding = c.state[l].outstanding + 1
          BY <1>0 DEF LoadState
        <5> QED BY <5>1, <1>0
      <4> HIDE DEF k, j, r
      <4>2. [u EXCEPT !.outstanding = j] = [r EXCEPT !.progress = "STARTING", !.outstanding = k]
        BY <4>1 DEF r, LoadState
      <4> QED BY <4>2 DEF r, k, j
    <3>2. n = [c EXCEPT !.state = [c.state EXCEPT ![l] = u]]
      BY DEF MovedOn
    <3>3. b = [c EXCEPT !.state = [c.state EXCEPT ![l] = v]]
      BY DEF MovedOn
    <3> HIDE DEF b, n, u, v, w
    <3>4. n.state = [c.state EXCEPT ![l] = u] /\ n.state[l] = u
      BY <1>0, <3>2 DEF Shared
    <3>5. [n EXCEPT !.state[l].outstanding = @ + 1] = [n EXCEPT !.state = [n.state EXCEPT ![l] = w]]
      BY <3>4 DEF w
    <3>6. [n.state EXCEPT ![l] = w] = [c.state EXCEPT ![l] = v]
      BY <1>0, <3>1, <3>4
    <3>7. [n EXCEPT !.state = [c.state EXCEPT ![l] = v]] = b
      <4> DEFINE x == [c.state EXCEPT ![l] = v]
      <4> HIDE DEF x
      <4>1. [n EXCEPT !.state = x] = [c EXCEPT !.state = x]
        BY <3>2 DEF Shared
      <4> QED BY <4>1, <3>3 DEF x
    <3> QED BY <3>5, <3>6, <3>7
  <2>3. b.inflight = c.inflight
    BY <2>1 DEF IsAt
  <2>4. BeginSession(c, l) = [n EXCEPT !.state[l].outstanding = @ + 1,
                                       !.inflight = @ \cup {<<l, "session">>}]
    <3> HIDE DEF n
    <3> QED BY <1>3, <1>6
  <2>5. BeginSession(c, l) = d
    <3>1. [n EXCEPT !.state[l].outstanding = @ + 1, !.inflight = @ \cup {<<l, "session">>}]
            = [b EXCEPT !.inflight = @ \cup {<<l, "session">>}]
      <4> HIDE DEF b
      <4>1. \A x : x = b => [x EXCEPT !.inflight = @ \cup {<<l, "session">>}]
                            = [b EXCEPT !.inflight = @ \cup {<<l, "session">>}]
        OBVIOUS
      <4> QED BY <2>2
    <3> HIDE DEF b, n
    <3> QED BY <2>3, <2>4, <3>1
  <2> HIDE DEF b
  <2>6. IsIssued(l, "session", "STARTING", 2, c, d)
    BY <2>1, IssuedFacts DEF Kinds
  <2> HIDE DEF d
  <2> QED BY <1>6, <2>5, <2>6
<1> QED BY <1>4, <1>5, <1>6

-----------------------------------------------------------------------------
(* The inductive invariant: where the two requests of a load are, and       *)
(* whether the host works on it.                                            *)

Early == {"attaching", "attached", "identifying", "resolving"}
Late == {"activating", "applying", "validating", "concluding"}
HostPlaces == {"out"} \cup Early \cup Late
SessionPlaces == {"out", "aborting", "leaving", "ended", "failing", "storing"} \cup Late
FetchPlaces ==
  {"out", "aborting", "leaving", "ended", "failing", "starting", "processing", "holding"}
    \cup Early \cup Late
Places == FetchPlaces \cup SessionPlaces
Notes == {"none", "ok", "error", "sets", "empty", "unknown", "last"}

\* Where thread t may be, and what it may have been answered there.
MayBe(t, place, note) ==
  /\ t = Host => place \in HostPlaces
  /\ t # Host => IF t[2] = "session" THEN place \in SessionPlaces ELSE place \in FetchPlaces
  /\ place = "ended" => IF t[2] = "session" THEN note \in {"ok", "error"}
                        ELSE note \in {"sets", "empty", "unknown", "error"}

Types ==
  /\ client \in Shared
  /\ pc \in [Threads -> Places] /\ local \in [Threads -> Notes]
  /\ hostLoad \in Loads \cup {NoLoad} /\ (pc[Host] # "out" => hostLoad \in Loads)
  /\ \A t \in Threads : MayBe(t, pc[t], local[t])
  /\ \A t \in client.inflight : pc[t] = "out"
  /\ \A l \in Loads : client.load = l \/ l \in client.queued => client.state[l].life # "unused"

Stage(l, kind) == IF <<l, kind>> \in client.inflight THEN "inflight" ELSE pc[<<l, kind>>]
Fetch(l) == Stage(l, "fetch")
Session(l) == Stage(l, "session")
HostOn(l) == IF hostLoad = l THEN pc[Host] ELSE "out"

Hold(place) ==
  IF place \in {"inflight", "aborting", "leaving", "ended", "processing", "holding"} THEN 1 ELSE 0

\* A request, or the processing of its answer, counts once; the session is not
\* asked for before the answer to the first request came, and a load that waits
\* for the login has no request.
CountedAt(s, fetch, session, host) ==
  /\ s.life = "unused" => fetch = "out" /\ session = "out" /\ host = "out"
  /\ s.progress = "AWAIT_LOGIN" => s.outstanding = 0 /\ fetch = "out" /\ session = "out"
  /\ s.life = "live" =>
       /\ s.outstanding = Hold(fetch) + Hold(session)
       /\ host \in Early => fetch = "out" /\ session = "out" /\ s.progress # "AWAIT_LOGIN"
       /\ fetch \in Early \cup {"inflight", "ended", "starting"} => session = "out"

Counted(l) == CountedAt(client.state[l], Fetch(l), Session(l), HostOn(l))

CInv == Types /\ \A l \in Loads : Counted(l)

\* A request is not the host.
LEMMA ThreadFacts ==
  /\ Host \in Threads /\ Host \notin Requests
  /\ \A l \in Loads : /\ <<l, "fetch">> \in Requests /\ <<l, "session">> \in Requests
                      /\ <<l, "fetch">> # Host /\ <<l, "session">> # Host
                      /\ <<l, "fetch">> # <<l, "session">>
                      /\ LoadOf(<<l, "fetch">>) = l /\ LoadOf(<<l, "session">>) = l
                      /\ <<l, "fetch">>[2] = "fetch" /\ <<l, "session">>[2] = "session"
  /\ \A t \in Threads : t = Host \/ \E l \in Loads : t = <<l, "fetch">> \/ t = <<l, "session">>
  /\ LoadOf(Host) = hostLoad
<1>1. \A l \in Loads : l # NoLoad
  BY LoadAssumption
<1>2. Host \notin Requests
  BY <1>1 DEF Host, Requests
<1>3. \A t \in Requests : \E l \in Loads : t = <<l, "fetch">> \/ t = <<l, "session">>
  BY DEF Requests, Kinds
<1>4. \A l \in Loads : <<l, "fetch">> \in Requests /\ <<l, "session">> \in Requests
  BY DEF Requests, Kinds
<1>5. \A l \in Loads : <<l, "fetch">> # Host /\ <<l, "session">> # Host
  BY <1>1 DEF Host
<1>6. \A l \in Loads : LoadOf(<<l, "fetch">>) = l /\ LoadOf(<<l, "session">>) = l
  BY <1>5 DEF LoadOf
<1> QED BY <1>2, <1>3, <1>4, <1>5, <1>6 DEF Threads, LoadOf

\* A thread that is somewhere works on a load, and its request is not in flight.
LEMMA WorkingFacts ==
  ASSUME Types, NEW t \in Threads, pc[t] # "out"
  PROVE  /\ LoadOf(t) \in Loads /\ t \notin client.inflight
         /\ \/ t = Host /\ hostLoad = LoadOf(t)
            \/ t = <<LoadOf(t), "fetch">>
            \/ t = <<LoadOf(t), "session">>
<1>1. t \notin client.inflight
  BY DEF Types
<1>2. CASE t = Host
  BY <1>1, <1>2, ThreadFacts DEF Types
<1>3. CASE t # Host
  BY <1>1, <1>3, ThreadFacts
<1> QED BY <1>2, <1>3

\* Where a step of a thread that issues no request leaves the requests of its load.
LEMMA MoveFacts ==
  ASSUME Types, NEW t \in Threads, pc[t] # "out", NEW to \in Places,
         pc' = [pc EXCEPT ![t] = to], hostLoad' = hostLoad,
         NEW k \in Loads, k = LoadOf(t), client'.inflight = client.inflight
  PROVE  \/ /\ t = Host /\ HostOn(k) = pc[t] /\ HostOn(k)' = to
            /\ Fetch(k)' = Fetch(k) /\ Session(k)' = Session(k)
         \/ /\ t = <<k, "fetch">> /\ Fetch(k) = pc[t] /\ Fetch(k)' = to
            /\ HostOn(k)' = HostOn(k) /\ Session(k)' = Session(k)
         \/ /\ t = <<k, "session">> /\ Session(k) = pc[t] /\ Session(k)' = to
            /\ HostOn(k)' = HostOn(k) /\ Fetch(k)' = Fetch(k)
<1>0. /\ t \notin client.inflight
      /\ \/ t = Host /\ hostLoad = k
         \/ t = <<k, "fetch">>
         \/ t = <<k, "session">>
  BY WorkingFacts
<1>1. pc \in [Threads -> Places]
  BY DEF Types
<1>2. /\ <<k, "fetch">> \in Threads /\ <<k, "session">> \in Threads /\ Host \in Threads
      /\ <<k, "fetch">> # Host /\ <<k, "session">> # Host
      /\ <<k, "fetch">> # <<k, "session">>
  BY ThreadFacts DEF Threads
<1>3. pc'[t] = to /\ \A u \in Threads : u # t => pc'[u] = pc[u]
  BY <1>1
<1>4. CASE t = Host /\ hostLoad = k
  BY <1>2, <1>3, <1>4 DEF Fetch, Session, HostOn, Stage
<1>5. CASE t = <<k, "fetch">>
  BY <1>0, <1>2, <1>3, <1>5 DEF Fetch, Session, HostOn, Stage
<1>6. CASE t = <<k, "session">>
  BY <1>0, <1>2, <1>3, <1>6 DEF Fetch, Session, HostOn, Stage
<1> QED BY <1>0, <1>4, <1>5, <1>6

\* A step of a thread leaves the requests of other loads alone.
LEMMA OthersCounted ==
  ASSUME CInv, NEW k \in Loads, StatesKept(k, client, client'),
         client'.inflight \ {<<k, "fetch">>, <<k, "session">>}
           = client.inflight \ {<<k, "fetch">>, <<k, "session">>},
         \A u \in Threads : LoadOf(u) # k => pc'[u] = pc[u],
         hostLoad' = hostLoad
  PROVE  \A l \in Loads \ {k} : Counted(l)'
<1> SUFFICES ASSUME NEW l \in Loads \ {k} PROVE Counted(l)'
  OBVIOUS
<1>1. client'.state[l] = client.state[l]
  BY DEF StatesKept
<1>2. /\ <<l, "fetch">> \in Threads /\ <<l, "session">> \in Threads /\ Host \in Threads
      /\ LoadOf(<<l, "fetch">>) = l /\ LoadOf(<<l, "session">>) = l
      /\ LoadOf(Host) = hostLoad
      /\ <<l, "fetch">> \notin {<<k, "fetch">>, <<k, "session">>}
      /\ <<l, "session">> \notin {<<k, "fetch">>, <<k, "session">>}
  BY ThreadFacts DEF Threads
<1>3. Fetch(l)' = Fetch(l) /\ Session(l)' = Session(l)
  BY <1>2 DEF Fetch, Session, Stage
<1>4. HostOn(l)' = HostOn(l)
  BY <1>2 DEF HostOn
<1> QED BY <1>1, <1>3, <1>4 DEF CInv, Counted

\* A step of a thread keeps the invariant if it keeps it for its own load.
LEMMA StepKeeps ==
  ASSUME CInv, NEW t \in Threads, NEW to \in Places, NEW with \in Notes,
         to = "out" \/ t \notin client'.inflight,
         MayBe(t, to, with), Goes(t, to, with), hostLoad' = hostLoad,
         NEW k \in Loads, k = LoadOf(t), client' \in Shared,
         StatesKept(k, client, client'),
         client'.inflight \ {<<k, "fetch">>, <<k, "session">>}
           = client.inflight \ {<<k, "fetch">>, <<k, "session">>},
         \A u \in client'.inflight : u \in client.inflight \/ pc'[u] = "out",
         client'.load \in {client.load, NoLoad, k},
         client'.queued \subseteq client.queued \cup {k}, client.state[k].life # "unused",
         client'.state[k].life # "unused", Counted(k)'
  PROVE  CInv'
<1>1. Types /\ pc \in [Threads -> Places] /\ local \in [Threads -> Notes]
  BY DEF CInv, Types
<1>2. /\ pc' \in [Threads -> Places] /\ local' \in [Threads -> Notes]
      /\ pc'[t] = to /\ local'[t] = with
      /\ \A u \in Threads : u # t => pc'[u] = pc[u] /\ local'[u] = local[u]
  BY <1>1 DEF Goes
<1>3. \A u \in Threads : MayBe(u, pc'[u], local'[u])
  BY <1>1, <1>2 DEF Types
<1>4. \A u \in client'.inflight : pc'[u] = "out"
  <2>2. client.inflight \subseteq Threads
    BY <1>1 DEF Types, Shared, Threads
  <2> QED BY <2>2, <1>1, <1>2 DEF Types
<1>5. \A l \in Loads : client'.load = l \/ l \in client'.queued => client'.state[l].life # "unused"
  <2> SUFFICES ASSUME NEW l \in Loads, client'.load = l \/ l \in client'.queued
               PROVE  client'.state[l].life # "unused"
    OBVIOUS
  <2>1. l = k \/ client.load = l \/ l \in client.queued
    BY LoadAssumption
  <2>2. CASE l = k
    BY <2>2
  <2>3. CASE l # k
    BY <2>1, <2>3, <1>1 DEF Types, StatesKept
  <2> QED BY <2>2, <2>3
<1>6. hostLoad' \in Loads \cup {NoLoad} /\ (pc'[Host] # "out" => hostLoad' \in Loads)
  <2>1. CASE t = Host
    BY <2>1, ThreadFacts
  <2>2. CASE t # Host
    BY <2>2, <1>1, <1>2, ThreadFacts DEF Types
  <2> QED BY <2>1, <2>2, <1>1 DEF Types
<1>7. Types'
  BY <1>2, <1>3, <1>4, <1>5, <1>6 DEF Types
<1>8. \A u \in Threads : LoadOf(u) # k => pc'[u] = pc[u]
  BY <1>2
<1>9. \A l \in Loads \ {k} : Counted(l)'
  BY <1>8, OthersCounted
<1> QED BY <1>7, <1>9 DEF CInv

\* What every step of a thread may use.
LEMMA AtFactsOf ==
  ASSUME CInv, NEW t \in Threads, NEW from, from # "out", At(t, from)
  PROVE  \E k \in Loads :
           /\ k = LoadOf(t) /\ client.state[k].life = "live" /\ Counted(k)
           /\ ~client.corrupt /\ client \in Shared /\ Types /\ pc[t] = from
           /\ client.state[k] \in LoadState /\ MayBe(t, from, local[t])
<1>1. Types /\ pc[t] = from
  BY DEF CInv, At
<1>2. LoadOf(t) \in Loads
  BY <1>1, WorkingFacts
<1>3. PICK k \in Loads : k = LoadOf(t)
  BY <1>2
<1>4. client.state[k].life = "live" /\ ~client.corrupt
  BY <1>3 DEF At
<1>5. client \in Shared /\ client.state[k] \in LoadState
  BY <1>1 DEF Types, Shared
<1>6. MayBe(t, from, local[t])
  BY <1>1 DEF Types
<1> QED BY <1>1, <1>3, <1>4, <1>5, <1>6 DEF CInv

\* Where a thread may go to from a place: only what identifies a game goes on doing so.
Onward(from, to) ==
  to \in Early \cup {"ended", "starting"} => from \in Early \cup {"ended", "starting"}

\* A step that counts what it gives up, and issues no request, keeps the invariant.
LEMMA CountKeeps ==
  ASSUME CInv, NEW t \in Threads, NEW k \in Loads, k = LoadOf(t), pc[t] # "out",
         client.state[k].life = "live",
         client' \in Shared, StatesKept(k, client, client'),
         client'.inflight = client.inflight, client'.load \in {client.load, NoLoad, k},
         client'.queued \subseteq client.queued \cup {k},
         NEW to \in Places, NEW with \in Notes, MayBe(t, to, with), Steps(t, to, with),
         Onward(pc[t], to),
         client'.state[k].life \in {"live", "freed"},
         client'.state[k].progress = "AWAIT_LOGIN" => client.state[k].progress = "AWAIT_LOGIN",
         client'.state[k].outstanding + Hold(pc[t]) = client.state[k].outstanding + Hold(to)
  PROVE  CInv'
<1>1. Goes(t, to, with) /\ hostLoad' = hostLoad
  BY DEF Steps
<1>2. Types /\ Counted(k) /\ client.state[k] \in LoadState /\ client'.state[k] \in LoadState
  BY DEF CInv, Types, Shared
<1>3. pc' = [pc EXCEPT ![t] = to]
  BY <1>1 DEF Goes
<1>4. \/ /\ t = Host /\ HostOn(k) = pc[t] /\ HostOn(k)' = to
         /\ Fetch(k)' = Fetch(k) /\ Session(k)' = Session(k)
      \/ /\ t = <<k, "fetch">> /\ Fetch(k) = pc[t] /\ Fetch(k)' = to
         /\ HostOn(k)' = HostOn(k) /\ Session(k)' = Session(k)
      \/ /\ t = <<k, "session">> /\ Session(k) = pc[t] /\ Session(k)' = to
         /\ HostOn(k)' = HostOn(k) /\ Fetch(k)' = Fetch(k)
  BY <1>1, <1>2, <1>3, MoveFacts
<1>5. /\ client.state[k].outstanding = Hold(Fetch(k)) + Hold(Session(k))
      /\ HostOn(k) \in Early =>
           Fetch(k) = "out" /\ Session(k) = "out" /\ client.state[k].progress # "AWAIT_LOGIN"
      /\ client.state[k].progress = "AWAIT_LOGIN" =>
           Fetch(k) = "out" /\ Session(k) = "out" /\ client.state[k].outstanding = 0
      /\ Fetch(k) \in Early \cup {"inflight", "ended", "starting"} => Session(k) = "out"
  BY <1>2 DEF Counted, CountedAt
<1>6. t = Host => pc[t] \in HostPlaces /\ to \in HostPlaces
  BY <1>2 DEF Types, MayBe
<1>7. to # "inflight"
  BY DEF Places, FetchPlaces, SessionPlaces, Early, Late
<1>8. t = Host => Hold(pc[t]) = 0 /\ Hold(to) = 0
  BY <1>6 DEF Hold, HostPlaces, Early, Late
<1>9. client'.state[k].outstanding = Hold(Fetch(k)') + Hold(Session(k)')
  <2>1. \A place : Hold(place) \in Int
    BY DEF Hold
  <2>2. client'.state[k].outstanding \in Int
    BY <1>2 DEF LoadState
  <2> DEFINE o == client'.state[k].outstanding
             n == client.state[k].outstanding
  <2>3. o \in Int /\ o + Hold(pc[t]) = n + Hold(to) /\ n = Hold(Fetch(k)) + Hold(Session(k))
    BY <2>2, <1>5
  <2> HIDE DEF o, n
  <2>4. o = Hold(Fetch(k)') + Hold(Session(k)')
    BY <2>1, <2>3, <1>4, <1>8
  <2> QED BY <2>4 DEF o
<1>10. /\ HostOn(k)' \in Early =>
            /\ Fetch(k)' = "out" /\ Session(k)' = "out"
            /\ client'.state[k].progress # "AWAIT_LOGIN"
       /\ client'.state[k].progress = "AWAIT_LOGIN" =>
            /\ Fetch(k)' = "out" /\ Session(k)' = "out" /\ client'.state[k].outstanding = 0
       /\ Fetch(k)' \in Early \cup {"inflight", "ended", "starting"} => Session(k)' = "out"
  <2>1. CASE t = Host
    <3>1. to \in Early => HostOn(k) \in Early
      BY <2>1, <1>4, <1>6, ThreadFacts DEF Onward, HostPlaces, Early, Late
    <3>2. Fetch(k)' = Fetch(k) /\ Session(k)' = Session(k) /\ HostOn(k)' = to
      BY <2>1, <1>4, ThreadFacts
    <3>3. client'.state[k].progress = "AWAIT_LOGIN" => client'.state[k].outstanding = 0
      BY <2>1, <1>5, <1>8, <1>2 DEF LoadState
    <3> QED BY <3>1, <3>2, <3>3, <1>5
  <2>2. CASE t = <<k, "fetch">>
    <3>1. client.state[k].progress # "AWAIT_LOGIN" /\ HostOn(k) \notin Early
      BY <2>2, <1>4, <1>5, ThreadFacts
    <3> QED BY <2>2, <3>1, <1>4, <1>5, <1>7, ThreadFacts DEF Onward
  <2>3. CASE t = <<k, "session">>
    <3>1. client.state[k].progress # "AWAIT_LOGIN" /\ HostOn(k) \notin Early
          /\ Fetch(k) \notin Early \cup {"inflight", "ended", "starting"}
      BY <2>3, <1>4, <1>5, ThreadFacts
    <3> QED BY <2>3, <3>1, <1>4, ThreadFacts
  <2> QED BY <2>1, <2>2, <2>3, <1>4
<1>11. client'.state[k].life # "unused"
  OBVIOUS
<1>12. Counted(k)'
  BY <1>9, <1>10, <1>11 DEF Counted, CountedAt
<1>13. t \notin client'.inflight
  BY <1>2, WorkingFacts
<1> QED BY <1>1, <1>11, <1>12, <1>13, StepKeeps

\* The places threads may be in are few.
LEMMA PlaceFacts ==
  /\ Early \cup Late \cup HostPlaces \cup {"out", "aborting", "leaving", "ended", "failing",
       "storing", "starting", "processing", "holding"} \subseteq Places
  /\ \A place \in Early \cup Late \cup {"out", "failing", "storing", "starting"} :
       Hold(place) = 0
  /\ \A place \in {"inflight", "aborting", "leaving", "ended", "processing", "holding"} :
       Hold(place) = 1
<1> QED BY DEF Places, FetchPlaces, SessionPlaces, HostPlaces, Early, Late, Hold

\* What is counted while a thread works on a load.
LEMMA OutstandingFacts ==
  ASSUME CInv, NEW t \in Threads, NEW k \in Loads, k = LoadOf(t), pc[t] # "out",
         client.state[k].life = "live"
  PROVE  /\ client.state[k].outstanding \in 0 .. 2
         /\ Hold(pc[t]) = 1 => client.state[k].outstanding \in 1 .. 2
         /\ pc[t] \in Early \cup {"starting"} =>
              /\ client.state[k].outstanding = 0 /\ client.state[k].progress # "AWAIT_LOGIN"
              /\ t = Host \/ t = <<k, "fetch">>
              /\ <<k, "fetch">> \notin client.inflight /\ <<k, "session">> \notin client.inflight
              /\ t = Host \/ pc[Host] = "out" \/ hostLoad # k \/ pc[Host] \in Late
              /\ t = Host => pc[<<k, "fetch">>] = "out" /\ pc[t] \in Early
              /\ pc[<<k, "session">>] = "out"
<1>1. Types /\ Counted(k)
  BY DEF CInv
<1>2. /\ client.state[k].outstanding = Hold(Fetch(k)) + Hold(Session(k))
      /\ HostOn(k) \in Early =>
           Fetch(k) = "out" /\ Session(k) = "out" /\ client.state[k].progress # "AWAIT_LOGIN"
      /\ client.state[k].progress = "AWAIT_LOGIN" => Fetch(k) = "out" /\ Session(k) = "out"
      /\ Fetch(k) \in Early \cup {"inflight", "ended", "starting"} => Session(k) = "out"
  BY <1>1 DEF Counted, CountedAt
<1>3. \/ t = Host /\ hostLoad = k /\ HostOn(k) = pc[t] /\ pc[t] \in HostPlaces
      \/ t = <<k, "fetch">> /\ Fetch(k) = pc[t] /\ <<k, "fetch">> \notin client.inflight
      \/ t = <<k, "session">> /\ Session(k) = pc[t] /\ pc[t] \in SessionPlaces
  <2>1. MayBe(t, pc[t], local[t])
    BY <1>1 DEF Types
  <2> QED BY <2>1, <1>1, WorkingFacts, ThreadFacts DEF HostOn, Fetch, Session, Stage, MayBe
<1>4. \A place : Hold(place) \in {0, 1}
  BY DEF Hold
<1>5. client.state[k].outstanding \in 0 .. 2
  BY <1>2, <1>4
<1>6. Hold(pc[t]) = 1 => client.state[k].outstanding \in 1 .. 2
  <2>1. t = Host => Hold(pc[t]) = 0
    BY <1>3, ThreadFacts, PlaceFacts DEF HostPlaces
  <2> QED BY <2>1, <1>2, <1>3, <1>4
<1>7. ASSUME pc[t] \in Early \cup {"starting"}
      PROVE  /\ Fetch(k) \in Early \cup {"out", "starting"} /\ Session(k) = "out"
             /\ client.state[k].progress # "AWAIT_LOGIN"
             /\ \/ t = Host /\ Fetch(k) = "out" /\ pc[t] \in Early
                \/ t = <<k, "fetch">> /\ HostOn(k) \notin Early
  <2>1. t # <<k, "session">>
    <3>1. t = <<k, "session">> => pc[t] \in SessionPlaces
      BY <1>3, ThreadFacts
    <3>2. SessionPlaces \cap (Early \cup {"starting"}) = {}
      BY DEF SessionPlaces, Early, Late
    <3> QED BY <3>1, <3>2, <1>7
  <2>2. CASE t = Host
    <3>1. pc[t] \in Early /\ HostOn(k) = pc[t]
      <4>1. pc[t] \in HostPlaces /\ HostOn(k) = pc[t]
        BY <2>2, <1>3, ThreadFacts
      <4>2. "starting" \notin HostPlaces
        BY DEF HostPlaces, Early, Late
      <4> QED BY <4>1, <4>2, <1>7
    <3> QED BY <2>2, <3>1, <1>2
  <2>3. CASE t = <<k, "fetch">>
    <3>1. Fetch(k) = pc[t] /\ Fetch(k) # "out"
      BY <2>3, <1>3, ThreadFacts
    <3> QED BY <2>3, <3>1, <1>2, <1>7
  <2> QED BY <2>1, <2>2, <2>3, <1>3
<1>8. ASSUME pc[t] \in Early \cup {"starting"}
      PROVE  /\ client.state[k].outstanding = 0 /\ client.state[k].progress # "AWAIT_LOGIN"
             /\ t = Host \/ t = <<k, "fetch">>
             /\ <<k, "fetch">> \notin client.inflight /\ <<k, "session">> \notin client.inflight
             /\ t = Host \/ pc[Host] = "out" \/ hostLoad # k \/ pc[Host] \in Late
             /\ t = Host => pc[<<k, "fetch">>] = "out" /\ pc[t] \in Early
             /\ pc[<<k, "session">>] = "out"
  <2>1. client.state[k].outstanding = 0
    <3>1. Hold(Fetch(k)) = 0 /\ Hold(Session(k)) = 0
      BY <1>7, <1>8, PlaceFacts
    <3> QED BY <3>1, <1>2
  <2>2. <<k, "fetch">> \notin client.inflight /\ <<k, "session">> \notin client.inflight
    <3>1. Fetch(k) # "inflight" /\ Session(k) # "inflight"
      BY <1>7, <1>8 DEF Early
    <3> QED BY <3>1 DEF Fetch, Session, Stage
  <2>3. /\ t = Host => pc[<<k, "fetch">>] = "out" /\ pc[t] \in Early
        /\ pc[<<k, "session">>] = "out"
    BY <2>2, <1>7, <1>8, ThreadFacts DEF Fetch, Session, Stage
  <2>4. t = Host \/ pc[Host] = "out" \/ hostLoad # k \/ pc[Host] \in Late
    <3>1. pc[Host] \in HostPlaces
      BY <1>1, ThreadFacts DEF Types, MayBe
    <3> QED BY <3>1, <1>7, <1>8 DEF HostOn, HostPlaces
  <2> QED BY <2>1, <2>2, <2>3, <2>4, <1>7, <1>8
<1> QED BY <1>5, <1>6, <1>8

\* A load error keeps the count: what is outstanding stays so.
LEMMA ErrorKeeps ==
  ASSUME CInv, NEW t \in Threads, NEW k \in Loads, k = LoadOf(t), pc[t] # "out",
         client.state[k].life = "live",
         NEW b, Kept(client, b), OthersKept(k, client, b), b.load = client.load,
         b.state[k].life = "live", b.state[k].outstanding = client.state[k].outstanding,
         IsError(k, b, client'),
         NEW to \in Places, NEW with \in Notes, MayBe(t, to, with), Steps(t, to, with),
         Hold(to) = Hold(pc[t]), Onward(pc[t], to)
  PROVE  CInv'
<1>1. /\ client' \in Shared /\ StatesKept(k, client, client')
      /\ client'.inflight = client.inflight /\ client'.load \in {client.load, NoLoad, k}
      /\ client'.queued \subseteq client.queued \cup {k}
  BY DEF IsError, Kept, OthersKept, StatesKept
<1>2. /\ client'.state[k].outstanding = client.state[k].outstanding
      /\ client'.state[k].progress = "ABORTED"
      /\ client'.state[k].life \in {"live", "freed"}
  BY DEF IsError, Erred
<1>3. client'.state[k].outstanding + Hold(pc[t]) = client.state[k].outstanding + Hold(to)
  BY <1>2
<1> QED BY <1>1, <1>2, <1>3, CountKeeps

\* The end of a request gives up its count.
LEMMA ClosedKeeps ==
  ASSUME CInv, NEW t \in Threads, NEW k \in Loads, k = LoadOf(t), pc[t] # "out",
         client.state[k].life = "live",
         NEW b, IsClosed(k, client, b), client' \in Shared,
         client'.state = b.state, client'.games = b.games,
         client'.inflight = b.inflight, client'.load = b.load,
         client'.queued \subseteq b.queued \cup {k},
         NEW to \in Places, NEW with \in Notes, MayBe(t, to, with), Steps(t, to, with),
         Hold(to) = 0, Hold(pc[t]) = 1, Onward(pc[t], to)
  PROVE  CInv'
<1>1. /\ StatesKept(k, client, client')
      /\ client'.inflight = client.inflight /\ client'.load \in {client.load, NoLoad, k}
      /\ client'.queued \subseteq client.queued \cup {k}
  BY DEF IsClosed, Kept, OthersKept, StatesKept
<1>2. client.state[k].outstanding \in 1 .. 2
  BY OutstandingFacts
<1>3. /\ client'.state[k].outstanding = client.state[k].outstanding - 1
      /\ client'.state[k].progress = client.state[k].progress
      /\ client'.state[k].life \in {"live", "freed"}
  BY <1>2 DEF IsClosed, Closed, Less
<1>4. client'.state[k].outstanding + Hold(pc[t]) = client.state[k].outstanding + Hold(to)
  BY <1>2, <1>3
<1> QED BY <1>1, <1>3, <1>4, CountKeeps

\* A load that is refused counts nothing any more.
LEMMA RefusedKeeps ==
  ASSUME CInv, NEW t \in Threads, NEW k \in Loads, k = LoadOf(t), pc[t] # "out",
         client.state[k].life = "live",
         NEW b, Kept(client, b), OthersKept(k, client, b), b.load = client.load,
         b.state[k].outstanding = client.state[k].outstanding,
         b.state[k].progress = "AWAIT_LOGIN" => client.state[k].progress = "AWAIT_LOGIN",
         IsRefused(k, b, client'), Returns(t), Hold(pc[t]) = 0
  PROVE  CInv'
<1>1. /\ client' \in Shared /\ StatesKept(k, client, client')
      /\ client'.inflight = client.inflight /\ client'.load \in {client.load, NoLoad, k}
      /\ client'.queued \subseteq client.queued \cup {k}
  BY DEF IsRefused, Kept, OthersKept, StatesKept
<1>2. /\ client'.state[k].outstanding = client.state[k].outstanding
      /\ client'.state[k].progress = b.state[k].progress
      /\ client'.state[k].life = "freed"
  BY DEF IsRefused
<1>3. /\ "out" \in Places /\ "none" \in Notes /\ MayBe(t, "out", "none") /\ Hold("out") = 0
      /\ Steps(t, "out", "none") /\ Onward(pc[t], "out")
  BY PlaceFacts DEF Notes, MayBe, HostPlaces, FetchPlaces, SessionPlaces, Returns, Onward, Early
<1>4. client'.state[k].outstanding + Hold(pc[t]) = client.state[k].outstanding + Hold("out")
  BY <1>2, <1>3
<1> QED BY <1>1, <1>2, <1>3, <1>4, CountKeeps

\* A step that only marks its load, its game or the queue.
LEMMA MarkKeeps ==
  ASSUME CInv, NEW t \in Threads, NEW k \in Loads, k = LoadOf(t), pc[t] # "out",
         client.state[k].life = "live",
         client' \in Shared, StatesKept(k, client, client'),
         client'.inflight = client.inflight, client'.load \in {client.load, NoLoad, k},
         client'.queued \subseteq client.queued \cup {k},
         client'.state[k].life = client.state[k].life,
         client'.state[k].outstanding = client.state[k].outstanding,
         client'.state[k].progress = "AWAIT_LOGIN" => client.state[k].progress = "AWAIT_LOGIN",
         NEW to \in Places, NEW with \in Notes, MayBe(t, to, with), Steps(t, to, with),
         Hold(to) = Hold(pc[t]), Onward(pc[t], to)
  PROVE  CInv'
<1>1. client'.state[k].outstanding + Hold(pc[t]) = client.state[k].outstanding + Hold(to)
  OBVIOUS
<1> QED BY <1>1, CountKeeps

-----------------------------------------------------------------------------
(* Every action keeps the invariant.                                        *)

\* A thread may always leave.
LEMMA LeavesFacts ==
  ASSUME NEW t \in Threads, NEW note \in Notes
  PROVE  "out" \in Places /\ MayBe(t, "out", note) /\ Hold("out") = 0
<1> QED BY PlaceFacts DEF MayBe, HostPlaces, FetchPlaces, SessionPlaces

\* The callback of a load is set aside.
LEMMA ClearedFacts ==
  ASSUME NEW c \in Shared, NEW l \in Loads
  PROVE  LET d == [c EXCEPT !.state[l].callback = FALSE]
         IN /\ d \in Shared /\ Kept(c, d) /\ OthersKept(l, c, d)
            /\ d.load = c.load /\ d.game = c.game /\ (d.corrupt <=> c.corrupt)
            /\ d.games = c.games
            /\ d.state[l] = [c.state[l] EXCEPT !.callback = FALSE]
<1> DEFINE s == [c.state[l] EXCEPT !.callback = FALSE]
<1>1. s \in LoadState
  <2>1. c.state[l] \in LoadState
    BY DEF Shared
  <2> QED BY <2>1 DEF LoadState
<1>2. [c EXCEPT !.state[l].callback = FALSE] = [c EXCEPT !.state = [c.state EXCEPT ![l] = s]]
  OBVIOUS
<1> HIDE DEF s
<1>3. LET d == [c EXCEPT !.state = [c.state EXCEPT ![l] = s]]
      IN /\ d \in Shared /\ Kept(c, d) /\ OthersKept(l, c, d)
         /\ d.load = c.load /\ d.game = c.game /\ (d.corrupt <=> c.corrupt)
         /\ d.games = c.games /\ d.state[l] = s
  BY <1>1, PutFacts
<1> QED BY <1>2, <1>3 DEF s

\* rc_client_load_aborted, its first half.
LEMMA AbortingCInv ==
  ASSUME CInv, NEW t \in Threads, Aborting(t)
  PROVE  CInv'
<1>1. PICK k \in Loads :
        /\ k = LoadOf(t) /\ client.state[k].life = "live" /\ Counted(k)
        /\ ~client.corrupt /\ client \in Shared /\ Types /\ pc[t] = "aborting"
        /\ client.state[k] \in LoadState /\ MayBe(t, "aborting", local[t])
  BY AtFactsOf DEF Aborting
<1> DEFINE b == [client EXCEPT !.state[k].callback = FALSE]
<1>2. client' = LoadError(b, k, "ABORTED") /\ Steps(t, "leaving", "none")
  BY <1>1 DEF Aborting
<1>3. /\ b \in Shared /\ Kept(client, b) /\ OthersKept(k, client, b)
      /\ b.load = client.load
      /\ b.state[k] = [client.state[k] EXCEPT !.callback = FALSE]
  BY <1>1, ClearedFacts
<1> HIDE DEF b
<1>4. b.state[k].life = "live" /\ b.state[k].outstanding = client.state[k].outstanding
  BY <1>1, <1>3 DEF LoadState
<1>5. IsError(k, b, client')
  BY <1>2, <1>3, ErrorFacts
<1>6. /\ "leaving" \in Places /\ "none" \in Notes /\ MayBe(t, "leaving", "none")
      /\ Hold("leaving") = Hold(pc[t]) /\ Onward(pc[t], "leaving")
  <2>1. t # Host
    BY <1>1, ThreadFacts DEF MayBe, HostPlaces, Early, Late
  <2> QED BY <2>1, <1>1, PlaceFacts DEF Notes, MayBe, FetchPlaces, SessionPlaces, Onward, Early
<1> QED BY <1>1, <1>2, <1>3, <1>4, <1>5, <1>6, ErrorKeeps

\* rc_client_load_aborted, its second half.
LEMMA LeavingCInv ==
  ASSUME CInv, NEW t \in Threads, Leaving(t)
  PROVE  CInv'
<1>1. PICK k \in Loads :
        /\ k = LoadOf(t) /\ client.state[k].life = "live" /\ Counted(k)
        /\ ~client.corrupt /\ client \in Shared /\ Types /\ pc[t] = "leaving"
        /\ client.state[k] \in LoadState /\ MayBe(t, "leaving", local[t])
  BY AtFactsOf DEF Leaving
<1>2. client' = EndLoadState(client, k) /\ Steps(t, "out", "none")
  BY <1>1 DEF Leaving, Returns
<1>3. IsClosed(k, client, client')
  BY <1>1, <1>2, ClosedFacts
<1>4. client' \in Shared /\ "none" \in Notes /\ Hold(pc[t]) = 1 /\ Onward(pc[t], "out")
  BY <1>1, <1>3, PlaceFacts DEF IsClosed, Notes, Onward, Early
<1> QED BY <1>1, <1>2, <1>3, <1>4, LeavesFacts, ClosedKeeps

\* The answer has come: the error is looked at before what remains.
LEMMA EndingCInv ==
  ASSUME CInv, NEW t \in Threads, Ending(t)
  PROVE  CInv'
<1>1. PICK k \in Loads :
        /\ k = LoadOf(t) /\ client.state[k].life = "live" /\ Counted(k)
        /\ ~client.corrupt /\ client \in Shared /\ Types /\ pc[t] = "ended"
        /\ client.state[k] \in LoadState /\ MayBe(t, "ended", local[t])
  BY AtFactsOf DEF Ending
<1>2. client' = EndLoadState(client, k)
  BY <1>1 DEF Ending
<1>3. IsClosed(k, client, client')
  BY <1>1, <1>2, ClosedFacts
<1>4. client' \in Shared /\ Hold(pc[t]) = 1
  BY <1>1, <1>3, PlaceFacts DEF IsClosed
<1>5. t # Host
  BY <1>1, ThreadFacts DEF MayBe, HostPlaces, Early, Late
<1>6. \E to \in Places, with \in Notes :
        /\ Steps(t, to, with) /\ MayBe(t, to, with) /\ Hold(to) = 0
  <2>1. CASE local[t] = "error"
    <3>1. Steps(t, "failing", "none")
      BY <2>1 DEF Ending
    <3>2. MayBe(t, "failing", "none")
      BY <1>5 DEF MayBe, FetchPlaces, SessionPlaces
    <3> QED BY <3>1, <3>2, PlaceFacts DEF Notes
  <2>2. CASE local[t] # "error" /\ Remaining(client, LoadOf(t)) = -1
    <3>1. Steps(t, "out", "none")
      BY <2>2 DEF Ending, Returns
    <3> QED BY <3>1, LeavesFacts DEF Notes
  <2>3. CASE local[t] = "unknown" /\ Remaining(client, LoadOf(t)) # -1
    <3>1. Steps(t, "resolving", "none")
      BY <2>3 DEF Ending
    <3>2. MayBe(t, "resolving", "none")
      BY <1>1, <1>5, <2>3 DEF MayBe, FetchPlaces, Early
    <3> QED BY <3>1, <3>2, PlaceFacts DEF Notes, Early
  <2>4. CASE local[t] \in {"sets", "empty"} /\ Remaining(client, LoadOf(t)) # -1
    <3>1. Steps(t, "starting", local[t])
      BY <2>4 DEF Ending
    <3>2. MayBe(t, "starting", local[t])
      BY <1>1, <1>5, <2>4 DEF MayBe, FetchPlaces
    <3> QED BY <3>1, <3>2, <2>4, PlaceFacts DEF Notes
  <2>5. CASE local[t] = "ok" /\ Remaining(client, LoadOf(t)) # -1
    <3>1. \/ Steps(t, "activating", "ok") \/ Steps(t, "storing", "last")
          \/ Steps(t, "storing", "none")
      <4>1. Remaining(client, LoadOf(t)) \in Int /\ Remaining(client, LoadOf(t)) >= -1
        <5>1. IsEnded(k, client, Ended(client, k))
          BY <1>1, EndedFacts
        <5>2. Ended(client, k).state[k].outstanding \in 0 .. 2
          BY <5>1 DEF IsEnded, Shared, LoadState
        <5> QED BY <5>2, <1>1 DEF Remaining
      <4>2. \/ Remaining(client, LoadOf(t)) = 0 \/ Remaining(client, LoadOf(t)) > 0
        BY <4>1, <2>5
      <4> QED BY <4>2, <2>5 DEF Ending
    <3>2. MayBe(t, "activating", "ok") /\ MayBe(t, "storing", "last") /\ MayBe(t, "storing", "none")
      BY <1>1, <1>5, <2>5 DEF MayBe, FetchPlaces, SessionPlaces, Late
    <3> QED BY <3>1, <3>2, PlaceFacts DEF Notes, Late
  <2> QED BY <1>1, <2>1, <2>2, <2>3, <2>4, <2>5 DEF MayBe
<1>7. PICK to \in Places, with \in Notes :
        /\ Steps(t, to, with) /\ MayBe(t, to, with) /\ Hold(to) = 0
  BY <1>6
<1>8. Onward(pc[t], to)
  BY <1>1 DEF Onward
<1> QED BY <1>1, <1>3, <1>4, <1>7, <1>8, ClosedKeeps

\* An answer was an error.
LEMMA FailingCInv ==
  ASSUME CInv, NEW t \in Threads, Failing(t)
  PROVE  CInv'
<1>1. PICK k \in Loads :
        /\ k = LoadOf(t) /\ client.state[k].life = "live" /\ Counted(k)
        /\ ~client.corrupt /\ client \in Shared /\ Types /\ pc[t] = "failing"
        /\ client.state[k] \in LoadState /\ MayBe(t, "failing", local[t])
  BY AtFactsOf DEF Failing
<1>2. client' = LoadError(client, k, "ERROR") /\ Steps(t, "out", "none")
  BY <1>1 DEF Failing, Returns
<1>3. IsError(k, client, client')
  BY <1>1, <1>2, ErrorFacts
<1>4. Kept(client, client) /\ OthersKept(k, client, client)
  BY DEF Kept, OthersKept, StatesKept
<1>5. "none" \in Notes /\ Hold("out") = Hold(pc[t]) /\ Onward(pc[t], "out")
  BY <1>1, PlaceFacts DEF Notes, Onward, Early
<1> QED BY <1>1, <1>2, <1>3, <1>4, <1>5, LeavesFacts, ErrorKeeps

\* The session response is kept, or the game queued.
LEMMA StoringCInv ==
  ASSUME CInv, NEW t \in Threads, Storing(t)
  PROVE  CInv'
<1>1. PICK k \in Loads :
        /\ k = LoadOf(t) /\ client.state[k].life = "live" /\ Counted(k)
        /\ ~client.corrupt /\ client \in Shared /\ Types /\ pc[t] = "storing"
        /\ client.state[k] \in LoadState /\ MayBe(t, "storing", local[t])
  BY AtFactsOf DEF Storing
<1> DEFINE s == [client.state[k] EXCEPT !.session = TRUE]
           b == [client EXCEPT !.state = [client.state EXCEPT ![k] = s]]
           queued == IF local[t] = "last" THEN client.queued \cup {k} ELSE client.queued
           d == [b EXCEPT !.queued = queued]
<1>2. client' = d /\ Steps(t, "out", "none")
  <2>1. b.queued = client.queued
    BY <1>1 DEF Shared
  <2> QED BY <1>1, <2>1 DEF Storing, Returns
<1>3. /\ s \in LoadState /\ s.life = client.state[k].life
      /\ s.outstanding = client.state[k].outstanding /\ s.progress = client.state[k].progress
  BY <1>1 DEF LoadState
<1>4. queued \subseteq Loads /\ queued \subseteq client.queued \cup {k}
  BY <1>1 DEF Shared
<1> HIDE DEF s, queued
<1>5. /\ b \in Shared /\ Kept(client, b) /\ OthersKept(k, client, b)
      /\ b.load = client.load /\ b.state[k] = s
  BY <1>1, <1>3, PutFacts
<1> HIDE DEF b
<1>6. /\ d \in Shared /\ d.state = b.state /\ d.games = b.games /\ d.inflight = b.inflight
      /\ d.load = b.load /\ d.queued = queued
  BY <1>4, <1>5 DEF Shared
<1> HIDE DEF d
<1>7. /\ client' \in Shared /\ StatesKept(k, client, client')
      /\ client'.inflight = client.inflight /\ client'.load \in {client.load, NoLoad, k}
      /\ client'.queued \subseteq client.queued \cup {k}
      /\ client'.state[k] = s
  BY <1>2, <1>4, <1>5, <1>6 DEF Kept, OthersKept, StatesKept
<1>8. "none" \in Notes /\ Hold("out") = Hold(pc[t]) /\ Onward(pc[t], "out")
  BY <1>1, PlaceFacts DEF Notes, Onward, Early
<1> QED BY <1>1, <1>2, <1>3, <1>7, <1>8, LeavesFacts, MarkKeeps

\* The request to start a session is issued, unless there is to be none.
LEMMA StartingCInv ==
  ASSUME CInv, NEW t \in Threads, Starting(t)
  PROVE  CInv'
<1>1. PICK k \in Loads :
        /\ k = LoadOf(t) /\ client.state[k].life = "live" /\ Counted(k)
        /\ ~client.corrupt /\ client \in Shared /\ Types /\ pc[t] = "starting"
        /\ client.state[k] \in LoadState /\ MayBe(t, "starting", local[t])
  BY AtFactsOf DEF Starting
<1>2. /\ client' = BeginSession(client, k) /\ Steps(t, "processing", local[t])
      /\ local[t] \in Notes
  BY <1>1 DEF Starting, Types
<1>3. t = <<k, "fetch">>
  <2>1. t # Host
    BY <1>1, ThreadFacts DEF MayBe, HostPlaces, Early, Late
  <2> QED BY <2>1, <1>1, OutstandingFacts
<1>4. /\ client.state[k].outstanding = 0 /\ client.state[k].progress # "AWAIT_LOGIN"
      /\ pc[<<k, "session">>] = "out"
      /\ pc[Host] = "out" \/ hostLoad # k \/ pc[Host] \in Late
  BY <1>1, <1>3, OutstandingFacts, ThreadFacts
<1>5. /\ "processing" \in Places /\ MayBe(t, "processing", local[t])
      /\ Hold("processing") = 1 /\ Hold("starting") = 0 /\ Onward(pc[t], "processing")
  BY <1>1, <1>3, PlaceFacts, ThreadFacts DEF MayBe, FetchPlaces, Onward, Early
<1>6. \/ IsAt(k, "STARTING", 1, client, client')
      \/ \E n : IsAt(k, "STARTING", 1, client, n) /\ IsError(k, n, client')
      \/ IsIssued(k, "session", "STARTING", 2, client, client')
  BY <1>1, <1>2, <1>4, SessionFacts
<1>7. ASSUME NEW n, IsAt(k, "STARTING", 1, client, n)
      PROVE  /\ n \in Shared /\ Kept(client, n) /\ OthersKept(k, client, n) /\ n.load = client.load
             /\ n.state[k].life = "live" /\ n.state[k].outstanding = 1
             /\ n.state[k].progress = "STARTING"
  BY <1>1, <1>4, <1>7 DEF IsAt, Standing, Kept, LoadState
<1>8. CASE IsAt(k, "STARTING", 1, client, client')
  <2>1. /\ client' \in Shared /\ StatesKept(k, client, client')
        /\ client'.inflight = client.inflight /\ client'.load = client.load
        /\ client'.queued = client.queued
        /\ client'.state[k].life = "live" /\ client'.state[k].outstanding = 1
        /\ client'.state[k].progress = "STARTING"
    BY <1>7, <1>8 DEF Kept, OthersKept, StatesKept
  <2>2. client'.state[k].outstanding + Hold(pc[t])
          = client.state[k].outstanding + Hold("processing")
    BY <2>1, <1>1, <1>4, <1>5
  <2> QED BY <2>1, <2>2, <1>1, <1>2, <1>5, CountKeeps
<1>9. CASE \E n : IsAt(k, "STARTING", 1, client, n) /\ IsError(k, n, client')
  <2>1. PICK n : IsAt(k, "STARTING", 1, client, n) /\ IsError(k, n, client')
    BY <1>9
  <2>2. /\ Kept(client, n) /\ OthersKept(k, client, n) /\ n.load = client.load
        /\ n.state[k].life = "live" /\ n.state[k].outstanding = 1
    BY <2>1, <1>7
  <2>3. /\ client' \in Shared /\ StatesKept(k, client, client')
        /\ client'.inflight = client.inflight /\ client'.load \in {client.load, NoLoad, k}
      /\ client'.queued \subseteq client.queued \cup {k}
        /\ client'.state[k].life \in {"live", "freed"} /\ client'.state[k].outstanding = 1
        /\ client'.state[k].progress = "ABORTED"
    BY <2>1, <2>2 DEF IsError, Erred, Kept, OthersKept, StatesKept
  <2>4. client'.state[k].outstanding + Hold(pc[t])
          = client.state[k].outstanding + Hold("processing")
    BY <2>3, <1>1, <1>4, <1>5
  <2> QED BY <2>3, <2>4, <1>1, <1>2, <1>5, CountKeeps
<1>10. CASE IsIssued(k, "session", "STARTING", 2, client, client')
  <2>1. /\ client' \in Shared /\ StatesKept(k, client, client')
        /\ client'.inflight = client.inflight \cup {<<k, "session">>}
        /\ client'.load = client.load /\ client'.queued = client.queued
        /\ client'.state[k].life = "live" /\ client'.state[k].outstanding = 2
        /\ client'.state[k].progress = "STARTING"
    BY <1>1, <1>4, <1>10 DEF IsIssued, Standing, OthersKept, StatesKept, LoadState
  <2>2. Goes(t, "processing", local[t]) /\ hostLoad' = hostLoad
    BY <1>2 DEF Steps
  <2>3. /\ pc'[<<k, "fetch">>] = "processing" /\ pc'[<<k, "session">>] = "out"
        /\ pc'[Host] = pc[Host]
    BY <2>2, <1>1, <1>3, <1>4, ThreadFacts DEF Goes, Types, Threads
  <2>4. <<k, "fetch">> \notin client'.inflight
    BY <2>1, <1>1, <1>3, WorkingFacts, ThreadFacts
  <2>5. /\ Fetch(k)' = "processing" /\ Session(k)' = "inflight" /\ HostOn(k)' = HostOn(k)
        /\ HostOn(k) \notin Early
    BY <2>1, <2>2, <2>3, <2>4, <1>4 DEF Fetch, Session, HostOn, Stage, Early, Late
  <2>6. Counted(k)'
    BY <2>1, <2>5, PlaceFacts DEF Counted, CountedAt, Early
  <2>7. \A u \in client'.inflight : u \in client.inflight \/ pc'[u] = "out"
    BY <2>1, <2>3
  <2>8. client'.inflight \ {<<k, "fetch">>, <<k, "session">>}
          = client.inflight \ {<<k, "fetch">>, <<k, "session">>}
    BY <2>1
  <2>9. t \notin client'.inflight
    BY <2>4, <1>3
  <2> QED BY <2>1, <2>2, <2>6, <2>7, <2>8, <2>9, <1>1, <1>2, <1>5, StepKeeps
<1> QED BY <1>6, <1>8, <1>9, <1>10

\* A response without sets is an error.
LEMMA ProcessingCInv ==
  ASSUME CInv, NEW t \in Threads, Processing(t)
  PROVE  CInv'
<1>1. PICK k \in Loads :
        /\ k = LoadOf(t) /\ client.state[k].life = "live" /\ Counted(k)
        /\ ~client.corrupt /\ client \in Shared /\ Types /\ pc[t] = "processing"
        /\ client.state[k] \in LoadState /\ MayBe(t, "processing", local[t])
  BY AtFactsOf DEF Processing
<1>2. /\ client' = LoadError(client, k, "ERROR") \/ client' = client
      /\ Steps(t, "holding", "none")
  BY <1>1 DEF Processing
<1>3. Kept(client, client) /\ OthersKept(k, client, client)
  BY DEF Kept, OthersKept, StatesKept
<1>4. /\ "holding" \in Places /\ "none" \in Notes /\ MayBe(t, "holding", "none")
      /\ Hold("holding") = Hold(pc[t]) /\ Onward(pc[t], "holding")
  <2>1. t # Host /\ t[2] # "session"
    BY <1>1, ThreadFacts DEF MayBe, HostPlaces, SessionPlaces, Early, Late
  <2> QED BY <2>1, <1>1, PlaceFacts DEF Notes, MayBe, FetchPlaces, Onward, Early
<1>5. CASE client' = LoadError(client, k, "ERROR")
  <2>1. IsError(k, client, client')
    BY <1>1, <1>5, ErrorFacts
  <2> QED BY <2>1, <1>1, <1>2, <1>3, <1>4, ErrorKeeps
<1>6. CASE client' = client
  <2>1. StatesKept(k, client, client')
    BY <1>6 DEF StatesKept
  <2> QED BY <2>1, <1>1, <1>2, <1>3, <1>4, <1>6, MarkKeeps
<1> QED BY <1>2, <1>5, <1>6

\* The hold on the load state is given up.
LEMMA HoldingCInv ==
  ASSUME CInv, NEW t \in Threads, Holding(t)
  PROVE  CInv'
<1>1. PICK k \in Loads :
        /\ k = LoadOf(t) /\ client.state[k].life = "live" /\ Counted(k)
        /\ ~client.corrupt /\ client \in Shared /\ Types /\ pc[t] = "holding"
        /\ client.state[k] \in LoadState /\ MayBe(t, "holding", local[t])
  BY AtFactsOf DEF Holding
<1> DEFINE c == EndLoadState(client, k)
           d == [c EXCEPT !.queued = @ \cup {k}]
<1>2. IsClosed(k, client, c)
  BY <1>1, ClosedFacts
<1>3. \/ client' = c /\ \E note \in {"ok", "none"} : Steps(t, "activating", note)
      \/ client' \in {c, d} /\ Steps(t, "out", "none")
  BY <1>1 DEF Holding, Returns
<1> HIDE DEF c
<1>4. c \in Shared
  BY <1>2 DEF IsClosed
<1>5. /\ d \in Shared /\ d.state = c.state /\ d.games = c.games /\ d.inflight = c.inflight
      /\ d.load = c.load /\ d.queued = c.queued \cup {k}
  <2> DEFINE queued == c.queued \cup {k}
  <2>1. queued \subseteq Loads
    BY <1>4 DEF Shared
  <2>2. d = [c EXCEPT !.queued = queued]
    OBVIOUS
  <2>3. queued = c.queued \cup {k}
    OBVIOUS
  <2> HIDE DEF queued, d
  <2> QED BY <2>1, <2>2, <2>3, <1>4 DEF Shared
<1> HIDE DEF d
<1>6. /\ client' \in Shared /\ client'.state = c.state /\ client'.games = c.games
      /\ client'.inflight = c.inflight /\ client'.load = c.load
      /\ client'.queued \subseteq c.queued \cup {k}
  BY <1>3, <1>4, <1>5
<1>7. t # Host
  BY <1>1, ThreadFacts DEF MayBe, HostPlaces, Early, Late
<1>8. \E to \in Places, with \in Notes :
        /\ Steps(t, to, with) /\ MayBe(t, to, with) /\ Hold(to) = 0 /\ Onward(pc[t], to)
  <2>1. CASE \E note \in {"ok", "none"} : Steps(t, "activating", note)
    BY <2>1, <1>7, PlaceFacts DEF Notes, MayBe, FetchPlaces, SessionPlaces, Late, Onward, Early
  <2>2. CASE Steps(t, "out", "none")
    BY <2>2, LeavesFacts DEF Notes, Onward, Early
  <2> QED BY <2>1, <2>2, <1>3
<1>9. Hold(pc[t]) = 1
  BY <1>1, PlaceFacts
<1> QED BY <1>1, <1>2, <1>6, <1>8, <1>9, ClosedKeeps

-----------------------------------------------------------------------------
(* Attaching a load and resolving its hash.                                 *)

\* A thread that identifies or activates a game may go on to do so.
LEMMA StaysFacts ==
  ASSUME NEW t \in Threads, NEW from, NEW to, NEW note, NEW with, MayBe(t, from, note),
         \/ from \in Early /\ to \in Early
         \/ from \in Late /\ to \in Late
  PROVE  /\ to \in Places /\ MayBe(t, to, with) /\ Hold(to) = Hold(from) /\ Onward(from, to)
         /\ Hold(from) = 0
<1>1. Early \cap SessionPlaces = {}
  BY DEF Early, SessionPlaces, Late
<1>2. to \in Places /\ Hold(to) = 0 /\ Hold(from) = 0
  BY PlaceFacts
<1>3. Onward(from, to)
  BY DEF Onward, Early, Late
<1>4. /\ to # "ended"
      /\ to \in HostPlaces /\ to \in FetchPlaces /\ (to \in Late => to \in SessionPlaces)
  BY DEF HostPlaces, FetchPlaces, SessionPlaces, Early, Late
<1>5. MayBe(t, to, with)
  BY <1>1, <1>4 DEF MayBe
<1> QED BY <1>2, <1>3, <1>5

\* A thread that identifies a game may leave.
LEMMA EarlyLeaves ==
  ASSUME NEW from \in Early \cup Late
  PROVE  Hold("out") = Hold(from) /\ Onward(from, "out")
<1> QED BY PlaceFacts DEF Onward, Early

\* A thread that identifies a game fetches its sets, or leaves that to the login.
LEMMA FetchKeeps ==
  ASSUME CInv, NEW t \in Threads, NEW k \in Loads, k = LoadOf(t), pc[t] \in Early,
         client.state[k].life = "live",
         NEW b, b \in Shared, Kept(client, b), OthersKept(k, client, b), b.load = client.load,
         b.state[k].life = "live", b.state[k].outstanding = client.state[k].outstanding,
         client' = BeginFetch(b, k), Returns(t)
  PROVE  CInv'
<1>1. Types /\ pc[t] # "out" /\ client \in Shared
  BY DEF CInv, Types, Early
<1>2. /\ client.state[k].outstanding = 0
      /\ t = Host \/ t = <<k, "fetch">>
      /\ <<k, "fetch">> \notin client.inflight /\ <<k, "session">> \notin client.inflight
      /\ t = Host \/ pc[Host] = "out" \/ hostLoad # k \/ pc[Host] \in Late
      /\ t = Host => pc[<<k, "fetch">>] = "out"
      /\ pc[<<k, "session">>] = "out"
  BY <1>1, OutstandingFacts
<1>3. /\ Steps(t, "out", "none") /\ Goes(t, "out", "none") /\ hostLoad' = hostLoad
      /\ "none" \in Notes
  BY DEF Returns, Steps, Notes
<1>4. /\ pc'[<<k, "fetch">>] = "out" /\ pc'[<<k, "session">>] = "out"
      /\ HostOn(k)' \notin Early
  <2>1. pc'[t] = "out" /\ \A u \in Threads : u # t => pc'[u] = pc[u]
    BY <1>1, <1>3 DEF Goes, Types
  <2>2. /\ <<k, "fetch">> \in Threads /\ <<k, "session">> \in Threads /\ Host \in Threads
        /\ <<k, "fetch">> # Host /\ <<k, "session">> # Host /\ <<k, "fetch">> # <<k, "session">>
    BY ThreadFacts DEF Threads
  <2>3. pc'[<<k, "fetch">>] = "out" /\ pc'[<<k, "session">>] = "out"
    BY <1>2, <2>1, <2>2
  <2>4. pc'[Host] = "out" \/ hostLoad' # k \/ pc'[Host] \in Late
    BY <1>2, <1>3, <2>1, <2>2
  <2>5. "out" \notin Early /\ Late \cap Early = {}
    BY DEF Early, Late
  <2> QED BY <2>3, <2>4, <2>5 DEF HostOn
<1>5. b.state[k].outstanding < 2 /\ b.state[k].outstanding = 0 /\ b.state[k] \in LoadState
  BY <1>2 DEF Shared
<1>6. \/ IsIssued(k, "fetch", "IDENTIFYING", 1, b, client')
      \/ IsAt(k, "AWAIT_LOGIN", 0, b, client')
      \/ IsError(k, b, client')
  BY <1>5, FetchFacts
<1>7. CASE IsError(k, b, client')
  <2>1. Hold("out") = Hold(pc[t]) /\ Onward(pc[t], "out")
    BY EarlyLeaves
  <2> QED BY <2>1, <1>1, <1>3, <1>7, LeavesFacts, ErrorKeeps
<1>8. CASE IsIssued(k, "fetch", "IDENTIFYING", 1, b, client')
  <2>1. /\ client' \in Shared /\ StatesKept(k, client, client')
        /\ client'.inflight = client.inflight \cup {<<k, "fetch">>}
        /\ client'.load = client.load /\ client'.queued = client.queued
        /\ client'.state[k].life = "live" /\ client'.state[k].outstanding = 1
        /\ client'.state[k].progress = "IDENTIFYING"
    BY <1>5, <1>8 DEF IsIssued, Standing, Kept, OthersKept, StatesKept, LoadState
  <2>2. Fetch(k)' = "inflight" /\ Session(k)' = "out"
    <3>1. <<k, "fetch">> \in client'.inflight /\ <<k, "session">> \notin client'.inflight
      BY <2>1, <1>2
    <3> QED BY <3>1, <1>4 DEF Fetch, Session, Stage
  <2>3. Hold("inflight") = 1 /\ Hold("out") = 0
    BY PlaceFacts
  <2>4. Counted(k)'
    BY <2>1, <2>2, <2>3, <1>4 DEF Counted, CountedAt
  <2>5. \A u \in client'.inflight : u \in client.inflight \/ pc'[u] = "out"
    BY <2>1, <1>4
  <2>6. client'.inflight \ {<<k, "fetch">>, <<k, "session">>}
          = client.inflight \ {<<k, "fetch">>, <<k, "session">>}
    BY <2>1
  <2> QED BY <2>1, <2>4, <2>5, <2>6, <1>3, LeavesFacts, StepKeeps
<1>9. CASE IsAt(k, "AWAIT_LOGIN", 0, b, client')
  <2>1. /\ client' \in Shared /\ StatesKept(k, client, client')
        /\ client'.inflight = client.inflight
        /\ client'.load = client.load /\ client'.queued = client.queued
        /\ client'.state[k].life = "live" /\ client'.state[k].outstanding = 0
        /\ client'.state[k].progress = "AWAIT_LOGIN"
    BY <1>5, <1>9 DEF IsAt, Standing, Kept, OthersKept, StatesKept, LoadState
  <2>2. Fetch(k)' = "out" /\ Session(k)' = "out"
    BY <2>1, <1>2, <1>4 DEF Fetch, Session, Stage
  <2>3. Hold("out") = 0
    BY PlaceFacts
  <2>4. Counted(k)'
    BY <2>1, <2>2, <2>3, <1>4 DEF Counted, CountedAt
  <2> QED BY <2>1, <2>4, <1>3, LeavesFacts, StepKeeps
<1> QED BY <1>6, <1>7, <1>8, <1>9

\* The first load attaches, and what was played is unloaded; a load that is not
\* current any more is refused.
LEMMA AttachingCInv ==
  ASSUME CInv, NEW t \in Threads, Attaching(t)
  PROVE  CInv'
<1>1. PICK k \in Loads :
        /\ k = LoadOf(t) /\ client.state[k].life = "live" /\ Counted(k)
        /\ ~client.corrupt /\ client \in Shared /\ Types /\ pc[t] = "attaching"
        /\ client.state[k] \in LoadState /\ MayBe(t, "attaching", local[t])
  BY AtFactsOf DEF Attaching
<1>2. /\ \A to \in Early : to \in Places /\ MayBe(t, to, "none") /\ Hold(to) = Hold(pc[t])
                           /\ Onward(pc[t], to)
      /\ Hold(pc[t]) = 0 /\ "none" \in Notes
  BY <1>1, StaysFacts DEF Early, Notes
<1>3. "attached" \in Early /\ "identifying" \in Early
  BY DEF Early
<1>4. CASE client.load = NoLoad
  <2> DEFINE u == UnloadGame(client)
             s == [u.state[k] EXCEPT !.owner = TRUE]
             b == [u EXCEPT !.state = [u.state EXCEPT ![k] = s]]
             games == [b.games EXCEPT ![k] = "live"]
             d == [b EXCEPT !.games = games]
  <2>1. IsUnloaded(client, u)
    BY <1>1, UnloadedFacts
  <2>10. u = UnloadGame(client)
    OBVIOUS
  <2> HIDE DEF u
  <2>11. client' = [u EXCEPT !.state[LoadOf(t)].owner = TRUE, !.games[LoadOf(t)] = "live"]
         /\ Steps(t, "attached", "none")
    <3>1. client.load # LoadOf(t)
      BY <1>1, <1>4, LoadAssumption
    <3> QED BY <2>10, <3>1, <1>4 DEF Attaching
  <2>2. client' = [u EXCEPT !.state[k].owner = TRUE, !.games[k] = "live"]
        /\ Steps(t, "attached", "none")
    BY <2>11, <1>1
  <2>12. \A q \in Loads : q # client.load
    BY <1>4, LoadAssumption
  <2>13. \A q \in Loads : u.state[q] = client.state[q]
    BY <2>1, <2>12 DEF IsUnloaded, Told
  <2>3. /\ u \in Shared /\ u.load = NoLoad /\ Kept(client, u)
        /\ \A q \in Loads : u.state[q] = client.state[q]
    BY <2>1, <2>13 DEF IsUnloaded
  <2>4. client' = d
    <3>1. b.games = u.games
      BY <2>3 DEF Shared
    <3> QED BY <2>2, <3>1
  <2>5. /\ s \in LoadState /\ s.life = client.state[k].life
        /\ s.outstanding = client.state[k].outstanding /\ s.progress = client.state[k].progress
    BY <2>3, <1>1 DEF LoadState
  <2> HIDE DEF s
  <2>6. /\ b \in Shared /\ Kept(u, b) /\ OthersKept(k, u, b)
        /\ b.load = u.load /\ b.state[k] = s
    BY <2>3, <2>5, PutFacts
  <2> HIDE DEF b
  <2>7. games \in [Loads -> Lives]
    BY <2>6 DEF Shared, Lives
  <2> HIDE DEF games
  <2>8. /\ d \in Shared /\ d.state = b.state /\ d.inflight = b.inflight
        /\ d.load = b.load /\ d.queued = b.queued
    BY <2>6, <2>7 DEF Shared
  <2> HIDE DEF d
  <2>9. /\ client' \in Shared /\ StatesKept(k, client, client')
        /\ client'.inflight = client.inflight /\ client'.load \in {client.load, NoLoad, k}
        /\ client'.queued \subseteq client.queued \cup {k} /\ client'.state[k] = s
    BY <2>3, <2>4, <2>6, <2>8 DEF Kept, OthersKept, StatesKept
  <2> QED BY <2>2, <2>5, <2>9, <1>1, <1>2, <1>3, MarkKeeps
<1>5. CASE client.load # NoLoad /\ client.load = k
  <2>1. client' = client /\ Steps(t, "identifying", "none")
    BY <1>1, <1>5 DEF Attaching
  <2>2. StatesKept(k, client, client')
    BY <2>1 DEF StatesKept
  <2> QED BY <2>1, <2>2, <1>1, <1>2, <1>3, MarkKeeps
<1>6. CASE client.load # NoLoad /\ client.load # k
  <2>1. client' = Refused(client, k, "ABORTED") /\ Returns(t)
    BY <1>1, <1>6 DEF Attaching
  <2>2. IsRefused(k, client, client')
    BY <2>1, <1>1, RefusedFacts
  <2>3. Kept(client, client) /\ OthersKept(k, client, client)
    BY DEF Kept, OthersKept
  <2> QED BY <2>1, <2>2, <2>3, <1>1, <1>2, RefusedKeeps
<1> QED BY <1>4, <1>5, <1>6

\* The load becomes the current one.
LEMMA AttachedCInv ==
  ASSUME CInv, NEW t \in Threads, Attached(t)
  PROVE  CInv'
<1>1. PICK k \in Loads :
        /\ k = LoadOf(t) /\ client.state[k].life = "live" /\ Counted(k)
        /\ ~client.corrupt /\ client \in Shared /\ Types /\ pc[t] = "attached"
        /\ client.state[k] \in LoadState /\ MayBe(t, "attached", local[t])
  BY AtFactsOf DEF Attached
<1>2. client' = [client EXCEPT !.load = k] /\ Steps(t, "identifying", "none")
  BY <1>1 DEF Attached
<1>3. /\ client' \in Shared /\ client'.state = client.state /\ client'.load = k
      /\ client'.inflight = client.inflight /\ client'.queued = client.queued
  BY <1>1, <1>2 DEF Shared
<1>4. StatesKept(k, client, client')
  BY <1>3 DEF StatesKept
<1>5. /\ "identifying" \in Places /\ MayBe(t, "identifying", "none")
      /\ Hold("identifying") = Hold(pc[t]) /\ Onward(pc[t], "identifying") /\ "none" \in Notes
  BY <1>1, StaysFacts DEF Early, Notes
<1> QED BY <1>1, <1>2, <1>3, <1>4, <1>5, MarkKeeps

\* The sets are fetched, or the hash is known to belong to no game.
LEMMA IdentifyingCInv ==
  ASSUME CInv, NEW t \in Threads, Identifying(t)
  PROVE  CInv'
<1>1. PICK k \in Loads :
        /\ k = LoadOf(t) /\ client.state[k].life = "live" /\ Counted(k)
        /\ ~client.corrupt /\ client \in Shared /\ Types /\ pc[t] = "identifying"
        /\ client.state[k] \in LoadState /\ MayBe(t, "identifying", local[t])
  BY AtFactsOf DEF Identifying
<1>2. \/ client' = BeginFetch(client, k) /\ Returns(t)
      \/ client' = client /\ Steps(t, "resolving", "none")
  BY <1>1 DEF Identifying
<1>3. CASE client' = BeginFetch(client, k) /\ Returns(t)
  <2>1. Kept(client, client) /\ OthersKept(k, client, client) /\ pc[t] \in Early
    BY <1>1 DEF Kept, OthersKept, Early
  <2> QED BY <2>1, <1>1, <1>3, FetchKeeps
<1>4. CASE client' = client /\ Steps(t, "resolving", "none")
  <2>1. StatesKept(k, client, client')
    BY <1>4 DEF StatesKept
  <2>2. /\ "resolving" \in Places /\ MayBe(t, "resolving", "none")
        /\ Hold("resolving") = Hold(pc[t]) /\ Onward(pc[t], "resolving") /\ "none" \in Notes
    BY <1>1, StaysFacts DEF Early, Notes
  <2> QED BY <2>1, <2>2, <1>1, <1>4, MarkKeeps
<1> QED BY <1>2, <1>3, <1>4

\* The next hash of the file is tried.
LEMMA NextHashCInv ==
  ASSUME CInv, NEW t \in Threads, NextHash(t)
  PROVE  CInv'
<1>1. PICK k \in Loads :
        /\ k = LoadOf(t) /\ client.state[k].life = "live" /\ Counted(k)
        /\ ~client.corrupt /\ client \in Shared /\ Types /\ pc[t] = "resolving"
        /\ client.state[k] \in LoadState /\ MayBe(t, "resolving", local[t])
  BY AtFactsOf DEF NextHash
<1> DEFINE fewer == client.state[k].hashes - 1
           s == [client.state[k] EXCEPT !.hashes = fewer]
           d == [client EXCEPT !.state = [client.state EXCEPT ![k] = s]]
<1>2. client' = d /\ Steps(t, "attaching", "none") /\ client.state[k].hashes > 0
  BY <1>1 DEF NextHash
<1>3. fewer \in Nat
  BY <1>1, <1>2 DEF LoadState
<1> HIDE DEF fewer
<1>4. /\ s \in LoadState /\ s.life = client.state[k].life
      /\ s.outstanding = client.state[k].outstanding /\ s.progress = client.state[k].progress
  BY <1>1, <1>3 DEF LoadState
<1> HIDE DEF s
<1>5. /\ d \in Shared /\ Kept(client, d) /\ OthersKept(k, client, d)
      /\ d.load = client.load /\ d.state[k] = s
  BY <1>1, <1>4, PutFacts
<1> HIDE DEF d
<1>6. /\ client' \in Shared /\ StatesKept(k, client, client')
      /\ client'.inflight = client.inflight /\ client'.load = client.load
      /\ client'.queued = client.queued /\ client'.state[k] = s
  BY <1>2, <1>5 DEF Kept, OthersKept, StatesKept
<1>7. /\ "attaching" \in Places /\ MayBe(t, "attaching", "none")
      /\ Hold("attaching") = Hold(pc[t]) /\ Onward(pc[t], "attaching") /\ "none" \in Notes
  BY <1>1, StaysFacts DEF Early, Notes
<1> QED BY <1>1, <1>2, <1>4, <1>6, <1>7, MarkKeeps

\* The host names the game.
LEMMA HostNamesGameCInv ==
  ASSUME CInv, NEW t \in Threads, HostNamesGame(t)
  PROVE  CInv'
<1>1. PICK k \in Loads :
        /\ k = LoadOf(t) /\ client.state[k].life = "live" /\ Counted(k)
        /\ ~client.corrupt /\ client \in Shared /\ Types /\ pc[t] = "resolving"
        /\ client.state[k] \in LoadState /\ MayBe(t, "resolving", local[t])
  BY AtFactsOf DEF HostNamesGame
<1> DEFINE s == [client.state[k] EXCEPT !.mapping = "is_unknown"]
           d == [client EXCEPT !.state = [client.state EXCEPT ![k] = s]]
<1>2. client' = BeginFetch(d, k) /\ Returns(t)
  BY <1>1 DEF HostNamesGame
<1>3. /\ s \in LoadState /\ s.life = client.state[k].life
      /\ s.outstanding = client.state[k].outstanding
  BY <1>1 DEF LoadState
<1> HIDE DEF s
<1>4. /\ d \in Shared /\ Kept(client, d) /\ OthersKept(k, client, d)
      /\ d.load = client.load /\ d.state[k] = s
  BY <1>1, <1>3, PutFacts
<1> HIDE DEF d
<1>5. pc[t] \in Early
  BY <1>1 DEF Early
<1> QED BY <1>1, <1>2, <1>3, <1>4, <1>5, FetchKeeps

\* There is no game for the hash; the error comes after the game is made current.
LEMMA UnknownGameCInv ==
  ASSUME CInv, NEW t \in Threads, UnknownGame(t)
  PROVE  CInv'
<1>1. PICK k \in Loads :
        /\ k = LoadOf(t) /\ client.state[k].life = "live" /\ Counted(k)
        /\ ~client.corrupt /\ client \in Shared /\ Types /\ pc[t] = "resolving"
        /\ client.state[k] \in LoadState /\ MayBe(t, "resolving", local[t])
  BY AtFactsOf DEF UnknownGame
<1> DEFINE s == [client.state[k] EXCEPT !.owner = FALSE]
           b == [client EXCEPT !.state = [client.state EXCEPT ![k] = s]]
           d == [b EXCEPT !.game = k]
<1>2. client' = LoadError(d, k, "ERROR") /\ Steps(t, "out", "none")
  <2>1. d = [client EXCEPT !.game = k, !.state[k].owner = FALSE]
    BY <1>1 DEF Shared
  <2> HIDE DEF d
  <2> QED BY <2>1, <1>1 DEF UnknownGame, Returns
<1>3. /\ s \in LoadState /\ s.life = client.state[k].life
      /\ s.outstanding = client.state[k].outstanding
  BY <1>1 DEF LoadState
<1> HIDE DEF s
<1>4. /\ b \in Shared /\ Kept(client, b) /\ OthersKept(k, client, b)
      /\ b.load = client.load /\ b.state[k] = s
  BY <1>1, <1>3, PutFacts
<1> HIDE DEF b
<1>5. /\ d \in Shared /\ Kept(b, d) /\ d.state = b.state /\ d.games = b.games /\ d.load = b.load
  BY <1>4 DEF Shared, Kept
<1> HIDE DEF d
<1>6. Kept(client, d) /\ OthersKept(k, client, d)
  BY <1>4, <1>5 DEF Kept, OthersKept
<1>7. IsError(k, d, client')
  BY <1>2, <1>5, ErrorFacts
<1>8. Hold("out") = Hold(pc[t]) /\ Onward(pc[t], "out") /\ "none" \in Notes /\ pc[t] # "out"
  BY <1>1, EarlyLeaves DEF Early, Notes
<1> QED BY <1>1, <1>2, <1>3, <1>4, <1>5, <1>6, <1>7, <1>8, LeavesFacts, ErrorKeeps

-----------------------------------------------------------------------------
(* Activating the game.                                                     *)

\* A load moves on.
LEMMA ProgressFacts ==
  ASSUME NEW c \in Shared, NEW l \in Loads, NEW p \in Progresses
  PROVE  LET d == [c EXCEPT !.state[l].progress = p]
         IN /\ d \in Shared /\ Kept(c, d) /\ OthersKept(l, c, d)
            /\ d.load = c.load /\ d.game = c.game /\ (d.corrupt <=> c.corrupt)
            /\ d.games = c.games
            /\ d.state[l] = [c.state[l] EXCEPT !.progress = p]
<1> DEFINE s == [c.state[l] EXCEPT !.progress = p]
<1>1. s \in LoadState
  <2>1. c.state[l] \in LoadState
    BY DEF Shared
  <2> QED BY <2>1 DEF LoadState, Progresses
<1>2. [c EXCEPT !.state[l].progress = p] = [c EXCEPT !.state = [c.state EXCEPT ![l] = s]]
  OBVIOUS
<1> HIDE DEF s
<1>3. LET d == [c EXCEPT !.state = [c.state EXCEPT ![l] = s]]
      IN /\ d \in Shared /\ Kept(c, d) /\ OthersKept(l, c, d)
         /\ d.load = c.load /\ d.game = c.game /\ (d.corrupt <=> c.corrupt)
         /\ d.games = c.games /\ d.state[l] = s
  BY <1>1, PutFacts
<1> QED BY <1>2, <1>3 DEF s

\* rc_client_activate_game begins, if the load is current and its session started.
LEMMA ActivatingCInv ==
  ASSUME CInv, NEW t \in Threads, Activating(t)
  PROVE  CInv'
<1>1. PICK k \in Loads :
        /\ k = LoadOf(t) /\ client.state[k].life = "live" /\ Counted(k)
        /\ ~client.corrupt /\ client \in Shared /\ Types /\ pc[t] = "activating"
        /\ client.state[k] \in LoadState /\ MayBe(t, "activating", local[t])
  BY AtFactsOf DEF Activating
<1> DEFINE p == IF client.load = k THEN "DONE" ELSE "ABORTED"
           c == [client EXCEPT !.state[k].progress = p]
<1>2. p \in Progresses /\ p # "AWAIT_LOGIN"
  BY DEF Progresses
<1>3. c = ActivateBegin(client, k)
  BY DEF ActivateBegin
<1> HIDE DEF p
<1>4. /\ c \in Shared /\ Kept(client, c) /\ OthersKept(k, client, c) /\ c.load = client.load
      /\ c.state[k] = [client.state[k] EXCEPT !.progress = p]
  BY <1>1, <1>2, ProgressFacts
<1> HIDE DEF c
<1>5. /\ c.state[k].life = "live" /\ c.state[k].outstanding = client.state[k].outstanding
      /\ c.state[k].progress = p
  BY <1>1, <1>4 DEF LoadState
<1>6. \/ \E result \in {"OK", "ABORTED", "ERROR"} : client' = Refused(c, k, result) /\ Returns(t)
      \/ client' = c /\ Steps(t, "applying", "none")
  BY <1>1, <1>3 DEF Activating
<1>7. /\ "applying" \in Places /\ MayBe(t, "applying", "none")
      /\ Hold("applying") = Hold(pc[t]) /\ Onward(pc[t], "applying")
      /\ "none" \in Notes /\ Hold(pc[t]) = 0
  BY <1>1, StaysFacts DEF Late, Notes
<1>8. ASSUME NEW result \in {"OK", "ABORTED", "ERROR"}, client' = Refused(c, k, result), Returns(t)
      PROVE  CInv'
  <2>1. IsRefused(k, c, client')
    BY <1>4, <1>8, RefusedFacts
  <2> QED BY <2>1, <1>1, <1>2, <1>4, <1>5, <1>7, <1>8, RefusedKeeps
<1>9. CASE client' = c /\ Steps(t, "applying", "none")
  <2>1. /\ client' \in Shared /\ StatesKept(k, client, client')
        /\ client'.inflight = client.inflight /\ client'.queued = client.queued
        /\ client'.load = client.load
    BY <1>4, <1>9 DEF Kept, OthersKept, StatesKept
  <2> QED BY <2>1, <1>1, <1>2, <1>5, <1>7, <1>9, MarkKeeps
<1> QED BY <1>6, <1>8, <1>9

\* The game becomes the one that is played, if its load is still current.
LEMMA MakingActiveCInv ==
  ASSUME CInv, NEW t \in Threads, MakingActive(t)
  PROVE  CInv'
<1>1. PICK k \in Loads :
        /\ k = LoadOf(t) /\ client.state[k].life = "live" /\ Counted(k)
        /\ ~client.corrupt /\ client \in Shared /\ Types /\ pc[t] = "applying"
        /\ client.state[k] \in LoadState /\ MayBe(t, "applying", local[t])
  BY AtFactsOf DEF MakingActive
<1>2. \A to \in {"validating", "concluding"} :
        /\ to \in Places /\ MayBe(t, to, "none") /\ Hold(to) = Hold(pc[t])
        /\ Onward(pc[t], to) /\ "none" \in Notes
  BY <1>1, StaysFacts DEF Late, Notes
<1>3. CASE client.load = k
  <2>1. client' = [client EXCEPT !.game = k] /\ Steps(t, "validating", "none")
    BY <1>1, <1>3 DEF MakingActive
  <2>2. /\ client' \in Shared /\ client'.state = client.state /\ client'.load = client.load
        /\ client'.inflight = client.inflight /\ client'.queued = client.queued
    BY <1>1, <2>1 DEF Shared
  <2>3. StatesKept(k, client, client')
    BY <2>2 DEF StatesKept
  <2> QED BY <2>1, <2>2, <2>3, <1>1, <1>2, MarkKeeps
<1>4. CASE client.load # k
  <2> DEFINE d == [client EXCEPT !.state[k].progress = "ABORTED"]
  <2>1. client' = d /\ Steps(t, "concluding", "none")
    BY <1>1, <1>4 DEF MakingActive
  <2>2. /\ d \in Shared /\ Kept(client, d) /\ OthersKept(k, client, d) /\ d.load = client.load
        /\ d.state[k] = [client.state[k] EXCEPT !.progress = "ABORTED"]
    <3>1. "ABORTED" \in Progresses
      BY DEF Progresses
    <3> QED BY <3>1, <1>1, ProgressFacts
  <2> HIDE DEF d
  <2>3. /\ client' \in Shared /\ StatesKept(k, client, client')
        /\ client'.inflight = client.inflight /\ client'.queued = client.queued
        /\ client'.load = client.load
        /\ client'.state[k].life = client.state[k].life
        /\ client'.state[k].outstanding = client.state[k].outstanding
        /\ client'.state[k].progress = "ABORTED"
    BY <2>1, <2>2, <1>1 DEF Kept, OthersKept, StatesKept, LoadState
  <2> QED BY <2>1, <2>3, <1>1, <1>2, MarkKeeps
<1> QED BY <1>3, <1>4

\* What the game watches is activated, if its load is still current.
LEMMA ValidatingCInv ==
  ASSUME CInv, NEW t \in Threads, Validating(t)
  PROVE  CInv'
<1>1. PICK k \in Loads :
        /\ k = LoadOf(t) /\ client.state[k].life = "live" /\ Counted(k)
        /\ ~client.corrupt /\ client \in Shared /\ Types /\ pc[t] = "validating"
        /\ client.state[k] \in LoadState /\ MayBe(t, "validating", local[t])
  BY AtFactsOf DEF Validating
<1>2. /\ "concluding" \in Places /\ MayBe(t, "concluding", "none")
      /\ Hold("concluding") = Hold(pc[t]) /\ Onward(pc[t], "concluding") /\ "none" \in Notes
  BY <1>1, StaysFacts DEF Late, Notes
<1>3. Steps(t, "concluding", "none")
  BY DEF Validating
<1>4. CASE client.load = k
  <2>1. client' = [client EXCEPT !.load = NoLoad]
    BY <1>1, <1>4 DEF Validating
  <2>2. /\ client' \in Shared /\ client'.state = client.state /\ client'.load = NoLoad
        /\ client'.inflight = client.inflight /\ client'.queued = client.queued
    BY <1>1, <2>1 DEF Shared
  <2>3. StatesKept(k, client, client')
    BY <2>2 DEF StatesKept
  <2> QED BY <2>2, <2>3, <1>1, <1>2, <1>3, MarkKeeps
<1>5. CASE client.load # k
  <2> DEFINE b == [client EXCEPT !.state[k].progress = "ABORTED"]
             broken == client.games[k] = "freed"
             d == [b EXCEPT !.corrupt = broken]
  <2>1. client' = d
    BY <1>1, <1>5 DEF Validating
  <2>2. /\ b \in Shared /\ Kept(client, b) /\ OthersKept(k, client, b) /\ b.load = client.load
        /\ b.state[k] = [client.state[k] EXCEPT !.progress = "ABORTED"]
    <3>1. "ABORTED" \in Progresses
      BY DEF Progresses
    <3> QED BY <3>1, <1>1, ProgressFacts
  <2>3. broken \in BOOLEAN
    OBVIOUS
  <2> HIDE DEF b, broken
  <2>4. /\ d \in Shared /\ d.state = b.state /\ d.load = b.load /\ d.inflight = b.inflight
        /\ d.queued = b.queued
    BY <2>2, <2>3 DEF Shared
  <2> HIDE DEF d
  <2>5. /\ client' \in Shared /\ StatesKept(k, client, client')
        /\ client'.inflight = client.inflight /\ client'.queued = client.queued
        /\ client'.load = client.load
        /\ client'.state[k].life = client.state[k].life
        /\ client'.state[k].outstanding = client.state[k].outstanding
        /\ client'.state[k].progress = "ABORTED"
    BY <2>1, <2>2, <2>4, <1>1 DEF Kept, OthersKept, StatesKept, LoadState
  <2> QED BY <2>5, <1>1, <1>2, <1>3, MarkKeeps
<1> QED BY <1>4, <1>5

\* The load state is freed when the game is activated, or refused.
LEMMA ConcludingCInv ==
  ASSUME CInv, NEW t \in Threads, Concluding(t)
  PROVE  CInv'
<1>1. PICK k \in Loads :
        /\ k = LoadOf(t) /\ client.state[k].life = "live" /\ Counted(k)
        /\ ~client.corrupt /\ client \in Shared /\ Types /\ pc[t] = "concluding"
        /\ client.state[k] \in LoadState /\ MayBe(t, "concluding", local[t])
  BY AtFactsOf DEF Concluding
<1>2. Returns(t)
  BY DEF Concluding
<1>3. Hold(pc[t]) = 0 /\ Hold("out") = 0 /\ Onward(pc[t], "out") /\ "none" \in Notes
  BY <1>1, EarlyLeaves, PlaceFacts DEF Late, Notes
<1>4. CASE client.state[k].progress = "ABORTED"
  <2>1. client' = Refused(client, k, "ABORTED")
    BY <1>1, <1>4 DEF Concluding
  <2>2. IsRefused(k, client, client')
    BY <2>1, <1>1, RefusedFacts
  <2>3. Kept(client, client) /\ OthersKept(k, client, client)
    BY DEF Kept, OthersKept
  <2> QED BY <2>2, <2>3, <1>1, <1>2, <1>3, RefusedKeeps
<1>5. CASE client.state[k].progress # "ABORTED"
  <2> DEFINE n == Called(client, k, "OK")
             s == [n.state[k] EXCEPT !.owner = FALSE]
             b == [n EXCEPT !.state = [n.state EXCEPT ![k] = s]]
             d == FreeLoadState(b, k)
  <2>1. client' = d
    BY <1>1, <1>5 DEF Concluding
  <2>2. IsCalled(k, client, n)
    BY <1>1, CalledFacts
  <2> HIDE DEF n
  <2>3. /\ s \in LoadState /\ s.outstanding = client.state[k].outstanding
        /\ s.progress = client.state[k].progress
    <3>1. n.state[k] \in LoadState
      BY <2>2 DEF IsCalled, Shared
    <3> QED BY <2>2, <3>1 DEF IsCalled, LoadState
  <2> HIDE DEF s
  <2>4. /\ b \in Shared /\ Kept(n, b) /\ OthersKept(k, n, b) /\ b.load = n.load /\ b.state[k] = s
    BY <2>2, <2>3, PutFacts DEF IsCalled
  <2> HIDE DEF b
  <2>5. IsFreed(k, b, d)
    BY <2>4, FreeFacts
  <2> HIDE DEF d
  <2>6. /\ client' \in Shared /\ StatesKept(k, client, client')
        /\ client'.inflight = client.inflight /\ client'.queued = client.queued
        /\ client'.load = client.load
    BY <2>1, <2>2, <2>4, <2>5 DEF IsCalled, IsFreed, Kept, OthersKept, StatesKept
  <2>7. /\ client'.state[k].life = "freed"
        /\ client'.state[k].outstanding = client.state[k].outstanding
        /\ client'.state[k].progress = client.state[k].progress
    BY <2>1, <2>3, <2>4, <2>5 DEF IsFreed, LoadState
  <2>8. client'.state[k].outstanding + Hold(pc[t]) = client.state[k].outstanding + Hold("out")
    BY <2>7, <1>3
  <2> QED BY <2>6, <2>7, <2>8, <1>1, <1>2, <1>3, LeavesFacts, CountKeeps DEF Returns
<1> QED BY <1>4, <1>5

-----------------------------------------------------------------------------
(* Answers, the host, and the theorem.                                      *)

\* An answer comes: its request is counted until the handler has given up the count.
LEMMA AnsweredCInv ==
  ASSUME CInv, NEW t \in Requests, Answered(t)
  PROVE  CInv'
<1>1. /\ t \in Threads /\ t # Host /\ Types /\ client \in Shared
      /\ t \in client.inflight /\ pc[t] = "out"
  BY ThreadFacts DEF CInv, Types, Threads, Answered
<1>2. PICK k \in Loads : (t = <<k, "fetch">> \/ t = <<k, "session">>) /\ k = LoadOf(t)
  BY <1>1, ThreadFacts
<1>3. client.state[k].life = "live" /\ Counted(k)
  BY <1>2 DEF Answered, At, CInv
<1>4. \E to \in {"aborting", "ended"}, with \in Notes : MayBe(t, to, with) /\ Steps(t, to, with)
  <2>1. CASE client.state[t[1]].aborted
    <3>1. Steps(t, "aborting", "none")
      BY <2>1 DEF Answered
    <3>2. MayBe(t, "aborting", "none")
      BY <1>1 DEF MayBe, FetchPlaces, SessionPlaces
    <3> QED BY <3>1, <3>2 DEF Notes
  <2>2. CASE ~client.state[t[1]].aborted
    <3>1. PICK a \in Answers(t) : Steps(t, "ended", a)
      BY <2>2 DEF Answered
    <3>2. client.host.answers \subseteq {"sets", "empty", "unknown", "error"}
      BY <1>1, LoadAssumption DEF Shared
    <3>3. t[2] \in {"fetch", "session"}
      BY <1>2
    <3>4. IF t[2] = "session" THEN a \in {"ok", "error"}
          ELSE a \in {"sets", "empty", "unknown", "error"}
      BY <3>1, <3>2, <3>3 DEF Answers
    <3>5. MayBe(t, "ended", a)
      BY <3>4, <1>1 DEF MayBe, FetchPlaces, SessionPlaces
    <3>6. a \in Notes
      BY <3>4 DEF Notes
    <3> QED BY <3>1, <3>5, <3>6
  <2> QED BY <2>1, <2>2
<1>5. PICK to \in {"aborting", "ended"}, with \in Notes : MayBe(t, to, with) /\ Steps(t, to, with)
  BY <1>4
<1>6. Goes(t, to, with) /\ hostLoad' = hostLoad /\ to \in Places /\ Hold(to) = 1
  BY <1>5, PlaceFacts DEF Steps
<1> DEFINE requests == client.inflight \ {t}
<1>7. requests \in SUBSET Requests
  BY <1>1 DEF Shared
<1>8. client' = [client EXCEPT !.inflight = requests]
  BY DEF Answered
<1>9. requests = client.inflight \ {t}
  OBVIOUS
<1> HIDE DEF requests
<1>10. /\ client' \in Shared /\ client'.state = client.state /\ client'.load = client.load
       /\ client'.queued = client.queued /\ client'.inflight = requests
  BY <1>1, <1>7, <1>8 DEF Shared
<1>11. StatesKept(k, client, client')
  BY <1>10 DEF StatesKept
<1>12. pc'[t] = to /\ \A u \in Threads : u # t => pc'[u] = pc[u]
  BY <1>1, <1>6 DEF Goes, Types
<1>13. /\ <<k, "fetch">> \in Threads /\ <<k, "session">> \in Threads /\ Host \in Threads
       /\ <<k, "fetch">> # <<k, "session">>
  BY ThreadFacts DEF Threads
<1>14. HostOn(k)' = HostOn(k)
  BY <1>1, <1>6, <1>12, <1>13 DEF HostOn
<1>15. Counted(k)'
  <2>1. CASE t = <<k, "fetch">>
    <3>1. Fetch(k) = "inflight" /\ Fetch(k)' = to /\ Session(k)' = Session(k)
      BY <2>1, <1>1, <1>9, <1>10, <1>12, <1>13 DEF Fetch, Session, Stage
    <3>2. /\ Session(k) = "out" /\ HostOn(k) \notin Early
          /\ client.state[k].progress # "AWAIT_LOGIN"
          /\ client.state[k].outstanding = Hold("inflight") + Hold("out")
      BY <3>1, <1>3 DEF Counted, CountedAt, Early
    <3>3. Hold("inflight") = 1
      BY PlaceFacts
    <3> QED BY <3>1, <3>2, <3>3, <1>3, <1>6, <1>10, <1>14 DEF Counted, CountedAt
  <2>2. CASE t = <<k, "session">>
    <3>1. Session(k) = "inflight" /\ Session(k)' = to /\ Fetch(k)' = Fetch(k)
      BY <2>2, <1>1, <1>9, <1>10, <1>12, <1>13 DEF Fetch, Session, Stage
    <3>2. /\ Fetch(k) \notin Early \cup {"inflight", "ended", "starting"} /\ HostOn(k) \notin Early
          /\ client.state[k].progress # "AWAIT_LOGIN"
          /\ client.state[k].outstanding = Hold(Fetch(k)) + Hold("inflight")
      BY <3>1, <1>3 DEF Counted, CountedAt
    <3>3. Hold("inflight") = 1
      BY PlaceFacts
    <3> QED BY <3>1, <3>2, <3>3, <1>3, <1>6, <1>10, <1>14 DEF Counted, CountedAt
  <2> QED BY <2>1, <2>2, <1>2
<1>16. client'.inflight \ {<<k, "fetch">>, <<k, "session">>}
         = client.inflight \ {<<k, "fetch">>, <<k, "session">>}
  BY <1>2, <1>9, <1>10
<1>17. t \notin client'.inflight /\ \A u \in client'.inflight : u \in client.inflight
  BY <1>9, <1>10
<1> QED BY <1>1, <1>2, <1>3, <1>5, <1>6, <1>10, <1>11, <1>15, <1>16, <1>17, StepKeeps

\* A load state that counts as before, or is freed.
CountsLike(s, t) ==
  /\ t.life = s.life \/ (s.life # "unused" /\ t.life = "freed")
  /\ t.outstanding = s.outstanding
  /\ t.progress = "AWAIT_LOGIN" => s.progress = "AWAIT_LOGIN"

LEMMA LikeFacts ==
  ASSUME NEW s, NEW u, NEW fetch, NEW session, NEW host,
         CountedAt(s, fetch, session, host), CountsLike(s, u)
  PROVE  CountedAt(u, fetch, session, host)
<1> QED BY DEF CountedAt, CountsLike

\* A step of the host, or the answer to a login, that moves no thread.
LEMMA MemoryKeeps ==
  ASSUME CInv, UNCHANGED threads, client' \in Shared, client'.inflight = client.inflight,
         client'.load \in {client.load, NoLoad}, client'.queued = client.queued,
         \A l \in Loads : CountsLike(client.state[l], client'.state[l])
  PROVE  CInv'
<1>1. Types /\ pc' = pc /\ local' = local /\ hostLoad' = hostLoad
  BY DEF CInv, threads
<1>2. \A l \in Loads : client'.load = l \/ l \in client'.queued => client'.state[l].life # "unused"
  <2> SUFFICES ASSUME NEW l \in Loads, client'.load = l \/ l \in client'.queued
               PROVE  client'.state[l].life # "unused"
    OBVIOUS
  <2>1. client.load = l \/ l \in client.queued
    BY LoadAssumption
  <2> QED BY <2>1, <1>1 DEF Types, CountsLike
<1>3. Types'
  BY <1>1, <1>2 DEF Types
<1>4. ASSUME NEW l \in Loads PROVE Counted(l)'
  <2>1. Fetch(l)' = Fetch(l) /\ Session(l)' = Session(l) /\ HostOn(l)' = HostOn(l)
    BY <1>1 DEF Fetch, Session, HostOn, Stage
  <2>2. CountedAt(client.state[l], Fetch(l), Session(l), HostOn(l))
    BY DEF CInv, Counted
  <2>3. CountedAt(client'.state[l], Fetch(l), Session(l), HostOn(l))
    BY <2>2, LikeFacts
  <2> QED BY <2>1, <2>3 DEF Counted
<1> QED BY <1>3, <1>4 DEF CInv

\* The host begins to work on a load.
LEMMA HostKeeps ==
  ASSUME CInv, pc[Host] = "out", NEW l \in Loads, hostLoad' = l,
         NEW to \in {"attaching", "activating"}, NEW with \in Notes, Goes(Host, to, with),
         client' \in Shared, client'.inflight = client.inflight,
         client'.load \in {client.load, NoLoad}, client'.queued \subseteq client.queued,
         \A q \in Loads \ {l} : CountsLike(client.state[q], client'.state[q]),
         client'.state[l].life # "unused",
         CountedAt(client'.state[l], Fetch(l), Session(l), to)
  PROVE  CInv'
<1>1. Types /\ pc \in [Threads -> Places] /\ local \in [Threads -> Notes]
  BY DEF CInv, Types
<1>2. /\ Host \in Threads /\ Host \notin Requests /\ to \in Places
  BY ThreadFacts, PlaceFacts DEF Early, Late
<1>3. /\ pc' \in [Threads -> Places] /\ local' \in [Threads -> Notes]
      /\ pc'[Host] = to /\ local'[Host] = with
      /\ \A u \in Threads : u # Host => pc'[u] = pc[u] /\ local'[u] = local[u]
  BY <1>1, <1>2 DEF Goes
<1>4. \A u \in Threads : MayBe(u, pc'[u], local'[u])
  <2>1. to \in HostPlaces /\ to # "ended"
    BY DEF HostPlaces, Early, Late
  <2>2. MayBe(Host, to, with)
    BY <2>1 DEF MayBe
  <2> QED BY <2>2, <1>1, <1>3 DEF Types
<1>5. \A u \in client'.inflight : pc'[u] = "out"
  <2>1. client.inflight \subseteq Requests
    BY <1>1 DEF Types, Shared
  <2> QED BY <2>1, <1>1, <1>2, <1>3 DEF Types, Threads
<1>6. \A q \in Loads : client'.load = q \/ q \in client'.queued => client'.state[q].life # "unused"
  <2> SUFFICES ASSUME NEW q \in Loads, client'.load = q \/ q \in client'.queued, q # l
               PROVE  client'.state[q].life # "unused"
    OBVIOUS
  <2>1. client.load = q \/ q \in client.queued
    BY LoadAssumption
  <2> QED BY <2>1, <1>1 DEF Types, CountsLike
<1>7. Types'
  BY <1>3, <1>4, <1>5, <1>6 DEF Types
<1>8. ASSUME NEW q \in Loads PROVE Counted(q)'
  <2>1. Fetch(q)' = Fetch(q) /\ Session(q)' = Session(q)
    BY <1>3, ThreadFacts DEF Fetch, Session, Stage, Threads
  <2>2. CASE q = l
    <3>1. HostOn(q)' = to
      BY <2>2, <1>3 DEF HostOn
    <3> QED BY <2>1, <2>2, <3>1 DEF Counted
  <2>3. CASE q # l
    <3>1. HostOn(q)' = "out" /\ HostOn(q) = "out"
      BY <2>3 DEF HostOn
    <3>2. CountedAt(client.state[q], Fetch(q), Session(q), "out")
      BY <3>1 DEF CInv, Counted
    <3>3. CountedAt(client'.state[q], Fetch(q), Session(q), "out")
      BY <2>3, <3>2, LikeFacts
    <3> QED BY <2>1, <3>1, <3>3 DEF Counted
  <2> QED BY <2>2, <2>3
<1> QED BY <1>7, <1>8 DEF CInv

\* What is told to a load does not matter to what it counts.
LEMMA ToldLike ==
  ASSUME NEW c \in Shared, NEW d, Told(c, d)
  PROVE  \A l \in Loads : CountsLike(c.state[l], d.state[l])
<1> SUFFICES ASSUME NEW l \in Loads PROVE CountsLike(c.state[l], d.state[l])
  OBVIOUS
<1>1. c.state[l] \in LoadState
  BY DEF Shared
<1>2. d.state[l] = c.state[l] \/ d.state[l] = [c.state[l] EXCEPT !.aborted = TRUE]
  BY DEF Told
<1> QED BY <1>1, <1>2 DEF CountsLike, LoadState

\* A load is begun; the one in progress is aborted.
LEMMA BeginLoadCInv ==
  ASSUME CInv, NEW l \in Loads, BeginLoad(l)
  PROVE  CInv'
<1> DEFINE c == Detached(client)
           m == IF client.load = NoLoad THEN client ELSE Called(c, client.load, "ABORTED")
<1>1. Types /\ client \in Shared /\ Counted(l) /\ pc[Host] = "out" /\ client.state[l].life = "unused"
  BY DEF CInv, Types, BeginLoad, HostIdle
<1>2. PICK n \in 0 .. client.host.hashes : client' = [m EXCEPT !.state[l] = NewLoadState(n)]
  BY DEF BeginLoad
<1>3. IsDetached(client, c)
  BY <1>1, DetachedFacts
<1>4. /\ m \in Shared /\ m.inflight = client.inflight /\ m.load = NoLoad
      /\ m.queued = client.queued
      /\ \A q \in Loads : CountsLike(client.state[q], m.state[q])
  <2>1. CASE client.load = NoLoad
    BY <1>1, <2>1 DEF CountsLike
  <2>2. CASE client.load # NoLoad
    <3>1. client.load \in Loads /\ c \in Shared
      BY <1>1, <1>3, <2>2 DEF Shared, IsDetached
    <3>2. IsCalled(client.load, c, Called(c, client.load, "ABORTED"))
      BY <3>1, CalledFacts
    <3>3. m = Called(c, client.load, "ABORTED")
      BY <2>2
    <3> HIDE DEF m, c
    <3>4. \A q \in Loads : CountsLike(client.state[q], c.state[q])
      BY <1>1, <1>3, ToldLike DEF IsDetached
    <3>5. IsCalled(client.load, c, m)
      BY <3>2, <3>3
    <3>6. ASSUME NEW q \in Loads PROVE CountsLike(client.state[q], m.state[q])
      BY <3>4, <3>5 DEF IsCalled, OthersKept, CountsLike
    <3> QED BY <3>5, <3>6, <1>3 DEF IsCalled, IsDetached, Kept
  <2> QED BY <2>1, <2>2
<1> HIDE DEF m, c
<1> DEFINE s == NewLoadState(n)
           d == [m EXCEPT !.state = [m.state EXCEPT ![l] = s]]
<1>5. client' = d
  BY <1>2
<1>6. /\ s \in LoadState /\ s.life = "live" /\ s.outstanding = 0 /\ s.progress = "NONE"
  <2>1. n \in Nat
    <3>1. client.host.hashes \in Nat
      BY <1>1, LoadAssumption DEF Shared
    <3> QED BY <3>1
  <2> QED BY <2>1 DEF NewLoadState, LoadState
<1> HIDE DEF s
<1>7. /\ d \in Shared /\ Kept(m, d) /\ OthersKept(l, m, d) /\ d.load = m.load /\ d.state[l] = s
  BY <1>4, <1>6, PutFacts
<1> HIDE DEF d
<1>8. /\ Fetch(l) = "out" /\ Session(l) = "out"
  BY <1>1 DEF Counted, CountedAt
<1>9. CountedAt(client'.state[l], Fetch(l), Session(l), "attaching")
  <2>1. Hold("out") = 0
    BY PlaceFacts
  <2> QED BY <2>1, <1>5, <1>6, <1>7, <1>8 DEF CountedAt
<1>10. \A q \in Loads \ {l} : CountsLike(client.state[q], client'.state[q])
  BY <1>4, <1>5, <1>7 DEF OthersKept
<1>11. /\ client' \in Shared /\ client'.inflight = client.inflight /\ client'.load = NoLoad
       /\ client'.queued = client.queued /\ client'.state[l].life # "unused"
  BY <1>4, <1>5, <1>6, <1>7 DEF Kept
<1>12. hostLoad' = l /\ Goes(Host, "attaching", "none") /\ "none" \in Notes
  BY DEF BeginLoad, Notes
<1> QED BY <1>1, <1>9, <1>10, <1>11, <1>12, HostKeeps

\* The host activates a game that was queued.
LEMMA DispatchActivateCInv ==
  ASSUME CInv, NEW l \in Loads, DispatchActivate(l)
  PROVE  CInv'
<1>1. Types /\ client \in Shared /\ Counted(l) /\ pc[Host] = "out" /\ l \in client.queued
  BY DEF CInv, Types, DispatchActivate, HostIdle
<1> DEFINE queued == client.queued \ {l}
<1>2. queued \in SUBSET Loads /\ queued \subseteq client.queued
  BY <1>1 DEF Shared
<1>3. client' = [client EXCEPT !.queued = queued]
  BY DEF DispatchActivate
<1> HIDE DEF queued
<1>4. /\ client' \in Shared /\ client'.state = client.state /\ client'.load = client.load
      /\ client'.queued = queued /\ client'.inflight = client.inflight
  BY <1>1, <1>2, <1>3 DEF Shared
<1>5. client.state[l].life # "unused"
  BY <1>1 DEF Types
<1>6. CountedAt(client'.state[l], Fetch(l), Session(l), "activating")
  <2>1. "activating" \notin Early
    BY DEF Early
  <2> QED BY <2>1, <1>1, <1>4, <1>5 DEF Counted, CountedAt
<1>7. \A q \in Loads \ {l} : CountsLike(client.state[q], client'.state[q])
  BY <1>4 DEF CountsLike
<1>8. PICK with \in Notes : Goes(Host, "activating", with)
  BY DEF DispatchActivate, Notes
<1>9. hostLoad' = l
  BY DEF DispatchActivate
<1> QED BY <1>1, <1>2, <1>4, <1>5, <1>6, <1>7, <1>8, <1>9, HostKeeps

\* Whoever logs out unloads the game, and a load that waits for the login fails.
LEMMA LogOutFacts ==
  ASSUME NEW c \in Shared,
         \A l \in Loads : c.load = l => c.state[l].life # "unused"
  PROVE  LET d == LogOutOf(c)
         IN /\ d \in Shared /\ d.inflight = c.inflight /\ d.queued = c.queued
            /\ d.load = NoLoad
            /\ \A l \in Loads : CountsLike(c.state[l], d.state[l])
<1> DEFINE b == [c EXCEPT !.user = "NONE", !.credentials = FALSE]
           n == UnloadGame(b)
<1>1. b \in Shared /\ b.state = c.state /\ b.load = c.load /\ b.inflight = c.inflight
      /\ b.queued = c.queued
  BY DEF Shared
<1>2. LogOutOf(c) = IF Awaiting(c) THEN LoadError(n, c.load, "ABORTED") ELSE n
  BY DEF LogOutOf
<1> HIDE DEF b
<1>3. IsUnloaded(b, n)
  BY <1>1, UnloadedFacts
<1> HIDE DEF n
<1>4. n \in Shared /\ n.load = NoLoad /\ n.inflight = c.inflight /\ n.queued = c.queued
  BY <1>1, <1>3 DEF IsUnloaded, Kept
<1>5. \A l \in Loads : CountsLike(c.state[l], n.state[l])
  <2>1. Told(b, n)
    BY <1>3 DEF IsUnloaded
  <2>2. \A l \in Loads : CountsLike(b.state[l], n.state[l])
    BY <2>1, <1>1, ToldLike
  <2> QED BY <2>2, <1>1
<1>6. CASE ~Awaiting(c)
  BY <1>2, <1>4, <1>5, <1>6
<1>7. CASE Awaiting(c)
  <2> DEFINE q == c.load
             d == LoadError(n, q, "ABORTED")
  <2>1. q \in Loads /\ c.state[q].life # "unused"
    BY <1>7 DEF Shared, Awaiting
  <2>2. IsError(q, n, d)
    BY <2>1, <1>4, ErrorFacts
  <2>3. LogOutOf(c) = d
    BY <1>2, <1>7
  <2> HIDE DEF q, d
  <2>4. d \in Shared /\ d.load = NoLoad /\ d.inflight = c.inflight /\ d.queued = c.queued
    BY <2>2, <1>4 DEF IsError, Kept
  <2>5. ASSUME NEW l \in Loads PROVE CountsLike(c.state[l], d.state[l])
    <3>1. CASE l = q
      BY <2>1, <2>2, <3>1, <1>5 DEF IsError, Erred, CountsLike
    <3>2. CASE l # q
      BY <2>2, <3>2, <1>5 DEF IsError, OthersKept
    <3> QED BY <3>1, <3>2
  <2> QED BY <2>3, <2>4, <2>5
<1> QED BY <1>6, <1>7

\* A load that waits for the login goes on when the login is answered, or fails.
LEMMA ResumedKeeps ==
  ASSUME CInv, UNCHANGED threads, NEW n, n \in Shared, n.state = client.state,
         n.load = client.load, n.inflight = client.inflight, n.queued = client.queued,
         client' = IF Awaiting(n) THEN BeginFetch(n, n.load) ELSE n
  PROVE  CInv'
<1>1. Types /\ client \in Shared /\ pc' = pc /\ local' = local /\ hostLoad' = hostLoad
  BY DEF CInv, Types, threads
<1>2. CASE ~Awaiting(n)
  <2>1. client' = n
    BY <1>2
  <2>2. \A l \in Loads : CountsLike(client.state[l], client'.state[l])
    BY <2>1 DEF CountsLike
  <2> QED BY <2>1, <2>2, MemoryKeeps
<1>3. CASE Awaiting(n)
  <2>1. n.load \in Loads /\ n.state[n.load].progress = "AWAIT_LOGIN"
    BY <1>3 DEF Awaiting, Shared
  <2>2. PICK q \in Loads : q = n.load /\ client.state[q].progress = "AWAIT_LOGIN"
    BY <2>1
  <2>3. client' = BeginFetch(n, q)
    BY <1>3, <2>2
  <2>4. /\ client.state[q].outstanding = 0 /\ Fetch(q) = "out" /\ Session(q) = "out"
        /\ client.state[q].life # "unused" /\ client.state[q] \in LoadState
        /\ client.state[q].life = "live" => HostOn(q) \notin Early
    BY <2>2, <1>1 DEF CInv, Counted, CountedAt, Types, Shared
  <2>9. n.state[q] = client.state[q] /\ n.state[q] \in LoadState
    BY <2>4
  <2>5. \/ IsIssued(q, "fetch", "IDENTIFYING", 1, n, client')
        \/ IsAt(q, "AWAIT_LOGIN", 0, n, client')
        \/ IsError(q, n, client')
    <3>1. n.state[q].outstanding < 2
      BY <2>4
    <3> QED BY <2>3, <3>1, FetchFacts
  <2>6. CASE IsAt(q, "AWAIT_LOGIN", 0, n, client')
    <3>1. client'.state[q].life = client.state[q].life /\ client'.state[q].outstanding = 0
      <4> DEFINE r == n.state[q]
                 o == n.state[q].outstanding + 0
      <4>1. r \in LoadState /\ o = 0 /\ r = client.state[q]
        BY <2>4, <2>9
      <4>2. client'.state[q] = [r EXCEPT !.progress = "AWAIT_LOGIN", !.outstanding = o]
        BY <2>6 DEF IsAt
      <4> HIDE DEF r, o
      <4> QED BY <4>1, <4>2 DEF LoadState
    <3>2. ASSUME NEW l \in Loads PROVE CountsLike(client.state[l], client'.state[l])
      BY <2>2, <2>4, <2>6, <3>1 DEF IsAt, OthersKept, CountsLike
    <3>3. /\ client' \in Shared /\ client'.inflight = client.inflight
          /\ client'.load = client.load /\ client'.queued = client.queued
      BY <2>6 DEF IsAt, Standing
    <3> QED BY <3>2, <3>3, MemoryKeeps
  <2>7. CASE IsError(q, n, client')
    <3>1. ASSUME NEW l \in Loads PROVE CountsLike(client.state[l], client'.state[l])
      BY <2>2, <2>4, <2>7 DEF IsError, Erred, OthersKept, CountsLike
    <3>2. /\ client' \in Shared /\ client'.inflight = client.inflight
          /\ client'.load = NoLoad /\ client'.queued = client.queued
      BY <2>2, <2>7 DEF IsError, Kept
    <3> QED BY <3>1, <3>2, MemoryKeeps
  <2>8. CASE IsIssued(q, "fetch", "IDENTIFYING", 1, n, client')
    <3>1. /\ client' \in Shared /\ client'.load = client.load
          /\ client'.queued = client.queued
          /\ client'.inflight = client.inflight \cup {<<q, "fetch">>}
          /\ \A l \in Loads \ {q} : client'.state[l] = client.state[l]
      BY <2>8 DEF IsIssued, Standing, OthersKept
    <3>8. /\ client'.state[q].life = client.state[q].life
          /\ client'.state[q].outstanding = 1
          /\ client'.state[q].progress = "IDENTIFYING"
      <4> DEFINE r == n.state[q]
                 o == n.state[q].outstanding + 1
      <4>1. r \in LoadState /\ o = 1 /\ r = client.state[q]
        BY <2>4, <2>9
      <4>2. client'.state[q] = [r EXCEPT !.progress = "IDENTIFYING", !.outstanding = o]
        BY <2>8 DEF IsIssued
      <4> HIDE DEF r, o
      <4> QED BY <4>1, <4>2 DEF LoadState
    <3>2. /\ <<q, "fetch">> \notin client.inflight /\ <<q, "session">> \notin client.inflight
          /\ pc[<<q, "fetch">>] = "out" /\ pc[<<q, "session">>] = "out"
      BY <2>4 DEF Fetch, Session, Stage
    <3>3. \A l \in Loads :
            client'.load = l \/ l \in client'.queued => client'.state[l].life # "unused"
      <4>1. ASSUME NEW l \in Loads PROVE client'.state[l].life = client.state[l].life
        BY <3>1, <3>8
      <4> QED BY <3>1, <4>1, <1>1 DEF Types
    <3>4. \A u \in client'.inflight : pc'[u] = "out"
      BY <3>1, <3>2, <1>1 DEF Types
    <3>5. Types'
      BY <3>1, <3>3, <3>4, <1>1 DEF Types
    <3>6. Counted(q)'
      <4>1. <<q, "fetch">> \in client'.inflight /\ <<q, "session">> \notin client'.inflight
        BY <3>1, <3>2
      <4>2. Fetch(q)' = "inflight" /\ Session(q)' = "out"
        BY <3>2, <4>1, <1>1 DEF Fetch, Session, Stage
      <4>3. HostOn(q)' = HostOn(q)
        BY <1>1 DEF HostOn
      <4>4. Hold("inflight") = 1 /\ Hold("out") = 0
        BY PlaceFacts
      <4> QED BY <2>4, <3>8, <4>2, <4>3, <4>4 DEF Counted, CountedAt
    <3>7. ASSUME NEW l \in Loads, l # q PROVE Counted(l)'
      <4>1. <<l, "fetch">> # <<q, "fetch">> /\ <<l, "session">> # <<q, "fetch">>
        BY <3>7
      <4>2. Fetch(l)' = Fetch(l) /\ Session(l)' = Session(l) /\ HostOn(l)' = HostOn(l)
        BY <3>1, <4>1, <1>1 DEF Fetch, Session, HostOn, Stage
      <4>3. CountedAt(client.state[l], Fetch(l), Session(l), HostOn(l))
        BY DEF CInv, Counted
      <4> QED BY <3>1, <3>7, <4>2, <4>3 DEF Counted
    <3> QED BY <3>5, <3>6, <3>7 DEF CInv
  <2> QED BY <2>5, <2>6, <2>7, <2>8
<1> QED BY <1>2, <1>3

\* The other calls of the host, and the answer to a login.
LEMMA HostCInv ==
  ASSUME CInv,
         \/ Unload \/ BeginLogin \/ LogOut \/ AbortLogin
         \/ \E l \in Loads : AbortLoad(l)
         \/ LoginAnswered
  PROVE  CInv'
<1>1. Types /\ client \in Shared /\ UNCHANGED threads
  BY DEF CInv, Types, Unload, BeginLogin, LogOut, AbortLogin, AbortLoad, LoginAnswered
<1>2. \A l \in Loads : client.load = l => client.state[l].life # "unused"
  BY <1>1 DEF Types
<1>3. CASE Unload
  <2>1. IsUnloaded(client, client')
    BY <1>1, <1>3, UnloadedFacts DEF Unload
  <2>2. /\ client' \in Shared /\ client'.inflight = client.inflight /\ client'.load = NoLoad
        /\ client'.queued = client.queued /\ Told(client, client')
    BY <2>1 DEF IsUnloaded, Kept
  <2>3. \A l \in Loads : CountsLike(client.state[l], client'.state[l])
    BY <1>1, <2>2, ToldLike
  <2> QED BY <1>1, <2>2, <2>3, MemoryKeeps
<1>4. CASE BeginLogin \/ AbortLogin
  <2>1. /\ client' \in Shared /\ client'.inflight = client.inflight
        /\ client'.load = client.load /\ client'.queued = client.queued
        /\ client'.state = client.state
    <3>1. CASE BeginLogin
      BY <1>1, <3>1 DEF BeginLogin, Shared
    <3>2. CASE AbortLogin
      BY <1>1, <3>2 DEF AbortLogin, Shared
    <3> QED BY <3>1, <3>2, <1>4
  <2>2. \A l \in Loads : CountsLike(client.state[l], client'.state[l])
    BY <2>1 DEF CountsLike
  <2> QED BY <1>1, <2>1, <2>2, MemoryKeeps
<1>5. CASE LogOut
  <2>1. client' = LogOutOf(client)
    BY <1>5 DEF LogOut
  <2> QED BY <1>1, <1>2, <2>1, LogOutFacts, MemoryKeeps
<1>6. CASE \E l \in Loads : AbortLoad(l)
  <2>1. PICK l \in Loads : AbortLoad(l)
    BY <1>6
  <2> DEFINE s == [client.state[l] EXCEPT !.aborted = TRUE]
             d == [client EXCEPT !.state = [client.state EXCEPT ![l] = s]]
  <2>2. client' = d
    BY <2>1 DEF AbortLoad
  <2>3. /\ s \in LoadState /\ CountsLike(client.state[l], s)
    <3>1. client.state[l] \in LoadState
      BY <1>1 DEF Shared
    <3> QED BY <3>1 DEF LoadState, CountsLike
  <2> HIDE DEF s
  <2>4. /\ d \in Shared /\ Kept(client, d) /\ OthersKept(l, client, d)
        /\ d.load = client.load /\ d.state[l] = s
    BY <1>1, <2>3, PutFacts
  <2> HIDE DEF d
  <2>5. ASSUME NEW q \in Loads PROVE CountsLike(client.state[q], client'.state[q])
    <3>1. CASE q = l
      BY <2>2, <2>3, <2>4, <3>1
    <3>2. CASE q # l
      BY <2>2, <2>4, <3>2 DEF OthersKept, CountsLike
    <3> QED BY <3>1, <3>2
  <2> QED BY <1>1, <2>2, <2>4, <2>5, MemoryKeeps DEF Kept
<1>7. CASE LoginAnswered
  <2> DEFINE c == [client EXCEPT !.login = "none"]
             Resumed(n) == IF Awaiting(n) THEN BeginFetch(n, n.load) ELSE n
             in == [c EXCEPT !.user = "LOGGED_IN", !.credentials = TRUE]
             out == [c EXCEPT !.user = "NONE"]
  <2>1. client' \in {LogOutOf(c), c, Resumed(in), Resumed(out)}
    BY <1>7 DEF LoginAnswered
  <2>2. /\ c \in Shared /\ c.state = client.state /\ c.load = client.load
        /\ c.inflight = client.inflight /\ c.queued = client.queued
    BY <1>1 DEF Shared
  <2> HIDE DEF c
  <2>3. /\ in \in Shared /\ in.state = client.state /\ in.load = client.load
        /\ in.inflight = client.inflight /\ in.queued = client.queued
    BY <2>2 DEF Shared
  <2>4. /\ out \in Shared /\ out.state = client.state /\ out.load = client.load
        /\ out.inflight = client.inflight /\ out.queued = client.queued
    BY <2>2 DEF Shared
  <2>5. CASE client' = LogOutOf(c)
    <3>1. \A l \in Loads : c.load = l => c.state[l].life # "unused"
      BY <1>2, <2>2
    <3>2. /\ client' \in Shared /\ client'.inflight = c.inflight /\ client'.queued = c.queued
          /\ client'.load = NoLoad
          /\ \A l \in Loads : CountsLike(c.state[l], client'.state[l])
      BY <2>2, <2>5, <3>1, LogOutFacts
    <3>3. \A l \in Loads : CountsLike(client.state[l], client'.state[l])
      BY <2>2, <3>2
    <3> QED BY <1>1, <2>2, <3>2, <3>3, MemoryKeeps
  <2>6. CASE client' = c
    <3>1. \A l \in Loads : CountsLike(client.state[l], client'.state[l])
      BY <2>2, <2>6 DEF CountsLike
    <3> QED BY <1>1, <2>2, <2>6, <3>1, MemoryKeeps
  <2>7. CASE client' = Resumed(in)
    <3> HIDE DEF in
    <3> QED BY <1>1, <2>3, <2>7, ResumedKeeps
  <2>8. CASE client' = Resumed(out)
    <3> HIDE DEF out
    <3> QED BY <1>1, <2>4, <2>8, ResumedKeeps
  <2> QED BY <2>1, <2>5, <2>6, <2>7, <2>8
<1> QED BY <1>3, <1>4, <1>5, <1>6, <1>7

\* A handler that uses a load state that was freed spoils the memory, no count.
LEMMA UseAfterFreeCInv ==
  ASSUME CInv, NEW t \in Threads, UseAfterFree(t)
  PROVE  CInv'
<1>1. client \in Shared /\ UNCHANGED threads /\ client' = [client EXCEPT !.corrupt = TRUE]
  BY DEF CInv, Types, UseAfterFree
<1>2. /\ client' \in Shared /\ client'.inflight = client.inflight
      /\ client'.load = client.load /\ client'.queued = client.queued
      /\ client'.state = client.state
  BY <1>1 DEF Shared
<1>3. \A l \in Loads : CountsLike(client.state[l], client'.state[l])
  BY <1>2 DEF CountsLike
<1> QED BY <1>1, <1>2, <1>3, MemoryKeeps

\* Nothing is loaded at first.
LEMMA InitCInv ==
  ASSUME Init
  PROVE  CInv
<1>1. PICK h \in Hosts : client =
        [host |-> h, load |-> NoLoad, game |-> NoLoad, login |-> "none",
         user |-> IF h.logins THEN "NONE" ELSE "LOGGED_IN", credentials |-> ~h.logins,
         inflight |-> {}, queued |-> {},
         state |-> [l \in Loads |-> [NewLoadState(0) EXCEPT !.life = "unused"]],
         games |-> [l \in Loads |-> "none"], corrupt |-> FALSE]
  BY DEF Init
<1> DEFINE s == [NewLoadState(0) EXCEPT !.life = "unused"]
<1>2. /\ s \in LoadState /\ s.life = "unused" /\ s.progress = "NONE"
  <2> DEFINE r == NewLoadState(0)
  <2>1. r \in LoadState /\ r.progress = "NONE"
    BY DEF NewLoadState, LoadState
  <2> HIDE DEF r
  <2>2. [r EXCEPT !.life = "unused"] \in LoadState
    BY <2>1 DEF LoadState
  <2>3. [r EXCEPT !.life = "unused"].life = "unused" /\ [r EXCEPT !.life = "unused"].progress = "NONE"
    BY <2>1 DEF LoadState
  <2> QED BY <2>2, <2>3 DEF r
<1> HIDE DEF s
<1>3. /\ client \in Shared /\ client.inflight = {} /\ client.queued = {} /\ client.load = NoLoad
      /\ \A l \in Loads : client.state[l] = s
  <2> DEFINE states == [l \in Loads |-> s]
             games == [l \in Loads |-> "none"]
             user == IF h.logins THEN "NONE" ELSE "LOGGED_IN"
             known == ~h.logins
  <2>1. /\ states \in [Loads -> LoadState] /\ games \in [Loads -> Lives]
        /\ user \in {"NONE", "LOGIN_REQUESTED", "LOGGED_IN"} /\ known \in BOOLEAN
        /\ \A l \in Loads : states[l] = s
    BY <1>2 DEF Lives
  <2>2. client =
          [host |-> h, load |-> NoLoad, game |-> NoLoad, login |-> "none",
           user |-> user, credentials |-> known, inflight |-> {}, queued |-> {},
           state |-> states, games |-> games, corrupt |-> FALSE]
    BY <1>1 DEF s
  <2> HIDE DEF states, games, user, known
  <2> QED BY <2>1, <2>2 DEF Shared
<1>4. /\ pc = [t \in Threads |-> "out"] /\ local = [t \in Threads |-> "none"]
      /\ hostLoad = NoLoad
  BY DEF Init
<1>5. Types
  <2>1. "out" \in Places /\ "none" \in Notes /\ \A t \in Threads : MayBe(t, "out", "none")
    <3>1. "none" \in Notes
      BY DEF Notes
    <3> QED BY <3>1, PlaceFacts, LeavesFacts
  <2>2. pc \in [Threads -> Places] /\ local \in [Threads -> Notes]
        /\ \A t \in Threads : MayBe(t, pc[t], local[t])
    BY <1>4, <2>1
  <2>3. pc[Host] = "out"
    BY <1>4, ThreadFacts
  <2> QED BY <1>3, <1>4, <2>2, <2>3, LoadAssumption DEF Types
<1>6. ASSUME NEW l \in Loads PROVE Counted(l)
  <2>1. pc[<<l, "fetch">>] = "out" /\ pc[<<l, "session">>] = "out" /\ pc[Host] = "out"
    BY <1>4, ThreadFacts DEF Threads
  <2>2. Fetch(l) = "out" /\ Session(l) = "out" /\ HostOn(l) = "out"
    BY <1>3, <2>1 DEF Fetch, Session, HostOn, Stage
  <2> QED BY <1>2, <1>3, <2>2 DEF Counted, CountedAt
<1> QED BY <1>5, <1>6 DEF CInv

\* Every step keeps the invariant.
LEMMA NextCInv ==
  ASSUME CInv, [Next]_vars
  PROVE  CInv'
<1>1. ASSUME NEW t \in Threads, Step(t) PROVE CInv'
  <2>1. CASE Aborting(t) \/ Leaving(t) \/ Ending(t) \/ Failing(t) \/ Storing(t)
    BY <2>1, AbortingCInv, LeavingCInv, EndingCInv, FailingCInv, StoringCInv
  <2>2. CASE Starting(t) \/ Processing(t) \/ Holding(t)
    BY <2>2, StartingCInv, ProcessingCInv, HoldingCInv
  <2>3. CASE Attaching(t) \/ Attached(t) \/ Identifying(t)
    BY <2>3, AttachingCInv, AttachedCInv, IdentifyingCInv
  <2>4. CASE NextHash(t) \/ HostNamesGame(t) \/ UnknownGame(t)
    BY <2>4, NextHashCInv, HostNamesGameCInv, UnknownGameCInv
  <2>5. CASE Activating(t) \/ MakingActive(t) \/ Validating(t) \/ Concluding(t)
    BY <2>5, ActivatingCInv, MakingActiveCInv, ValidatingCInv, ConcludingCInv
  <2> QED BY <1>1, <2>1, <2>2, <2>3, <2>4, <2>5 DEF Step
<1>2. ASSUME HostNext PROVE CInv'
  <2>1. ASSUME NEW l \in Loads, BeginLoad(l) \/ DispatchActivate(l) PROVE CInv'
    BY <2>1, BeginLoadCInv, DispatchActivateCInv
  <2> QED BY <1>2, <2>1, HostCInv DEF HostNext
<1>3. ASSUME LoginAnswered PROVE CInv'
  BY <1>3, HostCInv
<1>4. ASSUME NEW t \in Requests, Answered(t) PROVE CInv'
  BY <1>4, AnsweredCInv
<1>5. ASSUME NEW t \in Threads, UseAfterFree(t) PROVE CInv'
  BY <1>5, UseAfterFreeCInv
<1>6. ASSUME UNCHANGED vars PROVE CInv'
  <2>1. UNCHANGED threads /\ client' = client /\ client \in Shared
    BY <1>6 DEF vars, CInv, Types
  <2>2. \A l \in Loads : CountsLike(client.state[l], client'.state[l])
    BY <2>1 DEF CountsLike
  <2> QED BY <2>1, <2>2, MemoryKeeps
<1> QED BY <1>1, <1>2, <1>3, <1>4, <1>5, <1>6 DEF Next

\* Types, and where the requests of every load are.
THEOREM CountInvariant == Spec => []CInv
<1>1. Init => CInv
  BY InitCInv
<1>2. CInv /\ [Next]_vars => CInv'
  BY NextCInv
<1> QED BY <1>1, <1>2, PTL DEF Spec

\* How many of two things are in a set.
LEMMA OfTwo ==
  ASSUME NEW a, NEW b, a # b, NEW S, S \subseteq {a, b}
  PROVE  Cardinality(S) = (IF a \in S THEN 1 ELSE 0) + (IF b \in S THEN 1 ELSE 0)
<1>1. Cardinality({}) = 0 /\ Cardinality({a}) = 1 /\ Cardinality({b}) = 1
  BY FS_EmptySet, FS_Singleton
<1>2. Cardinality({a, b}) = 2
  <2>1. IsFiniteSet({a}) /\ b \notin {a} /\ {a} \cup {b} = {a, b}
    BY FS_Singleton
  <2>2. Cardinality({a} \cup {b}) = Cardinality({a}) + 1
    BY <2>1, FS_AddElement
  <2> QED BY <2>1, <2>2, <1>1
<1>3. CASE a \in S /\ b \in S
  <2>1. S = {a, b}
    BY <1>3
  <2> QED BY <2>1, <1>2
<1>4. CASE a \in S /\ b \notin S
  <2>1. S = {a}
    BY <1>4
  <2> QED BY <2>1, <1>1, <1>4
<1>5. CASE a \notin S /\ b \in S
  <2>1. S = {b}
    BY <1>5
  <2> QED BY <2>1, <1>1, <1>5
<1>6. CASE a \notin S /\ b \notin S
  <2>1. S = {}
    BY <1>6
  <2> QED BY <2>1, <1>1, <1>6
<1> QED BY <1>3, <1>4, <1>5, <1>6

\* The invariant counts what outstanding_requests counts.
LEMMA CountsRequests ==
  ASSUME CInv
  PROVE  RequestsCounted
<1> DEFINE holds == {"aborting", "leaving", "ended", "processing", "holding"}
<1> SUFFICES ASSUME NEW l \in Loads, client.state[l].life = "live"
             PROVE  client.state[l].outstanding =
                      Cardinality({t \in client.inflight : t[1] = l})
                        + Cardinality({t \in Threads : pc[t] \in holds /\ LoadOf(t) = l})
  BY DEF RequestsCounted
<1> DEFINE f == <<l, "fetch">>
           s == <<l, "session">>
           requests == {t \in client.inflight : t[1] = l}
           holding == {t \in Threads : pc[t] \in holds /\ LoadOf(t) = l}
<1>1. Types /\ client.state[l].outstanding = Hold(Fetch(l)) + Hold(Session(l))
  BY DEF CInv, Counted, CountedAt
<1>2. f # s /\ f \in Threads /\ s \in Threads /\ LoadOf(f) = l /\ LoadOf(s) = l
      /\ f[1] = l /\ s[1] = l
  BY ThreadFacts DEF Threads
<1>3. requests \subseteq {f, s}
  <2>1. \A t \in client.inflight : t \in Requests
    BY <1>1 DEF Types, Shared
  <2>2. \A t \in Requests : t[1] = l => t \in {f, s}
    BY DEF Requests, Kinds
  <2> QED BY <2>1, <2>2
<1>4. holding \subseteq {f, s}
  <2> SUFFICES ASSUME NEW t \in Threads, pc[t] \in holds, LoadOf(t) = l
               PROVE  t \in {f, s}
    OBVIOUS
  <2>1. t # Host
    BY <1>1 DEF Types, MayBe, HostPlaces, Early, Late
  <2>2. pc[t] # "out"
    OBVIOUS
  <2> QED BY <2>1, <2>2, <1>1, WorkingFacts
<1>5. /\ f \in requests <=> f \in client.inflight
      /\ s \in requests <=> s \in client.inflight
      /\ f \in holding <=> pc[f] \in holds
      /\ s \in holding <=> pc[s] \in holds
  BY <1>2
<1>6. ASSUME NEW t \in {f, s}
      PROVE  t \in client.inflight => pc[t] \notin holds
  BY <1>1 DEF Types
<1>7. /\ Hold(Fetch(l)) = (IF f \in requests THEN 1 ELSE 0) + (IF f \in holding THEN 1 ELSE 0)
      /\ Hold(Session(l)) = (IF s \in requests THEN 1 ELSE 0) + (IF s \in holding THEN 1 ELSE 0)
  <2>1. Fetch(l) = IF f \in client.inflight THEN "inflight" ELSE pc[f]
    BY DEF Fetch, Stage
  <2>2. Session(l) = IF s \in client.inflight THEN "inflight" ELSE pc[s]
    BY DEF Session, Stage
  <2>3. /\ f \in Threads => pc[f] # "inflight"
        /\ s \in Threads => pc[s] # "inflight"
    BY <1>1 DEF Types, Places, FetchPlaces, SessionPlaces, Early, Late
  <2> HIDE DEF f, s, requests, holding
  <2> QED BY <2>1, <2>2, <2>3, <1>2, <1>5, <1>6 DEF Hold
<1> HIDE DEF f, s, requests, holding
<1>8. /\ Cardinality(requests)
           = (IF f \in requests THEN 1 ELSE 0) + (IF s \in requests THEN 1 ELSE 0)
      /\ Cardinality(holding)
           = (IF f \in holding THEN 1 ELSE 0) + (IF s \in holding THEN 1 ELSE 0)
  BY <1>2, <1>3, <1>4, OfTwo
<1>9. client.state[l].outstanding = Cardinality(requests) + Cardinality(holding)
  BY <1>1, <1>7, <1>8
<1> QED BY <1>9 DEF requests, holding

\* outstanding_requests counts what may still use the load state, for any number of
\* loads, with handlers on threads of their own or not.
THEOREM RequestsCountedAlways == Spec => []RequestsCounted
<1>1. CInv => RequestsCounted
  BY CountsRequests
<1> QED BY <1>1, CountInvariant, PTL

-----------------------------------------------------------------------------
(* Handlers on the thread of the host.                                      *)


\* Server and client agree that a game has sets: a response without any is used after
\* the load state has been freed.
SetsAreSent == "empty" \notin client.host.answers

-----------------------------------------------------------------------------
(* The inductive invariant.                                                 *)

\* The handlers run on the thread of the host.
Sequential == ~client.host.threaded

\* What a thread has been answered where it is.
NoteFits(t, place, note, h) ==
  /\ place = "activating" => note = "ok" \/ h.spectating
  /\ t # Host /\ t[2] = "fetch" /\ place \in {"ended", "starting", "processing"} =>
       note # "empty"

\* One of the threads of a load is in one of some places.
Any(fetch, session, host, places) ==
  fetch \in places \/ session \in places \/ host \in places

\* Places that are only reached, and only left, by the load that is current.
OfCurrent == {"ended", "failing", "starting", "storing", "identifying", "resolving",
              "applying", "validating"}

\* What a live load state has to be while the two requests of its load, and the
\* host, are where they are.
LiveAt(s, game, current, played, queued, fetch, session, last, host, h) ==
  /\ s.calls <= 1
  /\ s.owner => game = "live"
  /\ current \/ host = "attached" => s.owner
  /\ played /\ s.owner => Any(fetch, session, host, {"validating", "concluding"})
  /\ (fetch = "inflight" \/ session = "inflight") /\ ~s.aborted => current
  /\ queued =>
       /\ fetch = "out" /\ session = "out" /\ host = "out" /\ ~h.background
       /\ s.progress # "AWAIT_LOGIN" /\ (s.session \/ h.spectating)
  /\ Any(fetch, session, host, OfCurrent) => current
  /\ fetch \in {"attaching", "activating"} \/ session = "activating" => current
  /\ fetch # "attached"
  /\ host = "activating" => current \/ ~h.background
  /\ fetch \in {"aborting", "leaving", "failing"} \cup Late => session = "out"
  /\ session \in Late => fetch = "out"
  /\ host \in Late => fetch = "out" /\ session = "out"
  /\ Any(fetch, session, host, {"applying", "validating", "concluding"}) =>
       s.progress = "DONE" /\ s.calls = 0
  /\ Any(fetch, session, host, {"validating", "concluding"}) => played
  /\ fetch = "leaving" \/ session = "leaving" => ~current /\ s.progress = "ABORTED"
  /\ Any(fetch, session, host, {"concluding"}) => ~current
  /\ fetch \in {"processing", "holding"} =>
       /\ ~current => s.progress = "ABORTED"
       /\ current /\ session = "out" => s.session \/ h.spectating
  /\ session = "storing" /\ last => fetch = "out" /\ ~h.background
  /\ current \/ host \in {"attaching", "attached"} => s.calls = 0

\* A load state that was freed is nowhere, and the game that is played is not freed.
SafeAt(s, game, current, played, queued, fetch, session, last, host, h) ==
  /\ s.life # "live" =>
       /\ ~current /\ ~queued /\ fetch = "out" /\ session = "out" /\ host = "out"
  /\ played => game = "live"
  /\ s.calls <= IF h.background THEN 1 ELSE 2
  /\ s.life = "live" =>
       LiveAt(s, game, current, played, queued, fetch, session, last, host, h)

SafeLoad(l) ==
  SafeAt(client.state[l], client.games[l], client.load = l, client.game = l,
         l \in client.queued, Fetch(l), Session(l), local[<<l, "session">>] = "last",
         HostOn(l), client.host)

Safe ==
  /\ ~client.corrupt
  /\ \A t \in Threads : NoteFits(t, pc[t], local[t], client.host)
  /\ \A t \in Threads : pc[t] = "attached" => client.load = NoLoad
  /\ \A l \in Loads : SafeLoad(l)

SInv == CInv /\ (Sequential /\ SetsAreSent => Safe)

\* The host does not change.
SameHost(c, d) == d.host = c.host

Calm == {"out", "inflight"}

-----------------------------------------------------------------------------
(* Steps of one thread at a time.                                           *)

\* While a thread runs, no other is anywhere, but that a session may be answered while
\* the sets of its load are processed.
LEMMA QuietFacts ==
  ASSUME Types, Sequential, NEW t \in Threads, Runs(t), NEW k \in Loads, k = LoadOf(t),
         pc[t] # "out" \/ t \in client.inflight
  PROVE  /\ \A u \in Threads : u # t =>
              pc[u] = "out" \/ (t = <<k, "session">> /\ u = <<k, "fetch">> /\ pc[u] = "processing")
         /\ \A q \in Loads \ {k} : Fetch(q) \in Calm /\ Session(q) \in Calm /\ HostOn(q) = "out"
         /\ t = Host => Fetch(k) \in Calm /\ Session(k) \in Calm
         /\ t = <<k, "fetch">> => Session(k) \in Calm /\ HostOn(k) = "out"
         /\ t = <<k, "session">> => Fetch(k) \in Calm \cup {"processing"} /\ HostOn(k) = "out"
<1>1. t = Host \/ t = <<k, "fetch">> \/ t = <<k, "session">>
  <2>1. t # Host => t = <<k, "fetch">> \/ t = <<k, "session">>
    BY ThreadFacts
  <2> QED BY <2>1
<1>2. ASSUME NEW u \in Threads, u # t
      PROVE  pc[u] = "out" \/ (t = <<k, "session">> /\ u = <<k, "fetch">> /\ pc[u] = "processing")
  <2>1. CASE Running \subseteq {t}
    BY <1>2, <2>1 DEF Running
  <2>2. CASE \E l \in Loads : /\ t = <<l, "session">> /\ Running \subseteq {t, <<l, "fetch">>}
                              /\ pc[<<l, "fetch">>] = "processing"
    <3>1. PICK l \in Loads : /\ t = <<l, "session">> /\ Running \subseteq {t, <<l, "fetch">>}
                             /\ pc[<<l, "fetch">>] = "processing"
      BY <2>2
    <3>2. l = k
      BY <3>1, ThreadFacts
    <3> QED BY <3>1, <3>2, <1>2 DEF Running
  <2> QED BY <2>1, <2>2 DEF Runs, Sequential
<1>3. ASSUME NEW q \in Loads \ {k} PROVE Fetch(q) \in Calm /\ Session(q) \in Calm /\ HostOn(q) = "out"
  <2>1. /\ <<q, "fetch">> \in Threads /\ <<q, "session">> \in Threads
        /\ <<q, "fetch">> # t /\ <<q, "session">> # t
        /\ <<q, "fetch">> # <<k, "fetch">> /\ <<q, "session">> # <<k, "fetch">>
    BY ThreadFacts DEF Threads
  <2>2. pc[<<q, "fetch">>] = "out" /\ pc[<<q, "session">>] = "out"
    BY <1>2, <2>1
  <2>3. HostOn(q) = "out"
    <3>1. CASE t = Host
      BY <3>1, ThreadFacts DEF HostOn
    <3>2. CASE t # Host
      BY <3>2, <1>2, ThreadFacts DEF HostOn
    <3> QED BY <3>1, <3>2
  <2> QED BY <2>2, <2>3 DEF Fetch, Session, Stage, Calm
<1>4. /\ <<k, "fetch">> \in Threads /\ <<k, "session">> \in Threads /\ Host \in Threads
      /\ <<k, "fetch">> # Host /\ <<k, "session">> # Host /\ <<k, "fetch">> # <<k, "session">>
  BY ThreadFacts DEF Threads
<1>5. t = Host => Fetch(k) \in Calm /\ Session(k) \in Calm
  BY <1>2, <1>4 DEF Fetch, Session, Stage, Calm
<1>6. t = <<k, "fetch">> => Session(k) \in Calm /\ HostOn(k) = "out"
  BY <1>2, <1>4 DEF Session, HostOn, Stage, Calm
<1>7. t = <<k, "session">> => Fetch(k) \in Calm \cup {"processing"} /\ HostOn(k) = "out"
  BY <1>2, <1>4 DEF Fetch, HostOn, Stage, Calm
<1> QED BY <1>2, <1>3, <1>5, <1>6, <1>7

\* What a step of another load does to a load where nothing runs.
Undisturbed(q, c, d) ==
  /\ d.state[q] = c.state[q]
  /\ (d.load = q <=> c.load = q) /\ (d.game = q => c.game = q)
  /\ (q \in d.queued <=> q \in c.queued)
  /\ \/ d.games[q] = c.games[q]
     \/ d.game # q /\ ~(c.state[q].life = "live" /\ c.state[q].owner)

\* Where nothing runs.
LEMMA CalmFacts ==
  ASSUME NEW fetch \in Calm, NEW session \in Calm
  PROVE  /\ ~Any(fetch, session, "out", {"validating", "concluding"})
         /\ ~Any(fetch, session, "out", OfCurrent) /\ ~Any(fetch, session, "out", {"concluding"})
         /\ ~Any(fetch, session, "out", {"applying", "validating", "concluding"})
         /\ session # "storing" /\ fetch \notin {"processing", "holding"}
         /\ fetch \notin {"attaching", "attached", "activating", "leaving"}
         /\ session \notin {"activating", "leaving"}
<1> QED BY DEF Any, Calm, OfCurrent

\* A step of a thread is safe if it is so for its own load.
LEMMA SafeStep ==
  ASSUME CInv, Sequential, Safe, NEW t \in Threads, Runs(t), NEW k \in Loads, k = LoadOf(t),
         pc[t] # "out" \/ t \in client.inflight,
         NEW to, NEW with, Goes(t, to, with), hostLoad' = hostLoad,
         SameHost(client, client'), ~client'.corrupt,
         \A q \in Loads \ {k} : Undisturbed(q, client, client'),
         client'.inflight \ {<<k, "fetch">>, <<k, "session">>}
           = client.inflight \ {<<k, "fetch">>, <<k, "session">>},
         NoteFits(t, to, with, client.host), to = "attached" => client'.load = NoLoad, SafeLoad(k)'
  PROVE  Safe'
<1>1. Types /\ client'.host = client.host
  BY DEF CInv, SameHost
<1>2. /\ \A u \in Threads : u # t => pc[u] \in {"out", "processing"}
      /\ \A q \in Loads \ {k} : Fetch(q) \in Calm /\ Session(q) \in Calm /\ HostOn(q) = "out"
  BY <1>1, QuietFacts
<1>3. /\ pc'[t] = to /\ local'[t] = with
      /\ \A u \in Threads : u # t => pc'[u] = pc[u] /\ local'[u] = local[u]
  BY <1>1 DEF Goes, Types
<1>4. \A u \in Threads : NoteFits(u, pc'[u], local'[u], client'.host)
  BY <1>1, <1>3 DEF Safe
<1>5. \A u \in Threads : pc'[u] = "attached" => client'.load = NoLoad
  BY <1>2, <1>3
<1>6. ASSUME NEW q \in Loads \ {k} PROVE SafeLoad(q)'
  <2>1. /\ <<q, "fetch">> \in Threads /\ <<q, "session">> \in Threads /\ Host \in Threads
        /\ <<q, "fetch">> # t /\ <<q, "session">> # t
        /\ <<q, "fetch">> \notin {<<k, "fetch">>, <<k, "session">>}
        /\ <<q, "session">> \notin {<<k, "fetch">>, <<k, "session">>}
        /\ t = Host => hostLoad = k
    BY ThreadFacts DEF Threads
  <2>2. Fetch(q)' = Fetch(q) /\ Session(q)' = Session(q)
    BY <1>3, <2>1 DEF Fetch, Session, Stage
  <2>3. HostOn(q)' = "out"
    <3>1. t = Host => hostLoad # q
      BY <2>1
    <3>2. t # Host => pc'[Host] = pc[Host]
      BY <1>3, <2>1
    <3> QED BY <3>1, <3>2, <1>2 DEF HostOn
  <2>4. Undisturbed(q, client, client')
    OBVIOUS
  <2>5. SafeAt(client.state[q], client.games[q], client.load = q, client.game = q,
               q \in client.queued, Fetch(q), Session(q), local[<<q, "session">>] = "last",
               "out", client.host)
    BY <1>2 DEF Safe, SafeLoad
  <2>6. SafeAt(client.state[q], client'.games[q], client.load = q, client'.game = q,
               q \in client.queued, Fetch(q), Session(q), local'[<<q, "session">>] = "last",
               "out", client.host)
    <3>1. /\ client'.game = q => client.game = q
          /\ \/ client'.games[q] = client.games[q]
             \/ client'.game # q /\ ~(client.state[q].life = "live" /\ client.state[q].owner)
      BY <2>4 DEF Undisturbed
    <3>2. Fetch(q) \in Calm /\ Session(q) \in Calm
      BY <1>2
    <3> QED BY <2>5, <3>1, <3>2, CalmFacts DEF SafeAt, LiveAt
  <2>7. /\ client'.state[q] = client.state[q]
        /\ (client'.load = q) = (client.load = q)
        /\ (q \in client'.queued) = (q \in client.queued)
    BY <2>4 DEF Undisturbed
  <2> QED BY <1>1, <2>2, <2>3, <2>6, <2>7 DEF SafeLoad
<1>7. \A q \in Loads : SafeLoad(q)'
  BY <1>6
<1> QED BY <1>4, <1>5, <1>7 DEF Safe

-----------------------------------------------------------------------------
(* Before and after a step of a thread.                                     *)

\* Thread t is somewhere, and nothing else runs for its load.
Where(t, k, from) ==
  /\ t = Host \/ t = <<k, "fetch">> \/ t = <<k, "session">>
  /\ t = Host =>
       /\ HostOn(k) = from /\ from \in HostPlaces
       /\ Fetch(k) \in Calm /\ Session(k) \in Calm
  /\ t = <<k, "fetch">> =>
       /\ Fetch(k) = from /\ from \in FetchPlaces
       /\ Session(k) \in Calm /\ HostOn(k) = "out"
  /\ t = <<k, "session">> =>
       /\ Session(k) = from /\ from \in SessionPlaces
       /\ Fetch(k) \in Calm \cup {"processing"} /\ HostOn(k) = "out"

Moved(t, k, to) ==
  /\ t = Host =>
       HostOn(k)' = to /\ Fetch(k)' = Fetch(k) /\ Session(k)' = Session(k)
  /\ t = <<k, "fetch">> =>
       Fetch(k)' = to /\ HostOn(k)' = HostOn(k) /\ Session(k)' = Session(k)
  /\ t = <<k, "session">> =>
       Session(k)' = to /\ HostOn(k)' = HostOn(k) /\ Fetch(k)' = Fetch(k)

\* The parts of the invariant that speak of a load that is alive.
LiveLoad(l) ==
  LiveAt(client.state[l], client.games[l], client.load = l, client.game = l,
         l \in client.queued, Fetch(l), Session(l), local[<<l, "session">>] = "last",
         HostOn(l), client.host)

\* What every step of a thread may use.
Ready(t, k, from) ==
  /\ k = LoadOf(t) /\ pc[t] = from /\ Runs(t)
  /\ client \in Shared /\ client.state[k] \in LoadState
  /\ client.state[k].life = "live" /\ ~client.corrupt
  /\ NoteFits(t, from, local[t], client.host) /\ MayBe(t, from, local[t])
  /\ Where(t, k, from) /\ LiveLoad(k)
  /\ client.game = k => client.games[k] = "live"
  /\ client.state[k].outstanding = Hold(Fetch(k)) + Hold(Session(k))
  /\ HostOn(k) \in Early =>
       Fetch(k) = "out" /\ Session(k) = "out" /\ client.state[k].progress # "AWAIT_LOGIN"
  /\ Fetch(k) \in Early \cup {"inflight", "ended", "starting"} => Session(k) = "out"
  /\ client.state[k].progress = "AWAIT_LOGIN" => Fetch(k) = "out" /\ Session(k) = "out"

\* What a thread that may leave a place finds there.
LEMMA ReadyFacts ==
  ASSUME CInv, Sequential, Safe, NEW t \in Threads, NEW from, from # "out", At(t, from)
  PROVE  \E k \in Loads : Ready(t, k, from)
<1>1. PICK k \in Loads :
        /\ k = LoadOf(t) /\ client.state[k].life = "live" /\ Counted(k)
        /\ ~client.corrupt /\ client \in Shared /\ Types /\ pc[t] = from
        /\ client.state[k] \in LoadState /\ MayBe(t, from, local[t])
  BY AtFactsOf
<1>2. Runs(t)
  BY DEF At
<1>3. NoteFits(t, from, local[t], client.host)
  BY <1>1 DEF Safe
<1>4. /\ \/ t = Host /\ hostLoad = k
         \/ t = <<k, "fetch">>
         \/ t = <<k, "session">>
      /\ t \notin client.inflight
  BY <1>1, WorkingFacts
<1>5. Where(t, k, from)
  <2>1. CASE t = Host
    <3>1. HostOn(k) = from /\ from \in HostPlaces
      BY <2>1, <1>1, <1>4, ThreadFacts DEF HostOn, MayBe
    <3>2. Fetch(k) \in Calm /\ Session(k) \in Calm
      BY <2>1, <1>1, <1>2, QuietFacts
    <3> QED BY <2>1, <3>1, <3>2, ThreadFacts DEF Where
  <2>2. CASE t = <<k, "fetch">>
    <3>1. Fetch(k) = from /\ from \in FetchPlaces
      BY <2>2, <1>1, <1>4, ThreadFacts DEF Fetch, Stage, MayBe
    <3>2. Session(k) \in Calm /\ HostOn(k) = "out"
      BY <2>2, <1>1, <1>2, QuietFacts
    <3> QED BY <2>2, <3>1, <3>2, ThreadFacts DEF Where
  <2>3. CASE t = <<k, "session">>
    <3>1. Session(k) = from /\ from \in SessionPlaces
      BY <2>3, <1>1, <1>4, ThreadFacts DEF Session, Stage, MayBe
    <3>2. Fetch(k) \in Calm \cup {"processing"} /\ HostOn(k) = "out"
      BY <2>3, <1>1, <1>2, QuietFacts
    <3> QED BY <2>3, <3>1, <3>2, ThreadFacts DEF Where
  <2> QED BY <2>1, <2>2, <2>3, <1>4
<1>6. LiveLoad(k) /\ (client.game = k => client.games[k] = "live")
  BY <1>1 DEF Safe, SafeLoad, SafeAt, LiveLoad
<1>7. /\ client.state[k].outstanding = Hold(Fetch(k)) + Hold(Session(k))
      /\ HostOn(k) \in Early =>
           Fetch(k) = "out" /\ Session(k) = "out" /\ client.state[k].progress # "AWAIT_LOGIN"
      /\ Fetch(k) \in Early \cup {"inflight", "ended", "starting"} => Session(k) = "out"
      /\ client.state[k].progress = "AWAIT_LOGIN" => Fetch(k) = "out" /\ Session(k) = "out"
  BY <1>1 DEF Counted, CountedAt
<1> QED BY <1>1, <1>2, <1>3, <1>5, <1>6, <1>7 DEF Ready

\* Where a step that issues no request takes a thread.
LEMMA MovedFacts ==
  ASSUME Types, NEW t \in Threads, pc[t] # "out", NEW to \in Places, NEW with,
         Goes(t, to, with), hostLoad' = hostLoad,
         NEW k \in Loads, k = LoadOf(t), client'.inflight = client.inflight
  PROVE  /\ Moved(t, k, to)
         /\ local'[<<k, "session">>] = IF t = <<k, "session">> THEN with
                                       ELSE local[<<k, "session">>]
<1>1. Moved(t, k, to)
  <2>1. \/ /\ t = Host /\ HostOn(k)' = to
           /\ Fetch(k)' = Fetch(k) /\ Session(k)' = Session(k)
        \/ /\ t = <<k, "fetch">> /\ Fetch(k)' = to
           /\ HostOn(k)' = HostOn(k) /\ Session(k)' = Session(k)
        \/ /\ t = <<k, "session">> /\ Session(k)' = to
           /\ HostOn(k)' = HostOn(k) /\ Fetch(k)' = Fetch(k)
    <3>1. pc' = [pc EXCEPT ![t] = to]
      BY DEF Goes
    <3> QED BY <3>1, MoveFacts
  <2>2. <<k, "fetch">> # Host /\ <<k, "session">> # Host /\ <<k, "fetch">> # <<k, "session">>
    BY ThreadFacts
  <2> QED BY <2>1, <2>2 DEF Moved
<1>2. local \in [Threads -> Notes] /\ <<k, "session">> \in Threads
  BY ThreadFacts DEF Types, Threads
<1> QED BY <1>1, <1>2 DEF Goes

\* The places that count as an outstanding request.
LEMMA HoldFacts ==
  /\ Hold("out") = 0 /\ Hold("inflight") = 1 /\ Hold("aborting") = 1 /\ Hold("leaving") = 1
  /\ Hold("ended") = 1 /\ Hold("failing") = 0 /\ Hold("storing") = 0 /\ Hold("starting") = 0
  /\ Hold("processing") = 1 /\ Hold("holding") = 1
<1> QED BY DEF Hold

\* A step of a thread that changes nothing but its own load, and issues no request.
LEMMA SafeThread ==
  ASSUME CInv, Sequential, Safe, NEW t \in Threads, NEW k \in Loads, NEW from, from # "out",
         Ready(t, k, from), NEW to, NEW with, Goes(t, to, with), hostLoad' = hostLoad,
         client'.host = client.host, ~client'.corrupt, client'.inflight = client.inflight,
         OthersKept(k, client, client'), client'.queued \ {k} = client.queued \ {k},
         \/ client'.load = client.load
         \/ client.load \in {k, NoLoad} /\ client'.load \in {k, NoLoad},
         client'.game \in {client.game, k, NoLoad},
         NoteFits(t, to, with, client.host), to # "attached", SafeLoad(k)'
  PROVE  Safe'
<1>1. \A q \in Loads \ {k} : Undisturbed(q, client, client')
  <2> SUFFICES ASSUME NEW q \in Loads \ {k} PROVE Undisturbed(q, client, client')
    OBVIOUS
  <2>1. q # k /\ q # NoLoad
    BY LoadAssumption
  <2>2. q \in client'.queued <=> q \in client.queued
    BY <2>1
  <2> QED BY <2>1, <2>2 DEF OthersKept, Undisturbed
<1>2. Runs(t) /\ k = LoadOf(t) /\ pc[t] # "out"
  BY DEF Ready
<1> QED BY <1>1, <1>2, SafeStep DEF SameHost

\* Anything fits where no answer is looked at.
LEMMA LeavesFits ==
  ASSUME NEW t, NEW note, NEW h, NEW place,
         place \notin {"activating", "ended", "starting", "processing"}
  PROVE  NoteFits(t, place, note, h)
<1> QED BY DEF NoteFits

\* Where a step takes a thread, and what it notes.
LEMMA StepMoves ==
  ASSUME CInv, NEW t \in Threads, NEW k \in Loads, NEW from, from # "out", Ready(t, k, from),
         NEW to \in Places, NEW with, Steps(t, to, with), client'.inflight = client.inflight
  PROVE  /\ Moved(t, k, to) /\ Goes(t, to, with) /\ hostLoad' = hostLoad
         /\ local'[<<k, "session">>] = IF t = <<k, "session">> THEN with
                                       ELSE local[<<k, "session">>]
<1>1. Types /\ Goes(t, to, with) /\ hostLoad' = hostLoad /\ pc[t] # "out" /\ k = LoadOf(t)
  BY DEF CInv, Steps, Ready
<1> QED BY <1>1, MovedFacts

\* A load that is not queued has a thread somewhere.
LEMMA BusyFacts ==
  ASSUME NEW t \in Threads, NEW k \in Loads, NEW from, from # "out", Ready(t, k, from)
  PROVE  /\ k \notin client.queued /\ client.state[k].calls \in 0 .. 1
         /\ client.state[k].owner => client.games[k] = "live"
         /\ from \notin {"validating", "concluding"} => ~(client.game = k /\ client.state[k].owner)
         /\ client.game = k => client.games[k] = "live"
<1>1. client.state[k].calls \in 0 .. 3
  BY DEF Ready, LoadState
<1>2. client.state[k].calls <= 1 /\ (client.state[k].owner => client.games[k] = "live")
  BY DEF Ready, LiveLoad, LiveAt
<1>3. k \notin client.queued
  BY DEF Ready, LiveLoad, LiveAt, Where
<1>4. from \notin {"validating", "concluding"} => ~(client.game = k /\ client.state[k].owner)
  BY DEF Ready, LiveLoad, LiveAt, Where, Any, Calm
<1> QED BY <1>1, <1>2, <1>3, <1>4 DEF Ready

\* No request of the load is under way but that of the thread.
Last(t, k) ==
  /\ t = Host => Fetch(k) = "out" /\ Session(k) = "out"
  /\ t = <<k, "fetch">> => Session(k) = "out"
  /\ t = <<k, "session">> => Fetch(k) = "out"

\* The last thread of a load leaves, and the load state is freed.
LEMMA GoneSafe ==
  ASSUME CInv, Sequential, Safe, NEW t \in Threads, NEW k \in Loads, NEW from, from # "out",
         Ready(t, k, from), Last(t, k), Returns(t),
         client'.host = client.host, ~client'.corrupt, client'.inflight = client.inflight,
         OthersKept(k, client, client'), client'.queued = client.queued,
         client'.load = client.load \/ (client.load = k /\ client'.load = NoLoad),
         client'.game \in {client.game, k, NoLoad},
         client'.state[k].life = "freed", client'.load # k,
         client'.game = k => client'.games[k] = "live",
         client'.state[k].calls <= IF client.host.background THEN 1 ELSE 2
  PROVE  Safe'
<1>1. "out" \in Places /\ Steps(t, "out", "none")
  BY PlaceFacts DEF Returns
<1>2. Moved(t, k, "out") /\ Goes(t, "out", "none") /\ hostLoad' = hostLoad
  BY <1>1, StepMoves
<1>3. k \notin client'.queued
  BY BusyFacts
<1>4. Fetch(k)' = "out" /\ Session(k)' = "out" /\ HostOn(k)' = "out"
  BY <1>2 DEF Moved, Last, Ready, Where
<1>5. SafeLoad(k)'
  BY <1>3, <1>4 DEF SafeLoad, SafeAt
<1>6. NoteFits(t, "out", "none", client.host)
  BY LeavesFits
<1>7. client'.queued \ {k} = client.queued \ {k}
  OBVIOUS
<1>8. \/ client'.load = client.load
      \/ client.load \in {k, NoLoad} /\ client'.load \in {k, NoLoad}
  OBVIOUS
<1> QED BY <1>2, <1>5, <1>6, <1>7, <1>8, SafeThread

\* A load is refused when it is not current any more.
LEMMA RefusedSafe ==
  ASSUME CInv, Sequential, Safe, NEW t \in Threads, NEW k \in Loads, NEW from, from # "out",
         Ready(t, k, from), Last(t, k), Returns(t), client.load # k,
         from \notin {"validating", "concluding"},
         NEW b, Kept(client, b), OthersKept(k, client, b), b.load = client.load,
         b.game = client.game, b.games = client.games, b.corrupt <=> client.corrupt,
         b.state[k].owner <=> client.state[k].owner, b.state[k].calls = client.state[k].calls,
         IsRefused(k, b, client'),
         client.state[k].calls = 0 \/ ~client.host.background
  PROVE  Safe'
<1>1. client.state[k].calls \in 0 .. 1 /\ ~client.corrupt
      /\ (client.state[k].owner => client.games[k] = "live")
      /\ ~(client.game = k /\ client.state[k].owner)
      /\ (client.game = k => client.games[k] = "live")
  BY BusyFacts DEF Ready
<1>2. /\ client'.host = client.host /\ client'.inflight = client.inflight
      /\ client'.queued = client.queued /\ client'.load = client.load
      /\ client'.game = client.game /\ OthersKept(k, client, client')
  BY DEF IsRefused, Kept, OthersKept
<1>3. ~client'.corrupt /\ client'.state[k].life = "freed"
      /\ (client'.game = k => client'.games[k] = "live")
  BY <1>1, <1>2 DEF IsRefused
<1>4. client'.state[k].calls <= IF client.host.background THEN 1 ELSE 2
  BY <1>1 DEF IsRefused, MoreCalls
<1> QED BY <1>1, <1>2, <1>3, <1>4, GoneSafe

\* An answer was an error.
LEMMA FailingSafe ==
  ASSUME CInv, Sequential, Safe, NEW t \in Threads, Failing(t)
  PROVE  Safe'
<1>1. PICK k \in Loads : Ready(t, k, "failing")
  BY ReadyFacts DEF Failing
<1>2. client' = LoadError(client, k, "ERROR") /\ Goes(t, "out", "none") /\ hostLoad' = hostLoad
  BY <1>1 DEF Failing, Returns, Steps, Ready
<1>3. IsError(k, client, client')
  BY <1>1, <1>2, ErrorFacts DEF Ready
<1>4. /\ Moved(t, k, "out")
      /\ local'[<<k, "session">>] = IF t = <<k, "session">> THEN "none" ELSE local[<<k, "session">>]
  <2>1. client'.inflight = client.inflight
    BY <1>3 DEF IsError, Kept
  <2> QED BY <2>1, <1>1, <1>2, MovedFacts, PlaceFacts DEF CInv, Ready
<1>5. client.load = k /\ client.state[k].calls = 0 /\ client.state[k].owner
      /\ client.games[k] = "live" /\ k \notin client.queued /\ client.game # k
  BY <1>1 DEF Ready, LiveLoad, LiveAt, Where, Any, OfCurrent, HostPlaces, Early, Late, Calm
<1>6. /\ client'.load # k /\ client'.game # k /\ k \notin client'.queued
      /\ client'.state[k].calls \in 0 .. 1 /\ client'.state[k].progress = "ABORTED"
      /\ client'.host = client.host /\ ~client'.corrupt
      /\ (client'.state[k].life = "live" => client'.games[k] = "live")
  BY <1>1, <1>3, <1>5, LoadAssumption DEF IsError, Erred, MoreCalls, Kept, Ready
<1>7. /\ Fetch(k)' \in {"out", "processing"} /\ Session(k)' = "out" /\ HostOn(k)' = "out"
      /\ client'.state[k].life = IF Fetch(k)' = "out" THEN "freed" ELSE "live"
  <2>1. client'.state[k].life = IF client.state[k].outstanding = 0 THEN "freed" ELSE "live"
    BY <1>1, <1>3 DEF IsError, Erred, Ready
  <2>2. CASE t = <<k, "fetch">>
    <3>1. Fetch(k) = "failing" /\ Session(k) = "out" /\ HostOn(k) = "out"
      BY <2>2, <1>1 DEF Ready, Where, LiveLoad, LiveAt
    <3>2. client.state[k].outstanding = 0
      BY <3>1, <1>1, HoldFacts DEF Ready
    <3> QED BY <2>1, <2>2, <3>1, <3>2, <1>4 DEF Moved
  <2>3. CASE t = <<k, "session">>
    <3>1. Session(k) = "failing" /\ Fetch(k) \in {"out", "processing"} /\ HostOn(k) = "out"
      <4>1. Fetch(k) # "inflight"
        BY <2>3, <1>1 DEF Ready, Where
      <4> QED BY <4>1, <2>3, <1>1 DEF Ready, Where, Calm
    <3>2. client.state[k].outstanding = IF Fetch(k) = "out" THEN 0 ELSE 1
      BY <3>1, <1>1, HoldFacts DEF Ready
    <3> QED BY <2>1, <2>3, <3>1, <3>2, <1>4 DEF Moved
  <2> QED BY <2>2, <2>3, <1>1 DEF Ready, Where, HostPlaces, Early, Late
<1>8. SafeLoad(k)'
  <2>1. CASE Fetch(k)' = "out"
    BY <2>1, <1>6, <1>7 DEF SafeLoad, SafeAt
  <2>2. CASE Fetch(k)' = "processing"
    BY <2>2, <1>6, <1>7 DEF SafeLoad, SafeAt, LiveAt, Any, OfCurrent, Late
  <2> QED BY <2>1, <2>2, <1>7
<1> QED BY <1>1, <1>2, <1>3, <1>5, <1>6, <1>8, LeavesFits, SafeThread DEF IsError, Kept

\* An aborted load tells its host nothing.
LEMMA AbortingSafe ==
  ASSUME CInv, Sequential, Safe, NEW t \in Threads, Aborting(t)
  PROVE  Safe'
<1>1. PICK k \in Loads : Ready(t, k, "aborting")
  BY ReadyFacts DEF Aborting
<1> DEFINE b == [client EXCEPT !.state[k].callback = FALSE]
<1>2. client' = LoadError(b, k, "ABORTED") /\ Steps(t, "leaving", "none")
  BY <1>1 DEF Aborting, Ready
<1>3. /\ b \in Shared /\ Kept(client, b) /\ OthersKept(k, client, b)
      /\ b.load = client.load /\ b.game = client.game /\ (b.corrupt <=> client.corrupt)
      /\ b.games = client.games /\ b.state[k] = [client.state[k] EXCEPT !.callback = FALSE]
  BY <1>1, ClearedFacts DEF Ready
<1> HIDE DEF b
<1>4. IsError(k, b, client')
  BY <1>2, <1>3, ErrorFacts
<1>5. /\ client'.host = client.host /\ client'.inflight = client.inflight
      /\ client'.queued = client.queued /\ client'.game = client.game
      /\ OthersKept(k, client, client')
      /\ client'.load = IF client.load = k THEN NoLoad ELSE client.load
  BY <1>3, <1>4 DEF IsError, Kept, OthersKept
<1>6. "leaving" \in Places
  BY PlaceFacts
<1>7. /\ Moved(t, k, "leaving") /\ Goes(t, "leaving", "none") /\ hostLoad' = hostLoad
      /\ local'[<<k, "session">>] = IF t = <<k, "session">> THEN "none"
                                    ELSE local[<<k, "session">>]
  BY <1>1, <1>2, <1>5, <1>6, StepMoves
<1>8. /\ k \notin client.queued /\ client.state[k].calls \in 0 .. 1
      /\ (client.state[k].owner => client.games[k] = "live")
      /\ ~(client.game = k /\ client.state[k].owner)
      /\ (client.game = k => client.games[k] = "live")
  BY <1>1, BusyFacts
<1>9. client.state[k].outstanding # 0 /\ t # Host
  <2>1. t # Host
    BY <1>1 DEF Ready, Where, HostPlaces, Early, Late
  <2>2. CASE t = <<k, "fetch">>
    BY <2>2, <1>1, HoldFacts DEF Ready, Where, Calm
  <2>3. CASE t = <<k, "session">>
    BY <2>3, <1>1, HoldFacts DEF Ready, Where, Calm
  <2> QED BY <2>1, <2>2, <2>3, <1>1 DEF Ready, Where
<1>10. /\ client'.state[k].life = "live" /\ client'.state[k].progress = "ABORTED"
       /\ client'.state[k].calls = client.state[k].calls
       /\ (client'.state[k].owner <=> client.state[k].owner)
       /\ ~client'.corrupt /\ client'.games = client.games
  <2>1. /\ b.state[k].outstanding = client.state[k].outstanding /\ b.state[k].life = "live"
        /\ b.state[k].calls = client.state[k].calls /\ ~b.state[k].callback
        /\ (b.state[k].owner <=> client.state[k].owner)
    BY <1>1, <1>3 DEF Ready, LoadState
  <2> QED BY <2>1, <1>1, <1>3, <1>4, <1>9 DEF IsError, Erred, MoreCalls, Ready
<1>11. client'.load # k
  BY <1>5, LoadAssumption
<1>12. SafeLoad(k)'
  <2>1. CASE t = <<k, "fetch">>
    <3>1. Fetch(k)' = "leaving" /\ Session(k)' = "out" /\ HostOn(k)' = "out"
      BY <2>1, <1>1, <1>7 DEF Ready, LiveLoad, LiveAt, Where, Moved
    <3> QED BY <3>1, <1>5, <1>8, <1>10, <1>11 DEF SafeLoad, SafeAt, LiveAt, Any, OfCurrent, Late
  <2>2. CASE t = <<k, "session">>
    <3>1. Fetch(k)' \in {"out", "processing"} /\ Session(k)' = "leaving" /\ HostOn(k)' = "out"
      BY <2>2, <1>1, <1>7 DEF Ready, Where, Moved, Calm
    <3>2. CASE Fetch(k)' = "out"
      BY <3>1, <3>2, <1>5, <1>8, <1>10, <1>11 DEF SafeLoad, SafeAt, LiveAt, Any, OfCurrent, Late
    <3>3. CASE Fetch(k)' = "processing"
      BY <3>1, <3>3, <1>5, <1>8, <1>10, <1>11 DEF SafeLoad, SafeAt, LiveAt, Any, OfCurrent, Late
    <3> QED BY <3>1, <3>2, <3>3
  <2> QED BY <2>1, <2>2, <1>1, <1>9 DEF Ready, Where
<1>13. NoteFits(t, "leaving", "none", client.host)
  BY LeavesFits
<1> QED BY <1>1, <1>5, <1>7, <1>10, <1>12, <1>13, LoadAssumption, SafeThread

\* The last request of an aborted load frees it.
LEMMA LeavingSafe ==
  ASSUME CInv, Sequential, Safe, NEW t \in Threads, Leaving(t)
  PROVE  Safe'
<1>1. PICK k \in Loads : Ready(t, k, "leaving")
  BY ReadyFacts DEF Leaving
<1>2. client' = EndLoadState(client, k) /\ Returns(t) /\ Steps(t, "out", "none")
  BY <1>1 DEF Leaving, Ready, Returns
<1>3. IsClosed(k, client, client')
  BY <1>1, <1>2, ClosedFacts DEF Ready
<1>4. /\ client'.host = client.host /\ client'.inflight = client.inflight
      /\ client'.queued = client.queued /\ client'.game = client.game
      /\ OthersKept(k, client, client') /\ client'.load = client.load
  BY <1>3 DEF IsClosed, Kept
<1>5. client.load # k /\ client.state[k].progress = "ABORTED"
  <2>1. t # Host
    BY <1>1 DEF Ready, Where, HostPlaces, Early, Late
  <2> QED BY <2>1, <1>1 DEF Ready, LiveLoad, LiveAt, Where
<1>6. /\ k \notin client.queued /\ client.state[k].calls \in 0 .. 1
      /\ (client.state[k].owner => client.games[k] = "live")
      /\ ~(client.game = k /\ client.state[k].owner)
      /\ (client.game = k => client.games[k] = "live")
  BY <1>1, BusyFacts
<1>7. /\ ~client'.corrupt /\ client'.state[k].calls = client.state[k].calls
      /\ (client'.game = k => client'.games[k] = "live")
      /\ client'.state[k].progress = "ABORTED"
      /\ (client'.state[k].owner <=> client.state[k].owner)
      /\ (client'.state[k].life = "live" => client'.games[k] = client.games[k])
      /\ client'.state[k].life = IF Less(client.state[k].outstanding) = 0 THEN "freed" ELSE "live"
  BY <1>1, <1>3, <1>4, <1>5, <1>6 DEF IsClosed, Closed, Ready
<1>8. client'.state[k].calls <= IF client.host.background THEN 1 ELSE 2
  BY <1>6, <1>7
<1>9. CASE Last(t, k)
  <2>1. client.state[k].outstanding = 1
    <3>1. CASE t = <<k, "fetch">>
      BY <3>1, <1>9, <1>1, HoldFacts DEF Ready, Where, Last
    <3>2. CASE t = <<k, "session">>
      BY <3>2, <1>9, <1>1, HoldFacts DEF Ready, Where, Last
    <3> QED BY <3>1, <3>2, <1>1 DEF Ready, Where, HostPlaces, Early, Late
  <2>2. client'.state[k].life = "freed"
    BY <2>1, <1>7 DEF Less
  <2> QED BY <2>2, <1>1, <1>2, <1>4, <1>5, <1>7, <1>8, <1>9, GoneSafe
<1>10. CASE ~Last(t, k)
  <2>1. /\ t = <<k, "session">> /\ Session(k) = "leaving" /\ Fetch(k) = "processing"
        /\ HostOn(k) = "out"
    BY <1>1, <1>10 DEF Last, Ready, LiveLoad, LiveAt, Where, Calm, HostPlaces, Early, Late
  <2>2. client'.state[k].life = "live"
    BY <2>1, <1>1, <1>7, HoldFacts DEF Less, Ready
  <2>3. "out" \in Places
    BY PlaceFacts
  <2>4. /\ Moved(t, k, "out") /\ Goes(t, "out", "none") /\ hostLoad' = hostLoad
    BY <1>1, <1>2, <1>4, <2>3, StepMoves
  <2>5. Fetch(k)' = "processing" /\ Session(k)' = "out" /\ HostOn(k)' = "out"
    BY <2>1, <2>4 DEF Moved
  <2>6. SafeLoad(k)'
    BY <2>2, <2>5, <1>4, <1>5, <1>6, <1>7
       DEF SafeLoad, SafeAt, LiveAt, Any, OfCurrent, Late
  <2>7. NoteFits(t, "out", "none", client.host)
    BY LeavesFits
  <2> QED BY <1>1, <1>4, <1>7, <2>4, <2>6, <2>7, SafeThread
<1> QED BY <1>9, <1>10

\* The session is kept, or the activation queued when no request is left.
LEMMA StoringSafe ==
  ASSUME CInv, Sequential, Safe, NEW t \in Threads, Storing(t)
  PROVE  Safe'
<1>1. PICK k \in Loads : Ready(t, k, "storing")
  BY ReadyFacts DEF Storing
<1> DEFINE s == [client.state[k] EXCEPT !.session = TRUE]
           b == [client EXCEPT !.state = [client.state EXCEPT ![k] = s]]
           queued == IF local[t] = "last" THEN client.queued \cup {k} ELSE client.queued
           d == [b EXCEPT !.queued = queued]
<1>2. client' = d /\ Steps(t, "out", "none")
  <2>1. b.queued = client.queued
    BY <1>1 DEF Ready, Shared
  <2> QED BY <1>1, <2>1 DEF Storing, Returns, Ready
<1>3. /\ s \in LoadState /\ s.life = "live" /\ s.session /\ s.calls = client.state[k].calls
      /\ (s.owner <=> client.state[k].owner) /\ s.progress = client.state[k].progress
  BY <1>1 DEF LoadState, Ready
<1>4. /\ queued \subseteq Loads /\ queued \ {k} = client.queued \ {k}
      /\ (k \in queued => k \in client.queued \/ local[t] = "last")
  BY <1>1 DEF Shared, Ready
<1> HIDE DEF s, queued
<1>5. /\ b \in Shared /\ Kept(client, b) /\ OthersKept(k, client, b)
      /\ b.load = client.load /\ b.game = client.game /\ (b.corrupt <=> client.corrupt)
      /\ b.games = client.games /\ b.state[k] = s
  BY <1>1, <1>3, PutFacts DEF Ready
<1> HIDE DEF b
<1>6. /\ d.state = b.state /\ d.games = b.games /\ d.inflight = b.inflight /\ d.load = b.load
      /\ d.game = b.game /\ (d.corrupt <=> b.corrupt) /\ d.host = b.host /\ d.queued = queued
  BY <1>4, <1>5 DEF Shared
<1> HIDE DEF d
<1>7. /\ client'.host = client.host /\ client'.inflight = client.inflight
      /\ client'.queued = queued /\ client'.game = client.game /\ client'.games = client.games
      /\ OthersKept(k, client, client') /\ client'.load = client.load /\ ~client'.corrupt
      /\ client'.state[k] = s
  BY <1>1, <1>2, <1>5, <1>6 DEF Kept, OthersKept, Ready
<1>8. "out" \in Places
  BY PlaceFacts
<1>9. /\ Moved(t, k, "out") /\ Goes(t, "out", "none") /\ hostLoad' = hostLoad
      /\ local'[<<k, "session">>] = IF t = <<k, "session">> THEN "none"
                                    ELSE local[<<k, "session">>]
  BY <1>1, <1>2, <1>7, <1>8, StepMoves
<1>10. /\ t = <<k, "session">> /\ Session(k) = "storing" /\ HostOn(k) = "out"
       /\ Fetch(k) \in {"out", "processing"}
       /\ local[t] = "last" => Fetch(k) = "out" /\ ~client.host.background
  BY <1>1 DEF Ready, LiveLoad, LiveAt, Where, Calm, HostPlaces, FetchPlaces, Early, Late
<1>11. client.load = k /\ client.state[k].calls = 0 /\ client.state[k].owner
       /\ client.state[k].progress # "AWAIT_LOGIN"
  BY <1>1, <1>10 DEF Ready, LiveLoad, LiveAt, Any, OfCurrent
<1>12. /\ k \notin client.queued /\ client.games[k] = "live" /\ client.game # k
  BY <1>1, <1>11, BusyFacts
<1>13. Fetch(k)' = Fetch(k) /\ Session(k)' = "out" /\ HostOn(k)' = "out"
  BY <1>9, <1>10 DEF Moved
<1>14. SafeLoad(k)'
  <2>1. CASE Fetch(k) = "out"
    BY <2>1, <1>3, <1>4, <1>7, <1>10, <1>11, <1>12, <1>13
       DEF SafeLoad, SafeAt, LiveAt, Any, OfCurrent, Late
  <2>2. CASE Fetch(k) = "processing"
    BY <2>2, <1>3, <1>4, <1>7, <1>10, <1>11, <1>12, <1>13
       DEF SafeLoad, SafeAt, LiveAt, Any, OfCurrent, Late
  <2> QED BY <2>1, <2>2, <1>10
<1>15. NoteFits(t, "out", "none", client.host)
  BY LeavesFits
<1> QED BY <1>1, <1>4, <1>7, <1>9, <1>14, <1>15, SafeThread

\* The sets of a game are processed while its load state is held.
LEMMA ProcessingSafe ==
  ASSUME CInv, Sequential, Safe, NEW t \in Threads, Processing(t)
  PROVE  Safe'
<1>1. PICK k \in Loads : Ready(t, k, "processing")
  BY ReadyFacts DEF Processing
<1>2. /\ t = <<k, "fetch">> /\ Fetch(k) = "processing" /\ Session(k) \in Calm
      /\ HostOn(k) = "out"
  BY <1>1 DEF Ready, Where, HostPlaces, SessionPlaces, Early, Late
<1>3. local[t] # "empty"
  BY <1>1, <1>2, ThreadFacts DEF Ready, NoteFits
<1>4. client' = client /\ Steps(t, "holding", "none")
  BY <1>1, <1>3 DEF Processing
<1>5. "holding" \in Places
  BY PlaceFacts
<1>6. /\ Moved(t, k, "holding") /\ Goes(t, "holding", "none") /\ hostLoad' = hostLoad
      /\ local'[<<k, "session">>] = IF t = <<k, "session">> THEN "none"
                                    ELSE local[<<k, "session">>]
  BY <1>1, <1>4, <1>5, StepMoves
<1>7. Fetch(k)' = "holding" /\ Session(k)' = Session(k) /\ HostOn(k)' = "out"
  BY <1>2, <1>6 DEF Moved
<1>8. LiveLoad(k) /\ (client.game = k => client.games[k] = "live")
      /\ client.state[k].calls \in 0 .. 1 /\ client.state[k].life = "live"
  BY <1>1, BusyFacts DEF Ready
<1>9. SafeLoad(k)'
  <2>1. CASE Session(k) = "out"
    BY <2>1, <1>2, <1>4, <1>7, <1>8 DEF LiveLoad, SafeLoad, SafeAt, LiveAt, Any, OfCurrent, Late
  <2>2. CASE Session(k) = "inflight"
    BY <2>2, <1>2, <1>4, <1>7, <1>8 DEF LiveLoad, SafeLoad, SafeAt, LiveAt, Any, OfCurrent, Late
  <2> QED BY <2>1, <2>2, <1>2 DEF Calm
<1>10. NoteFits(t, "holding", "none", client.host)
  BY LeavesFits
<1>11. OthersKept(k, client, client') /\ ~client'.corrupt
  BY <1>1, <1>4 DEF OthersKept, Ready
<1> QED BY <1>1, <1>4, <1>6, <1>9, <1>10, <1>11, SafeThread

\* How many requests remain, unless the load is not current.
LEMMA RemainingFacts ==
  ASSUME NEW c \in Shared, NEW l \in Loads
  PROVE  Remaining(c, l) = IF c.load = l THEN Less(c.state[l].outstanding) ELSE -1
<1>1. IsEnded(l, c, Ended(c, l)) /\ c.state[l] \in LoadState
  BY EndedFacts DEF Shared
<1>2. Ended(c, l).state[l].outstanding = Less(c.state[l].outstanding)
  <2> DEFINE less == Less(c.state[l].outstanding)
  <2>1. Ended(c, l).state[l] = [c.state[l] EXCEPT !.outstanding = less]
    BY <1>1 DEF IsEnded
  <2>2. less = Less(c.state[l].outstanding)
    OBVIOUS
  <2> HIDE DEF less
  <2> QED BY <1>1, <2>1, <2>2 DEF LoadState
<1> QED BY <1>2 DEF Remaining

\* The hold is given up: the game is activated, queued for that, or left to the session.
LEMMA HoldingSafe ==
  ASSUME CInv, Sequential, Safe, NEW t \in Threads, Holding(t)
  PROVE  Safe'
<1>1. PICK k \in Loads : Ready(t, k, "holding")
  BY ReadyFacts DEF Holding
<1> DEFINE c == EndLoadState(client, k)
           d == [c EXCEPT !.queued = @ \cup {k}]
           note == IF c.state[k].session THEN "ok" ELSE "none"
<1>2. IsClosed(k, client, c)
  BY <1>1, ClosedFacts DEF Ready
<1>3. IF Remaining(client, k) = 0 /\ client.host.background
      THEN client' = c /\ Steps(t, "activating", note)
      ELSE /\ client' = IF Remaining(client, k) = 0 THEN d ELSE c
           /\ Returns(t)
  <2> HIDE DEF c, d
  <2> QED BY <1>1 DEF Holding, Ready, c, d
<1>4. note = IF c.state[k].session THEN "ok" ELSE "none"
  OBVIOUS
<1> HIDE DEF c, note
<1>5. c \in Shared
  BY <1>2 DEF IsClosed
<1>6. /\ d.state = c.state /\ d.games = c.games /\ d.inflight = c.inflight
      /\ d.load = c.load /\ d.game = c.game /\ (d.corrupt <=> c.corrupt) /\ d.host = c.host
      /\ d.queued = c.queued \cup {k}
  BY <1>5 DEF Shared
<1> HIDE DEF d
<1>7. /\ client'.state = c.state /\ client'.games = c.games /\ client'.load = client.load
      /\ client'.game = client.game /\ client'.host = client.host
      /\ client'.inflight = client.inflight /\ OthersKept(k, client, client')
      /\ (client'.corrupt <=> c.corrupt)
  BY <1>2, <1>3, <1>6 DEF IsClosed, Kept, OthersKept
<1>8. /\ t = <<k, "fetch">> /\ Fetch(k) = "holding" /\ Session(k) \in Calm
      /\ HostOn(k) = "out"
  BY <1>1 DEF Ready, Where, HostPlaces, SessionPlaces, Early, Late
<1>9. client.state[k].outstanding = IF Session(k) = "out" THEN 1 ELSE 2
  BY <1>1, <1>8, HoldFacts DEF Ready, Calm
<1>10. /\ k \notin client.queued /\ client.state[k].calls \in 0 .. 1
       /\ (client.state[k].owner => client.games[k] = "live")
       /\ ~(client.game = k /\ client.state[k].owner)
       /\ (client.game = k => client.games[k] = "live") /\ ~client.corrupt
  BY <1>1, BusyFacts DEF Ready
<1>11. /\ ~(client.load = k) => client.state[k].progress = "ABORTED"
       /\ client.load = k /\ Session(k) = "out" => client.state[k].session \/ client.host.spectating
       /\ client.load = k => client.state[k].calls = 0 /\ client.state[k].owner
       /\ Session(k) = "inflight" /\ ~client.state[k].aborted => client.load = k
       /\ client.state[k].progress # "AWAIT_LOGIN"
  BY <1>1, <1>8 DEF Ready, LiveLoad, LiveAt
<1>12. "out" \in Places /\ "activating" \in Places
  BY PlaceFacts DEF Late
<1>13. CASE client.load # k
  <2>1. /\ client' = c /\ Returns(t) /\ Steps(t, "out", "none")
        /\ client'.queued = client.queued
    BY <1>1, <1>2, <1>3, <1>13, RemainingFacts DEF Ready, Returns, IsClosed, Kept
  <2>2. /\ client'.state[k].calls = client.state[k].calls
        /\ client'.state[k].progress = "ABORTED"
        /\ (client'.state[k].owner <=> client.state[k].owner)
        /\ (client'.state[k].aborted <=> client.state[k].aborted)
        /\ (client'.game = k => client'.games[k] = "live") /\ ~client'.corrupt
        /\ client'.state[k].life = IF Session(k) = "out" THEN "freed" ELSE "live"
        /\ (client'.state[k].life = "live" => client'.games[k] = client.games[k])
    BY <2>1, <1>1, <1>2, <1>7, <1>9, <1>10, <1>11, <1>13
       DEF IsClosed, Closed, Less, Ready, Settings
  <2>3. CASE Session(k) = "out"
    <3>1. Last(t, k)
      BY <2>3, <1>8, ThreadFacts DEF Last
    <3>2. client'.state[k].calls <= IF client.host.background THEN 1 ELSE 2
      BY <2>2, <1>10
    <3> QED BY <3>1, <3>2, <2>1, <2>2, <2>3, <1>1, <1>7, <1>13, GoneSafe
  <2>4. CASE Session(k) = "inflight"
    <3>1. Moved(t, k, "out") /\ Goes(t, "out", "none") /\ hostLoad' = hostLoad
      BY <1>1, <2>1, <1>7, <1>12, StepMoves
    <3>2. Fetch(k)' = "out" /\ Session(k)' = "inflight" /\ HostOn(k)' = "out"
      BY <3>1, <2>4, <1>8 DEF Moved
    <3>3. SafeLoad(k)'
      BY <3>2, <2>1, <2>2, <2>4, <1>7, <1>10, <1>11, <1>13
         DEF SafeLoad, SafeAt, LiveAt, Any, OfCurrent, Late
    <3>4. NoteFits(t, "out", "none", client.host)
      BY LeavesFits
    <3> QED BY <3>1, <3>3, <3>4, <2>1, <2>2, <1>1, <1>7, SafeThread
  <2> QED BY <2>3, <2>4, <1>8 DEF Calm
<1>14. CASE client.load = k
  <2>1. /\ client'.state[k].calls = 0 /\ client'.state[k].life = "live"
        /\ (client'.state[k].owner <=> client.state[k].owner)
        /\ (client'.state[k].session <=> client.state[k].session)
        /\ client'.state[k].progress = client.state[k].progress
        /\ client'.games[k] = "live" /\ ~client'.corrupt
    BY <1>1, <1>2, <1>7, <1>10, <1>11, <1>14 DEF IsClosed, Closed, Ready, Settings
  <2>2. Remaining(client, k) = IF Session(k) = "out" THEN 0 ELSE 1
    BY <1>1, <1>9, <1>14, RemainingFacts DEF Ready, Less
  <2>3. CASE Session(k) = "out" /\ client.host.background
    <3>1. Steps(t, "activating", note) /\ client' = c /\ client'.queued = client.queued
      BY <2>2, <2>3, <1>2, <1>3 DEF IsClosed, Kept
    <3>2. Moved(t, k, "activating") /\ Goes(t, "activating", note) /\ hostLoad' = hostLoad
      BY <3>1, <1>1, <1>7, <1>12, StepMoves
    <3>3. Fetch(k)' = "activating" /\ Session(k)' = "out" /\ HostOn(k)' = "out"
      BY <3>2, <2>3, <1>8 DEF Moved
    <3>4. SafeLoad(k)'
      BY <3>1, <3>3, <2>1, <2>3, <1>7, <1>10, <1>11, <1>14
         DEF SafeLoad, SafeAt, LiveAt, Any, OfCurrent, Late
    <3>5. note = "ok" \/ client.host.spectating
      BY <2>1, <2>3, <1>4, <1>7, <1>11, <1>14
    <3>6. NoteFits(t, "activating", note, client.host)
      BY <3>5 DEF NoteFits
    <3> QED BY <3>1, <3>2, <3>4, <3>6, <2>1, <1>1, <1>7, SafeThread
  <2>4. CASE ~(Session(k) = "out" /\ client.host.background)
    <3>1. /\ Steps(t, "out", "none")
          /\ client'.queued = IF Session(k) = "out" THEN client.queued \cup {k}
                              ELSE client.queued
      <4>1. c.queued = client.queued
        BY <1>2 DEF IsClosed, Kept
      <4>2. CASE Session(k) = "out"
        BY <4>1, <4>2, <2>2, <2>4, <1>3, <1>6 DEF Returns
      <4>3. CASE Session(k) # "out"
        BY <4>1, <4>3, <2>2, <1>3 DEF Returns
      <4> QED BY <4>2, <4>3
    <3>2. Moved(t, k, "out") /\ Goes(t, "out", "none") /\ hostLoad' = hostLoad
      BY <3>1, <1>1, <1>7, <1>12, StepMoves
    <3>3. Fetch(k)' = "out" /\ Session(k)' = Session(k) /\ HostOn(k)' = "out"
      BY <3>2, <1>8 DEF Moved
    <3>4. SafeLoad(k)'
      <4>1. CASE Session(k) = "out"
        BY <4>1, <2>4, <3>3, <2>1, <1>7, <1>10, <1>11, <1>14
           DEF SafeLoad, SafeAt, LiveAt, Any, OfCurrent, Late
      <4>2. CASE Session(k) = "inflight"
        BY <4>2, <3>1, <3>3, <2>1, <1>7, <1>10, <1>11, <1>14
           DEF SafeLoad, SafeAt, LiveAt, Any, OfCurrent, Late
      <4> QED BY <4>1, <4>2, <1>8 DEF Calm
    <3>5. NoteFits(t, "out", "none", client.host) /\ client'.queued \ {k} = client.queued \ {k}
      BY <3>1, LeavesFits
    <3> QED BY <3>1, <3>2, <3>4, <3>5, <2>1, <1>1, <1>7, SafeThread
  <2> QED BY <2>3, <2>4
<1> QED BY <1>13, <1>14

\* A request is over, and its answer decides where the handler goes on: the load that
\* is not current any more, and has no request left, is freed and goes nowhere.
LEMMA EndingSafe ==
  ASSUME CInv, Sequential, Safe, NEW t \in Threads, Ending(t)
  PROVE  Safe'
<1>1. PICK k \in Loads : Ready(t, k, "ended")
  BY ReadyFacts DEF Ending
<1>2. client' = EndLoadState(client, k)
  BY <1>1 DEF Ending, Ready
<1>3. IsClosed(k, client, client')
  BY <1>1, <1>2, ClosedFacts DEF Ready
<1>4. /\ client'.host = client.host /\ client'.inflight = client.inflight
      /\ client'.queued = client.queued /\ client'.game = client.game
      /\ OthersKept(k, client, client') /\ client'.load = client.load
  BY <1>3 DEF IsClosed, Kept
<1>5. t # Host /\ client.load = k /\ client.state[k].calls = 0 /\ client.state[k].owner
  <2>1. t # Host
    BY <1>1 DEF Ready, Where, HostPlaces, Early, Late
  <2> QED BY <2>1, <1>1 DEF Ready, LiveLoad, LiveAt, Where, Any, OfCurrent
<1>6. k \notin client.queued /\ client.games[k] = "live" /\ client.game # k
  BY <1>1, <1>5, BusyFacts
<1>7. /\ client'.state[k].calls = 0 /\ client'.state[k].life = "live"
      /\ client'.state[k].owner /\ client'.games[k] = "live" /\ ~client'.corrupt
  BY <1>1, <1>3, <1>5, <1>6 DEF IsClosed, Closed, Ready
<1>8. Remaining(client, k) = Less(client.state[k].outstanding)
  BY <1>1, <1>5, RemainingFacts DEF Ready
<1>9. ASSUME NEW to \in Places, NEW with, Steps(t, to, with)
      PROVE  /\ Moved(t, k, to) /\ Goes(t, to, with) /\ hostLoad' = hostLoad
             /\ local'[<<k, "session">>] = IF t = <<k, "session">> THEN with
                                           ELSE local[<<k, "session">>]
  BY <1>1, <1>4, <1>9, StepMoves
<1>10. ASSUME NEW to, to # "attached", NEW with, Goes(t, to, with), hostLoad' = hostLoad,
              NoteFits(t, to, with, client.host), SafeLoad(k)'
       PROVE  Safe'
  BY <1>1, <1>4, <1>7, <1>10, SafeThread
<1>11. {"failing", "resolving", "starting", "activating", "storing"} \subseteq Places
  BY PlaceFacts DEF Early, Late
<1>12. CASE t = <<k, "fetch">>
  <2>1. Fetch(k) = "ended" /\ Session(k) = "out" /\ HostOn(k) = "out"
    BY <1>1, <1>12 DEF Ready, Where
  <2>2. Remaining(client, k) = 0
    BY <2>1, <1>1, <1>8, HoldFacts DEF Ready, Less
  <2>3. t[2] = "fetch" /\ local[t] \in {"sets", "unknown", "error"}
    BY <1>1, <1>5, <1>12, ThreadFacts DEF Ready, MayBe, NoteFits
  <2>4. \E to \in {"failing", "resolving", "starting"} :
          Steps(t, to, IF to = "starting" THEN local[t] ELSE "none")
    <3>1. CASE local[t] = "error"
      BY <3>1 DEF Ending
    <3>2. CASE local[t] = "unknown"
      BY <3>2, <2>2, <1>1 DEF Ending, Ready
    <3>3. CASE local[t] = "sets"
      BY <3>3, <2>2, <1>1 DEF Ending, Ready
    <3> QED BY <3>1, <3>2, <3>3, <2>3
  <2>5. PICK to \in {"failing", "resolving", "starting"} :
          Steps(t, to, IF to = "starting" THEN local[t] ELSE "none")
    BY <2>4
  <2> DEFINE with == IF to = "starting" THEN local[t] ELSE "none"
  <2>6. Steps(t, to, with) /\ with # "empty"
    BY <2>3, <2>5
  <2> HIDE DEF with
  <2>7. Moved(t, k, to) /\ Goes(t, to, with) /\ hostLoad' = hostLoad
    BY <2>6, <1>9, <1>11
  <2>8. Fetch(k)' = to /\ Session(k)' = "out" /\ HostOn(k)' = "out"
    BY <2>1, <2>7, <1>12 DEF Moved
  <2>9. SafeLoad(k)'
    BY <2>8, <1>4, <1>5, <1>6, <1>7 DEF SafeLoad, SafeAt, LiveAt, Any, OfCurrent, Late
  <2>10. NoteFits(t, to, with, client.host)
    BY <2>6 DEF NoteFits
  <2> QED BY <2>7, <2>9, <2>10, <1>10
<1>13. CASE t = <<k, "session">>
  <2>1. Session(k) = "ended" /\ HostOn(k) = "out" /\ Fetch(k) \in {"out", "processing"}
    BY <1>1, <1>13 DEF Ready, Where, Calm
  <2>2. Remaining(client, k) = IF Fetch(k) = "out" THEN 0 ELSE 1
    BY <2>1, <1>1, <1>8, HoldFacts DEF Ready, Less
  <2>3. t[2] = "session" /\ local[t] \in {"ok", "error"}
    BY <1>1, <1>5, <1>13, ThreadFacts DEF Ready, MayBe
  <2>4. \/ Steps(t, "failing", "none")
        \/ Fetch(k) = "out" /\ client.host.background /\ Steps(t, "activating", "ok")
        \/ Fetch(k) = "out" /\ ~client.host.background /\ Steps(t, "storing", "last")
        \/ Fetch(k) = "processing" /\ Steps(t, "storing", "none")
    <3>1. CASE local[t] = "error"
      BY <3>1 DEF Ending
    <3>2. CASE local[t] = "ok" /\ Fetch(k) = "out"
      <4>1. k = LoadOf(t) /\ Remaining(client, LoadOf(t)) = 0
        BY <3>2, <2>2, <1>1 DEF Ready
      <4>2. CASE client.host.background
        BY <4>1, <4>2, <3>2 DEF Ending
      <4>3. CASE ~client.host.background
        BY <4>1, <4>3, <3>2 DEF Ending
      <4> QED BY <4>2, <4>3, <3>2
    <3>3. CASE local[t] = "ok" /\ Fetch(k) = "processing"
      BY <3>3, <2>2, <1>1 DEF Ending, Ready
    <3> QED BY <3>1, <3>2, <3>3, <2>1, <2>3
  <2>5. CASE Steps(t, "failing", "none")
    <3>1. Moved(t, k, "failing") /\ Goes(t, "failing", "none") /\ hostLoad' = hostLoad
      BY <2>5, <1>9, <1>11
    <3>2. Fetch(k)' \in {"out", "processing"} /\ Session(k)' = "failing" /\ HostOn(k)' = "out"
      BY <2>1, <3>1, <1>13 DEF Moved
    <3>3. SafeLoad(k)'
      BY <3>2, <1>4, <1>5, <1>6, <1>7 DEF SafeLoad, SafeAt, LiveAt, Any, OfCurrent, Late
    <3>4. NoteFits(t, "failing", "none", client.host)
      BY LeavesFits
    <3> QED BY <3>1, <3>3, <3>4, <1>10
  <2>6. CASE Fetch(k) = "out" /\ client.host.background /\ Steps(t, "activating", "ok")
    <3>1. Moved(t, k, "activating") /\ Goes(t, "activating", "ok") /\ hostLoad' = hostLoad
      BY <2>6, <1>9, <1>11
    <3>2. Fetch(k)' = "out" /\ Session(k)' = "activating" /\ HostOn(k)' = "out"
      BY <2>1, <2>6, <3>1, <1>13 DEF Moved
    <3>3. SafeLoad(k)'
      BY <3>2, <1>4, <1>5, <1>6, <1>7 DEF SafeLoad, SafeAt, LiveAt, Any, OfCurrent, Late
    <3>4. NoteFits(t, "activating", "ok", client.host)
      BY DEF NoteFits
    <3> QED BY <3>1, <3>3, <3>4, <1>10
  <2>7. CASE Fetch(k) = "out" /\ ~client.host.background /\ Steps(t, "storing", "last")
    <3>1. Moved(t, k, "storing") /\ Goes(t, "storing", "last") /\ hostLoad' = hostLoad
      BY <2>7, <1>9, <1>11
    <3>2. Fetch(k)' = "out" /\ Session(k)' = "storing" /\ HostOn(k)' = "out"
      BY <2>1, <2>7, <3>1, <1>13 DEF Moved
    <3>3. SafeLoad(k)'
      BY <2>7, <3>2, <1>4, <1>5, <1>6, <1>7 DEF SafeLoad, SafeAt, LiveAt, Any, OfCurrent, Late
    <3>4. NoteFits(t, "storing", "last", client.host)
      BY LeavesFits
    <3> QED BY <3>1, <3>3, <3>4, <1>10
  <2>8. CASE Fetch(k) = "processing" /\ Steps(t, "storing", "none")
    <3>1. /\ Moved(t, k, "storing") /\ Goes(t, "storing", "none") /\ hostLoad' = hostLoad
          /\ local'[<<k, "session">>] # "last"
      BY <2>8, <1>9, <1>11, <1>13
    <3>2. Fetch(k)' = "processing" /\ Session(k)' = "storing" /\ HostOn(k)' = "out"
      BY <2>1, <2>8, <3>1, <1>13 DEF Moved
    <3>3. SafeLoad(k)'
      BY <3>1, <3>2, <1>4, <1>5, <1>6, <1>7 DEF SafeLoad, SafeAt, LiveAt, Any, OfCurrent, Late
    <3>4. NoteFits(t, "storing", "none", client.host)
      BY LeavesFits
    <3> QED BY <3>1, <3>3, <3>4, <1>10
  <2> QED BY <2>4, <2>5, <2>6, <2>7, <2>8
<1> QED BY <1>5, <1>12, <1>13, <1>1 DEF Ready, Where

\* The request to start a session is issued while the sets are processed.
LEMMA StartingSafe ==
  ASSUME CInv, Sequential, Safe, NEW t \in Threads, Starting(t)
  PROVE  Safe'
<1>1. PICK k \in Loads : Ready(t, k, "starting")
  BY ReadyFacts DEF Starting
<1>2. client' = BeginSession(client, k) /\ Steps(t, "processing", local[t])
  BY <1>1 DEF Starting, Ready
<1>3. /\ t = <<k, "fetch">> /\ Fetch(k) = "starting" /\ Session(k) = "out"
      /\ HostOn(k) = "out"
  BY <1>1 DEF Ready, Where, HostPlaces, SessionPlaces, Early, Late
<1>4. client.load = k /\ client.state[k].calls = 0 /\ client.state[k].owner
      /\ client.state[k].outstanding = 0
  BY <1>1, <1>3, HoldFacts DEF Ready, LiveLoad, LiveAt, Any, OfCurrent
<1>5. k \notin client.queued /\ client.games[k] = "live" /\ client.game # k
  BY <1>1, <1>4, BusyFacts
<1>6. local[t] # "empty" /\ NoteFits(t, "processing", local[t], client.host)
  BY <1>1, <1>3, ThreadFacts DEF Ready, NoteFits
<1>7. "processing" \in Places
  BY PlaceFacts
<1>8. \/ client.host.spectating /\ IsAt(k, "STARTING", 1, client, client')
      \/ \E n : IsAt(k, "STARTING", 1, client, n) /\ IsError(k, n, client')
      \/ IsIssued(k, "session", "STARTING", 2, client, client')
  BY <1>1, <1>2, <1>4, SessionFacts DEF Ready
<1>9. ASSUME NEW n, IsAt(k, "STARTING", 1, client, n)
      PROVE  /\ n \in Shared /\ Kept(client, n) /\ OthersKept(k, client, n) /\ n.load = client.load
             /\ n.game = client.game /\ n.games = client.games /\ ~n.corrupt
             /\ n.state[k].life = "live" /\ n.state[k].outstanding = 1
             /\ n.state[k].calls = 0 /\ n.state[k].owner
  BY <1>1, <1>4, <1>9 DEF IsAt, Standing, Kept, LoadState, Ready
<1>10. CASE client.host.spectating /\ IsAt(k, "STARTING", 1, client, client')
  <2>1. /\ client'.host = client.host /\ client'.inflight = client.inflight
        /\ client'.queued = client.queued
    BY <1>9, <1>10 DEF Kept
  <2>2. Moved(t, k, "processing") /\ Goes(t, "processing", local[t]) /\ hostLoad' = hostLoad
    BY <2>1, <1>1, <1>2, <1>7, StepMoves
  <2>3. Fetch(k)' = "processing" /\ Session(k)' = "out" /\ HostOn(k)' = "out"
    BY <2>2, <1>3 DEF Moved
  <2>4. SafeLoad(k)'
    BY <2>1, <2>3, <1>4, <1>5, <1>9, <1>10 DEF SafeLoad, SafeAt, LiveAt, Any, OfCurrent, Late
  <2> QED BY <2>1, <2>2, <2>4, <1>1, <1>6, <1>9, <1>10, SafeThread
<1>11. CASE \E n : IsAt(k, "STARTING", 1, client, n) /\ IsError(k, n, client')
  <2>1. PICK n : IsAt(k, "STARTING", 1, client, n) /\ IsError(k, n, client')
    BY <1>11
  <2>2. /\ n \in Shared /\ Kept(client, n) /\ OthersKept(k, client, n) /\ n.load = client.load
        /\ n.game = client.game /\ n.games = client.games /\ ~n.corrupt
        /\ n.state[k].life = "live" /\ n.state[k].outstanding = 1
        /\ n.state[k].calls = 0 /\ n.state[k].owner
    BY <2>1, <1>9
  <2>3. /\ client'.host = client.host /\ client'.inflight = client.inflight
        /\ client'.queued = client.queued /\ client'.load = NoLoad
        /\ client'.game = client.game /\ OthersKept(k, client, client')
        /\ client'.games = client.games /\ ~client'.corrupt
    BY <2>1, <2>2, <1>4 DEF IsError, Kept, OthersKept
  <2>4. /\ client'.state[k].life = "live" /\ client'.state[k].progress = "ABORTED"
        /\ client'.state[k].calls \in 0 .. 1
    BY <2>1, <2>2 DEF IsError, Erred, MoreCalls
  <2>5. Moved(t, k, "processing") /\ Goes(t, "processing", local[t]) /\ hostLoad' = hostLoad
    BY <2>3, <1>1, <1>2, <1>7, StepMoves
  <2>6. Fetch(k)' = "processing" /\ Session(k)' = "out" /\ HostOn(k)' = "out"
    BY <2>5, <1>3 DEF Moved
  <2>7. SafeLoad(k)'
    BY <2>3, <2>4, <2>6, <1>5, LoadAssumption
       DEF SafeLoad, SafeAt, LiveAt, Any, OfCurrent, Late
  <2> QED BY <2>3, <2>5, <2>7, <1>1, <1>4, <1>6, SafeThread
<1>12. CASE IsIssued(k, "session", "STARTING", 2, client, client')
  <2>1. /\ client'.host = client.host /\ client'.queued = client.queued
        /\ client'.load = client.load /\ client'.game = client.game
        /\ client'.games = client.games /\ ~client'.corrupt /\ OthersKept(k, client, client')
        /\ client'.inflight = client.inflight \cup {<<k, "session">>}
        /\ client'.state[k].life = "live" /\ client'.state[k].calls = 0
        /\ client'.state[k].owner
    BY <1>1, <1>4, <1>12 DEF IsIssued, Standing, LoadState, Ready
  <2>2. Goes(t, "processing", local[t]) /\ hostLoad' = hostLoad
    BY <1>2 DEF Steps
  <2>3. /\ <<k, "fetch">> \in Threads /\ <<k, "session">> \in Threads /\ Host \in Threads
        /\ <<k, "fetch">> # Host /\ <<k, "session">> # <<k, "fetch">>
    BY ThreadFacts DEF Threads
  <2>4. /\ pc'[<<k, "fetch">>] = "processing" /\ pc'[Host] = pc[Host]
    BY <2>2, <2>3, <1>3 DEF Goes, CInv, Types
  <2>5. <<k, "fetch">> \notin client'.inflight /\ <<k, "session">> \in client'.inflight
    <3>1. t \notin client.inflight
      BY <1>1, WorkingFacts DEF CInv, Ready
    <3> QED BY <3>1, <2>1, <2>3, <1>3
  <2>6. Fetch(k)' = "processing" /\ Session(k)' = "inflight" /\ HostOn(k)' = "out"
    BY <2>2, <2>4, <2>5, <1>3 DEF Fetch, Session, HostOn, Stage
  <2>7. SafeLoad(k)'
    BY <2>1, <2>6, <1>4, <1>5 DEF SafeLoad, SafeAt, LiveAt, Any, OfCurrent, Late
  <2>8. \A q \in Loads \ {k} : Undisturbed(q, client, client')
    BY <2>1 DEF OthersKept, Undisturbed
  <2>9. client'.inflight \ {<<k, "fetch">>, <<k, "session">>}
          = client.inflight \ {<<k, "fetch">>, <<k, "session">>}
    BY <2>1
  <2>10. Runs(t) /\ k = LoadOf(t) /\ pc[t] # "out"
    BY <1>1 DEF Ready
  <2> QED BY <2>1, <2>2, <2>7, <2>8, <2>9, <2>10, <1>6, SafeStep DEF SameHost
<1> QED BY <1>8, <1>10, <1>11, <1>12

-----------------------------------------------------------------------------
(* Attaching a load and resolving its hash.                                 *)

\* While a load is identified, none of its requests is under way.
LEMMA EarlyFacts ==
  ASSUME NEW t \in Threads, NEW k \in Loads, NEW from \in Early, Ready(t, k, from)
  PROVE  /\ t = Host \/ t = <<k, "fetch">>
         /\ t = Host => Fetch(k) = "out" /\ Session(k) = "out"
         /\ t = <<k, "fetch">> => Session(k) = "out" /\ HostOn(k) = "out" /\ from # "attached"
         /\ client.state[k].outstanding = 0 /\ Last(t, k)
         /\ (from \in {"identifying", "resolving"} => client.load = k)
         /\ (client.load = k => client.state[k].owner)
         /\ (client.load = k \/ from \in {"attaching", "attached"} => client.state[k].calls = 0)
         /\ (t = <<k, "fetch">> => client.load = k)
<1>1. t = Host \/ t = <<k, "fetch">>
  BY DEF Ready, Where, SessionPlaces, Early, Late
<1>2. <<k, "fetch">> # Host /\ <<k, "session">> # Host /\ <<k, "fetch">> # <<k, "session">>
  BY ThreadFacts
<1>3. CASE t = Host
  <2>1. HostOn(k) = from /\ Fetch(k) = "out" /\ Session(k) = "out"
    BY <1>3 DEF Ready, Where
  <2>2. client.state[k].outstanding = 0
    BY <2>1, HoldFacts DEF Ready
  <2>3. /\ (from \in {"identifying", "resolving"} => client.load = k)
        /\ (client.load = k => client.state[k].owner)
        /\ (client.load = k \/ from \in {"attaching", "attached"} => client.state[k].calls = 0)
    BY <2>1 DEF Ready, LiveLoad, LiveAt, Any, OfCurrent
  <2> QED BY <1>2, <1>3, <2>1, <2>2, <2>3 DEF Last
<1>4. CASE t = <<k, "fetch">>
  <2>1. Fetch(k) = from /\ HostOn(k) = "out" /\ Session(k) = "out"
    BY <1>4 DEF Ready, Where
  <2>2. client.state[k].outstanding = 0
    <3>1. Hold(from) = 0
      BY PlaceFacts
    <3> QED BY <2>1, <3>1, HoldFacts DEF Ready
  <2>3. from # "attached" /\ client.load = k /\ client.state[k].owner /\ client.state[k].calls = 0
    BY <2>1 DEF Ready, LiveLoad, LiveAt, Any, OfCurrent, Early
  <2> QED BY <1>2, <1>4, <2>1, <2>2, <2>3 DEF Last
<1> QED BY <1>1, <1>3, <1>4

\* A step from one place to another of a load that is identified and current.
LEMMA EarlySafe ==
  ASSUME CInv, Sequential, Safe, NEW t \in Threads, NEW k \in Loads, NEW from \in Early,
         Ready(t, k, from), NEW to \in {"attaching", "identifying", "resolving"},
         Steps(t, to, "none"), client'.inflight = client.inflight,
         client'.host = client.host, ~client'.corrupt, OthersKept(k, client, client'),
         client'.queued = client.queued, client'.load = k, client'.game = client.game,
         client'.games = client.games,
         client.load = k \/ (client.load = NoLoad /\ from = "attached"),
         client'.state[k].life = "live", client'.state[k].calls = 0, client'.state[k].owner,
         client.state[k].owner
  PROVE  Safe'
<1>1. "attaching" \in Places /\ "identifying" \in Places /\ "resolving" \in Places
  BY PlaceFacts DEF Early
<1>2. from # "out"
  BY DEF Early
<1>3. Moved(t, k, to) /\ Goes(t, to, "none") /\ hostLoad' = hostLoad
  BY <1>1, <1>2, StepMoves
<1>4. k \notin client.queued /\ client.games[k] = "live" /\ client.game # k
  BY <1>2, BusyFacts DEF Early
<1>5. NoteFits(t, to, "none", client.host) /\ to # "attached"
  BY LeavesFits
<1>6. SafeLoad(k)'
  <2>1. CASE t = Host
    <3>1. HostOn(k)' = to /\ Fetch(k)' = "out" /\ Session(k)' = "out"
      BY <2>1, <1>3, EarlyFacts DEF Moved
    <3> QED BY <3>1, <1>4 DEF SafeLoad, SafeAt, LiveAt, Any, OfCurrent, Late
  <2>2. CASE t = <<k, "fetch">>
    <3>1. Fetch(k)' = to /\ HostOn(k)' = "out" /\ Session(k)' = "out"
      BY <2>2, <1>3, EarlyFacts DEF Moved
    <3> QED BY <3>1, <1>4 DEF SafeLoad, SafeAt, LiveAt, Any, OfCurrent, Late
  <2> QED BY <2>1, <2>2, EarlyFacts
<1> QED BY <1>2, <1>3, <1>5, <1>6, SafeThread

\* The next hash of the file is tried.
LEMMA NextHashSafe ==
  ASSUME CInv, Sequential, Safe, NEW t \in Threads, NextHash(t)
  PROVE  Safe'
<1>1. PICK k \in Loads : Ready(t, k, "resolving")
  BY ReadyFacts DEF NextHash
<1> DEFINE fewer == client.state[k].hashes - 1
           s == [client.state[k] EXCEPT !.hashes = fewer]
           d == [client EXCEPT !.state = [client.state EXCEPT ![k] = s]]
<1>2. client' = d /\ Steps(t, "attaching", "none") /\ client.state[k].hashes > 0
  BY <1>1 DEF NextHash, Ready
<1>3. fewer \in Nat
  BY <1>1, <1>2 DEF LoadState, Ready
<1> HIDE DEF fewer
<1>4. /\ s \in LoadState /\ s.life = "live" /\ s.calls = client.state[k].calls
      /\ (s.owner <=> client.state[k].owner)
  BY <1>1, <1>3 DEF LoadState, Ready
<1> HIDE DEF s
<1>5. /\ d \in Shared /\ Kept(client, d) /\ OthersKept(k, client, d)
      /\ d.load = client.load /\ d.game = client.game /\ (d.corrupt <=> client.corrupt)
      /\ d.games = client.games /\ d.state[k] = s
  BY <1>1, <1>4, PutFacts DEF Ready
<1> HIDE DEF d
<1>6. "resolving" \in Early
  BY DEF Early
<1>7. client.load = k /\ client.state[k].owner /\ client.state[k].calls = 0 /\ ~client.corrupt
  BY <1>1, <1>6, EarlyFacts DEF Ready
<1>8. /\ client'.inflight = client.inflight /\ client'.host = client.host
      /\ client'.queued = client.queued
  BY <1>2, <1>5 DEF Kept
<1> QED BY <1>1, <1>2, <1>4, <1>5, <1>6, <1>7, <1>8, EarlySafe

\* The load becomes the current one.
LEMMA AttachedSafe ==
  ASSUME CInv, Sequential, Safe, NEW t \in Threads, Attached(t)
  PROVE  Safe'
<1>1. PICK k \in Loads : Ready(t, k, "attached")
  BY ReadyFacts DEF Attached
<1>2. client' = [client EXCEPT !.load = k] /\ Steps(t, "identifying", "none")
  BY <1>1 DEF Attached, Ready
<1>3. /\ client'.state = client.state /\ client'.load = k /\ client'.game = client.game
      /\ client'.inflight = client.inflight /\ client'.queued = client.queued
      /\ client'.games = client.games /\ client'.host = client.host /\ ~client'.corrupt
  BY <1>1, <1>2 DEF Ready, Shared
<1>4. "attached" \in Early
  BY DEF Early
<1>5. client.state[k].calls = 0 /\ client.state[k].owner /\ client.load = NoLoad
  <2>1. t = Host /\ client.state[k].calls = 0
    BY <1>1, <1>4, EarlyFacts
  <2>2. client.state[k].owner
    BY <2>1, <1>1 DEF Ready, Where, LiveLoad, LiveAt
  <2>3. client.load = NoLoad
    BY <1>1 DEF Ready, Safe
  <2> QED BY <2>1, <2>2, <2>3
<1>6. OthersKept(k, client, client') /\ client.state[k].life = "live"
  BY <1>1, <1>3 DEF OthersKept, Ready
<1> QED BY <1>1, <1>2, <1>3, <1>4, <1>5, <1>6, EarlySafe

\* The sets of a game are fetched, or that waits for the login, or fails.
LEMMA FetchSafe ==
  ASSUME CInv, Sequential, Safe, NEW t \in Threads, NEW k \in Loads, NEW from \in Early,
         Ready(t, k, from), client.load = k,
         NEW b, b \in Shared, Kept(client, b), OthersKept(k, client, b), b.load = client.load,
         b.game = client.game, b.games = client.games, ~b.corrupt,
         b.state[k].life = "live", b.state[k].outstanding = client.state[k].outstanding,
         b.state[k].calls = client.state[k].calls, b.state[k].owner,
         client' = BeginFetch(b, k), Returns(t)
  PROVE  Safe'
<1>1. /\ client.state[k].outstanding = 0 /\ client.state[k].calls = 0 /\ client.state[k].owner
      /\ Last(t, k) /\ (t = Host \/ t = <<k, "fetch">>)
      /\ (t = Host => Fetch(k) = "out" /\ Session(k) = "out")
      /\ (t = <<k, "fetch">> => Session(k) = "out" /\ HostOn(k) = "out")
  BY EarlyFacts
<1>2. from # "out"
  BY DEF Early
<1>3. k \notin client.queued /\ client.games[k] = "live" /\ client.game # k
  BY <1>1, <1>2, BusyFacts DEF Early
<1>4. b.state[k].outstanding < 2 /\ b.state[k].outstanding = 0 /\ b.state[k] \in LoadState
  BY <1>1 DEF Shared
<1>5. \/ IsIssued(k, "fetch", "IDENTIFYING", 1, b, client')
      \/ IsAt(k, "AWAIT_LOGIN", 0, b, client')
      \/ IsError(k, b, client')
  BY <1>4, FetchFacts
<1>6. Steps(t, "out", "none") /\ Goes(t, "out", "none") /\ hostLoad' = hostLoad
      /\ NoteFits(t, "out", "none", client.host) /\ "out" \in Places
  BY LeavesFits, PlaceFacts DEF Returns, Steps
<1>7. CASE IsError(k, b, client')
  <2>1. /\ client'.host = client.host /\ client'.inflight = client.inflight
        /\ client'.queued = client.queued /\ client'.load = NoLoad
        /\ client'.game = client.game /\ OthersKept(k, client, client')
        /\ ~client'.corrupt
    BY <1>3, <1>4, <1>7 DEF IsError, Kept, OthersKept
  <2>2. /\ client'.state[k].life = "freed" /\ client'.state[k].calls \in 0 .. 1
    BY <1>1, <1>4, <1>7 DEF IsError, Erred, MoreCalls
  <2>3. client'.load # k /\ client'.game # k
        /\ client'.state[k].calls <= IF client.host.background THEN 1 ELSE 2
    BY <2>1, <2>2, <1>3, LoadAssumption
  <2> QED BY <2>1, <2>2, <2>3, <1>1, <1>2, GoneSafe
<1>8. CASE IsAt(k, "AWAIT_LOGIN", 0, b, client')
  <2>1. /\ client'.host = client.host /\ client'.inflight = client.inflight
        /\ client'.queued = client.queued /\ client'.load = client.load
        /\ client'.game = client.game /\ client'.games = client.games
        /\ OthersKept(k, client, client') /\ ~client'.corrupt
        /\ client'.state[k].life = "live" /\ client'.state[k].calls = 0
        /\ client'.state[k].owner
    BY <1>1, <1>4, <1>8 DEF IsAt, Standing, Kept, OthersKept, LoadState
  <2>2. Moved(t, k, "out")
    BY <2>1, <1>2, <1>6, StepMoves
  <2>3. Fetch(k)' = "out" /\ Session(k)' = "out" /\ HostOn(k)' = "out"
    BY <2>2, <1>1 DEF Moved
  <2>4. SafeLoad(k)'
    BY <2>1, <2>3, <1>3 DEF SafeLoad, SafeAt, LiveAt, Any, OfCurrent, Late
  <2> QED BY <2>1, <2>4, <1>2, <1>6, SafeThread
<1>9. CASE IsIssued(k, "fetch", "IDENTIFYING", 1, b, client')
  <2>1. /\ client'.host = client.host /\ client'.queued = client.queued
        /\ client'.load = client.load /\ client'.game = client.game
        /\ client'.games = client.games /\ ~client'.corrupt /\ OthersKept(k, client, client')
        /\ client'.inflight = client.inflight \cup {<<k, "fetch">>}
        /\ client'.state[k].life = "live" /\ client'.state[k].calls = 0
        /\ client'.state[k].owner
    BY <1>1, <1>4, <1>9 DEF IsIssued, Standing, Kept, OthersKept, LoadState
  <2>2. /\ <<k, "fetch">> \in Threads /\ <<k, "session">> \in Threads /\ Host \in Threads
        /\ <<k, "session">> # Host /\ <<k, "session">> # <<k, "fetch">> /\ <<k, "fetch">> # Host
    BY ThreadFacts DEF Threads
  <2>3. Session(k) = "out"
    BY <1>1
  <2>4. Session(k)' = "out"
    <3>1. <<k, "session">> \notin client.inflight /\ pc[<<k, "session">>] = "out"
      BY <2>2, <2>3 DEF Session, Stage
    <3>2. pc'[<<k, "session">>] = "out"
      BY <3>1, <2>2, <1>1, <1>6 DEF Goes, CInv, Types
    <3> QED BY <3>1, <3>2, <2>1, <2>2 DEF Session, Stage
  <2>5. HostOn(k)' = "out"
    <3>1. CASE t = Host
      BY <3>1, <2>2, <1>6 DEF Goes, CInv, Types, HostOn
    <3>2. CASE t = <<k, "fetch">>
      BY <3>2, <2>2, <1>1, <1>6 DEF Goes, CInv, Types, HostOn
    <3> QED BY <3>1, <3>2, <1>1
  <2>6. Fetch(k)' = "inflight"
    BY <2>1 DEF Fetch, Stage
  <2>7. SafeLoad(k)'
    BY <2>1, <2>4, <2>5, <2>6, <1>3 DEF SafeLoad, SafeAt, LiveAt, Any, OfCurrent, Late
  <2>8. \A q \in Loads \ {k} : Undisturbed(q, client, client')
    BY <2>1 DEF OthersKept, Undisturbed
  <2>9. client'.inflight \ {<<k, "fetch">>, <<k, "session">>}
          = client.inflight \ {<<k, "fetch">>, <<k, "session">>}
    BY <2>1
  <2>10. Runs(t) /\ k = LoadOf(t) /\ pc[t] # "out"
    BY <1>2 DEF Ready
  <2> QED BY <2>1, <2>7, <2>8, <2>9, <2>10, <1>6, SafeStep DEF SameHost
<1> QED BY <1>5, <1>7, <1>8, <1>9

\* The sets are fetched, or the hash is known to belong to no game.
LEMMA IdentifyingSafe ==
  ASSUME CInv, Sequential, Safe, NEW t \in Threads, Identifying(t)
  PROVE  Safe'
<1>1. PICK k \in Loads : Ready(t, k, "identifying")
  BY ReadyFacts DEF Identifying
<1>2. \/ client' = BeginFetch(client, k) /\ Returns(t)
      \/ client' = client /\ Steps(t, "resolving", "none")
  BY <1>1 DEF Identifying, Ready
<1>3. "identifying" \in Early
  BY DEF Early
<1>4. /\ client.load = k /\ client.state[k].owner /\ client.state[k].calls = 0
      /\ client \in Shared /\ client.state[k].life = "live" /\ ~client.corrupt
  BY <1>1, <1>3, EarlyFacts DEF Ready
<1>5. Kept(client, client) /\ OthersKept(k, client, client)
  BY DEF Kept, OthersKept
<1>6. CASE client' = BeginFetch(client, k) /\ Returns(t)
  BY <1>1, <1>3, <1>4, <1>5, <1>6, FetchSafe
<1>7. CASE client' = client /\ Steps(t, "resolving", "none")
  BY <1>1, <1>3, <1>4, <1>5, <1>7, EarlySafe
<1> QED BY <1>2, <1>6, <1>7

\* The host names the game.
LEMMA HostNamesGameSafe ==
  ASSUME CInv, Sequential, Safe, NEW t \in Threads, HostNamesGame(t)
  PROVE  Safe'
<1>1. PICK k \in Loads : Ready(t, k, "resolving")
  BY ReadyFacts DEF HostNamesGame
<1> DEFINE s == [client.state[k] EXCEPT !.mapping = "is_unknown"]
           d == [client EXCEPT !.state = [client.state EXCEPT ![k] = s]]
<1>2. client' = BeginFetch(d, k) /\ Returns(t)
  BY <1>1 DEF HostNamesGame, Ready
<1>3. /\ s \in LoadState /\ s.life = "live" /\ s.calls = client.state[k].calls
      /\ (s.owner <=> client.state[k].owner)
      /\ s.outstanding = client.state[k].outstanding
  BY <1>1 DEF LoadState, Ready
<1> HIDE DEF s
<1>4. /\ d \in Shared /\ Kept(client, d) /\ OthersKept(k, client, d)
      /\ d.load = client.load /\ d.game = client.game /\ (d.corrupt <=> client.corrupt)
      /\ d.games = client.games /\ d.state[k] = s
  BY <1>1, <1>3, PutFacts DEF Ready
<1> HIDE DEF d
<1>5. "resolving" \in Early
  BY DEF Early
<1>6. client.load = k /\ client.state[k].owner /\ ~client.corrupt
  BY <1>1, <1>5, EarlyFacts DEF Ready
<1> QED BY <1>1, <1>2, <1>3, <1>4, <1>5, <1>6, FetchSafe

\* There is no game for the hash; the error comes after the game is made current.
LEMMA UnknownGameSafe ==
  ASSUME CInv, Sequential, Safe, NEW t \in Threads, UnknownGame(t)
  PROVE  Safe'
<1>1. PICK k \in Loads : Ready(t, k, "resolving")
  BY ReadyFacts DEF UnknownGame
<1> DEFINE s == [client.state[k] EXCEPT !.owner = FALSE]
           b == [client EXCEPT !.state = [client.state EXCEPT ![k] = s]]
           d == [b EXCEPT !.game = k]
<1>2. client' = LoadError(d, k, "ERROR") /\ Returns(t)
  <2>1. d = [client EXCEPT !.game = k, !.state[k].owner = FALSE]
    BY <1>1 DEF Shared, Ready
  <2> HIDE DEF d
  <2> QED BY <2>1, <1>1 DEF UnknownGame, Ready
<1>3. /\ s \in LoadState /\ s.life = "live" /\ s.calls = client.state[k].calls /\ ~s.owner
      /\ s.outstanding = client.state[k].outstanding
  BY <1>1 DEF LoadState, Ready
<1> HIDE DEF s
<1>4. /\ b \in Shared /\ Kept(client, b) /\ OthersKept(k, client, b)
      /\ b.load = client.load /\ (b.corrupt <=> client.corrupt)
      /\ b.games = client.games /\ b.state[k] = s
  BY <1>1, <1>3, PutFacts DEF Ready
<1> HIDE DEF b
<1>5. /\ d \in Shared /\ Kept(b, d) /\ d.state = b.state /\ d.games = b.games
      /\ d.load = b.load /\ d.game = k /\ (d.corrupt <=> b.corrupt)
  BY <1>1, <1>4 DEF Shared, Kept
<1> HIDE DEF d
<1>6. IsError(k, d, client')
  BY <1>2, <1>5, ErrorFacts
<1>7. "resolving" \in Early /\ "resolving" # "out"
  BY DEF Early
<1>8. /\ client.load = k /\ client.state[k].owner /\ client.state[k].calls = 0
      /\ client.state[k].outstanding = 0 /\ Last(t, k) /\ ~client.corrupt
  BY <1>1, <1>7, EarlyFacts DEF Ready
<1>9. client.games[k] = "live"
  BY <1>1, <1>8, BusyFacts
<1>10. /\ client'.host = client.host /\ client'.inflight = client.inflight
       /\ client'.queued = client.queued /\ client'.load = NoLoad /\ client'.game = k
       /\ OthersKept(k, client, client') /\ ~client'.corrupt /\ client'.games[k] = "live"
  BY <1>3, <1>4, <1>5, <1>6, <1>8, <1>9 DEF IsError, Kept, OthersKept
<1>11. client'.state[k].life = "freed" /\ client'.state[k].calls \in 0 .. 1
  BY <1>3, <1>4, <1>5, <1>6, <1>8 DEF IsError, Erred, MoreCalls
<1>12. /\ client'.load # k
       /\ client'.state[k].calls <= IF client.host.background THEN 1 ELSE 2
  BY <1>10, <1>11, LoadAssumption
<1> QED BY <1>1, <1>2, <1>7, <1>8, <1>10, <1>11, <1>12, GoneSafe

\* The game that is unloaded is freed, or belongs to the load that is current: no live
\* load state of another load refers to it.
LEMMA PlayedFacts ==
  ASSUME CInv, Safe, NEW q \in Loads, client.state[q].life = "live",
         Fetch(q) \in Calm, Session(q) \in Calm, HostOn(q) = "out"
  PROVE  /\ ~(client.game = q /\ client.state[q].owner)
         /\ client.state[q].owner => client.games[q] = "live"
<1>1. LiveLoad(q)
  BY DEF Safe, SafeLoad, SafeAt, LiveLoad
<1> QED BY <1>1, CalmFacts DEF LiveLoad, LiveAt

\* The first load attaches, and what was played is unloaded; a load that is not
\* current any more is refused.
LEMMA AttachingSafe ==
  ASSUME CInv, Sequential, Safe, NEW t \in Threads, Attaching(t)
  PROVE  Safe'
<1>1. PICK k \in Loads : Ready(t, k, "attaching")
  BY ReadyFacts DEF Attaching
<1>2. "attaching" \in Early /\ "attaching" # "out"
      /\ "attaching" \notin {"validating", "concluding"} /\ k # NoLoad
  BY LoadAssumption DEF Early
<1>3. /\ t = Host \/ t = <<k, "fetch">>
      /\ (t = Host => Fetch(k) = "out" /\ Session(k) = "out")
      /\ Last(t, k) /\ client.state[k].calls = 0
      /\ (client.load = k => client.state[k].owner)
      /\ (t = <<k, "fetch">> => client.load = k)
      /\ ~client.corrupt /\ client \in Shared /\ client.state[k].life = "live"
  BY <1>1, <1>2, EarlyFacts DEF Ready
<1>4. CASE client.load = NoLoad
  <2> DEFINE u == UnloadGame(client)
             s == [u.state[k] EXCEPT !.owner = TRUE]
             b == [u EXCEPT !.state = [u.state EXCEPT ![k] = s]]
             games == [b.games EXCEPT ![k] = "live"]
             d == [b EXCEPT !.games = games]
  <2>1. IsUnloaded(client, u)
    BY <1>3, UnloadedFacts
  <2>2. u = UnloadGame(client)
    OBVIOUS
  <2> HIDE DEF u
  <2>3. client' = [u EXCEPT !.state[k].owner = TRUE, !.games[k] = "live"]
        /\ Steps(t, "attached", "none")
    BY <2>2, <1>1, <1>2, <1>4 DEF Attaching, Ready
  <2>4. \A q \in Loads : q # client.load
    BY <1>4, LoadAssumption
  <2>5. \A q \in Loads : u.state[q] = client.state[q]
    BY <2>1, <2>4 DEF IsUnloaded, Told
  <2>6. /\ u \in Shared /\ u.load = NoLoad /\ u.game = NoLoad /\ Kept(client, u)
    BY <2>1 DEF IsUnloaded
  <2>7. client' = d
    <3>1. b.games = u.games
      BY <2>6 DEF Shared
    <3> QED BY <2>3, <3>1
  <2>8. s \in LoadState /\ s.life = "live" /\ s.owner /\ s.calls = 0
        /\ (s.aborted <=> client.state[k].aborted)
    <3>1. u.state[k] \in LoadState /\ u.state[k] = client.state[k]
      BY <2>5, <2>6 DEF Shared
    <3> QED BY <3>1, <1>3 DEF LoadState
  <2> HIDE DEF s
  <2>9. /\ b \in Shared /\ Kept(u, b) /\ OthersKept(k, u, b)
        /\ b.load = u.load /\ b.game = u.game /\ (b.corrupt <=> u.corrupt)
        /\ b.games = u.games /\ b.state[k] = s
    BY <2>6, <2>8, PutFacts
  <2> HIDE DEF b
  <2>10. /\ games \in [Loads -> Lives] /\ games[k] = "live"
         /\ \A q \in Loads \ {k} : games[q] = b.games[q]
    BY <2>9 DEF Shared, Lives
  <2> HIDE DEF games
  <2>11. /\ d.state = b.state /\ d.games = games /\ d.inflight = b.inflight
         /\ d.load = b.load /\ d.game = b.game /\ d.queued = b.queued
         /\ d.host = b.host /\ (d.corrupt <=> b.corrupt)
    BY <2>9, <2>10 DEF Shared
  <2> HIDE DEF d
  <2>12. t = Host /\ HostOn(k) = "attaching"
    BY <1>1, <1>2, <1>3, <1>4 DEF Ready, Where
  <2>13. \A q \in Loads \ {k} :
           Fetch(q) \in Calm /\ Session(q) \in Calm /\ HostOn(q) = "out"
    BY <1>1, QuietFacts DEF Ready, CInv
  <2>14. /\ client'.host = client.host /\ client'.inflight = client.inflight
         /\ client'.queued = client.queued /\ client'.load = NoLoad /\ client'.game = NoLoad
         /\ client'.state[k] = s /\ client'.games[k] = "live"
         /\ \A q \in Loads \ {k} : /\ client'.state[q] = client.state[q]
                                   /\ client'.games[q] = u.games[q]
    BY <2>5, <2>6, <2>7, <2>9, <2>10, <2>11 DEF Kept, OthersKept
  <2>15. ~client'.corrupt
    <3>1. client.game # NoLoad => client.game \in Loads /\ client.games[client.game] = "live"
      BY <1>3 DEF Shared, Safe, SafeLoad, SafeAt
    <3>2. ~u.corrupt
      BY <3>1, <2>1, <1>3, <1>4 DEF IsUnloaded
    <3> QED BY <3>2, <2>7, <2>9, <2>11
  <2>16. ASSUME NEW q \in Loads \ {k} PROVE Undisturbed(q, client, client')
    <3>1. client'.state[q] = client.state[q] /\ q # NoLoad
      BY <2>14, LoadAssumption
    <3>2. \/ client'.games[q] = client.games[q]
          \/ client.game = q
      BY <2>1, <2>14 DEF IsUnloaded
    <3>3. client.state[q].life = "live" => ~(client.game = q /\ client.state[q].owner)
      BY <2>13, PlayedFacts
    <3> QED BY <3>1, <3>2, <3>3, <2>14, <1>4 DEF Undisturbed
  <2>17. "attached" \in Places
    BY PlaceFacts DEF Early
  <2>18. Moved(t, k, "attached") /\ Goes(t, "attached", "none") /\ hostLoad' = hostLoad
    BY <2>3, <2>14, <2>17, <1>1, <1>2, StepMoves
  <2>19. HostOn(k)' = "attached" /\ Fetch(k)' = "out" /\ Session(k)' = "out"
    BY <2>12, <2>18, <1>3 DEF Moved
  <2>20. SafeLoad(k)'
    <3>1. k \notin client'.queued /\ client'.load # k /\ client'.game # k
      BY <2>14, <1>1, <1>2, BusyFacts
    <3> QED BY <3>1, <2>8, <2>14, <2>19 DEF SafeLoad, SafeAt, LiveAt, Any, OfCurrent, Late
  <2>21. NoteFits(t, "attached", "none", client.host)
    BY LeavesFits
  <2>22. Runs(t) /\ k = LoadOf(t) /\ pc[t] # "out"
    BY <1>1 DEF Ready
  <2> QED BY <2>14, <2>15, <2>16, <2>18, <2>20, <2>21, <2>22, SafeStep DEF SameHost
<1>5. CASE client.load = k
  <2>1. client' = client /\ Steps(t, "identifying", "none")
    BY <1>1, <1>2, <1>5 DEF Attaching, Ready
  <2>2. OthersKept(k, client, client')
    BY <2>1 DEF OthersKept
  <2> QED BY <2>1, <2>2, <1>1, <1>2, <1>3, <1>5, EarlySafe
<1>6. CASE client.load # NoLoad /\ client.load # k
  <2>1. client' = Refused(client, k, "ABORTED") /\ Returns(t)
    BY <1>1, <1>6 DEF Attaching, Ready
  <2>2. IsRefused(k, client, client')
    BY <2>1, <1>3, RefusedFacts
  <2>3. Kept(client, client) /\ OthersKept(k, client, client)
    BY DEF Kept, OthersKept
  <2> QED BY <2>1, <2>2, <2>3, <1>1, <1>2, <1>3, <1>6, RefusedSafe
<1> QED BY <1>4, <1>5, <1>6

-----------------------------------------------------------------------------
(* Activating the game.                                                     *)

\* While a game is activated, none of the requests of its load is under way.
LEMMA LateFacts ==
  ASSUME NEW t \in Threads, NEW k \in Loads, NEW from \in Late, Ready(t, k, from)
  PROVE  /\ Last(t, k)
         /\ from = "activating" => client.load = k \/ ~client.host.background
         /\ from \in {"applying", "validating"} => client.load = k
         /\ from = "concluding" => client.load # k
         /\ from \in {"validating", "concluding"} => client.game = k
         /\ from # "activating" => client.state[k].progress = "DONE" /\ client.state[k].calls = 0
         /\ client.load = k => client.state[k].calls = 0 /\ client.state[k].owner
<1>1. <<k, "fetch">> # Host /\ <<k, "session">> # Host /\ <<k, "fetch">> # <<k, "session">>
  BY ThreadFacts
<1>2. CASE t = Host
  <2>1. HostOn(k) = from
    BY <1>2 DEF Ready, Where
  <2> QED BY <1>1, <1>2, <2>1 DEF Ready, LiveLoad, LiveAt, Any, OfCurrent, Late, Last
<1>3. CASE t = <<k, "fetch">>
  <2>1. Fetch(k) = from
    BY <1>3 DEF Ready, Where
  <2> QED BY <1>1, <1>3, <2>1 DEF Ready, LiveLoad, LiveAt, Any, OfCurrent, Late, Last
<1>4. CASE t = <<k, "session">>
  <2>1. Session(k) = from
    BY <1>4 DEF Ready, Where
  <2> QED BY <1>1, <1>4, <2>1 DEF Ready, LiveLoad, LiveAt, Any, OfCurrent, Late, Last
<1> QED BY <1>2, <1>3, <1>4 DEF Ready, Where

\* A step of the activation of the current load.
LEMMA LateSafe ==
  ASSUME CInv, Sequential, Safe, NEW t \in Threads, NEW k \in Loads, NEW from \in Late,
         Ready(t, k, from), client.load = k,
         NEW to \in {"applying", "validating", "concluding"}, Steps(t, to, "none"),
         client'.inflight = client.inflight, client'.host = client.host, ~client'.corrupt,
         OthersKept(k, client, client'), client'.queued = client.queued,
         client'.load = IF to = "concluding" THEN NoLoad ELSE k,
         IF to = "applying" THEN client'.game = client.game /\ client.game # k
         ELSE client'.game = k,
         client'.games = client.games,
         client'.state[k].life = "live", client'.state[k].calls = 0, client'.state[k].owner,
         client'.state[k].progress = "DONE"
  PROVE  Safe'
<1>1. to \in Places /\ from # "out"
  BY PlaceFacts DEF Late
<1>2. Moved(t, k, to) /\ Goes(t, to, "none") /\ hostLoad' = hostLoad
  BY <1>1, StepMoves
<1>3. Last(t, k) /\ client.state[k].owner
  BY LateFacts
<1>4. k \notin client.queued /\ client.games[k] = "live" /\ k # NoLoad
  BY <1>1, <1>3, BusyFacts, LoadAssumption
<1>5. NoteFits(t, to, "none", client.host) /\ to # "attached"
  BY LeavesFits
<1>6. SafeLoad(k)'
  <2>1. CASE t = Host
    <3>1. HostOn(k)' = to /\ Fetch(k)' = "out" /\ Session(k)' = "out"
      BY <2>1, <1>2, <1>3 DEF Moved, Last
    <3>2. CASE to = "applying"
      BY <3>1, <3>2, <1>4 DEF SafeLoad, SafeAt, LiveAt, Any, OfCurrent, Late
    <3>3. CASE to = "validating"
      BY <3>1, <3>3, <1>4 DEF SafeLoad, SafeAt, LiveAt, Any, OfCurrent, Late
    <3>4. CASE to = "concluding"
      BY <3>1, <3>4, <1>4 DEF SafeLoad, SafeAt, LiveAt, Any, OfCurrent, Late
    <3> QED BY <3>2, <3>3, <3>4
  <2>2. CASE t = <<k, "fetch">>
    <3>1. Fetch(k)' = to /\ HostOn(k)' = "out" /\ Session(k)' = "out"
      BY <2>2, <1>2, <1>3 DEF Moved, Last, Ready, Where
    <3>2. CASE to = "applying"
      BY <3>1, <3>2, <1>4 DEF SafeLoad, SafeAt, LiveAt, Any, OfCurrent, Late
    <3>3. CASE to = "validating"
      BY <3>1, <3>3, <1>4 DEF SafeLoad, SafeAt, LiveAt, Any, OfCurrent, Late
    <3>4. CASE to = "concluding"
      BY <3>1, <3>4, <1>4 DEF SafeLoad, SafeAt, LiveAt, Any, OfCurrent, Late
    <3> QED BY <3>2, <3>3, <3>4
  <2>3. CASE t = <<k, "session">>
    <3>1. Session(k)' = to /\ HostOn(k)' = "out" /\ Fetch(k)' = "out"
      BY <2>3, <1>2, <1>3 DEF Moved, Last, Ready, Where
    <3>2. CASE to = "applying"
      BY <3>1, <3>2, <1>4 DEF SafeLoad, SafeAt, LiveAt, Any, OfCurrent, Late
    <3>3. CASE to = "validating"
      BY <3>1, <3>3, <1>4 DEF SafeLoad, SafeAt, LiveAt, Any, OfCurrent, Late
    <3>4. CASE to = "concluding"
      BY <3>1, <3>4, <1>4 DEF SafeLoad, SafeAt, LiveAt, Any, OfCurrent, Late
    <3> QED BY <3>2, <3>3, <3>4
  <2> QED BY <2>1, <2>2, <2>3 DEF Ready, Where
<1> QED BY <1>1, <1>2, <1>5, <1>6, SafeThread

\* A load that is not current any more is refused; the current one has its session.
LEMMA ActivatingSafe ==
  ASSUME CInv, Sequential, Safe, NEW t \in Threads, Activating(t)
  PROVE  Safe'
<1>1. PICK k \in Loads : Ready(t, k, "activating")
  BY ReadyFacts DEF Activating
<1> DEFINE p == IF client.load = k THEN "DONE" ELSE "ABORTED"
           c == [client EXCEPT !.state[k].progress = p]
<1>2. "activating" \in Late /\ "activating" # "out"
      /\ "activating" \notin {"validating", "concluding"}
  BY DEF Late
<1>3. /\ Last(t, k) /\ ~client.corrupt /\ client \in Shared /\ client.state[k] \in LoadState
      /\ client.load = k \/ ~client.host.background
      /\ client.load = k => client.state[k].calls = 0 /\ client.state[k].owner
      /\ client.state[k].life = "live"
  BY <1>1, <1>2, LateFacts DEF Ready
<1>4. p \in Progresses /\ (client.load = k => p = "DONE")
  BY DEF Progresses
<1>5. c = ActivateBegin(client, k)
  BY DEF ActivateBegin
<1> HIDE DEF p
<1>6. /\ c \in Shared /\ Kept(client, c) /\ OthersKept(k, client, c) /\ c.load = client.load
      /\ c.game = client.game /\ (c.corrupt <=> client.corrupt) /\ c.games = client.games
      /\ c.state[k] = [client.state[k] EXCEPT !.progress = p]
  BY <1>3, <1>4, ProgressFacts
<1> HIDE DEF c
<1>7. /\ c.state[k].calls = client.state[k].calls /\ c.state[k].life = "live"
      /\ (c.state[k].owner <=> client.state[k].owner) /\ c.state[k].progress = p
  BY <1>3, <1>6 DEF LoadState
<1>8. CASE client.load # k
  <2>1. client' = Refused(c, k, "ABORTED") /\ Returns(t)
    BY <1>1, <1>5, <1>8 DEF Activating, Ready
  <2>2. IsRefused(k, c, client')
    BY <2>1, <1>6, RefusedFacts
  <2>3. ~client.host.background
    BY <1>3, <1>8
  <2> QED BY <2>1, <2>2, <2>3, <1>1, <1>2, <1>3, <1>6, <1>7, <1>8, RefusedSafe
<1>9. CASE client.load = k
  <2>1. local[t] = "ok" \/ client.host.spectating
    BY <1>1 DEF Ready, NoteFits
  <2>2. k = LoadOf(t)
    BY <1>1 DEF Ready
  <2>3. client' = c /\ Steps(t, "applying", "none")
    <3>1. CASE client.host.spectating
      BY <3>1, <2>2, <1>5, <1>9 DEF Activating
    <3>2. CASE ~client.host.spectating
      BY <3>2, <2>1, <2>2, <1>5, <1>9 DEF Activating
    <3> QED BY <3>1, <3>2
  <2>4. /\ client'.inflight = client.inflight /\ client'.host = client.host /\ ~client'.corrupt
        /\ OthersKept(k, client, client') /\ client'.queued = client.queued
        /\ client'.load = k /\ client'.game = client.game /\ client'.games = client.games
    BY <2>3, <1>3, <1>6, <1>9 DEF Kept
  <2>5. client.game # k
    BY <1>1, <1>2, <1>3, <1>9, BusyFacts
  <2> QED BY <2>3, <2>4, <2>5, <1>1, <1>2, <1>3, <1>4, <1>7, <1>9, LateSafe
<1> QED BY <1>8, <1>9

\* The game becomes the one that is played.
LEMMA MakingActiveSafe ==
  ASSUME CInv, Sequential, Safe, NEW t \in Threads, MakingActive(t)
  PROVE  Safe'
<1>1. PICK k \in Loads : Ready(t, k, "applying")
  BY ReadyFacts DEF MakingActive
<1>2. "applying" \in Late
  BY DEF Late
<1>3. /\ ~client.corrupt /\ client \in Shared /\ client.load = k
      /\ client.state[k].progress = "DONE" /\ client.state[k].calls = 0
      /\ client.state[k].owner /\ client.state[k].life = "live"
  BY <1>1, <1>2, LateFacts DEF Ready
<1>4. client' = [client EXCEPT !.game = k] /\ Steps(t, "validating", "none")
  BY <1>1, <1>3 DEF MakingActive, Ready
<1>5. /\ client'.state = client.state /\ client'.load = client.load /\ client'.game = k
      /\ client'.inflight = client.inflight /\ client'.queued = client.queued
      /\ client'.games = client.games /\ client'.host = client.host /\ ~client'.corrupt
  BY <1>3, <1>4 DEF Shared
<1>6. OthersKept(k, client, client')
  BY <1>5 DEF OthersKept
<1> QED BY <1>1, <1>2, <1>3, <1>4, <1>5, <1>6, LateSafe

\* What the game watches is activated.
LEMMA ValidatingSafe ==
  ASSUME CInv, Sequential, Safe, NEW t \in Threads, Validating(t)
  PROVE  Safe'
<1>1. PICK k \in Loads : Ready(t, k, "validating")
  BY ReadyFacts DEF Validating
<1>2. "validating" \in Late
  BY DEF Late
<1>3. /\ ~client.corrupt /\ client \in Shared /\ client.load = k /\ client.game = k
      /\ client.state[k].progress = "DONE" /\ client.state[k].calls = 0
      /\ client.state[k].owner /\ client.state[k].life = "live"
  BY <1>1, <1>2, LateFacts DEF Ready
<1>4. client' = [client EXCEPT !.load = NoLoad] /\ Steps(t, "concluding", "none")
  BY <1>1, <1>3 DEF Validating, Ready
<1>5. /\ client'.state = client.state /\ client'.load = NoLoad /\ client'.game = k
      /\ client'.inflight = client.inflight /\ client'.queued = client.queued
      /\ client'.games = client.games /\ client'.host = client.host /\ ~client'.corrupt
  BY <1>3, <1>4 DEF Shared
<1>6. OthersKept(k, client, client')
  BY <1>5 DEF OthersKept
<1> QED BY <1>1, <1>2, <1>3, <1>4, <1>5, <1>6, LateSafe

\* The load state is freed, its game is played.
LEMMA ConcludingSafe ==
  ASSUME CInv, Sequential, Safe, NEW t \in Threads, Concluding(t)
  PROVE  Safe'
<1>1. PICK k \in Loads : Ready(t, k, "concluding")
  BY ReadyFacts DEF Concluding
<1>2. "concluding" \in Late /\ "concluding" # "out"
  BY DEF Late
<1>3. /\ ~client.corrupt /\ client \in Shared /\ client.load # k /\ client.game = k
      /\ client.state[k].progress = "DONE" /\ client.state[k].calls = 0
      /\ client.games[k] = "live" /\ Last(t, k)
  BY <1>1, <1>2, LateFacts DEF Ready
<1> DEFINE n == Called(client, k, "OK")
           s == [n.state[k] EXCEPT !.owner = FALSE]
           b == [n EXCEPT !.state = [n.state EXCEPT ![k] = s]]
           d == FreeLoadState(b, k)
<1>4. client' = d /\ Returns(t)
  BY <1>1, <1>3 DEF Concluding, Ready
<1>5. IsCalled(k, client, n)
  BY <1>3, CalledFacts
<1> HIDE DEF n
<1>6. s \in LoadState /\ ~s.owner /\ s.calls \in 0 .. 1
  <2>1. n.state[k] \in LoadState /\ n.state[k].calls \in 0 .. 1
    BY <1>3, <1>5 DEF IsCalled, Shared, MoreCalls
  <2> QED BY <2>1 DEF LoadState
<1> HIDE DEF s
<1>7. /\ b \in Shared /\ Kept(n, b) /\ OthersKept(k, n, b) /\ b.load = n.load
      /\ b.game = n.game /\ (b.corrupt <=> n.corrupt) /\ b.games = n.games /\ b.state[k] = s
  BY <1>5, <1>6, PutFacts DEF IsCalled
<1> HIDE DEF b
<1>8. IsFreed(k, b, d)
  BY <1>7, FreeFacts
<1> HIDE DEF d
<1>9. /\ client'.host = client.host /\ client'.inflight = client.inflight
      /\ client'.queued = client.queued /\ client'.load = client.load
      /\ client'.game = k /\ OthersKept(k, client, client')
  BY <1>3, <1>4, <1>5, <1>7, <1>8 DEF IsCalled, IsFreed, Kept, OthersKept
<1>10. ~client'.corrupt /\ client'.games[k] = "live"
  BY <1>3, <1>4, <1>5, <1>6, <1>7, <1>8 DEF IsCalled, IsFreed
<1>11. client'.state[k].life = "freed" /\ client'.state[k].calls \in 0 .. 1
  BY <1>4, <1>6, <1>7, <1>8 DEF IsFreed, LoadState
<1>12. client'.state[k].calls <= IF client.host.background THEN 1 ELSE 2
  BY <1>11
<1> QED BY <1>1, <1>2, <1>3, <1>4, <1>9, <1>10, <1>11, <1>12, GoneSafe

-----------------------------------------------------------------------------
(* Answers, and what no thread does.                                        *)

\* An answer is looked at unless its load was aborted: that load is the current one.
LEMMA AnsweredSafe ==
  ASSUME SetsAreSent, CInv, Sequential, Safe, NEW t \in Requests, Answered(t)
  PROVE  Safe'
<1>1. /\ t \in Threads /\ t # Host /\ Types /\ client \in Shared
      /\ t \in client.inflight /\ pc[t] = "out" /\ Runs(t) /\ ~client.corrupt
  BY ThreadFacts DEF CInv, Types, Threads, Answered, At
<1>2. PICK k \in Loads : (t = <<k, "fetch">> \/ t = <<k, "session">>) /\ k = LoadOf(t)
  BY <1>1, ThreadFacts
<1>3. t[1] = k /\ client.state[k].life = "live" /\ Counted(k) /\ client.state[k] \in LoadState
  BY <1>1, <1>2 DEF Answered, At, CInv, Shared
<1>4. LiveLoad(k) /\ (client.game = k => client.games[k] = "live")
  BY <1>3 DEF Safe, SafeLoad, SafeAt, LiveLoad
<1>5. /\ t = <<k, "fetch">> => /\ Fetch(k) = "inflight" /\ Session(k) = "out"
                               /\ HostOn(k) = "out"
      /\ t = <<k, "session">> => /\ Session(k) = "inflight" /\ HostOn(k) = "out"
                                 /\ Fetch(k) \in {"out", "processing"}
  <2>1. t = <<k, "fetch">> => Fetch(k) = "inflight"
    BY <1>1 DEF Fetch, Stage
  <2>2. t = <<k, "session">> => Session(k) = "inflight"
    BY <1>1 DEF Session, Stage
  <2>3. Fetch(k) = "inflight" => Session(k) = "out"
    BY <1>3 DEF Counted, CountedAt
  <2>4. /\ t = <<k, "fetch">> => HostOn(k) = "out"
        /\ t = <<k, "session">> => HostOn(k) = "out" /\ Fetch(k) \in Calm \cup {"processing"}
    BY <1>1, <1>2, QuietFacts
  <2> QED BY <2>1, <2>2, <2>3, <2>4 DEF Calm
<1>6. /\ client.state[k].calls \in 0 .. 1
      /\ (client.state[k].owner => client.games[k] = "live")
      /\ ~(client.game = k /\ client.state[k].owner) /\ k \notin client.queued
      /\ (~client.state[k].aborted => client.load = k)
      /\ (client.load = k => client.state[k].owner /\ client.state[k].calls = 0)
      /\ (Fetch(k) = "processing" /\ ~(client.load = k) => client.state[k].progress = "ABORTED")
  <2>1. client.state[k].calls \in 0 .. 3
    BY <1>3 DEF LoadState
  <2>2. CASE t = <<k, "fetch">>
    BY <2>1, <2>2, <1>4, <1>5 DEF LiveLoad, LiveAt, Any
  <2>3. CASE t = <<k, "session">>
    BY <2>1, <2>3, <1>4, <1>5 DEF LiveLoad, LiveAt, Any
  <2> QED BY <2>2, <2>3, <1>2
<1>7. \/ client.state[k].aborted /\ Steps(t, "aborting", "none")
      \/ /\ ~client.state[k].aborted
         /\ \E a \in Notes : Steps(t, "ended", a) /\ NoteFits(t, "ended", a, client.host)
  <2>1. CASE client.state[k].aborted
    BY <2>1, <1>3 DEF Answered
  <2>2. CASE ~client.state[k].aborted
    <3>1. PICK a \in Answers(t) : Steps(t, "ended", a)
      BY <2>2, <1>3 DEF Answered
    <3>2. "empty" \notin client.host.answers
      BY DEF SetsAreSent
    <3>3. a # "empty" /\ a \in Notes
      <4>1. t[2] \in {"fetch", "session"}
        BY <1>2
      <4>2. client.host.answers \subseteq {"sets", "empty", "unknown", "error"}
        BY <1>1, LoadAssumption DEF Shared
      <4> QED BY <3>1, <3>2, <4>1, <4>2 DEF Answers, Notes
    <3> QED BY <3>1, <3>3, <2>2 DEF NoteFits
  <2> QED BY <2>1, <2>2
<1>8. PICK to \in {"aborting", "ended"}, with \in Notes :
        /\ Steps(t, to, with) /\ NoteFits(t, to, with, client.host)
        /\ (to = "ended" => ~client.state[k].aborted)
  BY <1>7, LeavesFits DEF Notes
<1>9. Goes(t, to, with) /\ hostLoad' = hostLoad
  BY <1>8 DEF Steps
<1> DEFINE requests == client.inflight \ {t}
<1>10. requests \in SUBSET Requests
  BY <1>1 DEF Shared
<1>11. client' = [client EXCEPT !.inflight = requests]
  BY DEF Answered
<1>12. requests = client.inflight \ {t}
  OBVIOUS
<1> HIDE DEF requests
<1>13. /\ client'.state = client.state /\ client'.load = client.load
       /\ client'.game = client.game /\ client'.games = client.games
       /\ client'.queued = client.queued /\ client'.inflight = requests
       /\ client'.host = client.host /\ ~client'.corrupt
  BY <1>1, <1>10, <1>11 DEF Shared
<1>14. pc'[t] = to /\ \A u \in Threads : u # t => pc'[u] = pc[u]
  BY <1>1, <1>9 DEF Goes, Types
<1>15. /\ <<k, "fetch">> \in Threads /\ <<k, "session">> \in Threads /\ Host \in Threads
       /\ <<k, "fetch">> # <<k, "session">>
  BY ThreadFacts DEF Threads
<1>16. HostOn(k)' = "out"
  <2>1. HostOn(k)' = HostOn(k)
    BY <1>1, <1>9, <1>14, <1>15 DEF HostOn
  <2> QED BY <2>1, <1>2, <1>5
<1>17. SafeLoad(k)'
  <2>1. CASE t = <<k, "fetch">>
    <3>1. Fetch(k)' = to /\ Session(k)' = "out"
      BY <2>1, <1>1, <1>5, <1>12, <1>13, <1>14, <1>15 DEF Fetch, Session, Stage
    <3>2. CASE to = "aborting"
      BY <3>1, <3>2, <1>3, <1>4, <1>6, <1>13, <1>16
         DEF SafeLoad, SafeAt, LiveAt, Any, OfCurrent, Late
    <3>3. CASE to = "ended"
      BY <3>1, <3>3, <1>3, <1>4, <1>6, <1>8, <1>13, <1>16
         DEF SafeLoad, SafeAt, LiveAt, Any, OfCurrent, Late
    <3> QED BY <3>2, <3>3
  <2>2. CASE t = <<k, "session">>
    <3>1. Session(k)' = to /\ Fetch(k)' = Fetch(k) /\ Fetch(k) \in {"out", "processing"}
      BY <2>2, <1>1, <1>5, <1>12, <1>13, <1>14, <1>15 DEF Fetch, Session, Stage
    <3>2. CASE to = "aborting"
      BY <3>1, <3>2, <1>3, <1>4, <1>6, <1>13, <1>16
         DEF SafeLoad, SafeAt, LiveAt, Any, OfCurrent, Late
    <3>3. CASE to = "ended"
      BY <3>1, <3>3, <1>3, <1>4, <1>6, <1>8, <1>13, <1>16
         DEF SafeLoad, SafeAt, LiveAt, Any, OfCurrent, Late
    <3> QED BY <3>2, <3>3
  <2> QED BY <2>1, <2>2, <1>2
<1>18. \A q \in Loads \ {k} : Undisturbed(q, client, client')
  BY <1>13 DEF Undisturbed
<1>19. client'.inflight \ {<<k, "fetch">>, <<k, "session">>}
         = client.inflight \ {<<k, "fetch">>, <<k, "session">>}
  BY <1>2, <1>12, <1>13
<1> QED BY <1>1, <1>2, <1>8, <1>9, <1>13, <1>17, <1>18, <1>19, SafeStep DEF SameHost

\* A load state that was freed is not used.
LEMMA NoUseAfterFree ==
  ASSUME CInv, Sequential, Safe, NEW t \in Threads, UseAfterFree(t)
  PROVE  FALSE
<1>1. Types /\ (pc[t] # "out" \/ t \in client.inflight) /\ client.state[LoadOf(t)].life = "freed"
  BY DEF CInv, UseAfterFree
<1>2. t = Host => pc[Host] # "out" /\ hostLoad \in Loads
  <2>1. t = Host => t \notin client.inflight
    BY <1>1, ThreadFacts DEF Types, Shared
  <2> QED BY <1>1, <2>1 DEF Types
<1>3. \A l \in Loads : client.state[l].life = "freed" =>
        Fetch(l) = "out" /\ Session(l) = "out" /\ HostOn(l) = "out"
  BY DEF Safe, SafeLoad, SafeAt
<1>4. CASE t = Host
  BY <1>1, <1>2, <1>3, <1>4, ThreadFacts DEF HostOn
<1>5. CASE t # Host
  <2>1. PICK l \in Loads : (t = <<l, "fetch">> \/ t = <<l, "session">>) /\ LoadOf(t) = l
    BY <1>5, ThreadFacts
  <2>2. Fetch(l) = "out" /\ Session(l) = "out"
    BY <2>1, <1>1, <1>3
  <2> QED BY <2>1, <2>2, <1>1 DEF Fetch, Session, Stage
<1> QED BY <1>4, <1>5

-----------------------------------------------------------------------------
(* While no thread runs, the invariant is one on the shared memory.         *)

\* A request of a load is in flight.
Asked(c, l) == <<l, "fetch">> \in c.inflight \/ <<l, "session">> \in c.inflight

AliveAt(c, l) ==
  /\ c.state[l].calls <= 1
  /\ c.state[l].owner => c.games[l] = "live" /\ c.game # l
  /\ c.load = l => c.state[l].owner /\ c.state[l].calls = 0
  /\ Asked(c, l) /\ ~c.state[l].aborted => c.load = l
  /\ l \in c.queued =>
       /\ ~Asked(c, l) /\ ~c.host.background
       /\ c.state[l].progress # "AWAIT_LOGIN" /\ (c.state[l].session \/ c.host.spectating)

RestAt(c, l) ==
  /\ c.state[l].life # "live" => c.load # l /\ l \notin c.queued /\ ~Asked(c, l)
  /\ c.game = l => c.games[l] = "live"
  /\ c.state[l].calls <= IF c.host.background THEN 1 ELSE 2
  /\ c.state[l].life = "live" => AliveAt(c, l)

Rest(c) == ~c.corrupt /\ \A l \in Loads : RestAt(c, l)

Idle == \A t \in Threads : pc[t] = "out"

\* What the invariant says of the memory while no thread runs.
LEMMA Resting ==
  ASSUME CInv, Safe, Idle
  PROVE  Rest(client)
<1> SUFFICES ASSUME NEW l \in Loads PROVE RestAt(client, l)
  BY DEF Rest, Safe
<1>1. /\ Fetch(l) = IF <<l, "fetch">> \in client.inflight THEN "inflight" ELSE "out"
      /\ Session(l) = IF <<l, "session">> \in client.inflight THEN "inflight" ELSE "out"
      /\ HostOn(l) = "out"
  BY ThreadFacts DEF Fetch, Session, HostOn, Stage, Threads, Idle
<1>2. Fetch(l) \in Calm /\ Session(l) \in Calm
  BY <1>1 DEF Calm
<1>3. SafeLoad(l)
  BY DEF Safe
<1>4. Asked(client, l) <=> Fetch(l) = "inflight" \/ Session(l) = "inflight"
  BY <1>1 DEF Asked
<1>5. ~Asked(client, l) <=> Fetch(l) = "out" /\ Session(l) = "out"
  BY <1>1 DEF Asked
<1>6. client.state[l].life = "live" => AliveAt(client, l)
  BY <1>1, <1>2, <1>3, <1>4, <1>5, CalmFacts DEF SafeLoad, SafeAt, LiveAt, AliveAt
<1> QED BY <1>3, <1>5, <1>6 DEF SafeLoad, SafeAt, RestAt

\* And what that says of a load.
LEMMA RestSafe ==
  ASSUME NEW c, NEW l, RestAt(c, l), NEW fetch, NEW session, NEW note,
         fetch = (IF <<l, "fetch">> \in c.inflight THEN "inflight" ELSE "out"),
         session = (IF <<l, "session">> \in c.inflight THEN "inflight" ELSE "out")
  PROVE  SafeAt(c.state[l], c.games[l], c.load = l, c.game = l, l \in c.queued,
                fetch, session, note = "last", "out", c.host)
<1>1. fetch \in Calm /\ session \in Calm
  BY DEF Calm
<1>2. /\ Asked(c, l) <=> fetch = "inflight" \/ session = "inflight"
      /\ ~Asked(c, l) <=> fetch = "out" /\ session = "out"
  BY DEF Asked
<1>3. ASSUME c.state[l].life = "live"
      PROVE  LiveAt(c.state[l], c.games[l], c.load = l, c.game = l, l \in c.queued,
                    fetch, session, note = "last", "out", c.host)
  <2>1. AliveAt(c, l)
    BY <1>3 DEF RestAt
  <2> QED BY <2>1, <1>1, <1>2, CalmFacts DEF LiveAt, AliveAt, Late, Calm
<1> QED BY <1>2, <1>3 DEF SafeAt, RestAt

\* Together they are the invariant while no thread runs.
LEMMA Rested ==
  ASSUME Idle, Rest(client)
  PROVE  Safe
<1>1. \A t \in Threads : NoteFits(t, pc[t], local[t], client.host)
  BY LeavesFits DEF Idle
<1>2. ASSUME NEW l \in Loads PROVE SafeLoad(l)
  <2>1. /\ Fetch(l) = IF <<l, "fetch">> \in client.inflight THEN "inflight" ELSE "out"
        /\ Session(l) = IF <<l, "session">> \in client.inflight THEN "inflight" ELSE "out"
        /\ HostOn(l) = "out"
    BY ThreadFacts DEF Fetch, Session, HostOn, Stage, Threads, Idle
  <2>2. RestAt(client, l)
    BY DEF Rest
  <2>3. SafeAt(client.state[l], client.games[l], client.load = l, client.game = l,
               l \in client.queued, Fetch(l), Session(l),
               local[<<l, "session">>] = "last", "out", client.host)
    BY <2>1, <2>2, RestSafe
  <2> QED BY <2>1, <2>3 DEF SafeLoad
<1>3. \A t \in Threads : pc[t] # "attached"
  BY DEF Idle
<1> QED BY <1>1, <1>2, <1>3 DEF Safe, Rest

\* A step that leaves no thread running.
LEMMA RestsAgain ==
  ASSUME Idle, UNCHANGED threads, Rest(client')
  PROVE  Safe'
<1>1. Idle'
  BY DEF Idle, threads
<1>2. Rest(client)'
  OBVIOUS
<1>3. Idle /\ Rest(client) => Safe
  BY Rested
<1> QED BY <1>1, <1>2, <1>3, Rested, PTL

\* The host begins to work on a load.
LEMMA HostStarts ==
  ASSUME CInv, Idle, NEW l \in Loads, hostLoad' = l,
         NEW to \in {"attaching", "activating"}, NEW with, Goes(Host, to, with),
         Rest(client'), client'.state[l].life = "live", ~Asked(client', l),
         l \notin client'.queued,
         to = "attaching" => client'.state[l].calls = 0,
         to = "activating" =>
           ~client'.host.background /\ (with = "ok" \/ client'.host.spectating)
  PROVE  Safe'
<1>1. Types /\ pc \in [Threads -> Places] /\ local \in [Threads -> Notes] /\ Host \in Threads
  BY ThreadFacts DEF CInv, Types
<1>2. /\ pc'[Host] = to /\ local'[Host] = with
      /\ \A u \in Threads : u # Host => pc'[u] = "out"
  BY <1>1 DEF Goes, Idle
<1>3. ASSUME NEW t \in Threads
      PROVE  NoteFits(t, pc'[t], local'[t], client'.host) /\ pc'[t] # "attached"
  <2>1. CASE t # Host
    <3>1. pc'[t] = "out"
      BY <1>2, <2>1
    <3> QED BY <3>1, LeavesFits
  <2>2. CASE t = Host
    BY <1>2, <2>2 DEF NoteFits
  <2> QED BY <2>1, <2>2
<1>4. ASSUME NEW q \in Loads PROVE SafeLoad(q)'
  <2>1. /\ Fetch(q)' = IF <<q, "fetch">> \in client'.inflight THEN "inflight" ELSE "out"
        /\ Session(q)' = IF <<q, "session">> \in client'.inflight THEN "inflight" ELSE "out"
    BY <1>2, ThreadFacts DEF Fetch, Session, Stage, Threads
  <2>2. RestAt(client', q)
    BY DEF Rest
  <2>3. SafeAt(client'.state[q], client'.games[q], client'.load = q, client'.game = q,
               q \in client'.queued, Fetch(q)', Session(q)',
               local'[<<q, "session">>] = "last", "out", client'.host)
    BY <2>1, <2>2, RestSafe
  <2>4. CASE q # l
    <3>1. HostOn(q)' = "out"
      BY <2>4 DEF HostOn
    <3> QED BY <2>3, <3>1 DEF SafeLoad
  <2>5. CASE q = l
    <3>1. HostOn(q)' = to /\ Fetch(q)' = "out" /\ Session(q)' = "out"
      BY <2>1, <2>5, <1>2 DEF HostOn, Asked
    <3>2. AliveAt(client', q)
      BY <2>2, <2>5 DEF RestAt
    <3>3. LiveAt(client'.state[q], client'.games[q], client'.load = q, client'.game = q,
                 q \in client'.queued, "out", "out",
                 local'[<<q, "session">>] = "last", to, client'.host)
      <4>1. CASE to = "attaching"
        BY <2>5, <3>2, <4>1 DEF LiveAt, AliveAt, Any, OfCurrent, Late
      <4>2. CASE to = "activating"
        BY <2>5, <3>2, <4>2 DEF LiveAt, AliveAt, Any, OfCurrent, Late
      <4> QED BY <4>1, <4>2
    <3> QED BY <2>2, <2>5, <3>1, <3>3 DEF SafeLoad, SafeAt, RestAt
  <2> QED BY <2>4, <2>5
<1> QED BY <1>3, <1>4 DEF Safe, Rest

\* Without threads the host is only called back, or calls, while no thread runs.
LEMMA IdleFacts ==
  ASSUME Sequential, HostIdle \/ Running = {}
  PROVE  Idle
<1>1. CASE Running = {}
  BY <1>1 DEF Running, Idle
<1>2. CASE HostIdle
  <2>1. pc[Host] = "out" /\ Runs(Host)
    BY <1>2 DEF HostIdle
  <2>2. \A l \in Loads : Host # <<l, "session">>
    BY ThreadFacts
  <2>3. Running \subseteq {Host}
    BY <2>1, <2>2 DEF Runs, Sequential
  <2> QED BY <2>1, <2>3 DEF Running, Idle
<1> QED BY <1>1, <1>2

-----------------------------------------------------------------------------
(* What the host does to the memory.                                        *)

\* What may change of a load while the memory stays as it is for it.
Similar(c, d, l) ==
  /\ d.state[l] = c.state[l] /\ d.games[l] = c.games[l]
  /\ d.load = l <=> c.load = l
  /\ d.game = l => c.game = l
  /\ l \in d.queued <=> l \in c.queued
  /\ Asked(d, l) <=> Asked(c, l)
  /\ d.host = c.host

\* Such a load is at rest as before.
LEMMA SimilarRest ==
  ASSUME NEW c, NEW d, NEW l, RestAt(c, l), Similar(c, d, l)
  PROVE  RestAt(d, l)
<1>1. c.state[l].life = "live" => AliveAt(d, l)
  BY DEF RestAt, AliveAt, Similar
<1> QED BY <1>1 DEF RestAt, Similar

\* Unloading frees the game that is played; the load that is current is told.
LEMMA UnloadRest ==
  ASSUME NEW c \in Shared, NEW d, Rest(c), IsUnloaded(c, d)
  PROVE  Rest(d)
<1>1. \A q \in Loads : RestAt(c, q)
  BY DEF Rest
<1>2. c.load \in Loads \cup {NoLoad} /\ c.game \in Loads \cup {NoLoad}
  BY DEF Shared
<1>3. c.load # NoLoad => c.state[c.load].life = "live"
  BY <1>1, <1>2 DEF RestAt
<1>4. c.game # NoLoad => c.games[c.game] = "live"
  BY <1>1, <1>2 DEF RestAt
<1>5. ~d.corrupt
  BY <1>3, <1>4 DEF IsUnloaded, Rest
<1>6. /\ d.load = NoLoad /\ d.game = NoLoad /\ d.host = c.host
      /\ d.inflight = c.inflight /\ d.queued = c.queued /\ Told(c, d)
  BY DEF IsUnloaded, Kept
<1>7. ASSUME NEW q \in Loads PROVE RestAt(d, q)
  <2>1. RestAt(c, q) /\ q # NoLoad /\ c.state[q] \in LoadState
    BY <1>1, LoadAssumption DEF Shared
  <2>2. Asked(d, q) <=> Asked(c, q)
    BY <1>6 DEF Asked
  <2>3. d.games[q] = IF q = c.game /\ ~KeptByLoad(c) THEN "freed" ELSE c.games[q]
    BY DEF IsUnloaded
  <2>4. CASE q = c.load
    <3>1. d.state[q] = [c.state[q] EXCEPT !.aborted = TRUE]
      BY <1>6, <2>4 DEF Told
    <3>2. /\ d.state[q].life = c.state[q].life /\ d.state[q].calls = c.state[q].calls
          /\ d.state[q].aborted /\ (d.state[q].owner <=> c.state[q].owner)
          /\ d.state[q].progress = c.state[q].progress
          /\ (d.state[q].session <=> c.state[q].session)
      BY <2>1, <3>1 DEF LoadState
    <3>3. c.state[q].life = "live" /\ AliveAt(c, q)
      BY <2>1, <2>4 DEF RestAt
    <3>4. AliveAt(d, q)
      BY <1>6, <2>1, <2>2, <2>3, <3>2, <3>3 DEF AliveAt
    <3> QED BY <1>6, <2>1, <3>2, <3>3, <3>4 DEF RestAt
  <2>5. CASE q # c.load
    <3>1. d.state[q] = c.state[q]
      BY <1>6, <2>5 DEF Told
    <3>2. c.state[q].life = "live" => AliveAt(d, q)
      <4> SUFFICES ASSUME c.state[q].life = "live" PROVE AliveAt(d, q)
        OBVIOUS
      <4>1. AliveAt(c, q)
        BY <2>1 DEF RestAt
      <4> QED BY <1>6, <2>1, <2>2, <2>3, <2>5, <3>1, <4>1 DEF AliveAt
    <3> QED BY <1>6, <2>1, <2>2, <3>1, <3>2 DEF RestAt
  <2> QED BY <2>4, <2>5
<1> QED BY <1>5, <1>7 DEF Rest

\* An error ends a load that waits for the login.
LEMMA ErrorRest ==
  ASSUME NEW c \in Shared, NEW d, NEW l \in Loads, Rest(c), IsError(l, c, d),
         c.state[l].life = "live", c.state[l].outstanding = 0, c.state[l].calls = 0,
         ~Asked(c, l), l \notin c.queued
  PROVE  Rest(d)
<1>1. RestAt(c, l) /\ AliveAt(c, l)
  BY DEF Rest, RestAt
<1>2. /\ d.host = c.host /\ d.inflight = c.inflight /\ d.queued = c.queued
      /\ d.game = c.game /\ d.load = IF c.load = l THEN NoLoad ELSE c.load
  BY DEF IsError, Kept
<1>3. /\ d.corrupt <=> c.corrupt \/ (c.state[l].owner /\ c.games[l] = "freed")
      /\ d.games[l] = IF c.state[l].owner THEN "freed" ELSE c.games[l]
  BY DEF IsError
<1>4. ~d.corrupt
  BY <1>1, <1>3 DEF AliveAt, Rest
<1>5. RestAt(d, l)
  <2>1. d.state[l].life = "freed" /\ d.state[l].calls \in {0, 1}
    BY DEF IsError, Erred, MoreCalls
  <2>2. d.load # l
    BY <1>2, LoadAssumption
  <2>3. ~Asked(d, l) /\ l \notin d.queued
    BY <1>2 DEF Asked
  <2>4. d.game = l => d.games[l] = "live"
    BY <1>1, <1>2, <1>3 DEF AliveAt, RestAt
  <2> QED BY <2>1, <2>2, <2>3, <2>4, <1>1, <1>2 DEF RestAt
<1>6. ASSUME NEW q \in Loads, q # l PROVE RestAt(d, q)
  <2>1. Similar(c, d, q)
    <3>1. q # NoLoad
      BY LoadAssumption
    <3>2. d.state[q] = c.state[q] /\ d.games[q] = c.games[q]
      BY <1>6 DEF IsError, OthersKept
    <3> QED BY <1>2, <1>6, <3>1, <3>2 DEF Similar, Asked
  <2> QED BY <2>1, SimilarRest DEF Rest
<1> QED BY <1>4, <1>5, <1>6 DEF Rest

\* Whoever logs out unloads, and a load that waits for the login is freed.
LEMMA LogOutRest ==
  ASSUME NEW c \in Shared, Rest(c),
         Awaiting(c) => c.state[c.load].outstanding = 0 /\ ~Asked(c, c.load)
  PROVE  Rest(LogOutOf(c))
<1> DEFINE b == [c EXCEPT !.user = "NONE", !.credentials = FALSE]
           n == UnloadGame(b)
<1>1. /\ b \in Shared /\ b.state = c.state /\ b.load = c.load /\ b.inflight = c.inflight
      /\ b.queued = c.queued /\ b.game = c.game /\ b.games = c.games /\ b.host = c.host
      /\ b.corrupt = c.corrupt
  BY DEF Shared
<1>2. LogOutOf(c) = IF Awaiting(c) THEN LoadError(n, c.load, "ABORTED") ELSE n
  BY DEF LogOutOf
<1> HIDE DEF b
<1>3. Rest(b)
  <2>1. ASSUME NEW q \in Loads PROVE RestAt(b, q)
    <3>1. RestAt(c, q) /\ Similar(c, b, q)
      BY <1>1 DEF Rest, Similar, Asked
    <3> QED BY <3>1, SimilarRest
  <2> QED BY <1>1, <2>1 DEF Rest
<1>4. IsUnloaded(b, n)
  BY <1>1, UnloadedFacts
<1> HIDE DEF n
<1>5. Rest(n) /\ n \in Shared
  BY <1>1, <1>3, <1>4, UnloadRest DEF IsUnloaded
<1>6. CASE ~Awaiting(c)
  BY <1>2, <1>5, <1>6
<1>7. CASE Awaiting(c)
  <2>1. PICK q \in Loads : q = c.load
    BY <1>7 DEF Awaiting, Shared
  <2>2. c.state[q] \in LoadState /\ c.state[q].progress = "AWAIT_LOGIN"
    BY <2>1, <1>7 DEF Awaiting, Shared
  <2>3. /\ c.state[q].life = "live" /\ c.state[q].outstanding = 0 /\ c.state[q].calls = 0
        /\ ~Asked(c, q) /\ q \notin c.queued
    <3>1. RestAt(c, q)
      BY DEF Rest
    <3>2. c.state[q].life = "live" /\ AliveAt(c, q)
      BY <2>1, <3>1 DEF RestAt
    <3> QED BY <2>1, <2>2, <3>2, <1>7 DEF AliveAt
  <2>4. n.state[q] = [c.state[q] EXCEPT !.aborted = TRUE]
    BY <2>1, <1>1, <1>4 DEF IsUnloaded, Told
  <2>5. /\ n.state[q].life = "live" /\ n.state[q].outstanding = 0 /\ n.state[q].calls = 0
    BY <2>2, <2>3, <2>4 DEF LoadState
  <2>6. ~Asked(n, q) /\ q \notin n.queued
    BY <2>3, <1>1, <1>4 DEF IsUnloaded, Kept, Asked
  <2>7. IsError(q, n, LoadError(n, q, "ABORTED"))
    BY <1>5, ErrorFacts
  <2>8. Rest(LoadError(n, q, "ABORTED"))
    BY <1>5, <2>5, <2>6, <2>7, ErrorRest
  <2> QED BY <1>2, <1>7, <2>1, <2>8
<1> QED BY <1>6, <1>7

\* A load that waits for the login goes on when it is answered, or fails.
LEMMA ResumeRest ==
  ASSUME NEW n \in Shared, Rest(n), NEW d,
         Awaiting(n) => n.state[n.load].outstanding = 0 /\ ~Asked(n, n.load),
         d = IF Awaiting(n) THEN BeginFetch(n, n.load) ELSE n
  PROVE  Rest(d)
<1>1. CASE ~Awaiting(n)
  BY <1>1
<1>2. CASE Awaiting(n)
  <2>1. PICK q \in Loads : q = n.load
    BY <1>2 DEF Awaiting, Shared
  <2>2. /\ n.state[q] \in LoadState /\ n.state[q].progress = "AWAIT_LOGIN"
        /\ n.state[q].outstanding = 0 /\ ~Asked(n, q)
    BY <2>1, <1>2 DEF Awaiting, Shared
  <2>3. /\ n.state[q].life = "live" /\ RestAt(n, q) /\ AliveAt(n, q)
        /\ n.state[q].calls = 0 /\ q \notin n.queued
    <3>1. RestAt(n, q)
      BY DEF Rest
    <3>2. n.state[q].life = "live" /\ AliveAt(n, q)
      BY <2>1, <3>1 DEF RestAt
    <3> QED BY <2>1, <2>2, <3>1, <3>2 DEF AliveAt
  <2>4. \/ IsIssued(q, "fetch", "IDENTIFYING", 1, n, d)
        \/ IsAt(q, "AWAIT_LOGIN", 0, n, d)
        \/ IsError(q, n, d)
    <3>1. n.state[q].outstanding < 2 /\ d = BeginFetch(n, q)
      BY <1>2, <2>1, <2>2
    <3> QED BY <3>1, FetchFacts
  <2>5. CASE IsError(q, n, d)
    BY <2>2, <2>3, <2>5, ErrorRest
  <2>6. CASE IsIssued(q, "fetch", "IDENTIFYING", 1, n, d) \/ IsAt(q, "AWAIT_LOGIN", 0, n, d)
    <3>1. /\ Standing(n, d) /\ OthersKept(q, n, d)
          /\ d.inflight = n.inflight \/ d.inflight = n.inflight \cup {<<q, "fetch">>}
          /\ \/ d.state[q] = [n.state[q] EXCEPT !.progress = "IDENTIFYING",
                                                !.outstanding = n.state[q].outstanding + 1]
             \/ d.state[q] = [n.state[q] EXCEPT !.progress = "AWAIT_LOGIN",
                                                !.outstanding = n.state[q].outstanding + 0]
      BY <2>6 DEF IsIssued, IsAt
    <3>2. /\ d.state[q].life = "live" /\ d.state[q].calls = 0
          /\ (d.state[q].owner <=> n.state[q].owner)
      <4> DEFINE o == n.state[q].outstanding + 1
                 p == n.state[q].outstanding + 0
      <4>1. \/ d.state[q] = [n.state[q] EXCEPT !.progress = "IDENTIFYING", !.outstanding = o]
            \/ d.state[q] = [n.state[q] EXCEPT !.progress = "AWAIT_LOGIN", !.outstanding = p]
        BY <3>1
      <4> HIDE DEF o, p
      <4> QED BY <4>1, <2>2, <2>3 DEF LoadState
    <3>3. /\ d.load = n.load /\ d.game = n.game /\ d.games = n.games
          /\ d.queued = n.queued /\ d.host = n.host /\ (d.corrupt <=> n.corrupt)
      BY <3>1 DEF Standing
    <3>4. RestAt(d, q)
      <4>1. AliveAt(d, q)
        BY <2>1, <2>3, <3>2, <3>3 DEF AliveAt
      <4> QED BY <4>1, <2>3, <3>2, <3>3 DEF RestAt
    <3>5. ASSUME NEW l \in Loads, l # q PROVE RestAt(d, l)
      <4>1. <<l, "fetch">> # <<q, "fetch">> /\ <<l, "session">> # <<q, "fetch">>
        BY <3>5
      <4>2. Asked(d, l) <=> Asked(n, l)
        BY <3>1, <4>1 DEF Asked
      <4>3. Similar(n, d, l)
        BY <3>1, <3>3, <3>5, <4>2 DEF Similar, OthersKept
      <4> QED BY <4>3, SimilarRest DEF Rest
    <3> QED BY <3>3, <3>4, <3>5 DEF Rest
  <2> QED BY <2>4, <2>5, <2>6
<1> QED BY <1>1, <1>2

-----------------------------------------------------------------------------
(* The steps of the host.                                                   *)

\* A load that waits for the login has no request.
LEMMA WaitingFacts ==
  ASSUME CInv
  PROVE  Awaiting(client) =>
           client.state[client.load].outstanding = 0 /\ ~Asked(client, client.load)
<1> SUFFICES ASSUME Awaiting(client)
             PROVE  client.state[client.load].outstanding = 0 /\ ~Asked(client, client.load)
  OBVIOUS
<1>1. PICK q \in Loads : q = client.load /\ client.state[q].progress = "AWAIT_LOGIN"
  BY DEF CInv, Types, Shared, Awaiting
<1>2. client.state[q].outstanding = 0 /\ Fetch(q) = "out" /\ Session(q) = "out"
  BY <1>1 DEF CInv, Counted, CountedAt
<1>3. ~Asked(client, q)
  BY <1>2 DEF Fetch, Session, Stage, Asked
<1> QED BY <1>1, <1>2, <1>3

\* A load is begun while the one that is current is told that it is aborted.
LEMMA BeginLoadSafe ==
  ASSUME CInv, Sequential, Safe, NEW l \in Loads, BeginLoad(l)
  PROVE  Safe'
<1> DEFINE c == Detached(client)
           m == IF client.load = NoLoad THEN client ELSE Called(c, client.load, "ABORTED")
<1>1. Types /\ client \in Shared /\ client.state[l].life = "unused" /\ HostIdle
  BY DEF CInv, Types, BeginLoad
<1>2. Idle /\ Rest(client)
  BY <1>1, IdleFacts, Resting
<1>3. PICK n \in 0 .. client.host.hashes : client' = [m EXCEPT !.state[l] = NewLoadState(n)]
  BY DEF BeginLoad
<1>4. IsDetached(client, c)
  BY <1>1, DetachedFacts
<1>5. m \in Shared /\ Rest(m) /\ m.load = NoLoad /\ m.queued = client.queued
      /\ m.inflight = client.inflight
  <2>1. CASE client.load = NoLoad
    BY <1>1, <1>2, <2>1
  <2>2. CASE client.load # NoLoad
    <3>1. PICK q \in Loads : q = client.load
      BY <1>1, <2>2 DEF Shared
    <3>2. RestAt(client, q) /\ AliveAt(client, q) /\ client.state[q].life = "live"
      BY <1>2, <3>1 DEF Rest, RestAt
    <3>3. m = Called(c, q, "ABORTED") /\ c \in Shared
      BY <2>2, <3>1, <1>4 DEF IsDetached
    <3> HIDE DEF m, c
    <3>4. IsCalled(q, c, m)
      BY <3>3, CalledFacts
    <3>5. /\ m \in Shared /\ m.load = NoLoad /\ m.game = client.game
          /\ m.games = client.games /\ m.host = client.host
          /\ m.inflight = client.inflight /\ m.queued = client.queued
      BY <1>4, <3>4 DEF IsCalled, IsDetached, Kept
    <3>6. ~m.corrupt
      BY <1>2, <1>4, <3>1, <3>2, <3>4 DEF IsCalled, IsDetached, Rest
    <3>7. RestAt(m, q)
      <4>1. c.state[q] = [client.state[q] EXCEPT !.aborted = TRUE]
        BY <1>4, <3>1 DEF IsDetached, Told
      <4>2. client.state[q] \in LoadState
        BY <1>1 DEF Shared
      <4>3. /\ c.state[q].life = "live" /\ c.state[q].calls = client.state[q].calls
            /\ c.state[q].aborted /\ (c.state[q].owner <=> client.state[q].owner)
            /\ c.state[q].progress = client.state[q].progress
            /\ (c.state[q].session <=> client.state[q].session)
        BY <3>2, <4>1, <4>2 DEF LoadState
      <4>4. client.state[q].calls = 0
        BY <3>1, <3>2 DEF AliveAt
      <4>5. /\ m.state[q].life = "live" /\ m.state[q].calls \in {0, 1}
            /\ m.state[q].aborted /\ (m.state[q].owner <=> client.state[q].owner)
            /\ m.state[q].progress = client.state[q].progress
            /\ (m.state[q].session <=> client.state[q].session)
        BY <3>4, <4>3, <4>4 DEF IsCalled, Settings, MoreCalls
      <4>6. AliveAt(m, q)
        BY <3>1, <3>2, <3>5, <4>5, LoadAssumption DEF AliveAt, Asked
      <4> QED BY <3>2, <3>5, <4>5, <4>6 DEF RestAt
    <3>8. ASSUME NEW p \in Loads, p # q PROVE RestAt(m, p)
      <4>1. m.state[p] = client.state[p]
        BY <1>4, <3>1, <3>4, <3>8 DEF IsDetached, Told, IsCalled, OthersKept
      <4>2. p # NoLoad
        BY LoadAssumption
      <4>3. Similar(client, m, p)
        BY <3>1, <3>5, <3>8, <4>1, <4>2 DEF Similar, Asked
      <4> QED BY <1>2, <4>3, SimilarRest DEF Rest
    <3> QED BY <3>5, <3>6, <3>7, <3>8 DEF Rest
  <2> QED BY <2>1, <2>2
<1>6. ~Asked(client, l) /\ l \notin client.queued
  BY <1>1, <1>2 DEF Rest, RestAt
<1> HIDE DEF m, c
<1> DEFINE s == NewLoadState(n)
           d == [m EXCEPT !.state = [m.state EXCEPT ![l] = s]]
<1>7. client' = d
  BY <1>3
<1>8. /\ s \in LoadState /\ s.life = "live" /\ s.calls = 0 /\ ~s.owner
  <2>1. n \in Nat
    <3>1. client.host.hashes \in Nat
      BY <1>1, LoadAssumption DEF Shared
    <3> QED BY <3>1
  <2> QED BY <2>1 DEF NewLoadState, LoadState
<1> HIDE DEF s
<1>9. /\ Kept(m, d) /\ OthersKept(l, m, d) /\ d.load = m.load /\ d.game = m.game
      /\ d.games = m.games /\ (d.corrupt <=> m.corrupt) /\ d.state[l] = s
  BY <1>5, <1>8, PutFacts
<1> HIDE DEF d
<1>10. ~Asked(client', l) /\ l \notin client'.queued
  BY <1>5, <1>6, <1>7, <1>9 DEF Kept, Asked
<1>11. Rest(client')
  <2>1. RestAt(client', l)
    <3>1. AliveAt(client', l)
      BY <1>5, <1>7, <1>8, <1>9, <1>10, LoadAssumption DEF AliveAt
    <3>2. m.game = l => m.games[l] = "live"
      BY <1>5 DEF Rest, RestAt
    <3> QED BY <1>7, <1>8, <1>9, <3>1, <3>2 DEF RestAt
  <2>2. ASSUME NEW p \in Loads, p # l PROVE RestAt(client', p)
    <3>1. Similar(m, client', p)
      BY <1>7, <1>9, <2>2 DEF Similar, OthersKept, Kept, Asked
    <3> QED BY <1>5, <3>1, SimilarRest DEF Rest
  <2> QED BY <2>1, <2>2, <1>5, <1>7, <1>9 DEF Rest
<1>12. hostLoad' = l /\ Goes(Host, "attaching", "none")
  BY DEF BeginLoad
<1> QED BY <1>2, <1>7, <1>8, <1>9, <1>10, <1>11, <1>12, HostStarts

\* A game that was queued is alive, and its session was started, or none was asked for.
LEMMA DispatchActivateSafe ==
  ASSUME CInv, Sequential, Safe, NEW l \in Loads, DispatchActivate(l)
  PROVE  Safe'
<1>1. client \in Shared /\ HostIdle /\ l \in client.queued
  BY DEF CInv, Types, DispatchActivate
<1>2. Idle /\ Rest(client)
  BY <1>1, IdleFacts, Resting
<1>3. client.state[l].life = "live" /\ AliveAt(client, l) /\ RestAt(client, l)
  BY <1>1, <1>2 DEF Rest, RestAt
<1> DEFINE queued == client.queued \ {l}
<1>4. queued \in SUBSET Loads /\ l \notin queued
      /\ \A q \in Loads \ {l} : q \in queued <=> q \in client.queued
  BY <1>1 DEF Shared
<1>5. client' = [client EXCEPT !.queued = queued]
  BY DEF DispatchActivate
<1> HIDE DEF queued
<1>6. /\ client'.state = client.state /\ client'.load = client.load
      /\ client'.game = client.game /\ client'.games = client.games
      /\ client'.queued = queued /\ client'.inflight = client.inflight
      /\ client'.host = client.host /\ client'.corrupt = client.corrupt
  BY <1>1, <1>4, <1>5 DEF Shared
<1>7. Rest(client')
  <2>1. AliveAt(client', l)
    BY <1>3, <1>4, <1>6 DEF AliveAt, Asked
  <2>2. RestAt(client', l)
    BY <2>1, <1>3, <1>6 DEF RestAt
  <2>3. ASSUME NEW q \in Loads, q # l PROVE RestAt(client', q)
    <3>1. Similar(client, client', q)
      BY <1>4, <1>6, <2>3 DEF Similar, Asked
    <3> QED BY <1>2, <3>1, SimilarRest DEF Rest
  <2> QED BY <2>2, <2>3, <1>2, <1>6 DEF Rest
<1>8. ~Asked(client', l) /\ ~client'.host.background
      /\ (client.state[l].session \/ client'.host.spectating)
  BY <1>1, <1>3, <1>6 DEF AliveAt, Asked
<1> DEFINE with == IF client.state[l].session THEN "ok" ELSE "none"
<1>9. hostLoad' = l /\ Goes(Host, "activating", with)
  BY DEF DispatchActivate
<1>10. with = "ok" \/ client'.host.spectating
  BY <1>8
<1> HIDE DEF with
<1> QED BY <1>2, <1>3, <1>4, <1>6, <1>7, <1>8, <1>9, <1>10, HostStarts

\* The other calls of the host, and the answer to a login, start no thread.
LEMMA HostSafe ==
  ASSUME CInv, Sequential, Safe,
         \/ Unload \/ BeginLogin \/ LogOut \/ AbortLogin
         \/ \E l \in Loads : AbortLoad(l)
         \/ LoginAnswered
  PROVE  Safe'
<1>1. client \in Shared /\ UNCHANGED threads
  BY DEF CInv, Types, Unload, BeginLogin, LogOut, AbortLogin, AbortLoad, LoginAnswered
<1>2. Idle
  <2>1. HostIdle \/ Running = {}
    BY DEF Unload, BeginLogin, LogOut, AbortLogin, AbortLoad, LoginAnswered, Sequential
  <2> QED BY <2>1, IdleFacts
<1>3. Rest(client)
  BY <1>2, Resting
<1> SUFFICES Rest(client')
  BY <1>1, <1>2, RestsAgain
<1>4. \A q \in Loads : RestAt(client, q)
  BY <1>3 DEF Rest
<1>5. CASE Unload
  <2>1. IsUnloaded(client, client')
    BY <1>1, <1>5, UnloadedFacts DEF Unload
  <2> QED BY <1>1, <1>3, <2>1, UnloadRest
<1>6. CASE BeginLogin \/ AbortLogin
  <2>1. /\ client'.state = client.state /\ client'.load = client.load
        /\ client'.game = client.game /\ client'.games = client.games
        /\ client'.queued = client.queued /\ client'.inflight = client.inflight
        /\ client'.host = client.host /\ client'.corrupt = client.corrupt
    <3>1. CASE BeginLogin
      BY <1>1, <3>1 DEF BeginLogin, Shared
    <3>2. CASE AbortLogin
      BY <1>1, <3>2 DEF AbortLogin, Shared
    <3> QED BY <3>1, <3>2, <1>6
  <2>2. \A q \in Loads : Similar(client, client', q)
    BY <2>1 DEF Similar, Asked
  <2> QED BY <1>3, <1>4, <2>1, <2>2, SimilarRest DEF Rest
<1>7. CASE LogOut
  <2>1. client' = LogOutOf(client)
    BY <1>7 DEF LogOut
  <2> QED BY <1>1, <1>3, <2>1, WaitingFacts, LogOutRest
<1>8. CASE \E l \in Loads : AbortLoad(l)
  <2>1. PICK l \in Loads : AbortLoad(l)
    BY <1>8
  <2> DEFINE s == [client.state[l] EXCEPT !.aborted = TRUE]
             d == [client EXCEPT !.state = [client.state EXCEPT ![l] = s]]
  <2>2. client' = d
    BY <2>1 DEF AbortLoad
  <2>3. /\ s \in LoadState /\ s.life = client.state[l].life /\ s.calls = client.state[l].calls
        /\ s.aborted /\ (s.owner <=> client.state[l].owner)
        /\ s.progress = client.state[l].progress /\ (s.session <=> client.state[l].session)
    <3>1. client.state[l] \in LoadState
      BY <1>1 DEF Shared
    <3> QED BY <3>1 DEF LoadState
  <2> HIDE DEF s
  <2>4. /\ Kept(client, d) /\ OthersKept(l, client, d) /\ d.load = client.load
        /\ d.game = client.game /\ d.games = client.games
        /\ (d.corrupt <=> client.corrupt) /\ d.state[l] = s
    BY <1>1, <2>3, PutFacts
  <2> HIDE DEF d
  <2>5. RestAt(client', l)
    <3>1. RestAt(client, l)
      BY <1>4
    <3>2. client.state[l].life = "live" => AliveAt(client', l)
      BY <3>1, <2>2, <2>3, <2>4 DEF RestAt, AliveAt, Kept, Asked
    <3> QED BY <3>1, <3>2, <2>2, <2>3, <2>4 DEF RestAt, Kept, Asked
  <2>6. ASSUME NEW q \in Loads, q # l PROVE RestAt(client', q)
    <3>1. Similar(client, client', q)
      BY <2>2, <2>4, <2>6 DEF Similar, OthersKept, Kept, Asked
    <3> QED BY <1>4, <3>1, SimilarRest
  <2> QED BY <1>3, <2>2, <2>4, <2>5, <2>6 DEF Rest
<1>9. CASE LoginAnswered
  <2> DEFINE c == [client EXCEPT !.login = "none"]
             Resumed(n) == IF Awaiting(n) THEN BeginFetch(n, n.load) ELSE n
             in == [c EXCEPT !.user = "LOGGED_IN", !.credentials = TRUE]
             out == [c EXCEPT !.user = "NONE"]
             Same(n) == /\ n \in Shared /\ n.state = client.state /\ n.load = client.load
                        /\ n.game = client.game /\ n.games = client.games
                        /\ n.queued = client.queued /\ n.inflight = client.inflight
                        /\ n.host = client.host /\ n.corrupt = client.corrupt
  <2>1. client' \in {LogOutOf(c), c, Resumed(in), Resumed(out)}
    BY <1>9 DEF LoginAnswered
  <2>2. Same(c)
    BY <1>1 DEF Shared
  <2> HIDE DEF c
  <2>3. Same(in) /\ Same(out)
    BY <2>2 DEF Shared
  <2> HIDE DEF in, out
  <2>4. ASSUME NEW n, Same(n)
        PROVE  /\ Rest(n) /\ n \in Shared
               /\ Awaiting(n) => n.state[n.load].outstanding = 0 /\ ~Asked(n, n.load)
    <3>1. \A q \in Loads : Similar(client, n, q)
      BY <2>4 DEF Similar, Asked
    <3>2. Rest(n)
      BY <1>3, <1>4, <2>4, <3>1, SimilarRest DEF Rest
    <3>3. Awaiting(n) => n.state[n.load].outstanding = 0 /\ ~Asked(n, n.load)
      BY <2>4, WaitingFacts DEF Awaiting, Asked
    <3> QED BY <2>4, <3>2, <3>3
  <2> HIDE DEF Same
  <2>5. CASE client' = LogOutOf(c)
    BY <2>2, <2>4, <2>5, LogOutRest
  <2>6. CASE client' = c
    BY <2>2, <2>4, <2>6
  <2>7. CASE client' = Resumed(in)
    BY <2>3, <2>4, <2>7, ResumeRest
  <2>8. CASE client' = Resumed(out)
    BY <2>3, <2>4, <2>8, ResumeRest
  <2> QED BY <2>1, <2>5, <2>6, <2>7, <2>8
<1> QED BY <1>5, <1>6, <1>7, <1>8, <1>9

-----------------------------------------------------------------------------
(* The theorems.                                                            *)

\* The host is the same after an operation on the shared memory.
Hosted(c, d) == "host" \in DOMAIN d /\ d.host = c.host

\* None of the functions changes the host.
LEMMA HostedFacts ==
  ASSUME NEW c, Hosted(c, c), c.user \in {"NONE", "LOGIN_REQUESTED", "LOGGED_IN"},
         NEW l, NEW result
  PROVE  /\ Hosted(c, Called(c, l, result)) /\ Hosted(c, FreeLoadState(c, l))
         /\ Hosted(c, EndLoadState(c, l)) /\ Hosted(c, LoadError(c, l, result))
         /\ Hosted(c, UnloadGame(c)) /\ Hosted(c, Detached(c))
         /\ Hosted(c, BeginFetch(c, l)) /\ Hosted(c, BeginSession(c, l))
         /\ Hosted(c, Refused(c, l, result)) /\ Hosted(c, LogOutOf(c))
<1>1. \A b : Hosted(c, b) => Hosted(c, FreeGame(b, l))
  BY DEF Hosted, FreeGame
<1>2. ASSUME NEW b, Hosted(c, b) PROVE Hosted(c, FreeLoadState(b, l))
  <2>1. Hosted(c, FreeGame(b, l))
    BY <1>1, <1>2
  <2> QED BY <2>1, <1>2 DEF FreeLoadState, Hosted
<1>3. \A b : Hosted(c, b) => \A r : Hosted(c, Called(b, l, r))
  BY DEF Hosted, Called
<1>4. Hosted(c, EndLoadState(c, l))
  <2>1. Hosted(c, Ended(c, l))
    BY DEF Ended, Hosted
  <2>2. Hosted(c, Called(Ended(c, l), l, "ABORTED"))
    BY <2>1, <1>3
  <2>3. \A m \in {Ended(c, l), Called(Ended(c, l), l, "ABORTED")} : Hosted(c, FreeLoadState(m, l))
    BY <2>1, <2>2, <1>2
  <2> QED BY <2>1, <2>2, <2>3 DEF EndLoadState
<1>5. ASSUME NEW b, Hosted(c, b), NEW q, NEW r PROVE Hosted(c, LoadError(b, q, r))
  <2> DEFINE a == [b EXCEPT !.state[q].progress = "ABORTED", !.load = IF @ = q THEN NoLoad ELSE @]
  <2>1. Hosted(c, a)
    BY <1>5 DEF Hosted
  <2>2. LoadError(b, q, r) = IF b.state[q].outstanding = 0 THEN FreeLoadState(Called(a, q, r), q)
                             ELSE Called(a, q, r)
    BY DEF LoadError
  <2> HIDE DEF a
  <2>3. Hosted(c, Called(a, q, r))
    BY <2>1 DEF Hosted, Called
  <2> DEFINE n == Called(a, q, r)
  <2> HIDE DEF n
  <2>4. Hosted(c, n)
    BY <2>3 DEF n
  <2>5. Hosted(c, FreeGame(n, q))
    BY <2>4 DEF Hosted, FreeGame
  <2>6. Hosted(c, FreeLoadState(n, q))
    BY <2>4, <2>5 DEF FreeLoadState, Hosted
  <2> QED BY <2>2, <2>4, <2>6 DEF n
<1>6. \A b : Hosted(c, b) => Hosted(c, Detached(b))
  BY DEF Hosted, Detached
<1>7. ASSUME NEW b, Hosted(c, b) PROVE Hosted(c, UnloadGame(b))
  <2> DEFINE n == [Detached(b) EXCEPT !.game = NoLoad]
  <2>1. Hosted(c, n)
    <3>1. Hosted(c, Detached(b))
      BY <1>6, <1>7
    <3> QED BY <3>1 DEF Hosted
  <2>2. UnloadGame(b) = n \/ UnloadGame(b) = FreeGame(n, b.game)
    BY DEF UnloadGame
  <2> HIDE DEF n
  <2>3. Hosted(c, FreeGame(n, b.game))
    BY <2>1 DEF Hosted, FreeGame
  <2> QED BY <2>1, <2>2, <2>3
<1>8. Hosted(c, BeginFetch(c, l))
  <2>1. Hosted(c, LoadError(c, l, "ERROR"))
    BY <1>5
  <2>2. Hosted(c, [c EXCEPT !.state[l].progress = "IDENTIFYING", !.state[l].outstanding = @ + 1,
                            !.inflight = @ \cup {<<l, "fetch">>}])
    BY DEF Hosted
  <2>3. Hosted(c, [c EXCEPT !.state[l].progress = "AWAIT_LOGIN"])
    BY DEF Hosted
  <2> QED BY <2>1, <2>2, <2>3 DEF BeginFetch
<1>9. Hosted(c, Refused(c, l, result))
  BY <1>2, <1>3 DEF Refused
<1>10. Hosted(c, LogOutOf(c))
  <2> DEFINE b == [c EXCEPT !.user = "NONE", !.credentials = FALSE]
             n == UnloadGame(b)
  <2>1. Hosted(c, b)
    BY DEF Hosted
  <2> HIDE DEF b
  <2>2. Hosted(c, n)
    BY <2>1, <1>7
  <2>3. Hosted(c, LoadError(n, c.load, "ABORTED"))
    BY <2>2, <1>5
  <2> QED BY <2>2, <2>3 DEF LogOutOf, b
<1>11. Hosted(c, BeginSession(c, l))
  <2> DEFINE n == [c EXCEPT !.state[l].progress = "STARTING", !.state[l].outstanding = @ + 1]
  <2>1. Hosted(c, n)
    BY DEF Hosted
  <2>2. BeginSession(c, l) \in
          {n, LoadError(n, l, "ERROR"),
           [n EXCEPT !.state[l].outstanding = @ + 1, !.inflight = @ \cup {<<l, "session">>}]}
    BY DEF BeginSession
  <2> HIDE DEF n
  <2>3. Hosted(c, LoadError(n, l, "ERROR"))
    BY <2>1, <1>5
  <2>4. Hosted(c, [n EXCEPT !.state[l].outstanding = @ + 1,
                            !.inflight = @ \cup {<<l, "session">>}])
    BY <2>1 DEF Hosted
  <2> QED BY <2>1, <2>2, <2>3, <2>4
<1> QED BY <1>2, <1>3, <1>4, <1>5, <1>6, <1>7, <1>8, <1>9, <1>10, <1>11 DEF Hosted

\* The host never changes.
LEMMA HostStays ==
  ASSUME CInv, [Next]_vars
  PROVE  client'.host = client.host
<1> DEFINE Fine(c) == /\ Hosted(client, c) /\ Hosted(c, c)
                      /\ c.user \in {"NONE", "LOGIN_REQUESTED", "LOGGED_IN"}
<1>1. Fine(client)
  BY DEF CInv, Types, Shared, Hosted
<1>2. ASSUME NEW c, Fine(c), NEW l, NEW result
      PROVE  /\ Hosted(client, Called(c, l, result)) /\ Hosted(client, FreeLoadState(c, l))
             /\ Hosted(client, EndLoadState(c, l)) /\ Hosted(client, LoadError(c, l, result))
             /\ Hosted(client, UnloadGame(c)) /\ Hosted(client, Detached(c))
             /\ Hosted(client, BeginFetch(c, l)) /\ Hosted(client, BeginSession(c, l))
             /\ Hosted(client, Refused(c, l, result)) /\ Hosted(client, LogOutOf(c))
  BY <1>2, HostedFacts DEF Hosted
<1>3. ASSUME NEW t \in Threads, Step(t) PROVE Hosted(client, client')
  <2> DEFINE l == LoadOf(t)
  <2>1. CASE Leaving(t) \/ Ending(t) \/ Failing(t) \/ Starting(t)
    BY <1>1, <1>2, <2>1 DEF Leaving, Ending, Failing, Starting
  <2>2. CASE Storing(t) \/ Attached(t) \/ NextHash(t) \/ MakingActive(t) \/ Validating(t)
    BY <1>1, <2>2 DEF Storing, Attached, NextHash, MakingActive, Validating, Hosted
  <2>3. CASE Aborting(t)
    <3> DEFINE c == [client EXCEPT !.state[l].callback = FALSE]
    <3>1. Fine(c)
      BY <1>1 DEF Hosted
    <3>2. client' = LoadError(c, l, "ABORTED")
      BY <2>3 DEF Aborting
    <3> HIDE DEF c
    <3> QED BY <3>1, <3>2, <1>2
  <2>4. CASE Processing(t)
    BY <1>1, <1>2, <2>4 DEF Processing
  <2>5. CASE Holding(t)
    <3> DEFINE c == EndLoadState(client, l)
    <3>1. client' = c \/ client' = [c EXCEPT !.queued = @ \cup {l}]
      BY <2>5 DEF Holding
    <3>2. Hosted(client, c)
      BY <1>1, <1>2
    <3> HIDE DEF c
    <3> QED BY <3>1, <3>2 DEF Hosted
  <2>6. CASE Attaching(t)
    <3> DEFINE c == UnloadGame(client)
    <3>1. \/ client' = [c EXCEPT !.state[l].owner = TRUE, !.games[l] = "live"]
          \/ client' = client
          \/ client' = Refused(client, l, "ABORTED")
      BY <2>6 DEF Attaching
    <3>2. Hosted(client, c) /\ Hosted(client, Refused(client, l, "ABORTED"))
      BY <1>1, <1>2
    <3> HIDE DEF c
    <3> QED BY <3>1, <3>2, <1>1 DEF Hosted
  <2>7. CASE Identifying(t)
    BY <1>1, <1>2, <2>7 DEF Identifying
  <2>8. CASE HostNamesGame(t)
    <3> DEFINE c == [client EXCEPT !.state[l].mapping = "is_unknown"]
    <3>1. Fine(c)
      BY <1>1 DEF Hosted
    <3>2. client' = BeginFetch(c, l)
      BY <2>8 DEF HostNamesGame
    <3> HIDE DEF c
    <3> QED BY <3>1, <3>2, <1>2
  <2>9. CASE UnknownGame(t)
    <3> DEFINE c == [client EXCEPT !.game = l, !.state[l].owner = FALSE]
    <3>1. Fine(c)
      BY <1>1 DEF Hosted
    <3>2. client' = LoadError(c, l, "ERROR")
      BY <2>9 DEF UnknownGame
    <3> HIDE DEF c
    <3> QED BY <3>1, <3>2, <1>2
  <2>10. CASE Activating(t)
    <3> DEFINE c == ActivateBegin(client, l)
    <3>1. \/ client' = Refused(c, l, "ABORTED") \/ client' = Refused(c, l, "ERROR")
          \/ client' = c
      BY <2>10 DEF Activating
    <3>2. Fine(c)
      BY <1>1 DEF Hosted, ActivateBegin
    <3> HIDE DEF c
    <3> QED BY <3>1, <3>2, <1>2
  <2>11. CASE Concluding(t)
    <3> DEFINE n == Called(client, l, "OK")
               c == [n EXCEPT !.state[l].owner = FALSE]
    <3>1. client' = Refused(client, l, "ABORTED") \/ client' = FreeLoadState(c, l)
      BY <2>11 DEF Concluding
    <3>2. Fine(n)
      BY <1>1 DEF Hosted, Called
    <3> HIDE DEF n
    <3>3. Fine(c)
      BY <3>2 DEF Hosted
    <3> HIDE DEF c
    <3> QED BY <3>1, <3>3, <1>1, <1>2
  <2> QED BY <1>3, <2>1, <2>2, <2>3, <2>4, <2>5, <2>6, <2>7, <2>8, <2>9, <2>10, <2>11 DEF Step
<1>4. ASSUME HostNext PROVE Hosted(client, client')
  <2>1. CASE \E l \in Loads : BeginLoad(l)
    <3>1. PICK l \in Loads : BeginLoad(l)
      BY <2>1
    <3> DEFINE d == Detached(client)
               m == Called(d, client.load, "ABORTED")
    <3>2. \E n : client' = [client EXCEPT !.state[l] = NewLoadState(n)]
                 \/ client' = [m EXCEPT !.state[l] = NewLoadState(n)]
      BY <3>1 DEF BeginLoad
    <3>3. Fine(d)
      BY <1>1 DEF Hosted, Detached
    <3> HIDE DEF d
    <3>4. Hosted(client, m)
      BY <3>3, <1>2
    <3> HIDE DEF m
    <3> QED BY <3>2, <3>4, <1>1 DEF Hosted
  <2>2. CASE (\E l \in Loads : DispatchActivate(l) \/ AbortLoad(l)) \/ BeginLogin \/ AbortLogin
    BY <1>1, <2>2 DEF DispatchActivate, AbortLoad, BeginLogin, AbortLogin, Hosted
  <2>3. CASE Unload \/ LogOut
    BY <1>1, <1>2, <2>3 DEF Unload, LogOut
  <2> QED BY <1>4, <2>1, <2>2, <2>3 DEF HostNext
<1>5. ASSUME LoginAnswered PROVE Hosted(client, client')
  <2> DEFINE c == [client EXCEPT !.login = "none"]
             Resumed(n) == IF Awaiting(n) THEN BeginFetch(n, n.load) ELSE n
             in == [c EXCEPT !.user = "LOGGED_IN", !.credentials = TRUE]
             out == [c EXCEPT !.user = "NONE"]
  <2>1. client' \in {LogOutOf(c), c, Resumed(in), Resumed(out)}
    BY <1>5 DEF LoginAnswered
  <2>2. Fine(c)
    BY <1>1 DEF Hosted
  <2>3. c.user = client.user /\ "user" \in DOMAIN c
    BY DEF CInv, Types, Shared
  <2> HIDE DEF c
  <2>4. Fine(in) /\ Fine(out)
    BY <2>2, <2>3 DEF Hosted
  <2> HIDE DEF in, out, Fine
  <2>5. Hosted(client, c)
    BY <2>2 DEF Fine
  <2>6. Hosted(client, in) /\ Hosted(client, out)
    BY <2>4 DEF Fine
  <2> QED BY <1>2, <2>1, <2>2, <2>4, <2>5, <2>6
<1>6. ASSUME NEW t, Answered(t) \/ UseAfterFree(t) PROVE Hosted(client, client')
  BY <1>1, <1>6 DEF Answered, UseAfterFree, Hosted
<1>7. CASE UNCHANGED vars
  BY <1>7 DEF vars
<1> QED BY <1>3, <1>4, <1>5, <1>6, <1>7 DEF Next, Hosted

\* Every step keeps the invariant.
LEMMA NextSafe ==
  ASSUME SInv, [Next]_vars
  PROVE  SInv'
<1>1. CInv /\ CInv'
  BY NextCInv DEF SInv
<1>2. client'.host = client.host
  BY <1>1, HostStays
<1> SUFFICES ASSUME Sequential, SetsAreSent PROVE Safe'
  BY <1>1, <1>2 DEF SInv, Sequential, SetsAreSent
<1>3. Safe
  BY DEF SInv
<1>4. ASSUME NEW t \in Threads, Step(t) PROVE Safe'
  <2>1. CASE Aborting(t) \/ Leaving(t) \/ Ending(t) \/ Failing(t) \/ Storing(t)
    BY <1>1, <1>3, <2>1, AbortingSafe, LeavingSafe, EndingSafe, FailingSafe, StoringSafe
  <2>2. CASE Starting(t) \/ Processing(t) \/ Holding(t)
    BY <1>1, <1>3, <2>2, StartingSafe, ProcessingSafe, HoldingSafe
  <2>3. CASE Attaching(t) \/ Attached(t) \/ Identifying(t)
    BY <1>1, <1>3, <2>3, AttachingSafe, AttachedSafe, IdentifyingSafe
  <2>4. CASE NextHash(t) \/ HostNamesGame(t) \/ UnknownGame(t)
    BY <1>1, <1>3, <2>4, NextHashSafe, HostNamesGameSafe, UnknownGameSafe
  <2>5. CASE Activating(t) \/ MakingActive(t) \/ Validating(t) \/ Concluding(t)
    BY <1>1, <1>3, <2>5, ActivatingSafe, MakingActiveSafe, ValidatingSafe, ConcludingSafe
  <2> QED BY <1>4, <2>1, <2>2, <2>3, <2>4, <2>5 DEF Step
<1>5. ASSUME HostNext PROVE Safe'
  <2>1. ASSUME NEW l \in Loads, BeginLoad(l) \/ DispatchActivate(l) PROVE Safe'
    BY <1>1, <1>3, <2>1, BeginLoadSafe, DispatchActivateSafe
  <2> QED BY <1>1, <1>3, <1>5, <2>1, HostSafe DEF HostNext
<1>6. ASSUME LoginAnswered PROVE Safe'
  BY <1>1, <1>3, <1>6, HostSafe
<1>7. ASSUME NEW t \in Requests, Answered(t) PROVE Safe'
  BY <1>1, <1>3, <1>7, AnsweredSafe
<1>8. ASSUME NEW t \in Threads, UseAfterFree(t) PROVE Safe'
  BY <1>1, <1>3, <1>8, NoUseAfterFree
<1>9. ASSUME UNCHANGED vars PROVE Safe'
  <2>1. client' = client /\ pc' = pc /\ local' = local /\ hostLoad' = hostLoad
    BY <1>9 DEF vars, threads
  <2> QED BY <2>1, <1>3 DEF Safe, SafeLoad, Fetch, Session, HostOn, Stage
<1> QED BY <1>4, <1>5, <1>6, <1>7, <1>8, <1>9 DEF Next

\* Nothing is loaded at first.
LEMMA InitSafe ==
  ASSUME Init
  PROVE  SInv
<1>1. CInv
  BY InitCInv
<1>2. Idle
  BY DEF Init, Idle
<1>3. PICK h \in Hosts : client =
        [host |-> h, load |-> NoLoad, game |-> NoLoad, login |-> "none",
         user |-> IF h.logins THEN "NONE" ELSE "LOGGED_IN", credentials |-> ~h.logins,
         inflight |-> {}, queued |-> {},
         state |-> [l \in Loads |-> [NewLoadState(0) EXCEPT !.life = "unused"]],
         games |-> [l \in Loads |-> "none"], corrupt |-> FALSE]
  BY DEF Init
<1>4. ASSUME NEW l \in Loads PROVE RestAt(client, l)
  <2> DEFINE r == NewLoadState(0)
  <2>1. r.calls = 0 /\ client.state[l] = [r EXCEPT !.life = "unused"] /\ r \in LoadState
    BY <1>3 DEF NewLoadState, LoadState
  <2> HIDE DEF r
  <2>2. client.state[l].life = "unused" /\ client.state[l].calls = 0
    BY <2>1 DEF LoadState
  <2>3. client.load # l /\ client.game # l /\ l \notin client.queued /\ ~Asked(client, l)
    BY <1>3, LoadAssumption DEF Asked
  <2> QED BY <2>2, <2>3 DEF RestAt
<1>5. ~client.corrupt
  BY <1>3
<1> QED BY <1>1, <1>2, <1>4, <1>5, Rested DEF SInv, Rest

\* What is safe stays safe, in whatever order answers, unloads, loads and logins come.
THEOREM SafetyInvariant == Spec => []SInv
<1>1. Init => SInv
  BY InitSafe
<1>2. SInv /\ [Next]_vars => SInv'
  BY NextSafe
<1> QED BY <1>1, <1>2, PTL DEF Spec

\* With handlers on the host thread, for any number of loads: no handler, and no later
\* call, uses a load state or a game that was freed, and nothing is freed twice.
THEOREM LifetimesAlways == Spec => [](SetsAreSent => LifetimesRespected)
<1>1. SInv /\ SetsAreSent => LifetimesRespected
  <2> SUFFICES ASSUME SInv, SetsAreSent PROVE LifetimesRespected
    OBVIOUS
  <2>1. client \in Shared /\ hostLoad \in Loads \cup {NoLoad}
    BY DEF SInv, CInv, Types
  <2>2. TypeOK
    BY <2>1 DEF TypeOK, Shared, Lives
  <2>3. ASSUME ~client.host.threaded
        PROVE  /\ ~client.corrupt
               /\ client.load # NoLoad => client.state[client.load].life = "live"
               /\ client.game # NoLoad => client.games[client.game] = "live"
    <3>1. Safe
      BY <2>3 DEF SInv, Sequential
    <3>2. \A l \in Loads : /\ client.load = l => client.state[l].life = "live"
                           /\ client.game = l => client.games[l] = "live"
      BY <3>1 DEF Safe, SafeLoad, SafeAt
    <3> QED BY <2>1, <3>1, <3>2 DEF Shared, Safe
  <2> QED BY <2>2, <2>3 DEF LifetimesRespected
<1> QED BY <1>1, SafetyInvariant, PTL

\* The callback of a load is called once, or twice if the load is replaced while its
\* activation is queued.
THEOREM CallbackOnceAlways == Spec => [](Sequential /\ SetsAreSent => CallbackOnce)
<1>1. SInv => (Sequential /\ SetsAreSent => CallbackOnce)
  BY DEF SInv, Sequential, Safe, SafeLoad, SafeAt, CallbackOnce
<1> QED BY <1>1, SafetyInvariant, PTL

\* A game that is activated has its unlocks, however the two answers are handled.
THEOREM UnlocksDeliveredAlways == Spec => [](SetsAreSent => UnlocksDelivered)
<1>1. SInv => (SetsAreSent => UnlocksDelivered)
  BY DEF SInv, Sequential, Safe, NoteFits, UnlocksDelivered
<1> QED BY <1>1, SafetyInvariant, PTL

-----------------------------------------------------------------------------
(* The load begun last wins.                                                *)

\* The load in progress is the one begun last, and so are those of the threads that
\* may yet put theirs in its place, or report success.
Latest ==
  /\ client.load \in {newest, NoLoad}
  /\ \A t \in Threads : pc[t] \in {"attaching", "attached", "concluding"} => LoadOf(t) = newest

\* Memory with what Steady speaks of.
Apt(c) ==
  /\ {"load", "game", "state"} \subseteq DOMAIN c
  /\ Loads \subseteq DOMAIN c.state
  /\ \A q \in Loads : "result" \in DOMAIN c.state[q]

\* No load and no game takes the place of another, and no load succeeds.
Steady(c, d) ==
  /\ Apt(d)
  /\ d.load \in {c.load, NoLoad} /\ d.game \in {c.game, NoLoad}
  /\ \A q \in Loads : d.state[q].result = "OK" => c.state[q].result = "OK"

\* What is steady twice is steady.
LEMMA SteadyTwice ==
  ASSUME NEW b, NEW c, NEW d, Steady(b, c), Steady(c, d)
  PROVE  Steady(b, d)
<1> QED BY DEF Steady

\* Two memories that are alike in what Steady speaks of.
LEMMA SteadyAlike ==
  ASSUME NEW c, NEW d, Apt(c), DOMAIN d = DOMAIN c,
         d.load \in {c.load, NoLoad}, d.game \in {c.game, NoLoad}, d.state = c.state
  PROVE  Steady(c, d)
<1> QED BY DEF Steady, Apt

\* A load state takes the place of another.
LEMMA SteadyPut ==
  ASSUME NEW c, Apt(c), NEW l \in Loads, NEW s, "result" \in DOMAIN s,
         s.result = "OK" => c.state[l].result = "OK"
  PROVE  Steady(c, [c EXCEPT !.state = [c.state EXCEPT ![l] = s]])
<1> DEFINE states == [c.state EXCEPT ![l] = s]
           d == [c EXCEPT !.state = states]
<1>1. /\ DOMAIN states = DOMAIN c.state /\ states[l] = s
      /\ \A q \in Loads \ {l} : states[q] = c.state[q]
  BY DEF Apt
<1> HIDE DEF states
<1>2. DOMAIN d = DOMAIN c /\ d.state = states /\ d.load = c.load /\ d.game = c.game
  BY DEF Apt
<1> HIDE DEF d
<1>3. Steady(c, d)
  BY <1>1, <1>2 DEF Steady, Apt
<1> QED BY <1>3 DEF d, states

\* A callback that does not report success is called.
LEMMA SteadyCalled ==
  ASSUME NEW c, Apt(c), NEW l \in Loads, NEW result, result # "OK"
  PROVE  Steady(c, Called(c, l, result))
<1> DEFINE s == [c.state[l] EXCEPT !.calls = IF @ < 3 THEN @ + 1 ELSE @, !.result = result]
<1>1. Called(c, l, result) = IF c.state[l].callback
                             THEN [c EXCEPT !.state = [c.state EXCEPT ![l] = s]] ELSE c
  <2>1. l \in DOMAIN c.state /\ "state" \in DOMAIN c
    BY DEF Apt
  <2> QED BY <2>1 DEF Called
<1>2. "result" \in DOMAIN s /\ s.result # "OK"
  BY DEF Apt
<1> HIDE DEF s
<1>3. Steady(c, c)
  BY DEF Steady
<1> QED BY <1>1, <1>2, <1>3, SteadyPut

\* None of the functions lets a load or a game take the place of another.
LEMMA SteadyFacts ==
  ASSUME NEW c, Apt(c), NEW l \in Loads
  PROVE  /\ Steady(c, c) /\ Steady(c, FreeGame(c, l))
         /\ Steady(c, FreeLoadState(c, l)) /\ Steady(c, Ended(c, l))
<1>1. Steady(c, c)
  BY DEF Steady
<1>2. Steady(c, FreeGame(c, l))
  <2> DEFINE d == FreeGame(c, l)
  <2>1. DOMAIN d = DOMAIN c /\ d.load = c.load /\ d.game = c.game /\ d.state = c.state
    BY DEF FreeGame, Apt
  <2> HIDE DEF d
  <2>2. Steady(c, d)
    BY <2>1, SteadyAlike
  <2> QED BY <2>2 DEF d
<1>3. Steady(c, FreeLoadState(c, l))
  <2> DEFINE n == IF c.state[l].owner THEN FreeGame(c, l) ELSE c
             s == [n.state[l] EXCEPT !.life = "freed"]
  <2>1. FreeLoadState(c, l) = [n EXCEPT !.state = [n.state EXCEPT ![l] = s]]
    BY DEF FreeLoadState
  <2>2. Steady(c, n)
    BY <1>1, <1>2
  <2> HIDE DEF n
  <2>3. Apt(n)
    BY <2>2 DEF Steady
  <2>4. "result" \in DOMAIN s /\ s.result = n.state[l].result
    BY <2>3 DEF Apt
  <2> HIDE DEF s
  <2>5. Steady(n, FreeLoadState(c, l))
    BY <2>1, <2>3, <2>4, SteadyPut
  <2> QED BY <2>2, <2>5, SteadyTwice
<1>4. Steady(c, Ended(c, l))
  <2> DEFINE s == [c.state[l] EXCEPT !.outstanding = IF @ > 0 THEN @ - 1 ELSE 0]
  <2>1. Ended(c, l) = [c EXCEPT !.state = [c.state EXCEPT ![l] = s]]
    BY DEF Ended
  <2>2. "result" \in DOMAIN s /\ s.result = c.state[l].result
    BY DEF Apt
  <2> HIDE DEF s
  <2> QED BY <2>1, <2>2, SteadyPut
<1> QED BY <1>1, <1>2, <1>3, <1>4

\* Nor do those that call several of them.
LEMMA SteadyEnds ==
  ASSUME NEW c, Apt(c), NEW l \in Loads, NEW result, result # "OK"
  PROVE  /\ Steady(c, EndLoadState(c, l)) /\ Steady(c, LoadError(c, l, result))
         /\ Steady(c, Refused(c, l, result))
<1>1. Steady(c, EndLoadState(c, l))
  <2> DEFINE n == Ended(c, l)
             m == IF n.state[l].progress # "ABORTED" THEN Called(n, l, "ABORTED") ELSE n
  <2>1. Steady(c, n)
    BY SteadyFacts
  <2>2. EndLoadState(c, l) = IF c.load # l /\ n.state[l].outstanding = 0
                             THEN FreeLoadState(m, l) ELSE n
    BY DEF EndLoadState
  <2> HIDE DEF n
  <2>3. Apt(n) /\ Steady(n, m)
    BY <2>1, SteadyCalled, SteadyFacts DEF Steady
  <2> HIDE DEF m
  <2>4. Steady(m, FreeLoadState(m, l))
    BY <2>3, SteadyFacts DEF Steady
  <2> QED BY <2>1, <2>2, <2>3, <2>4, SteadyTwice
<1>2. Steady(c, LoadError(c, l, result))
  <2> DEFINE s == [c.state[l] EXCEPT !.progress = "ABORTED"]
             b == [c EXCEPT !.state = [c.state EXCEPT ![l] = s]]
             a == [b EXCEPT !.load = IF @ = l THEN NoLoad ELSE @]
             n == Called(a, l, result)
  <2>1. LoadError(c, l, result) = IF c.state[l].outstanding = 0 THEN FreeLoadState(n, l) ELSE n
    BY DEF LoadError
  <2>2. "result" \in DOMAIN s /\ s.result = c.state[l].result
    BY DEF Apt
  <2> HIDE DEF s
  <2>3. Steady(c, b)
    BY <2>2, SteadyPut
  <2> HIDE DEF b
  <2>4. Steady(b, a)
    <3>1. Apt(b)
      BY <2>3 DEF Steady
    <3>2. DOMAIN a = DOMAIN b /\ a.load \in {b.load, NoLoad} /\ a.game = b.game /\ a.state = b.state
      BY <3>1 DEF Apt
    <3> QED BY <3>1, <3>2, SteadyAlike
  <2> HIDE DEF a
  <2>5. Steady(a, n)
    BY <2>4, SteadyCalled DEF Steady
  <2> HIDE DEF n
  <2>6. Steady(n, FreeLoadState(n, l))
    BY <2>5, SteadyFacts DEF Steady
  <2> QED BY <2>1, <2>3, <2>4, <2>5, <2>6, SteadyTwice
<1>3. Steady(c, Refused(c, l, result))
  <2> DEFINE n == Called(c, l, result)
  <2>1. Refused(c, l, result) = FreeLoadState(n, l)
    BY DEF Refused
  <2>2. Steady(c, n)
    BY SteadyCalled
  <2> HIDE DEF n
  <2>3. Steady(n, FreeLoadState(n, l))
    BY <2>2, SteadyFacts DEF Steady
  <2> QED BY <2>1, <2>2, <2>3, SteadyTwice
<1> QED BY <1>1, <1>2, <1>3

\* Nor do the requests.
LEMMA SteadyAsks ==
  ASSUME NEW c, Apt(c), NEW l \in Loads,
         c.user \in {"NONE", "LOGIN_REQUESTED", "LOGGED_IN"}
  PROVE  Steady(c, BeginFetch(c, l)) /\ Steady(c, BeginSession(c, l))
<1>1. ASSUME NEW b, Steady(c, b), NEW requests
      PROVE  Steady(c, [b EXCEPT !.inflight = requests])
  <2> DEFINE d == [b EXCEPT !.inflight = requests]
  <2>1. Apt(b) /\ DOMAIN d = DOMAIN b /\ d.load = b.load /\ d.game = b.game /\ d.state = b.state
    BY <1>1 DEF Steady, Apt
  <2> HIDE DEF d
  <2>2. Steady(b, d)
    BY <2>1, SteadyAlike
  <2>3. Steady(c, d)
    BY <1>1, <2>2, SteadyTwice
  <2> QED BY <2>3 DEF d
<1>2. ASSUME NEW b, Steady(c, b), NEW more
      PROVE  Steady(c, [b EXCEPT !.state = [b.state EXCEPT ![l] =
                                   [b.state[l] EXCEPT !.outstanding = more]]])
  <2> DEFINE s == [b.state[l] EXCEPT !.outstanding = more]
  <2>1. Apt(b) /\ "result" \in DOMAIN s /\ s.result = b.state[l].result
    BY <1>2 DEF Steady, Apt
  <2> HIDE DEF s
  <2>2. Steady(b, [b EXCEPT !.state = [b.state EXCEPT ![l] = s]])
    BY <2>1, SteadyPut
  <2>3. Steady(c, [b EXCEPT !.state = [b.state EXCEPT ![l] = s]])
    BY <1>2, <2>2, SteadyTwice
  <2> QED BY <2>3 DEF s
<1>3. ASSUME NEW progress
      PROVE  Steady(c, [c EXCEPT !.state = [c.state EXCEPT ![l] =
                                   [c.state[l] EXCEPT !.progress = progress]]])
  <2> DEFINE s == [c.state[l] EXCEPT !.progress = progress]
  <2>1. "result" \in DOMAIN s /\ s.result = c.state[l].result
    BY DEF Apt
  <2> HIDE DEF s
  <2>2. Steady(c, [c EXCEPT !.state = [c.state EXCEPT ![l] = s]])
    BY <2>1, SteadyPut
  <2> QED BY <2>2 DEF s
<1>4. ASSUME NEW progress
      PROVE  Steady(c, [c EXCEPT !.state[l].progress = progress, !.state[l].outstanding = @ + 1])
  <2> DEFINE b == [c EXCEPT !.state = [c.state EXCEPT ![l] =
                                [c.state[l] EXCEPT !.progress = progress]]]
             m == b.state[l].outstanding + 1
  <2>1. Steady(c, b)
    BY <1>3
  <2>2. [c EXCEPT !.state[l].progress = progress, !.state[l].outstanding = @ + 1]
          = [b EXCEPT !.state = [b.state EXCEPT ![l] = [b.state[l] EXCEPT !.outstanding = m]]]
    OBVIOUS
  <2> HIDE DEF b, m
  <2>3. Steady(c, [b EXCEPT !.state = [b.state EXCEPT ![l] = [b.state[l] EXCEPT !.outstanding = m]]])
    BY <2>1, <1>2
  <2> QED BY <2>2, <2>3
<1>5. Steady(c, BeginFetch(c, l))
  <2> DEFINE b == [c EXCEPT !.state[l].progress = "IDENTIFYING", !.state[l].outstanding = @ + 1]
  <2>1. Steady(c, b)
    BY <1>4
  <2>2. \/ BeginFetch(c, l) = [b EXCEPT !.inflight = b.inflight \cup {<<l, "fetch">>}]
        \/ BeginFetch(c, l) = [c EXCEPT !.state[l].progress = "AWAIT_LOGIN"]
        \/ BeginFetch(c, l) = LoadError(c, l, "ERROR")
    BY DEF BeginFetch
  <2> HIDE DEF b
  <2>3. Steady(c, [b EXCEPT !.inflight = b.inflight \cup {<<l, "fetch">>}])
    BY <2>1, <1>1
  <2>4. Steady(c, LoadError(c, l, "ERROR"))
    BY SteadyEnds
  <2>5. Steady(c, [c EXCEPT !.state[l].progress = "AWAIT_LOGIN"])
    BY <1>3
  <2> QED BY <2>2, <2>3, <2>4, <2>5
<1>6. Steady(c, BeginSession(c, l))
  <2> DEFINE n == [c EXCEPT !.state[l].progress = "STARTING", !.state[l].outstanding = @ + 1]
             m == n.state[l].outstanding + 1
             b == [n EXCEPT !.state = [n.state EXCEPT ![l] = [n.state[l] EXCEPT !.outstanding = m]]]
             d == [b EXCEPT !.inflight = b.inflight \cup {<<l, "session">>}]
  <2>1. Steady(c, n)
    BY <1>4
  <2>2. BeginSession(c, l) =
          CASE c.host.spectating -> n
            [] ~c.host.spectating /\ ~c.credentials -> LoadError(n, l, "ERROR")
            [] OTHER -> [n EXCEPT !.state[l].outstanding = @ + 1,
                                  !.inflight = @ \cup {<<l, "session">>}]
    BY DEF BeginSession
  <2> HIDE DEF n
  <2>3. BeginSession(c, l) \in {n, LoadError(n, l, "ERROR"), d}
    BY <2>2
  <2> HIDE DEF m
  <2>4. Steady(c, b)
    BY <2>1, <1>2
  <2> HIDE DEF b
  <2>5. Steady(c, d)
    BY <2>4, <1>1
  <2>6. Steady(c, LoadError(n, l, "ERROR"))
    <3>1. Steady(n, LoadError(n, l, "ERROR"))
      BY <2>1, SteadyEnds DEF Steady
    <3> QED BY <2>1, <3>1, SteadyTwice
  <2> QED BY <2>1, <2>3, <2>5, <2>6
<1> QED BY <1>5, <1>6

\* Unloading and logging out leave no load and no game.
LEMMA SteadyUnloads ==
  ASSUME NEW c \in Shared
  PROVE  /\ Apt(c) /\ Steady(c, Detached(c)) /\ Detached(c).load = NoLoad
         /\ Steady(c, UnloadGame(c)) /\ Steady(c, LogOutOf(c))
<1>1. ASSUME NEW b \in Shared PROVE Apt(b)
  BY <1>1 DEF Apt, Shared, LoadState
<1>2. ASSUME NEW b \in Shared, NEW d \in Shared, Told(b, d),
             d.load = NoLoad, d.game \in {b.game, NoLoad}
      PROVE  Steady(b, d)
  <2>1. ASSUME NEW q \in Loads PROVE d.state[q].result = b.state[q].result
    <3>1. b.state[q] \in LoadState
      BY DEF Shared
    <3> QED BY <1>2, <3>1 DEF Told, LoadState
  <2> QED BY <1>1, <1>2, <2>1 DEF Steady
<1>3. Steady(c, Detached(c)) /\ Detached(c).load = NoLoad
  BY <1>2, DetachedFacts DEF IsDetached
<1>4. ASSUME NEW b \in Shared PROVE Steady(b, UnloadGame(b))
  BY <1>2, <1>4, UnloadedFacts DEF IsUnloaded
<1>5. Steady(c, LogOutOf(c))
  <2> DEFINE b == [c EXCEPT !.user = "NONE", !.credentials = FALSE]
             n == UnloadGame(b)
  <2>1. LogOutOf(c) = IF Awaiting(c) THEN LoadError(n, c.load, "ABORTED") ELSE n
    BY DEF LogOutOf
  <2>2. b \in Shared /\ b.load = c.load /\ b.game = c.game /\ b.state = c.state
    BY DEF Shared
  <2> HIDE DEF b
  <2>3. Steady(c, b)
    BY <2>2, <1>1 DEF Steady
  <2>4. Steady(b, n) /\ Apt(n)
    BY <2>2, <1>4 DEF Steady
  <2> HIDE DEF n
  <2>5. Awaiting(c) => Steady(n, LoadError(n, c.load, "ABORTED"))
    <3>1. Awaiting(c) => c.load \in Loads
      BY DEF Awaiting, Shared
    <3> QED BY <2>4, <3>1, SteadyEnds
  <2> QED BY <2>1, <2>3, <2>4, <2>5, SteadyTwice
<1> QED BY <1>1, <1>3, <1>4, <1>5

\* What LatestWins says of a step, with handlers on the host thread.
Wins ==
  /\ client'.game # client.game /\ client'.game # NoLoad => client'.game = newest
  /\ \A l \in Loads : client'.state[l].result = "OK" /\ client.state[l].result # "OK" =>
       client'.game = l /\ client'.load # l /\ newest' = l

\* A steady step puts nothing in the place of the game, and no load succeeds.
LEMMA SteadyWins ==
  ASSUME Steady(client, client')
  PROVE  Wins
<1> QED BY DEF Steady, Wins

\* A step of a thread keeps the invariant, if what it puts in place is begun last.
LEMMA ThreadLatest ==
  ASSUME Types, Latest, NEW t \in Threads, NEW to, NEW with, Steps(t, to, with),
         client'.load \in {newest, NoLoad},
         to \in {"attaching", "attached", "concluding"} => LoadOf(t) = newest
  PROVE  Latest'
<1>1. /\ pc'[t] = to /\ \A u \in Threads : u # t => pc'[u] = pc[u]
      /\ hostLoad' = hostLoad /\ newest' = newest
  BY DEF Types, Steps, Goes
<1>2. \A u \in Threads : LoadOf(u)' = LoadOf(u)
  BY <1>1 DEF LoadOf
<1> QED BY <1>1, <1>2 DEF Latest

\* A steady step of a thread that does not go to where it counts.
LEMMA SteadyThread ==
  ASSUME Types, Latest, Steady(client, client'),
         NEW t \in Threads, NEW to, NEW with, Steps(t, to, with),
         to \notin {"attaching", "attached", "concluding"}
  PROVE  Latest' /\ Wins
<1>1. client'.load \in {newest, NoLoad}
  BY DEF Steady, Latest
<1> QED BY <1>1, ThreadLatest, SteadyWins

\* A thread where only that of the current load can be works on the load begun last.
LEMMA NewestFacts ==
  ASSUME CInv, Sequential, Safe, Latest, NEW t \in Threads, NEW from \in OfCurrent, At(t, from)
  PROVE  /\ LoadOf(t) \in Loads /\ LoadOf(t) = newest /\ client.load = newest
<1>1. from # "out"
  BY DEF OfCurrent
<1>2. PICK k \in Loads : Ready(t, k, from)
  BY <1>1, ReadyFacts
<1>3. Fetch(k) = from \/ Session(k) = from \/ HostOn(k) = from
  BY <1>2 DEF Ready, Where
<1>4. client.load = k
  BY <1>2, <1>3 DEF Ready, LiveLoad, LiveAt, Any
<1> QED BY <1>2, <1>4, LoadAssumption DEF Ready, Latest

\* Every step of a thread but the three that follow: what it puts in place, if anything, is
\* the load begun last.
LEMMA StepLatest ==
  ASSUME CInv, Sequential, Safe, Latest, NEW t \in Threads,
         \/ Aborting(t) \/ Leaving(t) \/ Ending(t) \/ Failing(t) \/ Storing(t)
         \/ Starting(t) \/ Processing(t) \/ Holding(t)
         \/ Identifying(t) \/ HostNamesGame(t) \/ Activating(t)
  PROVE  Latest' /\ Wins
<1> DEFINE l == LoadOf(t)
<1>1. Types /\ client \in Shared /\ Apt(client)
  BY SteadyUnloads DEF CInv, Types
<1>2. l \in Loads
  <2>1. pc[t] # "out"
    BY DEF Aborting, Leaving, Ending, Failing, Storing, Starting, Processing, Holding,
           Identifying, HostNamesGame, Activating, At
  <2> QED BY <2>1, <1>1, WorkingFacts
<1>u. client.user \in {"NONE", "LOGIN_REQUESTED", "LOGGED_IN"}
  BY <1>1 DEF Shared
<1>3. ASSUME NEW s, "result" \in DOMAIN s, s.result = client.state[l].result
      PROVE  Steady(client, [client EXCEPT !.state = [client.state EXCEPT ![l] = s]])
  BY <1>1, <1>2, <1>3, SteadyPut
<1>4. "result" \in DOMAIN client.state[l]
  BY <1>1, <1>2 DEF Apt
<1> HIDE DEF l
<1>5. ASSUME NEW c, Apt(c), NEW queued PROVE Steady(c, [c EXCEPT !.queued = queued])
  <2> DEFINE d == [c EXCEPT !.queued = queued]
  <2>1. DOMAIN d = DOMAIN c /\ d.load = c.load /\ d.game = c.game /\ d.state = c.state
    BY <1>5 DEF Apt
  <2> HIDE DEF d
  <2>2. Steady(c, d)
    BY <1>5, <2>1, SteadyAlike
  <2> QED BY <2>2 DEF d
<1>6. CASE Aborting(t)
  <2> DEFINE s == [client.state[l] EXCEPT !.callback = FALSE]
             c == [client EXCEPT !.state = [client.state EXCEPT ![l] = s]]
  <2>1. client' = LoadError(c, l, "ABORTED") /\ Steps(t, "leaving", "none")
    BY <1>6 DEF Aborting, l
  <2>2. "result" \in DOMAIN s /\ s.result = client.state[l].result
    BY <1>4
  <2> HIDE DEF s
  <2>3. Steady(client, c)
    BY <1>3, <2>2
  <2> HIDE DEF c
  <2>4. Steady(c, client')
    BY <1>2, <2>1, <2>3, SteadyEnds DEF Steady
  <2>5. Steady(client, client')
    BY <2>3, <2>4, SteadyTwice
  <2> QED BY <1>1, <2>1, <2>5, SteadyThread
<1>7. CASE Leaving(t)
  <2>1. client' = EndLoadState(client, l) /\ Steps(t, "out", "none")
    BY <1>7 DEF Leaving, Returns, l
  <2>2. Steady(client, client')
    <3>1. "ERROR" # "OK"
      OBVIOUS
    <3> QED BY <1>1, <1>2, <2>1, <3>1, SteadyEnds
  <2> QED BY <1>1, <2>1, <2>2, SteadyThread
<1>8. CASE Ending(t)
  <2>1. client' = EndLoadState(client, l)
    BY <1>8 DEF Ending, l
  <2>2. \E to \in {"failing", "out", "resolving", "starting", "activating", "storing"} :
          \E with : Steps(t, to, with)
    <3> DEFINE tos == {"failing", "out", "resolving", "starting", "activating", "storing"}
               remaining == Remaining(client, LoadOf(t))
    <3>1. CASE local[t] = "error" /\ Steps(t, "failing", "none")
      BY <3>1
    <3>2. CASE Steps(t, "out", "none")
      BY <3>2
    <3>3. CASE Steps(t, "resolving", "none")
      BY <3>3
    <3>4. CASE Steps(t, "starting", local[t])
      BY <3>4
    <3>5. CASE Steps(t, "activating", "ok")
      BY <3>5
    <3>6. CASE Steps(t, "storing", "last") \/ Steps(t, "storing", "none")
      BY <3>6
    <3>7. \/ local[t] = "error" \/ (local[t] # "error" /\ remaining = -1)
          \/ (local[t] = "unknown" /\ remaining # -1)
          \/ (local[t] \in {"sets", "empty"} /\ remaining # -1)
          \/ (local[t] = "ok" /\ remaining = 0) \/ (local[t] = "ok" /\ remaining > 0)
      <4>1. pc[t] = "ended" /\ MayBe(t, "ended", local[t])
        BY <1>8, <1>1 DEF Ending, At, Types
      <4>2. local[t] \in {"ok", "error", "sets", "empty", "unknown"}
        BY <4>1, ThreadFacts DEF MayBe
      <4>3. remaining \in Nat \cup {-1}
        <5>1. client.state[l].outstanding \in 0 .. 2
          BY <1>1, <1>2 DEF Shared, LoadState
        <5>2. Less(client.state[l].outstanding) \in Nat
          BY <5>1 DEF Less
        <5> QED BY <1>1, <1>2, <5>2, RemainingFacts DEF l
      <4> HIDE DEF remaining
      <4> QED BY <4>2, <4>3
    <3> HIDE DEF tos
    <3> QED BY <1>8, <3>1, <3>2, <3>3, <3>4, <3>5, <3>6, <3>7 DEF Ending, Returns
  <2>3. Steady(client, client')
    <3>1. "ERROR" # "OK"
      OBVIOUS
    <3> QED BY <1>1, <1>2, <2>1, <3>1, SteadyEnds
  <2> QED BY <1>1, <2>2, <2>3, SteadyThread
<1>9. CASE Failing(t)
  <2>1. client' = LoadError(client, l, "ERROR") /\ Steps(t, "out", "none")
    BY <1>9 DEF Failing, Returns, l
  <2>2. Steady(client, client')
    BY <1>1, <1>2, <2>1, SteadyEnds
  <2> QED BY <1>1, <2>1, <2>2, SteadyThread
<1>10. CASE Storing(t)
  <2> DEFINE s == [client.state[l] EXCEPT !.session = TRUE]
             c == [client EXCEPT !.state = [client.state EXCEPT ![l] = s]]
  <2>1. /\ \E queued : client' = [c EXCEPT !.queued = queued]
        /\ Steps(t, "out", "none")
    BY <1>10 DEF Storing, Returns, l
  <2>2. "result" \in DOMAIN s /\ s.result = client.state[l].result
    BY <1>4
  <2> HIDE DEF s
  <2>3. Steady(client, c)
    BY <1>3, <2>2
  <2> HIDE DEF c
  <2>4. Steady(c, client')
    BY <1>5, <2>1, <2>3 DEF Steady
  <2>5. Steady(client, client')
    BY <2>3, <2>4, SteadyTwice
  <2> QED BY <1>1, <2>1, <2>5, SteadyThread
<1>11. CASE Starting(t)
  <2>1. client' = BeginSession(client, l) /\ Steps(t, "processing", local[t])
    BY <1>11 DEF Starting, l
  <2>2. Steady(client, client')
    BY <1>1, <1>2, <1>u, <2>1, SteadyAsks
  <2> QED BY <1>1, <2>1, <2>2, SteadyThread
<1>12. CASE Processing(t)
  <2>1. /\ client' \in {LoadError(client, l, "ERROR"), client}
        /\ Steps(t, "holding", "none")
    BY <1>12 DEF Processing, l
  <2>2. Steady(client, client')
    BY <1>1, <1>2, <2>1, SteadyEnds, SteadyFacts
  <2> QED BY <1>1, <2>1, <2>2, SteadyThread
<1>13. CASE Holding(t)
  <2> DEFINE c == EndLoadState(client, l)
  <2>1. \E to \in {"activating", "out"} : \E with : Steps(t, to, with)
    BY <1>13 DEF Holding, Returns
  <2>2. client' = c \/ \E queued : client' = [c EXCEPT !.queued = queued]
    BY <1>13 DEF Holding, l
  <2>3. Steady(client, c)
    <3>1. "ERROR" # "OK"
      OBVIOUS
    <3> QED BY <1>1, <1>2, <3>1, SteadyEnds
  <2> HIDE DEF c
  <2>4. Steady(client, client')
    <3>1. CASE client' = c
      BY <2>3, <3>1
    <3>2. CASE \E queued : client' = [c EXCEPT !.queued = queued]
      <4>1. Steady(c, client')
        BY <1>5, <2>3, <3>2 DEF Steady
      <4> QED BY <2>3, <4>1, SteadyTwice
    <3> QED BY <2>2, <3>1, <3>2
  <2> QED BY <1>1, <2>1, <2>4, SteadyThread
<1>14. CASE Identifying(t)
  <2>1. \/ client' = BeginFetch(client, l) /\ Steps(t, "out", "none")
        \/ client' = client /\ Steps(t, "resolving", "none")
    BY <1>14 DEF Identifying, Returns, l
  <2>2. Steady(client, client')
    BY <1>1, <1>2, <1>u, <2>1, SteadyAsks, SteadyFacts
  <2> QED BY <1>1, <2>1, <2>2, SteadyThread
<1>15. CASE HostNamesGame(t)
  <2> DEFINE s == [client.state[l] EXCEPT !.mapping = "is_unknown"]
             c == [client EXCEPT !.state = [client.state EXCEPT ![l] = s]]
  <2>1. client' = BeginFetch(c, l) /\ Steps(t, "out", "none")
    BY <1>15 DEF HostNamesGame, Returns, l
  <2>2. "result" \in DOMAIN s /\ s.result = client.state[l].result
    BY <1>4
  <2> HIDE DEF s
  <2>3. Steady(client, c)
    BY <1>3, <2>2
  <2>4. c.user = client.user
    BY <1>1 DEF Shared
  <2> HIDE DEF c
  <2>5. Steady(c, client')
    BY <1>2, <1>u, <2>1, <2>3, <2>4, SteadyAsks DEF Steady
  <2>6. Steady(client, client')
    BY <2>3, <2>5, SteadyTwice
  <2> QED BY <1>1, <2>1, <2>6, SteadyThread
<1>16. CASE Activating(t)
  <2> DEFINE p == IF client.load = l THEN "DONE" ELSE "ABORTED"
             s == [client.state[l] EXCEPT !.progress = p]
             c == [client EXCEPT !.state = [client.state EXCEPT ![l] = s]]
  <2>1. /\ ActivateBegin(client, l) = c
        /\ client' \in {Refused(c, l, "ABORTED"), Refused(c, l, "ERROR"), c}
        /\ \E to \in {"out", "applying"} : \E with : Steps(t, to, with)
    <3>1. ActivateBegin(client, l) = c
      BY DEF ActivateBegin
    <3> HIDE DEF c
    <3> QED BY <3>1, <1>16 DEF Activating, Returns, l
  <2>2. "result" \in DOMAIN s /\ s.result = client.state[l].result
    BY <1>4
  <2> HIDE DEF s
  <2>3. Steady(client, c)
    BY <1>3, <2>2
  <2> HIDE DEF c
  <2>4. Steady(c, client')
    <3>1. Apt(c)
      BY <2>3 DEF Steady
    <3>2. "ABORTED" # "OK" /\ "ERROR" # "OK"
      OBVIOUS
    <3>3. Steady(c, Refused(c, l, "ABORTED")) /\ Steady(c, Refused(c, l, "ERROR"))
      BY <1>2, <3>1, <3>2, SteadyEnds
    <3>4. Steady(c, c)
      BY <3>1 DEF Steady
    <3> QED BY <2>1, <3>3, <3>4
  <2>5. Steady(client, client')
    BY <2>3, <2>4, SteadyTwice
  <2> QED BY <1>1, <2>1, <2>5, SteadyThread
<1> QED BY <1>6, <1>7, <1>8, <1>9, <1>10, <1>11, <1>12, <1>13, <1>14, <1>15, <1>16

\* A further hash is tried for the load begun last.
LEMMA NextHashLatest ==
  ASSUME CInv, Sequential, Safe, Latest, NEW t \in Threads, NextHash(t)
  PROVE  Latest' /\ Wins
<1> DEFINE l == LoadOf(t)
           s == [client.state[l] EXCEPT !.hashes = @ - 1]
<1>1. Types /\ client \in Shared /\ Apt(client)
  BY SteadyUnloads DEF CInv, Types
<1>2. LoadOf(t) \in Loads /\ LoadOf(t) = newest
  BY NewestFacts DEF NextHash, OfCurrent
<1>3. /\ client' = [client EXCEPT !.state = [client.state EXCEPT ![l] = s]]
      /\ Steps(t, "attaching", "none")
  BY DEF NextHash
<1>4. "result" \in DOMAIN s /\ s.result = client.state[l].result
  BY <1>1, <1>2 DEF Apt
<1> HIDE DEF s
<1>5. Steady(client, client')
  BY <1>1, <1>2, <1>3, <1>4, SteadyPut
<1>6. client'.load \in {newest, NoLoad}
  BY <1>5 DEF Steady, Latest
<1> QED BY <1>1, <1>2, <1>3, <1>5, <1>6, ThreadLatest, SteadyWins

\* The load begun last takes the place of what was loaded.
LEMMA AttachingLatest ==
  ASSUME CInv, Latest, NEW t \in Threads, Attaching(t)
  PROVE  Latest' /\ Wins
<1> DEFINE l == LoadOf(t)
           c == UnloadGame(client)
<1>1. Types /\ client \in Shared /\ Apt(client) /\ Steady(client, c)
  BY SteadyUnloads DEF CInv, Types
<1>2. LoadOf(t) = newest /\ l \in Loads
  <2>1. pc[t] = "attaching"
    BY DEF Attaching, At
  <2> QED BY <2>1, <1>1, WorkingFacts DEF Latest
<1>3. \/ /\ client' = [c EXCEPT !.state[l].owner = TRUE, !.games[l] = "live"]
         /\ Steps(t, "attached", "none")
      \/ client' = client /\ Steps(t, "identifying", "none")
      \/ client' = Refused(client, l, "ABORTED") /\ Steps(t, "out", "none")
  BY DEF Attaching, Returns
<1>4. Steady(client, client')
  <2>1. CASE client' = [c EXCEPT !.state[l].owner = TRUE, !.games[l] = "live"]
    <3> DEFINE s == [c.state[l] EXCEPT !.owner = TRUE]
               b == [c EXCEPT !.state = [c.state EXCEPT ![l] = s]]
               games == [b.games EXCEPT ![l] = "live"]
    <3>1. client' = [b EXCEPT !.games = games]
      BY <2>1
    <3> HIDE DEF c
    <3>2. Apt(c) /\ "result" \in DOMAIN s /\ s.result = c.state[l].result
      BY <1>1, <1>2 DEF Steady, Apt
    <3> HIDE DEF s
    <3>3. Steady(c, b) /\ Apt(b)
      BY <1>2, <3>2, SteadyPut DEF Steady
    <3> HIDE DEF b, games
    <3>4. Steady(b, client')
      <4>1. DOMAIN client' = DOMAIN b /\ client'.load = b.load /\ client'.game = b.game
            /\ client'.state = b.state
        BY <3>1, <3>3 DEF Apt
      <4> QED BY <3>3, <4>1, SteadyAlike
    <3> QED BY <1>1, <3>3, <3>4, SteadyTwice
  <2>2. CASE client' = client
    BY <1>1, <2>2 DEF Steady
  <2>3. CASE client' = Refused(client, l, "ABORTED")
    BY <1>1, <1>2, <2>3, SteadyEnds
  <2> HIDE DEF c, l
  <2> QED BY <1>3, <2>1, <2>2, <2>3
<1>5. client'.load \in {newest, NoLoad}
  BY <1>4 DEF Steady, Latest
<1> HIDE DEF c, l
<1>6. \E to, with : Steps(t, to, with)
  BY <1>3
<1> QED BY <1>1, <1>2, <1>4, <1>5, <1>6, ThreadLatest, SteadyWins

\* It becomes the load in progress.
LEMMA AttachedLatest ==
  ASSUME CInv, Latest, NEW t \in Threads, Attached(t)
  PROVE  Latest' /\ Wins
<1>1. Types /\ client \in Shared
  BY DEF CInv, Types
<1>2. pc[t] = "attached" /\ Steps(t, "identifying", "none")
  BY DEF Attached, At
<1>3. LoadOf(t) = newest
  BY <1>2 DEF Latest
<1>4. client'.load = newest /\ client'.game = client.game /\ client'.state = client.state
  BY <1>1, <1>3 DEF Attached, Shared
<1> QED BY <1>1, <1>2, <1>4, ThreadLatest DEF Wins

\* A game nobody knows takes the place of the game, if it was loaded last.
LEMMA UnknownGameLatest ==
  ASSUME CInv, Sequential, Safe, Latest, NEW t \in Threads, UnknownGame(t)
  PROVE  Latest' /\ Wins
<1> DEFINE l == LoadOf(t)
           s == [client.state[l] EXCEPT !.owner = FALSE]
           b == [client EXCEPT !.game = l]
           c == [b EXCEPT !.state = [b.state EXCEPT ![l] = s]]
<1>1. Types /\ client \in Shared /\ Apt(client)
  BY SteadyUnloads DEF CInv, Types
<1>2. LoadOf(t) \in Loads /\ LoadOf(t) = newest /\ l = newest
  BY NewestFacts DEF UnknownGame, OfCurrent
<1>3. b.state = client.state /\ b.load = client.load /\ b.game = newest /\ Apt(b)
  BY <1>1, <1>2 DEF Apt
<1>4. client' = LoadError(c, l, "ERROR") /\ Steps(t, "out", "none")
  <2>1. [client EXCEPT !.game = l, !.state[l].owner = FALSE] = c
    BY <1>3
  <2> HIDE DEF c
  <2> QED BY <2>1 DEF UnknownGame, Returns
<1> HIDE DEF b
<1>5. "result" \in DOMAIN s /\ s.result = b.state[l].result
  BY <1>1, <1>2, <1>3 DEF Apt
<1> HIDE DEF s
<1>6. Steady(b, c)
  BY <1>2, <1>3, <1>5, SteadyPut
<1> HIDE DEF c
<1>7. Steady(b, client')
  <2>1. Steady(c, client')
    BY <1>2, <1>4, <1>6, SteadyEnds DEF Steady
  <2> QED BY <1>6, <2>1, SteadyTwice
<1>8. client'.load \in {newest, NoLoad} /\ Wins
  BY <1>3, <1>7 DEF Steady, Latest, Wins
<1> QED BY <1>1, <1>4, <1>8, ThreadLatest

\* The game of the load begun last becomes the game.
LEMMA MakingActiveLatest ==
  ASSUME CInv, Sequential, Safe, Latest, NEW t \in Threads, MakingActive(t)
  PROVE  Latest' /\ Wins
<1>1. Types /\ client \in Shared
  BY DEF CInv, Types
<1>2. LoadOf(t) = newest /\ client.load = newest
  BY NewestFacts DEF MakingActive, OfCurrent
<1>3. client' = [client EXCEPT !.game = newest] /\ Steps(t, "validating", "none")
  BY <1>2 DEF MakingActive
<1>4. client'.load = client.load /\ client'.game = newest /\ client'.state = client.state
  BY <1>1, <1>3 DEF Shared
<1> QED BY <1>1, <1>2, <1>3, <1>4, ThreadLatest DEF Wins

\* Its load is over.
LEMMA ValidatingLatest ==
  ASSUME CInv, Sequential, Safe, Latest, NEW t \in Threads, Validating(t)
  PROVE  Latest' /\ Wins
<1>1. Types /\ client \in Shared
  BY DEF CInv, Types
<1>2. LoadOf(t) = newest /\ client.load = newest
  BY NewestFacts DEF Validating, OfCurrent
<1>3. client' = [client EXCEPT !.load = NoLoad] /\ Steps(t, "concluding", "none")
  BY <1>2 DEF Validating
<1>4. client'.load = NoLoad /\ client'.game = client.game /\ client'.state = client.state
  BY <1>1, <1>3 DEF Shared
<1> QED BY <1>1, <1>2, <1>3, <1>4, ThreadLatest DEF Wins

\* Success is reported for the game that is played, of the load begun last.
LEMMA ConcludingLatest ==
  ASSUME CInv, Sequential, Safe, Latest, NEW t \in Threads, Concluding(t)
  PROVE  Latest' /\ Wins
<1>1. Types /\ client \in Shared /\ pc[t] = "concluding" /\ Steps(t, "out", "none")
  BY DEF CInv, Types, Concluding, At, Returns
<1>2. PICK l \in Loads : Ready(t, l, "concluding")
  BY ReadyFacts DEF Concluding
<1>3. l = LoadOf(t) /\ l = newest
  BY <1>1, <1>2 DEF Ready, Latest
<1>4. Fetch(l) = "concluding" \/ Session(l) = "concluding" \/ HostOn(l) = "concluding"
  BY <1>2 DEF Ready, Where
<1>5. client.game = l /\ client.load # l /\ client.state[l].progress = "DONE"
  BY <1>2, <1>4 DEF Ready, LiveLoad, LiveAt, Any
<1> DEFINE n == Called(client, l, "OK")
           s == [n.state[l] EXCEPT !.owner = FALSE]
           c == [n EXCEPT !.state = [n.state EXCEPT ![l] = s]]
<1>6. client' = FreeLoadState(c, l)
  <2>1. [n EXCEPT !.state[l].owner = FALSE] = c
    OBVIOUS
  <2> HIDE DEF c
  <2> QED BY <1>3, <1>5, <2>1 DEF Concluding
<1>7. IsCalled(l, client, n)
  BY <1>1, CalledFacts
<1> HIDE DEF n
<1>8. n \in Shared /\ n.state[l] \in LoadState
  BY <1>7 DEF IsCalled, Shared
<1>9. s \in LoadState
  BY <1>8 DEF LoadState
<1> HIDE DEF s
<1>10. c \in Shared /\ c.load = n.load /\ c.game = n.game /\ OthersKept(l, n, c)
  BY <1>8, <1>9, PutFacts
<1> HIDE DEF c
<1>11. IsFreed(l, c, client')
  BY <1>6, <1>10, FreeFacts
<1>12. /\ client'.load = client.load /\ client'.game = client.game
       /\ \A q \in Loads \ {l} : client'.state[q] = client.state[q]
  BY <1>7, <1>10, <1>11 DEF IsCalled, IsFreed, OthersKept
<1>13. newest' = newest
  BY <1>1 DEF Steps
<1>14. Wins
  BY <1>3, <1>5, <1>12, <1>13 DEF Wins
<1>15. client'.load \in {newest, NoLoad}
  BY <1>12 DEF Latest
<1> QED BY <1>1, <1>14, <1>15, ThreadLatest

\* While nothing runs, the host may do what is steady.
LEMMA IdleLatest ==
  ASSUME Idle, Latest, Steady(client, client'), UNCHANGED <<threads, newest>>
  PROVE  Latest' /\ Wins
<1>1. pc' = pc /\ newest' = newest
  BY DEF threads
<1>2. \A t \in Threads : pc'[t] = "out"
  BY <1>1 DEF Idle
<1> QED BY <1>1, <1>2, SteadyWins DEF Latest, Steady

\* The host begins a load, which is then the one begun last.
LEMMA BeginLoadLatest ==
  ASSUME CInv, Sequential, Latest, NEW l \in Loads, BeginLoad(l)
  PROVE  Latest' /\ Wins
<1>1. Types /\ client \in Shared /\ Apt(client) /\ Idle
  BY SteadyUnloads, IdleFacts DEF CInv, Types, BeginLoad
<1> DEFINE b == Detached(client)
           c == IF client.load = NoLoad THEN client ELSE Called(b, client.load, "ABORTED")
<1>2. PICK n \in 0 .. client.host.hashes :
        client' = [c EXCEPT !.state[l] = NewLoadState(n)]
  BY DEF BeginLoad
<1>3. Steady(client, b) /\ b.load = NoLoad
  BY <1>1, SteadyUnloads
<1> HIDE DEF b
<1>4. client.load # NoLoad => Steady(b, c)
  <2>1. client.load # NoLoad => client.load \in Loads
    BY <1>1 DEF Shared
  <2> QED BY <1>3, <2>1, SteadyCalled DEF Steady
<1>5. Steady(client, c) /\ c.load = NoLoad
  <2>1. CASE client.load = NoLoad
    BY <1>1, <2>1 DEF Steady
  <2>2. CASE client.load # NoLoad
    <3>1. Steady(b, c)
      BY <2>2, <1>4
    <3> HIDE DEF c
    <3>2. Steady(client, c)
      BY <1>3, <3>1, SteadyTwice
    <3>3. c.load = NoLoad
      BY <1>3, <3>1 DEF Steady
    <3> QED BY <3>2, <3>3
  <2> QED BY <2>1, <2>2
<1> HIDE DEF c
<1>6. Steady(c, client') /\ client'.load = NoLoad
  <2> DEFINE s == NewLoadState(n)
  <2>1. "result" \in DOMAIN s /\ s.result = "none"
    BY DEF NewLoadState
  <2> HIDE DEF s
  <2>2. client' = [c EXCEPT !.state = [c.state EXCEPT ![l] = s]]
    BY <1>2 DEF s
  <2>3. Apt(c)
    BY <1>5 DEF Steady
  <2>4. Steady(c, client')
    BY <2>1, <2>2, <2>3, SteadyPut
  <2> QED BY <2>4, <1>5 DEF Steady
<1>7. Wins
  BY <1>5, <1>6, SteadyTwice, SteadyWins
<1>8. hostLoad' = l /\ newest' = l /\ \A t \in Threads : t # Host => pc'[t] = "out"
  BY <1>1 DEF BeginLoad, Goes, Types, Idle
<1>9. LoadOf(Host)' = l
  BY <1>8 DEF LoadOf
<1> QED BY <1>6, <1>7, <1>8, <1>9 DEF Latest

\* The host activates a game that is queued.
LEMMA DispatchActivateLatest ==
  ASSUME CInv, Sequential, Latest, NEW l \in Loads, DispatchActivate(l)
  PROVE  Latest' /\ Wins
<1>1. Types /\ client \in Shared /\ Apt(client) /\ Idle
  BY SteadyUnloads, IdleFacts DEF CInv, Types, DispatchActivate
<1>2. /\ client'.load = client.load /\ client'.game = client.game
      /\ client'.state = client.state /\ newest' = newest
  BY <1>1 DEF DispatchActivate, Shared
<1>3. \A t \in Threads : pc'[t] \in {"out", "activating"}
  BY <1>1 DEF DispatchActivate, Goes, Types, Idle
<1> QED BY <1>2, <1>3 DEF Latest, Wins

\* The other calls of the host, and the answer to a login.
LEMMA HostLatest ==
  ASSUME CInv, Sequential, Latest,
         \/ Unload \/ BeginLogin \/ LogOut \/ AbortLogin
         \/ \E l \in Loads : AbortLoad(l)
         \/ LoginAnswered
  PROVE  Latest' /\ Wins
<1>1. Types /\ client \in Shared /\ Apt(client)
  BY SteadyUnloads DEF CInv, Types
<1>2. Idle /\ UNCHANGED <<threads, newest>>
  BY IdleFacts
     DEF Unload, BeginLogin, LogOut, AbortLogin, AbortLoad, LoginAnswered, Sequential
<1>3. CASE Unload \/ LogOut
  <2>1. Steady(client, client')
    BY <1>1, <1>3, SteadyUnloads DEF Unload, LogOut
  <2> QED BY <2>1, <1>2, IdleLatest
<1>4. CASE BeginLogin \/ AbortLogin
  <2>1. /\ DOMAIN client' = DOMAIN client /\ client'.load = client.load
        /\ client'.game = client.game /\ client'.state = client.state
    BY <1>1, <1>4 DEF BeginLogin, AbortLogin, Shared
  <2>2. Steady(client, client')
    BY <2>1, <1>1, SteadyAlike
  <2> QED BY <2>2, <1>2, IdleLatest
<1>5. CASE \E l \in Loads : AbortLoad(l)
  <2>1. PICK l \in Loads : AbortLoad(l)
    BY <1>5
  <2> DEFINE s == [client.state[l] EXCEPT !.aborted = TRUE]
  <2>2. client' = [client EXCEPT !.state = [client.state EXCEPT ![l] = s]]
    BY <2>1 DEF AbortLoad
  <2>3. "result" \in DOMAIN s /\ s.result = client.state[l].result
    BY <1>1 DEF Apt
  <2> HIDE DEF s
  <2>4. Steady(client, client')
    BY <1>1, <2>2, <2>3, SteadyPut
  <2> QED BY <2>4, <1>2, IdleLatest
<1>6. CASE LoginAnswered
  <2> DEFINE c == [client EXCEPT !.login = "none"]
             Resumed(n) == IF Awaiting(n) THEN BeginFetch(n, n.load) ELSE n
             in == [c EXCEPT !.user = "LOGGED_IN", !.credentials = TRUE]
             out == [c EXCEPT !.user = "NONE"]
             Same(d) == /\ d \in Shared /\ d.load = client.load /\ d.game = client.game
                        /\ d.state = client.state
  <2>1. client' \in {LogOutOf(c), c, Resumed(in), Resumed(out)}
    BY <1>6 DEF LoginAnswered
  <2>2. Same(c)
    BY <1>1 DEF Shared
  <2> HIDE DEF c
  <2>3. Same(in) /\ Same(out)
    BY <2>2 DEF Shared
  <2> HIDE DEF in, out
  <2>4. ASSUME NEW d, Same(d) PROVE Steady(client, d)
    <3>1. Apt(d)
      BY <2>4, SteadyUnloads
    <3> QED BY <2>4, <3>1 DEF Steady
  <2>5. Steady(client, LogOutOf(c))
    <3>1. Steady(c, LogOutOf(c))
      BY <2>2, SteadyUnloads
    <3> QED BY <2>2, <2>4, <3>1, SteadyTwice
  <2>6. ASSUME NEW d, Same(d) PROVE Steady(client, Resumed(d))
    <3>1. Awaiting(d) => d.load \in Loads
      BY <2>6 DEF Awaiting, Shared
    <3>2. d.user \in {"NONE", "LOGIN_REQUESTED", "LOGGED_IN"} /\ Apt(d)
      BY <2>6, SteadyUnloads DEF Shared
    <3>3. Awaiting(d) => Steady(d, BeginFetch(d, d.load))
      BY <3>1, <3>2, SteadyAsks
    <3> QED BY <2>4, <2>6, <3>3, SteadyTwice
  <2> HIDE DEF Resumed, Same
  <2>7. Steady(client, client')
    BY <2>1, <2>2, <2>3, <2>4, <2>5, <2>6
  <2> QED BY <2>7, <1>2, IdleLatest
<1> QED BY <1>3, <1>4, <1>5, <1>6

\* Every step keeps the invariant, and does what LatestWins says.
LEMMA NextLatest ==
  ASSUME SInv, Sequential, SetsAreSent, Latest, Next
  PROVE  Latest' /\ Wins
<1>1. CInv /\ Safe /\ Types
  BY DEF SInv, CInv
<1>2. ASSUME NEW t \in Threads, Step(t) PROVE Latest' /\ Wins
  <2>1. CASE \/ Aborting(t) \/ Leaving(t) \/ Ending(t) \/ Failing(t) \/ Storing(t)
             \/ Starting(t) \/ Processing(t) \/ Holding(t)
             \/ Identifying(t) \/ HostNamesGame(t) \/ Activating(t)
    BY <1>1, <2>1, StepLatest
  <2>2. CASE Attaching(t) \/ Attached(t) \/ NextHash(t) \/ UnknownGame(t)
    BY <1>1, <2>2, AttachingLatest, AttachedLatest, NextHashLatest, UnknownGameLatest
  <2>3. CASE MakingActive(t) \/ Validating(t) \/ Concluding(t)
    BY <1>1, <2>3, MakingActiveLatest, ValidatingLatest, ConcludingLatest
  <2> QED BY <1>2, <2>1, <2>2, <2>3 DEF Step
<1>3. ASSUME NEW t \in Requests, Answered(t) PROVE Latest' /\ Wins
  <2>1. t \in Threads /\ client \in Shared
    BY <1>1 DEF Threads, Types
  <2>2. \E to \in {"aborting", "ended"} : \E with : Steps(t, to, with)
    BY <1>3 DEF Answered
  <2>3. Steady(client, client')
    <3>1. Apt(client) /\ DOMAIN client' = DOMAIN client /\ client'.load = client.load
          /\ client'.game = client.game /\ client'.state = client.state
      BY <1>3, <2>1, SteadyUnloads DEF Answered, Shared
    <3> QED BY <3>1, SteadyAlike
  <2> QED BY <1>1, <2>1, <2>2, <2>3, SteadyThread
<1>4. ASSUME HostNext PROVE Latest' /\ Wins
  <2>1. ASSUME NEW l \in Loads, BeginLoad(l) \/ DispatchActivate(l) PROVE Latest' /\ Wins
    BY <1>1, <2>1, BeginLoadLatest, DispatchActivateLatest
  <2> QED BY <1>1, <1>4, <2>1, HostLatest DEF HostNext
<1>5. ASSUME LoginAnswered PROVE Latest' /\ Wins
  BY <1>1, <1>5, HostLatest
<1>6. ASSUME NEW t \in Threads, UseAfterFree(t) PROVE Latest' /\ Wins
  BY <1>1, <1>6, NoUseAfterFree
<1> QED BY <1>2, <1>3, <1>4, <1>5, <1>6 DEF Next

\* With handlers on the host thread, for any number of loads: an answer that comes late
\* puts no game in the place of a newer one, and success is reported for the game that
\* is played, of the load begun last.
THEOREM LatestWinsAlways == Spec /\ Sequential /\ SetsAreSent => LatestWins
<1> DEFINE Fits == Sequential /\ SetsAreSent
           Won == /\ client'.game # client.game /\ client'.game # NoLoad => client'.game = newest
                  /\ \A l \in Loads :
                       (/\ client'.state[l].result = "OK" /\ client.state[l].result # "OK"
                        /\ ~client.host.threaded) =>
                         client'.game = l /\ client'.load # l /\ newest' = l
<1>1. Init => Latest
  <2> SUFFICES ASSUME Init PROVE Latest
    OBVIOUS
  <2>1. client.load = NoLoad /\ \A t \in Threads : pc[t] = "out"
    BY DEF Init
  <2> QED BY <2>1 DEF Latest
<1>2. SInv /\ Fits /\ Latest /\ [Next]_vars => Latest' /\ [Won]_vars
  <2> SUFFICES ASSUME SInv, Fits, Latest, [Next]_vars PROVE Latest' /\ [Won]_vars
    OBVIOUS
  <2>1. CASE Next
    BY <2>1, NextLatest DEF Wins
  <2>2. CASE UNCHANGED vars
    <3>1. client' = client /\ pc' = pc /\ hostLoad' = hostLoad /\ newest' = newest
      BY <2>2 DEF vars, threads
    <3> QED BY <3>1, <2>2 DEF Latest, LoadOf
  <2> QED BY <2>1, <2>2
<1>3. SInv /\ Fits /\ [Next]_vars => Fits'
  BY HostStays DEF SInv, Sequential, SetsAreSent
<1>4. LatestWins <=> [][Won]_vars
  BY DEF LatestWins
<1> HIDE DEF Fits, Won
<1>5. Fits <=> Sequential /\ SetsAreSent
  BY DEF Fits
<1> QED BY <1>1, <1>2, <1>3, <1>4, <1>5, SafetyInvariant, PTL DEF Spec
=============================================================================
