------------------------- MODULE RcClientAsyncProofs -------------------------
(***************************************************************************)
(* For every set of calls, files and slots: each callback is called once   *)
(* or its call was aborted, the slots hold exactly the calls under way, and *)
(* nothing that is gone is used (CallbacksAccounted), by a patient host;   *)
(* and the media of a game follows the host (MediaFollowsHost).            *)
(***************************************************************************)
EXTENDS RcClientAsync, FiniteSetTheorems, WellFoundedInduction, TLAPS

\* A nonempty set of numbers has a smallest element: the first free slot.
LEMMA Smallest ==
  ASSUME NEW T \in SUBSET Nat, T # {}
  PROVE \E x \in T : \A y \in T : x <= y
<1>1. PICK x \in T : \A y \in T : ~(<<y, x>> \in OpToRel(<, Nat))
  BY NatLessThanWellFounded, WFMin
<1>2. ASSUME NEW y \in T PROVE x <= y
  <2>1. <<y, x>> \in Nat \X Nat /\ <<y, x>>[1] = y /\ <<y, x>>[2] = x
    OBVIOUS
  <2>2. ~(<<y, x>>[1] < <<y, x>>[2])
    BY <1>1, <2>1 DEF OpToRel
  <2> QED BY <2>1, <2>2
<1> QED BY <1>2

-----------------------------------------------------------------------------
(* The operations on a call.                                                *)

Call ==
  [stage : {"unused", "pending", "inflight", "done", "lost"},
   kind : {"none", "login", "progress", "library", "entries", "media"},
   aborted : {"no", "ABORTED", "DESTROYED"},
   given : BOOLEAN, game : 0 .. LoadBound, hash : Hashes, calls : Nat, late : BOOLEAN]

\* `new' differs from `old' in the call r only.
OnlyOf(r, old, new) ==
  /\ new \in [Requests -> Call]
  /\ \A q \in Requests \ {r} : new[q] = old[q]

\* What the host asked for does not change.
SameAsked(a, b) == a.kind = b.kind /\ a.aborted = b.aborted /\ a.game = b.game /\ a.hash = b.hash

IsCalledBack(r, old, new) ==
  /\ OnlyOf(r, old, new) /\ SameAsked(new[r], old[r])
  /\ new[r].stage = "done" /\ new[r].calls = old[r].calls + 1
  /\ new[r].late <=> old[r].aborted # "no"

IsStaged(r, old, new, stage) ==
  /\ OnlyOf(r, old, new) /\ SameAsked(new[r], old[r])
  /\ new[r].stage = stage /\ new[r].calls = old[r].calls /\ (new[r].late <=> old[r].late)

\* A callback changes its own call only, and counts itself.
LEMMA CalledBackFacts ==
  ASSUME NEW c \in [Requests -> Call], NEW r \in Requests
  PROVE  IsCalledBack(r, c, CalledBack(c, r))
<1> DEFINE late == c[r].aborted # "no"
           count == c[r].calls + 1
           n == [c[r] EXCEPT !.stage = "done", !.calls = count, !.late = late]
<1>1. CalledBack(c, r) = [c EXCEPT ![r] = n]
  BY DEF CalledBack
<1>2. late \in BOOLEAN
  OBVIOUS
<1>3. c[r] \in Call
  OBVIOUS
<1>4. count \in Nat
  BY <1>3 DEF Call
<1> HIDE DEF late, count
<1>5. n \in Call
  BY <1>2, <1>3, <1>4 DEF Call
<1>6. /\ n.stage = "done" /\ n.calls = count /\ n.late = late
      /\ SameAsked(n, c[r])
  BY <1>3 DEF Call, SameAsked
<1> HIDE DEF n
<1>7. [c EXCEPT ![r] = n] \in [Requests -> Call] /\ [c EXCEPT ![r] = n][r] = n
  BY <1>5
<1>8. \A q \in Requests \ {r} : [c EXCEPT ![r] = n][q] = c[q]
  OBVIOUS
<1> QED BY <1>1, <1>6, <1>7, <1>8 DEF IsCalledBack, OnlyOf, late, count

\* A call that is issued or ends without its callback changes its stage only.
LEMMA StagedFacts ==
  ASSUME NEW c \in [Requests -> Call], NEW r \in Requests
  PROVE  /\ NoRequest # r => IsStaged(r, c, Dropped(c, r), "lost")
         /\ IsStaged(r, c, Issued(c, r), "inflight")
<1>1. ASSUME NEW stage \in {"lost", "inflight"}
      PROVE  IsStaged(r, c, [c EXCEPT ![r].stage = stage], stage)
  <2> DEFINE n == [c[r] EXCEPT !.stage = stage]
  <2>1. [c EXCEPT ![r].stage = stage] = [c EXCEPT ![r] = n]
    OBVIOUS
  <2>2. c[r] \in Call
    OBVIOUS
  <2>3. /\ n \in Call /\ SameAsked(n, c[r])
        /\ n.stage = stage /\ n.calls = c[r].calls /\ n.late = c[r].late
    BY <2>2 DEF Call, SameAsked
  <2> HIDE DEF n
  <2>4. [c EXCEPT ![r] = n] \in [Requests -> Call] /\ [c EXCEPT ![r] = n][r] = n
    BY <2>3
  <2>5. \A q \in Requests \ {r} : [c EXCEPT ![r] = n][q] = c[q]
    OBVIOUS
  <2> QED BY <2>1, <2>3, <2>4, <2>5 DEF IsStaged, OnlyOf
<1> QED BY <1>1 DEF Dropped, Issued

\* Beginning a call says of what kind it is.
LEMMA KindFacts ==
  ASSUME NEW c \in [Requests -> Call], NEW r \in Requests,
         NEW kind \in {"login", "progress", "library", "entries", "media"}
  PROVE  /\ OnlyOf(r, c, [c EXCEPT ![r].kind = kind])
         /\ [c EXCEPT ![r].kind = kind][r] = [c[r] EXCEPT !.kind = kind]
<1> DEFINE n == [c[r] EXCEPT !.kind = kind]
<1>1. [c EXCEPT ![r].kind = kind] = [c EXCEPT ![r] = n]
  OBVIOUS
<1>2. c[r] \in Call
  OBVIOUS
<1>3. n \in Call
  BY <1>2 DEF Call
<1> HIDE DEF n
<1>4. [c EXCEPT ![r] = n] \in [Requests -> Call] /\ [c EXCEPT ![r] = n][r] = n
  BY <1>3
<1> QED BY <1>1, <1>4 DEF OnlyOf, n

Asked(c, r, of, hash) ==
  [c EXCEPT ![r].kind = "media", ![r].game = of, ![r].hash = hash]

IsAsked(r, old, new, of, hash) ==
  /\ OnlyOf(r, old, new)
  /\ new[r].kind = "media" /\ new[r].game = of /\ new[r].hash = hash
  /\ new[r].stage = old[r].stage /\ new[r].aborted = old[r].aborted
  /\ new[r].calls = old[r].calls /\ (new[r].late <=> old[r].late)

\* A change of media says of what game and to what it is.
LEMMA AskedFacts ==
  ASSUME NEW c \in [Requests -> Call], NEW r \in Requests,
         NEW of \in 0 .. LoadBound, NEW hash \in Hashes
  PROVE  IsAsked(r, c, Asked(c, r, of, hash), of, hash)
<1> DEFINE n == [c[r] EXCEPT !.kind = "media", !.game = of, !.hash = hash]
<1>1. Asked(c, r, of, hash) = [c EXCEPT ![r] = n]
  BY DEF Asked
<1>2. c[r] \in Call
  OBVIOUS
<1>3. /\ n \in Call
      /\ n.kind = "media" /\ n.game = of /\ n.hash = hash /\ n.stage = c[r].stage
      /\ n.aborted = c[r].aborted /\ n.calls = c[r].calls /\ n.late = c[r].late
  BY <1>2 DEF Call
<1> HIDE DEF n
<1>4. [c EXCEPT ![r] = n] \in [Requests -> Call] /\ [c EXCEPT ![r] = n][r] = n
  BY <1>3
<1>5. \A q \in Requests \ {r} : [c EXCEPT ![r] = n][q] = c[q]
  OBVIOUS
<1> QED BY <1>1, <1>3, <1>4, <1>5 DEF IsAsked, OnlyOf

-----------------------------------------------------------------------------
(* The slots.                                                               *)

UnderWay == {r \in Requests : requests[r].stage \in {"inflight", "pending"}}

\* The slots hold the calls under way, each once.
SlotsHold ==
  ~destroyed =>
    /\ \A s \in Slots : handles[s] \in InFlight \cup {NoRequest}
    /\ \A r \in InFlight : \E s \in Slots : handles[s] = r
    /\ \A s, t \in Slots : handles[s] = handles[t] /\ handles[s] # NoRequest => s = t

\* There are no more calls under way than slots.
SlotsEnough == Cardinality(UnderWay) <= SlotCount

\* rc_client_begin_async takes the first free slot.
LEMMA RecordedFacts ==
  ASSUME NEW r \in Requests, handles \in [Slots -> Requests \cup {NoRequest}],
         \E s \in Slots : handles[s] = NoRequest
  PROVE  \E m \in Slots : /\ handles[m] = NoRequest
                          /\ Recorded(handles, r) = [handles EXCEPT ![m] = r]
<1> DEFINE free == {s \in Slots : handles[s] = NoRequest}
           m == Min(free)
<1>1. free \in SUBSET Nat /\ free # {}
  BY AsyncAssumption DEF Slots
<1> HIDE DEF free
<1>2. \E x \in free : \A y \in free : x <= y
  BY <1>1, Smallest
<1>3. m \in free
  BY <1>2 DEF Min
<1>4. Recorded(handles, r) = [handles EXCEPT ![m] = r]
  BY DEF Recorded, free
<1> HIDE DEF m
<1>5. m \in Slots /\ handles[m] = NoRequest
  BY <1>3 DEF free
<1> QED BY <1>4, <1>5

\* Among fewer calls than slots, one slot is free: pigeons and holes.
LEMMA SlotFree ==
  ASSUME SlotsHold, ~destroyed, Cardinality(InFlight) < SlotCount,
         handles \in [Slots -> Requests \cup {NoRequest}]
  PROVE  \E s \in Slots : handles[s] = NoRequest
<1>1. SUFFICES ASSUME \A s \in Slots : handles[s] # NoRequest PROVE FALSE
  OBVIOUS
<1>2. /\ IsFiniteSet(InFlight) /\ IsFiniteSet(Slots)
      /\ Cardinality(Slots) = SlotCount
  <2>1. IsFiniteSet(InFlight)
    BY AsyncAssumption, FS_Subset DEF InFlight
  <2>2. IsFiniteSet(Slots) /\ Cardinality(Slots) = SlotCount
    BY AsyncAssumption, FS_Interval DEF Slots
  <2> QED BY <2>1, <2>2
<1>3. handles \in [Slots -> InFlight]
  BY <1>1 DEF SlotsHold
<1>4. Cardinality(Slots) > Cardinality(InFlight)
  BY <1>2, FS_CardinalityType, AsyncAssumption
<1>5. \E s, t \in Slots : s # t /\ handles[s] = handles[t]
  BY <1>2, <1>3, <1>4, FS_PigeonHole
<1> QED BY <1>1, <1>5 DEF SlotsHold

\* Less is under way after a step, or only r more.
LEMMA EnoughKept ==
  ASSUME SlotsEnough,
         \/ UnderWay' \subseteq UnderWay
         \/ \E r \in Requests : UnderWay' \subseteq UnderWay \cup {r} /\ MayIssue
  PROVE  SlotsEnough'
<1>0. IsFiniteSet(UnderWay) /\ Cardinality(UnderWay) \in Nat
  BY AsyncAssumption, FS_Subset, FS_CardinalityType DEF UnderWay
<1>1. CASE UnderWay' \subseteq UnderWay
  <2>1. IsFiniteSet(UnderWay') /\ Cardinality(UnderWay') <= Cardinality(UnderWay)
    BY <1>0, <1>1, FS_Subset
  <2>2. Cardinality(UnderWay') \in Nat
    BY <2>1, FS_CardinalityType
  <2> QED BY <1>0, <2>1, <2>2, AsyncAssumption DEF SlotsEnough
<1>2. CASE \E r \in Requests : UnderWay' \subseteq UnderWay \cup {r} /\ MayIssue
  <2> PICK r \in Requests : UnderWay' \subseteq UnderWay \cup {r} /\ MayIssue
    BY <1>2
  <2> DEFINE more == UnderWay \cup {r}
  <2>1. IsFiniteSet(more) /\ Cardinality(more) <= Cardinality(UnderWay) + 1
    <3>1. IsFiniteSet(more) /\
          Cardinality(more) = IF r \in UnderWay THEN Cardinality(UnderWay)
                              ELSE Cardinality(UnderWay) + 1
      BY <1>0, FS_AddElement
    <3> QED BY <3>1, <1>0
  <2>2. UnderWay' \subseteq more
    OBVIOUS
  <2> HIDE DEF more
  <2>3. IsFiniteSet(UnderWay') /\ Cardinality(UnderWay') <= Cardinality(more)
    BY <2>1, <2>2, FS_Subset
  <2>4. Cardinality(UnderWay) < SlotCount
    BY DEF MayIssue, UnderWay
  <2>5. Cardinality(UnderWay') \in Nat /\ Cardinality(more) \in Nat
    BY <2>1, <2>3, FS_CardinalityType
  <2> QED BY <1>0, <2>1, <2>3, <2>4, <2>5, AsyncAssumption DEF SlotsEnough
<1> QED BY <1>1, <1>2

\* A call that is issued while fewer are in flight than there are slots gets one.
LEMMA SlotsIssued ==
  ASSUME SlotsHold, ~destroyed, destroyed' = destroyed,
         Cardinality(InFlight) < SlotCount,
         handles \in [Slots -> Requests \cup {NoRequest}],
         NEW r \in Requests, r \notin InFlight, InFlight' = InFlight \cup {r},
         handles' = Recorded(handles, r)
  PROVE  SlotsHold' /\ handles' \in [Slots -> Requests \cup {NoRequest}]
<1>1. PICK m \in Slots : handles[m] = NoRequest /\ handles' = [handles EXCEPT ![m] = r]
  BY SlotFree, RecordedFacts
<1>2. r # NoRequest
  BY AsyncAssumption
<1>3. \A s \in Slots : handles'[s] = IF s = m THEN r ELSE handles[s]
  BY <1>1
<1>4. \A s \in Slots : handles[s] # r
  BY <1>2 DEF SlotsHold
<1>5. /\ \A s \in Slots : handles[s] \in InFlight \cup {NoRequest}
      /\ \A q \in InFlight : \E s \in Slots : handles[s] = q
      /\ \A s, t \in Slots : handles[s] = handles[t] /\ handles[s] # NoRequest => s = t
  BY DEF SlotsHold
<1>6. NoRequest \notin InFlight
  BY AsyncAssumption DEF InFlight
<1>7. /\ \A s \in Slots : handles'[s] \in InFlight' \cup {NoRequest}
      /\ \A s, t \in Slots : handles'[s] = handles'[t] /\ handles'[s] # NoRequest => s = t
  BY <1>3, <1>4, <1>5
<1>8. ASSUME NEW q \in InFlight' PROVE \E s \in Slots : handles'[s] = q
  BY <1>1, <1>3, <1>5, <1>6
<1>9. handles' \in [Slots -> Requests \cup {NoRequest}]
  BY <1>1
<1> QED BY <1>7, <1>8, <1>9 DEF SlotsHold

\* rc_client_end_async gives back the slot of a call that is over.
LEMMA SlotsReleased ==
  ASSUME SlotsHold, destroyed' = destroyed,
         handles \in [Slots -> Requests \cup {NoRequest}],
         NEW r \in Requests, InFlight' = InFlight \ {r}, handles' = Released(handles, r)
  PROVE  SlotsHold' /\ handles' \in [Slots -> Requests \cup {NoRequest}]
<1>1. \A s \in Slots : handles'[s] = IF handles[s] = r THEN NoRequest ELSE handles[s]
  BY DEF Released
<1>2. handles' \in [Slots -> Requests \cup {NoRequest}]
  BY DEF Released
<1>3. NoRequest \notin InFlight
  BY AsyncAssumption DEF InFlight
<1> QED BY <1>1, <1>2, <1>3 DEF SlotsHold

\* Nothing changes for the slots.
LEMMA SlotsSame ==
  ASSUME SlotsHold, destroyed' = destroyed, InFlight' = InFlight, handles' = handles
  PROVE  SlotsHold'
<1> QED BY DEF SlotsHold

\* Fewer calls are in flight than there are slots when a call may be issued, and
\* while a change of media waits for a game.
LEMMA FewInFlight ==
  ASSUME SlotsEnough,
         MayIssue \/ \E r \in Requests : requests[r].stage = "pending"
  PROVE  Cardinality(InFlight) < SlotCount
<1>0. /\ IsFiniteSet(UnderWay) /\ Cardinality(UnderWay) \in Nat
      /\ InFlight \in SUBSET UnderWay
  BY AsyncAssumption, FS_Subset, FS_CardinalityType DEF UnderWay, InFlight
<1>1. /\ Cardinality(InFlight) <= Cardinality(UnderWay)
      /\ IsFiniteSet(InFlight)
      /\ Cardinality(UnderWay) = Cardinality(InFlight) => UnderWay = InFlight
  BY <1>0, FS_Subset
<1>2. Cardinality(InFlight) \in Nat
  BY <1>1, FS_CardinalityType
<1>3. CASE MayIssue
  BY <1>0, <1>1, <1>2, <1>3, AsyncAssumption DEF MayIssue, UnderWay
<1>4. CASE \E r \in Requests : requests[r].stage = "pending"
  <2>1. UnderWay # InFlight
    BY <1>4 DEF UnderWay, InFlight
  <2> QED BY <2>1, <1>0, <1>1, <1>2, AsyncAssumption DEF SlotsEnough
<1> QED BY <1>3, <1>4

\* Where a step that concerns one call leaves the calls under way.
LEMMA StageSets ==
  ASSUME NEW r \in Requests, OnlyOf(r, requests, requests')
  PROVE  /\ requests'[r].stage \in {"done", "lost"} =>
              InFlight' = InFlight \ {r} /\ UnderWay' \subseteq UnderWay
         /\ requests'[r].stage = "inflight" =>
              InFlight' = InFlight \cup {r} /\ UnderWay' \subseteq UnderWay \cup {r}
         /\ requests'[r].stage = "pending" =>
              InFlight' = InFlight \ {r} /\ UnderWay' \subseteq UnderWay \cup {r}
<1>1. \A q \in Requests : q # r => requests'[q].stage = requests[q].stage
  BY DEF OnlyOf
<1> QED BY <1>1 DEF InFlight, UnderWay

-----------------------------------------------------------------------------
(* The inductive invariant.                                                 *)

Types ==
  /\ requests \in [Requests -> Call]
  /\ handles \in [Slots -> Requests \cup {NoRequest}]
  /\ beginning \in Requests \cup {NoRequest}
  /\ user \in {"NONE", "LOGIN_REQUESTED", "LOGGED_IN"} /\ named \in BOOLEAN
  /\ game \in 0 .. LoadBound /\ media \in Hashes
  /\ load \in [game : 0 .. LoadBound, known : BOOLEAN, pending : Requests \cup {NoRequest}]
  /\ hashes \in [Hashes -> {"unknown", "game", "other", "none"}]
  /\ hardcore \in BOOLEAN /\ overruled \in BOOLEAN /\ destroyed \in BOOLEAN
  /\ corrupt \in BOOLEAN

\* A call is called back as it should be; one in flight still has what its answer
\* will use.
CallOK(q) ==
  /\ requests[q].calls = IF requests[q].stage = "done" THEN 1 ELSE 0
  /\ ~requests[q].late
  /\ requests[q].stage = "lost" =>
       requests[q].aborted # "no" \/ (requests[q].kind = "media" /\ requests[q].game = 0)
  /\ requests[q].stage = "pending" =>
       requests[q].aborted = "no" /\ requests[q].kind = "media" /\ requests[q].game = 0
  /\ requests[q].stage = "inflight" =>
       /\ requests[q].kind = "media" => requests[q].game # 0 /\ requests[q].hash # NoHash
       /\ requests[q].kind = "entries" /\ requests[q].aborted = "no" /\ ~Impatient => named
       /\ destroyed => requests[q].aborted = "DESTROYED"
  /\ q = beginning /\ requests[q].kind = "login" /\ user = "LOGIN_REQUESTED" =>
       requests[q].stage = "inflight"

CallsOK == \A q \in Requests : CallOK(q)

\* A game is being loaded or is active, not both; a change that waits is waiting.
LoadOK ==
  /\ load.known => load.game # 0 /\ hashes[Loaded] = "game"
  /\ game # 0 => load.game = 0 /\ hashes[Loaded] = "game"
  /\ load.pending # NoRequest => requests[load.pending].stage = "pending"
  /\ destroyed => load = NoLoad /\ game = 0
  /\ beginning # NoRequest => ~destroyed

\* What the hash of the media is of was asked before it was put in place.
MediaOK ==
  /\ MediaFollowsHost
  /\ game # 0 => media = NoHash \/ hashes[media] # "unknown"

IInv ==
  /\ Types /\ CallsOK /\ LoadOK /\ SlotsHold /\ SlotsEnough /\ MediaOK
  /\ ~Impatient => ~corrupt

\* Nothing is begun in the beginning.
LEMMA InitIInv == Init => IInv
<1> SUFFICES ASSUME Init PROVE IInv
  OBVIOUS
<1>1. Unused \in Call
  BY AsyncAssumption DEF Unused, Call, Hashes
<1>2. /\ requests \in [Requests -> Call]
      /\ \A q \in Requests : requests[q] = Unused
  BY <1>1 DEF Init
<1>3. Types
  <2>1. NoHash \in Hashes
    BY DEF Hashes
  <2>2. handles \in [Slots -> Requests \cup {NoRequest}]
    BY DEF Init
  <2>3. hashes \in [Hashes -> {"unknown", "game", "other", "none"}]
    BY DEF Init
  <2>4. load \in [game : 0 .. LoadBound, known : BOOLEAN, pending : Requests \cup {NoRequest}]
    BY AsyncAssumption DEF Init, NoLoad
  <2>5. 0 \in 0 .. LoadBound
    BY AsyncAssumption
  <2> QED BY <2>1, <2>2, <2>3, <2>4, <2>5, <1>2 DEF Types, Init
<1>4. CallsOK
  BY <1>2, AsyncAssumption DEF CallsOK, CallOK, Init, Unused
<1>5. LoadOK
  BY DEF LoadOK, Init, NoLoad
<1>6. SlotsHold /\ SlotsEnough
  <2>1. InFlight = {} /\ UnderWay = {}
    BY <1>2 DEF InFlight, UnderWay, Unused
  <2>2. SlotsEnough
    BY <2>1, FS_EmptySet, AsyncAssumption DEF SlotsEnough
  <2>3. SlotsHold
    BY <2>1 DEF SlotsHold, Init
  <2> QED BY <2>2, <2>3
<1>7. MediaOK /\ ~corrupt
  BY DEF MediaOK, MediaFollowsHost, Init
<1> QED BY <1>3, <1>4, <1>5, <1>6, <1>7 DEF IInv

\* The media of the game stays in place while what was asked for is remembered.
LEMMA MediaKept ==
  ASSUME MediaOK, game \in 0 .. LoadBound,
         \/ game' = 0
         \/ /\ game' = game /\ media' = media
            /\ game # 0 => hashes'[media] = hashes[media]
            /\ hardcore' /\ ~overruled' => hardcore /\ ~overruled
            /\ \A q \in Requests :
                 requests[q].stage = "done" =>
                   requests'[q].stage = "done" /\ SameAsked(requests'[q], requests[q])
  PROVE  MediaOK'
<1>1. CASE game' = 0
  BY <1>1 DEF MediaOK, MediaFollowsHost
<1>2. CASE game' # 0
  BY <1>2 DEF MediaOK, MediaFollowsHost, SameAsked
<1> QED BY <1>1, <1>2

\* What beginning a change of media does to its call.
LEMMA InternalFacts ==
  ASSUME Types, NEW r \in Requests, NEW hash \in Hashes, NEW of \in 0 .. LoadBound,
         NEW current \in 0 .. LoadBound, NEW returning \in BOOLEAN,
         BeginChangeMediaInternal(r, hash, of, current, returning)
  PROVE  /\ OnlyOf(r, requests, requests')
         /\ requests'[r].kind = "media" /\ requests'[r].game = of /\ requests'[r].hash = hash
         /\ requests'[r].aborted = requests[r].aborted
         /\ \/ /\ AtOnce(hash)
               /\ requests'[r].stage = "done" /\ requests'[r].calls = requests[r].calls + 1
               /\ requests'[r].late <=> requests[r].aborted # "no"
            \/ /\ ~AtOnce(hash)
               /\ requests'[r].stage = "inflight" /\ requests'[r].calls = requests[r].calls
               /\ requests'[r].late <=> requests[r].late
<1> DEFINE asked == Asked(requests, r, of, hash)
<1>1. IsAsked(r, requests, asked, of, hash)
  BY AskedFacts DEF Types
<1>2. CASE AtOnce(hash)
  <2>1. requests' = CalledBack(asked, r)
    BY <1>2 DEF BeginChangeMediaInternal, ChangeMediaInternal, Asked
  <2>2. IsCalledBack(r, asked, requests')
    BY <2>1, <1>1, CalledBackFacts DEF OnlyOf, IsAsked
  <2> HIDE DEF asked
  <2> QED BY <2>2, <1>1, <1>2 DEF IsAsked, IsCalledBack, OnlyOf, SameAsked
<1>3. CASE ~AtOnce(hash)
  <2>1. requests' = Issued(asked, r)
    BY <1>3 DEF BeginChangeMediaInternal, Asked
  <2>2. IsStaged(r, asked, requests', "inflight")
    BY <2>1, <1>1, StagedFacts DEF OnlyOf, IsAsked
  <2> HIDE DEF asked
  <2> QED BY <2>2, <1>1, <1>3 DEF IsAsked, IsStaged, OnlyOf, SameAsked
<1> QED BY <1>2, <1>3

\* What beginning a login or the fetch of a list does to its call.
LEMMA BegunFacts ==
  ASSUME Types, NEW r \in Requests, requests[r] = Unused,
         NEW kind \in {"login", "progress", "library", "entries", "media"},
         NEW stage \in {"inflight", "done"},
         \/ Begin(r, kind) /\ stage = "inflight"
         \/ Refuse(r, kind) /\ stage = "done"
  PROVE  /\ OnlyOf(r, requests, requests')
         /\ requests'[r].kind = kind /\ requests'[r].aborted = "no" /\ ~requests'[r].late
         /\ requests'[r].stage = stage
         /\ requests'[r].calls = IF stage = "done" THEN 1 ELSE 0
<1> DEFINE c == [requests EXCEPT ![r].kind = kind]
<1>1. OnlyOf(r, requests, c) /\ c[r] = [Unused EXCEPT !.kind = kind]
  BY KindFacts DEF Types
<1>2. /\ c[r].kind = kind /\ c[r].aborted = "no" /\ ~c[r].late /\ c[r].calls = 0
  BY <1>1 DEF Unused
<1>3. CASE Begin(r, kind) /\ stage = "inflight"
  <2>1. requests' = Issued(c, r)
    BY <1>3 DEF Begin
  <2> HIDE DEF c
  <2>2. IsStaged(r, c, requests', "inflight")
    BY <2>1, <1>1, StagedFacts DEF OnlyOf
  <2> QED BY <2>2, <1>1, <1>2, <1>3 DEF IsStaged, OnlyOf, SameAsked
<1>4. CASE Refuse(r, kind) /\ stage = "done"
  <2>1. requests' = CalledBack(c, r)
    BY <1>4 DEF Refuse
  <2> HIDE DEF c
  <2>2. IsCalledBack(r, c, requests')
    BY <2>1, <1>1, CalledBackFacts DEF OnlyOf
  <2> QED BY <2>2, <1>1, <1>2, <1>4 DEF IsCalledBack, OnlyOf, SameAsked
<1> QED BY <1>3, <1>4

\* The other calls are left as they are when a step concerns one call.
LEMMA CallsKept ==
  ASSUME CallsOK, NEW r \in Requests, OnlyOf(r, requests, requests'), CallOK(r)',
         destroyed' = destroyed, beginning' \in {beginning, r, NoRequest},
         named /\ ~Impatient => named' \/ ~AwaitsEntries,
         user' = "LOGIN_REQUESTED" => user = "LOGIN_REQUESTED" \/ beginning' \in {r, NoRequest}
  PROVE  CallsOK'
<1>1. ASSUME NEW q \in Requests, q # r PROVE CallOK(q)'
  <2>1. requests'[q] = requests[q] /\ CallOK(q)
    BY <1>1 DEF OnlyOf, CallsOK
  <2>2. q = beginning' => q = beginning
    BY <1>1, AsyncAssumption
  <2>3. requests[q].stage = "inflight" /\ requests[q].kind = "entries"
          /\ requests[q].aborted = "no" => AwaitsEntries
    BY DEF AwaitsEntries, InFlight
  <2> QED BY <1>1, <2>1, <2>2, <2>3, AsyncAssumption DEF CallOK
<1> QED BY <1>1 DEF CallsOK

\* The media stays in place when a step concerns a call that is not over.
LEMMA MediaKeptByCall ==
  ASSUME Types, MediaOK, NEW r \in Requests, OnlyOf(r, requests, requests'),
         requests[r].stage # "done",
         game' = 0 \/ (game' = game /\ media' = media),
         game' # 0 => hashes'[media] = hashes[media],
         hardcore' /\ ~overruled' => hardcore /\ ~overruled
  PROVE  MediaOK'
<1>1. ASSUME NEW q \in Requests, requests[q].stage = "done"
      PROVE  requests'[q].stage = "done" /\ SameAsked(requests'[q], requests[q])
  BY <1>1 DEF OnlyOf, SameAsked
<1> QED BY <1>1, MediaKept DEF Types

\* The host begins a login or the fetch of a list.
LEMMA BeginsIInv ==
  ASSUME IInv, NEW r \in Requests,
         \/ BeginLogin(r) \/ BeginFetchAllUserProgress(r)
         \/ BeginFetchHashLibrary(r) \/ BeginFetchLeaderboardEntries(r)
  PROVE  IInv'
<1>0. /\ Types /\ CallsOK /\ LoadOK /\ SlotsHold /\ SlotsEnough /\ MediaOK
      /\ ~Impatient => ~corrupt
  BY DEF IInv
<1>1. PICK kind \in {"login", "progress", "library", "entries"}, stage \in {"inflight", "done"} :
        /\ \/ Begin(r, kind) /\ stage = "inflight" /\ (kind = "entries" => named)
           \/ Refuse(r, kind) /\ stage = "done"
        /\ kind = "login" => user' = "LOGIN_REQUESTED"
        /\ kind # "login" => user' = user
  <2>1. CASE BeginLogin(r)
    BY <2>1 DEF BeginLogin
  <2>2. CASE BeginFetchAllUserProgress(r)
    BY <2>2 DEF BeginFetchAllUserProgress, player
  <2>3. CASE BeginFetchHashLibrary(r)
    BY <2>3 DEF BeginFetchHashLibrary, player
  <2>4. CASE BeginFetchLeaderboardEntries(r)
    BY <2>4 DEF BeginFetchLeaderboardEntries, player
  <2> QED BY <2>1, <2>2, <2>3, <2>4
<1>2. /\ requests[r] = Unused /\ ~destroyed /\ beginning = NoRequest
      /\ named' = named /\ game' = game /\ load' = load /\ media' = media
      /\ hashes' = hashes /\ hardcore' = hardcore /\ overruled' = overruled
      /\ destroyed' = destroyed /\ corrupt' = corrupt
  BY DEF BeginLogin, BeginFetchAllUserProgress, BeginFetchHashLibrary,
         BeginFetchLeaderboardEntries, Free, Ready, player, games, rules
<1>3. requests[r].stage = "unused"
  BY <1>2 DEF Unused
<1>4. /\ OnlyOf(r, requests, requests')
      /\ requests'[r].kind = kind /\ requests'[r].aborted = "no" /\ ~requests'[r].late
      /\ requests'[r].stage = stage
      /\ requests'[r].calls = IF stage = "done" THEN 1 ELSE 0
  BY <1>0, <1>1, <1>2, BegunFacts
<1>5. SlotsHold' /\ SlotsEnough' /\ handles' \in [Slots -> Requests \cup {NoRequest}]
      /\ beginning' \in {r, NoRequest} /\ (beginning' = r => requests'[r].stage = "inflight")
  <2>1. CASE Begin(r, kind) /\ stage = "inflight"
    <3>1. MayIssue /\ handles' = Recorded(handles, r) /\ beginning' = r
      BY <2>1 DEF Begin
    <3>2. InFlight' = InFlight \cup {r} /\ UnderWay' \subseteq UnderWay \cup {r}
      BY <2>1, <1>4, StageSets
    <3>3. Cardinality(InFlight) < SlotCount /\ r \notin InFlight
      BY <3>1, <1>0, <1>3, FewInFlight DEF InFlight
    <3>4. SlotsHold' /\ handles' \in [Slots -> Requests \cup {NoRequest}]
      BY <3>1, <3>2, <3>3, <1>0, <1>2, SlotsIssued DEF Types
    <3>5. SlotsEnough'
      BY <3>1, <3>2, <1>0, EnoughKept
    <3> QED BY <2>1, <3>1, <3>4, <3>5, <1>4
  <2>2. CASE Refuse(r, kind) /\ stage = "done"
    <3>1. handles' = handles /\ beginning' = NoRequest
      BY <2>2, <1>2 DEF Refuse
    <3>2. InFlight' = InFlight \ {r} /\ UnderWay' \subseteq UnderWay /\ r \notin InFlight
      BY <2>2, <1>3, <1>4, StageSets DEF InFlight
    <3>3. SlotsHold'
      BY <3>1, <3>2, <1>0, <1>2, SlotsSame
    <3>4. SlotsEnough'
      BY <3>2, <1>0, EnoughKept
    <3> QED BY <3>1, <3>3, <3>4, <1>0, AsyncAssumption DEF Types
  <2> QED BY <1>1, <2>1, <2>2
<1>6. Types'
  BY <1>0, <1>1, <1>2, <1>4, <1>5 DEF Types, OnlyOf
<1>7. CallOK(r)'
  BY <1>0, <1>1, <1>2, <1>4, <1>5, AsyncAssumption DEF CallOK
<1>8. CallsOK'
  BY <1>0, <1>2, <1>4, <1>5, <1>7, CallsKept
<1>9. LoadOK'
  BY <1>0, <1>2, <1>3, <1>4 DEF LoadOK, OnlyOf, Types
<1>10. MediaOK'
  BY <1>0, <1>2, <1>3, <1>4, MediaKeptByCall
<1> QED BY <1>0, <1>2, <1>5, <1>6, <1>8, <1>9, <1>10 DEF IInv

\* rc_client_abort_async marks a call that is in flight.
LEMMA AbortIInv ==
  ASSUME IInv, NEW r \in Requests, AbortAsync(r)
  PROVE  IInv'
<1>0. /\ Types /\ CallsOK /\ LoadOK /\ SlotsHold /\ SlotsEnough /\ MediaOK
      /\ ~Impatient => ~corrupt
  BY DEF IInv
<1>1. /\ requests[r].stage = "inflight" /\ requests[r].aborted = "no" /\ ~destroyed
      /\ handles' = handles /\ beginning' = beginning /\ user' = user /\ named' = named
      /\ game' = game /\ load' = load /\ media' = media /\ hashes' = hashes
      /\ hardcore' = hardcore /\ overruled' = overruled /\ destroyed' = destroyed
      /\ corrupt' = corrupt /\ beginning = NoRequest
  BY DEF AbortAsync, Ready, player, games, rules
<1> DEFINE n == [requests[r] EXCEPT !.aborted = "ABORTED"]
<1>2. requests' = [requests EXCEPT ![r] = n]
  BY DEF AbortAsync
<1>3. requests \in [Requests -> Call] /\ requests[r] \in Call
  BY <1>0 DEF Types
<1>4. /\ n \in Call /\ n.stage = "inflight" /\ n.aborted = "ABORTED"
      /\ n.kind = requests[r].kind /\ n.game = requests[r].game /\ n.hash = requests[r].hash
      /\ n.calls = requests[r].calls /\ n.late = requests[r].late
  BY <1>1, <1>3 DEF Call
<1> HIDE DEF n
<1>5. OnlyOf(r, requests, requests') /\ requests'[r] = n
  BY <1>2, <1>3, <1>4 DEF OnlyOf
<1>6. InFlight' = InFlight /\ UnderWay' = UnderWay
  BY <1>1, <1>4, <1>5 DEF InFlight, UnderWay, OnlyOf
<1>7. SlotsHold' /\ SlotsEnough'
  BY <1>0, <1>1, <1>6, SlotsSame, EnoughKept
<1>8. Types'
  BY <1>0, <1>1, <1>5 DEF Types, OnlyOf
<1>9. CallOK(r)'
  BY <1>0, <1>1, <1>4, <1>5 DEF CallOK, CallsOK
<1>10. CallsOK'
  BY <1>0, <1>1, <1>5, <1>9, CallsKept
<1>11. LoadOK'
  BY <1>0, <1>1, <1>4, <1>5 DEF LoadOK, OnlyOf, Types
<1>12. MediaOK'
  BY <1>0, <1>1, <1>5, MediaKeptByCall
<1> QED BY <1>0, <1>1, <1>7, <1>8, <1>10, <1>11, <1>12 DEF IInv

\* The function that began a call returns, and touches nothing that is gone.
LEMMA ReturnIInv ==
  ASSUME IInv, Return
  PROVE  IInv'
<1>0. /\ Types /\ CallsOK /\ LoadOK /\ SlotsHold /\ SlotsEnough /\ MediaOK
      /\ ~Impatient => ~corrupt
  BY DEF IInv
<1> DEFINE r == beginning
           given == IF requests[r].kind = "login" THEN user = "LOGIN_REQUESTED" ELSE HandleValid(r)
           n == [requests[r] EXCEPT !.given = given]
<1>1. /\ r # NoRequest /\ requests' = [requests EXCEPT ![r] = n]
      /\ corrupt' = (corrupt \/ (given /\ requests[r].stage # "inflight"))
      /\ beginning' = NoRequest
      /\ handles' = handles /\ user' = user /\ named' = named
      /\ game' = game /\ load' = load /\ media' = media /\ hashes' = hashes
      /\ hardcore' = hardcore /\ overruled' = overruled /\ destroyed' = destroyed
  BY DEF Return, player, games, rules
<1>2. given \in BOOLEAN
  <2>1. (user = "LOGIN_REQUESTED") \in BOOLEAN /\ HandleValid(r) \in BOOLEAN
    BY DEF HandleValid
  <2> QED BY <2>1, Zenon
<1>3. given => requests[r].stage = "inflight"
  <2>1. CASE requests[r].kind = "login"
    BY <1>0, <1>1, <2>1 DEF CallsOK, CallOK, Types
  <2>2. CASE requests[r].kind # "login"
    <3>1. HandleValid(r) => \E s \in Slots : handles[s] = r
      BY <1>0 DEF HandleValid, Range, Types
    <3>2. ~destroyed
      BY <1>0, <1>1 DEF LoadOK
    <3> QED BY <1>0, <1>1, <2>2, <3>1, <3>2 DEF SlotsHold, InFlight
  <2> QED BY <2>1, <2>2
<1> HIDE DEF given
<1>4. requests \in [Requests -> Call] /\ r \in Requests /\ requests[r] \in Call
  BY <1>0, <1>1 DEF Types
<1>5. /\ n \in Call /\ n.stage = requests[r].stage /\ n.aborted = requests[r].aborted
      /\ n.kind = requests[r].kind /\ n.game = requests[r].game /\ n.hash = requests[r].hash
      /\ n.calls = requests[r].calls /\ n.late = requests[r].late
  BY <1>2, <1>4 DEF Call
<1> HIDE DEF n
<1>6. \A q \in Requests :
        /\ requests'[q] \in Call /\ SameAsked(requests'[q], requests[q])
        /\ requests'[q].stage = requests[q].stage /\ requests'[q].calls = requests[q].calls
        /\ requests'[q].late = requests[q].late
  BY <1>1, <1>4, <1>5 DEF SameAsked
<1>7. requests' \in [Requests -> Call]
  BY <1>1, <1>4, <1>5
<1>8. InFlight' = InFlight /\ UnderWay' = UnderWay
  BY <1>6 DEF InFlight, UnderWay
<1>9. SlotsHold' /\ SlotsEnough'
  BY <1>0, <1>1, <1>8, SlotsSame, EnoughKept
<1>10. Types'
  BY <1>0, <1>1, <1>3, <1>7 DEF Types
<1>11. CallsOK'
  BY <1>0, <1>1, <1>6, AsyncAssumption DEF CallsOK, CallOK, SameAsked
<1>12. LoadOK'
  BY <1>0, <1>1, <1>6 DEF LoadOK, Types
<1>13. MediaOK'
  BY <1>0, <1>1, <1>6, MediaKept DEF Types
<1> QED BY <1>0, <1>1, <1>3, <1>9, <1>10, <1>11, <1>12, <1>13 DEF IInv

\* The steps that concern no call.
LEMMA QuietIInv ==
  ASSUME IInv, SetHardcoreEnabled \/ LoadAnswered \/ UNCHANGED vars
  PROVE  IInv'
<1>0. /\ Types /\ CallsOK /\ LoadOK /\ SlotsHold /\ SlotsEnough /\ MediaOK
      /\ ~Impatient => ~corrupt
  BY DEF IInv
<1>1. /\ requests' = requests /\ handles' = handles /\ beginning' = beginning
      /\ user' = user /\ named' = named /\ game' = game /\ media' = media
      /\ destroyed' = destroyed /\ corrupt' = corrupt
  BY DEF SetHardcoreEnabled, LoadAnswered, vars, calls, player, games, rules
<1>2. InFlight' = InFlight /\ UnderWay' = UnderWay
  BY <1>1 DEF InFlight, UnderWay
<1>3. SlotsHold' /\ SlotsEnough'
  BY <1>0, <1>1, <1>2, SlotsSame, EnoughKept
<1>4. CallsOK'
  BY <1>0, <1>1 DEF CallsOK, CallOK
<1>5. CASE LoadAnswered
  <2>1. /\ load.game # 0 /\ load' = [load EXCEPT !.known = TRUE]
        /\ hashes' = [hashes EXCEPT ![Loaded] = "game"]
        /\ hardcore' = hardcore /\ overruled' = overruled
    BY <1>5 DEF LoadAnswered, rules
  <2>2. load \in [game : 0 .. LoadBound, known : BOOLEAN, pending : Requests \cup {NoRequest}]
    BY <1>0 DEF Types
  <2>3. /\ load'.game = load.game /\ load'.known = TRUE /\ load'.pending = load.pending
        /\ load' \in [game : 0 .. LoadBound, known : BOOLEAN, pending : Requests \cup {NoRequest}]
    BY <2>1, <2>2
  <2>4. hashes' \in [Hashes -> {"unknown", "game", "other", "none"}] /\ hashes'[Loaded] = "game"
    <3>1. Loaded \in Hashes
      BY DEF Hashes
    <3> QED BY <3>1, <2>1, <1>0 DEF Types
  <2>5. game = 0 /\ ~destroyed
    BY <2>1, <1>0 DEF LoadOK, NoLoad
  <2>6. Types'
    BY <1>0, <1>1, <2>1, <2>3, <2>4 DEF Types
  <2>7. LoadOK'
    BY <1>0, <1>1, <2>1, <2>3, <2>4, <2>5 DEF LoadOK
  <2>8. MediaOK'
    BY <1>0, <1>1, <2>5, MediaKept DEF Types
  <2> QED BY <1>0, <1>1, <1>3, <1>4, <2>6, <2>7, <2>8 DEF IInv
<1>6. CASE SetHardcoreEnabled \/ UNCHANGED vars
  <2>1. /\ load' = load /\ hashes' = hashes
        /\ hardcore' \in BOOLEAN /\ overruled' \in BOOLEAN
        /\ hardcore' /\ ~overruled' => hardcore /\ ~overruled
    <3>1. hardcore \in BOOLEAN /\ overruled \in BOOLEAN
      BY <1>0 DEF Types
    <3>2. CASE SetHardcoreEnabled
      <4>1. load' = load /\ hashes' = hashes /\ hardcore' = ~hardcore /\ overruled' = ~hardcore
        BY <3>2 DEF SetHardcoreEnabled, games
      <4> QED BY <3>1, <4>1, Zenon
    <3>3. CASE UNCHANGED vars
      BY <3>1, <3>3 DEF vars, games, rules
    <3> QED BY <1>6, <3>2, <3>3
  <2>2. Types'
    BY <1>0, <1>1, <2>1 DEF Types
  <2>3. LoadOK'
    BY <1>0, <1>1, <2>1 DEF LoadOK
  <2>4. MediaOK'
    BY <1>0, <1>1, <2>1, MediaKept DEF Types, SameAsked
  <2> QED BY <1>0, <1>1, <1>3, <1>4, <2>2, <2>3, <2>4 DEF IInv
<1> QED BY <1>5, <1>6

\* A change of media that waited is forgotten, and no other call is touched.
LEMMA ForgottenFacts ==
  ASSUME IInv, destroyed' = destroyed, beginning' \in {beginning, NoRequest},
         handles' = handles,
         requests' = Dropped(requests, load.pending),
         named /\ ~Impatient => named' \/ ~AwaitsEntries,
         user' \in {"NONE", user}
  PROVE  /\ requests' \in [Requests -> Call]
         /\ CallsOK' /\ SlotsHold' /\ SlotsEnough'
         /\ \A q \in Requests :
              requests[q].stage = "done" =>
                requests'[q].stage = "done" /\ SameAsked(requests'[q], requests[q])
         /\ \A q \in Requests : q # load.pending => requests'[q] = requests[q]
<1>0. /\ Types /\ CallsOK /\ LoadOK /\ SlotsHold /\ SlotsEnough
  BY DEF IInv
<1>1. CASE load.pending = NoRequest
  <2>1. requests' = requests
    BY <1>1 DEF Dropped
  <2>2. InFlight' = InFlight /\ UnderWay' = UnderWay
    BY <2>1 DEF InFlight, UnderWay
  <2>3. SlotsHold' /\ SlotsEnough'
    BY <2>2, <1>0, SlotsSame, EnoughKept
  <2>4. CallsOK'
    <3>1. ASSUME NEW q \in Requests PROVE CallOK(q)'
      <4>1. CallOK(q) /\ (q = beginning' => q = beginning)
        BY <1>0, AsyncAssumption DEF CallsOK
      <4>2. requests[q].stage = "inflight" /\ requests[q].kind = "entries"
              /\ requests[q].aborted = "no" => AwaitsEntries
        BY DEF AwaitsEntries, InFlight
      <4> QED BY <2>1, <4>1, <4>2 DEF CallOK
    <3> QED BY <3>1 DEF CallsOK
  <2> QED BY <2>1, <2>3, <2>4, <1>0 DEF Types, SameAsked
<1>2. CASE load.pending # NoRequest
  <2>1. PICK r \in Requests : r = load.pending /\ requests[r].stage = "pending"
    BY <1>0, <1>2 DEF Types, LoadOK
  <2>2. requests \in [Requests -> Call] /\ r # NoRequest
    BY <1>0, AsyncAssumption DEF Types
  <2>3. requests' = Dropped(requests, r)
    BY <2>1
  <2>4. IsStaged(r, requests, requests', "lost")
    BY <2>2, <2>3, StagedFacts
  <2>5. OnlyOf(r, requests, requests') /\ requests'[r].stage = "lost"
    BY <2>4 DEF IsStaged
  <2>6. InFlight' = InFlight \ {r} /\ UnderWay' \subseteq UnderWay /\ r \notin InFlight
    BY <2>1, <2>5, StageSets DEF InFlight
  <2>7. SlotsHold' /\ SlotsEnough'
    BY <2>6, <1>0, SlotsSame, EnoughKept
  <2>8. CallOK(r)'
    <3>1. /\ requests[r].calls = 0 /\ ~requests[r].late /\ requests[r].kind = "media"
          /\ requests[r].game = 0
      BY <2>1, <1>0 DEF CallsOK, CallOK
    <3>2. /\ requests'[r].stage = "lost" /\ requests'[r].calls = 0 /\ ~requests'[r].late
          /\ requests'[r].kind = "media" /\ requests'[r].game = 0
      BY <3>1, <2>4 DEF IsStaged, SameAsked
    <3> QED BY <3>2 DEF CallOK
  <2>9. CallsOK'
    <3>1. user' = "LOGIN_REQUESTED" => user = "LOGIN_REQUESTED" \/ beginning' \in {r, NoRequest}
      OBVIOUS
    <3>2. beginning' \in {beginning, r, NoRequest}
      OBVIOUS
    <3> QED BY <2>1, <2>5, <2>8, <3>1, <3>2, <1>0, CallsKept
  <2> QED BY <2>1, <2>5, <2>7, <2>9 DEF OnlyOf, SameAsked
<1> QED BY <1>1, <1>2

\* Games are unloaded, loaded over each other, and fail to load.
LEMMA GamesIInv ==
  ASSUME IInv, UnloadGame \/ Logout \/ BeginLoadGame \/ LoadFails
  PROVE  IInv'
<1>0. /\ Types /\ CallsOK /\ LoadOK /\ SlotsHold /\ SlotsEnough /\ MediaOK
      /\ ~Impatient => ~corrupt
  BY DEF IInv
<1>1. /\ requests' = Dropped(requests, load.pending) /\ handles' = handles
      /\ beginning' = beginning /\ hashes' = hashes /\ hardcore' = hardcore
      /\ overruled' = overruled /\ destroyed' = destroyed /\ corrupt' = corrupt
      /\ user' \in {"NONE", user} /\ named' \in {FALSE, named}
      /\ named /\ ~Impatient => named' \/ ~AwaitsEntries
  <2>1. CASE UnloadGame
    BY <2>1, <1>0 DEF UnloadGame, Unloaded, player, rules
  <2>2. CASE Logout
    BY <2>2, <1>0 DEF Logout, Unloaded, rules
  <2>3. CASE BeginLoadGame
    BY <2>3, <1>0 DEF BeginLoadGame, player, rules
  <2>4. CASE LoadFails
    BY <2>4, <1>0 DEF LoadFails, player, rules
  <2> QED BY <2>1, <2>2, <2>3, <2>4
<1>2. /\ load'.pending = NoRequest /\ load'.known = FALSE
      /\ load' \in [game : 0 .. LoadBound, known : BOOLEAN, pending : Requests \cup {NoRequest}]
      /\ game' = 0 \/ (game' = game /\ media' = media /\ load'.game = 0)
      /\ media' \in Hashes
      /\ destroyed => load' = NoLoad /\ game' = 0
  <2>1. NoHash \in Hashes /\ 0 \in 0 .. LoadBound
    BY AsyncAssumption DEF Hashes
  <2>2. CASE UnloadGame \/ Logout
    <3>1. game' = 0 /\ load' = NoLoad /\ media' = NoHash
      BY <2>2 DEF UnloadGame, Logout, Unloaded
    <3>2. NoLoad \in [game : 0 .. LoadBound, known : BOOLEAN, pending : Requests \cup {NoRequest}]
          /\ NoLoad.pending = NoRequest /\ NoLoad.known = FALSE
      BY <2>1 DEF NoLoad
    <3> QED BY <2>1, <3>1, <3>2
  <2>3. CASE BeginLoadGame
    <3>1. PICK n \in 1 .. LoadBound : load' = [game |-> n, known |-> FALSE, pending |-> NoRequest]
      BY <2>3 DEF BeginLoadGame
    <3> QED BY <2>1, <2>3, <3>1 DEF BeginLoadGame, Ready
  <2>4. CASE LoadFails
    BY <2>1, <2>4, <1>0 DEF LoadFails, NoLoad, LoadOK, Types
  <2> QED BY <2>2, <2>3, <2>4
<1>3. /\ requests' \in [Requests -> Call]
      /\ CallsOK' /\ SlotsHold' /\ SlotsEnough'
      /\ \A q \in Requests :
           requests[q].stage = "done" =>
             requests'[q].stage = "done" /\ SameAsked(requests'[q], requests[q])
  BY <1>1, ForgottenFacts
<1>4. Types'
  <2>1. game' \in 0 .. LoadBound
    BY <1>0, <1>2, AsyncAssumption DEF Types
  <2> QED BY <1>0, <1>1, <1>2, <1>3, <2>1 DEF Types
<1>5. LoadOK'
  BY <1>0, <1>1, <1>2 DEF LoadOK
<1>6. MediaOK'
  BY <1>0, <1>1, <1>2, <1>3, MediaKept DEF Types
<1> QED BY <1>0, <1>1, <1>3, <1>4, <1>5, <1>6 DEF IInv

\* Beginning a change of media keeps the calls and the slots in order.
LEMMA InternalKeeps ==
  ASSUME IInv, NEW r \in Requests, NEW hash \in Hashes, NEW of \in 1 .. LoadBound,
         NEW current \in 0 .. LoadBound, NEW returning \in BOOLEAN,
         BeginChangeMediaInternal(r, hash, of, current, returning),
         \/ requests[r].stage = "unused" /\ requests[r].aborted = "no" /\ MayIssue
         \/ requests[r].stage = "pending",
         ~destroyed, destroyed' = destroyed, user' = user, named' = named
  PROVE  /\ requests' \in [Requests -> Call]
         /\ handles' \in [Slots -> Requests \cup {NoRequest}]
         /\ CallsOK' /\ SlotsHold' /\ SlotsEnough'
         /\ OnlyOf(r, requests, requests')
         /\ requests'[r].kind = "media" /\ requests'[r].game = of /\ requests'[r].hash = hash
         /\ requests'[r].aborted = "no"
         /\ AtOnce(hash) => requests'[r].stage = "done"
<1>0. /\ Types /\ CallsOK /\ LoadOK /\ SlotsHold /\ SlotsEnough
  BY DEF IInv
<1>1. requests[r].aborted = "no" /\ requests[r].calls = 0 /\ ~requests[r].late
  BY <1>0 DEF CallsOK, CallOK
<1>2. /\ OnlyOf(r, requests, requests')
      /\ requests'[r].kind = "media" /\ requests'[r].game = of /\ requests'[r].hash = hash
      /\ requests'[r].aborted = "no" /\ ~requests'[r].late
      /\ \/ AtOnce(hash) /\ requests'[r].stage = "done" /\ requests'[r].calls = 1
         \/ ~AtOnce(hash) /\ requests'[r].stage = "inflight" /\ requests'[r].calls = 0
  <2>1. of \in 0 .. LoadBound /\ Types
    BY <1>0
  <2>2. /\ OnlyOf(r, requests, requests')
        /\ requests'[r].kind = "media" /\ requests'[r].game = of /\ requests'[r].hash = hash
        /\ requests'[r].aborted = requests[r].aborted
        /\ \/ /\ AtOnce(hash)
              /\ requests'[r].stage = "done" /\ requests'[r].calls = requests[r].calls + 1
              /\ requests'[r].late <=> requests[r].aborted # "no"
           \/ /\ ~AtOnce(hash)
              /\ requests'[r].stage = "inflight" /\ requests'[r].calls = requests[r].calls
              /\ requests'[r].late <=> requests[r].late
    BY <2>1, InternalFacts
  <2> QED BY <2>2, <1>1
<1>3. r \notin InFlight
  BY DEF InFlight
<1>4. CASE AtOnce(hash)
  <2>1. handles' = handles /\ beginning' = beginning
    BY <1>4 DEF BeginChangeMediaInternal
  <2>2. InFlight' = InFlight /\ UnderWay' \subseteq UnderWay
    <3>1. requests'[r].stage = "done" /\ OnlyOf(r, requests, requests')
      BY <1>2, <1>4
    <3>2. InFlight' = InFlight \ {r} /\ UnderWay' \subseteq UnderWay
      BY <3>1, StageSets
    <3> QED BY <3>2, <1>3
  <2>3. SlotsHold' /\ SlotsEnough'
    BY <2>1, <2>2, <1>0, SlotsSame, EnoughKept
  <2>4. CallOK(r)'
    BY <1>2, <1>4 DEF CallOK
  <2>5. CallsOK'
    BY <2>1, <2>4, <1>0, <1>2, CallsKept
  <2> QED BY <2>1, <2>3, <2>5, <1>0, <1>2, <1>4 DEF Types, OnlyOf
<1>5. CASE ~AtOnce(hash)
  <2>1. handles' = Recorded(handles, r) /\ beginning' \in {beginning, r} /\ hash # NoHash
    BY <1>5 DEF BeginChangeMediaInternal, AtOnce
  <2>2. InFlight' = InFlight \cup {r} /\ UnderWay' \subseteq UnderWay \cup {r}
    BY <1>2, <1>5, StageSets
  <2>3. Cardinality(InFlight) < SlotCount
    BY <1>0, FewInFlight
  <2>4. SlotsHold' /\ handles' \in [Slots -> Requests \cup {NoRequest}]
    BY <2>1, <2>2, <2>3, <1>0, <1>3, SlotsIssued DEF Types
  <2>5. SlotsEnough'
    <3>1. CASE requests[r].stage = "pending"
      <4>1. UnderWay' \subseteq UnderWay
        BY <2>2, <3>1 DEF UnderWay
      <4> QED BY <4>1, <1>0, EnoughKept
    <3>2. CASE MayIssue
      BY <2>2, <3>2, <1>0, EnoughKept
    <3> QED BY <3>1, <3>2
  <2>6. CallOK(r)'
    BY <2>1, <1>2, <1>5 DEF CallOK
  <2>7. CallsOK'
    BY <2>1, <2>6, <1>0, <1>2, CallsKept
  <2> QED BY <2>4, <2>5, <2>7, <1>2, <1>5 DEF OnlyOf
<1> QED BY <1>4, <1>5

\* A game becomes active, and the change of media that waited for its data begins.
LEMMA ActivateIInv ==
  ASSUME IInv, ActivateGame
  PROVE  IInv'
<1>0. /\ Types /\ CallsOK /\ LoadOK /\ SlotsHold /\ SlotsEnough /\ MediaOK
      /\ ~Impatient => ~corrupt
  BY DEF IInv
<1>1. /\ load.known /\ game' = load.game /\ load' = NoLoad /\ user' = user /\ named' = named
      /\ hashes' = hashes /\ destroyed' = destroyed
  BY DEF ActivateGame, player
<1>2. /\ load.game \in 1 .. LoadBound /\ game = 0 /\ hashes[Loaded] = "game" /\ ~destroyed
      /\ Loaded \in Hashes
  BY <1>0, <1>1 DEF LoadOK, Types, NoLoad, Hashes
<1>3. /\ NoLoad \in [game : 0 .. LoadBound, known : BOOLEAN, pending : Requests \cup {NoRequest}]
      /\ NoLoad.pending = NoRequest /\ NoLoad.known = FALSE /\ NoLoad.game = 0
  BY AsyncAssumption DEF NoLoad
<1>4. CASE load.pending = NoRequest
  <2>1. /\ media' = Loaded /\ requests' = requests /\ handles' = handles
        /\ beginning' = beginning /\ hardcore' = hardcore /\ overruled' = overruled
        /\ corrupt' = corrupt
    BY <1>4 DEF ActivateGame, calls, rules
  <2>2. InFlight' = InFlight /\ UnderWay' = UnderWay
    BY <2>1 DEF InFlight, UnderWay
  <2>3. SlotsHold' /\ SlotsEnough'
    BY <2>1, <2>2, <1>0, <1>1, SlotsSame, EnoughKept
  <2>4. CallsOK'
    BY <2>1, <1>0, <1>1 DEF CallsOK, CallOK
  <2>5. Types' /\ LoadOK'
    BY <2>1, <1>0, <1>1, <1>2, <1>3 DEF Types, LoadOK
  <2>6. MediaOK'
    BY <2>1, <1>1, <1>2 DEF MediaOK, MediaFollowsHost
  <2> QED BY <2>1, <2>3, <2>4, <2>5, <2>6, <1>0 DEF IInv
<1>5. CASE load.pending # NoRequest
  <2>1. PICK r \in Requests : r = load.pending /\ requests[r].stage = "pending"
    BY <1>0, <1>5 DEF Types, LoadOK
  <2>2. PICK hash \in Hashes : hash = requests[r].hash
    BY <1>0 DEF Types, Call
  <2>3. BeginChangeMediaInternal(r, hash, load.game, load.game, FALSE)
    BY <2>1, <2>2, <1>5 DEF ActivateGame
  <2>4. PICK of \in 1 .. LoadBound : of = load.game /\ of \in 0 .. LoadBound
    BY <1>2
  <2> DEFINE returning == FALSE
  <2>5. BeginChangeMediaInternal(r, hash, of, of, returning) /\ returning \in BOOLEAN
    BY <2>3, <2>4
  <2>6. /\ requests' \in [Requests -> Call]
        /\ handles' \in [Slots -> Requests \cup {NoRequest}]
        /\ CallsOK' /\ SlotsHold' /\ SlotsEnough'
        /\ OnlyOf(r, requests, requests')
        /\ requests'[r].kind = "media" /\ requests'[r].game = of /\ requests'[r].hash = hash
        /\ requests'[r].aborted = "no"
        /\ AtOnce(hash) => requests'[r].stage = "done"
    <3> HIDE DEF returning
    <3> QED BY <2>1, <2>4, <2>5, <1>1, <1>2, InternalKeeps
  <2>7. /\ beginning' = beginning
        /\ \/ /\ AtOnce(hash) /\ media' = hash /\ corrupt' = corrupt
              /\ hardcore' = (hardcore /\ hashes[hash] # "none") /\ overruled' = FALSE
           \/ /\ ~AtOnce(hash) /\ media' = Loaded /\ corrupt' = corrupt
              /\ hardcore' = hardcore /\ overruled' = overruled
    <3>1. CASE AtOnce(hash)
      BY <3>1, <2>4, <2>5, <1>0 DEF BeginChangeMediaInternal, ChangeMediaInternal, Types
    <3>2. CASE ~AtOnce(hash)
      BY <3>2, <2>4, <2>5, <1>2 DEF BeginChangeMediaInternal, rules
    <3> QED BY <3>1, <3>2
  <2>8. hardcore' \in BOOLEAN /\ overruled' \in BOOLEAN
    BY <2>7, <1>0 DEF Types
  <2>9. Types' /\ LoadOK'
    BY <2>6, <2>7, <2>8, <1>0, <1>1, <1>2, <1>3 DEF Types, LoadOK
  <2>10. MediaOK'
    BY <2>4, <2>6, <2>7, <1>1, <1>2 DEF MediaOK, MediaFollowsHost, AtOnce
  <2> QED BY <2>6, <2>7, <2>9, <2>10, <1>0 DEF IInv
<1> QED BY <1>4, <1>5

\* The host changes the media of a game that is loaded, being loaded, or of none.
LEMMA ChangeIInv ==
  ASSUME IInv, NEW r \in Requests, NEW hash \in Hashes, BeginChangeMedia(r, hash)
  PROVE  IInv'
<1>0. /\ Types /\ CallsOK /\ LoadOK /\ SlotsHold /\ SlotsEnough /\ MediaOK
      /\ ~Impatient => ~corrupt
  BY DEF IInv
<1>1. /\ requests[r] = Unused /\ ~destroyed /\ beginning = NoRequest /\ MayIssue
      /\ game' = game /\ user' = user /\ named' = named /\ hashes' = hashes
      /\ destroyed' = destroyed
  BY DEF BeginChangeMedia, Free, Ready, player
<1>2. /\ requests[r].stage = "unused" /\ requests[r].aborted = "no" /\ requests[r].game = 0
      /\ requests[r].calls = 0 /\ ~requests[r].late
  BY <1>1 DEF Unused
<1>3. requests \in [Requests -> Call] /\ requests[r] \in Call
  BY <1>0 DEF Types
<1>4. CASE Waits(r, hash)
  <2> DEFINE c == Dropped(requests, load.pending)
             n == [c[r] EXCEPT !.stage = "pending", !.kind = "media", !.hash = hash]
  <2>1. /\ load.game # 0 /\ ~load.known /\ load' = [load EXCEPT !.pending = r]
        /\ requests' = [c EXCEPT ![r] = n]
        /\ handles' = handles /\ beginning' = beginning /\ media' = media
        /\ hardcore' = hardcore /\ overruled' = overruled /\ corrupt' = corrupt
    BY <1>4 DEF Waits, rules
  <2>2. /\ c \in [Requests -> Call]
        /\ \A q \in Requests : q # load.pending => c[q] = requests[q]
        /\ load.pending # NoRequest => IsStaged(load.pending, requests, c, "lost")
    <3>1. CASE load.pending = NoRequest
      BY <3>1, <1>3, AsyncAssumption DEF Dropped
    <3>2. CASE load.pending # NoRequest
      <4>1. load.pending \in Requests
        BY <3>2, <1>0 DEF Types
      <4>2. IsStaged(load.pending, requests, c, "lost")
        BY <4>1, <3>2, <1>3, StagedFacts
      <4> QED BY <4>1, <4>2 DEF IsStaged, OnlyOf
    <3> QED BY <3>1, <3>2
  <2>3. r # load.pending /\ r # NoRequest
    BY <1>0, <1>2, AsyncAssumption DEF LoadOK
  <2> HIDE DEF c
  <2>4. /\ n \in Call /\ n.stage = "pending" /\ n.kind = "media" /\ n.hash = hash
        /\ n.aborted = "no" /\ n.game = 0 /\ n.calls = 0 /\ ~n.late
    <3>1. c[r] = requests[r]
      BY <2>2, <2>3
    <3> QED BY <3>1, <1>2, <1>3 DEF Call
  <2> HIDE DEF n
  <2>5. /\ requests' \in [Requests -> Call] /\ requests'[r] = n
        /\ \A q \in Requests : q # r => requests'[q] = c[q]
    BY <2>1, <2>2, <2>4
  <2>6. ASSUME NEW q \in Requests, q # r
        PROVE  /\ SameAsked(requests'[q], requests[q])
               /\ requests'[q].calls = requests[q].calls
               /\ requests'[q].late <=> requests[q].late
               /\ \/ requests'[q].stage = requests[q].stage
                  \/ requests[q].stage = "pending" /\ requests'[q].stage = "lost"
    <3>1. CASE q # load.pending
      BY <2>2, <2>5, <2>6, <3>1 DEF SameAsked
    <3>2. CASE q = load.pending
      <4>1. requests[q].stage = "pending" /\ IsStaged(q, requests, c, "lost")
        BY <3>2, <2>2, <1>0, AsyncAssumption DEF LoadOK
      <4> QED BY <4>1, <2>5, <2>6 DEF IsStaged
    <3> QED BY <3>1, <3>2
  <2>7. InFlight' = InFlight /\ UnderWay' \subseteq UnderWay \cup {r}
    BY <1>2, <2>4, <2>5, <2>6 DEF InFlight, UnderWay
  <2>8. SlotsHold' /\ SlotsEnough'
    BY <2>1, <2>7, <1>0, <1>1, SlotsSame, EnoughKept
  <2>9. CallsOK'
    <3>1. CallOK(r)'
      BY <2>4, <2>5 DEF CallOK
    <3>2. ASSUME NEW q \in Requests, q # r PROVE CallOK(q)'
      <4>1. CallOK(q)
        BY <1>0 DEF CallsOK
      <4>2. CASE requests'[q].stage = requests[q].stage
        BY <4>1, <4>2, <3>2, <2>1, <2>6, <1>1 DEF CallOK, SameAsked
      <4>3. CASE requests[q].stage = "pending" /\ requests'[q].stage = "lost"
        BY <4>1, <4>3, <3>2, <2>1, <2>6, <1>1 DEF CallOK, SameAsked
      <4> QED BY <4>2, <4>3, <3>2, <2>6
    <3> QED BY <3>1, <3>2 DEF CallsOK
  <2>10. /\ load' \in [game : 0 .. LoadBound, known : BOOLEAN, pending : Requests \cup {NoRequest}]
         /\ load'.game = load.game /\ load'.known = load.known /\ load'.pending = r
    BY <2>1, <1>0 DEF Types
  <2>11. Types' /\ LoadOK'
    BY <2>1, <2>4, <2>5, <2>10, <1>0, <1>1 DEF Types, LoadOK
  <2>12. MediaOK'
    <3>1. game = 0
      BY <2>1, <1>0 DEF LoadOK
    <3> QED BY <3>1, <1>0, <1>1, MediaKept DEF Types
  <2> QED BY <2>1, <2>8, <2>9, <2>11, <2>12, <1>0 DEF IInv
<1>5. ASSUME NEW of \in 1 .. LoadBound, BeginChangeMediaInternal(r, hash, of, game, TRUE),
             load' = load,
             \/ game = 0 /\ (~Impatient => ~AtOnce(hash))
             \/ of = game /\ game # 0
      PROVE  IInv'
  <2> DEFINE returning == TRUE
  <2>1. /\ requests' \in [Requests -> Call]
        /\ handles' \in [Slots -> Requests \cup {NoRequest}]
        /\ CallsOK' /\ SlotsHold' /\ SlotsEnough'
        /\ OnlyOf(r, requests, requests')
        /\ requests'[r].kind = "media" /\ requests'[r].game = of /\ requests'[r].hash = hash
        /\ requests'[r].aborted = "no"
        /\ AtOnce(hash) => requests'[r].stage = "done"
    <3>1. BeginChangeMediaInternal(r, hash, of, game, returning) /\ returning \in BOOLEAN
      BY <1>5
    <3>2. PICK current \in 0 .. LoadBound : current = game
      BY <1>0 DEF Types
    <3> HIDE DEF returning
    <3>3. BeginChangeMediaInternal(r, hash, of, current, returning)
      BY <3>1, <3>2
    <3> QED BY <3>1, <3>3, <1>1, <1>2, InternalKeeps
  <2>2. /\ beginning' \in {beginning, r}
        /\ \/ /\ AtOnce(hash) /\ media' = hash /\ corrupt' = (corrupt \/ game = 0)
              /\ hardcore' = (hardcore /\ hashes[hash] # "none") /\ overruled' = FALSE
           \/ /\ ~AtOnce(hash) /\ media' = media /\ corrupt' = corrupt
              /\ hardcore' = hardcore /\ overruled' = overruled
    <3>1. CASE AtOnce(hash)
      BY <3>1, <1>5 DEF BeginChangeMediaInternal, ChangeMediaInternal
    <3>2. CASE ~AtOnce(hash)
      BY <3>2, <1>5 DEF BeginChangeMediaInternal, rules
    <3> QED BY <3>1, <3>2
  <2>3. hardcore' \in BOOLEAN /\ overruled' \in BOOLEAN /\ corrupt' \in BOOLEAN
    BY <2>2, <1>0 DEF Types
  <2>4. ~Impatient => ~corrupt'
    BY <2>2, <1>0, <1>5
  <2>5. Types'
    BY <2>1, <2>2, <2>3, <1>0, <1>1, <1>5 DEF Types
  <2>6. LoadOK'
    BY <2>1, <2>2, <1>0, <1>1, <1>2, <1>5 DEF LoadOK, OnlyOf, Types
  <2>7. MediaOK'
    <3>1. CASE game = 0
      BY <3>1, <1>0, <1>1, MediaKept DEF Types
    <3>2. CASE game # 0 /\ AtOnce(hash)
      BY <3>2, <2>1, <2>2, <1>1, <1>5 DEF MediaOK, MediaFollowsHost, AtOnce
    <3>3. CASE game # 0 /\ ~AtOnce(hash)
      BY <3>3, <2>1, <2>2, <1>0, <1>1, <1>2, MediaKeptByCall
    <3> QED BY <3>1, <3>2, <3>3
  <2> QED BY <2>1, <2>4, <2>5, <2>6, <2>7 DEF IInv
<1>6. CASE load.known /\ (AtOnce(hash) => Impatient) /\ load' = load
           /\ BeginChangeMediaInternal(r, hash, load.game, game, TRUE)
  <2>1. load.game \in 1 .. LoadBound /\ game = 0
    BY <1>0, <1>6 DEF LoadOK, Types
  <2> QED BY <2>1, <1>5, <1>6
<1>7. CASE load.game = 0 /\ game # 0 /\ load' = load
           /\ BeginChangeMediaInternal(r, hash, game, game, TRUE)
  <2>1. game \in 1 .. LoadBound
    BY <1>0, <1>7 DEF Types
  <2> QED BY <2>1, <1>5, <1>7
<1>8. CASE Refuse(r, "media") /\ UNCHANGED <<load, media, rules, corrupt>>
  <2>1. /\ OnlyOf(r, requests, requests')
        /\ requests'[r].kind = "media" /\ requests'[r].aborted = "no" /\ ~requests'[r].late
        /\ requests'[r].stage = "done" /\ requests'[r].calls = 1
    BY <1>0, <1>1, <1>8, BegunFacts
  <2>2. /\ handles' = handles /\ beginning' = beginning /\ load' = load /\ media' = media
        /\ hardcore' = hardcore /\ overruled' = overruled /\ corrupt' = corrupt
    BY <1>8 DEF Refuse, rules
  <2>3. InFlight' = InFlight \ {r} /\ UnderWay' \subseteq UnderWay /\ r \notin InFlight
    BY <2>1, <1>2, StageSets DEF InFlight
  <2>4. SlotsHold' /\ SlotsEnough'
    BY <2>2, <2>3, <1>0, <1>1, SlotsSame, EnoughKept
  <2>5. CallOK(r)'
    BY <2>1, <2>2, <1>1, AsyncAssumption DEF CallOK
  <2>6. CallsOK'
    BY <2>1, <2>2, <2>5, <1>0, <1>1, CallsKept
  <2>7. Types' /\ LoadOK'
    BY <2>1, <2>2, <1>0, <1>1, <1>2 DEF Types, LoadOK, OnlyOf
  <2>8. MediaOK'
    BY <2>1, <2>2, <1>0, <1>1, <1>2, MediaKeptByCall
  <2> QED BY <2>2, <2>4, <2>6, <2>7, <2>8, <1>0 DEF IInv
<1> QED BY <1>4, <1>6, <1>7, <1>8 DEF BeginChangeMedia

\* An answer gives back the slot of its call and leaves the others alone.
LEMMA AnsweredKeeps ==
  ASSUME IInv, NEW r \in Requests, NEW kind, Answerable(r, kind), beginning' = beginning,
         destroyed' = destroyed, OnlyOf(r, requests, requests'),
         requests'[r].stage \in {"done", "lost"}, CallOK(r)',
         named /\ ~Impatient => named' \/ ~AwaitsEntries,
         user' = "LOGIN_REQUESTED" => user = "LOGIN_REQUESTED"
  PROVE  /\ requests' \in [Requests -> Call]
         /\ handles' \in [Slots -> Requests \cup {NoRequest}]
         /\ CallsOK' /\ SlotsHold' /\ SlotsEnough'
<1>0. /\ Types /\ CallsOK /\ SlotsHold /\ SlotsEnough
  BY DEF IInv
<1>1. handles' = Released(handles, r)
  BY DEF Answerable
<1>2. InFlight' = InFlight \ {r} /\ UnderWay' \subseteq UnderWay
  BY StageSets
<1>3. SlotsHold' /\ handles' \in [Slots -> Requests \cup {NoRequest}]
  BY <1>0, <1>1, <1>2, SlotsReleased DEF Types
<1>4. SlotsEnough'
  BY <1>0, <1>2, EnoughKept
<1>5. CallsOK'
  BY <1>0, CallsKept
<1> QED BY <1>3, <1>4, <1>5 DEF OnlyOf

\* The list a call fetched comes, or it was aborted.
LEMMA FetchedIInv ==
  ASSUME IInv, NEW r \in Requests,
         ProgressAnswered(r) \/ LibraryAnswered(r) \/ EntriesAnswered(r)
  PROVE  IInv'
<1>0. /\ Types /\ CallsOK /\ LoadOK /\ SlotsHold /\ SlotsEnough /\ MediaOK
      /\ ~Impatient => ~corrupt
  BY DEF IInv
<1>1. PICK kind \in {"progress", "library", "entries"} :
        /\ Answerable(r, kind)
        /\ \/ requests[r].aborted = "ABORTED" /\ requests' = Dropped(requests, r)
              /\ corrupt' = corrupt
           \/ requests[r].aborted = "no" /\ requests' = CalledBack(requests, r)
              /\ corrupt' \in {corrupt, corrupt \/ (kind = "entries" /\ ~named)}
        /\ UNCHANGED <<beginning, player, games, hashes, rules, destroyed>>
  <2>1. CASE ProgressAnswered(r)
    BY <2>1, <1>0 DEF ProgressAnswered, FetchAnswered, Types
  <2>2. CASE LibraryAnswered(r)
    BY <2>2, <1>0 DEF LibraryAnswered, FetchAnswered, Types
  <2>3. CASE EntriesAnswered(r)
    BY <2>3, <1>0 DEF EntriesAnswered, FetchAnswered, Types
  <2> QED BY <2>1, <2>2, <2>3
<1>2. /\ requests[r].stage = "inflight" /\ ~destroyed /\ requests[r].kind = kind
      /\ beginning' = beginning /\ user' = user /\ named' = named /\ game' = game
      /\ load' = load /\ media' = media /\ hashes' = hashes /\ hardcore' = hardcore
      /\ overruled' = overruled /\ destroyed' = destroyed
  BY <1>1 DEF Answerable, player, games, rules
<1>3. requests[r].calls = 0 /\ ~requests[r].late /\ requests \in [Requests -> Call]
      /\ NoRequest # r
  BY <1>0, <1>2, AsyncAssumption DEF CallsOK, CallOK, Types
<1>4. /\ OnlyOf(r, requests, requests') /\ requests'[r].stage \in {"done", "lost"}
      /\ CallOK(r)'
  <2>1. CASE requests[r].aborted = "ABORTED" /\ requests' = Dropped(requests, r)
    <3>1. IsStaged(r, requests, requests', "lost")
      BY <2>1, <1>3, StagedFacts
    <3> QED BY <2>1, <3>1, <1>2, <1>3 DEF IsStaged, SameAsked, CallOK
  <2>2. CASE requests[r].aborted = "no" /\ requests' = CalledBack(requests, r)
    <3>1. IsCalledBack(r, requests, requests')
      BY <2>2, <1>3, CalledBackFacts
    <3> QED BY <2>2, <3>1, <1>2, <1>3 DEF IsCalledBack, SameAsked, CallOK
  <2> QED BY <1>1, <2>1, <2>2
<1>5. /\ requests' \in [Requests -> Call]
      /\ handles' \in [Slots -> Requests \cup {NoRequest}]
      /\ CallsOK' /\ SlotsHold' /\ SlotsEnough'
  BY <1>1, <1>2, <1>4, AnsweredKeeps
<1>6. corrupt' \in BOOLEAN /\ (~Impatient => ~corrupt')
  <2>1. kind = "entries" /\ requests[r].aborted = "no" /\ ~Impatient => named
    BY <1>0, <1>2 DEF CallsOK, CallOK
  <2>2. corrupt \in BOOLEAN /\ (~Impatient => ~corrupt)
    BY <1>0 DEF Types
  <2>3. CASE corrupt' = corrupt
    BY <2>2, <2>3
  <2>4. CASE /\ requests[r].aborted = "no"
             /\ corrupt' = (corrupt \/ (kind = "entries" /\ ~named))
    BY <2>1, <2>2, <2>4, Zenon
  <2>5. \/ corrupt' = corrupt
        \/ /\ requests[r].aborted = "no"
           /\ corrupt' = (corrupt \/ (kind = "entries" /\ ~named))
    <3>1. requests[r].aborted = "no" =>
            corrupt' = corrupt \/ corrupt' = (corrupt \/ (kind = "entries" /\ ~named))
      BY <1>1, Zenon
    <3> QED BY <3>1, <1>1, Zenon
  <2> QED BY <2>3, <2>4, <2>5, Zenon
<1>7. Types' /\ LoadOK'
  BY <1>0, <1>2, <1>4, <1>5, <1>6 DEF Types, LoadOK, OnlyOf
<1>8. MediaOK'
  BY <1>0, <1>2, <1>4, MediaKeptByCall
<1> QED BY <1>5, <1>6, <1>7, <1>8 DEF IInv

\* The login is answered, also after a logout or an abort.
LEMMA LoggedInIInv ==
  ASSUME IInv, NEW r \in Requests, LoginAnswered(r)
  PROVE  IInv'
<1>0. /\ Types /\ CallsOK /\ LoadOK /\ SlotsHold /\ SlotsEnough /\ MediaOK
      /\ ~Impatient => ~corrupt
  BY DEF IInv
<1>1. /\ Answerable(r, "login") /\ beginning' = beginning /\ hashes' = hashes
      /\ hardcore' = hardcore /\ overruled' = overruled /\ destroyed' = destroyed
      /\ corrupt' = corrupt
      /\ requests[r].stage = "inflight" /\ ~destroyed /\ requests[r].kind = "login"
      /\ handles' = Released(handles, r)
  BY DEF LoginAnswered, Answerable, rules
<1>2. requests[r].calls = 0 /\ ~requests[r].late /\ requests \in [Requests -> Call]
      /\ NoRequest # r
  BY <1>0, <1>1, AsyncAssumption DEF CallsOK, CallOK, Types
<1>3. CASE /\ requests[r].aborted = "ABORTED"
           /\ user' = "NONE" /\ named' = FALSE /\ (AwaitsEntries => Impatient)
           /\ game' = 0 /\ load' = NoLoad /\ media' = NoHash
           /\ requests' = Dropped(Dropped(requests, load.pending), r)
  <2> DEFINE c == Dropped(requests, load.pending)
  <2>1. r # load.pending
    BY <1>0, <1>1, <1>2 DEF LoadOK
  <2>2. /\ c \in [Requests -> Call]
        /\ \A q \in Requests : q # load.pending => c[q] = requests[q]
        /\ load.pending # NoRequest => IsStaged(load.pending, requests, c, "lost")
    <3>1. CASE load.pending = NoRequest
      BY <3>1, <1>2 DEF Dropped
    <3>2. CASE load.pending # NoRequest
      <4>1. load.pending \in Requests
        BY <3>2, <1>0 DEF Types
      <4>2. IsStaged(load.pending, requests, c, "lost")
        BY <4>1, <3>2, <1>2, StagedFacts
      <4> QED BY <4>1, <4>2 DEF IsStaged, OnlyOf
    <3> QED BY <3>1, <3>2
  <2>3. requests' = Dropped(c, r)
    BY <1>3
  <2> HIDE DEF c
  <2>4. IsStaged(r, c, requests', "lost")
    BY <2>2, <2>3, <1>2, StagedFacts
  <2>5. ASSUME NEW q \in Requests
        PROVE  /\ SameAsked(requests'[q], requests[q])
               /\ requests'[q].calls = requests[q].calls
               /\ requests'[q].late <=> requests[q].late
               /\ \/ q # r /\ requests'[q].stage = requests[q].stage
                  \/ q # r /\ requests[q].stage = "pending" /\ requests'[q].stage = "lost"
                  \/ q = r /\ requests'[q].stage = "lost"
    <3>1. CASE q # r /\ q # load.pending
      BY <2>2, <2>4, <3>1 DEF IsStaged, OnlyOf, SameAsked
    <3>2. CASE q = load.pending
      <4>1. requests[q].stage = "pending" /\ IsStaged(q, requests, c, "lost") /\ q # r
        BY <3>2, <2>1, <2>2, <1>0, AsyncAssumption DEF LoadOK
      <4> QED BY <4>1, <2>4 DEF IsStaged, OnlyOf
    <3>3. CASE q = r
      BY <3>3, <2>1, <2>2, <2>4 DEF IsStaged, SameAsked
    <3> QED BY <3>1, <3>2, <3>3
  <2>6. InFlight' = InFlight \ {r} /\ UnderWay' \subseteq UnderWay
    BY <1>1, <2>5 DEF InFlight, UnderWay
  <2>7. SlotsHold' /\ SlotsEnough' /\ handles' \in [Slots -> Requests \cup {NoRequest}]
    BY <2>6, <1>0, <1>1, SlotsReleased, EnoughKept DEF Types
  <2>8. requests' \in [Requests -> Call]
    BY <2>4 DEF IsStaged, OnlyOf
  <2>9. CallsOK'
    <3>1. ASSUME NEW q \in Requests PROVE CallOK(q)'
      <4>1. CallOK(q)
        BY <1>0 DEF CallsOK
      <4>2. CASE q = r
        BY <4>1, <4>2, <1>1, <1>3, <2>5 DEF CallOK, SameAsked
      <4>3. CASE q # r /\ requests'[q].stage = requests[q].stage
        <5>1. requests[q].stage = "inflight" /\ requests[q].kind = "entries"
                /\ requests[q].aborted = "no" => Impatient
          BY <1>3 DEF AwaitsEntries, InFlight
        <5> QED BY <4>1, <4>3, <5>1, <1>1, <1>3, <2>5 DEF CallOK, SameAsked
      <4>4. CASE q # r /\ requests[q].stage = "pending" /\ requests'[q].stage = "lost"
        BY <4>1, <4>4, <1>1, <1>3, <2>5 DEF CallOK, SameAsked
      <4> QED BY <4>2, <4>3, <4>4, <2>5
    <3> QED BY <3>1 DEF CallsOK
  <2>10. /\ NoLoad \in [game : 0 .. LoadBound, known : BOOLEAN, pending : Requests \cup {NoRequest}]
         /\ NoLoad.pending = NoRequest /\ NoLoad.known = FALSE /\ NoLoad.game = 0
         /\ NoHash \in Hashes /\ 0 \in 0 .. LoadBound
    BY AsyncAssumption DEF NoLoad, Hashes
  <2>11. Types'
    BY <2>7, <2>8, <2>10, <1>0, <1>1, <1>3 DEF Types
  <2>12. LoadOK'
    BY <2>10, <1>0, <1>1, <1>3 DEF LoadOK
  <2>13. MediaOK'
    BY <1>0, <1>3, MediaKept DEF Types
  <2> QED BY <2>7, <2>9, <2>11, <2>12, <2>13, <1>0, <1>1 DEF IInv
<1>4. CASE /\ requests[r].aborted = "no"
           /\ \/ user = "NONE" /\ UNCHANGED player
              \/ user # "NONE" /\ user' = "NONE" /\ UNCHANGED named
              \/ user # "NONE" /\ user' = "LOGGED_IN" /\ named' = TRUE
           /\ requests' = CalledBack(requests, r)
           /\ UNCHANGED games
  <2>1. /\ user' \in {"NONE", "LOGGED_IN"} /\ named' \in BOOLEAN /\ (named => named')
        /\ game' = game /\ load' = load /\ media' = media
    BY <1>0, <1>4 DEF player, games, Types
  <2>2. IsCalledBack(r, requests, requests')
    BY <1>2, <1>4, CalledBackFacts
  <2>3. /\ OnlyOf(r, requests, requests') /\ requests'[r].stage = "done" /\ CallOK(r)'
    BY <2>1, <2>2, <1>1, <1>2, <1>4 DEF IsCalledBack, SameAsked, CallOK
  <2>4. /\ requests' \in [Requests -> Call]
        /\ handles' \in [Slots -> Requests \cup {NoRequest}]
        /\ CallsOK' /\ SlotsHold' /\ SlotsEnough'
    BY <2>1, <2>3, <1>1, AnsweredKeeps
  <2>5. Types' /\ LoadOK'
    BY <2>1, <2>3, <2>4, <1>0, <1>1 DEF Types, LoadOK, OnlyOf
  <2>6. MediaOK'
    BY <2>1, <2>3, <1>0, <1>1, MediaKeptByCall
  <2> QED BY <2>4, <2>5, <2>6, <1>0, <1>1 DEF IInv
<1> QED BY <1>3, <1>4 DEF LoginAnswered

\* Once the server has said of what game a hash is, it stays that.
LEMMA IdentityKept ==
  ASSUME Types, NEW hash \in Hashes, NEW id \in Identities(hash),
         hashes' = [hashes EXCEPT ![hash] = id]
  PROVE  /\ hashes' \in [Hashes -> {"unknown", "game", "other", "none"}]
         /\ hashes'[hash] = id /\ id # "unknown"
         /\ \A h \in Hashes : h # hash \/ hashes[h] # "unknown" => hashes'[h] = hashes[h]
<1>1. hashes \in [Hashes -> {"unknown", "game", "other", "none"}]
  BY DEF Types
<1>2. id \in {"game", "other", "none"} /\ (hashes[hash] # "unknown" => id = hashes[hash])
  BY <1>1 DEF Identities
<1>3. hashes'[hash] = id /\ \A h \in Hashes : h # hash => hashes'[h] = hashes[h]
  BY <1>1
<1>4. hashes' \in [Hashes -> {"unknown", "game", "other", "none"}]
  BY <1>1, <1>2
<1> QED BY <1>2, <1>3, <1>4

\* The server says of what game the hash is, and the media is changed if it is still
\* that game.
LEMMA MediaAnsweredIInv ==
  ASSUME IInv, NEW r \in Requests, MediaAnswered(r)
  PROVE  IInv'
<1>0. /\ Types /\ CallsOK /\ LoadOK /\ SlotsHold /\ SlotsEnough /\ MediaOK
      /\ ~Impatient => ~corrupt
  BY DEF IInv
<1>1. /\ Answerable(r, "media") /\ beginning' = beginning
      /\ user' = user /\ named' = named /\ game' = game /\ load' = load
      /\ destroyed' = destroyed
      /\ requests[r].stage = "inflight" /\ ~destroyed /\ requests[r].kind = "media"
      /\ handles' = Released(handles, r)
  BY DEF MediaAnswered, Answerable, player
<1>2. /\ requests[r].calls = 0 /\ ~requests[r].late /\ requests \in [Requests -> Call]
      /\ NoRequest # r /\ requests[r].game # 0 /\ requests[r].hash # NoHash
  BY <1>0, <1>1, AsyncAssumption DEF CallsOK, CallOK, Types
<1>3. PICK hash \in Hashes : hash = requests[r].hash
  <2>1. requests[r] \in Call
    BY <1>2
  <2> QED BY <2>1 DEF Call
<1>4. \/ /\ requests[r].aborted = "ABORTED" /\ requests' = Dropped(requests, r)
         /\ hashes' = hashes \/ \E id \in Identities(hash) : hashes' = [hashes EXCEPT ![hash] = id]
         /\ media' = media /\ hardcore' = hardcore /\ overruled' = overruled
         /\ corrupt' = corrupt
      \/ /\ requests[r].aborted = "no" /\ requests' = CalledBack(requests, r)
         /\ hashes' = hashes
         /\ media' = media /\ hardcore' = hardcore /\ overruled' = overruled
         /\ corrupt' = corrupt
      \/ /\ requests[r].aborted = "no" /\ game = requests[r].game
         /\ \E id \in Identities(hash) :
              /\ hashes' = [hashes EXCEPT ![hash] = id]
              /\ ChangeMediaInternal(requests, r, hash, id, game)
  BY <1>3 DEF MediaAnswered, StillActive, rules
<1>5. \/ requests[r].aborted = "ABORTED" /\ requests' = Dropped(requests, r)
      \/ requests[r].aborted = "no" /\ requests' = CalledBack(requests, r)
  BY <1>4 DEF ChangeMediaInternal
<1>6. /\ OnlyOf(r, requests, requests') /\ SameAsked(requests'[r], requests[r])
      /\ requests'[r].stage \in {"done", "lost"} /\ CallOK(r)'
      /\ requests[r].aborted = "no" => requests'[r].stage = "done"
  <2>1. CASE requests[r].aborted = "ABORTED" /\ requests' = Dropped(requests, r)
    <3>1. IsStaged(r, requests, requests', "lost")
      BY <2>1, <1>2, StagedFacts
    <3>2. requests'[r].aborted = "ABORTED" /\ requests'[r].kind = "media"
      BY <2>1, <3>1, <1>1 DEF IsStaged, SameAsked
    <3>3. beginning' = r /\ requests'[r].kind = "login" => FALSE
      BY <3>2
    <3>4. requests'[r].stage = "lost" /\ requests'[r].calls = 0 /\ ~requests'[r].late
      BY <3>1, <1>2 DEF IsStaged
    <3>5. CallOK(r)'
      BY <3>2, <3>3, <3>4 DEF CallOK
    <3> QED BY <2>1, <3>1, <3>4, <3>5 DEF IsStaged
  <2>2. CASE requests[r].aborted = "no" /\ requests' = CalledBack(requests, r)
    <3>1. IsCalledBack(r, requests, requests')
      BY <2>2, <1>2, CalledBackFacts
    <3>2. requests'[r].stage = "done" /\ requests'[r].calls = 1 /\ ~requests'[r].late
          /\ requests'[r].kind = "media"
      BY <3>1, <2>2, <1>1, <1>2 DEF IsCalledBack, SameAsked
    <3>3. CallOK(r)'
      BY <3>2 DEF CallOK
    <3> QED BY <3>1, <3>2, <3>3 DEF IsCalledBack
  <2> QED BY <1>5, <2>1, <2>2
<1>7. /\ requests' \in [Requests -> Call]
      /\ handles' \in [Slots -> Requests \cup {NoRequest}]
      /\ CallsOK' /\ SlotsHold' /\ SlotsEnough'
  BY <1>1, <1>6, AnsweredKeeps
<1>8. /\ hashes' \in [Hashes -> {"unknown", "game", "other", "none"}]
      /\ \A h \in Hashes : h # hash \/ hashes[h] # "unknown" => hashes'[h] = hashes[h]
  <2>1. CASE hashes' = hashes
    BY <2>1, <1>0 DEF Types
  <2>2. CASE \E id \in Identities(hash) : hashes' = [hashes EXCEPT ![hash] = id]
    BY <2>2, <1>0, IdentityKept
  <2> QED BY <1>4, <2>1, <2>2
<1>9. LoadOK'
  <2>1. Loaded \in Hashes
    BY DEF Hashes
  <2>2. \A q \in Requests : requests[q].stage = "pending" => requests'[q].stage = "pending"
    BY <1>1, <1>6 DEF OnlyOf
  <2>3. load.pending \in Requests \cup {NoRequest}
    BY <1>0 DEF Types
  <2>4. hashes[Loaded] = "game" => hashes'[Loaded] = "game"
    BY <2>1, <1>8
  <2> QED BY <2>2, <2>3, <2>4, <1>0, <1>1 DEF LoadOK
<1>10. CASE /\ media' = media /\ hardcore' = hardcore /\ overruled' = overruled
            /\ corrupt' = corrupt
  <2>1. game # 0 => hashes'[media] = hashes[media]
    BY <1>0, <1>2, <1>3, <1>8 DEF MediaOK, Types
  <2>2. MediaOK'
    BY <2>1, <1>0, <1>1, <1>6, <1>10, MediaKeptByCall
  <2>3. Types'
    BY <1>0, <1>1, <1>7, <1>8, <1>10 DEF Types
  <2> QED BY <2>2, <2>3, <1>0, <1>1, <1>7, <1>9, <1>10 DEF IInv
<1>11. CASE /\ requests[r].aborted = "no" /\ game = requests[r].game
            /\ \E id \in Identities(hash) :
                 /\ hashes' = [hashes EXCEPT ![hash] = id]
                 /\ ChangeMediaInternal(requests, r, hash, id, game)
  <2> PICK id \in Identities(hash) : /\ hashes' = [hashes EXCEPT ![hash] = id]
                                     /\ ChangeMediaInternal(requests, r, hash, id, game)
    BY <1>11
  <2>1. /\ media' = hash /\ overruled' = FALSE
        /\ hardcore' = (hardcore /\ id # "none") /\ corrupt' = (corrupt \/ game = 0)
    BY DEF ChangeMediaInternal
  <2>2. hashes'[hash] = id /\ id # "unknown"
    BY <1>0, IdentityKept
  <2>3. corrupt' \in BOOLEAN /\ hardcore' \in BOOLEAN /\ (~Impatient => ~corrupt')
    <3>1. corrupt' = corrupt
      BY <2>1, <1>0, <1>2, <1>11 DEF Types
    <3> QED BY <3>1, <2>1, <1>0 DEF Types
  <2>4. Types'
    BY <2>1, <2>3, <1>0, <1>1, <1>7, <1>8 DEF Types
  <2>5. MediaFollowsHost'
    <3>1. /\ requests'[r].kind = "media" /\ requests'[r].game = game'
          /\ requests'[r].hash = media' /\ requests'[r].stage = "done"
          /\ requests'[r].aborted = "no"
      BY <2>1, <1>1, <1>3, <1>6, <1>11 DEF SameAsked
    <3>2. hardcore' => hashes'[media'] # "none"
      BY <2>1, <2>2
    <3> QED BY <3>1, <3>2 DEF MediaFollowsHost
  <2>6. MediaOK'
    BY <2>1, <2>2, <2>5 DEF MediaOK
  <2> QED BY <2>3, <2>4, <2>6, <1>7, <1>9 DEF IInv
<1> QED BY <1>4, <1>10, <1>11

\* The client is destroyed: calls that have a slot learn of it.
LEMMA DestroyIInv ==
  ASSUME IInv, Destroy
  PROVE  IInv'
<1>0. /\ Types /\ CallsOK /\ LoadOK /\ SlotsHold /\ SlotsEnough /\ MediaOK
      /\ ~Impatient => ~corrupt
  BY DEF IInv
<1>1. /\ ~destroyed /\ beginning = NoRequest /\ destroyed' = TRUE
      /\ game' = 0 /\ load' = NoLoad /\ media' = NoHash
      /\ handles' = handles /\ beginning' = beginning /\ user' = user /\ named' = named
      /\ hashes' = hashes /\ hardcore' = hardcore /\ overruled' = overruled
      /\ corrupt' = corrupt
  BY DEF Destroy, Ready, player, rules
<1>2. requests \in [Requests -> Call]
  BY <1>0 DEF Types
<1>3. ASSUME NEW q \in Requests
      PROVE  /\ requests'[q] \in Call
             /\ \/ /\ HandleValid(q) /\ requests[q].stage = "inflight"
                   /\ requests'[q].stage = "inflight" /\ requests'[q].aborted = "DESTROYED"
                   /\ requests'[q].kind = requests[q].kind
                   /\ requests'[q].game = requests[q].game
                   /\ requests'[q].hash = requests[q].hash
                   /\ requests'[q].calls = requests[q].calls
                   /\ requests'[q].late <=> requests[q].late
                \/ /\ requests[q].stage = "pending"
                   /\ IsStaged(q, requests, Dropped(requests, q), "lost")
                   /\ requests'[q] = Dropped(requests, q)[q]
                \/ requests[q].stage # "inflight" /\ requests'[q] = requests[q]
  <2>1. requests[q] \in Call
    BY <1>2
  <2>2. requests'[q] = IF HandleValid(q) THEN [requests[q] EXCEPT !.aborted = "DESTROYED"]
                       ELSE Dropped(requests, load.pending)[q]
    BY DEF Destroy
  <2>3. HandleValid(q) <=> requests[q].stage = "inflight"
    <3>1. HandleValid(q) <=> \E s \in Slots : handles[s] = q
      <4>1. DOMAIN handles = Slots
        BY <1>0 DEF Types
      <4> QED BY <4>1 DEF HandleValid, Range
    <3>2. (\E s \in Slots : handles[s] = q) <=> q \in InFlight
      BY <1>0, <1>1, AsyncAssumption DEF SlotsHold
    <3> QED BY <3>1, <3>2 DEF InFlight
  <2>4. CASE HandleValid(q)
    <3> DEFINE n == [requests[q] EXCEPT !.aborted = "DESTROYED"]
    <3>1. n \in Call /\ n.stage = requests[q].stage /\ n.aborted = "DESTROYED"
          /\ n.kind = requests[q].kind /\ n.game = requests[q].game
          /\ n.hash = requests[q].hash /\ n.calls = requests[q].calls
          /\ (n.late <=> requests[q].late)
      BY <2>1 DEF Call
    <3>2. requests'[q] = n
      BY <2>2, <2>4
    <3> HIDE DEF n
    <3> QED BY <2>3, <2>4, <3>1, <3>2
  <2>5. CASE ~HandleValid(q) /\ q = load.pending
    <3>1. requests'[q] = Dropped(requests, q)[q] /\ q # NoRequest
      BY <2>2, <2>5, AsyncAssumption
    <3>2. IsStaged(q, requests, Dropped(requests, q), "lost")
      BY <3>1, <1>2, StagedFacts
    <3>3. requests[q].stage = "pending"
      BY <2>5, <3>1, <1>0 DEF LoadOK
    <3> QED BY <3>1, <3>2, <3>3 DEF IsStaged, OnlyOf
  <2>6. CASE ~HandleValid(q) /\ q # load.pending
    <3>1. Dropped(requests, load.pending)[q] = requests[q]
      BY <2>6, <1>2 DEF Dropped
    <3> QED BY <3>1, <2>1, <2>2, <2>3, <2>6
  <2> QED BY <2>4, <2>5, <2>6
<1>4. CallsOK'
  <2>1. ASSUME NEW q \in Requests PROVE CallOK(q)'
    <3>1. CallOK(q)
      BY <1>0 DEF CallsOK
    <3>2. q # beginning'
      BY <1>1, AsyncAssumption
    <3>3. CASE requests[q].stage = "inflight"
      <4>1. /\ requests'[q].stage = "inflight" /\ requests'[q].aborted = "DESTROYED"
            /\ requests'[q].kind = requests[q].kind
            /\ requests'[q].game = requests[q].game
            /\ requests'[q].hash = requests[q].hash
            /\ requests'[q].calls = requests[q].calls
            /\ requests'[q].late <=> requests[q].late
        BY <3>3, <1>3
      <4> QED BY <3>1, <3>2, <3>3, <4>1 DEF CallOK
    <3>4. CASE requests[q].stage = "pending" /\ requests'[q] = Dropped(requests, q)[q]
               /\ IsStaged(q, requests, Dropped(requests, q), "lost")
      <4>1. /\ SameAsked(requests'[q], requests[q]) /\ requests'[q].stage = "lost"
            /\ requests'[q].calls = requests[q].calls /\ (requests'[q].late <=> requests[q].late)
        BY <3>4 DEF IsStaged
      <4> QED BY <3>1, <3>2, <3>4, <4>1 DEF CallOK, SameAsked
    <3>5. CASE requests[q].stage # "inflight" /\ requests'[q] = requests[q]
      BY <3>1, <3>2, <3>5 DEF CallOK
    <3> QED BY <1>3, <3>3, <3>4, <3>5
  <2> QED BY <2>1 DEF CallsOK
<1>5. /\ NoLoad \in [game : 0 .. LoadBound, known : BOOLEAN, pending : Requests \cup {NoRequest}]
      /\ NoLoad.pending = NoRequest /\ NoLoad.known = FALSE /\ NoLoad.game = 0
      /\ NoHash \in Hashes /\ 0 \in 0 .. LoadBound
  BY AsyncAssumption DEF NoLoad, Hashes
<1>6. Types'
  <2>1. requests' \in [Requests -> Call]
    <3>1. requests' = [q \in Requests |-> requests'[q]]
      BY DEF Destroy
    <3> QED BY <3>1, <1>3
  <2> QED BY <2>1, <1>0, <1>1, <1>5 DEF Types
<1>7. LoadOK' /\ SlotsHold' /\ MediaOK'
  BY <1>1, <1>5 DEF LoadOK, SlotsHold, MediaOK, MediaFollowsHost
<1>8. SlotsEnough'
  <2>1. ASSUME NEW q \in Requests, requests'[q].stage \in {"inflight", "pending"}
        PROVE  requests[q].stage \in {"inflight", "pending"}
    BY <1>3, <2>1
  <2>2. UnderWay' \subseteq UnderWay
    BY <2>1 DEF UnderWay
  <2> QED BY <2>2, <1>0, EnoughKept
<1> QED BY <1>0, <1>1, <1>4, <1>6, <1>7, <1>8 DEF IInv

\* An answer that comes after the client is gone finds that its call was told.
LEMMA LateIInv ==
  ASSUME IInv, NEW r \in Requests, AnsweredAfterDestroy(r)
  PROVE  IInv'
<1>0. /\ Types /\ CallsOK /\ LoadOK /\ SlotsHold /\ SlotsEnough /\ MediaOK
      /\ ~Impatient => ~corrupt
  BY DEF IInv
<1>1. /\ destroyed /\ requests[r].stage = "inflight" /\ requests' = Dropped(requests, r)
      /\ corrupt' = (corrupt \/ requests[r].aborted # "DESTROYED")
      /\ handles' = handles /\ beginning' = beginning /\ user' = user /\ named' = named
      /\ game' = game /\ load' = load /\ media' = media /\ hashes' = hashes
      /\ hardcore' = hardcore /\ overruled' = overruled /\ destroyed' = destroyed
  BY DEF AnsweredAfterDestroy, player, games, rules
<1>2. CallOK(r) /\ requests \in [Requests -> Call] /\ NoRequest # r
  BY <1>0, AsyncAssumption DEF CallsOK, Types
<1>3. requests[r].aborted = "DESTROYED"
  BY <1>1, <1>2 DEF CallOK
<1>4. IsStaged(r, requests, requests', "lost")
  BY <1>1, <1>2, StagedFacts
<1>5. OnlyOf(r, requests, requests') /\ requests'[r].stage = "lost"
  BY <1>4 DEF IsStaged
<1>6. beginning = NoRequest
  BY <1>0, <1>1 DEF LoadOK
<1>7. CallOK(r)'
  BY <1>1, <1>2, <1>3, <1>4, <1>6 DEF CallOK, IsStaged, SameAsked
<1>8. CallsOK'
  BY <1>0, <1>1, <1>5, <1>7, CallsKept
<1>9. InFlight' = InFlight \ {r} /\ UnderWay' \subseteq UnderWay
  BY <1>5, StageSets
<1>10. SlotsEnough' /\ SlotsHold'
  BY <1>0, <1>1, <1>9, EnoughKept DEF SlotsHold
<1>11. corrupt' = corrupt
  BY <1>0, <1>1, <1>3 DEF Types
<1>12. Types' /\ LoadOK'
  BY <1>0, <1>1, <1>5, <1>11 DEF Types, LoadOK, OnlyOf
<1>13. MediaOK'
  BY <1>0, <1>1, <1>5, MediaKeptByCall
<1> QED BY <1>0, <1>8, <1>10, <1>11, <1>12, <1>13 DEF IInv

\* Every step keeps the invariant.
LEMMA NextIInv ==
  ASSUME IInv, [Next]_vars
  PROVE  IInv'
<1>1. CASE HostCalls
  <2> PICK r \in Requests :
        \/ BeginLogin(r) \/ BeginFetchAllUserProgress(r) \/ BeginFetchHashLibrary(r)
        \/ BeginFetchLeaderboardEntries(r) \/ AbortAsync(r)
        \/ \E hash \in Hashes \ {NoHash} : BeginChangeMedia(r, hash)
        \/ \E file \in DOMAIN Files : BeginIdentifyAndChangeMedia(r, file)
    BY <1>1 DEF HostCalls
  <2>1. ASSUME NEW file \in DOMAIN Files PROVE Files[file] \in Hashes
    BY DEF Hashes, Range
  <2>2. ASSUME \/ \E hash \in Hashes \ {NoHash} : BeginChangeMedia(r, hash)
               \/ \E file \in DOMAIN Files : BeginIdentifyAndChangeMedia(r, file)
        PROVE  IInv'
    <3>1. \E hash \in Hashes : BeginChangeMedia(r, hash)
      BY <2>1, <2>2 DEF BeginIdentifyAndChangeMedia
    <3> QED BY <3>1, ChangeIInv
  <2> QED BY <2>2, BeginsIInv, AbortIInv
<1>2. CASE Answers
  BY <1>2, LoggedInIInv, MediaAnsweredIInv, LateIInv, FetchedIInv DEF Answers
<1>3. CASE UnloadGame \/ Logout \/ BeginLoadGame \/ LoadFails
  BY <1>3, GamesIInv
<1>4. CASE SetHardcoreEnabled \/ LoadAnswered \/ UNCHANGED vars
  BY <1>4, QuietIInv
<1>5. CASE Return
  BY <1>5, ReturnIInv
<1>6. CASE ActivateGame
  BY <1>6, ActivateIInv
<1>7. CASE Destroy
  BY <1>7, DestroyIInv
<1> QED BY <1>1, <1>2, <1>3, <1>4, <1>5, <1>6, <1>7 DEF Next

-----------------------------------------------------------------------------
(* The theorems.                                                            *)

\* The invariant holds of every set of calls, files and slots.
THEOREM AsyncInvariant == Spec => []IInv
<1> QED BY InitIInv, NextIInv, PTL DEF Spec

\* The callback of a call is called once, or the call was aborted; the slots hold the
\* calls under way, each once; and no answer uses what is gone, whatever the order of
\* answers, aborts, logouts, loads and the end of the client, when the host is patient.
THEOREM CallbacksAccountedAlways ==
  ASSUME ~Impatient
  PROVE  Spec => []CallbacksAccounted
<1>1. ASSUME IInv PROVE CallbacksAccounted
  <2>0. /\ Types /\ CallsOK /\ LoadOK /\ SlotsHold /\ SlotsEnough /\ MediaOK
        /\ ~Impatient => ~corrupt
    BY <1>1 DEF IInv
  <2>1. TypeOK
    <3>1. \A r \in Requests : requests[r] \in Call
      BY <2>0 DEF Types
    <3>2. ASSUME NEW r \in Requests
          PROVE  /\ requests[r].stage \in {"unused", "pending", "inflight", "done", "lost"}
                 /\ requests[r].aborted \in {"no", "ABORTED", "DESTROYED"}
                 /\ requests[r].hash \in Hashes
      BY <3>1 DEF Call
    <3> QED BY <3>2, <2>0 DEF TypeOK, Types
  <2>2. CalledOnceUnlessAborted
    BY <2>0 DEF CalledOnceUnlessAborted, CallsOK, CallOK
  <2>3. SlotsHoldCallsUnderWay
    <3>1. ASSUME ~destroyed, NEW r \in InFlight
          PROVE  Cardinality({s \in Slots : handles[s] = r}) = 1
      <4>1. PICK s \in Slots : handles[s] = r
        BY <2>0, <3>1 DEF SlotsHold
      <4>2. r # NoRequest
        BY AsyncAssumption DEF InFlight
      <4>3. {t \in Slots : handles[t] = r} = {s}
        BY <2>0, <3>1, <4>1, <4>2 DEF SlotsHold
      <4> QED BY <4>3, FS_Singleton
    <3> QED BY <3>1, <2>0 DEF SlotsHoldCallsUnderWay, SlotsHold
  <2> QED BY <2>0, <2>1, <2>2, <2>3 DEF CallbacksAccounted
<1> QED BY <1>1, AsyncInvariant, PTL

\* The media of a game is what it was loaded by or what the host asked for, of that
\* game, and hardcore does not go on with media known to be unidentified.
THEOREM MediaFollowsHostAlways == Spec => []MediaFollowsHost
<1>1. IInv => MediaFollowsHost
  BY DEF IInv, MediaOK
<1> QED BY <1>1, AsyncInvariant, PTL
=============================================================================
