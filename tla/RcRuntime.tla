----------------------------- MODULE RcRuntime -----------------------------
(***************************************************************************)
(* rc_runtime_t: what a host without rc_client keeps.  It activates        *)
(* achievements, leaderboards and a rich presence script, calls do_frame,  *)
(* is told what happens by events, may deactivate an item from the handler *)
(* of its event, reports addresses that are not valid, and saves and       *)
(* restores the progress.                                                  *)
(*                                                                         *)
(* What the conditions of an item compute in a frame is a choice here      *)
(* (RcTrigger computes it); "data" is all they keep from frame to frame.   *)
(***************************************************************************)
EXTENDS Naturals, Sequences, FiniteSets, SequencesExt, FiniteSetsExt, Functions

CONSTANTS
  Hosts,      \* what a host may use: [achievements, leaderboards, scripts] and,
              \* in sequences, the achievements and leaderboards it begins with
  FrameBound, \* calls of do_frame that are followed
  CallBound   \* other calls of the host that are followed

\* An achievement or leaderboard is defined by [id, md5, address, data, fresh,
\* target, size]: the address it reads, the data it may have, those of a reset,
\* its measured target, and the size of its chunk of a save.  A script is
\* [md5, names, conditional, display]: its named values, whether a display string
\* has a condition, and whether it has a display string at all.

Board == INSTANCE RcLboard

Definitions == UNION {h.achievements \cup h.leaderboards : h \in Hosts}
Ids         == {d.id : d \in Definitions}
NoScript    == [md5 |-> "none"]
NoSave      == [md5 |-> "none"]
Unknown     == 99 \* RC_MEASURED_UNKNOWN
Unasked     == 0  \* less than any size
MinSize     == 1 \* the marker, the chunk of memrefs and the checksum

\* rc_runtime_activate_achievement and rc_runtime_activate_lboard look for an item
\* with the id and take its place: a list has one item with an id.  Achievements and
\* leaderboards are numbered apart, which is all "id" tells of them here.
ListOf(items, defs) ==
  /\ items \in Seq(defs)
  /\ \A i, j \in DOMAIN items : items[i].id = items[j].id => i = j

ASSUME RuntimeAssumption ==
  /\ \A d \in Definitions : /\ d.fresh \in d.data /\ d.size \in Nat \ {0}
                            /\ d.target # 0 => 0 \in d.data
  /\ \A h \in Hosts : /\ ListOf(h.loaded, h.achievements) /\ ListOf(h.boards, h.leaderboards)
                      /\ \A a \in h.achievements, b \in h.leaderboards : a.id # b.id
                      /\ \A script \in h.scripts : /\ script.names \in Seq(STRING)
                                                  /\ script.conditional \in BOOLEAN
                      /\ \A s, t \in h.scripts : s.md5 = t.md5 => s = t
  /\ FrameBound \in Nat /\ CallBound \in Nat

VARIABLES
  host,         \* the host, one of Hosts
  triggers,     \* rc_runtime_t.triggers: [def, state, data, announced, invalid, size]
  lboards,      \* rc_runtime_t.lboards
  richpresence, \* NoScript, or [script, values, conditions]
  saved,        \* the last save state, or NoSave
  loop,         \* where do_frame is: "idle", "triggers", "lboards", "richpresence"
  at,           \* the index of its loop
  view,         \* history: the state of each item as the host follows it by events
  visits,       \* history: how often this frame looked at each item
  asked,        \* history: the size the host was told, Unasked when it must ask again
  snapshot,     \* history: the runtime when it was saved
  called,       \* history: what the last call of the host was, "other" but for some
  frames, calls

runtime == <<triggers, lboards, richpresence>>
history == <<visits, asked, snapshot, called>>
vars == <<host, runtime, saved, loop, at, view, history, frames, calls>>

-----------------------------------------------------------------------------
(* The lists of items *)

Fresh(def) ==
  [def |-> def, state |-> "WAITING", data |-> def.fresh, announced |-> 0,
   invalid |-> FALSE, size |-> 0]

\* rc_reset_trigger, rc_reset_lboard
ResetItem(item) == [item EXCEPT !.state = "WAITING", !.data = item.def.fresh]

TriggerActive(state) == state \notin {"INACTIVE", "TRIGGERED", "DISABLED"}

IndexOfId(items, id) == {i \in DOMAIN items : items[i].def.id = id}

\* The last item takes the place of the one that is removed.
DeactivatedByIndex(items, index) ==
  [i \in 1 .. Len(items) - 1 |-> IF i = index THEN Last(items) ELSE items[i]]

Deactivated(items, id) ==
  IF IndexOfId(items, id) = {} THEN items
  ELSE DeactivatedByIndex(items, Min(IndexOfId(items, id)))

\* Mutant: a new definition takes over the place of the old one as it is.
ActivatedInPlace(items, def) ==
  IF IndexOfId(items, def.id) = {} THEN Append(items, Fresh(def))
  ELSE [items EXCEPT ![Min(IndexOfId(items, def.id))] =
          ResetItem([@ EXCEPT !.def = def])]

\* rc_runtime_activate_achievement and rc_runtime_activate_lboard: the same
\* definition is reset, another one with the id is replaced.
Activated(items, def) ==
  IF \E i \in DOMAIN items : items[i].def = def
  THEN [i \in DOMAIN items |-> IF items[i].def = def THEN ResetItem(items[i]) ELSE items[i]]
  ELSE Append(Deactivated(items, def.id), Fresh(def))

ResetAll(items) == [i \in DOMAIN items |-> ResetItem(items[i])]

States(items) == [id \in {items[i].def.id : i \in DOMAIN items} |->
                    items[Min(IndexOfId(items, id))].state]

Viewed(achievements, boards) == States(achievements \o boards)

-----------------------------------------------------------------------------
(* The rich presence script *)

Untouched(script) ==
  [script |-> script, values |-> [n \in Range(script.names) |-> 0], conditions |-> 0]

\* rc_reset_richpresence, rc_reset_richpresence_triggers
ResetScript(rp)     == IF rp = NoScript THEN rp ELSE Untouched(rp.script)
ResetConditions(rp) == IF rp = NoScript THEN rp ELSE [rp EXCEPT !.conditions = 0]

Init ==
  /\ host \in Hosts
  /\ triggers = [i \in DOMAIN host.loaded |-> Fresh(host.loaded[i])]
  /\ lboards = [i \in DOMAIN host.boards |-> Fresh(host.boards[i])]
  /\ richpresence = NoScript
  /\ saved = NoSave
  /\ loop = "idle" /\ at = 0
  /\ view = Viewed(triggers, lboards)
  /\ visits = [id \in Ids |-> 0]
  /\ asked = Unasked
  /\ snapshot = NoSave
  /\ called = "other"
  /\ frames = 0 /\ calls = 0

-----------------------------------------------------------------------------
(* do_frame *)

Settled == {"ACTIVE", "PAUSED", "PRIMED"}

\* The data of a trigger that moved to a state: a paused one keeps its measure.
Computed(item, state) ==
  IF item.def.target # 0 /\ state = "PAUSED" THEN {item.data, 0}
  ELSE item.def.data \ {Unknown}

\* What rc_evaluate_trigger may make of a trigger, with what it returns.
Evaluations(item) ==
  LET Moved(states, returned) ==
        {[item |-> [item EXCEPT !.state = to[1], !.data = to[2]],
          returned |-> IF returned = "state" THEN to[1] ELSE returned] :
            to \in UNION {{s} \X Computed(item, s) : s \in states}}
      unprimed == IF item.state = "PRIMED" THEN "ACTIVE" ELSE item.state
  IN  IF ~TriggerActive(item.state) THEN {[item |-> item, returned |-> "INACTIVE"]}
      ELSE Moved(Settled, "state") \cup Moved(Settled \cup {unprimed}, "RESET")
           \cup (IF item.state = "WAITING"
                 THEN {[item |-> ResetItem(item), returned |-> "WAITING"]}
                 ELSE Moved({"TRIGGERED"}, "state"))

\* Mutant: the notification of a reset is taken for the state.
TriggerEventsOfReturned(old, new, returned) ==
  IF returned = "RESET" THEN <<"RESET">>
  ELSE IF new.state = old.state THEN <<>>
  ELSE <<new.state>>

ProgressMade(old, new) ==
  /\ new.data # old.data /\ old.data # Unknown
  /\ new.def.target # 0 /\ new.data <= new.def.target
  /\ new.state \notin {"TRIGGERED", "INACTIVE", "WAITING"}

\* The events of an achievement, in the order they are raised.  RESET is only
\* a notification: what follows looks at the state.
TriggerEvents(old, new, returned) ==
  LET became == IF returned = "RESET" THEN new.state ELSE returned
  IN  (IF returned = "RESET" THEN <<"RESET">> ELSE <<>>)
      \o (IF ProgressMade(old, new) THEN <<"PROGRESS_UPDATED">> ELSE <<>>)
      \o (IF became # old.state /\ old.state = "PRIMED" THEN <<"UNPRIMED">> ELSE <<>>)
      \o (IF became # old.state /\ became \in {"TRIGGERED", "PAUSED", "PRIMED"}
          THEN <<became>> ELSE <<>>)
      \o (IF became = "ACTIVE" /\ old.state \in {"WAITING", "PAUSED"}
          THEN <<"ACTIVATED">> ELSE <<>>)

\* What an event tells the host of the state of its item.
Follow(state, event) ==
  CASE event \in {"ACTIVATED", "UNPRIMED"} -> "ACTIVE"
    [] event \in {"RESET", "PROGRESS_UPDATED", "UPDATED"} -> state
    [] OTHER -> event

Told(id, events) == [view EXCEPT ![id] = FoldLeft(Follow, @, events)]

\* The handler of the event may deactivate the achievement or leaderboard that ended.
Final(events) == Range(events) \cap {"TRIGGERED", "CANCELED", "DISABLED"} # {}

\* Mutant: the lists are walked upward.
FollowingUpward(index, length) == IF index = 0 THEN 1 ELSE index + 1

\* The index the loop looks at next; 0 begins and ends it.
Following(index, length) == IF index = 0 THEN length ELSE index - 1

\* rc_runtime_do_frame is called: the memrefs are updated, the first loop begins.
BeginFrame ==
  /\ loop = "idle" /\ frames < FrameBound
  /\ frames' = frames + 1
  /\ loop' = "triggers" /\ at' = Following(0, Len(triggers))
  /\ visits' = [id \in Ids |-> 0]
  /\ called' = "other"
  /\ UNCHANGED <<host, runtime, saved, view, asked, snapshot, calls>>

\* The item at the index of the loop is replaced by "item", and the handler of
\* its events is called: it may deactivate the item when they end it.
Visited(items, item, events) ==
  LET id == item.def.id
      updated == [items EXCEPT ![at] = item]
      kept == Told(id, events)
  IN  {[items |-> updated, view |-> kept]}
      \cup (IF ~Final(events) THEN {}
            ELSE {[items |-> Deactivated(updated, id),
                   view |-> [i \in DOMAIN kept \ {id} |-> kept[i]]]})

\* An address the item reads turned out not to be valid.
Disabled(item) == [item EXCEPT !.state = "DISABLED", !.invalid = FALSE]

LookedAt(items) ==
  /\ visits' = [visits EXCEPT ![items[at].def.id] = @ + 1]
  /\ at' = Following(at, Len(items))

VisitTrigger ==
  /\ loop = "triggers" /\ at \in DOMAIN triggers
  /\ LET old == triggers[at]
     IN  \/ /\ old.invalid
            /\ \E v \in Visited(triggers, Disabled(old), <<"DISABLED">>) :
                 triggers' = v.items /\ view' = v.view
         \/ /\ ~old.invalid
            /\ \E o \in Evaluations(old) :
                 \E v \in Visited(triggers, o.item, TriggerEvents(old, o.item, o.returned)) :
                   triggers' = v.items /\ view' = v.view
  /\ LookedAt(triggers)
  /\ UNCHANGED <<host, lboards, richpresence, saved, loop, asked, snapshot, called, frames, calls>>

BeginBoards ==
  /\ loop = "triggers" /\ at \notin DOMAIN triggers
  /\ loop' = "lboards" /\ at' = Following(0, Len(lboards))
  /\ UNCHANGED <<host, runtime, saved, view, history, frames, calls>>

\* What rc_evaluate_lboard may make of a leaderboard: the value is evaluated
\* while an attempt runs and when it is submitted.
BoardEvaluations(item) ==
  IF ~Board!LboardActive(item.state) THEN {[item |-> item, returned |-> "INACTIVE"]}
  ELSE UNION {LET state == Board!Evaluated(item.state, true, FALSE)
              IN  {[item |-> [item EXCEPT !.state = state, !.data = data],
                    returned |-> Board!Returned(item.state, true, FALSE)] :
                     data \in IF state \in {"STARTED", "TRIGGERED"}
                              THEN item.def.data ELSE {item.data}} :
              true \in SUBSET {"start", "cancel", "submit"}}

BoardEvents(old, new, returned) ==
  CASE returned = "STARTED" /\ old.state # "STARTED"         -> <<"STARTED">>
    [] returned = "STARTED" /\ old.state = "STARTED"
         /\ new.data # old.announced                         -> <<"UPDATED">>
    [] returned = "CANCELED" /\ old.state # "CANCELED"       -> <<"CANCELED">>
    [] returned = "TRIGGERED"                                -> <<"TRIGGERED">>
    [] OTHER                                                 -> <<>>

\* The value the host was told is remembered.
Announced(item, events) ==
  IF Range(events) \cap {"STARTED", "UPDATED"} # {}
  THEN [item EXCEPT !.announced = item.data] ELSE item

VisitBoard ==
  /\ loop = "lboards" /\ at \in DOMAIN lboards
  /\ LET old == lboards[at]
     IN  \/ /\ old.invalid
            /\ \E v \in Visited(lboards, Disabled(old), <<"DISABLED">>) :
                 lboards' = v.items /\ view' = v.view
         \/ /\ ~old.invalid
            /\ \E o \in BoardEvaluations(old) :
                 \E events \in {BoardEvents(old, o.item, o.returned)} :
                   \E v \in Visited(lboards, Announced(o.item, events), events) :
                     lboards' = v.items /\ view' = v.view
  /\ LookedAt(lboards)
  /\ UNCHANGED <<host, triggers, richpresence, saved, loop, asked, snapshot, called, frames, calls>>

EndBoards ==
  /\ loop = "lboards" /\ at \notin DOMAIN lboards
  /\ loop' = "richpresence" /\ at' = 0
  /\ UNCHANGED <<host, runtime, saved, view, history, frames, calls>>

\* rc_update_richpresence: the values and the conditions of the script.
UpdateRichpresence ==
  /\ loop = "richpresence"
  /\ loop' = "idle"
  /\ IF richpresence = NoScript THEN UNCHANGED richpresence
     ELSE \E data \in 0 .. 1 :
            richpresence' =
              [richpresence EXCEPT
                 !.values = [n \in DOMAIN @ |-> data],
                 !.conditions = IF richpresence.script.conditional THEN data ELSE 0]
  /\ UNCHANGED <<host, triggers, lboards, saved, at, view, history, frames, calls>>

-----------------------------------------------------------------------------
(* The other calls of the host *)

Call(name) ==
  /\ loop = "idle" /\ calls < CallBound
  /\ calls' = calls + 1 /\ called' = IF name = "restore" THEN name ELSE "other"
  /\ UNCHANGED <<host, loop, at, visits, frames>>

\* The host follows its own calls.
HostKnows == view' = Viewed(triggers', lboards')

ActivateAchievement(def) ==
  /\ Call("other")
  /\ triggers' = Activated(triggers, def)
  /\ asked' = Unasked
  /\ UNCHANGED <<lboards, richpresence, saved, snapshot>>
  /\ HostKnows

DeactivateAchievement(id) ==
  /\ Call("other")
  /\ triggers' = Deactivated(triggers, id)
  /\ UNCHANGED <<lboards, richpresence, saved, asked, snapshot>>
  /\ HostKnows

ActivateLboard(def) ==
  /\ Call("other")
  /\ lboards' = Activated(lboards, def)
  /\ asked' = Unasked
  /\ UNCHANGED <<triggers, richpresence, saved, snapshot>>
  /\ HostKnows

DeactivateLboard(id) ==
  /\ Call("other")
  /\ lboards' = Deactivated(lboards, id)
  /\ UNCHANGED <<triggers, richpresence, saved, asked, snapshot>>
  /\ HostKnows

\* The same script is reset; a script without a display string is none.
ActivateRichpresence(script) ==
  /\ Call("other")
  /\ richpresence' = IF script.display THEN Untouched(script) ELSE NoScript
  /\ asked' = Unasked
  /\ UNCHANGED <<triggers, lboards, saved, view, snapshot>>

\* rc_runtime_reset, also what a save state that cannot be read ends in.
Reset ==
  /\ triggers' = ResetAll(triggers)
  /\ lboards' = ResetAll(lboards)
  /\ richpresence' = ResetScript(richpresence)
  /\ HostKnows /\ asked' = Unasked

ResetRuntime == Call("other") /\ Reset /\ UNCHANGED <<saved, snapshot>>

\* rc_runtime_invalidate_memref: the items that read an address.
Invalidated(items, addresses) ==
  [i \in DOMAIN items |->
     [items[i] EXCEPT !.invalid = @ \/ items[i].def.address \in addresses]]

\* rc_runtime_invalidate_address: the events follow in the next frame.
InvalidateAddress(address) ==
  /\ Call("other")
  /\ triggers' = Invalidated(triggers, {address})
  /\ lboards' = Invalidated(lboards, {address})
  /\ UNCHANGED <<richpresence, saved, view, asked, snapshot>>

\* rc_runtime_validate_addresses: the host refuses some; the events are raised
\* at once, also of what an earlier call has invalidated.
ValidateAddresses(refused) ==
  LET Validated(items) ==
        LET known == Invalidated(items, refused)
        IN  [i \in DOMAIN items |-> IF known[i].invalid THEN Disabled(known[i]) ELSE known[i]]
  IN  /\ Call("other")
      /\ triggers' = IF refused = {} THEN triggers ELSE Validated(triggers)
      /\ lboards' = IF refused = {} THEN lboards ELSE Validated(lboards)
      /\ HostKnows
      /\ UNCHANGED <<richpresence, saved, asked, snapshot>>

-----------------------------------------------------------------------------
(* Saving and restoring the progress *)

\* The items whose state is stored: neither inactive nor, for an achievement,
\* triggered.
StoredTriggers == {i \in DOMAIN triggers : TriggerActive(triggers[i].state)}
StoredBoards   == {i \in DOMAIN lboards : Board!LboardActive(lboards[i].state)}

\* The size of the chunks of the script: its values, and its conditions.
ScriptSize(rp) ==
  IF rp = NoScript THEN 0
  ELSE Len(rp.script.names) + (IF rp.script.conditional THEN 1 ELSE 0)

\* What rc_runtime_progress_size adds for an item, and what is then remembered.
SizeOf(item) == IF item.size # 0 THEN item.size ELSE item.def.size

Sized(items, stored) ==
  [i \in DOMAIN items |-> IF i \in stored THEN [items[i] EXCEPT !.size = SizeOf(items[i])] ELSE items[i]]

SumOf(f) == MapThenSumSet(LAMBDA i : f[i], DOMAIN f)

Total(items, stored) == SumOf([i \in stored |-> items[i].size])

\* rc_runtime_progress_size
ProgressSize ==
  /\ Call("other")
  /\ triggers' = Sized(triggers, StoredTriggers)
  /\ lboards' = Sized(lboards, StoredBoards)
  /\ asked' = MinSize + ScriptSize(richpresence)
              + Total(triggers', StoredTriggers) + Total(lboards', StoredBoards)
  /\ UNCHANGED <<richpresence, saved, view, snapshot>>

\* What rc_runtime_serialize_progress really writes.
Written ==
  MinSize + ScriptSize(richpresence)
  + SumOf([i \in StoredTriggers |-> triggers[i].def.size])
  + SumOf([i \in StoredBoards |-> lboards[i].def.size])

Chunk(item) == [def |-> item.def, state |-> item.state, data |-> item.data]

\* rc_runtime_serialize_progress
Serialize ==
  /\ Call("other")
  /\ saved' = [items |-> {Chunk(triggers[i]) : i \in StoredTriggers}
                         \cup {Chunk(lboards[i]) : i \in StoredBoards},
               names |-> IF richpresence = NoScript THEN <<>> ELSE richpresence.script.names,
               values |-> IF richpresence = NoScript THEN <<>> ELSE richpresence.values,
               conditions |-> IF richpresence # NoScript /\ richpresence.script.conditional
                              THEN <<richpresence.script.md5, richpresence.conditions>>
                              ELSE <<>>]
  /\ snapshot' = [items |-> Range(triggers) \cup Range(lboards), richpresence |-> richpresence]
  /\ UNCHANGED <<runtime, view, asked>>

\* Mutant: every stored item is applied, also to an achievement already unlocked.
RestoredAlways(item, active) ==
  LET chunks == {c \in saved.items : c.def = item.def}
  IN  IF chunks = {} THEN ResetItem(item)
      ELSE [item EXCEPT !.state = (CHOOSE c \in chunks : TRUE).state,
                        !.data = (CHOOSE c \in chunks : TRUE).data]

\* An active item takes the state stored under its id and checksum, and is reset
\* when there is none; the others are left alone.
Restored(item, active) ==
  LET chunks == {c \in saved.items : c.def = item.def}
  IN  IF ~active THEN item
      ELSE IF chunks = {} THEN ResetItem(item)
      ELSE [item EXCEPT !.state = (CHOOSE c \in chunks : TRUE).state,
                        !.data = (CHOOSE c \in chunks : TRUE).data]

\* rc_runtime_progress_read_variables reads as many names as were stored, of four
\* words each.  A name the script does not have is passed over, but not what is
\* stored with it: its three words are then taken for names, and as many names
\* stay unread.
NamesRead(names) ==
  LET reads(k) == 1 + 3 * Cardinality({i \in 1 .. k : saved.names[i] \notin names})
  IN  {saved.names[k] : k \in {k \in DOMAIN saved.names :
         /\ saved.names[k] \in names
         /\ k - 1 + reads(k - 1) <= Len(saved.names)}}

ReadVariables(rp) ==
  IF saved.names = <<>> \/ DOMAIN rp.values = {} THEN rp
  ELSE [rp EXCEPT !.values = [n \in DOMAIN @ |->
                                IF n \in NamesRead(DOMAIN @) THEN saved.values[n] ELSE 0]]

\* Without a stored chunk, or with that of another script, the conditions are reset.
ReadRichPresence(rp) ==
  IF saved.conditions # <<>> /\ saved.conditions[1] = rp.script.md5
  THEN [rp EXCEPT !.conditions = saved.conditions[2]]
  ELSE ResetConditions(rp)

\* rc_runtime_deserialize_progress of the save state.
Deserialize ==
  /\ Call("restore") /\ saved # NoSave
  /\ triggers' = [i \in DOMAIN triggers |->
                    Restored(triggers[i], TriggerActive(triggers[i].state))]
  /\ lboards' = [i \in DOMAIN lboards |->
                   Restored(lboards[i], Board!LboardActive(lboards[i].state))]
  /\ richpresence' = IF richpresence = NoScript THEN NoScript
                     ELSE ReadRichPresence(ReadVariables(richpresence))
  /\ HostKnows
  /\ UNCHANGED <<saved, asked, snapshot>>

\* The save state is too short, altered, or none: whatever was read by then,
\* everything is reset.
DeserializeFails == Call("other") /\ Reset /\ UNCHANGED <<saved, snapshot>>

-----------------------------------------------------------------------------
Frame ==
  \/ BeginFrame \/ VisitTrigger \/ BeginBoards
  \/ VisitBoard \/ EndBoards \/ UpdateRichpresence

Addresses == {d.address : d \in host.achievements \cup host.leaderboards}

Host ==
  \/ \E def \in host.achievements : ActivateAchievement(def)
  \/ \E def \in host.leaderboards : ActivateLboard(def)
  \/ \E script \in host.scripts : ActivateRichpresence(script)
  \/ \E id \in {d.id : d \in host.achievements} : DeactivateAchievement(id)
  \/ \E id \in {d.id : d \in host.leaderboards} : DeactivateLboard(id)
  \/ \E address \in Addresses : InvalidateAddress(address)
  \/ \E refused \in SUBSET Addresses : ValidateAddresses(refused)
  \/ ResetRuntime \/ ProgressSize \/ Serialize \/ Deserialize \/ DeserializeFails

Next == Frame \/ Host

Spec == Init /\ [][Next]_vars

-----------------------------------------------------------------------------
(* Properties *)

Items == Range(triggers) \cup Range(lboards)

TypeOK ==
  /\ \A i \in DOMAIN triggers :
       triggers[i].def \in host.achievements /\ triggers[i].data \in triggers[i].def.data
  /\ \A i \in DOMAIN lboards :
       lboards[i].def \in host.leaderboards /\ lboards[i].state \in Board!LboardStates
  /\ DOMAIN view = {item.def.id : item \in Items}
  /\ loop \in {"idle", "triggers", "lboards", "richpresence"}

\* Once do_frame has gone through its lists, each item that is still there was
\* looked at exactly once and none twice, also when the handler of an event has
\* deactivated items on the way; and nothing invalid is left unreported.
EachItemOnce ==
  /\ TypeOK
  /\ \A id \in Ids : visits[id] <= 1
  /\ loop = "richpresence" =>
       \A item \in Items : visits[item.def.id] = 1 /\ ~item.invalid

\* A host that does nothing but follow the events of its items knows the state
\* of every achievement, and which leaderboards run with which value.
EventsTellStates ==
  loop = "richpresence" =>
    /\ \A i \in DOMAIN triggers : view[triggers[i].def.id] = triggers[i].state
    /\ \A i \in DOMAIN lboards :
         /\ (view[lboards[i].def.id] = "STARTED") = (lboards[i].state = "STARTED")
         /\ lboards[i].state = "STARTED" => lboards[i].announced = lboards[i].data

\* The size the host was told is enough for a save, whatever frames, restores
\* and deactivations happen before it saves, until it activates or resets something.
SizeSuffices == asked # Unasked => Written <= asked

\* A restore brings back what was there when the progress was saved: an item
\* with the same definition, active then and now, is as it was; one active only
\* now begins again; one that is not active now stays as it is.  The script,
\* when it is the same, has its values and conditions back.
RestoresTheSnapshot ==
  [][called' = "restore" /\ calls' # calls =>
       /\ \A i \in DOMAIN triggers :
            LET old == triggers[i]
                then == {s \in snapshot.items : s.def = old.def /\ TriggerActive(s.state)}
            IN  IF ~TriggerActive(old.state) THEN triggers'[i] = old
                ELSE IF then = {} THEN triggers'[i] = ResetItem(old)
                ELSE \E s \in then : Chunk(s) = Chunk(triggers'[i])
       /\ \A i \in DOMAIN lboards :
            \A s \in snapshot.items :
              /\ s.def = lboards[i].def
              /\ Board!LboardActive(s.state) /\ Board!LboardActive(lboards[i].state)
              => Chunk(s) = Chunk(lboards'[i])
       /\ richpresence # NoScript /\ snapshot.richpresence # NoScript
            /\ snapshot.richpresence.script = richpresence.script
          => richpresence' = snapshot.richpresence]_vars
=============================================================================
