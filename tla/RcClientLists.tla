--------------------------- MODULE RcClientLists ---------------------------
(***************************************************************************)
(* What rc_client tells about a game when it is asked: the list of its     *)
(* achievements, in buckets, the list of its leaderboards, and the summary *)
(* of what the user has unlocked; and the unlocks of the server that all   *)
(* of it starts from.                                                      *)
(*                                                                         *)
(* A list is made in two passes over the game: the first counts buckets    *)
(* and items to allocate memory, the second writes them.  Display          *)
(* information (bucket, progress) is kept in each achievement and updated  *)
(* when a list is made.                                                    *)
(***************************************************************************)
EXTENDS Integers, Sequences, SequencesExt, FiniteSetsExt

CONSTANTS
  Games,     \* [subsets, achievements, boards]: how many, what; see ListsAssumption
  Answers,   \* [hardcore, softcore]: the unlocks the server may list, by id
  Values,    \* measured values
  Unknown,   \* RC_MEASURED_UNKNOWN, above any
  Recent,    \* RC_CLIENT_RECENT_UNLOCK_DELAY_SECONDS
  TimeBound  \* seconds the clock runs

Modes == {"softcore", "hardcore"}

ASSUME ListsAssumption ==
  /\ Unknown \in Values /\ Recent \in Nat /\ TimeBound \in Nat
  /\ \A g \in Games :
       /\ g.subsets \in Nat \ {0}
       /\ \A a \in 1 .. Len(g.achievements) :
            /\ g.achievements[a].subset \in 1 .. g.subsets
            /\ g.achievements[a].category \in {"core", "unofficial"}
            /\ g.achievements[a].type \in {"standard", "progression", "win"}
            /\ g.achievements[a].target \in Nat /\ g.achievements[a].challenge \in BOOLEAN
       /\ \A b \in 1 .. Len(g.boards) :
            g.boards[b].subset \in 1 .. g.subsets /\ g.boards[b].hidden \in BOOLEAN

VARIABLES
  game,         \* the definitions, of Games
  answer,       \* of the server; see Load
  achievements, \* of each: see Locked
  boards,       \* the state of each
  hardcore,
  pending,      \* unlocks waiting to be sent again
  clock,
  list          \* the list just made, or NoList

listVars == <<game, answer, achievements, boards, hardcore, pending, clock, list>>

NoList == [kind |-> "none"]
NoAnswer == [hardcore |-> <<>>, softcore |-> <<>>, given |-> FALSE]

Locked ==
  [state |-> "inactive", unlocked |-> {}, time |-> 0, softcore |-> 0, hardcore |-> 0,
   measured |-> Unknown, primed |-> FALSE, unsupported |-> FALSE, percent |-> 0]

ListsInit ==
  /\ game \in Games /\ answer = NoAnswer /\ hardcore \in BOOLEAN
  /\ achievements = [a \in DOMAIN game.achievements |-> Locked]
  /\ boards = [b \in DOMAIN game.boards |-> "inactive"]
  /\ pending = {} /\ clock = Recent + 2 /\ list = NoList

AchievementsOf(s) == {a \in DOMAIN game.achievements : game.achievements[a].subset = s}
BoardsOf(s)       == {b \in DOMAIN game.boards : game.boards[b].subset = s}
Subsets           == 1 .. game.subsets \* all active: no game is loaded with others

-----------------------------------------------------------------------------
(* The unlocks of the server *)

\* An unlock is looked for between the ends of the subset, which close in when it is
\* found at one of them.
Unlocked(scan, id, modes) ==
  IF id \notin scan.first .. scan.last THEN scan
  ELSE [first |-> IF id = scan.first THEN id + 1 ELSE scan.first,
        last  |-> IF id # scan.first /\ id = scan.last THEN id - 1 ELSE scan.last,
        found |-> scan.found \cup {<<id, mode>> : mode \in modes}]

\* rc_client_apply_unlocks for a subset
ApplyUnlocks(s, ids, modes) ==
  FoldLeft(LAMBDA scan, id : Unlocked(scan, id, modes),
           [first |-> IF AchievementsOf(s) = {} THEN 1 ELSE Min(AchievementsOf(s)),
            last  |-> IF AchievementsOf(s) = {} THEN 0 ELSE Max(AchievementsOf(s)),
            found |-> {}], ids).found

Applied(given) ==
  UNION {ApplyUnlocks(s, given.hardcore, Modes) \cup
         ApplyUnlocks(s, given.softcore, {"softcore"}) : s \in Subsets}

\* rc_client_subset_toggle_hardcore_achievements, for one of them
Toggled(achievement, mode) ==
  IF mode \notin achievement.unlocked
  THEN IF achievement.state \in {"unlocked", "inactive"}
       THEN [achievement EXCEPT !.state = "active", !.measured = Unknown, !.primed = FALSE]
       ELSE achievement
  ELSE [achievement EXCEPT
          !.time = IF mode = "hardcore" THEN achievement.hardcore ELSE achievement.softcore,
          !.state = IF @ \in {"active", "inactive"} THEN "unlocked" ELSE @, !.primed = FALSE]

Mode == IF hardcore THEN "hardcore" ELSE "softcore"

\* The session has begun; rc_client_activate_game. The server lists unlocks with their
\* time: those in the past, long ago.
Load(given) ==
  /\ ~answer.given
  /\ answer' = [hardcore |-> given.hardcore, softcore |-> given.softcore, given |-> TRUE]
  /\ achievements' = [a \in DOMAIN achievements |->
       LET modes == {mode \in Modes : <<a, mode>> \in Applied(given)}
       IN Toggled([achievements[a] EXCEPT
                     !.unlocked = modes,
                     !.softcore = IF "softcore" \in modes THEN 1 ELSE 0,
                     !.hardcore = IF "hardcore" \in modes THEN 1 ELSE 0], Mode)]
  /\ UNCHANGED <<game, boards, hardcore, pending, clock, list>>

-----------------------------------------------------------------------------
(* What happens to a game *)

\* A frame: a trigger measures another value, or its challenge begins or ends.
EvaluateMeasured ==
  /\ answer.given
  /\ \E a \in DOMAIN achievements, value \in Values \ {Unknown}, primed \in BOOLEAN :
       /\ achievements[a].state = "active"
       /\ value > 0 => game.achievements[a].target > 0
       /\ primed => game.achievements[a].challenge
       /\ achievements' = [achievements EXCEPT ![a].measured = value, ![a].primed = primed]
  /\ UNCHANGED <<game, answer, boards, hardcore, pending, clock, list>>

\* rc_client_award_achievement; sending an unlock may fail, which leaves it pending.
Award(a) ==
  /\ answer.given /\ achievements[a].state = "active"
  /\ achievements' = [achievements EXCEPT
       ![a].state = "unlocked", ![a].primed = FALSE, ![a].time = clock,
       ![a].hardcore = IF hardcore THEN clock ELSE @,
       ![a].softcore = IF ~hardcore \/ @ = 0 THEN clock ELSE @,
       ![a].unlocked = @ \cup (IF hardcore THEN Modes ELSE {"softcore"})]
  /\ pending' \in {pending, IF game.achievements[a].category = "core" THEN pending \cup {a} ELSE pending}
  /\ UNCHANGED <<game, answer, boards, hardcore, clock, list>>

\* The server has them all.
Sync ==
  /\ pending # {} /\ pending' = {}
  /\ UNCHANGED <<game, answer, achievements, boards, hardcore, clock, list>>

\* rc_client_invalidate_memref_achievements: memory turns out to be unreadable.
Unsupported(a) ==
  /\ answer.given /\ achievements[a].state # "disabled"
  /\ achievements' = [achievements EXCEPT
       ![a].state = "disabled", ![a].unsupported = TRUE, ![a].primed = FALSE]
  /\ UNCHANGED <<game, answer, boards, hardcore, pending, clock, list>>

SetHardcore ==
  /\ answer.given
  /\ hardcore' = ~hardcore
  /\ achievements' = [a \in DOMAIN achievements |->
       Toggled(achievements[a], IF hardcore THEN "softcore" ELSE "hardcore")]
  /\ UNCHANGED <<game, answer, boards, pending, clock, list>>

\* A leaderboard is started, stopped, made inactive or disabled.
BoardChanges ==
  /\ answer.given
  /\ \E b \in DOMAIN boards, state \in {"inactive", "active", "tracking", "disabled"} :
       /\ boards[b] \notin {state, "disabled"}
       /\ boards' = [boards EXCEPT ![b] = state]
  /\ UNCHANGED <<game, answer, achievements, hardcore, pending, clock, list>>

Tick ==
  /\ clock < Recent + 2 + TimeBound /\ clock' = clock + 1
  /\ UNCHANGED <<game, answer, achievements, boards, hardcore, pending, list>>

-----------------------------------------------------------------------------
(* The list of achievements *)

\* The percentage is left as it was as long as nothing has been measured.
Percent(a) ==
  LET target == game.achievements[a].target
      value == achievements[a].measured
  IN IF target = 0 \/ value = Unknown THEN achievements[a].percent
     ELSE (Min({value, target}) * 100) \div target

LockedBucket(a) ==
  IF achievements[a].primed THEN "challenge"
  ELSE IF Percent(a) >= 80 THEN "almost"
  ELSE IF game.achievements[a].category = "unofficial" THEN "unofficial" ELSE "locked"

UnlockedBucket(a) ==
  IF achievements[a].time >= clock - Recent THEN "recent"
  ELSE IF a \in pending THEN "unsynced" ELSE "unlocked"

\* rc_client_update_achievement_display_information: the bucket; any but "unsupported" is
\* decided anew each time, so the model does not keep it.
Displayed(a) ==
  CASE achievements[a].unsupported -> "unsupported"
    [] ~achievements[a].unsupported /\ achievements[a].state = "unlocked" -> UnlockedBucket(a)
    [] OTHER -> LockedBucket(a)

Refreshed(a) ==
  IF achievements[a].unsupported \/ achievements[a].state = "unlocked" THEN achievements[a]
  ELSE [achievements[a] EXCEPT !.percent = Percent(a)]

\* Mutant: unlocks that are not synced keep a bucket of their own.
MapBucketUnsynced(bucket, grouping) ==
  CASE grouping = "lock_state" /\ bucket = "recent" -> "unlocked"
    [] grouping = "lock_state" /\ bucket \in {"challenge", "almost"} -> "locked"
    [] OTHER -> bucket

\* rc_client_map_bucket
MapBucket(bucket, grouping) ==
  CASE grouping = "lock_state" /\ bucket \in {"recent", "unsynced"} -> "unlocked"
    [] grouping = "lock_state" /\ bucket \in {"challenge", "almost"} -> "locked"
    [] OTHER -> bucket

\* shared_bucket_order, subset_bucket_order: buckets of all subsets together, and of each.
SharedOrder == <<"challenge", "recent", "almost", "unsynced">>
SubsetOrder == <<"locked", "unofficial", "unsupported", "unlocked">>

\* The first pass: buckets and items of which subsets have some, members[type][s].
Counted(members, types, split) ==
  LET filled(type) == {s \in Subsets : members[type][s] # {}}
      buckets(type) ==
        IF game.subsets > 1 /\ type \in split THEN Cardinality(filled(type))
        ELSE IF filled(type) = {} THEN 0 ELSE 1
  IN [buckets |-> MapThenSumSet(buckets, types),
      items |-> MapThenSumSet(LAMBDA type : Cardinality(UNION Range(members[type])), types)]

\* Items of a bucket in the order of the game.
InOrder(items) == SetToSortSeq(items, <)

\* rc_client_compare_achievement_unlock_times, rc_client_compare_achievement_progress
LaterFirst(shown, a, b) == shown[b].time < shown[a].time
MoreFirst(shown, a, b) ==
  \/ shown[b].percent < shown[a].percent
  \/ shown[b].percent = shown[a].percent /\ a < b

\* qsort: any order that keeps to the comparison.
Sorted(shown, type, items) ==
  CASE type = "recent" ->
         SetToSortSeq(items, LAMBDA a, b : LaterFirst(shown, a, b) \/
                                           (~LaterFirst(shown, b, a) /\ a < b))
    [] type = "almost" -> SetToSortSeq(items, LAMBDA a, b : MoreFirst(shown, a, b))
    [] OTHER -> InOrder(items)

\* The buckets of the second pass: shared ones first if the grouping has them, then
\* those of each subset. A bucket is written if it holds something.
Written(members, shared, order, shown) ==
  LET all(type) == UNION {members[type][s] : s \in Subsets}
      one(type, s) == [type |-> type, subset |-> IF game.subsets > 1 THEN s ELSE 0,
                       items |-> InOrder(members[type][s])]
      together == [i \in DOMAIN shared |->
                     [type |-> shared[i], subset |-> 0, items |-> Sorted(shown, shared[i], all(shared[i]))]]
      apart == [s \in Subsets |-> [i \in DOMAIN order |-> one(order[i], s)]]
      filled(bucket) == bucket.items # <<>>
  IN SelectSeq(together \o FlattenSeq(apart), filled)

\* rc_client_create_achievement_list
CreateAchievementList(categories, grouping) ==
  LET listed == {a \in DOMAIN achievements : game.achievements[a].category \in categories}
      shown == [a \in DOMAIN achievements |-> IF a \in listed THEN Refreshed(a) ELSE achievements[a]]
      bucket == [a \in listed |-> MapBucket(Displayed(a), grouping)]
      types == Range(SharedOrder) \cup Range(SubsetOrder)
      members == [type \in types |-> [s \in Subsets |->
                    {a \in listed \cap AchievementsOf(s) : bucket[a] = type}]]
      shared == IF grouping = "progress" THEN SharedOrder ELSE <<>>
  IN /\ achievements' = shown
     /\ list' = [kind |-> "achievements", grouping |-> grouping, categories |-> categories,
                 room |-> Counted(members, types, Range(SubsetOrder)),
                 buckets |-> Written(members, shared, SubsetOrder, shown)]

AskAchievements ==
  /\ answer.given
  /\ \E categories \in {{"core"}, {"core", "unofficial"}}, grouping \in {"lock_state", "progress"} :
       CreateAchievementList(categories, grouping)
  /\ UNCHANGED <<game, answer, boards, hardcore, pending, clock>>

-----------------------------------------------------------------------------
(* The list of leaderboards *)

\* rc_client_get_leaderboard_bucket
BoardBucket(state, grouping) ==
  CASE state = "disabled" -> "unsupported"
    [] grouping = "none" /\ state # "disabled" -> "all"
    [] grouping = "tracking" /\ state = "tracking" -> "active"
    [] OTHER -> "inactive"

BoardOrder == <<"all", "inactive", "unsupported">>

\* rc_client_create_leaderboard_list; hidden leaderboards have no bucket.
CreateLeaderboardList(grouping) ==
  LET listed == {b \in DOMAIN boards : ~game.boards[b].hidden}
      bucket == [b \in listed |-> BoardBucket(boards[b], grouping)]
      types == Range(BoardOrder) \cup {"active"}
      members == [type \in types |-> [s \in Subsets |->
                    {b \in listed \cap BoardsOf(s) : bucket[b] = type}]]
      shared == IF grouping = "tracking" THEN <<"active">> ELSE <<>>
  IN list' = [kind |-> "leaderboards", grouping |-> grouping,
              room |-> Counted(members, types, Range(BoardOrder)),
              buckets |-> Written(members, shared, BoardOrder, boards)]

AskLeaderboards ==
  /\ answer.given
  /\ \E grouping \in {"none", "tracking"} : CreateLeaderboardList(grouping)
  /\ UNCHANGED <<game, answer, achievements, boards, hardcore, pending, clock>>

\* rc_client_destroy_achievement_list, rc_client_destroy_leaderboard_list
Destroy ==
  /\ list' = NoList
  /\ UNCHANGED <<game, answer, achievements, boards, hardcore, pending, clock>>

\* rc_client_has_achievements, rc_client_has_leaderboards
HasAchievements == \E s \in Subsets : AchievementsOf(s) # {}
HasLeaderboards == \E s \in Subsets : BoardsOf(s) # {}

-----------------------------------------------------------------------------
(* The summary *)

\* The latest of times, or 0.
Latest(times) == IF times = {} THEN 0 ELSE Max(times)

\* rc_client_subset_get_user_game_summary
Summary(s) ==
  LET core == {a \in AchievementsOf(s) : game.achievements[a].category = "core"}
      done == {a \in core : Mode \in achievements[a].unlocked}
      of(type) == {a \in core : game.achievements[a].type = type}
      times(set) == {achievements[a].time : a \in set}
      won == times(done \cap of("win"))
  IN [core |-> Cardinality(core), unlocked |-> Cardinality(done),
      unofficial |-> Cardinality(AchievementsOf(s) \ core),
      unsupported |-> Cardinality({a \in core : achievements[a].unsupported}),
      completed |-> IF done = core THEN Latest(times(done)) ELSE 0,
      beaten |-> IF (won # {} \/ of("win") = {}) /\ of("progression") \subseteq done
                 THEN Max({Latest(times(done \cap of("progression"))), IF won = {} THEN 0 ELSE Min(won)})
                 ELSE 0]

-----------------------------------------------------------------------------

\* The host is done with a list before anything else happens: it is judged as made.
ListsNext ==
  \/ /\ list = NoList
     /\ \/ \E given \in Answers : Load(given)
        \/ EvaluateMeasured \/ Sync \/ SetHardcore \/ BoardChanges \/ Tick
        \/ \E a \in DOMAIN achievements : Award(a) \/ Unsupported(a)
        \/ AskAchievements \/ AskLeaderboards
  \/ list # NoList /\ Destroy

ListsSpec == ListsInit /\ [][ListsNext]_listVars

-----------------------------------------------------------------------------
(* Properties *)

\* Items of all the buckets of the list.
Items == FlattenSeq([i \in DOMAIN list.buckets |-> list.buckets[i].items])

\* What is written fills the memory that was allocated for it, and no more; no bucket
\* is empty or there twice.
RoomIsRight ==
  list # NoList =>
    /\ Len(list.buckets) = list.room.buckets /\ Len(Items) = list.room.items
    /\ \A i, j \in DOMAIN list.buckets :
         /\ list.buckets[i].items # <<>>
         /\ i # j => <<list.buckets[i].type, list.buckets[i].subset>> #
                     <<list.buckets[j].type, list.buckets[j].subset>>

\* Each achievement and leaderboard the host asked for is in one bucket, once.
ListedOnce ==
  list # NoList =>
    /\ IsInjective(Items)
    /\ Range(Items) =
         IF list.kind = "achievements"
         THEN {a \in DOMAIN achievements : game.achievements[a].category \in list.categories}
         ELSE {b \in DOMAIN boards : ~game.boards[b].hidden}
    /\ Items # <<>> => IF list.kind = "achievements" THEN HasAchievements ELSE HasLeaderboards

\* Achievements grouped by lock state are where their state says; so the unlocks the
\* summary of a subset counts are those the list shows, and those of achievements that
\* are not supported.
ListTellsSummary ==
  (list.kind = "achievements" /\ list.grouping = "lock_state") =>
    LET shown == UNION {Range(list.buckets[i].items) :
                          i \in {j \in DOMAIN list.buckets : list.buckets[j].type = "unlocked"}}
        supported(s) == {a \in AchievementsOf(s) : /\ game.achievements[a].category = "core"
                                                   /\ ~achievements[a].unsupported}
        unsupported(s) == {a \in AchievementsOf(s) : /\ game.achievements[a].category = "core"
                                                     /\ achievements[a].unsupported
                                                     /\ Mode \in achievements[a].unlocked}
    IN \A s \in Subsets :
         /\ Cardinality(shown \cap supported(s)) + Cardinality(unsupported(s)) = Summary(s).unlocked
         /\ Summary(s).unlocked = Summary(s).core /\ Summary(s).core > 0
              => Summary(s).completed >= Summary(s).beaten

\* Every unlock the server listed is there, in whatever order it came and however often.
UnlocksAreKept ==
  answer.given =>
    \A a \in DOMAIN achievements :
      /\ a \in Range(answer.hardcore) => achievements[a].unlocked = Modes
      /\ a \in Range(answer.softcore) => "softcore" \in achievements[a].unlocked

\* What the host is shown of a game is all of it, once, and agrees with its state.
ListsAgree == RoomIsRight /\ ListedOnce /\ ListTellsSummary /\ UnlocksAreKept

=============================================================================
