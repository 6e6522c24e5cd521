------------------------------- MODULE RcLists -------------------------------
(***************************************************************************)
(* The sets of a game in rc_client.c: which achievements and leaderboards  *)
(* run, as unlocks arrive and addresses turn out to be unreadable, and the *)
(* lists of them that are made for display.  A set is a sequence of        *)
(* achievements and one of leaderboards; a game is a sequence of sets.     *)
(* What a frame does to one achievement is an input (see RcTrigger), and   *)
(* so is whether its unlock waits for the server (see RcUnlocks).          *)
(***************************************************************************)
EXTENDS Integers, Sequences, SequencesExt, FiniteSetsExt

CONSTANTS
  Games,          \* [sets, unlocks]: sequences of sets [active, achievements, boards], and lists
                  \* of unlocks that the server may send for them, pairs of an id and a time
  Measurements,   \* what Measured conditions may come to
  Now, Recent     \* the time of unlocks made now, and since when one is recent

VARIABLES
  phase,          \* loaded, unlocked or active
  source,         \* one of Games
  sets,           \* game->subsets
  ofHardcore,     \* whether the client is in hardcore
  sent,           \* history: the unlocks the server sent, until the game starts
  unreadable,     \* history: addresses that could not be read
  listed,         \* ids in game->runtime.triggers
  listedBoards    \* ids in game->runtime.lboards

listVars == <<phase, source, sets, ofHardcore, sent, unreadable, listed, listedBoards>>

Unknown == -1       \* RC_MEASURED_UNKNOWN
NothingSent == [hard |-> <<>>, soft |-> <<>>]
Categories == {"core", "unofficial"}
SharedOrder == <<"challenge", "recent", "almost", "unsynced">>
SetOrder == <<"locked", "unofficial", "unsupported", "unlocked">>

Achievement(id, category, address, target) ==
  [id |-> id, category |-> category, address |-> address, target |-> target,
   state |-> "inactive", trigger |-> "waiting", measured |-> Unknown,
   hard |-> FALSE, soft |-> FALSE, hardAt |-> 0, softAt |-> 0, at |-> 0,
   pending |-> FALSE, percent |-> 0, bucket |-> "unknown"]

Board(id, address, hidden) ==
  [id |-> id, address |-> address, hidden |-> hidden, state |-> "inactive", bucket |-> "unknown"]

\* What is loaded has not run yet, and no id is used twice.
IsNewSet(x) ==
  /\ x.active \in BOOLEAN
  /\ x = [active |-> x.active, achievements |-> x.achievements, boards |-> x.boards]
  /\ \A items \in {x.achievements, x.boards} : items \in Seq(Range(items))
  /\ \A a \in Range(x.achievements) : a = Achievement(a.id, a.category, a.address, a.target)
  /\ \A b \in Range(x.boards) : b = Board(b.id, b.address, b.hidden)

ASSUME ListsAssumption ==
  \A g \in Games :
    /\ g.sets \in Seq(Range(g.sets)) /\ \A x \in Range(g.sets) : IsNewSet(x)
    /\ \A s, t \in DOMAIN g.sets :
         \A i \in DOMAIN g.sets[s].achievements, j \in DOMAIN g.sets[t].achievements :
           g.sets[s].achievements[i].id = g.sets[t].achievements[j].id => s = t /\ i = j
    /\ \A unlocks \in g.unlocks : unlocks \in Seq(Range(unlocks))

WithAchievements(s, achievements) == [s EXCEPT !.achievements = achievements]

-----------------------------------------------------------------------------
(* Unlocks.                                                                 *)

\* What was unlocked in hardcore counts in both modes.
Marked(a, time, both) ==
  [a EXCEPT !.soft = TRUE, !.softAt = time,
            !.hard = @ \/ both, !.hardAt = IF both THEN time ELSE @]

\* Faulty variant: the window shrinks at its end whatever was found.
ApplyOne_Shrinks(w, unlock) ==
  LET found == {i \in w.start..w.stop : w.items[i].id = unlock[1]}
      i == Min(found)
      marked == [w EXCEPT !.items[i] = Marked(@, unlock[2], w.both)]
  IN IF found = {} THEN w
     ELSE IF i = w.start THEN [marked EXCEPT !.start = @ + 1]
     ELSE [marked EXCEPT !.stop = @ - 1]

\* One unlock is looked for in a window that shrinks when it is found at an end.
ApplyOne(w, unlock) ==
  LET found == {i \in w.start..w.stop : w.items[i].id = unlock[1]}
      i == Min(found)
      marked == [w EXCEPT !.items[i] = Marked(@, unlock[2], w.both)]
  IN IF found = {} THEN w
     ELSE IF i = w.start THEN [marked EXCEPT !.start = @ + 1]
     ELSE IF i = w.stop THEN [marked EXCEPT !.stop = @ - 1] ELSE marked

\* rc_client_apply_unlocks, for this set and those after it
Applied(game, unlocks, both) ==
  [s \in DOMAIN game |->
     WithAchievements(game[s],
       FoldLeft(ApplyOne, [start |-> 1, stop |-> Len(game[s].achievements),
                           items |-> game[s].achievements, both |-> both], unlocks).items)]

\* rc_client_activate_game
ApplyUnlocks(hard, soft) ==
  /\ phase = "loaded" /\ phase' = "unlocked"
  /\ sets' = Applied(Applied(sets, hard, TRUE), soft, FALSE)
  /\ sent' = [hard |-> hard, soft |-> soft]
  /\ UNCHANGED <<source, ofHardcore, unreadable, listed, listedBoards>>

-----------------------------------------------------------------------------
(* What runs.                                                               *)

\* Faulty variant: the bucket is left as it is.
Invalidated_KeepsBucket(game, addresses) ==
  [s \in DOMAIN game |->
     [game[s] EXCEPT
        !.achievements = [i \in DOMAIN @ |->
           IF @[i].state # "disabled" /\ @[i].address \in addresses
           THEN [@[i] EXCEPT !.state = "disabled", !.trigger = "disabled"] ELSE @[i]],
        !.boards = [i \in DOMAIN @ |->
           IF @[i].address \in addresses THEN [@[i] EXCEPT !.state = "disabled"] ELSE @[i]]]]

\* rc_client_invalidate_memref_achievements, rc_client_invalidate_memref_leaderboards, called for
\* each of these addresses, and in any order (rc_client_validate_addresses).
Invalidated(game, addresses) ==
  [s \in DOMAIN game |->
     [game[s] EXCEPT
        !.achievements = [i \in DOMAIN @ |->
           IF @[i].state # "disabled" /\ @[i].address \in addresses
           THEN [@[i] EXCEPT !.state = "disabled", !.bucket = "unsupported", !.trigger = "disabled"]
           ELSE @[i]],
        !.boards = [i \in DOMAIN @ |->
           IF @[i].address \in addresses THEN [@[i] EXCEPT !.state = "disabled"] ELSE @[i]]]]

\* rc_client_subset_toggle_hardcore_achievements, for a game that starts
Started(a, bit) ==
  IF a.state \notin {"inactive", "unlocked", "active"}
  THEN [a EXCEPT !.at = IF a[bit] THEN (IF bit = "hard" THEN a.hardAt ELSE a.softAt) ELSE @]
  ELSE IF ~a[bit] THEN [a EXCEPT !.state = "active", !.trigger = "waiting", !.measured = Unknown]
  ELSE [a EXCEPT !.at = IF bit = "hard" THEN a.hardAt ELSE a.softAt,
                 !.state = "unlocked", !.trigger = "triggered"]

\* rc_client_update_legacy_runtime_achievements, rc_client_update_active_achievements
Listed(game) ==
  UNION {{a.id : a \in {x \in Range(game[s].achievements) : x.state = "active"}} :
         s \in {t \in DOMAIN game : game[t].active}}

\* rc_client_update_legacy_runtime_leaderboards
ListedBoards(game) ==
  UNION {{b.id : b \in {x \in Range(game[s].boards) : x.state \in {"active", "tracking"}}} :
         s \in {t \in DOMAIN game : game[t].active}}

\* rc_client_activate_achievements
Activated(game) ==
  LET bit == IF ofHardcore THEN "hard" ELSE "soft"
  IN [s \in DOMAIN game |->
        IF game[s].active
        THEN WithAchievements(game[s], [i \in DOMAIN game[s].achievements |-> Started(game[s].achievements[i], bit)])
        ELSE game[s]]

\* rc_client_activate_leaderboards, for a game that starts: only hardcore has any.
BoardsStarted(game) ==
  [s \in DOMAIN game |->
     IF game[s].active /\ ofHardcore
     THEN [game[s] EXCEPT !.boards = [i \in DOMAIN @ |->
             IF @[i].state = "inactive" THEN [@[i] EXCEPT !.state = "active"] ELSE @[i]]]
     ELSE game[s]]

\* rc_client_activate_game: the addresses first, so that what cannot run is not started.
Activate(addresses) ==
  LET started == BoardsStarted(Activated(Invalidated(sets, addresses)))
  IN /\ phase = "unlocked" /\ phase' = "active"
     /\ sets' = started /\ listed' = Listed(started) /\ listedBoards' = ListedBoards(started)
     /\ unreadable' = addresses /\ sent' = NothingSent /\ UNCHANGED <<source, ofHardcore>>

\* rc_client_update_memref_values: an address becomes unreadable in a frame; the leaderboards of the
\* runtime are not listed again.
BecomesUnreadable(address) ==
  LET game == Invalidated(sets, {address})
  IN /\ phase = "active" /\ address \notin unreadable
     /\ sets' = game /\ listed' = Listed(game) /\ unreadable' = unreadable \cup {address}
     /\ UNCHANGED <<phase, source, ofHardcore, sent, listedBoards>>

\* A frame measures and primes one achievement, or awards it; a leaderboard starts or stops.
Measures(s, i, value, trigger) ==
  /\ phase = "active" /\ sets[s].active /\ sets[s].achievements[i].state = "active"
  /\ sets[s].achievements[i].target > 0
  /\ sets' = [sets EXCEPT ![s].achievements[i] = [@ EXCEPT !.measured = value, !.trigger = trigger]]
  /\ UNCHANGED <<phase, source, ofHardcore, sent, unreadable, listed, listedBoards>>

Awards(s, i, waits) ==
  LET game == [sets EXCEPT ![s].achievements[i] =
                 [@ EXCEPT !.state = "unlocked", !.trigger = "triggered", !.at = Now, !.pending = waits]]
  IN /\ phase = "active" /\ sets[s].active /\ sets[s].achievements[i].state = "active"
     /\ sets' = game /\ listed' = Listed(game)
     /\ UNCHANGED <<phase, source, ofHardcore, sent, unreadable, listedBoards>>

Tracks(s, i) ==
  /\ phase = "active" /\ sets[s].active
  /\ \/ sets[s].boards[i].state = "active" /\ sets' = [sets EXCEPT ![s].boards[i].state = "tracking"]
     \/ sets[s].boards[i].state = "tracking" /\ sets' = [sets EXCEPT ![s].boards[i].state = "active"]
  /\ UNCHANGED <<phase, source, ofHardcore, sent, unreadable, listed, listedBoards>>

-----------------------------------------------------------------------------
(* What is shown.                                                           *)

\* rc_client_update_achievement_display_information: percents are rounded down.
Displayed(a) ==
  LET value == IF a.measured > a.target THEN a.target ELSE a.measured
      percent == IF a.target = 0 \/ a.measured = Unknown THEN a.percent
                 ELSE (value * 100) \div a.target
      open == IF a.trigger = "primed" THEN "challenge"
              ELSE IF percent >= 80 THEN "almost"
              ELSE IF a.category = "unofficial" THEN "unofficial" ELSE "locked"
  IN CASE a.bucket = "unsupported" -> a
       [] a.bucket # "unsupported" /\ a.state = "unlocked" ->
            [a EXCEPT !.bucket = IF a.at >= Recent THEN "recent" ELSE IF a.pending THEN "unsynced" ELSE "unlocked"]
       [] OTHER -> [a EXCEPT !.percent = percent, !.bucket = open]

DisplayedAll(game, category) ==
  [s \in DOMAIN game |->
     IF game[s].active
     THEN WithAchievements(game[s], [i \in DOMAIN game[s].achievements |->
            IF game[s].achievements[i].category \in category
            THEN Displayed(game[s].achievements[i]) ELSE game[s].achievements[i]])
     ELSE game[s]]

\* Faulty variant: progress is also left apart when grouped by lock state.
MapBucket_Apart(bucket, grouping) ==
  IF grouping = "progress" THEN bucket
  ELSE CASE bucket \in {"recent", "unsynced"} -> "unlocked"
         [] bucket = "challenge" -> "locked"
         [] OTHER -> bucket

\* rc_client_map_bucket
MapBucket(bucket, grouping) ==
  IF grouping = "progress" THEN bucket
  ELSE CASE bucket \in {"recent", "unsynced"} -> "unlocked"
         [] bucket \in {"challenge", "almost"} -> "locked"
         [] OTHER -> bucket

\* What a list is made of: for each active set, the items that are counted, with their buckets.
AchievementRows(game, category, grouping) ==
  LET active == SelectSeq(game, LAMBDA s : s.active)
      row(a) == [id |-> a.id, bucket |-> MapBucket(a.bucket, grouping), hidden |-> FALSE,
                 at |-> a.at, percent |-> a.percent]
  IN [s \in DOMAIN active |->
        LET of == SelectSeq(active[s].achievements, LAMBDA a : a.category \in category)
        IN [i \in DOMAIN of |-> row(of[i])]]

\* rc_client_get_leaderboard_bucket; a hidden one keeps the bucket it had, and is not counted.
BoardBucket(b, grouping) ==
  CASE b.hidden -> b.bucket
    [] ~b.hidden /\ b.state = "disabled" -> "unsupported"
    [] OTHER -> IF grouping = "none" THEN "all" ELSE IF b.state = "tracking" THEN "active" ELSE "inactive"

BoardRows(game, grouping) ==
  LET active == SelectSeq(game, LAMBDA s : s.active)
  IN [s \in DOMAIN active |->
        [i \in DOMAIN active[s].boards |->
           [id |-> active[s].boards[i].id, bucket |-> BoardBucket(active[s].boards[i], grouping),
            hidden |-> active[s].boards[i].hidden, at |-> 0, percent |-> 0]]]

\* The first pass of rc_client_create_achievement_list and rc_client_create_leaderboard_list: how
\* many buckets and items there is room for.
RoomFor(rows, split) ==
  LET buckets == UNION {{rows[s][i].bucket : i \in {k \in DOMAIN rows[s] : ~rows[s][k].hidden}} : s \in DOMAIN rows}
      setsWith(b) == {s \in DOMAIN rows : \E i \in DOMAIN rows[s] : rows[s][i].bucket = b}
  IN [buckets |-> MapThenSumSet(LAMBDA b : IF Len(rows) > 1 /\ b \in split THEN Cardinality(setsWith(b)) ELSE 1, buckets),
      items |-> MapThenSumSet(LAMBDA s : Cardinality({i \in DOMAIN rows[s] : ~rows[s][i].hidden}), DOMAIN rows)]

\* The order within a bucket: the last unlocks first, or the nearest to done.
Before(bucket, x, y) ==
  CASE bucket = "recent" -> x.at > y.at
    [] bucket = "almost" -> x.percent > y.percent \/ (x.percent = y.percent /\ x.id < y.id)
    [] OTHER -> FALSE

InOrder(bucket, rows) == SortSeq(rows, LAMBDA x, y : Before(bucket, x, y))

\* The second pass: the buckets that are shared by the sets, then those of each set.
Buckets(rows, shared, own) ==
  LET of(row, b) == SelectSeq(row, LAMBDA x : x.bucket = b /\ ~x.hidden)
      all(b) == FlattenSeq([s \in DOMAIN rows |-> of(rows[s], b)])
      first == [k \in DOMAIN shared |->
                  [bucket |-> shared[k], set |-> 0, rows |-> InOrder(shared[k], all(shared[k]))]]
      rest == FlattenSeq([s \in DOMAIN rows |->
                [k \in DOMAIN own |->
                   [bucket |-> own[k], set |-> IF Len(rows) > 1 THEN s ELSE 0, rows |-> of(rows[s], own[k])]]])
  IN SelectSeq(first \o rest, LAMBDA b : b.rows # <<>>)

\* rc_client_create_achievement_list
AchievementList(game, category, grouping) ==
  LET rows == AchievementRows(game, category, grouping)
  IN [rows |-> rows, room |-> RoomFor(rows, Range(SetOrder)),
      buckets |-> Buckets(rows, IF grouping = "progress" THEN SharedOrder ELSE <<>>, SetOrder)]

\* rc_client_create_leaderboard_list
BoardList(game, grouping) ==
  LET rows == BoardRows(game, grouping)
  IN [rows |-> rows, room |-> RoomFor(rows, {"all", "inactive", "unsupported"}),
      buckets |-> Buckets(rows, IF grouping = "tracking" THEN <<"active">> ELSE <<>>,
                          <<"all", "inactive", "unsupported">>)]

\* Making a list updates what its achievements show.
CreateAchievementList(category) ==
  /\ phase = "active" /\ sets' = DisplayedAll(sets, category)
  /\ UNCHANGED <<phase, source, ofHardcore, sent, unreadable, listed, listedBoards>>

CreateLeaderboardList(grouping) ==
  /\ phase = "active"
  /\ sets' = [s \in DOMAIN sets |->
       IF sets[s].active
       THEN [sets[s] EXCEPT !.boards = [i \in DOMAIN @ |-> [@[i] EXCEPT !.bucket = BoardBucket(sets[s].boards[i], grouping)]]]
       ELSE sets[s]]
  /\ UNCHANGED <<phase, source, ofHardcore, sent, unreadable, listed, listedBoards>>

\* rc_client_get_achievement_info: the first that has the id, in any set.
GetAchievementInfo(id) ==
  LET has(s) == \E a \in Range(sets[s].achievements) : a.id = id
      s == Min({t \in DOMAIN sets : has(t)})
      i == SelectInSeq(sets[s].achievements, LAMBDA a : a.id = id)
  IN /\ phase = "active" /\ \E t \in DOMAIN sets : has(t)
     /\ sets' = [sets EXCEPT ![s].achievements[i] = Displayed(@)]
     /\ UNCHANGED <<phase, source, ofHardcore, sent, unreadable, listed, listedBoards>>

\* rc_client_get_next_achievement_info: those on the way to the next of a bucket are updated.
Places == FlattenSeq([s \in DOMAIN sets |->
            IF sets[s].active THEN [i \in DOMAIN sets[s].achievements |-> <<s, i>>] ELSE <<>>])
GetNextAchievementInfo(after, bucket) ==
  LET from == IF after = <<>> THEN 1 ELSE SelectInSeq(Places, LAMBDA p : p = after) + 1
      shows(k) == Displayed(sets[Places[k][1]].achievements[Places[k][2]])
      found == {k \in from..Len(Places) : shows(k).bucket = bucket}
      visited == {Places[k] : k \in from..(IF found = {} THEN Len(Places) ELSE Min(found))}
  IN /\ phase = "active"
     /\ sets' = [s \in DOMAIN sets |->
          WithAchievements(sets[s], [i \in DOMAIN sets[s].achievements |->
            IF <<s, i>> \in visited THEN Displayed(sets[s].achievements[i]) ELSE sets[s].achievements[i]])]
     /\ UNCHANGED <<phase, source, ofHardcore, sent, unreadable, listed, listedBoards>>

ListsInit ==
  /\ phase = "loaded" /\ source \in Games /\ sets = source.sets /\ ofHardcore \in BOOLEAN
  /\ sent = NothingSent /\ unreadable = {} /\ listed = {} /\ listedBoards = {}

Addresses == UNION {{a.address : a \in Range(s.achievements) \cup Range(s.boards)} : s \in Range(sets)} \ {0}

ListsNext ==
  \/ \E hard, soft \in source.unlocks : ApplyUnlocks(hard, soft)
  \/ \E addresses \in SUBSET Addresses : Activate(addresses)
  \/ \E a \in Addresses : BecomesUnreadable(a)
  \/ \E s \in DOMAIN sets :
       \/ \E i \in DOMAIN sets[s].achievements :
            \/ \E v \in Measurements, t \in {"waiting", "primed"} : Measures(s, i, v, t)
            \/ \E waits \in BOOLEAN : Awards(s, i, waits)
       \/ \E i \in DOMAIN sets[s].boards : Tracks(s, i)
       \/ \E a \in Range(sets[s].achievements) : GetAchievementInfo(a.id)
  \/ \E category \in {{"core"}, {"unofficial"}, Categories} : CreateAchievementList(category)
  \/ \E grouping \in {"none", "tracking"} : CreateLeaderboardList(grouping)
  \/ \E after \in {<<>>} \cup Range(Places), b \in {"locked", "challenge"} : GetNextAchievementInfo(after, b)

ListsSpec == ListsInit /\ [][ListsNext]_listVars

-----------------------------------------------------------------------------
\* Whatever the order in which the server sends unlocks, each one that is in a set is marked, with
\* its time, and no other (rc_client_apply_unlocks).
UnlocksApplied ==
  phase = "unlocked" =>
    \A s \in DOMAIN sets : \A a \in Range(sets[s].achievements) :
      LET hard == {u[2] : u \in {x \in Range(sent.hard) : x[1] = a.id}}
          soft == {u[2] : u \in {x \in Range(sent.soft) : x[1] = a.id}}
      IN /\ a.hard = (hard # {})
         /\ a.hard => a.hardAt \in hard
         /\ a.soft = (hard \cup soft # {})
         /\ a.soft => a.softAt \in (IF soft # {} THEN soft ELSE hard)

\* The buckets of a list hold what there is to show, within the room made for it.
Complete(list) ==
  LET shown == FlattenSeq([b \in DOMAIN list.buckets |-> list.buckets[b].rows])
      all == SelectSeq(FlattenSeq(list.rows), LAMBDA r : ~r.hidden)
  IN /\ Len(list.buckets) <= list.room.buckets /\ Len(shown) <= list.room.items
     /\ Len(shown) = Len(all) /\ Range(shown) = Range(all)
\* A list shows every item of its category in an active set once, in its bucket, and is no larger
\* than the room made for it before (rc_client_create_achievement_list,
\* rc_client_create_leaderboard_list).
EachShownOnce ==
  phase = "active" =>
    /\ \A category \in {{"core"}, Categories}, grouping \in {"progress", "lockstate"} :
         Complete(AchievementList(DisplayedAll(sets, category), category, grouping))
    /\ \A grouping \in {"none", "tracking"} : Complete(BoardList(sets, grouping))

\* What uses memory that cannot be read is disabled for good, and is shown as unsupported whatever
\* is done afterwards; the runtime has just the achievements that run, and all leaderboards that do
\* (rc_client_invalidate_memref_achievements, rc_client_update_memref_values).
UnreadableIsOut ==
  phase = "active" =>
    /\ \A s \in DOMAIN sets :
         /\ \A a \in Range(sets[s].achievements) :
              /\ a.address \in unreadable =>
                   a.state = "disabled" /\ a.trigger = "disabled" /\ a.bucket = "unsupported"
              /\ a.id \in listed <=> (sets[s].active /\ a.state = "active")
         /\ \A b \in Range(sets[s].boards) :
              /\ b.address \in unreadable => b.state = "disabled"
              /\ sets[s].active /\ b.state \in {"active", "tracking"} => b.id \in listedBoards
=============================================================================
