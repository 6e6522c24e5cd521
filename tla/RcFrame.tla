------------------------------ MODULE RcFrame ------------------------------
(***************************************************************************)
(* The frame of rc_client.c: achievements and leaderboards are evaluated,  *)
(* and the user is told of what changed by events.  Two things stay on the *)
(* screen between frames and have to be taken off again: the challenge     *)
(* indicator of a primed achievement, and the leaderboard trackers, which  *)
(* leaderboards with the same value share.                                 *)
(*                                                                         *)
(* What the conditions of an asset do is a choice among the states they    *)
(* may lead to (trigger.c, lboard.c).  The handlers work on the state of   *)
(* the client as a record t; the pending flags live within one call, as    *)
(* every call that sets them raises the events before it returns.          *)
(***************************************************************************)
EXTENDS Integers, FiniteSets, SequencesExt

CONSTANTS
  Games,        \* each a record: achs, a set, and boards, a sequence of records
                \* val, pro: what is submitted and what is shown meanwhile
  HitDefs,      \* the values that count hits
  NoDef,        \* the leaderboard shows the value it submits
  Values,       \* bound: the values a definition may have
  Saves         \* the user loads saved progress

ASSUME FrameAssumption ==
  /\ Values \subseteq Nat /\ 0 \in Values /\ IsFiniteSet(Values)
  /\ NoDef \notin HitDefs /\ Saves \in BOOLEAN
  /\ \A g \in Games : g.boards \in Seq(Range(g.boards))
  /\ \A g \in Games : \A b \in DOMAIN g.boards :
       /\ g.boards[b].val # NoDef
       /\ g.boards[b].pro = NoDef \/ {g.boards[b].pro, g.boards[b].val} \cap HitDefs = {}

VARIABLES
  game,          \* the assets of the game that is played
  loaded,        \* client->game is not NULL
  hardcore,      \* state.hardcore
  encore,        \* state.encore_mode
  waiting,       \* game->waiting_for_reset
  unlocked,      \* unlocked bits of each achievement
  ach,           \* state of each achievement and of its trigger
  board,         \* public state, runtime state, value and tracker of each leaderboard
  trackers,      \* game->leaderboard_trackers
  shown,         \* history: achievements with an indicator on the screen
  shownTrackers, \* history: trackers on the screen
  outOfTurn      \* history: events the screen was not ready for

vars == <<game, loaded, hardcore, encore, waiting, unlocked, ach, board, trackers, shown,
          shownTrackers, outOfTurn>>

State == [game |-> game, loaded |-> loaded, hardcore |-> hardcore, encore |-> encore,
          waiting |-> waiting, unlocked |-> unlocked, ach |-> ach, board |-> board,
          trackers |-> trackers, shown |-> shown, shownTrackers |-> shownTrackers,
          outOfTurn |-> outOfTurn]

Becomes(next) ==
  \E t \in {next} :
    /\ game' = t.game /\ loaded' = t.loaded /\ hardcore' = t.hardcore
    /\ encore' = t.encore /\ waiting' = t.waiting /\ unlocked' = t.unlocked
    /\ ach' = t.ach /\ board' = t.board /\ trackers' = t.trackers
    /\ shown' = t.shown /\ shownTrackers' = t.shownTrackers /\ outOfTurn' = t.outOfTurn

Indices(s) == [i \in 1 .. Len(s) |-> i]
ActiveTriggers == {"waiting", "active", "paused", "primed"}

\* The achievements an indicator is due for.
Primed(t) == {a \in t.game.achs : t.ach[a] = [state |-> "active", trigger |-> "primed"]}

-----------------------------------------------------------------------------
(* Events.  The screen is not ready for an indicator it shows already, nor for
   hiding or updating one it does not show. *)

AchievementEvents(t, hide, show) ==
  [t EXCEPT !.shown = (@ \ hide) \cup show,
            !.outOfTurn = @ \cup ({"hide"} \X (hide \ t.shown))
                            \cup ({"show"} \X (show \cap t.shown))]

\* What a tracker tells the user: SHOW and HIDE in the same frame cancel out.
TrackerEvent(pend) ==
  CASE {"hide", "show"} \subseteq pend -> "none"
    [] "hide" \in pend /\ "show" \notin pend -> "hide"
    [] "show" \in pend /\ "hide" \notin pend -> "show"
    [] pend = {"update"} -> "update"
    [] pend = {} -> "none"

\* rc_client_raise_leaderboard_tracker_events
RaiseTrackerEvents(t) ==
  LET Raised(e) == {i \in DOMAIN t.trackers : TrackerEvent(t.trackers[i].pend) = e}
  IN  [t EXCEPT
        !.trackers = [i \in DOMAIN t.trackers |->
                       [t.trackers[i] EXCEPT
                          !.display = IF t.trackers[i].pend \cap {"show", "update"} # {}
                                      THEN t.trackers[i].raw ELSE @,
                          !.pend = {}]],
        !.shownTrackers = (@ \ Raised("hide")) \cup Raised("show"),
        !.outOfTurn = @ \cup ({"hide"} \X (Raised("hide") \ t.shownTrackers))
                        \cup ({"update"} \X (Raised("update") \ t.shownTrackers))
                        \cup ({"show"} \X (Raised("show") \cap t.shownTrackers))]

-----------------------------------------------------------------------------
(* Leaderboard trackers *)

Mark(t, i, flag) == [t EXCEPT !.trackers[i].pend = @ \cup {flag}]

SetRaw(t, i, value) ==
  IF t.trackers[i].raw = value THEN t
  ELSE Mark([t EXCEPT !.trackers[i].raw = value], i, "update")

\* Faulty variant: a tracker that is still to be hidden is taken.
Claimable_Pending(tracker) == tracker.ref = 0

\* Faulty variant: only a tracker that is to be hidden is taken.
Claimable_Never(tracker) == tracker.ref = 0 /\ tracker.pend = {"hide"}

\* A tracker nobody uses and nothing is pending for may be taken for another value.
Claimable(tracker) == tracker.ref = 0 /\ tracker.pend = {}

\* rc_client_allocate_leaderboard_tracker: a tracker of the same value is shared,
\* but for one that counts hits and stands at another value; else one is claimed,
\* which goes on displaying what it did, or appended.
NewTracker(val, value, display) ==
  [ref |-> 1, val |-> val, raw |-> value, display |-> display, pend |-> {"show"}]

Sharing(t, b, i, value) ==
  [[SetRaw(t, i, value) EXCEPT !.trackers[i].ref = @ + 1, !.trackers[i].pend = @ \ {"hide"}]
     EXCEPT !.board[b].tracker = i]
Claiming(t, b, i, value) ==
  [[t EXCEPT !.trackers[i] =
                NewTracker(t.game.boards[b].val, value, t.trackers[i].display)]
     EXCEPT !.board[b].tracker = i]
Appending(t, b, i, value) ==
  [[t EXCEPT !.trackers = Append(@, NewTracker(t.game.boards[b].val, value, 0))]
     EXCEPT !.board[b].tracker = i]

Allocate(t, b) ==
  LET val == t.game.boards[b].val
      value == t.board[b].value
      same == {i \in DOMAIN t.trackers :
                 /\ t.trackers[i].ref > 0 /\ t.trackers[i].val = val
                 /\ val \in HitDefs => t.trackers[i].raw = value}
      free == {i \in DOMAIN t.trackers : Claimable(t.trackers[i])}
      First(s) == CHOOSE i \in s : \A j \in s : i <= j
  IN  CASE same # {} -> Sharing(t, b, First(same), value)
        [] same = {} /\ free # {} -> Claiming(t, b, First(free), value)
        [] same = {} /\ free = {} -> Appending(t, b, Len(t.trackers) + 1, value)

\* The tracker of leaderboard b is forgotten, and has a user less.
Detach(t, b) == [t EXCEPT !.board[b].tracker = 0]
Uncount(t, i) == [t EXCEPT !.trackers[i].ref = @ - 1]

\* Faulty variant: the tracker is hidden whoever else uses it.
Release_Shared(t, b) ==
  LET i == t.board[b].tracker
  IN  IF i = 0 THEN Detach(t, b) ELSE Mark(Uncount(Detach(t, b), i), i, "hide")

\* rc_client_release_leaderboard_tracker
Release(t, b) ==
  LET i == t.board[b].tracker
      a == Detach(t, b)
      c == Uncount(a, i)
  IN  IF i = 0 THEN a ELSE IF c.trackers[i].ref = 0 THEN Mark(c, i, "hide") ELSE c

\* rc_client_update_leaderboard_tracker
Update(t, b) ==
  IF t.board[b].tracker = 0 THEN t ELSE SetRaw(t, t.board[b].tracker, t.board[b].value)

\* A leaderboard that is tracking gives up its tracker, whatever becomes of it.
StopTracking(t, b, pub) ==
  [(IF t.board[b].pub = "tracking" THEN Release(t, b) ELSE t) EXCEPT !.board[b].pub = pub]

AllBoards(t, Op(_, _)) == FoldLeft(Op, t, Indices(t.game.boards))

-----------------------------------------------------------------------------
(* What the conditions lead to *)

\* rc_evaluate_trigger: whether the conditions hold, a ResetIf does, or the trigger
\* is left paused, primed or active.  It does not fire while it waits for its
\* conditions to become false, and ResetIf ends being primed.
Verdicts == {"fire", "reset", "paused", "primed", "active"}
EvaluateTrigger(old, verdict) ==
  CASE verdict = "fire" -> IF old = "waiting" THEN "waiting" ELSE "triggered"
    [] verdict = "reset" -> IF old = "primed" THEN "active" ELSE old
    [] OTHER -> verdict

\* rc_evaluate_lboard: an attempt does not start before the start conditions were
\* false; one that starts and ends in the same frame is submitted.
EvaluateLboard(old, conds) ==
  CASE old \in {"waiting", "triggered", "canceled"} ->
         IF "start" \in conds THEN old ELSE "active"
    [] old = "active" ->
         IF conds \cap {"start", "cancel"} # {"start"} THEN "active"
         ELSE IF "submit" \in conds THEN "triggered" ELSE "started"
    [] old = "started" ->
         IF "cancel" \in conds THEN "canceled"
         ELSE IF "submit" \in conds THEN "triggered" ELSE "started"
    [] OTHER -> old

\* The value after the evaluation, vals giving what each definition reads, or
\* whether it counts a hit.
EvaluateValue(def, c, new, vals) ==
  CASE new = "started" /\ def.pro # NoDef -> vals[def.pro]
    [] new \in {"started", "triggered"} /\ (new = "triggered" \/ def.pro = NoDef) ->
         IF def.val \in HitDefs
         THEN (IF c.st = "started" THEN c.value ELSE 0) + vals[def.val]
         ELSE vals[def.val]
    [] OTHER -> 0

\* rc_client_do_frame_process_leaderboards, for one leaderboard
Run(t, b, st, value) == [t EXCEPT !.board[b].st = st, !.board[b].value = value]
Publish(t, b, pub) == [t EXCEPT !.board[b].pub = pub]
\* A leaderboard that was in state st gets a tracker, or goes on with the one it has.
Track(t, b, st) == IF st = "started" THEN Update(t, b) ELSE Allocate(t, b)

ProcessLeaderboard(t, b, conds, vals) ==
  LET c == t.board[b]
      new == EvaluateLboard(c.st, conds[b])
      e == Run(t, b, new, EvaluateValue(t.game.boards[b], c, new, vals))
      track == Track(e, b, c.st)
  IN  CASE c.pub = "inactive" -> t
        [] c.pub \in {"active", "tracking"} /\ new = "started" -> Publish(track, b, "tracking")
        [] c.pub \in {"active", "tracking"} /\ new = "canceled" /\ c.st = "started" ->
             Publish(Release(e, b), b, "active")
        [] c.pub \in {"active", "tracking"} /\ new = "triggered" /\ c.st # "triggered" ->
             Publish(Release(track, b), b, "active")
        [] OTHER -> e

Bit(t) == IF t.hardcore THEN "hardcore" ELSE "softcore"

\* rc_client_award_achievement: unlocked in hardcore is unlocked in softcore.
Award(t, won) ==
  LET bits == IF t.hardcore THEN {"hardcore", "softcore"} ELSE {"softcore"}
  IN  [t EXCEPT !.unlocked = [a \in t.game.achs |-> @[a] \cup (IF a \in won THEN bits ELSE {})],
                !.ach = [a \in t.game.achs |->
                          IF a \in won THEN [@[a] EXCEPT !.state = "unlocked"] ELSE @[a]],
                !.outOfTurn = @ \cup {<<"award", a>> : a \in
                                {a \in won : ~t.encore /\ Bit(t) \in t.unlocked[a]}}]

\* rc_client_do_frame_process_achievements and rc_client_raise_achievement_events
ProcessAchievements(t, verdicts) ==
  LET live == {a \in t.game.achs : t.ach[a].state = "active"}
      moved == [t EXCEPT !.ach = [a \in t.game.achs |->
                  [t.ach[a] EXCEPT !.trigger = IF a \in live
                                               THEN EvaluateTrigger(@, verdicts[a]) ELSE @]]]
      won == {a \in live : moved.ach[a].trigger = "triggered"}
  IN  AchievementEvents(Award(moved, won), Primed(t) \ Primed(moved),
                        Primed(moved) \ Primed(t))

-----------------------------------------------------------------------------
(* The handlers *)

Definitions(g) ==
  (UNION {{g.boards[b].val, g.boards[b].pro} : b \in DOMAIN g.boards}) \ {NoDef}

\* rc_client_do_frame: leaderboards are processed in hardcore only, as nothing
\* sets allow_leaderboards_in_softcore.
Frame(t, verdicts, conds, vals) ==
  LET Process(u, b) == ProcessLeaderboard(u, b, conds, vals)
      a == ProcessAchievements(t, verdicts)
  IN  IF a.hardcore THEN RaiseTrackerEvents(AllBoards(a, Process)) ELSE a

\* rc_client_subset_toggle_hardcore_achievements, for one achievement
ToggleAchievement(t, a, bit) ==
  LET c == t.ach[a]
  IN  IF bit \notin t.unlocked[a]
      THEN IF c.state \in {"unlocked", "inactive"}
           THEN [state |-> "active", trigger |-> "waiting"] ELSE c
      ELSE IF c.state \in {"active", "inactive"} /\ ~t.encore
           THEN [state |-> "unlocked",
                 trigger |-> IF c.trigger \in ActiveTriggers THEN "triggered" ELSE c.trigger]
           ELSE c

ToggleAchievements(t, bit) ==
  LET u == [t EXCEPT !.ach = [a \in t.game.achs |-> ToggleAchievement(t, a, bit)]]
  IN  AchievementEvents(u, Primed(t) \ Primed(u), {})

\* rc_client_activate_leaderboards, which finds them inactive in hardcore only.
ActivateLeaderboards(t) ==
  IF ~t.hardcore THEN t
  ELSE [t EXCEPT !.board = [b \in DOMAIN t.game.boards |->
          IF @[b].pub = "inactive" THEN [@[b] EXCEPT !.pub = "active", !.st = "waiting",
                                                     !.value = 0]
          ELSE @[b]]]

\* rc_client_deactivate_leaderboards
DeactivateLeaderboards(t) ==
  LET Stop(u, b) == StopTracking(u, b, "inactive")
  IN  AllBoards(t, Stop)

\* rc_client_reset_all
ResetAll(t) ==
  LET a == [t EXCEPT !.ach = [a \in t.game.achs |->
              [t.ach[a] EXCEPT !.trigger = IF t.ach[a].state = "active" THEN "waiting"
                                           ELSE @]]]
      Reset(u, b) == IF u.board[b].pub = "inactive" THEN u
                     ELSE [StopTracking(u, b, "active") EXCEPT !.board[b].st = "waiting",
                                                              !.board[b].value = 0]
  IN  RaiseTrackerEvents(AllBoards(AchievementEvents(a, Primed(t), {}), Reset))

\* rc_client_deserialize_progress: the runtime state of what is active comes from
\* the saved progress, or is reset; what is tracked before and after keeps its
\* tracker.
Deserialized(t, triggers, states, values) ==
  LET live == {a \in t.game.achs : t.ach[a].state = "active"}
      a == [t EXCEPT !.ach = [c \in t.game.achs |->
              [t.ach[c] EXCEPT !.trigger = IF c \in live THEN triggers[c] ELSE @]]]
      Load(u, b) ==
        LET c == u.board[b]
            v == [u EXCEPT !.board[b].st = states[b],
                           !.board[b].value = IF states[b] = "started" THEN values[b] ELSE 0]
        IN  CASE c.pub = "inactive" -> u
              [] c.pub = "active" /\ states[b] = "started" ->
                   [Allocate(v, b) EXCEPT !.board[b].pub = "tracking"]
              [] c.pub = "tracking" /\ states[b] = "started" -> Update(v, b)
              [] OTHER -> StopTracking(v, b, "active")
  IN  RaiseTrackerEvents(AllBoards(
        AchievementEvents(a, Primed(t) \ Primed(a), Primed(a) \ Primed(t)), Load))

\* rc_client_game_mark_ui_to_be_hidden and rc_client_raise_pending_events
Hidden(t) ==
  LET Stop(u, b) == IF u.board[b].pub # "tracking" THEN u ELSE Release(u, b)
  IN  RaiseTrackerEvents(AllBoards(AchievementEvents(t, Primed(t), {}), Stop))

FreshAchievements(g) == [a \in g.achs |-> [state |-> "inactive", trigger |-> "waiting"]]
FreshLeaderboards(g) ==
  [b \in DOMAIN g.boards |->
     [pub |-> "inactive", st |-> "waiting", value |-> 0, tracker |-> 0]]

\* rc_client_activate_game: nothing is evaluated yet.
Loaded(t) ==
  ActivateLeaderboards(
    ToggleAchievements([t EXCEPT !.loaded = TRUE], IF t.encore THEN "none" ELSE Bit(t)))

-----------------------------------------------------------------------------
Init ==
  /\ game \in Games
  /\ hardcore \in BOOLEAN /\ encore \in BOOLEAN
  /\ loaded = FALSE /\ waiting = FALSE
  /\ unlocked = [a \in game.achs |-> {}]
  /\ ach = FreshAchievements(game) /\ board = FreshLeaderboards(game)
  /\ trackers = << >>
  /\ shown = {} /\ shownTrackers = {} /\ outOfTurn = {}

Load == ~loaded /\ Becomes(Loaded(State))

DoFrame ==
  /\ loaded /\ ~waiting
  /\ \E verdicts \in [game.achs -> Verdicts],
        conds \in [DOMAIN game.boards -> SUBSET {"start", "cancel", "submit"}],
        vals \in [Definitions(game) -> Values] :
       /\ \A d \in Definitions(game) \cap HitDefs : vals[d] <= 1
       /\ LET t == Frame(State, verdicts, conds, vals)
          IN  /\ \A b \in DOMAIN game.boards : t.board[b].value \in Values
              /\ Becomes(t)

\* rc_client_set_hardcore_enabled: "disable processing until the client
\* acknowledges the reset event".
SetHardcore(enabled) ==
  /\ hardcore # enabled
  /\ LET t == [State EXCEPT !.hardcore = enabled]
     IN  Becomes(
           IF ~loaded THEN t
           ELSE IF enabled
                THEN [ActivateLeaderboards(ToggleAchievements(t, "hardcore"))
                        EXCEPT !.waiting = TRUE]
                ELSE RaiseTrackerEvents(
                       DeactivateLeaderboards(ToggleAchievements(t, "softcore"))))

\* rc_client_reset
Reset == loaded /\ Becomes([ResetAll(State) EXCEPT !.waiting = FALSE])

\* The saved values of one definition agree, but for those that count hits; an
\* attempt that ended and one that waits to begin go on alike.
Deserialize ==
  /\ Saves /\ loaded
  /\ \E triggers \in [game.achs -> ActiveTriggers],
        states \in [DOMAIN game.boards -> {"waiting", "active", "started"}],
        values \in [DOMAIN game.boards -> Values] :
       /\ \A b, c \in DOMAIN game.boards :
            LET def == game.boards[b].val
            IN  game.boards[c].val = def /\ def \notin HitDefs => values[b] = values[c]
       /\ Becomes(Deserialized(State, triggers, states, values))

\* rc_client_unload_game
Unload ==
  /\ loaded
  /\ Becomes([Hidden(State) EXCEPT !.loaded = FALSE, !.waiting = FALSE,
                                   !.ach = FreshAchievements(game),
                                   !.board = FreshLeaderboards(game),
                                   !.trackers = << >>])

Next ==
  \/ Load \/ DoFrame \/ Reset \/ Deserialize \/ Unload
  \/ \E enabled \in BOOLEAN : SetHardcore(enabled)

Spec == Init /\ [][Next]_vars

-----------------------------------------------------------------------------
(* Properties *)

Boards == DOMAIN game.boards
Users(i) == {b \in Boards : board[b].tracker = i}
Tracking == {b \in Boards : board[b].pub = "tracking"}

TypeOK ==
  /\ loaded \in BOOLEAN /\ hardcore \in BOOLEAN /\ encore \in BOOLEAN /\ waiting \in BOOLEAN
  /\ unlocked \in [game.achs -> SUBSET {"hardcore", "softcore"}]
  /\ ach \in [game.achs -> [state : {"active", "inactive", "unlocked"},
                            trigger : ActiveTriggers \cup {"triggered"}]]
  /\ board \in [Boards -> [pub : {"inactive", "active", "tracking"},
                           st : {"waiting", "active", "started", "triggered", "canceled"},
                           value : Values, tracker : 0 .. Len(trackers)]]
  /\ \A i \in DOMAIN trackers : trackers[i].ref \in Nat /\ trackers[i].pend = {}
  /\ shown \subseteq game.achs

\* The indicators on the screen are those of the achievements that are active and
\* primed, whatever frame, reset, saved state or change of mode came between.
IndicatorsRight == shown = Primed(State)

\* No SHOW for what is shown, no HIDE or UPDATE for what is not, and no second
\* unlock of an achievement in a mode it is unlocked in, but for encore mode.
EventsInTurn == outOfTurn = {}

\* The trackers on the screen are those some leaderboard uses, and each counts
\* its leaderboards right: one that counted too few would vanish under another.
TrackersCounted ==
  /\ \A i \in DOMAIN trackers : trackers[i].ref = Cardinality(Users(i))
  /\ shownTrackers = {i \in DOMAIN trackers : trackers[i].ref > 0}

\* A leaderboard has a tracker while an attempt is under way, and only then.
TrackingMeansStarted ==
  \A b \in Boards :
    /\ (b \in Tracking) = (board[b].tracker # 0)
    /\ b \in Tracking => board[b].st = "started"

\* A leaderboard whose shown value is the one it is shared by.
Comparable(b) ==
  /\ game.boards[b].val \notin HitDefs
  /\ \A c \in Boards : game.boards[c].val = game.boards[b].val => game.boards[c].pro = NoDef

\* A tracker shows the value of every leaderboard it stands for.
TrackerShowsValue ==
  \A b \in Tracking : Comparable(b) => trackers[board[b].tracker].display = board[b].value

\* Leaderboards run in hardcore only, and an attempt does not outlive it.
SoftcoreHasNoAttempts == ~hardcore => Tracking = {} /\ shownTrackers = {}

\* The list of trackers never shrinks while a game is loaded, so claiming a free
\* one has to keep it short: at most one shown and one still to be hidden for
\* each leaderboard.
FewTrackers == Len(trackers) <= 2 * Len(game.boards)

\* What is on the screen is what is under way: indicators, trackers, and the values they show.
ScreenIsRight ==
  /\ TypeOK /\ IndicatorsRight /\ TrackersCounted /\ TrackingMeansStarted /\ TrackerShowsValue
  /\ SoftcoreHasNoAttempts
=============================================================================
