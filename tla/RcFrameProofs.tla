--------------------------- MODULE RcFrameProofs ---------------------------
(***************************************************************************)
(* Proofs about RcFrame: the screen shows what is under way, events come   *)
(* in turn and trackers stay few, for any games and values.                *)
(*                                                                         *)
(* A handler goes through the leaderboards in one call and raises the      *)
(* events at its end, so that most of the argument is about the states     *)
(* within a call: Held, which holds after every leaderboard, relates what  *)
(* is pending for a tracker to whether somebody uses it and whether it is  *)
(* on the screen.                                                          *)
(***************************************************************************)
EXTENDS RcFrame, FiniteSetTheorems, TLAPS

\* The bodies of the loops, p being what they read of the call they are in.
FrameBody(p, u, b) == ProcessLeaderboard(u, b, p.conds, p.vals)
FrameLoop == INSTANCE Loops WITH Body <- FrameBody

Flags == {"hide", "show", "update"}
Publics == {"inactive", "active", "tracking"}
Runtimes == {"waiting", "active", "started", "triggered", "canceled"}
AchSet == [state : {"active", "inactive", "unlocked"}, trigger : ActiveTriggers \cup {"triggered"}]
BoardSet(X) == [pub : Publics, st : Runtimes, value : X, tracker : Nat]
TrackerSet(g) == [ref : Nat, val : {g.boards[b].val : b \in DOMAIN g.boards},
                  raw : Nat, display : Nat, pend : SUBSET Flags]

\* The states a loop over the leaderboards goes through from t on: it changes nothing but them
\* and the trackers.  X has the values there may be.
Frozen(t, X) ==
  [game : {t.game}, loaded : {t.loaded}, hardcore : {t.hardcore}, encore : {t.encore},
   waiting : {t.waiting}, unlocked : {t.unlocked}, ach : {t.ach},
   board : [1 .. Len(t.game.boards) -> BoardSet(X)], trackers : Seq(TrackerSet(t.game)),
   shown : {t.shown}, shownTrackers : {t.shownTrackers}, outOfTurn : {t.outOfTurn}]

LEMMA FrozenHas ==
  ASSUME NEW t, NEW X, NEW u \in Frozen(t, X)
  PROVE  /\ u.game = t.game /\ u.shownTrackers = t.shownTrackers /\ u.hardcore = t.hardcore
         /\ u.loaded = t.loaded /\ u.encore = t.encore /\ u.waiting = t.waiting
         /\ u.unlocked = t.unlocked /\ u.ach = t.ach /\ u.shown = t.shown
         /\ u.outOfTurn = t.outOfTurn
         /\ u.board \in [1 .. Len(t.game.boards) -> BoardSet(X)]
         /\ u.trackers \in Seq(TrackerSet(t.game))
BY DEF Frozen

LEMMA BoardIs ==
  ASSUME NEW t, NEW X, NEW u \in Frozen(t, X), NEW b \in 1 .. Len(t.game.boards)
  PROVE  u.board[b] \in BoardSet(X)
<1>1. u.board \in [1 .. Len(t.game.boards) -> BoardSet(X)]  BY FrozenHas
<1>2. QED  BY <1>1

\* What a step writes: one leaderboard, or one tracker.
PutBoard(u, b, c) == [u EXCEPT !.board[b] = c]
PutTracker(u, i, k) == [u EXCEPT !.trackers[i] = k]

LEMMA BoardPut ==
  ASSUME NEW t, NEW X, NEW u \in Frozen(t, X), NEW b \in 1 .. Len(t.game.boards),
         NEW c \in BoardSet(X), NEW v, v = PutBoard(u, b, c)
  PROVE  v \in Frozen(t, X) /\ v.board = [u.board EXCEPT ![b] = c] /\ v.trackers = u.trackers
<1> DEFINE B == [u.board EXCEPT ![b] = c]
<1>1. B \in [1 .. Len(t.game.boards) -> BoardSet(X)]  BY FrozenHas
<1>2. v = [u EXCEPT !.board = B]  BY DEF PutBoard
<1> HIDE DEF B
<1>3. QED  BY <1>1, <1>2 DEF Frozen, B

\* Of the trackers only i differs, and of the leaderboards none.
Touched(u, v, i) ==
  /\ v.board = u.board /\ Len(v.trackers) = Len(u.trackers)
  /\ \A j \in 1 .. Len(u.trackers) : j # i => v.trackers[j] = u.trackers[j]

LEMMA Replace ==
  ASSUME NEW t, NEW X, NEW u \in Frozen(t, X), NEW i \in 1 .. Len(u.trackers),
         NEW k \in TrackerSet(t.game), NEW v, v = PutTracker(u, i, k)
  PROVE  v \in Frozen(t, X) /\ Touched(u, v, i) /\ v.trackers[i] = k
<1> DEFINE K == u.trackers
           L == [K EXCEPT ![i] = k]
<1>1. K \in Seq(TrackerSet(t.game)) /\ i \in 1 .. Len(K)  BY FrozenHas
<1>2. v = [u EXCEPT !.trackers = L]  BY DEF PutTracker
<1> HIDE DEF K
<1>3. /\ L \in Seq(TrackerSet(t.game)) /\ Len(L) = Len(K) /\ L[i] = k
      /\ \A j \in 1 .. Len(K) : j # i => L[j] = K[j]
  BY <1>1
<1> HIDE DEF L
<1>4. v \in Frozen(t, X) /\ v.trackers = L /\ v.board = u.board  BY <1>2, <1>3 DEF Frozen
<1>5. QED  BY <1>3, <1>4 DEF Touched, K

\* All that differs is that a flag of tracker i is set.
Marked(u, v, i, flag) ==
  /\ Touched(u, v, i)
  /\ v.trackers[i].ref = u.trackers[i].ref /\ v.trackers[i].val = u.trackers[i].val
  /\ v.trackers[i].raw = u.trackers[i].raw
  /\ v.trackers[i].display = u.trackers[i].display
  /\ v.trackers[i].pend = u.trackers[i].pend \cup {flag}

LEMMA MarkDoes ==
  ASSUME NEW t, NEW X, NEW u \in Frozen(t, X), NEW i \in 1 .. Len(u.trackers), NEW flag \in Flags,
         NEW v, v = Mark(u, i, flag)
  PROVE  v \in Frozen(t, X) /\ Marked(u, v, i, flag)
<1> DEFINE k == u.trackers[i]
           l == [k EXCEPT !.pend = k.pend \cup {flag}]
<1>1. k \in TrackerSet(t.game)  BY FrozenHas
<1>2. v = PutTracker(u, i, l)  BY DEF Mark, PutTracker
<1> HIDE DEF k
<1>3. /\ l \in TrackerSet(t.game) /\ l.pend = k.pend \cup {flag}
      /\ l.ref = k.ref /\ l.val = k.val /\ l.raw = k.raw /\ l.display = k.display
  BY <1>1 DEF TrackerSet
<1> HIDE DEF l
<1>4. v \in Frozen(t, X) /\ Touched(u, v, i) /\ v.trackers[i] = l  BY <1>2, <1>3, Replace
<1>5. QED  BY <1>3, <1>4 DEF k, Marked

\* All that differs is that tracker i stands at the value.
Standing(u, v, i, value) ==
  /\ Touched(u, v, i)
  /\ v.trackers[i].ref = u.trackers[i].ref /\ v.trackers[i].val = u.trackers[i].val
  /\ v.trackers[i].raw = value
  /\ v.trackers[i].display = u.trackers[i].display
  /\ v.trackers[i].pend =
       u.trackers[i].pend \cup (IF u.trackers[i].raw = value THEN {} ELSE {"update"})

LEMMA SetRawDoes ==
  ASSUME NEW t, NEW X, NEW u \in Frozen(t, X), NEW i \in 1 .. Len(u.trackers), NEW value \in Nat,
         NEW v, v = SetRaw(u, i, value)
  PROVE  v \in Frozen(t, X) /\ Standing(u, v, i, value)
<1> DEFINE k == u.trackers[i]
           m == [k EXCEPT !.raw = value]
<1>1. CASE k.raw = value
  <2>1. v = u  BY <1>1 DEF SetRaw
  <2>2. QED  BY <1>1, <2>1 DEF Touched, Standing
<1>2. CASE k.raw # value
  <2>1. v = Mark(PutTracker(u, i, m), i, "update")  BY <1>2 DEF SetRaw, PutTracker
  <2>2. k \in TrackerSet(t.game)  BY FrozenHas
  <2> HIDE DEF k
  <2>3. /\ m \in TrackerSet(t.game) /\ m.pend = k.pend /\ m.raw = value
        /\ m.ref = k.ref /\ m.val = k.val /\ m.display = k.display
    BY <2>2 DEF TrackerSet
  <2> HIDE DEF m
  <2>4. PICK x : x = PutTracker(u, i, m)  OBVIOUS
  <2>5. x \in Frozen(t, X) /\ Touched(u, x, i) /\ x.trackers[i] = m  BY <2>3, <2>4, Replace
  <2>6. i \in 1 .. Len(x.trackers)  BY <2>5 DEF Touched
  <2>7. v \in Frozen(t, X) /\ Marked(x, v, i, "update")
    BY <2>1, <2>4, <2>5, <2>6, MarkDoes DEF Flags
  <2>8. Touched(u, v, i)  BY <2>5, <2>7 DEF Touched, Marked
  <2>9. QED  BY <1>2, <2>3, <2>5, <2>7, <2>8 DEF k, Marked, Standing
<1>3. QED  BY <1>1, <1>2

\* rc_client_release_leaderboard_tracker: leaderboard b has no tracker, and i one user less.
Released(u, v, b, i) ==
  LET k == u.trackers[i]
      l == v.trackers[i]
  IN  /\ v.board = [u.board EXCEPT ![b] = [u.board[b] EXCEPT !.tracker = 0]]
      /\ Len(v.trackers) = Len(u.trackers)
      /\ \A j \in 1 .. Len(u.trackers) : j # i => v.trackers[j] = u.trackers[j]
      /\ l.ref = k.ref - 1 /\ l.val = k.val /\ l.raw = k.raw /\ l.display = k.display
      /\ l.pend = k.pend \cup (IF l.ref = 0 THEN {"hide"} ELSE {})

LEMMA ReleaseDoes ==
  ASSUME NEW t, NEW X, NEW u \in Frozen(t, X), NEW b \in 1 .. Len(t.game.boards), NEW i, NEW v,
         v = Release(u, b), i = u.board[b].tracker, i \in 1 .. Len(u.trackers),
         u.trackers[i].ref # 0
  PROVE  v \in Frozen(t, X) /\ Released(u, v, b, i)
<1> DEFINE c == [u.board[b] EXCEPT !.tracker = 0]
           k == u.trackers[i]
           m == [k EXCEPT !.ref = k.ref - 1]
<1>1. u.board[b] \in BoardSet(X) /\ k \in TrackerSet(t.game) /\ k.ref # 0  BY FrozenHas
<1>2. c \in BoardSet(X)  BY <1>1 DEF BoardSet
<1>3. PICK a : a = Detach(u, b)  OBVIOUS
<1>4. PICK w : w = Uncount(a, i)  OBVIOUS
<1>5. v = IF w.trackers[i].ref = 0 THEN Mark(w, i, "hide") ELSE w
  <2>1. i # 0
    <3>1. Len(u.trackers) \in Nat  BY FrozenHas
    <3>2. QED  BY <3>1
  <2>2. i = u.board[b].tracker /\ v = Release(u, b)  OBVIOUS
  <2>3. QED  BY ONLY <1>3, <1>4, <2>1, <2>2, Zenon DEF Release
<1>13. a = PutBoard(u, b, c)  BY ONLY <1>3, Zenon DEF Detach, PutBoard
<1> HIDE DEF c, k
<1>6. a \in Frozen(t, X) /\ a.board = [u.board EXCEPT ![b] = c] /\ a.trackers = u.trackers
  BY <1>2, <1>13, BoardPut
<1>7. w = PutTracker(a, i, m)  BY <1>4, <1>6 DEF PutTracker, Uncount, k
<1>8. /\ m \in TrackerSet(t.game) /\ m.ref = k.ref - 1 /\ m.val = k.val /\ m.raw = k.raw
      /\ m.display = k.display /\ m.pend = k.pend
  BY SMTT(60), <1>1 DEF TrackerSet
<1> HIDE DEF m
<1>9. w \in Frozen(t, X) /\ Touched(a, w, i) /\ w.trackers[i] = m  BY <1>6, <1>7, <1>8, Replace
<1>10. CASE m.ref = 0
  <2>1. v = Mark(w, i, "hide") /\ i \in 1 .. Len(w.trackers)
    BY <1>5, <1>6, <1>9, <1>10 DEF Touched
  <2>2. v \in Frozen(t, X) /\ Marked(w, v, i, "hide")
    BY SMTT(60), <1>9, <2>1, MarkDoes DEF Flags
  <2>3. /\ v.board = w.board /\ Len(v.trackers) = Len(w.trackers)
        /\ \A j \in 1 .. Len(w.trackers) : j # i => v.trackers[j] = w.trackers[j]
        /\ v.trackers[i].ref = m.ref /\ v.trackers[i].val = m.val
        /\ v.trackers[i].raw = m.raw /\ v.trackers[i].display = m.display
        /\ v.trackers[i].pend = m.pend \cup {"hide"}
    BY <1>9, <2>2 DEF Touched, Marked
  <2>4. /\ w.board = a.board /\ Len(w.trackers) = Len(u.trackers)
        /\ \A j \in 1 .. Len(u.trackers) : j # i => w.trackers[j] = u.trackers[j]
    BY <1>6, <1>9 DEF Touched
  <2>5. v.trackers[i].ref = 0  BY ONLY <1>10, <2>3, Zenon
  <2>6. v.board = [u.board EXCEPT ![b] = [u.board[b] EXCEPT !.tracker = 0]]
    BY ONLY Zenon, <1>6, <2>3, <2>4 DEF c
  <2>7. /\ Len(v.trackers) = Len(u.trackers)
        /\ \A j \in 1 .. Len(u.trackers) : j # i => v.trackers[j] = u.trackers[j]
    BY ONLY Zenon, <2>3, <2>4
  <2>8. /\ v.trackers[i].ref = k.ref - 1 /\ v.trackers[i].val = k.val /\ v.trackers[i].raw = k.raw
        /\ v.trackers[i].display = k.display
        /\ v.trackers[i].pend = k.pend \cup (IF v.trackers[i].ref = 0 THEN {"hide"} ELSE {})
    BY <1>8, <2>3, <2>5
  <2>9. QED  BY <2>2, <2>6, <2>7, <2>8, Zenon DEF Released, k
<1>11. CASE m.ref # 0
  <2>1. v = w  BY <1>5, <1>9, <1>11
  <2>2. QED  BY ZenonT(60), <1>6, <1>8, <1>9, <1>11, <2>1 DEF Touched, Released, c, k
<1>12. QED  BY <1>10, <1>11

\* rc_client_allocate_leaderboard_tracker: leaderboard b has tracker i, which it shares, or which
\* was claimed or appended.
Shared(u, v, b, i, value) ==
  LET k == u.trackers[i]
      l == v.trackers[i]
  IN  /\ i \in 1 .. Len(u.trackers) /\ Len(v.trackers) = Len(u.trackers)
      /\ k.ref > 0 /\ k.val = u.game.boards[b].val /\ l.ref = k.ref + 1
      /\ l.display = k.display
      /\ l.pend = (k.pend \cup (IF k.raw = value THEN {} ELSE {"update"})) \ {"hide"}

Claimed(u, v, i) ==
  /\ i \in 1 .. Len(u.trackers) /\ Len(v.trackers) = Len(u.trackers) /\ Claimable(u.trackers[i])
  /\ v.trackers[i].ref = 1 /\ v.trackers[i].pend = {"show"}

Appended(u, v, i) ==
  /\ i = Len(u.trackers) + 1 /\ Len(v.trackers) = i
  /\ \A j \in 1 .. Len(u.trackers) : ~Claimable(u.trackers[j])
  /\ v.trackers[i].ref = 1 /\ v.trackers[i].pend = {"show"}

Allotted(u, v, b, i, value) ==
  /\ v.board = [u.board EXCEPT ![b] = [u.board[b] EXCEPT !.tracker = i]]
  /\ \A j \in 1 .. Len(u.trackers) : j # i => v.trackers[j] = u.trackers[j]
  /\ v.trackers[i].val = u.game.boards[b].val /\ v.trackers[i].raw = value
  /\ Shared(u, v, b, i, value) \/ Claimed(u, v, i) \/ Appended(u, v, i)

LEMMA SharedDoes ==
  ASSUME NEW t, NEW X, NEW u \in Frozen(t, X), NEW b \in 1 .. Len(t.game.boards),
         NEW value \in Nat, NEW i \in 1 .. Len(u.trackers), NEW v,
         u.trackers[i].ref > 0, u.trackers[i].val = u.game.boards[b].val,
         v = Sharing(u, b, i, value)
  PROVE  v \in Frozen(t, X) /\ Allotted(u, v, b, i, value)
<1>1. PICK w : w = SetRaw(u, i, value)  OBVIOUS
<1>2. w \in Frozen(t, X) /\ Standing(u, w, i, value)  BY <1>1, SetRawDoes
<1>3. i \in 1 .. Len(w.trackers)  BY <1>2 DEF Standing, Touched
<1>4. w.trackers[i] \in TrackerSet(t.game)  BY <1>2, <1>3, FrozenHas
<1> DEFINE k == w.trackers[i]
           l == [k EXCEPT !.ref = k.ref + 1]
           m == [l EXCEPT !.pend = l.pend \ {"hide"}]
<1>21. k \in TrackerSet(t.game)  BY <1>4
<1> HIDE DEF k
<1>5. /\ l \in TrackerSet(t.game) /\ l.ref = k.ref + 1 /\ l.val = k.val /\ l.raw = k.raw
      /\ l.display = k.display /\ l.pend = k.pend
  BY <1>21, SMTT(60) DEF TrackerSet
<1> HIDE DEF l
<1>6. /\ m \in TrackerSet(t.game) /\ m.ref = l.ref /\ m.val = l.val /\ m.raw = l.raw
      /\ m.display = l.display /\ m.pend = l.pend \ {"hide"}
  BY <1>5 DEF TrackerSet
<1> HIDE DEF m
<1>7. PICK x : x = PutTracker(w, i, l)  OBVIOUS
<1>8. x \in Frozen(t, X) /\ Touched(w, x, i) /\ x.trackers[i] = l  BY <1>2, <1>3, <1>5, <1>7, Replace
<1>9. PICK y : y = PutTracker(x, i, m)  OBVIOUS
<1>10. i \in 1 .. Len(x.trackers)  BY <1>3, <1>8 DEF Touched
<1>11. y \in Frozen(t, X) /\ Touched(x, y, i) /\ y.trackers[i] = m
  BY <1>6, <1>8, <1>9, <1>10, Replace
<1>12. y = [w EXCEPT !.trackers[i].ref = @ + 1, !.trackers[i].pend = @ \ {"hide"}]
  <2>1. x = [w EXCEPT !.trackers[i].ref = @ + 1]  BY <1>7 DEF PutTracker, l, k
  <2>2. y = [x EXCEPT !.trackers[i].pend = x.trackers[i].pend \ {"hide"}]
    BY <1>8, <1>9 DEF PutTracker, m
  <2>3. QED  BY <2>1, <2>2
<1> DEFINE c == [y.board[b] EXCEPT !.tracker = i]
<1>13. v = PutBoard(y, b, c)  BY <1>1, <1>12 DEF PutBoard, Sharing
<1>14. y.board[b] \in BoardSet(X)  BY <1>11, FrozenHas, SMTT(60)
<1>15. c \in BoardSet(X)  BY <1>14 DEF BoardSet
<1> HIDE DEF c
<1>16. v \in Frozen(t, X) /\ v.board = [y.board EXCEPT ![b] = c] /\ v.trackers = y.trackers
  BY <1>11, <1>13, <1>15, BoardPut
<1>17. /\ y.board = u.board /\ Len(y.trackers) = Len(u.trackers)
       /\ \A j \in 1 .. Len(u.trackers) : j # i => y.trackers[j] = u.trackers[j]
  BY <1>2, <1>8, <1>11 DEF Touched, Standing
<1>18. /\ m.ref = u.trackers[i].ref + 1 /\ m.val = u.trackers[i].val /\ m.raw = value
       /\ m.display = u.trackers[i].display
       /\ m.pend = (u.trackers[i].pend \cup
                      (IF u.trackers[i].raw = value THEN {} ELSE {"update"})) \ {"hide"}
  BY <1>2, <1>5, <1>6 DEF Standing, k
<1>19. Shared(u, v, b, i, value)  BY <1>11, <1>16, <1>17, <1>18 DEF Shared
<1>20. QED  BY <1>11, <1>16, <1>17, <1>18, <1>19 DEF Allotted, c

LEMMA BoardsOf ==
  ASSUME NEW g \in Games
  PROVE  Len(g.boards) \in Nat /\ DOMAIN g.boards = 1 .. Len(g.boards)
BY FrameAssumption

LEMMA NewTrackerIs ==
  ASSUME NEW g \in Games, NEW b \in 1 .. Len(g.boards), NEW value \in Nat, NEW d \in Nat,
         NEW k, k = NewTracker(g.boards[b].val, value, d)
  PROVE  k \in TrackerSet(g)
<1>1. b \in DOMAIN g.boards  BY BoardsOf
<1>2. g.boards[b].val \in {g.boards[c].val : c \in DOMAIN g.boards}  BY <1>1
<1>3. QED  BY <1>2 DEF NewTracker, TrackerSet, Flags

LEMMA ClaimedDoes ==
  ASSUME NEW t, NEW X, t.game \in Games, NEW u \in Frozen(t, X),
         NEW b \in 1 .. Len(t.game.boards), NEW value \in Nat, NEW i \in 1 .. Len(u.trackers),
         Claimable(u.trackers[i]), NEW v, v = Claiming(u, b, i, value)
  PROVE  v \in Frozen(t, X) /\ Allotted(u, v, b, i, value)
<1> DEFINE val == t.game.boards[b].val
<1>1. PICK k : k = NewTracker(val, value, u.trackers[i].display)
  OBVIOUS
<1>2. u.game = t.game /\ u.trackers[i] \in TrackerSet(t.game)  BY FrozenHas
<1>3. u.trackers[i].display \in Nat  BY <1>2 DEF TrackerSet
<1>4. k \in TrackerSet(t.game) /\ k.ref = 1 /\ k.val = val /\ k.raw = value /\ k.pend = {"show"}
  <2>1. k \in TrackerSet(t.game)  BY <1>1, <1>3, NewTrackerIs
  <2>2. k.ref = 1 /\ k.val = val /\ k.raw = value /\ k.pend = {"show"}
    BY <1>1 DEF NewTracker
  <2>3. QED  BY <2>1, <2>2
<1>5. PICK w : w = PutTracker(u, i, k)  OBVIOUS
<1>6. w \in Frozen(t, X) /\ Touched(u, w, i) /\ w.trackers[i] = k  BY <1>4, <1>5, Replace
<1> DEFINE c == [w.board[b] EXCEPT !.tracker = i]
<1>7. v = PutBoard(w, b, c)  BY <1>1, <1>2, <1>5 DEF PutBoard, PutTracker, Claiming
<1>8. w.board[b] \in BoardSet(X)  BY ZenonT(60), <1>6, FrozenHas
<1>9. c \in BoardSet(X)  BY <1>8 DEF BoardSet
<1> HIDE DEF c
<1>10. v \in Frozen(t, X) /\ v.board = [w.board EXCEPT ![b] = c] /\ v.trackers = w.trackers
  BY <1>6, <1>7, <1>9, BoardPut
<1>11. Claimed(u, v, i)  BY <1>4, <1>6, <1>10 DEF Claimed, Touched
<1>12. QED  BY <1>2, <1>4, <1>6, <1>10, <1>11 DEF Allotted, Touched, c

LEMMA AppendedDoes ==
  ASSUME NEW t, NEW X, t.game \in Games, NEW u \in Frozen(t, X),
         NEW b \in 1 .. Len(t.game.boards), NEW value \in Nat, NEW i,
         i = Len(u.trackers) + 1, \A j \in 1 .. Len(u.trackers) : ~Claimable(u.trackers[j]),
         NEW v, v = Appending(u, b, i, value)
  PROVE  v \in Frozen(t, X) /\ Allotted(u, v, b, i, value)
<1> DEFINE val == t.game.boards[b].val
<1>1. PICK k : k = NewTracker(val, value, 0)  OBVIOUS
<1>2. u.game = t.game /\ u.trackers \in Seq(TrackerSet(t.game))  BY FrozenHas
<1>3. k \in TrackerSet(t.game) /\ k.ref = 1 /\ k.val = val /\ k.raw = value /\ k.pend = {"show"}
  <2>1. k \in TrackerSet(t.game)  BY <1>1, NewTrackerIs
  <2>2. k.ref = 1 /\ k.val = val /\ k.raw = value /\ k.pend = {"show"}
    BY <1>1 DEF NewTracker
  <2>3. QED  BY <2>1, <2>2
<1>5. PICK L : L = Append(u.trackers, k)  OBVIOUS
<1>6. /\ L \in Seq(TrackerSet(t.game)) /\ Len(L) = i /\ L[i] = k
      /\ \A j \in 1 .. Len(u.trackers) : L[j] = u.trackers[j]
  BY <1>2, <1>3, <1>5
<1>7. PICK w : w = [u EXCEPT !.trackers = L]  OBVIOUS
<1>8. w \in Frozen(t, X) /\ w.trackers = L /\ w.board = u.board  BY <1>6, <1>7 DEF Frozen
<1> DEFINE c == [w.board[b] EXCEPT !.tracker = i]
<1>9. v = PutBoard(w, b, c)  BY <1>1, <1>2, <1>5, <1>7 DEF PutBoard, Appending
<1>10. w.board[b] \in BoardSet(X) /\ i \in Nat
  <2>1. w.board[b] \in BoardSet(X)  BY <1>8, BoardIs
  <2>2. Len(u.trackers) \in Nat  BY <1>2
  <2>3. QED  BY <2>1, <2>2
<1>11. c \in BoardSet(X)  BY <1>10 DEF BoardSet
<1> HIDE DEF c
<1>12. v \in Frozen(t, X) /\ v.board = [w.board EXCEPT ![b] = c] /\ v.trackers = w.trackers
  BY <1>8, <1>9, <1>11, BoardPut
<1>13. Appended(u, v, i)  BY <1>3, <1>6, <1>8, <1>12 DEF Appended
<1>14. QED  BY <1>2, <1>3, <1>6, <1>8, <1>12, <1>13 DEF Allotted, c

LEMMA FirstIsIn ==
  ASSUME NEW s \in SUBSET Nat, s # {}
  PROVE  (CHOOSE i \in s : \A j \in s : i <= j) \in s
<1>1. \E x \in s : \A y \in s : x <= y  BY FrameLoop!Least
<1>2. QED  BY <1>1, Zenon

\* rc_client_allocate_leaderboard_tracker does one of these.
LEMMA AllocateDoes ==
  ASSUME NEW t, NEW X, t.game \in Games, NEW u \in Frozen(t, X),
         NEW b \in 1 .. Len(t.game.boards), u.board[b].value \in Nat, NEW v, v = Allocate(u, b)
  PROVE  /\ v \in Frozen(t, X)
         /\ \E i : Allotted(u, v, b, i, u.board[b].value)
<1> DEFINE value == u.board[b].value
           val == u.game.boards[b].val
           same == {i \in DOMAIN u.trackers :
                      /\ u.trackers[i].ref > 0 /\ u.trackers[i].val = val
                      /\ val \in HitDefs => u.trackers[i].raw = value}
           free == {i \in DOMAIN u.trackers : Claimable(u.trackers[i])}
           First(s) == CHOOSE i \in s : \A j \in s : i <= j
<1>1. DOMAIN u.trackers = 1 .. Len(u.trackers) /\ Len(u.trackers) \in Nat  BY FrozenHas
<1>2. ASSUME NEW s \in SUBSET DOMAIN u.trackers, s # {}  PROVE First(s) \in s
  <2>1. s \in SUBSET Nat  BY <1>1, <1>2
  <2>2. QED  BY <1>2, <2>1, FirstIsIn, Zenon
<1>3. CASE same # {}
  <2>1. v = Sharing(u, b, First(same), value)  BY <1>3, Zenon DEF Allocate
  <2>2. same \in SUBSET DOMAIN u.trackers  OBVIOUS
  <2>3. \A i \in same : u.trackers[i].ref > 0 /\ u.trackers[i].val = val  OBVIOUS
  <2> HIDE DEF same, First
  <2>4. First(same) \in same  BY <1>2, <1>3, <2>2
  <2>5. PICK i \in same : i = First(same)  BY <2>4
  <2>6. v = Sharing(u, b, i, value)  BY <2>1, <2>5
  <2>7. i \in 1 .. Len(u.trackers) /\ u.trackers[i].ref > 0 /\ u.trackers[i].val = val
    <3>1. i \in DOMAIN u.trackers  BY <2>2, Zenon
    <3>2. u.trackers[i].ref > 0 /\ u.trackers[i].val = val  BY <2>3, Zenon
    <3>3. QED  BY <1>1, <3>1, <3>2, Zenon
  <2>8. QED  BY <2>6, <2>7, SharedDoes, SMTT(60)
<1>4. CASE same = {} /\ free # {}
  <2>3. v = Claiming(u, b, First(free), value)  BY <1>4, Zenon DEF Allocate
  <2>4. free \in SUBSET DOMAIN u.trackers  OBVIOUS
  <2>5. \A i \in free : Claimable(u.trackers[i])  OBVIOUS
  <2> HIDE DEF same, free, First
  <2>6. First(free) \in free  BY <1>2, <1>4, <2>4
  <2>7. PICK i \in free : i = First(free)  BY <2>6
  <2>8. v = Claiming(u, b, i, value)  BY <2>3, <2>7
  <2>9. i \in 1 .. Len(u.trackers) /\ Claimable(u.trackers[i])  BY <1>1, <2>4, <2>5, SMTT(30)
  <2>10. QED  BY <2>8, <2>9, ClaimedDoes, SMTT(60)
<1>5. CASE same = {} /\ free = {}
  <2>1. v = Appending(u, b, Len(u.trackers) + 1, value)  BY <1>5, Zenon DEF Allocate
  <2>2. \A j \in 1 .. Len(u.trackers) : ~Claimable(u.trackers[j])  BY <1>1, <1>5
  <2> HIDE DEF same, free, First
  <2>3. QED  BY <2>1, <2>2, AppendedDoes, SMTT(60)
<1>6. QED  BY <1>3, <1>4, <1>5

-----------------------------------------------------------------------------
(* What holds of the trackers after every leaderboard of a call.            *)

UsersOf(u, i) == {b \in 1 .. Len(u.game.boards) : u.board[b].tracker = i}

\* A tracker nobody uses is free to be claimed, or it is to be hidden, unless it was never shown;
\* one that is used is on the screen, or to be shown.  S has those on the screen.
Ready(k, j, S) ==
  /\ \/ Claimable(k) /\ j \notin S
     \/ ("hide" \in k.pend <=> k.ref = 0) /\ ("show" \in k.pend <=> j \notin S)
  /\ k.pend \cap {"show", "update"} = {} => k.display = k.raw

Counted(u) ==
  /\ u.shownTrackers \subseteq 1 .. Len(u.trackers)
  /\ \A j \in 1 .. Len(u.trackers) :
       u.trackers[j].ref = Cardinality(UsersOf(u, j)) /\ Ready(u.trackers[j], j, u.shownTrackers)

\* The tracker of a leaderboard is of its value.
Theirs(u) ==
  \A b \in 1 .. Len(u.game.boards) :
    /\ u.board[b].tracker \in 0 .. Len(u.trackers)
    /\ u.board[b].tracker # 0 => u.trackers[u.board[b].tracker].val = u.game.boards[b].val

\* What Comparable says, of any game g.
Alike(g, b) ==
  /\ g.boards[b].val \notin HitDefs
  /\ \A c \in DOMAIN g.boards : g.boards[c].val = g.boards[b].val => g.boards[c].pro = NoDef

\* The trackers of the first m leaderboards stand at what w gives.
Agree(u, w, m) ==
  \A b \in 1 .. m : Alike(u.game, b) /\ u.board[b].tracker # 0 =>
                      u.trackers[u.board[b].tracker].raw = w[b]

\* w gives one value to each definition.
OneValue(g, w) ==
  \A b, c \in 1 .. Len(g.boards) :
    Alike(g, b) /\ g.boards[c].val = g.boards[b].val => w[b] = w[c]

\* The value is the one w gives to leaderboard b, if that is one of those.
Due(g, w, b, value) == Alike(g, b) => value = w[b]

\* The trackers that are neither used nor free, of which there is one for each of d leaderboards.
Dead(u) == {j \in 1 .. Len(u.trackers) : u.trackers[j].ref = 0 /\ u.trackers[j].pend # {}}
Short(u, d) ==
  Len(u.trackers) <= 2 * Len(u.game.boards) /\ Cardinality(Dead(u)) <= d

Held(u, w, m, d) == Counted(u) /\ Theirs(u) /\ Agree(u, w, m) /\ Short(u, d)

LEMMA ReadyShared ==
  ASSUME NEW j, NEW S, NEW g, NEW k \in TrackerSet(g), NEW l, NEW value, Ready(k, j, S), k.ref > 0,
         l.ref = k.ref + 1, l.display = k.display, l.raw = value,
         l.pend = (k.pend \cup (IF k.raw = value THEN {} ELSE {"update"})) \ {"hide"}
  PROVE  Ready(l, j, S) /\ l.ref # 0
<1>1. k.ref \in Nat /\ l.ref # 0  BY DEF TrackerSet
<1>2. ~Claimable(k)  BY DEF Claimable
<1>3. "hide" \notin k.pend /\ ("show" \in k.pend <=> j \notin S)  BY <1>1, <1>2 DEF Ready
<1>4. "hide" \notin l.pend /\ ("show" \in l.pend <=> j \notin S)  BY <1>3
<1>5. l.pend \cap {"show", "update"} = {} => l.display = l.raw
  <2>1. SUFFICES ASSUME l.pend \cap {"show", "update"} = {}  PROVE l.display = l.raw
    OBVIOUS
  <2>2. k.raw = value  BY <2>1
  <2>3. k.pend \cap {"show", "update"} = {}  BY <2>1, <2>2
  <2>4. QED  BY <2>2, <2>3 DEF Ready
<1>6. QED  BY <1>1, <1>4, <1>5 DEF Ready

LEMMA ReadyStanding ==
  ASSUME NEW j, NEW S, NEW g, NEW k \in TrackerSet(g), NEW l, NEW value, Ready(k, j, S), k.ref # 0,
         l.ref = k.ref, l.display = k.display, l.raw = value,
         l.pend = k.pend \cup (IF k.raw = value THEN {} ELSE {"update"})
  PROVE  Ready(l, j, S)
<1>1. k.ref \in Nat  BY DEF TrackerSet
<1>2. ~Claimable(k)  BY DEF Claimable
<1>3. "hide" \notin k.pend /\ ("show" \in k.pend <=> j \notin S)  BY <1>1, <1>2 DEF Ready
<1>4. "hide" \notin l.pend /\ ("show" \in l.pend <=> j \notin S)  BY <1>3
<1>5. l.pend \cap {"show", "update"} = {} => l.display = l.raw
  <2>1. SUFFICES ASSUME l.pend \cap {"show", "update"} = {}  PROVE l.display = l.raw
    OBVIOUS
  <2>2. k.raw = value  BY <2>1
  <2>3. k.pend \cap {"show", "update"} = {}  BY <2>1, <2>2
  <2>4. QED  BY <2>2, <2>3 DEF Ready
<1>6. QED  BY <1>1, <1>4, <1>5 DEF Ready

LEMMA ReadyReleased ==
  ASSUME NEW j, NEW S, NEW g, NEW k \in TrackerSet(g), NEW l, Ready(k, j, S), k.ref # 0,
         l.ref = k.ref - 1, l.display = k.display, l.raw = k.raw,
         l.pend = k.pend \cup (IF l.ref = 0 THEN {"hide"} ELSE {})
  PROVE  Ready(l, j, S)
<1>1. k.ref \in Nat  BY DEF TrackerSet
<1>2. ~Claimable(k)  BY DEF Claimable
<1>3. "hide" \notin k.pend /\ ("show" \in k.pend <=> j \notin S)  BY <1>1, <1>2 DEF Ready
<1>4. ("hide" \in l.pend <=> l.ref = 0) /\ ("show" \in l.pend <=> j \notin S)  BY <1>3
<1>5. l.pend \cap {"show", "update"} = {} => l.display = l.raw
  <2>1. SUFFICES ASSUME l.pend \cap {"show", "update"} = {}  PROVE l.display = l.raw
    OBVIOUS
  <2>2. k.pend \cap {"show", "update"} = {}  BY <2>1
  <2>3. QED  BY <2>2 DEF Ready
<1>6. QED  BY <1>4, <1>5 DEF Ready

LEMMA ReadyNew ==
  ASSUME NEW j, NEW S, NEW l, j \notin S, l.ref = 1, l.pend = {"show"}
  PROVE  Ready(l, j, S)
BY DEF Ready

LEMMA ReadyFree ==
  ASSUME NEW j, NEW S, NEW k, Ready(k, j, S), Claimable(k)
  PROVE  j \notin S
BY DEF Ready, Claimable

LEMMA UsersFinite ==
  ASSUME NEW u, NEW i, u.game \in Games
  PROVE  IsFiniteSet(UsersOf(u, i)) /\ Cardinality(UsersOf(u, i)) \in Nat
<1> DEFINE N == 1 .. Len(u.game.boards)
<1>1. IsFiniteSet(N)  BY BoardsOf, FS_Interval
<1>2. UsersOf(u, i) \in SUBSET N  BY DEF UsersOf
<1>3. IsFiniteSet(UsersOf(u, i))  BY <1>1, <1>2, FS_Subset
<1>4. QED  BY <1>3, FS_CardinalityType

LEMMA UsersMore ==
  ASSUME NEW t, NEW X, t.game \in Games, NEW u \in Frozen(t, X), NEW v \in Frozen(t, X),
         NEW b \in 1 .. Len(t.game.boards), NEW c, c.tracker # 0,
         v.board = [u.board EXCEPT ![b] = c], u.board[b].tracker = 0
  PROVE  /\ Cardinality(UsersOf(v, c.tracker)) = Cardinality(UsersOf(u, c.tracker)) + 1
         /\ \A j : j # 0 /\ j # c.tracker => UsersOf(v, j) = UsersOf(u, j)
<1> DEFINE i == c.tracker
<1>1. u.game = t.game /\ v.game = t.game  BY FrozenHas
<1>2. u.board \in [1 .. Len(t.game.boards) -> BoardSet(X)]  BY FrozenHas
<1>3. \A x \in 1 .. Len(t.game.boards) : v.board[x] = IF x = b THEN c ELSE u.board[x]
  BY <1>2
<1>4. UsersOf(v, i) = UsersOf(u, i) \cup {b} /\ b \notin UsersOf(u, i)
  BY <1>1, <1>3 DEF UsersOf
<1>5. \A j : j # 0 /\ j # i => UsersOf(v, j) = UsersOf(u, j)  BY <1>1, <1>3 DEF UsersOf
<1>6. IsFiniteSet(UsersOf(u, i))  BY <1>1, UsersFinite
<1>7. QED  BY ZenonT(60), <1>4, <1>5, <1>6, FS_AddElement

LEMMA UsersFewer ==
  ASSUME NEW t, NEW X, t.game \in Games, NEW u \in Frozen(t, X), NEW v \in Frozen(t, X),
         NEW b \in 1 .. Len(t.game.boards), NEW i, u.board[b].tracker = i, i # 0,
         Released(u, v, b, i)
  PROVE  /\ Cardinality(UsersOf(v, i)) = Cardinality(UsersOf(u, i)) - 1
         /\ \A j : j # 0 /\ j # i => UsersOf(v, j) = UsersOf(u, j)
<1> DEFINE c == [u.board[b] EXCEPT !.tracker = 0]
<1>8. v.board = [u.board EXCEPT ![b] = c]  BY Zenon DEF Released
<1>9. c.tracker = 0
  <2>1. u.board[b] \in BoardSet(X)  BY BoardIs
  <2>2. QED  BY <2>1 DEF BoardSet
<1> HIDE DEF c
<1>1. u.game = t.game /\ v.game = t.game  BY FrozenHas
<1>2. u.board \in [1 .. Len(t.game.boards) -> BoardSet(X)]  BY FrozenHas
<1>3. \A x \in 1 .. Len(t.game.boards) : v.board[x] = IF x = b THEN c ELSE u.board[x]
  BY ONLY <1>2, <1>8
<1>4. UsersOf(v, i) = UsersOf(u, i) \ {b} /\ b \in UsersOf(u, i)
  BY <1>1, <1>3, <1>9 DEF UsersOf
<1>5. \A j : j # 0 /\ j # i => UsersOf(v, j) = UsersOf(u, j)  BY <1>1, <1>3, <1>9 DEF UsersOf
<1>6. IsFiniteSet(UsersOf(u, i))  BY <1>1, UsersFinite
<1>7. QED  BY <1>4, <1>5, <1>6, FS_RemoveElement

LEMMA UsersSame ==
  ASSUME NEW t, NEW X, NEW u \in Frozen(t, X), NEW v \in Frozen(t, X),
         NEW b \in 1 .. Len(t.game.boards), NEW c, c.tracker = u.board[b].tracker,
         v.board = [u.board EXCEPT ![b] = c]
  PROVE  /\ \A j : UsersOf(v, j) = UsersOf(u, j)
         /\ \A x \in 1 .. Len(t.game.boards) : v.board[x].tracker = u.board[x].tracker
<1>1. u.game = t.game /\ v.game = t.game  BY FrozenHas
<1>2. u.board \in [1 .. Len(t.game.boards) -> BoardSet(X)]  BY FrozenHas
<1>3. \A x \in 1 .. Len(t.game.boards) : v.board[x].tracker = u.board[x].tracker
  BY <1>2
<1>4. QED  BY <1>1, <1>3 DEF UsersOf

\* What happens to a leaderboard besides its tracker is nothing to the trackers.
LEMMA PutHeld ==
  ASSUME NEW t, NEW X, NEW u \in Frozen(t, X), NEW v \in Frozen(t, X), NEW w, NEW m \in Nat, NEW d,
         m <= Len(t.game.boards),
         NEW b \in 1 .. Len(t.game.boards), NEW c, c.tracker = u.board[b].tracker,
         v.board = [u.board EXCEPT ![b] = c], v.trackers = u.trackers, Held(u, w, m, d)
  PROVE  Held(v, w, m, d)
<1>1. /\ u.game = t.game /\ v.game = t.game
      /\ u.shownTrackers = t.shownTrackers /\ v.shownTrackers = t.shownTrackers
  BY FrozenHas
<1>2. /\ \A j : UsersOf(v, j) = UsersOf(u, j)
      /\ \A x \in 1 .. Len(t.game.boards) : v.board[x].tracker = u.board[x].tracker
  BY UsersSame
<1>3. Counted(v)  BY <1>1, <1>2 DEF Held, Counted
<1>4. Theirs(v)  BY SMTT(60), <1>1, <1>2 DEF Held, Theirs
<1>5. Agree(v, w, m)  BY <1>1, <1>2 DEF Held, Agree
<1>6. Short(v, d)  BY <1>1 DEF Held, Short, Dead
<1>7. QED  BY <1>3, <1>4, <1>5, <1>6 DEF Held

LEMMA DeadFinite ==
  ASSUME NEW t, NEW X, NEW u \in Frozen(t, X)
  PROVE  IsFiniteSet(Dead(u)) /\ Cardinality(Dead(u)) \in Nat
<1>1. Len(u.trackers) \in Nat  BY FrozenHas
<1>2. IsFiniteSet(1 .. Len(u.trackers))  BY <1>1, FS_Interval
<1>3. Dead(u) \in SUBSET (1 .. Len(u.trackers))  BY DEF Dead
<1>4. IsFiniteSet(Dead(u))  BY <1>2, <1>3, FS_Subset
<1>5. QED  BY <1>4, FS_CardinalityType

\* A tracker somebody uses, as leaderboard b does.
LEMMA Used ==
  ASSUME NEW t, NEW X, t.game \in Games, NEW u \in Frozen(t, X), NEW b \in 1 .. Len(t.game.boards),
         NEW i, i = u.board[b].tracker, i # 0, Counted(u), Theirs(u)
  PROVE  /\ i \in 1 .. Len(u.trackers) /\ u.trackers[i].ref # 0
         /\ u.trackers[i] \in TrackerSet(t.game) /\ i \in Nat
<1>1. u.game = t.game /\ u.trackers \in Seq(TrackerSet(t.game))  BY FrozenHas
<1>2. i \in 1 .. Len(u.trackers)  BY <1>1 DEF Theirs
<1>3. b \in UsersOf(u, i)  BY <1>1 DEF UsersOf
<1>4. IsFiniteSet(UsersOf(u, i))  BY <1>1, UsersFinite
<1>5. Cardinality(UsersOf(u, i)) # 0  BY <1>3, <1>4, FS_EmptySet
<1>6. QED  BY <1>1, <1>2, <1>5 DEF Counted

LEMMA DeadSame ==
  ASSUME NEW u, NEW v, NEW i, Len(v.trackers) = Len(u.trackers),
         u.trackers[i].ref # 0, v.trackers[i].ref = u.trackers[i].ref,
         \A j \in 1 .. Len(u.trackers) : j # i => v.trackers[j] = u.trackers[j]
  PROVE  Dead(v) = Dead(u)
<1>1. ASSUME NEW j \in 1 .. Len(u.trackers)
      PROVE  (v.trackers[j].ref = 0 /\ v.trackers[j].pend # {}) <=>
             (u.trackers[j].ref = 0 /\ u.trackers[j].pend # {})
  <2>1. CASE j = i  BY <2>1, Zenon
  <2>2. CASE j # i  BY <2>2, Zenon
  <2>3. QED  BY <2>1, <2>2
<1>2. QED  BY <1>1, Zenon DEF Dead

\* What Held says of one tracker or one leaderboard, and what is to be shown of each.
LEMMA CountedOne ==
  ASSUME NEW u, NEW j \in 1 .. Len(u.trackers), Counted(u)
  PROVE  u.trackers[j].ref = Cardinality(UsersOf(u, j)) /\ Ready(u.trackers[j], j, u.shownTrackers)
BY Zenon DEF Counted

LEMMA CountedAll ==
  ASSUME NEW u, NEW v, Counted(u), v.shownTrackers = u.shownTrackers,
         Len(v.trackers) = Len(u.trackers),
         \A j \in 1 .. Len(u.trackers) :
           /\ v.trackers[j].ref = Cardinality(UsersOf(v, j))
           /\ Ready(v.trackers[j], j, u.shownTrackers)
  PROVE  Counted(v)
<1>1. v.shownTrackers \subseteq 1 .. Len(v.trackers)  BY Zenon DEF Counted
<1>2. QED  BY <1>1, Zenon DEF Counted

LEMMA TheirsOne ==
  ASSUME NEW u, NEW b \in 1 .. Len(u.game.boards), Theirs(u)
  PROVE  /\ u.board[b].tracker \in 0 .. Len(u.trackers)
         /\ u.board[b].tracker # 0 => u.trackers[u.board[b].tracker].val = u.game.boards[b].val
BY Zenon DEF Theirs

\* Only tracker i differs, with as many users as it counts.
LEMMA CountedTouched ==
  ASSUME NEW u, NEW v, NEW i, Counted(u), v.shownTrackers = u.shownTrackers,
         Len(v.trackers) = Len(u.trackers),
         \A j \in 1 .. Len(u.trackers) : j # i => v.trackers[j] = u.trackers[j],
         \A j \in 1 .. Len(u.trackers) : j # i => UsersOf(v, j) = UsersOf(u, j),
         v.trackers[i].ref = Cardinality(UsersOf(v, i)),
         Ready(v.trackers[i], i, u.shownTrackers)
  PROVE  Counted(v)
<1>1. ASSUME NEW j \in 1 .. Len(u.trackers)
      PROVE  /\ v.trackers[j].ref = Cardinality(UsersOf(v, j))
             /\ Ready(v.trackers[j], j, u.shownTrackers)
  <2>1. CASE j = i  BY <2>1, Zenon
  <2>2. CASE j # i
    <3>1. v.trackers[j] = u.trackers[j] /\ UsersOf(v, j) = UsersOf(u, j)  BY <2>2, Zenon
    <3>2. QED  BY <3>1, CountedOne, Zenon
  <2>3. QED  BY <2>1, <2>2, Zenon
<1>2. QED  BY <1>1, CountedAll, Zenon

\* Leaderboards keep their trackers or lose them, and trackers their values.
LEMMA TheirsKept ==
  ASSUME NEW u, NEW v, Theirs(u), v.game = u.game, Len(u.trackers) \in Nat,
         Len(v.trackers) = Len(u.trackers),
         \A b \in 1 .. Len(u.game.boards) :
           v.board[b].tracker = 0 \/ v.board[b].tracker = u.board[b].tracker,
         \A j \in 1 .. Len(u.trackers) : v.trackers[j].val = u.trackers[j].val
  PROVE  Theirs(v)
<1>1. ASSUME NEW b \in 1 .. Len(u.game.boards)
      PROVE  /\ v.board[b].tracker \in 0 .. Len(v.trackers)
             /\ v.board[b].tracker # 0 =>
                  v.trackers[v.board[b].tracker].val = v.game.boards[b].val
  <2> DEFINE j == v.board[b].tracker
             n == Len(u.trackers)
  <2>1. n \in Nat /\ Len(v.trackers) = n  OBVIOUS
  <2>2. j = 0 \/ j = u.board[b].tracker  BY Zenon
  <2>3. u.board[b].tracker \in 0 .. n  BY TheirsOne, Zenon
  <2>4. ASSUME j # 0  PROVE u.trackers[j].val = v.game.boards[b].val
    <3>1. u.board[b].tracker = j  BY <2>2, <2>4, Zenon
    <3>2. u.board[b].tracker # 0 => u.trackers[u.board[b].tracker].val = u.game.boards[b].val
      BY TheirsOne, Zenon
    <3>3. u.trackers[u.board[b].tracker].val = u.game.boards[b].val  BY <2>4, <3>1, <3>2, Zenon
    <3> HIDE DEF j
    <3>4. QED  BY <3>1, <3>3, Zenon
  <2>5. \A l \in 1 .. n : v.trackers[l].val = u.trackers[l].val  BY Zenon
  <2> HIDE DEF j, n
  <2>6. j \in 0 .. n  BY ONLY <2>1, <2>2, <2>3
  <2>7. j # 0 => j \in 1 .. n  BY ONLY <2>1, <2>6
  <2>8. j # 0 => v.trackers[j].val = v.game.boards[b].val  BY <2>4, <2>5, <2>7, Zenon
  <2>9. QED  BY <2>1, <2>6, <2>8, Zenon DEF j, n
<1>2. QED  BY <1>1, Zenon DEF Theirs

LEMMA StandingHeld ==
  ASSUME NEW t, NEW X, t.game \in Games, NEW u \in Frozen(t, X), NEW v \in Frozen(t, X), NEW w,
         NEW m \in Nat, NEW d \in Nat, m <= Len(t.game.boards), NEW b \in 1 .. Len(t.game.boards),
         NEW i, i = u.board[b].tracker, i # 0, NEW value \in Nat, Standing(u, v, i, value),
         Due(t.game, w, b, value), OneValue(t.game, w), Held(u, w, m, d)
  PROVE  Held(v, w, m, d)
<1> DEFINE N == 1 .. Len(t.game.boards)
           K == u.trackers
           L == v.trackers
<1>1. /\ u.game = t.game /\ v.game = t.game
      /\ u.shownTrackers = t.shownTrackers /\ v.shownTrackers = t.shownTrackers
  BY FrozenHas
<1>12. Counted(u) /\ Theirs(u)  BY Zenon DEF Held
<1>2. i \in 1 .. Len(K) /\ K[i].ref # 0 /\ K[i] \in TrackerSet(t.game)  BY <1>12, Used, ZenonT(60)
<1>3. /\ v.board = u.board /\ Len(L) = Len(K)
      /\ \A j \in 1 .. Len(K) : j # i => L[j] = K[j]
      /\ L[i].ref = K[i].ref /\ L[i].val = K[i].val /\ L[i].raw = value
      /\ L[i].display = K[i].display
      /\ L[i].pend = K[i].pend \cup (IF K[i].raw = value THEN {} ELSE {"update"})
  BY DEF Standing, Touched
<1>10. Len(K) \in Nat  BY FrozenHas
<1>11. \A c \in N : /\ u.board[c].tracker \in 0 .. Len(K)
                    /\ u.board[c].tracker # 0 => K[u.board[c].tracker].val = t.game.boards[c].val
  BY <1>1, <1>12, Zenon DEF Theirs
<1> HIDE DEF K, L
<1>4. Counted(v)
  <2>1. \A j : UsersOf(v, j) = UsersOf(u, j)  BY <1>1, <1>3, Zenon DEF UsersOf
  <2>2. K[i].ref = Cardinality(UsersOf(u, i)) /\ Ready(K[i], i, u.shownTrackers)
    BY <1>2, <1>12, CountedOne, Zenon DEF K
  <2>3. Ready(L[i], i, u.shownTrackers)  BY ONLY <1>2, <1>3, <2>2, ReadyStanding, Zenon
  <2>4. L[i].ref = Cardinality(UsersOf(v, i))  BY <1>3, <2>1, <2>2, Zenon
  <2>5. v.shownTrackers = u.shownTrackers  BY <1>1, Zenon
  <2>6. /\ Len(v.trackers) = Len(u.trackers)
        /\ \A j \in 1 .. Len(u.trackers) : j # i => v.trackers[j] = u.trackers[j]
    BY <1>3, Zenon DEF K, L
  <2>7. v.trackers[i].ref = Cardinality(UsersOf(v, i)) /\ Ready(v.trackers[i], i, u.shownTrackers)
    BY <2>3, <2>4, Zenon DEF L
  <2>8. QED  BY ONLY <1>12, <2>1, <2>5, <2>6, <2>7, CountedTouched, SMT
<1>5. \A j \in 1 .. Len(K) : L[j].val = K[j].val
  <2> SUFFICES ASSUME NEW j \in 1 .. Len(K)  PROVE L[j].val = K[j].val
    OBVIOUS
  <2>1. CASE j = i  BY <1>3, <2>1, Zenon
  <2>2. CASE j # i  BY <1>3, <2>2, Zenon
  <2>3. QED  BY <2>1, <2>2, Zenon
<1>6. Theirs(v)
  <2>1. /\ v.game = u.game /\ Len(u.trackers) \in Nat /\ Len(v.trackers) = Len(u.trackers)
        /\ \A j \in 1 .. Len(u.trackers) : v.trackers[j].val = u.trackers[j].val
    BY <1>1, <1>3, <1>5, <1>10, Zenon DEF K, L
  <2>2. \A c \in 1 .. Len(u.game.boards) : v.board[c].tracker = u.board[c].tracker  BY <1>3, Zenon
  <2>3. QED  BY ONLY <1>12, <2>1, <2>2, TheirsKept, Zenon
<1>7. Agree(v, w, m)
  <2> SUFFICES ASSUME NEW c \in 1 .. m, Alike(t.game, c), v.board[c].tracker # 0
               PROVE  v.trackers[v.board[c].tracker].raw = w[c]
    BY <1>1, Zenon DEF Agree
  <2>1. c \in N /\ u.board[c].tracker # 0 /\ K[u.board[c].tracker].raw = w[c]
    <3>1. c \in N  BY <1>1, BoardsOf
    <3>2. u.board[c].tracker # 0  BY <1>3, Zenon
    <3>3. Agree(u, w, m)  BY Zenon DEF Held
    <3>4. QED  BY <1>1, <3>1, <3>2, <3>3, Zenon DEF Agree, K
  <2>2. /\ u.board[c].tracker \in 1 .. Len(K)
        /\ K[u.board[c].tracker].val = t.game.boards[c].val
    <3>1. PICK n \in Nat : n = Len(K)  BY <1>10
    <3>2. PICK j : j = u.board[c].tracker  OBVIOUS
    <3>3. j \in 0 .. n /\ j # 0  BY <1>11, <2>1, <3>1, <3>2, Zenon
    <3>4. j \in 1 .. n  BY ONLY <3>1, <3>3
    <3>5. QED  BY <1>11, <2>1, <3>1, <3>2, <3>4, Zenon
  <2>3. CASE u.board[c].tracker = i
    <3>1. t.game.boards[c].val = t.game.boards[b].val
      BY <1>11, <2>2, <2>3
    <3>2. Alike(t.game, b)  BY <3>1, Zenon DEF Alike
    <3>3. w[c] = w[b]  BY <2>1, <3>1, <3>2, Zenon DEF OneValue
    <3>4. QED  BY <1>3, <2>3, <3>2, <3>3 DEF L, Due
  <2>4. CASE u.board[c].tracker # i  BY <1>3, <2>1, <2>2, <2>4, Zenon DEF L
  <2>5. QED  BY <2>3, <2>4
<1>8. Short(v, d)
  <2>1. /\ Len(v.trackers) = Len(u.trackers)
        /\ u.trackers[i].ref # 0 /\ v.trackers[i].ref = u.trackers[i].ref
        /\ \A j \in 1 .. Len(u.trackers) : j # i => v.trackers[j] = u.trackers[j]
    BY <1>2, <1>3, Zenon DEF K, L
  <2>2. Dead(v) = Dead(u)  BY <2>1, DeadSame, Zenon
  <2>3. Short(u, d)  BY Zenon DEF Held
  <2>4. QED  BY <1>1, <2>1, <2>2, <2>3, Zenon DEF Short
<1>13. QED  BY <1>4, <1>6, <1>7, <1>8 DEF Held

LEMMA ReleasedHeld ==
  ASSUME NEW t, NEW X, t.game \in Games, NEW u \in Frozen(t, X), NEW v \in Frozen(t, X), NEW w,
         NEW m \in Nat, NEW d \in Nat, m <= Len(t.game.boards), NEW b \in 1 .. Len(t.game.boards),
         NEW i, i = u.board[b].tracker, i # 0, Released(u, v, b, i), Held(u, w, m, d)
  PROVE  Held(v, w, m, d + 1)
<1> DEFINE N == 1 .. Len(t.game.boards)
           K == u.trackers
           L == v.trackers
           x == [u.board[b] EXCEPT !.tracker = 0]
<1>1. /\ u.game = t.game /\ v.game = t.game
      /\ u.shownTrackers = t.shownTrackers /\ v.shownTrackers = t.shownTrackers
      /\ u.board \in [N -> BoardSet(X)] /\ Len(K) \in Nat
  BY FrozenHas
<1>12. Counted(u) /\ Theirs(u)  BY Zenon DEF Held
<1>2. i \in 1 .. Len(K) /\ K[i].ref # 0 /\ K[i] \in TrackerSet(t.game) /\ i \in Nat
  BY <1>12, Used, Zenon
<1>13. u.board[b].tracker = i  OBVIOUS
<1>3. /\ v.board = [u.board EXCEPT ![b] = x] /\ Len(L) = Len(K)
      /\ \A j \in 1 .. Len(K) : j # i => L[j] = K[j]
      /\ L[i].ref = K[i].ref - 1 /\ L[i].val = K[i].val /\ L[i].raw = K[i].raw
      /\ L[i].display = K[i].display
      /\ L[i].pend = K[i].pend \cup (IF L[i].ref = 0 THEN {"hide"} ELSE {})
  BY ZenonT(60) DEF Released
<1>4. \A c \in N : /\ u.board[c].tracker \in 0 .. Len(K)
                   /\ u.board[c].tracker # 0 => K[u.board[c].tracker].val = t.game.boards[c].val
  BY <1>1, <1>12, Zenon DEF Theirs
<1>5. x.tracker = 0  BY SMTT(60), <1>1 DEF BoardSet
<1> HIDE DEF K, L, x
<1>6. \A c \in N : v.board[c] = IF c = b THEN x ELSE u.board[c]  BY ONLY <1>1, <1>3, SMT
<1>7. Counted(v)
  <2>1. /\ Cardinality(UsersOf(v, i)) = Cardinality(UsersOf(u, i)) - 1
        /\ \A j : j # 0 /\ j # i => UsersOf(v, j) = UsersOf(u, j)
    BY <1>13, UsersFewer, SMT
  <2>2. K[i].ref = Cardinality(UsersOf(u, i)) /\ Ready(K[i], i, u.shownTrackers)
    BY <1>2, <1>12, CountedOne, Zenon DEF K
  <2>3. Ready(L[i], i, u.shownTrackers)  BY ONLY <1>2, <1>3, <2>2, ReadyReleased, Zenon
  <2>4. L[i].ref = Cardinality(UsersOf(v, i))  BY <1>3, <2>1, <2>2, Zenon
  <2>5. v.shownTrackers = u.shownTrackers  BY <1>1, Zenon
  <2>6. /\ Len(v.trackers) = Len(u.trackers)
        /\ \A j \in 1 .. Len(u.trackers) : j # i => v.trackers[j] = u.trackers[j]
    BY <1>3, Zenon DEF K, L
  <2>7. v.trackers[i].ref = Cardinality(UsersOf(v, i)) /\ Ready(v.trackers[i], i, u.shownTrackers)
    BY <2>3, <2>4, Zenon DEF L
  <2>8. \A j \in 1 .. Len(u.trackers) : j # i => UsersOf(v, j) = UsersOf(u, j)
    <3>1. \A j \in 1 .. Len(u.trackers) : j # 0  BY ONLY <1>1 DEF K
    <3>2. QED  BY <2>1, <3>1, Zenon
  <2>9. QED  BY ONLY <1>12, <2>5, <2>6, <2>7, <2>8, CountedTouched, SMTT(60)
<1>8. \A j \in 1 .. Len(K) : L[j].val = K[j].val /\ L[j].raw = K[j].raw  BY <1>3, Zenon
<1>14. \A c \in N : v.board[c].tracker = 0 \/ v.board[c].tracker = u.board[c].tracker
  <2> SUFFICES ASSUME NEW c \in N
               PROVE  v.board[c].tracker = 0 \/ v.board[c].tracker = u.board[c].tracker
    OBVIOUS
  <2>1. CASE c = b  BY <1>5, <1>6, <2>1, Zenon
  <2>2. CASE c # b  BY <1>6, <2>2, Zenon
  <2>3. QED  BY <2>1, <2>2, Zenon
<1>9. Theirs(v)
  <2>1. /\ v.game = u.game /\ Len(u.trackers) \in Nat /\ Len(v.trackers) = Len(u.trackers)
        /\ \A j \in 1 .. Len(u.trackers) : v.trackers[j].val = u.trackers[j].val
    BY <1>1, <1>3, <1>8, Zenon DEF K, L
  <2>2. \A c \in 1 .. Len(u.game.boards) :
          v.board[c].tracker = 0 \/ v.board[c].tracker = u.board[c].tracker
    BY <1>1, <1>14, Zenon
  <2>3. QED  BY ONLY <1>12, <2>1, <2>2, TheirsKept, Zenon
<1>10. Agree(v, w, m)
  <2> SUFFICES ASSUME NEW c \in 1 .. m, Alike(t.game, c), v.board[c].tracker # 0
               PROVE  L[v.board[c].tracker].raw = w[c]
    BY <1>1 DEF Agree, L
  <2>1. c \in N  BY <1>1, BoardsOf
  <2>2. v.board[c].tracker = u.board[c].tracker  BY <1>5, <1>6, <2>1
  <2>3. K[u.board[c].tracker].raw = w[c]
    <3>1. Agree(u, w, m)  BY Zenon DEF Held
    <3>2. QED  BY <1>1, <2>2, <3>1, Zenon DEF Agree, K
  <2>4. u.board[c].tracker \in 1 .. Len(K)  BY <1>1, <1>4, <2>1, <2>2, SMTT(60)
  <2>5. QED  BY <1>8, <2>2, <2>3, <2>4
<1>11. Short(v, d + 1)
  <2>1. Dead(v) \in SUBSET (Dead(u) \cup {i})  BY <1>3, ZenonT(60) DEF Dead, K, L
  <2>2. IsFiniteSet(Dead(u)) /\ Cardinality(Dead(u)) \in Nat /\ Cardinality(Dead(v)) \in Nat
    BY DeadFinite
  <2>3. /\ IsFiniteSet(Dead(u) \cup {i})
        /\ Cardinality(Dead(u) \cup {i}) \in {Cardinality(Dead(u)), Cardinality(Dead(u)) + 1}
    BY <2>2, FS_AddElement
  <2>4. Cardinality(Dead(v)) <= Cardinality(Dead(u) \cup {i})  BY <2>1, <2>3, FS_Subset
  <2>5. Cardinality(Dead(u)) <= d /\ Len(K) <= 2 * Len(u.game.boards)  BY DEF Held, Short, K
  <2>6. Cardinality(Dead(v)) <= d + 1  BY <2>2, <2>3, <2>4, <2>5
  <2>7. QED  BY ONLY <1>1, <1>3, <2>5, <2>6, Zenon DEF Short, K, L
<1>15. QED  BY <1>7, <1>9, <1>10, <1>11 DEF Held

\* While a leaderboard has no tracker, fewer trackers are used than there are leaderboards.
LEMMA FewUsed ==
  ASSUME NEW t, NEW X, t.game \in Games, NEW u \in Frozen(t, X), NEW b \in 1 .. Len(t.game.boards),
         u.board[b].tracker = 0, Counted(u), NEW d \in Nat, Cardinality(Dead(u)) <= d,
         \A j \in 1 .. Len(u.trackers) : ~Claimable(u.trackers[j])
  PROVE  Len(u.trackers) <= Len(t.game.boards) - 1 + d
<1> DEFINE N == 1 .. Len(t.game.boards)
           J == {j \in 1 .. Len(u.trackers) : u.trackers[j].ref # 0}
           W == {c \in N \ {b} : u.board[c].tracker \in J}
           f == [c \in W |-> u.board[c].tracker]
<1>1. /\ u.game = t.game /\ Len(u.trackers) \in Nat
      /\ u.trackers \in Seq(TrackerSet(t.game))
  BY FrozenHas
<1>2. PICK n \in Nat : n = Len(t.game.boards)  BY BoardsOf
<1>3. IsFiniteSet(N) /\ Cardinality(N) = n
  <2>1. IsFiniteSet(1 .. n)  BY FS_Interval
  <2>2. Cardinality(1 .. n) = IF 1 > n THEN 0 ELSE n - 1 + 1  BY FS_Interval
  <2>3. QED  BY <1>2, <2>1, <2>2
<1>4. IsFiniteSet(N \ {b}) /\ Cardinality(N \ {b}) = n - 1
  <2> HIDE DEF N
  <2>1. b \in N  BY DEF N
  <2>2. QED  BY <1>3, <2>1, FS_RemoveElement
<1>5. IsFiniteSet(W) /\ Cardinality(W) <= n - 1 /\ Cardinality(W) \in Nat
  <2>1. W \in SUBSET (N \ {b})  OBVIOUS
  <2> HIDE DEF W, N
  <2>2. IsFiniteSet(W) /\ Cardinality(W) <= Cardinality(N \ {b})  BY <1>4, <2>1, FS_Subset
  <2>3. QED  BY <1>4, <2>2, FS_CardinalityType
<1>6. f \in Surjection(W, J)
  <2>1. ASSUME NEW j \in J  PROVE \E c \in W : f[c] = j
    <3>1. Cardinality(UsersOf(u, j)) # 0  BY DEF Counted
    <3>2. IsFiniteSet(UsersOf(u, j))  BY <1>1, UsersFinite
    <3>3. PICK c \in UsersOf(u, j) : TRUE  BY <3>1, <3>2, FS_EmptySet
    <3>4. c \in N /\ u.board[c].tracker = j  BY <1>1, <3>3 DEF UsersOf
    <3>5. c # b  BY <1>1, <3>4
    <3>6. c \in W  BY <3>4, <3>5
    <3>7. QED  BY <3>4, <3>6
  <2>2. f \in [W -> J]  OBVIOUS
  <2> HIDE DEF f, W, J
  <2>3. QED  BY <2>1, <2>2 DEF Surjection
<1>7. IsFiniteSet(J) /\ Cardinality(J) <= n - 1 /\ Cardinality(J) \in Nat
  <2> HIDE DEF f, W, J
  <2>1. IsFiniteSet(J) /\ Cardinality(J) <= Cardinality(W)  BY <1>5, <1>6, FS_Surjection
  <2>2. Cardinality(J) \in Nat  BY <2>1, FS_CardinalityType
  <2>3. QED  BY <1>2, <1>5, <2>1, <2>2
<1>8. 1 .. Len(u.trackers) = J \cup Dead(u)
  BY DEF Dead, Claimable
<1>9. IsFiniteSet(Dead(u)) /\ Cardinality(Dead(u)) \in Nat  BY DeadFinite
<1>10. Cardinality(1 .. Len(u.trackers)) = Len(u.trackers)
  <2>1. PICK k \in Nat : k = Len(u.trackers)  BY <1>1
  <2>2. Cardinality(1 .. k) = IF 1 > k THEN 0 ELSE k - 1 + 1  BY FS_Interval
  <2>3. QED  BY <2>1, <2>2
<1>11. J \cap Dead(u) = {}  BY DEF Dead
<1> HIDE DEF J
<1>12. Cardinality(J \cup Dead(u)) = Cardinality(J) + Cardinality(Dead(u)) - Cardinality({})
  BY <1>7, <1>9, <1>11, FS_Union
<1>13. Cardinality({}) = 0  BY FS_EmptySet
<1>14. Len(u.trackers) = Cardinality(J) + Cardinality(Dead(u))
  <2>1. Cardinality(1 .. Len(u.trackers)) = Cardinality(J \cup Dead(u))  BY <1>8, Zenon
  <2>2. QED  BY <1>7, <1>9, <1>10, <1>12, <1>13, <2>1
<1>15. QED  BY <1>2, <1>7, <1>9, <1>14

LEMMA AllottedHeld ==
  ASSUME NEW t, NEW X, t.game \in Games, NEW u \in Frozen(t, X), NEW v \in Frozen(t, X), NEW w,
         NEW m \in Nat, NEW d \in Nat, m <= Len(t.game.boards), d < Len(t.game.boards),
         NEW b \in 1 .. Len(t.game.boards), u.board[b].tracker = 0,
         NEW i, NEW value \in Nat, Allotted(u, v, b, i, value),
         Due(t.game, w, b, value), OneValue(t.game, w), Held(u, w, m, d)
  PROVE  Held(v, w, m, d) /\ v.board[b].tracker = i /\ i # 0
<1> DEFINE N == 1 .. Len(t.game.boards)
           K == u.trackers
           L == v.trackers
           x == [u.board[b] EXCEPT !.tracker = i]
<1>1. /\ u.game = t.game /\ v.game = t.game
      /\ u.shownTrackers = t.shownTrackers /\ v.shownTrackers = t.shownTrackers
      /\ u.board \in [N -> BoardSet(X)] /\ Len(K) \in Nat
      /\ \A j \in 1 .. Len(K) : K[j] \in TrackerSet(t.game)
  BY FrozenHas
<1>2. /\ v.board = [u.board EXCEPT ![b] = x]
      /\ \A j \in 1 .. Len(K) : j # i => L[j] = K[j]
      /\ L[i].val = t.game.boards[b].val /\ L[i].raw = value
  BY <1>1 DEF Allotted
<1>3. /\ i \in Nat /\ i # 0 /\ i \in 1 .. Len(L)
      /\ Len(L) = Len(K) \/ (i = Len(K) + 1 /\ Len(L) = i)
      /\ i \in 1 .. Len(K) => Len(L) = Len(K)
  BY <1>1 DEF Allotted, Shared, Claimed, Appended
<1>4. \A c \in N : /\ u.board[c].tracker \in 0 .. Len(K)
                   /\ u.board[c].tracker # 0 => K[u.board[c].tracker].val = t.game.boards[c].val
  BY <1>1 DEF Held, Theirs
<1>5. x.tracker = i  BY <1>1 DEF BoardSet
<1>6. \A j \in 1 .. Len(K) : /\ K[j].ref = Cardinality(UsersOf(u, j))
                             /\ Ready(K[j], j, u.shownTrackers)
  BY DEF Held, Counted
<1>7. t.shownTrackers \subseteq 1 .. Len(K)  BY <1>1 DEF Held, Counted
\* Tracker i as it was: it had the users it had, none when it is claimed or appended.
<1>8. L[i].ref = Cardinality(UsersOf(u, i)) + 1 /\ Ready(L[i], i, t.shownTrackers)
  <2>1. CASE Shared(u, v, b, i, value)
    <3>1. /\ i \in 1 .. Len(K) /\ K[i].ref > 0 /\ L[i].ref = K[i].ref + 1
          /\ L[i].display = K[i].display
          /\ L[i].pend = (K[i].pend \cup (IF K[i].raw = value THEN {} ELSE {"update"})) \ {"hide"}
      BY <2>1 DEF Shared
    <3> HIDE DEF K, L
    <3>2. Ready(K[i], i, t.shownTrackers) /\ K[i] \in TrackerSet(t.game)  BY <1>1, <1>6, <3>1
    <3>3. Ready(L[i], i, t.shownTrackers)  BY <1>2, <3>1, <3>2, ReadyShared
    <3>4. QED  BY <1>6, <3>1, <3>3
  <2>2. CASE Claimed(u, v, i)
    <3>1. i \in 1 .. Len(K) /\ Claimable(K[i]) /\ L[i].ref = 1 /\ L[i].pend = {"show"}
      BY <2>2 DEF Claimed
    <3> HIDE DEF K, L
    <3>2. i \notin t.shownTrackers  BY <1>1, <1>6, <3>1, ReadyFree
    <3>3. Ready(L[i], i, t.shownTrackers)  BY <3>1, <3>2, ReadyNew
    <3>4. QED  BY <1>6, <3>1, <3>3 DEF Claimable
  <2>3. CASE Appended(u, v, i)
    <3>1. i = Len(K) + 1 /\ L[i].ref = 1 /\ L[i].pend = {"show"}  BY <2>3 DEF Appended
    <3> HIDE DEF K, L
    <3>2. i \notin t.shownTrackers  BY <1>1, <1>7, <3>1
    <3>3. Ready(L[i], i, t.shownTrackers)  BY <3>1, <3>2, ReadyNew
    <3>4. UsersOf(u, i) = {}  BY SMTT(60), <1>1, <1>4, <3>1 DEF UsersOf
    <3>5. Cardinality(UsersOf(u, i)) = 0  BY <3>4, FS_EmptySet
    <3>6. QED  BY <3>1, <3>3, <3>5
  <2>4. QED  BY <2>1, <2>2, <2>3 DEF Allotted
<1>9. Len(L) <= 2 * Len(t.game.boards) /\ Cardinality(Dead(v)) <= d
  <2>1. Dead(v) \in SUBSET Dead(u)
    <3>1. L[i].ref # 0
      <4>1. Cardinality(UsersOf(u, i)) \in Nat  BY <1>1, UsersFinite
      <4>2. QED  BY <1>8, <4>1
    <3> HIDE DEF K, L
    <3>2. QED  BY <1>1, <1>2, <1>3, <3>1, SMTT(60) DEF Dead, K, L
  <2>2. IsFiniteSet(Dead(u)) /\ Cardinality(Dead(u)) \in Nat /\ Cardinality(Dead(v)) \in Nat
    BY DeadFinite
  <2>3. Cardinality(Dead(v)) <= Cardinality(Dead(u))  BY <2>1, <2>2, FS_Subset
  <2>4. Cardinality(Dead(u)) <= d /\ Len(K) <= 2 * Len(t.game.boards)
    BY <1>1 DEF Held, Short
  <2>5. CASE Appended(u, v, i)
    <3>1. Len(L) = Len(K) + 1 /\ \A j \in 1 .. Len(K) : ~Claimable(K[j])
      BY <2>5 DEF Appended
    <3>2. Len(K) <= Len(t.game.boards) - 1 + d  BY <2>4, <3>1, FewUsed DEF Held
    <3>3. PICK n \in Nat : n = Len(t.game.boards)  BY BoardsOf
    <3>4. d < n  BY <3>3
    <3> HIDE DEF K, L
    <3>5. PICK k \in Nat : k = Len(K)  BY <1>1
    <3>6. k <= n - 1 + d  BY <3>2, <3>3, <3>5
    <3>7. k + 1 <= 2 * n  BY <3>4, <3>6
    <3>8. Len(L) <= 2 * Len(t.game.boards)  BY <3>1, <3>3, <3>5, <3>7
    <3>9. QED  BY <2>2, <2>3, <2>4, <3>8
  <2>6. CASE Len(L) = Len(K)  BY <2>2, <2>3, <2>4, <2>6
  <2>7. QED  BY <2>5, <2>6 DEF Allotted, Shared, Claimed
<1> HIDE DEF K, L, x
<1>10. \A c \in N : v.board[c] = IF c = b THEN x ELSE u.board[c]  BY <1>1, <1>2
<1>11. Counted(v)
  <2>1. /\ Cardinality(UsersOf(v, i)) = Cardinality(UsersOf(u, i)) + 1
        /\ \A j : j # 0 /\ j # i => UsersOf(v, j) = UsersOf(u, j)
    BY <1>2, <1>3, <1>5, UsersMore, SMTT(60)
  <2>2. ASSUME NEW j \in 1 .. Len(L)
        PROVE  L[j].ref = Cardinality(UsersOf(v, j)) /\ Ready(L[j], j, v.shownTrackers)
    <3>1. CASE j = i  BY <1>1, <1>8, <2>1, <3>1
    <3>2. CASE j # i
      <4>1. j # 0 /\ j \in 1 .. Len(K)  BY <1>1, <1>3, <3>2
      <4>2. QED  BY <1>1, <1>2, <1>6, <2>1, <3>2, <4>1
    <3>3. QED  BY <3>1, <3>2
  <2>3. v.shownTrackers \subseteq 1 .. Len(L)  BY <1>1, <1>3, <1>7
  <2>4. QED  BY <2>2, <2>3 DEF Counted, L
\* Whoever had tracker i before shares it, and has the value of b.
<1>12. ASSUME NEW c \in N, u.board[c].tracker = i
       PROVE  t.game.boards[c].val = t.game.boards[b].val
  <2>1. i \in 1 .. Len(K) /\ K[i].ref # 0  BY <1>3, <1>12, Used DEF Held, K
  <2>2. K[i].val = t.game.boards[c].val  BY <1>3, <1>4, <1>12
  <2>3. CASE Shared(u, v, b, i, value)  BY <1>1, <2>2, <2>3 DEF Shared, K
  <2>4. CASE Claimed(u, v, i)  BY <2>1, <2>4 DEF Claimed, Claimable, K
  <2>5. CASE Appended(u, v, i)  BY <1>1, <2>1, <2>5 DEF Appended, K
  <2>6. QED  BY <2>3, <2>4, <2>5 DEF Allotted
<1>13. Theirs(v)
  <2> SUFFICES ASSUME NEW c \in N
               PROVE  /\ v.board[c].tracker \in 0 .. Len(L)
                      /\ v.board[c].tracker # 0 =>
                           L[v.board[c].tracker].val = t.game.boards[c].val
    BY <1>1 DEF Theirs, L
  <2>1. CASE c = b  BY <1>2, <1>3, <1>5, <1>10, <2>1
  <2>2. CASE c # b
    <3>1. v.board[c].tracker = u.board[c].tracker  BY <1>10, <2>2
    <3>2. CASE u.board[c].tracker = 0  BY <1>1, <1>3, <3>1, <3>2
    <3>3. CASE u.board[c].tracker = i  BY SMTT(60), <1>2, <1>3, <1>12, <3>1, <3>3
    <3>4. CASE u.board[c].tracker \notin {0, i}
      <4>1. u.board[c].tracker \in 1 .. Len(K)  BY <1>1, <1>4, <3>4
      <4>2. u.board[c].tracker \in 0 .. Len(L)  BY <1>1, <1>3, <4>1, SMTT(60)
      <4>3. PICK j : j = u.board[c].tracker  OBVIOUS
      <4>4. L[j] = K[j] /\ K[j].val = t.game.boards[c].val  BY <1>2, <1>4, <3>4, <4>1, <4>3
      <4>5. QED  BY <3>1, <4>2, <4>3, <4>4
    <3>5. QED  BY <3>2, <3>3, <3>4
  <2>3. QED  BY <2>1, <2>2
<1>14. Agree(v, w, m)
  <2> SUFFICES ASSUME NEW c \in 1 .. m, Alike(t.game, c), v.board[c].tracker # 0
               PROVE  L[v.board[c].tracker].raw = w[c]
    BY <1>1 DEF Agree, L
  <2>1. c \in N  BY BoardsOf
  <2>2. CASE v.board[c].tracker = i
    <3>1. t.game.boards[c].val = t.game.boards[b].val  BY <1>10, <1>12, <2>1, <2>2
    <3>2. Alike(t.game, b) /\ w[c] = w[b]  BY <2>1, <3>1 DEF Alike, OneValue
    <3>3. QED  BY <1>2, <2>2, <3>2 DEF Due
  <2>3. CASE v.board[c].tracker # i
    <3>1. v.board[c].tracker = u.board[c].tracker  BY <1>5, <1>10, <2>1, <2>3
    <3>2. K[u.board[c].tracker].raw = w[c]  BY <1>1, <3>1 DEF Held, Agree, K
    <3>3. u.board[c].tracker \in 1 .. Len(K)  BY <1>1, <1>4, <2>1, <3>1
    <3>4. QED  BY <1>2, <2>3, <3>1, <3>2, <3>3
  <2>4. QED  BY <2>2, <2>3
<1>15. Short(v, d)  BY <1>1, <1>9 DEF Short, L
<1>16. v.board[b].tracker = i  BY <1>5, <1>10
<1>17. QED  BY <1>3, <1>11, <1>13, <1>14, <1>15, <1>16 DEF Held

-----------------------------------------------------------------------------
(* One leaderboard at a time.                                               *)

Elsewhere(u, v, b) == \A c \in 1 .. Len(u.game.boards) : c # b => v.board[c] = u.board[c]

\* Of leaderboard b only the tracker may differ: it has one, which stands at its value, or none.
SameRun(u, v, b) ==
  /\ Elsewhere(u, v, b)
  /\ v.board[b].pub = u.board[b].pub /\ v.board[b].st = u.board[b].st
  /\ v.board[b].value = u.board[b].value
Stands(u, v, b) ==
  /\ SameRun(u, v, b) /\ v.board[b].tracker # 0
  /\ v.trackers[v.board[b].tracker].raw = u.board[b].value
Gone(u, v, b) == SameRun(u, v, b) /\ v.board[b].tracker = 0

LEMMA AllocateStep ==
  ASSUME NEW t, NEW X \in SUBSET Nat, t.game \in Games, NEW u \in Frozen(t, X), NEW w,
         NEW m \in Nat, NEW d \in Nat, m <= Len(t.game.boards), d < Len(t.game.boards),
         NEW b \in 1 .. Len(t.game.boards), u.board[b].tracker = 0,
         Due(t.game, w, b, u.board[b].value), OneValue(t.game, w), Held(u, w, m, d),
         NEW v, v = Allocate(u, b)
  PROVE  v \in Frozen(t, X) /\ Held(v, w, m, d) /\ Stands(u, v, b)
<1> DEFINE value == u.board[b].value
<1>1. u.board \in [1 .. Len(t.game.boards) -> BoardSet(X)] /\ u.game = t.game  BY FrozenHas
<1>2. u.board[b] \in BoardSet(X)  BY <1>1
<1>3. value \in Nat  BY <1>2 DEF BoardSet
<1>4. v \in Frozen(t, X) /\ \E i : Allotted(u, v, b, i, value)  BY <1>3, AllocateDoes
<1>5. PICK i : Allotted(u, v, b, i, value)  BY <1>4
<1>6. Held(v, w, m, d) /\ v.board[b].tracker = i /\ i # 0
  BY <1>3, <1>4, <1>5, AllottedHeld
<1>7. v.board = [u.board EXCEPT ![b] = [u.board[b] EXCEPT !.tracker = i]]
      /\ v.trackers[i].raw = value
  BY <1>5 DEF Allotted
<1>8. SameRun(u, v, b)  BY <1>1, <1>2, <1>7 DEF SameRun, Elsewhere, BoardSet
<1>9. QED  BY <1>4, <1>6, <1>7, <1>8 DEF Stands

LEMMA UpdateStep ==
  ASSUME NEW t, NEW X \in SUBSET Nat, t.game \in Games, NEW u \in Frozen(t, X), NEW w,
         NEW m \in Nat, NEW d \in Nat, m <= Len(t.game.boards),
         NEW b \in 1 .. Len(t.game.boards), u.board[b].tracker # 0,
         Due(t.game, w, b, u.board[b].value), OneValue(t.game, w), Held(u, w, m, d),
         NEW v, v = Update(u, b)
  PROVE  v \in Frozen(t, X) /\ Held(v, w, m, d) /\ Stands(u, v, b)
<1> DEFINE value == u.board[b].value
           i == u.board[b].tracker
<1>1. u.board \in [1 .. Len(t.game.boards) -> BoardSet(X)] /\ u.game = t.game  BY FrozenHas
<1>2. u.board[b] \in BoardSet(X)  BY <1>1
<1>3. value \in Nat  BY <1>2 DEF BoardSet
<1>4. v = SetRaw(u, i, value)  BY DEF Update
<1>5. i \in 1 .. Len(u.trackers)  BY Used DEF Held
<1> HIDE DEF i, value
<1>6. v \in Frozen(t, X) /\ Standing(u, v, i, value)  BY <1>3, <1>4, <1>5, SetRawDoes
<1>7. Held(v, w, m, d)  BY <1>3, <1>6, StandingHeld DEF i, value
<1>8. v.board = u.board /\ v.trackers[i].raw = value  BY <1>6 DEF Standing, Touched
<1>9. QED  BY <1>6, <1>7, <1>8 DEF Stands, SameRun, Elsewhere, i, value

LEMMA ReleaseStep ==
  ASSUME NEW t, NEW X \in SUBSET Nat, t.game \in Games, NEW u \in Frozen(t, X), NEW w,
         NEW m \in Nat, NEW d \in Nat, m <= Len(t.game.boards),
         NEW b \in 1 .. Len(t.game.boards), u.board[b].tracker # 0, Held(u, w, m, d),
         NEW v, v = Release(u, b)
  PROVE  v \in Frozen(t, X) /\ Held(v, w, m, d + 1) /\ Gone(u, v, b)
<1>1. u.board \in [1 .. Len(t.game.boards) -> BoardSet(X)] /\ u.game = t.game  BY FrozenHas
<1>2. u.board[b] \in BoardSet(X)  BY <1>1
<1>3. PICK i : i = u.board[b].tracker  OBVIOUS
<1>4. i \in 1 .. Len(u.trackers) /\ u.trackers[i].ref # 0  BY <1>3, Used DEF Held
<1>5. v \in Frozen(t, X) /\ Released(u, v, b, i)  BY <1>3, <1>4, ReleaseDoes
<1>6. Held(v, w, m, d + 1)  BY <1>3, <1>5, ReleasedHeld
<1>7. v.board = [u.board EXCEPT ![b] = [u.board[b] EXCEPT !.tracker = 0]]
  BY <1>5 DEF Released
<1>8. QED  BY SMTT(60), <1>1, <1>2, <1>5, <1>6, <1>7 DEF Gone, SameRun, Elsewhere, BoardSet

\* The other changes of a leaderboard.
Published(u, v, b, pub) ==
  v.trackers = u.trackers /\ Elsewhere(u, v, b) /\ v.board[b] = [u.board[b] EXCEPT !.pub = pub]
Ran(u, v, b, st, value) ==
  /\ v.trackers = u.trackers /\ Elsewhere(u, v, b)
  /\ v.board[b] = [[u.board[b] EXCEPT !.st = st] EXCEPT !.value = value]

LEMMA PublishStep ==
  ASSUME NEW t, NEW X, NEW u \in Frozen(t, X), NEW w, NEW m \in Nat, NEW d,
         m <= Len(t.game.boards), NEW b \in 1 .. Len(t.game.boards), Held(u, w, m, d),
         NEW pub \in Publics, NEW v, v = Publish(u, b, pub)
  PROVE  v \in Frozen(t, X) /\ Held(v, w, m, d) /\ Published(u, v, b, pub)
<1>1. u.board \in [1 .. Len(t.game.boards) -> BoardSet(X)] /\ u.game = t.game  BY FrozenHas
<1>2. u.board[b] \in BoardSet(X)  BY <1>1
<1>3. PICK c : c = [u.board[b] EXCEPT !.pub = pub]  OBVIOUS
<1>4. c \in BoardSet(X) /\ c.tracker = u.board[b].tracker  BY <1>2, <1>3 DEF BoardSet
<1>5. v = PutBoard(u, b, c)  BY <1>3 DEF Publish, PutBoard
<1>6. v \in Frozen(t, X) /\ v.board = [u.board EXCEPT ![b] = c] /\ v.trackers = u.trackers
  BY <1>4, <1>5, BoardPut
<1>7. Held(v, w, m, d)  BY <1>4, <1>6, PutHeld
<1>8. QED  BY <1>1, <1>3, <1>6, <1>7 DEF Elsewhere, Published

LEMMA RunStep ==
  ASSUME NEW t, NEW X, NEW u \in Frozen(t, X), NEW w, NEW m \in Nat, NEW d,
         m <= Len(t.game.boards), NEW b \in 1 .. Len(t.game.boards), Held(u, w, m, d),
         NEW st \in Runtimes, NEW value \in X, NEW v, v = Run(u, b, st, value)
  PROVE  v \in Frozen(t, X) /\ Held(v, w, m, d) /\ Ran(u, v, b, st, value)
<1>1. u.board \in [1 .. Len(t.game.boards) -> BoardSet(X)] /\ u.game = t.game  BY FrozenHas
<1>2. u.board[b] \in BoardSet(X)  BY <1>1
<1>3. PICK c : c = [u.board[b] EXCEPT !.st = st]  OBVIOUS
<1>4. c \in BoardSet(X) /\ c.tracker = u.board[b].tracker  BY <1>2, <1>3 DEF BoardSet
<1>5. PICK a : a = PutBoard(u, b, c)  OBVIOUS
<1>6. a \in Frozen(t, X) /\ a.board = [u.board EXCEPT ![b] = c] /\ a.trackers = u.trackers
  BY <1>4, <1>5, BoardPut
<1>7. Held(a, w, m, d)  BY <1>4, <1>6, PutHeld
<1>8. a.board[b] = c  BY <1>1, <1>6
<1>9. PICK e : e = [c EXCEPT !.value = value]  OBVIOUS
<1>10. e \in BoardSet(X) /\ e.tracker = c.tracker  BY <1>4, <1>9 DEF BoardSet
<1>11. v = PutBoard(a, b, e)
  <2>1. a = [u EXCEPT !.board[b].st = st]  BY <1>3, <1>5 DEF PutBoard
  <2>2. v = [a EXCEPT !.board[b].value = value]  BY <2>1 DEF Run
  <2>3. QED  BY <1>8, <1>9, <2>2 DEF PutBoard
<1>12. v \in Frozen(t, X) /\ v.board = [a.board EXCEPT ![b] = e] /\ v.trackers = a.trackers
  BY <1>6, <1>10, <1>11, BoardPut
<1>13. Held(v, w, m, d)  BY <1>6, <1>7, <1>8, <1>10, <1>12, PutHeld
<1>14. Elsewhere(u, v, b) /\ v.board[b] = e  BY <1>1, <1>6, <1>12 DEF Elsewhere
<1>15. QED  BY <1>3, <1>6, <1>9, <1>12, <1>13, <1>14 DEF Ran

LEMMA PublishedIs ==
  ASSUME NEW t, NEW X, NEW u \in Frozen(t, X), NEW b \in 1 .. Len(t.game.boards), NEW v,
         NEW pub, Published(u, v, b, pub)
  PROVE  /\ v.board[b].pub = pub /\ v.board[b].st = u.board[b].st
         /\ v.board[b].value = u.board[b].value /\ v.board[b].tracker = u.board[b].tracker
         /\ v.trackers = u.trackers /\ Elsewhere(u, v, b)
<1>1. u.board[b] \in BoardSet(X)  BY FrozenHas
<1>2. QED  BY <1>1 DEF Published, BoardSet

LEMMA ElsewhereBoth ==
  ASSUME NEW t, NEW X, NEW u \in Frozen(t, X), NEW v \in Frozen(t, X), NEW x, NEW b,
         Elsewhere(u, v, b), Elsewhere(v, x, b)
  PROVE  Elsewhere(u, x, b)
BY FrozenHas DEF Elsewhere

\* An attempt is under way where a tracker is.
BoardOK(c) ==
  /\ c.tracker # 0 <=> c.pub = "tracking"
  /\ c.pub = "tracking" => c.st = "started"
  /\ c.pub = "active" => c.st # "started"

\* The states after m leaderboards of a call that began with t.  w has the values the call gives
\* them, and those of Q are inactive.
Amid(t, X, w, m, Q) ==
  {u \in Frozen(t, X) :
     /\ \A b \in 1 .. Len(t.game.boards) : BoardOK(u.board[b])
     /\ \A b \in Q : u.board[b].pub = "inactive"
     /\ Held(u, w, m, m)
     /\ \A b \in 1 .. m : Alike(t.game, b) /\ u.board[b].tracker # 0 => u.board[b].value = w[b]}

\* What a call has to do to leaderboard b.
Turned(t, X, w, b, d, u, v) ==
  /\ v \in Frozen(t, X) /\ Elsewhere(u, v, b) /\ BoardOK(v.board[b]) /\ Held(v, w, b - 1, d)
  /\ v.board[b].tracker # 0 =>
       /\ Due(t.game, w, b, v.board[b].value)
       /\ v.trackers[v.board[b].tracker].raw = v.board[b].value

\* R has leaderboards of Q, and b if that is inactive.
Quiet(t, v, b, Q, R) ==
  /\ R \subseteq Q \cup {b} /\ R \subseteq 1 .. Len(t.game.boards)
  /\ b \in R => v.board[b].pub = "inactive"

LEMMA TurnDone ==
  ASSUME NEW t, NEW X, t.game \in Games, NEW w, NEW b \in 1 .. Len(t.game.boards), NEW Q, NEW R,
         NEW u \in Amid(t, X, w, b - 1, Q), NEW v, NEW d \in {b - 1, b}, Turned(t, X, w, b, d, u, v),
         Quiet(t, v, b, Q, R)
  PROVE  v \in Amid(t, X, w, b, R)
<1> DEFINE N == 1 .. Len(t.game.boards)
<1>1. u \in Frozen(t, X) /\ v \in Frozen(t, X)  BY DEF Amid, Turned
<1>2. u.game = t.game /\ v.game = t.game  BY <1>1, FrozenHas
<1>3. \A c \in N : c # b => v.board[c] = u.board[c]  BY <1>2 DEF Turned, Elsewhere
<1>4. \A c \in N : BoardOK(v.board[c])
  <2>1. \A c \in N : BoardOK(u.board[c])  BY DEF Amid
  <2>2. BoardOK(v.board[b])  BY DEF Turned
  <2>3. QED  BY <1>3, <2>1, <2>2
<1>5. \A c \in R : v.board[c].pub = "inactive"
  <2>1. \A c \in Q : u.board[c].pub = "inactive"  BY DEF Amid
  <2>2. QED  BY <1>3, <2>1 DEF Quiet
<1>6. /\ v.board[b].tracker # 0 => Due(t.game, w, b, v.board[b].value)
      /\ v.board[b].tracker # 0 => v.trackers[v.board[b].tracker].raw = v.board[b].value
      /\ Held(v, w, b - 1, d)
  BY DEF Turned
<1>7. \A c \in 1 .. b : c \in N /\ (c # b => c \in 1 .. (b - 1))  BY BoardsOf
<1>8. Held(v, w, b, b)
  <2>1. Counted(v) /\ Theirs(v) /\ Agree(v, w, b - 1) /\ Short(v, d)  BY <1>6 DEF Held
  <2>2. Agree(v, w, b)
    <3> SUFFICES ASSUME NEW c \in 1 .. b, Alike(t.game, c), v.board[c].tracker # 0
                 PROVE  v.trackers[v.board[c].tracker].raw = w[c]
      BY <1>2 DEF Agree
    <3>1. CASE c = b  BY <1>6, <3>1 DEF Due
    <3>2. CASE c # b  BY <1>2, <1>7, <2>1, <3>2 DEF Agree
    <3>3. QED  BY <3>1, <3>2
  <2>3. Short(v, b)
    <3>1. Cardinality(Dead(v)) \in Nat  BY <1>1, DeadFinite
    <3>2. QED  BY <2>1, <3>1, BoardsOf DEF Short
  <2>4. QED  BY <2>1, <2>2, <2>3 DEF Held
<1>9. ASSUME NEW c \in 1 .. b, Alike(t.game, c), v.board[c].tracker # 0
      PROVE  v.board[c].value = w[c]
  <2>1. CASE c = b  BY <1>6, <1>9, <2>1 DEF Due
  <2>2. CASE c # b
    <3>1. c \in 1 .. (b - 1) /\ v.board[c] = u.board[c]  BY <1>3, <1>7, <2>2
    <3>2. QED  BY <1>9, <3>1 DEF Amid
  <2>3. QED  BY <2>1, <2>2
<1>10. QED  BY <1>1, <1>4, <1>5, <1>8, <1>9 DEF Amid

LEMMA AmidHas ==
  ASSUME NEW t, NEW X, t.game \in Games, NEW w, NEW m, NEW Q, NEW u \in Amid(t, X, w, m, Q),
         NEW b \in 1 .. Len(t.game.boards)
  PROVE  /\ u \in Frozen(t, X) /\ Held(u, w, m, m) /\ u.game = t.game
         /\ BoardOK(u.board[b]) /\ u.board[b] \in BoardSet(X)
<1>1. u \in Frozen(t, X)  BY DEF Amid
<1>2. QED  BY <1>1, FrozenHas DEF Amid

\* Leaderboards that stay as they are.
LEMMA TurnNone ==
  ASSUME NEW t, NEW X, t.game \in Games, NEW w, NEW b \in 1 .. Len(t.game.boards), NEW Q,
         NEW u \in Amid(t, X, w, b - 1, Q), u.board[b].tracker = 0
  PROVE  Turned(t, X, w, b, b - 1, u, u)
BY AmidHas DEF Turned, Elsewhere

-----------------------------------------------------------------------------
(* The frame: rc_client_do_frame_process_leaderboards.                      *)

LEMMA Evaluated ==
  ASSUME NEW st \in Runtimes, NEW conds, NEW new, new = EvaluateLboard(st, conds)
  PROVE  new \in Runtimes /\ (st = "started" => new \in {"started", "canceled", "triggered"})
BY DEF EvaluateLboard, Runtimes

LEMMA ValueIs ==
  ASSUME NEW g \in Games, NEW b \in DOMAIN g.boards, NEW c \in BoardSet(Nat), NEW new,
         NEW vals \in [Definitions(g) -> Values], NEW value,
         value = EvaluateValue(g.boards[b], c, new, vals)
  PROVE  value \in Nat
<1> DEFINE D == {g.boards[b].val, g.boards[b].pro}
           U == UNION {{g.boards[x].val, g.boards[x].pro} : x \in DOMAIN g.boards}
<1>8. Definitions(g) = U \ {NoDef}  BY Zenon DEF Definitions
<1>9. \A x \in D : x \in U  OBVIOUS
<1>10. g.boards[b].val \in D /\ g.boards[b].pro \in D  OBVIOUS
<1>11. g.boards[b].val # NoDef  BY FrameAssumption
<1> HIDE DEF D, U
<1>12. \A x \in D : x # NoDef => x \in Definitions(g)  BY <1>8, <1>9
<1>1. g.boards[b].val \in Definitions(g)  BY <1>10, <1>11, <1>12
<1>2. g.boards[b].pro # NoDef => g.boards[b].pro \in Definitions(g)  BY <1>10, <1>12
<1>3. vals[g.boards[b].val] \in Nat  BY <1>1, FrameAssumption
<1>4. g.boards[b].pro # NoDef => vals[g.boards[b].pro] \in Nat  BY <1>2, FrameAssumption
<1>5. c.value \in Nat  BY DEF BoardSet
<1>6. QED  BY <1>3, <1>4, <1>5 DEF EvaluateValue

\* A leaderboard has a tracker while it is in the state that needs one.
WithTracker(st, c) == st = "started" <=> c.tracker # 0

\* The cases of ProcessLeaderboard.
LEMMA ProcessIs ==
  ASSUME NEW u, NEW b, NEW conds, NEW vals, NEW v, v = ProcessLeaderboard(u, b, conds, vals),
         NEW st, st = u.board[b].st, NEW pub, pub = u.board[b].pub, pub \in Publics,
         NEW new, new = EvaluateLboard(st, conds[b]),
         NEW e, e = Run(u, b, new, EvaluateValue(u.game.boards[b], u.board[b], new, vals)),
         NEW track, track = Track(e, b, st)
  PROVE  /\ pub = "inactive" => v = u
         /\ pub # "inactive" /\ new = "started" => v = Publish(track, b, "tracking")
         /\ pub # "inactive" /\ new = "canceled" /\ st = "started" =>
              v = Publish(Release(e, b), b, "active")
         /\ pub # "inactive" /\ new = "triggered" /\ st # "triggered" =>
              v = Publish(Release(track, b), b, "active")
         /\ pub # "inactive" /\ new # "started" /\ ~(new = "canceled" /\ st = "started")
              /\ ~(new = "triggered" /\ st # "triggered") => v = e
<1>1. /\ v = ProcessLeaderboard(u, b, conds, vals) /\ st = u.board[b].st /\ pub = u.board[b].pub
      /\ new = EvaluateLboard(st, conds[b]) /\ track = Track(e, b, st)
      /\ e = Run(u, b, new, EvaluateValue(u.game.boards[b], u.board[b], new, vals))
  OBVIOUS
<1>2. v = CASE pub = "inactive" -> u
            [] pub \in {"active", "tracking"} /\ new = "started" -> Publish(track, b, "tracking")
            [] pub \in {"active", "tracking"} /\ new = "canceled" /\ st = "started" ->
                 Publish(Release(e, b), b, "active")
            [] pub \in {"active", "tracking"} /\ new = "triggered" /\ st # "triggered" ->
                 Publish(Release(track, b), b, "active")
            [] OTHER -> e
  BY ONLY <1>1, Zenon DEF ProcessLeaderboard
<1>3. pub # "inactive" => pub \in {"active", "tracking"}  BY DEF Publics
<1>4. QED  BY ONLY <1>2, <1>3, SMT

LEMMA TrackStep ==
  ASSUME NEW t, NEW X \in SUBSET Nat, t.game \in Games, NEW e \in Frozen(t, X), NEW w,
         NEW b \in 1 .. Len(t.game.boards), NEW st, WithTracker(st, e.board[b]),
         Due(t.game, w, b, e.board[b].value), OneValue(t.game, w), Held(e, w, b - 1, b - 1),
         NEW track, track = Track(e, b, st)
  PROVE  track \in Frozen(t, X) /\ Held(track, w, b - 1, b - 1) /\ Stands(e, track, b)
<1>1. PICK m \in Nat : m = b - 1  OBVIOUS
<1>2. m <= Len(t.game.boards) /\ m < Len(t.game.boards)  BY <1>1, BoardsOf
<1>3. CASE st = "started"
  <2>1. track = Update(e, b) /\ e.board[b].tracker # 0  BY <1>3 DEF Track, WithTracker
  <2>2. QED  BY <1>1, <1>2, <2>1, UpdateStep
<1>4. CASE st # "started"
  <2>1. track = Allocate(e, b) /\ e.board[b].tracker = 0  BY <1>4 DEF Track, WithTracker
  <2>2. QED  BY <1>1, <1>2, <2>1, AllocateStep, ZenonT(60)
<1>5. QED  BY <1>3, <1>4

\* The values a frame gives.
FrameValues(t, vals) == [b \in 1 .. Len(t.game.boards) |-> vals[t.game.boards[b].val]]

LEMMA ProcessDoes ==
  ASSUME NEW t, t.game \in Games, NEW conds, NEW vals \in [Definitions(t.game) -> Values],
         NEW w, w = FrameValues(t, vals), NEW b \in 1 .. Len(t.game.boards),
         NEW u \in Amid(t, Nat, w, b - 1, {}), NEW v, v = ProcessLeaderboard(u, b, conds, vals)
  PROVE  v \in Amid(t, Nat, w, b, {})
<1> DEFINE g == t.game
           c == u.board[b]
<1>1. u \in Frozen(t, Nat) /\ Held(u, w, b - 1, b - 1) /\ u.game = g /\ BoardOK(c)
      /\ c \in BoardSet(Nat)
  <2>1. PICK X, m, Q : X = Nat /\ m = b - 1 /\ Q = {}  OBVIOUS
  <2>2. u \in Amid(t, X, w, m, Q)  BY <2>1
  <2>3. /\ u \in Frozen(t, X) /\ Held(u, w, m, m) /\ u.game = t.game
        /\ BoardOK(u.board[b]) /\ u.board[b] \in BoardSet(X)
    BY <2>2, AmidHas
  <2>4. QED  BY <2>1, <2>3
<1>2. c.st \in Runtimes /\ c.pub \in Publics  BY <1>1 DEF BoardSet
<1>3. PICK new : new = EvaluateLboard(c.st, conds[b])  OBVIOUS
<1>4. new \in Runtimes /\ (c.st = "started" => new \in {"started", "canceled", "triggered"})
  BY <1>2, <1>3, Evaluated
<1>5. PICK value : value = EvaluateValue(g.boards[b], c, new, vals)  OBVIOUS
<1>6. b \in DOMAIN g.boards  BY BoardsOf
<1>7. /\ value \in Nat
      /\ new \in {"started", "triggered"} => Due(g, w, b, value)
  <2>1. value \in Nat  BY <1>1, <1>5, <1>6, ValueIs
  <2>2. ASSUME new \in {"started", "triggered"}, Alike(g, b)
        PROVE  value = vals[g.boards[b].val]
    <3>1. g.boards[b].pro = NoDef /\ g.boards[b].val \notin HitDefs
      BY <1>6, <2>2 DEF Alike
    <3>2. QED  BY <1>5, <2>2, <3>1 DEF EvaluateValue
  <2>3. QED  BY <2>1, <2>2 DEF Due, FrameValues
<1>8. OneValue(g, w)  BY DEF OneValue, FrameValues
<1>9. PICK e : e = Run(u, b, new, value)  OBVIOUS
<1>10. PICK m \in Nat : m = b - 1 /\ m <= Len(g.boards)  BY BoardsOf
<1>11. e \in Frozen(t, Nat) /\ Held(e, w, b - 1, b - 1) /\ Ran(u, e, b, new, value)
  BY <1>1, <1>4, <1>7, <1>9, <1>10, RunStep, SMTT(60)
<1> HIDE DEF c
<1>12. /\ e.board[b].st = new /\ e.board[b].value = value /\ e.board[b].pub = c.pub
       /\ e.board[b].tracker = c.tracker
  <2>1. e.board[b] = [[c EXCEPT !.st = new] EXCEPT !.value = value]  BY <1>11 DEF Ran, c
  <2>2. QED  BY <1>1, <2>1 DEF BoardSet
<1>13. PICK track : track = Track(e, b, c.st)  OBVIOUS
<1>14. /\ c.pub = "inactive" => v = u
       /\ c.pub # "inactive" /\ new = "started" => v = Publish(track, b, "tracking")
       /\ c.pub # "inactive" /\ new = "canceled" /\ c.st = "started" =>
            v = Publish(Release(e, b), b, "active")
       /\ c.pub # "inactive" /\ new = "triggered" /\ c.st # "triggered" =>
            v = Publish(Release(track, b), b, "active")
       /\ c.pub # "inactive" /\ new # "started" /\ ~(new = "canceled" /\ c.st = "started")
            /\ ~(new = "triggered" /\ c.st # "triggered") => v = e
  BY <1>1, <1>2, <1>3, <1>5, <1>9, <1>13, ProcessIs DEF c
<1>15. c.pub # "inactive" => WithTracker(c.st, e.board[b]) /\ (c.st = "started" <=> c.tracker # 0)
  BY <1>1, <1>2, <1>12 DEF BoardOK, Publics, WithTracker
<1>18. "tracking" \in Publics /\ "active" \in Publics  BY DEF Publics
<1>19. Elsewhere(u, e, b)  BY <1>11 DEF Ran
<1>16. \E d \in {b - 1, b} : Turned(t, Nat, w, b, d, u, v)
  <2>1. CASE c.pub = "inactive"
    <3>1. c.tracker = 0 /\ v = u  BY <1>1, <1>14, <2>1 DEF BoardOK
    <3>2. QED  BY <3>1, TurnNone DEF c
  <2>2. CASE c.pub # "inactive" /\ new = "started"
    <3>1. track \in Frozen(t, Nat) /\ Held(track, w, b - 1, b - 1) /\ Stands(e, track, b)
      BY <1>7, <1>8, <1>11, <1>12, <1>13, <1>15, <2>2, TrackStep
    <3>2. v = Publish(track, b, "tracking")  BY <1>14, <2>2
    <3>3. v \in Frozen(t, Nat) /\ Held(v, w, b - 1, b - 1) /\ Published(track, v, b, "tracking")
      BY <1>10, <1>18, <3>1, <3>2, PublishStep
    <3>4. /\ v.board[b].pub = "tracking" /\ v.board[b].st = track.board[b].st
          /\ v.board[b].value = track.board[b].value
          /\ v.board[b].tracker = track.board[b].tracker
          /\ v.trackers = track.trackers /\ Elsewhere(track, v, b)
      BY <3>1, <3>3, PublishedIs
    <3>5. /\ Elsewhere(e, track, b) /\ track.board[b].st = new
          /\ track.board[b].value = value /\ track.board[b].tracker # 0
          /\ track.trackers[track.board[b].tracker].raw = value
      BY <1>12, <3>1 DEF Stands, SameRun
    <3>6. Elsewhere(u, v, b)
      <4>1. Elsewhere(u, track, b)  BY <1>1, <1>11, <1>19, <3>5, ElsewhereBoth
      <4>2. QED  BY <1>1, <3>1, <3>4, <4>1, ElsewhereBoth
    <3>7. BoardOK(v.board[b])  BY <2>2, <3>4, <3>5 DEF BoardOK
    <3>8. QED  BY <1>7, <2>2, <3>3, <3>4, <3>5, <3>6, <3>7 DEF Turned
  <2>3. CASE c.pub # "inactive" /\ new = "canceled" /\ c.st = "started"
    <3>1. PICK x : x = Release(e, b)  OBVIOUS
    <3>2. x \in Frozen(t, Nat) /\ Held(x, w, b - 1, b) /\ Gone(e, x, b)
      <4>1. e.board[b].tracker # 0  BY <1>12, <1>15, <2>3
      <4>2. x \in Frozen(t, Nat) /\ Held(x, w, m, m + 1) /\ Gone(e, x, b)
        BY <1>10, <1>11, <3>1, <4>1, ReleaseStep
      <4>3. QED  BY <1>10, <4>2
    <3>3. v \in Frozen(t, Nat) /\ Held(v, w, b - 1, b) /\ Published(x, v, b, "active")
      BY <1>10, <1>14, <1>18, <2>3, <3>1, <3>2, PublishStep
    <3>4. v.board[b].pub = "active" /\ v.board[b].st = x.board[b].st
          /\ v.board[b].tracker = x.board[b].tracker /\ Elsewhere(x, v, b)
      BY <3>2, <3>3, PublishedIs
    <3>5. Elsewhere(e, x, b) /\ x.board[b].st = new /\ x.board[b].tracker = 0
      BY <1>12, <3>2 DEF Gone, SameRun
    <3>6. Elsewhere(u, v, b)
      <4>1. Elsewhere(u, x, b)  BY <1>1, <1>11, <1>19, <3>5, ElsewhereBoth
      <4>2. QED  BY <1>1, <3>2, <3>4, <4>1, ElsewhereBoth
    <3>7. BoardOK(v.board[b])  BY <2>3, <3>4, <3>5 DEF BoardOK
    <3>8. QED  BY <3>3, <3>4, <3>5, <3>6, <3>7 DEF Turned
  <2>4. CASE c.pub # "inactive" /\ new = "triggered" /\ c.st # "triggered"
    <3>1. track \in Frozen(t, Nat) /\ Held(track, w, b - 1, b - 1) /\ Stands(e, track, b)
      BY <1>7, <1>8, <1>11, <1>12, <1>13, <1>15, <2>4, TrackStep
    <3>2. PICK x : x = Release(track, b)  OBVIOUS
    <3>3. x \in Frozen(t, Nat) /\ Held(x, w, b - 1, b) /\ Gone(track, x, b)
      <4>1. track.board[b].tracker # 0  BY <3>1 DEF Stands
      <4>2. x \in Frozen(t, Nat) /\ Held(x, w, m, m + 1) /\ Gone(track, x, b)
        BY <1>10, <3>1, <3>2, <4>1, ReleaseStep
      <4>3. QED  BY <1>10, <4>2
    <3>4. v \in Frozen(t, Nat) /\ Held(v, w, b - 1, b) /\ Published(x, v, b, "active")
      BY <1>10, <1>14, <1>18, <2>4, <3>2, <3>3, PublishStep
    <3>5. v.board[b].pub = "active" /\ v.board[b].st = x.board[b].st
          /\ v.board[b].tracker = x.board[b].tracker /\ Elsewhere(x, v, b)
      BY <3>3, <3>4, PublishedIs
    <3>6. /\ Elsewhere(e, track, b) /\ Elsewhere(track, x, b) /\ x.board[b].st = new
          /\ x.board[b].tracker = 0
      BY <1>12, <3>1, <3>3 DEF Stands, Gone, SameRun
    <3>7. Elsewhere(u, v, b)
      <4>1. Elsewhere(u, track, b)  BY <1>1, <1>11, <1>19, <3>6, ElsewhereBoth
      <4>2. Elsewhere(u, x, b)  BY <1>1, <3>1, <3>6, <4>1, ElsewhereBoth
      <4>3. QED  BY <1>1, <3>3, <3>5, <4>2, ElsewhereBoth
    <3>8. BoardOK(v.board[b])  BY <2>4, <3>5, <3>6 DEF BoardOK
    <3>9. QED  BY <3>4, <3>5, <3>6, <3>7, <3>8 DEF Turned
  <2>5. CASE c.pub # "inactive" /\ new # "started" /\ ~(new = "canceled" /\ c.st = "started")
             /\ ~(new = "triggered" /\ c.st # "triggered")
    <3>1. v = e  BY <1>14, <2>5
    <3>2. c.tracker = 0 /\ c.pub = "active"
      BY <1>1, <1>2, <1>4, <2>5 DEF BoardOK, Publics
    <3>3. BoardOK(v.board[b])  BY <1>12, <2>5, <3>1, <3>2 DEF BoardOK
    <3>4. QED  BY <1>11, <1>12, <1>19, <3>1, <3>2, <3>3 DEF Turned
  <2>6. QED  BY <2>1, <2>2, <2>3, <2>4, <2>5
<1>17. PICK d \in {b - 1, b} : Turned(t, Nat, w, b, d, u, v)  BY <1>16
<1>20. Quiet(t, v, b, {}, {})  BY DEF Quiet
<1>21. QED  BY <1>17, <1>20, TurnDone

\* All leaderboards of a frame.
LEMMA FrameDone ==
  ASSUME NEW t, t.game \in Games, NEW p, p.vals \in [Definitions(t.game) -> Values],
         NEW w, w = FrameValues(t, p.vals), t \in Amid(t, Nat, w, 0, {})
  PROVE  FrameLoop!Loop(p, t, Len(t.game.boards)) \in Amid(t, Nat, w, Len(t.game.boards), {})
<1> DEFINE n == Len(t.game.boards)
           G == [m \in Nat |-> Amid(t, Nat, w, m, {})]
<1>1. n \in Nat  BY BoardsOf
<1>2. t \in G[0]  OBVIOUS
<1>3. ASSUME NEW i \in 1 .. n, NEW u \in G[i - 1]  PROVE FrameBody(p, u, i) \in G[i]
  <2>1. i \in Nat /\ i - 1 \in Nat  BY <1>1
  <2>2. u \in Amid(t, Nat, w, i - 1, {})  BY <2>1
  <2>3. PICK v : v = FrameBody(p, u, i)  OBVIOUS
  <2>4. v = ProcessLeaderboard(u, i, p.conds, p.vals)  BY <2>3 DEF FrameBody
  <2>5. v \in Amid(t, Nat, w, i, {})  BY <2>2, <2>4, ProcessDoes
  <2>6. QED  BY <2>1, <2>3, <2>5
<1> HIDE DEF G
<1>4. FrameLoop!Loop(p, t, n) \in G[n]  BY <1>1, <1>2, <1>3, FrameLoop!LoopInduction
<1>5. QED  BY SMTT(60), <1>1, <1>4 DEF G
-----------------------------------------------------------------------------
(* Between the calls: nothing is pending, and the screen has the trackers   *)
(* that are used.                                                           *)

\* The trackers on the screen are the used ones, and show what they stand at.
Settled(t) ==
  /\ t.shownTrackers = {j \in 1 .. Len(t.trackers) : t.trackers[j].ref > 0}
  /\ \A j \in 1 .. Len(t.trackers) :
       /\ t.trackers[j].ref = Cardinality(UsersOf(t, j))
       /\ t.trackers[j].pend = {} /\ t.trackers[j].display = t.trackers[j].raw

\* A leaderboard that is tracked by its value is tracked at it.
Tracked(t) ==
  \A b \in 1 .. Len(t.game.boards) :
    Alike(t.game, b) /\ t.board[b].tracker # 0 =>
      t.trackers[t.board[b].tracker].raw = t.board[b].value

Fine(t) ==
  /\ t \in Frozen(t, Values) /\ t.game \in Games /\ t.outOfTurn = {}
  /\ \A b \in 1 .. Len(t.game.boards) : BoardOK(t.board[b])
  /\ Settled(t) /\ Theirs(t) /\ Tracked(t)
  /\ Len(t.trackers) <= 2 * Len(t.game.boards)

\* Where a loop begins.
LEMMA FineAmid ==
  ASSUME NEW t, Fine(t), NEW X, Values \subseteq X, NEW w, NEW Q,
         \A b \in Q : t.board[b].pub = "inactive"
  PROVE  t \in Amid(t, X, w, 0, Q)
<1>1. t \in Frozen(t, Values)  BY DEF Fine
<1>2. /\ t.board \in [1 .. Len(t.game.boards) -> BoardSet(Values)]
      /\ t.trackers \in Seq(TrackerSet(t.game))
  BY <1>1, FrozenHas
<1>3. t \in Frozen(t, X)
  <2>1. BoardSet(Values) \subseteq BoardSet(X)  BY DEF BoardSet
  <2>2. t.board \in [1 .. Len(t.game.boards) -> BoardSet(X)]  BY <1>2, <2>1
  <2>3. QED  BY <1>1, <2>2 DEF Frozen
<1>4. Counted(t)
  <2>1. ASSUME NEW j \in 1 .. Len(t.trackers)  PROVE Ready(t.trackers[j], j, t.shownTrackers)
    <3>1. t.trackers[j] \in TrackerSet(t.game)  BY <1>2
    <3>2. t.trackers[j].ref \in Nat  BY <3>1 DEF TrackerSet
    <3>3. /\ t.trackers[j].pend = {} /\ t.trackers[j].display = t.trackers[j].raw
          /\ j \in t.shownTrackers <=> t.trackers[j].ref > 0
      BY DEF Fine, Settled
    <3>4. QED  BY <3>2, <3>3 DEF Ready, Claimable
  <2>2. QED  BY <2>1 DEF Fine, Settled, Counted
<1>5. Dead(t) = {}  BY DEF Fine, Settled, Dead
<1>6. Short(t, 0)
  <2>1. Cardinality(Dead(t)) = 0  BY <1>5, FS_EmptySet
  <2>2. QED  BY <2>1 DEF Short, Fine
<1>7. Held(t, w, 0, 0)  BY <1>4, <1>6 DEF Held, Fine, Agree
<1>8. QED  BY <1>3, <1>7 DEF Amid, Fine

\* The trackers an event is raised for.
Raised(u, e) == {j \in DOMAIN u.trackers : TrackerEvent(u.trackers[j].pend) = e}

LEMMA EventIs ==
  ASSUME NEW j, NEW S, NEW g, NEW k \in TrackerSet(g), Ready(k, j, S)
  PROVE  /\ TrackerEvent(k.pend) = "hide" => j \in S /\ k.ref = 0
         /\ TrackerEvent(k.pend) = "show" => j \notin S /\ k.ref > 0
         /\ TrackerEvent(k.pend) = "update" => j \in S /\ k.ref > 0
         /\ TrackerEvent(k.pend) = "none" => (j \in S <=> k.ref > 0)
         /\ TrackerEvent(k.pend) \in {"hide", "show", "update", "none"}
<1>1. k.ref \in Nat /\ k.pend \in SUBSET Flags  BY DEF TrackerSet
<1>2. CASE {"hide", "show"} \subseteq k.pend
  <2>1. TrackerEvent(k.pend) = "none"  BY <1>2 DEF TrackerEvent
  <2>2. QED  BY <1>1, <1>2, <2>1 DEF Ready, Claimable
<1>3. CASE "hide" \in k.pend /\ "show" \notin k.pend
  <2>1. TrackerEvent(k.pend) = "hide"  BY <1>3 DEF TrackerEvent
  <2>2. QED  BY <1>1, <1>3, <2>1 DEF Ready, Claimable
<1>4. CASE "hide" \notin k.pend /\ "show" \in k.pend
  <2>1. TrackerEvent(k.pend) = "show"  BY <1>4 DEF TrackerEvent
  <2>2. QED  BY <1>1, <1>4, <2>1 DEF Ready, Claimable
<1>5. CASE "hide" \notin k.pend /\ "show" \notin k.pend
  <2>1. k.pend = {"update"} \/ k.pend = {}  BY <1>1, <1>5 DEF Flags
  <2>2. CASE k.pend = {"update"}
    <3>1. TrackerEvent(k.pend) = "update"  BY <2>2 DEF TrackerEvent
    <3>2. QED  BY <1>1, <2>2, <3>1 DEF Ready, Claimable
  <2>3. CASE k.pend = {}
    <3>1. TrackerEvent(k.pend) = "none"  BY <2>3 DEF TrackerEvent
    <3>2. QED  BY <1>1, <2>3, <3>1 DEF Ready, Claimable
  <2>4. QED  BY <2>1, <2>2, <2>3
<1>6. QED  BY <1>2, <1>3, <1>4, <1>5

\* What the events leave.
Shows(u, v, j) ==
  /\ v.trackers[j].ref = u.trackers[j].ref /\ v.trackers[j].val = u.trackers[j].val
  /\ v.trackers[j].raw = u.trackers[j].raw /\ v.trackers[j].display = u.trackers[j].raw
  /\ v.trackers[j].pend = {}

LEMMA RaiseDoes ==
  ASSUME NEW t, NEW X, NEW u \in Frozen(t, X), Counted(u), NEW v, v = RaiseTrackerEvents(u)
  PROVE  /\ v \in Frozen(v, X) /\ v.board = u.board /\ v.game = t.game /\ v.loaded = t.loaded
         /\ v.hardcore = t.hardcore /\ v.encore = t.encore /\ v.waiting = t.waiting
         /\ v.unlocked = t.unlocked /\ v.ach = t.ach /\ v.shown = t.shown
         /\ v.outOfTurn = t.outOfTurn /\ Len(v.trackers) = Len(u.trackers)
         /\ \A j \in 1 .. Len(u.trackers) : Shows(u, v, j)
         /\ Settled(v)
<1> DEFINE K == u.trackers
           S == u.shownTrackers
           After(j) == [K[j] EXCEPT !.display = IF K[j].pend \cap {"show", "update"} # {}
                                                THEN K[j].raw ELSE K[j].display,
                                    !.pend = {}]
           L == [j \in DOMAIN K |-> After(j)]
           T == (S \ Raised(u, "hide")) \cup Raised(u, "show")
           O == u.outOfTurn \cup ({"hide"} \X (Raised(u, "hide") \ S))
                            \cup ({"update"} \X (Raised(u, "update") \ S))
                            \cup ({"show"} \X (Raised(u, "show") \cap S))
<1>1. v = [u EXCEPT !.trackers = L, !.shownTrackers = T, !.outOfTurn = O]
  BY DEF RaiseTrackerEvents, Raised
<1>2. /\ K \in Seq(TrackerSet(t.game)) /\ DOMAIN K = 1 .. Len(K) /\ Len(K) \in Nat
      /\ \A j \in 1 .. Len(K) : K[j] \in TrackerSet(t.game)
  BY FrozenHas
<1>3. /\ S \subseteq 1 .. Len(K)
      /\ \A j \in 1 .. Len(K) : K[j].ref = Cardinality(UsersOf(u, j)) /\ Ready(K[j], j, S)
  BY DEF Counted
<1>4. \A j \in 1 .. Len(K) : /\ j \in Raised(u, "hide") => j \in S /\ K[j].ref = 0
                             /\ j \in Raised(u, "show") => j \notin S /\ K[j].ref > 0
                             /\ j \in Raised(u, "update") => j \in S /\ K[j].ref > 0
                             /\ \/ j \in Raised(u, "hide") \/ j \in Raised(u, "show")
                                \/ (j \in S <=> K[j].ref > 0)
  <2> SUFFICES ASSUME NEW j \in 1 .. Len(K)
               PROVE  /\ j \in Raised(u, "hide") => j \in S /\ K[j].ref = 0
                      /\ j \in Raised(u, "show") => j \notin S /\ K[j].ref > 0
                      /\ j \in Raised(u, "update") => j \in S /\ K[j].ref > 0
                      /\ \/ j \in Raised(u, "hide") \/ j \in Raised(u, "show")
                         \/ (j \in S <=> K[j].ref > 0)
    OBVIOUS
  <2>1. PICK k : k = K[j]  OBVIOUS
  <2>2. k \in TrackerSet(t.game) /\ Ready(k, j, S)  BY <1>2, <1>3, <2>1
  <2>3. \A e : j \in Raised(u, e) <=> TrackerEvent(k.pend) = e  BY <1>2, <2>1 DEF Raised
  <2> HIDE DEF K, S
  <2>4. /\ TrackerEvent(k.pend) = "hide" => j \in S /\ k.ref = 0
        /\ TrackerEvent(k.pend) = "show" => j \notin S /\ k.ref > 0
        /\ TrackerEvent(k.pend) = "update" => j \in S /\ k.ref > 0
        /\ TrackerEvent(k.pend) = "none" => (j \in S <=> k.ref > 0)
        /\ TrackerEvent(k.pend) \in {"hide", "show", "update", "none"}
    BY <2>2, EventIs
  <2>5. k.ref \in Nat  BY <2>2 DEF TrackerSet
  <2>6. QED  BY <2>1, <2>3, <2>4, <2>5
<1>5. \A e : Raised(u, e) \subseteq 1 .. Len(K)  BY <1>2 DEF Raised
<1>6. O = u.outOfTurn
  <2>1. /\ Raised(u, "hide") \ S = {} /\ Raised(u, "update") \ S = {}
        /\ Raised(u, "show") \cap S = {}
    BY <1>4, <1>5
  <2>2. QED  BY <2>1
<1>7. T = {j \in 1 .. Len(K) : K[j].ref > 0}
  <2>1. ASSUME NEW j  PROVE j \in T <=> j \in 1 .. Len(K) /\ K[j].ref > 0
    BY <1>3, <1>4, <1>5
  <2>2. QED  BY <2>1
<1>8. /\ L \in Seq(TrackerSet(t.game)) /\ Len(L) = Len(K)
      /\ \A j \in 1 .. Len(K) :
           /\ L[j].ref = K[j].ref /\ L[j].val = K[j].val
           /\ L[j].raw = K[j].raw /\ L[j].display = K[j].raw /\ L[j].pend = {}
  <2>1. ASSUME NEW j \in 1 .. Len(K)
        PROVE  /\ L[j] \in TrackerSet(t.game) /\ L[j].ref = K[j].ref /\ L[j].val = K[j].val
               /\ L[j].raw = K[j].raw /\ L[j].display = K[j].raw /\ L[j].pend = {}
    <3>1. PICK k : k = K[j]  OBVIOUS
    <3>2. PICK x : x = IF k.pend \cap {"show", "update"} # {} THEN k.raw ELSE k.display
      OBVIOUS
    <3>3. L[j] = [[k EXCEPT !.display = x] EXCEPT !.pend = {}]  BY <1>2, <3>1, <3>2
    <3>4. k \in TrackerSet(t.game) /\ Ready(k, j, S)  BY <1>2, <1>3, <3>1
    <3>5. x = k.raw  BY <3>2, <3>4 DEF Ready
    <3> HIDE DEF L
    <3>6. QED  BY <3>1, <3>3, <3>4, <3>5 DEF TrackerSet, Flags
  <2>2. DOMAIN L = 1 .. Len(K)  BY <1>2
  <2> HIDE DEF L
  <2>3. L = [j \in 1 .. Len(K) |-> L[j]]
    <3>1. L = [j \in DOMAIN L |-> L[j]]  BY DEF L
    <3>2. QED  BY <2>2, <3>1, SMTT(60)
  <2>4. L \in Seq(TrackerSet(t.game)) /\ Len(L) = Len(K)  BY <1>2, <2>1, <2>2, <2>3
  <2>5. QED  BY <2>1, <2>4
<1> HIDE DEF L, T, O
<1>9. /\ v.trackers = L /\ v.shownTrackers = T /\ v.outOfTurn = t.outOfTurn /\ v.board = u.board
      /\ v.game = t.game /\ v.loaded = t.loaded /\ v.hardcore = t.hardcore
      /\ v.encore = t.encore /\ v.waiting = t.waiting /\ v.unlocked = t.unlocked
      /\ v.ach = t.ach /\ v.shown = t.shown
  BY <1>1, <1>6 DEF Frozen
<1>10. v \in Frozen(v, X)
  <2>1. v.board \in [1 .. Len(v.game.boards) -> BoardSet(X)]  BY <1>9, FrozenHas
  <2>2. v.trackers \in Seq(TrackerSet(v.game))  BY <1>8, <1>9
  <2>3. QED  BY <1>1, <2>1, <2>2 DEF Frozen
<1>11. \A j \in 1 .. Len(K) : Shows(u, v, j)  BY <1>8, <1>9 DEF Shows
<1>12. \A j : UsersOf(v, j) = UsersOf(u, j)  BY <1>9, FrozenHas DEF UsersOf
<1>13. Settled(v)  BY <1>3, <1>7, <1>8, <1>9, <1>11, <1>12 DEF Settled, Shows
<1>14. QED  BY <1>8, <1>9, <1>10, <1>11, <1>13

\* Only the leaderboards, the trackers and the trackers on the screen differ.
Besides(t, v) ==
  /\ v.game = t.game /\ v.loaded = t.loaded /\ v.hardcore = t.hardcore
  /\ v.encore = t.encore /\ v.waiting = t.waiting /\ v.unlocked = t.unlocked
  /\ v.ach = t.ach /\ v.shown = t.shown

\* Where a loop ends, all leaderboards being done.
LEMMA AmidFine ==
  ASSUME NEW t, t.game \in Games, t.outOfTurn = {}, NEW X, NEW w, NEW Q,
         NEW u \in Amid(t, X, w, Len(t.game.boards), Q), NEW v, v = RaiseTrackerEvents(u),
         \A b \in 1 .. Len(t.game.boards) : u.board[b].value \in Values
  PROVE  Fine(v) /\ Besides(t, v) /\ v.board = u.board
<1> DEFINE N == 1 .. Len(t.game.boards)
           n == Len(t.game.boards)
<1>1. /\ u \in Frozen(t, X) /\ Held(u, w, n, n) /\ \A b \in N : BoardOK(u.board[b])
      /\ \A b \in N : Alike(t.game, b) /\ u.board[b].tracker # 0 => u.board[b].value = w[b]
  BY DEF Amid
<1>2. Counted(u) /\ Theirs(u) /\ Agree(u, w, n) /\ Short(u, n)  BY <1>1 DEF Held
<1>3. /\ v \in Frozen(v, X) /\ v.board = u.board /\ v.game = t.game
      /\ v.outOfTurn = t.outOfTurn /\ Len(v.trackers) = Len(u.trackers)
      /\ \A j \in 1 .. Len(u.trackers) : Shows(u, v, j)
      /\ Settled(v)
  BY <1>1, <1>2, RaiseDoes
<1>4. Besides(t, v)  BY <1>1, <1>2, RaiseDoes DEF Besides
<1>5. u.game = t.game /\ u.board \in [N -> BoardSet(X)] /\ Len(u.trackers) \in Nat
  BY <1>1, FrozenHas
<1>6. v \in Frozen(v, Values)
  <2>1. \A b \in N : u.board[b] \in BoardSet(Values)
    <3> SUFFICES ASSUME NEW b \in N  PROVE u.board[b] \in BoardSet(Values)
      OBVIOUS
    <3>1. u.board[b] \in BoardSet(X) /\ u.board[b].value \in Values  BY <1>5
    <3>2. QED  BY <3>1 DEF BoardSet
  <2>2. u.board \in [N -> BoardSet(Values)]  BY <1>5, <2>1
  <2>3. QED  BY <1>3, <2>2 DEF Frozen
<1>7. Theirs(v)
  <2> SUFFICES ASSUME NEW b \in N
               PROVE  /\ v.board[b].tracker \in 0 .. Len(v.trackers)
                      /\ v.board[b].tracker # 0 =>
                           v.trackers[v.board[b].tracker].val = t.game.boards[b].val
    BY <1>3 DEF Theirs
  <2>1. PICK i : i = u.board[b].tracker  OBVIOUS
  <2>2. i \in 0 .. Len(u.trackers) /\ (i # 0 => u.trackers[i].val = t.game.boards[b].val)
    BY <1>2, <1>5, <2>1 DEF Theirs
  <2>3. i \in 0 .. Len(v.trackers) /\ v.board[b].tracker = i  BY <1>3, <2>1, <2>2
  <2>4. ASSUME i # 0  PROVE v.trackers[i].val = t.game.boards[b].val
    <3>1. i \in 1 .. Len(u.trackers) /\ u.trackers[i].val = t.game.boards[b].val
      BY <1>5, <2>2, <2>4
    <3>2. Shows(u, v, i)  BY <1>3, <3>1
    <3>3. QED  BY <3>1, <3>2 DEF Shows
  <2>5. QED  BY <2>3, <2>4
<1>8. Tracked(v)
  <2> SUFFICES ASSUME NEW b \in N, Alike(t.game, b), v.board[b].tracker # 0
               PROVE  v.trackers[v.board[b].tracker].raw = v.board[b].value
    BY <1>3 DEF Tracked
  <2>1. u.board[b].value = w[b] /\ u.trackers[u.board[b].tracker].raw = w[b]
    BY <1>1, <1>2, <1>3, <1>5 DEF Agree
  <2>2. PICK i : i = u.board[b].tracker  OBVIOUS
  <2>3. v.board[b].tracker = i /\ v.board[b].value = w[b] /\ u.trackers[i].raw = w[b]
    BY <1>3, <2>1, <2>2
  <2>4. i \in 0 .. Len(u.trackers) /\ i # 0  BY <1>2, <1>3, <1>5, <2>2 DEF Theirs
  <2>5. i \in 1 .. Len(u.trackers)  BY <1>5, <2>4
  <2>6. Shows(u, v, i)  BY <1>3, <2>5
  <2>7. QED  BY <2>3, <2>6 DEF Shows
<1>9. QED  BY <1>1, <1>2, <1>3, <1>4, <1>5, <1>6, <1>7, <1>8 DEF Fine, Short

-----------------------------------------------------------------------------
(* The other loops: leaderboards that stop, are reset, loaded, or hidden.   *)

LEMMA HeldMore ==
  ASSUME NEW t, NEW X, NEW u \in Frozen(t, X), NEW w, NEW m, NEW d \in Nat, Held(u, w, m, d)
  PROVE  Held(u, w, m, d + 1)
<1>1. Cardinality(Dead(u)) \in Nat  BY DeadFinite
<1>2. Short(u, d + 1)  BY <1>1 DEF Held, Short
<1>3. QED  BY <1>2 DEF Held

HasTracker(c) == c.tracker # 0 <=> c.pub = "tracking"

Stopped(u, v, b, pub) ==
  /\ Elsewhere(u, v, b) /\ v.board[b].tracker = 0 /\ v.board[b].pub = pub
  /\ v.board[b].st = u.board[b].st /\ v.board[b].value = u.board[b].value

LEMMA StopStep ==
  ASSUME NEW t, NEW X \in SUBSET Nat, t.game \in Games, NEW u \in Frozen(t, X), NEW w,
         NEW b \in 1 .. Len(t.game.boards), Held(u, w, b - 1, b - 1), HasTracker(u.board[b]),
         NEW pub \in Publics, NEW v, v = StopTracking(u, b, pub)
  PROVE  v \in Frozen(t, X) /\ Held(v, w, b - 1, b) /\ Stopped(u, v, b, pub)
<1>1. PICK m \in Nat : m = b - 1 /\ m <= Len(t.game.boards)  BY BoardsOf
<1>2. PICK x : x = IF u.board[b].pub = "tracking" THEN Release(u, b) ELSE u  OBVIOUS
<1>3. v = Publish(x, b, pub)  BY <1>2 DEF StopTracking, Publish
<1>4. x \in Frozen(t, X) /\ Held(x, w, m, m + 1) /\ Gone(u, x, b)
  <2>1. CASE u.board[b].pub = "tracking"
    <3>1. x = Release(u, b)  BY <1>2, <2>1
    <3>2. u.board[b].tracker # 0  BY <2>1 DEF HasTracker
    <3>3. Held(u, w, m, m)  BY <1>1
    <3>4. QED  BY <1>1, <3>1, <3>2, <3>3, ReleaseStep
  <2>2. CASE u.board[b].pub # "tracking"
    <3>1. x = u  BY <1>2, <2>2
    <3>2. Held(u, w, m, m)  BY <1>1
    <3>3. Held(u, w, m, m + 1)  BY <3>2, HeldMore
    <3>4. Gone(u, u, b)  BY <2>2 DEF HasTracker, Gone, SameRun, Elsewhere
    <3>5. QED  BY <3>1, <3>3, <3>4
  <2>3. QED  BY <2>1, <2>2
<1>5. Held(x, w, m, b)  BY <1>1, <1>4
<1>6. v \in Frozen(t, X) /\ Held(v, w, m, b) /\ Published(x, v, b, pub)
  BY <1>1, <1>3, <1>4, <1>5, PublishStep
<1>7. /\ v.board[b].pub = pub /\ v.board[b].st = x.board[b].st
      /\ v.board[b].value = x.board[b].value /\ v.board[b].tracker = x.board[b].tracker
      /\ Elsewhere(x, v, b)
  BY <1>4, <1>6, PublishedIs
<1>8. /\ Elsewhere(u, x, b) /\ x.board[b].tracker = 0 /\ x.board[b].st = u.board[b].st
      /\ x.board[b].value = u.board[b].value
  BY <1>4 DEF Gone, SameRun
<1>9. Elsewhere(u, v, b)  BY <1>4, <1>7, <1>8, ElsewhereBoth
<1>10. Stopped(u, v, b, pub)  BY <1>7, <1>8, <1>9 DEF Stopped
<1>11. QED  BY <1>1, <1>6, <1>10

\* rc_client_deactivate_leaderboards, for one leaderboard
StopBody(p, u, b) == StopTracking(u, b, "inactive")
StopLoop == INSTANCE Loops WITH Body <- StopBody

LEMMA StopDoes ==
  ASSUME NEW t, t.game \in Games, NEW w, NEW b \in 1 .. Len(t.game.boards),
         NEW u \in Amid(t, Values, w, b - 1, 1 .. (b - 1)), NEW v, v = StopTracking(u, b, "inactive")
  PROVE  v \in Amid(t, Values, w, b, 1 .. b)
<1>1. u \in Frozen(t, Values) /\ Held(u, w, b - 1, b - 1) /\ BoardOK(u.board[b])
  BY SMTT(30), AmidHas
<1>2. HasTracker(u.board[b])  BY <1>1 DEF BoardOK, HasTracker
<1>3. Values \in SUBSET Nat /\ "inactive" \in Publics  BY FrameAssumption DEF Publics
<1>4. v \in Frozen(t, Values) /\ Held(v, w, b - 1, b) /\ Stopped(u, v, b, "inactive")
  BY <1>1, <1>2, <1>3, StopStep
<1>5. Turned(t, Values, w, b, b, u, v)  BY <1>4 DEF Stopped, Turned, BoardOK
<1>6. Quiet(t, v, b, 1 .. (b - 1), 1 .. b)  BY <1>4, BoardsOf DEF Quiet, Stopped
<1>7. b \in {b - 1, b}  OBVIOUS
<1>8. QED  BY <1>5, <1>6, <1>7, TurnDone

LEMMA StopDone ==
  ASSUME NEW t, t.game \in Games, NEW p, NEW w, t \in Amid(t, Values, w, 0, {})
  PROVE  StopLoop!Loop(p, t, Len(t.game.boards))
           \in Amid(t, Values, w, Len(t.game.boards), 1 .. Len(t.game.boards))
<1> DEFINE n == Len(t.game.boards)
           G == [m \in Nat |-> Amid(t, Values, w, m, 1 .. m)]
<1>1. n \in Nat  BY BoardsOf
<1>2. t \in G[0]
  <2>1. 1 .. 0 = {}  OBVIOUS
  <2>2. QED  BY <2>1
<1>3. ASSUME NEW i \in 1 .. n, NEW u \in G[i - 1]  PROVE StopBody(p, u, i) \in G[i]
  <2>1. i \in Nat /\ i - 1 \in Nat  BY <1>1
  <2>2. u \in Amid(t, Values, w, i - 1, 1 .. (i - 1))  BY <2>1
  <2>3. PICK v : v = StopTracking(u, i, "inactive")  OBVIOUS
  <2>4. v \in Amid(t, Values, w, i, 1 .. i)  BY <2>2, <2>3, StopDoes
  <2>5. QED  BY <2>1, <2>3, <2>4 DEF StopBody
<1> HIDE DEF G
<1>4. StopLoop!Loop(p, t, n) \in G[n]  BY <1>1, <1>2, <1>3, StopLoop!LoopInduction
<1>5. QED  BY <1>1, <1>4 DEF G

\* rc_client_reset_all, for one leaderboard
ResetBody(p, u, b) ==
  IF u.board[b].pub = "inactive" THEN u
  ELSE [StopTracking(u, b, "active") EXCEPT !.board[b].st = "waiting", !.board[b].value = 0]
ResetLoop == INSTANCE Loops WITH Body <- ResetBody

LEMMA RanIs ==
  ASSUME NEW t, NEW X, NEW u \in Frozen(t, X), NEW b \in 1 .. Len(t.game.boards), NEW v,
         NEW st, NEW value, Ran(u, v, b, st, value)
  PROVE  /\ v.board[b].pub = u.board[b].pub /\ v.board[b].st = st
         /\ v.board[b].value = value /\ v.board[b].tracker = u.board[b].tracker
         /\ v.trackers = u.trackers /\ Elsewhere(u, v, b)
<1>1. u.board[b] \in BoardSet(X)  BY FrozenHas
<1>2. QED  BY <1>1 DEF Ran, BoardSet

\* A leaderboard that is inactive is left alone, and stays so.
LEMMA LeftAlone ==
  ASSUME NEW t, NEW X, t.game \in Games, NEW w, NEW b \in 1 .. Len(t.game.boards),
         NEW Q \in SUBSET (1 .. Len(t.game.boards)), NEW u \in Amid(t, X, w, b - 1, Q),
         u.board[b].pub = "inactive"
  PROVE  u \in Amid(t, X, w, b, Q)
<1>1. BoardOK(u.board[b])  BY AmidHas
<1>2. u.board[b].tracker = 0  BY <1>1 DEF BoardOK
<1>3. Turned(t, X, w, b, b - 1, u, u)  BY <1>2, TurnNone
<1>4. Quiet(t, u, b, Q, Q)  BY DEF Quiet
<1>5. b - 1 \in {b - 1, b}  OBVIOUS
<1>6. QED  BY <1>3, <1>4, <1>5, TurnDone

\* One that is not is none of those that are.
LEMMA Busy ==
  ASSUME NEW t, NEW X, NEW w, NEW b \in 1 .. Len(t.game.boards),
         NEW Q \in SUBSET (1 .. Len(t.game.boards)), NEW u \in Amid(t, X, w, b - 1, Q),
         u.board[b].pub # "inactive", NEW v
  PROVE  Quiet(t, v, b, Q, Q)
BY DEF Amid, Quiet

LEMMA ResetDoes ==
  ASSUME NEW t, t.game \in Games, NEW w, NEW b \in 1 .. Len(t.game.boards),
         NEW Q \in SUBSET (1 .. Len(t.game.boards)), NEW u \in Amid(t, Values, w, b - 1, Q),
         NEW p, NEW v, v = ResetBody(p, u, b)
  PROVE  v \in Amid(t, Values, w, b, Q)
<1>1. CASE u.board[b].pub = "inactive"
  <2>1. v = u  BY <1>1 DEF ResetBody
  <2>2. QED  BY <1>1, <2>1, LeftAlone
<1>2. CASE u.board[b].pub # "inactive"
  <2>1. u \in Frozen(t, Values) /\ Held(u, w, b - 1, b - 1) /\ BoardOK(u.board[b])
    BY AmidHas
  <2>2. HasTracker(u.board[b])  BY <2>1 DEF BoardOK, HasTracker
  <2>3. /\ Values \in SUBSET Nat /\ "active" \in Publics /\ 0 \in Values
        /\ "waiting" \in Runtimes
    BY FrameAssumption DEF Publics, Runtimes
  <2>4. PICK x : x = StopTracking(u, b, "active")  OBVIOUS
  <2>5. x \in Frozen(t, Values) /\ Held(x, w, b - 1, b) /\ Stopped(u, x, b, "active")
    BY <2>1, <2>2, <2>3, <2>4, StopStep
  <2>6. v = Run(x, b, "waiting", 0)  BY <1>2, <2>4 DEF ResetBody, Run
  <2>7. PICK m \in Nat : m = b - 1 /\ m <= Len(t.game.boards)  BY BoardsOf
  <2>8. v \in Frozen(t, Values) /\ Held(v, w, b - 1, b) /\ Ran(x, v, b, "waiting", 0)
    <3>1. PICK a : a = "waiting"  OBVIOUS
    <3>2. a \in Runtimes /\ v = Run(x, b, a, 0)  BY <2>3, <2>6, <3>1
    <3>3. v \in Frozen(t, Values) /\ Held(v, w, b - 1, b) /\ Ran(x, v, b, a, 0)
      BY <2>3, <2>5, <2>7, <3>2, RunStep, ZenonT(60)
    <3>4. QED  BY <3>1, <3>3
  <2>9. /\ v.board[b].pub = x.board[b].pub /\ v.board[b].st = "waiting"
        /\ v.board[b].tracker = x.board[b].tracker /\ Elsewhere(x, v, b)
    BY <2>5, <2>8, RanIs
  <2>10. Elsewhere(u, x, b) /\ x.board[b].tracker = 0 /\ x.board[b].pub = "active"
    BY <2>5 DEF Stopped
  <2>11. Elsewhere(u, v, b)  BY <2>1, <2>5, <2>9, <2>10, ElsewhereBoth
  <2>12. Turned(t, Values, w, b, b, u, v)  BY <2>8, <2>9, <2>10, <2>11 DEF Turned, BoardOK
  <2>13. Quiet(t, v, b, Q, Q)  BY <1>2, Busy
  <2>14. b \in {b - 1, b}  OBVIOUS
  <2>15. QED  BY <2>12, <2>13, <2>14, TurnDone
<1>3. QED  BY <1>1, <1>2

LEMMA ResetDone ==
  ASSUME NEW t, t.game \in Games, NEW p, NEW w, NEW Q \in SUBSET (1 .. Len(t.game.boards)),
         t \in Amid(t, Values, w, 0, Q)
  PROVE  ResetLoop!Loop(p, t, Len(t.game.boards)) \in Amid(t, Values, w, Len(t.game.boards), Q)
<1> DEFINE n == Len(t.game.boards)
           G == [m \in Nat |-> Amid(t, Values, w, m, Q)]
<1>1. n \in Nat  BY BoardsOf
<1>2. t \in G[0]  OBVIOUS
<1>3. ASSUME NEW i \in 1 .. n, NEW u \in G[i - 1]  PROVE ResetBody(p, u, i) \in G[i]
  <2>1. i \in Nat /\ i - 1 \in Nat  BY <1>1
  <2>2. u \in Amid(t, Values, w, i - 1, Q)  BY <2>1
  <2>3. PICK v : v = ResetBody(p, u, i)  OBVIOUS
  <2>4. v \in Amid(t, Values, w, i, Q)  BY <2>2, <2>3, ResetDoes
  <2>5. QED  BY <2>1, <2>3, <2>4
<1> HIDE DEF G
<1>4. ResetLoop!Loop(p, t, n) \in G[n]  BY <1>1, <1>2, <1>3, ResetLoop!LoopInduction
<1>5. QED  BY <1>1, <1>4 DEF G
\* rc_client_deserialize_progress, for one leaderboard
LoadBody(p, u, b) ==
  LET c == u.board[b]
      v == [u EXCEPT !.board[b].st = p.states[b],
                     !.board[b].value = IF p.states[b] = "started" THEN p.values[b] ELSE 0]
  IN  CASE c.pub = "inactive" -> u
        [] c.pub = "active" /\ p.states[b] = "started" ->
             [Allocate(v, b) EXCEPT !.board[b].pub = "tracking"]
        [] c.pub = "tracking" /\ p.states[b] = "started" -> Update(v, b)
        [] OTHER -> StopTracking(v, b, "active")
LoadLoop == INSTANCE Loops WITH Body <- LoadBody

\* Its cases.
LEMMA LoadIs ==
  ASSUME NEW p, NEW u, NEW b, NEW v, v = LoadBody(p, u, b), NEW pub, pub = u.board[b].pub,
         pub \in Publics, NEW st, st = p.states[b],
         NEW e, e = Run(u, b, st, IF st = "started" THEN p.values[b] ELSE 0)
  PROVE  /\ pub = "inactive" => v = u
         /\ pub = "active" /\ st = "started" => v = Publish(Allocate(e, b), b, "tracking")
         /\ pub = "tracking" /\ st = "started" => v = Update(e, b)
         /\ pub # "inactive" /\ st # "started" => v = StopTracking(e, b, "active")
<1>1. e = [u EXCEPT !.board[b].st = st,
                    !.board[b].value = IF st = "started" THEN p.values[b] ELSE 0]
  BY DEF Run
<1>2. pub = "inactive" => v = u  BY SMTT(60) DEF LoadBody
<1>3. pub = "active" /\ st = "started" => v = Publish(Allocate(e, b), b, "tracking")
  BY <1>1 DEF LoadBody, Publish
<1>4. pub = "tracking" /\ st = "started" => v = Update(e, b)  BY <1>1 DEF LoadBody
<1>5. pub # "inactive" /\ st # "started" => v = StopTracking(e, b, "active")
  BY <1>1 DEF LoadBody, Publics
<1>6. QED  BY <1>2, <1>3, <1>4, <1>5

LoadsOf(g, p) ==
  /\ p.states \in [DOMAIN g.boards -> {"waiting", "active", "started"}]
  /\ p.values \in [DOMAIN g.boards -> Values]

LEMMA LoadDoes ==
  ASSUME NEW t, t.game \in Games, NEW p, LoadsOf(t.game, p), OneValue(t.game, p.values),
         NEW b \in 1 .. Len(t.game.boards), NEW Q \in SUBSET (1 .. Len(t.game.boards)),
         NEW u \in Amid(t, Values, p.values, b - 1, Q), NEW v, v = LoadBody(p, u, b)
  PROVE  v \in Amid(t, Values, p.values, b, Q)
<1> DEFINE c == u.board[b]
           g == t.game
<1>1. PICK w : w = p.values  OBVIOUS
<1>2. /\ u \in Frozen(t, Values) /\ Held(u, w, b - 1, b - 1) /\ BoardOK(c)
      /\ c \in BoardSet(Values)
  BY <1>1, AmidHas
<1>3. PICK st : st = p.states[b]  OBVIOUS
<1>4. b \in DOMAIN g.boards  BY BoardsOf
<1>5. st \in {"waiting", "active", "started"} /\ w[b] \in Values
  BY <1>1, <1>3, <1>4 DEF LoadsOf
<1>6. PICK value : value = IF st = "started" THEN p.values[b] ELSE 0  OBVIOUS
<1>7. value \in Values /\ (st = "started" => Due(g, w, b, value))
  BY <1>1, <1>5, <1>6, FrameAssumption DEF Due
<1>8. PICK e : e = Run(u, b, st, value)  OBVIOUS
<1>9. PICK pub : pub = u.board[b].pub  OBVIOUS
<1>10. pub \in Publics  BY <1>2, <1>9 DEF BoardSet
<1>11. /\ pub = "inactive" => v = u
       /\ pub = "active" /\ st = "started" => v = Publish(Allocate(e, b), b, "tracking")
       /\ pub = "tracking" /\ st = "started" => v = Update(e, b)
       /\ pub # "inactive" /\ st # "started" => v = StopTracking(e, b, "active")
  BY <1>3, <1>6, <1>8, <1>9, <1>10, LoadIs
<1>12. CASE pub = "inactive"
  <2>1. v = u  BY <1>11, <1>12
  <2>2. QED  BY <1>9, <1>12, <2>1, LeftAlone
<1>13. CASE pub # "inactive"
  <2>1. PICK m \in Nat : m = b - 1 /\ m <= Len(g.boards) /\ m < Len(g.boards)  BY BoardsOf
  <2>2. Values \in SUBSET Nat /\ "active" \in Publics /\ "tracking" \in Publics /\ st \in Runtimes
    BY <1>5, FrameAssumption DEF Publics, Runtimes
  <2>13. u \in Frozen(t, Values) /\ Held(u, w, m, m)  BY <1>2, <2>1
  <2>14. st \in Runtimes /\ value \in Values  BY <1>7, <2>2
  <2>3. e \in Frozen(t, Values) /\ Held(e, w, m, m) /\ Ran(u, e, b, st, value)
    <3>1. m <= Len(t.game.boards)  BY <2>1
    <3>2. QED  BY <1>8, <2>13, <2>14, <3>1, RunStep
  <2>4. /\ e.board[b].pub = pub /\ e.board[b].st = st /\ e.board[b].value = value
        /\ e.board[b].tracker = c.tracker /\ Elsewhere(u, e, b)
    BY <1>2, <1>9, <2>3, RanIs
  <2>5. c.tracker # 0 <=> pub = "tracking"  BY <1>2, <1>9 DEF BoardOK
  <2>6. Quiet(t, v, b, Q, Q)  BY <1>1, <1>9, <1>13, Busy
  <2>7. OneValue(g, w)  BY <1>1
  <2>8. b - 1 \in {b - 1, b} /\ b \in {b - 1, b}  OBVIOUS
  <2>15. Values \in SUBSET Nat /\ e \in Frozen(t, Values) /\ Held(e, w, b - 1, b - 1)
    BY <2>1, <2>2, <2>3
  <2>9. CASE pub = "active" /\ st = "started"
    <3>1. PICK x : x = Allocate(e, b)  OBVIOUS
    <3>2. Due(g, w, b, e.board[b].value)  BY <1>7, <2>4, <2>9
    <3>3. x \in Frozen(t, Values) /\ Held(x, w, b - 1, b - 1) /\ Stands(e, x, b)
      <4>1. PICK old : old = "waiting"  OBVIOUS
      <4>2. WithTracker(old, e.board[b])  BY <2>4, <2>5, <2>9, <4>1 DEF WithTracker
      <4>3. x = Track(e, b, old)  BY <3>1, <4>1 DEF Track
      <4>4. QED  BY <2>7, <2>15, <3>2, <4>2, <4>3, TrackStep
    <3>4. v \in Frozen(t, Values) /\ Held(v, w, m, m) /\ Published(x, v, b, "tracking")
      <4>1. v = Publish(x, b, "tracking")  BY <1>11, <2>9, <3>1
      <4>2. Held(x, w, m, m) /\ m <= Len(t.game.boards)  BY <2>1, <3>3
      <4>3. "tracking" \in Publics  BY <2>2
      <4>4. QED  BY <3>3, <4>1, <4>2, <4>3, PublishStep
    <3>5. /\ v.board[b].pub = "tracking" /\ v.board[b].st = x.board[b].st
          /\ v.board[b].value = x.board[b].value /\ v.board[b].tracker = x.board[b].tracker
          /\ v.trackers = x.trackers /\ Elsewhere(x, v, b)
      BY <3>3, <3>4, PublishedIs
    <3>6. /\ Elsewhere(e, x, b) /\ x.board[b].st = st /\ x.board[b].value = value
          /\ x.board[b].tracker # 0 /\ x.trackers[x.board[b].tracker].raw = value
      BY <2>4, <3>3 DEF Stands, SameRun
    <3>7. Elsewhere(u, v, b)
      <4>1. Elsewhere(u, x, b)  BY <1>2, <2>3, <2>4, <3>6, ElsewhereBoth
      <4>2. QED  BY <1>2, <3>3, <3>5, <4>1, ElsewhereBoth
    <3>8. BoardOK(v.board[b])  BY <2>9, <3>5, <3>6 DEF BoardOK
    <3>9. Turned(t, Values, w, b, b - 1, u, v)
      BY <1>7, <2>1, <2>9, <3>4, <3>5, <3>6, <3>7, <3>8 DEF Turned
    <3>10. QED  BY <1>1, <2>6, <2>8, <3>9, TurnDone
  <2>10. CASE pub = "tracking" /\ st = "started"
    <3>1. e.board[b].tracker # 0 /\ Due(g, w, b, e.board[b].value)
      BY <1>7, <2>4, <2>5, <2>10
    <3>2. v \in Frozen(t, Values) /\ Held(v, w, b - 1, b - 1) /\ Stands(e, v, b)
      <4>1. WithTracker(st, e.board[b])  BY <2>10, <3>1 DEF WithTracker
      <4>2. v = Track(e, b, st)  BY <1>11, <2>10 DEF Track
      <4>3. QED  BY <2>7, <2>15, <3>1, <4>1, <4>2, TrackStep
    <3>3. /\ Elsewhere(e, v, b) /\ v.board[b].st = st /\ v.board[b].value = value
          /\ v.board[b].pub = pub
          /\ v.board[b].tracker # 0 /\ v.trackers[v.board[b].tracker].raw = value
      BY <2>4, <3>2 DEF Stands, SameRun
    <3>4. Elsewhere(u, v, b)  BY <1>2, <2>3, <2>4, <3>3, ElsewhereBoth
    <3>5. BoardOK(v.board[b])  BY <2>10, <3>3 DEF BoardOK
    <3>6. Turned(t, Values, w, b, b - 1, u, v)
      BY <1>7, <2>1, <2>10, <3>2, <3>3, <3>4, <3>5 DEF Turned
    <3>7. QED  BY <1>1, <2>6, <2>8, <3>6, TurnDone
  <2>11. CASE st # "started"
    <3>1. HasTracker(e.board[b])  BY <2>4, <2>5 DEF HasTracker
    <3>2. Held(e, w, b - 1, b - 1)  BY <2>1, <2>3
    <3>3. v \in Frozen(t, Values) /\ Held(v, w, b - 1, b) /\ Stopped(e, v, b, "active")
      BY <1>11, <1>13, <2>2, <2>3, <2>11, <3>1, <3>2, StopStep
    <3>4. /\ Elsewhere(e, v, b) /\ v.board[b].tracker = 0 /\ v.board[b].pub = "active"
          /\ v.board[b].st = st
      BY <2>4, <3>3 DEF Stopped
    <3>5. Elsewhere(u, v, b)  BY <1>2, <2>3, <2>4, <3>4, ElsewhereBoth
    <3>6. BoardOK(v.board[b])  BY <2>11, <3>4 DEF BoardOK
    <3>7. Turned(t, Values, w, b, b, u, v)  BY <3>3, <3>4, <3>5, <3>6 DEF Turned
    <3>8. QED  BY <1>1, <2>6, <2>8, <3>7, TurnDone
  <2>12. QED  BY <1>10, <1>13, <2>9, <2>10, <2>11 DEF Publics
<1>14. QED  BY <1>12, <1>13

LEMMA LoadDone ==
  ASSUME NEW t, t.game \in Games, NEW p, LoadsOf(t.game, p), OneValue(t.game, p.values),
         NEW Q \in SUBSET (1 .. Len(t.game.boards)), t \in Amid(t, Values, p.values, 0, Q)
  PROVE  LoadLoop!Loop(p, t, Len(t.game.boards))
           \in Amid(t, Values, p.values, Len(t.game.boards), Q)
<1> DEFINE n == Len(t.game.boards)
           G == [m \in Nat |-> Amid(t, Values, p.values, m, Q)]
<1>1. n \in Nat  BY BoardsOf
<1>2. t \in G[0]  OBVIOUS
<1>3. ASSUME NEW i \in 1 .. n, NEW u \in G[i - 1]  PROVE LoadBody(p, u, i) \in G[i]
  <2>1. i \in Nat /\ i - 1 \in Nat  BY <1>1
  <2>2. u \in Amid(t, Values, p.values, i - 1, Q)  BY <2>1
  <2>3. PICK v : v = LoadBody(p, u, i)  OBVIOUS
  <2>4. v \in Amid(t, Values, p.values, i, Q)  BY <2>2, <2>3, LoadDoes
  <2>5. QED  BY <2>1, <2>3, <2>4
<1> HIDE DEF G
<1>4. LoadLoop!Loop(p, t, n) \in G[n]  BY <1>1, <1>2, <1>3, LoadLoop!LoopInduction
<1>5. QED  BY <1>1, <1>4 DEF G

\* rc_client_game_mark_ui_to_be_hidden, for one leaderboard, which goes on tracking
HideBody(p, u, b) == IF u.board[b].pub # "tracking" THEN u ELSE Release(u, b)
HideLoop == INSTANCE Loops WITH Body <- HideBody

\* The first m leaderboards have given up their trackers.
Hiding(t, m) ==
  {u \in Frozen(t, Values) :
     /\ Held(u, {}, 0, m)
     /\ \A b \in 1 .. Len(t.game.boards) :
          IF b <= m THEN u.board[b].tracker = 0 ELSE HasTracker(u.board[b])}

LEMMA HideDoes ==
  ASSUME NEW t, t.game \in Games, NEW b \in 1 .. Len(t.game.boards), NEW u \in Hiding(t, b - 1),
         NEW p, NEW v, v = HideBody(p, u, b)
  PROVE  v \in Hiding(t, b)
<1>1. PICK m \in Nat : m = b - 1  OBVIOUS
<1>2. /\ u \in Frozen(t, Values) /\ Held(u, {}, 0, m) /\ HasTracker(u.board[b])
      /\ u.game = t.game
  BY <1>1, FrozenHas DEF Hiding
<1>3. v \in Frozen(t, Values) /\ Held(v, {}, 0, m + 1) /\ Gone(u, v, b)
  <2>1. CASE u.board[b].pub # "tracking"
    <3>1. v = u /\ u.board[b].tracker = 0  BY <1>2, <2>1 DEF HideBody, HasTracker
    <3>2. Held(u, {}, 0, m + 1)  BY <1>2, HeldMore
    <3>3. QED  BY <1>2, <3>1, <3>2 DEF Gone, SameRun, Elsewhere
  <2>2. CASE u.board[b].pub = "tracking"
    <3>1. v = Release(u, b) /\ u.board[b].tracker # 0  BY <1>2, <2>2 DEF HideBody, HasTracker
    <3>2. 0 \in Nat /\ 0 <= Len(t.game.boards) /\ Values \in SUBSET Nat
      BY BoardsOf, FrameAssumption
    <3>3. QED  BY <1>2, <3>1, <3>2, ReleaseStep
  <2>3. QED  BY <2>1, <2>2
<1>4. v.board[b].tracker = 0 /\ \A c \in 1 .. Len(t.game.boards) : c # b => v.board[c] = u.board[c]
  BY <1>2, <1>3 DEF Gone, SameRun, Elsewhere
<1>5. ASSUME NEW c \in 1 .. Len(t.game.boards)
      PROVE  IF c <= b THEN v.board[c].tracker = 0 ELSE HasTracker(v.board[c])
  <2>1. IF c <= b - 1 THEN u.board[c].tracker = 0 ELSE HasTracker(u.board[c])
    BY DEF Hiding
  <2>2. CASE c = b  BY <1>4, <2>2
  <2>3. CASE c # b
    <3>1. c \in Nat /\ b \in Nat /\ v.board[c] = u.board[c]  BY <1>4, <2>3, BoardsOf
    <3>2. QED  BY <2>1, <2>3, <3>1
  <2>4. QED  BY <2>2, <2>3
<1>6. Held(v, {}, 0, b)  BY <1>1, <1>3
<1>7. QED  BY <1>3, <1>5, <1>6 DEF Hiding

LEMMA HideDone ==
  ASSUME NEW t, t.game \in Games, NEW p, t \in Hiding(t, 0)
  PROVE  HideLoop!Loop(p, t, Len(t.game.boards)) \in Hiding(t, Len(t.game.boards))
<1> DEFINE n == Len(t.game.boards)
           G == [m \in Nat |-> Hiding(t, m)]
<1>1. n \in Nat  BY BoardsOf
<1>2. t \in G[0]  OBVIOUS
<1>3. ASSUME NEW i \in 1 .. n, NEW u \in G[i - 1]  PROVE HideBody(p, u, i) \in G[i]
  <2>1. i \in Nat /\ i - 1 \in Nat  BY <1>1
  <2>2. u \in Hiding(t, i - 1)  BY <2>1
  <2>3. PICK v : v = HideBody(p, u, i)  OBVIOUS
  <2>4. v \in Hiding(t, i)  BY <2>2, <2>3, HideDoes
  <2>5. QED  BY <2>1, <2>3, <2>4
<1> HIDE DEF G
<1>4. HideLoop!Loop(p, t, n) \in G[n]  BY <1>1, <1>2, <1>3, HideLoop!LoopInduction
<1>5. QED  BY <1>1, <1>4 DEF G
-----------------------------------------------------------------------------
(* The achievements.                                                        *)

\* Only the achievements and their indicators differ, and no event is out of turn.
OnlyAchs(t, v) ==
  /\ v \in Frozen(v, Values) /\ v.game = t.game /\ v.loaded = t.loaded
  /\ v.hardcore = t.hardcore /\ v.encore = t.encore /\ v.waiting = t.waiting
  /\ v.board = t.board /\ v.trackers = t.trackers /\ v.shownTrackers = t.shownTrackers
  /\ v.outOfTurn = t.outOfTurn

LEMMA OnlyAchsBoth ==
  ASSUME NEW t, NEW u, NEW v, OnlyAchs(t, u), OnlyAchs(u, v)
  PROVE  OnlyAchs(t, v)
BY DEF OnlyAchs

LEMMA FineStays ==
  ASSUME NEW t, NEW v, Fine(t), OnlyAchs(t, v)
  PROVE  Fine(v)
<1>1. v.game = t.game /\ v.board = t.board /\ v.trackers = t.trackers
      /\ v.shownTrackers = t.shownTrackers /\ v.outOfTurn = t.outOfTurn
      /\ v \in Frozen(v, Values)
  BY DEF OnlyAchs
<1>2. \A j : UsersOf(v, j) = UsersOf(t, j)  BY <1>1 DEF UsersOf
<1>3. Settled(v)  BY <1>1, <1>2 DEF Fine, Settled
<1>4. Theirs(v)  BY <1>1 DEF Fine, Theirs
<1>5. Tracked(v)  BY <1>1 DEF Fine, Tracked
<1>6. QED  BY <1>1, <1>3, <1>4, <1>5 DEF Fine

Achs(t) == t.ach \in [t.game.achs -> AchSet]
Unlocks(t) == t.unlocked \in [t.game.achs -> SUBSET {"hardcore", "softcore"}]

LEMMA PrimedIs ==
  ASSUME NEW t, Achs(t)
  PROVE  Primed(t) = {a \in t.game.achs : t.ach[a].state = "active" /\ t.ach[a].trigger = "primed"}
<1> SUFFICES ASSUME NEW a \in t.game.achs
             PROVE  t.ach[a] = [state |-> "active", trigger |-> "primed"]
                      <=> t.ach[a].state = "active" /\ t.ach[a].trigger = "primed"
  BY DEF Primed
<1>1. PICK c : c = t.ach[a]  OBVIOUS
<1>2. c \in AchSet  BY <1>1 DEF Achs
<1>3. c = [state |-> "active", trigger |-> "primed"]
        <=> c.state = "active" /\ c.trigger = "primed"
  BY <1>2 DEF AchSet
<1>4. QED  BY <1>1, <1>3

\* The events of the achievements: what is hidden is shown, and what is to be shown is not.
LEMMA EventsDo ==
  ASSUME NEW t, t \in Frozen(t, Values), NEW hide, NEW show, hide \subseteq t.shown,
         show \cap t.shown = {}, NEW v, v = AchievementEvents(t, hide, show)
  PROVE  /\ OnlyAchs(t, v) /\ v.ach = t.ach /\ v.unlocked = t.unlocked
         /\ v.shown = (t.shown \ hide) \cup show
<1> DEFINE O == t.outOfTurn \cup ({"hide"} \X (hide \ t.shown)) \cup ({"show"} \X (show \cap t.shown))
           S == (t.shown \ hide) \cup show
<1>1. v = [t EXCEPT !.shown = S, !.outOfTurn = O]  BY DEF AchievementEvents
<1>2. O = t.outOfTurn
  <2>1. hide \ t.shown = {} /\ show \cap t.shown = {}  OBVIOUS
  <2>2. QED  BY <2>1
<1> HIDE DEF O, S
<1>3. /\ v.game = t.game /\ v.loaded = t.loaded /\ v.hardcore = t.hardcore
      /\ v.encore = t.encore /\ v.waiting = t.waiting /\ v.board = t.board
      /\ v.trackers = t.trackers /\ v.shownTrackers = t.shownTrackers
      /\ v.outOfTurn = t.outOfTurn /\ v.ach = t.ach /\ v.unlocked = t.unlocked /\ v.shown = S
  BY <1>1, <1>2 DEF Frozen
<1>4. v \in Frozen(v, Values)  BY <1>1, <1>3 DEF Frozen
<1>5. QED  BY <1>3, <1>4 DEF OnlyAchs, S

LEMMA AchsPut ==
  ASSUME NEW t, t \in Frozen(t, Values), NEW A, NEW v, v = [t EXCEPT !.ach = A]
  PROVE  OnlyAchs(t, v) /\ v.ach = A /\ v.unlocked = t.unlocked /\ v.shown = t.shown
<1>1. /\ v.game = t.game /\ v.loaded = t.loaded /\ v.hardcore = t.hardcore
      /\ v.encore = t.encore /\ v.waiting = t.waiting /\ v.board = t.board
      /\ v.trackers = t.trackers /\ v.shownTrackers = t.shownTrackers
      /\ v.outOfTurn = t.outOfTurn /\ v.ach = A /\ v.unlocked = t.unlocked /\ v.shown = t.shown
  BY DEF Frozen
<1>2. v \in Frozen(v, Values)  BY <1>1 DEF Frozen
<1>3. QED  BY <1>1, <1>2 DEF OnlyAchs

\* What the player may still earn in this mode.
Locked(t) ==
  \A a \in t.game.achs :
    t.ach[a].state = "active" => t.loaded /\ (t.encore \/ Bit(t) \notin t.unlocked[a])

LEMMA AwardDoes ==
  ASSUME NEW t, t \in Frozen(t, Values), Achs(t), Unlocks(t), Locked(t), NEW won,
         won \subseteq {a \in t.game.achs : t.ach[a].state = "active"},
         NEW v, v = Award(t, won)
  PROVE  /\ OnlyAchs(t, v) /\ v.shown = t.shown /\ Achs(v) /\ Unlocks(v) /\ Locked(v)
         /\ \A a \in t.game.achs : v.ach[a].trigger = t.ach[a].trigger
         /\ \A a \in t.game.achs \ won : v.ach[a] = t.ach[a]
         /\ \A a \in won : v.ach[a].state = "unlocked"
<1> DEFINE bits == IF t.hardcore THEN {"hardcore", "softcore"} ELSE {"softcore"}
           U == [a \in t.game.achs |-> t.unlocked[a] \cup (IF a \in won THEN bits ELSE {})]
           A == [a \in t.game.achs |->
                   IF a \in won THEN [t.ach[a] EXCEPT !.state = "unlocked"] ELSE t.ach[a]]
           O == t.outOfTurn \cup {<<"award", a>> : a \in
                                   {a \in won : ~t.encore /\ Bit(t) \in t.unlocked[a]}}
<1>1. v = [t EXCEPT !.unlocked = U, !.ach = A, !.outOfTurn = O]  BY DEF Award
<1>2. O = t.outOfTurn
  <2>1. {a \in won : ~t.encore /\ Bit(t) \in t.unlocked[a]} = {}  BY DEF Locked
  <2>2. QED  BY <2>1
<1>3. U \in [t.game.achs -> SUBSET {"hardcore", "softcore"}]  BY DEF Unlocks
<1>4. ASSUME NEW a \in t.game.achs
      PROVE  /\ A[a] \in AchSet /\ A[a].trigger = t.ach[a].trigger
             /\ a \in won => A[a].state = "unlocked"
             /\ a \notin won => A[a] = t.ach[a]
  <2>1. t.ach[a] \in AchSet  BY DEF Achs
  <2>2. QED  BY <2>1 DEF AchSet
<1>5. A \in [t.game.achs -> AchSet]  BY <1>4
<1>6. \A a \in t.game.achs \ won : U[a] = t.unlocked[a]
  <2>1. ASSUME NEW a \in t.game.achs \ won  PROVE U[a] = t.unlocked[a]  OBVIOUS
  <2>2. QED  BY <2>1
<1> HIDE DEF U, A, O
<1>7. /\ v.game = t.game /\ v.loaded = t.loaded /\ v.hardcore = t.hardcore
      /\ v.encore = t.encore /\ v.waiting = t.waiting /\ v.board = t.board
      /\ v.trackers = t.trackers /\ v.shownTrackers = t.shownTrackers
      /\ v.outOfTurn = t.outOfTurn /\ v.ach = A /\ v.unlocked = U /\ v.shown = t.shown
  BY <1>1, <1>2 DEF Frozen
<1>8. v \in Frozen(v, Values)  BY <1>1, <1>7 DEF Frozen
<1>9. Locked(v)
  <2> SUFFICES ASSUME NEW a \in t.game.achs, A[a].state = "active"
               PROVE  t.loaded /\ (t.encore \/ Bit(t) \notin U[a])
    BY <1>7 DEF Locked, Bit
  <2>1. a \notin won /\ t.ach[a].state = "active" /\ U[a] = t.unlocked[a]  BY <1>4, <1>6
  <2>2. QED  BY <2>1 DEF Locked
<1>10. QED  BY <1>3, <1>4, <1>5, <1>7, <1>8, <1>9 DEF OnlyAchs, Achs, Unlocks

LEMMA TriggerIs ==
  ASSUME NEW old \in ActiveTriggers \cup {"triggered"}, NEW verdict \in Verdicts
  PROVE  EvaluateTrigger(old, verdict) \in ActiveTriggers \cup {"triggered"}
BY DEF ActiveTriggers, Verdicts, EvaluateTrigger

\* What is due between the calls for the achievements.
AchsFine(t) == Achs(t) /\ Unlocks(t) /\ Locked(t) /\ t.shown = Primed(t)

\* rc_client_do_frame_process_achievements and rc_client_raise_achievement_events
LEMMA AchievementsDo ==
  ASSUME NEW t, t \in Frozen(t, Values), AchsFine(t), NEW verdicts \in [t.game.achs -> Verdicts],
         NEW v, v = ProcessAchievements(t, verdicts)
  PROVE  OnlyAchs(t, v) /\ AchsFine(v)
<1> DEFINE live == {a \in t.game.achs : t.ach[a].state = "active"}
           M == [a \in t.game.achs |->
                   [t.ach[a] EXCEPT !.trigger = IF a \in live
                      THEN EvaluateTrigger(t.ach[a].trigger, verdicts[a]) ELSE t.ach[a].trigger]]
<1>1. PICK u : u = [t EXCEPT !.ach = M]  OBVIOUS
<1>2. PICK won : won = {a \in live : u.ach[a].trigger = "triggered"}  OBVIOUS
<1>3. PICK x : x = Award(u, won)  OBVIOUS
<1>4. v = AchievementEvents(x, Primed(t) \ Primed(u), Primed(u) \ Primed(t))
  <2>1. v = AchievementEvents(
              Award([t EXCEPT !.ach = M],
                    {a \in live : [t EXCEPT !.ach = M].ach[a].trigger = "triggered"}),
              Primed(t) \ Primed([t EXCEPT !.ach = M]), Primed([t EXCEPT !.ach = M]) \ Primed(t))
    BY Zenon DEF ProcessAchievements
  <2> HIDE DEF M, live
  <2>2. QED  BY <1>1, <1>2, <1>3, <2>1, Zenon
<1>5. ASSUME NEW a \in t.game.achs
      PROVE  M[a] \in AchSet /\ M[a].state = t.ach[a].state
  <2>1. t.ach[a] \in AchSet  BY DEF AchsFine, Achs
  <2>2. t.ach[a].trigger \in ActiveTriggers \cup {"triggered"}  BY <2>1 DEF AchSet
  <2>3. PICK e : e = IF a \in live THEN EvaluateTrigger(t.ach[a].trigger, verdicts[a])
                     ELSE t.ach[a].trigger
    OBVIOUS
  <2>4. e \in ActiveTriggers \cup {"triggered"}  BY <2>2, <2>3, TriggerIs
  <2>5. M[a] = [t.ach[a] EXCEPT !.trigger = e]  BY <2>3
  <2> HIDE DEF M
  <2>6. QED  BY <2>1, <2>4, <2>5 DEF AchSet
<1>6. M \in [t.game.achs -> AchSet]  BY <1>5
<1> HIDE DEF M
<1>7. OnlyAchs(t, u) /\ u.ach = M /\ u.unlocked = t.unlocked /\ u.shown = t.shown
  BY <1>1, AchsPut
<1>8. u.game = t.game /\ u \in Frozen(u, Values)  BY <1>7 DEF OnlyAchs
<1>9. Achs(u) /\ Unlocks(u) /\ Locked(u)
  BY <1>5, <1>6, <1>7, <1>8 DEF AchsFine, Achs, Unlocks, Locked, OnlyAchs, Bit
<1>10. won \subseteq {a \in u.game.achs : u.ach[a].state = "active"}
  BY <1>2, <1>5, <1>7, <1>8
<1>11. /\ OnlyAchs(u, x) /\ x.shown = u.shown /\ Achs(x) /\ Unlocks(x) /\ Locked(x)
       /\ \A a \in u.game.achs : x.ach[a].trigger = u.ach[a].trigger
       /\ \A a \in u.game.achs \ won : x.ach[a] = u.ach[a]
       /\ \A a \in won : x.ach[a].state = "unlocked"
  BY <1>3, <1>8, <1>9, <1>10, AwardDoes
<1>12. x.game = t.game /\ x \in Frozen(x, Values)  BY <1>8, <1>11 DEF OnlyAchs
<1>13. Primed(x) = Primed(u)
  <2>1. \A a \in t.game.achs :
          x.ach[a].state = "active" /\ x.ach[a].trigger = "primed"
            <=> u.ach[a].state = "active" /\ u.ach[a].trigger = "primed"
    <3> SUFFICES ASSUME NEW a \in t.game.achs
                 PROVE  x.ach[a].state = "active" /\ x.ach[a].trigger = "primed"
                          <=> u.ach[a].state = "active" /\ u.ach[a].trigger = "primed"
      OBVIOUS
    <3>1. CASE a \in won  BY <1>2, <1>8, <1>11, <3>1
    <3>2. CASE a \notin won  BY <1>8, <1>11, <3>2
    <3>3. QED  BY <3>1, <3>2
  <2>2. QED  BY <1>8, <1>9, <1>11, <1>12, <2>1, PrimedIs, ZenonT(60)
<1>14. x.shown = Primed(t)  BY <1>7, <1>11 DEF AchsFine
<1> DEFINE hide == Primed(t) \ Primed(u)
           show == Primed(u) \ Primed(t)
<1>15. hide \subseteq x.shown /\ show \cap x.shown = {} /\ (x.shown \ hide) \cup show = Primed(u)
  BY <1>14
<1> HIDE DEF hide, show
<1>16. v = AchievementEvents(x, hide, show)  BY <1>4 DEF hide, show
<1>17. /\ OnlyAchs(x, v) /\ v.ach = x.ach /\ v.unlocked = x.unlocked
       /\ v.shown = (x.shown \ hide) \cup show
  BY <1>12, <1>15, <1>16, EventsDo
<1>18. Primed(v) = Primed(x)  BY <1>17 DEF Primed, OnlyAchs
<1>19. Achs(v) /\ Unlocks(v) /\ Locked(v)
  BY <1>11, <1>17 DEF Achs, Unlocks, Locked, OnlyAchs, Bit
<1>20. OnlyAchs(t, v)  BY <1>7, <1>11, <1>17, OnlyAchsBoth
<1>21. QED  BY <1>13, <1>15, <1>17, <1>18, <1>19, <1>20 DEF AchsFine
\* The indicators follow what became of the achievements of t in u.
Followed(t, u, v) == v = AchievementEvents(u, Primed(t) \ Primed(u), Primed(u) \ Primed(t))

LEMMA Moved ==
  ASSUME NEW t, Achs(t), t.shown = Primed(t), NEW u, OnlyAchs(t, u), u.shown = t.shown,
         Achs(u), Unlocks(u), NEW v, Followed(t, u, v)
  PROVE  /\ OnlyAchs(t, v) /\ v.ach = u.ach /\ v.unlocked = u.unlocked
         /\ Achs(v) /\ Unlocks(v) /\ v.shown = Primed(v)
<1>1. PICK hide : hide = Primed(t) \ Primed(u)  OBVIOUS
<1>2. PICK show : show = Primed(u) \ Primed(t)  OBVIOUS
<1>3. v = AchievementEvents(u, hide, show)  BY <1>1, <1>2 DEF Followed
<1>4. (u.shown \ hide) \cup show = Primed(u)  BY <1>1, <1>2
<1>5. /\ hide \subseteq u.shown
      /\ show \cap u.shown = {}
  BY <1>1, <1>2
<1>6. u \in Frozen(u, Values)  BY DEF OnlyAchs
<1>7. /\ OnlyAchs(u, v) /\ v.ach = u.ach /\ v.unlocked = u.unlocked
      /\ v.shown = (u.shown \ hide) \cup show
  BY <1>3, <1>5, <1>6, EventsDo
<1>8. OnlyAchs(t, v)  BY <1>7, OnlyAchsBoth
<1>9. v.game = u.game  BY <1>7 DEF OnlyAchs
<1>10. Primed(v) = Primed(u)  BY <1>7, <1>9 DEF Primed
<1>11. Achs(v) /\ Unlocks(v)  BY <1>7, <1>9 DEF Achs, Unlocks
<1>12. QED  BY <1>4, <1>7, <1>8, <1>10, <1>11

LEMMA ToggleIs ==
  ASSUME NEW t, Achs(t), NEW a \in t.game.achs, NEW bit, NEW c, c = ToggleAchievement(t, a, bit)
  PROVE  /\ c \in AchSet
         /\ c.state = "active" => t.encore \/ bit \notin t.unlocked[a]
         /\ c.state = "active" /\ c.trigger = "primed"
              => t.ach[a].state = "active" /\ t.ach[a].trigger = "primed"
<1>1. PICK d : d = t.ach[a]  OBVIOUS
<1>2. /\ d \in AchSet /\ d.state \in {"active", "inactive", "unlocked"}
      /\ d.trigger \in ActiveTriggers \cup {"triggered"}
  BY <1>1 DEF Achs, AchSet
<1>3. CASE bit \notin t.unlocked[a]
  <2>1. c = IF d.state \in {"unlocked", "inactive"}
            THEN [state |-> "active", trigger |-> "waiting"] ELSE d
    BY <1>1, <1>3 DEF ToggleAchievement
  <2>2. QED  BY <1>1, <1>2, <1>3, <2>1 DEF AchSet, ActiveTriggers
<1>4. CASE bit \in t.unlocked[a]
  <2>1. c = IF d.state \in {"active", "inactive"} /\ ~t.encore
            THEN [state |-> "unlocked",
                  trigger |-> IF d.trigger \in ActiveTriggers THEN "triggered" ELSE d.trigger]
            ELSE d
    BY <1>1, <1>4 DEF ToggleAchievement
  <2>2. CASE d.state \in {"active", "inactive"} /\ ~t.encore
    BY <1>2, <2>1, <2>2 DEF AchSet
  <2>3. CASE ~(d.state \in {"active", "inactive"} /\ ~t.encore)
    BY <1>1, <1>2, <2>1, <2>3
  <2>4. QED  BY <2>2, <2>3
<1>5. QED  BY <1>3, <1>4

\* rc_client_subset_toggle_hardcore_achievements, for the mode the client is in.
LEMMA ToggleDoes ==
  ASSUME NEW t, t \in Frozen(t, Values), Achs(t), Unlocks(t), t.shown = Primed(t), t.loaded,
         NEW bit, t.encore \/ bit = Bit(t), NEW v, v = ToggleAchievements(t, bit)
  PROVE  OnlyAchs(t, v) /\ AchsFine(v)
<1> DEFINE A == [a \in t.game.achs |-> ToggleAchievement(t, a, bit)]
<1>1. PICK u : u = [t EXCEPT !.ach = A]  OBVIOUS
<1>2. v = AchievementEvents(u, Primed(t) \ Primed(u), {})
  BY <1>1, Zenon DEF ToggleAchievements
<1>3. ASSUME NEW a \in t.game.achs
      PROVE  /\ A[a] \in AchSet
             /\ A[a].state = "active" => t.encore \/ bit \notin t.unlocked[a]
             /\ A[a].state = "active" /\ A[a].trigger = "primed"
                  => t.ach[a].state = "active" /\ t.ach[a].trigger = "primed"
  <2>1. A[a] = ToggleAchievement(t, a, bit)  OBVIOUS
  <2> HIDE DEF A
  <2>2. QED  BY <2>1, ToggleIs
<1>4. A \in [t.game.achs -> AchSet]  BY <1>3
<1> HIDE DEF A
<1>5. OnlyAchs(t, u) /\ u.ach = A  BY <1>1, AchsPut
<1>6. u.game = t.game  BY <1>5 DEF OnlyAchs
<1>7. Achs(u)  BY <1>4, <1>5, <1>6 DEF Achs
<1>8. Primed(u) \subseteq Primed(t)  BY <1>3, <1>5, <1>6, <1>7, PrimedIs
<1>9. Primed(u) \ Primed(t) = {}  BY <1>8
<1>10. /\ OnlyAchs(t, v) /\ v.ach = A /\ v.unlocked = t.unlocked
       /\ Achs(v) /\ Unlocks(v) /\ v.shown = Primed(v)
  <2>1. Followed(t, u, v)  BY <1>2, <1>9 DEF Followed
  <2>2. u.unlocked = t.unlocked /\ u.shown = t.shown  BY <1>1, AchsPut
  <2>3. Unlocks(u)  BY <1>6, <2>2 DEF Unlocks
  <2>4. QED  BY <1>5, <1>7, <2>1, <2>2, <2>3, Moved
<1>11. Locked(v)
  <2>1. v.game = t.game /\ v.encore = t.encore /\ v.loaded = t.loaded /\ v.hardcore = t.hardcore
    BY <1>10 DEF OnlyAchs
  <2>2. Bit(v) = Bit(t)  BY <2>1 DEF Bit
  <2>3. QED  BY <1>3, <1>10, <2>1, <2>2 DEF Locked
<1>12. QED  BY <1>10, <1>11 DEF AchsFine

\* The triggers of what is active are set anew: rc_client_reset_all,
\* rc_client_deserialize_progress.
LEMMA TriggersDo ==
  ASSUME NEW t, AchsFine(t), NEW u, OnlyAchs(t, u), Achs(u), u.unlocked = t.unlocked,
         u.shown = t.shown, \A a \in t.game.achs : u.ach[a].state = t.ach[a].state,
         NEW v, Followed(t, u, v)
  PROVE  OnlyAchs(t, v) /\ AchsFine(v)
<1>1. Achs(t) /\ t.shown = Primed(t)  BY DEF AchsFine
<1>2. u.game = t.game  BY DEF OnlyAchs
<1>3. Unlocks(u)  BY <1>2 DEF Unlocks, AchsFine
<1>4. /\ OnlyAchs(t, v) /\ v.ach = u.ach /\ v.unlocked = u.unlocked
      /\ Achs(v) /\ Unlocks(v) /\ v.shown = Primed(v)
  BY <1>1, <1>3, Moved
<1>5. v.game = t.game /\ v.encore = t.encore /\ v.loaded = t.loaded /\ v.hardcore = t.hardcore
  BY <1>4 DEF OnlyAchs
<1>6. Bit(v) = Bit(t)  BY <1>5 DEF Bit
<1>7. Locked(v)  BY <1>4, <1>5, <1>6 DEF Locked, AchsFine
<1>8. QED  BY <1>4, <1>7 DEF AchsFine
-----------------------------------------------------------------------------
(* What the calls do.  Good is what holds between them.                     *)

\* Leaderboards are processed in hardcore, and when a game is loaded.
Modal(t) ==
  t.hardcore = FALSE \/ t.loaded = FALSE =>
    \A b \in 1 .. Len(t.game.boards) : t.board[b].pub = "inactive"
Modes(t) ==
  t.loaded \in BOOLEAN /\ t.hardcore \in BOOLEAN /\ t.encore \in BOOLEAN /\ t.waiting \in BOOLEAN

Good(t) == Fine(t) /\ AchsFine(t) /\ Modal(t) /\ Modes(t)

LEMMA FrameIs ==
  ASSUME NEW t, NEW verdicts, NEW p, NEW a, a = ProcessAchievements(t, verdicts),
         NEW v, v = Frame(t, verdicts, p.conds, p.vals)
  PROVE  v = IF a.hardcore THEN RaiseTrackerEvents(FrameLoop!Loop(p, a, Len(a.game.boards))) ELSE a
<1>1. Frame(t, verdicts, p.conds, p.vals) =
        LET x == ProcessAchievements(t, verdicts)
        IN  IF x.hardcore THEN RaiseTrackerEvents(FrameLoop!Loop(p, x, Len(x.game.boards))) ELSE x
  BY Zenon DEF Frame, AllBoards, Indices, FrameBody, FoldLeft, MapThenFoldSet, FrameLoop!Loop,
               FrameLoop!FoldLeft, FrameLoop!MapThenFoldSet, Max, FrameLoop!Max
<1>2. QED  BY <1>1

LEMMA StopIs ==
  ASSUME NEW t, NEW p
  PROVE  DeactivateLeaderboards(t) = StopLoop!Loop(p, t, Len(t.game.boards))
BY Zenon DEF DeactivateLeaderboards, AllBoards, Indices, StopBody, FoldLeft, MapThenFoldSet,
             StopLoop!Loop, StopLoop!FoldLeft, StopLoop!MapThenFoldSet, Max, StopLoop!Max

\* What the calls make of the achievements.
PutAchs(t, A) == [t EXCEPT !.ach = A]
ResetAchs(t) ==
  [a \in t.game.achs |->
     [t.ach[a] EXCEPT !.trigger = IF t.ach[a].state = "active" THEN "waiting"
                                  ELSE t.ach[a].trigger]]
LoadedAchs(t, triggers) ==
  [a \in t.game.achs |->
     [t.ach[a] EXCEPT !.trigger = IF a \in {e \in t.game.achs : t.ach[e].state = "active"}
                                  THEN triggers[a] ELSE t.ach[a].trigger]]

LEMMA ResetIs ==
  ASSUME NEW t, NEW p, NEW a, a = PutAchs(t, ResetAchs(t)),
         NEW x, x = AchievementEvents(a, Primed(t), {}), NEW v, v = ResetAll(t)
  PROVE  v = RaiseTrackerEvents(ResetLoop!Loop(p, x, Len(x.game.boards)))
<1>1. ResetAll(t) =
        LET c == PutAchs(t, ResetAchs(t))
            y == AchievementEvents(c, Primed(t), {})
        IN  RaiseTrackerEvents(ResetLoop!Loop(p, y, Len(y.game.boards)))
  BY Zenon DEF ResetAll, PutAchs, ResetAchs, AllBoards, Indices, ResetBody, FoldLeft,
               MapThenFoldSet, ResetLoop!Loop, ResetLoop!FoldLeft, ResetLoop!MapThenFoldSet, Max,
               ResetLoop!Max
<1>2. QED  BY <1>1

LEMMA HiddenIs ==
  ASSUME NEW t, NEW p, NEW x, x = AchievementEvents(t, Primed(t), {}), NEW v, v = Hidden(t)
  PROVE  v = RaiseTrackerEvents(HideLoop!Loop(p, x, Len(x.game.boards)))
<1>1. Hidden(t) =
        LET y == AchievementEvents(t, Primed(t), {})
        IN  RaiseTrackerEvents(HideLoop!Loop(p, y, Len(y.game.boards)))
  BY Zenon DEF Hidden, AllBoards, Indices, HideBody, FoldLeft, MapThenFoldSet,
               HideLoop!Loop, HideLoop!FoldLeft, HideLoop!MapThenFoldSet, Max, HideLoop!Max
<1>2. QED  BY <1>1

LEMMA DeserializedIs ==
  ASSUME NEW t, NEW p, NEW triggers, NEW a, a = PutAchs(t, LoadedAchs(t, triggers)),
         NEW x, Followed(t, a, x), NEW v, v = Deserialized(t, triggers, p.states, p.values)
  PROVE  v = RaiseTrackerEvents(LoadLoop!Loop(p, x, Len(x.game.boards)))
<1>1. Deserialized(t, triggers, p.states, p.values) =
        LET c == PutAchs(t, LoadedAchs(t, triggers))
            y == AchievementEvents(c, Primed(t) \ Primed(c), Primed(c) \ Primed(t))
        IN  RaiseTrackerEvents(LoadLoop!Loop(p, y, Len(y.game.boards)))
  BY Zenon DEF Deserialized, PutAchs, LoadedAchs, AllBoards, Indices, LoadBody, FoldLeft,
               MapThenFoldSet, LoadLoop!Loop, LoadLoop!FoldLeft, LoadLoop!MapThenFoldSet, Max,
               LoadLoop!Max
<1>2. QED  BY <1>1 DEF Followed

LEMMA AchsStay ==
  ASSUME NEW t, NEW v, AchsFine(t), Besides(t, v)
  PROVE  AchsFine(v)
<1>1. /\ v.game = t.game /\ v.loaded = t.loaded /\ v.hardcore = t.hardcore
      /\ v.encore = t.encore /\ v.unlocked = t.unlocked /\ v.ach = t.ach /\ v.shown = t.shown
  BY DEF Besides
<1>2. Primed(v) = Primed(t) /\ Bit(v) = Bit(t)  BY <1>1 DEF Primed, Bit
<1>3. Locked(v)  BY <1>1, <1>2 DEF Locked, AchsFine
<1>4. QED  BY <1>1, <1>2, <1>3 DEF AchsFine, Achs, Unlocks

\* How a call ends that went through the leaderboards.
LEMMA Closed ==
  ASSUME NEW t, AchsFine(t), Modes(t), NEW v, Fine(v), Besides(t, v),
         t.hardcore = FALSE \/ t.loaded = FALSE =>
           \A b \in 1 .. Len(t.game.boards) : v.board[b].pub = "inactive"
  PROVE  Good(v)
<1>1. AchsFine(v)  BY AchsStay
<1>2. v.game = t.game /\ v.hardcore = t.hardcore /\ v.loaded = t.loaded /\ v.encore = t.encore
      /\ v.waiting = t.waiting
  BY DEF Besides
<1>3. Modal(v) /\ Modes(v)  BY <1>2 DEF Modal, Modes
<1>4. QED  BY <1>1, <1>3 DEF Good

\* The values are among those there may be.
Proper(u) == \A b \in 1 .. Len(u.game.boards) : u.board[b].value \in Values

LEMMA AmidEnds ==
  ASSUME NEW t, Fine(t), NEW X, NEW w, NEW Q, NEW u \in Amid(t, X, w, Len(t.game.boards), Q),
         Proper(u), NEW v, v = RaiseTrackerEvents(u)
  PROVE  Fine(v) /\ Besides(t, v) /\ v.board = u.board
<1>1. t.game \in Games  BY DEF Fine
<1>2. t.outOfTurn = {}  BY DEF Fine
<1>3. u.game = t.game  BY FrozenHas DEF Amid
<1>4. \A b \in 1 .. Len(t.game.boards) : u.board[b].value \in Values  BY <1>3 DEF Proper
<1>5. QED  BY <1>1, <1>2, <1>4, AmidFine

\* rc_client_do_frame
LEMMA FrameGood ==
  ASSUME NEW t, Good(t), t.loaded, NEW p, p.vals \in [Definitions(t.game) -> Values],
         NEW verdicts \in [t.game.achs -> Verdicts],
         NEW v, v = Frame(t, verdicts, p.conds, p.vals),
         \A b \in 1 .. Len(t.game.boards) : v.board[b].value \in Values
  PROVE  Good(v)
<1>1. PICK a : a = ProcessAchievements(t, verdicts)  OBVIOUS
<1>2. v = IF a.hardcore THEN RaiseTrackerEvents(FrameLoop!Loop(p, a, Len(a.game.boards))) ELSE a
  BY <1>1, FrameIs
<1>3. Fine(t) /\ AchsFine(t) /\ Modal(t) /\ Modes(t) /\ t \in Frozen(t, Values)
  BY DEF Good, Fine
<1>4. OnlyAchs(t, a) /\ AchsFine(a)  BY <1>1, <1>3, AchievementsDo
<1>5. Fine(a)  BY <1>3, <1>4, FineStays
<1>6. a.game = t.game /\ a.loaded = t.loaded /\ a.hardcore = t.hardcore /\ a.encore = t.encore
      /\ a.waiting = t.waiting /\ a.board = t.board
  BY <1>4 DEF OnlyAchs
<1>7. Modes(a) /\ Modal(a)  BY <1>3, <1>6 DEF Modes, Modal
<1>8. CASE ~a.hardcore
  <2>1. v = a  BY <1>2, <1>8
  <2>2. QED  BY <1>4, <1>5, <1>7, <2>1 DEF Good
<1>9. CASE a.hardcore
  <2>1. PICK w : w = FrameValues(a, p.vals)  OBVIOUS
  <2>2. PICK u : u = FrameLoop!Loop(p, a, Len(a.game.boards))  OBVIOUS
  <2>3. a.game \in Games  BY <1>5 DEF Fine
  <2>4. a \in Amid(a, Nat, w, 0, {})
    <3>1. Values \subseteq Nat  BY FrameAssumption
    <3>2. \A b \in {} : a.board[b].pub = "inactive"  OBVIOUS
    <3>3. QED  BY <1>5, <3>1, <3>2, FineAmid
  <2>5. p.vals \in [Definitions(a.game) -> Values]  BY <1>6
  <2>6. u \in Amid(a, Nat, w, Len(a.game.boards), {})  BY <2>1, <2>2, <2>3, <2>4, <2>5, FrameDone
  <2>7. v = RaiseTrackerEvents(u)  BY <1>2, <1>9, <2>2
  <2>8. u \in Frozen(a, Nat)  BY <2>6 DEF Amid
  <2>9. Counted(u)  BY <2>6 DEF Amid, Held
  <2>10. v.board = u.board  BY <2>7, <2>8, <2>9, RaiseDoes
  <2>11. u.game = a.game  BY <2>8, FrozenHas
  <2>12. Fine(v) /\ Besides(a, v)
    <3>1. Proper(u)  BY <1>6, <2>10, <2>11 DEF Proper
    <3>2. PICK X : X = Nat  OBVIOUS
    <3>3. PICK Q : Q = {}  OBVIOUS
    <3>4. u \in Amid(a, X, w, Len(a.game.boards), Q)  BY <2>6, <3>2, <3>3
    <3>5. QED  BY <1>5, <2>7, <3>1, <3>4, AmidEnds
  <2>13. ~(a.hardcore = FALSE \/ a.loaded = FALSE)  BY <1>3, <1>6, <1>9 DEF Modes
  <2>14. QED  BY <1>4, <1>7, <2>12, <2>13, Closed
<1>10. QED  BY <1>8, <1>9

\* rc_client_activate_leaderboards
LEMMA ActivateDoes ==
  ASSUME NEW t, Fine(t), NEW v, v = ActivateLeaderboards(t)
  PROVE  Fine(v) /\ Besides(t, v) /\ (~t.hardcore => v.board = t.board)
<1> DEFINE B == [b \in DOMAIN t.game.boards |->
                   IF t.board[b].pub = "inactive"
                   THEN [t.board[b] EXCEPT !.pub = "active", !.st = "waiting", !.value = 0]
                   ELSE t.board[b]]
           N == 1 .. Len(t.game.boards)
<1>1. CASE ~t.hardcore
  <2>1. v = t  BY <1>1 DEF ActivateLeaderboards
  <2>2. QED  BY <2>1 DEF Besides
<1>2. CASE t.hardcore
  <2>1. v = [t EXCEPT !.board = B]  BY <1>2, Zenon DEF ActivateLeaderboards
  <2>2. /\ t \in Frozen(t, Values) /\ t.game \in Games /\ Settled(t) /\ Theirs(t) /\ Tracked(t)
        /\ t.outOfTurn = {} /\ Len(t.trackers) <= 2 * Len(t.game.boards)
        /\ \A b \in N : BoardOK(t.board[b])
    BY DEF Fine
  <2>3. DOMAIN t.game.boards = N  BY <2>2, BoardsOf
  <2>4. t.board \in [N -> BoardSet(Values)]  BY <2>2, FrozenHas
  <2>5. ASSUME NEW b \in N
        PROVE  /\ B[b] \in BoardSet(Values) /\ BoardOK(B[b]) /\ B[b].tracker = t.board[b].tracker
               /\ B[b].tracker # 0 => B[b].value = t.board[b].value
    <3>1. t.board[b] \in BoardSet(Values) /\ BoardOK(t.board[b])  BY <2>2, <2>4
    <3>2. PICK c : c = t.board[b]  OBVIOUS
    <3>3. B[b] = IF c.pub = "inactive"
                 THEN [c EXCEPT !.pub = "active", !.st = "waiting", !.value = 0] ELSE c
      BY <2>3, <3>2
    <3> HIDE DEF B
    <3>4. CASE c.pub = "inactive"
      <4>1. PICK d : d = [c EXCEPT !.pub = "active", !.st = "waiting", !.value = 0]  OBVIOUS
      <4>2. 0 \in Values  BY FrameAssumption
      <4>3. /\ d \in BoardSet(Values) /\ d.pub = "active" /\ d.st = "waiting"
            /\ d.tracker = c.tracker
        BY <3>1, <3>2, <4>1, <4>2 DEF BoardSet, Publics, Runtimes
      <4>4. c.tracker = 0  BY <3>1, <3>2, <3>4 DEF BoardOK
      <4>5. B[b] = d  BY <3>3, <3>4, <4>1
      <4>6. QED  BY <3>2, <4>3, <4>4, <4>5 DEF BoardOK
    <3>5. CASE c.pub # "inactive"
      <4>1. B[b] = t.board[b]  BY <3>2, <3>3, <3>5, ZenonT(60)
      <4>2. QED  BY <3>1, <4>1
    <3>6. QED  BY <3>4, <3>5
  <2>6. B \in [N -> BoardSet(Values)]  BY <2>3, <2>5
  <2> HIDE DEF B
  <2>7. /\ Besides(t, v) /\ v.game = t.game /\ v.board = B /\ v.trackers = t.trackers
        /\ v.shownTrackers = t.shownTrackers /\ v.outOfTurn = t.outOfTurn
    BY <2>1, <2>2 DEF Frozen, Besides
  <2>8. v \in Frozen(v, Values)  BY <2>1, <2>2, <2>6, <2>7 DEF Frozen
  <2>9. ASSUME NEW j  PROVE UsersOf(v, j) = UsersOf(t, j)
    <3>1. \A b \in N : v.board[b].tracker = t.board[b].tracker  BY <2>5, <2>7
    <3>2. QED  BY <2>7, <3>1 DEF UsersOf
  <2>10. Settled(v)  BY <2>2, <2>7, <2>9 DEF Settled
  <2>11. Theirs(v)
    <3> SUFFICES ASSUME NEW b \in N
                 PROVE  /\ B[b].tracker \in 0 .. Len(t.trackers)
                        /\ B[b].tracker # 0 =>
                             t.trackers[B[b].tracker].val = t.game.boards[b].val
      BY <2>7 DEF Theirs
    <3>1. B[b].tracker = t.board[b].tracker  BY <2>5
    <3>2. QED  BY <2>2, <3>1 DEF Theirs
  <2>12. Tracked(v)  BY <2>2, <2>5, <2>7 DEF Tracked
  <2>13. QED  BY <1>2, <2>2, <2>5, <2>7, <2>8, <2>10, <2>11, <2>12 DEF Fine
<1>3. QED  BY <1>1, <1>2
\* The leaderboards that a call leaves alone in the mode the client is in.
Idle(t) == IF t.hardcore = FALSE \/ t.loaded = FALSE THEN 1 .. Len(t.game.boards) ELSE {}

\* A call that went through the leaderboards, which have the values there may be.
LEMMA IdleGood ==
  ASSUME NEW t, Fine(t), AchsFine(t), Modes(t), NEW w, NEW Q, Idle(t) \subseteq Q,
         NEW u \in Amid(t, Values, w, Len(t.game.boards), Q), NEW v, v = RaiseTrackerEvents(u)
  PROVE  Good(v) /\ Besides(t, v)
<1>1. u \in Frozen(t, Values)  BY DEF Amid
<1>2. u.game = t.game /\ u.board \in [1 .. Len(t.game.boards) -> BoardSet(Values)]
  BY <1>1, FrozenHas
<1>3. Proper(u)  BY <1>2 DEF Proper, BoardSet
<1>4. Fine(v) /\ Besides(t, v) /\ v.board = u.board  BY SMTT(60), <1>3, AmidEnds
<1>5. ASSUME t.hardcore = FALSE \/ t.loaded = FALSE, NEW b \in 1 .. Len(t.game.boards)
      PROVE  v.board[b].pub = "inactive"
  <2>1. b \in Q  BY <1>5 DEF Idle
  <2>2. QED  BY <1>4, <2>1 DEF Amid
<1>6. QED  BY <1>4, <1>5, Closed

LEMMA IdleAmid ==
  ASSUME NEW t, Fine(t), Modal(t), NEW w, NEW Q, Q = Idle(t)
  PROVE  t \in Amid(t, Values, w, 0, Q) /\ Q \in SUBSET (1 .. Len(t.game.boards))
<1>1. \A b \in Q : t.board[b].pub = "inactive"  BY DEF Idle, Modal
<1>2. Values \subseteq Values  OBVIOUS
<1>3. t \in Amid(t, Values, w, 0, Q)  BY <1>1, <1>2, FineAmid
<1>4. Q \in SUBSET (1 .. Len(t.game.boards))  BY DEF Idle
<1>5. QED  BY <1>3, <1>4

\* The call has changed the achievements, and goes on.
LEMMA AchsGood ==
  ASSUME NEW t, Good(t), NEW v, OnlyAchs(t, v), AchsFine(v)
  PROVE  Good(v)
<1>1. Fine(v)  BY FineStays DEF Good
<1>2. Modal(v) /\ Modes(v)  BY DEF Good, OnlyAchs, Modal, Modes
<1>3. QED  BY <1>1, <1>2 DEF Good

\* The flags of the client are set.
LEMMA FlagsFine ==
  ASSUME NEW t, Fine(t), NEW v,
         v.game = t.game, v.board = t.board, v.trackers = t.trackers,
         v.shownTrackers = t.shownTrackers, v.outOfTurn = t.outOfTurn, v \in Frozen(v, Values)
  PROVE  Fine(v)
<1>1. \A j : UsersOf(v, j) = UsersOf(t, j)  BY DEF UsersOf
<1>2. Settled(v)  BY <1>1 DEF Fine, Settled
<1>3. Theirs(v)  BY DEF Fine, Theirs
<1>4. Tracked(v)  BY DEF Fine, Tracked
<1>5. QED  BY <1>2, <1>3, <1>4 DEF Fine

LEMMA WaitingGood ==
  ASSUME NEW t, Good(t), NEW waits \in BOOLEAN, NEW v, v = [t EXCEPT !.waiting = waits]
  PROVE  Good(v)
<1>1. t \in Frozen(t, Values)  BY DEF Good, Fine
<1>2. /\ v.game = t.game /\ v.loaded = t.loaded /\ v.hardcore = t.hardcore
      /\ v.encore = t.encore /\ v.waiting = waits /\ v.unlocked = t.unlocked /\ v.ach = t.ach
      /\ v.board = t.board /\ v.trackers = t.trackers /\ v.shown = t.shown
      /\ v.shownTrackers = t.shownTrackers /\ v.outOfTurn = t.outOfTurn
  BY <1>1 DEF Frozen
<1>3. v \in Frozen(v, Values)  BY <1>1, <1>2 DEF Frozen
<1>4. Fine(v)  BY <1>2, <1>3, FlagsFine DEF Good
<1>5. Primed(v) = Primed(t) /\ Bit(v) = Bit(t)  BY <1>2 DEF Primed, Bit
<1>6. AchsFine(v)  BY <1>2, <1>5 DEF Good, AchsFine, Achs, Unlocks, Locked
<1>7. Modal(v) /\ Modes(v)  BY <1>2 DEF Good, Modal, Modes
<1>8. QED  BY <1>4, <1>6, <1>7 DEF Good

\* rc_client_reset_all
LEMMA ResetGood ==
  ASSUME NEW t, Good(t), NEW v, v = ResetAll(t)
  PROVE  Good(v)
<1> DEFINE A == ResetAchs(t)
<1>1. PICK p : p = 0  OBVIOUS
<1>2. PICK a, x : a = PutAchs(t, A) /\ x = AchievementEvents(a, Primed(t), {})  OBVIOUS
<1>3. /\ Fine(t) /\ AchsFine(t) /\ Achs(t) /\ t \in Frozen(t, Values)
  BY DEF Good, Fine, AchsFine
<1>4. ASSUME NEW c \in t.game.achs
      PROVE  /\ A[c] \in AchSet /\ A[c].state = t.ach[c].state
             /\ A[c].state = "active" => A[c].trigger # "primed"
  <2>1. PICK d : d = t.ach[c]  OBVIOUS
  <2>2. d \in AchSet  BY <1>3, <2>1 DEF Achs
  <2>3. A[c] = [d EXCEPT !.trigger = IF d.state = "active" THEN "waiting" ELSE d.trigger]
    BY <2>1 DEF ResetAchs
  <2> HIDE DEF A
  <2>4. QED  BY <2>1, <2>2, <2>3 DEF AchSet, ActiveTriggers
<1>5. A \in [t.game.achs -> AchSet]  BY <1>4 DEF ResetAchs
<1> HIDE DEF A
<1>6. OnlyAchs(t, a) /\ a.ach = A /\ a.unlocked = t.unlocked /\ a.shown = t.shown
  BY <1>2, <1>3, AchsPut DEF PutAchs
<1>7. a.game = t.game  BY <1>6 DEF OnlyAchs
<1>8. Achs(a)  BY <1>5, <1>6, <1>7 DEF Achs
<1>9. Primed(a) = {}  BY <1>4, <1>6, <1>7, <1>8, PrimedIs
<1>10. Followed(t, a, x)
  <2>1. Primed(t) \ Primed(a) = Primed(t) /\ Primed(a) \ Primed(t) = {}  BY <1>9
  <2>2. QED  BY <1>2, <2>1 DEF Followed
<1>11. OnlyAchs(t, x) /\ AchsFine(x)  BY <1>3, <1>4, <1>6, <1>7, <1>8, <1>10, TriggersDo
<1>12. Good(x)  BY <1>11, AchsGood
<1>13. Fine(x) /\ AchsFine(x) /\ Modal(x) /\ Modes(x) /\ x.game \in Games
  BY <1>12 DEF Good, Fine
<1>14. PICK u : u = ResetLoop!Loop(p, x, Len(x.game.boards))  OBVIOUS
<1>15. PICK Q : Q = Idle(x)  OBVIOUS
<1>16. x \in Amid(x, Values, p, 0, Q) /\ Q \in SUBSET (1 .. Len(x.game.boards))
  BY <1>13, <1>15, IdleAmid
<1>17. u \in Amid(x, Values, p, Len(x.game.boards), Q)  BY <1>13, <1>14, <1>16, ResetDone
<1>18. v = RaiseTrackerEvents(u)  BY <1>2, <1>14, ResetIs DEF A
<1>19. Idle(x) \subseteq Q  BY <1>15
<1>20. QED  BY <1>13, <1>17, <1>18, <1>19, IdleGood
\* rc_client_deserialize_progress
LEMMA DeserializedGood ==
  ASSUME NEW t, Good(t), NEW triggers \in [t.game.achs -> ActiveTriggers], NEW p,
         LoadsOf(t.game, p), OneValue(t.game, p.values),
         NEW v, v = Deserialized(t, triggers, p.states, p.values)
  PROVE  Good(v)
<1> DEFINE A == LoadedAchs(t, triggers)
<1>1. PICK a : a = PutAchs(t, A)  OBVIOUS
<1>2. PICK x : x = AchievementEvents(a, Primed(t) \ Primed(a), Primed(a) \ Primed(t))  OBVIOUS
<1>3. Followed(t, a, x)  BY <1>2 DEF Followed
<1>4. Fine(t) /\ AchsFine(t) /\ Achs(t) /\ t \in Frozen(t, Values)  BY DEF Good, Fine, AchsFine
<1>5. ASSUME NEW c \in t.game.achs
      PROVE  A[c] \in AchSet /\ A[c].state = t.ach[c].state
  <2>1. PICK d : d = t.ach[c]  OBVIOUS
  <2>2. d \in AchSet  BY <1>4, <2>1 DEF Achs
  <2>3. PICK e : e = IF c \in {f \in t.game.achs : t.ach[f].state = "active"} THEN triggers[c]
                     ELSE t.ach[c].trigger
    OBVIOUS
  <2>4. e \in ActiveTriggers \cup {"triggered"}  BY <2>1, <2>2, <2>3 DEF AchSet
  <2>5. A[c] = [d EXCEPT !.trigger = e]  BY <2>1, <2>3 DEF LoadedAchs
  <2> HIDE DEF A
  <2>6. QED  BY <2>1, <2>2, <2>4, <2>5 DEF AchSet
<1>6. A \in [t.game.achs -> AchSet]  BY <1>5 DEF LoadedAchs
<1> HIDE DEF A
<1>7. OnlyAchs(t, a) /\ a.ach = A /\ a.unlocked = t.unlocked /\ a.shown = t.shown
  BY <1>1, <1>4, AchsPut DEF PutAchs
<1>8. a.game = t.game  BY <1>7 DEF OnlyAchs
<1>9. Achs(a)  BY <1>6, <1>7, <1>8 DEF Achs
<1>10. OnlyAchs(t, x) /\ AchsFine(x)  BY <1>3, <1>4, <1>5, <1>7, <1>9, TriggersDo
<1>11. Good(x)  BY <1>10, AchsGood
<1>12. Fine(x) /\ AchsFine(x) /\ Modal(x) /\ Modes(x) /\ x.game \in Games
  BY <1>11 DEF Good, Fine
<1>13. x.game = t.game  BY <1>10 DEF OnlyAchs
<1>14. PICK u : u = LoadLoop!Loop(p, x, Len(x.game.boards))  OBVIOUS
<1>15. PICK Q : Q = Idle(x)  OBVIOUS
<1>16. PICK w : w = p.values  OBVIOUS
<1>17. x \in Amid(x, Values, w, 0, Q) /\ Q \in SUBSET (1 .. Len(x.game.boards))
  BY <1>12, <1>15, IdleAmid
<1>18. LoadsOf(x.game, p) /\ OneValue(x.game, p.values)  BY <1>13
<1>19. u \in Amid(x, Values, w, Len(x.game.boards), Q)
  BY <1>12, <1>14, <1>16, <1>17, <1>18, LoadDone
<1>20. v = RaiseTrackerEvents(u)  BY <1>1, <1>3, <1>14, DeserializedIs DEF A
<1>21. Idle(x) \subseteq Q  BY <1>15
<1>22. QED  BY <1>12, <1>19, <1>20, <1>21, IdleGood

\* A game that is to be loaded, or a mode the client is about to enter.
Entering(t) ==
  /\ Fine(t) /\ Achs(t) /\ Unlocks(t) /\ t.shown = Primed(t) /\ Modes(t)
  /\ \A b \in 1 .. Len(t.game.boards) : t.board[b].pub = "inactive"

\* What rc_client_activate_game and rc_client_set_hardcore_enabled have in common.
LEMMA EnteredGood ==
  ASSUME NEW t, Entering(t), t.loaded, NEW bit, t.encore \/ bit = Bit(t),
         NEW x, x = ToggleAchievements(t, bit), NEW v, v = ActivateLeaderboards(x)
  PROVE  Good(v)
<1>1. Fine(t) /\ t \in Frozen(t, Values) /\ Achs(t) /\ Unlocks(t) /\ t.shown = Primed(t)
      /\ Modes(t)
  BY DEF Entering, Fine
<1>2. OnlyAchs(t, x) /\ AchsFine(x)  BY <1>1, ToggleDoes
<1>3. Fine(x)  BY <1>1, <1>2, FineStays
<1>4. x.game = t.game /\ x.board = t.board /\ x.hardcore = t.hardcore /\ x.loaded = t.loaded
      /\ Modes(x)
  BY <1>1, <1>2 DEF OnlyAchs, Modes
<1>5. Fine(v) /\ Besides(x, v) /\ (~x.hardcore => v.board = x.board)  BY <1>3, ActivateDoes
<1>6. ASSUME x.hardcore = FALSE \/ x.loaded = FALSE
      PROVE  \A b \in 1 .. Len(x.game.boards) : v.board[b].pub = "inactive"
  <2>1. x.hardcore = FALSE  BY <1>4, <1>6
  <2>2. v.board = t.board  BY <1>4, <1>5, <2>1
  <2>3. QED  BY <1>4, <2>2 DEF Entering
<1>7. QED  BY <1>2, <1>4, <1>5, <1>6, Closed

\* Nothing else than the flags that say how the client is used differs.
Flagged(t, v) ==
  /\ v.game = t.game /\ v.encore = t.encore /\ v.waiting = t.waiting
  /\ v.unlocked = t.unlocked /\ v.ach = t.ach /\ v.board = t.board /\ v.trackers = t.trackers
  /\ v.shown = t.shown /\ v.shownTrackers = t.shownTrackers /\ v.outOfTurn = t.outOfTurn
  /\ v \in Frozen(v, Values)

LEMMA FlaggedFine ==
  ASSUME NEW t, Good(t), NEW v, Flagged(t, v)
  PROVE  Fine(v) /\ Achs(v) /\ Unlocks(v) /\ v.shown = Primed(v)
<1>1. Fine(t) /\ Achs(t) /\ Unlocks(t) /\ t.shown = Primed(t)  BY DEF Good, AchsFine
<1>2. Fine(v)  BY <1>1, FlagsFine DEF Flagged
<1>3. Primed(v) = Primed(t)  BY DEF Flagged, Primed
<1>4. QED  BY <1>1, <1>2, <1>3 DEF Flagged, Achs, Unlocks

\* rc_client_activate_game
LEMMA LoadedGood ==
  ASSUME NEW t, Good(t), ~t.loaded, NEW v, v = Loaded(t)
  PROVE  Good(v)
<1>1. PICK a : a = [t EXCEPT !.loaded = TRUE]  OBVIOUS
<1>2. PICK bit : bit = IF t.encore THEN "none" ELSE Bit(t)  OBVIOUS
<1>3. v = ActivateLeaderboards(ToggleAchievements(a, bit))  BY <1>1, <1>2 DEF Loaded
<1>4. t \in Frozen(t, Values) /\ Modes(t) /\ Modal(t)  BY DEF Good, Fine
<1>5. /\ a.game = t.game /\ a.loaded = TRUE /\ a.hardcore = t.hardcore
      /\ a.encore = t.encore /\ a.waiting = t.waiting /\ a.unlocked = t.unlocked
      /\ a.ach = t.ach /\ a.board = t.board /\ a.trackers = t.trackers /\ a.shown = t.shown
      /\ a.shownTrackers = t.shownTrackers /\ a.outOfTurn = t.outOfTurn
  BY <1>1, <1>4 DEF Frozen
<1>6. a \in Frozen(a, Values)  BY <1>1, <1>4, <1>5 DEF Frozen
<1>7. Flagged(t, a)  BY <1>5, <1>6 DEF Flagged
<1>8. Fine(a) /\ Achs(a) /\ Unlocks(a) /\ a.shown = Primed(a)  BY <1>7, FlaggedFine
<1>9. Entering(a)
  <2>1. t.loaded = FALSE  BY <1>4 DEF Modes
  <2>2. QED  BY <1>4, <1>5, <1>8, <2>1 DEF Entering, Modes, Modal
<1>10. a.encore \/ bit = Bit(a)  BY <1>2, <1>5 DEF Bit
<1>11. a.loaded  BY <1>5
<1>12. QED  BY <1>3, <1>9, <1>10, <1>11, EnteredGood
\* rc_client_set_hardcore_enabled
LEMMA ModeFlagged ==
  ASSUME NEW t, Good(t), NEW enabled \in BOOLEAN, t.hardcore # enabled,
         NEW a, a = [t EXCEPT !.hardcore = enabled]
  PROVE  Flagged(t, a) /\ a.hardcore = enabled /\ a.loaded = t.loaded /\ Modes(a)
<1>1. t \in Frozen(t, Values) /\ Modes(t)  BY DEF Good, Fine
<1>2. /\ a.game = t.game /\ a.loaded = t.loaded /\ a.hardcore = enabled
      /\ a.encore = t.encore /\ a.waiting = t.waiting /\ a.unlocked = t.unlocked
      /\ a.ach = t.ach /\ a.board = t.board /\ a.trackers = t.trackers /\ a.shown = t.shown
      /\ a.shownTrackers = t.shownTrackers /\ a.outOfTurn = t.outOfTurn
  BY <1>1 DEF Frozen
<1>3. a \in Frozen(a, Values)  BY <1>1, <1>2 DEF Frozen
<1>4. QED  BY <1>1, <1>2, <1>3 DEF Flagged, Modes

LEMMA UnloadedModeGood ==
  ASSUME NEW t, Good(t), ~t.loaded, NEW enabled \in BOOLEAN, t.hardcore # enabled,
         NEW a, a = [t EXCEPT !.hardcore = enabled]
  PROVE  Good(a)
<1>1. Flagged(t, a) /\ a.hardcore = enabled /\ a.loaded = t.loaded /\ Modes(a)  BY ModeFlagged
<1>2. Fine(a) /\ Achs(a) /\ Unlocks(a) /\ a.shown = Primed(a)  BY <1>1, FlaggedFine
<1>3. Modal(t) /\ Locked(t) /\ t.loaded = FALSE  BY DEF Good, AchsFine, Modes
<1>4. a.game = t.game /\ a.board = t.board /\ a.ach = t.ach  BY <1>1 DEF Flagged
<1>5. Locked(a)  BY <1>3, <1>4 DEF Locked
<1>6. Modal(a)  BY <1>3, <1>4 DEF Modal
<1>7. QED  BY <1>1, <1>2, <1>5, <1>6 DEF Good, AchsFine

LEMMA HardcoreGood ==
  ASSUME NEW t, Good(t), t.loaded, t.hardcore = FALSE, NEW a, a = [t EXCEPT !.hardcore = TRUE],
         NEW y, y = ActivateLeaderboards(ToggleAchievements(a, "hardcore")),
         NEW v, v = [y EXCEPT !.waiting = TRUE]
  PROVE  Good(v)
<1>1. Flagged(t, a) /\ a.hardcore = TRUE /\ a.loaded = t.loaded /\ Modes(a)
  <2>1. t.hardcore # TRUE /\ TRUE \in BOOLEAN  OBVIOUS
  <2>2. QED  BY <2>1, ModeFlagged
<1>2. Fine(a) /\ Achs(a) /\ Unlocks(a) /\ a.shown = Primed(a)  BY <1>1, FlaggedFine
<1>3. a.game = t.game /\ a.board = t.board  BY <1>1 DEF Flagged
<1>4. Entering(a)  BY <1>1, <1>2, <1>3 DEF Entering, Good, Modal
<1>5. PICK bit : bit = "hardcore"  OBVIOUS
<1>6. bit = Bit(a)  BY <1>1, <1>5 DEF Bit
<1>7. y = ActivateLeaderboards(ToggleAchievements(a, bit))  BY <1>5
<1>8. a.loaded  BY <1>1
<1>9. Good(y)  BY <1>4, <1>6, <1>7, <1>8, EnteredGood
<1>10. QED  BY <1>9, WaitingGood

LEMMA SoftcoreGood ==
  ASSUME NEW t, Good(t), t.loaded, t.hardcore = TRUE, NEW a, a = [t EXCEPT !.hardcore = FALSE],
         NEW x, x = ToggleAchievements(a, "softcore"),
         NEW v, v = RaiseTrackerEvents(DeactivateLeaderboards(x))
  PROVE  Good(v)
<1>1. Flagged(t, a) /\ a.hardcore = FALSE /\ a.loaded = t.loaded /\ Modes(a)
  <2>1. t.hardcore # FALSE /\ FALSE \in BOOLEAN  OBVIOUS
  <2>2. QED  BY <2>1, ModeFlagged
<1>2. Fine(a) /\ Achs(a) /\ Unlocks(a) /\ a.shown = Primed(a)  BY <1>1, FlaggedFine
<1>3. PICK bit : bit = "softcore"  OBVIOUS
<1>4. bit = Bit(a) /\ a.loaded /\ a \in Frozen(a, Values)  BY <1>1, <1>3 DEF Bit, Flagged
<1>5. x = ToggleAchievements(a, bit)  BY <1>3
<1>6. OnlyAchs(a, x) /\ AchsFine(x)  BY <1>2, <1>4, <1>5, ToggleDoes
<1>7. Fine(x)  BY <1>2, <1>6, FineStays
<1>8. Modes(x)  BY <1>1, <1>6 DEF OnlyAchs, Modes
<1>9. PICK p : p = 0  OBVIOUS
<1>10. PICK u : u = StopLoop!Loop(p, x, Len(x.game.boards))  OBVIOUS
<1>11. v = RaiseTrackerEvents(u)  BY <1>10, StopIs
<1>12. PICK Q : Q = 1 .. Len(x.game.boards)  OBVIOUS
<1>13. x.game \in Games  BY <1>7 DEF Fine
<1>14. x \in Amid(x, Values, p, 0, {})
  <2>1. \A b \in {} : x.board[b].pub = "inactive"  OBVIOUS
  <2>2. Values \subseteq Values  OBVIOUS
  <2>3. QED  BY <1>7, <2>1, <2>2, FineAmid
<1>15. u \in Amid(x, Values, p, Len(x.game.boards), Q)
  BY <1>10, <1>12, <1>13, <1>14, StopDone
<1>16. Idle(x) \subseteq Q  BY <1>12 DEF Idle
<1>17. QED  BY <1>6, <1>7, <1>8, <1>11, <1>15, <1>16, IdleGood

\* rc_client_unload_game: what is shown is hidden, and then all is freed.
LEMMA HiddenDoes ==
  ASSUME NEW t, Good(t), NEW v, v = Hidden(t)
  PROVE  /\ v.game = t.game /\ v.unlocked = t.unlocked /\ v.hardcore = t.hardcore
         /\ v.encore = t.encore /\ v.outOfTurn = {} /\ v \in Frozen(v, Values)
         /\ v.shown = {} /\ v.shownTrackers = {}
<1> DEFINE n == Len(t.game.boards)
<1>1. PICK p : p = 0  OBVIOUS
<1>2. PICK x : x = AchievementEvents(t, Primed(t), {})  OBVIOUS
<1>3. Fine(t) /\ t.shown = Primed(t) /\ t \in Frozen(t, Values)  BY DEF Good, AchsFine, Fine
<1>4. OnlyAchs(t, x) /\ x.unlocked = t.unlocked /\ x.shown = {}
  <2>1. PICK hide : hide = Primed(t)  OBVIOUS
  <2>2. PICK show : show = {}  OBVIOUS
  <2>3. x = AchievementEvents(t, hide, show)  BY <1>2, <2>1, <2>2
  <2>4. hide \subseteq t.shown  BY <1>3, <2>1
  <2>5. show \cap t.shown = {}  BY <2>2
  <2>6. OnlyAchs(t, x) /\ x.unlocked = t.unlocked /\ x.shown = (t.shown \ hide) \cup show
    BY <1>3, <2>3, <2>4, <2>5, EventsDo
  <2>7. (t.shown \ hide) \cup show = {}  BY <1>3, <2>1, <2>2
  <2>8. QED  BY <2>6, <2>7
<1>5. Fine(x) /\ x.game = t.game /\ x.hardcore = t.hardcore /\ x.encore = t.encore
  BY <1>3, <1>4, FineStays DEF OnlyAchs
<1>6. x \in Frozen(x, Values) /\ x.game \in Games /\ x.outOfTurn = {}  BY <1>5 DEF Fine
<1>7. PICK u : u = HideLoop!Loop(p, x, Len(x.game.boards))  OBVIOUS
<1>8. v = RaiseTrackerEvents(u)  BY <1>2, <1>7, HiddenIs
<1>9. x \in Hiding(x, 0)
  <2>1. PICK Q : Q = {}  OBVIOUS
  <2>2. PICK w : w = {}  OBVIOUS
  <2>3. \A b \in Q : x.board[b].pub = "inactive"  BY <2>1
  <2>4. Values \subseteq Values  OBVIOUS
  <2>5. x \in Amid(x, Values, w, 0, Q)  BY <1>5, <2>3, <2>4, FineAmid
  <2>6. Held(x, {}, 0, 0) /\ \A b \in 1 .. Len(x.game.boards) : BoardOK(x.board[b])
    BY <2>2, <2>5 DEF Amid
  <2>7. \A b \in 1 .. Len(x.game.boards) : HasTracker(x.board[b]) /\ ~(b <= 0)
    BY <2>6 DEF HasTracker, BoardOK
  <2>8. QED  BY <1>6, <2>6, <2>7 DEF Hiding
<1>10. u \in Hiding(x, Len(x.game.boards))  BY <1>6, <1>7, <1>9, HideDone
<1>11. /\ u \in Frozen(x, Values) /\ Counted(u)
       /\ \A b \in 1 .. Len(x.game.boards) : u.board[b].tracker = 0
  BY <1>10 DEF Hiding, Held
<1>12. /\ v \in Frozen(v, Values) /\ v.board = u.board /\ v.game = x.game /\ v.hardcore = x.hardcore
       /\ v.encore = x.encore /\ v.unlocked = x.unlocked /\ v.shown = x.shown
       /\ v.outOfTurn = x.outOfTurn /\ Settled(v)
  BY <1>8, <1>11, RaiseDoes
<1>13. \A j \in 1 .. Len(v.trackers) : v.trackers[j].ref = 0
  <2> SUFFICES ASSUME NEW j \in 1 .. Len(v.trackers)  PROVE v.trackers[j].ref = 0
    OBVIOUS
  <2>1. UsersOf(v, j) = {}  BY <1>11, <1>12 DEF UsersOf
  <2>2. v.trackers[j].ref = Cardinality(UsersOf(v, j))  BY <1>12 DEF Settled
  <2>3. QED  BY <2>1, <2>2, FS_EmptySet
<1>14. v.shownTrackers = {}  BY <1>12, <1>13 DEF Settled
<1>15. QED  BY <1>4, <1>5, <1>6, <1>12, <1>14
\* A client without a game.
Empty(t) ==
  /\ t.loaded = FALSE /\ t.trackers = << >> /\ t.shown = {} /\ t.shownTrackers = {}
  /\ t.outOfTurn = {} /\ t.game \in Games
  /\ t.ach = FreshAchievements(t.game) /\ t.board = FreshLeaderboards(t.game)
  /\ Unlocks(t) /\ Modes(t)
  /\ t = [game |-> t.game, loaded |-> t.loaded, hardcore |-> t.hardcore, encore |-> t.encore,
          waiting |-> t.waiting, unlocked |-> t.unlocked, ach |-> t.ach, board |-> t.board,
          trackers |-> t.trackers, shown |-> t.shown, shownTrackers |-> t.shownTrackers,
          outOfTurn |-> t.outOfTurn]

LEMMA EmptyGood ==
  ASSUME NEW t, Empty(t)
  PROVE  Good(t)
<1> DEFINE N == 1 .. Len(t.game.boards)
<1>1. DOMAIN t.game.boards = N /\ Len(t.game.boards) \in Nat  BY BoardsOf DEF Empty
<1>2. \A b \in N : t.board[b] = [pub |-> "inactive", st |-> "waiting", value |-> 0, tracker |-> 0]
  BY <1>1 DEF Empty, FreshLeaderboards
<1>3. t.board \in [N -> BoardSet(Values)]
  <2>1. [pub |-> "inactive", st |-> "waiting", value |-> 0, tracker |-> 0] \in BoardSet(Values)
    BY FrameAssumption DEF BoardSet, Publics, Runtimes
  <2>2. t.board = [b \in N |-> [pub |-> "inactive", st |-> "waiting", value |-> 0, tracker |-> 0]]
    BY <1>1 DEF Empty, FreshLeaderboards
  <2>3. QED  BY <2>1, <2>2
<1>4. t.trackers \in Seq(TrackerSet(t.game)) /\ Len(t.trackers) = 0  BY DEF Empty
<1>5. t \in Frozen(t, Values)  BY <1>3, <1>4 DEF Empty, Frozen
<1>6. \A b \in N : BoardOK(t.board[b]) /\ t.board[b].tracker = 0  BY <1>2 DEF BoardOK
<1>7. Settled(t)  BY <1>4 DEF Empty, Settled
<1>8. Theirs(t)  BY <1>4, <1>6 DEF Theirs
<1>9. Tracked(t)  BY <1>6 DEF Tracked
<1>10. Fine(t)  BY <1>1, <1>4, <1>5, <1>6, <1>7, <1>8, <1>9 DEF Empty, Fine
<1>11. \A a \in t.game.achs : t.ach[a] = [state |-> "inactive", trigger |-> "waiting"]
  BY DEF Empty, FreshAchievements
<1>12. Achs(t)  BY <1>11 DEF Empty, FreshAchievements, Achs, AchSet, ActiveTriggers
<1>13. Locked(t)  BY <1>11 DEF Locked
<1>14. Primed(t) = {}  BY <1>11, <1>12, PrimedIs
<1>15. AchsFine(t)  BY <1>12, <1>13, <1>14 DEF Empty, AchsFine
<1>16. Modal(t)  BY <1>2 DEF Modal
<1>17. QED  BY <1>10, <1>15, <1>16 DEF Empty, Good

Unloaded(t) ==
  [Hidden(t) EXCEPT !.loaded = FALSE, !.waiting = FALSE, !.ach = FreshAchievements(t.game),
                    !.board = FreshLeaderboards(t.game), !.trackers = << >>]

LEMMA UnloadedGood ==
  ASSUME NEW t, Good(t), NEW v, v = Unloaded(t)
  PROVE  Good(v)
<1>1. PICK h : h = Hidden(t)  OBVIOUS
<1>2. /\ h.game = t.game /\ h.unlocked = t.unlocked /\ h.hardcore = t.hardcore
      /\ h.encore = t.encore /\ h.outOfTurn = {} /\ h \in Frozen(h, Values)
      /\ h.shown = {} /\ h.shownTrackers = {}
  BY <1>1, HiddenDoes
<1>3. PICK A, B : A = FreshAchievements(t.game) /\ B = FreshLeaderboards(t.game)  OBVIOUS
<1>4. v = [h EXCEPT !.loaded = FALSE, !.waiting = FALSE, !.ach = A, !.board = B,
                    !.trackers = << >>]
  BY <1>1, <1>3 DEF Unloaded
<1>5. /\ v.game = t.game /\ v.loaded = FALSE /\ v.hardcore = t.hardcore
      /\ v.encore = t.encore /\ v.waiting = FALSE /\ v.unlocked = t.unlocked
      /\ v.ach = A /\ v.board = B /\ v.trackers = << >> /\ v.shown = {}
      /\ v.shownTrackers = {} /\ v.outOfTurn = {}
  BY <1>2, <1>4 DEF Frozen
<1>6. v = [game |-> v.game, loaded |-> v.loaded, hardcore |-> v.hardcore, encore |-> v.encore,
          waiting |-> v.waiting, unlocked |-> v.unlocked, ach |-> v.ach, board |-> v.board,
          trackers |-> v.trackers, shown |-> v.shown, shownTrackers |-> v.shownTrackers,
          outOfTurn |-> v.outOfTurn]
  BY <1>2, <1>4 DEF Frozen
<1>7. t.game \in Games /\ Unlocks(t) /\ Modes(t)  BY DEF Good, Fine, AchsFine
<1>8. Unlocks(v) /\ Modes(v)  BY <1>5, <1>7 DEF Unlocks, Modes
<1>9. Empty(v)  BY <1>3, <1>5, <1>6, <1>7, <1>8 DEF Empty
<1>10. QED  BY <1>9, EmptyGood
-----------------------------------------------------------------------------
(* The specification. GoodState is its inductive invariant.                 *)

GoodState == Good(State)

LEMMA Became ==
  ASSUME NEW t, Good(t), Becomes(t)
  PROVE  GoodState'
<1>1. t \in Frozen(t, Values)  BY DEF Good, Fine
<1>2. /\ game' = t.game /\ loaded' = t.loaded /\ hardcore' = t.hardcore
      /\ encore' = t.encore /\ waiting' = t.waiting /\ unlocked' = t.unlocked
      /\ ach' = t.ach /\ board' = t.board /\ trackers' = t.trackers
      /\ shown' = t.shown /\ shownTrackers' = t.shownTrackers /\ outOfTurn' = t.outOfTurn
  BY DEF Becomes
<1>3. State' = t  BY <1>1, <1>2 DEF State, Frozen
<1>4. QED  BY <1>3 DEF GoodState

LEMMA StateHas ==
  /\ State.game = game /\ State.loaded = loaded /\ State.hardcore = hardcore
  /\ State.encore = encore /\ State.waiting = waiting /\ State.unlocked = unlocked
  /\ State.ach = ach /\ State.board = board /\ State.trackers = trackers
  /\ State.shown = shown /\ State.shownTrackers = shownTrackers /\ State.outOfTurn = outOfTurn
BY DEF State

LEMMA InitGood ==
  ASSUME Init
  PROVE  GoodState
<1>1. PICK t : t = State  OBVIOUS
<1>2. /\ t.game = game /\ t.loaded = FALSE /\ t.hardcore = hardcore /\ t.encore = encore
      /\ t.waiting = FALSE /\ t.unlocked = unlocked /\ t.ach = ach /\ t.board = board
      /\ t.trackers = << >> /\ t.shown = {} /\ t.shownTrackers = {} /\ t.outOfTurn = {}
  BY <1>1, StateHas DEF Init
<1>3. t = [game |-> t.game, loaded |-> t.loaded, hardcore |-> t.hardcore, encore |-> t.encore,
          waiting |-> t.waiting, unlocked |-> t.unlocked, ach |-> t.ach, board |-> t.board,
          trackers |-> t.trackers, shown |-> t.shown, shownTrackers |-> t.shownTrackers,
          outOfTurn |-> t.outOfTurn]
  BY <1>1 DEF State
<1>4. game \in Games /\ hardcore \in BOOLEAN /\ encore \in BOOLEAN
      /\ ach = FreshAchievements(game) /\ board = FreshLeaderboards(game)
      /\ unlocked = [a \in game.achs |-> {}]
  BY DEF Init
<1>5. Unlocks(t)  BY <1>2, <1>4 DEF Unlocks
<1>6. Modes(t)  BY <1>2, <1>4 DEF Modes
<1>7. Empty(t)  BY <1>2, <1>3, <1>4, <1>5, <1>6 DEF Empty
<1>8. QED  BY <1>1, <1>7, EmptyGood DEF GoodState

LEMMA DoFrameGood ==
  ASSUME GoodState, DoFrame
  PROVE  GoodState'
<1>1. PICK t : t = State  OBVIOUS
<1>2. Good(t) /\ t.game = game /\ t.loaded = loaded  BY <1>1, StateHas DEF GoodState
<1>3. PICK verdicts \in [game.achs -> Verdicts],
           conds \in [DOMAIN game.boards -> SUBSET {"start", "cancel", "submit"}],
           vals \in [Definitions(game) -> Values] :
             LET f == Frame(State, verdicts, conds, vals)
             IN  (\A b \in DOMAIN game.boards : f.board[b].value \in Values) /\ Becomes(f)
  BY DEF DoFrame
<1>4. PICK v : v = Frame(t, verdicts, conds, vals)  OBVIOUS
<1>5. (\A b \in DOMAIN game.boards : v.board[b].value \in Values) /\ Becomes(v)
  BY <1>1, <1>3, <1>4
<1>6. PICK p : p = [conds |-> conds, vals |-> vals]  OBVIOUS
<1>7. p.conds = conds /\ p.vals = vals  BY <1>6
<1>8. v = Frame(t, verdicts, p.conds, p.vals)  BY <1>4, <1>7
<1>9. game \in Games  BY <1>2 DEF Good, Fine
<1>10. \A b \in 1 .. Len(t.game.boards) : v.board[b].value \in Values
  BY <1>2, <1>5, <1>9, BoardsOf
<1>11. p.vals \in [Definitions(t.game) -> Values]  BY <1>2, <1>7
<1>12. verdicts \in [t.game.achs -> Verdicts]  BY <1>2
<1>13. t.loaded  BY <1>2 DEF DoFrame
<1>14. Good(v)  BY <1>2, <1>8, <1>10, <1>11, <1>12, <1>13, FrameGood
<1>15. QED  BY <1>5, <1>14, Became

LEMMA DeserializeGood ==
  ASSUME GoodState, Deserialize
  PROVE  GoodState'
<1>1. PICK t : t = State  OBVIOUS
<1>2. Good(t) /\ t.game = game  BY <1>1, StateHas DEF GoodState
<1>3. PICK triggers \in [game.achs -> ActiveTriggers],
           states \in [DOMAIN game.boards -> {"waiting", "active", "started"}],
           values \in [DOMAIN game.boards -> Values] :
             /\ \A b, c \in DOMAIN game.boards :
                  LET def == game.boards[b].val
                  IN  game.boards[c].val = def /\ def \notin HitDefs => values[b] = values[c]
             /\ Becomes(Deserialized(State, triggers, states, values))
  BY DEF Deserialize
<1>4. PICK p : p = [states |-> states, values |-> values]  OBVIOUS
<1>5. p.states = states /\ p.values = values  BY <1>4
<1>6. PICK v : v = Deserialized(t, triggers, p.states, p.values)  OBVIOUS
<1>7. Becomes(v)  BY <1>1, <1>3, <1>5, <1>6
<1>8. game \in Games /\ DOMAIN game.boards = 1 .. Len(game.boards)
  BY <1>2, BoardsOf DEF Good, Fine
<1>9. LoadsOf(t.game, p)  BY <1>2, <1>5 DEF LoadsOf
<1>10. OneValue(t.game, p.values)
  <2> SUFFICES ASSUME NEW b \in 1 .. Len(game.boards), NEW c \in 1 .. Len(game.boards),
                      Alike(game, b), game.boards[c].val = game.boards[b].val
               PROVE  values[b] = values[c]
    BY <1>2, <1>5 DEF OneValue
  <2>1. game.boards[b].val \notin HitDefs  BY DEF Alike
  <2>2. QED  BY <1>3, <1>8, <2>1
<1>11. triggers \in [t.game.achs -> ActiveTriggers]  BY <1>2
<1>12. Good(v)  BY <1>2, <1>6, <1>9, <1>10, <1>11, DeserializedGood
<1>13. QED  BY <1>7, <1>12, Became

LEMMA SetHardcoreGood ==
  ASSUME GoodState, NEW enabled \in BOOLEAN, SetHardcore(enabled)
  PROVE  GoodState'
<1>1. PICK t : t = State  OBVIOUS
<1>2. Good(t) /\ t.loaded = loaded /\ t.hardcore = hardcore  BY <1>1, StateHas DEF GoodState
<1>3. PICK a : a = [t EXCEPT !.hardcore = enabled]  OBVIOUS
<1>4. PICK v : v = IF ~loaded THEN a
                   ELSE IF enabled
                        THEN [ActivateLeaderboards(ToggleAchievements(a, "hardcore"))
                                EXCEPT !.waiting = TRUE]
                        ELSE RaiseTrackerEvents(
                               DeactivateLeaderboards(ToggleAchievements(a, "softcore")))
  OBVIOUS
<1>5. hardcore # enabled /\ Becomes(v)  BY <1>1, <1>3, <1>4, Zenon DEF SetHardcore
<1>6. t.loaded \in BOOLEAN /\ t.hardcore \in BOOLEAN  BY <1>2 DEF Good, Modes
<1>7. CASE ~loaded
  <2>1. v = a  BY <1>4, <1>7
  <2>2. QED  BY <1>2, <1>3, <1>5, <1>7, <2>1, UnloadedModeGood, Became
<1>8. CASE loaded /\ enabled = TRUE
  <2>1. PICK y : y = ActivateLeaderboards(ToggleAchievements(a, "hardcore"))  OBVIOUS
  <2>2. v = [y EXCEPT !.waiting = TRUE]  BY <1>4, <1>8, <2>1
  <2>3. t.hardcore = FALSE /\ a = [t EXCEPT !.hardcore = TRUE] /\ t.loaded
    BY <1>2, <1>3, <1>5, <1>6, <1>8
  <2>4. Good(v)  BY <1>2, <2>1, <2>2, <2>3, HardcoreGood
  <2>5. QED  BY <1>5, <2>4, Became
<1>9. CASE loaded /\ enabled = FALSE
  <2>1. PICK x : x = ToggleAchievements(a, "softcore")  OBVIOUS
  <2>2. v = RaiseTrackerEvents(DeactivateLeaderboards(x))  BY <1>4, <1>9, <2>1
  <2>3. t.hardcore = TRUE /\ a = [t EXCEPT !.hardcore = FALSE] /\ t.loaded
    BY <1>2, <1>3, <1>5, <1>6, <1>9
  <2>4. Good(v)  BY <1>2, <2>1, <2>2, <2>3, SoftcoreGood
  <2>5. QED  BY <1>5, <2>4, Became
<1>10. QED  BY <1>7, <1>8, <1>9
LEMMA StepGood ==
  ASSUME GoodState, [Next]_vars
  PROVE  GoodState'
<1>1. PICK t : t = State  OBVIOUS
<1>2. Good(t) /\ t.loaded = loaded /\ t.game = game  BY <1>1, StateHas DEF GoodState
<1>3. CASE Load
  <2>1. PICK v : v = Loaded(t)  OBVIOUS
  <2>2. Becomes(v) /\ ~t.loaded  BY <1>1, <1>2, <1>3, <2>1 DEF Load
  <2>3. QED  BY <1>2, <2>1, <2>2, LoadedGood, Became
<1>4. CASE DoFrame  BY <1>4, DoFrameGood
<1>5. CASE Reset
  <2>1. PICK u : u = ResetAll(t)  OBVIOUS
  <2>2. PICK v : v = [u EXCEPT !.waiting = FALSE]  OBVIOUS
  <2>3. Becomes(v)  BY <1>1, <1>5, <2>1, <2>2 DEF Reset
  <2>4. Good(u)  BY <1>2, <2>1, ResetGood
  <2>5. Good(v)  BY <2>2, <2>4, WaitingGood
  <2>6. QED  BY <2>3, <2>5, Became
<1>6. CASE Deserialize  BY <1>6, DeserializeGood
<1>7. CASE Unload
  <2>1. PICK v : v = Unloaded(t)  OBVIOUS
  <2>2. v = [Hidden(State) EXCEPT !.loaded = FALSE, !.waiting = FALSE,
                                  !.ach = FreshAchievements(game),
                                  !.board = FreshLeaderboards(game), !.trackers = << >>]
    BY <1>1, <1>2, <2>1, Zenon DEF Unloaded
  <2>3. Becomes(v)  BY <1>7, <2>2, Zenon DEF Unload
  <2>4. Good(v)  BY <1>2, <2>1, UnloadedGood
  <2>5. QED  BY <2>3, <2>4, Became
<1>8. CASE \E enabled \in BOOLEAN : SetHardcore(enabled)
  <2>1. PICK enabled \in BOOLEAN : SetHardcore(enabled)  BY <1>8
  <2>2. QED  BY <2>1, SetHardcoreGood
<1>9. CASE UNCHANGED vars
  <2>1. State' = State  BY <1>9 DEF vars, State
  <2>2. QED  BY <2>1 DEF GoodState
<1>10. QED  BY <1>3, <1>4, <1>5, <1>6, <1>7, <1>8, <1>9 DEF Next

\* The inductive invariant holds of every behaviour.
THEOREM AlwaysGood == Spec => []GoodState
<1>1. Init => GoodState  BY InitGood
<1>2. GoodState /\ [Next]_vars => GoodState'  BY StepGood
<1>3. QED  BY <1>1, <1>2, PTL DEF Spec

LEMMA GoodIsRight ==
  ASSUME GoodState
  PROVE  ScreenIsRight
<1>1. PICK t : t = State  OBVIOUS
<1>2. /\ t.game = game /\ t.loaded = loaded /\ t.hardcore = hardcore
      /\ t.encore = encore /\ t.waiting = waiting /\ t.unlocked = unlocked
      /\ t.ach = ach /\ t.board = board /\ t.trackers = trackers
      /\ t.shown = shown /\ t.shownTrackers = shownTrackers /\ t.outOfTurn = outOfTurn
  BY <1>1, StateHas
<1>3. Good(t)  BY <1>1 DEF GoodState
<1>4. Fine(t) /\ AchsFine(t) /\ Modal(t) /\ Modes(t)  BY <1>3 DEF Good
<1>5. /\ t \in Frozen(t, Values) /\ game \in Games /\ Settled(t) /\ Theirs(t) /\ Tracked(t)
      /\ \A b \in 1 .. Len(game.boards) : BoardOK(board[b])
  BY <1>2, <1>4 DEF Fine
<1>6. Boards = 1 .. Len(game.boards) /\ Len(game.boards) \in Nat  BY <1>5, BoardsOf DEF Boards
<1>7. board \in [Boards -> BoardSet(Values)] /\ trackers \in Seq(TrackerSet(game))
  BY <1>2, <1>5, <1>6, FrozenHas
<1>8. Len(trackers) \in Nat /\ DOMAIN trackers = 1 .. Len(trackers)  BY <1>7
<1>9. \A i \in 1 .. Len(trackers) :
        trackers[i].ref \in Nat /\ trackers[i].pend = {} /\ trackers[i].display = trackers[i].raw
        /\ trackers[i].ref = Cardinality(UsersOf(t, i))
  <2>1. ASSUME NEW i \in 1 .. Len(trackers)  PROVE trackers[i].ref \in Nat
    <3>1. trackers[i] \in TrackerSet(game)  BY <1>7
    <3>2. QED  BY <3>1 DEF TrackerSet
  <2>2. QED  BY <1>2, <1>5, <2>1 DEF Settled
<1>10. TypeOK
  <2>1. loaded \in BOOLEAN /\ hardcore \in BOOLEAN /\ encore \in BOOLEAN /\ waiting \in BOOLEAN
    BY <1>2, <1>4 DEF Modes
  <2>2. unlocked \in [game.achs -> SUBSET {"hardcore", "softcore"}]
    BY <1>2, <1>4 DEF AchsFine, Unlocks
  <2>3. ach \in [game.achs -> [state : {"active", "inactive", "unlocked"},
                               trigger : ActiveTriggers \cup {"triggered"}]]
    BY <1>2, <1>4 DEF AchsFine, Achs, AchSet
  <2> DEFINE S == [pub : {"inactive", "active", "tracking"},
                   st : {"waiting", "active", "started", "triggered", "canceled"},
                   value : Values, tracker : 0 .. Len(trackers)]
  <2>4. ASSUME NEW b \in Boards  PROVE board[b] \in S
    <3>1. board[b] \in BoardSet(Values)  BY <1>7
    <3>2. board[b].tracker \in 0 .. Len(trackers)  BY <1>2, <1>5, <1>6 DEF Theirs
    <3>3. QED  BY <3>1, <3>2 DEF BoardSet, Publics, Runtimes
  <2> HIDE DEF S
  <2>5. board \in [Boards -> S]  BY <1>7, <2>4
  <2>6. shown \subseteq game.achs  BY <1>2, <1>4 DEF AchsFine, Primed
  <2>7. QED  BY <1>8, <1>9, <2>1, <2>2, <2>3, <2>5, <2>6 DEF TypeOK, S
<1>11. IndicatorsRight  BY <1>1, <1>2, <1>4 DEF IndicatorsRight, AchsFine
<1>12. TrackersCounted
  <2>1. \A i : Users(i) = UsersOf(t, i)  BY <1>2, <1>6 DEF Users, UsersOf
  <2>2. \A i \in DOMAIN trackers : trackers[i].ref = Cardinality(Users(i))
    BY <1>8, <1>9, <2>1
  <2>3. shownTrackers = {i \in DOMAIN trackers : trackers[i].ref > 0}
    BY <1>2, <1>5, <1>8 DEF Settled
  <2>4. QED  BY <2>2, <2>3 DEF TrackersCounted
<1>13. TrackingMeansStarted
  <2> SUFFICES ASSUME NEW b \in Boards
               PROVE  /\ (b \in Tracking) = (board[b].tracker # 0)
                      /\ b \in Tracking => board[b].st = "started"
    BY DEF TrackingMeansStarted
  <2>1. BoardOK(board[b])  BY <1>5, <1>6
  <2>2. b \in Tracking <=> board[b].pub = "tracking"  BY DEF Tracking
  <2>3. QED  BY <2>1, <2>2 DEF BoardOK
<1>14. TrackerShowsValue
  <2> SUFFICES ASSUME NEW b \in Tracking, Comparable(b)
               PROVE  trackers[board[b].tracker].display = board[b].value
    BY DEF TrackerShowsValue
  <2>1. b \in Boards /\ board[b].pub = "tracking"  BY DEF Tracking
  <2>2. Alike(game, b)  BY DEF Comparable, Alike, Boards
  <2>3. board[b].tracker # 0  BY <1>5, <1>6, <2>1 DEF BoardOK
  <2>4. trackers[board[b].tracker].raw = board[b].value
    BY <1>2, <1>5, <1>6, <2>1, <2>2, <2>3 DEF Tracked
  <2>5. board[b].tracker \in 1 .. Len(trackers)
    <3>1. board[b].tracker \in 0 .. Len(trackers)  BY <1>2, <1>5, <1>6, <2>1 DEF Theirs
    <3>2. QED  BY <1>8, <2>3, <3>1
  <2>6. QED  BY <1>9, <2>4, <2>5
<1>15. SoftcoreHasNoAttempts
  <2> SUFFICES ASSUME ~hardcore  PROVE Tracking = {} /\ shownTrackers = {}
    BY DEF SoftcoreHasNoAttempts
  <2>1. hardcore = FALSE  BY <1>2, <1>4 DEF Modes
  <2>2. \A b \in Boards : board[b].pub = "inactive"  BY <1>2, <1>4, <1>6, <2>1 DEF Modal
  <2>3. Tracking = {}  BY <2>2 DEF Tracking
  <2>4. \A b \in Boards : board[b].tracker = 0  BY <1>5, <1>6, <2>2 DEF BoardOK
  <2>5. \A i \in 1 .. Len(trackers) : UsersOf(t, i) = {}
    BY <1>2, <1>6, <2>4 DEF UsersOf
  <2>6. \A i \in 1 .. Len(trackers) : trackers[i].ref = 0  BY <1>9, <2>5, FS_EmptySet
  <2>7. shownTrackers = {}  BY <1>2, <1>5, <2>6 DEF Settled
  <2>8. QED  BY <2>3, <2>7
<1>16. QED  BY <1>10, <1>11, <1>12, <1>13, <1>14, <1>15 DEF ScreenIsRight

\* What is on the screen is what is under way: the indicators are those of the achievements that
\* are primed, the trackers those some leaderboard uses, counted right, and a tracker shows the
\* value of the leaderboards it stands for, whatever frames, resets, changes of mode and saved
\* states came before.
THEOREM AlwaysScreenIsRight == Spec => []ScreenIsRight
<1>1. GoodState => ScreenIsRight  BY GoodIsRight
<1>2. QED  BY <1>1, AlwaysGood, PTL

\* No indicator or tracker is shown twice, hidden or updated when it is not on the screen, and no
\* achievement is awarded a second time in a mode it is unlocked in, but for encore mode.
THEOREM AlwaysEventsInTurn == Spec => []EventsInTurn
<1>1. GoodState => EventsInTurn  BY StateHas DEF GoodState, Good, Fine, EventsInTurn
<1>2. QED  BY <1>1, AlwaysGood, PTL

\* However often attempts begin and end, the list of trackers has at most two for each
\* leaderboard.
THEOREM AlwaysFewTrackers == Spec => []FewTrackers
<1>1. GoodState => FewTrackers  BY StateHas DEF GoodState, Good, Fine, FewTrackers
<1>2. QED  BY <1>1, AlwaysGood, PTL
=============================================================================
