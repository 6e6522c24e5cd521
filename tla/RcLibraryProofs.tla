-------------------------- MODULE RcLibraryProofs --------------------------
(***************************************************************************)
(* Proofs about requests, lists, pauses, unlocks and unreadable addresses. *)
(*                                                                         *)
(* That whoever begins a request hears of it once, for any number of       *)
(* requests, slots, games and media.  A request only changes the slots, a  *)
(* flag or two of the client, and itself; what holds of it is RequestOK,   *)
(* of the request, whether the client is there, whether the request has a  *)
(* slot, and whether a load keeps it for later.  That its list fits into   *)
(* the block made for it, which is about the loops that size and fill it.  *)
(*                                                                         *)
(* That pauses are spaced, for every minimum, multiplier and longest run.  *)
(* The penalty is one counter for two questions, and what ties it to the   *)
(* frames since the last pause is PauseInv: either the counter still       *)
(* counts these frames down, or they are paid for and the counter is       *)
(* below the point where it would ask for more.                            *)
(*                                                                         *)
(* That the unlocks of the server are marked, for any sets and unlocks:    *)
(* whatever the window of the search has left out was found before.  That  *)
(* what cannot be read stays out, by saying of each action which           *)
(* achievements it replaces and that none of them was out (Follows).       *)
(***************************************************************************)
EXTENDS RcRequests, RcPause, RcLists, TLAPS

Active == {"calling", "open"}

RequestOK(q, here, slot, pending) ==
  /\ q.phase = "fresh" => q.told = <<>> /\ q.aborted = "no" /\ ~q.stray /\ q.game = 0 /\ ~pending
  /\ q.phase \in Active =>
       /\ q.told = <<>> /\ ~q.stray
       /\ ~q.slotless => IF here THEN slot ELSE q.aborted = "destroyed"
  /\ slot => here /\ q.phase \in Active
  /\ pending => /\ here /\ q.phase = "done" /\ q.kind = "media" /\ q.game = 0
                /\ q.told = <<>> /\ q.aborted = "no" /\ ~q.stray
  /\ q.aborted # "no" => q.told = <<>>
  /\ here => q.aborted # "destroyed"
  /\ Len(q.told) <= 1
  /\ q.phase \in {"answered", "done"} /\ q.aborted = "no" /\ ~pending =>
       q.told # <<>> \/ (q.kind = "media" /\ q.game = 0)
  /\ q.stray => q.slotless

-----------------------------------------------------------------------------
(* Types.                                                                   *)

HashOrNone == Hashes \cup {NoHash}
Files == Seq([path : Paths, hash : HashOrNone])
Lists == {NoList} \cup UNION {{ListOf(k, entries) : entries \in Answers[k]} : k \in ListKinds}

Phases == {"fresh", "calling", "open", "answered", "done"}
Results == {"ok", "error", "invalid", "noGame", "noLongerActive", "hardcoreDisabled"}

RequestSet ==
  [kind : ListKinds \cup {"none", "media"}, phase : Phases,
   aborted : {"no", "aborted", "destroyed"}, game : Nat, hash : HashOrNone, path : Paths \cup {"none"},
   handle : BOOLEAN, slotless : BOOLEAN, told : Seq(Results), asked : Nat, stray : BOOLEAN, list : Lists]

GameSet == [at : Nat, id : Int, hash : HashOrNone, files : Files]
LoadSet == [at : Nat, id : Int, identified : BOOLEAN, hash : HashOrNone, files : Files,
            pending : Requests \cup {"none"}]

StateSet == [alive : BOOLEAN, hardcore : BOOLEAN, requests : [Requests -> RequestSet],
             slots : SUBSET Requests, known : [Hashes -> Int], game : GameSet, load : LoadSet]

EachOK(t) == \A r \in Requests : RequestOK(t.requests[r], t.alive, r \in t.slots, t.load.pending = r)

RequestsInv == State \in StateSet /\ games \in Nat /\ EachOK(State)

-----------------------------------------------------------------------------
\* Where one request changes, only this one has to be looked at.
LEMMA Spread ==
  ASSUME NEW t \in StateSet, NEW u \in StateSet, NEW r \in Requests, EachOK(t), u.alive = t.alive,
         \A x \in Requests \ {r} : u.requests[x] = t.requests[x] /\ (x \in u.slots <=> x \in t.slots),
         u.load.pending \in {t.load.pending, r, "none"},
         RequestOK(u.requests[r], u.alive, r \in u.slots, u.load.pending = r)
  PROVE  EachOK(u)
<1>1. ASSUME NEW x \in Requests \ {r}
      PROVE  RequestOK(u.requests[x], u.alive, x \in u.slots, u.load.pending = x)
  <2>1. RequestOK(t.requests[x], t.alive, x \in t.slots, t.load.pending = x)  BY DEF EachOK
  <2>2. u.load.pending = x => t.load.pending = x  BY RequestsAssumption
  <2>3. QED  BY <2>1, <2>2 DEF RequestOK
<1>2. QED  BY <1>1 DEF EachOK

-----------------------------------------------------------------------------
(* What the operations that are called by others do: one request becomes q, *)
(* and the slots S.                                                         *)

Does(t, u, r, q, S) ==
  /\ u \in StateSet /\ q \in RequestSet
  /\ u.alive = t.alive /\ u.load = t.load /\ u.slots = S /\ u.requests = [t.requests EXCEPT ![r] = q]

LEMMA Twice ==
  ASSUME NEW t \in StateSet, NEW u, NEW v, NEW r \in Requests, NEW q, NEW S, NEW p, NEW T,
         Does(t, u, r, q, S), Does(u, v, r, p, T)
  PROVE  Does(t, v, r, p, T)
  BY DEF Does, StateSet

LEMMA Requested ==
  ASSUME NEW t \in StateSet, NEW r \in Requests
  PROVE  t.requests[r] \in RequestSet /\ t.slots \in SUBSET Requests /\ t.alive \in BOOLEAN
  BY DEF StateSet

\* A request stays a request, whatever field is set.
LEMMA Fields ==
  ASSUME NEW q \in RequestSet
  PROVE  /\ \A x \in Results : [q EXCEPT !.told = Append(q.told, x)] \in RequestSet
         /\ \A x \in Phases : [q EXCEPT !.phase = x] \in RequestSet
         /\ \A x \in BOOLEAN : [q EXCEPT !.phase = "calling", !.slotless = x] \in RequestSet
         /\ \A x \in BOOLEAN : [q EXCEPT !.stray = x] \in RequestSet
         /\ \A x \in {"no", "aborted", "destroyed"} : [q EXCEPT !.aborted = x] \in RequestSet
         /\ \A x \in ListKinds \cup {"media"} : [q EXCEPT !.kind = x] \in RequestSet
         /\ \A x \in Lists : [q EXCEPT !.list = x] \in RequestSet
         /\ \A x \in Nat, h \in HashOrNone : [q EXCEPT !.game = x, !.hash = h] \in RequestSet
<1>1. ASSUME NEW x \in Results PROVE [q EXCEPT !.told = Append(q.told, x)] \in RequestSet
  <2>1. q.told \in Seq(Results) BY DEF RequestSet
  <2>2. Append(q.told, x) \in Seq(Results)  BY <2>1
  <2> DEFINE told == Append(q.told, x)
  <2> HIDE DEF told
  <2>3. told \in Seq(Results) => [q EXCEPT !.told = told] \in RequestSet  BY DEF RequestSet
  <2>4. QED  BY <2>2, <2>3 DEF told
<1>2. \A x \in Phases : [q EXCEPT !.phase = x] \in RequestSet
  BY DEF RequestSet
<1>3. \A x \in BOOLEAN : [q EXCEPT !.phase = "calling", !.slotless = x] \in RequestSet
  BY DEF RequestSet, Phases
<1>4. \A x \in BOOLEAN : [q EXCEPT !.stray = x] \in RequestSet  BY DEF RequestSet
<1>5. \A x \in {"no", "aborted", "destroyed"} : [q EXCEPT !.aborted = x] \in RequestSet  BY DEF RequestSet
<1>6. \A x \in ListKinds \cup {"media"} : [q EXCEPT !.kind = x] \in RequestSet  BY DEF RequestSet
<1>7. \A x \in Lists : [q EXCEPT !.list = x] \in RequestSet  BY DEF RequestSet
<1>8. \A x \in Nat, h \in HashOrNone : [q EXCEPT !.game = x, !.hash = h] \in RequestSet  BY DEF RequestSet
<1>9. QED  BY <1>1, <1>2, <1>3, <1>4, <1>5, <1>6, <1>7, <1>8

LEMMA Storing ==
  ASSUME NEW t \in StateSet, NEW r \in Requests, NEW q \in RequestSet, NEW S \in SUBSET Requests
  PROVE  Does(t, [t EXCEPT !.slots = S, !.requests = [t.requests EXCEPT ![r] = q]], r, q, S)
  BY DEF Does, StateSet

LEMMA Telling ==
  ASSUME NEW t \in StateSet, NEW r \in Requests, NEW result \in Results
  PROVE  Does(t, Tell(t, r, result), r,
              [t.requests[r] EXCEPT !.told = Append(t.requests[r].told, result)], t.slots)
<1> DEFINE q == [t.requests[r] EXCEPT !.told = Append(t.requests[r].told, result)]
<1>1. q \in RequestSet  BY Requested, Fields
<1>2. Tell(t, r, result) = [t EXCEPT !.requests = [t.requests EXCEPT ![r] = q]]  BY DEF Tell
<1> HIDE DEF q
<1>3. [t EXCEPT !.requests = [t.requests EXCEPT ![r] = q]] \in StateSet  BY <1>1 DEF StateSet
<1>4. QED  BY <1>1, <1>2, <1>3 DEF Does, StateSet, q

LEMMA Phase ==
  ASSUME NEW t \in StateSet, NEW r \in Requests, NEW x \in Phases
  PROVE  Does(t, [t EXCEPT !.requests[r].phase = x], r, [t.requests[r] EXCEPT !.phase = x], t.slots)
<1> DEFINE q == [t.requests[r] EXCEPT !.phase = x]
<1>1. q \in RequestSet  BY Requested, Fields
<1>2. [t EXCEPT !.requests[r].phase = x] = [t EXCEPT !.requests = [t.requests EXCEPT ![r] = q]]  OBVIOUS
<1> HIDE DEF q
<1>3. [t EXCEPT !.requests = [t.requests EXCEPT ![r] = q]] \in StateSet  BY <1>1 DEF StateSet
<1>4. QED  BY <1>1, <1>2, <1>3 DEF Does, StateSet, q

\* rc_client_begin_async: there may be no free slot.
LEMMA Beginning ==
  ASSUME NEW t \in StateSet, NEW r \in Requests
  PROVE  \E full \in BOOLEAN :
           Does(t, BeginAsync(t, r), r, [t.requests[r] EXCEPT !.phase = "calling", !.slotless = full],
                IF full THEN t.slots ELSE t.slots \cup {r})
<1>1. PICK full \in BOOLEAN : full = ~(Cardinality(t.slots) < Slots)  OBVIOUS
<1> DEFINE q == [t.requests[r] EXCEPT !.phase = "calling", !.slotless = full]
           S == IF full THEN t.slots ELSE t.slots \cup {r}
<1>2. BeginAsync(t, r) = [t EXCEPT !.slots = S, !.requests = [t.requests EXCEPT ![r] = q]]
  BY <1>1 DEF BeginAsync
<1>3. q \in RequestSet /\ S \in SUBSET Requests  BY Requested, Fields
<1> HIDE DEF q, S
<1>4. Does(t, [t EXCEPT !.slots = S, !.requests = [t.requests EXCEPT ![r] = q]], r, q, S)
  BY <1>3, Storing
<1>5. Does(t, BeginAsync(t, r), r, q, S)  BY <1>2, <1>4
<1> USE DEF q, S
<1>6. QED  BY <1>5

\* rc_client_end_async
LEMMA Ending ==
  ASSUME NEW t \in StateSet, NEW r \in Requests
  PROVE  /\ t.requests[r].aborted = "destroyed" => EndAsync(t, r) = t
         /\ t.requests[r].aborted # "destroyed" =>
              \E gone \in BOOLEAN :
                /\ gone = ~t.alive
                /\ Does(t, EndAsync(t, r), r, [t.requests[r] EXCEPT !.stray = gone], t.slots \ {r})
<1>1. PICK gone \in BOOLEAN : gone = ~t.alive  OBVIOUS
<1> DEFINE q == [t.requests[r] EXCEPT !.stray = gone]
           S == t.slots \ {r}
<1>2. t.requests[r].aborted = "destroyed" => EndAsync(t, r) = t  BY DEF EndAsync
<1>3. t.requests[r].aborted # "destroyed" =>
        EndAsync(t, r) = [t EXCEPT !.slots = S, !.requests = [t.requests EXCEPT ![r] = q]]
  BY <1>1 DEF EndAsync
<1>4. q \in RequestSet /\ S \in SUBSET Requests  BY Requested, Fields
<1> HIDE DEF q, S
<1>5. Does(t, [t EXCEPT !.slots = S, !.requests = [t.requests EXCEPT ![r] = q]], r, q, S)
  BY <1>4, Storing
<1> USE DEF q, S
<1>6. QED  BY <1>1, <1>2, <1>3, <1>5
\* What is not told of it or a matter of its phase.
Like(p, q) == /\ p.kind = q.kind /\ p.game = q.game /\ p.aborted = q.aborted
              /\ p.slotless = q.slotless /\ p.stray = q.stray

\* One result is the first and the last.
LEMMA FirstResult ==
  ASSUME NEW s, NEW p, NEW x \in Results, s = <<>>, p = Append(s, x)
  PROVE  p # <<>> /\ Len(p) = 1
<1>1. s \in Seq(Results) /\ Len(s) = 0  OBVIOUS
<1>2. QED  BY <1>1

LEMMA TellingFields ==
  ASSUME NEW t \in StateSet, NEW r \in Requests, NEW result \in Results
  PROVE  \E p \in RequestSet : /\ Does(t, Tell(t, r, result), r, p, t.slots) /\ Like(p, t.requests[r])
                               /\ p.phase = t.requests[r].phase
                               /\ p.told = Append(t.requests[r].told, result)
<1> DEFINE q == t.requests[r]
           told == Append(q.told, result)
           p == [q EXCEPT !.told = told]
<1>1. Does(t, Tell(t, r, result), r, p, t.slots)  BY Telling
<1>2. q \in RequestSet  BY Requested
<1> HIDE DEF q, told
<1>3. p \in RequestSet /\ Like(p, q) /\ p.phase = q.phase /\ p.told = told
  BY <1>1, <1>2 DEF Does, Like, RequestSet
<1> HIDE DEF p
<1>4. QED  BY <1>1, <1>3 DEF q, told

SetPhase(t, r, x) == [t EXCEPT !.requests[r].phase = x]

LEMMA PhaseFields ==
  ASSUME NEW t \in StateSet, NEW r \in Requests, NEW x \in Phases
  PROVE  \E p \in RequestSet : /\ Does(t, SetPhase(t, r, x), r, p, t.slots)
                               /\ Like(p, t.requests[r]) /\ p.phase = x /\ p.told = t.requests[r].told
<1> DEFINE q == t.requests[r]
           p == [q EXCEPT !.phase = x]
<1>1. Does(t, SetPhase(t, r, x), r, p, t.slots)  BY Phase DEF SetPhase
<1>2. q \in RequestSet  BY Requested
<1> HIDE DEF q
<1>3. p \in RequestSet /\ Like(p, q) /\ p.phase = x /\ p.told = q.told
  BY <1>1, <1>2 DEF Does, Like, RequestSet
<1> HIDE DEF p
<1>4. QED  BY <1>1, <1>3 DEF q

\* The state after, seen from the request.
LEMMA After ==
  ASSUME NEW t \in StateSet, NEW u, NEW r \in Requests, NEW q, NEW S, Does(t, u, r, q, S)
  PROVE  /\ u \in StateSet /\ u.requests[r] = q /\ u.slots = S /\ u.alive = t.alive /\ u.load = t.load
         /\ S \in SUBSET Requests /\ q \in RequestSet
  BY DEF Does, StateSet

LEMMA PhaseAfter ==
  ASSUME NEW t \in StateSet, NEW r \in Requests, NEW x \in Phases, NEW u, NEW q, NEW S, Does(t, u, r, q, S)
  PROVE  \E p \in RequestSet : /\ Does(t, SetPhase(u, r, x), r, p, S)
                               /\ Like(p, q) /\ p.phase = x /\ p.told = q.told
<1>1. u \in StateSet /\ u.requests[r] = q /\ u.slots = S  BY SMTT(60), After
<1>2. PICK p \in RequestSet : /\ Does(u, SetPhase(u, r, x), r, p, u.slots)
                             /\ Like(p, u.requests[r]) /\ p.phase = x /\ p.told = u.requests[r].told
  BY <1>1, PhaseFields
<1>3. Does(t, SetPhase(u, r, x), r, p, S)  BY <1>1, <1>2, Twice
<1>4. QED  BY <1>1, <1>2, <1>3

\* A request is told and done.
LEMMA Finishing ==
  ASSUME NEW t \in StateSet, NEW r \in Requests, NEW result \in Results
  PROVE  \E p \in RequestSet :
           /\ Does(t, Finish(t, r, result), r, p, t.slots)
           /\ Like(p, t.requests[r]) /\ p.phase = "done" /\ p.told = Append(t.requests[r].told, result)
<1> DEFINE u == Tell(t, r, result)
<1>1. PICK q \in RequestSet : /\ Does(t, u, r, q, t.slots) /\ Like(q, t.requests[r])
                             /\ q.told = Append(t.requests[r].told, result)
  BY TellingFields
<1> HIDE DEF u
<1>2. "done" \in Phases  BY DEF Phases
<1>3. PICK p \in RequestSet : /\ Does(t, SetPhase(u, r, "done"), r, p, t.slots)
                             /\ Like(p, q) /\ p.phase = "done" /\ p.told = q.told
  BY <1>1, <1>2, PhaseAfter
<1>4. Like(p, t.requests[r])  BY <1>1, <1>3 DEF Like
<1>5. Finish(t, r, result) = SetPhase(u, r, "done")  BY DEF Finish, SetPhase, u
<1>6. QED  BY <1>1, <1>3, <1>4, <1>5

LEMMA BeginningFields ==
  ASSUME NEW t \in StateSet, NEW r \in Requests
  PROVE  \E p \in RequestSet, S \in SUBSET Requests :
           /\ Does(t, BeginAsync(t, r), r, p, S) /\ S \ {r} = t.slots \ {r}
           /\ p.phase = "calling" /\ (~p.slotless => r \in S) /\ (r \in S => r \in t.slots \/ ~p.slotless)
           /\ LET q == t.requests[r]
              IN /\ p.kind = q.kind /\ p.game = q.game /\ p.aborted = q.aborted
                 /\ p.stray = q.stray /\ p.told = q.told
<1> DEFINE q == t.requests[r]
<1>1. PICK full \in BOOLEAN :
        Does(t, BeginAsync(t, r), r, [q EXCEPT !.phase = "calling", !.slotless = full],
             IF full THEN t.slots ELSE t.slots \cup {r})
  BY Beginning
<1>2. q \in RequestSet  BY Requested
<1> HIDE DEF q
<1> DEFINE p == [q EXCEPT !.phase = "calling", !.slotless = full]
           S == IF full THEN t.slots ELSE t.slots \cup {r}
<1>3. /\ p.phase = "calling" /\ p.slotless = full /\ p.kind = q.kind /\ p.game = q.game
      /\ p.aborted = q.aborted /\ p.stray = q.stray /\ p.told = q.told
  BY <1>2 DEF RequestSet
<1>4. S \ {r} = t.slots \ {r} /\ (~full => r \in S) /\ (r \in S => r \in t.slots \/ ~full)
  OBVIOUS
<1> HIDE DEF p, S
<1>5. Does(t, BeginAsync(t, r), r, p, S)  BY <1>1 DEF p, S
<1>6. p \in RequestSet /\ S \in SUBSET Requests  BY <1>5, After
<1>7. QED  BY <1>3, <1>4, <1>5, <1>6 DEF q

-----------------------------------------------------------------------------
(* The actions.                                                             *)

\* A record of the state is the state.
LEMMA Becoming ==
  ASSUME NEW t \in StateSet, Becomes(t)
  PROVE  State' = t
  BY DEF Becomes, State, StateSet

\* What one request does keeps what holds of all.
LEMMA Doing ==
  ASSUME NEW t \in StateSet, EachOK(t), NEW u, NEW r \in Requests, NEW q, NEW S,
         Does(t, u, r, q, S), S \ {r} = t.slots \ {r},
         RequestOK(q, t.alive, r \in S, t.load.pending = r)
  PROVE  u \in StateSet /\ EachOK(u)
<1>1. /\ u \in StateSet /\ u.alive = t.alive /\ u.load = t.load /\ u.slots = S
      /\ u.requests = [t.requests EXCEPT ![r] = q] /\ q \in RequestSet
  BY DEF Does
<1>2. /\ u.requests[r] = q
      /\ \A x \in Requests \ {r} : u.requests[x] = t.requests[x] /\ (x \in u.slots <=> x \in t.slots)
  BY <1>1 DEF StateSet
<1>3. QED  BY <1>1, <1>2, Spread

LEMMA Acting ==
  ASSUME RequestsInv, NEW u, NEW r \in Requests, NEW q, NEW S, Does(State, u, r, q, S),
         S \ {r} = slots \ {r}, RequestOK(q, alive, r \in S, load.pending = r),
         Becomes(u), games' \in Nat
  PROVE  RequestsInv'
<1>1. /\ State \in StateSet /\ EachOK(State) /\ State.slots = slots
      /\ State.alive = alive /\ State.load = load
  BY DEF RequestsInv, State
<1>2. u \in StateSet /\ EachOK(u)  BY <1>1, Doing
<1>3. State' = u  BY <1>2, Becoming
<1>4. QED  BY <1>2, <1>3 DEF RequestsInv

\* What is known of a request, from the invariant.
LEMMA Known ==
  ASSUME RequestsInv, NEW r \in Requests
  PROVE  /\ State \in StateSet /\ EachOK(State) /\ State.requests = requests /\ State.slots = slots
         /\ State.alive = alive /\ State.load = load /\ State.game = game
         /\ requests[r] \in RequestSet /\ slots \in SUBSET Requests /\ alive \in BOOLEAN
         /\ load \in LoadSet /\ game \in GameSet /\ games \in Nat
         /\ RequestOK(requests[r], alive, r \in slots, load.pending = r)
  BY DEF RequestsInv, State, StateSet, EachOK

\* A list is asked for, or refused.
LEMMA BeginFetchKeeps ==
  ASSUME RequestsInv, NEW r \in Requests, NEW kind \in ListKinds, NEW possible,
         BeginFetch(r, kind, possible)
  PROVE  RequestsInv'
<1> DEFINE q == requests[r]
           k == [q EXCEPT !.kind = kind]
           t == [State EXCEPT !.requests[r].kind = kind]
<1>1. /\ State \in StateSet /\ State.requests = requests /\ State.slots = slots /\ q \in RequestSet
      /\ slots \in SUBSET Requests /\ games \in Nat /\ RequestOK(q, alive, r \in slots, load.pending = r)
  BY Known
<1>2. /\ alive /\ q.phase = "fresh" /\ games' = games
      /\ Becomes(IF possible THEN BeginAsync(t, r) ELSE Finish(t, r, "invalid"))
  BY DEF BeginFetch
<1>3. Does(State, t, r, k, slots)
  <2>1. k \in RequestSet  BY <1>1, Fields
  <2>2. t = [State EXCEPT !.requests = [requests EXCEPT ![r] = k]]  BY <1>1
  <2> HIDE DEF k
  <2>3. [State EXCEPT !.requests = [requests EXCEPT ![r] = k]] \in StateSet  BY <1>1, <2>1 DEF StateSet
  <2>4. QED  BY <1>1, <2>1, <2>2, <2>3 DEF Does, StateSet
<1> HIDE DEF t
<1>4. t \in StateSet /\ t.requests[r] = k /\ t.slots = slots  BY <1>1, <1>3 DEF Does, StateSet
<1>5. /\ k \in RequestSet /\ k.kind = kind /\ k.told = <<>> /\ k.aborted = "no" /\ ~k.stray /\ k.game = 0
      /\ load.pending # r /\ r \notin slots
  <2>1. k \in RequestSet  BY <1>1, Fields
  <2>2. /\ k.kind = kind /\ k.told = q.told /\ k.aborted = q.aborted /\ k.stray = q.stray
        /\ k.game = q.game
    BY <1>1 DEF RequestSet
  <2> HIDE DEF k, q
  <2>3. QED  BY <1>1, <1>2, <2>1, <2>2 DEF RequestOK, Active
<1> HIDE DEF k
<1>6. CASE possible
  <2> DEFINE u == BeginAsync(t, r)
  <2>1. PICK p \in RequestSet, S \in SUBSET Requests :
          /\ Does(t, u, r, p, S) /\ S \ {r} = slots \ {r}
          /\ p.phase = "calling" /\ (~p.slotless => r \in S) /\ (r \in S => r \in slots \/ ~p.slotless)
          /\ p.kind = k.kind /\ p.game = k.game /\ p.aborted = k.aborted
          /\ p.stray = k.stray /\ p.told = k.told
    BY <1>4, BeginningFields
  <2> HIDE DEF u
  <2>2. Does(State, u, r, p, S)  BY <1>1, <1>3, <1>4, <2>1, Twice
  <2>3. RequestOK(p, alive, r \in S, load.pending = r)  BY <1>2, <1>5, <2>1 DEF RequestOK, Active
  <2>4. Becomes(u) /\ games' \in Nat  BY <1>1, <1>2, <1>6 DEF u
  <2>5. QED  BY <2>1, <2>2, <2>3, <2>4, Acting
<1>7. CASE ~possible
  <2> DEFINE u == Finish(t, r, "invalid")
  <2>1. PICK p \in RequestSet :
          /\ Does(t, u, r, p, t.slots)
          /\ Like(p, t.requests[r]) /\ p.phase = "done" /\ p.told = Append(t.requests[r].told, "invalid")
    BY <1>4, Finishing DEF Results
  <2> HIDE DEF u
  <2>2. Does(State, u, r, p, slots) /\ Like(p, k)  BY <1>1, <1>3, <1>4, <2>1, Twice
  <2>3. p.told # <<>> /\ Len(p.told) = 1  BY <1>4, <1>5, <2>1, FirstResult DEF Results
  <2>4. RequestOK(p, alive, r \in slots, load.pending = r)  BY <1>2, <1>5, <2>1, <2>2, <2>3 DEF RequestOK, Active, Like
  <2>5. Becomes(u) /\ games' \in Nat  BY <1>1, <1>2, <1>7 DEF u
  <2>6. QED  BY <2>2, <2>4, <2>5, Acting
<1>8. QED  BY <1>6, <1>7

-----------------------------------------------------------------------------
(* Answers.                                                                 *)

\* What every answer begins with: the slot is free again, and an answer that finds the client gone
\* touches it only for want of a slot.
LEMMA Answering ==
  ASSUME RequestsInv, NEW r \in Requests, requests[r].phase \in Active
  PROVE  \E p \in RequestSet :
           /\ Does(State, Answered(State, r), r, p, slots \ {r})
           /\ p.kind = requests[r].kind /\ p.game = requests[r].game /\ p.aborted = requests[r].aborted
           /\ p.told = <<>> /\ (p.stray => p.slotless) /\ p.phase \in {"answered", "done"}
<1> DEFINE q == requests[r]
           ended == EndAsync(State, r)
           next == IF q.phase = "calling" THEN "answered" ELSE "done"
<1>1. /\ State \in StateSet /\ State.requests = requests /\ State.slots = slots /\ State.alive = alive
      /\ q \in RequestSet /\ slots \in SUBSET Requests /\ alive \in BOOLEAN
      /\ RequestOK(q, alive, r \in slots, load.pending = r)
  BY Known
<1>2. \E e \in RequestSet :
        /\ Does(State, ended, r, e, slots \ {r})
        /\ e.kind = q.kind /\ e.game = q.game /\ e.aborted = q.aborted /\ e.phase = q.phase
        /\ e.told = <<>> /\ (e.stray => e.slotless)
  <2>1. CASE q.aborted = "destroyed"
    <3>1. ended = State  BY <1>1, <2>1, Ending
    <3>2. r \notin slots  BY <1>1, <2>1 DEF RequestOK
    <3>3. Does(State, State, r, q, slots \ {r})  BY <1>1, <3>2 DEF Does, StateSet
    <3>4. q.told = <<>> /\ (q.stray => q.slotless)  BY <1>1 DEF RequestOK
    <3>5. QED  BY <1>1, <3>1, <3>3, <3>4
  <2>2. CASE q.aborted # "destroyed"
    <3>1. PICK gone \in BOOLEAN :
            gone = ~alive /\ Does(State, ended, r, [q EXCEPT !.stray = gone], slots \ {r})
      BY <1>1, <2>2, Ending
    <3> DEFINE e == [q EXCEPT !.stray = gone]
    <3>2. /\ e \in RequestSet /\ e.kind = q.kind /\ e.game = q.game /\ e.aborted = q.aborted
          /\ e.phase = q.phase /\ e.told = q.told /\ e.slotless = q.slotless /\ e.stray = gone
      BY <1>1, <3>1 DEF Does, RequestSet
    <3> HIDE DEF e
    <3>3. q.told = <<>> /\ (~alive => q.slotless)  BY <1>1, <2>2 DEF RequestOK
    <3>4. Does(State, ended, r, e, slots \ {r})  BY <3>1 DEF e
    <3>5. QED  BY <3>1, <3>2, <3>3, <3>4
  <2>3. QED  BY <2>1, <2>2
<1>3. PICK e \in RequestSet :
        /\ Does(State, ended, r, e, slots \ {r})
        /\ e.kind = q.kind /\ e.game = q.game /\ e.aborted = q.aborted /\ e.phase = q.phase
        /\ e.told = <<>> /\ (e.stray => e.slotless)
  BY <1>2
<1> HIDE DEF ended
<1>4. Answered(State, r) = SetPhase(ended, r, next)
  <2>1. ended.requests[r] = e  BY <1>1, <1>3, After
  <2>2. QED  BY <1>3, <2>1 DEF Answered, SetPhase, ended
<1>5. PICK x \in Phases : x = next  BY DEF Phases
<1>6. x \in {"answered", "done"}  BY <1>5
<1> HIDE DEF next, q
<1>7. PICK p \in RequestSet : /\ Does(State, SetPhase(ended, r, x), r, p, slots \ {r})
                             /\ Like(p, e) /\ p.phase = x /\ p.told = e.told
  BY <1>1, <1>3, PhaseAfter
<1>8. QED  BY <1>3, <1>4, <1>5, <1>6, <1>7 DEF Like, q

\* Nobody hears of a request that was aborted, of any other once.
LEMMA AnsweringKeeps ==
  ASSUME RequestsInv, NEW r \in Requests, requests[r].phase \in Active, games' = games,
         NEW u, NEW q, Does(State, u, r, q, slots \ {r}), Becomes(u),
         q.kind = requests[r].kind, q.game = requests[r].game, q.aborted = requests[r].aborted,
         q.stray => q.slotless, q.phase \in {"answered", "done"},
         Len(q.told) <= 1, q.aborted = "no" => q.told # <<>>, q.aborted # "no" => q.told = <<>>
  PROVE  RequestsInv'
<1>1. /\ State \in StateSet /\ requests[r] \in RequestSet /\ games \in Nat
      /\ RequestOK(requests[r], alive, r \in slots, load.pending = r)
  BY Known
<1>2. RequestOK(q, alive, r \in slots \ {r}, load.pending = r)  BY <1>1 DEF RequestOK, Active
<1>3. QED  BY <1>1, <1>2, Acting

\* rc_client_fetch_*_callback
LEMMA AnswerFetchKeeps ==
  ASSUME RequestsInv, NEW r \in Requests, NEW kinds \in SUBSET ListKinds, NEW result \in {"ok", "error"},
         AnswerFetch(r, kinds, result)
  PROVE  RequestsInv'
<1> DEFINE t == Answered(State, r)
           kind == requests[r].kind
<1>1. /\ State \in StateSet /\ State.requests = requests /\ State.slots = slots
      /\ requests[r] \in RequestSet
  BY Known
<1>2. requests[r].phase \in Active /\ kind \in ListKinds /\ games' = games  BY DEF AnswerFetch, Active
<1>3. PICK entries \in Answers[kind] :
        Becomes(CASE requests[r].aborted # "no" -> t
                  [] requests[r].aborted = "no" /\ result # "ok" -> Tell(t, r, result)
                  [] OTHER -> [Tell(t, r, "ok") EXCEPT !.requests[r].list = ListOf(kind, entries)])
  BY DEF AnswerFetch
<1>4. PICK p \in RequestSet :
        /\ Does(State, t, r, p, slots \ {r})
        /\ p.kind = requests[r].kind /\ p.game = requests[r].game /\ p.aborted = requests[r].aborted
        /\ p.told = <<>> /\ (p.stray => p.slotless) /\ p.phase \in {"answered", "done"}
  BY <1>2, Answering
<1> HIDE DEF t
<1>5. t \in StateSet /\ t.requests[r] = p /\ t.slots = slots \ {r}  BY <1>1, <1>4, After
<1>6. CASE requests[r].aborted # "no"
  <2>1. Len(p.told) <= 1 /\ p.told = <<>>
    <3>1. Len(<<>>) = 0  OBVIOUS
    <3>2. QED  BY <1>4, <3>1
  <2>2. QED  BY <1>2, <1>3, <1>4, <1>6, <2>1, AnsweringKeeps
<1>7. CASE requests[r].aborted = "no"
  <2>1. PICK q \in RequestSet :
          /\ Does(t, Tell(t, r, result), r, q, t.slots) /\ Like(q, p) /\ q.phase = p.phase
          /\ q.told = Append(p.told, result)
    <3>1. result \in Results  BY DEF Results
    <3>2. QED  BY <1>5, <3>1, TellingFields, ZenonT(60)
  <2>2. q.told # <<>> /\ Len(q.told) <= 1  BY <1>4, <2>1, FirstResult DEF Results
  <2>3. Does(State, Tell(t, r, result), r, q, slots \ {r})  BY <1>1, <1>4, <1>5, <2>1, Twice
  <2>4. CASE result # "ok"
    <3>1. Becomes(Tell(t, r, result))  BY <1>3, <1>7, <2>4
    <3>2. QED  BY <1>2, <1>4, <1>7, <2>1, <2>2, <2>3, <3>1, AnsweringKeeps DEF Like
  <2>5. CASE result = "ok"
    <3> DEFINE v == Tell(t, r, "ok")
               list == ListOf(kind, entries)
               l == [q EXCEPT !.list = list]
    <3>1. Becomes([v EXCEPT !.requests[r].list = list])  BY <1>3, <1>7, <2>5
    <3> HIDE DEF v
    <3>2. v \in StateSet /\ v.requests[r] = q /\ v.slots = slots \ {r}  BY <1>5, <2>1, <2>5, After DEF v
    <3>3. list \in Lists  BY <1>2, <1>3 DEF Lists
    <3> HIDE DEF list
    <3>4. l \in RequestSet  BY <3>3, Fields
    <3>5. /\ l.kind = q.kind /\ l.game = q.game /\ l.aborted = q.aborted /\ l.stray = q.stray
          /\ l.slotless = q.slotless /\ l.phase = q.phase /\ l.told = q.told
      BY DEF RequestSet
    <3>6. [v EXCEPT !.requests[r].list = list] = [v EXCEPT !.requests = [v.requests EXCEPT ![r] = l]]
      BY <3>2
    <3> HIDE DEF l
    <3>7. [v EXCEPT !.requests = [v.requests EXCEPT ![r] = l]] \in StateSet  BY <3>2, <3>4 DEF StateSet
    <3>8. Does(v, [v EXCEPT !.requests[r].list = list], r, l, slots \ {r})
      BY <3>2, <3>4, <3>6, <3>7 DEF Does, StateSet
    <3>9. Does(State, [v EXCEPT !.requests[r].list = list], r, l, slots \ {r})
      BY <1>1, <2>3, <2>5, <3>2, <3>8, Twice DEF v
    <3>10. QED  BY ZenonT(60), <1>2, <1>4, <1>7, <2>1, <2>2, <3>1, <3>5, <3>9, AnsweringKeeps DEF Like
  <2>6. QED  BY <2>4, <2>5
<1>8. QED  BY <1>6, <1>7

-----------------------------------------------------------------------------
(* Handles and the client.                                                  *)

\* rc_client_async_handle_valid: the handle is none of what is known of a request.
LEMMA ReturnsKeeps ==
  ASSUME RequestsInv, NEW r \in Requests, Returns(r)
  PROVE  RequestsInv'
<1> DEFINE q == requests[r]
           next == IF q.phase = "calling" THEN "open" ELSE "done"
           u == [State EXCEPT !.requests[r].handle = r \in slots,
                              !.requests[r].phase = IF @ = "calling" THEN "open" ELSE "done"]
<1>1. /\ State \in StateSet /\ State.requests = requests /\ State.slots = slots /\ q \in RequestSet
      /\ slots \in SUBSET Requests /\ games \in Nat /\ RequestOK(q, alive, r \in slots, load.pending = r)
  BY Known
<1>2. Becomes(u) /\ games' = games /\ q.phase \in {"calling", "answered"} /\ alive  BY DEF Returns
<1>3. PICK held \in BOOLEAN : held = (r \in slots)
  <2>1. CASE r \in slots  BY <2>1, TRUE = (r \in slots)
  <2>2. CASE r \notin slots  BY <2>2, FALSE = (r \in slots)
  <2>3. QED  BY <2>1, <2>2
<1>4. PICK x \in Phases : x = next  BY DEF Phases
<1> DEFINE p == [q EXCEPT !.handle = held, !.phase = x]
<1>5. /\ p \in RequestSet /\ p.told = q.told /\ p.aborted = q.aborted /\ p.stray = q.stray /\ p.game = q.game
      /\ p.kind = q.kind /\ p.slotless = q.slotless /\ p.phase = x
  BY <1>1 DEF RequestSet
<1>6. u = [State EXCEPT !.requests = [requests EXCEPT ![r] = p]]
  BY ZenonT(60), <1>1, <1>3, <1>4
<1> HIDE DEF u, p
<1>7. [State EXCEPT !.requests = [requests EXCEPT ![r] = p]] \in StateSet  BY <1>1, <1>5 DEF StateSet
<1>8. Does(State, u, r, p, slots)  BY <1>1, <1>5, <1>6, <1>7 DEF Does, StateSet
<1>9. RequestOK(p, alive, r \in slots, load.pending = r)
  BY <1>1, <1>2, <1>4, <1>5 DEF RequestOK, Active
<1>10. QED  BY <1>1, <1>2, <1>8, <1>9, Acting

\* rc_client_abort_async
LEMMA AbortKeeps ==
  ASSUME RequestsInv, NEW r \in Requests, AbortAsync(r)
  PROVE  RequestsInv'
<1> DEFINE q == requests[r]
           p == [q EXCEPT !.aborted = "aborted"]
           u == [State EXCEPT !.requests[r].aborted = "aborted"]
<1>1. /\ State \in StateSet /\ State.requests = requests /\ State.slots = slots /\ q \in RequestSet
      /\ slots \in SUBSET Requests /\ games \in Nat /\ RequestOK(q, alive, r \in slots, load.pending = r)
  BY Known
<1>2. Becomes(u) /\ games' = games /\ q.phase = "open" /\ alive  BY DEF AbortAsync
<1>3. /\ p \in RequestSet /\ p.told = q.told /\ p.aborted = "aborted" /\ p.stray = q.stray /\ p.game = q.game
      /\ p.kind = q.kind /\ p.slotless = q.slotless /\ p.phase = q.phase
  BY <1>1 DEF RequestSet
<1>4. u = [State EXCEPT !.requests = [requests EXCEPT ![r] = p]]  BY <1>1
<1> HIDE DEF u, p
<1>5. [State EXCEPT !.requests = [requests EXCEPT ![r] = p]] \in StateSet  BY <1>1, <1>3 DEF StateSet
<1>6. Does(State, u, r, p, slots)  BY <1>1, <1>3, <1>4, <1>5 DEF Does, StateSet
<1>7. RequestOK(p, alive, r \in slots, load.pending = r)  BY <1>1, <1>2, <1>3 DEF RequestOK, Active
<1>8. QED  BY <1>1, <1>2, <1>6, <1>7, Acting

\* rc_client_destroy marks the requests that have a slot.
LEMMA DestroyKeeps ==
  ASSUME RequestsInv, Destroy
  PROVE  RequestsInv'
<1> DEFINE gone(x) == IF x \in slots THEN [requests[x] EXCEPT !.aborted = "destroyed"] ELSE requests[x]
           all == [x \in Requests |-> gone(x)]
<1>1. /\ State \in StateSet /\ State.requests = requests /\ games \in Nat /\ requests \in [Requests -> RequestSet]
      /\ State.hardcore \in BOOLEAN /\ State.known \in [Hashes -> Int]
  BY DEF RequestsInv, State, StateSet
<1>2. /\ games' = games
      /\ Becomes([State EXCEPT !.alive = FALSE, !.game = NoGame, !.load = NoLoad, !.slots = {},
                               !.requests = all])
  BY <1>1 DEF Destroy
<1>3. ASSUME NEW x \in Requests
      PROVE  gone(x) \in RequestSet /\ RequestOK(gone(x), FALSE, FALSE, FALSE)
  <2>1. requests[x] \in RequestSet /\ RequestOK(requests[x], alive, x \in slots, load.pending = x)
    BY Known
  <2>2. requests[x].phase \in {"fresh", "open", "done"} /\ alive  BY DEF Destroy
  <2>3. CASE x \notin slots  BY <2>1, <2>2, <2>3 DEF RequestOK, Active
  <2>4. CASE x \in slots
    <3> DEFINE q == requests[x]
               p == [q EXCEPT !.aborted = "destroyed"]
    <3>1. /\ p \in RequestSet /\ p.told = q.told /\ p.aborted = "destroyed" /\ p.stray = q.stray
          /\ p.game = q.game /\ p.kind = q.kind /\ p.slotless = q.slotless /\ p.phase = q.phase
      BY <2>1 DEF RequestSet
    <3>2. gone(x) = p  BY <2>4
    <3> HIDE DEF p
    <3>3. RequestOK(p, FALSE, FALSE, FALSE)  BY <2>1, <2>2, <2>4, <3>1 DEF RequestOK, Active
    <3>4. QED  BY <3>1, <3>2, <3>3
  <2>5. QED  BY <2>3, <2>4
<1>4. all \in [Requests -> RequestSet] /\ \A x \in Requests : all[x] = gone(x)  BY <1>3
<1> HIDE DEF all
<1>5. NoGame \in GameSet /\ NoLoad \in LoadSet /\ \A x \in Requests : NoLoad.pending # x
  BY RequestsAssumption DEF NoGame, NoLoad, GameSet, LoadSet, HashOrNone, Files
<1> DEFINE u == [State EXCEPT !.alive = FALSE, !.game = NoGame, !.load = NoLoad, !.slots = {},
                             !.requests = all]
<1>6. u \in StateSet /\ u.alive = FALSE /\ u.slots = {} /\ u.requests = all /\ u.load = NoLoad
  BY <1>1, <1>4, <1>5 DEF StateSet
<1> HIDE DEF u
<1>7. EachOK(u)
  <2>1. ASSUME NEW x \in Requests
        PROVE  RequestOK(u.requests[x], u.alive, x \in u.slots, u.load.pending = x)
    <3>1. RequestOK(gone(x), FALSE, FALSE, FALSE) /\ all[x] = gone(x)  BY <1>3, <1>4
    <3> HIDE DEF gone
    <3>2. QED  BY <3>1, <1>5, <1>6 DEF RequestOK
  <2>2. QED  BY <2>1 DEF EachOK
<1>8. State' = u  BY <1>2, <1>6, Becoming DEF u
<1>9. QED  BY <1>1, <1>2, <1>6, <1>7, <1>8 DEF RequestsInv

-----------------------------------------------------------------------------
(* The media.                                                               *)

\* The game, its hashes and the mode of the client matter to no request.
Beside(t, u) == /\ u \in StateSet /\ u.alive = t.alive /\ u.requests = t.requests /\ u.slots = t.slots
                /\ u.load.pending \in {t.load.pending, "none"}

LEMMA BesideKeeps ==
  ASSUME NEW t \in StateSet, EachOK(t), NEW u, Beside(t, u)
  PROVE  EachOK(u)
<1>1. ASSUME NEW x \in Requests
      PROVE  RequestOK(u.requests[x], u.alive, x \in u.slots, u.load.pending = x)
  <2>1. RequestOK(t.requests[x], t.alive, x \in t.slots, t.load.pending = x)  BY DEF EachOK
  <2>2. u.load.pending = x => t.load.pending = x  BY RequestsAssumption DEF Beside
  <2>3. QED  BY <2>1, <2>2 DEF RequestOK, Beside
<1>2. QED  BY <1>1 DEF EachOK

\* rc_client_change_media_internal
LEMMA Changing ==
  ASSUME NEW t \in StateSet, NEW r \in Requests, NEW hash \in HashOrNone
  PROVE  \E p \in RequestSet, x \in Results :
           /\ Does(t, ChangeMediaInternal(t, r, hash), r, p, t.slots) /\ Like(p, t.requests[r])
           /\ p.phase = t.requests[r].phase /\ p.told = Append(t.requests[r].told, x)
<1> DEFINE c == [t EXCEPT !.game.hash = hash]
           soft == [c EXCEPT !.hardcore = FALSE]
<1>1. c \in StateSet /\ c.alive = t.alive /\ c.load = t.load /\ c.slots = t.slots /\ c.requests = t.requests
  BY DEF StateSet, GameSet
<1>2. /\ soft \in StateSet /\ soft.alive = t.alive /\ soft.load = t.load /\ soft.slots = t.slots
      /\ soft.requests = t.requests
  BY <1>1 DEF StateSet
<1>3. \/ ChangeMediaInternal(t, r, hash) = Tell(soft, r, "hardcoreDisabled")
      \/ ChangeMediaInternal(t, r, hash) = Tell(c, r, "ok")
  BY DEF ChangeMediaInternal
<1> HIDE DEF c, soft
<1>4. CASE ChangeMediaInternal(t, r, hash) = Tell(soft, r, "hardcoreDisabled")
  <2>1. "hardcoreDisabled" \in Results  BY DEF Results
  <2>2. PICK p \in RequestSet :
          /\ Does(soft, Tell(soft, r, "hardcoreDisabled"), r, p, soft.slots) /\ Like(p, soft.requests[r])
          /\ p.phase = soft.requests[r].phase /\ p.told = Append(soft.requests[r].told, "hardcoreDisabled")
    BY <1>2, <2>1, TellingFields
  <2>3. Does(t, ChangeMediaInternal(t, r, hash), r, p, t.slots)  BY <1>2, <1>4, <2>2 DEF Does
  <2>4. QED  BY <1>2, <2>1, <2>2, <2>3
<1>5. CASE ChangeMediaInternal(t, r, hash) = Tell(c, r, "ok")
  <2>1. "ok" \in Results  BY DEF Results
  <2>2. PICK p \in RequestSet :
          /\ Does(c, Tell(c, r, "ok"), r, p, c.slots) /\ Like(p, c.requests[r])
          /\ p.phase = c.requests[r].phase /\ p.told = Append(c.requests[r].told, "ok")
    BY <1>1, <2>1, TellingFields
  <2>3. Does(t, ChangeMediaInternal(t, r, hash), r, p, t.slots)  BY <1>1, <1>5, <2>2 DEF Does
  <2>4. QED  BY <1>1, <2>1, <2>2, <2>3
<1>6. QED  BY <1>3, <1>4, <1>5

\* rc_client_identify_changed_media_callback
LEMMA AnswerMediaKeeps ==
  ASSUME RequestsInv, NEW r \in Requests, NEW result \in {"ok", "error"}, NEW id \in Int,
         AnswerMedia(r, result, id)
  PROVE  RequestsInv'
<1> DEFINE q == requests[r]
           t == Answered(State, r)
           learned == [t EXCEPT !.known[q.hash] = id]
           changed == ChangeMediaInternal(learned, r, q.hash)
<1>1. /\ State \in StateSet /\ State.requests = requests /\ State.slots = slots
      /\ q \in RequestSet
  BY Known
<1>2. q.phase \in Active /\ games' = games  BY DEF AnswerMedia, Active
<1>3. \/ q.aborted # "no" /\ (Becomes(t) \/ Becomes(learned))
      \/ q.aborted = "no" /\ (\/ Becomes(Tell(t, r, "noLongerActive")) \/ Becomes(Tell(t, r, result))
                              \/ Becomes(changed))
  BY <1>1 DEF AnswerMedia, RequestSet
<1>4. PICK p \in RequestSet :
        /\ Does(State, t, r, p, slots \ {r})
        /\ p.kind = q.kind /\ p.game = q.game /\ p.aborted = q.aborted
        /\ p.told = <<>> /\ (p.stray => p.slotless) /\ p.phase \in {"answered", "done"}
  BY <1>2, Answering
<1>5. q.hash \in HashOrNone  BY <1>1 DEF RequestSet
<1> HIDE DEF t, q
<1>6. t \in StateSet /\ t.requests[r] = p /\ t.slots = slots \ {r}  BY <1>1, <1>4, After
<1>7. /\ learned \in StateSet /\ learned.requests = t.requests /\ learned.slots = t.slots
      /\ learned.alive = t.alive /\ learned.load = t.load
  BY <1>6 DEF StateSet
<1> HIDE DEF learned
<1>8. Does(State, learned, r, p, slots \ {r})  BY <1>4, <1>7 DEF Does
<1>9. CASE q.aborted # "no"
  <2>1. Len(p.told) <= 1
    <3>1. Len(<<>>) = 0  OBVIOUS
    <3>2. QED  BY <1>4, <3>1
  <2>2. Becomes(t) => RequestsInv'  BY <1>2, <1>4, <1>9, <2>1, AnsweringKeeps DEF q
  <2>3. Becomes(learned) => RequestsInv'  BY <1>2, <1>4, <1>8, <1>9, <2>1, AnsweringKeeps DEF q
  <2>4. QED  BY <1>3, <1>9, <2>2, <2>3
<1>10. CASE q.aborted = "no"
  <2>1. ASSUME NEW u, NEW e \in RequestSet, NEW x \in Results, Becomes(u),
               Does(State, u, r, e, slots \ {r}), Like(e, p), e.phase = p.phase, e.told = Append(p.told, x)
        PROVE  RequestsInv'
    <3>1. e.told # <<>> /\ Len(e.told) <= 1  BY <1>4, <2>1, FirstResult
    <3>2. QED  BY <1>2, <1>4, <1>10, <2>1, <3>1, AnsweringKeeps DEF Like, q
  <2>2. ASSUME NEW x \in Results, Becomes(Tell(t, r, x))  PROVE RequestsInv'
    <3>1. PICK e \in RequestSet : /\ Does(t, Tell(t, r, x), r, e, t.slots) /\ Like(e, p)
                                 /\ e.phase = p.phase /\ e.told = Append(p.told, x)
      BY <1>6, TellingFields, ZenonT(60)
    <3>2. Does(State, Tell(t, r, x), r, e, slots \ {r})  BY <1>1, <1>4, <1>6, <3>1, Twice
    <3>3. QED  BY <2>1, <2>2, <3>1, <3>2
  <2>3. ASSUME Becomes(changed)  PROVE RequestsInv'
    <3>1. PICK e \in RequestSet, x \in Results :
            /\ Does(learned, changed, r, e, learned.slots) /\ Like(e, learned.requests[r])
            /\ e.phase = learned.requests[r].phase /\ e.told = Append(learned.requests[r].told, x)
      BY <1>5, <1>7, Changing
    <3> HIDE DEF changed
    <3>2. Does(State, changed, r, e, slots \ {r})  BY <1>1, <1>6, <1>7, <1>8, <3>1, Twice
    <3>3. Like(e, p) /\ e.phase = p.phase /\ e.told = Append(p.told, x)  BY <1>6, <1>7, <3>1
    <3>4. QED  BY <2>1, <2>3, <3>1, <3>2, <3>3
  <2>4. "noLongerActive" \in Results /\ result \in Results  BY DEF Results
  <2>5. QED  BY <1>3, <1>10, <2>2, <2>3, <2>4
<1>11. QED  BY <1>9, <1>10

\* A request to change the media that was not begun yet, or waited for a load.
Waits(t, r) ==
  LET q == t.requests[r]
  IN /\ q.told = <<>> /\ q.aborted = "no" /\ ~q.stray /\ q.game = 0 /\ q.kind = "media"
     /\ t.alive /\ r \notin t.slots /\ t.load.pending # r

\* A file that is noted.
LEMMA Noting ==
  ASSUME NEW t \in StateSet, NEW q \in RequestSet
  PROVE  HashOf(t, q) \in HashOrNone /\ Beside(t, Noted(t, q))
<1>1. FilesOf(t) \in Files  BY DEF FilesOf, StateSet, GameSet, LoadSet
<1>2. HashOf(t, q) \in HashOrNone
  <2>1. CASE q.path = "none"  BY <2>1 DEF HashOf, RequestSet
  <2>2. CASE q.path # "none" /\ HashedBefore(FilesOf(t), q.path) = {}
    <3>1. q.path \in Paths  BY <2>2 DEF RequestSet
    <3>2. HashOf(t, q) = HashOfFile[q.path]  BY <2>2 DEF HashOf
    <3>3. QED  BY <3>1, <3>2, RequestsAssumption DEF HashOrNone
  <2>3. CASE q.path # "none" /\ HashedBefore(FilesOf(t), q.path) # {}
    <3> DEFINE i == CHOOSE j \in HashedBefore(FilesOf(t), q.path) : TRUE
    <3>1. i \in DOMAIN FilesOf(t)  BY <2>3 DEF HashedBefore
    <3>2. HashOf(t, q) = FilesOf(t)[i].hash  BY <2>3 DEF HashOf
    <3> HIDE DEF i
    <3> DEFINE FileSet == [path : Paths, hash : HashOrNone]
               files == FilesOf(t)
    <3>3. files \in Seq(FileSet)  BY <1>1 DEF Files
    <3>4. files[i] \in FileSet
      <4> HIDE DEF FileSet, files
      <4>1. i \in DOMAIN files  BY <3>1 DEF files
      <4>2. QED  BY <3>3, <4>1
    <3>5. QED  BY <3>2, <3>4
  <2>4. QED  BY <2>1, <2>2, <2>3
<1>3. Beside(t, Noted(t, q))
  <2>1. CASE Noted(t, q) = t  BY <2>1 DEF Beside
  <2>2. CASE Noted(t, q) # t
    <3> DEFINE file == [path |-> q.path, hash |-> HashOf(t, q)]
               noted == Append(FilesOf(t), file)
    <3>1. file \in [path : Paths, hash : HashOrNone]  BY <1>2, <2>2 DEF Noted, RequestSet
    <3>2. noted \in Files
      <4> HIDE DEF file
      <4>1. QED  BY <1>1, <3>1 DEF Files
    <3>3. Noted(t, q) \in {[t EXCEPT !.load.files = noted], [t EXCEPT !.game.files = noted]}
      BY <2>2 DEF Noted
    <3> HIDE DEF noted
    <3>4. Beside(t, [t EXCEPT !.load.files = noted])  BY <3>2 DEF Beside, StateSet, LoadSet
    <3>5. Beside(t, [t EXCEPT !.game.files = noted])  BY <3>2 DEF Beside, StateSet, GameSet
    <3>6. QED  BY <3>3, <3>4, <3>5
  <2>3. QED  BY <2>1, <2>2
<1>4. QED  BY <1>2, <1>3

\* rc_client_begin_change_media_internal
LEMMA BeginInternalKeeps ==
  ASSUME NEW t \in StateSet, EachOK(t), NEW r \in Requests, Waits(t, r), NEW at \in Nat, NEW hash \in HashOrNone
  PROVE  LET u == BeginChangeMediaInternal(t, r, at, hash) IN u \in StateSet /\ EachOK(u)
<1> DEFINE q == t.requests[r]
           u == BeginChangeMediaInternal(t, r, at, hash)
<1>1. q \in RequestSet /\ t.slots \in SUBSET Requests /\ t.alive  BY Requested DEF Waits
<1>2. CASE u = SetPhase(ChangeMediaInternal(t, r, hash), r, "done")
  <2> DEFINE c == ChangeMediaInternal(t, r, hash)
  <2>1. PICK e \in RequestSet, x \in Results :
          Does(t, c, r, e, t.slots) /\ Like(e, q) /\ e.told = Append(q.told, x)
    BY Changing
  <2> HIDE DEF c, q
  <2>2. "done" \in Phases  BY DEF Phases
  <2>3. PICK p \in RequestSet : /\ Does(t, SetPhase(c, r, "done"), r, p, t.slots)
                               /\ Like(p, e) /\ p.phase = "done" /\ p.told = e.told
    BY <2>1, <2>2, PhaseAfter
  <2>4. p.told # <<>> /\ Len(p.told) <= 1  BY <2>1, <2>3, FirstResult DEF Waits, q
  <2>5. RequestOK(p, t.alive, r \in t.slots, t.load.pending = r)
    BY <2>1, <2>3, <2>4 DEF RequestOK, Active, Like, Waits, q
  <2>6. QED  BY <1>2, <2>3, <2>5, Doing DEF c
<1>3. CASE u = BeginAsync([t EXCEPT !.requests[r].game = at, !.requests[r].hash = hash], r)
  <2> DEFINE e == [q EXCEPT !.game = at, !.hash = hash]
             v == [t EXCEPT !.requests = [t.requests EXCEPT ![r] = e]]
  <2>1. /\ e \in RequestSet /\ e.kind = q.kind /\ e.told = q.told /\ e.aborted = q.aborted
        /\ e.stray = q.stray
    BY <1>1 DEF RequestSet
  <2>2. [t EXCEPT !.requests[r].game = at, !.requests[r].hash = hash] = v
    BY <1>1 DEF StateSet
  <2> HIDE DEF e
  <2>3. v \in StateSet  BY <2>1 DEF StateSet
  <2>4. Does(t, v, r, e, t.slots)  BY <2>1, <2>3 DEF Does, StateSet
  <2> HIDE DEF v
  <2>5. v.requests[r] = e /\ v.slots = t.slots  BY <2>3, <2>4, After
  <2>6. PICK p \in RequestSet, S \in SUBSET Requests :
          /\ Does(v, BeginAsync(v, r), r, p, S) /\ S \ {r} = t.slots \ {r}
          /\ p.phase = "calling" /\ (~p.slotless => r \in S)
          /\ p.kind = e.kind /\ p.aborted = e.aborted /\ p.stray = e.stray /\ p.told = e.told
    BY <2>3, <2>5, BeginningFields
  <2>7. Does(t, u, r, p, S)  BY <1>3, <2>2, <2>4, <2>6, Twice
  <2>8. Len(p.told) <= 1
    <3>1. Len(<<>>) = 0  OBVIOUS
    <3>2. QED  BY <2>1, <2>6, <3>1 DEF Waits
  <2> HIDE DEF u
  <2>9. RequestOK(p, t.alive, r \in S, t.load.pending = r)
    BY <2>1, <2>6, <2>8 DEF RequestOK, Active, Waits
  <2>10. QED  BY <2>6, <2>7, <2>9, Doing DEF u
<1>4. QED  BY <1>2, <1>3 DEF BeginChangeMediaInternal, SetPhase

\* rc_client_begin_change_media, rc_client_begin_identify_and_change_media
LEMMA BeginChangeKeeps ==
  ASSUME NEW t \in StateSet, EachOK(t), NEW r \in Requests, Waits(t, r)
  PROVE  BeginChange(t, r) \in StateSet /\ EachOK(BeginChange(t, r))
<1> DEFINE q == t.requests[r]
           pended == [t EXCEPT !.load.pending = r, !.requests[r].phase = "done"]
           internal(at) == BeginChangeMediaInternal(Noted(t, q), r, at, HashOf(t, q))
<1>1. q \in RequestSet /\ t.slots \in SUBSET Requests /\ t.alive  BY Requested DEF Waits
<1>2. t.load.at \in Nat /\ t.game.at \in Nat  BY DEF StateSet, LoadSet, GameSet
<1>3. \/ BeginChange(t, r) = pended
      \/ BeginChange(t, r) = Finish(t, r, "noGame")
      \/ \E at \in Nat : BeginChange(t, r) = internal(at)
  BY <1>2 DEF BeginChange, CheckPendingMedia
<1>4. pended \in StateSet /\ EachOK(pended)
  <2> DEFINE p == [q EXCEPT !.phase = "done"]
  <2>1. /\ p \in RequestSet /\ p.phase = "done" /\ p.kind = q.kind /\ p.game = q.game /\ p.told = q.told
        /\ p.aborted = q.aborted /\ p.stray = q.stray /\ p.slotless = q.slotless
    BY <1>1 DEF RequestSet, Phases
  <2>2. pended = [t EXCEPT !.load.pending = r, !.requests = [t.requests EXCEPT ![r] = p]]  OBVIOUS
  <2> HIDE DEF p
  <2>3. /\ pended \in StateSet /\ pended.alive = t.alive /\ pended.slots = t.slots
        /\ pended.load.pending = r /\ pended.requests = [t.requests EXCEPT ![r] = p]
    BY <2>1, <2>2, ZenonT(60) DEF StateSet, LoadSet
  <2> HIDE DEF pended
  <2>4. pended.requests[r] = p /\ \A x \in Requests \ {r} : pended.requests[x] = t.requests[x]
    BY <2>3 DEF StateSet
  <2>5. Len(p.told) <= 1
    <3>1. Len(<<>>) = 0  OBVIOUS
    <3>2. QED  BY <2>1, <3>1 DEF Waits
  <2>6. RequestOK(p, pended.alive, r \in pended.slots, TRUE)
    BY <2>1, <2>3, <2>5 DEF RequestOK, Active, Waits
  <2>7. RequestOK(pended.requests[r], pended.alive, r \in pended.slots, pended.load.pending = r)
    BY <2>3, <2>4, <2>6
  <2>8. \A x \in Requests \ {r} : /\ pended.requests[x] = t.requests[x]
                                   /\ (x \in pended.slots <=> x \in t.slots)
    BY <2>3, <2>4
  <2>9. pended.load.pending \in {t.load.pending, r, "none"}  BY <2>3
  <2>10. QED  BY ZenonT(60), <2>3, <2>7, <2>8, <2>9, Spread
<1>5. Finish(t, r, "noGame") \in StateSet /\ EachOK(Finish(t, r, "noGame"))
  <2>1. "noGame" \in Results  BY DEF Results
  <2>2. PICK p \in RequestSet : /\ Does(t, Finish(t, r, "noGame"), r, p, t.slots) /\ Like(p, q)
                               /\ p.phase = "done" /\ p.told = Append(q.told, "noGame")
    BY <2>1, Finishing
  <2> HIDE DEF q
  <2>3. p.told # <<>> /\ Len(p.told) <= 1  BY <2>1, <2>2, FirstResult DEF Waits, q
  <2>4. RequestOK(p, t.alive, r \in t.slots, t.load.pending = r)
    BY <2>2, <2>3 DEF RequestOK, Active, Like, Waits, q
  <2>5. QED  BY <2>2, <2>4, Doing
<1>6. ASSUME NEW at \in Nat  PROVE internal(at) \in StateSet /\ EachOK(internal(at))
  <2>1. HashOf(t, q) \in HashOrNone /\ Beside(t, Noted(t, q))  BY <1>1, Noting
  <2> DEFINE n == Noted(t, q)
  <2>2. n \in StateSet /\ EachOK(n)  BY <2>1, BesideKeeps DEF Beside
  <2>3. Waits(n, r)  BY <2>1, RequestsAssumption DEF Waits, Beside
  <2>4. QED  BY <2>1, <2>2, <2>3, BeginInternalKeeps
<1>7. QED  BY <1>3, <1>4, <1>5, <1>6

LEMMA ChangeMediaKeeps ==
  ASSUME RequestsInv, NEW r \in Requests, NEW hash \in HashOrNone, NEW path \in Paths \cup {"none"},
         ChangeMedia(r, hash, path)
  PROVE  RequestsInv'
<1> DEFINE q == requests[r]
           asked == IF load.at # 0 THEN load.at ELSE game.at
           e == [q EXCEPT !.kind = "media", !.hash = hash, !.path = path, !.asked = asked]
           t == [State EXCEPT !.requests = [requests EXCEPT ![r] = e]]
<1>1. /\ State \in StateSet /\ EachOK(State) /\ State.requests = requests /\ State.slots = slots
      /\ State.alive = alive /\ State.load = load /\ q \in RequestSet /\ games \in Nat
      /\ load \in LoadSet /\ game \in GameSet /\ RequestOK(q, alive, r \in slots, load.pending = r)
  BY Known
<1>2. alive /\ q.phase = "fresh" /\ games' = games /\ Becomes(BeginChange(t, r))
  <2>1. [State EXCEPT !.requests[r].kind = "media", !.requests[r].hash = hash, !.requests[r].path = path,
                      !.requests[r].asked = asked] = t
    <3> HIDE DEF asked
    <3>1. QED  BY ZenonT(60), <1>1 DEF StateSet
  <2>2. QED  BY <2>1 DEF ChangeMedia
<1>3. asked \in Nat  BY <1>1 DEF LoadSet, GameSet
<1> HIDE DEF asked
<1>4. /\ e \in RequestSet /\ e.kind = "media" /\ e.phase = q.phase /\ e.told = q.told
      /\ e.aborted = q.aborted /\ e.stray = q.stray /\ e.game = q.game /\ e.slotless = q.slotless
  BY <1>1, <1>3 DEF RequestSet
<1> HIDE DEF e
<1>5. t \in StateSet  BY <1>1, <1>4 DEF StateSet
<1>6. Does(State, t, r, e, slots)  BY <1>1, <1>4, <1>5 DEF Does, StateSet
<1>7. /\ e.told = <<>> /\ e.aborted = "no" /\ ~e.stray /\ e.game = 0 /\ load.pending # r /\ r \notin slots
      /\ RequestOK(e, alive, r \in slots, load.pending = r)
  BY <1>1, <1>2, <1>4 DEF RequestOK, Active
<1> HIDE DEF t
<1>8. t \in StateSet /\ EachOK(t)  BY <1>1, <1>6, <1>7, Doing
<1>9. t.requests[r] = e /\ t.slots = slots /\ t.alive = alive /\ t.load = load  BY <1>1, <1>6, After
<1>10. Waits(t, r)  BY <1>2, <1>4, <1>7, <1>9 DEF Waits
<1> DEFINE u == BeginChange(t, r)
<1>11. u \in StateSet /\ EachOK(u)  BY <1>8, <1>10, BeginChangeKeeps
<1> HIDE DEF u
<1>12. State' = u  BY <1>2, <1>11, Becoming DEF u
<1>13. QED  BY <1>1, <1>2, <1>11, <1>12 DEF RequestsInv

-----------------------------------------------------------------------------
(* Games come and go.                                                       *)

\* What concerns no request.
LEMMA ApartKeeps ==
  ASSUME RequestsInv, NEW u, Beside(State, u), Becomes(u), games' \in Nat
  PROVE  RequestsInv'
<1>1. State \in StateSet /\ EachOK(State) /\ u \in StateSet  BY DEF RequestsInv, Beside
<1>2. EachOK(u)  BY <1>1, BesideKeeps
<1>3. State' = u  BY <1>1, Becoming
<1>4. QED  BY <1>1, <1>2, <1>3 DEF RequestsInv

\* There may be no game, and no load.
LEMMA Nothing == NoGame \in GameSet /\ NoLoad \in LoadSet /\ NoLoad.pending = "none"
  BY DEF NoGame, NoLoad, GameSet, LoadSet, HashOrNone, Files

\* Whatever is learned of a hash.
LEMMA Learning ==
  ASSUME NEW t \in StateSet, NEW h, NEW id \in Int
  PROVE  [t.known EXCEPT ![h] = id] \in [Hashes -> Int]
<1> DEFINE k == t.known
<1>1. k \in [Hashes -> Int]  BY DEF StateSet
<1> HIDE DEF k
<1>2. [k EXCEPT ![h] = id] \in [Hashes -> Int]  BY <1>1
<1>3. QED  BY <1>2 DEF k

LEMMA LoadBeginsKeeps ==
  ASSUME RequestsInv, NEW h \in Hashes, LoadBegins(h)
  PROVE  RequestsInv'
<1> DEFINE l == [NoLoad EXCEPT !.at = games + 1, !.hash = h]
           u == [State EXCEPT !.game = NoGame, !.load = l]
<1>1. State \in StateSet /\ games \in Nat  BY DEF RequestsInv
<1>2. Becomes(u) /\ games' = games + 1  BY DEF LoadBegins
<1>3. l \in LoadSet /\ l.pending = "none"
  <2>1. games + 1 \in Nat /\ h \in HashOrNone  BY <1>1 DEF HashOrNone
  <2>2. \A n \in Nat, x \in HashOrNone : LET k == [NoLoad EXCEPT !.at = n, !.hash = x]
                                         IN k \in LoadSet /\ k.pending = "none"
    BY Nothing DEF LoadSet
  <2>3. QED  BY <2>1, <2>2
<1> HIDE DEF l
<1>4. Beside(State, u)  BY <1>1, <1>3, Nothing DEF Beside, StateSet
<1> HIDE DEF u
<1>5. QED  BY <1>1, <1>2, <1>4, ApartKeeps

LEMMA LoadIdentifiesKeeps ==
  ASSUME RequestsInv, LoadIdentifies
  PROVE  RequestsInv'
<1> DEFINE u == [State EXCEPT !.load.identified = TRUE, !.load.id = ThisGame, !.known[load.hash] = ThisGame]
<1>1. State \in StateSet /\ games \in Nat  BY DEF RequestsInv
<1>2. Becomes(u) /\ games' = games  BY DEF LoadIdentifies
<1> DEFINE l == [State.load EXCEPT !.identified = TRUE, !.id = ThisGame]
           k == [State.known EXCEPT ![load.hash] = ThisGame]
<1>3. Beside(State, u)
  <2>1. l \in LoadSet /\ l.pending = State.load.pending
    <3> DEFINE m == State.load
    <3>1. m \in LoadSet  BY <1>1 DEF StateSet
    <3> HIDE DEF m
    <3>2. l = [m EXCEPT !.identified = TRUE, !.id = ThisGame]  BY DEF m
    <3>3. ThisGame \in Int  BY DEF ThisGame
    <3>4. \A id \in Int : LET n == [m EXCEPT !.identified = TRUE, !.id = id]
                          IN n \in LoadSet /\ n.pending = m.pending
      BY <3>1 DEF LoadSet
    <3>5. QED  BY <3>2, <3>3, <3>4 DEF m
  <2>2. k \in [Hashes -> Int]  BY <1>1, Learning DEF ThisGame
  <2>3. u = [State EXCEPT !.load = l, !.known = k]  OBVIOUS
  <2> HIDE DEF l, k
  <2>4. QED  BY <1>1, <2>1, <2>2, <2>3 DEF Beside, StateSet
<1> HIDE DEF u
<1>4. QED  BY <1>1, <1>2, <1>3, ApartKeeps

LEMMA LoadUnknownKeeps ==
  ASSUME RequestsInv, LoadUnknown
  PROVE  RequestsInv'
<1> DEFINE g == [at |-> load.at, id |-> 0, hash |-> load.hash, files |-> load.files]
           u == [State EXCEPT !.game = g, !.known[load.hash] = 0, !.load = NoLoad]
<1>1. State \in StateSet /\ games \in Nat /\ load \in LoadSet  BY DEF RequestsInv, State, StateSet
<1>2. Becomes(u) /\ games' = games  BY DEF LoadUnknown
<1>3. g \in GameSet  BY <1>1 DEF LoadSet, GameSet
<1> HIDE DEF g
<1>4. Beside(State, u)
  <2> DEFINE k == [State.known EXCEPT ![load.hash] = 0]
  <2>1. u \in StateSet
    <3>1. k \in [Hashes -> Int]  BY <1>1, Learning
    <3>2. u = [State EXCEPT !.game = g, !.known = k, !.load = NoLoad]  OBVIOUS
    <3> HIDE DEF k
    <3>3. QED  BY <1>1, <1>3, <3>1, <3>2, Nothing DEF StateSet
  <2>2. /\ u.alive = State.alive /\ u.requests = State.requests /\ u.slots = State.slots
        /\ u.load = NoLoad
    BY <1>1 DEF StateSet
  <2>3. QED  BY <2>1, <2>2, Nothing DEF Beside
<1> HIDE DEF u
<1>5. QED  BY <1>1, <1>2, <1>4, ApartKeeps

LEMMA UnloadKeeps ==
  ASSUME RequestsInv, Unload
  PROVE  RequestsInv'
<1> DEFINE u == [State EXCEPT !.game = NoGame, !.load = NoLoad]
<1>1. State \in StateSet /\ games \in Nat  BY DEF RequestsInv
<1>2. Becomes(u) /\ games' = games  BY DEF Unload
<1>3. Beside(State, u)
  <2>1. u \in StateSet  BY <1>1, Nothing DEF StateSet
  <2>2. /\ u.alive = State.alive /\ u.requests = State.requests /\ u.slots = State.slots
        /\ u.load = NoLoad
    BY <1>1 DEF StateSet
  <2>3. QED  BY <2>1, <2>2, Nothing DEF Beside
<1> HIDE DEF u
<1>4. QED  BY <1>1, <1>2, <1>3, ApartKeeps

\* A change that waited for the load, and begins.
LEMMA BeginPendingKeeps ==
  ASSUME NEW t \in StateSet, EachOK(t), NEW r \in Requests, t.load.pending = r
  PROVE  BeginPending(t, r) \in StateSet /\ EachOK(BeginPending(t, r))
<1> DEFINE w == [t EXCEPT !.load.pending = "none"]
           b == BeginChange(w, r)
           next == IF b.requests[r].phase = "calling" THEN "open" ELSE b.requests[r].phase
<1>1. /\ w \in StateSet /\ w.alive = t.alive /\ w.requests = t.requests /\ w.slots = t.slots
      /\ w.load.pending = "none"
  BY DEF StateSet, LoadSet
<1> HIDE DEF w
<1>2. EachOK(w)  BY <1>1, BesideKeeps DEF Beside
<1>3. Waits(w, r)
  <2>1. RequestOK(t.requests[r], t.alive, r \in t.slots, TRUE)
    <3>1. RequestOK(t.requests[r], t.alive, r \in t.slots, t.load.pending = r)  BY DEF EachOK
    <3>2. QED  BY <3>1 DEF RequestOK
  <2>2. QED  BY <1>1, <2>1, RequestsAssumption DEF Waits, RequestOK, Active
<1>4. b \in StateSet /\ EachOK(b)  BY <1>1, <1>2, <1>3, BeginChangeKeeps
<1>5. BeginPending(t, r) = SetPhase(b, r, next)  BY DEF BeginPending, SetPhase, w
<1> HIDE DEF b
<1> DEFINE q == b.requests[r]
<1>6. q \in RequestSet /\ b.slots \in SUBSET Requests  BY <1>4, Requested
<1>7. PICK x \in Phases : x = next  BY <1>6 DEF RequestSet, Phases
<1>8. PICK p \in RequestSet : /\ Does(b, SetPhase(b, r, x), r, p, b.slots)
                             /\ Like(p, q) /\ p.phase = x /\ p.told = q.told
  BY <1>4, PhaseFields
<1>9. RequestOK(q, b.alive, r \in b.slots, b.load.pending = r)  BY <1>4 DEF EachOK
<1>10. (q.phase = "calling" /\ x = "open") \/ x = q.phase  BY <1>7
<1> HIDE DEF q, next
<1>11. RequestOK(p, b.alive, r \in b.slots, b.load.pending = r)
  BY <1>8, <1>9, <1>10 DEF RequestOK, Active, Like
<1>12. SetPhase(b, r, x) \in StateSet /\ EachOK(SetPhase(b, r, x))  BY <1>4, <1>8, <1>11, Doing
<1>13. QED  BY <1>5, <1>7, <1>12

\* rc_client_activate_game
LEMMA LoadEndsKeeps ==
  ASSUME RequestsInv, LoadEnds
  PROVE  RequestsInv'
<1> DEFINE g == [at |-> load.at, id |-> load.id, hash |-> load.hash, files |-> load.files]
           t == [State EXCEPT !.game = g]
           p == load.pending
           b == IF p = "none" THEN t ELSE BeginPending(t, p)
           f == IF p = "none" THEN b.game.files ELSE b.load.files
           u == [b EXCEPT !.load = NoLoad, !.game.files = f]
<1>1. State \in StateSet /\ EachOK(State) /\ games \in Nat /\ load \in LoadSet /\ State.load = load
  BY DEF RequestsInv, State, StateSet
<1>2. Becomes(u) /\ games' = games  BY DEF LoadEnds
<1>3. g \in GameSet  BY <1>1 DEF LoadSet, GameSet
<1> HIDE DEF g
<1>4. t \in StateSet /\ t.load = load /\ EachOK(t)
  <2>1. /\ t \in StateSet /\ t.load = load /\ t.alive = State.alive /\ t.requests = State.requests
        /\ t.slots = State.slots
    BY <1>1, <1>3 DEF StateSet
  <2> HIDE DEF t
  <2>2. EachOK(t)  BY <1>1, <2>1, BesideKeeps DEF Beside
  <2>3. QED  BY <2>1, <2>2
<1> HIDE DEF t
<1>5. b \in StateSet /\ EachOK(b)
  <2>1. CASE p = "none"  BY <1>4, <2>1
  <2>2. CASE p # "none"
    <3>1. p \in Requests /\ t.load.pending = p  BY <1>1, <1>4, <2>2 DEF LoadSet
    <3>2. BeginPending(t, p) \in StateSet /\ EachOK(BeginPending(t, p))
      BY <1>4, <3>1, BeginPendingKeeps
    <3>3. QED  BY <2>2, <3>2
  <2>3. QED  BY <2>1, <2>2
<1> HIDE DEF b
<1>6. f \in Files  BY <1>5 DEF StateSet, GameSet, LoadSet
<1> HIDE DEF f
<1>7. u \in StateSet /\ EachOK(u)
  <2> DEFINE n == [b.game EXCEPT !.files = f]
  <2>1. n \in GameSet
    <3> DEFINE m == b.game
    <3>1. m \in GameSet  BY <1>5 DEF StateSet
    <3> HIDE DEF m
    <3>2. [m EXCEPT !.files = f] \in GameSet  BY <1>6, <3>1 DEF GameSet
    <3>3. QED  BY <3>2 DEF m
  <2>2. u = [b EXCEPT !.load = NoLoad, !.game = n]  OBVIOUS
  <2> HIDE DEF n
  <2>3. u \in StateSet  BY <1>5, <2>1, <2>2, Nothing DEF StateSet
  <2>4. u.alive = b.alive /\ u.requests = b.requests /\ u.slots = b.slots /\ u.load = NoLoad
    BY <1>5 DEF StateSet
  <2> HIDE DEF u
  <2>5. QED  BY <1>5, <2>3, <2>4, Nothing, BesideKeeps DEF Beside
<1> HIDE DEF u
<1>8. State' = u  BY <1>2, <1>7, Becoming
<1>9. QED  BY <1>1, <1>2, <1>7, <1>8 DEF RequestsInv

-----------------------------------------------------------------------------
(* All of it.                                                               *)

LEMMA InitOK == RequestsInit => RequestsInv
<1> SUFFICES ASSUME RequestsInit  PROVE RequestsInv
  OBVIOUS
<1>1. Fresh \in RequestSet
  <2>1. <<>> \in Seq(Results)  OBVIOUS
  <2>2. QED  BY <2>1 DEF Fresh, RequestSet, HashOrNone, Phases, Lists
<1>2. RequestOK(Fresh, TRUE, FALSE, FALSE)
  <2>1. Len(<<>>) = 0  OBVIOUS
  <2>2. QED  BY <2>1 DEF Fresh, RequestOK, Active
<1>3. /\ State.alive = TRUE /\ State.slots = {} /\ State.load = NoLoad /\ State.game = NoGame
      /\ State.requests = [r \in Requests |-> Fresh] /\ games = 0
  BY DEF RequestsInit, State
<1>4. State \in StateSet
  <2>1. [h \in Hashes |-> Unasked] \in [Hashes -> Int]  BY DEF Unasked
  <2>2. [r \in Requests |-> Fresh] \in [Requests -> RequestSet]  BY <1>1
  <2>3. QED  BY <2>1, <2>2, Nothing DEF RequestsInit, State, StateSet
<1>5. EachOK(State)
  <2>1. ASSUME NEW r \in Requests
        PROVE  RequestOK(State.requests[r], State.alive, r \in State.slots, State.load.pending = r)
    <3>1. State.requests[r] = Fresh /\ r \notin State.slots /\ State.load.pending # r /\ State.alive
      BY <1>3, Nothing, RequestsAssumption
    <3>2. QED  BY <1>2, <3>1 DEF RequestOK
  <2>2. QED  BY <2>1 DEF EachOK
<1>6. QED  BY <1>3, <1>4, <1>5 DEF RequestsInv

LEMMA FetchKeeps ==
  ASSUME RequestsInv, NEW r \in Requests,
         \/ FetchAllUserProgress(r) \/ FetchHashLibrary(r) \/ FetchGameTitles(r) \/ FetchGameList(r)
         \/ FetchLeaderboardEntries(r) \/ FetchLeaderboardEntriesAroundUser(r)
  PROVE  RequestsInv'
<1>1. PICK kind \in ListKinds : \E possible : BeginFetch(r, kind, possible)
  BY DEF ListKinds, FetchAllUserProgress, FetchHashLibrary, FetchGameTitles, FetchGameList,
         FetchLeaderboardEntries, FetchLeaderboardEntriesAroundUser
<1>2. QED  BY <1>1, BeginFetchKeeps

LEMMA AnswerKeeps ==
  ASSUME RequestsInv, NEW r \in Requests, NEW result \in {"ok", "error"},
         \/ AllUserProgressAnswered(r, result) \/ HashLibraryAnswered(r, result)
         \/ GameTitlesAnswered(r, result) \/ GameListAnswered(r, result)
         \/ LeaderboardEntriesAnswered(r, result)
  PROVE  RequestsInv'
<1>1. PICK kinds \in SUBSET ListKinds : AnswerFetch(r, kinds, result)
  BY DEF ListKinds, AllUserProgressAnswered, HashLibraryAnswered, GameTitlesAnswered, GameListAnswered,
         LeaderboardEntriesAnswered
<1>2. QED  BY <1>1, AnswerFetchKeeps

LEMMA NextKeeps == RequestsInv /\ [RequestsNext]_requestVars => RequestsInv'
<1> SUFFICES ASSUME RequestsInv, [RequestsNext]_requestVars  PROVE RequestsInv'
  OBVIOUS
<1>1. CASE UNCHANGED requestVars
  BY <1>1 DEF requestVars, RequestsInv, State, StateSet, EachOK
<1>2. ASSUME NEW r \in Requests, Returns(r) \/ AbortAsync(r)  PROVE RequestsInv'
  BY <1>2, ReturnsKeeps, AbortKeeps
<1>3. ASSUME NEW r \in Requests,
             \/ FetchAllUserProgress(r) \/ FetchHashLibrary(r) \/ FetchGameTitles(r) \/ FetchGameList(r)
             \/ FetchLeaderboardEntries(r) \/ FetchLeaderboardEntriesAroundUser(r)
      PROVE  RequestsInv'
  BY <1>3, FetchKeeps
<1>4. ASSUME NEW r \in Requests, NEW result \in {"ok", "error"},
             \/ AllUserProgressAnswered(r, result) \/ HashLibraryAnswered(r, result)
             \/ GameTitlesAnswered(r, result) \/ GameListAnswered(r, result)
             \/ LeaderboardEntriesAnswered(r, result)
      PROVE  RequestsInv'
  BY <1>4, AnswerKeeps
<1>5. ASSUME NEW r \in Requests,
             \/ \E h \in Hashes : ChangeMedia(r, h, "none")
             \/ \E p \in Paths : ChangeMedia(r, NoHash, p)
      PROVE  RequestsInv'
  BY <1>5, ChangeMediaKeeps DEF HashOrNone
<1>6. ASSUME NEW r \in Requests,
             (\E id \in GameIds : AnswerMedia(r, "ok", id)) \/ AnswerMedia(r, "error", Unasked)
      PROVE  RequestsInv'
  <2>1. GameIds \subseteq Int /\ Unasked \in Int  BY DEF GameIds, ThisGame, Unasked
  <2>2. QED  BY <1>6, <2>1, AnswerMediaKeeps
<1>7. ASSUME NEW h \in Hashes, LoadBegins(h)  PROVE RequestsInv'  BY <1>7, LoadBeginsKeeps
<1>8. CASE LoadIdentifies  BY <1>8, LoadIdentifiesKeeps
<1>9. CASE LoadEnds        BY <1>9, LoadEndsKeeps
<1>10. CASE LoadUnknown    BY <1>10, LoadUnknownKeeps
<1>11. CASE Unload         BY <1>11, UnloadKeeps
<1>12. CASE Destroy        BY <1>12, DestroyKeeps
<1>13. QED
  BY <1>1, <1>2, <1>3, <1>4, <1>5, <1>6, <1>7, <1>8, <1>9, <1>10, <1>11, <1>12 DEF RequestsNext

LEMMA InvHears == RequestsInv => HeardOnce
<1> SUFFICES ASSUME RequestsInv, NEW r \in Requests
             PROVE  LET q == requests[r]
                    IN /\ Len(q.told) <= 1
                       /\ q.phase \in {"calling", "open"} => q.told = <<>>
                       /\ q.aborted # "no" => q.told = <<>>
                       /\ q.phase \in {"answered", "done"} /\ q.aborted = "no" /\ load.pending # r =>
                            q.told # <<>> \/ (q.kind = "media" /\ q.game = 0)
                       /\ q.stray => q.slotless
  BY DEF HeardOnce
<1>1. RequestOK(requests[r], alive, r \in slots, load.pending = r)  BY Known
<1>2. QED  BY <1>1 DEF RequestOK, Active

\* Everything known of the requests holds in every state: each is in one of its phases, has a slot
\* only while it is open, and waits for a load only before it is begun (rc_client_begin_async,
\* rc_client_end_async, rc_client_activate_game).
THEOREM RequestsInvariant == RequestsSpec => []RequestsInv
  BY InitOK, NextKeeps, PTL DEF RequestsSpec

\* Whoever began a request hears of it once, whatever the order of answers, aborts, loads and the end
\* of the client, and however many slots there are (rc_client_begin_async, rc_client_end_async,
\* rc_client_destroy).
THEOREM HeardOnceAlways == RequestsSpec => []HeardOnce
  BY RequestsInvariant, InvHears, PTL

-----------------------------------------------------------------------------
(* Lists fit the blocks made for them.                                      *)

RoomBody(p, sum, n) == sum + n + 1
RoomLoop == INSTANCE Loops WITH Body <- RoomBody
SizeBody(kind, sum, e) == sum + RoomOf(kind, e)
SizeLoop == INSTANCE Loops WITH Body <- SizeBody
StringBody(kind, all, e) == all \o StringsOf(kind, e)
StringLoop == INSTANCE Loops WITH Body <- StringBody
CopyBody(p, block, n) == Copy(block, n)
CopyLoop == INSTANCE Loops WITH Body <- CopyBody

\* x is the room for the first strings of s, with x[Len(s)] for all of them.
Sums(x, s) ==
  /\ x[0] = 0
  /\ \A i \in 1 .. Len(s) : x[i] = x[i - 1] + s[i] + 1
  /\ \A i \in 0 .. Len(s) : x[i] \in Nat

LEMMA RoomsAreSums ==
  ASSUME NEW s \in Seq(Lengths)
  PROVE  \E x : Sums(x, s) /\ x[Len(s)] = Rooms(s)
<1> DEFINE n == Len(s)
<1>1. n \in Nat /\ DOMAIN s = 1 .. n /\ \A i \in 1 .. n : s[i] \in Int /\ s[i] + 1 \in Nat
  BY DEF Lengths, Null
<1> HIDE DEF n
<1>2. PICK p \in BOOLEAN : p = TRUE  OBVIOUS
<1>3. PICK zero \in Nat : zero = 0  OBVIOUS
<1>4. Rooms(s) = RoomLoop!LoopOver(p, zero, s)
  BY <1>3, Zenon DEF Rooms, RoomBody, FoldLeft, MapThenFoldSet, Max, RoomLoop!LoopOver, RoomLoop!FoldLeft,
                     RoomLoop!MapThenFoldSet, RoomLoop!Max
<1>5. PICK x : RoomLoop!Run(p, zero, s, n, x) /\ x[n] = RoomLoop!LoopOver(p, zero, s)
  BY <1>1, RoomLoop!LoopRuns
<1>6. x[0] = 0 /\ \A i \in 1 .. n : x[i] = x[i - 1] + s[i] + 1  BY <1>3, <1>5 DEF RoomLoop!Run, RoomBody
<1> DEFINE T == {i \in Nat : i <= n => x[i] \in Nat}
<1>7. 0 \in T  BY <1>6
<1>8. ASSUME NEW i \in T  PROVE i + 1 \in T
  <2>1. i \in Nat  OBVIOUS
  <2>2. CASE i + 1 <= n
    <3>0. x[i] \in Nat  BY <1>1, <2>1, <2>2
    <3>1. i + 1 \in 1 .. n /\ (i + 1) - 1 = i /\ x[i] \in Nat  BY <1>1, <2>1, <2>2, <3>0
    <3>2. x[i + 1] = x[i] + s[i + 1] + 1 /\ s[i + 1] \in Int /\ s[i + 1] + 1 \in Nat  BY <1>1, <1>6, <3>1
    <3>3. x[i + 1] \in Nat  BY <3>1, <3>2
    <3>4. QED  BY <2>1, <3>3
  <2>3. QED  BY <2>1, <2>2
<1> HIDE DEF T
<1>9. T = Nat
  <2>1. T \in SUBSET Nat  BY DEF T
  <2>2. QED  BY <1>7, <1>8, <2>1, RoomLoop!Countdown
<1>10. \A i \in 0 .. n : x[i] \in Nat
  <2>1. \A i \in 0 .. n : i \in T /\ i <= n  BY <1>1, <1>9
  <2>2. QED  BY <2>1 DEF T
<1>11. QED  BY <1>4, <1>5, <1>6, <1>10 DEF Sums, n

\* The strings of t stand behind those of s.
LEMMA SumsJoin ==
  ASSUME NEW s \in Seq(Lengths), NEW t \in Seq(Lengths), NEW x, Sums(x, s), NEW z, Sums(z, t),
         NEW y, Sums(y, s \o t)
  PROVE  y[Len(s \o t)] = x[Len(s)] + z[Len(t)]
<1> DEFINE m == Len(s)
           n == Len(t)
           u == s \o t
<1>1. /\ m \in Nat /\ n \in Nat /\ Len(u) = m + n
      /\ \A i \in 1 .. m : u[i] = s[i] /\ s[i] \in Int
      /\ \A i \in 1 .. n : u[m + i] = t[i] /\ t[i] \in Int
  BY DEF Lengths
<1>2. /\ x[0] = 0 /\ \A i \in 1 .. m : x[i] = x[i - 1] + s[i] + 1
      /\ \A i \in 0 .. m : x[i] \in Nat
  BY DEF Sums
<1>3. /\ z[0] = 0 /\ \A i \in 1 .. n : z[i] = z[i - 1] + t[i] + 1
      /\ \A i \in 0 .. n : z[i] \in Nat
  BY DEF Sums
<1>4. y[0] = 0 /\ \A i \in 1 .. m + n : y[i] = y[i - 1] + u[i] + 1
  BY <1>1 DEF Sums
<1> HIDE DEF m, n, u
<1> DEFINE S == {i \in Nat : i <= m => y[i] = x[i]}
<1>5. S = Nat
  <2>1. 0 \in S  BY <1>2, <1>4
  <2>2. ASSUME NEW i \in S  PROVE i + 1 \in S
    <3>1. i \in Nat  OBVIOUS
    <3>2. CASE i + 1 <= m
      <4>1. i + 1 \in 1 .. m /\ i + 1 \in 1 .. m + n /\ (i + 1) - 1 = i /\ y[i] = x[i]  BY <1>1, <3>1, <3>2
      <4>2. y[i + 1] = y[i] + u[i + 1] + 1 /\ x[i + 1] = x[i] + s[i + 1] + 1  BY <1>2, <1>4, <4>1
      <4>3. u[i + 1] = s[i + 1]  BY <1>1, <4>1
      <4>4. QED  BY <3>1, <4>1, <4>2, <4>3
    <3>3. QED  BY <3>1, <3>2
  <2> HIDE DEF S
  <2>3. S \in SUBSET Nat  BY DEF S
  <2>4. QED  BY <2>1, <2>2, <2>3, RoomLoop!Countdown
<1>6. y[m] = x[m]
  <2>1. m \in S  BY <1>1, <1>5
  <2>2. QED  BY <1>1, <2>1
<1> HIDE DEF S
<1> DEFINE R == {i \in Nat : i <= n => y[m + i] = x[m] + z[i]}
<1>7. R = Nat
  <2>0. x[m] \in Nat  BY <1>1, <1>2
  <2>1. 0 \in R  BY <1>1, <1>3, <1>6, <2>0
  <2>2. ASSUME NEW i \in R  PROVE i + 1 \in R
    <3>1. i \in Nat  OBVIOUS
    <3>2. CASE i + 1 <= n
      <4>1. /\ i + 1 \in 1 .. n /\ m + i + 1 \in 1 .. m + n /\ (i + 1) - 1 = i /\ (m + i + 1) - 1 = m + i
            /\ m + (i + 1) = m + i + 1 /\ y[m + i] = x[m] + z[i] /\ i \in 0 .. n
        BY <1>1, <3>1, <3>2
      <4>2. y[m + i + 1] = y[m + i] + u[m + i + 1] + 1  BY <1>4, <4>1
      <4>3. z[i + 1] = z[i] + t[i + 1] + 1 /\ z[i] \in Nat  BY <1>3, <4>1
      <4>4. u[m + i + 1] = t[i + 1] /\ t[i + 1] \in Int  BY <1>1, <4>1
      <4>5. y[m + (i + 1)] = x[m] + z[i + 1]  BY <2>0, <4>1, <4>2, <4>3, <4>4
      <4>6. QED  BY <3>1, <4>5
    <3>3. QED  BY <3>1, <3>2
  <2> HIDE DEF R
  <2>3. R \in SUBSET Nat  BY DEF R
  <2>4. QED  BY <2>1, <2>2, <2>3, RoomLoop!Countdown
<1>8. n \in R  BY <1>1, <1>7
<1>9. y[m + n] = x[m] + z[n]  BY <1>1, <1>8 DEF R
<1>10. QED  BY <1>1, <1>9 DEF m, n, u

LEMMA RoomsJoin ==
  ASSUME NEW s \in Seq(Lengths), NEW t \in Seq(Lengths)
  PROVE  s \o t \in Seq(Lengths) /\ Rooms(s \o t) = Rooms(s) + Rooms(t)
<1>1. PICK x : Sums(x, s) /\ x[Len(s)] = Rooms(s)  BY RoomsAreSums
<1>2. PICK z : Sums(z, t) /\ z[Len(t)] = Rooms(t)  BY RoomsAreSums
<1>3. s \o t \in Seq(Lengths)  OBVIOUS
<1>4. PICK y : Sums(y, s \o t) /\ y[Len(s \o t)] = Rooms(s \o t)  BY <1>3, RoomsAreSums
<1>5. y[Len(s \o t)] = x[Len(s)] + z[Len(t)]  BY <1>1, <1>2, <1>4, SumsJoin
<1>6. QED  BY <1>1, <1>2, <1>3, <1>4, <1>5

LEMMA RoomsOfFew ==
  /\ Rooms(<<>>) = 0
  /\ \A a \in Lengths : Rooms(<<a>>) = a + 1
  /\ \A a, b \in Lengths : Rooms(<<a, b>>) = (a + 1) + (b + 1)
  /\ \A a, b, c \in Lengths : Rooms(<<a, b, c>>) = (a + 1) + (b + 1) + (c + 1)
<1>1. Rooms(<<>>) = 0
  <2> DEFINE s == <<>>
  <2>1. s \in Seq(Lengths) /\ Len(s) = 0  OBVIOUS
  <2> HIDE DEF s
  <2>2. PICK x : Sums(x, s) /\ x[Len(s)] = Rooms(s)  BY <2>1, RoomsAreSums
  <2>3. x[0] = 0  BY <2>2 DEF Sums
  <2>4. Rooms(s) = 0  BY <2>1, <2>2, <2>3
  <2>5. QED  BY <2>4 DEF s
<1>2. ASSUME NEW a \in Lengths  PROVE Rooms(<<a>>) = a + 1
  <2> DEFINE s == <<a>>
  <2>1. s \in Seq(Lengths) /\ Len(s) = 1 /\ s[1] = a /\ a \in Int  BY DEF Lengths
  <2> HIDE DEF s
  <2>2. PICK x : Sums(x, s) /\ x[Len(s)] = Rooms(s)  BY <2>1, RoomsAreSums
  <2>3. x[0] = 0 /\ x[1] = x[0] + s[1] + 1  BY <2>1, <2>2 DEF Sums
  <2>4. Rooms(s) = a + 1  BY <2>1, <2>2, <2>3
  <2>5. QED  BY <2>4 DEF s
<1>3. ASSUME NEW a \in Lengths, NEW b \in Lengths  PROVE Rooms(<<a, b>>) = (a + 1) + (b + 1)
  <2> DEFINE s == <<a, b>>
  <2>1. s \in Seq(Lengths) /\ Len(s) = 2 /\ s[1] = a /\ s[2] = b /\ a \in Int /\ b \in Int  BY DEF Lengths
  <2> HIDE DEF s
  <2>2. PICK x : Sums(x, s) /\ x[Len(s)] = Rooms(s)  BY <2>1, RoomsAreSums
  <2>3. x[0] = 0 /\ x[1] = x[0] + s[1] + 1 /\ x[2] = x[1] + s[2] + 1  BY <2>1, <2>2 DEF Sums
  <2>4. Rooms(s) = (a + 1) + (b + 1)  BY <2>1, <2>2, <2>3
  <2>5. QED  BY <2>4 DEF s
<1>4. ASSUME NEW a \in Lengths, NEW b \in Lengths, NEW c \in Lengths
      PROVE  Rooms(<<a, b, c>>) = (a + 1) + (b + 1) + (c + 1)
  <2> DEFINE s == <<a, b>>
             t == <<c>>
  <2>1. s \in Seq(Lengths) /\ t \in Seq(Lengths) /\ <<a, b, c>> = s \o t  OBVIOUS
  <2>2. Rooms(s) = (a + 1) + (b + 1) /\ Rooms(t) = c + 1  BY <1>2, <1>3
  <2> HIDE DEF s, t
  <2>3. QED  BY <2>1, <2>2, RoomsJoin
<1>5. QED  BY <1>1, <1>2, <1>3, <1>4

\* What is counted for an entry is the room for the strings that are copied for it.
LEMMA RoomOfStrings ==
  ASSUME NEW kind \in ListKinds, NEW e \in Entry(kind)
  PROVE  StringsOf(kind, e) \in Seq(Lengths) /\ RoomOf(kind, e) = Rooms(StringsOf(kind, e))
<1>1. CASE kind = "titles"
  <2>1. e.title \in Lengths /\ e.url \in Lengths  BY <1>1 DEF Entry
  <2>2. StringsOf(kind, e) = <<e.title, e.url>> /\ RoomOf(kind, e) = (e.title + 1) + (e.url + 1)
    BY <1>1 DEF StringsOf, RoomOf, TitleStrings, TitleRoom
  <2>3. <<e.title, e.url>> \in Seq(Lengths)  BY <2>1
  <2>4. QED  BY <2>1, <2>2, <2>3, RoomsOfFew
<1>2. CASE kind = "games"
  <2> DEFINE s == <<e.name, e.image, e.url>>
             t == e.supported
             u == e.unsupported
  <2>1. /\ e.name \in Lengths /\ e.image \in Lengths /\ e.url \in Lengths
        /\ t \in Seq(Lengths) /\ u \in Seq(Lengths)
    BY <1>2 DEF Entry
  <2>2. s \in Seq(Lengths)  BY <2>1
  <2>3. StringsOf(kind, e) = s \o t \o u  BY <1>2 DEF StringsOf, GameStrings
  <2>4. RoomOf(kind, e) = (e.name + 1) + (e.image + 1) + (e.url + 1) + Rooms(t) + Rooms(u)
    BY <1>2 DEF RoomOf, GameRoom
  <2>5. Rooms(s) = (e.name + 1) + (e.image + 1) + (e.url + 1)  BY <2>1, RoomsOfFew
  <2> HIDE DEF s, t, u
  <2>6. s \o t \in Seq(Lengths) /\ Rooms(s \o t) = Rooms(s) + Rooms(t)  BY <2>1, <2>2, RoomsJoin
  <2>7. s \o t \o u \in Seq(Lengths) /\ Rooms(s \o t \o u) = Rooms(s \o t) + Rooms(u)
    BY <2>1, <2>6, RoomsJoin
  <2>8. QED  BY <2>3, <2>4, <2>5, <2>6, <2>7
<1>3. CASE kind \in {"entries", "around"}
  <2>1. e.user \in Lengths  BY <1>3 DEF Entry
  <2>2. StringsOf(kind, e) = <<e.user>> /\ RoomOf(kind, e) = e.user + 1
    BY <1>3 DEF StringsOf, RoomOf, EntryStrings, EntryRoom
  <2>3. <<e.user>> \in Seq(Lengths)  BY <2>1
  <2>4. QED  BY <2>1, <2>2, <2>3, RoomsOfFew
<1>4. CASE kind \notin {"titles", "games", "entries", "around"}
  <2>1. StringsOf(kind, e) = <<>> /\ RoomOf(kind, e) = 0  BY <1>4 DEF StringsOf, RoomOf
  <2>2. <<>> \in Seq(Lengths)  OBVIOUS
  <2>3. QED  BY <2>1, <2>2, RoomsOfFew
<1>5. QED  BY <1>1, <1>2, <1>3, <1>4

\* The two passes over the entries.
SizeOf(kind, entries) == FoldLeft(LAMBDA sum, e : sum + RoomOf(kind, e), 0, entries)
Strings(kind, entries) == FoldLeft(LAMBDA all, e : all \o StringsOf(kind, e), <<>>, entries)

LEMMA SizeIsEnough ==
  ASSUME NEW kind \in ListKinds, NEW entries \in Seq(Entry(kind))
  PROVE  /\ Strings(kind, entries) \in Seq(Lengths)
         /\ SizeOf(kind, entries) = Rooms(Strings(kind, entries))
<1> DEFINE n == Len(entries)
<1>1. n \in Nat /\ DOMAIN entries = 1 .. n /\ \A i \in 1 .. n : entries[i] \in Entry(kind)  OBVIOUS
<1> HIDE DEF n
<1>2. PICK zero \in Nat : zero = 0  OBVIOUS
<1>3. PICK none \in Seq(Lengths) : none = <<>>
  <2>1. <<>> \in Seq(Lengths)  OBVIOUS
  <2>2. QED  BY <2>1
<1>4. SizeOf(kind, entries) = SizeLoop!LoopOver(kind, zero, entries)
  BY <1>2, Zenon DEF SizeOf, SizeBody, FoldLeft, MapThenFoldSet, Max, SizeLoop!LoopOver, SizeLoop!FoldLeft,
                     SizeLoop!MapThenFoldSet, SizeLoop!Max
<1>5. Strings(kind, entries) = StringLoop!LoopOver(kind, none, entries)
  BY <1>3, Zenon DEF Strings, StringBody, FoldLeft, MapThenFoldSet, Max, StringLoop!LoopOver,
                     StringLoop!FoldLeft, StringLoop!MapThenFoldSet, StringLoop!Max
<1>6. PICK x : SizeLoop!Run(kind, zero, entries, n, x) /\ x[n] = SizeLoop!LoopOver(kind, zero, entries)
  BY <1>1, SizeLoop!LoopRuns
<1>7. PICK y : StringLoop!Run(kind, none, entries, n, y) /\ y[n] = StringLoop!LoopOver(kind, none, entries)
  BY <1>1, StringLoop!LoopRuns
<1>8. x[0] = 0 /\ \A i \in 1 .. n : x[i] = x[i - 1] + RoomOf(kind, entries[i])
  BY <1>2, <1>6 DEF SizeLoop!Run, SizeBody
<1>9. y[0] = <<>> /\ \A i \in 1 .. n : y[i] = y[i - 1] \o StringsOf(kind, entries[i])
  BY <1>3, <1>7 DEF StringLoop!Run, StringBody
<1> DEFINE T == {i \in Nat : i <= n => y[i] \in Seq(Lengths) /\ x[i] = Rooms(y[i])}
<1>10. 0 \in T  BY <1>3, <1>8, <1>9, RoomsOfFew
<1>11. ASSUME NEW i \in T  PROVE i + 1 \in T
  <2>1. i \in Nat  OBVIOUS
  <2>2. CASE i + 1 <= n
    <3>0. y[i] \in Seq(Lengths) /\ x[i] = Rooms(y[i])  BY <1>1, <2>1, <2>2
    <3> HIDE DEF T
    <3>1. i + 1 \in 1 .. n /\ (i + 1) - 1 = i  BY <1>1, <2>1, <2>2
    <3>2. x[i + 1] = x[i] + RoomOf(kind, entries[i + 1])  BY <1>8, <3>1
    <3>3. y[i + 1] = y[i] \o StringsOf(kind, entries[i + 1])  BY <1>9, <3>1
    <3>4. /\ StringsOf(kind, entries[i + 1]) \in Seq(Lengths)
          /\ RoomOf(kind, entries[i + 1]) = Rooms(StringsOf(kind, entries[i + 1]))
      BY <1>1, <3>1, RoomOfStrings
    <3>5. y[i + 1] \in Seq(Lengths) /\ x[i + 1] = Rooms(y[i + 1])
      BY <3>0, <3>2, <3>3, <3>4, RoomsJoin
    <3>6. QED  BY <2>1, <3>5 DEF T
  <2>3. QED  BY <2>1, <2>2
<1> HIDE DEF T
<1>12. T = Nat
  <2>1. T \in SUBSET Nat  BY DEF T
  <2>2. QED  BY <1>10, <1>11, <2>1, RoomLoop!Countdown
<1>13. n \in T  BY <1>1, <1>12
<1>14. QED  BY <1>1, <1>4, <1>5, <1>6, <1>7, <1>13 DEF T

\* Each string is copied to where those before it end.
LEMMA WrittenInTurn ==
  ASSUME NEW s \in Seq(Lengths), NEW x, Sums(x, s)
  PROVE  \A i \in 1 .. Len(s) : FoldLeft(Copy, [at |-> 0, to |-> <<>>], s).to[i] = x[i - 1]
<1> DEFINE n == Len(s)
           w == FoldLeft(Copy, [at |-> 0, to |-> <<>>], s)
<1>1. n \in Nat /\ DOMAIN s = 1 .. n /\ \A i \in 1 .. n : s[i] \in Int
  BY DEF Lengths
<1>2. x[0] = 0 /\ (\A i \in 1 .. n : x[i] = x[i - 1] + s[i] + 1) /\ \A i \in 0 .. n : x[i] \in Nat
  BY DEF Sums
<1> HIDE DEF n
<1>3. PICK p \in BOOLEAN : p = TRUE  OBVIOUS
<1>4. PICK t : t = [at |-> 0, to |-> <<>>]  OBVIOUS
<1>5. w = CopyLoop!LoopOver(p, t, s)
  BY <1>4, Zenon DEF CopyBody, FoldLeft, MapThenFoldSet, Max, CopyLoop!LoopOver, CopyLoop!FoldLeft,
                     CopyLoop!MapThenFoldSet, CopyLoop!Max
<1> HIDE DEF w
<1>6. PICK z : CopyLoop!Run(p, t, s, n, z) /\ z[n] = CopyLoop!LoopOver(p, t, s)
  BY <1>1, CopyLoop!LoopRuns
<1>7. z[0] = t /\ \A i \in 1 .. n : z[i] = Copy(z[i - 1], s[i])
  BY <1>6 DEF CopyLoop!Run, CopyBody
<1>8. \A i \in 1 .. n : z[i].at = z[i - 1].at + s[i] + 1 /\ z[i].to = Append(z[i - 1].to, z[i - 1].at)
  <2> SUFFICES ASSUME NEW i \in 1 .. n
               PROVE  z[i].at = z[i - 1].at + s[i] + 1 /\ z[i].to = Append(z[i - 1].to, z[i - 1].at)
    OBVIOUS
  <2>1. z[i] = [at |-> z[i - 1].at + s[i] + 1, to |-> Append(z[i - 1].to, z[i - 1].at)]
    BY <1>7, Zenon DEF Copy
  <2>2. QED  BY <2>1
<1>9. z[0].at = 0 /\ z[0].to = <<>>  BY <1>4, <1>7
<1> DEFINE T == {i \in Nat : i <= n => /\ z[i].at = x[i] /\ z[i].to \in Seq(Nat) /\ Len(z[i].to) = i
                                        /\ \A j \in 1 .. i : z[i].to[j] = x[j - 1]}
<1>10. 0 \in T
  <2>1. <<>> \in Seq(Nat) /\ Len(<<>>) = 0  OBVIOUS
  <2>2. z[0].at = x[0] /\ z[0].to \in Seq(Nat) /\ Len(z[0].to) = 0  BY <1>2, <1>9, <2>1
  <2>3. QED  BY <2>2
<1>11. ASSUME NEW i \in T  PROVE i + 1 \in T
  <2>1. i \in Nat  OBVIOUS
  <2>2. CASE i + 1 <= n
    <3>0. /\ z[i].at = x[i] /\ z[i].to \in Seq(Nat) /\ Len(z[i].to) = i
          /\ \A j \in 1 .. i : z[i].to[j] = x[j - 1]
      BY SMTT(60), <1>1, <2>1, <2>2
    <3> HIDE DEF T
    <3>1. i + 1 \in 1 .. n /\ (i + 1) - 1 = i /\ i \in 0 .. n  BY <1>1, <2>1, <2>2
    <3>2. z[i + 1].at = z[i].at + s[i + 1] + 1 /\ z[i + 1].to = Append(z[i].to, z[i].at)  BY <1>8, <3>1
    <3>3. x[i + 1] = x[i] + s[i + 1] + 1 /\ x[i] \in Nat  BY <1>2, <3>1
    <3> DEFINE a == z[i].to
               b == z[i + 1].to
    <3>4. a \in Seq(Nat) /\ Len(a) = i /\ b = Append(a, x[i]) /\ \A j \in 1 .. i : a[j] = x[j - 1]
      BY <3>0, <3>2
    <3> HIDE DEF a, b
    <3>5. b \in Seq(Nat) /\ Len(b) = i + 1 /\ b[i + 1] = x[i] /\ \A j \in 1 .. i : b[j] = a[j]
      BY <2>1, <3>3, <3>4
    <3>6. \A j \in 1 .. i + 1 : b[j] = x[j - 1]
      <4> SUFFICES ASSUME NEW j \in 1 .. i + 1  PROVE b[j] = x[j - 1]
        OBVIOUS
      <4>1. CASE j \in 1 .. i  BY <3>4, <3>5, <4>1
      <4>2. CASE j = i + 1  BY <3>1, <3>5, <4>2
      <4>3. QED  BY <2>1, <4>1, <4>2
    <3>7. z[i + 1].at = x[i + 1]  BY <3>0, <3>2, <3>3
    <3>8. QED  BY <2>1, <3>5, <3>6, <3>7 DEF T, b
  <2>3. QED  BY <2>1, <2>2
<1> HIDE DEF T
<1>12. T = Nat
  <2>1. T \in SUBSET Nat  BY DEF T
  <2>2. QED  BY <1>10, <1>11, <2>1, RoomLoop!Countdown
<1>13. n \in T  BY <1>1, <1>12
<1>14. \A i \in 1 .. n : w.to[i] = x[i - 1]  BY <1>1, <1>5, <1>6, <1>13 DEF T
<1>15. QED  BY <1>14 DEF n, w

LEMMA SumsGrow ==
  ASSUME NEW s \in Seq(Lengths), NEW x, Sums(x, s), NEW i \in 0 .. Len(s), NEW j \in 0 .. Len(s), i <= j
  PROVE  x[i] <= x[j]
<1> DEFINE n == Len(s)
           T == {k \in Nat : i + k <= n => x[i] <= x[i + k]}
<1>1. /\ n \in Nat /\ i \in Nat /\ j \in Nat /\ j <= n
      /\ \A k \in 1 .. n : s[k] \in Int /\ s[k] + 1 >= 0
  BY DEF Lengths, Null
<1>2. (\A k \in 1 .. n : x[k] = x[k - 1] + s[k] + 1) /\ \A k \in 0 .. n : x[k] \in Nat
  BY DEF Sums
<1> HIDE DEF n
<1>3. 0 \in T  BY <1>1, <1>2
<1>4. ASSUME NEW k \in T  PROVE k + 1 \in T
  <2>1. k \in Nat  OBVIOUS
  <2>2. CASE i + (k + 1) <= n
    <3>1. x[i] <= x[i + k]  BY <1>1, <2>1, <2>2
    <3> HIDE DEF T
    <3>2. i \in 0 .. n /\ i + k \in 0 .. n /\ i + k + 1 \in 1 .. n /\ (i + k + 1) - 1 = i + k /\ i + (k + 1) = i + k + 1
      BY <1>1, <2>1, <2>2
    <3>3. x[i + k + 1] = x[i + k] + s[i + k + 1] + 1 /\ x[i + k] \in Nat /\ x[i] \in Nat  BY <1>2, <3>2
    <3>4. s[i + k + 1] \in Int /\ s[i + k + 1] + 1 >= 0  BY <1>1, <3>2
    <3>5. x[i] <= x[i + (k + 1)]  BY SMTT(60), <3>1, <3>2, <3>3, <3>4
    <3>6. QED  BY <2>1, <3>5 DEF T
  <2>3. QED  BY <2>1, <2>2
<1> HIDE DEF T
<1>5. T = Nat
  <2>1. T \in SUBSET Nat  BY DEF T
  <2>2. QED  BY <1>3, <1>4, <2>1, RoomLoop!Countdown
<1>6. j - i \in T /\ i + (j - i) = j  BY <1>1, <1>5
<1>7. QED  BY <1>1, <1>6 DEF T

\* What ListsFit says of one list.
Fits(l) ==
  \A i \in DOMAIN l.wanted :
    /\ l.written[i] + l.wanted[i] + 1 <= l.size
    /\ \A j \in 1 .. (i - 1) : l.written[j] + l.wanted[j] + 1 <= l.written[i]

LEMMA ListFits ==
  ASSUME NEW kind \in ListKinds, NEW entries \in Seq(Entry(kind))
  PROVE  Fits(ListOf(kind, entries))
<1> DEFINE s == Strings(kind, entries)
           w == FoldLeft(Copy, [at |-> 0, to |-> <<>>], s).to
           l == ListOf(kind, entries)
<1>1. l.size = SizeOf(kind, entries) /\ l.wanted = s /\ l.written = w
  BY DEF ListOf, SizeOf, Strings
<1>2. s \in Seq(Lengths) /\ l.size = Rooms(s)  BY <1>1, SizeIsEnough
<1> HIDE DEF s, l
<1>3. PICK x : Sums(x, s) /\ x[Len(s)] = Rooms(s)  BY <1>2, RoomsAreSums
<1>4. \A i \in 1 .. Len(s) : w[i] = x[i - 1]  BY <1>2, <1>3, WrittenInTurn
<1> HIDE DEF w
<1>5. \A i \in 1 .. Len(s) : w[i] + s[i] + 1 = x[i] /\ w[i] = x[i - 1]  BY <1>3, <1>4 DEF Sums
<1>6. DOMAIN l.wanted = 1 .. Len(s) /\ Len(s) \in Nat  BY <1>1, <1>2
<1>7. ASSUME NEW i \in 1 .. Len(s)
      PROVE  /\ w[i] + s[i] + 1 <= x[Len(s)]
             /\ \A j \in 1 .. (i - 1) : w[j] + s[j] + 1 <= w[i]
  <2>1. i \in 0 .. Len(s) /\ Len(s) \in 0 .. Len(s) /\ i <= Len(s) /\ i - 1 \in 0 .. Len(s)  BY <1>6
  <2>2. x[i] <= x[Len(s)]  BY <1>2, <1>3, <2>1, SumsGrow
  <2>3. ASSUME NEW j \in 1 .. (i - 1)  PROVE w[j] + s[j] + 1 <= w[i]
    <3>1. j \in 0 .. Len(s) /\ j \in 1 .. Len(s) /\ j <= i - 1  BY <1>6
    <3>2. x[j] <= x[i - 1]  BY <1>2, <1>3, <2>1, <3>1, SumsGrow
    <3>3. QED  BY <1>5, <3>1, <3>2
  <2>4. QED  BY <1>5, <2>2, <2>3
<1>8. Fits(l)  BY <1>1, <1>2, <1>3, <1>6, <1>7 DEF Fits
<1>9. QED  BY <1>8 DEF l

LEMMA InvFits == RequestsInv => ListsFit
<1> SUFFICES ASSUME RequestsInv, NEW r \in Requests  PROVE Fits(requests[r].list)
  BY DEF ListsFit, Fits
<1> DEFINE l == requests[r].list
<1>1. l \in Lists  BY Known DEF RequestSet
<1> HIDE DEF l
<1>2. CASE l = NoList
  <2>1. NoList.wanted = <<>>  BY DEF NoList
  <2>2. DOMAIN <<>> = 1 .. 0 /\ 1 .. 0 = {}  OBVIOUS
  <2>3. DOMAIN l.wanted = {}  BY <1>2, <2>1, <2>2
  <2>4. Fits(l)  BY <2>3 DEF Fits
  <2>5. QED  BY <2>4 DEF l
<1>3. ASSUME NEW kind \in ListKinds, NEW entries \in Answers[kind], l = ListOf(kind, entries)
      PROVE  Fits(l)
  <2>1. entries \in Seq(Entry(kind))  BY RequestsAssumption
  <2>2. QED  BY <1>3, <2>1, ListFits
<1>4. QED  BY <1>1, <1>2, <1>3 DEF Lists, l

\* In every list that is built, of any number of entries with any strings or none, each string has its
\* place in the block and no two overlap, though the room was counted in a pass of its own
\* (rc_client_fetch_game_titles_callback, rc_client_fetch_game_list_callback,
\* rc_client_fetch_leaderboard_entries_callback).
THEOREM ListsAlwaysFit == RequestsSpec => []ListsFit
  BY RequestsInvariant, InvFits, PTL

-----------------------------------------------------------------------------
(* Whose media change.                                                      *)

\* A change that is under way is of the game it was asked of, and one that waits was asked of the game
\* that is loading.
Owed(t) ==
  \A r \in Requests :
    /\ t.requests[r].game # 0 => t.requests[r].asked = t.requests[r].game
    /\ t.load.pending = r => t.requests[r].asked = t.load.at

\* While a game is loading no game is active.
OneGame(t) == (t.load.at # 0 => t.game.at = 0) /\ (t.load.identified => t.load.at # 0)

MediaInv == Owed(State) /\ OneGame(State)

\* Other media are in the game that is active only for a change that was asked of it.
Changed(t, u) ==
  t.game.at # 0 /\ u.game.at = t.game.at /\ u.game.hash # t.game.hash =>
    \E r \in Requests : u.requests[r].told # t.requests[r].told /\ u.requests[r].asked = t.game.at

\* What the helpers leave alone.
Keeps(t, u) ==
  /\ u.load.at = t.load.at /\ u.load.identified = t.load.identified
  /\ u.load.pending = t.load.pending /\ u.game.at = t.game.at
  /\ \A x \in Requests : /\ u.requests[x].asked = t.requests[x].asked
                         /\ u.requests[x].game = t.requests[x].game

LEMMA OneKeeps ==
  ASSUME NEW t \in StateSet, NEW u, NEW r \in Requests, NEW q, NEW S, Does(t, u, r, q, S),
         q.asked = t.requests[r].asked, q.game = t.requests[r].game, u.game.at = t.game.at
  PROVE  Keeps(t, u)
<1>1. u.requests = [t.requests EXCEPT ![r] = q] /\ u.load = t.load  BY DEF Does
<1>2. \A x \in Requests : u.requests[x] = IF x = r THEN q ELSE t.requests[x]  BY <1>1 DEF StateSet
<1>3. QED  BY <1>1, <1>2 DEF Keeps

LEMMA TellKeeps ==
  ASSUME NEW t \in StateSet, NEW r \in Requests, NEW result \in Results
  PROVE  Tell(t, r, result) \in StateSet /\ Keeps(t, Tell(t, r, result))
         /\ Tell(t, r, result).game = t.game
<1> DEFINE q == t.requests[r]
           told == Append(q.told, result)
           p == [q EXCEPT !.told = told]
           u == Tell(t, r, result)
<1>1. Does(t, u, r, p, t.slots)  BY Telling
<1>2. q \in RequestSet  BY Requested
<1>3. u.game = t.game  BY DEF Tell, StateSet
<1> HIDE DEF q, told
<1>4. p.asked = q.asked /\ p.game = q.game  BY <1>2 DEF RequestSet
<1> HIDE DEF p, u
<1>5. Keeps(t, u)  BY <1>1, <1>3, <1>4, OneKeeps DEF q
<1>6. u \in StateSet  BY <1>1, After
<1>7. QED  BY <1>3, <1>5, <1>6 DEF u

LEMMA SetPhaseKeeps ==
  ASSUME NEW t \in StateSet, NEW r \in Requests, NEW x \in Phases
  PROVE  SetPhase(t, r, x) \in StateSet /\ Keeps(t, SetPhase(t, r, x))
         /\ SetPhase(t, r, x).game = t.game
         /\ SetPhase(t, r, x).requests[r].told = t.requests[r].told
<1> DEFINE q == t.requests[r]
           p == [q EXCEPT !.phase = x]
           u == SetPhase(t, r, x)
<1>1. Does(t, u, r, p, t.slots)  BY Phase DEF SetPhase
<1>2. q \in RequestSet  BY Requested
<1>3. u.game = t.game  BY DEF SetPhase, StateSet
<1> HIDE DEF q
<1>4. p.asked = q.asked /\ p.game = q.game /\ p.told = q.told  BY <1>2 DEF RequestSet
<1> HIDE DEF p, u
<1>5. Keeps(t, u)  BY <1>1, <1>3, <1>4, OneKeeps DEF q
<1>6. u \in StateSet /\ u.requests[r] = p  BY <1>1, After
<1>7. QED  BY <1>3, <1>4, <1>5, <1>6 DEF u, q

LEMMA BeginAsyncKeeps ==
  ASSUME NEW t \in StateSet, NEW r \in Requests
  PROVE  BeginAsync(t, r) \in StateSet /\ Keeps(t, BeginAsync(t, r))
         /\ BeginAsync(t, r).game = t.game
<1> DEFINE q == t.requests[r]
           u == BeginAsync(t, r)
<1>1. PICK full \in BOOLEAN :
        Does(t, u, r, [q EXCEPT !.phase = "calling", !.slotless = full],
             IF full THEN t.slots ELSE t.slots \cup {r})
  BY Beginning
<1> DEFINE p == [q EXCEPT !.phase = "calling", !.slotless = full]
           S == IF full THEN t.slots ELSE t.slots \cup {r}
<1>2. q \in RequestSet  BY Requested
<1>3. u.game = t.game  BY DEF BeginAsync, StateSet
<1> HIDE DEF q
<1>4. p.asked = q.asked /\ p.game = q.game  BY <1>2 DEF RequestSet
<1> HIDE DEF p, u, S
<1>5. Does(t, u, r, p, S)  BY <1>1 DEF p, S
<1>6. Keeps(t, u)  BY <1>3, <1>4, <1>5, OneKeeps DEF q
<1>7. u \in StateSet  BY <1>5, After
<1>8. QED  BY <1>3, <1>6, <1>7 DEF u

LEMMA EndAsyncKeeps ==
  ASSUME NEW t \in StateSet, NEW r \in Requests
  PROVE  EndAsync(t, r) \in StateSet /\ Keeps(t, EndAsync(t, r))
         /\ EndAsync(t, r).game = t.game
         /\ EndAsync(t, r).requests[r].told = t.requests[r].told
<1> DEFINE q == t.requests[r]
           u == EndAsync(t, r)
<1>1. CASE t.requests[r].aborted = "destroyed"  BY <1>1, Ending DEF Keeps
<1>2. CASE t.requests[r].aborted # "destroyed"
  <2>1. PICK gone \in BOOLEAN :
          Does(t, u, r, [q EXCEPT !.stray = gone], t.slots \ {r})
    BY <1>2, Ending
  <2> DEFINE p == [q EXCEPT !.stray = gone]
  <2>2. q \in RequestSet  BY Requested
  <2>3. u.game = t.game  BY DEF EndAsync, StateSet
  <2> HIDE DEF q
  <2>4. p.asked = q.asked /\ p.game = q.game /\ p.told = q.told  BY <2>2 DEF RequestSet
  <2> HIDE DEF p, u
  <2>5. Does(t, u, r, p, t.slots \ {r})  BY <2>1 DEF p
  <2>6. Keeps(t, u)  BY <2>3, <2>4, <2>5, OneKeeps DEF q
  <2>7. u \in StateSet /\ u.requests[r] = p  BY <2>5, After
  <2>8. QED  BY <2>3, <2>4, <2>6, <2>7 DEF u, q
<1>3. QED  BY <1>1, <1>2

LEMMA KeepsTwice ==
  ASSUME NEW t, NEW u, NEW v, Keeps(t, u), Keeps(u, v)
  PROVE  Keeps(t, v)
  BY DEF Keeps

LEMMA AnsweredKeeps ==
  ASSUME NEW t \in StateSet, NEW r \in Requests
  PROVE  Answered(t, r) \in StateSet /\ Keeps(t, Answered(t, r)) /\ Answered(t, r).game = t.game
         /\ Answered(t, r).requests[r].told = t.requests[r].told
<1> DEFINE u == EndAsync(t, r)
           next == IF u.requests[r].phase = "calling" THEN "answered" ELSE "done"
<1>1. u \in StateSet /\ Keeps(t, u) /\ u.game = t.game /\ u.requests[r].told = t.requests[r].told
  BY EndAsyncKeeps
<1>2. Answered(t, r) = SetPhase(u, r, next)  BY DEF Answered, SetPhase
<1>3. next \in Phases  BY DEF Phases
<1> HIDE DEF u, next
<1>4. /\ SetPhase(u, r, next) \in StateSet /\ Keeps(u, SetPhase(u, r, next))
      /\ SetPhase(u, r, next).game = u.game
      /\ SetPhase(u, r, next).requests[r].told = u.requests[r].told
  BY <1>1, <1>3, SetPhaseKeeps
<1>5. QED  BY <1>1, <1>2, <1>4, KeepsTwice

\* rc_client_change_media_internal: the one place where the media change, and it tells so.
LEMMA ChangeKeeps ==
  ASSUME NEW t \in StateSet, NEW r \in Requests, NEW hash \in HashOrNone
  PROVE  /\ ChangeMediaInternal(t, r, hash) \in StateSet
         /\ Keeps(t, ChangeMediaInternal(t, r, hash))
         /\ t.requests[r].told = <<>> => ChangeMediaInternal(t, r, hash).requests[r].told # <<>>
<1> DEFINE c == [t EXCEPT !.game.hash = hash]
           soft == [c EXCEPT !.hardcore = FALSE]
           u == ChangeMediaInternal(t, r, hash)
<1>1. c \in StateSet /\ c.load = t.load /\ c.requests = t.requests /\ c.game.at = t.game.at
  BY DEF StateSet, GameSet
<1>2. /\ soft \in StateSet /\ soft.load = t.load /\ soft.requests = t.requests
      /\ soft.game.at = t.game.at
  BY <1>1 DEF StateSet
<1>3. Keeps(t, c) /\ Keeps(t, soft)  BY <1>1, <1>2 DEF Keeps
<1>4. u = Tell(soft, r, "hardcoreDisabled") \/ u = Tell(c, r, "ok")  BY DEF ChangeMediaInternal
<1>5. PICK p \in RequestSet, x \in Results :
        /\ Does(t, u, r, p, t.slots) /\ p.told = Append(t.requests[r].told, x)
  BY Changing
<1> HIDE DEF c, soft, u
<1>6. u \in StateSet /\ u.requests[r] = p  BY <1>5, After
<1>7. t.requests[r].told = <<>> => u.requests[r].told # <<>>  BY <1>5, <1>6, FirstResult
<1>8. Keeps(t, u)  BY <1>1, <1>2, <1>3, <1>4, TellKeeps, KeepsTwice DEF Results
<1>9. QED  BY <1>6, <1>7, <1>8 DEF u

\* A request that is begun changes its own media, if any, and takes nobody else's.
Stays(t, u, r) ==
  /\ u \in StateSet /\ Owed(u)
  /\ u.load.at = t.load.at /\ u.load.identified = t.load.identified /\ u.game.at = t.game.at
  /\ \A x \in Requests : u.requests[x].asked = t.requests[x].asked
  /\ u.game.hash # t.game.hash => u.requests[r].told # <<>>

LEMMA OwedKeeps ==
  ASSUME NEW t, NEW u, Keeps(t, u), Owed(t)
  PROVE  Owed(u)
  BY DEF Keeps, Owed

LEMMA NotedKeeps ==
  ASSUME NEW t \in StateSet, NEW q \in RequestSet
  PROVE  Noted(t, q) \in StateSet /\ Keeps(t, Noted(t, q)) /\ Noted(t, q).game.hash = t.game.hash
<1>1. Noted(t, q) \in StateSet /\ Noted(t, q).requests = t.requests  BY Noting DEF Beside
<1>2. \/ Noted(t, q) = t
      \/ \E f : Noted(t, q) \in {[t EXCEPT !.load.files = f], [t EXCEPT !.game.files = f]}
  BY DEF Noted
<1> DEFINE n == Noted(t, q)
<1>3. CASE n = t  BY <1>1, <1>3 DEF Keeps
<1>4. ASSUME NEW f, n \in {[t EXCEPT !.load.files = f], [t EXCEPT !.game.files = f]}
      PROVE  Keeps(t, n) /\ n.game.hash = t.game.hash
  <2>1. /\ n.load.at = t.load.at /\ n.load.identified = t.load.identified
        /\ n.load.pending = t.load.pending /\ n.game.at = t.game.at /\ n.game.hash = t.game.hash
    BY <1>4 DEF StateSet, LoadSet, GameSet
  <2>2. QED  BY <1>1, <2>1 DEF Keeps
<1>5. QED  BY <1>1, <1>2, <1>3, <1>4

LEMMA FinishKeeps ==
  ASSUME NEW t \in StateSet, NEW r \in Requests, NEW result \in Results
  PROVE  Finish(t, r, result) \in StateSet /\ Keeps(t, Finish(t, r, result))
         /\ Finish(t, r, result).game = t.game
<1> DEFINE v == Tell(t, r, result)
           w == SetPhase(v, r, "done")
<1>1. "done" \in Phases  BY DEF Phases
<1>2. v \in StateSet /\ Keeps(t, v) /\ v.game = t.game  BY TellKeeps
<1>3. Finish(t, r, result) = w  BY DEF Finish, SetPhase
<1> HIDE DEF v
<1>4. w \in StateSet /\ Keeps(v, w) /\ w.game = v.game  BY <1>1, <1>2, SetPhaseKeeps
<1> HIDE DEF w
<1>5. QED  BY <1>2, <1>3, <1>4, KeepsTwice

\* rc_client_begin_change_media_internal, for the game the change was asked of.
LEMMA BeginInternalStays ==
  ASSUME NEW t \in StateSet, Owed(t), NEW r \in Requests, NEW at \in Nat, NEW hash \in HashOrNone,
         t.requests[r].asked = at, t.requests[r].told = <<>>
  PROVE  Stays(t, BeginChangeMediaInternal(t, r, at, hash), r)
<1> DEFINE q == t.requests[r]
           u == BeginChangeMediaInternal(t, r, at, hash)
<1>1. q \in RequestSet  BY Requested
<1>2. CASE u = SetPhase(ChangeMediaInternal(t, r, hash), r, "done")
  <2> DEFINE c == ChangeMediaInternal(t, r, hash)
             d == SetPhase(c, r, "done")
  <2>1. c \in StateSet /\ Keeps(t, c) /\ c.requests[r].told # <<>>  BY ChangeKeeps
  <2> HIDE DEF c
  <2>2. "done" \in Phases  BY DEF Phases
  <2>3. d \in StateSet /\ Keeps(c, d) /\ d.requests[r].told = c.requests[r].told
    BY <2>1, <2>2, SetPhaseKeeps
  <2> HIDE DEF d
  <2>4. Keeps(t, d)  BY <2>1, <2>3, KeepsTwice
  <2>5. Stays(t, d, r)  BY <2>1, <2>3, <2>4, OwedKeeps DEF Stays, Keeps
  <2>6. QED  BY <1>2, <2>5 DEF d, c
<1>3. CASE u = BeginAsync([t EXCEPT !.requests[r].game = at, !.requests[r].hash = hash], r)
  <2> DEFINE e == [q EXCEPT !.game = at, !.hash = hash]
             v == [t EXCEPT !.requests = [t.requests EXCEPT ![r] = e]]
             w == BeginAsync(v, r)
  <2>1. e \in RequestSet /\ e.asked = q.asked /\ e.game = at  BY <1>1 DEF RequestSet
  <2>2. [t EXCEPT !.requests[r].game = at, !.requests[r].hash = hash] = v
    BY <1>1 DEF StateSet
  <2> HIDE DEF e
  <2>3. v \in StateSet /\ v.load = t.load /\ v.game = t.game /\ v.requests = [t.requests EXCEPT ![r] = e]
    BY <2>1 DEF StateSet
  <2> HIDE DEF v
  <2>4. \A x \in Requests : v.requests[x] = IF x = r THEN e ELSE t.requests[x]
    BY <2>3 DEF StateSet
  <2>5. Owed(v)  BY <2>1, <2>3, <2>4 DEF Owed
  <2>6. w \in StateSet /\ Keeps(v, w) /\ w.game = v.game  BY <2>3, BeginAsyncKeeps
  <2> HIDE DEF w
  <2>7. Owed(w)  BY <2>5, <2>6, OwedKeeps
  <2>8. Stays(t, w, r)  BY <2>1, <2>3, <2>4, <2>6, <2>7 DEF Stays, Keeps
  <2>9. QED  BY <1>3, <2>2, <2>8 DEF w
<1>4. QED  BY <1>2, <1>3 DEF BeginChangeMediaInternal, SetPhase

\* rc_client_begin_change_media: of the game that is loading, or of the one that is active.
LEMMA BeginChangeStays ==
  ASSUME NEW t \in StateSet, Owed(t), NEW r \in Requests,
         t.requests[r].asked = IF t.load.at # 0 THEN t.load.at ELSE t.game.at,
         t.requests[r].told = <<>>, t.requests[r].game = 0
  PROVE  Stays(t, BeginChange(t, r), r)
<1> DEFINE q == t.requests[r]
           at == IF t.load.at # 0 THEN t.load.at ELSE t.game.at
           pended == [t EXCEPT !.load.pending = r, !.requests[r].phase = "done"]
           internal == BeginChangeMediaInternal(Noted(t, q), r, at, HashOf(t, q))
<1>1. q \in RequestSet /\ at \in Nat  BY Requested DEF StateSet, LoadSet, GameSet
<1>2. \/ BeginChange(t, r) = pended /\ t.load.at # 0
      \/ BeginChange(t, r) = Finish(t, r, "noGame")
      \/ BeginChange(t, r) = internal
  BY DEF BeginChange, CheckPendingMedia
<1>3. t.load.at # 0 => Stays(t, pended, r)
  <2> SUFFICES ASSUME t.load.at # 0  PROVE Stays(t, pended, r)
    OBVIOUS
  <2> DEFINE p == [q EXCEPT !.phase = "done"]
  <2>1. p \in RequestSet /\ p.asked = q.asked /\ p.game = q.game
    BY <1>1 DEF RequestSet, Phases
  <2> DEFINE l == [t.load EXCEPT !.pending = r]
  <2>2. pended = [t EXCEPT !.load = l, !.requests = [t.requests EXCEPT ![r] = p]]  OBVIOUS
  <2>3. /\ l \in LoadSet /\ l.at = t.load.at /\ l.identified = t.load.identified /\ l.pending = r
    BY DEF StateSet, LoadSet
  <2> HIDE DEF p, l, pended
  <2>4. /\ pended \in StateSet /\ pended.game = t.game /\ pended.load = l
        /\ pended.requests = [t.requests EXCEPT ![r] = p]
    BY <2>1, <2>2, <2>3 DEF StateSet
  <2>5. \A x \in Requests : pended.requests[x] = IF x = r THEN p ELSE t.requests[x]
    BY <2>4 DEF StateSet
  <2>6. Owed(pended)  BY <2>1, <2>3, <2>4, <2>5 DEF Owed
  <2>7. QED  BY <2>1, <2>3, <2>4, <2>5, <2>6 DEF Stays
<1>4. Stays(t, Finish(t, r, "noGame"), r)
  <2> DEFINE w == Finish(t, r, "noGame")
  <2>1. "noGame" \in Results  BY DEF Results
  <2>2. w \in StateSet /\ Keeps(t, w) /\ w.game = t.game  BY <2>1, FinishKeeps
  <2> HIDE DEF w
  <2>3. Stays(t, w, r)  BY <2>2, OwedKeeps DEF Stays, Keeps
  <2>4. QED  BY <2>3 DEF w
<1>5. Stays(t, internal, r)
  <2> DEFINE n == Noted(t, q)
             h == HashOf(t, q)
             u == BeginChangeMediaInternal(n, r, at, h)
  <2>1. h \in HashOrNone /\ n.requests = t.requests  BY <1>1, Noting DEF Beside
  <2>2. n \in StateSet /\ Keeps(t, n) /\ n.game.hash = t.game.hash  BY <1>1, NotedKeeps
  <2>3. Owed(n)  BY <2>2, OwedKeeps
  <2>4. n.requests[r].asked = at /\ n.requests[r].told = <<>>  BY <2>1
  <2> HIDE DEF n, h, at
  <2>5. Stays(n, u, r)  BY <1>1, <2>1, <2>2, <2>3, <2>4, BeginInternalStays
  <2> HIDE DEF u
  <2>6. Stays(t, u, r)  BY <2>2, <2>5 DEF Stays, Keeps
  <2>7. QED  BY <2>6 DEF u, n, h
<1>6. QED  BY <1>2, <1>3, <1>4, <1>5

\* rc_client_activate_game begins the change that waited for this very load.
LEMMA BeginPendingStays ==
  ASSUME NEW t \in StateSet, Owed(t), NEW r \in Requests, t.load.pending = r, t.load.at # 0,
         t.requests[r].told = <<>>, t.requests[r].game = 0
  PROVE  Stays(t, BeginPending(t, r), r)
<1> DEFINE w == [t EXCEPT !.load.pending = "none"]
           b == BeginChange(w, r)
           next == IF b.requests[r].phase = "calling" THEN "open" ELSE b.requests[r].phase
           u == SetPhase(b, r, next)
<1>1. /\ w \in StateSet /\ w.requests = t.requests /\ w.game = t.game /\ w.load.at = t.load.at
      /\ w.load.identified = t.load.identified /\ w.load.pending = "none"
  BY DEF StateSet, LoadSet
<1>2. t.requests[r].asked = t.load.at  BY DEF Owed
<1> HIDE DEF w
<1>3. Owed(w)  BY <1>1, RequestsAssumption DEF Owed
<1>4. Stays(w, b, r)  BY <1>1, <1>2, <1>3, BeginChangeStays
<1> HIDE DEF b
<1>5. b \in StateSet  BY <1>4 DEF Stays
<1>6. next \in Phases
  <2>1. b.requests[r].phase \in Phases  BY <1>5, Requested DEF RequestSet
  <2>2. QED  BY <2>1 DEF Phases
<1>7. BeginPending(t, r) = u  BY DEF BeginPending, SetPhase, b, w
<1> HIDE DEF next
<1>8. /\ u \in StateSet /\ Keeps(b, u) /\ u.game = b.game /\ u.requests[r].told = b.requests[r].told
  BY <1>5, <1>6, SetPhaseKeeps
<1> HIDE DEF u
<1>9. Owed(u)  BY <1>4, <1>8, OwedKeeps DEF Stays
<1>10. Stays(t, u, r)  BY <1>1, <1>4, <1>8, <1>9 DEF Stays, Keeps
<1>11. QED  BY <1>7, <1>10

\* What is to be shown of a step.
LEMMA Landing ==
  ASSUME NEW u \in StateSet, Becomes(u), Owed(u), OneGame(u), Changed(State, u)
  PROVE  MediaInv' /\ Changed(State, State')
<1>1. State' = u  BY Becoming
<1>2. QED  BY <1>1 DEF MediaInv

\* A step that leaves games and media alone.
LEMMA SameMedia ==
  ASSUME MediaInv, NEW u \in StateSet, Becomes(u), Keeps(State, u), u.game = State.game
  PROVE  MediaInv' /\ Changed(State, State')
<1>1. Owed(u)  BY OwedKeeps DEF MediaInv
<1>2. OneGame(u) /\ Changed(State, u)  BY DEF MediaInv, OneGame, Changed, Keeps
<1>3. QED  BY <1>1, <1>2, Landing

LEMMA RequestKeeps ==
  ASSUME NEW t \in StateSet, NEW r \in Requests, NEW p \in RequestSet,
         p.asked = t.requests[r].asked, p.game = t.requests[r].game
  PROVE  LET u == [t EXCEPT !.requests = [t.requests EXCEPT ![r] = p]]
         IN u \in StateSet /\ Keeps(t, u) /\ u.game = t.game
<1> DEFINE u == [t EXCEPT !.requests = [t.requests EXCEPT ![r] = p]]
<1>1. u \in StateSet /\ u.game = t.game  BY DEF StateSet
<1>2. Does(t, u, r, p, t.slots)  BY <1>1 DEF Does, StateSet
<1> HIDE DEF u
<1>3. Keeps(t, u)  BY <1>1, <1>2, OneKeeps
<1>4. QED  BY <1>1, <1>3 DEF u

LEMMA BeginFetchMedia ==
  ASSUME RequestsInv, MediaInv, NEW r \in Requests, NEW kind \in ListKinds, NEW possible,
         BeginFetch(r, kind, possible)
  PROVE  MediaInv' /\ Changed(State, State')
<1> DEFINE q == requests[r]
           k == [q EXCEPT !.kind = kind]
           t == [State EXCEPT !.requests = [requests EXCEPT ![r] = k]]
<1>1. State \in StateSet /\ State.requests = requests /\ q \in RequestSet  BY Known
<1>2. Becomes(IF possible THEN BeginAsync(t, r) ELSE Finish(t, r, "invalid"))
  <2>1. [State EXCEPT !.requests[r].kind = kind] = t  BY <1>1
  <2>2. QED  BY <2>1 DEF BeginFetch
<1>3. k \in RequestSet  BY <1>1, Fields
<1>4. k.asked = q.asked /\ k.game = q.game  BY <1>1 DEF RequestSet
<1> HIDE DEF k
<1>5. t \in StateSet /\ Keeps(State, t) /\ t.game = State.game  BY <1>1, <1>3, <1>4, RequestKeeps
<1> HIDE DEF t
<1>6. CASE possible
  <2> DEFINE u == BeginAsync(t, r)
  <2>1. u \in StateSet /\ Keeps(t, u) /\ u.game = t.game  BY <1>5, BeginAsyncKeeps
  <2>2. Becomes(u)  BY <1>2, <1>6
  <2> HIDE DEF u
  <2>3. Keeps(State, u)  BY <1>5, <2>1, KeepsTwice
  <2>4. QED  BY <1>5, <2>1, <2>2, <2>3, SameMedia
<1>7. CASE ~possible
  <2> DEFINE u == Finish(t, r, "invalid")
  <2>1. "invalid" \in Results  BY DEF Results
  <2>2. u \in StateSet /\ Keeps(t, u) /\ u.game = t.game  BY <1>5, <2>1, FinishKeeps
  <2>3. Becomes(u)  BY <1>2, <1>7
  <2> HIDE DEF u
  <2>4. Keeps(State, u)  BY <1>5, <2>2, KeepsTwice
  <2>5. QED  BY <1>5, <2>2, <2>3, <2>4, SameMedia
<1>8. QED  BY <1>6, <1>7

LEMMA AnswerFetchMedia ==
  ASSUME RequestsInv, MediaInv, NEW r \in Requests, NEW kinds \in SUBSET ListKinds,
         NEW result \in {"ok", "error"}, AnswerFetch(r, kinds, result)
  PROVE  MediaInv' /\ Changed(State, State')
<1> DEFINE t == Answered(State, r)
           kind == requests[r].kind
<1>1. State \in StateSet  BY Known
<1>2. kind \in ListKinds  BY DEF AnswerFetch
<1>3. PICK entries \in Answers[kind] :
        Becomes(CASE requests[r].aborted # "no" -> t
                  [] requests[r].aborted = "no" /\ result # "ok" -> Tell(t, r, result)
                  [] OTHER -> [Tell(t, r, "ok") EXCEPT !.requests[r].list = ListOf(kind, entries)])
  BY DEF AnswerFetch
<1>4. t \in StateSet /\ Keeps(State, t) /\ t.game = State.game  BY <1>1, AnsweredKeeps
<1> HIDE DEF t
<1>5. ASSUME NEW x \in Results
      PROVE  Tell(t, r, x) \in StateSet /\ Keeps(State, Tell(t, r, x)) /\ Tell(t, r, x).game = State.game
  BY <1>4, TellKeeps, KeepsTwice
<1>6. "ok" \in Results /\ result \in Results  BY DEF Results
<1>7. CASE Becomes(t)  BY <1>4, <1>7, SameMedia
<1>8. CASE Becomes(Tell(t, r, result))  BY <1>5, <1>6, <1>8, SameMedia
<1>9. CASE Becomes([Tell(t, r, "ok") EXCEPT !.requests[r].list = ListOf(kind, entries)])
  <2> DEFINE v == Tell(t, r, "ok")
             list == ListOf(kind, entries)
             q == v.requests[r]
             l == [q EXCEPT !.list = list]
             u == [v EXCEPT !.requests = [v.requests EXCEPT ![r] = l]]
  <2>1. list \in Lists  BY <1>2, <1>3 DEF Lists
  <2>2. v \in StateSet /\ Keeps(State, v) /\ v.game = State.game  BY <1>5, <1>6
  <2>3. Becomes(u)  BY <1>9
  <2> HIDE DEF v, list
  <2>4. q \in RequestSet  BY <2>2, Requested
  <2>5. l \in RequestSet  BY <2>1, <2>4, Fields
  <2>6. l.asked = q.asked /\ l.game = q.game  BY <2>4 DEF RequestSet
  <2> HIDE DEF l
  <2>7. u \in StateSet /\ Keeps(v, u) /\ u.game = v.game  BY <2>2, <2>5, <2>6, RequestKeeps
  <2> HIDE DEF u
  <2>8. Keeps(State, u)  BY <2>2, <2>7, KeepsTwice
  <2>9. QED  BY <2>2, <2>3, <2>7, <2>8, SameMedia
<1>10. QED  BY <1>3, <1>7, <1>8, <1>9

LEMMA HandlesMedia ==
  ASSUME RequestsInv, MediaInv, NEW r \in Requests, Returns(r) \/ AbortAsync(r)
  PROVE  MediaInv' /\ Changed(State, State')
<1> DEFINE q == requests[r]
<1>1. State \in StateSet /\ State.requests = requests /\ q \in RequestSet  BY Known
<1>2. ASSUME NEW p \in RequestSet, p.asked = q.asked, p.game = q.game,
             Becomes([State EXCEPT !.requests = [requests EXCEPT ![r] = p]])
      PROVE  MediaInv' /\ Changed(State, State')
  <2> DEFINE u == [State EXCEPT !.requests = [requests EXCEPT ![r] = p]]
  <2>1. u \in StateSet /\ Keeps(State, u) /\ u.game = State.game  BY <1>1, <1>2, RequestKeeps
  <2>2. Becomes(u)  BY <1>2
  <2> HIDE DEF u
  <2>3. QED  BY <2>1, <2>2, SameMedia
<1>3. CASE Returns(r)
  <2>1. PICK held \in BOOLEAN : held = (r \in slots)
    <3>1. CASE r \in slots  BY <3>1, TRUE = (r \in slots)
    <3>2. CASE r \notin slots  BY <3>2, FALSE = (r \in slots)
    <3>3. QED  BY <3>1, <3>2
  <2>2. PICK x \in Phases : x = IF q.phase = "calling" THEN "open" ELSE "done"  BY DEF Phases
  <2> DEFINE p == [q EXCEPT !.handle = held, !.phase = x]
  <2>3. p \in RequestSet /\ p.asked = q.asked /\ p.game = q.game  BY <1>1 DEF RequestSet
  <2>4. Becomes([State EXCEPT !.requests = [requests EXCEPT ![r] = p]])
    <3>1. [State EXCEPT !.requests[r].handle = r \in slots,
                        !.requests[r].phase = IF @ = "calling" THEN "open" ELSE "done"]
          = [State EXCEPT !.requests = [requests EXCEPT ![r] = p]]
      BY <1>1, <2>1, <2>2
    <3>2. QED  BY <1>3, <3>1 DEF Returns
  <2> HIDE DEF p
  <2>5. QED  BY <1>2, <2>3, <2>4
<1>4. CASE AbortAsync(r)
  <2> DEFINE p == [q EXCEPT !.aborted = "aborted"]
  <2>1. p \in RequestSet /\ p.asked = q.asked /\ p.game = q.game  BY <1>1 DEF RequestSet
  <2>2. Becomes([State EXCEPT !.requests = [requests EXCEPT ![r] = p]])  BY <1>1, <1>4 DEF AbortAsync
  <2> HIDE DEF p
  <2>3. QED  BY <1>2, <2>1, <2>2
<1>5. QED  BY <1>3, <1>4

LEMMA ChangeMediaMedia ==
  ASSUME RequestsInv, MediaInv, NEW r \in Requests, NEW hash \in HashOrNone,
         NEW path \in Paths \cup {"none"}, ChangeMedia(r, hash, path)
  PROVE  MediaInv' /\ Changed(State, State')
<1> DEFINE q == requests[r]
           asked == IF load.at # 0 THEN load.at ELSE game.at
           e == [q EXCEPT !.kind = "media", !.hash = hash, !.path = path, !.asked = asked]
           t == [State EXCEPT !.requests = [requests EXCEPT ![r] = e]]
           u == BeginChange(t, r)
<1>1. /\ State \in StateSet /\ State.requests = requests /\ State.load = load /\ State.game = game
      /\ load \in LoadSet /\ game \in GameSet /\ q \in RequestSet
      /\ RequestOK(q, alive, r \in slots, load.pending = r) /\ q.phase = "fresh"
  BY Known DEF ChangeMedia
<1>2. q.told = <<>> /\ q.game = 0 /\ load.pending # r  BY <1>1 DEF RequestOK
<1>3. Becomes(u)
  <2>1. [State EXCEPT !.requests[r].kind = "media", !.requests[r].hash = hash, !.requests[r].path = path,
                      !.requests[r].asked = asked] = t
    <3> HIDE DEF asked
    <3>1. QED  BY <1>1, ZenonT(60) DEF StateSet
  <2>2. QED  BY <2>1 DEF ChangeMedia
<1>4. PICK a \in Nat : a = asked  BY <1>1 DEF LoadSet, GameSet
<1> HIDE DEF asked
<1>5. e \in RequestSet /\ e.told = <<>> /\ e.game = 0 /\ e.asked = a
  BY ZenonT(60), <1>1, <1>2, <1>4 DEF RequestSet
<1> HIDE DEF e
<1>6. t \in StateSet /\ t.load = load /\ t.game = game /\ t.requests = [requests EXCEPT ![r] = e]
  BY <1>1, <1>5 DEF StateSet
<1> HIDE DEF t
<1>7. \A x \in Requests : t.requests[x] = IF x = r THEN e ELSE requests[x]
  BY <1>6 DEF StateSet
<1>8. Owed(t)  BY <1>1, <1>2, <1>5, <1>6, <1>7 DEF MediaInv, Owed
<1>9. Stays(t, u, r)  BY <1>4, <1>5, <1>6, <1>7, <1>8, BeginChangeStays DEF asked
<1> HIDE DEF u
<1>10. u \in StateSet /\ Owed(u)  BY <1>9 DEF Stays
<1>11. OneGame(u)  BY <1>1, <1>6, <1>9 DEF OneGame, Stays, MediaInv
<1>12. Changed(State, u)
  <2> SUFFICES ASSUME game.at # 0, u.game.hash # game.hash
               PROVE  u.requests[r].told # requests[r].told /\ u.requests[r].asked = game.at
    BY <1>1 DEF Changed
  <2>1. a = game.at  BY <1>1, <1>4 DEF MediaInv, OneGame, asked
  <2>2. u.requests[r].told # <<>>  BY <1>6, <1>9 DEF Stays
  <2>3. u.requests[r].asked = a  BY <1>5, <1>7, <1>9 DEF Stays
  <2>4. QED  BY <1>2, <2>1, <2>2, <2>3
<1>13. QED  BY <1>3, <1>10, <1>11, <1>12, Landing

\* rc_client_identify_changed_media_callback: a late answer does not change the media of another game.
LEMMA AnswerMediaMedia ==
  ASSUME RequestsInv, MediaInv, NEW r \in Requests, NEW result \in {"ok", "error"}, NEW id \in Int,
         AnswerMedia(r, result, id)
  PROVE  MediaInv' /\ Changed(State, State')
<1> DEFINE q == requests[r]
           t == Answered(State, r)
           learned == [t EXCEPT !.known[q.hash] = id]
           changed == ChangeMediaInternal(learned, r, q.hash)
<1>1. /\ State \in StateSet /\ State.requests = requests /\ State.game = game /\ q \in RequestSet
      /\ RequestOK(q, alive, r \in slots, load.pending = r)
  BY Known
<1>2. q.phase \in Active  BY DEF AnswerMedia, Active
<1>3. q.told = <<>>  BY <1>1, <1>2 DEF RequestOK
<1>4. \/ Becomes(t) \/ Becomes(learned)
      \/ Becomes(Tell(t, r, "noLongerActive")) \/ Becomes(Tell(t, r, result))
      \/ Becomes(changed) /\ game.at = q.game
  BY <1>1 DEF AnswerMedia, RequestSet
<1>5. q.hash \in HashOrNone  BY <1>1 DEF RequestSet
<1>6. t \in StateSet /\ Keeps(State, t) /\ t.game = game /\ t.requests[r].told = <<>>
  BY <1>1, <1>3, AnsweredKeeps
<1> HIDE DEF t
<1>7. learned \in StateSet /\ learned.requests = t.requests /\ learned.load = t.load /\ learned.game = t.game
  <2> DEFINE k == [t.known EXCEPT ![q.hash] = id]
  <2>1. k \in [Hashes -> Int]  BY <1>6, Learning
  <2>2. learned = [t EXCEPT !.known = k]  OBVIOUS
  <2> HIDE DEF k, learned
  <2>3. QED  BY <1>6, <2>1, <2>2 DEF StateSet
<1> HIDE DEF learned
<1>8. Keeps(State, learned)  BY <1>6, <1>7 DEF Keeps
<1>9. CASE Becomes(t)  BY <1>1, <1>6, <1>9, SameMedia
<1>10. CASE Becomes(learned)  BY <1>1, <1>6, <1>7, <1>8, <1>10, SameMedia
<1>11. ASSUME NEW x \in Results, Becomes(Tell(t, r, x))  PROVE MediaInv' /\ Changed(State, State')
  BY <1>1, <1>6, <1>11, TellKeeps, KeepsTwice, SameMedia
<1>12. CASE Becomes(changed) /\ game.at = q.game
  <2>1. changed \in StateSet /\ Keeps(learned, changed) /\ changed.requests[r].told # <<>>
    BY <1>5, <1>6, <1>7, ChangeKeeps
  <2> HIDE DEF changed
  <2>2. Keeps(State, changed)  BY <1>8, <2>1, KeepsTwice
  <2>3. Owed(changed) /\ OneGame(changed)  BY <2>2, OwedKeeps DEF MediaInv, OneGame, Keeps
  <2>4. Changed(State, changed)
    <3> SUFFICES ASSUME game.at # 0
                 PROVE  changed.requests[r].told # requests[r].told /\ changed.requests[r].asked = game.at
      BY <1>1 DEF Changed
    <3>1. requests[r].asked = game.at  BY <1>1, <1>12 DEF MediaInv, Owed
    <3>2. changed.requests[r].asked = requests[r].asked  BY <1>1, <2>2 DEF Keeps
    <3>3. QED  BY <1>3, <2>1, <3>1, <3>2
  <2>5. QED  BY <1>12, <2>1, <2>3, <2>4, Landing
<1>13. result \in Results /\ "noLongerActive" \in Results  BY DEF Results
<1>14. QED  BY <1>4, <1>9, <1>10, <1>11, <1>12, <1>13

-----------------------------------------------------------------------------
(* A game that comes or goes takes no media from another.                   *)

\* Where no game stays active, nothing is changed.
LEMMA Apart ==
  ASSUME RequestsInv, MediaInv, NEW u \in StateSet, Becomes(u), u.requests = requests,
         u.load.pending = "none" \/ (u.load.pending = load.pending /\ u.load.at = load.at),
         OneGame(u), u.game.at = 0 \/ game.at = 0
  PROVE  MediaInv' /\ Changed(State, State')
<1>1. State.requests = requests /\ State.load = load /\ State.game = game  BY DEF State
<1>2. Owed(u)  BY <1>1, RequestsAssumption DEF MediaInv, Owed
<1>3. Changed(State, u)  BY <1>1 DEF Changed
<1>4. QED  BY <1>2, <1>3, Landing

LEMMA ComingMedia ==
  ASSUME RequestsInv, MediaInv,
         \/ \E h \in Hashes : LoadBegins(h)
         \/ LoadIdentifies \/ LoadUnknown \/ Unload
  PROVE  MediaInv' /\ Changed(State, State')
<1>1. /\ State \in StateSet /\ State.requests = requests /\ State.load = load /\ State.game = game
      /\ games \in Nat /\ load \in LoadSet /\ game \in GameSet
  BY DEF RequestsInv, State, StateSet
<1>2. ASSUME NEW h \in Hashes, LoadBegins(h)  PROVE MediaInv' /\ Changed(State, State')
  <2> DEFINE l == [NoLoad EXCEPT !.at = games + 1, !.hash = h]
             u == [State EXCEPT !.game = NoGame, !.load = l]
  <2>1. Becomes(u)  BY <1>2 DEF LoadBegins
  <2>2. l \in LoadSet /\ l.pending = "none" /\ l.at # 0 /\ NoGame.at = 0
    <3>1. games + 1 \in Nat /\ h \in HashOrNone /\ games + 1 # 0  BY <1>1 DEF HashOrNone
    <3>2. \A n \in Nat, x \in HashOrNone :
            LET k == [NoLoad EXCEPT !.at = n, !.hash = x]
            IN k \in LoadSet /\ k.pending = "none" /\ k.at = n
      BY Nothing DEF LoadSet
    <3>3. QED  BY <3>1, <3>2 DEF NoGame
  <2> HIDE DEF l
  <2>3. u \in StateSet /\ u.requests = requests /\ u.load = l /\ u.game = NoGame
    BY <1>1, <2>2, Nothing DEF StateSet
  <2> HIDE DEF u
  <2>4. QED  BY <2>1, <2>2, <2>3, Apart DEF OneGame
<1>3. ASSUME LoadIdentifies  PROVE MediaInv' /\ Changed(State, State')
  <2> DEFINE l == [State.load EXCEPT !.identified = TRUE, !.id = ThisGame]
             k == [State.known EXCEPT ![load.hash] = ThisGame]
             u == [State EXCEPT !.load = l, !.known = k]
  <2>1. Becomes(u) /\ load.at # 0
    <3>1. [State EXCEPT !.load.identified = TRUE, !.load.id = ThisGame, !.known[load.hash] = ThisGame] = u
      OBVIOUS
    <3>2. QED  BY <1>3, <3>1 DEF LoadIdentifies
  <2>2. l \in LoadSet /\ l.pending = load.pending /\ l.at = load.at
    <3> DEFINE m == State.load
    <3>1. m \in LoadSet /\ m = load  BY <1>1
    <3> HIDE DEF m
    <3>2. l = [m EXCEPT !.identified = TRUE, !.id = ThisGame]  BY DEF m
    <3>3. \A id \in Int : LET n == [m EXCEPT !.identified = TRUE, !.id = id]
                          IN n \in LoadSet /\ n.pending = m.pending /\ n.at = m.at
      BY <3>1 DEF LoadSet
    <3>4. ThisGame \in Int  BY DEF ThisGame
    <3>5. QED  BY <3>1, <3>2, <3>3, <3>4
  <2>3. k \in [Hashes -> Int]  BY <1>1, Learning DEF ThisGame
  <2> HIDE DEF l, k
  <2>4. u \in StateSet /\ u.requests = requests /\ u.load = l /\ u.game = game
    BY <1>1, <2>2, <2>3 DEF StateSet
  <2> HIDE DEF u
  <2>5. OneGame(u) /\ game.at = 0  BY <1>1, <2>1, <2>2, <2>4 DEF MediaInv, OneGame
  <2>6. QED  BY <2>1, <2>2, <2>4, <2>5, Apart
<1>4. ASSUME LoadUnknown  PROVE MediaInv' /\ Changed(State, State')
  <2> DEFINE g == [at |-> load.at, id |-> 0, hash |-> load.hash, files |-> load.files]
             k == [State.known EXCEPT ![load.hash] = 0]
             u == [State EXCEPT !.game = g, !.known = k, !.load = NoLoad]
  <2>1. Becomes(u) /\ load.at # 0
    <3>1. [State EXCEPT !.game = g, !.known[load.hash] = 0, !.load = NoLoad] = u  OBVIOUS
    <3>2. QED  BY <1>4, <3>1 DEF LoadUnknown
  <2>2. g \in GameSet  BY <1>1 DEF LoadSet, GameSet
  <2>3. k \in [Hashes -> Int]  BY <1>1, Learning
  <2> HIDE DEF g, k
  <2>4. u \in StateSet /\ u.requests = requests /\ u.load = NoLoad
    BY <1>1, <2>2, <2>3, Nothing DEF StateSet
  <2> HIDE DEF u
  <2>5. OneGame(u) /\ game.at = 0  BY <1>1, <2>1, <2>4 DEF MediaInv, OneGame, NoLoad
  <2>6. QED  BY <2>1, <2>4, <2>5, Nothing, Apart
<1>5. ASSUME Unload  PROVE MediaInv' /\ Changed(State, State')
  <2> DEFINE u == [State EXCEPT !.game = NoGame, !.load = NoLoad]
  <2>1. Becomes(u)  BY <1>5 DEF Unload
  <2>2. u \in StateSet /\ u.requests = requests /\ u.load = NoLoad /\ u.game = NoGame
    BY <1>1, Nothing DEF StateSet
  <2> HIDE DEF u
  <2>3. OneGame(u) /\ u.game.at = 0  BY <2>2 DEF OneGame, NoLoad, NoGame
  <2>4. QED  BY <2>1, <2>2, <2>3, Nothing, Apart
<1>6. QED  BY <1>2, <1>3, <1>4, <1>5

\* What is left of rc_client_destroy is no game and no load.
LEMMA DestroyMedia ==
  ASSUME RequestsInv, MediaInv, Destroy
  PROVE  MediaInv' /\ Changed(State, State')
<1> DEFINE gone(x) == IF x \in slots THEN [requests[x] EXCEPT !.aborted = "destroyed"] ELSE requests[x]
           all == [x \in Requests |-> gone(x)]
           u == [State EXCEPT !.alive = FALSE, !.game = NoGame, !.load = NoLoad, !.slots = {},
                              !.requests = all]
<1>1. /\ State \in StateSet /\ State.requests = requests /\ requests \in [Requests -> RequestSet]
      /\ State.hardcore \in BOOLEAN /\ State.known \in [Hashes -> Int]
  BY DEF RequestsInv, State, StateSet
<1>2. Becomes(u)  BY <1>1 DEF Destroy
<1>3. ASSUME NEW x \in Requests
      PROVE  gone(x) \in RequestSet /\ gone(x).asked = requests[x].asked /\ gone(x).game = requests[x].game
  <2> DEFINE q == requests[x]
             p == [q EXCEPT !.aborted = "destroyed"]
  <2>1. q \in RequestSet  BY <1>1
  <2> HIDE DEF q
  <2>2. p \in RequestSet /\ p.asked = q.asked /\ p.game = q.game  BY <2>1 DEF RequestSet
  <2>3. gone(x) = p \/ gone(x) = q  BY DEF q
  <2> HIDE DEF p, gone
  <2>4. QED  BY <2>1, <2>2, <2>3 DEF q
<1>4. all \in [Requests -> RequestSet] /\ \A x \in Requests : all[x] = gone(x)  BY <1>3
<1> HIDE DEF all, gone
<1>5. u \in StateSet /\ u.game = NoGame /\ u.load = NoLoad /\ u.requests = all
  <2>1. NoGame \in GameSet /\ NoLoad \in LoadSet  BY Nothing
  <2>2. u.game = NoGame /\ u.load = NoLoad /\ u.requests = all  BY <1>1 DEF StateSet
  <2>3. u \in StateSet  BY <1>1, <1>4, <2>1 DEF StateSet
  <2>4. QED  BY <2>2, <2>3
<1> HIDE DEF u
<1>6. Owed(u)  BY <1>1, <1>3, <1>4, <1>5, Nothing, RequestsAssumption DEF MediaInv, Owed
<1>7. OneGame(u) /\ Changed(State, u)  BY <1>5 DEF OneGame, Changed, NoGame, NoLoad
<1>8. QED  BY <1>2, <1>5, <1>6, <1>7, Landing

\* rc_client_activate_game: the game that was loading becomes active, and a change that waited for it
\* is of this game.
LEMMA LoadEndsMedia ==
  ASSUME RequestsInv, MediaInv, LoadEnds
  PROVE  MediaInv' /\ Changed(State, State')
<1> DEFINE g == [at |-> load.at, id |-> load.id, hash |-> load.hash, files |-> load.files]
           t == [State EXCEPT !.game = g]
           p == load.pending
           b == IF p = "none" THEN t ELSE BeginPending(t, p)
           f == IF p = "none" THEN b.game.files ELSE b.load.files
           u == [b EXCEPT !.load = NoLoad, !.game.files = f]
<1>1. /\ State \in StateSet /\ State.requests = requests /\ State.load = load /\ State.game = game
      /\ load \in LoadSet /\ p \in Requests \cup {"none"}
  BY DEF RequestsInv, State, StateSet, LoadSet
<1>2. Becomes(u) /\ load.at # 0 /\ game.at = 0
  BY <1>1 DEF LoadEnds, MediaInv, OneGame
<1>3. g \in GameSet  BY <1>1 DEF LoadSet, GameSet
<1> HIDE DEF g
<1>4. t \in StateSet /\ t.load = load /\ t.requests = requests  BY <1>1, <1>3 DEF StateSet
<1> HIDE DEF t
<1>5. Owed(t)  BY <1>1, <1>4 DEF MediaInv, Owed
<1>6. b \in StateSet /\ Owed(b)
  <2>1. CASE p = "none"  BY <1>4, <1>5, <2>1
  <2>2. CASE p # "none"
    <3>1. p \in Requests  BY <1>1, <2>2
    <3>2. RequestOK(requests[p], alive, p \in slots, load.pending = p)  BY <3>1, Known
    <3>3. requests[p].told = <<>> /\ requests[p].game = 0  BY <3>2 DEF RequestOK
    <3> HIDE DEF p
    <3>4. Stays(t, BeginPending(t, p), p)
      BY <1>2, <1>4, <1>5, <3>1, <3>3, BeginPendingStays DEF p
    <3>5. QED  BY <2>2, <3>4 DEF Stays
  <2>3. QED  BY <2>1, <2>2
<1> HIDE DEF b
<1>7. f \in Files  BY <1>6 DEF StateSet, GameSet, LoadSet
<1> HIDE DEF f
<1>8. u \in StateSet /\ u.load = NoLoad /\ u.requests = b.requests
  <2> DEFINE n == [b.game EXCEPT !.files = f]
  <2>1. n \in GameSet
    <3> DEFINE m == b.game
    <3>1. m \in GameSet  BY <1>6 DEF StateSet
    <3> HIDE DEF m
    <3>2. [m EXCEPT !.files = f] \in GameSet  BY <1>7, <3>1 DEF GameSet
    <3>3. QED  BY <3>2 DEF m
  <2>2. u = [b EXCEPT !.load = NoLoad, !.game = n]  OBVIOUS
  <2> HIDE DEF n, u
  <2>3. QED  BY <1>6, <2>1, <2>2, Nothing DEF StateSet
<1> HIDE DEF u
<1>9. Owed(u)  BY <1>6, <1>8, Nothing, RequestsAssumption DEF Owed
<1>10. OneGame(u)  BY <1>8 DEF OneGame, NoLoad
<1>11. Changed(State, u)  BY <1>1, <1>2 DEF Changed
<1>12. QED  BY <1>2, <1>8, <1>9, <1>10, <1>11, Landing

-----------------------------------------------------------------------------
(* All of it.                                                               *)

LEMMA InitMedia == RequestsInit => MediaInv
<1> SUFFICES ASSUME RequestsInit  PROVE MediaInv
  OBVIOUS
<1>1. State.load = NoLoad /\ State.game = NoGame /\ State.requests = [r \in Requests |-> Fresh]
  BY DEF RequestsInit, State
<1>2. \A r \in Requests : State.requests[r].game = 0  BY <1>1 DEF Fresh
<1>3. NoLoad.at = 0 /\ ~NoLoad.identified /\ NoLoad.pending = "none"  BY DEF NoLoad
<1>4. QED  BY <1>1, <1>2, <1>3, RequestsAssumption DEF MediaInv, Owed, OneGame

LEMMA NextMedia ==
  ASSUME RequestsInv, MediaInv, [RequestsNext]_requestVars
  PROVE  MediaInv' /\ Changed(State, State')
<1> DEFINE Goal == MediaInv' /\ Changed(State, State')
<1>1. CASE UNCHANGED requestVars
  <2>1. State' = State  BY <1>1 DEF requestVars, State
  <2>2. QED  BY <2>1 DEF MediaInv, Changed
<1>2. ASSUME NEW r \in Requests, Returns(r) \/ AbortAsync(r)  PROVE Goal
  BY <1>2, HandlesMedia
<1>3. ASSUME NEW r \in Requests,
             \/ FetchAllUserProgress(r) \/ FetchHashLibrary(r) \/ FetchGameTitles(r) \/ FetchGameList(r)
             \/ FetchLeaderboardEntries(r) \/ FetchLeaderboardEntriesAroundUser(r)
      PROVE  Goal
  <2>1. PICK kind \in ListKinds : \E possible : BeginFetch(r, kind, possible)
    BY <1>3 DEF ListKinds, FetchAllUserProgress, FetchHashLibrary, FetchGameTitles, FetchGameList,
                FetchLeaderboardEntries, FetchLeaderboardEntriesAroundUser
  <2>2. QED  BY <2>1, BeginFetchMedia
<1>4. ASSUME NEW r \in Requests, NEW result \in {"ok", "error"},
             \/ AllUserProgressAnswered(r, result) \/ HashLibraryAnswered(r, result)
             \/ GameTitlesAnswered(r, result) \/ GameListAnswered(r, result)
             \/ LeaderboardEntriesAnswered(r, result)
      PROVE  Goal
  <2>1. PICK kinds \in SUBSET ListKinds : AnswerFetch(r, kinds, result)
    BY <1>4 DEF ListKinds, AllUserProgressAnswered, HashLibraryAnswered, GameTitlesAnswered,
                GameListAnswered, LeaderboardEntriesAnswered
  <2>2. QED  BY <2>1, AnswerFetchMedia
<1>5. ASSUME NEW r \in Requests,
             \/ \E h \in Hashes : ChangeMedia(r, h, "none")
             \/ \E p \in Paths : ChangeMedia(r, NoHash, p)
      PROVE  Goal
  BY <1>5, ChangeMediaMedia DEF HashOrNone
<1>6. ASSUME NEW r \in Requests,
             (\E id \in GameIds : AnswerMedia(r, "ok", id)) \/ AnswerMedia(r, "error", Unasked)
      PROVE  Goal
  <2>1. GameIds \subseteq Int /\ Unasked \in Int  BY DEF GameIds, ThisGame, Unasked
  <2>2. QED  BY <1>6, <2>1, AnswerMediaMedia
<1>7. CASE (\E h \in Hashes : LoadBegins(h)) \/ LoadIdentifies \/ LoadUnknown \/ Unload
  BY <1>7, ComingMedia
<1>8. CASE LoadEnds  BY <1>8, LoadEndsMedia
<1>9. CASE Destroy   BY <1>9, DestroyMedia
<1>10. QED
  BY <1>1, <1>2, <1>3, <1>4, <1>5, <1>6, <1>7, <1>8, <1>9 DEF RequestsNext

\* The media of the active game are those it was loaded with, or those somebody asked of this very
\* game, however many games come and go while answers are awaited
\* (rc_client_identify_changed_media_callback, rc_client_activate_game).
THEOREM MediaStayTheirs == RequestsSpec => MediaOfThisGame
<1>1. RequestsInit => MediaInv  BY InitMedia
<1>2. RequestsInv /\ MediaInv /\ [RequestsNext]_requestVars => MediaInv'  BY NextMedia
<1>3. RequestsInv /\ MediaInv /\ [RequestsNext]_requestVars =>
        [game.at # 0 /\ game'.at = game.at /\ game'.hash # game.hash =>
           \E r \in Requests : requests'[r].told # requests[r].told /\ requests'[r].asked = game.at]_requestVars
  <2> SUFFICES ASSUME RequestsInv, MediaInv, [RequestsNext]_requestVars,
                      game.at # 0, game'.at = game.at, game'.hash # game.hash
               PROVE  \E r \in Requests : /\ requests'[r].told # requests[r].told
                                          /\ requests'[r].asked = game.at
    OBVIOUS
  <2>1. Changed(State, State')  BY NextMedia
  <2>2. /\ State.game = game /\ State'.game = game'
        /\ State.requests = requests /\ State'.requests = requests'
    BY DEF State
  <2>3. QED  BY <2>1, <2>2 DEF Changed
<1>4. QED  BY RequestsInvariant, <1>1, <1>2, <1>3, PTL DEF RequestsSpec, MediaOfThisGame

-----------------------------------------------------------------------------
(* Pauses.                                                                  *)

\* The frames since a pause are counted down from what it costs.
Counting == /\ owed = required
            /\ decay + run = required * Multiplier

\* What the last pause cost is paid.
Paid == /\ run >= owed /\ run > 0
        /\ decay < required * (Multiplier - 1)

PauseInv ==
  /\ required \in MinimumFrames..(LongestRun + MinimumFrames - 1)
  /\ decay \in Nat /\ run \in 0..LongestWindow /\ owed \in Nat
  /\ isHardcore \in BOOLEAN
  /\ Counting \/ Paid

-----------------------------------------------------------------------------
\* The window of a pause is its run and the decay that follows.
LEMMA Window ==
  ASSUME NEW r \in Nat \ {0}
  PROVE  /\ r * Multiplier \in Nat /\ r * (Multiplier - 1) \in Nat
         /\ r * Multiplier = r * (Multiplier - 1) + r
         /\ r * (Multiplier - 1) >= 1
<1>1. PICK k \in Nat : Multiplier = k + 2  
  <2>1. Multiplier - 2 \in Nat /\ Multiplier = (Multiplier - 2) + 2  BY PauseAssumption
  <2>2. QED  BY <2>1
<1>2. Multiplier - 1 = k + 1  BY <1>1
<1>3. r * (k + 2) = r * (k + 1) + r  BY <1>1
<1>4. r * (k + 1) \in Nat /\ r * (k + 1) >= 1  
  <2>1. r * (k + 1) = r * k + r  BY <1>1
  <2>2. r * k \in Nat  BY <1>1
  <2>3. QED  BY <2>1, <2>2
<1>5. QED  BY <1>1, <1>2, <1>3, <1>4

\* The longest window is longer than that of any run that can be required.
LEMMA LongestIsLonger ==
  ASSUME NEW r \in MinimumFrames..(LongestRun + MinimumFrames - 1)
  PROVE  r \in Nat \ {0} /\ LongestWindow \in Nat /\ r * Multiplier < LongestWindow
<1>1. r \in Nat \ {0}  BY PauseAssumption
<1>2. PICK d \in Nat \ {0} : LongestRun + MinimumFrames = r + d
  <2>1. LongestRun + MinimumFrames - r \in Nat \ {0}  BY PauseAssumption
  <2>2. QED  BY <2>1, PauseAssumption, <1>1
<1>3. (r + d) * Multiplier = r * Multiplier + d * Multiplier  BY <1>1, <1>2, PauseAssumption
<1>4. r * Multiplier \in Nat  BY <1>1, Window
<1>5. d * Multiplier \in Nat /\ d * Multiplier >= 1  BY <1>2, Window
<1>6. LongestWindow = r * Multiplier + d * Multiplier  BY <1>2, <1>3 DEF LongestWindow
<1>7. QED  BY <1>1, <1>4, <1>5, <1>6

\* A pause starts to count, or is not granted and changes nothing.
LEMMA CanPauseKeeps == PauseInv /\ CanPause => PauseInv'
<1> SUFFICES ASSUME PauseInv, CanPause PROVE PauseInv'
  OBVIOUS
<1> DEFINE longer == IF decay > 0 /\ required < LongestRun THEN required + MinimumFrames ELSE required
<1>1. longer \in MinimumFrames..(LongestRun + MinimumFrames - 1)
  BY PauseAssumption DEF PauseInv
<1>2. CASE Allowed /\ ~NoFrameSince
  <2> HIDE DEF longer
  <2>1. required' = longer /\ decay' = longer * Multiplier /\ run' = 0 /\ owed' = longer
    BY <1>2 DEF CanPause, longer
  <2>2. longer * Multiplier \in Nat /\ longer \in Nat /\ LongestWindow \in Nat
    BY <1>1, LongestIsLonger, Window
  <2>3. Counting'  BY <2>1, <2>2 DEF Counting
  <2>4. isHardcore' \in BOOLEAN  BY DEF CanPause, PauseInv
  <2>5. QED  BY <1>1, <2>1, <2>2, <2>3, <2>4 DEF PauseInv
<1>3. CASE ~(Allowed /\ ~NoFrameSince)
  <2>1. UNCHANGED pauseVars  BY <1>3 DEF CanPause, pauseVars
  <2>2. QED  BY <2>1 DEF PauseInv, Counting, Paid, pauseVars, LongestWindow
<1>4. QED  BY <1>2, <1>3

\* A frame is counted, or the counter begins its next, shorter round with nothing left to pay.
LEMMA FrameKeeps == PauseInv /\ FrameDone => PauseInv'
<1> SUFFICES ASSUME PauseInv, FrameDone PROVE PauseInv'
  OBVIOUS
<1> DEFINE halved == IF required \div 2 <= MinimumFrames THEN MinimumFrames ELSE required \div 2
           ends == decay = 1 /\ required > MinimumFrames
<1>1. /\ required \in Nat \ {0} /\ LongestWindow \in Nat
      /\ required * Multiplier < LongestWindow /\ required * Multiplier \in Nat
      /\ required * (Multiplier - 1) \in Nat /\ required * (Multiplier - 1) >= 1
      /\ required * Multiplier = required * (Multiplier - 1) + required
  BY LongestIsLonger, Window DEF PauseInv
<1>2. run' = (IF run < LongestWindow THEN run + 1 ELSE run) /\ owed' = owed /\ isHardcore' = isHardcore
  BY DEF FrameDone
<1>3. /\ run' \in 0..LongestWindow /\ run' >= run /\ run' > 0
      /\ run < LongestWindow => run' = run + 1
      /\ owed' \in Nat /\ isHardcore' \in BOOLEAN
  BY <1>1, <1>2 DEF PauseInv
<1>4. run' >= owed \/ (Counting /\ run < required /\ run' = run + 1)
  BY <1>1, <1>2, <1>3 DEF PauseInv, Counting, Paid
<1>5. CASE ends
  <2>1. halved \in MinimumFrames..(LongestRun + MinimumFrames - 1)
    BY <1>1, PauseAssumption DEF PauseInv
  <2> HIDE DEF halved
  <2>2. required' = halved /\ decay' = halved * (Multiplier - 1) - 1
    BY <1>5 DEF FrameDone, halved
  <2>3. halved * (Multiplier - 1) \in Nat /\ halved * (Multiplier - 1) >= 1
    BY <2>1, LongestIsLonger, Window
  <2>4. run' >= owed
    BY <1>1, <1>4, <1>5 DEF PauseInv, Counting
  <2>5. Paid'  BY <1>2, <1>3, <2>2, <2>3, <2>4 DEF Paid
  <2>6. QED  BY <1>3, <2>1, <2>2, <2>3, <2>5 DEF PauseInv, LongestWindow
<1>6. CASE ~ends
  <2>1. required' = required /\ decay' = IF decay > 0 THEN decay - 1 ELSE 0
    BY <1>6 DEF FrameDone
  <2>2. CASE Counting /\ decay > 0
    <3>1. Counting'  BY <1>1, <1>2, <1>3, <2>1, <2>2 DEF Counting, PauseInv
    <3>2. QED  BY <1>3, <2>1, <2>2, <3>1 DEF PauseInv, LongestWindow
  <2>3. CASE Paid \/ decay = 0
    <3>1. run' >= owed  BY <1>1, <1>3, <1>4, <2>3 DEF PauseInv, Counting, Paid
    <3>2. Paid'  BY <1>1, <1>2, <1>3, <2>1, <2>3, <3>1 DEF Paid, PauseInv
    <3>3. QED  BY <1>3, <2>1, <2>3, <3>2 DEF PauseInv, LongestWindow
  <2>4. QED  BY <2>2, <2>3 DEF PauseInv
<1>7. QED  BY <1>5, <1>6

\* From the invariant, what the two questions to the counter mean.
LEMMA PauseInvSpaces == PauseInv => PausesAreSpaced
<1> SUFFICES ASSUME PauseInv PROVE PausesAreSpaced
  OBVIOUS
<1>1. /\ required \in Nat \ {0} /\ required * Multiplier \in Nat /\ required * (Multiplier - 1) \in Nat
      /\ required * Multiplier = required * (Multiplier - 1) + required
  BY LongestIsLonger, Window DEF PauseInv
<1>2. CASE Counting
  <2>1. NoFrameSince <=> run = 0  BY <1>1, <1>2 DEF Counting, NoFrameSince, PauseInv
  <2>2. FramesRemaining <= 0 <=> run >= owed
    BY <1>1, <1>2 DEF Counting, FramesRemaining, PauseInv
  <2>3. QED  BY <2>1, <2>2 DEF PausesAreSpaced, Allowed, PauseInv
<1>3. CASE Paid
  <2>1. FramesRemaining <= 0  BY <1>1, <1>3 DEF Paid, FramesRemaining, PauseInv
  <2>2. QED  BY <2>1, <1>3 DEF PausesAreSpaced, Allowed, PauseInv, Paid
<1>4. QED  BY <1>2, <1>3 DEF PauseInv

-----------------------------------------------------------------------------
\* Whatever the minimum, the multiplier and the longest run: a pause is allowed just when none of
\* its frames has run, or all those the last one costs have (rc_client_can_pause).
THEOREM PausesSpaced == PauseSpec => []PausesAreSpaced
<1>1. PauseInit => PauseInv
  <2> SUFFICES ASSUME PauseInit PROVE PauseInv
    OBVIOUS
  <2>1. required \in MinimumFrames..(LongestRun + MinimumFrames - 1)
    BY PauseAssumption DEF PauseInit
  <2>2. /\ required * (Multiplier - 1) >= 1 /\ required * (Multiplier - 1) \in Nat
        /\ required * Multiplier \in Nat /\ LongestWindow \in Nat
        /\ required * Multiplier < LongestWindow
    BY <2>1, LongestIsLonger, Window
  <2>3. Paid  BY <2>2 DEF Paid, PauseInit
  <2>4. QED  BY <2>1, <2>2, <2>3 DEF PauseInv, PauseInit
<1>2. PauseInv /\ [PauseNext]_pauseVars => PauseInv'
  <2> SUFFICES ASSUME PauseInv, [PauseNext]_pauseVars PROVE PauseInv'
    OBVIOUS
  <2>1. CASE CanPause  BY <2>1, CanPauseKeeps
  <2>2. CASE FrameDone  BY <2>2, FrameKeeps
  <2>3. CASE ToggleHardcore
    BY <2>3 DEF ToggleHardcore, PauseInv, Counting, Paid, LongestWindow
  <2>4. CASE UNCHANGED pauseVars
    BY <2>4 DEF pauseVars, PauseInv, Counting, Paid, LongestWindow
  <2>5. QED  BY <2>1, <2>2, <2>3, <2>4 DEF PauseNext
<1>3. QED  BY <1>1, <1>2, PauseInvSpaces, PTL DEF PauseSpec

-----------------------------------------------------------------------------
(* Unlocks in the lists.                                                    *)

UnlockBody(p, w, unlock) == ApplyOne(w, unlock)
UnlockLoop == INSTANCE Loops WITH Body <- UnlockBody

\* The times at which the first k of these unlock an achievement.
Sent(unlocks, id, k) == {unlocks[j][2] : j \in {i \in 1 .. k : unlocks[i][1] = id}}

\* One achievement, and what it is marked with.
IsItem(a) ==
  {"id", "address", "state", "trigger", "bucket", "soft", "softAt", "hard", "hardAt"} \subseteq DOMAIN a

IsMarked(a, b, times, both) ==
  /\ IsItem(b) /\ b.id = a.id /\ b.address = a.address /\ b.state = a.state
  /\ times = {} => b = a
  /\ times # {} => /\ b.soft = TRUE /\ b.softAt \in times
                   /\ b.hard = (a.hard \/ both)
                   /\ (both = TRUE => b.hardAt \in times) /\ (both = FALSE => b.hardAt = a.hardAt)

\* A window on the items 1 to n of a set.
Search(w, n, both) ==
  /\ w = [start |-> w.start, stop |-> w.stop, items |-> w.items, both |-> w.both]
  /\ w.start \in Nat \ {0} /\ w.stop \in 0 .. n /\ w.both = both
  /\ w.items = [i \in 1 .. n |-> w.items[i]]

\* After the first k unlocks: an item is marked if one of them was for it, as it was for each that
\* the window has left out.
Passed(w, items, n, unlocks, both, k) ==
  /\ Search(w, n, both)
  /\ \A i \in 1 .. n :
       /\ IsMarked(items[i], w.items[i], Sent(unlocks, items[i].id, k), both)
       /\ i \notin w.start .. w.stop => Sent(unlocks, items[i].id, k) # {}

LEMMA SentNone == ASSUME NEW u, NEW id PROVE Sent(u, id, 0) = {}
BY DEF Sent

LEMMA SentMore ==
  ASSUME NEW u, NEW id, NEW k \in Nat
  PROVE  /\ u[k + 1][1] = id => Sent(u, id, k + 1) = Sent(u, id, k) \cup {u[k + 1][2]}
         /\ u[k + 1][1] # id => Sent(u, id, k + 1) = Sent(u, id, k)
<1>1. 1 .. k + 1 = (1 .. k) \cup {k + 1}  OBVIOUS
<1>2. QED  BY <1>1 DEF Sent

MarkedNow(a, b, t, both) ==
  /\ IsItem(b) /\ b.id = a.id /\ b.address = a.address /\ b.state = a.state
  /\ b.soft = TRUE /\ b.softAt = t /\ b.hard = (a.hard \/ both)
  /\ (both = TRUE => b.hardAt = t) /\ (both = FALSE => b.hardAt = a.hardAt)

LEMMA OneMarked ==
  ASSUME NEW a, IsItem(a), NEW both \in BOOLEAN, NEW t
  PROVE  MarkedNow(a, Marked(a, t, both), t, both)
BY DEF IsItem, Marked, MarkedNow

\* The items of a set have ids of their own.
Distinct(items, n) ==
  /\ \A i \in 1 .. n : IsItem(items[i])
  /\ \A i, j \in 1 .. n : items[i].id = items[j].id => i = j

LEMMA MinOfOne == ASSUME NEW i \in Int PROVE Min({i}) = i
BY DEF Min

\* One unlock marks the item with its id that is in the window, if there is one.
LEMMA UnlockStep ==
  ASSUME NEW n \in Nat, NEW both \in BOOLEAN, NEW w, Search(w, n, both), Distinct(w.items, n),
         NEW unlock, NEW v, v = ApplyOne(w, unlock)
  PROVE  /\ Search(v, n, both)
         /\ \A i \in 1 .. n :
              /\ i \in w.start .. w.stop /\ w.items[i].id = unlock[1] =>
                   v.items[i] = Marked(w.items[i], unlock[2], both)
              /\ ~(i \in w.start .. w.stop /\ w.items[i].id = unlock[1]) => v.items[i] = w.items[i]
              /\ i \notin v.start .. v.stop =>
                   i \notin w.start .. w.stop \/ w.items[i].id = unlock[1]
<1> DEFINE found == {i \in w.start .. w.stop : w.items[i].id = unlock[1]}
<1>1. /\ w.start \in Nat \ {0} /\ w.stop \in 0 .. n /\ w.both = both
      /\ w.items = [i \in 1 .. n |-> w.items[i]]
      /\ w = [start |-> w.start, stop |-> w.stop, items |-> w.items, both |-> w.both]
  BY DEF Search
<1>2. CASE found = {}
  <2>1. v = w  BY <1>2 DEF ApplyOne
  <2>2. \A i \in 1 .. n : ~(i \in w.start .. w.stop /\ w.items[i].id = unlock[1])  BY <1>2
  <2>3. QED  BY <2>1, <2>2
<1>3. CASE found # {}
  <2>1. PICK i \in found : TRUE  BY <1>3
  <2>2. i \in 1 .. n /\ i \in w.start .. w.stop /\ w.items[i].id = unlock[1]  BY <1>1
  <2>3. found = {i}
    <3>1. ASSUME NEW j \in found  PROVE j = i  BY <1>1, <2>2 DEF Distinct
    <3>2. QED  BY <3>1
  <2>4. Min(found) = i  BY <2>2, <2>3, MinOfOne
  <2> HIDE DEF found
  <2> DEFINE items == [w.items EXCEPT ![i] = Marked(w.items[i], unlock[2], both)]
             marked == [w EXCEPT !.items = items]
  <2>5. marked = [w EXCEPT !.items[i] = Marked(@, unlock[2], w.both)]
    <3>1. w.both = both  BY <1>1
    <3>2. QED  BY Zenon, <3>1
  <2>6. v = IF i = w.start THEN [marked EXCEPT !.start = @ + 1]
            ELSE IF i = w.stop THEN [marked EXCEPT !.stop = @ - 1] ELSE marked
    <3>1. v = ApplyOne(w, unlock)  OBVIOUS
    <3>2. PICK y : y = [w EXCEPT !.items[i] = Marked(@, unlock[2], w.both)]  OBVIOUS
    <3>3. marked = y  BY <2>5, <3>2, Zenon
    <3> HIDE DEF marked
    <3>4. v = IF i = w.start THEN [y EXCEPT !.start = @ + 1]
              ELSE IF i = w.stop THEN [y EXCEPT !.stop = @ - 1] ELSE y
      BY ONLY <1>3, <2>4, <3>1, <3>2, Zenon DEF ApplyOne, found
    <3>5. QED  BY <3>3, <3>4, Zenon
  <2>7. /\ items = [k \in 1 .. n |-> items[k]] /\ items[i] = Marked(w.items[i], unlock[2], both)
        /\ \A k \in 1 .. n : k # i => items[k] = w.items[k]
    BY <1>1, <2>2
  <2> HIDE DEF items
  <2>8. marked = [start |-> w.start, stop |-> w.stop, items |-> items, both |-> both]
    BY SMTT(60), <1>1
  <2> HIDE DEF marked
  <2> DEFINE a == IF i = w.start THEN w.start + 1 ELSE w.start
             b == IF i # w.start /\ i = w.stop THEN w.stop - 1 ELSE w.stop
  <2>9. v = [start |-> a, stop |-> b, items |-> items, both |-> both]
    <3>1. CASE i = w.start  BY <2>6, <2>8, <3>1
    <3>2. CASE i # w.start /\ i = w.stop  BY <2>6, <2>8, <3>2
    <3>3. CASE i # w.start /\ i # w.stop  BY <2>6, <2>8, <3>3
    <3>4. QED  BY <3>1, <3>2, <3>3
  <2>10. /\ a \in Nat \ {0} /\ b \in 0 .. n
         /\ \A k \in 1 .. n : k \notin a .. b => k \notin w.start .. w.stop \/ k = i
    BY <1>1, <2>2
  <2> HIDE DEF a, b
  <2>11. Search(v, n, both)  BY <2>7, <2>9, <2>10 DEF Search
  <2>12. \A k \in 1 .. n : k \in w.start .. w.stop /\ w.items[k].id = unlock[1] <=> k = i
    BY <2>2, <2>3 DEF found
  <2>13. v.items = items /\ v.start = a /\ v.stop = b  BY <2>9
  <2>14. QED  BY <2>2, <2>7, <2>10, <2>11, <2>12, <2>13
<1>4. QED  BY <1>2, <1>3

LEMMA UnlockPasses ==
  ASSUME NEW n \in Nat, NEW both \in BOOLEAN, NEW items, Distinct(items, n), NEW unlocks,
         NEW k \in Nat, NEW w, Passed(w, items, n, unlocks, both, k),
         NEW v, v = ApplyOne(w, unlocks[k + 1])
  PROVE  Passed(v, items, n, unlocks, both, k + 1)
<1>1. /\ Search(w, n, both)
      /\ \A i \in 1 .. n : /\ IsMarked(items[i], w.items[i], Sent(unlocks, items[i].id, k), both)
                           /\ i \notin w.start .. w.stop => Sent(unlocks, items[i].id, k) # {}
  BY DEF Passed
<1>2. \A i \in 1 .. n : IsItem(w.items[i]) /\ w.items[i].id = items[i].id  BY <1>1 DEF IsMarked
<1>3. Distinct(w.items, n)  BY <1>2, Zenon DEF Distinct
<1> DEFINE u == unlocks[k + 1]
<1>4. /\ Search(v, n, both)
      /\ \A i \in 1 .. n :
           /\ i \in w.start .. w.stop /\ w.items[i].id = u[1] =>
                v.items[i] = Marked(w.items[i], u[2], both)
           /\ ~(i \in w.start .. w.stop /\ w.items[i].id = u[1]) => v.items[i] = w.items[i]
           /\ i \notin v.start .. v.stop => i \notin w.start .. w.stop \/ w.items[i].id = u[1]
  BY <1>1, <1>3, UnlockStep
<1>5. ASSUME NEW i \in 1 .. n
      PROVE  /\ IsMarked(items[i], v.items[i], Sent(unlocks, items[i].id, k + 1), both)
             /\ i \notin v.start .. v.stop => Sent(unlocks, items[i].id, k + 1) # {}
  <2> DEFINE a == items[i]
             b == w.items[i]
             c == v.items[i]
             S == Sent(unlocks, items[i].id, k)
             T == Sent(unlocks, items[i].id, k + 1)
  <2>1. IsMarked(a, b, S, both) /\ (i \notin w.start .. w.stop => S # {})  BY <1>1
  <2>2. /\ u[1] = a.id => T = S \cup {u[2]}
        /\ u[1] # a.id => T = S
    BY SentMore
  <2>3. IsItem(b) /\ b.id = a.id /\ b.address = a.address /\ b.state = a.state
    BY <2>1 DEF IsMarked
  <2>4. /\ i \in w.start .. w.stop /\ b.id = u[1] => c = Marked(b, u[2], both)
        /\ ~(i \in w.start .. w.stop /\ b.id = u[1]) => c = b
        /\ i \notin v.start .. v.stop => i \notin w.start .. w.stop \/ b.id = u[1]
    BY <1>4
  <2> DEFINE t == u[2]
             in == i \in w.start .. w.stop
             out == i \notin v.start .. v.stop
             id == u[1]
  <2>5. \/ id # a.id /\ T = S /\ c = b
        \/ id = a.id /\ T = S \cup {t} /\ in /\ c = Marked(b, t, both)
        \/ id = a.id /\ T = S \cup {t} /\ S # {} /\ c = b
    BY <2>1, <2>2, <2>3, <2>4
  <2>6. out => T # {}  BY <2>1, <2>2, <2>3, <2>4
  <2> HIDE DEF a, b, c, S, T, t, in, out, id
  <2>7. ASSUME T = S /\ c = b  PROVE IsMarked(a, c, T, both)  BY <2>1, <2>7
  <2>8. ASSUME T = S \cup {t} /\ c = Marked(b, t, both)  PROVE IsMarked(a, c, T, both)
    <3>0. MarkedNow(b, c, t, both)  BY <2>3, <2>8, OneMarked
    <3>1. /\ IsItem(c) /\ c.id = b.id /\ c.address = b.address /\ c.state = b.state /\ c.soft = TRUE /\ c.softAt = t /\ c.hard = (b.hard \/ both)
          /\ (both = TRUE => c.hardAt = t) /\ (both = FALSE => c.hardAt = b.hardAt)
      BY <3>0 DEF MarkedNow
    <3>2. b = a \/ b.hard = (a.hard \/ both)  BY <2>1 DEF IsMarked
    <3>3. both = FALSE => b.hardAt = a.hardAt  BY <2>1 DEF IsMarked
    <3>4. c.hard = (a.hard \/ both)  BY <3>1, <3>2
    <3>5. t \in T /\ T # {}  BY <2>8
    <3>6. QED  BY <2>3, <3>1, <3>3, <3>4, <3>5 DEF IsMarked
  <2>9. ASSUME T = S \cup {t} /\ S # {} /\ c = b  PROVE IsMarked(a, c, T, both)
    <3>1. T # {} /\ \A x \in S : x \in T  BY <2>9
    <3>2. QED  BY <2>1, <2>9, <3>1 DEF IsMarked
  <2>10. IsMarked(a, c, T, both)  BY <2>5, <2>7, <2>8, <2>9
  <2>11. QED  BY <2>6, <2>10 DEF a, c, T, out
<1>6. QED  BY <1>4, <1>5 DEF Passed

\* What the list of unlocks makes of a set.
LEMMA UnlocksPass ==
  ASSUME NEW n \in Nat, NEW both \in BOOLEAN, NEW items, Distinct(items, n),
         items = [i \in 1 .. n |-> items[i]],
         NEW unlocks, NEW m \in Nat, DOMAIN unlocks = 1 .. m, NEW w,
         w = FoldLeft(ApplyOne, [start |-> 1, stop |-> n, items |-> items, both |-> both], unlocks)
  PROVE  Passed(w, items, n, unlocks, both, m)
<1> DEFINE t == [start |-> 1, stop |-> n, items |-> items, both |-> both]
<1>1. PICK p : p = 0  OBVIOUS
<1>2. w = UnlockLoop!LoopOver(p, t, unlocks)
  BY Zenon DEF UnlockBody, FoldLeft, MapThenFoldSet, Max, UnlockLoop!LoopOver, UnlockLoop!FoldLeft,
               UnlockLoop!MapThenFoldSet, UnlockLoop!Max
<1>3. Passed(t, items, n, unlocks, both, 0)
  <2>1. Search(t, n, both)  BY DEF Search
  <2>2. t.items = items /\ t.start = 1 /\ t.stop = n  OBVIOUS
  <2> HIDE DEF t
  <2>3. \A i \in 1 .. n : IsItem(items[i])  BY DEF Distinct
  <2>4. \A i \in 1 .. n : IsMarked(items[i], items[i], {}, both)  BY <2>3 DEF IsMarked
  <2>5. QED  BY <2>1, <2>2, <2>4, SentNone DEF Passed
<1> HIDE DEF t
<1>4. PICK x : UnlockLoop!Run(p, t, unlocks, m, x) /\ x[m] = UnlockLoop!LoopOver(p, t, unlocks)
  BY UnlockLoop!LoopRuns
<1> DEFINE T == {k \in Nat : k <= m => Passed(x[k], items, n, unlocks, both, k)}
<1>5. 0 \in T  BY <1>3, <1>4 DEF UnlockLoop!Run
<1>6. ASSUME NEW k \in T  PROVE k + 1 \in T
  <2>1. k \in Nat  OBVIOUS
  <2>2. CASE ~(k + 1 <= m)  BY <2>1, <2>2
  <2>3. CASE k + 1 <= m
    <3>1. k + 1 \in 1 .. m /\ (k + 1) - 1 = k /\ k <= m  BY <2>1, <2>3
    <3>2. Passed(x[k], items, n, unlocks, both, k)  BY <3>1
    <3>3. x[k + 1] = ApplyOne(x[k], unlocks[k + 1])  BY <1>4, <3>1 DEF UnlockLoop!Run, UnlockBody
    <3>4. Passed(x[k + 1], items, n, unlocks, both, k + 1)  BY <2>1, <3>2, <3>3, UnlockPasses
    <3>5. QED  BY <2>1, <3>4
  <2>4. QED  BY <2>2, <2>3
<1> HIDE DEF T
<1>7. T \in SUBSET Nat  BY DEF T
<1>8. T = Nat  BY <1>5, <1>6, <1>7, UnlockLoop!Countdown
<1>9. QED  BY <1>2, <1>4, <1>8 DEF T

\* A set whose achievements have ids of their own.
IsSet(x) ==
  /\ x = [active |-> x.active, achievements |-> x.achievements, boards |-> x.boards]
  /\ \E n \in Nat : x.achievements \in [1 .. n -> Range(x.achievements)] /\ Distinct(x.achievements, n)

AllMarked(prev, new, unlocks, both) ==
  /\ DOMAIN new = DOMAIN prev
  /\ \A s \in DOMAIN prev :
       /\ new[s].active = prev[s].active /\ new[s].boards = prev[s].boards
       /\ DOMAIN new[s].achievements = DOMAIN prev[s].achievements
       /\ \A i \in DOMAIN prev[s].achievements :
            IsMarked(prev[s].achievements[i], new[s].achievements[i],
                     Sent(unlocks, prev[s].achievements[i].id, Len(unlocks)), both)

LEMMA AppliedMarks ==
  ASSUME NEW prev, \A s \in DOMAIN prev : IsSet(prev[s]), NEW unlocks, unlocks \in Seq(Range(unlocks)),
         NEW both \in BOOLEAN
  PROVE  /\ AllMarked(prev, Applied(prev, unlocks, both), unlocks, both)
         /\ \A s \in DOMAIN Applied(prev, unlocks, both) : IsSet(Applied(prev, unlocks, both)[s])
<1> DEFINE new == Applied(prev, unlocks, both)
           m == Len(unlocks)
<1>1. DOMAIN new = DOMAIN prev  BY DEF Applied
<1>2. m \in Nat /\ DOMAIN unlocks = 1 .. m  OBVIOUS
<1>3. ASSUME NEW s \in DOMAIN prev
      PROVE  /\ IsSet(new[s]) /\ new[s].active = prev[s].active /\ new[s].boards = prev[s].boards
             /\ DOMAIN new[s].achievements = DOMAIN prev[s].achievements
             /\ \A i \in DOMAIN prev[s].achievements :
                  IsMarked(prev[s].achievements[i], new[s].achievements[i],
                           Sent(unlocks, prev[s].achievements[i].id, m), both)
  <2> DEFINE x == prev[s]
             items == x.achievements
             w == FoldLeft(ApplyOne, [start |-> 1, stop |-> Len(items), items |-> items, both |-> both], unlocks)
  <2>1. IsSet(x)  OBVIOUS
  <2>2. PICK n \in Nat : items \in [1 .. n -> Range(items)] /\ Distinct(items, n)  BY <2>1 DEF IsSet
  <2>3. new[s] = [x EXCEPT !.achievements = w.items]  BY Zenon DEF Applied, WithAchievements
  <2>4. x = [active |-> x.active, achievements |-> items, boards |-> x.boards]  BY <2>1 DEF IsSet
  <2>5. Len(items) = n  BY <2>2
  <2>6. w = FoldLeft(ApplyOne, [start |-> 1, stop |-> n, items |-> items, both |-> both], unlocks)
    BY <2>5
  <2> HIDE DEF x, items, w, m
  <2>7. items = [i \in 1 .. n |-> items[i]]  BY <2>2
  <2>8. Passed(w, items, n, unlocks, both, m)  BY <1>2, <2>2, <2>6, <2>7, UnlocksPass
  <2>9. /\ w.items = [i \in 1 .. n |-> w.items[i]]
        /\ \A i \in 1 .. n : IsMarked(items[i], w.items[i], Sent(unlocks, items[i].id, m), both)
    BY <2>8 DEF Passed, Search
  <2>10. new[s] = [active |-> x.active, achievements |-> w.items, boards |-> x.boards]
    BY <2>3, <2>4
  <2>11. Distinct(w.items, n)
    <3>1. \A i \in 1 .. n : IsItem(w.items[i]) /\ w.items[i].id = items[i].id  BY <2>9 DEF IsMarked
    <3>2. QED  BY <2>2, <3>1, Zenon DEF Distinct
  <2> DEFINE y == new[s]
             v == w.items
  <2> HIDE DEF new, v
  <2>12. y.achievements = v /\ y.active = x.active /\ y.boards = x.boards
    BY <2>10 DEF v
  <2>13. v \in [1 .. n -> Range(v)] /\ Distinct(v, n)
    <3>1. v = [i \in 1 .. n |-> v[i]]  BY <2>9 DEF v
    <3>2. QED  BY <2>11, <3>1 DEF Range, v
  <2>14. y = [active |-> y.active, achievements |-> y.achievements, boards |-> y.boards]
    BY <2>10, <2>12 DEF v
  <2> HIDE DEF y
  <2>15. IsSet(y)  BY <2>12, <2>13, <2>14 DEF IsSet
  <2>16. DOMAIN y.achievements = DOMAIN items /\ DOMAIN items = 1 .. n  BY <2>2, <2>12, <2>13
  <2>17. QED  BY <2>9, <2>12, <2>15, <2>16 DEF x, items, y, v
<1> HIDE DEF new
<1>4. QED  BY <1>1, <1>3 DEF AllMarked, new

LEMMA NewSetsAre ==
  ASSUME NEW g \in Games, NEW s \in DOMAIN g.sets
  PROVE  /\ IsSet(g.sets[s])
         /\ \A i \in DOMAIN g.sets[s].achievements :
              /\ g.sets[s].achievements[i].hard = FALSE /\ g.sets[s].achievements[i].soft = FALSE
              /\ g.sets[s].achievements[i].state = "inactive"
<1> DEFINE x == g.sets[s]
           items == x.achievements
<1>1. IsNewSet(x)  BY ListsAssumption DEF Range
<1>2. \A i, j \in DOMAIN items : items[i].id = items[j].id => i = j  BY ListsAssumption
<1> HIDE DEF x
<1>3. /\ x = [active |-> x.active, achievements |-> x.achievements, boards |-> x.boards]
      /\ items \in Seq(Range(items))
      /\ \A a \in Range(items) : a = Achievement(a.id, a.category, a.address, a.target)
  BY <1>1 DEF IsNewSet
<1>4. PICK n \in Nat : n = Len(items) /\ DOMAIN items = 1 .. n /\ items \in [1 .. n -> Range(items)]
  BY <1>3
<1> HIDE DEF items
<1>5. ASSUME NEW i \in 1 .. n
      PROVE  IsItem(items[i]) /\ items[i].hard = FALSE /\ items[i].soft = FALSE /\ items[i].state = "inactive"
  <2> DEFINE a == items[i]
  <2>1. a \in Range(items)  BY <1>4 DEF Range
  <2> HIDE DEF a
  <2>2. a = Achievement(a.id, a.category, a.address, a.target)  BY <1>3, <2>1
  <2>3. QED  BY <2>2 DEF Achievement, IsItem, a
<1>6. Distinct(items, n)  BY <1>2, <1>4, <1>5, Zenon DEF Distinct
<1>7. QED  BY <1>3, <1>4, <1>5, <1>6 DEF IsSet, x, items

\* What the two passes have made of one achievement.
LEMMA BothPasses ==
  ASSUME NEW a, a.hard = FALSE, a.soft = FALSE, NEW H, NEW S, NEW b, NEW c,
         IsMarked(a, b, H, TRUE), IsMarked(b, c, S, FALSE)
  PROVE  /\ c.id = a.id /\ b.id = a.id
         /\ c.hard = (H # {}) /\ (c.hard => c.hardAt \in H)
         /\ c.soft = (H \cup S # {})
         /\ (c.soft => c.softAt \in (IF S # {} THEN S ELSE H))
<1>1. CASE H = {} /\ S = {}  BY <1>1 DEF IsMarked
<1>2. CASE H # {} /\ S = {}  BY <1>2 DEF IsMarked
<1>3. CASE H = {} /\ S # {}  BY <1>3 DEF IsMarked
<1>4. CASE H # {} /\ S # {}  BY <1>4 DEF IsMarked
<1>5. QED  BY <1>1, <1>2, <1>3, <1>4

LEMMA SentAll ==
  ASSUME NEW unlocks, unlocks \in Seq(Range(unlocks)), NEW id
  PROVE  {u[2] : u \in {x \in Range(unlocks) : x[1] = id}} = Sent(unlocks, id, Len(unlocks))
<1>1. DOMAIN unlocks = 1 .. Len(unlocks)  OBVIOUS
<1>2. QED  BY <1>1 DEF Sent, Range

\* Between the unlocks and the start of the game.
UnlockInv ==
  /\ source \in Games
  /\ phase = "loaded" => sets = source.sets
  /\ UnlocksApplied

LEMMA UnlocksKept == UnlockInv /\ [ListsNext]_listVars => UnlockInv'
<1> SUFFICES ASSUME UnlockInv, [ListsNext]_listVars  PROVE UnlockInv'
  OBVIOUS
<1>1. ASSUME NEW hard \in source.unlocks, NEW soft \in source.unlocks, ApplyUnlocks(hard, soft)
      PROVE  UnlockInv'
  <2>1. /\ phase = "loaded" /\ phase' = "unlocked" /\ source' = source /\ source \in Games
        /\ sets = source.sets /\ sent' = [hard |-> hard, soft |-> soft]
        /\ sets' = Applied(Applied(sets, hard, TRUE), soft, FALSE)
    BY <1>1 DEF ApplyUnlocks, UnlockInv
  <2>2. hard \in Seq(Range(hard)) /\ soft \in Seq(Range(soft))  BY <2>1, ListsAssumption
  <2> DEFINE mid == Applied(sets, hard, TRUE)
  <2>3. \A s \in DOMAIN sets :
          /\ IsSet(sets[s])
          /\ \A i \in DOMAIN sets[s].achievements :
               sets[s].achievements[i].hard = FALSE /\ sets[s].achievements[i].soft = FALSE
    BY <2>1, NewSetsAre
  <2>4. PICK yes \in BOOLEAN : yes = TRUE  OBVIOUS
  <2>5. PICK no \in BOOLEAN : no = FALSE  OBVIOUS
  <2>6. /\ AllMarked(sets, Applied(sets, hard, yes), hard, yes)
        /\ \A s \in DOMAIN Applied(sets, hard, yes) : IsSet(Applied(sets, hard, yes)[s])
    BY <2>2, <2>3, AppliedMarks
  <2>7. AllMarked(sets, mid, hard, TRUE) /\ \A s \in DOMAIN mid : IsSet(mid[s])
    BY <2>4, <2>6
  <2> HIDE DEF mid
  <2>8. AllMarked(mid, Applied(mid, soft, no), soft, no)  BY <2>2, <2>7, AppliedMarks
  <2>9. AllMarked(mid, sets', soft, FALSE)  BY <2>1, <2>5, <2>8 DEF mid
  <2>10. ASSUME NEW s \in DOMAIN sets', NEW a \in Range(sets'[s].achievements)
         PROVE  LET H == {u[2] : u \in {x \in Range(hard) : x[1] = a.id}}
                    S == {u[2] : u \in {x \in Range(soft) : x[1] = a.id}}
                IN /\ a.hard = (H # {})
                   /\ a.hard => a.hardAt \in H
                   /\ a.soft = (H \cup S # {})
                   /\ a.soft => a.softAt \in (IF S # {} THEN S ELSE H)
    <3>1. s \in DOMAIN mid /\ s \in DOMAIN sets  BY <2>7, <2>9 DEF AllMarked
    <3>2. PICK i \in DOMAIN sets'[s].achievements : a = sets'[s].achievements[i]  BY DEF Range
    <3>3. i \in DOMAIN mid[s].achievements /\ i \in DOMAIN sets[s].achievements
      BY <2>7, <2>9, <3>1 DEF AllMarked
    <3> DEFINE x == sets[s].achievements[i]
               y == mid[s].achievements[i]
               H == Sent(hard, x.id, Len(hard))
               S == Sent(soft, y.id, Len(soft))
    <3>4. IsMarked(x, y, H, TRUE)  BY <2>7, <3>1, <3>3 DEF AllMarked
    <3>5. IsMarked(y, a, S, FALSE)  BY <2>9, <3>1, <3>2, <3>3 DEF AllMarked
    <3>6. x.hard = FALSE /\ x.soft = FALSE  BY <2>3, <3>1, <3>3
    <3>7. H = {u[2] : u \in {v \in Range(hard) : v[1] = x.id}}  BY <2>2, SentAll
    <3>8. S = {u[2] : u \in {v \in Range(soft) : v[1] = y.id}}  BY <2>2, SentAll
    <3> HIDE DEF x, y, H, S
    <3>9. /\ a.id = x.id /\ y.id = x.id
          /\ a.hard = (H # {}) /\ (a.hard => a.hardAt \in H)
          /\ a.soft = (H \cup S # {})
          /\ (a.soft => a.softAt \in (IF S # {} THEN S ELSE H))
      BY ZenonT(60), <3>4, <3>5, <3>6, BothPasses
    <3>10. /\ H = {u[2] : u \in {v \in Range(hard) : v[1] = a.id}}
           /\ S = {u[2] : u \in {v \in Range(soft) : v[1] = a.id}}
      BY <3>7, <3>8, <3>9
    <3>11. QED  BY <3>9, <3>10
  <2>11. UnlocksApplied'
    <3>1. sent'.hard = hard /\ sent'.soft = soft  BY <2>1
    <3>2. QED  BY <2>10, <3>1, Zenon DEF UnlocksApplied
  <2>12. QED  BY <2>1, <2>11 DEF UnlockInv
<1>2. ASSUME source' = source, phase' \notin {"loaded", "unlocked"}  PROVE UnlockInv'
  BY <1>2 DEF UnlockInv, UnlocksApplied
<1>3. CASE UNCHANGED listVars
  BY ZenonT(60), <1>3 DEF listVars, UnlockInv, UnlocksApplied
<1>4. CASE \E addresses \in SUBSET Addresses : Activate(addresses)  BY <1>2, <1>4 DEF Activate
<1>5. CASE \E a \in Addresses : BecomesUnreadable(a)  BY <1>2, <1>5 DEF BecomesUnreadable
<1>6. ASSUME NEW s, NEW i, NEW v, NEW t, Measures(s, i, v, t)  PROVE UnlockInv'
  BY <1>2, <1>6 DEF Measures
<1>7. ASSUME NEW s, NEW i, NEW waits, Awards(s, i, waits)  PROVE UnlockInv'
  BY <1>2, <1>7 DEF Awards
<1>8. ASSUME NEW s, NEW i, Tracks(s, i)  PROVE UnlockInv'  BY <1>2, <1>8 DEF Tracks
<1>9. ASSUME NEW id, GetAchievementInfo(id)  PROVE UnlockInv'  BY <1>2, <1>9 DEF GetAchievementInfo
<1>10. ASSUME NEW c, CreateAchievementList(c)  PROVE UnlockInv'  BY <1>2, <1>10 DEF CreateAchievementList
<1>11. ASSUME NEW g, CreateLeaderboardList(g)  PROVE UnlockInv'  BY SMTT(60), <1>2, <1>11 DEF CreateLeaderboardList
<1>12. ASSUME NEW after, NEW b, GetNextAchievementInfo(after, b)  PROVE UnlockInv'
  BY <1>2, <1>12 DEF GetNextAchievementInfo
<1>13. QED
  BY <1>1, <1>3, <1>4, <1>5, <1>6, <1>7, <1>8, <1>9, <1>10, <1>11, <1>12 DEF ListsNext

\* Each unlock the server sent for an achievement of the game is marked with its time, and no
\* achievement is marked for which there was none, whatever their order, though each is looked for
\* in a window that shrinks (rc_client_apply_unlocks).
THEOREM UnlocksAreApplied == ListsSpec => []UnlocksApplied
<1>1. ListsInit => UnlockInv  BY DEF ListsInit, UnlockInv, UnlocksApplied
<1>2. UnlockInv => UnlocksApplied  BY DEF UnlockInv
<1>3. QED  BY <1>1, <1>2, UnlocksKept, PTL DEF ListsSpec

-----------------------------------------------------------------------------
(* What cannot be read is out.                                              *)

IsBoard(b) == {"id", "address", "hidden", "state", "bucket"} \subseteq DOMAIN b
Running == {"active", "tracking"}

Out(a) == a.state = "disabled" /\ a.trigger = "disabled" /\ a.bucket = "unsupported"

\* What no step does to an achievement or a leaderboard.
Heeds(a, b) ==
  /\ IsItem(b) /\ b.id = a.id /\ b.address = a.address
  /\ Out(a) => Out(b)
  /\ (a.state = "disabled" => Out(a)) => (b.state = "disabled" => Out(b))
KeepsBoard(a, b) ==
  /\ IsBoard(b) /\ b.id = a.id /\ b.address = a.address
  /\ a.state = "disabled" => b.state = "disabled"

IsRecord(x) == x = [active |-> x.active, achievements |-> x.achievements, boards |-> x.boards]

Follows(prev, new) ==
  /\ DOMAIN new = DOMAIN prev
  /\ \A s \in DOMAIN prev :
       /\ IsRecord(new[s]) /\ new[s].active = prev[s].active
       /\ DOMAIN new[s].achievements = DOMAIN prev[s].achievements
       /\ DOMAIN new[s].boards = DOMAIN prev[s].boards
       /\ \A i \in DOMAIN prev[s].achievements : Heeds(prev[s].achievements[i], new[s].achievements[i])
       /\ \A i \in DOMAIN prev[s].boards : KeepsBoard(prev[s].boards[i], new[s].boards[i])

\* The parts of a game that stay as they were loaded.
Shape(prev) ==
  /\ DOMAIN prev = DOMAIN source.sets
  /\ \A s \in DOMAIN prev :
       /\ IsRecord(prev[s]) /\ prev[s].active \in BOOLEAN
       /\ DOMAIN prev[s].achievements = DOMAIN source.sets[s].achievements
       /\ \A i \in DOMAIN prev[s].achievements :
            /\ IsItem(prev[s].achievements[i])
            /\ prev[s].achievements[i].id = source.sets[s].achievements[i].id
       /\ \A i \in DOMAIN prev[s].boards : IsBoard(prev[s].boards[i])

DisabledAreOut(prev) ==
  \A s \in DOMAIN prev : \A i \in DOMAIN prev[s].achievements :
    prev[s].achievements[i].state = "disabled" => Out(prev[s].achievements[i])

\* Everything with one of these addresses.
AllOut(prev, addresses) ==
  \A s \in DOMAIN prev :
    /\ \A i \in DOMAIN prev[s].achievements :
         prev[s].achievements[i].address \in addresses => Out(prev[s].achievements[i])
    /\ \A i \in DOMAIN prev[s].boards :
         prev[s].boards[i].address \in addresses => prev[s].boards[i].state = "disabled"

\* The lists of the runtime.
ListedAre(prev, ids) ==
  \A s \in DOMAIN prev : \A i \in DOMAIN prev[s].achievements :
    prev[s].achievements[i].id \in ids <=> prev[s].active /\ prev[s].achievements[i].state = "active"
BoardsIn(prev, ids) ==
  \A s \in DOMAIN prev : \A i \in DOMAIN prev[s].boards :
    prev[s].active /\ prev[s].boards[i].state \in Running => prev[s].boards[i].id \in ids

\* What leaves the lists as they should be.
SameStates(prev, new) ==
  \A s \in DOMAIN prev : \A i \in DOMAIN prev[s].achievements :
    new[s].achievements[i].state = prev[s].achievements[i].state
NoneStarts(prev, new) ==
  \A s \in DOMAIN prev : \A i \in DOMAIN prev[s].boards :
    new[s].boards[i].state \in Running => prev[s].boards[i].state \in Running

LEMMA FollowsOn ==
  ASSUME NEW prev, NEW new, Shape(prev), Follows(prev, new)
  PROVE  /\ Shape(new)
         /\ DisabledAreOut(prev) => DisabledAreOut(new)
         /\ \A addresses : AllOut(prev, addresses) => AllOut(new, addresses)
         /\ \A ids : ListedAre(prev, ids) /\ SameStates(prev, new) => ListedAre(new, ids)
         /\ \A ids : BoardsIn(prev, ids) /\ NoneStarts(prev, new) => BoardsIn(new, ids)
<1>1. Shape(new)  BY DEF Shape, Follows, Heeds, KeepsBoard
<1>2. DisabledAreOut(prev) => DisabledAreOut(new)  BY DEF Follows, Heeds, DisabledAreOut
<1>3. ASSUME NEW addresses, AllOut(prev, addresses)  PROVE AllOut(new, addresses)
  BY <1>3 DEF Follows, Heeds, KeepsBoard, AllOut
<1>4. ASSUME NEW ids, ListedAre(prev, ids), SameStates(prev, new)  PROVE ListedAre(new, ids)
  BY <1>4 DEF Follows, Heeds, SameStates, ListedAre
<1>5. ASSUME NEW ids, BoardsIn(prev, ids), NoneStarts(prev, new)  PROVE BoardsIn(new, ids)
  BY <1>5 DEF Follows, KeepsBoard, NoneStarts, BoardsIn
<1>6. QED  BY <1>1, <1>2, <1>3, <1>4, <1>5

LEMMA FollowsTwice ==
  ASSUME NEW prev, NEW mid, NEW new, Follows(prev, mid), Follows(mid, new)
  PROVE  Follows(prev, new)
<1>1. \A a, b, c : Heeds(a, b) /\ Heeds(b, c) => Heeds(a, c)  BY DEF Heeds
<1>2. \A a, b, c : KeepsBoard(a, b) /\ KeepsBoard(b, c) => KeepsBoard(a, c)  BY DEF KeepsBoard
<1>3. QED  BY <1>1, <1>2 DEF Follows

\* What is listed is what runs.
LEMMA ListedIs ==
  ASSUME NEW prev, source \in Games, Shape(prev)
  PROVE  ListedAre(prev, Listed(prev)) /\ BoardsIn(prev, ListedBoards(prev))
<1>1. ASSUME NEW s \in DOMAIN prev, NEW i \in DOMAIN prev[s].achievements,
             prev[s].active, prev[s].achievements[i].state = "active"
      PROVE  prev[s].achievements[i].id \in Listed(prev)
  BY <1>1 DEF Listed, Range
<1>2. ASSUME NEW s \in DOMAIN prev, NEW i \in DOMAIN prev[s].achievements,
             prev[s].achievements[i].id \in Listed(prev)
      PROVE  prev[s].active /\ prev[s].achievements[i].state = "active"
  <2>1. PICK t \in DOMAIN prev : prev[t].active /\ \E a \in Range(prev[t].achievements) :
                                    a.state = "active" /\ a.id = prev[s].achievements[i].id
    BY <1>2 DEF Listed
  <2>2. PICK j \in DOMAIN prev[t].achievements :
          /\ prev[t].achievements[j].state = "active"
          /\ prev[t].achievements[j].id = prev[s].achievements[i].id
    BY <2>1 DEF Range
  <2>3. /\ s \in DOMAIN source.sets /\ t \in DOMAIN source.sets
        /\ i \in DOMAIN source.sets[s].achievements /\ j \in DOMAIN source.sets[t].achievements
        /\ source.sets[s].achievements[i].id = source.sets[t].achievements[j].id
    BY <2>2 DEF Shape
  <2>4. s = t /\ i = j  BY <2>3, ListsAssumption
  <2>5. QED  BY <2>1, <2>2, <2>4
<1>3. ASSUME NEW s \in DOMAIN prev, NEW i \in DOMAIN prev[s].boards,
             prev[s].active, prev[s].boards[i].state \in Running
      PROVE  prev[s].boards[i].id \in ListedBoards(prev)
  BY <1>3 DEF ListedBoards, Range, Running
<1>4. QED  BY <1>1, <1>2, <1>3 DEF ListedAre, BoardsIn

LEMMA KeepsSame == \A a : (IsItem(a) => Heeds(a, a)) /\ (IsBoard(a) => KeepsBoard(a, a))
BY DEF Heeds, KeepsBoard

LEMMA FollowsSame == ASSUME NEW prev, Shape(prev) PROVE Follows(prev, prev)
BY KeepsSame DEF Follows, Shape

\* A game in which one achievement is another.
LEMMA OneChanged ==
  ASSUME NEW prev, Shape(prev), NEW s, NEW i, NEW b,
         s \in DOMAIN prev /\ i \in DOMAIN prev[s].achievements => Heeds(prev[s].achievements[i], b),
         NEW new, new = [prev EXCEPT ![s].achievements[i] = b]
  PROVE  /\ Follows(prev, new) /\ NoneStarts(prev, new)
         /\ (s \in DOMAIN prev /\ i \in DOMAIN prev[s].achievements
              => b.state = prev[s].achievements[i].state) => SameStates(prev, new)
<1>1. DOMAIN new = DOMAIN prev  OBVIOUS
<1>2. ASSUME NEW t \in DOMAIN prev
      PROVE  /\ new[t] = [active |-> prev[t].active, boards |-> prev[t].boards,
                          achievements |-> IF t = s THEN [prev[t].achievements EXCEPT ![i] = b]
                                           ELSE prev[t].achievements]
  <2>1. IsRecord(prev[t])  BY DEF Shape
  <2>2. CASE t = s  BY <2>1, <2>2 DEF IsRecord
  <2>3. CASE t # s  BY <2>1, <2>3 DEF IsRecord
  <2>4. QED  BY <2>2, <2>3
<1>3. \A t \in DOMAIN prev :
        /\ IsRecord(new[t]) /\ new[t].active = prev[t].active /\ new[t].boards = prev[t].boards
        /\ DOMAIN new[t].achievements = DOMAIN prev[t].achievements
        /\ \A k \in DOMAIN prev[t].achievements :
             new[t].achievements[k] = IF t = s /\ k = i THEN b ELSE prev[t].achievements[k]
  <2> SUFFICES ASSUME NEW t \in DOMAIN prev
               PROVE  /\ IsRecord(new[t]) /\ new[t].active = prev[t].active /\ new[t].boards = prev[t].boards
                      /\ DOMAIN new[t].achievements = DOMAIN prev[t].achievements
                      /\ \A k \in DOMAIN prev[t].achievements :
                           new[t].achievements[k] = IF t = s /\ k = i THEN b ELSE prev[t].achievements[k]
    OBVIOUS
  <2> DEFINE items == IF t = s THEN [prev[t].achievements EXCEPT ![i] = b] ELSE prev[t].achievements
  <2>1. new[t] = [active |-> prev[t].active, boards |-> prev[t].boards, achievements |-> items]
    BY <1>2
  <2>2. /\ DOMAIN items = DOMAIN prev[t].achievements
        /\ \A k \in DOMAIN prev[t].achievements :
             items[k] = IF t = s /\ k = i THEN b ELSE prev[t].achievements[k]
    OBVIOUS
  <2> HIDE DEF items
  <2>3. QED  BY <2>1, <2>2 DEF IsRecord
<1>4. \A t \in DOMAIN prev : /\ \A k \in DOMAIN prev[t].achievements : IsItem(prev[t].achievements[k])
                             /\ \A k \in DOMAIN prev[t].boards : IsBoard(prev[t].boards[k])
  BY DEF Shape
<1> HIDE DEF Shape
<1>5. Follows(prev, new)  BY <1>1, <1>3, <1>4, KeepsSame DEF Follows
<1>6. NoneStarts(prev, new)  BY <1>3 DEF NoneStarts
<1>7. QED  BY <1>3, <1>5, <1>6 DEF SameStates

LEMMA DisplayedKeeps == ASSUME NEW a, IsItem(a) PROVE Heeds(a, Displayed(a)) /\ Displayed(a).state = a.state
<1> DEFINE b == Displayed(a)
<1>1. PICK new, percent : \/ b = a
                          \/ a.bucket # "unsupported" /\ b = [a EXCEPT !.bucket = new]
                          \/ a.bucket # "unsupported" /\ b = [a EXCEPT !.percent = percent, !.bucket = new]
  BY ZenonT(60) DEF Displayed
<1> HIDE DEF b
<1>2. ASSUME b = a  PROVE Heeds(a, b) /\ b.state = a.state  BY <1>2, KeepsSame
<1>3. ASSUME a.bucket # "unsupported" /\ b = [a EXCEPT !.bucket = new]
      PROVE  Heeds(a, b) /\ b.state = a.state
  BY <1>3 DEF Heeds, IsItem, Out
<1>4. ASSUME a.bucket # "unsupported" /\ b = [a EXCEPT !.percent = percent, !.bucket = new]
      PROVE  Heeds(a, b) /\ b.state = a.state
  BY <1>4 DEF Heeds, IsItem, Out
<1>5. QED  BY <1>1, <1>2, <1>3, <1>4 DEF b

LEMMA StartedKeeps == ASSUME NEW a, IsItem(a), NEW bit PROVE Heeds(a, Started(a, bit))
<1> DEFINE b == Started(a, bit)
<1>1. PICK at, m : \/ b = [a EXCEPT !.at = at]
                   \/ a.state # "disabled" /\ b = [a EXCEPT !.state = "active", !.trigger = "waiting", !.measured = m]
                   \/ a.state # "disabled" /\ b = [a EXCEPT !.at = at, !.state = "unlocked", !.trigger = "triggered"]
  BY DEF Started
<1> HIDE DEF b
<1>2. ASSUME b = [a EXCEPT !.at = at]  PROVE Heeds(a, b)  BY <1>2 DEF Heeds, IsItem, Out
<1>3. ASSUME a.state # "disabled" /\ b = [a EXCEPT !.state = "active", !.trigger = "waiting", !.measured = m]
      PROVE  Heeds(a, b)
  BY <1>3 DEF Heeds, IsItem, Out
<1>4. ASSUME a.state # "disabled" /\ b = [a EXCEPT !.at = at, !.state = "unlocked", !.trigger = "triggered"]
      PROVE  Heeds(a, b)
  BY <1>4 DEF Heeds, IsItem, Out
<1>5. QED  BY <1>1, <1>2, <1>3, <1>4 DEF b

\* Addresses that cannot be read.
LEMMA InvalidatedFollows ==
  ASSUME NEW prev, Shape(prev), DisabledAreOut(prev), NEW addresses
  PROVE  /\ Follows(prev, Invalidated(prev, addresses))
         /\ NoneStarts(prev, Invalidated(prev, addresses))
         /\ AllOut(Invalidated(prev, addresses), addresses)
<1> DEFINE new == Invalidated(prev, addresses)
           gone(a) == [a EXCEPT !.state = "disabled", !.bucket = "unsupported", !.trigger = "disabled"]
           off(b) == [b EXCEPT !.state = "disabled"]
<1>1. DOMAIN new = DOMAIN prev  BY DEF Invalidated
<1>2. ASSUME NEW a, IsItem(a)  PROVE Heeds(a, gone(a)) /\ Out(gone(a)) /\ gone(a).address = a.address
  BY <1>2 DEF Heeds, IsItem, Out
<1>3. ASSUME NEW b, IsBoard(b)
      PROVE  KeepsBoard(b, off(b)) /\ off(b).state = "disabled" /\ off(b).address = b.address
  BY <1>3 DEF KeepsBoard, IsBoard
<1> HIDE DEF gone, off
<1>4. ASSUME NEW s \in DOMAIN prev
      PROVE  /\ IsRecord(new[s]) /\ new[s].active = prev[s].active
             /\ DOMAIN new[s].achievements = DOMAIN prev[s].achievements
             /\ DOMAIN new[s].boards = DOMAIN prev[s].boards
             /\ \A i \in DOMAIN prev[s].achievements :
                  LET a == prev[s].achievements[i] IN
                  new[s].achievements[i] = IF a.state # "disabled" /\ a.address \in addresses
                                           THEN gone(a) ELSE a
             /\ \A i \in DOMAIN prev[s].boards :
                  LET b == prev[s].boards[i] IN
                  new[s].boards[i] = IF b.address \in addresses THEN off(b) ELSE b
  <2> DEFINE x == prev[s]
             items == [i \in DOMAIN x.achievements |->
                         IF x.achievements[i].state # "disabled" /\ x.achievements[i].address \in addresses
                         THEN gone(x.achievements[i]) ELSE x.achievements[i]]
             boards == [i \in DOMAIN x.boards |->
                         IF x.boards[i].address \in addresses THEN off(x.boards[i]) ELSE x.boards[i]]
  <2>1. IsRecord(x)  BY DEF Shape
  <2>2. new[s] = [x EXCEPT !.achievements = items, !.boards = boards]
    BY DEF Invalidated, gone, off
  <2> HIDE DEF items, boards, x, new
  <2>3. new[s] = [active |-> x.active, achievements |-> items, boards |-> boards]
    BY <2>1, <2>2 DEF IsRecord
  <2>4. IsRecord(new[s]) /\ new[s].achievements = items /\ new[s].boards = boards /\ new[s].active = x.active
    BY <2>3 DEF IsRecord
  <2>5. QED  BY <2>4 DEF items, boards, x
<1> HIDE DEF new
<1>5. \A s \in DOMAIN prev : /\ \A i \in DOMAIN prev[s].achievements : IsItem(prev[s].achievements[i])
                             /\ \A i \in DOMAIN prev[s].boards : IsBoard(prev[s].boards[i])
  BY DEF Shape
<1>6. \A s \in DOMAIN prev :
        /\ \A i \in DOMAIN prev[s].achievements :
             /\ Heeds(prev[s].achievements[i], new[s].achievements[i])
             /\ new[s].achievements[i].address \in addresses => Out(new[s].achievements[i])
        /\ \A i \in DOMAIN prev[s].boards :
             /\ KeepsBoard(prev[s].boards[i], new[s].boards[i])
             /\ new[s].boards[i].address \in addresses => new[s].boards[i].state = "disabled"
             /\ new[s].boards[i].state \in Running => prev[s].boards[i].state \in Running
  BY <1>2, <1>3, <1>4, <1>5, KeepsSame DEF DisabledAreOut, Running
<1>7. Follows(prev, new)  BY <1>1, <1>4, <1>6 DEF Follows
<1>8. NoneStarts(prev, new)  BY <1>1, <1>6 DEF NoneStarts
<1>9. AllOut(new, addresses)  BY <1>1, <1>4, <1>6 DEF AllOut
<1>10. QED  BY <1>7, <1>8, <1>9 DEF new

\* A game in which some of the achievements are others.
LEMMA ItemsChanged ==
  ASSUME NEW prev, Shape(prev), NEW new, DOMAIN new = DOMAIN prev,
         \A s \in DOMAIN prev :
           \/ new[s] = prev[s]
           \/ \E items : /\ new[s] = WithAchievements(prev[s], items)
                        /\ DOMAIN items = DOMAIN prev[s].achievements
                        /\ \A i \in DOMAIN items : Heeds(prev[s].achievements[i], items[i])
  PROVE  /\ Follows(prev, new) /\ NoneStarts(prev, new)
<1>1. ASSUME NEW s \in DOMAIN prev
      PROVE  /\ IsRecord(new[s]) /\ new[s].active = prev[s].active /\ new[s].boards = prev[s].boards
             /\ DOMAIN new[s].achievements = DOMAIN prev[s].achievements
             /\ \A i \in DOMAIN prev[s].achievements : Heeds(prev[s].achievements[i], new[s].achievements[i])
  <2>1. IsRecord(prev[s]) /\ \A i \in DOMAIN prev[s].achievements : IsItem(prev[s].achievements[i])
    BY DEF Shape
  <2>2. CASE new[s] = prev[s]  BY <2>1, <2>2, KeepsSame
  <2>3. ASSUME NEW items, new[s] = WithAchievements(prev[s], items),
               DOMAIN items = DOMAIN prev[s].achievements,
               \A i \in DOMAIN items : Heeds(prev[s].achievements[i], items[i])
        PROVE  /\ IsRecord(new[s]) /\ new[s].active = prev[s].active /\ new[s].boards = prev[s].boards
               /\ new[s].achievements = items
    BY <2>1, <2>3 DEF WithAchievements, IsRecord
  <2>4. QED  BY <2>2, <2>3
<1>2. \A s \in DOMAIN prev : \A i \in DOMAIN prev[s].boards : IsBoard(prev[s].boards[i])  BY DEF Shape
<1>3. QED  BY <1>1, <1>2, KeepsSame DEF Follows, NoneStarts

WithBoards(x, boards) == [x EXCEPT !.boards = boards]

\* A game in which some of the leaderboards are others.
LEMMA BoardsChanged ==
  ASSUME NEW prev, Shape(prev), NEW new, DOMAIN new = DOMAIN prev,
         \A s \in DOMAIN prev :
           \/ new[s] = prev[s]
           \/ \E boards : /\ new[s] = WithBoards(prev[s], boards)
                         /\ DOMAIN boards = DOMAIN prev[s].boards
                         /\ \A i \in DOMAIN boards : KeepsBoard(prev[s].boards[i], boards[i])
  PROVE  Follows(prev, new) /\ SameStates(prev, new)
<1>1. ASSUME NEW s \in DOMAIN prev
      PROVE  /\ IsRecord(new[s]) /\ new[s].active = prev[s].active
             /\ new[s].achievements = prev[s].achievements
             /\ DOMAIN new[s].boards = DOMAIN prev[s].boards
             /\ \A i \in DOMAIN prev[s].boards : KeepsBoard(prev[s].boards[i], new[s].boards[i])
  <2>1. IsRecord(prev[s]) /\ \A i \in DOMAIN prev[s].boards : IsBoard(prev[s].boards[i])
    BY DEF Shape
  <2>2. CASE new[s] = prev[s]  BY <2>1, <2>2, KeepsSame
  <2>3. ASSUME NEW boards, new[s] = WithBoards(prev[s], boards),
               DOMAIN boards = DOMAIN prev[s].boards,
               \A i \in DOMAIN boards : KeepsBoard(prev[s].boards[i], boards[i])
        PROVE  /\ IsRecord(new[s]) /\ new[s].active = prev[s].active
               /\ new[s].achievements = prev[s].achievements /\ new[s].boards = boards
    BY <2>1, <2>3 DEF IsRecord, WithBoards
  <2>4. QED  BY <2>2, <2>3
<1>2. \A s \in DOMAIN prev : \A i \in DOMAIN prev[s].achievements : IsItem(prev[s].achievements[i])
  BY DEF Shape
<1>3. QED  BY <1>1, <1>2, KeepsSame DEF Follows, SameStates

LEMMA NewShape ==
  ASSUME source \in Games
  PROVE  /\ Shape(source.sets) /\ DisabledAreOut(source.sets)
         /\ \A s \in DOMAIN source.sets : IsSet(source.sets[s])
<1>1. ASSUME NEW s \in DOMAIN source.sets
      PROVE  /\ IsSet(source.sets[s]) /\ IsRecord(source.sets[s]) /\ source.sets[s].active \in BOOLEAN
             /\ \A i \in DOMAIN source.sets[s].achievements :
                  IsItem(source.sets[s].achievements[i]) /\ source.sets[s].achievements[i].state = "inactive"
             /\ \A i \in DOMAIN source.sets[s].boards : IsBoard(source.sets[s].boards[i])
  <2> DEFINE x == source.sets[s]
  <2>1. IsSet(x) /\ \A i \in DOMAIN x.achievements : x.achievements[i].state = "inactive"
    BY NewSetsAre
  <2>2. IsNewSet(x)  BY ListsAssumption DEF Range
  <2> HIDE DEF x
  <2>3. \A i \in DOMAIN x.achievements : IsItem(x.achievements[i])  BY <2>1 DEF IsSet, Distinct
  <2>4. /\ IsRecord(x) /\ x.active \in BOOLEAN
        /\ \A b \in Range(x.boards) : b = Board(b.id, b.address, b.hidden)
    BY <2>2 DEF IsNewSet, IsRecord
  <2>5. ASSUME NEW i \in DOMAIN x.boards  PROVE IsBoard(x.boards[i])
    <3> DEFINE b == x.boards[i]
    <3>1. b \in Range(x.boards)  BY DEF Range
    <3> HIDE DEF b
    <3>2. b = Board(b.id, b.address, b.hidden)  BY <2>4, <3>1
    <3>3. QED  BY <3>2 DEF Board, IsBoard, b
  <2>6. QED  BY <2>1, <2>3, <2>4, <2>5 DEF x
<1>2. QED  BY <1>1 DEF Shape, DisabledAreOut

OutInv ==
  /\ source \in Games /\ Shape(sets) /\ DisabledAreOut(sets)
  /\ phase = "active" =>
       AllOut(sets, unreadable) /\ ListedAre(sets, listed) /\ BoardsIn(sets, listedBoards)

LEMMA UnlocksKeepOut ==
  ASSUME OutInv, UnlockInv, NEW hard \in source.unlocks, NEW soft \in source.unlocks, ApplyUnlocks(hard, soft)
  PROVE  OutInv'
<1>1. /\ phase' = "unlocked" /\ source' = source /\ source \in Games /\ sets = source.sets
      /\ sets' = Applied(Applied(sets, hard, TRUE), soft, FALSE)
  BY DEF ApplyUnlocks, UnlockInv
<1>2. hard \in Seq(Range(hard)) /\ soft \in Seq(Range(soft))  BY <1>1, ListsAssumption
<1>3. Shape(sets) /\ DisabledAreOut(sets) /\ \A s \in DOMAIN sets : IsSet(sets[s])  BY <1>1, NewShape
<1>4. ASSUME NEW both \in BOOLEAN, NEW unlocks, unlocks \in Seq(Range(unlocks)), NEW prev,
             \A s \in DOMAIN prev : IsSet(prev[s]),
             \A s \in DOMAIN prev : \A i \in DOMAIN prev[s].achievements :
               prev[s].achievements[i].state = "inactive",
             Shape(prev), NEW new, new = Applied(prev, unlocks, both)
      PROVE  /\ Shape(new) /\ \A s \in DOMAIN new : IsSet(new[s])
             /\ \A s \in DOMAIN new : \A i \in DOMAIN new[s].achievements :
                  new[s].achievements[i].state = "inactive"
  <2>1. AllMarked(prev, new, unlocks, both) /\ \A s \in DOMAIN new : IsSet(new[s])
    BY <1>4, AppliedMarks
  <2>2. /\ DOMAIN new = DOMAIN prev
        /\ \A s \in DOMAIN prev :
             /\ new[s].active = prev[s].active /\ new[s].boards = prev[s].boards
             /\ DOMAIN new[s].achievements = DOMAIN prev[s].achievements
             /\ \A i \in DOMAIN prev[s].achievements :
                  /\ IsItem(new[s].achievements[i])
                  /\ new[s].achievements[i].id = prev[s].achievements[i].id
                  /\ new[s].achievements[i].state = prev[s].achievements[i].state
    BY <2>1 DEF AllMarked, IsMarked
  <2>3. \A s \in DOMAIN prev : IsRecord(new[s])  BY <2>1, <2>2 DEF IsSet, IsRecord
  <2>4. Shape(new)  BY <1>4, <2>2, <2>3 DEF Shape
  <2>5. QED  BY <1>4, <2>1, <2>2, <2>4
<1>5. \A s \in DOMAIN sets : \A i \in DOMAIN sets[s].achievements : sets[s].achievements[i].state = "inactive"
  BY <1>1, NewSetsAre
<1>6. PICK yes \in BOOLEAN : yes = TRUE  OBVIOUS
<1>7. PICK no \in BOOLEAN : no = FALSE  OBVIOUS
<1>8. PICK mid : mid = Applied(sets, hard, yes)  OBVIOUS
<1>9. PICK new : new = Applied(mid, soft, no)  OBVIOUS
<1>10. /\ Shape(mid) /\ \A s \in DOMAIN mid : IsSet(mid[s])
       /\ \A s \in DOMAIN mid : \A i \in DOMAIN mid[s].achievements :
            mid[s].achievements[i].state = "inactive"
  BY <1>2, <1>3, <1>4, <1>5, <1>8
<1>11. /\ Shape(new)
       /\ \A s \in DOMAIN new : \A i \in DOMAIN new[s].achievements :
            new[s].achievements[i].state = "inactive"
  BY <1>2, <1>4, <1>9, <1>10
<1>12. sets' = new  BY <1>1, <1>6, <1>7, <1>8, <1>9
<1>13. DisabledAreOut(new)  BY <1>11 DEF DisabledAreOut
<1>14. Shape(sets)' /\ phase' # "active"  BY <1>1, <1>11, <1>12 DEF Shape
<1>15. DisabledAreOut(sets')  BY <1>12, <1>13
<1>16. QED  BY <1>1, <1>14, <1>15 DEF OutInv

LEMMA ActivateKeepsOut ==
  ASSUME OutInv, NEW addresses, Activate(addresses)
  PROVE  OutInv'
<1> DEFINE bit == IF ofHardcore THEN "hard" ELSE "soft"
<1>1. PICK out : out = Invalidated(sets, addresses)  OBVIOUS
<1>2. PICK mid : mid = Activated(out)  OBVIOUS
<1>3. PICK new : new = BoardsStarted(mid)  OBVIOUS
<1>4. /\ sets' = new /\ listed' = Listed(new) /\ listedBoards' = ListedBoards(new)
      /\ unreadable' = addresses /\ source' = source /\ phase' = "active"
  BY <1>1, <1>2, <1>3 DEF Activate
<1>5. Shape(sets) /\ DisabledAreOut(sets) /\ source \in Games  BY DEF OutInv
<1>6. Follows(sets, out) /\ AllOut(out, addresses)  BY <1>1, <1>5, InvalidatedFollows
<1>7. Shape(out) /\ DisabledAreOut(out)  BY <1>5, <1>6, FollowsOn
<1>8. Follows(out, mid)
  <2>1. DOMAIN mid = DOMAIN out  BY <1>2 DEF Activated
  <2>2. ASSUME NEW s \in DOMAIN out
        PROVE  \/ mid[s] = out[s]
               \/ \E items : /\ mid[s] = WithAchievements(out[s], items)
                            /\ DOMAIN items = DOMAIN out[s].achievements
                            /\ \A i \in DOMAIN items : Heeds(out[s].achievements[i], items[i])
    <3> DEFINE items == [i \in DOMAIN out[s].achievements |-> Started(out[s].achievements[i], bit)]
    <3>1. mid[s] = IF out[s].active THEN WithAchievements(out[s], items) ELSE out[s]
      BY <1>2 DEF Activated
    <3>2. \A i \in DOMAIN out[s].achievements : IsItem(out[s].achievements[i])  BY <1>7 DEF Shape
    <3>3. /\ DOMAIN items = DOMAIN out[s].achievements
          /\ \A i \in DOMAIN items : Heeds(out[s].achievements[i], items[i])
      BY <3>2, StartedKeeps
    <3> HIDE DEF items
    <3>4. QED  BY <3>1, <3>3
  <2>3. QED  BY <1>7, <2>1, <2>2, ItemsChanged
<1>9. Shape(mid) /\ DisabledAreOut(mid) /\ AllOut(mid, addresses)  BY <1>6, <1>7, <1>8, FollowsOn
<1>10. Follows(mid, new)
  <2>1. DOMAIN new = DOMAIN mid  BY <1>3 DEF BoardsStarted
  <2>2. ASSUME NEW s \in DOMAIN mid
        PROVE  \/ new[s] = mid[s]
               \/ \E boards : /\ new[s] = WithBoards(mid[s], boards)
                             /\ DOMAIN boards = DOMAIN mid[s].boards
                             /\ \A i \in DOMAIN boards : KeepsBoard(mid[s].boards[i], boards[i])
    <3> DEFINE on(b) == [b EXCEPT !.state = "active"]
               boards == [i \in DOMAIN mid[s].boards |->
                            IF mid[s].boards[i].state = "inactive" THEN on(mid[s].boards[i])
                            ELSE mid[s].boards[i]]
    <3>1. new[s] = IF mid[s].active /\ ofHardcore THEN WithBoards(mid[s], boards) ELSE mid[s]
      BY <1>3 DEF BoardsStarted, WithBoards
    <3>2. \A i \in DOMAIN mid[s].boards : IsBoard(mid[s].boards[i])  BY <1>9 DEF Shape
    <3>3. ASSUME NEW b, IsBoard(b), b.state = "inactive"  PROVE KeepsBoard(b, on(b))
      BY <3>3 DEF KeepsBoard, IsBoard
    <3> HIDE DEF on
    <3>4. /\ DOMAIN boards = DOMAIN mid[s].boards
          /\ \A i \in DOMAIN boards : KeepsBoard(mid[s].boards[i], boards[i])
      BY <3>2, <3>3, KeepsSame
    <3> HIDE DEF boards
    <3>5. QED  BY <3>1, <3>4
  <2>3. QED  BY <1>9, <2>1, <2>2, BoardsChanged
<1>11. Shape(new) /\ DisabledAreOut(new) /\ AllOut(new, addresses)  BY <1>9, <1>10, FollowsOn
<1>12. ListedAre(new, Listed(new)) /\ BoardsIn(new, ListedBoards(new))  BY <1>5, <1>11, ListedIs
<1>13. QED  BY <1>4, <1>5, <1>11, <1>12 DEF OutInv, Shape

\* A step of a running game that changes neither which achievements run nor the lists.
LEMMA ShowingKeepsOut ==
  ASSUME OutInv, phase = "active", Follows(sets, sets'), SameStates(sets, sets'), NoneStarts(sets, sets'),
         UNCHANGED <<phase, source, unreadable, listed, listedBoards>>
  PROVE  OutInv'
<1>1. /\ Shape(sets) /\ DisabledAreOut(sets) /\ AllOut(sets, unreadable) /\ ListedAre(sets, listed)
      /\ BoardsIn(sets, listedBoards) /\ source \in Games
  BY DEF OutInv
<1>2. PICK new : new = sets'  OBVIOUS
<1>3. /\ Shape(new) /\ DisabledAreOut(new) /\ AllOut(new, unreadable) /\ ListedAre(new, listed)
      /\ BoardsIn(new, listedBoards)
  BY <1>1, <1>2, FollowsOn
<1>4. Shape(sets)'  BY <1>2, <1>3 DEF Shape
<1>5. DisabledAreOut(sets') /\ AllOut(sets', unreadable') /\ ListedAre(sets', listed') /\ BoardsIn(sets', listedBoards')
  BY <1>2, <1>3
<1>6. QED  BY <1>1, <1>4, <1>5 DEF OutInv

\* One after which the achievements that run are listed again.
LEMMA ListingKeepsOut ==
  ASSUME OutInv, phase = "active", Follows(sets, sets'), NoneStarts(sets, sets'),
         AllOut(sets', unreadable'), listed' = Listed(sets'), UNCHANGED <<phase, source, listedBoards>>
  PROVE  OutInv'
<1>1. /\ Shape(sets) /\ DisabledAreOut(sets) /\ BoardsIn(sets, listedBoards) /\ source \in Games
  BY DEF OutInv
<1>2. PICK new : new = sets'  OBVIOUS
<1>3. Shape(new) /\ DisabledAreOut(new) /\ BoardsIn(new, listedBoards)  BY <1>1, <1>2, FollowsOn
<1>4. ListedAre(new, Listed(new))  BY <1>1, <1>3, ListedIs
<1>5. Shape(sets)'  BY <1>2, <1>3 DEF Shape
<1>6. DisabledAreOut(sets') /\ ListedAre(sets', listed') /\ BoardsIn(sets', listedBoards')
  BY <1>2, <1>3, <1>4
<1>7. QED  BY <1>1, <1>5, <1>6 DEF OutInv

LEMMA FramesKeepOut ==
  ASSUME OutInv,
         \/ \E s, i, v, t : Measures(s, i, v, t)
         \/ \E s, i, waits : Awards(s, i, waits)
         \/ \E s \in DOMAIN sets : \E i : Tracks(s, i)
         \/ \E a : BecomesUnreadable(a)
  PROVE  OutInv'
<1>1. Shape(sets) /\ DisabledAreOut(sets)  BY DEF OutInv
<1>2. \A s \in DOMAIN sets : /\ \A i \in DOMAIN sets[s].achievements : IsItem(sets[s].achievements[i])
                             /\ \A i \in DOMAIN sets[s].boards : IsBoard(sets[s].boards[i])
  BY SMTT(60), <1>1 DEF Shape
<1>3. ASSUME NEW s, NEW i, NEW v, NEW t, Measures(s, i, v, t)  PROVE OutInv'
  <2> DEFINE a == sets[s].achievements[i]
             b == [a EXCEPT !.measured = v, !.trigger = t]
  <2>1. a.state = "active" /\ sets' = [sets EXCEPT ![s].achievements[i] = b]  BY <1>3 DEF Measures
  <2>2. ASSUME IsItem(a)  PROVE Heeds(a, b) /\ b.state = a.state
    BY <2>1, <2>2 DEF Heeds, IsItem, Out
  <2> HIDE DEF b
  <2>3. Follows(sets, sets') /\ NoneStarts(sets, sets') /\ SameStates(sets, sets')
    BY <1>1, <1>2, <2>1, <2>2, OneChanged
  <2>4. QED  BY ZenonT(60), <1>3, <2>3, ShowingKeepsOut DEF Measures
<1>4. ASSUME NEW s, NEW i, NEW waits, Awards(s, i, waits)  PROVE OutInv'
  <2> DEFINE a == sets[s].achievements[i]
             b == [a EXCEPT !.state = "unlocked", !.trigger = "triggered", !.at = Now, !.pending = waits]
  <2>1. a.state = "active" /\ sets' = [sets EXCEPT ![s].achievements[i] = b]  BY <1>4 DEF Awards
  <2>2. ASSUME IsItem(a)  PROVE Heeds(a, b)  BY <2>1, <2>2 DEF Heeds, IsItem, Out
  <2> HIDE DEF b
  <2>3. Follows(sets, sets') /\ NoneStarts(sets, sets')  BY <1>1, <1>2, <2>1, <2>2, OneChanged
  <2>4. /\ phase = "active" /\ listed' = Listed(sets')
        /\ UNCHANGED <<phase, source, unreadable, listedBoards>>
    BY <1>4 DEF Awards
  <2>5. AllOut(sets', unreadable)  BY <1>1, <2>3, <2>4, FollowsOn DEF OutInv
  <2>6. AllOut(sets', unreadable')  BY <2>4, <2>5
  <2>7. QED  BY <2>3, <2>4, <2>6, ListingKeepsOut
<1>5. ASSUME NEW s \in DOMAIN sets, NEW i, Tracks(s, i)  PROVE OutInv'
  <2> DEFINE c == sets[s].boards[i]
             on(state) == [c EXCEPT !.state = state]
             boards(state) == [sets[s].boards EXCEPT ![i] = on(state)]
  <2>1. PICK state \in Running : /\ c.state \in Running
                                 /\ sets' = [sets EXCEPT ![s] = WithBoards(@, boards(state))]
    BY <1>5 DEF Tracks, Running, WithBoards
  <2>2. ASSUME IsBoard(c)  PROVE KeepsBoard(c, on(state)) /\ on(state).state = state
    BY <2>1, <2>2 DEF KeepsBoard, IsBoard, Running
  <2> HIDE DEF on
  <2>3. /\ DOMAIN boards(state) = DOMAIN sets[s].boards
        /\ \A k \in DOMAIN sets[s].boards :
             /\ KeepsBoard(sets[s].boards[k], boards(state)[k])
             /\ boards(state)[k].state \in Running => sets[s].boards[k].state \in Running
    BY <1>2, <2>1, <2>2, KeepsSame
  <2> HIDE DEF boards
  <2>4. /\ DOMAIN sets' = DOMAIN sets /\ sets'[s] = WithBoards(sets[s], boards(state))
        /\ \A t \in DOMAIN sets : t # s => sets'[t] = sets[t]
    BY <2>1
  <2>5. Follows(sets, sets') /\ SameStates(sets, sets')
    <3>1. \A t \in DOMAIN sets :
            \/ sets'[t] = sets[t]
            \/ \E bs : /\ sets'[t] = WithBoards(sets[t], bs)
                      /\ DOMAIN bs = DOMAIN sets[t].boards
                      /\ \A k \in DOMAIN bs : KeepsBoard(sets[t].boards[k], bs[k])
      BY <2>3, <2>4
    <3>2. QED  BY <1>1, <2>4, <3>1, BoardsChanged
  <2>6. NoneStarts(sets, sets')
    <3>1. sets'[s].boards = boards(state)  BY <1>1, <2>4 DEF WithBoards, Shape, IsRecord
    <3>2. QED  BY <2>3, <2>4, <3>1 DEF NoneStarts
  <2>7. QED  BY <1>5, <2>5, <2>6, ShowingKeepsOut DEF Tracks
<1>6. ASSUME NEW a, BecomesUnreadable(a)  PROVE OutInv'
  <2>1. /\ phase = "active" /\ sets' = Invalidated(sets, {a}) /\ listed' = Listed(sets')
        /\ unreadable' = unreadable \cup {a} /\ UNCHANGED <<phase, source, listedBoards>>
    BY <1>6 DEF BecomesUnreadable
  <2>2. PICK gone : gone = {a}  OBVIOUS
  <2>3. Follows(sets, sets') /\ NoneStarts(sets, sets') /\ AllOut(sets', gone)
    BY <1>1, <2>1, <2>2, InvalidatedFollows
  <2>4. AllOut(sets', unreadable)  BY <1>1, <2>1, <2>3, FollowsOn DEF OutInv
  <2>5. AllOut(sets', unreadable')  BY <2>1, <2>2, <2>3, <2>4 DEF AllOut
  <2>6. QED  BY <2>1, <2>3, <2>5, ListingKeepsOut
<1>7. QED  BY <1>3, <1>4, <1>5, <1>6

LEMMA ListsKeepOut ==
  ASSUME OutInv,
         \/ \E id : GetAchievementInfo(id)
         \/ \E category : CreateAchievementList(category)
         \/ \E grouping : CreateLeaderboardList(grouping)
         \/ \E after, b : GetNextAchievementInfo(after, b)
  PROVE  OutInv'
<1>1. Shape(sets)  BY DEF OutInv
<1>2. \A s \in DOMAIN sets : /\ \A i \in DOMAIN sets[s].achievements : IsItem(sets[s].achievements[i])
                             /\ \A i \in DOMAIN sets[s].boards : IsBoard(sets[s].boards[i])
  BY <1>1 DEF Shape
\* Any achievements are shown.
<1>3. ASSUME NEW V, phase = "active", DOMAIN sets' = DOMAIN sets,
             \A s \in DOMAIN sets :
               \/ sets'[s] = sets[s]
               \/ sets'[s] = WithAchievements(sets[s], [i \in DOMAIN sets[s].achievements |->
                               IF <<s, i>> \in V THEN Displayed(sets[s].achievements[i])
                               ELSE sets[s].achievements[i]]),
             UNCHANGED <<phase, source, unreadable, listed, listedBoards>>
      PROVE  OutInv'
  <2> DEFINE items(s) == [i \in DOMAIN sets[s].achievements |->
                            IF <<s, i>> \in V THEN Displayed(sets[s].achievements[i])
                            ELSE sets[s].achievements[i]]
  <2>1. \A s \in DOMAIN sets :
          /\ DOMAIN items(s) = DOMAIN sets[s].achievements
          /\ \A i \in DOMAIN items(s) : /\ Heeds(sets[s].achievements[i], items(s)[i])
                                        /\ items(s)[i].state = sets[s].achievements[i].state
    BY <1>2, DisplayedKeeps, KeepsSame
  <2>2. \A s \in DOMAIN sets : sets'[s] = sets[s] \/ sets'[s] = WithAchievements(sets[s], items(s))
    BY <1>3
  <2> HIDE DEF items
  <2>3. Follows(sets, sets') /\ NoneStarts(sets, sets')  BY <1>1, <1>3, <2>1, <2>2, ItemsChanged
  <2>4. SameStates(sets, sets')
    <3>1. \A s \in DOMAIN sets : sets'[s].achievements \in {sets[s].achievements, items(s)}
      BY ZenonT(60), <1>1, <2>2 DEF WithAchievements, Shape, IsRecord
    <3>2. QED  BY <2>1, <3>1 DEF SameStates
  <2>5. QED  BY <1>3, <2>3, <2>4, ShowingKeepsOut
<1>4. ASSUME NEW id, GetAchievementInfo(id)  PROVE OutInv'
  <2>1. PICK s, i : sets' = [sets EXCEPT ![s].achievements[i] = Displayed(sets[s].achievements[i])]
    BY <1>4 DEF GetAchievementInfo
  <2> DEFINE b == Displayed(sets[s].achievements[i])
  <2>4. s \in DOMAIN sets /\ i \in DOMAIN sets[s].achievements =>
          Heeds(sets[s].achievements[i], b) /\ b.state = sets[s].achievements[i].state
    BY <1>2, DisplayedKeeps
  <2>5. sets' = [sets EXCEPT ![s].achievements[i] = b]  BY <2>1
  <2> HIDE DEF b
  <2>2. Follows(sets, sets') /\ NoneStarts(sets, sets') /\ SameStates(sets, sets')
    BY <1>1, <2>4, <2>5, OneChanged
  <2>3. QED  BY ZenonT(60), <1>4, <2>2, ShowingKeepsOut DEF GetAchievementInfo
<1>5. ASSUME NEW category, CreateAchievementList(category)  PROVE OutInv'
  <2> DEFINE V == {p \in UNION {{<<s, i>> : i \in DOMAIN sets[s].achievements} : s \in DOMAIN sets} :
                     sets[p[1]].achievements[p[2]].category \in category}
  <2>1. \A s \in DOMAIN sets : \A i \in DOMAIN sets[s].achievements :
          <<s, i>> \in V <=> sets[s].achievements[i].category \in category
    OBVIOUS
  <2> HIDE DEF V
  <2>2. /\ phase = "active" /\ sets' = DisplayedAll(sets, category)
        /\ UNCHANGED <<phase, source, unreadable, listed, listedBoards>>
    BY <1>5 DEF CreateAchievementList
  <2>3. DOMAIN sets' = DOMAIN sets  BY <2>2 DEF DisplayedAll
  <2>4. ASSUME NEW s \in DOMAIN sets
        PROVE  \/ sets'[s] = sets[s]
               \/ sets'[s] = WithAchievements(sets[s], [i \in DOMAIN sets[s].achievements |->
                               IF <<s, i>> \in V THEN Displayed(sets[s].achievements[i])
                               ELSE sets[s].achievements[i]])
    <3>1. sets'[s] = IF sets[s].active
                     THEN WithAchievements(sets[s], [i \in DOMAIN sets[s].achievements |->
                            IF sets[s].achievements[i].category \in category
                            THEN Displayed(sets[s].achievements[i]) ELSE sets[s].achievements[i]])
                     ELSE sets[s]
      BY <2>2 DEF DisplayedAll
    <3>2. [i \in DOMAIN sets[s].achievements |->
             IF sets[s].achievements[i].category \in category
             THEN Displayed(sets[s].achievements[i]) ELSE sets[s].achievements[i]]
          = [i \in DOMAIN sets[s].achievements |->
               IF <<s, i>> \in V THEN Displayed(sets[s].achievements[i]) ELSE sets[s].achievements[i]]
      BY <2>1
    <3>3. QED  BY <3>1, <3>2
  <2>5. QED  BY <1>3, <2>2, <2>3, <2>4
<1>6. ASSUME NEW grouping, CreateLeaderboardList(grouping)  PROVE OutInv'
  <2> DEFINE shown(b) == [b EXCEPT !.bucket = BoardBucket(b, grouping)]
             boards(s) == [i \in DOMAIN sets[s].boards |-> shown(sets[s].boards[i])]
  <2>1. ASSUME NEW b, IsBoard(b)  PROVE KeepsBoard(b, shown(b)) /\ shown(b).state = b.state
    BY <2>1 DEF KeepsBoard, IsBoard
  <2>2. \A s \in DOMAIN sets : sets'[s] = sets[s] \/ sets'[s] = WithBoards(sets[s], boards(s))
    BY <1>6 DEF CreateLeaderboardList, WithBoards
  <2>3. DOMAIN sets' = DOMAIN sets  BY <1>6 DEF CreateLeaderboardList
  <2> HIDE DEF shown
  <2>4. \A s \in DOMAIN sets :
          /\ DOMAIN boards(s) = DOMAIN sets[s].boards
          /\ \A i \in DOMAIN boards(s) : /\ KeepsBoard(sets[s].boards[i], boards(s)[i])
                                         /\ boards(s)[i].state = sets[s].boards[i].state
    BY <1>2, <2>1
  <2> HIDE DEF boards
  <2>5. Follows(sets, sets') /\ SameStates(sets, sets')  BY <1>1, <2>2, <2>3, <2>4, BoardsChanged
  <2>6. NoneStarts(sets, sets')
    <3>1. \A s \in DOMAIN sets : sets'[s].boards \in {sets[s].boards, boards(s)}
      BY <1>1, <2>2 DEF WithBoards, Shape, IsRecord
    <3>2. QED  BY <2>4, <3>1 DEF NoneStarts
  <2>7. QED  BY <1>6, <2>5, <2>6, ShowingKeepsOut DEF CreateLeaderboardList
<1>7. ASSUME NEW after, NEW b, GetNextAchievementInfo(after, b)  PROVE OutInv'
  <2> DEFINE from == IF after = <<>> THEN 1 ELSE SelectInSeq(Places, LAMBDA p : p = after) + 1
             shows(k) == Displayed(sets[Places[k][1]].achievements[Places[k][2]])
             found == {k \in from..Len(Places) : shows(k).bucket = b}
             V == {Places[k] : k \in from..(IF found = {} THEN Len(Places) ELSE Min(found))}
  <2>1. sets' = [s \in DOMAIN sets |->
                   WithAchievements(sets[s], [i \in DOMAIN sets[s].achievements |->
                     IF <<s, i>> \in V THEN Displayed(sets[s].achievements[i]) ELSE sets[s].achievements[i]])]
    BY <1>7, ZenonT(60) DEF GetNextAchievementInfo
  <2> HIDE DEF V
  <2>2. phase = "active" /\ UNCHANGED <<phase, source, unreadable, listed, listedBoards>>
    BY <1>7 DEF GetNextAchievementInfo
  <2>3. DOMAIN sets' = DOMAIN sets  BY <2>1
  <2>4. QED  BY <1>3, <2>1, <2>2, <2>3
<1>8. QED  BY <1>4, <1>5, <1>6, <1>7

ListsInv == UnlockInv /\ OutInv

LEMMA OutKept == ListsInv /\ [ListsNext]_listVars => ListsInv'
<1> SUFFICES ASSUME UnlockInv, OutInv, [ListsNext]_listVars  PROVE OutInv'
  BY UnlocksKept DEF ListsInv
<1>1. CASE UNCHANGED listVars  BY <1>1 DEF listVars, OutInv, Shape
<1>2. ASSUME NEW hard \in source.unlocks, NEW soft \in source.unlocks, ApplyUnlocks(hard, soft)  PROVE OutInv'
  BY <1>2, UnlocksKeepOut
<1>3. ASSUME NEW addresses, Activate(addresses)  PROVE OutInv'  BY <1>3, ActivateKeepsOut
<1>4. ASSUME NEW a, BecomesUnreadable(a)  PROVE OutInv'  BY <1>4, FramesKeepOut
<1>5. ASSUME NEW s, NEW i, NEW v, NEW t, Measures(s, i, v, t)  PROVE OutInv'  BY <1>5, FramesKeepOut
<1>6. ASSUME NEW s, NEW i, NEW waits, Awards(s, i, waits)  PROVE OutInv'  BY <1>6, FramesKeepOut
<1>7. ASSUME NEW s \in DOMAIN sets, NEW i, Tracks(s, i)  PROVE OutInv'  BY <1>7, FramesKeepOut
<1>8. ASSUME NEW id, GetAchievementInfo(id)  PROVE OutInv'  BY <1>8, ListsKeepOut
<1>9. ASSUME NEW c, CreateAchievementList(c)  PROVE OutInv'  BY <1>9, ListsKeepOut
<1>10. ASSUME NEW g, CreateLeaderboardList(g)  PROVE OutInv'  BY <1>10, ListsKeepOut
<1>11. ASSUME NEW after, NEW b, GetNextAchievementInfo(after, b)  PROVE OutInv'  BY <1>11, ListsKeepOut
<1>12. QED  BY <1>1, <1>2, <1>3, <1>4, <1>5, <1>6, <1>7, <1>8, <1>9, <1>10, <1>11 DEF ListsNext

\* What uses memory that cannot be read stays disabled and unsupported, whatever frames and lists
\* do afterwards, and the runtime has just the achievements that run and all leaderboards that do
\* (rc_client_invalidate_memref_achievements, rc_client_update_memref_values).
THEOREM UnreadableStaysOut == ListsSpec => []UnreadableIsOut
<1>1. ListsInit => ListsInv
  <2> SUFFICES ASSUME ListsInit  PROVE ListsInv
    OBVIOUS
  <2>1. phase = "loaded" /\ source \in Games /\ sets = source.sets  BY DEF ListsInit
  <2>2. Shape(sets) /\ DisabledAreOut(sets)  BY <2>1, NewShape
  <2>3. QED  BY <2>1, <2>2 DEF ListsInv, UnlockInv, OutInv, UnlocksApplied
<1>2. ListsInv => UnreadableIsOut
  <2> SUFFICES ASSUME OutInv, phase = "active", NEW s \in DOMAIN sets
               PROVE  /\ \A a \in Range(sets[s].achievements) :
                           /\ a.address \in unreadable =>
                                a.state = "disabled" /\ a.trigger = "disabled" /\ a.bucket = "unsupported"
                           /\ a.id \in listed <=> (sets[s].active /\ a.state = "active")
                      /\ \A b \in Range(sets[s].boards) :
                           /\ b.address \in unreadable => b.state = "disabled"
                           /\ sets[s].active /\ b.state \in {"active", "tracking"} => b.id \in listedBoards
    BY DEF ListsInv, UnreadableIsOut
  <2>1. AllOut(sets, unreadable) /\ ListedAre(sets, listed) /\ BoardsIn(sets, listedBoards)  BY DEF OutInv
  <2>2. ASSUME NEW a \in Range(sets[s].achievements)
        PROVE  /\ a.address \in unreadable => Out(a)
               /\ a.id \in listed <=> (sets[s].active /\ a.state = "active")
    BY <2>1 DEF AllOut, ListedAre, Range
  <2>3. ASSUME NEW b \in Range(sets[s].boards)
        PROVE  /\ b.address \in unreadable => b.state = "disabled"
               /\ sets[s].active /\ b.state \in Running => b.id \in listedBoards
    BY <2>1 DEF AllOut, BoardsIn, Range
  <2>4. QED  BY <2>2, <2>3 DEF Out, Running
<1>3. QED  BY <1>1, <1>2, OutKept, PTL DEF ListsSpec
=============================================================================
