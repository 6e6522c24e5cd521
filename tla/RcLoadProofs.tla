---------------------------- MODULE RcLoadProofs ----------------------------
(***************************************************************************)
(* That the memory of a load is held by exactly what still comes back to   *)
(* it, that its callback is called as often as it should be, and that the  *)
(* game belongs to the load that was activated last: for any number of     *)
(* loads, logins and hashes.                                               *)
(*                                                                         *)
(* A handler works on one load, and what holds of a load is LoadOK.  The   *)
(* helpers of the handlers leave a load half-way between two states in     *)
(* which it holds; what each of them does is a lemma about the fields it   *)
(* changes (Works).                                                        *)
(***************************************************************************)
EXTENDS RcLoad, SequenceTheorems, FiniteSetTheorems, WellFoundedInduction, TLAPS

Fetching(t, l) == <<"fetch", l>> \in t.reqs
Starting(t, l) == <<"start", l>> \in t.reqs
Awaited(t, l) == \E i \in DOMAIN t.toActivate : t.toActivate[i] = l

\* A load that is live is held by a request, by a queued activation, or it waits for a login; it
\* is the current one or was aborted; and nobody was told of it unless it was superseded.
LiveOK(t, l) ==
  LET q == t.ld[l]
      fetching == Fetching(t, l)
      starting == Starting(t, l)
      queued == Awaited(t, l)
  IN /\ q.outstanding = IF fetching \/ starting THEN 1 ELSE 0
     /\ ~(fetching /\ starting) /\ (queued => ~fetching /\ ~starting /\ ~t.background)
     /\ (q.progress = "awaitLogin") <=> ~(fetching \/ starting \/ queued)
     /\ q.progress # "aborted" /\ q.callback
     /\ t.mem[l] = "load"
     /\ t.load # l => q.aborted
     /\ q.results = << >> \/ (q.results = <<"aborted">> /\ t.load # l)
     /\ t.load = l /\ queued => q.session \/ t.spectator = "locked"

\* Nothing holds a load that is not live.
LoadOK(t, l) ==
  LET q == t.ld[l]
  IN /\ q.st = "live" => LiveOK(t, l)
     /\ q.st # "live" => ~Fetching(t, l) /\ ~Starting(t, l) /\ ~Awaited(t, l) /\ t.load # l
                         /\ t.mem[l] # "load"
     /\ q.st = "fresh" => /\ q.results = << >> /\ q.callback /\ q.outstanding = 0
                          /\ q.progress = "none"
                          /\ t.mem[l] = "none" /\ ~q.session
     /\ t.mem[l] = "client" => t.game = l
     /\ \/ q.results = << >> \/ \E r \in Results : q.results = <<r>>
        \/ ~t.background /\ q.results = <<"aborted", "aborted">>
     /\ l \in t.pings => t.game = l /\ (t.background => q.session)

Progresses == {"none", "awaitLogin", "fetching", "identifying", "starting", "aborted"}
Stages == {"fresh", "live", "freed"}
Owners == {"none", "load", "client", "freed"}

LoadSet ==
  [st : Stages, progress : Progresses, outstanding : Nat, aborted : BOOLEAN, callback : BOOLEAN,
   session : BOOLEAN, hash : Seq(Hashes), results : Seq(Results)]
LoginSet == [st : {"fresh", "waiting", "done"}, aborted : BOOLEAN, result : {"none", "ok", "error", "aborted", "invalid"}]

StateSet ==
  [user : {"none", "requested", "loggedIn"}, account : Logins \cup {NoLogin},
   spectator : {"off", "on", "locked"}, background : BOOLEAN,
   load : Loads \cup {NoLoad}, game : Loads \cup {NoLoad}, ld : [Loads -> LoadSet],
   mem : [Loads -> Owners], known : [Hashes -> {"unasked", "none", "game"}],
   login : [Logins -> LoginSet],
   reqs : SUBSET (({"login"} \X Logins) \cup ({"fetch", "start"} \X Loads)),
   toActivate : Seq(Loads), pings : SUBSET Loads, fault : BOOLEAN]

\* What holds of the client as a whole: one game at a time, and no load is queued twice.
ClientOK(t) ==
  /\ t.fault = FALSE
  /\ t.load # NoLoad => t.game = NoLoad
  /\ t.game # NoLoad => t.mem[t.game] = "client"
  /\ \A i, j \in DOMAIN t.toActivate : t.toActivate[i] = t.toActivate[j] => i = j

GoodState(t) == t \in StateSet /\ ClientOK(t) /\ \A l \in Loads : LoadOK(t, l)
LoadInv == GoodState(State)

-----------------------------------------------------------------------------
(* What the helpers do.                                                     *)

Live(t, l) == t \in StateSet /\ t.ld[l].st = "live" /\ t.fault = FALSE

\* What only some handlers change.
Same(t, u) ==
  /\ u.user = t.user /\ u.spectator = t.spectator /\ u.background = t.background /\ u.game = t.game
  /\ u.reqs = t.reqs /\ u.toActivate = t.toActivate /\ u.pings = t.pings

\* Load l becomes q, its game belongs to m, and the load in progress is cur.
Works(t, u, l, q, m, cur) ==
  /\ u \in StateSet /\ q \in LoadSet /\ m \in Owners /\ u.fault = FALSE /\ u.load = cur
  /\ u.ld = [t.ld EXCEPT ![l] = q] /\ u.mem = [t.mem EXCEPT ![l] = m]

LEMMA Twice ==
  ASSUME NEW t \in StateSet, NEW u, NEW v, NEW l \in Loads, NEW q, NEW p, NEW m, NEW o, NEW c, NEW d,
         Works(t, u, l, q, m, c), Works(u, v, l, p, o, d)
  PROVE  Works(t, v, l, p, o, d)
<1>1. /\ u.ld = [t.ld EXCEPT ![l] = q] /\ v.ld = [u.ld EXCEPT ![l] = p]
      /\ u.mem = [t.mem EXCEPT ![l] = m] /\ v.mem = [u.mem EXCEPT ![l] = o]
  BY DEF Works
<1>2. v.ld = [t.ld EXCEPT ![l] = p]  BY <1>1
<1>3. v.mem = [t.mem EXCEPT ![l] = o]  BY <1>1
<1>4. QED  BY <1>2, <1>3 DEF Works

Put(t, l, q, m, cur) ==
  [t EXCEPT !.ld = [t.ld EXCEPT ![l] = q], !.mem = [t.mem EXCEPT ![l] = m], !.load = cur, !.fault = FALSE]

LEMMA Putting ==
  ASSUME NEW t \in StateSet, NEW l \in Loads, NEW q \in LoadSet, NEW m \in Owners,
         NEW cur \in Loads \cup {NoLoad}
  PROVE  Works(t, Put(t, l, q, m, cur), l, q, m, cur) /\ Same(t, Put(t, l, q, m, cur))
<1> DEFINE u == Put(t, l, q, m, cur)
<1>1. u \in StateSet  BY ZenonT(60) DEF Put, StateSet
<1>2. /\ u.ld = [t.ld EXCEPT ![l] = q] /\ u.mem = [t.mem EXCEPT ![l] = m] /\ u.load = cur
      /\ u.fault = FALSE /\ Same(t, u)
  BY DEF Put, StateSet, Same
<1>3. QED  BY <1>1, <1>2 DEF Works

LEMMA Kept ==
  ASSUME NEW t \in StateSet, NEW l \in Loads
  PROVE  /\ t.ld[l] \in LoadSet /\ t.mem[l] \in Owners /\ t.load \in Loads \cup {NoLoad}
         /\ t.ld = [t.ld EXCEPT ![l] = t.ld[l]] /\ t.mem = [t.mem EXCEPT ![l] = t.mem[l]]
  BY DEF StateSet

\* A callback is called when it was not cleared.
Heard(q, r) == IF q.callback THEN Append(q.results, r) ELSE q.results

LEMMA TwoResults ==
  ASSUME NEW r \in Results
  PROVE  Append(<<r>>, r) = <<r, r>>
<1> DEFINE a == Append(<<r>>, r)
           b == <<r, r>>
<1>1. /\ <<r>> \in Seq(Results) /\ Len(<<r>>) = 1
      /\ b \in Seq(Results) /\ Len(b) = 2 /\ b[1] = r /\ b[2] = r
  OBVIOUS
<1>2. a \in Seq(Results) /\ Len(a) = 2 /\ a[1] = r /\ a[2] = r  BY <1>1
<1> HIDE DEF a, b
<1>3. \A i \in 1 .. Len(a) : a[i] = b[i]  BY <1>1, <1>2
<1>4. a = b  BY <1>1, <1>2, <1>3, SeqEqual
<1>5. QED  BY <1>4 DEF a, b

LEMMA Hearing ==
  ASSUME NEW q \in LoadSet, NEW r \in Results
  PROVE  Heard(q, r) \in Seq(Results)
<1>1. q.results \in Seq(Results)  BY DEF LoadSet
<1>2. QED  BY <1>1 DEF Heard

LEMMA Calling ==
  ASSUME NEW t \in StateSet, t.fault = FALSE, NEW l \in Loads, NEW r \in Results
  PROVE  \E q \in LoadSet :
           /\ Works(t, Call(t, l, r), l, q, t.mem[l], t.load) /\ Same(t, Call(t, l, r))
           /\ q.results = Heard(t.ld[l], r)
           /\ LET p == t.ld[l]
              IN /\ q.st = p.st /\ q.progress = p.progress /\ q.outstanding = p.outstanding
                 /\ q.aborted = p.aborted /\ q.callback = p.callback /\ q.session = p.session
                 /\ q.hash = p.hash
<1> DEFINE p == t.ld[l]
           results == Heard(p, r)
           q == [p EXCEPT !.results = results]
<1>1. p \in LoadSet  BY Kept
<1>2. results \in Seq(Results)  BY <1>1, Hearing
<1> HIDE DEF results
<1>3. q \in LoadSet  BY <1>1, <1>2 DEF LoadSet
<1>4. Call(t, l, r) = Put(t, l, q, t.mem[l], t.load)
  <2>1. CASE p.callback
    <3>1. results = Append(p.results, r)  BY <2>1 DEF results, Heard
    <3>2. Call(t, l, r) = [t EXCEPT !.ld = [t.ld EXCEPT ![l] = q]]  BY <2>1, <3>1 DEF Call
    <3>3. t.mem = [t.mem EXCEPT ![l] = t.mem[l]]  BY Kept
    <3> DEFINE f == [t.ld EXCEPT ![l] = q]
               g == [t.mem EXCEPT ![l] = t.mem[l]]
    <3>4. \A n : [t EXCEPT !.ld = n] = [t EXCEPT !.ld = n, !.mem = t.mem, !.load = t.load, !.fault = FALSE]
      BY DEF StateSet
    <3>5. Call(t, l, r) = [t EXCEPT !.ld = f] /\ t.mem = g  BY <3>2, <3>3
    <3>6. Put(t, l, q, t.mem[l], t.load) = [t EXCEPT !.ld = f, !.mem = g, !.load = t.load, !.fault = FALSE]
      BY DEF Put
    <3> HIDE DEF q, f, g
    <3>7. QED  BY <3>4, <3>5, <3>6
  <2>2. CASE ~p.callback
    <3>1. results = p.results  BY <2>2 DEF results, Heard
    <3>2. q = p  BY <1>1, <3>1 DEF LoadSet
    <3>3. Call(t, l, r) = t  BY <2>2 DEF Call
    <3> HIDE DEF q, p
    <3>4. QED  BY ZenonT(60), <3>2, <3>3, Kept DEF Put, StateSet, p
  <2>3. QED  BY <2>1, <2>2
<1>5. t.mem[l] \in Owners /\ t.load \in Loads \cup {NoLoad}  BY Kept
<1>6. /\ q.results = results /\ q.st = p.st /\ q.progress = p.progress /\ q.outstanding = p.outstanding
      /\ q.aborted = p.aborted /\ q.callback = p.callback /\ q.session = p.session /\ q.hash = p.hash
  BY <1>1 DEF LoadSet
<1> HIDE DEF q
<1>7. QED  BY <1>3, <1>4, <1>5, <1>6, Putting DEF results

\* rc_client_free_load_state
LEMMA Freeing ==
  ASSUME NEW t, NEW l \in Loads, Live(t, l)
  PROVE  \E q \in LoadSet :
           /\ Works(t, FreeLoadState(t, l), l, q, IF t.mem[l] = "load" THEN "freed" ELSE t.mem[l], t.load)
           /\ Same(t, FreeLoadState(t, l))
           /\ q.st = "freed" /\ q.results = t.ld[l].results /\ q.session = t.ld[l].session
<1> DEFINE p == t.ld[l]
           q == [p EXCEPT !.st = "freed"]
           m == IF t.mem[l] = "load" THEN "freed" ELSE t.mem[l]
<1>1. t \in StateSet /\ p \in LoadSet /\ m \in Owners /\ t.load \in Loads \cup {NoLoad}
  BY Kept DEF Live, Owners
<1>2. /\ q \in LoadSet /\ q.st = "freed" /\ q.results = p.results /\ q.session = p.session
  BY <1>1 DEF LoadSet, Stages
<1>3. (t.fault \/ t.ld[l].st # "live") = FALSE  BY DEF Live
<1>4. FreeLoadState(t, l) = [t EXCEPT !.ld = [t.ld EXCEPT ![l] = q], !.mem = [t.mem EXCEPT ![l] = m],
                                      !.fault = FALSE]
  BY <1>3 DEF FreeLoadState
<1> HIDE DEF q, m
<1>5. FreeLoadState(t, l) = Put(t, l, q, m, t.load)  BY <1>1, <1>4 DEF Put, StateSet
<1>6. QED  BY <1>1, <1>2, <1>5, Putting DEF m

\* What happens first in rc_client_load_error: the load is no longer the current one.
Stopped(t, l) ==
  [t EXCEPT !.ld[l].progress = "aborted", !.load = IF @ = l THEN NoLoad ELSE @,
            !.fault = @ \/ t.ld[l].st # "live"]

Others(t, l) == IF t.load = l THEN NoLoad ELSE t.load

LEMMA Stopping ==
  ASSUME NEW t, NEW l \in Loads, Live(t, l)
  PROVE  \E q \in LoadSet :
           /\ Works(t, Stopped(t, l), l, q, t.mem[l], Others(t, l)) /\ Same(t, Stopped(t, l))
           /\ q.progress = "aborted" /\ q.st = "live"
           /\ LET p == t.ld[l]
              IN /\ q.results = p.results /\ q.outstanding = p.outstanding /\ q.aborted = p.aborted
                 /\ q.callback = p.callback /\ q.session = p.session /\ q.hash = p.hash
<1> DEFINE p == t.ld[l]
           q == [p EXCEPT !.progress = "aborted"]
<1>1. t \in StateSet /\ p \in LoadSet /\ t.mem[l] \in Owners /\ Others(t, l) \in Loads \cup {NoLoad}
      /\ t.mem = [t.mem EXCEPT ![l] = t.mem[l]]
  BY Kept DEF Live, Others
<1>2. /\ q \in LoadSet /\ q.progress = "aborted" /\ q.st = "live" /\ q.results = p.results
      /\ q.outstanding = p.outstanding /\ q.aborted = p.aborted /\ q.callback = p.callback
      /\ q.session = p.session /\ q.hash = p.hash
  BY <1>1 DEF LoadSet, Progresses, Live
<1>3. (t.fault \/ t.ld[l].st # "live") = FALSE  BY DEF Live
<1>4. Stopped(t, l) = [t EXCEPT !.ld = [t.ld EXCEPT ![l] = q], !.load = Others(t, l), !.fault = FALSE]
  BY <1>3 DEF Stopped, Others
<1> HIDE DEF q
<1>5. Stopped(t, l) = Put(t, l, q, t.mem[l], Others(t, l))
  <2> DEFINE f == [t.ld EXCEPT ![l] = q]
             g == [t.mem EXCEPT ![l] = t.mem[l]]
  <2>1. \A n, c : [t EXCEPT !.ld = n, !.load = c, !.fault = FALSE]
                  = [t EXCEPT !.ld = n, !.mem = t.mem, !.load = c, !.fault = FALSE]
    BY <1>1 DEF StateSet
  <2>2. Put(t, l, q, t.mem[l], Others(t, l))
        = [t EXCEPT !.ld = f, !.mem = g, !.load = Others(t, l), !.fault = FALSE]
    BY DEF Put
  <2> HIDE DEF f, g
  <2>3. QED  BY ZenonT(60), <1>1, <1>4, <2>1, <2>2 DEF f, g
<1>6. QED  BY <1>1, <1>2, <1>5, Putting

\* rc_client_load_error
LEMMA Failing ==
  ASSUME NEW t, NEW l \in Loads, Live(t, l), NEW r \in Results
  PROVE  \E q \in LoadSet, m \in Owners :
           /\ Works(t, LoadError(t, l, r), l, q, m, Others(t, l)) /\ Same(t, LoadError(t, l, r))
           /\ q.results = Heard(t.ld[l], r) /\ q.session = t.ld[l].session
           /\ t.ld[l].outstanding = 0 =>
                q.st = "freed" /\ m = IF t.mem[l] = "load" THEN "freed" ELSE t.mem[l]
           /\ t.ld[l].outstanding # 0 =>
                /\ q.st = "live" /\ m = t.mem[l] /\ q.outstanding = t.ld[l].outstanding
                /\ q.progress = "aborted" /\ q.aborted = t.ld[l].aborted /\ q.callback = t.ld[l].callback
<1> DEFINE p == t.ld[l]
           c == Others(t, l)
           s == Stopped(t, l)
           a == Call(s, l, r)
<1>1. PICK q1 \in LoadSet :
        /\ Works(t, s, l, q1, t.mem[l], c) /\ Same(t, s)
        /\ q1.progress = "aborted" /\ q1.st = "live"
        /\ q1.results = p.results /\ q1.outstanding = p.outstanding /\ q1.aborted = p.aborted
        /\ q1.callback = p.callback /\ q1.session = p.session /\ q1.hash = p.hash
  BY Stopping
<1>2. t \in StateSet  BY DEF Live
<1> HIDE DEF s, c
<1>3. s \in StateSet /\ s.fault = FALSE /\ s.load = c /\ s.ld[l] = q1 /\ s.mem[l] = t.mem[l]
  BY <1>1, <1>2, Kept DEF Works, StateSet
<1>4. PICK q2 \in LoadSet :
        /\ Works(s, a, l, q2, t.mem[l], c) /\ Same(s, a)
        /\ q2.results = Heard(q1, r)
        /\ q2.st = q1.st /\ q2.progress = q1.progress /\ q2.outstanding = q1.outstanding
        /\ q2.aborted = q1.aborted /\ q2.callback = q1.callback /\ q2.session = q1.session
  BY <1>3, Calling
<1> HIDE DEF a
<1>5. Works(t, a, l, q2, t.mem[l], c)  BY <1>1, <1>2, <1>4, Twice
<1>6. Same(t, a)  BY <1>1, <1>4 DEF Same
<1>7. q2.results = Heard(p, r)  BY <1>1, <1>4 DEF Heard
<1>8. a \in StateSet /\ a.fault = FALSE /\ a.load = c /\ a.ld[l] = q2 /\ a.mem[l] = t.mem[l]
      /\ t.mem[l] \in Owners
  BY <1>2, <1>5, Kept DEF Works, StateSet
<1>9. LoadError(t, l, r) = IF p.outstanding = 0 THEN FreeLoadState(a, l) ELSE a
  BY DEF LoadError, Stopped, a, s
<1>10. CASE p.outstanding = 0
  <2> DEFINE u == FreeLoadState(a, l)
             m == IF t.mem[l] = "load" THEN "freed" ELSE t.mem[l]
  <2>1. Live(a, l)  BY <1>1, <1>4, <1>8 DEF Live
  <2>2. PICK q3 \in LoadSet :
          /\ Works(a, u, l, q3, m, c) /\ Same(a, u)
          /\ q3.st = "freed" /\ q3.results = q2.results /\ q3.session = q2.session
    BY <1>8, <2>1, Freeing
  <2> HIDE DEF u
  <2>3. Works(t, u, l, q3, m, c)  BY <1>2, <1>5, <2>2, Twice
  <2>4. Same(t, u)  BY <1>6, <2>2 DEF Same
  <2>5. m \in Owners  BY <2>3 DEF Works
  <2>6. LoadError(t, l, r) = u  BY <1>9, <1>10 DEF u
  <2>7. QED  BY <1>1, <1>4, <1>7, <1>10, <2>2, <2>3, <2>4, <2>5, <2>6 DEF c
<1>11. CASE p.outstanding # 0
  BY <1>1, <1>4, <1>5, <1>6, <1>7, <1>8, <1>9, <1>11 DEF c
<1>12. QED  BY <1>10, <1>11

\* rc_client_end_load_state
LEMMA Ending ==
  ASSUME NEW t, NEW l \in Loads, Live(t, l)
  PROVE  \E q \in LoadSet, m \in Owners :
           /\ Works(t, EndLoadState(t, l), l, q, m, t.load) /\ Same(t, EndLoadState(t, l))
           /\ q.session = t.ld[l].session
           /\ t.load # l /\ Left(t.ld[l]) = 0 =>
                /\ q.st = "freed" /\ m = IF t.mem[l] = "load" THEN "freed" ELSE t.mem[l]
                /\ t.ld[l].progress = "aborted" => q.results = t.ld[l].results
           /\ ~(t.load # l /\ Left(t.ld[l]) = 0) =>
                /\ q.st = "live" /\ m = t.mem[l] /\ q.outstanding = Left(t.ld[l])
                /\ q.progress = t.ld[l].progress /\ q.aborted = t.ld[l].aborted
                /\ q.callback = t.ld[l].callback /\ q.results = t.ld[l].results
                /\ q.hash = t.ld[l].hash
<1> DEFINE p == t.ld[l]
           q == [p EXCEPT !.outstanding = Left(p)]
           a == CountOff(t, l)
<1>1. t \in StateSet /\ p \in LoadSet /\ t.mem[l] \in Owners /\ t.load \in Loads \cup {NoLoad}
      /\ t.mem = [t.mem EXCEPT ![l] = t.mem[l]]
  BY Kept DEF Live
<1>2. Left(p) \in Nat  BY <1>1 DEF Left, LoadSet
<1>3. /\ q \in LoadSet /\ q.progress = p.progress /\ q.st = "live" /\ q.results = p.results
      /\ q.outstanding = Left(p) /\ q.aborted = p.aborted /\ q.callback = p.callback
      /\ q.session = p.session /\ q.hash = p.hash
  BY <1>1, <1>2 DEF LoadSet, Live
<1>4. (t.fault \/ t.ld[l].st # "live") = FALSE  BY DEF Live
<1>5. a = [t EXCEPT !.ld = [t.ld EXCEPT ![l] = q], !.fault = FALSE]  BY <1>4, Zenon DEF CountOff
<1>6. EndLoadState(t, l) =
        IF t.load # l /\ Left(p) = 0
        THEN FreeLoadState(IF a.ld[l].progress # "aborted" THEN Call(a, l, "aborted") ELSE a, l)
        ELSE a
  BY ONLY Zenon DEF EndLoadState
<1> HIDE DEF q, a
<1>7. a = Put(t, l, q, t.mem[l], t.load)
  <2> DEFINE f == [t.ld EXCEPT ![l] = q]
             g == [t.mem EXCEPT ![l] = t.mem[l]]
  <2>1. \A n : [t EXCEPT !.ld = n, !.fault = FALSE]
               = [t EXCEPT !.ld = n, !.mem = t.mem, !.load = t.load, !.fault = FALSE]
    BY <1>1 DEF StateSet
  <2>2. Put(t, l, q, t.mem[l], t.load)
        = [t EXCEPT !.ld = f, !.mem = g, !.load = t.load, !.fault = FALSE]
    BY DEF Put
  <2> HIDE DEF f, g
  <2>3. QED  BY <1>1, <1>5, <2>1, <2>2 DEF f, g
<1>8. Works(t, a, l, q, t.mem[l], t.load) /\ Same(t, a)  BY <1>1, <1>3, <1>7, Putting
<1>9. a \in StateSet /\ a.fault = FALSE /\ a.load = t.load /\ a.ld[l] = q /\ a.mem[l] = t.mem[l]
  BY <1>1, <1>8, Kept DEF Works, StateSet
<1>10. CASE t.load # l /\ Left(p) = 0
  <2> DEFINE b == IF a.ld[l].progress # "aborted" THEN Call(a, l, "aborted") ELSE a
             u == FreeLoadState(b, l)
             m == IF t.mem[l] = "load" THEN "freed" ELSE t.mem[l]
  <2>1. PICK q1 \in LoadSet :
          /\ Works(t, b, l, q1, t.mem[l], t.load) /\ Same(t, b) /\ q1.st = "live"
          /\ q1.session = p.session /\ (p.progress = "aborted" => q1.results = p.results)
    <3>1. CASE a.ld[l].progress # "aborted"
      <4>0. "aborted" \in Results  BY DEF Results
      <4> DEFINE v == Call(a, l, "aborted")
      <4>1. PICK q1 \in LoadSet :
              /\ Works(a, v, l, q1, t.mem[l], t.load) /\ Same(a, v)
              /\ q1.st = q.st /\ q1.session = q.session
        BY <1>9, <4>0, Calling
      <4> HIDE DEF v
      <4>2. Works(t, v, l, q1, t.mem[l], t.load)  BY <1>1, <1>8, <4>1, Twice
      <4>3. Same(t, v)  BY <1>8, <4>1 DEF Same
      <4>4. b = v  BY <3>1 DEF v
      <4>5. QED  BY <1>3, <1>9, <3>1, <4>1, <4>2, <4>3, <4>4
    <3>2. CASE a.ld[l].progress = "aborted"
      BY <1>3, <1>8, <3>2
    <3>3. QED  BY <3>1, <3>2
  <2> HIDE DEF b
  <2>2. b \in StateSet /\ b.fault = FALSE /\ b.load = t.load /\ b.ld[l] = q1 /\ b.mem[l] = t.mem[l]
    BY <1>1, <2>1, Kept DEF Works, StateSet
  <2>3. Live(b, l)  BY <2>1, <2>2 DEF Live
  <2>4. PICK q2 \in LoadSet :
          /\ Works(b, u, l, q2, m, t.load) /\ Same(b, u)
          /\ q2.st = "freed" /\ q2.results = q1.results /\ q2.session = q1.session
    BY <2>2, <2>3, Freeing
  <2> HIDE DEF u
  <2>5. Works(t, u, l, q2, m, t.load)  BY <1>1, <2>1, <2>4, Twice
  <2>6. Same(t, u)  BY <2>1, <2>4 DEF Same
  <2>7. m \in Owners  BY <2>5 DEF Works
  <2>8. EndLoadState(t, l) = u  BY <1>6, <1>10 DEF u, b
  <2>9. QED  BY <1>10, <2>1, <2>4, <2>5, <2>6, <2>7, <2>8
<1>11. CASE ~(t.load # l /\ Left(p) = 0)
  <2>1. EndLoadState(t, l) = a  BY <1>6, <1>11
  <2>2. QED  BY <1>1, <1>3, <1>8, <1>11, <2>1
<1>12. QED  BY <1>10, <1>11

Apis == {"fetch", "start"}

\* rc_client_begin_load_state and the server_call that follows it
LEMMA Requesting ==
  ASSUME NEW t, NEW l \in Loads, Live(t, l), NEW g \in Progresses, NEW api \in Apis
  PROVE  LET u == BeginRequest(t, l, g, api)
             p == t.ld[l]
         IN  \E q \in LoadSet :
               /\ Works(t, u, l, q, t.mem[l], t.load)
               /\ Same([t EXCEPT !.reqs = @ \cup {<<api, l>>}], u)
               /\ q.progress = g /\ q.st = "live" /\ q.results = p.results
               /\ q.outstanding = p.outstanding + 1 /\ q.aborted = p.aborted
               /\ q.callback = p.callback /\ q.session = p.session /\ q.hash = p.hash
<1> DEFINE p == t.ld[l]
           n == p.outstanding + 1
           q == [p EXCEPT !.progress = g, !.outstanding = n]
           u == BeginRequest(t, l, g, api)
           f == [t.ld EXCEPT ![l] = q]
           r == t.reqs \cup {<<api, l>>}
<1>1. t \in StateSet /\ p \in LoadSet /\ t.mem[l] \in Owners /\ t.load \in Loads \cup {NoLoad}
      /\ t.mem = [t.mem EXCEPT ![l] = t.mem[l]]
  BY Kept DEF Live
<1>0. n \in Nat  BY <1>1 DEF LoadSet
<1> HIDE DEF n
<1>2. /\ q \in LoadSet /\ q.progress = g /\ q.st = "live" /\ q.results = p.results
      /\ q.outstanding = n /\ q.aborted = p.aborted /\ q.callback = p.callback
      /\ q.session = p.session /\ q.hash = p.hash
  BY <1>0, <1>1 DEF LoadSet, Live
<1>3. u = [t EXCEPT !.ld = f, !.reqs = r]  BY ZenonT(60) DEF BeginRequest, n
<1>4. r \in SUBSET (({"login"} \X Logins) \cup ({"fetch", "start"} \X Loads))
  BY <1>1 DEF StateSet, Apis
<1>5. f \in [Loads -> LoadSet]
  <2>1. t.ld \in [Loads -> LoadSet]  BY <1>1 DEF StateSet
  <2> HIDE DEF q
  <2>2. QED  BY <1>2, <2>1
<1> HIDE DEF q, f, r, u
<1>6. u \in StateSet  BY <1>1, <1>3, <1>4, <1>5 DEF StateSet
<1>7. u.ld = f /\ u.mem = t.mem /\ u.load = t.load /\ u.fault = t.fault
  BY <1>1, <1>3 DEF StateSet
<1>8. Works(t, u, l, q, t.mem[l], t.load)
  BY <1>1, <1>2, <1>6, <1>7 DEF Works, Live, f
<1>9. Same([t EXCEPT !.reqs = r], u)  BY <1>1, <1>3 DEF Same, StateSet
<1>10. QED  BY <1>2, <1>8, <1>9 DEF u, r, n

\* What rc_client_begin_fetch_game_sets does to a load before it looks at the user.
Moved(t, l, g) == [t EXCEPT !.ld[l].progress = g, !.fault = @ \/ t.ld[l].st # "live"]

LEMMA Moving ==
  ASSUME NEW t, NEW l \in Loads, Live(t, l), NEW g \in Progresses
  PROVE  \E q \in LoadSet :
           /\ Works(t, Moved(t, l, g), l, q, t.mem[l], t.load) /\ Same(t, Moved(t, l, g))
           /\ q.progress = g /\ q.st = "live"
           /\ LET p == t.ld[l]
              IN /\ q.results = p.results /\ q.outstanding = p.outstanding /\ q.aborted = p.aborted
                 /\ q.callback = p.callback /\ q.session = p.session /\ q.hash = p.hash
<1> DEFINE p == t.ld[l]
           q == [p EXCEPT !.progress = g]
<1>1. t \in StateSet /\ p \in LoadSet /\ t.mem[l] \in Owners /\ t.load \in Loads \cup {NoLoad}
      /\ t.mem = [t.mem EXCEPT ![l] = t.mem[l]]
  BY Kept DEF Live
<1>2. /\ q \in LoadSet /\ q.progress = g /\ q.st = "live" /\ q.results = p.results
      /\ q.outstanding = p.outstanding /\ q.aborted = p.aborted /\ q.callback = p.callback
      /\ q.session = p.session /\ q.hash = p.hash
  BY <1>1 DEF LoadSet, Live
<1>3. (t.fault \/ t.ld[l].st # "live") = FALSE  BY DEF Live
<1>4. Moved(t, l, g) = [t EXCEPT !.ld = [t.ld EXCEPT ![l] = q], !.fault = FALSE]
  BY <1>3 DEF Moved
<1> HIDE DEF q
<1>5. Moved(t, l, g) = Put(t, l, q, t.mem[l], t.load)
  <2> DEFINE f == [t.ld EXCEPT ![l] = q]
             h == [t.mem EXCEPT ![l] = t.mem[l]]
  <2>1. \A n : [t EXCEPT !.ld = n, !.fault = FALSE]
               = [t EXCEPT !.ld = n, !.mem = t.mem, !.load = t.load, !.fault = FALSE]
    BY <1>1 DEF StateSet
  <2>2. Put(t, l, q, t.mem[l], t.load)
        = [t EXCEPT !.ld = f, !.mem = h, !.load = t.load, !.fault = FALSE]
    BY DEF Put
  <2> HIDE DEF f, h
  <2>3. QED  BY <1>1, <1>4, <2>1, <2>2 DEF f, h
<1>6. QED  BY <1>1, <1>2, <1>5, Putting

-----------------------------------------------------------------------------
(* A handler works on one load while the others are as they should be.      *)

\* What LoadOK says of the loads but l is not changed from t to u.
Beside(t, u, l) ==
  /\ u.background = t.background
  /\ \A x \in Loads \ {l} :
       /\ u.ld[x] = t.ld[x] /\ u.mem[x] = t.mem[x]
       /\ Fetching(u, x) = Fetching(t, x) /\ Starting(u, x) = Starting(t, x)
       /\ Awaited(u, x) = Awaited(t, x)
       /\ (u.load = x) = (t.load = x)
       /\ u.load = x => u.spectator = t.spectator
       /\ t.mem[x] = "client" => u.game = x
       /\ x \in u.pings => x \in t.pings /\ u.game = x

Alone(t, l) == t \in StateSet /\ ClientOK(t) /\ \A x \in Loads \ {l} : LoadOK(t, x)

\* Load l is in the hands of a handler: nothing holds it but what the handler has to count off.
Handled(t, l, n) ==
  /\ Alone(t, l)
  /\ LET q == t.ld[l]
     IN /\ q.st = "live" /\ q.outstanding = n /\ q.callback /\ q.progress # "aborted"
        /\ t.load # l => q.aborted
        /\ q.results = << >> \/ (q.results = <<"aborted">> /\ t.load # l)
  /\ t.mem[l] = "load"
  /\ ~Fetching(t, l) /\ ~Starting(t, l) /\ ~Awaited(t, l) /\ l \notin t.pings

LEMMA Spread ==
  ASSUME NEW t, NEW u, NEW l \in Loads, Alone(t, l), Beside(t, u, l)
  PROVE  \A x \in Loads \ {l} : LoadOK(u, x)
<1> SUFFICES ASSUME NEW x \in Loads \ {l} PROVE LoadOK(u, x)
  OBVIOUS
<1>1. LoadOK(t, x)  BY DEF Alone
<1>2. /\ u.background = t.background
      /\ u.ld[x] = t.ld[x] /\ u.mem[x] = t.mem[x]
      /\ Fetching(u, x) = Fetching(t, x) /\ Starting(u, x) = Starting(t, x)
      /\ Awaited(u, x) = Awaited(t, x)
      /\ (u.load = x) = (t.load = x)
      /\ u.load = x => u.spectator = t.spectator
      /\ t.mem[x] = "client" => u.game = x
      /\ x \in u.pings => x \in t.pings /\ u.game = x
  BY DEF Beside
<1>3. t.ld[x].st = "live" => LiveOK(u, x)
  BY <1>1, <1>2 DEF LoadOK, LiveOK
<1>4. QED  BY <1>1, <1>2, <1>3 DEF LoadOK

\* The helpers that change no more than load l leave the others as they should be.
LEMMA StillAlone ==
  ASSUME NEW t, NEW u, NEW l \in Loads, NEW q, NEW m, NEW cur, Alone(t, l), t.game # l,
         Works(t, u, l, q, m, cur), Same(t, u), cur \in {t.load, Others(t, l)}
  PROVE  /\ Alone(u, l) /\ u.ld[l] = q /\ u.mem[l] = m
         /\ Fetching(u, l) = Fetching(t, l) /\ Starting(u, l) = Starting(t, l)
         /\ Awaited(u, l) = Awaited(t, l)
<1>1. /\ t \in StateSet /\ u \in StateSet /\ u.load = cur
      /\ u.ld = [t.ld EXCEPT ![l] = q] /\ u.mem = [t.mem EXCEPT ![l] = m]
  BY DEF Works, Alone
<1>2. /\ u.ld[l] = q /\ u.mem[l] = m
      /\ \A x \in Loads \ {l} : u.ld[x] = t.ld[x] /\ u.mem[x] = t.mem[x]
  BY <1>1 DEF StateSet
<1>3. \A x : /\ Fetching(u, x) = Fetching(t, x) /\ Starting(u, x) = Starting(t, x)
             /\ Awaited(u, x) = Awaited(t, x)
  BY DEF Same, Fetching, Starting, Awaited
<1>4. \A x \in Loads \ {l} : (cur = x) = (t.load = x)
  BY LoadAssumption DEF Others
<1>5. \A x \in Loads \ {l} : x \in t.pings => t.game = x
  BY DEF Alone, LoadOK
<1>6. \A x \in Loads \ {l} : t.mem[x] = "client" => t.game = x
  BY DEF Alone, LoadOK
<1>7. Beside(t, u, l)
  BY <1>1, <1>2, <1>3, <1>4, <1>5, <1>6 DEF Beside, Same
<1>8. \A x \in Loads \ {l} : LoadOK(u, x)  BY <1>7, Spread
<1>9. ClientOK(u)
  <2>1. u.fault = FALSE  BY DEF Works
  <2>2. u.load # NoLoad => u.game = NoLoad
    BY <1>1 DEF Alone, ClientOK, Same, Others
  <2>3. u.game # NoLoad => u.mem[u.game] = "client"
    BY <1>1, <1>2 DEF Alone, ClientOK, Same, StateSet
  <2>4. \A i, j \in DOMAIN u.toActivate : u.toActivate[i] = u.toActivate[j] => i = j
    BY DEF Alone, ClientOK, Same
  <2>5. QED  BY <2>1, <2>2, <2>3, <2>4 DEF ClientOK
<1>10. QED  BY <1>1, <1>2, <1>3, <1>8, <1>9 DEF Alone

\* A load that is freed with its game leaves the client in a good state.
Told(t, q) ==
  \/ q.results = << >> \/ \E r \in Results : q.results = <<r>>
  \/ ~t.background /\ q.results = <<"aborted", "aborted">>

LEMMA Released ==
  ASSUME NEW u, NEW l \in Loads, Alone(u, l), u.ld[l].st = "freed", u.mem[l] # "load",
         u.mem[l] # "client", u.load # l,
         ~Fetching(u, l), ~Starting(u, l), ~Awaited(u, l), l \notin u.pings, Told(u, u.ld[l])
  PROVE  GoodState(u)
<1>1. LoadOK(u, l)  BY DEF LoadOK, Told
<1>2. QED  BY <1>1 DEF GoodState, Alone

LEMMA Carried ==
  ASSUME NEW u, NEW l \in Loads, Alone(u, l), u.ld[l].st = "live", LiveOK(u, l), l \notin u.pings
  PROVE  GoodState(u)
<1>1. LoadOK(u, l)
  <2>1. "aborted" \in Results  BY DEF Results
  <2>2. QED  BY <2>1 DEF LoadOK, LiveOK
<1>2. QED  BY <1>1 DEF GoodState, Alone

LEMMA HandledIsLive ==
  ASSUME NEW t, NEW l \in Loads, NEW n, Handled(t, l, n)
  PROVE  /\ Live(t, l) /\ t.game # l /\ t.mem[l] = "load" /\ Alone(t, l) /\ t.ld[l].outstanding = n
         /\ t \in StateSet
<1>1. t.game = l => t.mem[l] = "client"
  BY LoadAssumption DEF Handled, Alone, ClientOK
<1>2. QED  BY <1>1 DEF Handled, Alone, ClientOK, Live

-----------------------------------------------------------------------------
(* What the helpers leave behind.                                           *)

\* rc_client_load_error with no request outstanding: the load is freed with its game.
LEMMA FailingReleases ==
  ASSUME NEW t, NEW l \in Loads, Handled(t, l, 0), t.ld[l].results = << >>, NEW r \in Results
  PROVE  GoodState(LoadError(t, l, r))
<1> DEFINE u == LoadError(t, l, r)
<1>1. Live(t, l) /\ t.game # l /\ t.mem[l] = "load" /\ Alone(t, l) /\ t.ld[l].outstanding = 0
      /\ t \in StateSet
  BY HandledIsLive
<1>2. PICK q \in LoadSet, m \in Owners :
        /\ Works(t, u, l, q, m, Others(t, l)) /\ Same(t, u) /\ q.results = Heard(t.ld[l], r)
        /\ q.st = "freed" /\ m = "freed"
  BY <1>1, Failing
<1> HIDE DEF u
<1>3. /\ Alone(u, l) /\ u.ld[l] = q /\ u.mem[l] = m
      /\ Fetching(u, l) = Fetching(t, l) /\ Starting(u, l) = Starting(t, l)
      /\ Awaited(u, l) = Awaited(t, l)
  BY <1>1, <1>2, StillAlone
<1>4. u.load # l /\ l \notin u.pings
  BY <1>2, LoadAssumption DEF Works, Others, Same, Handled
<1>5. Told(u, q)
  <2>1. q.results = <<r>>  BY <1>2 DEF Heard, Handled
  <2>2. QED  BY <2>1 DEF Told
<1>6. GoodState(u)  BY <1>2, <1>3, <1>4, <1>5, Released DEF Handled
<1>7. QED  BY <1>6 DEF u

\* rc_client_load_aborted, when the request that was answered is counted off: the load is freed.
LEMMA AbortingReleases ==
  ASSUME NEW t, NEW l \in Loads, Handled(t, l, 1)
  PROVE  GoodState(LoadAborted(t, l))
<1> DEFINE p == t.ld[l]
           q0 == [p EXCEPT !.callback = FALSE]
           a == [t EXCEPT !.ld[l].callback = FALSE]
           b == LoadError(a, l, "aborted")
           u == EndLoadState(b, l)
<1>1. Live(t, l) /\ t.game # l /\ t.mem[l] = "load" /\ Alone(t, l) /\ p.outstanding = 1
      /\ t \in StateSet /\ p \in LoadSet
  BY HandledIsLive, Kept, ZenonT(60)
<1>2. /\ q0 \in LoadSet /\ q0.callback = FALSE /\ q0.st = "live" /\ q0.outstanding = 1
      /\ q0.results = p.results
  BY <1>1 DEF LoadSet, Live
<1>3. Works(t, a, l, q0, "load", t.load) /\ Same(t, a)
  <2> DEFINE f == [t.ld EXCEPT ![l] = q0]
  <2>1. a = [t EXCEPT !.ld = f]  OBVIOUS
  <2>2. f \in [Loads -> LoadSet]
    <3> HIDE DEF q0
    <3>1. QED  BY <1>1, <1>2 DEF StateSet
  <2> HIDE DEF f, a, q0
  <2>3. a \in StateSet /\ a.ld = f /\ a.mem = t.mem /\ a.load = t.load /\ a.fault = FALSE
    BY <1>1, <2>1, <2>2 DEF StateSet, Live
  <2>4. Same(t, a)  BY <1>1, <2>1 DEF Same, StateSet
  <2>5. t.mem = [t.mem EXCEPT ![l] = "load"]  BY <1>1, Kept
  <2>6. QED  BY <1>2, <2>3, <2>4, <2>5 DEF Works, f, Owners
<1> HIDE DEF a, q0
<1>4. /\ Alone(a, l) /\ a.ld[l] = q0 /\ a.mem[l] = "load"
      /\ Fetching(a, l) = Fetching(t, l) /\ Starting(a, l) = Starting(t, l)
      /\ Awaited(a, l) = Awaited(t, l)
  BY <1>1, <1>3, StillAlone
<1>5. Live(a, l) /\ a.load = t.load /\ a.game # l /\ l \notin a.pings
  BY <1>1, <1>2, <1>3, <1>4 DEF Live, Works, Same, Handled
<1>6. "aborted" \in Results  BY DEF Results
<1>7. PICK q1 \in LoadSet, m1 \in Owners :
        /\ Works(a, b, l, q1, m1, Others(a, l)) /\ Same(a, b)
        /\ q1.results = Heard(q0, "aborted")
        /\ q1.st = "live" /\ m1 = "load" /\ q1.outstanding = 1 /\ q1.progress = "aborted"
  BY <1>2, <1>4, <1>5, <1>6, Failing
<1> HIDE DEF b
<1>8. /\ Alone(b, l) /\ b.ld[l] = q1 /\ b.mem[l] = "load"
      /\ Fetching(b, l) = Fetching(a, l) /\ Starting(b, l) = Starting(a, l)
      /\ Awaited(b, l) = Awaited(a, l)
  BY <1>4, <1>5, <1>7, StillAlone
<1>9. /\ Live(b, l) /\ b.load # l /\ b.game # l /\ l \notin b.pings /\ q1.results = p.results
      /\ Left(q1) = 0
  BY <1>2, <1>5, <1>7, <1>8, LoadAssumption DEF Live, Works, Same, Others, Heard, Left
<1>10. PICK q \in LoadSet, m \in Owners :
        /\ Works(b, u, l, q, m, b.load) /\ Same(b, u)
        /\ q.st = "freed" /\ m = "freed" /\ q.results = p.results
  BY <1>7, <1>8, <1>9, Ending
<1> HIDE DEF u
<1>11. /\ Alone(u, l) /\ u.ld[l] = q /\ u.mem[l] = m
       /\ Fetching(u, l) = Fetching(b, l) /\ Starting(u, l) = Starting(b, l)
       /\ Awaited(u, l) = Awaited(b, l)
  BY <1>8, <1>9, <1>10, StillAlone
<1>12. u.load # l /\ l \notin u.pings  BY <1>9, <1>10 DEF Works, Same
<1>13. Told(u, q)  BY <1>6, <1>10 DEF Told, Handled
<1>14. GoodState(u)
  BY <1>4, <1>8, <1>10, <1>11, <1>12, <1>13, Released DEF Handled
<1>15. LoadAborted(t, l) = u  BY DEF LoadAborted, u, b, a
<1>16. QED  BY <1>14, <1>15

\* rc_client_end_load_state with the current load: one request less is outstanding.
LEMMA CountedOff ==
  ASSUME NEW t, NEW l \in Loads, NEW n \in Nat \ {0}, Handled(t, l, n), t.load = l
  PROVE  LET u == EndLoadState(t, l)
         IN  /\ Handled(u, l, n - 1) /\ u.load = l /\ Same(t, u)
             /\ u.ld[l].session = t.ld[l].session /\ u.ld[l].progress = t.ld[l].progress
             /\ u.ld[l].hash = t.ld[l].hash /\ u.ld[l].results = t.ld[l].results
<1> DEFINE p == t.ld[l]
           u == EndLoadState(t, l)
<1>1. Live(t, l) /\ t.game # l /\ t.mem[l] = "load" /\ Alone(t, l) /\ p.outstanding = n
      /\ t \in StateSet
  BY HandledIsLive
<1>2. Left(p) = n - 1  BY <1>1 DEF Left
<1>3. PICK q \in LoadSet, m \in Owners :
        /\ Works(t, u, l, q, m, t.load) /\ Same(t, u) /\ q.session = p.session
        /\ q.st = "live" /\ m = "load" /\ q.outstanding = n - 1 /\ q.progress = p.progress
        /\ q.aborted = p.aborted /\ q.callback = p.callback /\ q.results = p.results
        /\ q.hash = p.hash
  BY <1>1, <1>2, Ending
<1> HIDE DEF u
<1>4. /\ Alone(u, l) /\ u.ld[l] = q /\ u.mem[l] = m
      /\ Fetching(u, l) = Fetching(t, l) /\ Starting(u, l) = Starting(t, l)
      /\ Awaited(u, l) = Awaited(t, l)
  BY <1>1, <1>3, StillAlone
<1>5. u.load = l /\ l \notin u.pings  BY <1>3 DEF Works, Same, Handled
<1>6. Handled(u, l, n - 1)  BY <1>3, <1>4, <1>5 DEF Handled
<1>7. QED  BY <1>3, <1>4, <1>5, <1>6 DEF u

LEMMA Closing ==
  ASSUME NEW t, NEW l \in Loads, Live(t, l), NEW r \in Results
  PROVE  LET u == FreeLoadState(Call(t, l, r), l)
         IN  \E q \in LoadSet :
               /\ Works(t, u, l, q, IF t.mem[l] = "load" THEN "freed" ELSE t.mem[l], t.load)
               /\ Same(t, u) /\ q.st = "freed" /\ q.results = Heard(t.ld[l], r)
               /\ q.session = t.ld[l].session
<1> DEFINE p == t.ld[l]
           a == Call(t, l, r)
           u == FreeLoadState(a, l)
           m == IF t.mem[l] = "load" THEN "freed" ELSE t.mem[l]
<1>1. t \in StateSet /\ t.fault = FALSE /\ p.st = "live"  BY DEF Live
<1> HIDE DEF m, u
<1>2. PICK q1 \in LoadSet :
        /\ Works(t, a, l, q1, t.mem[l], t.load) /\ Same(t, a) /\ q1.results = Heard(p, r)
        /\ q1.st = p.st /\ q1.session = p.session
  BY <1>1, Calling
<1> HIDE DEF a
<1>3. Live(a, l) /\ a.ld[l] = q1 /\ a.mem[l] = t.mem[l] /\ a.load = t.load
  BY <1>1, <1>2, Kept DEF Works, Live, StateSet
<1>4. PICK q2 \in LoadSet :
        /\ Works(a, u, l, q2, m, t.load) /\ Same(a, u)
        /\ q2.st = "freed" /\ q2.results = q1.results /\ q2.session = q1.session
  BY <1>3, Freeing DEF u, m
<1>5. Works(t, u, l, q2, m, t.load)  BY <1>1, <1>2, <1>4, Twice
<1>6. Same(t, u)  BY <1>2, <1>4 DEF Same
<1>7. QED  BY <1>2, <1>4, <1>5, <1>6 DEF u, a, m

\* A load that is freed after its game was made the client's leaves the client in a good state.
LEMMA Owning ==
  ASSUME NEW t, NEW l \in Loads, NEW n, Handled(t, l, n), t.load = l,
         NEW w \in StateSet, w.load = NoLoad, w.game = l, w.fault = FALSE,
         w.background = t.background, w.reqs = t.reqs, w.toActivate = t.toActivate,
         w.pings \subseteq t.pings \cup {l}, l \in w.pings => w.ld[l].session,
         w.ld[l].st = "freed", w.mem[l] = "client", Told(w, w.ld[l]),
         \A y \in Loads \ {l} : w.ld[y] = t.ld[y] /\ w.mem[y] = t.mem[y]
  PROVE  GoodState(w)
<1>1. Alone(t, l) /\ ~Fetching(t, l) /\ ~Starting(t, l) /\ ~Awaited(t, l)  BY DEF Handled
<1>2. t.game = NoLoad  BY <1>1, LoadAssumption DEF Alone, ClientOK
<1>3. \A y \in Loads \ {l} : t.mem[y] # "client" /\ y \notin t.pings /\ y \notin w.pings
  BY <1>1, <1>2, LoadAssumption DEF Alone, LoadOK
<1>4. \A y : /\ Fetching(w, y) = Fetching(t, y) /\ Starting(w, y) = Starting(t, y)
             /\ Awaited(w, y) = Awaited(t, y)
  BY DEF Fetching, Starting, Awaited
<1>5. \A y \in Loads \ {l} : (w.load = y) = (t.load = y) /\ w.load # y
  BY LoadAssumption
<1>6. Beside(t, w, l)  BY <1>3, <1>4, <1>5 DEF Beside
<1>7. \A y \in Loads \ {l} : LoadOK(w, y)  BY <1>1, <1>6, Spread
<1>8. ClientOK(w)  BY <1>1 DEF Alone, ClientOK
<1>9. LoadOK(w, l)  BY <1>1, <1>4, LoadAssumption DEF LoadOK, Told
<1>10. QED  BY <1>7, <1>8, <1>9 DEF GoodState

\* rc_client_activate_game: the load is freed, and its game is the client's if it was the current one.
LEMMA ActivatingReleases ==
  ASSUME NEW t, NEW l \in Loads, Handled(t, l, 0),
         t.load = l => t.ld[l].session \/ t.spectator = "locked",
         t.ld[l].results # << >> => ~t.background
  PROVE  GoodState(ActivateGame(t, l, t.ld[l].session))
<1> DEFINE p == t.ld[l]
           u == ActivateGame(t, l, p.session)
           a == [t EXCEPT !.fault = @ \/ t.ld[l].st # "live"]
<1>1. Live(t, l) /\ t.game # l /\ t.mem[l] = "load" /\ Alone(t, l) /\ p.outstanding = 0
      /\ t \in StateSet
  BY HandledIsLive
<1>2. a = t
  <2>1. (t.fault \/ t.ld[l].st # "live") = FALSE /\ t.fault = FALSE  BY <1>1 DEF Live
  <2>2. a = [t EXCEPT !.fault = FALSE]  BY <2>1
  <2> HIDE DEF a
  <2>3. QED  BY <1>1, <2>1, <2>2 DEF StateSet
<1>3. "aborted" \in Results /\ "ok" \in Results  BY DEF Results
<1> DEFINE x == [t EXCEPT !.game = l, !.mem[l] = "client", !.load = NoLoad,
                          !.pings = IF t.spectator = "locked" THEN @ ELSE @ \cup {l}]
           v == FreeLoadState(Call(t, l, "aborted"), l)
           w == FreeLoadState(Call(x, l, "ok"), l)
<1>4. CASE t.load # l
  <2>1. PICK q \in LoadSet :
          /\ Works(t, v, l, q, "freed", t.load) /\ Same(t, v) /\ q.st = "freed"
          /\ q.results = Heard(p, "aborted")
    BY <1>1, <1>3, Closing
  <2> HIDE DEF v
  <2>2. /\ Alone(v, l) /\ v.ld[l] = q /\ v.mem[l] = "freed"
        /\ Fetching(v, l) = Fetching(t, l) /\ Starting(v, l) = Starting(t, l)
        /\ Awaited(v, l) = Awaited(t, l)
    BY <1>1, <2>1, StillAlone
  <2>3. v.load # l /\ l \notin v.pings  BY <1>4, <2>1 DEF Works, Same, Handled
  <2>4. Told(v, q)
    <3>1. CASE p.results = << >>
      <4>1. q.results = <<"aborted">>  BY <2>1, <3>1 DEF Heard, Handled
      <4>2. QED  BY <1>3, <4>1 DEF Told
    <3>2. CASE p.results # << >>
      <4>1. q.results = Append(<<"aborted">>, "aborted")  BY <2>1, <3>2 DEF Heard, Handled
      <4>2. Append(<<"aborted">>, "aborted") = <<"aborted", "aborted">>  BY <1>3, TwoResults
      <4>3. ~v.background  BY <2>1, <3>2 DEF Same
      <4>4. QED  BY <4>1, <4>2, <4>3 DEF Told
    <3>3. QED  BY <3>1, <3>2
  <2>5. GoodState(v)  BY <2>1, <2>2, <2>3, <2>4, Released DEF Handled
  <2>6. u = v  BY <1>2, <1>4 DEF ActivateGame, v
  <2>7. QED  BY <2>5, <2>6
<1>5. CASE t.load = l
  <2> DEFINE f == [t.mem EXCEPT ![l] = "client"]
             g == IF t.spectator = "locked" THEN t.pings ELSE t.pings \cup {l}
  <2>1. ~(~p.session /\ t.spectator = "off")  BY <1>5
  <2>2. u = w  BY <1>2, <1>5, <2>1 DEF ActivateGame
  <2>3. x = [t EXCEPT !.game = l, !.mem = f, !.load = NoLoad, !.pings = g]  OBVIOUS
  <2>4. f \in [Loads -> Owners] /\ g \in SUBSET Loads  BY <1>1 DEF StateSet, Owners
  <2>5. t.ld = [t.ld EXCEPT ![l] = p] /\ p \in LoadSet  BY <1>1, Kept
  <2> HIDE DEF f, g, x
  <2>6. /\ x \in StateSet /\ x.ld = t.ld /\ x.mem = f /\ x.game = l /\ x.load = NoLoad
        /\ x.pings = g /\ x.fault = FALSE /\ x.background = t.background
        /\ x.reqs = t.reqs /\ x.toActivate = t.toActivate /\ x.spectator = t.spectator
    BY <1>1, <2>3, <2>4 DEF StateSet, Live
  <2>7. x.mem[l] = "client" /\ Live(x, l) /\ x.ld[l] = p
    BY <1>1, <2>6 DEF Live, f, StateSet
  <2>8. PICK q \in LoadSet :
          /\ Works(x, w, l, q, "client", NoLoad) /\ Same(x, w) /\ q.st = "freed"
          /\ q.results = Heard(p, "ok") /\ q.session = p.session
    BY <1>3, <2>6, <2>7, Closing
  <2> HIDE DEF w
  <2>9. /\ w \in StateSet /\ w.load = NoLoad /\ w.ld[l] = q /\ w.mem[l] = "client"
        /\ w.game = l /\ w.pings = g /\ w.fault = FALSE /\ w.background = t.background
        /\ w.reqs = t.reqs /\ w.toActivate = t.toActivate
        /\ \A y \in Loads \ {l} : w.ld[y] = t.ld[y] /\ w.mem[y] = t.mem[y]
    BY <1>1, <2>6, <2>8 DEF Works, Same, StateSet, f
  <2>10. Told(w, q)
    <3>1. p.results = << >> /\ p.callback  BY <1>5 DEF Handled
    <3>2. q.results = Append(<< >>, "ok")  BY <2>8, <3>1 DEF Heard
    <3>3. Append(<< >>, "ok") = <<"ok">>  OBVIOUS
    <3>4. QED  BY <1>3, <3>2, <3>3 DEF Told
  <2>11. l \in g => q.session  BY <1>5, <2>8 DEF g, Handled
  <2>12. g \subseteq t.pings \cup {l}  BY DEF g
  <2>13. GoodState(w)  BY ZenonT(60), <1>5, <2>8, <2>9, <2>10, <2>11, <2>12, Owning
  <2>14. QED  BY <2>2, <2>13
<1>6. QED  BY <1>4, <1>5

\* What is left of a load whose last request was answered: rc_client_activate_game at once, or with
\* the next frame.
LEMMA ActivatingOrQueueing ==
  ASSUME NEW t, NEW l \in Loads, Handled(t, l, 0), t.load = l, t.ld[l].progress # "awaitLogin",
         t.ld[l].session \/ t.spectator = "locked"
  PROVE  GoodState(ActivateOrQueue(t, l))
<1>1. Alone(t, l) /\ t \in StateSet /\ t.mem[l] = "load" /\ t.ld[l].results = << >>
  BY HandledIsLive DEF Handled
<1>2. CASE t.background
  <2>1. ActivateOrQueue(t, l) = ActivateGame(t, l, t.ld[l].session)  BY <1>2 DEF ActivateOrQueue
  <2>2. QED  BY <1>1, <2>1, ActivatingReleases
<1>3. CASE ~t.background
  <2> DEFINE w == Append(t.toActivate, l)
             u == [t EXCEPT !.toActivate = w]
             k == Len(t.toActivate) + 1
  <2>1. t.toActivate \in Seq(Loads)  BY <1>1 DEF StateSet
  <2>2. w \in Seq(Loads) /\ DOMAIN w = 1 .. k /\ w[k] = l /\ k \in Nat /\ k \in 1 .. k
        /\ DOMAIN t.toActivate = 1 .. (k - 1)
        /\ \A i \in DOMAIN t.toActivate : w[i] = t.toActivate[i] /\ i \in DOMAIN w
    BY <2>1
  <2>3. \A i \in DOMAIN w : i = k \/ i \in DOMAIN t.toActivate  BY <2>2
  <2>4. ActivateOrQueue(t, l) = u  BY <1>3 DEF ActivateOrQueue
  <2> HIDE DEF w, k
  <2>5. /\ u \in StateSet /\ u.background = FALSE /\ u.fault = t.fault /\ u.load = t.load /\ u.game = t.game
        /\ u.ld = t.ld /\ u.mem = t.mem /\ u.reqs = t.reqs /\ u.pings = t.pings
        /\ u.spectator = t.spectator /\ u.toActivate = w /\ u.background = t.background
    BY ZenonT(60), <1>1, <1>3, <2>2 DEF StateSet
  <2> HIDE DEF u
  <2>6. \A i \in DOMAIN t.toActivate : t.toActivate[i] # l  BY DEF Handled, Awaited
  <2>7. \A x \in Loads \ {l} : Awaited(u, x) = Awaited(t, x)
    <3> SUFFICES ASSUME NEW x \in Loads \ {l} PROVE Awaited(u, x) = Awaited(t, x)
      OBVIOUS
    <3>1. Awaited(u, x) => Awaited(t, x)  BY <2>2, <2>3, <2>5 DEF Awaited
    <3>2. Awaited(t, x) => Awaited(u, x)  BY <2>2, <2>5 DEF Awaited
    <3>3. QED  BY <3>1, <3>2 DEF Awaited
  <2>8. Awaited(u, l)  BY <2>2, <2>5 DEF Awaited
  <2>9. \A x \in Loads : Fetching(u, x) = Fetching(t, x) /\ Starting(u, x) = Starting(t, x)
    BY <2>5 DEF Fetching, Starting
  <2>10. \A x \in Loads \ {l} : (t.mem[x] = "client" => u.game = x) /\ (x \in u.pings => u.game = x)
    BY <1>1, <2>5 DEF Alone, LoadOK
  <2>11. Beside(t, u, l)  BY <2>5, <2>7, <2>9, <2>10 DEF Beside
  <2>12. \A x \in Loads \ {l} : LoadOK(u, x)  BY <1>1, <2>11, Spread
  <2>13. ClientOK(u)
    <3>1. \A i, j \in DOMAIN w : w[i] = w[j] => i = j
      BY <1>1, <2>2, <2>3, <2>6 DEF Alone, ClientOK
    <3>2. QED  BY <1>1, <2>5, <3>1 DEF Alone, ClientOK
  <2>14. LiveOK(u, l)
    BY <1>3, <2>5, <2>8, <2>9 DEF Handled, LiveOK
  <2>15. QED
    BY <2>4, <2>5, <2>12, <2>13, <2>14, Carried DEF Alone, Handled
<1>4. t.background \in BOOLEAN  BY <1>1 DEF StateSet
<1>5. QED  BY <1>2, <1>3, <1>4

\* A request is sent for load l: the others are not concerned.
LEMMA RequestingAlone ==
  ASSUME NEW t, NEW l \in Loads, NEW n, Handled(t, l, n), NEW g \in Progresses,
         NEW api \in Apis
  PROVE  LET u == BeginRequest(t, l, g, api)
             p == t.ld[l]
         IN  /\ Alone(u, l) /\ u.mem[l] = "load" /\ u.load = t.load /\ u.game = t.game
             /\ u.spectator = t.spectator /\ u.user = t.user
             /\ api = "fetch" => Fetching(u, l) /\ ~Starting(u, l)
             /\ api = "start" => Starting(u, l) /\ ~Fetching(u, l)
             /\ ~Awaited(u, l)
             /\ l \notin u.pings
             /\ u.ld[l].progress = g /\ u.ld[l].st = "live" /\ u.ld[l].results = p.results
             /\ u.ld[l].outstanding = n + 1 /\ u.ld[l].aborted = p.aborted
             /\ u.ld[l].callback = p.callback /\ u.ld[l].session = p.session
             /\ u.ld[l].hash = p.hash
<1> DEFINE p == t.ld[l]
           u == BeginRequest(t, l, g, api)
           r == t.reqs \cup {<<api, l>>}
           a == [t EXCEPT !.reqs = r]
<1>1. Live(t, l) /\ t.game # l /\ t.mem[l] = "load" /\ Alone(t, l) /\ p.outstanding = n
      /\ t \in StateSet
  BY HandledIsLive
<1>2. PICK q \in LoadSet :
        /\ Works(t, u, l, q, t.mem[l], t.load) /\ Same(a, u)
        /\ q.progress = g /\ q.st = "live" /\ q.results = p.results
        /\ q.outstanding = p.outstanding + 1 /\ q.aborted = p.aborted
        /\ q.callback = p.callback /\ q.session = p.session /\ q.hash = p.hash
  BY <1>1, Requesting
<1> HIDE DEF u, r
<1>3. /\ u.user = t.user /\ u.spectator = t.spectator /\ u.background = t.background
      /\ u.game = t.game /\ u.reqs = r /\ u.toActivate = t.toActivate /\ u.pings = t.pings
  BY <1>1, <1>2 DEF Same, StateSet
<1>4. /\ u \in StateSet /\ u.load = t.load /\ u.fault = FALSE /\ u.ld[l] = q /\ u.mem[l] = "load"
      /\ \A x \in Loads \ {l} : u.ld[x] = t.ld[x] /\ u.mem[x] = t.mem[x]
  BY <1>1, <1>2 DEF Works, StateSet
<1>5. \A x \in Loads \ {l} : /\ Fetching(u, x) = Fetching(t, x) /\ Starting(u, x) = Starting(t, x)
  BY <1>3 DEF r, Fetching, Starting, Apis
<1>6. \A x \in Loads : Awaited(u, x) = Awaited(t, x)  BY <1>3 DEF Awaited
<1>7. /\ api = "fetch" => Fetching(u, l) /\ ~Starting(u, l)
      /\ api = "start" => Starting(u, l) /\ ~Fetching(u, l)
  BY <1>3 DEF r, Handled, Fetching, Starting, Apis
<1>8. \A x \in Loads \ {l} : (t.mem[x] = "client" => u.game = x) /\ (x \in u.pings => u.game = x)
  BY <1>1, <1>3 DEF Alone, LoadOK
<1>9. Beside(t, u, l)  BY <1>3, <1>4, <1>5, <1>6, <1>8 DEF Beside
<1>10. \A x \in Loads \ {l} : LoadOK(u, x)  BY <1>1, <1>9, Spread
<1>11. ClientOK(u)
  BY <1>1, <1>3, <1>4 DEF Alone, ClientOK, StateSet
<1>12. Alone(u, l)  BY <1>4, <1>10, <1>11 DEF Alone
<1>13. ~Awaited(u, l) /\ l \notin u.pings  BY <1>3, <1>6 DEF Handled
<1>14. QED  BY <1>1, <1>2, <1>3, <1>4, <1>7, <1>12, <1>13 DEF u

\* rc_client_begin_fetch_game_sets: the load waits for the login, for the server, or is freed.
LEMMA FetchingCarries ==
  ASSUME NEW t, NEW l \in Loads, Handled(t, l, 0), t.load = l
  PROVE  GoodState(BeginFetchGameSets(t, l))
<1> DEFINE p == t.ld[l]
           g == IF t.user = "requested" THEN "awaitLogin" ELSE "fetching"
           a == Moved(t, l, g)
           u == BeginFetchGameSets(t, l)
<1>1. Live(t, l) /\ t.game # l /\ t.mem[l] = "load" /\ Alone(t, l) /\ p.outstanding = 0
      /\ t \in StateSet
  BY HandledIsLive
<1>2. g \in Progresses /\ g # "aborted" /\ "identifying" \in Progresses /\ "loginRequired" \in Results
      /\ "fetch" \in Apis
  BY DEF Progresses, Results, Apis
<1>3. u = CASE t.user = "requested" -> a
            [] t.user = "loggedIn"  -> BeginRequest(a, l, "identifying", "fetch")
            [] t.user = "none"      -> LoadError(a, l, "loginRequired")
  BY DEF BeginFetchGameSets, Moved
<1>4. PICK q \in LoadSet :
        /\ Works(t, a, l, q, "load", t.load) /\ Same(t, a)
        /\ q.progress = g /\ q.st = "live"
        /\ q.results = p.results /\ q.outstanding = p.outstanding /\ q.aborted = p.aborted
        /\ q.callback = p.callback
  <2> HIDE DEF g
  <2>1. QED  BY <1>1, <1>2, Moving
<1> HIDE DEF a, u
<1>5. /\ Alone(a, l) /\ a.ld[l] = q /\ a.mem[l] = "load"
      /\ Fetching(a, l) = Fetching(t, l) /\ Starting(a, l) = Starting(t, l)
      /\ Awaited(a, l) = Awaited(t, l)
  <2> HIDE DEF g
  <2>1. QED  BY <1>1, <1>4, StillAlone
<1>6. a.load = l /\ a.user = t.user /\ l \notin a.pings  BY <1>4 DEF Works, Same, Handled
<1>7. Handled(a, l, 0)
  <2> HIDE DEF g
  <2>1. QED  BY <1>2, <1>4, <1>5, <1>6 DEF Handled
<1>8. CASE t.user = "requested"
  <2>1. LiveOK(a, l)  BY <1>4, <1>5, <1>6, <1>8 DEF Handled, LiveOK
  <2>2. u = a  BY <1>3, <1>8
  <2>3. QED  BY <1>4, <1>5, <1>6, <2>1, <2>2, Carried DEF u
<1>9. CASE t.user = "loggedIn"
  <2> DEFINE b == BeginRequest(a, l, "identifying", "fetch")
  <2>0. /\ Alone(b, l) /\ b.mem[l] = "load" /\ b.load = a.load
        /\ Fetching(b, l) /\ ~Starting(b, l) /\ ~Awaited(b, l) /\ l \notin b.pings
        /\ b.ld[l].progress = "identifying" /\ b.ld[l].st = "live"
        /\ b.ld[l].results = a.ld[l].results
        /\ b.ld[l].outstanding = 1 /\ b.ld[l].callback = a.ld[l].callback
    BY <1>2, <1>7, RequestingAlone
  <2> HIDE DEF b
  <2>1. /\ Alone(b, l) /\ b.mem[l] = "load" /\ b.load = l
        /\ Fetching(b, l) /\ ~Starting(b, l) /\ ~Awaited(b, l) /\ l \notin b.pings
        /\ b.ld[l].progress = "identifying" /\ b.ld[l].st = "live" /\ b.ld[l].results = q.results
        /\ b.ld[l].outstanding = 1 /\ b.ld[l].callback = q.callback
    BY <1>5, <1>6, <2>0
  <2>2. u = b  BY <1>3, <1>9 DEF b
  <2>3. LiveOK(b, l)  BY <1>4, <2>1 DEF Handled, LiveOK
  <2>4. QED  BY <2>1, <2>2, <2>3, Carried DEF u
<1>10. CASE t.user = "none"
  <2>1. q.results = << >>  BY <1>4 DEF Handled
  <2>2. GoodState(LoadError(a, l, "loginRequired"))  BY <1>2, <1>5, <1>7, <2>1, FailingReleases
  <2>3. QED  BY <1>3, <1>10, <2>2 DEF u
<1>11. t.user \in {"none", "requested", "loggedIn"}  BY <1>1 DEF StateSet
<1>12. GoodState(u)  BY <1>8, <1>9, <1>10, <1>11 DEF u
<1>13. QED  BY <1>12 DEF u

LEMMA HasFirst ==
  ASSUME NEW T \in SUBSET Nat, T # {}
  PROVE  \E i \in T : \A j \in T : i <= j
<1>1. IsWellFoundedOn(OpToRel(<, Nat), Nat)  BY NatLessThanWellFounded
<1>2. \E i \in T : \A j \in T : ~(<<j, i>> \in OpToRel(<, Nat))  BY <1>1, WFMin
<1>3. PICK i \in T : \A j \in T : ~(<<j, i>> \in OpToRel(<, Nat))  BY <1>2
<1>4. SUFFICES ASSUME NEW j \in T PROVE i <= j  OBVIOUS
<1>5. i \in Nat /\ j \in Nat /\ <<j, i>> \in Nat \X Nat  OBVIOUS
<1>6. ~(j < i)  BY <1>3, <1>5 DEF OpToRel
<1>7. QED  BY <1>5, <1>6

\* A handler writes something of load l that says nothing of what holds it.
Rewritten(t, l, q) == [t EXCEPT !.ld = [t.ld EXCEPT ![l] = q]]

LEMMA Rewriting ==
  ASSUME NEW t, NEW l \in Loads, NEW n, Handled(t, l, n), NEW q \in LoadSet
  PROVE  LET u == Rewritten(t, l, q)
         IN  /\ Works(t, u, l, q, "load", t.load) /\ Same(t, u)
             /\ Alone(u, l) /\ u.ld[l] = q /\ u.mem[l] = "load" /\ u.load = t.load
             /\ ~Fetching(u, l) /\ ~Starting(u, l) /\ ~Awaited(u, l) /\ l \notin u.pings
<1> DEFINE u == Rewritten(t, l, q)
           f == [t.ld EXCEPT ![l] = q]
<1>1. Live(t, l) /\ t.game # l /\ t.mem[l] = "load" /\ Alone(t, l) /\ t \in StateSet
  BY HandledIsLive
<1>2. f \in [Loads -> LoadSet]  BY <1>1 DEF StateSet
<1>3. t.mem = [t.mem EXCEPT ![l] = "load"]  BY <1>1, Kept
<1>4. u = [t EXCEPT !.ld = f]  BY DEF Rewritten
<1> HIDE DEF f, u
<1>5. /\ u \in StateSet /\ u.ld = f /\ u.mem = t.mem /\ u.load = t.load /\ u.fault = FALSE
      /\ u.pings = t.pings
  BY <1>1, <1>2, <1>4 DEF StateSet, Live
<1>6. Same(t, u)  BY <1>1, <1>4 DEF Same, StateSet
<1>7. Works(t, u, l, q, "load", t.load)  BY <1>3, <1>5 DEF Works, f, Owners
<1>8. /\ Alone(u, l) /\ u.ld[l] = q /\ u.mem[l] = "load"
      /\ Fetching(u, l) = Fetching(t, l) /\ Starting(u, l) = Starting(t, l)
      /\ Awaited(u, l) = Awaited(t, l)
  BY <1>1, <1>6, <1>7, StillAlone
<1>9. QED  BY <1>5, <1>6, <1>7, <1>8 DEF Handled, u

\* rc_client_process_resolved_hash: the first hash that may be of a game is looked up, or the load
\* ends with a game that has nothing.
LEMMA ResolvingCarries ==
  ASSUME NEW t, NEW l \in Loads, Handled(t, l, 0), t.load = l
  PROVE  GoodState(ProcessResolvedHash(t, l))
<1> DEFINE p == t.ld[l]
           open == {i \in DOMAIN p.hash : t.known[p.hash[i]] # "none"}
           first == CHOOSE i \in open : \A j \in open : i <= j
           h == SubSeq(p.hash, first, Len(p.hash))
           q == [p EXCEPT !.hash = h]
           a == Rewritten(t, l, q)
<1> HIDE DEF open, first, h, q, a
<1>1. Live(t, l) /\ t.game # l /\ t.mem[l] = "load" /\ Alone(t, l) /\ p.outstanding = 0
      /\ t \in StateSet
  BY HandledIsLive
<1>0. p \in LoadSet  BY <1>1, Kept
<1>2. p.hash \in Seq(Hashes)  BY <1>0 DEF LoadSet
<1>3. CASE open # {}
  <2>1. first \in 1 .. Len(p.hash)
    <3>1. open \subseteq Nat /\ open \subseteq 1 .. Len(p.hash)  BY <1>2 DEF open
    <3>2. \E i \in open : \A j \in open : i <= j  BY <1>3, <3>1, HasFirst
    <3>3. first \in open  BY <3>2 DEF first
    <3>4. QED  BY <3>1, <3>3
  <2>2. ProcessResolvedHash(t, l) = BeginFetchGameSets(a, l)
    BY <1>3 DEF ProcessResolvedHash, Rewritten, open, first, h, q, a
  <2>3. h \in Seq(Hashes)  BY <1>2, <2>1 DEF h
  <2>4. /\ q \in LoadSet /\ q.st = p.st /\ q.outstanding = p.outstanding /\ q.callback = p.callback
        /\ q.progress = p.progress /\ q.aborted = p.aborted /\ q.results = p.results
    BY <1>0, <2>3 DEF LoadSet, q
  <2>5. /\ Alone(a, l) /\ a.ld[l] = q /\ a.mem[l] = "load" /\ a.load = t.load
        /\ ~Fetching(a, l) /\ ~Starting(a, l) /\ ~Awaited(a, l) /\ l \notin a.pings
    BY <2>4, Rewriting DEF a
  <2>6. Handled(a, l, 0)  BY <2>4, <2>5 DEF Handled
  <2>7. QED  BY <2>2, <2>5, <2>6, FetchingCarries
<1>4. CASE open = {}
  <2> DEFINE x == [t EXCEPT !.game = l, !.mem[l] = "client"]
             w == LoadError(x, l, "noGame")
             f == [t.mem EXCEPT ![l] = "client"]
  <2>1. ProcessResolvedHash(t, l) = w  BY <1>4 DEF ProcessResolvedHash, open
  <2>2. x = [t EXCEPT !.game = l, !.mem = f]  OBVIOUS
  <2>3. f \in [Loads -> Owners]  BY <1>1 DEF StateSet, Owners
  <2> HIDE DEF f, x
  <2>4. /\ x \in StateSet /\ x.ld = t.ld /\ x.mem = f /\ x.game = l /\ x.load = l
        /\ x.pings = t.pings /\ x.fault = FALSE /\ x.background = t.background
        /\ x.reqs = t.reqs /\ x.toActivate = t.toActivate
    BY ZenonT(60), <1>1, <2>2, <2>3 DEF StateSet, Live
  <2>5. x.mem[l] = "client" /\ Live(x, l) /\ x.ld[l] = p /\ Others(x, l) = NoLoad
    BY <1>1, <2>4 DEF Live, f, StateSet, Others
  <2>6. "noGame" \in Results  BY DEF Results
  <2>7. PICK q1 \in LoadSet, m \in Owners :
          /\ Works(x, w, l, q1, m, NoLoad) /\ Same(x, w)
          /\ q1.results = Heard(p, "noGame") /\ q1.st = "freed" /\ m = "client"
    BY <1>1, <2>5, <2>6, Failing
  <2> HIDE DEF w
  <2>8. /\ w \in StateSet /\ w.load = NoLoad /\ w.ld[l] = q1 /\ w.mem[l] = "client"
        /\ w.game = l /\ w.pings = t.pings /\ w.fault = FALSE /\ w.background = t.background
        /\ w.reqs = t.reqs /\ w.toActivate = t.toActivate
        /\ \A y \in Loads \ {l} : w.ld[y] = t.ld[y] /\ w.mem[y] = t.mem[y]
    BY <1>1, <2>4, <2>7 DEF Works, Same, StateSet, f
  <2>9. Told(w, q1)
    <3>1. p.results = << >> /\ p.callback  BY DEF Handled
    <3>2. q1.results = Append(<< >>, "noGame")  BY <2>7, <3>1 DEF Heard
    <3>3. Append(<< >>, "noGame") = <<"noGame">>  OBVIOUS
    <3>4. QED  BY <2>6, <3>2, <3>3 DEF Told
  <2>10. l \notin w.pings /\ w.pings \subseteq t.pings \cup {l}  BY <2>8 DEF Handled
  <2>11. GoodState(w)  BY ZenonT(60), <2>7, <2>8, <2>9, <2>10, Owning
  <2>12. QED  BY <2>1, <2>11
<1>5. QED  BY <1>3, <1>4

-----------------------------------------------------------------------------
(* The answers.                                                             *)

\* The server answers a request of load l: the others are not concerned.
LEMMA Answering ==
  ASSUME NEW t, NEW l \in Loads, Alone(t, l), t.game # l, NEW api
  PROVE  LET u == [t EXCEPT !.reqs = @ \ {<<api, l>>}]
         IN  /\ Alone(u, l) /\ u.ld = t.ld /\ u.mem = t.mem /\ u.load = t.load /\ u.game = t.game
             /\ u.spectator = t.spectator /\ u.background = t.background /\ u.pings = t.pings
             /\ u.user = t.user /\ Awaited(u, l) = Awaited(t, l)
             /\ Fetching(u, l) => Fetching(t, l) /\ api # "fetch"
             /\ Starting(u, l) => Starting(t, l) /\ api # "start"
<1> DEFINE r == t.reqs \ {<<api, l>>}
           u == [t EXCEPT !.reqs = r]
<1>1. t \in StateSet  BY DEF Alone
<1>2. r \in SUBSET (({"login"} \X Logins) \cup ({"fetch", "start"} \X Loads))  BY <1>1 DEF StateSet
<1> HIDE DEF r
<1>3. /\ u \in StateSet /\ u.ld = t.ld /\ u.mem = t.mem /\ u.load = t.load /\ u.game = t.game
      /\ u.spectator = t.spectator /\ u.background = t.background /\ u.pings = t.pings
      /\ u.user = t.user /\ u.reqs = r /\ u.toActivate = t.toActivate /\ u.fault = t.fault
  BY ZenonT(60), <1>1, <1>2 DEF StateSet
<1> HIDE DEF u
<1>4. \A x \in Loads \ {l} : Fetching(u, x) = Fetching(t, x) /\ Starting(u, x) = Starting(t, x)
  BY <1>3 DEF r, Fetching, Starting
<1>5. \A x : Awaited(u, x) = Awaited(t, x)  BY <1>3 DEF Awaited
<1>6. /\ Fetching(u, l) => Fetching(t, l) /\ api # "fetch"
      /\ Starting(u, l) => Starting(t, l) /\ api # "start"
  BY <1>3 DEF r, Fetching, Starting
<1>7. \A x \in Loads \ {l} : (t.mem[x] = "client" => u.game = x) /\ (x \in u.pings => u.game = x)
  BY <1>3 DEF Alone, LoadOK
<1>8. Beside(t, u, l)  BY <1>3, <1>4, <1>5, <1>7 DEF Beside
<1>9. \A x \in Loads \ {l} : LoadOK(u, x)  BY <1>8, Spread
<1>10. ClientOK(u)  BY <1>3 DEF Alone, ClientOK
<1>11. QED  BY <1>3, <1>5, <1>6, <1>9, <1>10 DEF Alone, u, r

\* What is learnt of a hash is of no concern to the loads, and neither is the spectator mode to
\* those that are not the current one.
NextModes(t) == {t.spectator, "locked"}
Knowledge == [Hashes -> {"unasked", "none", "game"}]
Learnt(t, k, s) == [t EXCEPT !.known = k, !.spectator = s]

LEMMA Learning ==
  ASSUME NEW t, NEW l \in Loads, NEW n, Handled(t, l, n), t.load = l,
         NEW k \in Knowledge, NEW s \in NextModes(t)
  PROVE  LET u == Learnt(t, k, s)
         IN  Handled(u, l, n) /\ u.load = l /\ u.ld = t.ld /\ u.spectator = s
<1> DEFINE u == Learnt(t, k, s)
<1>1. Alone(t, l) /\ t \in StateSet  BY HandledIsLive
<1>2. s \in {"off", "on", "locked"} /\ (s = t.spectator \/ s = "locked")
  BY <1>1 DEF StateSet, NextModes
<1>3. /\ u \in StateSet /\ u.ld = t.ld /\ u.mem = t.mem /\ u.load = t.load /\ u.game = t.game
      /\ u.background = t.background /\ u.pings = t.pings /\ u.spectator = s
      /\ u.reqs = t.reqs /\ u.toActivate = t.toActivate /\ u.fault = t.fault
  BY ZenonT(60), <1>1, <1>2 DEF StateSet, Learnt, Knowledge
<1> HIDE DEF u
<1>4. \A x : /\ Fetching(u, x) = Fetching(t, x) /\ Starting(u, x) = Starting(t, x)
             /\ Awaited(u, x) = Awaited(t, x)
  BY <1>3 DEF Fetching, Starting, Awaited
<1>5. \A x \in Loads \ {l} : (t.mem[x] = "client" => u.game = x) /\ (x \in u.pings => u.game = x)
  BY <1>1, <1>3 DEF Alone, LoadOK
<1>6. Beside(t, u, l)  BY <1>3, <1>4, <1>5 DEF Beside
<1>7. \A x \in Loads \ {l} : LoadOK(u, x)  BY <1>1, <1>6, Spread
<1>8. ClientOK(u)  BY <1>1, <1>3 DEF Alone, ClientOK
<1>9. Alone(u, l)  BY <1>3, <1>7, <1>8 DEF Alone
<1>10. Handled(u, l, n)  BY <1>3, <1>4, <1>9 DEF Handled
<1>11. QED  BY <1>3, <1>10 DEF u

\* The answer to start_session, for the current load.
LEMMA StartedCarries ==
  ASSUME NEW t, NEW l \in Loads, Handled(t, l, 1), t.load = l, t.ld[l].progress # "awaitLogin",
         NEW outcome \in {"ok", "error"}
  PROVE  GoodState(StartSessionAnswered(t, l, outcome))
<1> DEFINE a == EndLoadState(t, l)
           p == a.ld[l]
           q == [p EXCEPT !.session = TRUE]
           b == Rewritten(a, l, q)
           u == StartSessionAnswered(t, l, outcome)
<1>1. Remaining(t, l) = 0  BY DEF Remaining, Left, Handled
<1>2. /\ Handled(a, l, 0) /\ a.load = l /\ p.progress # "awaitLogin" /\ p.results = t.ld[l].results
  BY CountedOff
<1>3. p.results = << >> /\ p \in LoadSet  BY <1>2, Kept, HandledIsLive DEF Handled
<1>4. "error" \in Results  BY DEF Results
<1>5. CASE outcome = "error"
  <2>1. u = LoadError(a, l, "error")  BY <1>5 DEF StartSessionAnswered
  <2> HIDE DEF a
  <2>2. QED  BY <1>2, <1>3, <1>4, <2>1, FailingReleases
<1>6. CASE outcome = "ok"
  <2>1. u = ActivateOrQueue(b, l)  BY <1>1, <1>6 DEF StartSessionAnswered, Rewritten
  <2> HIDE DEF a
  <2>2. /\ q \in LoadSet /\ q.session = TRUE /\ q.st = p.st /\ q.outstanding = p.outstanding
        /\ q.callback = p.callback /\ q.progress = p.progress /\ q.aborted = p.aborted
        /\ q.results = p.results
    BY <1>3 DEF LoadSet
  <2> HIDE DEF q
  <2>3. /\ Alone(b, l) /\ b.ld[l] = q /\ b.mem[l] = "load" /\ b.load = l
        /\ ~Fetching(b, l) /\ ~Starting(b, l) /\ ~Awaited(b, l) /\ l \notin b.pings
    BY <1>2, <2>2, Rewriting
  <2> HIDE DEF b
  <2>4. Handled(b, l, 0)  BY <1>2, <2>2, <2>3 DEF Handled
  <2>5. QED  BY <1>2, <2>1, <2>2, <2>3, <2>4, ActivatingOrQueueing
<1>7. QED  BY <1>5, <1>6

\* The session is asked for while the data of the game is processed, which is counted as a request.
\* The server will answer: the load waits for it.
LEMMA SessionAwaited ==
  ASSUME NEW t, NEW l \in Loads, Handled(t, l, 1), t.load = l
  PROVE  LET c == BeginRequest(t, l, "starting", "start")
         IN  Remaining(c, l) # 0 /\ GoodState(EndLoadState(c, l))
<1> DEFINE p == t.ld[l]
           c == BeginRequest(t, l, "starting", "start")
           u == EndLoadState(c, l)
<1>1. Alone(t, l) /\ p.results = << >> /\ p.callback  BY DEF Handled
<1>2. "starting" \in Progresses /\ "start" \in Apis  BY DEF Progresses, Apis
<1>3. /\ Alone(c, l) /\ c.mem[l] = "load" /\ c.load = t.load /\ c.game = t.game
      /\ Starting(c, l) /\ ~Fetching(c, l) /\ ~Awaited(c, l) /\ l \notin c.pings
      /\ c.ld[l].progress = "starting" /\ c.ld[l].st = "live" /\ c.ld[l].results = p.results
      /\ c.ld[l].outstanding = 2 /\ c.ld[l].callback = p.callback
  BY <1>2, RequestingAlone
<1> HIDE DEF c
<1>4. c.game # l /\ Alone(c, l)  BY <1>3, HandledIsLive
<1>5. Live(c, l) /\ Left(c.ld[l]) = 1  BY <1>3 DEF Live, Left, Alone, ClientOK
<1>6. PICK q \in LoadSet, m \in Owners :
        /\ Works(c, u, l, q, m, c.load) /\ Same(c, u)
        /\ q.st = "live" /\ m = "load" /\ q.outstanding = 1 /\ q.progress = "starting"
        /\ q.callback = p.callback /\ q.results = p.results
  BY <1>3, <1>5, Ending
<1> HIDE DEF u
<1>7. /\ Alone(u, l) /\ u.ld[l] = q /\ u.mem[l] = m
      /\ Fetching(u, l) = Fetching(c, l) /\ Starting(u, l) = Starting(c, l)
      /\ Awaited(u, l) = Awaited(c, l)
  BY <1>4, <1>6, StillAlone
<1>8. u.load = l /\ l \notin u.pings  BY <1>3, <1>6 DEF Works, Same
<1>9. LiveOK(u, l)  BY <1>1, <1>3, <1>6, <1>7, <1>8 DEF LiveOK
<1>10. GoodState(u)  BY <1>6, <1>7, <1>8, <1>9, Carried
<1>11. Remaining(c, l) = 1  BY <1>3 DEF Remaining, Left
<1>12. QED  BY <1>10, <1>11 DEF u, c

\* The transport refuses it: the load ends at once, and is freed when the data was processed.
LEMMA SessionRefused ==
  ASSUME NEW t, NEW l \in Loads, Handled(t, l, 1), t.load = l
  PROVE  LET c == BeginStartSession(t, l, TRUE)
         IN  Remaining(c, l) # 0 /\ GoodState(EndLoadState(c, l))
<1> DEFINE p == t.ld[l]
           r == BeginRequest(t, l, "starting", "start")
           z == [r EXCEPT !.reqs = @ \ {<<"start", l>>}]
           y == EndLoadState(z, l)
           c == LoadError(y, l, "error")
           u == EndLoadState(c, l)
<1>1. Alone(t, l) /\ p.results = << >> /\ p.callback  BY DEF Handled
<1>2. /\ "starting" \in Progresses /\ "start" \in Apis /\ "error" \in Results
  BY DEF Progresses, Apis, Results
<1>3. /\ Alone(r, l) /\ r.mem[l] = "load" /\ r.load = t.load /\ r.game = t.game
      /\ Starting(r, l) /\ ~Fetching(r, l) /\ ~Awaited(r, l) /\ l \notin r.pings
      /\ r.ld[l].progress = "starting" /\ r.ld[l].st = "live" /\ r.ld[l].results = p.results
      /\ r.ld[l].outstanding = 2 /\ r.ld[l].callback = p.callback
  BY <1>2, RequestingAlone
<1>4. BeginStartSession(t, l, TRUE) = c  BY DEF BeginStartSession, StartSessionAnswered
<1> HIDE DEF r
<1>5. r.game # l  BY <1>3, HandledIsLive
<1>6. /\ Alone(z, l) /\ z.ld = r.ld /\ z.mem = r.mem /\ z.load = r.load
      /\ z.pings = r.pings /\ Awaited(z, l) = Awaited(r, l)
      /\ Fetching(z, l) => Fetching(r, l)
      /\ Starting(z, l) => "start" # "start"
  BY <1>3, <1>5, Answering
<1> HIDE DEF z
<1>7. Handled(z, l, 2) /\ z.load = l  BY ZenonT(60), <1>1, <1>3, <1>6 DEF Handled
<1>8. 2 \in Nat \ {0} /\ 2 - 1 = 1  OBVIOUS
<1>9. Handled(y, l, 2 - 1) /\ y.load = l  BY <1>7, <1>8, CountedOff
<1> HIDE DEF y
<1>10. Handled(y, l, 1)  BY <1>8, <1>9
<1>11. /\ Live(y, l) /\ y.game # l /\ y.mem[l] = "load" /\ Alone(y, l) /\ y.ld[l].outstanding = 1
  BY <1>10, HandledIsLive
<1>12. y.ld[l].results = << >> /\ y.ld[l].callback  BY <1>9, <1>10 DEF Handled
<1>13. PICK q1 \in LoadSet, m1 \in Owners :
         /\ Works(y, c, l, q1, m1, Others(y, l)) /\ Same(y, c)
         /\ q1.results = Heard(y.ld[l], "error")
         /\ q1.st = "live" /\ m1 = "load" /\ q1.outstanding = 1 /\ q1.progress = "aborted"
  BY <1>2, <1>11, Failing
<1> HIDE DEF c
<1>14. /\ Alone(c, l) /\ c.ld[l] = q1 /\ c.mem[l] = "load"
       /\ Fetching(c, l) = Fetching(y, l) /\ Starting(c, l) = Starting(y, l)
       /\ Awaited(c, l) = Awaited(y, l)
  BY <1>11, <1>13, StillAlone
<1>15. /\ Live(c, l) /\ c.load # l /\ c.game # l /\ l \notin c.pings /\ Left(q1) = 0
  BY <1>9, <1>10, <1>11, <1>13, <1>14, LoadAssumption DEF Live, Works, Same, Others, Left, Handled
<1>16. PICK q \in LoadSet, m \in Owners :
         /\ Works(c, u, l, q, m, c.load) /\ Same(c, u)
         /\ q.st = "freed" /\ m = "freed" /\ q.results = q1.results
  BY <1>13, <1>14, <1>15, Ending
<1> HIDE DEF u
<1>17. /\ Alone(u, l) /\ u.ld[l] = q /\ u.mem[l] = m
       /\ Fetching(u, l) = Fetching(c, l) /\ Starting(u, l) = Starting(c, l)
       /\ Awaited(u, l) = Awaited(c, l)
  BY <1>14, <1>15, <1>16, StillAlone
<1>18. u.load # l /\ l \notin u.pings  BY <1>15, <1>16 DEF Works, Same
<1>19. Told(u, q)
  <2>1. q.results = Append(<< >>, "error")  BY <1>12, <1>13, <1>16 DEF Heard
  <2>2. Append(<< >>, "error") = <<"error">>  OBVIOUS
  <2>3. QED  BY <1>2, <2>1, <2>2 DEF Told
<1>20. GoodState(u)
  BY <1>10, <1>14, <1>16, <1>17, <1>18, <1>19, Released DEF Handled
<1>21. Remaining(c, l) # 0  BY <1>15 DEF Remaining, Left
<1>22. Remaining(c, l) # 0 /\ GoodState(EndLoadState(c, l))  BY <1>20, <1>21 DEF u
<1>23. QED  BY <1>4, <1>22

\* The answer to the fetch of the game sets, for the current load.  A response without sets is not
\* among those the theorems are about: it makes the load a freed one.
LEMMA FetchedCarries ==
  ASSUME NEW t, NEW l \in Loads, Handled(t, l, 1), t.load = l,
         NEW outcome \in {"game", "unknown", "error"}, NEW refused \in BOOLEAN
  PROVE  GoodState(FetchAnswered(t, l, outcome, refused))
<1> DEFINE a == EndLoadState(t, l)
           p == a.ld[l]
           h == Head(p.hash)
           k == [a.known EXCEPT ![h] = "none"]
           j == [a.known EXCEPT ![h] = "game"]
           b == [a EXCEPT !.known[h] = "game", !.ld[l].progress = "starting",
                          !.ld[l].outstanding = @ + 1]
           c == IF b.spectator = "off" THEN BeginStartSession(b, l, refused)
                ELSE [b EXCEPT !.spectator = "locked"]
           e == EndLoadState(c, l)
           u == FetchAnswered(t, l, outcome, refused)
<1>1. Remaining(t, l) = 0  BY DEF Remaining, Left, Handled
<1>2. Handled(a, l, 0) /\ a.load = l  BY CountedOff
<1>3. u = CASE outcome = "error"   -> LoadError(a, l, "error")
            [] outcome = "unknown" -> ProcessResolvedHash([a EXCEPT !.known[h] = "none"], l)
            [] outcome = "game"    -> IF Remaining(c, l) = 0 THEN ActivateOrQueue(e, l) ELSE e
  BY <1>1 DEF FetchAnswered
<1> HIDE DEF u, e, c, b, a
<1>4. a \in StateSet /\ p.outstanding = 0
  <2>1. a \in StateSet /\ a.ld[l].outstanding = 0  BY <1>2, HandledIsLive
  <2>2. QED  BY <2>1
<1>5. p \in LoadSet  BY <1>4, Kept
<1>6. k \in Knowledge /\ j \in Knowledge
  BY <1>4 DEF StateSet, Knowledge
<1>7. p.results = << >> /\ p.callback  BY <1>2 DEF Handled
<1>8. CASE outcome = "error"
  <2>1. "error" \in Results  BY DEF Results
  <2>2. GoodState(LoadError(a, l, "error"))  BY <1>2, <1>7, <2>1, FailingReleases
  <2>3. QED  BY <1>3, <1>8, <2>2 DEF u
<1>9. CASE outcome = "unknown"
  <2> DEFINE v == [a EXCEPT !.known[h] = "none"]
             w == Learnt(a, k, a.spectator)
  <2>1. v = [a EXCEPT !.known = k]  OBVIOUS
  <2> HIDE DEF v, k
  <2>2. v = w  BY <1>4, <2>1 DEF StateSet, Learnt
  <2>3. Handled(w, l, 0) /\ w.load = l
    <3>1. a.spectator \in NextModes(a)  BY DEF NextModes
    <3>2. QED  BY <1>2, <1>6, <3>1, Learning DEF k
  <2>4. GoodState(ProcessResolvedHash(v, l))  BY <2>2, <2>3, ResolvingCarries
  <2>5. QED  BY <1>3, <1>9, <2>4 DEF u, v
<1>10. CASE outcome = "game"
  <2> DEFINE q == [p EXCEPT !.progress = "starting", !.outstanding = 1]
             w == Learnt(a, j, a.spectator)
             v == Rewritten(w, l, q)
  <2>1. /\ q \in LoadSet /\ q.st = p.st /\ q.outstanding = 1 /\ q.callback = p.callback
        /\ q.progress = "starting" /\ q.aborted = p.aborted /\ q.results = p.results
    BY <1>5 DEF LoadSet, Progresses
  <2>2. Handled(w, l, 0) /\ w.load = l /\ w.ld = a.ld
    <3>1. a.spectator \in NextModes(a)  BY DEF NextModes
    <3> HIDE DEF j
    <3>2. QED  BY <1>2, <1>6, <3>1, Learning
  <2>3. b = v
    <3> DEFINE f == [a.ld EXCEPT ![l] = q]
    <3>1. p.outstanding + 1 = 1  BY <1>4
    <3>2. b = [a EXCEPT !.known = j, !.ld = f]
      <4> DEFINE a0 == [a EXCEPT !.known = j]
                 p1 == [p EXCEPT !.progress = "starting"]
                 f1 == [a.ld EXCEPT ![l] = p1]
                 a1 == [a0 EXCEPT !.ld = f1]
                 p2 == [p1 EXCEPT !.outstanding = 1]
                 f2 == [f1 EXCEPT ![l] = p2]
      <4> HIDE DEF j
      <4>1. a0 = [a EXCEPT !.known = j] /\ a0.ld = a.ld /\ a.ld \in [Loads -> LoadSet]
        BY <1>4 DEF StateSet
      <4>2. a1.ld = f1 /\ f1[l] = p1 /\ p1.outstanding = p.outstanding
        BY <1>4, <1>5, <4>1 DEF StateSet, LoadSet
      <4>3. b = [a1 EXCEPT !.ld = [a1.ld EXCEPT ![l] =
                             [a1.ld[l] EXCEPT !.outstanding = a1.ld[l].outstanding + 1]]]
        BY <4>1, ZenonT(60) DEF b, j
      <4>4. b = [a1 EXCEPT !.ld = f2]  BY ZenonT(60), <3>1, <4>2, <4>3
      <4>5. f2 = f /\ p2 = q  BY <1>5, <4>1
      <4>6. [a1 EXCEPT !.ld = f2] = [a EXCEPT !.known = j, !.ld = f2]
        BY <1>4 DEF StateSet
      <4> HIDE DEF a1, f2, f
      <4>7. QED  BY <4>4, <4>5, <4>6
    <3> HIDE DEF q, f, j
    <3>3. v = [w EXCEPT !.ld = f]  BY <2>2 DEF Rewritten, f
    <3>4. QED  BY ZenonT(60), <1>4, <3>2, <3>3 DEF StateSet, Learnt
  <2> HIDE DEF q, w, v
  <2>4. /\ Alone(v, l) /\ v.ld[l] = q /\ v.mem[l] = "load" /\ v.load = w.load
        /\ ~Fetching(v, l) /\ ~Starting(v, l) /\ ~Awaited(v, l) /\ l \notin v.pings
    BY <2>1, <2>2, Rewriting DEF v
  <2>5. Handled(b, l, 1) /\ b.load = l  BY <1>2, <1>4, <2>1, <2>2, <2>3, <2>4 DEF Handled
  <2>6. CASE b.spectator = "off" /\ ~refused
    <3>1. c = BeginRequest(b, l, "starting", "start")  BY <2>6 DEF c, BeginStartSession
    <3>2. Remaining(c, l) # 0 /\ GoodState(e)  BY <2>5, <3>1, SessionAwaited DEF e
    <3>3. QED  BY <1>3, <1>10, <3>2 DEF u
  <2>7. CASE b.spectator = "off" /\ refused
    <3>1. c = BeginStartSession(b, l, TRUE)  BY <2>7 DEF c
    <3>2. Remaining(c, l) # 0 /\ GoodState(e)  BY <2>5, <3>1, SessionRefused DEF e
    <3>3. QED  BY <1>3, <1>10, <3>2 DEF u
  <2>8. CASE b.spectator # "off"
    <3> DEFINE z == Learnt(b, b.known, "locked")
    <3>1. b \in StateSet /\ b.known \in Knowledge
      <4>1. b \in StateSet  BY <2>5, HandledIsLive
      <4>2. QED  BY <4>1 DEF StateSet, Knowledge
    <3>2. c = z  BY <2>8, <3>1 DEF c, StateSet, Learnt
    <3>3. Handled(z, l, 1) /\ z.load = l /\ z.ld = b.ld /\ z.spectator = "locked"
      <4>1. "locked" \in NextModes(b)  BY DEF NextModes
      <4>2. QED  BY <2>5, <3>1, <4>1, Learning
    <3> HIDE DEF z
    <3>4. Handled(c, l, 1) /\ c.load = l /\ c.ld[l] = q /\ c.spectator = "locked"
      BY <2>3, <2>4, <3>2, <3>3
    <3>5. Remaining(c, l) = 0  BY <3>4 DEF Remaining, Left, Handled
    <3>6. /\ Handled(e, l, 0) /\ e.load = l /\ Same(c, e) /\ e.ld[l].progress = c.ld[l].progress
      BY <3>4, CountedOff DEF e
    <3>7. e.ld[l].progress # "awaitLogin" /\ e.spectator = "locked"
      BY <2>1, <3>4, <3>6 DEF Same
    <3>8. GoodState(ActivateOrQueue(e, l))  BY <3>6, <3>7, ActivatingOrQueueing
    <3>9. QED  BY <1>3, <1>10, <3>5, <3>8 DEF u
  <2>9. QED  BY <2>6, <2>7, <2>8
<1>11. QED  BY <1>8, <1>9, <1>10

-----------------------------------------------------------------------------
(* Calls that concern the load in progress, whichever it is.                *)

LEMMA CurrentIsLive ==
  ASSUME NEW t, GoodState(t), t.load # NoLoad
  PROVE  /\ t.load \in Loads /\ t.ld[t.load].st = "live" /\ LiveOK(t, t.load)
         /\ t.ld[t.load].results = << >> /\ t.ld[t.load].callback
<1>1. t.load \in Loads  BY DEF GoodState, StateSet
<1>2. t.ld[t.load].st \in Stages  BY <1>1, Kept DEF GoodState, LoadSet
<1>3. LoadOK(t, t.load)  BY <1>1 DEF GoodState
<1>4. t.ld[t.load].st = "live" /\ LiveOK(t, t.load)  BY <1>3 DEF LoadOK
<1>5. QED  BY <1>1, <1>4 DEF LiveOK

\* What the loads do not depend on may change.
LEMMA Unconcerned ==
  ASSUME NEW t, GoodState(t), NEW u \in StateSet,
         u.spectator = t.spectator, u.background = t.background, u.load = t.load, u.game = t.game,
         u.ld = t.ld, u.mem = t.mem, u.toActivate = t.toActivate, u.pings = t.pings,
         u.fault = t.fault,
         \A x \in Loads : Fetching(u, x) = Fetching(t, x) /\ Starting(u, x) = Starting(t, x)
  PROVE  GoodState(u)
<1>1. ClientOK(u)  BY DEF GoodState, ClientOK
<1>2. \A x : Awaited(u, x) = Awaited(t, x)  BY DEF Awaited
<1>3. ASSUME NEW x \in Loads PROVE LoadOK(u, x)
  <2>1. LoadOK(t, x)  BY DEF GoodState
  <2>2. LiveOK(t, x) => LiveOK(u, x)  BY <1>2 DEF LiveOK
  <2>3. QED  BY <1>2, <2>1, <2>2 DEF LoadOK
<1>4. QED  BY <1>1, <1>3 DEF GoodState

\* rc_client_unload_game
LEMMA UnloadingKeeps ==
  ASSUME NEW t, GoodState(t)
  PROVE  LET u == UnloadGame(t)
         IN  /\ GoodState(u) /\ u.load = NoLoad /\ u.game = NoLoad /\ u.user = t.user
             /\ u.login = t.login
             /\ \A x \in Loads : /\ u.ld[x].st = t.ld[x].st /\ u.ld[x].results = t.ld[x].results
                                 /\ u.ld[x].progress = t.ld[x].progress
<1> DEFINE c == t.load
           q == [t.ld[c] EXCEPT !.aborted = TRUE]
           f == IF c = NoLoad THEN t.ld ELSE [t.ld EXCEPT ![c] = q]
           m == IF t.game = NoLoad THEN t.mem ELSE [t.mem EXCEPT ![t.game] = "freed"]
           s == IF t.spectator = "locked" THEN "on" ELSE t.spectator
           g == t.pings \ {t.game}
           u == UnloadGame(t)
<1>1. t \in StateSet /\ ClientOK(t)  BY DEF GoodState
<1>2. ((t.fault \/ (c # NoLoad /\ t.ld[c].st # "live"))
         \/ (t.game # NoLoad /\ t.mem[t.game] # "client")) = FALSE
  BY <1>1, CurrentIsLive DEF ClientOK
<1>3. u = [t EXCEPT !.game = NoLoad, !.load = NoLoad, !.ld = f, !.spectator = s,
                    !.pings = g, !.mem = m, !.fault = FALSE]
  BY <1>2 DEF UnloadGame
<1>4. c # NoLoad => c \in Loads /\ t.ld[c] \in LoadSet  BY <1>1, CurrentIsLive, Kept
<1>5. c # NoLoad =>
        /\ q \in LoadSet /\ q.st = t.ld[c].st /\ q.progress = t.ld[c].progress
        /\ q.outstanding = t.ld[c].outstanding /\ q.aborted = TRUE
        /\ q.callback = t.ld[c].callback /\ q.session = t.ld[c].session
        /\ q.results = t.ld[c].results
  BY <1>4 DEF LoadSet
<1> HIDE DEF q
<1>6. f \in [Loads -> LoadSet]  BY <1>1, <1>4, <1>5 DEF StateSet
<1>7. m \in [Loads -> Owners] /\ s \in {"off", "on", "locked"} /\ g \in SUBSET Loads
  BY <1>1 DEF StateSet, Owners
<1>8. \A x \in Loads :
        /\ f[x].st = t.ld[x].st /\ f[x].progress = t.ld[x].progress
        /\ f[x].outstanding = t.ld[x].outstanding /\ f[x].callback = t.ld[x].callback
        /\ f[x].session = t.ld[x].session /\ f[x].results = t.ld[x].results
        /\ t.ld[x].aborted \/ x = c => f[x].aborted
  BY <1>1, <1>4, <1>5, LoadAssumption DEF StateSet
<1>9. \A x \in Loads : m[x] = IF x = t.game THEN "freed" ELSE t.mem[x]
  BY <1>1, LoadAssumption DEF StateSet
<1> HIDE DEF f, m, s, g
<1>10. /\ u \in StateSet /\ u.load = NoLoad /\ u.game = NoLoad /\ u.ld = f /\ u.mem = m
       /\ u.pings = g /\ u.fault = FALSE /\ u.background = t.background /\ u.user = t.user
       /\ u.reqs = t.reqs /\ u.toActivate = t.toActivate /\ u.login = t.login
  BY <1>1, <1>3, <1>6, <1>7, ZenonT(60) DEF StateSet
<1> HIDE DEF u
<1>11. \A x : /\ Fetching(u, x) = Fetching(t, x) /\ Starting(u, x) = Starting(t, x)
              /\ Awaited(u, x) = Awaited(t, x)
  BY <1>10 DEF Fetching, Starting, Awaited
<1>12. ASSUME NEW x \in Loads PROVE LoadOK(u, x)
  <2>1. LoadOK(t, x)  BY DEF GoodState
  <2>2. x \notin g  BY <2>1 DEF LoadOK, g
  <2>3. m[x] # "client"  BY <1>9, <2>1 DEF LoadOK
  <2>4. u.load # x  BY <1>10, LoadAssumption
  <2>5. /\ u.ld[x].st = t.ld[x].st /\ u.ld[x].progress = t.ld[x].progress
        /\ u.ld[x].outstanding = t.ld[x].outstanding /\ u.ld[x].callback = t.ld[x].callback
        /\ u.ld[x].session = t.ld[x].session /\ u.ld[x].results = t.ld[x].results
        /\ t.ld[x].aborted \/ x = c => u.ld[x].aborted
    BY <1>8, <1>10
  <2>6. u.mem[x] = IF x = t.game THEN "freed" ELSE t.mem[x]  BY <1>9, <1>10
  <2>7. x = t.game => t.mem[x] = "client"  BY <1>1, LoadAssumption DEF ClientOK
  <2>8. LiveOK(t, x) => LiveOK(u, x)
    BY <1>10, <1>11, <2>4, <2>5, <2>6, <2>7 DEF LiveOK
  <2>9. QED
    BY <1>10, <1>11, <2>1, <2>2, <2>3, <2>4, <2>5, <2>6, <2>7, <2>8 DEF LoadOK
<1>13. ClientOK(u)  BY <1>1, <1>10 DEF ClientOK
<1>14. GoodState(u)  BY <1>10, <1>12, <1>13 DEF GoodState
<1>15. QED  BY <1>8, <1>10, <1>14 DEF u

\* rc_client_abort_load_in_progress
LEMMA AbortingKeeps ==
  ASSUME NEW t, GoodState(t)
  PROVE  LET u == AbortLoadInProgress(t)
         IN  /\ GoodState(u) /\ u.load = NoLoad
             /\ \A x \in Loads : u.ld[x].st = t.ld[x].st
<1> DEFINE c == t.load
           p == t.ld[c]
           q == [p EXCEPT !.aborted = TRUE]
           f == [t.ld EXCEPT ![c] = q]
           a == [t EXCEPT !.ld[c].aborted = TRUE, !.load = NoLoad,
                          !.fault = @ \/ t.ld[c].st # "live"]
           u == Call(a, c, "aborted")
<1>1. t \in StateSet /\ ClientOK(t) /\ t.fault = FALSE  BY DEF GoodState, ClientOK
<1>2. CASE c = NoLoad
  <2>1. AbortLoadInProgress(t) = t  BY <1>2 DEF AbortLoadInProgress
  <2>2. QED  BY <1>2, <2>1
<1>3. CASE c # NoLoad
  <2>1. /\ c \in Loads /\ p.st = "live" /\ LiveOK(t, c) /\ p.results = << >> /\ p.callback
        /\ p \in LoadSet
    BY <1>1, <1>3, CurrentIsLive, Kept
  <2>2. AbortLoadInProgress(t) = u  BY <1>3 DEF AbortLoadInProgress
  <2>3. /\ q \in LoadSet /\ q.st = p.st /\ q.progress = p.progress
        /\ q.outstanding = p.outstanding /\ q.aborted = TRUE /\ q.callback = p.callback
        /\ q.session = p.session /\ q.results = p.results
    BY <2>1 DEF LoadSet
  <2>4. (t.fault \/ t.ld[c].st # "live") = FALSE  BY <1>1, <2>1
  <2>5. a = [t EXCEPT !.ld = f, !.load = NoLoad, !.fault = FALSE]  BY <2>4
  <2> HIDE DEF q
  <2>6. f \in [Loads -> LoadSet]  BY <1>1, <2>1, <2>3 DEF StateSet
  <2> HIDE DEF f, a
  <2>7. /\ a \in StateSet /\ a.load = NoLoad /\ a.game = t.game /\ a.ld = f /\ a.mem = t.mem
        /\ a.pings = t.pings /\ a.fault = FALSE /\ a.background = t.background
        /\ a.reqs = t.reqs /\ a.toActivate = t.toActivate
    BY <1>1, <2>5, <2>6 DEF StateSet
  <2>8. a.ld[c] = q  BY <1>1, <2>1, <2>7 DEF f, StateSet
  <2>9. "aborted" \in Results  BY DEF Results
  <2>10. PICK q1 \in LoadSet :
           /\ Works(a, u, c, q1, a.mem[c], a.load) /\ Same(a, u)
           /\ q1.results = Heard(q, "aborted")
           /\ q1.st = q.st /\ q1.progress = q.progress /\ q1.outstanding = q.outstanding
           /\ q1.aborted = q.aborted /\ q1.callback = q.callback /\ q1.session = q.session
    BY <2>1, <2>7, <2>8, <2>9, Calling
  <2>11. q1.results = <<"aborted">>
    <3>1. q1.results = Append(<< >>, "aborted")  BY <2>1, <2>3, <2>10 DEF Heard
    <3>2. Append(<< >>, "aborted") = <<"aborted">>  OBVIOUS
    <3>3. QED  BY <3>1, <3>2
  <2> HIDE DEF u
  <2>12. /\ u \in StateSet /\ u.load = NoLoad /\ u.fault = FALSE /\ u.game = t.game
         /\ u.mem = t.mem /\ u.pings = t.pings /\ u.background = t.background
         /\ u.reqs = t.reqs /\ u.toActivate = t.toActivate
         /\ u.ld[c] = q1 /\ \A x \in Loads \ {c} : u.ld[x] = t.ld[x]
    <3>1. u.mem = [a.mem EXCEPT ![c] = a.mem[c]]  BY <2>10 DEF Works
    <3>2. u.mem = t.mem  BY <2>1, <2>7, <3>1, Kept
    <3>3. u.ld = [a.ld EXCEPT ![c] = q1] /\ u \in StateSet /\ u.load = NoLoad /\ u.fault = FALSE
      BY <2>7, <2>10 DEF Works
    <3>4. u.ld[c] = q1 /\ \A x \in Loads \ {c} : u.ld[x] = t.ld[x]
      BY <1>1, <2>1, <2>7, <3>3 DEF f, StateSet
    <3>5. QED  BY <2>7, <2>10, <3>2, <3>3, <3>4 DEF Same
  <2>13. \A x : /\ Fetching(u, x) = Fetching(t, x) /\ Starting(u, x) = Starting(t, x)
                /\ Awaited(u, x) = Awaited(t, x)
    BY <2>12 DEF Fetching, Starting, Awaited
  <2>14. ASSUME NEW x \in Loads PROVE LoadOK(u, x)
    <3>1. LoadOK(t, x)  BY DEF GoodState
    <3>2. u.load # x  BY <2>12, LoadAssumption
    <3>3. CASE x = c
      <4>1. q1.st = "live" /\ q1.aborted  BY <2>1, <2>3, <2>10
      <4>2. LiveOK(u, c)
        BY ZenonT(60), <2>1, <2>3, <2>10, <2>11, <2>12, <2>13, <3>2, <3>3, <4>1 DEF LiveOK
      <4>3. c \notin t.pings
        BY <2>1, <3>1, <3>3, <1>1, <1>3 DEF LoadOK, LiveOK, ClientOK
      <4>4. QED  BY <2>9, <2>11, <2>12, <3>1, <3>3, <4>1, <4>2, <4>3 DEF LoadOK, LiveOK
    <3>4. CASE x # c
      <4>1. u.ld[x] = t.ld[x]  BY <2>12, <3>4
      <4>2. LiveOK(t, x) => LiveOK(u, x)  BY <2>12, <2>13, <3>2, <3>4, <4>1 DEF LiveOK
      <4>3. QED  BY <2>12, <2>13, <3>1, <3>2, <3>4, <4>1, <4>2 DEF LoadOK
    <3>5. QED  BY <3>3, <3>4
  <2>15. ClientOK(u)  BY <1>1, <2>12 DEF ClientOK
  <2>16. \A x \in Loads : u.ld[x].st = t.ld[x].st  BY <2>1, <2>3, <2>10, <2>12
  <2>17. QED  BY <2>2, <2>12, <2>14, <2>15, <2>16 DEF GoodState
<1>4. QED  BY <1>2, <1>3

\* Load l waits for the login: it is in nobody's hands.
LEMMA WaitingIsHandled ==
  ASSUME NEW t, GoodState(t), NEW l \in Loads, t.ld[l].st = "live", t.ld[l].progress = "awaitLogin"
  PROVE  Handled(t, l, 0)
<1>1. t \in StateSet /\ ClientOK(t) /\ LoadOK(t, l) /\ \A x \in Loads \ {l} : LoadOK(t, x)
  BY DEF GoodState
<1>2. LiveOK(t, l)  BY <1>1 DEF LoadOK
<1>3. t.game # l  BY <1>1, <1>2, LoadAssumption DEF ClientOK, LiveOK
<1>4. l \notin t.pings  BY <1>1, <1>3 DEF LoadOK
<1>5. QED  BY <1>1, <1>2, <1>4 DEF Handled, Alone, LiveOK

\* rc_client_logout
LEMMA LoggingOutKeeps ==
  ASSUME NEW t, GoodState(t)
  PROVE  GoodState(LogOut(t))
<1> DEFINE c == t.load
           b == [t EXCEPT !.user = "none", !.account = NoLogin]
           a == UnloadGame(b)
           waiting == c # NoLoad /\ t.ld[c].progress = "awaitLogin"
<1>1. t \in StateSet  BY DEF GoodState
<1>2. /\ b \in StateSet /\ b.spectator = t.spectator /\ b.background = t.background
      /\ b.load = t.load /\ b.game = t.game /\ b.ld = t.ld /\ b.mem = t.mem
      /\ b.toActivate = t.toActivate /\ b.pings = t.pings /\ b.fault = t.fault /\ b.reqs = t.reqs
  BY ZenonT(60), <1>1 DEF StateSet
<1>3. LogOut(t) = IF waiting THEN LoadError(a, c, "aborted") ELSE a  BY DEF LogOut
<1> HIDE DEF b
<1>4. \A x \in Loads : Fetching(b, x) = Fetching(t, x) /\ Starting(b, x) = Starting(t, x)
  BY <1>2 DEF Fetching, Starting
<1>5. GoodState(b)  BY <1>2, <1>4, Unconcerned
<1>6. /\ GoodState(a)
      /\ \A x \in Loads : /\ a.ld[x].st = t.ld[x].st /\ a.ld[x].results = t.ld[x].results
                          /\ a.ld[x].progress = t.ld[x].progress
  BY <1>2, <1>5, UnloadingKeeps
<1> HIDE DEF a
<1>7. CASE waiting
  <2>1. c \in Loads /\ t.ld[c].st = "live" /\ t.ld[c].results = << >>  BY <1>7, CurrentIsLive
  <2>2. a.ld[c].st = "live" /\ a.ld[c].results = << >> /\ a.ld[c].progress = "awaitLogin"
    BY <1>6, <1>7, <2>1
  <2>3. Handled(a, c, 0)  BY <1>6, <2>1, <2>2, WaitingIsHandled
  <2>4. "aborted" \in Results  BY DEF Results
  <2>5. GoodState(LoadError(a, c, "aborted"))  BY <2>1, <2>2, <2>3, <2>4, FailingReleases
  <2>6. QED  BY <1>3, <1>7, <2>5
<1>8. CASE ~waiting  BY <1>3, <1>6, <1>8
<1>9. QED  BY <1>7, <1>8

-----------------------------------------------------------------------------
(* Every action keeps the invariant.                                        *)

\* A record of the state is the state.
LEMMA Becoming ==
  ASSUME NEW u, GoodState(u), Becomes(u)
  PROVE  LoadInv'
<1>1. u \in StateSet  BY DEF GoodState
<1>2. State' = u  BY <1>1 DEF Becomes, State, StateSet
<1>3. QED  BY <1>2 DEF LoadInv

LEMMA Fields ==
  /\ State.user = user /\ State.account = account /\ State.spectator = spectator
  /\ State.background = background /\ State.load = load /\ State.game = game /\ State.ld = ld
  /\ State.mem = mem /\ State.known = known /\ State.login = login /\ State.reqs = reqs
  /\ State.toActivate = toActivate /\ State.pings = pings /\ State.fault = fault
  BY DEF State

LEMMA NextFields ==
  /\ State'.user = user' /\ State'.account = account' /\ State'.spectator = spectator'
  /\ State'.background = background' /\ State'.load = load' /\ State'.game = game' /\ State'.ld = ld'
  /\ State'.mem = mem' /\ State'.known = known' /\ State'.login = login' /\ State'.reqs = reqs'
  /\ State'.toActivate = toActivate' /\ State'.pings = pings' /\ State'.fault = fault'
  BY DEF State

\* What is typed right is in the set of states.
LEMMA Typed ==
  State \in StateSet <=>
    /\ user \in {"none", "requested", "loggedIn"} /\ account \in Logins \cup {NoLogin}
    /\ spectator \in {"off", "on", "locked"} /\ background \in BOOLEAN
    /\ load \in Loads \cup {NoLoad} /\ game \in Loads \cup {NoLoad} /\ ld \in [Loads -> LoadSet]
    /\ mem \in [Loads -> Owners] /\ known \in [Hashes -> {"unasked", "none", "game"}]
    /\ login \in [Logins -> LoginSet]
    /\ reqs \in SUBSET (({"login"} \X Logins) \cup ({"fetch", "start"} \X Loads))
    /\ toActivate \in Seq(Loads) /\ pings \in SUBSET Loads /\ fault \in BOOLEAN
  BY DEF State, StateSet

LEMMA NextTyped ==
  ASSUME user' \in {"none", "requested", "loggedIn"}, account' \in Logins \cup {NoLogin},
         spectator' \in {"off", "on", "locked"}, background' \in BOOLEAN,
         load' \in Loads \cup {NoLoad}, game' \in Loads \cup {NoLoad}, ld' \in [Loads -> LoadSet],
         mem' \in [Loads -> Owners], known' \in [Hashes -> {"unasked", "none", "game"}],
         login' \in [Logins -> LoginSet],
         reqs' \in SUBSET (({"login"} \X Logins) \cup ({"fetch", "start"} \X Loads)),
         toActivate' \in Seq(Loads), pings' \in SUBSET Loads, fault' \in BOOLEAN
  PROVE  State' \in StateSet
  BY DEF State, StateSet

LEMMA BeginLoginKeeps ==
  ASSUME LoadInv, NEW a \in Logins, BeginLogin(a)
  PROVE  LoadInv'
<1>1. State \in StateSet /\ GoodState(State)  BY DEF LoadInv, GoodState
<1>2. login[a] \in LoginSet /\ login \in [Logins -> LoginSet]  BY <1>1, Typed
<1>3. login' \in [Logins -> LoginSet]
  <2>1. [login[a] EXCEPT !.st = "done", !.result = "invalid"] \in LoginSet
    BY <1>2 DEF LoginSet
  <2>2. [login[a] EXCEPT !.st = "waiting"] \in LoginSet  BY <1>2 DEF LoginSet
  <2> DEFINE p == [login[a] EXCEPT !.st = "done", !.result = "invalid"]
             q == [login[a] EXCEPT !.st = "waiting"]
  <2>3. login' = [login EXCEPT ![a] = p] \/ login' = [login EXCEPT ![a] = q]  BY DEF BeginLogin
  <2> HIDE DEF p, q
  <2>4. QED  BY <1>2, <2>1, <2>2, <2>3 DEF p, q
<1>4. State' \in StateSet
  <2>1. reqs' \in SUBSET (({"login"} \X Logins) \cup ({"fetch", "start"} \X Loads))
    BY <1>1, Typed DEF BeginLogin
  <2>2. QED  BY <1>1, <1>3, <2>1, Typed, NextTyped DEF BeginLogin
<1>5. \A x : Fetching(State', x) = Fetching(State, x) /\ Starting(State', x) = Starting(State, x)
  BY Fields, NextFields DEF BeginLogin, Fetching, Starting
<1>6. GoodState(State')  BY <1>1, <1>4, <1>5, Fields, NextFields, Unconcerned DEF BeginLogin
<1>7. QED  BY <1>6 DEF LoadInv

LEMMA AbortLoginKeeps ==
  ASSUME LoadInv, NEW a \in Logins, AbortLogin(a)
  PROVE  LoadInv'
<1>1. State \in StateSet /\ GoodState(State)  BY DEF LoadInv, GoodState
<1>2. login[a] \in LoginSet /\ login \in [Logins -> LoginSet]  BY <1>1, Typed
<1>3. login' \in [Logins -> LoginSet]
  <2> DEFINE p == [login[a] EXCEPT !.aborted = TRUE]
  <2>1. p \in LoginSet  BY <1>2 DEF LoginSet
  <2>2. login' = [login EXCEPT ![a] = p]  BY DEF AbortLogin
  <2> HIDE DEF p
  <2>3. QED  BY <1>2, <2>1, <2>2
<1>4. State' \in StateSet
  <2>1. reqs' \in SUBSET (({"login"} \X Logins) \cup ({"fetch", "start"} \X Loads))
    BY <1>1, Typed DEF AbortLogin
  <2>2. QED  BY <1>1, <1>3, <2>1, Typed, NextTyped DEF AbortLogin
<1>5. \A x : Fetching(State', x) = Fetching(State, x) /\ Starting(State', x) = Starting(State, x)
  BY Fields, NextFields DEF AbortLogin, Fetching, Starting
<1>6. GoodState(State')  BY <1>1, <1>4, <1>5, Fields, NextFields, Unconcerned DEF AbortLogin
<1>7. QED  BY <1>6 DEF LoadInv

LEMMA LogoutKeeps ==
  ASSUME LoadInv, Logout
  PROVE  LoadInv'
<1>1. GoodState(LogOut(State))  BY LoggingOutKeeps DEF LoadInv
<1>2. QED  BY <1>1, Becoming DEF Logout

LEMMA UnloadKeeps ==
  ASSUME LoadInv, Unload
  PROVE  LoadInv'
<1>1. GoodState(UnloadGame(State))  BY UnloadingKeeps DEF LoadInv
<1>2. QED  BY <1>1, Becoming DEF Unload

LEMMA AbortLoadKeeps ==
  ASSUME LoadInv, NEW l \in Loads, AbortLoad(l)
  PROVE  LoadInv'
<1> DEFINE q == [ld[l] EXCEPT !.aborted = TRUE]
<1>1. State \in StateSet /\ GoodState(State) /\ ClientOK(State)  BY DEF LoadInv, GoodState
<1>2. ld[l] \in LoadSet /\ ld \in [Loads -> LoadSet]  BY <1>1, Typed
<1>3. /\ q \in LoadSet /\ q.st = ld[l].st /\ q.progress = ld[l].progress
      /\ q.outstanding = ld[l].outstanding /\ q.aborted = TRUE /\ q.callback = ld[l].callback
      /\ q.session = ld[l].session /\ q.results = ld[l].results
  BY <1>2 DEF LoadSet
<1>4. ld' = [ld EXCEPT ![l] = q]  BY DEF AbortLoad
<1> HIDE DEF q
<1>5. ld' \in [Loads -> LoadSet] /\ ld'[l] = q /\ \A x \in Loads \ {l} : ld'[x] = ld[x]
  BY <1>2, <1>3, <1>4
<1>6. State' \in StateSet
  <2>1. reqs' \in SUBSET (({"login"} \X Logins) \cup ({"fetch", "start"} \X Loads))
    BY <1>1, Typed DEF AbortLoad
  <2>2. QED  BY <1>1, <1>5, <2>1, Typed, NextTyped DEF AbortLoad
<1>7. \A x : /\ Fetching(State', x) = Fetching(State, x) /\ Starting(State', x) = Starting(State, x)
             /\ Awaited(State', x) = Awaited(State, x)
  BY Fields, NextFields DEF AbortLoad, Fetching, Starting, Awaited
<1>8. \A x \in Loads : LoadOK(State, x)  BY <1>1 DEF GoodState
<1>9. Alone(State, l)  BY <1>1, <1>8 DEF Alone
<1>10. \A x \in Loads : (mem[x] = "client" => game = x) /\ (x \in pings => game = x)
  BY <1>8, Fields DEF LoadOK
<1>11. Beside(State, State', l)
  BY <1>5, <1>7, <1>10, Fields, NextFields DEF Beside, AbortLoad
<1>12. \A x \in Loads \ {l} : LoadOK(State', x)  BY <1>9, <1>11, Spread
<1>13. LoadOK(State', l)
  <2>1. LoadOK(State, l)  BY <1>8
  <2>2. LiveOK(State, l) => LiveOK(State', l)
    BY <1>3, <1>5, <1>7, Fields, NextFields DEF LiveOK, AbortLoad
  <2>3. QED  BY <1>3, <1>5, <1>7, <2>1, <2>2, Fields, NextFields DEF LoadOK, AbortLoad
<1>14. ClientOK(State')  BY <1>1, Fields, NextFields DEF ClientOK, AbortLoad
<1>15. GoodState(State')  BY <1>6, <1>12, <1>13, <1>14 DEF GoodState
<1>16. QED  BY <1>15 DEF LoadInv

\* The spectator mode is changed while an activation is queued only if it is called at all then: an
\* activation is queued with background = FALSE alone.
LEMMA SetSpectatorKeeps ==
  ASSUME LoadInv, FALSE \notin SpectatorCalls, NEW enabled \in BOOLEAN, SetSpectator(enabled)
  PROVE  LoadInv'
<1>1. State \in StateSet /\ GoodState(State) /\ ClientOK(State)  BY DEF LoadInv, GoodState
<1>2. background  BY <1>1, Typed DEF SetSpectator
<1>3. State' \in StateSet
  <2>1. reqs' \in SUBSET (({"login"} \X Logins) \cup ({"fetch", "start"} \X Loads))
    BY <1>1, Typed DEF SetSpectator
  <2>2. QED  BY <1>1, <2>1, Typed, NextTyped DEF SetSpectator
<1>4. \A x : /\ Fetching(State', x) = Fetching(State, x) /\ Starting(State', x) = Starting(State, x)
             /\ Awaited(State', x) = Awaited(State, x)
  BY Fields, NextFields DEF SetSpectator, Fetching, Starting, Awaited
<1>5. ASSUME NEW x \in Loads PROVE LoadOK(State', x)
  <2>1. LoadOK(State, x)  BY <1>1 DEF GoodState
  <2>2. LiveOK(State, x) => LiveOK(State', x)
    BY <1>2, <1>4, Fields, NextFields DEF LiveOK, SetSpectator
  <2>3. QED  BY <1>4, <2>1, <2>2, Fields, NextFields DEF LoadOK, SetSpectator
<1>6. ClientOK(State')  BY <1>1, Fields, NextFields DEF ClientOK, SetSpectator
<1>7. QED  BY <1>3, <1>5, <1>6 DEF GoodState, LoadInv

LEMMA BeginLoadKeeps ==
  ASSUME LoadInv, NEW l \in Loads, NEW hs \in Candidates, BeginLoad(l, hs)
  PROVE  LoadInv'
<1> DEFINE c == AbortLoadInProgress(State)
           a == UnloadGame(c)
           b == [a EXCEPT !.ld[l].st = "live", !.ld[l].hash = hs, !.mem[l] = "load", !.load = l]
           p == a.ld[l]
           q == [p EXCEPT !.st = "live", !.hash = hs]
           f == [a.ld EXCEPT ![l] = q]
           m == [a.mem EXCEPT ![l] = "load"]
<1>1. State.ld[l].st = "fresh" /\ Becomes(ProcessResolvedHash(b, l))  BY Fields DEF BeginLoad
<1>2. GoodState(c) /\ \A x \in Loads : c.ld[x].st = State.ld[x].st  BY AbortingKeeps DEF LoadInv
<1>3. /\ GoodState(a) /\ a.load = NoLoad /\ a.game = NoLoad
      /\ \A x \in Loads : a.ld[x].st = c.ld[x].st
  <2> HIDE DEF c
  <2>1. QED  BY <1>2, UnloadingKeeps
<1> HIDE DEF c
<1>4. b = [a EXCEPT !.ld = f, !.mem = m, !.load = l]
  <2> DEFINE f1 == [a.ld EXCEPT ![l] = [p EXCEPT !.st = "live"]]
             a1 == [a EXCEPT !.ld = f1]
             f2 == [f1 EXCEPT ![l] = [f1[l] EXCEPT !.hash = hs]]
             a2 == [a EXCEPT !.ld = f2]
  <2> HIDE DEF a
  <2>1. a \in StateSet /\ a.ld \in [Loads -> LoadSet]  BY <1>3 DEF GoodState, StateSet
  <2>2. a1.ld = f1 /\ a2 = [a1 EXCEPT !.ld = f2] /\ a2.mem = a.mem
    BY <2>1 DEF StateSet
  <2>3. f1[l] = [p EXCEPT !.st = "live"]  BY <2>1
  <2>4. f2 = f  BY <2>1, <2>3 DEF LoadSet
  <2>5. b = [a2 EXCEPT !.mem = m, !.load = l]
    <3>1. b = [[[a1 EXCEPT !.ld = [a1.ld EXCEPT ![l] = [a1.ld[l] EXCEPT !.hash = hs]]]
                   EXCEPT !.mem[l] = "load"] EXCEPT !.load = l]
      BY <2>2 DEF b
    <3>2. QED  BY <2>2, <3>1
  <2>6. [a2 EXCEPT !.mem = m, !.load = l] = [a EXCEPT !.ld = f2, !.mem = m, !.load = l]
    BY <2>1 DEF StateSet
  <2> HIDE DEF a2, f2, f, m
  <2>7. QED  BY <2>4, <2>5, <2>6
<1> HIDE DEF a, b
<1>5. a \in StateSet /\ ClientOK(a) /\ \A x \in Loads : LoadOK(a, x)  BY <1>3 DEF GoodState
<1>6. p \in LoadSet /\ p.st = "fresh" /\ LoadOK(a, l)  BY <1>1, <1>2, <1>3, <1>5, Kept
<1>7. /\ p.results = << >> /\ p.callback /\ p.outstanding = 0 /\ p.progress = "none"
      /\ ~Fetching(a, l) /\ ~Starting(a, l) /\ ~Awaited(a, l) /\ l \notin a.pings
  BY <1>3, <1>6, LoadAssumption DEF LoadOK
<1>8. hs \in Seq(Hashes)  BY LoadAssumption
<1>9. /\ q \in LoadSet /\ q.st = "live" /\ q.results = p.results /\ q.callback = p.callback
      /\ q.outstanding = p.outstanding /\ q.progress = p.progress
  BY <1>6, <1>8 DEF LoadSet, Stages
<1> HIDE DEF q
<1>10. f \in [Loads -> LoadSet] /\ m \in [Loads -> Owners]  BY <1>5, <1>9 DEF StateSet, Owners
<1> HIDE DEF f, m
<1>11. /\ b \in StateSet /\ b.load = l /\ b.game = NoLoad /\ b.ld = f /\ b.mem = m
       /\ b.pings = a.pings /\ b.fault = a.fault /\ b.background = a.background
       /\ b.reqs = a.reqs /\ b.toActivate = a.toActivate
  BY <1>3, <1>4, <1>5, <1>10 DEF StateSet
<1>12. b.ld[l] = q /\ b.mem[l] = "load" /\ \A x \in Loads \ {l} : b.ld[x] = a.ld[x] /\ b.mem[x] = a.mem[x]
  BY <1>5, <1>11 DEF f, m, StateSet
<1>13. \A x : /\ Fetching(b, x) = Fetching(a, x) /\ Starting(b, x) = Starting(a, x)
              /\ Awaited(b, x) = Awaited(a, x)
  BY <1>11 DEF Fetching, Starting, Awaited
<1>14. \A x \in Loads : a.mem[x] # "client" /\ x \notin a.pings /\ a.load # x
  BY <1>3, <1>5, LoadAssumption DEF LoadOK
<1>15. Beside(a, b, l)  BY <1>11, <1>12, <1>13, <1>14 DEF Beside
<1>16. Alone(a, l)  BY <1>5 DEF Alone
<1>17. \A x \in Loads \ {l} : LoadOK(b, x)  BY <1>15, <1>16, Spread
<1>18. ClientOK(b)  BY <1>5, <1>11 DEF ClientOK
<1>19. Handled(b, l, 0)
  BY <1>7, <1>9, <1>11, <1>12, <1>13, <1>17, <1>18 DEF Handled, Alone
<1>20. GoodState(ProcessResolvedHash(b, l))  BY <1>11, <1>19, ResolvingCarries
<1>21. QED  BY <1>1, <1>20, Becoming

LEMMA BeginLoadUnhashableKeeps ==
  ASSUME LoadInv, NEW l \in Loads, BeginLoadUnhashable(l)
  PROVE  LoadInv'
<1> DEFINE a == AbortLoadInProgress(State)
           b == [a EXCEPT !.ld[l].st = "live"]
           p == a.ld[l]
           q == [p EXCEPT !.st = "live"]
           f == [a.ld EXCEPT ![l] = q]
           u == LoadError(b, l, "invalid")
<1>1. State.ld[l].st = "fresh" /\ Becomes(u)  BY Fields DEF BeginLoadUnhashable
<1>2. GoodState(a) /\ a.load = NoLoad /\ \A x \in Loads : a.ld[x].st = State.ld[x].st
  BY AbortingKeeps DEF LoadInv
<1>3. b = [a EXCEPT !.ld = f]  OBVIOUS
<1> HIDE DEF a, b, u
<1>4. a \in StateSet /\ ClientOK(a) /\ \A x \in Loads : LoadOK(a, x)  BY <1>2 DEF GoodState
<1>5. p \in LoadSet /\ p.st = "fresh" /\ LoadOK(a, l)  BY <1>1, <1>2, <1>4, Kept
<1>6. /\ p.results = << >> /\ p.callback /\ p.outstanding = 0 /\ a.mem[l] = "none"
      /\ ~Fetching(a, l) /\ ~Starting(a, l) /\ ~Awaited(a, l)
  BY <1>5 DEF LoadOK
<1>7. a.game # l /\ l \notin a.pings
  BY <1>4, <1>5, <1>6, LoadAssumption DEF LoadOK, ClientOK
<1>8. /\ q \in LoadSet /\ q.st = "live" /\ q.results = p.results /\ q.callback = p.callback
      /\ q.outstanding = p.outstanding
  BY <1>5 DEF LoadSet, Stages
<1> HIDE DEF q
<1>9. f \in [Loads -> LoadSet]  BY <1>4, <1>8 DEF StateSet
<1>10. a.mem = [a.mem EXCEPT ![l] = "none"]  BY ZenonT(60), <1>4, <1>6, Kept
<1> HIDE DEF f
<1>11. /\ b \in StateSet /\ b.ld = f /\ b.mem = a.mem /\ b.load = NoLoad /\ b.fault = FALSE
  BY ZenonT(60), <1>2, <1>3, <1>4, <1>9 DEF StateSet, ClientOK
<1>12. Same(a, b)  BY <1>3, <1>4 DEF Same, StateSet
<1>13. Works(a, b, l, q, "none", a.load)  BY <1>2, <1>8, <1>10, <1>11 DEF Works, f, Owners
<1>14. Alone(a, l)  BY <1>4 DEF Alone
<1>15. /\ Alone(b, l) /\ b.ld[l] = q /\ b.mem[l] = "none"
       /\ Fetching(b, l) = Fetching(a, l) /\ Starting(b, l) = Starting(a, l)
       /\ Awaited(b, l) = Awaited(a, l)
  BY <1>7, <1>12, <1>13, <1>14, StillAlone
<1>16. /\ Live(b, l) /\ b.game # l /\ l \notin b.pings /\ Others(b, l) = NoLoad
  BY <1>7, <1>8, <1>11, <1>12, <1>15 DEF Live, Same, Others
<1>17. "invalid" \in Results  BY DEF Results
<1>18. PICK q1 \in LoadSet, m \in Owners :
         /\ Works(b, u, l, q1, m, Others(b, l)) /\ Same(b, u)
         /\ q1.results = Heard(q, "invalid") /\ q1.st = "freed" /\ m = "none"
  BY <1>6, <1>8, <1>15, <1>16, <1>17, Failing DEF u
<1>19. /\ Alone(u, l) /\ u.ld[l] = q1 /\ u.mem[l] = m
       /\ Fetching(u, l) = Fetching(b, l) /\ Starting(u, l) = Starting(b, l)
       /\ Awaited(u, l) = Awaited(b, l)
  BY <1>15, <1>16, <1>18, StillAlone
<1>20. u.load # l /\ l \notin u.pings  BY <1>16, <1>18, LoadAssumption DEF Works, Same
<1>21. Told(u, q1)
  <2>1. q1.results = Append(<< >>, "invalid")  BY <1>6, <1>8, <1>18 DEF Heard
  <2>2. Append(<< >>, "invalid") = <<"invalid">>  OBVIOUS
  <2>3. QED  BY <1>17, <2>1, <2>2 DEF Told
<1>22. GoodState(u)  BY <1>6, <1>15, <1>18, <1>19, <1>20, <1>21, Released
<1>23. QED  BY <1>1, <1>22, Becoming

Standings == {"none", "requested", "loggedIn"}

\* Who is logged in, and what became of a login call, does not concern the loads.
LEMMA OfTheUser ==
  ASSUME NEW t, GoodState(t), NEW u \in Standings,
         NEW o \in Logins \cup {NoLogin}, NEW g \in [Logins -> LoginSet]
  PROVE  LET v == [t EXCEPT !.user = u, !.account = o, !.login = g]
         IN  GoodState(v)
<1> DEFINE v == [t EXCEPT !.user = u, !.account = o, !.login = g]
<1>1. t \in StateSet  BY DEF GoodState
<1>2. /\ v \in StateSet /\ v.spectator = t.spectator /\ v.background = t.background
      /\ v.load = t.load /\ v.game = t.game /\ v.ld = t.ld /\ v.mem = t.mem
      /\ v.toActivate = t.toActivate /\ v.pings = t.pings /\ v.fault = t.fault /\ v.reqs = t.reqs
  BY ZenonT(60), <1>1 DEF StateSet, Standings
<1> HIDE DEF v
<1>3. \A x \in Loads : Fetching(v, x) = Fetching(t, x) /\ Starting(v, x) = Starting(t, x)
  BY <1>2 DEF Fetching, Starting
<1>4. GoodState(v)  BY <1>2, <1>3, Unconcerned
<1>5. QED  BY <1>4 DEF v

\* A load that waits for the login is resumed.
Resumed(t) == IF t.load # NoLoad /\ t.ld[t.load].progress = "awaitLogin"
              THEN BeginFetchGameSets(t, t.load) ELSE t

LEMMA ResumingKeeps ==
  ASSUME NEW t, GoodState(t)
  PROVE  GoodState(Resumed(t))
<1>1. CASE t.load # NoLoad /\ t.ld[t.load].progress = "awaitLogin"
  <2>1. t.load \in Loads /\ t.ld[t.load].st = "live"  BY <1>1, CurrentIsLive
  <2>2. Handled(t, t.load, 0)  BY <1>1, <2>1, WaitingIsHandled
  <2>3. GoodState(BeginFetchGameSets(t, t.load))  BY <2>1, <2>2, FetchingCarries
  <2>4. QED  BY <1>1, <2>3 DEF Resumed
<1>2. CASE ~(t.load # NoLoad /\ t.ld[t.load].progress = "awaitLogin")
  BY <1>2 DEF Resumed
<1>3. QED  BY <1>1, <1>2

LEMMA LoginAnswerKeeps ==
  ASSUME LoadInv, NEW a \in Logins, NEW outcome \in {"ok", "error"}, LoginAnswer(a, outcome)
  PROVE  LoadInv'
<1> DEFINE r == reqs \ {<<"login", a>>}
           g(p) == [login EXCEPT ![a] = p]
           done == [login[a] EXCEPT !.st = "done"]
           told(x) == [login[a] EXCEPT !.st = "done", !.result = x]
           t == [State EXCEPT !.reqs = r, !.login = g(done)]
           Result(x) == [t EXCEPT !.login[a].result = x]
           Resume(u) == IF load # NoLoad /\ ld[load].progress = "awaitLogin"
                        THEN BeginFetchGameSets(u, load) ELSE u
           none == [Result("aborted") EXCEPT !.user = user, !.account = account]
           failed == [Result("error") EXCEPT !.user = "none"]
           known1 == [Result("ok") EXCEPT !.user = "loggedIn", !.account = a]
<1>1. State \in StateSet /\ GoodState(State)  BY DEF LoadInv, GoodState
<1>2. /\ login[a] \in LoginSet /\ login \in [Logins -> LoginSet]
      /\ user \in Standings /\ account \in Logins \cup {NoLogin} /\ a \in Logins \cup {NoLogin}
      /\ "none" \in Standings /\ "loggedIn" \in Standings
  BY <1>1, Typed DEF Standings
<1>3. Becomes(CASE login[a].aborted -> LogOut(t)
                [] ~login[a].aborted /\ user = "none" -> Result("aborted")
                [] ~login[a].aborted /\ user # "none" /\ outcome = "error" -> Resume(failed)
                [] ~login[a].aborted /\ user # "none" /\ outcome = "ok" -> Resume(known1))
  BY Fields DEF LoginAnswer
<1>4. done \in LoginSet /\ \A x \in {"ok", "error", "aborted"} : told(x) \in LoginSet
  BY <1>2 DEF LoginSet
<1>5. g(done) \in [Logins -> LoginSet]
  <2> HIDE DEF done
  <2>1. QED  BY <1>2, <1>4
<1>6. \A x \in {"ok", "error", "aborted"} : g(told(x)) \in [Logins -> LoginSet]
  <2> HIDE DEF told
  <2>1. QED  BY <1>2, <1>4
<1>7. \A x : [g(done) EXCEPT ![a].result = x] = g(told(x))
  BY <1>2 DEF LoginSet
<1>8. r \in SUBSET (({"login"} \X Logins) \cup ({"fetch", "start"} \X Loads))
  BY <1>1, Fields DEF StateSet
<1> DEFINE h == g(done)
<1>9. \A x : Result(x) = [t EXCEPT !.login = [h EXCEPT ![a].result = x]]
  <2> HIDE DEF h, r
  <2>1. t.login = h  BY <1>1 DEF StateSet, h
  <2>2. QED  BY <2>1
<1> HIDE DEF g, done, told, r
<1>10. /\ t \in StateSet /\ t.spectator = spectator /\ t.background = background /\ t.load = load
       /\ t.game = game /\ t.ld = ld /\ t.mem = mem /\ t.toActivate = toActivate
       /\ t.pings = pings /\ t.fault = fault /\ t.reqs = r /\ t.user = user /\ t.account = account
  BY ZenonT(60), <1>1, <1>5, <1>8, Fields DEF StateSet
<1> HIDE DEF t
<1>11. \A x \in Loads : Fetching(t, x) = Fetching(State, x) /\ Starting(t, x) = Starting(State, x)
  BY <1>10, Fields DEF Fetching, Starting, r
<1>12. GoodState(t)  BY <1>1, <1>10, <1>11, Fields, Unconcerned
<1>13. CASE login[a].aborted
  <2>1. GoodState(LogOut(t))  BY <1>12, LoggingOutKeeps
  <2>2. Becomes(LogOut(t))  BY <1>3, <1>13
  <2>3. QED  BY <2>1, <2>2, Becoming
<1>14. CASE ~login[a].aborted /\ user = "none"
  <2> DEFINE k == g(told("aborted"))
             v == [t EXCEPT !.user = user, !.account = account, !.login = k]
  <2>1. k \in [Logins -> LoginSet]  BY <1>6
  <2>2. Result("aborted") = [t EXCEPT !.login = k]  BY <1>7, <1>9
  <2> HIDE DEF k
  <2>3. v = [t EXCEPT !.login = k]  BY <1>10 DEF StateSet
  <2>4. GoodState(v)  BY <1>2, <1>12, <2>1, OfTheUser
  <2> HIDE DEF v
  <2>5. Becomes(v)  BY <1>3, <1>14, <2>2, <2>3
  <2>6. QED  BY <2>4, <2>5, Becoming
<1>15. CASE ~login[a].aborted /\ user # "none" /\ outcome = "error"
  <2> DEFINE k == g(told("error"))
             v == [t EXCEPT !.user = "none", !.account = account, !.login = k]
  <2>1. k \in [Logins -> LoginSet]  BY <1>6
  <2>2. Result("error") = [t EXCEPT !.login = k]  BY <1>7, <1>9
  <2> HIDE DEF k
  <2>3. failed = v  BY <1>10, <2>2 DEF StateSet
  <2>4. GoodState(v) /\ v.ld = t.ld /\ v.load = t.load
    <3>1. GoodState(v)  BY <1>2, <1>12, <2>1, OfTheUser
    <3>2. v.ld = t.ld /\ v.load = t.load  BY <1>10 DEF StateSet
    <3>3. QED  BY <3>1, <3>2
  <2> HIDE DEF v
  <2>5. Resume(failed) = Resumed(v)  BY <1>10, <2>3, <2>4 DEF Resumed
  <2>6. GoodState(Resumed(v))  BY <2>4, ResumingKeeps
  <2>7. Becomes(Resumed(v))  BY <1>3, <1>15, <2>5
  <2>8. QED  BY <2>6, <2>7, Becoming
<1>16. CASE ~login[a].aborted /\ user # "none" /\ outcome = "ok"
  <2> DEFINE k == g(told("ok"))
             v == [t EXCEPT !.user = "loggedIn", !.account = a, !.login = k]
  <2>1. k \in [Logins -> LoginSet]  BY <1>6
  <2>2. Result("ok") = [t EXCEPT !.login = k]  BY <1>7, <1>9
  <2> HIDE DEF k
  <2>3. known1 = v  BY <1>10, <2>2 DEF StateSet
  <2>4. GoodState(v) /\ v.ld = t.ld /\ v.load = t.load
    <3>1. GoodState(v)  BY <1>2, <1>12, <2>1, OfTheUser
    <3>2. v.ld = t.ld /\ v.load = t.load  BY <1>10 DEF StateSet
    <3>3. QED  BY <3>1, <3>2
  <2> HIDE DEF v
  <2>5. Resume(known1) = Resumed(v)  BY <1>10, <2>3, <2>4 DEF Resumed
  <2>6. GoodState(Resumed(v))  BY <2>4, ResumingKeeps
  <2>7. Becomes(Resumed(v))  BY <1>3, <1>16, <2>5
  <2>8. QED  BY <2>6, <2>7, Becoming
<1>17. QED  BY <1>13, <1>14, <1>15, <1>16

\* A request that is answered leaves its load in the hands of the handler, which has to count it off.
LEMMA AnsweredIsHandled ==
  ASSUME NEW t, GoodState(t), NEW l \in Loads, NEW api \in Apis, <<api, l>> \in t.reqs
  PROVE  LET u == [t EXCEPT !.reqs = @ \ {<<api, l>>}]
         IN  /\ Handled(u, l, 1) /\ u.ld = t.ld /\ u.load = t.load
             /\ t.ld[l].progress # "awaitLogin" /\ (~t.ld[l].aborted => t.load = l)
<1> DEFINE u == [t EXCEPT !.reqs = @ \ {<<api, l>>}]
<1>1. t \in StateSet /\ ClientOK(t) /\ LoadOK(t, l) /\ \A x \in Loads \ {l} : LoadOK(t, x)
  BY DEF GoodState
<1>2. (api = "fetch" \/ api = "start") /\ (Fetching(t, l) \/ Starting(t, l))
  BY DEF Apis, Fetching, Starting
<1>3. /\ api = "fetch" => Fetching(t, l)
      /\ api = "start" => Starting(t, l)
  BY DEF Fetching, Starting
<1>4. t.ld[l].st = "live" /\ LiveOK(t, l)  BY <1>1, <1>2 DEF LoadOK
<1>5. t.game # l  BY <1>1, <1>4, LoadAssumption DEF ClientOK, LiveOK
<1>6. l \notin t.pings  BY <1>1, <1>5 DEF LoadOK
<1>7. Alone(t, l)  BY <1>1 DEF Alone
<1>8. /\ Alone(u, l) /\ u.ld = t.ld /\ u.mem = t.mem /\ u.load = t.load /\ u.pings = t.pings
      /\ Awaited(u, l) = Awaited(t, l)
      /\ Fetching(u, l) => Fetching(t, l) /\ api # "fetch"
      /\ Starting(u, l) => Starting(t, l) /\ api # "start"
  BY <1>5, <1>7, Answering
<1> HIDE DEF u
<1>9. ~Fetching(u, l) /\ ~Starting(u, l) /\ ~Awaited(u, l)
  BY <1>2, <1>3, <1>4, <1>8 DEF LiveOK
<1>10. Handled(u, l, 1)  BY <1>2, <1>4, <1>6, <1>8, <1>9 DEF Handled, LiveOK
<1>11. t.ld[l].progress # "awaitLogin" /\ (~t.ld[l].aborted => t.load = l)
  BY <1>2, <1>4 DEF LiveOK
<1>12. QED  BY <1>8, <1>10, <1>11 DEF u

LEMMA FetchAnswerKeeps ==
  ASSUME LoadInv, NEW l \in Loads, NEW outcome \in FetchOutcomes, "nosets" \notin FetchOutcomes,
         NEW refused \in BOOLEAN, FetchAnswer(l, outcome, refused)
  PROVE  LoadInv'
<1> DEFINE t == [State EXCEPT !.reqs = @ \ {<<"fetch", l>>}]
<1>1. /\ GoodState(State) /\ <<"fetch", l>> \in State.reqs
      /\ Becomes(IF State.ld[l].aborted THEN LoadAborted(t, l)
                 ELSE FetchAnswered(t, l, outcome, refused))
  BY Fields DEF LoadInv, FetchAnswer
<1>2. "fetch" \in Apis  BY DEF Apis
<1>3. /\ Handled(t, l, 1) /\ t.load = State.load /\ (~State.ld[l].aborted => State.load = l)
  BY <1>1, <1>2, AnsweredIsHandled
<1> HIDE DEF t
<1>4. outcome \in {"game", "unknown", "error"}  BY LoadAssumption DEF AllFetchOutcomes
<1>5. CASE State.ld[l].aborted
  <2>1. GoodState(LoadAborted(t, l))  BY <1>3, AbortingReleases
  <2>2. Becomes(LoadAborted(t, l))  BY <1>1, <1>5
  <2>3. QED  BY <2>1, <2>2, Becoming
<1>6. CASE ~State.ld[l].aborted
  <2>1. t.load = l  BY <1>3, <1>6
  <2>2. GoodState(FetchAnswered(t, l, outcome, refused))  BY <1>3, <1>4, <2>1, FetchedCarries
  <2>3. Becomes(FetchAnswered(t, l, outcome, refused))  BY <1>1, <1>6
  <2>4. QED  BY <2>2, <2>3, Becoming
<1>7. QED  BY <1>5, <1>6

LEMMA StartSessionAnswerKeeps ==
  ASSUME LoadInv, NEW l \in Loads, NEW outcome \in {"ok", "error"}, StartSessionAnswer(l, outcome)
  PROVE  LoadInv'
<1> DEFINE t == [State EXCEPT !.reqs = @ \ {<<"start", l>>}]
<1>1. /\ GoodState(State) /\ <<"start", l>> \in State.reqs
      /\ Becomes(IF State.ld[l].aborted THEN LoadAborted(t, l)
                 ELSE StartSessionAnswered(t, l, outcome))
  BY Fields DEF LoadInv, StartSessionAnswer
<1>2. "start" \in Apis  BY DEF Apis
<1>3. /\ Handled(t, l, 1) /\ t.ld = State.ld /\ t.load = State.load
      /\ State.ld[l].progress # "awaitLogin" /\ (~State.ld[l].aborted => State.load = l)
  BY <1>1, <1>2, AnsweredIsHandled
<1> HIDE DEF t
<1>4. CASE State.ld[l].aborted
  <2>1. GoodState(LoadAborted(t, l))  BY <1>3, AbortingReleases
  <2>2. Becomes(LoadAborted(t, l))  BY <1>1, <1>4
  <2>3. QED  BY <2>1, <2>2, Becoming
<1>5. CASE ~State.ld[l].aborted
  <2>1. t.load = l /\ t.ld[l].progress # "awaitLogin"  BY <1>3, <1>5
  <2>2. GoodState(StartSessionAnswered(t, l, outcome))  BY <1>3, <2>1, StartedCarries
  <2>3. Becomes(StartSessionAnswered(t, l, outcome))  BY <1>1, <1>5
  <2>4. QED  BY <2>2, <2>3, Becoming
<1>6. QED  BY <1>4, <1>5

\* The activation that was queued first is dispatched: it was queued once, for a load nothing else
\* holds.
LEMMA DispatchKeeps ==
  ASSUME LoadInv, DispatchActivate
  PROVE  LoadInv'
<1> DEFINE s == State.toActivate
           l == Head(s)
           w == Tail(s)
           t == [State EXCEPT !.toActivate = w]
<1>1. /\ GoodState(State) /\ s # << >>
      /\ Becomes(ActivateGame(t, l, State.ld[l].session))
  BY Fields DEF LoadInv, DispatchActivate
<1>2. /\ State \in StateSet /\ ClientOK(State) /\ s \in Seq(Loads)
      /\ \A x \in Loads : LoadOK(State, x)
  BY <1>1 DEF GoodState, StateSet
<1>3. /\ l \in Loads /\ l = s[1] /\ 1 \in DOMAIN s /\ w \in Seq(Loads) /\ DOMAIN w = 1 .. (Len(s) - 1)
      /\ DOMAIN s = 1 .. Len(s) /\ Len(s) \in Nat
      /\ \A i \in DOMAIN w : w[i] = s[i + 1] /\ i + 1 \in DOMAIN s /\ i + 1 # 1
  BY <1>1, <1>2
<1>4. \A i \in DOMAIN s : i = 1 \/ (i - 1 \in DOMAIN w /\ s[i] = w[i - 1])
  <2>1. ASSUME NEW i \in DOMAIN s, i # 1 PROVE i - 1 \in DOMAIN w /\ s[i] = w[i - 1]
    <3>1. i \in Int /\ i - 1 \in 1 .. (Len(s) - 1) /\ (i - 1) + 1 = i  BY <1>3, <2>1
    <3> HIDE DEF w, s
    <3>2. QED  BY <1>3, <3>1
  <2>2. QED  BY <2>1
<1> HIDE DEF l, w
<1>5. /\ t \in StateSet /\ t.toActivate = w /\ t.spectator = State.spectator
      /\ t.background = State.background /\ t.load = State.load /\ t.game = State.game
      /\ t.ld = State.ld /\ t.mem = State.mem /\ t.pings = State.pings
      /\ t.fault = State.fault /\ t.reqs = State.reqs
  BY <1>2, <1>3 DEF StateSet
<1> HIDE DEF t
<1>6. Awaited(State, l)  BY <1>3 DEF Awaited
<1>7. LoadOK(State, l)  BY <1>2, <1>3
<1>8. State.ld[l].st = "live" /\ LiveOK(State, l)  BY <1>6, <1>7 DEF LoadOK
<1>9. \A i, j \in DOMAIN s : s[i] = s[j] => i = j  BY <1>2 DEF ClientOK
<1>10. ~Awaited(t, l)
  <2>1. \A i \in DOMAIN w : w[i] # l  BY <1>3, <1>9
  <2>2. QED  BY <1>5, <2>1 DEF Awaited
<1>11. ASSUME NEW x \in Loads \ {l} PROVE Awaited(t, x) = Awaited(State, x)
  <2>1. Awaited(t, x) => Awaited(State, x)
    <3>1. SUFFICES ASSUME NEW i \in DOMAIN w, w[i] = x PROVE \E k \in DOMAIN s : s[k] = x
      BY <1>5 DEF Awaited
    <3>2. QED  BY <1>3, <3>1
  <2>2. Awaited(State, x) => Awaited(t, x)
    <3>1. SUFFICES ASSUME NEW i \in DOMAIN s, s[i] = x PROVE \E k \in DOMAIN w : w[k] = x
      BY <1>5 DEF Awaited
    <3>2. i # 1  BY <1>3, <3>1
    <3>3. QED  BY <1>4, <3>1, <3>2
  <2>3. QED  BY <2>1, <2>2 DEF Awaited
<1>12. \A x : Fetching(t, x) = Fetching(State, x) /\ Starting(t, x) = Starting(State, x)
  BY <1>5 DEF Fetching, Starting
<1>13. \A x \in Loads : (State.mem[x] = "client" => State.game = x) /\ (x \in State.pings => State.game = x)
  BY <1>2 DEF LoadOK
<1>14. Beside(State, t, l)  BY <1>5, <1>11, <1>12, <1>13 DEF Beside
<1>15. Alone(State, l)  BY <1>2 DEF Alone
<1>16. \A x \in Loads \ {l} : LoadOK(t, x)  BY <1>3, <1>14, <1>15, Spread
<1>17. ClientOK(t)
  <2>1. \A i, j \in DOMAIN w : w[i] = w[j] => i = j
    <3>1. ASSUME NEW i \in DOMAIN w, NEW j \in DOMAIN w, w[i] = w[j] PROVE i = j
      <4>1. i + 1 = j + 1  BY <1>3, <1>9, <3>1
      <4>2. i \in Int /\ j \in Int  BY <1>3
      <4>3. QED  BY <4>1, <4>2
    <3>2. QED  BY <3>1
  <2>2. QED  BY <1>2, <1>5, <2>1 DEF ClientOK
<1>18. State.game # l  BY <1>2, <1>3, <1>8, LoadAssumption DEF ClientOK, LiveOK
<1>19. Handled(t, l, 0)
  <2>1. Alone(t, l)  BY <1>5, <1>16, <1>17 DEF Alone
  <2>2. l \notin t.pings  BY <1>3, <1>5, <1>13, <1>18
  <2>3. ~Fetching(t, l) /\ ~Starting(t, l)  BY <1>6, <1>8, <1>12 DEF LiveOK
  <2>4. QED  BY <1>5, <1>6, <1>8, <1>10, <2>1, <2>2, <2>3 DEF Handled, LiveOK
<1>20. t.load = l => t.ld[l].session \/ t.spectator = "locked"  BY <1>5, <1>6, <1>8 DEF LiveOK
<1>21. ~t.background  BY <1>5, <1>6, <1>8 DEF LiveOK
<1>22. GoodState(ActivateGame(t, l, t.ld[l].session))
  BY <1>3, <1>19, <1>20, <1>21, ActivatingReleases
<1>23. QED  BY <1>1, <1>5, <1>22, Becoming

LEMMA InitOK == Init => LoadInv
<1> SUFFICES ASSUME Init PROVE LoadInv
  OBVIOUS
<1>1. FreshLoad \in LoadSet
  BY DEF FreshLoad, LoadSet, Stages, Progresses
<1>2. FreshLogin \in LoginSet  BY DEF FreshLogin, LoginSet
<1>3. ld \in [Loads -> LoadSet] /\ login \in [Logins -> LoginSet]
      /\ mem \in [Loads -> Owners] /\ known \in [Hashes -> {"unasked", "none", "game"}]
  <2> HIDE DEF FreshLoad, FreshLogin
  <2>1. QED  BY <1>1, <1>2 DEF Init, Owners
<1>4. State \in StateSet
  <2>1. /\ user \in {"none", "requested", "loggedIn"} /\ account \in Logins \cup {NoLogin}
        /\ spectator \in {"off", "on", "locked"} /\ background \in BOOLEAN
        /\ load \in Loads \cup {NoLoad} /\ game \in Loads \cup {NoLoad}
    BY LoadAssumption DEF Init
  <2>2. /\ reqs \in SUBSET (({"login"} \X Logins) \cup ({"fetch", "start"} \X Loads))
        /\ toActivate \in Seq(Loads) /\ pings \in SUBSET Loads /\ fault \in BOOLEAN
    <3>1. reqs = {} /\ toActivate = << >> /\ pings = {} /\ fault = FALSE  BY DEF Init
    <3>2. << >> \in Seq(Loads)  OBVIOUS
    <3>3. \A S : {} \in SUBSET S  OBVIOUS
    <3>4. QED  BY <3>1, <3>2, <3>3
  <2>3. QED  BY <1>3, <2>1, <2>2, Typed
<1>5. ClientOK(State)  BY Fields DEF Init, ClientOK
<1>6. ASSUME NEW x \in Loads PROVE LoadOK(State, x)
  <2>1. ld[x] = FreshLoad /\ mem[x] = "none" /\ load # x  BY LoadAssumption DEF Init
  <2>2. ~Fetching(State, x) /\ ~Starting(State, x) /\ ~Awaited(State, x) /\ x \notin pings
    BY Fields DEF Init, Fetching, Starting, Awaited
  <2>3. /\ FreshLoad.st = "fresh" /\ FreshLoad.results = << >> /\ FreshLoad.callback
        /\ FreshLoad.outstanding = 0 /\ ~FreshLoad.session /\ FreshLoad.progress = "none"
    BY DEF FreshLoad
  <2>4. QED  BY <2>1, <2>2, <2>3, Fields DEF LoadOK
<1>7. QED  BY <1>4, <1>5, <1>6 DEF LoadInv, GoodState

\* The inductive step: one action after the other, and the steps that change nothing.
LEMMA NextKeeps ==
  ASSUME "nosets" \notin FetchOutcomes, FALSE \notin SpectatorCalls
  PROVE  LoadInv /\ [Next]_vars => LoadInv'
<1> SUFFICES ASSUME LoadInv, [Next]_vars PROVE LoadInv'
  OBVIOUS
<1>1. CASE UNCHANGED vars
  BY <1>1 DEF vars, LoadInv, State
<1>2. CASE UserStep
  BY <1>2, BeginLoginKeeps, AbortLoginKeeps, BeginLoadKeeps, BeginLoadUnhashableKeeps, AbortLoadKeeps,
     LogoutKeeps, UnloadKeeps, SetSpectatorKeeps DEF UserStep
<1>3. ASSUME NEW a \in Logins, AnswerLogin(a) PROVE LoadInv'
  BY <1>3, LoginAnswerKeeps DEF AnswerLogin
<1>4. ASSUME NEW l \in Loads, AnswerFetch(l) PROVE LoadInv'
  BY <1>4, FetchAnswerKeeps DEF AnswerFetch
<1>5. ASSUME NEW l \in Loads, AnswerStart(l) PROVE LoadInv'
  BY <1>5, StartSessionAnswerKeeps DEF AnswerStart
<1>6. CASE DispatchActivate
  BY <1>6, DispatchKeeps
<1>7. QED  BY <1>1, <1>2, <1>3, <1>4, <1>5, <1>6 DEF Next

-----------------------------------------------------------------------------
(* The theorems.                                                            *)

\* The requests of a load that is live are one or none.
LEMMA CountOfRequests ==
  ASSUME LoadInv, NEW l \in Loads, ld[l].st = "live"
  PROVE  ld[l].outstanding = Cardinality(RequestsOf(l))
<1>1. State \in StateSet /\ LoadOK(State, l)  BY DEF LoadInv, GoodState
<1>2. LiveOK(State, l)  BY <1>1, Fields DEF LoadOK
<1>3. reqs \in SUBSET (({"login"} \X Logins) \cup ({"fetch", "start"} \X Loads))
  BY <1>1, Typed
<1>4. \A r \in RequestsOf(l) : r = <<"fetch", l>> \/ r = <<"start", l>>
  BY <1>3 DEF RequestsOf
<1>5. /\ <<"fetch", l>> \in RequestsOf(l) <=> Fetching(State, l)
      /\ <<"start", l>> \in RequestsOf(l) <=> Starting(State, l)
  BY Fields DEF RequestsOf, Fetching, Starting
<1>6. CASE Fetching(State, l)
  <2>1. RequestsOf(l) = {<<"fetch", l>>}  BY <1>2, <1>4, <1>5, <1>6 DEF LiveOK
  <2>2. QED  BY <1>2, <1>6, <2>1, FS_Singleton, Fields DEF LiveOK
<1>7. CASE Starting(State, l)
  <2>1. RequestsOf(l) = {<<"start", l>>}  BY <1>2, <1>4, <1>5, <1>7 DEF LiveOK
  <2>2. QED  BY <1>2, <1>7, <2>1, FS_Singleton, Fields DEF LiveOK
<1>8. CASE ~Fetching(State, l) /\ ~Starting(State, l)
  <2>1. RequestsOf(l) = {}  BY <1>4, <1>5, <1>8
  <2>2. QED  BY <1>2, <1>8, <2>1, FS_EmptySet, Fields DEF LiveOK
<1>9. QED  BY <1>6, <1>7, <1>8

LEMMA InvHolds == LoadInv => HeldWhileOutstanding
<1> SUFFICES ASSUME LoadInv PROVE HeldWhileOutstanding
  OBVIOUS
<1>1. State \in StateSet /\ ClientOK(State) /\ \A l \in Loads : LoadOK(State, l)
  BY DEF LoadInv, GoodState
<1>2. TypeOK
  <2>1. ld \in [Loads -> LoadSet]  BY <1>1, Typed
  <2>2. \A l \in Loads :
          /\ ld[l].st \in {"fresh", "live", "freed"}
          /\ ld[l].progress \in {"none", "awaitLogin", "fetching", "identifying",
                                 "starting", "aborted"}
          /\ ld[l].outstanding \in Nat
          /\ ld[l].hash \in Seq(Hashes)
          /\ ld[l].results \in Seq(Results)
    <3>1. ASSUME NEW p \in LoadSet
          PROVE  /\ p.st \in {"fresh", "live", "freed"}
                 /\ p.progress \in {"none", "awaitLogin", "fetching", "identifying",
                                    "starting", "aborted"}
                 /\ p.outstanding \in Nat /\ p.hash \in Seq(Hashes) /\ p.results \in Seq(Results)
      BY DEF LoadSet, Stages, Progresses
    <3>2. QED  BY <2>1, <3>1
  <2>3. mem \in [Loads -> {"none", "load", "client", "freed"}]  BY <1>1, Typed DEF Owners
  <2>4. QED  BY <1>1, <2>2, <2>3, Typed DEF TypeOK
<1>3. NoUseAfterFree  BY <1>1, Fields DEF NoUseAfterFree, ClientOK
<1>4. OutstandingCounts  BY CountOfRequests DEF OutstandingCounts, LiveLoads
<1>5. OnlyAwaitingLoadsLeak
  <2>1. SUFFICES ASSUME NEW l \in Loads, ld[l].st = "live"
                 PROVE  \/ load = l \/ RequestsOf(l) # {} \/ Queued(l)
                        \/ ld[l].aborted /\ ld[l].progress = "awaitLogin"
    BY DEF OnlyAwaitingLoadsLeak, LiveLoads
  <2>2. LiveOK(State, l)  BY <1>1, <2>1, Fields DEF LoadOK
  <2>3. Fetching(State, l) => <<"fetch", l>> \in RequestsOf(l)
    BY Fields DEF Fetching, RequestsOf
  <2>4. Starting(State, l) => <<"start", l>> \in RequestsOf(l)
    BY Fields DEF Starting, RequestsOf
  <2>5. Awaited(State, l) => Queued(l)  BY Fields DEF Awaited, Queued
  <2>6. QED  BY <2>2, <2>3, <2>4, <2>5, Fields DEF LiveOK
<1>6. QED  BY <1>2, <1>3, <1>4, <1>5 DEF HeldWhileOutstanding

LEMMA InvTells == LoadInv => CalledTwiceOnlyWhenQueued
<1> SUFFICES ASSUME LoadInv, NEW l \in Loads
             PROVE  Len(ld[l].results) <= 1 \/ (~background /\ ld[l].results = <<"aborted", "aborted">>)
  BY DEF CalledTwiceOnlyWhenQueued
<1>1. \/ ld[l].results = << >> \/ \E r \in Results : ld[l].results = <<r>>
      \/ ~background /\ ld[l].results = <<"aborted", "aborted">>
  BY Fields DEF LoadInv, GoodState, LoadOK
<1>2. Len(<< >>) = 0 /\ \A r \in Results : Len(<<r>>) = 1  OBVIOUS
<1>3. CASE ld[l].results = << >>  BY <1>2, <1>3
<1>4. CASE \E r \in Results : ld[l].results = <<r>>  BY <1>2, <1>4
<1>5. QED  BY <1>1, <1>3, <1>4

LEMMA InvOwns == LoadInv => GameOwned
<1> SUFFICES ASSUME LoadInv PROVE GameOwned
  OBVIOUS
<1>1. State \in StateSet /\ ClientOK(State) /\ \A l \in Loads : LoadOK(State, l)
  BY DEF LoadInv, GoodState
<1>2. \A l \in pings : l \in Loads /\ game = l /\ (background => ld[l].session)
  BY <1>1, Typed, Fields DEF LoadOK
<1>3. \A l \in Loads : (mem[l] = "client" => game = l) /\ (ld[l].st = "freed" => mem[l] # "load")
  BY <1>1, Fields DEF LoadOK
<1>4. GameOwnership  BY <1>1, <1>2, <1>3, LoadAssumption, Fields DEF GameOwnership, ClientOK
<1>5. PingHasSession  BY <1>2 DEF PingHasSession
<1>6. QED  BY <1>4, <1>5 DEF GameOwned

LEMMA LoadInvariant ==
  ASSUME "nosets" \notin FetchOutcomes, FALSE \notin SpectatorCalls
  PROVE  Spec => []LoadInv
  BY InitOK, NextKeeps, PTL DEF Spec

\* Whatever the order of calls and answers, and however many loads there are, no handler uses a
\* load_state or a game that was freed, the count of outstanding requests is right, and nothing but a
\* load that waited for a login is left behind (rc_client_end_load_state, rc_client_load_error,
\* rc_client_load_aborted).  Not for a server that answers without sets, and not if the spectator
\* mode is changed while an activation is queued.
THEOREM MemoryHeld ==
  ASSUME "nosets" \notin FetchOutcomes, FALSE \notin SpectatorCalls
  PROVE  Spec => []HeldWhileOutstanding
  BY LoadInvariant, InvHolds, PTL

\* The callback of a load is called once, or twice if the load was superseded while its activation
\* was queued (rc_client_abort_load_in_progress and then rc_client_activate_game).
THEOREM CalledBack ==
  ASSUME "nosets" \notin FetchOutcomes, FALSE \notin SpectatorCalls
  PROVE  Spec => []CalledTwiceOnlyWhenQueued
  BY LoadInvariant, InvTells, PTL

\* The game that is active is the one that was activated last, it is nobody else's memory, and a ping
\* is scheduled for it alone (rc_client_activate_game, rc_client_unload_game).
THEOREM OwnedByTheClient ==
  ASSUME "nosets" \notin FetchOutcomes, FALSE \notin SpectatorCalls
  PROVE  Spec => []GameOwned
  BY LoadInvariant, InvOwns, PTL

-----------------------------------------------------------------------------
(* What becomes of the active game.                                         *)

\* A record of the variables with the active game g.
Gamed(t, g) == {"game", "user"} \subseteq DOMAIN t /\ t.game = g /\ t.user \in Standings

LEMMA CallGame ==
  ASSUME NEW t, NEW g, Gamed(t, g), NEW l, NEW r
  PROVE  Gamed(Call(t, l, r), g)
  BY DEF Gamed, Call

LEMMA FreeGame ==
  ASSUME NEW t, NEW g, Gamed(t, g), NEW l
  PROVE  Gamed(FreeLoadState(t, l), g)
  BY DEF Gamed, FreeLoadState

LEMMA ErrorGame ==
  ASSUME NEW t, NEW g, Gamed(t, g), NEW l, NEW r
  PROVE  Gamed(LoadError(t, l, r), g)
<1> DEFINE s == [t EXCEPT !.ld[l].progress = "aborted", !.load = IF @ = l THEN NoLoad ELSE @,
                          !.fault = @ \/ t.ld[l].st # "live"]
<1>1. Gamed(s, g)  BY DEF Gamed
<1> HIDE DEF s
<1>2. Gamed(Call(s, l, r), g) /\ Gamed(FreeLoadState(Call(s, l, r), l), g)
  BY <1>1, CallGame, FreeGame
<1>3. LoadError(t, l, r) \in {Call(s, l, r), FreeLoadState(Call(s, l, r), l)}
  BY DEF LoadError, s
<1>4. QED  BY <1>2, <1>3

LEMMA EndGame ==
  ASSUME NEW t, NEW g, Gamed(t, g), NEW l
  PROVE  Gamed(EndLoadState(t, l), g)
<1> DEFINE left == Left(t.ld[l])
           a == CountOff(t, l)
           b == Call(a, l, "aborted")
<1> HIDE DEF left
<1>1. Gamed(a, g)
  <2> DEFINE f == [t.ld EXCEPT ![l].outstanding = left]
             r == [t EXCEPT !.ld = f]
             v == t.fault \/ t.ld[l].st # "live"
  <2>1. a = [r EXCEPT !.fault = v]  BY DEF CountOff, left
  <2> HIDE DEF f, v
  <2>2. Gamed(r, g)  BY SMTT(60) DEF Gamed
  <2> HIDE DEF r
  <2>3. QED  BY <2>1, <2>2 DEF Gamed
<1>2. EndLoadState(t, l) \in {a, FreeLoadState(a, l), FreeLoadState(b, l)}
  BY ONLY Zenon DEF EndLoadState
<1> HIDE DEF a
<1>3. Gamed(b, g)  BY <1>1, CallGame
<1> HIDE DEF b
<1>4. Gamed(FreeLoadState(a, l), g) /\ Gamed(FreeLoadState(b, l), g)  BY <1>1, <1>3, FreeGame
<1>5. QED  BY <1>1, <1>2, <1>4

LEMMA AbortedGame ==
  ASSUME NEW t, NEW g, Gamed(t, g), NEW l
  PROVE  Gamed(LoadAborted(t, l), g)
<1> DEFINE s == [t EXCEPT !.ld[l].callback = FALSE]
<1>1. Gamed(s, g)  BY DEF Gamed
<1> HIDE DEF s
<1>2. Gamed(EndLoadState(LoadError(s, l, "aborted"), l), g)  BY <1>1, ErrorGame, EndGame
<1>3. QED  BY <1>2 DEF LoadAborted, s

LEMMA RequestGame ==
  ASSUME NEW t, NEW g, Gamed(t, g), NEW l, NEW progress, NEW api
  PROVE  Gamed(BeginRequest(t, l, progress, api), g)
  BY DEF Gamed, BeginRequest

LEMMA FetchSetsGame ==
  ASSUME NEW t, NEW g, Gamed(t, g), NEW l
  PROVE  Gamed(BeginFetchGameSets(t, l), g)
<1> DEFINE a == [t EXCEPT !.ld[l].progress = IF t.user = "requested" THEN "awaitLogin" ELSE "fetching",
                          !.fault = @ \/ t.ld[l].st # "live"]
<1>1. Gamed(a, g)  BY DEF Gamed
<1>2. BeginFetchGameSets(t, l)
        \in {a, BeginRequest(a, l, "identifying", "fetch"), LoadError(a, l, "loginRequired")}
  BY DEF BeginFetchGameSets, Standings, Gamed
<1> HIDE DEF a
<1>3. Gamed(BeginRequest(a, l, "identifying", "fetch"), g) /\ Gamed(LoadError(a, l, "loginRequired"), g)
  BY <1>1, RequestGame, ErrorGame
<1>4. QED  BY <1>1, <1>2, <1>3

\* Only two of the functions make a game the active one: that of the load they are called for.
Either(u, g, l) == Gamed(u, g) \/ Gamed(u, l)

LEMMA ResolvedGame ==
  ASSUME NEW t, NEW g, Gamed(t, g), NEW l
  PROVE  Either(ProcessResolvedHash(t, l), g, l)
<1> DEFINE rest == t.ld[l].hash
           live == {i \in DOMAIN rest : t.known[rest[i]] # "none"}
           first == CHOOSE i \in live : \A j \in live : i <= j
           a == [t EXCEPT !.ld[l].hash = SubSeq(@, first, Len(@))]
           b == [t EXCEPT !.game = l, !.mem[l] = "client"]
<1>1. Gamed(a, g) /\ Gamed(b, l)
  <2> HIDE DEF first
  <2>1. QED  BY DEF Gamed
<1>2. ProcessResolvedHash(t, l) \in {BeginFetchGameSets(a, l), LoadError(b, l, "noGame")}
  BY DEF ProcessResolvedHash
<1> HIDE DEF a, b
<1>3. Gamed(BeginFetchGameSets(a, l), g) /\ Gamed(LoadError(b, l, "noGame"), l)
  BY <1>1, FetchSetsGame, ErrorGame
<1>4. QED  BY <1>2, <1>3 DEF Either

LEMMA ActivateGameGame ==
  ASSUME NEW t, NEW g, Gamed(t, g), NEW l, NEW session
  PROVE  /\ Either(ActivateGame(t, l, session), g, l)
         /\ t.load # l => Gamed(ActivateGame(t, l, session), g)
<1> DEFINE a == [t EXCEPT !.fault = @ \/ t.ld[l].st # "live"]
           b == [a EXCEPT !.game = l, !.mem[l] = "client", !.load = NoLoad,
                          !.pings = IF t.spectator = "locked" THEN @ ELSE @ \cup {l}]
           u == ActivateGame(t, l, session)
<1>1. Gamed(a, g)  BY DEF Gamed
<1>2. Gamed(b, l)
  <2> HIDE DEF a
  <2>1. QED  BY <1>1 DEF Gamed
<1>3. /\ u \in {FreeLoadState(Call(a, l, "aborted"), l), FreeLoadState(Call(a, l, "invalid"), l),
                FreeLoadState(Call(b, l, "ok"), l)}
      /\ t.load # l => u = FreeLoadState(Call(a, l, "aborted"), l)
  BY DEF ActivateGame
<1> HIDE DEF a, b, u
<1>4. /\ Gamed(FreeLoadState(Call(a, l, "aborted"), l), g)
      /\ Gamed(FreeLoadState(Call(a, l, "invalid"), l), g)
      /\ Gamed(FreeLoadState(Call(b, l, "ok"), l), l)
  BY <1>1, <1>2, CallGame, FreeGame
<1>5. QED  BY <1>3, <1>4 DEF Either, u

LEMMA ActivateOrQueueGame ==
  ASSUME NEW t, NEW g, Gamed(t, g), NEW l
  PROVE  Either(ActivateOrQueue(t, l), g, l)
<1> DEFINE a == [t EXCEPT !.toActivate = Append(@, l)]
<1>1. Gamed(a, g)  BY DEF Gamed
<1>2. ActivateOrQueue(t, l) \in {a, ActivateGame(t, l, t.ld[l].session)}  BY DEF ActivateOrQueue
<1> HIDE DEF a
<1>3. QED  BY <1>1, <1>2, ActivateGameGame DEF Either

LEMMA StartedGame ==
  ASSUME NEW t, NEW g, Gamed(t, g), NEW l, Remaining(t, l) \in Int, NEW outcome
  PROVE  LET u == StartSessionAnswered(t, l, outcome)
         IN  /\ Either(u, g, l)
             /\ t.load # l \/ outcome = "error" => Gamed(u, g)
<1> DEFINE a == EndLoadState(t, l)
           b == [a EXCEPT !.ld[l].session = TRUE]
           u == StartSessionAnswered(t, l, outcome)
<1>1. Gamed(a, g)  BY EndGame
<1> HIDE DEF a
<1>2. Gamed(b, g)  BY <1>1 DEF Gamed
<1>3. /\ u \in {LoadError(a, l, "error"), a, b, ActivateOrQueue(b, l)}
      /\ t.load # l \/ outcome = "error" => u \in {LoadError(a, l, "error"), a}
  BY DEF StartSessionAnswered, Remaining, a
<1> HIDE DEF b, u
<1>4. Gamed(LoadError(a, l, "error"), g) /\ Either(ActivateOrQueue(b, l), g, l)
  BY <1>1, <1>2, ErrorGame, ActivateOrQueueGame
<1>5. QED  BY <1>1, <1>2, <1>3, <1>4 DEF Either, u

LEMMA BeginStartGame ==
  ASSUME NEW t, NEW g, Gamed(t, g), NEW l, NEW refused \in BOOLEAN
  PROVE  Gamed(BeginStartSession(t, l, refused), g)
<1> DEFINE a == BeginRequest(t, l, "starting", "start")
           b == [a EXCEPT !.reqs = @ \ {<<"start", l>>}]
           c == EndLoadState(b, l)
<1>1. Gamed(a, g)  BY RequestGame
<1> HIDE DEF a
<1>2. Gamed(b, g)  BY <1>1 DEF Gamed
<1> HIDE DEF b
<1>3. Gamed(LoadError(c, l, "error"), g)  BY <1>2, EndGame, ErrorGame
<1>4. BeginStartSession(t, l, refused) \in {a, LoadError(c, l, "error")}
  BY DEF BeginStartSession, StartSessionAnswered, a, b
<1>5. QED  BY <1>1, <1>3, <1>4

LEMMA FetchedGame ==
  ASSUME NEW t, NEW g, Gamed(t, g), NEW l, Remaining(t, l) \in Int,
         NEW outcome \in AllFetchOutcomes, NEW refused \in BOOLEAN
  PROVE  LET u == FetchAnswered(t, l, outcome, refused)
         IN  Either(u, g, l) /\ (t.load # l => Gamed(u, g))
<1> DEFINE a == EndLoadState(t, l)
           h == Head(a.ld[l].hash)
           w == [a EXCEPT !.known[h] = "none"]
           b == [a EXCEPT !.known[h] = "game", !.ld[l].progress = "starting",
                          !.ld[l].outstanding = @ + 1]
           s == [b EXCEPT !.spectator = "locked"]
           c == IF b.spectator = "off" THEN BeginStartSession(b, l, refused) ELSE s
           d == IF outcome = "nosets" THEN LoadError(c, l, "notFound") ELSE c
           e == EndLoadState(d, l)
           u == FetchAnswered(t, l, outcome, refused)
<1>1. /\ u \in {LoadError(a, l, "error"), a, ProcessResolvedHash(w, l), ActivateOrQueue(e, l), e}
      /\ t.load # l => u \in {LoadError(a, l, "error"), a}
  <2>1. t.load # l => Remaining(t, l) = -1  BY DEF Remaining, Left
  <2> HIDE DEF a, w, e, d
  <2>2. u = CASE outcome = "error" -> LoadError(a, l, "error")
              [] outcome # "error" /\ Remaining(t, l) < 0 -> a
              [] outcome = "unknown" /\ Remaining(t, l) >= 0 -> ProcessResolvedHash(w, l)
              [] outcome \in {"game", "nosets"} /\ Remaining(t, l) >= 0 ->
                   IF Remaining(d, l) = 0 THEN ActivateOrQueue(e, l) ELSE e
    BY DEF FetchAnswered, a, w, e, d
  <2> HIDE DEF u
  <2>3. QED  BY <2>1, <2>2 DEF AllFetchOutcomes
<1>2. Gamed(a, g)  BY EndGame
<1> HIDE DEF a, h, u
<1>3. Gamed(w, g) /\ Gamed(b, g)  BY <1>2 DEF Gamed
<1> HIDE DEF w, b
<1>4. Gamed(s, g)  BY <1>3 DEF Gamed
<1> HIDE DEF s
<1>5. Gamed(c, g)  BY <1>3, <1>4, BeginStartGame
<1> HIDE DEF c
<1>6. Gamed(d, g)  BY <1>5, ErrorGame
<1> HIDE DEF d
<1>7. Gamed(e, g)  BY <1>6, EndGame
<1> HIDE DEF e
<1>8. /\ Gamed(LoadError(a, l, "error"), g) /\ Either(ProcessResolvedHash(w, l), g, l)
      /\ Either(ActivateOrQueue(e, l), g, l)
  BY <1>2, <1>3, <1>7, ErrorGame, ResolvedGame, ActivateOrQueueGame
<1>9. QED  BY <1>1, <1>2, <1>7, <1>8 DEF Either, u

LEMMA UnloadedGame ==
  ASSUME NEW t, NEW g, Gamed(t, g)
  PROVE  Gamed(UnloadGame(t), NoLoad)
  BY DEF Gamed, UnloadGame

LEMMA AbortedLoadGame ==
  ASSUME NEW t, NEW g, Gamed(t, g)
  PROVE  Gamed(AbortLoadInProgress(t), g)
<1> DEFINE a == [t EXCEPT !.ld[t.load].aborted = TRUE, !.load = NoLoad,
                          !.fault = @ \/ t.ld[t.load].st # "live"]
<1>1. Gamed(a, g)  BY DEF Gamed
<1>2. AbortLoadInProgress(t) \in {t, Call(a, t.load, "aborted")}  BY DEF AbortLoadInProgress
<1> HIDE DEF a
<1>3. QED  BY <1>1, <1>2, CallGame

LEMMA LoggedOutGame ==
  ASSUME NEW t, NEW g, Gamed(t, g)
  PROVE  Gamed(LogOut(t), NoLoad)
<1> DEFINE b == [t EXCEPT !.user = "none", !.account = NoLogin]
           a == UnloadGame(b)
<1>1. Gamed(b, g)  BY DEF Gamed, Standings
<1> HIDE DEF b
<1>2. Gamed(a, NoLoad)  BY <1>1, UnloadedGame
<1> HIDE DEF a
<1>3. LogOut(t) \in {a, LoadError(a, t.load, "aborted")}  BY DEF LogOut, a, b
<1>4. QED  BY <1>2, <1>3, ErrorGame

LEMMA BecomingGamed ==
  ASSUME NEW u, NEW g, Gamed(u, g), Becomes(u)
  PROVE  game' = g
  BY DEF Gamed, Becomes

\* One step makes a game active only if its load is the current one, or is begun by that step.
LEMMA ActiveGame ==
  ASSUME LoadInv, NEW l \in Loads, ld[l].st = "live", load # l, [Next]_vars
  PROVE  game' = l => game = l
<1>1. State \in StateSet /\ NoLoad # l  BY LoadAssumption DEF LoadInv, GoodState
<1>2. Gamed(State, game)  BY <1>1, Fields DEF Gamed, Standings, StateSet
<1>3. ASSUME NEW x \in Loads PROVE ld[x].outstanding \in Nat
  BY <1>1, Typed DEF LoadSet
<1>4. CASE UNCHANGED vars  BY <1>4 DEF vars
<1>5. ASSUME NEW a \in Logins, BeginLogin(a) \/ AbortLogin(a) PROVE game' = game
  BY <1>5 DEF BeginLogin, AbortLogin
<1>6. ASSUME NEW x \in Loads, NEW hs \in Candidates, BeginLoad(x, hs) PROVE game' = l => game = l
  <2> DEFINE c == AbortLoadInProgress(State)
             a == UnloadGame(c)
             b == [a EXCEPT !.ld[x].st = "live", !.ld[x].hash = hs, !.mem[x] = "load", !.load = x]
  <2>1. x # l /\ Becomes(ProcessResolvedHash(b, x))  BY <1>6 DEF BeginLoad
  <2>2. Gamed(c, game)  BY <1>2, AbortedLoadGame
  <2> HIDE DEF c
  <2>3. Gamed(a, NoLoad)  BY <2>2, UnloadedGame
  <2> HIDE DEF a
  <2>4. Gamed(b, NoLoad)  BY <2>3 DEF Gamed
  <2> HIDE DEF b
  <2>5. Either(ProcessResolvedHash(b, x), NoLoad, x)  BY <2>4, ResolvedGame
  <2>6. game' = NoLoad \/ game' = x  BY <2>1, <2>5, BecomingGamed DEF Either
  <2>7. QED  BY <1>1, <2>1, <2>6
<1>7. ASSUME NEW x \in Loads, BeginLoadUnhashable(x) PROVE game' = game
  <2> DEFINE a == AbortLoadInProgress(State)
             b == [a EXCEPT !.ld[x].st = "live"]
  <2>1. Becomes(LoadError(b, x, "invalid"))  BY <1>7 DEF BeginLoadUnhashable
  <2>2. Gamed(a, game)  BY <1>2, AbortedLoadGame
  <2> HIDE DEF a
  <2>3. Gamed(b, game)  BY <2>2 DEF Gamed
  <2> HIDE DEF b
  <2>4. QED  BY <2>1, <2>3, ErrorGame, BecomingGamed
<1>8. ASSUME NEW x \in Loads, AbortLoad(x) PROVE game' = game  BY <1>8 DEF AbortLoad
<1>9. CASE Logout  BY <1>1, <1>2, <1>9, LoggedOutGame, BecomingGamed DEF Logout
<1>10. CASE Unload  BY <1>1, <1>2, <1>10, UnloadedGame, BecomingGamed DEF Unload
<1>11. ASSUME NEW enabled \in BOOLEAN, SetSpectator(enabled) PROVE game' = game
  BY <1>11 DEF SetSpectator
<1>12. CASE UserStep
  BY <1>5, <1>6, <1>7, <1>8, <1>9, <1>10, <1>11, <1>12 DEF UserStep
<1>13. ASSUME NEW a \in Logins, NEW outcome \in {"ok", "error"}, LoginAnswer(a, outcome)
       PROVE  game' = l => game = l
  <2> DEFINE t == [State EXCEPT !.reqs = @ \ {<<"login", a>>}, !.login[a].st = "done"]
             Result(r) == [t EXCEPT !.login[a].result = r]
             e == [Result("error") EXCEPT !.user = "none"]
             o == [Result("ok") EXCEPT !.user = "loggedIn", !.account = a]
  <2>1. \E u \in {LogOut(t), Result("aborted"), e, o, BeginFetchGameSets(e, load),
                  BeginFetchGameSets(o, load)} : Becomes(u)
    <3> DEFINE p == load # NoLoad /\ ld[load].progress = "awaitLogin"
    <3>1. Becomes(CASE login[a].aborted -> LogOut(t)
                    [] ~login[a].aborted /\ user = "none" -> Result("aborted")
                    [] ~login[a].aborted /\ user # "none" /\ outcome = "error" ->
                         IF p THEN BeginFetchGameSets(e, load) ELSE e
                    [] ~login[a].aborted /\ user # "none" /\ outcome = "ok" ->
                         IF p THEN BeginFetchGameSets(o, load) ELSE o)
      BY <1>13 DEF LoginAnswer
    <3> HIDE DEF t, Result, e, o, p
    <3>2. QED  BY <3>1
  <2>2. Gamed(t, game)  BY <1>2 DEF Gamed
  <2> HIDE DEF t
  <2>3. \A r : Gamed(Result(r), game)  BY <2>2 DEF Gamed
  <2> HIDE DEF Result
  <2>4. Gamed(e, game) /\ Gamed(o, game)  BY <2>3 DEF Gamed, Standings
  <2> HIDE DEF e, o
  <2>5. /\ Gamed(LogOut(t), NoLoad) /\ Gamed(BeginFetchGameSets(e, load), game)
        /\ Gamed(BeginFetchGameSets(o, load), game)
    BY <2>2, <2>4, LoggedOutGame, FetchSetsGame
  <2>6. game' = NoLoad \/ game' = game  BY <2>1, <2>3, <2>4, <2>5, BecomingGamed
  <2>7. QED  BY <1>1, <2>6
<1>14. ASSUME NEW x \in Loads, NEW outcome \in FetchOutcomes, NEW refused \in BOOLEAN,
              FetchAnswer(x, outcome, refused)
       PROVE  game' = l => game = l
  <2> DEFINE t == [State EXCEPT !.reqs = @ \ {<<"fetch", x>>}]
             u == FetchAnswered(t, x, outcome, refused)
  <2>1. \E v \in {LoadAborted(t, x), u} : Becomes(v)  BY <1>14 DEF FetchAnswer
  <2>2. Gamed(t, game)  BY <1>2 DEF Gamed
  <2>3. t.ld = ld /\ t.load = load  BY <1>1, Fields DEF StateSet
  <2> HIDE DEF t
  <2>4. Remaining(t, x) \in Int  BY <1>3, <2>3 DEF Remaining, Left
  <2>5. outcome \in AllFetchOutcomes  BY LoadAssumption
  <2>6. Either(u, game, x) /\ (t.load # x => Gamed(u, game))  BY <2>2, <2>4, <2>5, FetchedGame
  <2> HIDE DEF u
  <2>7. Gamed(LoadAborted(t, x), game)  BY <2>2, AbortedGame
  <2>8. game' = game \/ (load = x /\ game' = x)
    BY <2>1, <2>3, <2>6, <2>7, BecomingGamed DEF Either
  <2>9. QED  BY <2>8
<1>15. ASSUME NEW x \in Loads, NEW outcome \in {"ok", "error"}, StartSessionAnswer(x, outcome)
       PROVE  game' = l => game = l
  <2> DEFINE t == [State EXCEPT !.reqs = @ \ {<<"start", x>>}]
             u == StartSessionAnswered(t, x, outcome)
  <2>1. \E v \in {LoadAborted(t, x), u} : Becomes(v)  BY <1>15 DEF StartSessionAnswer
  <2>2. Gamed(t, game)  BY <1>2 DEF Gamed
  <2>3. t.ld = ld /\ t.load = load  BY <1>1, Fields DEF StateSet
  <2> HIDE DEF t
  <2>4. Remaining(t, x) \in Int  BY <1>3, <2>3 DEF Remaining, Left
  <2>5. Either(u, game, x) /\ (t.load # x => Gamed(u, game))  BY <2>2, <2>4, StartedGame
  <2> HIDE DEF u
  <2>6. Gamed(LoadAborted(t, x), game)  BY <2>2, AbortedGame
  <2>7. game' = game \/ (load = x /\ game' = x)
    BY <2>1, <2>3, <2>5, <2>6, BecomingGamed DEF Either
  <2>8. QED  BY <2>7
<1>16. CASE DispatchActivate
  <2> DEFINE x == Head(toActivate)
             t == [State EXCEPT !.toActivate = Tail(@)]
             u == ActivateGame(t, x, ld[x].session)
  <2>1. Becomes(u)  BY <1>16 DEF DispatchActivate
  <2>2. Gamed(t, game)  BY <1>2 DEF Gamed
  <2>3. t.load = load  BY <1>1, Fields DEF StateSet
  <2> HIDE DEF t, x
  <2>4. Either(u, game, x) /\ (t.load # x => Gamed(u, game))  BY <2>2, ActivateGameGame
  <2> HIDE DEF u
  <2>5. game' = game \/ (load = x /\ game' = x)  BY <2>1, <2>3, <2>4, BecomingGamed DEF Either
  <2>6. QED  BY <2>5
<1>17. QED
  BY <1>4, <1>12, <1>13, <1>14, <1>15, <1>16 DEF Next, AnswerLogin, AnswerFetch, AnswerStart

\* A load that another one has superseded, or that was unloaded before it was complete, does not make
\* its game the active one when its requests are answered later (rc_client_end_load_state returning
\* -1, rc_client_activate_game finding another state.load).
THEOREM SupersededStaysInactive ==
  ASSUME "nosets" \notin FetchOutcomes, FALSE \notin SpectatorCalls
  PROVE  Spec => SupersededNeverActivates
<1>1. LoadInv /\ [Next]_vars
        => [\A l \in Loads : ld[l].st = "live" /\ load # l /\ game # l => game' # l]_vars
  BY ActiveGame
<1>2. QED  BY <1>1, LoadInvariant, PTL DEF Spec, SupersededNeverActivates
=============================================================================
