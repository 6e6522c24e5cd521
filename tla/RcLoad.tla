------------------------------- MODULE RcLoad -------------------------------
(***************************************************************************)
(* Logging in and loading a game, in rc_client.c: the life of a load_state *)
(* from rc_client_begin_load_game to its release, over the two requests it *)
(* makes, while the user logs in and out, starts other loads, aborts them  *)
(* and unloads the game.                                                   *)
(*                                                                         *)
(* Each action is one call into rc_client, by its user or by the transport *)
(* with an answer.  The calls do not overlap: ra_client.cpp makes them all *)
(* on one thread.  Answers come in any order.  The operators over a state  *)
(* record t are the functions of rc_client.c that the handlers are built   *)
(* from, applied in the order of the code.  A load allocates one game, so  *)
(* the game is named by its load.                                          *)
(***************************************************************************)
EXTENDS Integers, Sequences, FiniteSets

CONSTANTS
  Loads,            \* calls of begin_load_game: each is made at most once
  Logins,           \* calls of begin_login_with_*: each is made at most once
  Hashes,           \* media hashes
  Candidates,       \* the hash sequences a file may yield, in the iterator's order
  NoLoad, NoLogin,  \* NULL
  FetchOutcomes,    \* what the server may answer to a fetch of the game sets
  BackgroundReads,  \* the values of allow_background_memory_reads
  SpectatorCalls    \* those with which the user calls set_spectator_mode_enabled

AllFetchOutcomes == {"game", "nosets", "unknown", "error"}

ASSUME LoadAssumption ==
  /\ NoLoad \notin Loads /\ NoLogin \notin Logins
  /\ FetchOutcomes \subseteq AllFetchOutcomes
  /\ Candidates \subseteq Seq(Hashes) \ {<< >>}
  /\ BackgroundReads \subseteq BOOLEAN /\ SpectatorCalls \subseteq BOOLEAN

VARIABLES
  user,       \* state.user
  account,    \* the login whose user is in client->user
  spectator,  \* state.spectator_mode
  background, \* state.allow_background_memory_reads
  load,       \* state.load
  game,       \* client->game
  ld,         \* the load states
  mem,        \* who has to free the game of each load
  known,      \* client->hashes: what is known of the game of each hash
  login,      \* the login calls: their callback data and results
  reqs,       \* requests the server has not answered: <<api, whose>>
  toActivate, \* scheduled rc_client_dispatch_activate_game callbacks
  pings,      \* games with an rc_client_ping scheduled
  fault       \* freed memory was used: what follows is undefined

vars == <<user, account, spectator, background, load, game, ld, mem, known, login, reqs,
          toActivate, pings, fault>>

State == [user |-> user, account |-> account, spectator |-> spectator,
          background |-> background, load |-> load, game |-> game, ld |-> ld,
          mem |-> mem, known |-> known, login |-> login, reqs |-> reqs,
          toActivate |-> toActivate, pings |-> pings, fault |-> fault]

Becomes(next) ==
  \E t \in {next} :
    /\ user' = t.user /\ account' = t.account /\ spectator' = t.spectator
    /\ background' = t.background
    /\ load' = t.load /\ game' = t.game /\ ld' = t.ld /\ mem' = t.mem
    /\ known' = t.known /\ login' = t.login /\ reqs' = t.reqs
    /\ toActivate' = t.toActivate /\ pings' = t.pings /\ fault' = t.fault

FreshLoad ==
  [st |-> "fresh",         \* fresh, live or freed
   progress |-> "none",    \* load_state->progress
   outstanding |-> 0,      \* load_state->outstanding_requests
   aborted |-> FALSE,      \* async_handle.aborted
   callback |-> TRUE,      \* the callback was not cleared
   session |-> FALSE,      \* start_session_response is stored
   hash |-> << >>,         \* the hash in use, and the iterator behind it
   results |-> << >>]      \* history: the results the callback was called with

FreshLogin ==
  [st |-> "fresh",         \* fresh, waiting or done
   aborted |-> FALSE,
   result |-> "none"]

Init ==
  /\ user = "none"
  /\ account = NoLogin
  /\ background \in BackgroundReads
  /\ spectator \in (IF background \in SpectatorCalls THEN {"off", "on"} ELSE {"off"})
  /\ load = NoLoad
  /\ game = NoLoad
  /\ ld = [l \in Loads |-> FreshLoad]
  /\ mem = [l \in Loads |-> "none"]
  /\ known = [h \in Hashes |-> "unasked"]
  /\ login = [a \in Logins |-> FreshLogin]
  /\ reqs = {}
  /\ toActivate = << >>
  /\ pings = {}
  /\ fault = FALSE

-----------------------------------------------------------------------------
(* The functions of rc_client.c the handlers call. *)

\* load_state->callback(r, ...), when it is not NULL.
Call(t, l, r) ==
  IF t.ld[l].callback THEN [t EXCEPT !.ld[l].results = Append(@, r)] ELSE t

\* rc_client_free_load_state: the game goes too unless it was detached.
FreeLoadState(t, l) ==
  [t EXCEPT !.ld[l].st = "freed",
            !.mem[l] = IF @ = "load" THEN "freed" ELSE @,
            !.fault = @ \/ t.ld[l].st # "live"]

\* rc_client_begin_load_state and the server_call that follows it.
BeginRequest(t, l, progress, api) ==
  [t EXCEPT !.ld[l].progress = progress,
            !.ld[l].outstanding = @ + 1,
            !.reqs = @ \cup {<<api, l>>}]

\* Faulty variant: the outstanding requests are not looked at.
LoadError_FreesAlways(t, l, r) ==
  FreeLoadState(Call([t EXCEPT !.ld[l].progress = "aborted",
                               !.load = IF @ = l THEN NoLoad ELSE @,
                               !.fault = @ \/ t.ld[l].st # "live"], l, r), l)

\* rc_client_load_error
LoadError(t, l, r) ==
  LET a == Call([t EXCEPT !.ld[l].progress = "aborted",
                          !.load = IF @ = l THEN NoLoad ELSE @,
                          !.fault = @ \/ t.ld[l].st # "live"], l, r)
  IN  IF t.ld[l].outstanding = 0 THEN FreeLoadState(a, l) ELSE a

\* What rc_client_end_load_state returns, and what it does.
Left(q) == IF q.outstanding > 0 THEN q.outstanding - 1 ELSE 0
Remaining(t, l) == IF t.load # l THEN -1 ELSE Left(t.ld[l])

CountOff(t, l) == [t EXCEPT !.ld[l].outstanding = Left(t.ld[l]),
                            !.fault = @ \/ t.ld[l].st # "live"]

EndLoadState(t, l) ==
  LET a == CountOff(t, l)
  IN  IF t.load # l /\ Left(t.ld[l]) = 0
      THEN FreeLoadState(IF a.ld[l].progress # "aborted" THEN Call(a, l, "aborted") ELSE a, l)
      ELSE a

\* Faulty variants: the callback is not cleared; the request is not counted off.
LoadAborted_KeepsCallback(t, l) == EndLoadState(LoadError(t, l, "aborted"), l)
\* rc_client_load_aborted
LoadAborted(t, l) ==
  EndLoadState(LoadError([t EXCEPT !.ld[l].callback = FALSE], l, "aborted"), l)

\* rc_client_begin_fetch_game_sets
BeginFetchGameSets(t, l) ==
  LET a == [t EXCEPT !.ld[l].progress = IF t.user = "requested" THEN "awaitLogin"
                                        ELSE "fetching",
                     !.fault = @ \/ t.ld[l].st # "live"]
  IN  CASE t.user = "requested" -> a
        [] t.user = "loggedIn"  -> BeginRequest(a, l, "identifying", "fetch")
        [] t.user = "none"      -> LoadError(a, l, "loginRequired")

\* rc_client_process_resolved_hash, and the rc_client_load_game it calls for
\* another hash: the hashes already known to be of no game are passed over.
ProcessResolvedHash(t, l) ==
  LET rest == t.ld[l].hash
      live == {i \in DOMAIN rest : t.known[rest[i]] # "none"}
  IN  IF live # {}
      THEN LET i == CHOOSE i \in live : \A j \in live : i <= j
           IN  BeginFetchGameSets([t EXCEPT !.ld[l].hash = SubSeq(@, i, Len(@))], l)
      ELSE LoadError([t EXCEPT !.game = l, !.mem[l] = "client"], l, "noGame")

\* rc_client_unload_game: the load in progress is marked aborted and forgotten,
\* the game is freed with its ping.
UnloadGame(t) ==
  [t EXCEPT !.game = NoLoad,
            !.load = NoLoad,
            !.ld = IF t.load = NoLoad THEN @ ELSE [@ EXCEPT ![t.load].aborted = TRUE],
            !.spectator = IF @ = "locked" THEN "on" ELSE @,
            !.pings = @ \ {t.game},
            !.mem = IF t.game = NoLoad THEN @ ELSE [@ EXCEPT ![t.game] = "freed"],
            !.fault = @ \/ (t.load # NoLoad /\ t.ld[t.load].st # "live")
                        \/ (t.game # NoLoad /\ t.mem[t.game] # "client")]

\* rc_client_abort_load_in_progress
AbortLoadInProgress(t) ==
  IF t.load = NoLoad THEN t
  ELSE Call([t EXCEPT !.ld[t.load].aborted = TRUE,
                      !.load = NoLoad,
                      !.fault = @ \/ t.ld[t.load].st # "live"], t.load, "aborted")

\* rc_client_logout
LogOut(t) ==
  LET waiting == t.load # NoLoad /\ t.ld[t.load].progress = "awaitLogin"
      a == UnloadGame([t EXCEPT !.user = "none", !.account = NoLogin])
  IN  IF waiting THEN LoadError(a, t.load, "aborted") ELSE a

\* Faulty variants: the game stays with the load state; another load is not
\* looked for; the ping is scheduled in spectator mode too.
ActivateGame_KeepsGame(t, l, session) ==
  FreeLoadState(Call([t EXCEPT !.game = l, !.load = NoLoad], l, "ok"), l)
ActivateGame_NotCurrent(t, l, session) ==
  FreeLoadState(Call([t EXCEPT !.game = l, !.mem[l] = "client", !.load = NoLoad], l, "ok"), l)
\* rc_client_activate_game
ActivateGame(t, l, session) ==
  LET a == [t EXCEPT !.fault = @ \/ t.ld[l].st # "live"]
  IN  FreeLoadState(
        IF t.load # l THEN Call(a, l, "aborted")
        ELSE IF ~session /\ t.spectator = "off" THEN Call(a, l, "invalid")
        ELSE Call([a EXCEPT !.game = l,
                            !.mem[l] = "client",
                            !.load = NoLoad,
                            !.pings = IF t.spectator = "locked" THEN @ ELSE @ \cup {l}],
                  l, "ok"),
        l)

\* When no request is outstanding the game is activated, or its activation
\* scheduled for the next frame (rc_client_queue_activate_game).
ActivateOrQueue(t, l) ==
  IF t.background THEN ActivateGame(t, l, t.ld[l].session)
  ELSE [t EXCEPT !.toActivate = Append(@, l)]

\* The answer to start_session, after rc_client_end_async found no abort.
StartSessionAnswered(t, l, outcome) ==
  LET a == EndLoadState(t, l)
      n == Remaining(t, l)
  IN  CASE outcome = "error"           -> LoadError(a, l, "error")
        [] outcome # "error" /\ n < 0  -> a
        [] outcome # "error" /\ n >= 0 ->
             LET b == [a EXCEPT !.ld[l].session = TRUE]
             IN  IF n = 0 THEN ActivateOrQueue(b, l) ELSE b

\* The request for a session; it may be refused at once by the transport, and
\* its callback then runs inside rc_client_begin_start_session.
BeginStartSession(t, l, refused) ==
  LET a == BeginRequest(t, l, "starting", "start")
  IN  IF refused
      THEN StartSessionAnswered([a EXCEPT !.reqs = @ \ {<<"start", l>>}], l, "error")
      ELSE a

\* rc_client_fetch_game_sets_callback, after rc_client_end_async found no abort.
FetchAnswered(t, l, outcome, refused) ==
  LET a == EndLoadState(t, l)
      n == Remaining(t, l)
      h == Head(a.ld[l].hash)
      \* the game is known: its data is processed while the session starts
      b == [a EXCEPT !.known[h] = "game",
                     !.ld[l].progress = "starting",
                     !.ld[l].outstanding = @ + 1]
      c == IF b.spectator = "off" THEN BeginStartSession(b, l, refused)
           ELSE [b EXCEPT !.spectator = "locked"]
      d == IF outcome = "nosets" THEN LoadError(c, l, "notFound") ELSE c
      e == EndLoadState(d, l)
  IN  CASE outcome = "error"            -> LoadError(a, l, "error")
        [] outcome # "error" /\ n < 0   -> a
        [] outcome = "unknown" /\ n >= 0 ->
             ProcessResolvedHash([a EXCEPT !.known[h] = "none"], l)
        [] outcome \in {"game", "nosets"} /\ n >= 0 ->
             IF Remaining(d, l) = 0 THEN ActivateOrQueue(e, l) ELSE e

-----------------------------------------------------------------------------
(* Calls by the user of rc_client. *)

\* rc_client_begin_login: a login in progress makes another one fail.
BeginLogin(a) ==
  /\ login[a].st = "fresh"
  /\ IF user = "requested"
     THEN /\ login' = [login EXCEPT ![a].st = "done", ![a].result = "invalid"]
          /\ UNCHANGED <<user, reqs>>
     ELSE /\ login' = [login EXCEPT ![a].st = "waiting"]
          /\ user' = "requested"
          /\ reqs' = reqs \cup {<<"login", a>>}
  /\ UNCHANGED <<account, spectator, background, load, game, ld, mem, known, toActivate,
                 pings, fault>>

\* rc_client_logout
Logout == Becomes(LogOut(State))

\* rc_client_begin_load_game and rc_client_begin_identify_and_load_game with a
\* file that yields the hashes hs: the load in progress is aborted, the load
\* state is attached, the game unloaded, and the first hash looked up.
BeginLoad(l, hs) ==
  /\ ld[l].st = "fresh"
  /\ LET a == UnloadGame(AbortLoadInProgress(State))
         b == [a EXCEPT !.ld[l].st = "live", !.ld[l].hash = hs,
                        !.mem[l] = "load", !.load = l]
     IN  Becomes(ProcessResolvedHash(b, l))

\* rc_client_begin_identify_and_load_game with a file that cannot be hashed:
\* the load in progress is aborted all the same.
BeginLoadUnhashable(l) ==
  /\ ld[l].st = "fresh"
  /\ LET a == AbortLoadInProgress(State)
     IN  Becomes(LoadError([a EXCEPT !.ld[l].st = "live"], l, "invalid"))

\* rc_client_unload_game
Unload == Becomes(UnloadGame(State))

\* rc_client_abort_async, while the operation has not called back.
AbortLoad(l) ==
  /\ ld[l].st = "live" /\ ld[l].results = << >>
  /\ ld' = [ld EXCEPT ![l].aborted = TRUE]
  /\ UNCHANGED <<user, account, spectator, background, load, game, mem, known, login, reqs,
                 toActivate, pings, fault>>

AbortLogin(a) ==
  /\ login[a].st = "waiting"
  /\ login' = [login EXCEPT ![a].aborted = TRUE]
  /\ UNCHANGED <<user, account, spectator, background, load, game, ld, mem, known, reqs,
                 toActivate, pings, fault>>

\* rc_client_set_spectator_mode_enabled
SetSpectator(enabled) ==
  /\ background \in SpectatorCalls
  /\ ~ (spectator = "locked" /\ ~enabled)
  /\ spectator' = IF enabled THEN "on" ELSE "off"
  /\ UNCHANGED <<user, account, background, load, game, ld, mem, known, login, reqs,
                 toActivate, pings, fault>>

-----------------------------------------------------------------------------
(* Answers, and the dispatch of scheduled activations. *)

\* Faulty variant: a load that waits is not resumed when the login fails.
LoginAnswer_ErrorForgetsLoad(a, outcome) ==
  /\ <<"login", a>> \in reqs
  /\ LET t == [State EXCEPT !.reqs = @ \ {<<"login", a>>}, !.login[a].st = "done"]
         Result(r) == [t EXCEPT !.login[a].result = r]
         Resume(u) == IF load # NoLoad /\ ld[load].progress = "awaitLogin"
                      THEN BeginFetchGameSets(u, load) ELSE u
     IN  Becomes(CASE login[a].aborted -> LogOut(t)
                   [] ~login[a].aborted /\ user = "none" -> Result("aborted")
                   [] ~login[a].aborted /\ user # "none" /\ outcome = "error" ->
                        [Result("error") EXCEPT !.user = "none"]
                   [] ~login[a].aborted /\ user # "none" /\ outcome = "ok" ->
                        Resume([Result("ok") EXCEPT !.user = "loggedIn", !.account = a]))

\* rc_client_login_callback
LoginAnswer(a, outcome) ==
  /\ <<"login", a>> \in reqs
  /\ LET t == [State EXCEPT !.reqs = @ \ {<<"login", a>>}, !.login[a].st = "done"]
         Result(r) == [t EXCEPT !.login[a].result = r]
         Resume(u) == IF load # NoLoad /\ ld[load].progress = "awaitLogin"
                      THEN BeginFetchGameSets(u, load) ELSE u
     IN  Becomes(CASE login[a].aborted -> LogOut(t)
                   [] ~login[a].aborted /\ user = "none" -> Result("aborted")
                   [] ~login[a].aborted /\ user # "none" /\ outcome = "error" ->
                        Resume([Result("error") EXCEPT !.user = "none"])
                   [] ~login[a].aborted /\ user # "none" /\ outcome = "ok" ->
                        Resume([Result("ok") EXCEPT !.user = "loggedIn", !.account = a]))

\* rc_client_fetch_game_sets_callback
FetchAnswer(l, outcome, refused) ==
  /\ <<"fetch", l>> \in reqs
  /\ LET t == [State EXCEPT !.reqs = @ \ {<<"fetch", l>>}]
     IN  Becomes(IF ld[l].aborted THEN LoadAborted(t, l)
                 ELSE FetchAnswered(t, l, outcome, refused))

\* rc_client_start_session_callback
StartSessionAnswer(l, outcome) ==
  /\ <<"start", l>> \in reqs
  /\ LET t == [State EXCEPT !.reqs = @ \ {<<"start", l>>}]
     IN  Becomes(IF ld[l].aborted THEN LoadAborted(t, l)
                 ELSE StartSessionAnswered(t, l, outcome))

\* rc_client_dispatch_activate_game, from rc_client_idle
DispatchActivate ==
  /\ toActivate # << >>
  /\ LET l == Head(toActivate)
     IN  Becomes(ActivateGame([State EXCEPT !.toActivate = Tail(@)], l, ld[l].session))

-----------------------------------------------------------------------------
UserStep ==
  \/ \E a \in Logins : BeginLogin(a) \/ AbortLogin(a)
  \/ \E l \in Loads, hs \in Candidates : BeginLoad(l, hs)
  \/ \E l \in Loads : BeginLoadUnhashable(l) \/ AbortLoad(l)
  \/ Logout \/ Unload
  \/ \E enabled \in BOOLEAN : SetSpectator(enabled)

AnswerLogin(a) == \E outcome \in {"ok", "error"} : LoginAnswer(a, outcome)
AnswerFetch(l) ==
  \E outcome \in FetchOutcomes, refused \in BOOLEAN : FetchAnswer(l, outcome, refused)
AnswerStart(l) == \E outcome \in {"ok", "error"} : StartSessionAnswer(l, outcome)

Next ==
  /\ ~fault
  /\ \/ UserStep
     \/ \E a \in Logins : AnswerLogin(a)
     \/ \E l \in Loads : AnswerFetch(l) \/ AnswerStart(l)
     \/ DispatchActivate

Spec == Init /\ [][Next]_vars

\* The transport answers every request, with status 0 if it must (RaHttp), and
\* rc_client_do_frame, which dispatches the activations, is called for ever.
FairSpec ==
  /\ Spec
  /\ \A a \in Logins : WF_vars(~fault /\ AnswerLogin(a))
  /\ \A l \in Loads : WF_vars(~fault /\ AnswerFetch(l)) /\ WF_vars(~fault /\ AnswerStart(l))
  /\ WF_vars(~fault /\ DispatchActivate)

-----------------------------------------------------------------------------
(* Properties *)

Results == {"ok", "aborted", "error", "invalid", "noGame", "notFound", "loginRequired"}
LiveLoads == {l \in Loads : ld[l].st = "live"}
RequestsOf(l) == {r \in reqs : r[1] # "login" /\ r[2] = l}
Queued(l) == \E i \in DOMAIN toActivate : toActivate[i] = l

TypeOK ==
  /\ user \in {"none", "requested", "loggedIn"}
  /\ account \in Logins \cup {NoLogin}
  /\ spectator \in {"off", "on", "locked"}
  /\ background \in BOOLEAN
  /\ load \in Loads \cup {NoLoad} /\ game \in Loads \cup {NoLoad}
  /\ \A l \in Loads :
       /\ ld[l].st \in {"fresh", "live", "freed"}
       /\ ld[l].progress \in {"none", "awaitLogin", "fetching", "identifying",
                              "starting", "aborted"}
       /\ ld[l].outstanding \in Nat
       /\ ld[l].hash \in Seq(Hashes)
       /\ ld[l].results \in Seq(Results)
  /\ mem \in [Loads -> {"none", "load", "client", "freed"}]
  /\ known \in [Hashes -> {"unasked", "none", "game"}]
  /\ reqs \subseteq ({"login"} \X Logins) \cup ({"fetch", "start"} \X Loads)
  /\ toActivate \in Seq(Loads)
  /\ pings \subseteq Loads

\* No handler uses a load_state or a game after it was freed, and none is freed
\* twice: "we can't actually free the load_state itself if there are any
\* outstanding requests or their callbacks will try to use the free'd memory".
NoUseAfterFree == ~fault

\* The count of outstanding requests of a load state is the number of requests
\* whose callbacks still hold it, so the last of them frees it and none before.
OutstandingCounts ==
  \A l \in LiveLoads : ld[l].outstanding = Cardinality(RequestsOf(l))

\* The callback is called once, but for a load superseded while its activation
\* is queued, which is told so twice.
CalledTwiceOnlyWhenQueued ==
  \A l \in Loads :
    \/ Len(ld[l].results) <= 1
    \/ ~background /\ ld[l].results = <<"aborted", "aborted">>

\* A game is either being loaded or active, never both: the game of a load is
\* owned by the load until it is activated, by the client then, and by nobody
\* once it is freed; and the client's game is never a freed one.  A periodic ping
\* is scheduled for the active game only: its data is part of the game's memory,
\* and it reads client->game when it is due.
GameOwnership ==
  /\ load # NoLoad => game = NoLoad
  /\ game # NoLoad => mem[game] = "client"
  /\ \A l \in Loads : mem[l] = "client" => game = l
  /\ \A l \in Loads : ld[l].st = "freed" => mem[l] # "load"
  /\ pings \subseteq {game} \ {NoLoad}

\* A ping is scheduled only for a game with a session on the server, as it was
\* not in spectator mode when the session would have been started.  An activation
\* that is queued looks at the mode again when it is dispatched, and the mode may
\* have been changed meanwhile.
PingHasSession == background => \A l \in pings : ld[l].session

\* A load that is not the current one any more never makes its game active,
\* whatever is answered to its requests later.
SupersededNeverActivates ==
  [][\A l \in Loads : ld[l].st = "live" /\ load # l /\ game # l => game' # l]_vars

\* A load state that nothing holds any more is freed.  The exception is a load
\* that waited for a login when it was given up: it has no request to free it.
OnlyAwaitingLoadsLeak ==
  \A l \in LiveLoads :
    \/ load = l
    \/ RequestsOf(l) # {}
    \/ Queued(l)
    \/ ld[l].aborted /\ ld[l].progress = "awaitLogin"

\* Memory of a load is held by exactly what still comes back to it: it is not used after it is
\* freed, its requests are counted right, and nothing but a load that waited for a login is left.
HeldWhileOutstanding == TypeOK /\ NoUseAfterFree /\ OutstandingCounts /\ OnlyAwaitingLoadsLeak

\* The active game, and what is scheduled for it, belong to the load that was activated last.
GameOwned == GameOwnership /\ PingHasSession

\* A load ends: its state is freed, unless it was given up waiting for a login
\* or waits for one that is never begun.
EveryLoadEnds ==
  \A l \in Loads :
    ld[l].st = "live" ~> \/ ld[l].st = "freed"
                         \/ ld[l].aborted /\ ld[l].progress = "awaitLogin"

\* A load that nobody gives up calls its callback at last.
EveryLoadReports ==
  \A l \in Loads : ld[l].st = "live" ~> ld[l].results # << >> \/ ld[l].aborted

\* Both, for every order of calls and answers.
LoadsEndAndReport == EveryLoadEnds /\ EveryLoadReports
=============================================================================
