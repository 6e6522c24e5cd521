----------------------------- MODULE RcUnlocks -----------------------------
(***************************************************************************)
(* Sending unlocks and leaderboard entries to the server, in rc_client.c:  *)
(* the request and its retries, the queue of scheduled callbacks that      *)
(* rc_client_idle works off, shared with the rich presence ping and the    *)
(* timer of the progress indicator, and the DISCONNECTED and RECONNECTED   *)
(* events that tell the user about unlocks the server does not have yet.   *)
(*                                                                         *)
(* The transport is that of ra_client.cpp: one request at a time reaches   *)
(* the server, in the order they were made, and the answers are handled on *)
(* the thread that calls rc_client (RaHttp), so a call never runs inside   *)
(* another.  Time is in seconds and relative: the queue holds the seconds  *)
(* left until each callback is due.                                        *)
(***************************************************************************)
EXTENDS Integers, FiniteSets, SequencesExt

CONSTANTS
  Awards,      \* achievements of the game, each to be unlocked once
  Entries,     \* leaderboard entries, each to be submitted once
  Accounts,    \* users that may log in
  NoAccount,
  Sessions,    \* the user may log out, log in again and unload the game
  Failures,    \* bound: how many requests of each job may fail and be retried
  FirstPing, PingPeriod,  \* seconds to the first ping and between pings
  HideAfter    \* seconds the progress indicator stays up

Jobs == Awards \cup Entries

ASSUME UnlocksAssumption ==
  /\ Awards \cap Entries = {} /\ {"ping", "hide"} \cap Jobs = {}
  /\ IsFiniteSet(Jobs)
  /\ NoAccount \notin Accounts /\ Accounts # {}
  /\ Sessions \in BOOLEAN
  /\ Failures \in [Jobs -> Nat]
  /\ FirstPing \in Nat \ {0} /\ PingPeriod \in Nat \ {0} /\ HideAfter \in Nat \ {0}

VARIABLES
  account,     \* client->user: whose credentials the requests carry
  loaded,      \* client->game is not NULL
  mastery,     \* mastery of the only subset
  score,       \* client->user.score_softcore, in unlocks
  st,          \* each job: fresh, flight, queued, done, dropped or lost
  retries,     \* retry_count of each job
  queue,       \* state.scheduled_callbacks: [cb, left]
  hideArmed,   \* progress_tracker.hide_callback->when # 0
  disconnect,  \* state.disconnect
  idling,      \* rc_client_idle is working off the queue
  wire,        \* requests the server has not seen: [job, account]
  answers,     \* answers rc_client has not seen
  recorded,    \* the server: what it has recorded for each account
  waited,      \* history: seconds a job has been queued, at most its delay
  told,        \* history: the last of DISCONNECTED and RECONNECTED
  raised,      \* history: the events of the last step
  fault        \* where a NULL game was used: what follows is undefined

vars == <<account, loaded, mastery, score, st, retries, queue, hideArmed, disconnect,
          idling, wire, answers, recorded, waited, told, raised, fault>>

userVars == <<account, loaded>>
jobVars == <<st, retries, waited>>
netVars == <<wire, answers, recorded>>

Init ==
  /\ account \in Accounts
  /\ loaded = TRUE
  /\ mastery = "none"
  /\ score = 0
  /\ st = [j \in Jobs |-> "fresh"]
  /\ retries = [j \in Jobs |-> 0]
  /\ queue = <<[cb |-> "ping", left |-> FirstPing]>>
  /\ hideArmed = FALSE
  /\ disconnect = "hidden"
  /\ idling = FALSE
  /\ wire = << >> /\ answers = << >>
  /\ recorded = [u \in Accounts |-> {}]
  /\ waited = [j \in Jobs |-> 0]
  /\ told = "reconnected" /\ raised = {}
  /\ fault = "none"

-----------------------------------------------------------------------------
(* The queue of scheduled callbacks *)

Positions(q, cb) == {i \in DOMAIN q : q[i].cb = cb}

\* A callback is taken out of the queue: the ping of a game that is unloaded, or
\* the one timer, of which there is one each (OnePlace).
Without(q, cb) ==
  IF Positions(q, cb) = {} THEN q ELSE RemoveAt(q, CHOOSE i \in Positions(q, cb) : TRUE)

\* rc_client_schedule_callback: before the first callback that is due later.
Insert(q, e) ==
  LET place == CHOOSE k \in 1 .. Len(q) + 1 :
                 /\ \A i \in 1 .. k - 1 : q[i].left <= e.left
                 /\ k <= Len(q) => e.left < q[k].left
  IN  InsertAt(q, place, e)

\* Faulty variant: the callback is not moved.
Reschedule_InPlace(q, cb, left) ==
  IF Positions(q, cb) = {}
  THEN Insert(q, [cb |-> cb, left |-> left])
  ELSE [i \in DOMAIN q |-> IF q[i].cb = cb THEN [q[i] EXCEPT !.left = left] ELSE q[i]]

\* rc_client_reschedule_callback with a time: the callback keeps its place when
\* it is the last or the next is due later, and is inserted again otherwise.
\* The walk from the head meets the callback before a later one, as it is only
\* ever put off.
Reschedule(q, cb, left) ==
  IF \E i \in Positions(q, cb) : i = Len(q) \/ left < q[i + 1].left
  THEN [i \in DOMAIN q |-> IF q[i].cb = cb THEN [q[i] EXCEPT !.left = left] ELSE q[i]]
  ELSE Insert(Without(q, cb), [cb |-> cb, left |-> left])

\* The same with time 0: it is taken out, and appended when it was not there.
Unschedule(q, cb) ==
  IF Positions(q, cb) = {} THEN Append(q, [cb |-> cb, left |-> 0]) ELSE Without(q, cb)

HasRetry(q) == \E i \in DOMAIN q : q[i].cb \in Jobs

\* Faulty variant: the pending flags are not cleared.
Disconnect_KeepsPending(now, q) ==
  IF (now \in {"visible", "hide"}) = HasRetry(q) THEN now
  ELSE IF HasRetry(q) THEN "show" ELSE "hide"

\* rc_client_update_disconnect_state: "show" is HIDDEN with SHOW_PENDING and
\* "hide" is VISIBLE with HIDE_PENDING.
Disconnect(now, q) ==
  IF (now \in {"visible", "hide"}) = HasRetry(q)
  THEN IF HasRetry(q) THEN "visible" ELSE "hidden"
  ELSE IF HasRetry(q) THEN "show" ELSE "hide"

-----------------------------------------------------------------------------
(* Requests *)

\* Seconds before the next retry of a job that has failed n > 1 times.
Delay(n) == IF n > 8 THEN 120 ELSE 2 ^ (n - 2)

\* rc_client_award_achievement_server_call: without a user the request cannot
\* be built, and the job is given up without a word.
Send(j) ==
  IF account = NoAccount
  THEN st' = [st EXCEPT ![j] = "lost"] /\ UNCHANGED wire
  ELSE /\ st' = [st EXCEPT ![j] = "flight"]
       /\ wire' = Append(wire, [job |-> j, account |-> account])

Make(j) ==
  /\ ~idling /\ loaded /\ st[j] = "fresh"
  /\ Send(j)
  /\ raised' = {}
  /\ UNCHANGED <<userVars, mastery, retries, queue, hideArmed, disconnect, idling,
                 answers, recorded, waited, told, fault>>

\* rc_client_award_achievement, called for a trigger of the frame: "adjust
\* score now - will get accurate score back from server".
Unlock(j) == j \in Awards /\ Make(j) /\ score' = score + 1

\* rc_client_submit_leaderboard_entry
Submit(j) == j \in Entries /\ Make(j) /\ UNCHANGED score

\* The server takes the first request.  It may record it although the answer is
\* lost; it knows what it has recorded; "fatal" is an error it explains.
Serve(outcome, records) ==
  /\ wire # << >>
  /\ LET r == Head(wire)
         now == [recorded EXCEPT ![r.account] = IF records THEN @ \cup {r.job} ELSE @]
     IN  /\ records = (outcome = "ok") \/ outcome = "transient"
         /\ outcome = "transient" => retries[r.job] < Failures[r.job]
         /\ recorded' = now
         /\ answers' = Append(answers,
              [job |-> r.job, outcome |-> outcome,
               score |-> Cardinality(now[r.account] \cap Awards),
               complete |-> Awards \subseteq now[r.account]])
  /\ wire' = Tail(wire)
  /\ raised' = {}
  /\ UNCHANGED <<userVars, mastery, score, jobVars, queue, hideArmed, disconnect, idling,
                 told, fault>>

\* Faulty variant: the callback is not scheduled.
Retry_NotScheduled(j) ==
  /\ retries' = [retries EXCEPT ![j] = @ + 1]
  /\ IF retries[j] = 0
     THEN Send(j) /\ UNCHANGED <<queue, disconnect, waited>>
     ELSE /\ st' = [st EXCEPT ![j] = "queued"]
          /\ UNCHANGED <<queue, disconnect, waited, wire>>

\* A job failed once is sent again at once, and later ones are scheduled.
Retry(j) ==
  /\ retries' = [retries EXCEPT ![j] = @ + 1]
  /\ IF retries[j] = 0
     THEN Send(j) /\ UNCHANGED <<queue, disconnect, waited>>
     ELSE /\ st' = [st EXCEPT ![j] = "queued"]
          /\ queue' = Insert(queue, [cb |-> j, left |-> Delay(retries[j] + 1)])
          /\ disconnect' = Disconnect(disconnect, queue')
          /\ waited' = [waited EXCEPT ![j] = 0]
          /\ UNCHANGED wire

\* The job is done with and its memory freed.
Finish(j, end) ==
  /\ st' = [st EXCEPT ![j] = end]
  /\ disconnect' = IF retries[j] > 0 THEN Disconnect(disconnect, queue) ELSE disconnect
  /\ UNCHANGED <<wire, retries, queue, waited>>

\* Faulty variant: the unlock is counted again.
ScoreAfter_Adds(a) == score + 1

\* The server's score replaces the client's.
ScoreAfter(a) == a.score

\* achievements_remaining is 0: the mastery is announced unless it was before.
MasteryAfter(a) == IF a.complete /\ mastery = "none" THEN "pending" ELSE mastery

\* rc_client_award_achievement_callback and its twin for leaderboard entries.
Answered(a) ==
  \/ /\ a.outcome = "transient"
     /\ Retry(a.job)
     /\ raised' = {}
     /\ UNCHANGED <<score, mastery, fault>>
  \/ /\ a.outcome = "fatal"
     /\ Finish(a.job, "dropped")
     /\ raised' = {"SERVER_ERROR"}
     /\ UNCHANGED <<score, mastery, fault>>
  \/ /\ a.outcome = "ok" /\ a.job \in Awards
     /\ Finish(a.job, "done")
     /\ score' = ScoreAfter(a)
     /\ mastery' = MasteryAfter(a)
     /\ fault' = IF a.complete /\ ~loaded THEN "award" ELSE fault
     /\ raised' = {}
  \/ /\ a.outcome = "ok" /\ a.job \in Entries
     /\ Finish(a.job, "done")
     /\ raised' = IF loaded /\ retries[a.job] < 2 THEN {"SCOREBOARD"} ELSE {}
     /\ UNCHANGED <<score, mastery, fault>>

\* drain_http_done calls the callback of the first answer.
Handle ==
  /\ ~idling /\ answers # << >>
  /\ answers' = Tail(answers)
  /\ Answered(Head(answers))
  /\ UNCHANGED <<userVars, hideArmed, idling, recorded, told>>

-----------------------------------------------------------------------------
(* The frame: the progress indicator, mastery, and rc_client_idle *)

\* rc_client_do_frame_update_progress_tracker
ShowProgress ==
  /\ ~idling /\ loaded
  /\ queue' = Reschedule(queue, "hide", HideAfter)
  /\ hideArmed' = TRUE
  /\ raised' = {IF hideArmed THEN "PROGRESS_UPDATE" ELSE "PROGRESS_SHOW"}
  /\ UNCHANGED <<userVars, mastery, score, jobVars, disconnect, idling, netVars, told, fault>>

\* rc_client_hide_progress_tracker, called by rc_client_reset
HideProgress ==
  /\ ~idling /\ loaded /\ hideArmed
  /\ queue' = Unschedule(queue, "hide")
  /\ hideArmed' = FALSE
  /\ raised' = {"PROGRESS_HIDE"}
  /\ UNCHANGED <<userVars, mastery, score, jobVars, disconnect, idling, netVars, told, fault>>

\* rc_client_raise_mastery_event, with the events of a frame
RaiseMastery ==
  /\ ~idling /\ loaded /\ mastery = "pending"
  /\ mastery' = "shown"
  /\ raised' = {"GAME_COMPLETED"}
  /\ UNCHANGED <<userVars, score, jobVars, queue, hideArmed, disconnect, idling, netVars,
                 told, fault>>

\* rc_client_idle goes on while the head of the queue is due.
Due == queue # << >> /\ Head(queue).left = 0

\* The callback of the head of the queue: rc_client_award_achievement_retry and
\* its twin, rc_client_ping, or rc_client_progress_tracker_timer_elapsed.
Pop(cb) ==
  \/ /\ cb \in Jobs
     /\ queue' = Tail(queue)
     /\ Send(cb)
     /\ raised' = {}
     /\ UNCHANGED <<hideArmed, fault>>
  \/ /\ cb = "ping"
     /\ queue' = Insert(Tail(queue), [cb |-> "ping", left |-> PingPeriod])
     /\ fault' = IF loaded THEN fault ELSE "ping"
     /\ raised' = {}
     /\ UNCHANGED <<st, wire, hideArmed>>
  \/ /\ cb = "hide"
     /\ queue' = Tail(queue)
     /\ hideArmed' = FALSE
     /\ fault' = IF loaded THEN fault ELSE "hide"
     /\ raised' = {"PROGRESS_HIDE"}
     /\ UNCHANGED <<st, wire>>

IdlePop ==
  /\ Due
  /\ Pop(Head(queue).cb)
  /\ idling' = TRUE
  /\ UNCHANGED <<userVars, mastery, score, retries, disconnect, answers, recorded,
                 waited, told>>

\* Nothing is due any more: rc_client_raise_disconnect_events.
IdleEnd ==
  /\ ~Due /\ (idling \/ disconnect \in {"show", "hide"})
  /\ idling' = FALSE
  /\ disconnect' = CASE disconnect = "show" -> "visible"
                     [] disconnect = "hide" -> "hidden"
                     [] OTHER -> disconnect
  /\ raised' = CASE disconnect = "show" -> {"DISCONNECTED"}
                 [] disconnect = "hide" -> {"RECONNECTED"}
                 [] OTHER -> {}
  /\ told' = CASE disconnect = "show" -> "disconnected"
               [] disconnect = "hide" -> "reconnected"
               [] OTHER -> told
  /\ UNCHANGED <<userVars, mastery, score, jobVars, queue, hideArmed, netVars, fault>>

\* A second goes by: a callback that is due stays due.
Tick ==
  /\ ~idling
  /\ \E i \in DOMAIN queue : queue[i].left > 0
  /\ queue' = [i \in DOMAIN queue |->
                 [queue[i] EXCEPT !.left = IF @ = 0 THEN 0 ELSE @ - 1]]
  /\ waited' = [j \in Jobs |-> IF st[j] = "queued" /\ waited[j] < Delay(retries[j])
                               THEN waited[j] + 1 ELSE waited[j]]
  /\ raised' = {}
  /\ UNCHANGED <<userVars, mastery, score, st, retries, hideArmed, disconnect, idling,
                 netVars, told, fault>>

-----------------------------------------------------------------------------
(* Sessions *)

\* rc_client_unload_game: the ping and the timer of the game are taken out of
\* the queue, and its pending events raised, the mastery among them, which reads
\* client->game.
Unloaded ==
  /\ loaded' = FALSE
  /\ mastery' = "none"
  /\ queue' = LET q == IF hideArmed THEN Unschedule(queue, "hide") ELSE queue
              IN  Without(q, "ping")
  /\ hideArmed' = FALSE
  /\ raised' = IF hideArmed THEN {"PROGRESS_HIDE"} ELSE {}
  /\ fault' = IF mastery = "pending" THEN "mastery" ELSE fault

Unload ==
  /\ Sessions /\ ~idling /\ loaded
  /\ Unloaded
  /\ UNCHANGED <<account, score, jobVars, disconnect, idling, netVars, told>>

\* rc_client_logout
Logout ==
  /\ Sessions /\ ~idling /\ account # NoAccount
  /\ account' = NoAccount /\ score' = 0
  /\ IF loaded THEN Unloaded
     ELSE raised' = {} /\ UNCHANGED <<loaded, mastery, queue, hideArmed, fault>>
  /\ UNCHANGED <<jobVars, disconnect, idling, netVars, told>>

\* A login succeeds: its answer comes after those to all earlier requests.
Login(u) ==
  /\ ~idling /\ account = NoAccount /\ wire = << >> /\ answers = << >>
  /\ account' = u
  /\ score' = Cardinality(recorded[u] \cap Awards)
  /\ raised' = {}
  /\ UNCHANGED <<loaded, mastery, jobVars, queue, hideArmed, disconnect, idling, netVars,
                 told, fault>>

\* rc_client_activate_game schedules the ping.
Load ==
  /\ ~idling /\ account # NoAccount /\ ~loaded
  /\ loaded' = TRUE
  /\ queue' = Insert(queue, [cb |-> "ping", left |-> FirstPing])
  /\ raised' = {}
  /\ UNCHANGED <<account, mastery, score, jobVars, hideArmed, disconnect, idling, netVars,
                 told, fault>>

-----------------------------------------------------------------------------
Outcomes == {"ok", "fatal", "transient"}
Server == \E outcome \in Outcomes, records \in BOOLEAN : Serve(outcome, records)
Frame == (\E j \in Jobs : Unlock(j) \/ Submit(j)) \/ ShowProgress \/ HideProgress \/ RaiseMastery
Idle == IdlePop \/ IdleEnd
User == Unload \/ Logout \/ Load \/ \E u \in Accounts : Login(u)

Next == fault = "none" /\ (Server \/ Handle \/ Frame \/ Idle \/ Tick \/ User)

Spec == Init /\ [][Next]_vars

\* The RA thread is a loop that drains the answers and then calls rc_client_idle,
\* so the two take turns, and time goes by between them: strong fairness, as
\* rc_client_idle disables the others while it runs.  The worker answers every
\* request (RaHttp).
FairSpec ==
  /\ Spec
  /\ WF_vars(fault = "none" /\ Server) /\ SF_vars(fault = "none" /\ Handle)
  /\ WF_vars(fault = "none" /\ Idle) /\ SF_vars(fault = "none" /\ Tick)

-----------------------------------------------------------------------------
(* Properties *)

Callbacks == Jobs \cup {"ping", "hide"}
Requests(j) == {i \in DOMAIN wire : wire[i].job = j}
Responses(j) == {i \in DOMAIN answers : answers[i].job = j}
Failed(j) == retries[j] > 0
Pending(j) == st[j] \in {"flight", "queued"}

TypeOK ==
  /\ account \in Accounts \cup {NoAccount} /\ loaded \in BOOLEAN
  /\ mastery \in {"none", "pending", "shown"}
  /\ score \in Nat
  /\ st \in [Jobs -> {"fresh", "flight", "queued", "done", "dropped", "lost"}]
  /\ retries \in [Jobs -> Nat] /\ waited \in [Jobs -> Nat]
  /\ queue \in Seq([cb : Callbacks, left : Nat])
  /\ hideArmed \in BOOLEAN /\ idling \in BOOLEAN
  /\ disconnect \in {"hidden", "visible", "show", "hide"}
  /\ wire \in Seq([job : Jobs, account : Accounts])
  /\ answers \in Seq([job : Jobs, outcome : Outcomes, score : Nat, complete : BOOLEAN])
  /\ recorded \in [Accounts -> SUBSET Jobs]
  /\ told \in {"disconnected", "reconnected"}
  /\ raised \subseteq {"DISCONNECTED", "RECONNECTED", "SERVER_ERROR", "SCOREBOARD",
                       "GAME_COMPLETED", "PROGRESS_SHOW", "PROGRESS_UPDATE", "PROGRESS_HIDE"}
  /\ fault \in {"none", "award", "mastery", "ping", "hide"}

\* The queue is in the order in which the callbacks are due, so rc_client_idle,
\* which stops at the first one that is not due, never leaves a due one behind.
QueueSorted ==
  \A i, k \in DOMAIN queue : i < k => queue[i].left <= queue[k].left

\* A job is in one place: one request or answer while it is in flight, one entry
\* of the queue while it waits, none once it is freed.  The timer is queued when
\* its time is not 0, and the ping, which reads client->game, while there is one.
OnePlace ==
  /\ \A j \in Jobs :
       /\ Cardinality(Requests(j)) + Cardinality(Responses(j)) = IF st[j] = "flight" THEN 1 ELSE 0
       /\ Cardinality(Positions(queue, j)) = IF st[j] = "queued" THEN 1 ELSE 0
  /\ Cardinality(Positions(queue, "ping")) = IF loaded THEN 1 ELSE 0
  /\ Cardinality(Positions(queue, "hide")) = IF hideArmed THEN 1 ELSE 0

\* DISCONNECTED and RECONNECTED alternate, beginning with DISCONNECTED.
EventsAlternate ==
  /\ "DISCONNECTED" \in raised' => told = "reconnected"
  /\ "RECONNECTED" \in raised' => told = "disconnected"

\* "an unlock request could not be completed and is pending" (rc_client.h on
\* DISCONNECTED): while the user is shown as disconnected, one is, or it was due
\* when nobody was logged in and is lost, of which nothing tells the user.
DisconnectedMeansPending ==
  disconnect \in {"show", "visible"} =>
    \E j \in Jobs : st[j] = "lost" \/ (Pending(j) /\ Failed(j))

\* As long as a retry is queued, the user is shown as disconnected or about to be:
\* an answer to one job does not clear the state while another waits for its turn.
QueuedMeansDisconnected ==
  HasRetry(queue) => disconnect \in {"show", "visible"}

\* "1s -> 2s -> 4s -> 8s -> 16s -> 32s -> 64s -> 120s -> 120s": a job goes out
\* again after exactly so many seconds in the queue, or more.
Schedule == <<1, 2, 4, 8, 16, 32, 64, 120>>
RetriesOnSchedule ==
  \A j \in Jobs : st[j] = "queued" /\ st'[j] # "queued" =>
     waited[j] >= Schedule[IF retries[j] > 8 THEN 8 ELSE retries[j] - 1]

\* "adjust score now - will get accurate score back from server": when the server
\* has answered everything it was sent, and refused none, the two scores agree.
ScoreAccurate ==
  /\ account # NoAccount
  /\ \A j \in Awards : st[j] \in {"fresh", "done"}
  => score = Cardinality(recorded[account] \cap Awards)

\* The game is announced as completed once, and only when the server has every
\* achievement.
CompletedOnce ==
  /\ "GAME_COMPLETED" \in raised' => \E u \in Accounts : Awards \subseteq recorded[u]
  /\ mastery = "shown" => mastery' = "shown" \/ ~loaded'

\* What is scheduled: each job is in one place, in an ordered queue, and goes out when it is due.
OnSchedule == [][TypeOK' /\ QueueSorted' /\ OnePlace' /\ RetriesOnSchedule]_vars

\* What the user is told of the connection is so while it is told, and told in turn.
ConnectionTold ==
  [][DisconnectedMeansPending' /\ QueuedMeansDisconnected' /\ EventsAlternate]_vars

\* However often an unlock is sent, it is credited and celebrated once.
CreditedOnce == [][ScoreAccurate' /\ CompletedOnce]_vars

\* Every unlock and entry is settled: recorded by the server, or refused by it
\* and reported as a server error.
EverythingSettles ==
  \A j \in Jobs : st[j] = "flight" ~> st[j] \in {"done", "dropped"}

\* A user who was told of a disconnection is told when it is over.
ReconnectionIsTold == told = "disconnected" ~> told = "reconnected"

\* Both, when the server stops failing.
SettledAndTold == EverythingSettles /\ ReconnectionIsTold
=============================================================================
