----------------------------- MODULE RcRequests -----------------------------
(***************************************************************************)
(* The requests of rc_client.c that are neither a login, a load nor an     *)
(* unlock: lists fetched from the server, and the change of the media of a *)
(* game.  Each has an asynchronous handle, and the client remembers a few  *)
(* of them so that it can mark them when it is destroyed.                  *)
(*                                                                         *)
(* A request is begun in two steps, since its answer may come before the   *)
(* call that began it returns: from the server_call itself, or on another  *)
(* thread.  Loading a game is reduced to what a change of media meets of   *)
(* it (see RcLoad): a game that is not identified yet, one that is, and a  *)
(* game that is active.                                                    *)
(***************************************************************************)
EXTENDS Integers, Sequences, SequencesExt, FiniteSetsExt

CONSTANTS
  Requests,     \* calls that begin a request: each is made at most once
  Slots,        \* elements of state.async_handles
  Hashes,       \* hashes of media
  Paths,        \* files of media
  HashOfFile,   \* the hash of each file, or NoHash when the system cannot hash it
  Answers,      \* the lists the server may send, for each kind of request
  Plans         \* bounds which requests are made, [kinds, games]

NoHash == "[NO HASH]"
Unasked == -1                   \* RC_CLIENT_UNKNOWN_GAME_ID
ThisGame == 1
GameIds == {0, ThisGame, 2}     \* of a hash: of no game, of the game, of another one
ListKinds == {"hashes", "progress", "titles", "games", "entries", "around"}

Null == -1                      \* the length of a string that is not there
Lengths == {n \in Int : n >= Null}

\* What an answer is a sequence of, for the requests whose lists have strings.
Entry(kind) ==
  CASE kind = "titles" -> [title : Lengths, url : Lengths]
    [] kind = "games" -> [name : Lengths, image : Lengths, url : Lengths,
                          supported : Seq(Lengths), unsupported : Seq(Lengths)]
    [] kind \in {"entries", "around"} -> [user : Lengths, mine : BOOLEAN]
    [] OTHER -> {"entry"}

ASSUME RequestsAssumption ==
  /\ Slots \in Nat /\ "none" \notin Requests
  /\ HashOfFile \in [Paths -> Hashes \cup {NoHash}] /\ NoHash \notin Hashes
  /\ DOMAIN Answers = ListKinds /\ \A kind \in ListKinds : Answers[kind] \subseteq Seq(Entry(kind))

VARIABLES
  plan,         \* one of Plans
  alive,        \* rc_client_destroy was not called
  loggedIn,     \* there is a user
  hardcore,
  requests,     \* the callback data of each request, and what became of it
  slots,        \* state.async_handles: the requests they belong to
  known,        \* client->hashes: the game of each hash
  game,         \* client->game
  load,         \* state.load, with its pending_media
  games         \* history: how many games there have been

requestVars == <<plan, alive, loggedIn, hardcore, requests, slots, known, game, load, games>>

State == [alive |-> alive, hardcore |-> hardcore, requests |-> requests, slots |-> slots,
          known |-> known, game |-> game, load |-> load]

Becomes(t) ==
  /\ alive' = t.alive /\ hardcore' = t.hardcore /\ requests' = t.requests /\ slots' = t.slots
  /\ known' = t.known /\ game' = t.game /\ load' = t.load
  /\ UNCHANGED <<plan, loggedIn>>

NoGame == [at |-> 0, id |-> 0, hash |-> NoHash, files |-> <<>>]
NoLoad == [at |-> 0, id |-> 0, identified |-> FALSE, hash |-> NoHash, files |-> <<>>, pending |-> "none"]
NoList == [size |-> 0, written |-> <<>>, wanted |-> <<>>, user |-> 0]

Fresh ==
  [kind |-> "none", phase |-> "fresh",  \* fresh, calling, open, answered or done
   aborted |-> "no",                    \* async_handle.aborted: no, aborted or destroyed
   game |-> 0, hash |-> NoHash, path |-> "none",
   handle |-> FALSE,                    \* the caller was given the handle
   slotless |-> FALSE,                  \* history: all slots were taken
   told |-> <<>>,                       \* history: the results given to the callback
   asked |-> 0,                         \* history: the game there was when it was asked for
   stray |-> FALSE,                     \* history: the answer used a client that is gone
   list |-> NoList]

RequestsInit ==
  /\ plan \in Plans
  /\ alive = TRUE /\ loggedIn \in BOOLEAN /\ hardcore = TRUE
  /\ requests = [r \in Requests |-> Fresh]
  /\ slots = {}
  /\ known = [h \in Hashes |-> Unasked]
  /\ game = NoGame /\ load = NoLoad /\ games = 0

Tell(t, r, result) == [t EXCEPT !.requests[r].told = Append(@, result)]
Finish(t, r, result) == [Tell(t, r, result) EXCEPT !.requests[r].phase = "done"]

-----------------------------------------------------------------------------
(* Handles.                                                                 *)

\* Faulty variant: a request that finds no free slot takes one that is not free.
BeginAsync_TakesOne(t, r) ==
  [t EXCEPT !.slots = IF Cardinality(@) < Slots THEN @ \cup {r} ELSE (@ \ {CHOOSE s \in @ : TRUE}) \cup {r},
            !.requests[r].phase = "calling"]

\* rc_client_begin_async, and the server_call that follows it.
BeginAsync(t, r) ==
  LET free == Cardinality(t.slots) < Slots
  IN [t EXCEPT !.slots = IF free THEN @ \cup {r} ELSE @,
               !.requests[r].phase = "calling", !.requests[r].slotless = ~free]

\* rc_client_end_async
EndAsync(t, r) ==
  IF t.requests[r].aborted = "destroyed" THEN t
  ELSE [t EXCEPT !.slots = @ \ {r}, !.requests[r].stray = ~t.alive]

\* What every answer begins with; the call that began the request may go on.
Answered(t, r) ==
  [EndAsync(t, r) EXCEPT !.requests[r].phase = IF @ = "calling" THEN "answered" ELSE "done"]

\* The call that began it returns, with rc_client_async_handle_valid.
Returns(r) ==
  /\ alive /\ requests[r].phase \in {"calling", "answered"}
  /\ Becomes([State EXCEPT !.requests[r].handle = r \in slots,
                           !.requests[r].phase = IF @ = "calling" THEN "open" ELSE "done"])
  /\ UNCHANGED games

\* rc_client_abort_async, by a caller that was given the handle and got no answer yet.
AbortAsync(r) ==
  /\ alive /\ requests[r].phase = "open" /\ requests[r].handle /\ requests[r].aborted = "no"
  /\ Becomes([State EXCEPT !.requests[r].aborted = "aborted"])
  /\ UNCHANGED games

\* rc_client_destroy, between calls.
Destroy ==
  /\ alive /\ \A r \in Requests : requests[r].phase \in {"fresh", "open", "done"}
  /\ Becomes([State EXCEPT !.alive = FALSE, !.game = NoGame, !.load = NoLoad, !.slots = {},
                 !.requests = [r \in Requests |->
                    IF r \in slots THEN [@[r] EXCEPT !.aborted = "destroyed"] ELSE @[r]]])
  /\ UNCHANGED games

-----------------------------------------------------------------------------
(* Lists.  A string is its length, or Null; a list is one block of memory   *)
(* whose size is computed before it is filled.                              *)

Rooms(lengths) == FoldLeft(LAMBDA sum, n : sum + n + 1, 0, lengths)

\* Faulty variant: the address of the image is not counted.
TitleRoom_ForgetsUrl(e) == e.title + 1

\* rc_client_fetch_game_titles_callback, rc_client_fetch_game_list_callback and
\* rc_client_fetch_leaderboard_entries_callback: the room for the strings of an entry, ...
TitleRoom(e) == (e.title + 1) + (e.url + 1)
GameRoom(e) == (e.name + 1) + (e.image + 1) + (e.url + 1) + Rooms(e.supported) + Rooms(e.unsupported)
EntryRoom(e) == e.user + 1

\* ... and the strings in the order in which they are copied.
TitleStrings(e) == <<e.title, e.url>>
GameStrings(e) == <<e.name, e.image, e.url>> \o e.supported \o e.unsupported
EntryStrings(e) == <<e.user>>

RoomOf(kind, e) ==
  CASE kind = "titles" -> TitleRoom(e) [] kind = "games" -> GameRoom(e)
    [] kind \in {"entries", "around"} -> EntryRoom(e) [] OTHER -> 0
StringsOf(kind, e) ==
  CASE kind = "titles" -> TitleStrings(e) [] kind = "games" -> GameStrings(e)
    [] kind \in {"entries", "around"} -> EntryStrings(e) [] OTHER -> <<>>

Copy(block, length) == [at |-> block.at + length + 1, to |-> Append(block.to, block.at)]

\* The last entry that is the user's is the one that is pointed out.
UserIndex(kind, entries) ==
  LET mine == {i \in DOMAIN entries : kind \in {"entries", "around"} /\ entries[i].mine}
  IN IF mine = {} THEN 0 ELSE Max(mine)

\* The block built from an answer.
ListOf(kind, entries) ==
  LET strings == FoldLeft(LAMBDA all, e : all \o StringsOf(kind, e), <<>>, entries)
  IN [size |-> FoldLeft(LAMBDA sum, e : sum + RoomOf(kind, e), 0, entries),
      written |-> FoldLeft(Copy, [at |-> 0, to |-> <<>>], strings).to, wanted |-> strings,
      user |-> UserIndex(kind, entries)]

\* A request that cannot be made is refused on the spot.
BeginFetch(r, kind, possible) ==
  LET t == [State EXCEPT !.requests[r].kind = kind]
  IN /\ alive /\ requests[r].phase = "fresh" /\ plan.kinds[r] = kind
     /\ Becomes(IF possible THEN BeginAsync(t, r)
                ELSE Finish(t, r, "invalid"))
     /\ UNCHANGED games

AnswerFetch(r, kinds, result) ==
  LET kind == requests[r].kind
      t == Answered(State, r)
  IN /\ kind \in kinds /\ requests[r].phase \in {"calling", "open"}
     /\ \E entries \in Answers[kind] :
          Becomes(CASE requests[r].aborted # "no" -> t
                    [] requests[r].aborted = "no" /\ result # "ok" -> Tell(t, r, result)
                    [] OTHER -> [Tell(t, r, "ok") EXCEPT !.requests[r].list = ListOf(kind, entries)])
     /\ UNCHANGED games

\* rc_client_begin_fetch_*: two of them need a user, one needs games to ask for.
FetchAllUserProgress(r) == BeginFetch(r, "progress", loggedIn)
FetchHashLibrary(r) == BeginFetch(r, "hashes", TRUE)
FetchGameTitles(r) == \E any \in BOOLEAN : BeginFetch(r, "titles", any)
FetchGameList(r) == BeginFetch(r, "games", TRUE)
FetchLeaderboardEntries(r) == BeginFetch(r, "entries", TRUE)
FetchLeaderboardEntriesAroundUser(r) == BeginFetch(r, "around", loggedIn)

\* rc_client_fetch_*_callback
AllUserProgressAnswered(r, result) == AnswerFetch(r, {"progress"}, result)
HashLibraryAnswered(r, result) == AnswerFetch(r, {"hashes"}, result)
GameTitlesAnswered(r, result) == AnswerFetch(r, {"titles"}, result)
GameListAnswered(r, result) == AnswerFetch(r, {"games"}, result)
LeaderboardEntriesAnswered(r, result) == AnswerFetch(r, {"entries", "around"}, result)

-----------------------------------------------------------------------------
(* The media of the game.                                                   *)

\* rc_client_change_media_internal
ChangeMediaInternal(t, r, hash) ==
  LET id == IF hash = NoHash THEN Unasked ELSE t.known[hash]
      changed == [t EXCEPT !.game.hash = hash]
  IN IF id = 0 /\ t.game.id # 0 /\ t.hardcore
     THEN Tell([changed EXCEPT !.hardcore = FALSE], r, "hardcoreDisabled")
     ELSE Tell(changed, r, "ok")

\* rc_client_begin_change_media_internal
BeginChangeMediaInternal(t, r, at, hash) ==
  IF hash = NoHash \/ t.known[hash] # Unasked
  THEN [ChangeMediaInternal(t, r, hash) EXCEPT !.requests[r].phase = "done"]
  ELSE BeginAsync([t EXCEPT !.requests[r].game = at, !.requests[r].hash = hash], r)

\* rc_client_check_pending_media: the game whose media change, which may be one that is loading.
\* A change that was pending is replaced: nobody hears of it again.
CheckPendingMedia(t, r) ==
  IF t.load.at # 0
  THEN IF t.load.identified THEN [t |-> t, at |-> t.load.at]
       ELSE [t |-> [t EXCEPT !.load.pending = r, !.requests[r].phase = "done"], at |-> 0]
  ELSE IF t.game.at # 0 THEN [t |-> t, at |-> t.game.at]
       ELSE [t |-> Finish(t, r, "noGame"), at |-> 0]

\* A file that was hashed before is not hashed again: it is there once.
HashedBefore(files, path) == {i \in DOMAIN files : files[i].path = path}

FilesOf(t) == IF t.load.at # 0 THEN t.load.files ELSE t.game.files

HashOf(t, q) ==
  IF q.path = "none" THEN q.hash
  ELSE LET hashed == HashedBefore(FilesOf(t), q.path)
       IN IF hashed # {} THEN FilesOf(t)[CHOOSE i \in hashed : TRUE].hash ELSE HashOfFile[q.path]

Noted(t, q) ==
  LET noted == Append(FilesOf(t), [path |-> q.path, hash |-> HashOf(t, q)])
  IN IF q.path = "none" \/ HashedBefore(FilesOf(t), q.path) # {} THEN t
     ELSE IF t.load.at # 0 THEN [t EXCEPT !.load.files = noted] ELSE [t EXCEPT !.game.files = noted]

\* rc_client_begin_change_media, rc_client_begin_identify_and_change_media
BeginChange(t, r) ==
  LET checked == CheckPendingMedia(t, r)
  IN IF checked.at = 0 THEN checked.t
     ELSE BeginChangeMediaInternal(Noted(t, t.requests[r]), r, checked.at, HashOf(t, t.requests[r]))

\* While a game that is identified is loading there is no active game, and a change to a hash that
\* is known uses it all the same (rc_client.c:3216): such a call is left out.
ChangeMedia(r, hash, path) ==
  LET t == [State EXCEPT !.requests[r].kind = "media", !.requests[r].hash = hash, !.requests[r].path = path,
                         !.requests[r].asked = IF load.at # 0 THEN load.at ELSE game.at]
      h == IF path = "none" THEN hash ELSE HashOfFile[path]
  IN /\ alive /\ requests[r].phase = "fresh" /\ plan.kinds[r] = "media"
     /\ (load.identified => h # NoHash /\ known[h] = Unasked)
     /\ Becomes(BeginChange(t, r))
     /\ UNCHANGED games

\* Faulty variant: the game may be another one.
AnswerMedia_AnyGame(r, result, id) ==
  LET q == requests[r]
      t == Answered(State, r)
      learned == [t EXCEPT !.known[q.hash] = id]
  IN /\ q.kind = "media" /\ q.phase \in {"calling", "open"}
     /\ Becomes(CASE q.aborted = "destroyed" -> t
                  [] q.aborted = "aborted" -> IF result = "ok" THEN learned ELSE t
                  [] result # "ok" -> Tell(t, r, result)
                  [] OTHER -> ChangeMediaInternal(learned, r, q.hash))
     /\ UNCHANGED games

\* rc_client_identify_changed_media_callback
AnswerMedia(r, result, id) ==
  LET q == requests[r]
      t == Answered(State, r)
      learned == [t EXCEPT !.known[q.hash] = id]
  IN /\ q.kind = "media" /\ q.phase \in {"calling", "open"}
     /\ Becomes(CASE q.aborted = "destroyed" -> t
                  [] q.aborted = "aborted" -> IF result = "ok" THEN learned ELSE t
                  [] q.aborted = "no" /\ game.at # q.game -> Tell(t, r, "noLongerActive")
                  [] q.aborted = "no" /\ game.at = q.game /\ result # "ok" -> Tell(t, r, result)
                  [] OTHER -> ChangeMediaInternal(learned, r, q.hash))
     /\ UNCHANGED games

-----------------------------------------------------------------------------
(* Games come and go.                                                       *)

\* rc_client_begin_load_game: another load is aborted, the game unloaded.
LoadBegins(hash) ==
  /\ alive /\ games < plan.games /\ games' = games + 1
  /\ Becomes([State EXCEPT !.game = NoGame,
                           !.load = [NoLoad EXCEPT !.at = games', !.hash = hash]])

\* The server knows the hash, and sends the game.
LoadIdentifies ==
  /\ alive /\ load.at # 0 /\ ~load.identified /\ known[load.hash] # 0
  /\ Becomes([State EXCEPT !.load.identified = TRUE, !.load.id = ThisGame, !.known[load.hash] = ThisGame])
  /\ UNCHANGED games

\* Whoever asked for the change has returned long ago: the handle is given to nobody.
BeginPending(t, p) ==
  LET begun == BeginChange([t EXCEPT !.load.pending = "none"], p)
  IN [begun EXCEPT !.requests[p].phase = IF @ = "calling" THEN "open" ELSE @]

\* rc_client_activate_game: a change that is pending begins now.
LoadEnds ==
  LET t == [State EXCEPT !.game = [at |-> load.at, id |-> load.id, hash |-> load.hash, files |-> load.files]]
      p == load.pending
      begun == IF p = "none" THEN t ELSE BeginPending(t, p)
  IN /\ alive /\ load.identified
     /\ Becomes([begun EXCEPT !.load = NoLoad,
                              !.game.files = IF p = "none" THEN @ ELSE begun.load.files])
     /\ UNCHANGED games

\* rc_client_process_resolved_hash: a game nobody knows is active at once, what is pending is lost.
LoadUnknown ==
  /\ alive /\ load.at # 0 /\ ~load.identified /\ known[load.hash] \in {Unasked, 0}
  /\ Becomes([State EXCEPT !.game = [at |-> load.at, id |-> 0, hash |-> load.hash, files |-> load.files],
                           !.known[load.hash] = 0, !.load = NoLoad])
  /\ UNCHANGED games

\* rc_client_load_error, rc_client_unload_game
Unload ==
  /\ alive /\ (load.at # 0 \/ game.at # 0)
  /\ Becomes([State EXCEPT !.game = NoGame, !.load = NoLoad])
  /\ UNCHANGED games

RequestsNext ==
  \/ \E r \in Requests :
       \/ Returns(r) \/ AbortAsync(r)
       \/ FetchAllUserProgress(r) \/ FetchHashLibrary(r) \/ FetchGameTitles(r) \/ FetchGameList(r)
       \/ FetchLeaderboardEntries(r) \/ FetchLeaderboardEntriesAroundUser(r)
       \/ \E result \in {"ok", "error"} :
            \/ AllUserProgressAnswered(r, result) \/ HashLibraryAnswered(r, result)
            \/ GameTitlesAnswered(r, result) \/ GameListAnswered(r, result)
            \/ LeaderboardEntriesAnswered(r, result)
       \/ \E h \in Hashes : ChangeMedia(r, h, "none")
       \/ \E p \in Paths : ChangeMedia(r, NoHash, p)
       \/ \E id \in GameIds : AnswerMedia(r, "ok", id)
       \/ AnswerMedia(r, "error", Unasked)
  \/ \E h \in Hashes : LoadBegins(h)
  \/ LoadIdentifies \/ LoadEnds \/ LoadUnknown \/ Unload \/ Destroy

RequestsSpec == RequestsInit /\ [][RequestsNext]_requestVars

-----------------------------------------------------------------------------
\* Whoever began a request hears of it once, unless it was aborted, the client destroyed, or it was
\* left behind by the load it waited for; never after it was aborted; and after rc_client_destroy an
\* answer touches the client only for want of a slot (rc_client_begin_async, rc_client_end_async).
HeardOnce ==
  \A r \in Requests :
    LET q == requests[r]
    IN /\ Len(q.told) <= 1
       /\ q.phase \in {"calling", "open"} => q.told = <<>>
       /\ q.aborted # "no" => q.told = <<>>
       /\ q.phase \in {"answered", "done"} /\ q.aborted = "no" /\ load.pending # r =>
            q.told # <<>> \/ (q.kind = "media" /\ q.game = 0)
       /\ q.stray => q.slotless

\* The media of the active game are those it was loaded with, or those somebody asked of this game:
\* never the late answer of a change asked of a game that is gone
\* (rc_client_identify_changed_media_callback).
MediaOfThisGame ==
  [][game.at # 0 /\ game'.at = game.at /\ game'.hash # game.hash =>
       \E r \in Requests : requests'[r].told # requests[r].told /\ requests'[r].asked = game.at]_requestVars

\* The strings of a list stand one after another in its block, each as long as it should be, and end
\* where the block ends (rc_client_fetch_game_titles_callback, rc_client_fetch_game_list_callback,
\* rc_client_fetch_leaderboard_entries_callback).
ListsFit ==
  \A r \in Requests :
    LET l == requests[r].list
        end(i) == l.written[i] + l.wanted[i] + 1
    IN \A i \in DOMAIN l.wanted :
         /\ end(i) <= l.size
         /\ \A j \in 1..(i - 1) : end(j) <= l.written[i]
=============================================================================
