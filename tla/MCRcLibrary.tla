----------------------------- MODULE MCRcLibrary -----------------------------
(***************************************************************************)
(* The parts of the client that neither load, award nor run: requests for  *)
(* lists and changes of media, the lists made for display, and the pauses. *)
(* They share no state here, so that a behaviour is one of each.           *)
(***************************************************************************)
EXTENDS RcRequests, RcLists, RcPause

CONSTANTS r1, r2, r3
VARIABLE part

libraryVars == <<part, requestVars, listVars, pauseVars>>

-----------------------------------------------------------------------------
(* Requests: two changes of media while games come and go, lists that       *)
(* compete for the only slot.                                               *)

MCPlans ==
  LET plan_(a, b, c, n) == [kinds |-> r1 :> a @@ r2 :> b @@ r3 :> c, games |-> n]
  IN {plan_("media", "media", "none", 2), plan_("media", "titles", "none", 1),
      plan_("games", "around", "none", 0), plan_("progress", "hashes", "entries", 0)}

MCHashOfFile == "track" :> NoHash @@ "disc" :> "h2"

MCAnswers ==
  LET title(a, b) == [title |-> a, url |-> b]
      gameEntry(n, i, u, s, x) == [name |-> n, image |-> i, url |-> u, supported |-> s, unsupported |-> x]
      user(n, m) == [user |-> n, mine |-> m]
  IN [k \in ListKinds |->
        CASE k = "titles" -> {<<title(2, 1), title(Null, 0)>>, <<title(3, Null)>>}
          [] k = "games" -> {<<gameEntry(1, Null, 2, <<2>>, <<>>), gameEntry(0, 1, Null, <<>>, <<2, 3>>)>>}
          [] k \in {"entries", "around"} -> {<<user(2, FALSE), user(1, TRUE)>>}
          [] OTHER -> {<<"entry">>}]

-----------------------------------------------------------------------------
(* Lists: unlocks in several orders over two sets, boards one of which is   *)
(* hidden, progress beside a set that is not active.                        *)

MCUnlocks == {<<>>, <<<<2, 1>>, <<3, 2>>, <<1, 1>>>>, <<<<1, 1>>, <<2, 1>>>>, <<<<4, 1>>, <<2, 2>>>>,
              <<<<3, 1>>, <<1, 2>>, <<2, 2>>>>}

MCGames ==
  LET set(active, achievements, boards) == [active |-> active, achievements |-> achievements, boards |-> boards]
  IN {[unlocks |-> MCUnlocks,
       sets |-> <<set(TRUE, <<Achievement(1, "core", 0, 0), Achievement(2, "core", 1, 0),
                              Achievement(3, "unofficial", 0, 0)>>, <<>>),
                  set(TRUE, <<Achievement(4, "core", 0, 0)>>, <<>>)>>],
      [unlocks |-> {<<>>},
       sets |-> <<set(TRUE, <<Achievement(1, "core", 1, 0)>>, <<Board(1, 1, FALSE), Board(2, 0, TRUE)>>),
                  set(TRUE, <<>>, <<Board(3, 0, FALSE)>>)>>],
      [unlocks |-> {<<>>, <<<<1, 2>>>>},
       sets |-> <<set(FALSE, <<Achievement(5, "core", 0, 0)>>, <<>>),
                  set(TRUE, <<Achievement(1, "core", 1, 5), Achievement(2, "core", 2, 5)>>, <<>>)>>]}

MCMeasurements == {Unknown, 0, 4, 6}

-----------------------------------------------------------------------------
RequestsRest ==
  /\ plan = "none" /\ alive = FALSE /\ loggedIn = FALSE /\ hardcore = FALSE /\ requests = [r \in Requests |-> Fresh]
  /\ slots = {} /\ known = [h \in Hashes |-> Unasked] /\ game = NoGame /\ load = NoLoad /\ games = 0
ListsRest == /\ phase = "loaded" /\ source = "none" /\ sets = <<>> /\ ofHardcore = FALSE
             /\ sent = NothingSent /\ unreadable = {} /\ listed = {} /\ listedBoards = {}
PauseRests == PauseInit

LibraryInit ==
  \/ part = "requests" /\ RequestsInit /\ ListsRest /\ PauseRests
  \/ part = "lists" /\ RequestsRest /\ ListsInit /\ PauseRests
  \/ part = "pause" /\ RequestsRest /\ ListsRest /\ PauseInit

LibraryNext ==
  \/ part = "requests" /\ RequestsNext /\ UNCHANGED <<part, listVars, pauseVars>>
  \/ part = "lists" /\ ListsNext /\ UNCHANGED <<part, requestVars, pauseVars>>
  \/ part = "pause" /\ PauseNext /\ UNCHANGED <<part, requestVars, listVars>>

LibrarySpec == LibraryInit /\ [][LibraryNext]_libraryVars
=============================================================================
