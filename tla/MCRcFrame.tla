----------------------------- MODULE MCRcFrame -----------------------------
(* RcFrame on games of few assets. *)
EXTENDS RcFrame

CONSTANTS a1, a2

Board(val, pro) == [val |-> val, pro |-> pro]
Game(achs, boards) == [achs |-> achs, boards |-> boards]

\* Achievements only; leaderboards that share a value, that do not, that count
\* hits, or show another value; and one of each kind.
MixedGames ==
  { Game({a1, a2}, << >>),
    Game({}, <<Board("v", NoDef), Board("v", NoDef)>>),
    Game({}, <<Board("v", NoDef), Board("w", NoDef)>>),
    Game({}, <<Board("hits", NoDef), Board("hits", NoDef)>>),
    Game({}, <<Board("v", "w"), Board("v", NoDef)>>),
    Game({a1}, <<Board("v", NoDef)>>) }
MCHitDefs == {"hits"}
=============================================================================
