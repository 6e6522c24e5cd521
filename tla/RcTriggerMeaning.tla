-------------------------- MODULE RcTriggerMeaning --------------------------
(***************************************************************************)
(* What the definition of an achievement means, in the order in which it   *)
(* is written: whether it fires, pauses, resets or is primed in a frame,   *)
(* and what becomes of the hit counts.  The code gets there in another     *)
(* order and with state that runs through all conditions (RcTrigger).      *)
(*                                                                         *)
(* A definition is a sequence of groups, the core and the alternatives.  A *)
(* group is a sequence of conditions, each with the number of hits it has  *)
(* to tally, 0 when it just has to be true.  Combining conditions modify   *)
(* the next: a chain is a condition with those that lead to it.            *)
(***************************************************************************)
EXTENDS Integers, SequencesExt

CONSTANT Definitions

VARIABLES def,    \* the definition
          state,  \* state of the trigger
          hits    \* hit counts, by group and condition

mvars == <<def, state, hits>>

Combining == {"addHits", "subHits", "andNext", "orNext", "resetNextIf"}
Deciding == {"standard", "pauseIf", "resetIf", "trigger", "measured", "measuredIf"}

Zero == [g \in DOMAIN def |-> [i \in DOMAIN def[g] |-> 0]]

\* The condition that ends the chain of condition i, 0 when the group ends first.
Final(conds, i) ==
  LET ends == {j \in i .. Len(conds) : conds[j].type \in Deciding}
  IN  IF ends = {} THEN 0 ELSE CHOOSE j \in ends : \A k \in ends : j <= k
Finals(conds, types) == {f \in DOMAIN conds : conds[f].type \in types}

\* What becomes of the conditions in a frame, h being the hits and truth telling which
\* comparisons are true: links has, for each condition, its hits and whether it holds with those
\* that lead to it.

\* A ResetNextIf that holds resets condition i, also past AndNext and OrNext.
Resets(conds, links, i) ==
  \E z \in 1 .. i - 1 :
    /\ conds[z].type = "resetNextIf" /\ links[z].holds
    /\ \A k \in z + 1 .. i - 1 : conds[k].type \in {"andNext", "orNext"}

Joined(conds, truth, links, i) ==
  CASE i > 1 /\ conds[i - 1].type = "andNext" -> truth[i] /\ links[i - 1].holds
    [] i > 1 /\ conds[i - 1].type = "orNext" -> truth[i] \/ links[i - 1].holds
    [] OTHER -> truth[i]

Link(conds, h, truth, links, i) ==
  LET target == conds[i].target
      reset == Resets(conds, links, i)
      joined == Joined(conds, truth, links, i)
      tally == IF reset THEN 0
               ELSE IF joined /\ (target = 0 \/ h[i] < target) THEN h[i] + 1 ELSE h[i]
  IN  [tally |-> tally, holds |-> ~reset /\ IF target = 0 THEN joined ELSE tally = target]

Links(conds, h, truth) ==
  LET link[i \in DOMAIN conds] == Link(conds, h, truth, link, i) IN link

\* What the conditions that lead to f add to its hits, or take from them.
Worth(conds, links, f) ==
  [i \in DOMAIN conds |->
     CASE Final(conds, i) = f /\ conds[i].type = "addHits" -> links[i].tally
       [] Final(conds, i) = f /\ conds[i].type = "subHits" -> -links[i].tally
       [] OTHER -> 0]
Added(worth, m) == FoldLeft(LAMBDA n, i : n + worth[i], 0, [i \in 1 .. m |-> i])
Total(conds, links, f) == links[f].tally + Added(Worth(conds, links, f), f - 1)

\* Whether the chain that f ends holds.
Valid(conds, links, f) ==
  IF conds[f].target = 0 THEN links[f].holds ELSE Total(conds, links, f) >= conds[f].target

\* Pauses come first, and the first that holds ends the frame for the group.
Pauses(conds, links) == {f \in Finals(conds, {"pauseIf"}) : Valid(conds, links, f)}
Seen(conds, links, i) ==
  LET f == Final(conds, i)
  IN  IF f # 0 /\ conds[f].type = "pauseIf" THEN \A p \in Pauses(conds, links) : f <= p
      ELSE Pauses(conds, links) = {}

\* A PauseIf without a target counts while it holds only.
Kept(conds, links, i) ==
  IF conds[i].type = "pauseIf" /\ conds[i].target = 0 /\ ~links[i].holds THEN 0
  ELSE links[i].tally

\* The meaning of the conditions of a group in a frame.
Meaning(conds, h, truth) ==
  LET links == Links(conds, h, truth)
      pauses == Pauses(conds, links)
      All(types) == \A f \in Finals(conds, types) : Valid(conds, links, f)
  IN  [paused |-> pauses # {},
       reset |-> pauses = {} /\ \E f \in Finals(conds, {"resetIf"}) : Valid(conds, links, f),
       true |-> pauses = {} /\ All(Deciding \ {"pauseIf", "resetIf"}),
       primed |-> pauses = {} /\ All(Deciding \ {"pauseIf", "resetIf", "trigger"}),
       hits |-> [i \in DOMAIN conds |-> IF Seen(conds, links, i) THEN Kept(conds, links, i)
                                        ELSE h[i]]]

\* The core and, when there are alternatives, one of them.
CoreAndSome(results, P(_)) ==
  P(results[1]) /\ (Len(results) > 1 => \E g \in 2 .. Len(results) : P(results[g]))

Paused(results) ==
  \/ results[1].paused
  \/ Len(results) > 1 /\ \A g \in 2 .. Len(results) : results[g].paused

-----------------------------------------------------------------------------
MInit ==
  /\ def \in Definitions
  /\ state = "waiting"
  /\ hits = Zero

\* A frame.  A ResetIf that holds anywhere clears all hits; what is waiting does
\* not fire before its conditions were false.
Frame(truth) ==
  LET results == [g \in DOMAIN def |-> Meaning(def[g], hits[g], truth[g])]
      reset == \E g \in DOMAIN def : results[g].reset
      fires == CoreAndSome(results, LAMBDA r : r.true)
      rest == CASE Paused(results) -> "paused"
                [] ~Paused(results) /\ CoreAndSome(results, LAMBDA r : r.primed) -> "primed"
                [] OTHER -> "active"
      unprimed == IF rest = "primed" THEN "active" ELSE rest
      before == IF state = "primed" THEN "active" ELSE state
  IN  /\ hits' = IF reset \/ (fires /\ state = "waiting") THEN Zero
                 ELSE [g \in DOMAIN def |-> results[g].hits]
      /\ state' \in CASE reset -> {before, unprimed}
                      [] ~reset /\ fires -> {IF state = "waiting" THEN "waiting" ELSE "triggered"}
                      [] ~reset /\ ~fires -> {rest}

Truths == [DOMAIN def -> UNION {[1 .. n -> BOOLEAN] : n \in {Len(def[g]) : g \in DOMAIN def}}]

MFrame ==
  /\ state # "triggered"
  /\ \E truth \in {t \in Truths : \A g \in DOMAIN def : Len(t[g]) = Len(def[g])} : Frame(truth)
  /\ UNCHANGED def

MReset == hits' = Zero /\ state' = "waiting" /\ UNCHANGED def

MNext == MFrame \/ MReset
MSpec == MInit /\ [][MNext]_mvars
=============================================================================
