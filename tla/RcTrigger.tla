----------------------------- MODULE RcTrigger -----------------------------
(***************************************************************************)
(* The evaluation of an achievement in rcheevos: trigger.c and condset.c.  *)
(* The conditions of a group are sorted by what they are for when they are *)
(* parsed, and evaluated block by block, with the flags and sums of a      *)
(* chain in one record that runs through all groups of the frame.          *)
(*                                                                         *)
(* What a comparison yields is an input of the frame, and so is the value  *)
(* that a Measured condition without a target measures.  AddSource,        *)
(* AddAddress and Remember are part of the operands of the comparisons.    *)
(***************************************************************************)
EXTENDS Integers, FiniteSets, SequencesExt

CONSTANTS Definitions, MaxHits, Values

Combining == {"addHits", "subHits", "andNext", "orNext", "resetNextIf"}
Types == Combining \cup {"standard", "pauseIf", "resetIf", "trigger", "measured", "measuredIf"}

\* "Final condition in AddHits chain must have a hit target" (rc_validate.c).
SumsHaveTarget(conds) ==
  \A i \in DOMAIN conds : \A f \in i .. Len(conds) :
    /\ conds[i].type \in {"addHits", "subHits"} /\ conds[f].type \notin Combining
    /\ \A k \in i .. f - 1 : conds[k].type \in Combining
    => conds[f].target # 0

ASSUME TriggerAssumption ==
  /\ MaxHits \in Nat /\ Values \subseteq Nat
  /\ \A d \in Definitions :
       /\ d \in Seq(Seq([type : Types, target : Nat])) /\ d # << >>
       /\ \A g \in DOMAIN d : SumsHaveTarget(d[g])

VARIABLES
  def,      \* the conditions: requirement, then the alternatives
  state,    \* trigger->state
  hits,     \* condition->current_hits
  hasHits,  \* trigger->has_hits
  paused,   \* condset->is_paused
  measured  \* trigger->measured_value

vars == <<def, state, hits, hasHits, paused, measured>>

Unknown == -1  \* RC_MEASURED_UNKNOWN
None == -2     \* RC_VALUE_TYPE_NONE

HasTarget(cond) == cond.target # 0
Measures(d) == \E g \in DOMAIN d : \E i \in DOMAIN d[g] : d[g][i].type = "measured"
Zero == [g \in DOMAIN def |-> [i \in DOMAIN def[g] |-> 0]]

-----------------------------------------------------------------------------
(* The order of the conditions *)

\* rc_classify_condition
Classify(cond) ==
  CASE cond.type = "pauseIf" -> "pause"
    [] cond.type = "resetIf" -> "reset"
    [] cond.type \in Combining -> "combining"
    [] cond.type \in {"measured", "measuredIf"} -> "measured"
    [] cond.type \in {"standard", "trigger"} -> IF HasTarget(cond) THEN "hitTarget" ELSE "other"

\* Faulty variant: a chain goes by its first condition.
Classification_OwnOnly(conds, i) ==
  IF Classify(conds[i]) = "combining" THEN "other" ELSE Classify(conds[i])

\* rc_find_next_classification: a chain goes where the condition that ends it goes.
Classification(conds, i) ==
  LET ends == {j \in i .. Len(conds) : Classify(conds[j]) # "combining"}
  IN  IF ends = {} THEN "other"
      ELSE Classify(conds[CHOOSE j \in ends : \A k \in ends : j <= k])

\* The conditions of one class, which are kept together in the order they were written.
Block(conds, class) == {i \in DOMAIN conds : Classification(conds, i) = class}

-----------------------------------------------------------------------------
(* The conditions.  e is rc_eval_state_t, with the hits of the group in it. *)

MayTally(cond, h) == ~HasTarget(cond) \/ h < cond.target

Noticed(e, joined, h) == e.hasHits \/ (~e.resetNext /\ (joined \/ h > 0))

\* rc_condset_evaluate_condition_no_add_hits
NoAddHits(e, cond, i, matches) ==
  LET joined == (matches /\ e.andNext) \/ e.orNext
      h == e.hits[i]
      tallies == joined /\ MayTally(cond, h)
      new == IF e.resetNext THEN 0 ELSE IF tallies THEN h + 1 ELSE h
  IN  [e EXCEPT
        !.hits[i] = new,
        !.hasHits = Noticed(e, joined, h),
        !.valid = CASE e.resetNext -> FALSE
                    [] ~e.resetNext /\ tallies /\ HasTarget(cond) -> new = cond.target
                    [] ~e.resetNext /\ joined /\ ~(tallies /\ HasTarget(cond)) -> TRUE
                    [] ~e.resetNext /\ ~joined -> h > 0 /\ h = cond.target,
        !.andNext = TRUE, !.orNext = FALSE]

\* rc_condset_evaluate_total_hits
TotalHits(e, cond, i) ==
  IF HasTarget(cond) THEN (IF e.hits[i] + e.addHits < 0 THEN 0 ELSE e.hits[i] + e.addHits)
  ELSE e.hits[i]

\* The sum of the chain, when there is one and the condition has a target for it.
AddUp(n, cond, i) ==
  IF n.addHits # 0 /\ HasTarget(cond)
  THEN [n EXCEPT !.valid = TotalHits(n, cond, i) >= cond.target, !.addHits = 0]
  ELSE n

\* rc_condset_evaluate_condition
EvaluateCondition(e, cond, i, matches) ==
  [AddUp(NoAddHits(e, cond, i, matches), cond, i) EXCEPT !.resetNext = FALSE]

Measure(c, valid, shown, fromHits) ==
  [c EXCEPT !.true = @ /\ valid, !.primed = @ /\ valid, !.measured = shown,
            !.fromHits = fromHits, !.resetNext = FALSE]

\* rc_condset_evaluate_measured
EvaluateMeasured(e, cond, i, matches, value) ==
  LET n == NoAddHits(e, cond, i, matches)
      c == EvaluateCondition(e, cond, i, matches)
      total == TotalHits(n, cond, i)
  IN  IF HasTarget(cond)
      THEN Measure([n EXCEPT !.addHits = 0], total >= cond.target, total, TRUE)
      ELSE Measure(c, c.valid, value, FALSE)

\* A condition that leads to the next, after its own hits were tallied.
Lead(n, cond, i) ==
  CASE cond.type = "addHits" -> [n EXCEPT !.addHits = @ + n.hits[i], !.resetNext = FALSE]
    [] cond.type = "subHits" -> [n EXCEPT !.addHits = @ - n.hits[i], !.resetNext = FALSE]
    [] cond.type = "resetNextIf" -> [n EXCEPT !.resetNext = n.valid]
    [] cond.type = "andNext" -> [n EXCEPT !.andNext = n.valid]
    [] cond.type = "orNext" -> [n EXCEPT !.orNext = n.valid]

\* A condition that ends a chain, after the chain was summed up.
Conclude(c, cond, i) ==
  CASE cond.type = "standard" -> [c EXCEPT !.true = @ /\ c.valid, !.primed = @ /\ c.valid]
    [] cond.type = "trigger" -> [c EXCEPT !.true = @ /\ c.valid]
    [] cond.type = "pauseIf" /\ c.valid ->
         [c EXCEPT !.paused = TRUE, !.true = FALSE, !.primed = FALSE]
    [] cond.type = "pauseIf" /\ ~c.valid -> [c EXCEPT !.hits[i] = IF HasTarget(cond) THEN @ ELSE 0]
    [] cond.type = "resetIf" /\ c.valid ->
         [c EXCEPT !.reset = TRUE, !.true = FALSE, !.primed = FALSE]
    [] cond.type = "resetIf" /\ ~c.valid -> c
    [] cond.type = "measuredIf" ->
         [c EXCEPT !.true = @ /\ c.valid, !.primed = @ /\ c.valid, !.canMeasure = @ /\ c.valid]

\* rc_test_condset_internal, for one condition
Evaluate(e, cond, i, matches, value) ==
  CASE cond.type \in Combining -> Lead(NoAddHits(e, cond, i, matches), cond, i)
    [] cond.type = "measured" -> EvaluateMeasured(e, cond, i, matches, value)
    [] OTHER -> Conclude(EvaluateCondition(e, cond, i, matches), cond, i)

-----------------------------------------------------------------------------
(* A group, and the trigger *)

\* rc_test_condset_internal, over a block.  Only a PauseIf that holds ends it, as
\* nothing sets can_short_curcuit.
Process(e, conds, class, truth, value) ==
  FoldLeft(LAMBDA x, i : IF x.paused \/ i \notin Block(conds, class) THEN x
                         ELSE Evaluate(x, conds[i], i, truth[i], value),
           e, [i \in 1 .. Len(conds) |-> i])

\* What is measured when a MeasuredIf is false, or the hits are going to be reset.
Discount(m) ==
  IF m.measured # None /\ (~m.canMeasure \/ (m.fromHits /\ m.reset))
  THEN [m EXCEPT !.measured = 0] ELSE m

\* The Measured conditions are processed in every frame, without their hits when
\* these are going to be reset.
ProcessMeasured(e, conds, truth, value) ==
  LET Cleared(i) == e.reset /\ i \in Block(conds, "measured")
      cleared == [i \in DOMAIN conds |-> IF Cleared(i) THEN 0 ELSE e.hits[i]]
  IN  Discount(Process([e EXCEPT !.hits = cleared], conds, "measured", truth, value))

\* Whether the rest of the group, or all that would be reset anyway, is left out.
LeftOut(e, class) ==
  \/ e.paused
  \/ e.reset /\ class = "hitTarget"
  \/ e.reset /\ class = "other" /\ ~e.true

Pass(e, conds, class, truth, value) ==
  IF LeftOut(e, class) THEN e
  ELSE IF class = "measured" THEN ProcessMeasured(e, conds, truth, value)
  ELSE Process(e, conds, class, truth, value)

\* What a group begins with; e brings the results of the groups before it.
Begin(e, h) ==
  [e EXCEPT !.hits = h, !.valid = FALSE, !.measured = None, !.addHits = 0,
            !.true = TRUE, !.primed = TRUE, !.paused = FALSE,
            !.canMeasure = TRUE, !.fromHits = FALSE, !.andNext = TRUE,
            !.orNext = FALSE, !.resetNext = FALSE]

\* rc_test_condset
TestCondset(e, conds, h, truth, value) ==
  LET Then(x, class) == Pass(x, conds, class, truth, value)
  IN  Then(Then(Then(Then(Then(Begin(e, h),
        "pause"), "reset"), "hitTarget"), "measured"), "other")

NoResults ==
  [hits |-> << >>, valid |-> FALSE, measured |-> None, addHits |-> 0, true |-> TRUE,
   primed |-> TRUE, paused |-> FALSE, canMeasure |-> TRUE, fromHits |-> FALSE,
   andNext |-> TRUE, orNext |-> FALSE, resetNext |-> FALSE,
   reset |-> FALSE, hasHits |-> FALSE]

\* The groups one after the other, the requirement first.
TestGroups(truth, value) ==
  FoldLeft(LAMBDA done, g :
             Append(done, TestCondset(IF g = 1 THEN NoResults ELSE done[g - 1],
                                      def[g], hits[g], truth[g], value)),
           << >>, [g \in 1 .. Len(def) |-> g])

\* The greatest measured value of the groups, the first of equals.
Greatest(groups) ==
  FoldLeft(LAMBDA best, g : IF groups[g].measured > best.measured THEN groups[g] ELSE best,
           groups[1], [g \in 1 .. Len(groups) |-> g])

\* rc_condset_is_measured_from_hitcount
MeasuredFromHits(conds, h, value) ==
  \E i \in DOMAIN conds :
    conds[i].type = "measured" /\ HasTarget(conds[i]) /\ h[i] = value

\* Faulty variant: what was measured stays on the screen.
ResetTo_KeepsMeasured(newState) ==
  state' = newState /\ hits' = Zero /\ hasHits' = FALSE /\ UNCHANGED measured

\* rc_reset_trigger
ResetTo(newState) ==
  /\ state' = newState /\ hits' = Zero /\ hasHits' = FALSE
  /\ measured' = IF Measures(def) THEN Unknown ELSE measured

EvaluateTrigger(groups) ==
  LET last == groups[Len(groups)]
      alts == {groups[g] : g \in 2 .. Len(groups)}
      fires == groups[1].true /\ (alts = {} \/ \E e \in alts : e.true)
      isPrimed == groups[1].primed /\ (alts = {} \/ \E e \in alts : e.primed)
      isPaused == groups[1].paused \/ (alts # {} /\ \A e \in alts : e.paused)
      best == Greatest(groups)
      value1 == IF isPaused \/ best.measured = None THEN measured ELSE best.measured
      pausedHits == \E g \in DOMAIN def :
                      groups[g].paused /\ MeasuredFromHits(def[g], groups[g].hits, value1)
      resting == IF isPaused THEN "paused" ELSE "active"
  IN  /\ paused' = [g \in DOMAIN def |-> groups[g].paused]
      /\ \/ /\ last.reset
            /\ hits' = Zero /\ hasHits' = FALSE
            /\ measured' = IF (best.measured # None /\ best.fromHits) \/ (isPaused /\ pausedHits)
                           THEN 0 ELSE value1
            /\ state' = IF ~hasHits THEN resting
                        ELSE IF state = "primed" THEN "active" ELSE state
         \/ ~last.reset /\ fires /\ state = "waiting" /\ ResetTo("waiting")
         \/ /\ ~last.reset /\ fires /\ state # "waiting"
            /\ state' = "triggered" /\ measured' = value1
            /\ hits' = [g \in DOMAIN def |-> groups[g].hits]
            /\ UNCHANGED hasHits
         \/ /\ ~last.reset /\ ~fires
            /\ state' = IF ~isPaused /\ isPrimed THEN "primed" ELSE resting
            /\ measured' = value1 /\ hasHits' = last.hasHits
            /\ hits' = [g \in DOMAIN def |-> groups[g].hits]
      /\ UNCHANGED def

-----------------------------------------------------------------------------
Init ==
  /\ def \in Definitions
  /\ state = "waiting" /\ hits = Zero /\ hasHits = FALSE
  /\ paused = [g \in DOMAIN def |-> FALSE]
  /\ measured = IF Measures(def) THEN Unknown ELSE 0

Truths(g) == [DOMAIN def[g] -> BOOLEAN]
Lengths == {Len(def[g]) : g \in DOMAIN def}

\* rc_evaluate_trigger
DoFrame ==
  /\ state # "triggered"
  /\ \E truth \in [DOMAIN def -> UNION {Truths(g) : g \in DOMAIN def}], value \in Values :
       /\ \A g \in DOMAIN def : DOMAIN truth[g] = DOMAIN def[g]
       /\ \E groups \in {TestGroups(truth, value)} : EvaluateTrigger(groups)
  /\ \A g \in DOMAIN def : \A i \in DOMAIN def[g] : hits'[g][i] <= MaxHits

\* rc_reset_trigger, by the client
Reset == ResetTo("waiting") /\ UNCHANGED <<def, paused>>

Next == DoFrame \/ Reset
Spec == Init /\ [][Next]_vars

-----------------------------------------------------------------------------
(* Properties *)

TypeOK ==
  /\ state \in {"waiting", "active", "paused", "primed", "triggered"}
  /\ hits \in [DOMAIN def -> UNION {[DOMAIN def[g] -> 0 .. MaxHits] : g \in DOMAIN def}]
  /\ \A g \in DOMAIN def : \A i \in DOMAIN def[g] :
       HasTarget(def[g][i]) => hits[g][i] <= def[g][i].target
  /\ hasHits \in BOOLEAN
  /\ paused \in [DOMAIN def -> BOOLEAN]
  /\ measured \in Nat \cup {Unknown}

\* Sorting the conditions, skipping blocks and carrying the state of one chain
\* into the next change nothing of what a definition means: the trigger fires,
\* pauses and is primed when the conditions say so in the order they are written,
\* and tallies the same hits.
MeaningOf == INSTANCE RcTriggerMeaning
ImplementsMeaning == MeaningOf!MSpec

\* A trigger that has tallied hits knows it: has_hits is what decides whether a
\* ResetIf is told to the caller and leaves the state alone.
HitsAreKnown ==
  state # "triggered" /\ (\E g \in DOMAIN def : \E i \in DOMAIN def[g] : hits[g][i] > 0)
    => hasHits

\* A challenge indicator shows only for a definition that has a Trigger condition.
PrimedNeedsTrigger ==
  state = "primed" =>
    \E g \in DOMAIN def : \E i \in DOMAIN def[g] : def[g][i].type = "trigger"

\* "if there is a hit target, capture the current hits": without alternatives,
\* what is measured is the tally, in every frame, paused or reset.
MeasuredIsTally ==
  \A i \in DOMAIN def[1] :
    /\ Len(def) = 1 /\ measured # Unknown
    /\ def[1][i].type = "measured" /\ HasTarget(def[1][i])
    /\ \A k \in DOMAIN def[1] : def[1][k].type \notin {"measuredIf", "addHits", "subHits"}
    /\ \A k \in DOMAIN def[1] : k # i => def[1][k].type # "measured"
    => measured = hits[1][i]

\* What a trigger says of its hits - that there are any, that it is primed, what it measures -
\* follows them.
TallyIsKnown == TypeOK /\ HitsAreKnown /\ PrimedNeedsTrigger /\ MeasuredIsTally
=============================================================================
