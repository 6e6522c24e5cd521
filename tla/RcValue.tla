------------------------------ MODULE RcValue ------------------------------
(***************************************************************************)
(* Values (rcheevos/value.c): the greatest of several clauses, each of     *)
(* which measures memory or counts hits.  A value is either that of a      *)
(* leaderboard (rc_evaluate_value) or a helper variable of rich presence   *)
(* (rc_update_values).  What the conditions of a clause come to in a frame *)
(* is an input: whether it is paused or reset, whether its Measured is     *)
(* true and what the left side of it reads.                                *)
(***************************************************************************)
EXTENDS RcTyped, Sequences, SequencesExt

CONSTANTS ClauseKinds,              \* sequences of "memory" and "hits"
          Readings,                 \* what memory may read as
          MaxTally                  \* frames counted, to bound the instance

\* Counting does not wrap around.
ASSUME ValueAssumption ==
    /\ ClauseKinds \subseteq Seq({"memory", "hits"})
    /\ Readings \subseteq 0..(Word - 1) /\ MaxTally \in 0..(Word - 1)

VARIABLES clauses,                  \* the value's clauses
          hits,                     \* current_hits of the Measured of each clause
          value,                    \* rc_memref_value_t: value, prior, changed and type
          said,                     \* what rc_evaluate_value returned last
          tally,                    \* history: frames that counted since the clause was reset
          expected                  \* history: the greatest clause when one was last not paused

valueVars == <<clauses, hits, value, said, tally, expected>>

NoValue == [value |-> 0, prior |-> 0, changed |-> FALSE, type |-> "unsigned"]

ValueInit ==
    /\ clauses \in ClauseKinds
    /\ hits = [i \in DOMAIN clauses |-> 0] /\ tally = hits
    /\ value = NoValue /\ said = 0 /\ expected = 0

\* rc_test_condset and rc_reset_condset on one clause: a paused one keeps its hits, a
\* ResetIf clears its own.
NextHits_ResetWhilePaused(i, in) ==
    IF in.reset THEN 0 ELSE IF ~in.paused /\ in.true THEN hits[i] + 1 ELSE hits[i]
NextHits(i, in) ==
    IF in.paused THEN hits[i]
    ELSE IF in.reset THEN 0 ELSE hits[i] + (IF in.true THEN 1 ELSE 0)

Measured(i, in) ==
    IF in.paused THEN None
    ELSE IF clauses[i] = "hits" THEN Unsigned(NextHits(i, in)) ELSE Unsigned(in.reading)

\* The first clause that measures, unless a later one is greater.
Greater(best, m) ==
    IF m.type = "none" THEN best
    ELSE IF best.type = "none" \/ Compare(m, best, "gt") THEN m ELSE best
EvaluateTyped(ins) == FoldLeft(Greater, None, [i \in DOMAIN clauses |-> Measured(i, ins[i])])

Recorded(v) ==
    IF value.value = v.v THEN [value EXCEPT !.changed = FALSE, !.type = v.type]
    ELSE [value |-> v.v, prior |-> value.value, changed |-> TRUE, type |-> v.type]

\* A reset clears hits, which memory has none of.
Inputs(kind) ==
    [paused : BOOLEAN, reset : IF kind = "hits" THEN BOOLEAN ELSE {FALSE},
     true : IF kind = "hits" THEN BOOLEAN ELSE {FALSE},
     reading : IF kind = "hits" THEN {0} ELSE Readings]
AllInputs == {ins \in [DOMAIN clauses -> UNION {Inputs(k) : k \in {"hits", "memory"}}] :
                \A i \in DOMAIN clauses : ins[i] \in Inputs(clauses[i])}

\* What a reader of the definition expects.
Counted(i, in) ==
    IF in.paused THEN tally[i] ELSE IF in.reset THEN 0
    ELSE IF in.true THEN tally[i] + 1 ELSE tally[i]
Expect(ins) ==
    LET live == {i \in DOMAIN clauses : ~ins[i].paused}
    IN IF live = {} THEN expected
       ELSE Max({IF clauses[i] = "hits" THEN Counted(i, ins[i]) ELSE ins[i].reading : i \in live})

Step(ins) ==
    /\ hits' = [i \in DOMAIN clauses |-> NextHits(i, ins[i])]
    /\ tally' = [i \in DOMAIN clauses |-> Counted(i, ins[i])]
    /\ expected' = Expect(ins)
    /\ \A i \in DOMAIN clauses : tally'[i] <= MaxTally
    /\ UNCHANGED clauses

\* rc_evaluate_value: while every clause is paused the last value stands.
EvaluateValue ==
    \E ins \in AllInputs :
        LET v == EvaluateTyped(ins)
        IN /\ Step(ins)
           /\ value' = IF v.type = "none" THEN value ELSE Recorded(Convert(v, "unsigned"))
           /\ said' = SignedOf(value'.value)

\* rc_update_values, which keeps the type of the value.
UpdateVariable ==
    \E ins \in AllInputs :
        LET v == EvaluateTyped(ins)
        IN /\ Step(ins)
           /\ value' = IF v.type = "none" THEN value ELSE Recorded(v)
           /\ UNCHANGED said

ResetValue ==
    /\ hits' = [i \in DOMAIN clauses |-> 0] /\ tally' = hits'
    /\ value' = [value EXCEPT !.value = 0, !.prior = 0, !.changed = FALSE]
    /\ expected' = 0
    /\ UNCHANGED <<clauses, said>>

ValueNext == EvaluateValue \/ UpdateVariable \/ ResetValue
ValueSpec == ValueInit /\ [][ValueNext]_valueVars

-----------------------------------------------------------------------------
(* The older form of a value: terms joined by "_", a factor after "*"; a    *)
(* negative factor subtracts.  rc_parse_legacy_value rewrites it so that    *)
(* the last condition is Measured.                                          *)

Number(n) == [type |-> "const", size |-> [kind |-> "int", n |-> 4], n |-> n]
LegacyCondition(term, last) ==
    [type |-> IF term.factor < 0 THEN "subsource" ELSE IF last THEN "measured" ELSE "addsource",
     op1  |-> term.op,
     oper |-> IF term.factor = 1 THEN "none" ELSE "mult",
     op2  |-> Number(AbsOf(term.factor))]

LegacyClause_LastAsItIs(terms) ==
    [i \in DOMAIN terms |-> LegacyCondition(terms[i], i = Len(terms))]
LegacyClause(terms) ==
    LET conds == LegacyClause_LastAsItIs(terms)
    IN IF terms[Len(terms)].factor >= 0 THEN conds
       ELSE Append(conds, [type |-> "measured", op1 |-> Number(0), oper |-> "none",
                           op2 |-> Number(1)])

-----------------------------------------------------------------------------
\* A value is the greatest of its clauses that are not paused, each with the hits since its own
\* last reset, and the last such value while all of them are paused (rc_evaluate_value_typed).
ValueIsGreatest == value.value = expected
=============================================================================
