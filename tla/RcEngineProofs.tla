--------------------------- MODULE RcEngineProofs ---------------------------
(***************************************************************************)
(* Three loops of the evaluation engine, for any definition: that a value  *)
(* is the greatest of its clauses, that of everything wrong with a         *)
(* definition the worst is told, and that the runtime evaluates each       *)
(* achievement once and gives back what was saved.                         *)
(*                                                                         *)
(* The loop over clauses keeps the greatest so far of those that are not   *)
(* paused (GreatestOf), and nothing while all of them are.  ValueInv adds  *)
(* that the hits of each clause are those since its last reset, and that   *)
(* they are few enough for a word.                                         *)
(*                                                                         *)
(* The loops of the validation only ever add errors, and adding one keeps  *)
(* Kept: what is told was found, and for every error found one is told     *)
(* that is no less severe.  When there is no more room the least severe    *)
(* makes way, which is as severe as none of the others: two rooms suffice. *)
(*                                                                         *)
(* The runtime rests on RuntimeOK: no id is in a list twice, and a buffer  *)
(* has one chunk of an item and the variables, if any, first.  A frame     *)
(* walks the list from its end (Walked): what it has not passed stays      *)
(* where it was when the handler deactivates the one it is at, as the last *)
(* fills the place and was passed before.  Reading a buffer finds each     *)
(* running item not updated, until the one chunk that matches it           *)
(* (ItemsRead), and the words of the variables in fours as long as every   *)
(* name is known (ReadSoFar).                                              *)
(***************************************************************************)
EXTENDS RcValue, RcValidate, RcRuntime, TLAPS

-----------------------------------------------------------------------------
(* Values.                                                                  *)

GreaterBody(p, best, m) == Greater(best, m)
ClauseLoop == INSTANCE Loops WITH Body <- GreaterBody

Words == 0 .. (Word - 1)
Numbers == [type : {"unsigned"}, v : Words]

ValueInv ==
  /\ clauses \in Seq({"memory", "hits"})
  /\ hits = tally /\ tally = [i \in DOMAIN clauses |-> tally[i]]
  /\ \A i \in DOMAIN clauses : tally[i] \in 0 .. MaxTally
  /\ value = [value |-> value.value, prior |-> value.prior, changed |-> value.changed, type |-> value.type]
  /\ value.value \in Words /\ expected = value.value

LEMMA WordIsInt == Word \in Int /\ \A n \in Words : n % Word = n
<1>1. WordBits \in Nat  BY WordBitsAssumption
<1>2. Word \in Int  BY <1>1 DEF Word
<1>3. ASSUME NEW w \in Int, NEW n \in 0 .. (w - 1)  PROVE n % w = n  OBVIOUS
<1>4. QED  BY <1>2, <1>3 DEF Words

LEMMA GreaterIs ==
  /\ \A best : Greater(best, None) = best
  /\ \A m \in Numbers : Greater(None, m) = m
  /\ \A best, m \in Numbers : Greater(best, m) = IF m.v > best.v THEN m ELSE best
<1>1. \A best : Greater(best, None) = best  BY DEF Greater, None
<1>2. ASSUME NEW m \in Numbers  PROVE Greater(None, m) = m  BY DEF Greater, None, Numbers
<1>3. ASSUME NEW best \in Numbers, NEW m \in Numbers
      PROVE  Greater(best, m) = IF m.v > best.v THEN m ELSE best
  <2>1. m.type = "unsigned" /\ best.type = "unsigned"  BY DEF Numbers
  <2>2. Convert(m, "unsigned") = m /\ Convert(best, "unsigned") = best  BY <2>1 DEF Convert
  <2>3. Compare(m, best, "gt") <=> m.v > best.v  BY <2>1, <2>2 DEF Compare, Ordered
  <2>4. QED  BY <2>1, <2>3 DEF Greater
<1>4. QED  BY <1>1, <1>2, <1>3

\* What the loop has found when it has passed the first k clauses.
GreatestOf(ms, k, best) ==
  \/ best = None /\ \A i \in 1 .. k : ms[i] = None
  \/ /\ best \in Numbers /\ \E i \in 1 .. k : ms[i] = best
     /\ \A i \in 1 .. k : ms[i] = None \/ (ms[i] \in Numbers /\ ms[i].v <= best.v)

LEMMA LoopFindsGreatest ==
  ASSUME NEW n \in Nat, NEW ms, DOMAIN ms = 1 .. n, \A i \in 1 .. n : ms[i] = None \/ ms[i] \in Numbers
  PROVE  GreatestOf(ms, n, FoldLeft(Greater, None, ms))
<1>1. PICK p \in BOOLEAN : p = TRUE  OBVIOUS
<1>2. PICK t : t = None  OBVIOUS
<1>3. FoldLeft(Greater, None, ms) = ClauseLoop!LoopOver(p, t, ms)
  BY <1>2, Zenon DEF GreaterBody, FoldLeft, MapThenFoldSet, Max, ClauseLoop!LoopOver, ClauseLoop!FoldLeft,
                     ClauseLoop!MapThenFoldSet, ClauseLoop!Max
<1>4. PICK x : ClauseLoop!Run(p, t, ms, n, x) /\ x[n] = ClauseLoop!LoopOver(p, t, ms)
  BY ClauseLoop!LoopRuns
<1>5. x[0] = None /\ \A i \in 1 .. n : x[i] = Greater(x[i - 1], ms[i])
  BY <1>2, <1>4 DEF ClauseLoop!Run, GreaterBody
<1> DEFINE T == {i \in Nat : i <= n => GreatestOf(ms, i, x[i])}
<1>6. 0 \in T  BY <1>5 DEF GreatestOf
<1>7. ASSUME NEW i \in T  PROVE i + 1 \in T
  <2>1. i \in Nat  OBVIOUS
  <2>2. CASE i + 1 <= n
    <3>1. GreatestOf(ms, i, x[i])  BY <2>1, <2>2
    <3> HIDE DEF T
    <3> DEFINE best == x[i]
               m == ms[i + 1]
    <3>2. i + 1 \in 1 .. n /\ (i + 1) - 1 = i /\ 1 .. (i + 1) = (1 .. i) \cup {i + 1}  BY <2>1, <2>2
    <3>3. x[i + 1] = Greater(best, m)  BY <1>5, <3>2
    <3>4. m = None \/ m \in Numbers  BY <3>2
    <3> HIDE DEF best, m
    <3>5. CASE m = None
      <4>1. x[i + 1] = best  BY <3>3, <3>5, GreaterIs
      <4>2. GreatestOf(ms, i + 1, best)  BY <3>1, <3>2, <3>5, Zenon DEF GreatestOf, best, m
      <4>3. QED  BY <2>1, <4>1, <4>2 DEF T
    <3>6. CASE m \in Numbers /\ best = None
      <4>1. x[i + 1] = m  BY <3>3, <3>6, GreaterIs
      <4>2. None \notin Numbers /\ m.v <= m.v  BY <3>6, WordIsInt DEF None, Numbers, Words
      <4>3. \A j \in 1 .. i : ms[j] = None  BY <3>1, <3>6, <4>2 DEF GreatestOf, best
      <4>4. GreatestOf(ms, i + 1, m)  BY <3>2, <3>6, <4>2, <4>3, Zenon DEF GreatestOf, m
      <4>5. QED  BY <2>1, <4>1, <4>4 DEF T
    <3>7. CASE m \in Numbers /\ best \in Numbers
      <4>1. x[i + 1] = IF m.v > best.v THEN m ELSE best  BY <3>3, <3>7, GreaterIs
      <4>2. None \notin Numbers /\ \A a \in Numbers : a.v \in Int  BY WordIsInt DEF None, Numbers, Words
      <4>3. /\ \E j \in 1 .. i : ms[j] = best
            /\ \A j \in 1 .. i : ms[j] = None \/ (ms[j] \in Numbers /\ ms[j].v <= best.v)
        BY <3>1, <3>7, <4>2 DEF GreatestOf, best
      <4>4. CASE m.v > best.v
        <5>1. ASSUME NEW j \in 1 .. i, ms[j] \in Numbers, ms[j].v <= best.v  PROVE ms[j].v <= m.v
          BY <3>7, <4>2, <4>4, <5>1
        <5>2. m.v <= m.v  BY <3>7, <4>2
        <5>3. GreatestOf(ms, i + 1, m)  BY <3>2, <3>7, <4>3, <5>1, <5>2, Zenon DEF GreatestOf, m
        <5>4. QED  BY <2>1, <4>1, <4>4, <5>3 DEF T
      <4>5. CASE ~(m.v > best.v)
        <5>1. m.v <= best.v  BY <3>7, <4>2, <4>5
        <5>2. GreatestOf(ms, i + 1, best)  BY <3>2, <3>7, <4>3, <5>1, Zenon DEF GreatestOf, m
        <5>3. QED  BY <2>1, <4>1, <4>5, <5>2 DEF T
      <4>6. QED  BY <4>4, <4>5
    <3>8. best = None \/ best \in Numbers  BY <3>1 DEF GreatestOf, best
    <3>9. QED  BY <3>4, <3>5, <3>6, <3>7, <3>8
  <2>3. QED  BY <2>1, <2>2
<1> HIDE DEF T
<1>8. T = Nat
  <2>1. T \in SUBSET Nat  BY DEF T
  <2>2. QED  BY <1>6, <1>7, <2>1, ClauseLoop!Countdown
<1>9. n \in T  BY <1>8
<1>10. QED  BY <1>3, <1>4, <1>9 DEF T

LEMMA MaxIsOf ==
  ASSUME NEW S \in SUBSET Int, NEW m \in S, \A x \in S : x <= m
  PROVE  Max(S) = m
<1>1. \A x \in S : (\A y \in S : x >= y) <=> x = m  OBVIOUS
<1>2. QED  BY <1>1 DEF Max

\* What the clauses come to in a frame.
LEMMA ClausesMeasure ==
  ASSUME ValueInv, NEW ins \in AllInputs, \A i \in DOMAIN clauses : Counted(i, ins[i]) \in 0 .. MaxTally
  PROVE  /\ \A i \in DOMAIN clauses : NextHits(i, ins[i]) = Counted(i, ins[i])
         /\ \A i \in DOMAIN clauses :
              IF ins[i].paused THEN Measured(i, ins[i]) = None
              ELSE /\ Measured(i, ins[i]) \in Numbers
                   /\ Measured(i, ins[i]).v = IF clauses[i] = "hits" THEN Counted(i, ins[i]) ELSE ins[i].reading
<1>1. clauses \in Seq({"memory", "hits"}) /\ hits = tally /\ \A i \in DOMAIN clauses : tally[i] \in Nat
  <2>1. MaxTally \in Nat  BY ValueAssumption, WordIsInt
  <2>2. QED  BY <2>1 DEF ValueInv
<1>2. ASSUME NEW i \in DOMAIN clauses
      PROVE  /\ NextHits(i, ins[i]) = Counted(i, ins[i])
             /\ IF ins[i].paused THEN Measured(i, ins[i]) = None
                ELSE /\ Measured(i, ins[i]) \in Numbers
                     /\ Measured(i, ins[i]).v = IF clauses[i] = "hits" THEN Counted(i, ins[i]) ELSE ins[i].reading
  <2> DEFINE in == ins[i]
             c == Counted(i, in)
  <2>1. /\ in.paused \in BOOLEAN /\ in.reset \in BOOLEAN /\ in.true \in BOOLEAN
        /\ clauses[i] = "memory" => in.reading \in Readings
    <3>1. in \in Inputs(clauses[i]) /\ clauses[i] \in {"memory", "hits"}  BY <1>1 DEF AllInputs
    <3>2. QED  BY <3>1 DEF Inputs
  <2>2. c \in 0 .. MaxTally  OBVIOUS
  <2>3. NextHits(i, in) = c  BY <1>1, <2>1 DEF NextHits, Counted
  <2> HIDE DEF in, c
  <2>4. \A n \in Words : Unsigned(n) = [type |-> "unsigned", v |-> n] /\ Unsigned(n) \in Numbers
    BY WordIsInt DEF Unsigned, Numbers
  <2>5. CASE in.paused  BY <2>3, <2>5 DEF Measured, in, c
  <2>6. CASE ~in.paused /\ clauses[i] = "hits"
    <3>1. Measured(i, in) = Unsigned(c)  BY <2>3, <2>6 DEF Measured
    <3>2. c \in Words  BY <2>2, ValueAssumption, WordIsInt DEF Words
    <3>3. Measured(i, in) \in Numbers /\ Measured(i, in).v = c  BY <2>4, <3>1, <3>2
    <3>4. QED  BY <2>3, <2>6, <3>3, Zenon DEF in, c
  <2>7. CASE ~in.paused /\ clauses[i] # "hits"
    <3>1. clauses[i] = "memory"  BY <1>1, <2>7
    <3>2. Measured(i, in) = Unsigned(in.reading)  BY <2>7 DEF Measured
    <3>3. in.reading \in Words  BY <2>1, <3>1, ValueAssumption DEF Words
    <3>4. Measured(i, in) \in Numbers /\ Measured(i, in).v = in.reading  BY <2>4, <3>2, <3>3
    <3>5. QED  BY <2>3, <2>7, <3>4, Zenon DEF in, c
  <2>8. QED  BY <2>1, <2>5, <2>6, <2>7 DEF in
<1>3. QED  BY <1>2

\* The loop finds what a reader of the definition expects.
LEMMA GreatestExpected ==
  ASSUME ValueInv, NEW ins \in AllInputs, \A i \in DOMAIN clauses : Counted(i, ins[i]) \in 0 .. MaxTally
  PROVE  \/ EvaluateTyped(ins) = None /\ Expect(ins) = expected
         \/ EvaluateTyped(ins) \in Numbers /\ Expect(ins) = EvaluateTyped(ins).v
<1> DEFINE n == Len(clauses)
           ms == [i \in DOMAIN clauses |-> Measured(i, ins[i])]
           best == EvaluateTyped(ins)
           live == {i \in DOMAIN clauses : ~ins[i].paused}
           of(i) == IF clauses[i] = "hits" THEN Counted(i, ins[i]) ELSE ins[i].reading
           S == {of(i) : i \in live}
<1>1. clauses \in Seq({"memory", "hits"})  BY DEF ValueInv
<1>2. n \in Nat /\ DOMAIN clauses = 1 .. n /\ DOMAIN ms = 1 .. n /\ \A i \in 1 .. n : ms[i] = Measured(i, ins[i])
  BY <1>1
<1>3. \A i \in 1 .. n : IF ins[i].paused THEN ms[i] = None ELSE ms[i] \in Numbers /\ ms[i].v = of(i)
  BY <1>2, ClausesMeasure
<1>4. best = FoldLeft(Greater, None, ms)  BY DEF EvaluateTyped
<1>5. Expect(ins) = IF live = {} THEN expected ELSE Max(S)  BY DEF Expect
<1>6. \A i \in 1 .. n : i \in live <=> ~ins[i].paused  BY <1>2
<1>7. live \subseteq 1 .. n  BY <1>2
<1>8. \A i \in live : of(i) \in S  OBVIOUS
<1>9. \A x \in S : \E i \in live : x = of(i)  OBVIOUS
<1> HIDE DEF n, ms, best, live, of, S
<1>10. GreatestOf(ms, n, best)
  <2>1. \A i \in 1 .. n : ms[i] = None \/ ms[i] \in Numbers  BY <1>3
  <2>2. QED  BY <1>2, <1>4, <2>1, LoopFindsGreatest
<1>11. None \notin Numbers /\ \A a \in Numbers : a.v \in Int  BY WordIsInt DEF None, Numbers, Words
<1>12. CASE best = None
  <2>1. \A i \in 1 .. n : ms[i] = None  BY <1>10, <1>11, <1>12 DEF GreatestOf
  <2>2. live = {}  BY <1>3, <1>6, <1>7, <1>11, <2>1
  <2>3. QED  BY <1>5, <1>12, <2>2 DEF best
<1>13. CASE best \in Numbers
  <2>1. PICK k \in 1 .. n : ms[k] = best  BY <1>10, <1>11, <1>13 DEF GreatestOf
  <2>2. \A i \in 1 .. n : ms[i] = None \/ (ms[i] \in Numbers /\ ms[i].v <= best.v)
    BY <1>10, <1>11, <1>13 DEF GreatestOf
  <2>3. k \in live /\ of(k) = best.v  BY <1>3, <1>6, <1>11, <1>13, <2>1
  <2>4. best.v \in S  BY <1>8, <2>3
  <2>5. ASSUME NEW i \in live  PROVE of(i) \in Int /\ of(i) <= best.v
    <3>1. i \in 1 .. n /\ ms[i] \in Numbers /\ ms[i].v = of(i)  BY <1>3, <1>6, <1>7
    <3>2. QED  BY <1>11, <2>2, <3>1
  <2>6. S \in SUBSET Int /\ \A x \in S : x <= best.v  BY <1>9, <2>5
  <2>7. Max(S) = best.v  BY <2>4, <2>6, MaxIsOf
  <2>8. QED  BY <1>5, <1>13, <2>3, <2>7 DEF best
<1>14. QED  BY <1>10, <1>12, <1>13 DEF GreatestOf

LEMMA InitIsGreatest == ValueInit => ValueInv
<1> SUFFICES ASSUME ValueInit  PROVE ValueInv
  OBVIOUS
<1>1. clauses \in Seq({"memory", "hits"})  BY ValueAssumption DEF ValueInit
<1>2. MaxTally \in Nat /\ 0 \in Words  BY ValueAssumption, WordIsInt DEF Words
<1>3. hits = [i \in DOMAIN clauses |-> 0] /\ tally = hits /\ expected = 0  BY DEF ValueInit
<1>4. value = [value |-> 0, prior |-> 0, changed |-> FALSE, type |-> "unsigned"]  BY DEF ValueInit, NoValue
<1>5. QED  BY <1>1, <1>2, <1>3, <1>4 DEF ValueInv

\* What a value is recorded as, if there is one.
LEMMA RecordedIs ==
  ASSUME ValueInv, NEW v \in Numbers, NEW w, w = Recorded(v)
  PROVE  /\ w = [value |-> w.value, prior |-> w.prior, changed |-> w.changed, type |-> w.type]
         /\ w.value = v.v
<1>1. value = [value |-> value.value, prior |-> value.prior, changed |-> value.changed, type |-> value.type]
  BY DEF ValueInv
<1>2. CASE value.value = v.v
  <2>1. w = [value |-> value.value, prior |-> value.prior, changed |-> FALSE, type |-> v.type]
    BY <1>1, <1>2 DEF Recorded
  <2>2. QED  BY <1>2, <2>1
<1>3. CASE value.value # v.v
  <2>1. w = [value |-> v.v, prior |-> value.value, changed |-> TRUE, type |-> v.type]  BY <1>3 DEF Recorded
  <2>2. QED  BY <2>1
<1>4. QED  BY <1>2, <1>3

LEMMA EvaluatedIsGreatest ==
  ASSUME ValueInv, NEW ins \in AllInputs, Step(ins),
         value' = IF EvaluateTyped(ins).type = "none" THEN value ELSE Recorded(EvaluateTyped(ins))
  PROVE  ValueInv'
<1> DEFINE v == EvaluateTyped(ins)
<1>1. /\ hits' = [i \in DOMAIN clauses |-> NextHits(i, ins[i])]
      /\ tally' = [i \in DOMAIN clauses |-> Counted(i, ins[i])]
      /\ expected' = Expect(ins) /\ clauses' = clauses
      /\ \A i \in DOMAIN clauses : tally'[i] <= MaxTally
  BY DEF Step
<1>2. clauses \in Seq({"memory", "hits"}) /\ MaxTally \in Nat /\ \A i \in DOMAIN clauses : tally[i] \in Nat
  <2>1. MaxTally \in Nat  BY ValueAssumption, WordIsInt
  <2>2. QED  BY <2>1 DEF ValueInv
<1>3. ASSUME NEW i \in DOMAIN clauses  PROVE Counted(i, ins[i]) \in 0 .. MaxTally
  <2>1. Counted(i, ins[i]) \in Nat  BY <1>2 DEF Counted
  <2>2. tally'[i] = Counted(i, ins[i])  BY <1>1
  <2>3. QED  BY <1>1, <1>2, <2>1, <2>2
<1>4. hits' = tally' /\ \A i \in DOMAIN clauses : tally'[i] \in 0 .. MaxTally
  <2>1. \A i \in DOMAIN clauses : NextHits(i, ins[i]) = Counted(i, ins[i])  BY <1>3, ClausesMeasure
  <2>2. QED  BY <1>1, <1>3, <2>1
<1>5. \/ v = None /\ expected' = expected
      \/ v \in Numbers /\ expected' = v.v
  BY <1>1, <1>3, GreatestExpected
<1>6. value' = IF v.type = "none" THEN value ELSE Recorded(v)  OBVIOUS
<1> HIDE DEF v
<1>7. /\ value' = [value |-> value'.value, prior |-> value'.prior, changed |-> value'.changed, type |-> value'.type]
      /\ value'.value \in Words /\ expected' = value'.value
  <2>1. CASE v = None
    <3>1. value' = value /\ expected' = expected  BY <1>5, <1>6, <2>1 DEF None, Numbers
    <3>2. QED  BY <3>1 DEF ValueInv
  <2>2. CASE v \in Numbers
    <3>1. v.type = "unsigned" /\ v.v \in Words /\ v # None  BY <2>2 DEF Numbers, None
    <3>2. value' = Recorded(v)  BY <1>6, <3>1
    <3>3. QED  BY <1>5, <2>2, <3>1, <3>2, RecordedIs
  <2>3. QED  BY <1>5, <2>1, <2>2
<1>8. tally' = [i \in DOMAIN clauses |-> tally'[i]]  BY <1>1
<1>9. QED  BY <1>1, <1>2, <1>4, <1>7, <1>8 DEF ValueInv

LEMMA StepsAreGreatest == ValueInv /\ [ValueNext]_valueVars => ValueInv'
<1> SUFFICES ASSUME ValueInv, [ValueNext]_valueVars  PROVE ValueInv'
  OBVIOUS
<1>1. CASE EvaluateValue
  <2>1. PICK ins \in AllInputs :
          /\ Step(ins)
          /\ value' = IF EvaluateTyped(ins).type = "none" THEN value
                      ELSE Recorded(Convert(EvaluateTyped(ins), "unsigned"))
    BY <1>1 DEF EvaluateValue
  <2> DEFINE v == EvaluateTyped(ins)
  <2>2. v = None \/ v \in Numbers
    <3>1. /\ tally' = [i \in DOMAIN clauses |-> Counted(i, ins[i])]
          /\ \A i \in DOMAIN clauses : tally'[i] <= MaxTally
      BY <2>1 DEF Step
    <3>2. MaxTally \in Nat /\ \A i \in DOMAIN clauses : tally[i] \in Nat
      <4>1. MaxTally \in Nat  BY ValueAssumption, WordIsInt
      <4>2. QED  BY <4>1 DEF ValueInv
    <3>3. ASSUME NEW i \in DOMAIN clauses  PROVE Counted(i, ins[i]) \in 0 .. MaxTally
      <4>1. Counted(i, ins[i]) \in Nat  BY <3>2 DEF Counted
      <4>2. tally'[i] = Counted(i, ins[i])  BY <3>1
      <4>3. QED  BY <3>1, <3>2, <4>1, <4>2
    <3>4. QED  BY <3>3, GreatestExpected
  <2> HIDE DEF v
  <2>3. v.type # "none" => Convert(v, "unsigned") = v  BY <2>2 DEF None, Numbers, Convert
  <2>4. value' = IF v.type = "none" THEN value ELSE Recorded(v)  BY <2>1, <2>3 DEF v
  <2>5. QED  BY <2>1, <2>4, EvaluatedIsGreatest DEF v
<1>2. CASE UpdateVariable
  <2>1. PICK ins \in AllInputs :
          Step(ins) /\ value' = IF EvaluateTyped(ins).type = "none" THEN value ELSE Recorded(EvaluateTyped(ins))
    BY <1>2 DEF UpdateVariable
  <2>2. QED  BY <2>1, EvaluatedIsGreatest
<1>3. CASE ResetValue
  <2>1. /\ hits' = [i \in DOMAIN clauses |-> 0] /\ tally' = hits' /\ expected' = 0 /\ clauses' = clauses
        /\ value' = [value EXCEPT !.value = 0, !.prior = 0, !.changed = FALSE]
    BY <1>3 DEF ResetValue
  <2>2. MaxTally \in Nat /\ 0 \in Words  BY ValueAssumption, WordIsInt DEF Words
  <2>3. value = [value |-> value.value, prior |-> value.prior, changed |-> value.changed, type |-> value.type]
    BY DEF ValueInv
  <2>4. value' = [value |-> 0, prior |-> 0, changed |-> FALSE, type |-> value.type]  BY <2>1, <2>3
  <2>5. clauses \in Seq({"memory", "hits"})  BY DEF ValueInv
  <2>6. clauses' \in Seq({"memory", "hits"})  BY <2>1, <2>5
  <2>7. hits' = tally' /\ tally' = [i \in DOMAIN clauses' |-> tally'[i]]
    <3>1. tally' = [i \in DOMAIN clauses |-> 0]  BY <2>1
    <3>2. \A i \in DOMAIN clauses : tally'[i] = 0  BY <3>1
    <3>3. tally' = [i \in DOMAIN clauses |-> tally'[i]]  BY <3>1, <3>2
    <3>4. QED  BY <2>1, <3>3
  <2>8. \A i \in DOMAIN clauses' : tally'[i] \in 0 .. MaxTally
    <3>1. \A i \in DOMAIN clauses : tally'[i] = 0  BY <2>1
    <3>2. QED  BY <2>1, <2>2, <3>1
  <2>9. value' = [value |-> value'.value, prior |-> value'.prior, changed |-> value'.changed, type |-> value'.type]
    BY <2>4
  <2>10. value'.value \in Words /\ expected' = value'.value  BY <2>1, <2>2, <2>4
  <2>11. QED  BY <2>6, <2>7, <2>8, <2>9, <2>10, Zenon DEF ValueInv
<1>4. CASE UNCHANGED valueVars
  <2>1. clauses' = clauses /\ hits' = hits /\ tally' = tally /\ value' = value /\ expected' = expected
    BY <1>4 DEF valueVars
  <2>2. QED  BY <2>1, Zenon DEF ValueInv
<1>5. QED  BY <1>1, <1>2, <1>3, <1>4 DEF ValueNext

\* The value is the greatest of the clauses that are not paused, each with the hits since its own last
\* reset, and stays while all of them are: for any clauses and anything that memory may read
\* (rc_evaluate_value_typed).
THEOREM ValueAlwaysGreatest == ValueSpec => []ValueIsGreatest
<1>1. ValueInv => ValueIsGreatest  BY DEF ValueInv, ValueIsGreatest
<1>2. QED  BY <1>1, InitIsGreatest, StepsAreGreatest, PTL DEF ValueSpec

-----------------------------------------------------------------------------
(* Validation.                                                              *)

Errs == Range(Severity)
Errors == [err : Errs, group : Nat, cond : Nat, other : Seq(Nat), pair : Seq(Nat)]

AddBody(p, s, e) == AddError(s, e)
AddLoop == INSTANCE Loops WITH Body <- AddBody

VisitBody(p, w, k) == Visit(p[1], p[2], p[3], p[4], w, k)
VisitLoop == INSTANCE Loops WITH Body <- VisitBody

CompareBody(p, t, v) == CompareWith(p[1], p[2], p[3], t, v)
CompareLoop == INSTANCE Loops WITH Body <- CompareBody

AllBody(p, t, k) == CompareAll(p[1], p[2], t, k)
AllLoop == INSTANCE Loops WITH Body <- AllBody

PairBody(p, t, pair) == ComparePair(p, t, pair)
PairLoop == INSTANCE Loops WITH Body <- PairBody

GroupBody(p, t, g) == ValidateGroup(t, g)
GroupLoop == INSTANCE Loops WITH Body <- GroupBody

-----------------------------------------------------------------------------
(* Severity.                                                                *)

Rank(e) == SelectInSeq(Severity, LAMBDA s : s = e.err)

LEMMA SeverityIs ==
  /\ DOMAIN Severity = 1 .. 18 /\ Len(Severity) = 18
  /\ {"addressOutOfRange", "recallWithoutRemember", "recallBeforeRemember", "neverTrue",
      "conflicting", "alwaysTrue", "trailingChain", "measuredIfWithoutMeasured",
      "addHitsWithoutTarget", "pointerFromPreviousFrame", "pointerTransformed",
      "differentSizes", "maskAlwaysZero", "doubtfulAddress", "redundant", "noHitsToReset",
      "resetHitTargetOfOne", "maskTooLarge"} \subseteq Errs
<1>1. DOMAIN Severity = 1 .. 18 /\ Len(Severity) = 18  BY DEF Severity
<1>2. \A i \in 1 .. 18 : Severity[i] \in Errs  BY <1>1 DEF Errs, Range
<1>3. /\ Severity[1] = "addressOutOfRange" /\ Severity[2] = "recallWithoutRemember"
      /\ Severity[3] = "recallBeforeRemember" /\ Severity[4] = "neverTrue"
      /\ Severity[5] = "conflicting" /\ Severity[6] = "alwaysTrue"
      /\ Severity[7] = "trailingChain" /\ Severity[8] = "measuredIfWithoutMeasured"
      /\ Severity[9] = "addHitsWithoutTarget" /\ Severity[10] = "pointerFromPreviousFrame"
      /\ Severity[11] = "pointerTransformed" /\ Severity[12] = "differentSizes"
      /\ Severity[13] = "maskAlwaysZero" /\ Severity[14] = "doubtfulAddress"
      /\ Severity[15] = "redundant" /\ Severity[16] = "noHitsToReset"
      /\ Severity[17] = "resetHitTargetOfOne" /\ Severity[18] = "maskTooLarge"
  BY DEF Severity
<1> HIDE DEF Errs
<1>4. QED  BY <1>1, <1>2, <1>3

\* The least of some numbers is one of them.
LEMMA MinIs ==
  ASSUME NEW S \in SUBSET Nat, S # {}
  PROVE  Min(S) \in S /\ \A x \in S : Min(S) <= x
<1>1. PICK x \in S : \A y \in S : x <= y  BY AddLoop!Least
<1>2. QED  BY <1>1 DEF Min

LEMMA RankIs ==
  /\ \A e \in Errors : Rank(e) \in 1 .. 18 /\ Severity[Rank(e)] = e.err
  /\ \A x, y : MoreSevere(x, y) <=> \/ Rank(x) < Rank(y)
                                    \/ Rank(x) = Rank(y) /\ x.group < y.group
                                    \/ Rank(x) = Rank(y) /\ x.group = y.group /\ x.cond < y.cond
<1>1. ASSUME NEW e \in Errors  PROVE Rank(e) \in 1 .. 18 /\ Severity[Rank(e)] = e.err
  <2> DEFINE I == {i \in 1 .. Len(Severity) : Severity[i] = e.err}
  <2>1. Rank(e) = IF I # {} THEN Min(I) ELSE 0  BY Zenon DEF Rank, SelectInSeq
  <2>2. e.err \in Errs  BY DEF Errors
  <2>3. PICK i \in 1 .. 18 : Severity[i] = e.err  BY <2>2, SeverityIs DEF Errs, Range
  <2>4. I \in SUBSET Nat /\ I # {} /\ I \subseteq 1 .. 18  BY <2>3, SeverityIs
  <2>5. Min(I) \in I  BY <2>4, MinIs
  <2>6. Severity[Min(I)] = e.err  BY <2>5
  <2> HIDE DEF I
  <2>7. QED  BY <2>1, <2>4, <2>5, <2>6
<1>2. ASSUME NEW x, NEW y
      PROVE  MoreSevere(x, y) <=> \/ Rank(x) < Rank(y)
                                  \/ Rank(x) = Rank(y) /\ x.group < y.group
                                  \/ Rank(x) = Rank(y) /\ x.group = y.group /\ x.cond < y.cond
  BY Zenon DEF MoreSevere, Rank
<1>3. QED  BY <1>1, <1>2

\* What is not less severe than another, which is not less severe than a third.
LEMMA Transitive ==
  /\ \A x, y, z \in Errors : ~MoreSevere(x, y) /\ ~MoreSevere(y, z) => ~MoreSevere(x, z)
  /\ \A x \in Errors : ~MoreSevere(x, x)
  /\ \A x, y \in Errors : ~MoreSevere(x, y) \/ ~MoreSevere(y, x)
  /\ \A x, y \in Errors : ~MoreSevere(x, y) /\ ~MoreSevere(y, x) => x.err = y.err
<1>1. \A x \in Errors : /\ Rank(x) \in Int /\ x.group \in Int /\ x.cond \in Int
                        /\ Severity[Rank(x)] = x.err
  <2> TAKE x \in Errors
  <2>1. Rank(x) \in 1 .. 18 /\ Severity[Rank(x)] = x.err  BY RankIs
  <2>2. x.group \in Nat /\ x.cond \in Nat  BY DEF Errors
  <2>3. QED  BY <2>1, <2>2
<1>2. ASSUME NEW x \in Errors, NEW y \in Errors
      PROVE  MoreSevere(x, y) <=> \/ Rank(x) < Rank(y)
                                  \/ Rank(x) = Rank(y) /\ x.group < y.group
                                  \/ Rank(x) = Rank(y) /\ x.group = y.group /\ x.cond < y.cond
  BY RankIs
<1>3. QED  BY <1>1, <1>2

\* In a sequence of errors there is one that none is more severe than, and one that is more severe
\* than none.
LEMMA ExtremesExist ==
  ASSUME NEW es \in Seq(Errors), es # <<>>
  PROVE  /\ MostSevere(es) \in DOMAIN es /\ \A j \in DOMAIN es : ~MoreSevere(es[j], es[MostSevere(es)])
         /\ LeastSevere(es) \in DOMAIN es /\ \A j \in DOMAIN es : ~MoreSevere(es[LeastSevere(es)], es[j])
<1>1. PICK n \in Nat \ {0} : DOMAIN es = 1 .. n /\ \A i \in 1 .. n : es[i] \in Errors
  <2>1. Len(es) \in Nat /\ DOMAIN es = 1 .. Len(es) /\ Len(es) # 0  OBVIOUS
  <2>2. \A i \in 1 .. Len(es) : es[i] \in Errors  OBVIOUS
  <2>3. QED  BY <2>1, <2>2
<1> DEFINE Most(i, k) == \A j \in 1 .. k : ~MoreSevere(es[j], es[i])
           Less(i, k) == \A j \in 1 .. k : ~MoreSevere(es[i], es[j])
           T == {k \in Nat : k <= n => \/ k = 0
                                       \/ (\E i \in 1 .. k : Most(i, k)) /\ \E i \in 1 .. k : Less(i, k)}
<1>2. 0 \in T  OBVIOUS
<1>3. ASSUME NEW k \in T  PROVE k + 1 \in T
  <2> DEFINE e == es[k + 1]
  <2>1. k \in Nat  OBVIOUS
  <2> SUFFICES ASSUME k + 1 <= n
               PROVE  (\E i \in 1 .. k + 1 : Most(i, k + 1)) /\ \E i \in 1 .. k + 1 : Less(i, k + 1)
    BY <2>1
  <2>2. k + 1 \in 1 .. n /\ e \in Errors /\ ~MoreSevere(e, e)  BY <1>1, <2>1, Transitive
  <2>3. CASE k = 0
    <3>1. \A j \in 1 .. 1 : j = 1  OBVIOUS
    <3>2. QED  BY <2>2, <2>3, <3>1
  <2>4. CASE k # 0
    <3>1. (\E i \in 1 .. k : Most(i, k)) /\ \E i \in 1 .. k : Less(i, k)  BY <2>1, <2>4
    <3>2. PICK i \in 1 .. k : Most(i, k)  BY <3>1
    <3>3. PICK l \in 1 .. k : Less(l, k)  BY <3>1
    <3>4. es[i] \in Errors /\ es[l] \in Errors /\ \A j \in 1 .. k : es[j] \in Errors  BY <1>1, <2>1
    <3>5. \A j \in 1 .. k + 1 : j \in 1 .. k \/ j = k + 1  BY <2>1
    <3>6. 1 .. k \subseteq 1 .. k + 1 /\ k + 1 \in 1 .. k + 1  BY <2>1
    <3>7. \E m \in 1 .. k + 1 : Most(m, k + 1)
      <4>1. CASE MoreSevere(e, es[i])
        <5>1. ~MoreSevere(es[i], e)  BY <2>2, <3>4, <4>1, Transitive
        <5>2. ASSUME NEW j \in 1 .. k  PROVE ~MoreSevere(es[j], e)
          BY <2>2, <3>2, <3>4, <5>1, Transitive
        <5>3. Most(k + 1, k + 1)  BY <2>2, <3>5, <5>2
        <5>4. QED  BY <3>6, <5>3
      <4>2. CASE ~MoreSevere(e, es[i])
        <5>1. Most(i, k + 1)  BY <3>2, <3>5, <4>2
        <5>2. QED  BY <3>6, <5>1
      <4>3. QED  BY <4>1, <4>2
    <3>8. \E m \in 1 .. k + 1 : Less(m, k + 1)
      <4>1. CASE MoreSevere(es[l], e)
        <5>1. ~MoreSevere(e, es[l])  BY <2>2, <3>4, <4>1, Transitive
        <5>2. ASSUME NEW j \in 1 .. k  PROVE ~MoreSevere(e, es[j])
          BY <2>2, <3>3, <3>4, <5>1, Transitive
        <5>3. Less(k + 1, k + 1)  BY <2>2, <3>5, <5>2
        <5>4. QED  BY <3>6, <5>3
      <4>2. CASE ~MoreSevere(es[l], e)
        <5>1. Less(l, k + 1)  BY <3>3, <3>5, <4>2
        <5>2. QED  BY <3>6, <5>1
      <4>3. QED  BY <4>1, <4>2
    <3>9. QED  BY <3>7, <3>8
  <2>5. QED  BY <2>3, <2>4
<1> HIDE DEF T
<1>4. T = Nat
  <2>1. T \in SUBSET Nat  BY DEF T
  <2>2. QED  BY <1>2, <1>3, <2>1, AddLoop!Countdown
<1>5. (\E i \in 1 .. n : Most(i, n)) /\ \E i \in 1 .. n : Less(i, n)
  <2>1. n \in T /\ n # 0 /\ n <= n  BY <1>4
  <2>2. QED  BY <2>1 DEF T
<1> DEFINE M == {i \in DOMAIN es : Most(i, n)}
           L == {i \in DOMAIN es : Less(i, n)}
<1>6. MostSevere(es) = Min(M) /\ LeastSevere(es) = Min(L)  BY <1>1, Zenon DEF MostSevere, LeastSevere
<1>7. M \in SUBSET Nat /\ M # {} /\ L \in SUBSET Nat /\ L # {}  BY <1>1, <1>5
<1>8. Min(M) \in M /\ Min(L) \in L
  <2> HIDE DEF M, L
  <2>1. QED  BY <1>7, MinIs
<1>9. QED  BY SMTT(60), <1>1, <1>6, <1>8

-----------------------------------------------------------------------------
(* Adding errors.                                                           *)

\* There is room, and for every error one that is told and no less severe.
Kept == {s \in [errors : Seq(Errors), found : Seq(Errors)] :
           /\ Len(s.errors) <= MaxErrors
           /\ \A i \in DOMAIN s.errors : \E j \in DOMAIN s.found : s.errors[i] = s.found[j]
           /\ \A i \in DOMAIN s.found : \E j \in DOMAIN s.errors : ~MoreSevere(s.found[i], s.errors[j])}

LEMMA AddKeeps == ASSUME NEW s \in Kept, NEW e \in Errors  PROVE AddError(s, e) \in Kept
<1> DEFINE t == AddError(s, e)
           es == s.errors
           fs == s.found
           n == Len(es)
           m == Len(fs)
<1>1. /\ es \in Seq(Errors) /\ fs \in Seq(Errors) /\ n <= MaxErrors /\ s = [errors |-> es, found |-> fs]
      /\ \A i \in DOMAIN es : \E j \in DOMAIN fs : es[i] = fs[j]
      /\ \A i \in DOMAIN fs : \E j \in DOMAIN es : ~MoreSevere(fs[i], es[j])
  BY DEF Kept
<1>2. n \in Nat /\ m \in Nat /\ DOMAIN es = 1 .. n /\ DOMAIN fs = 1 .. m
      /\ (\A i \in 1 .. n : es[i] \in Errors) /\ \A i \in 1 .. m : fs[i] \in Errors
  BY <1>1
<1>3. MaxErrors \in Nat /\ MaxErrors >= 2  BY ValidateAssumption
<1> DEFINE gs == Append(fs, e)
           l == LeastSevere(es)
           ns == IF n = MaxErrors THEN [es EXCEPT ![l] = e] ELSE Append(es, e)
<1>4. t = [errors |-> ns, found |-> gs]  BY Zenon DEF AddError
<1>5. /\ gs \in Seq(Errors) /\ DOMAIN gs = 1 .. m + 1 /\ gs[m + 1] = e
      /\ \A i \in 1 .. m : gs[i] = fs[i]
  BY <1>1, <1>2
<1>6. ~MoreSevere(e, e)  BY Transitive
<1>7. /\ ns \in Seq(Errors) /\ Len(ns) <= MaxErrors
      /\ \A i \in DOMAIN ns : ns[i] = e \/ (i \in 1 .. n /\ ns[i] = es[i])
      /\ \E j \in DOMAIN ns : ns[j] = e
      /\ \A i \in 1 .. m : \E j \in DOMAIN ns : ~MoreSevere(fs[i], ns[j])
  <2>1. CASE n = MaxErrors
    <3>1. l \in 1 .. n /\ \A j \in 1 .. n : ~MoreSevere(es[l], es[j])
      <4>1. es # <<>>  BY <1>3, <2>1
      <4>2. QED  BY <1>1, <1>2, <4>1, ExtremesExist
    <3> HIDE DEF l
    <3>2. ns = [es EXCEPT ![l] = e]  BY <2>1
    <3>3. ns \in Seq(Errors) /\ Len(ns) = n /\ DOMAIN ns = 1 .. n  BY <1>1, <1>2, <3>1, <3>2
    <3>4. ns[l] = e /\ \A i \in 1 .. n : i # l => ns[i] = es[i]  BY <1>2, <3>1, <3>2
    <3> HIDE DEF ns
    <3>5. ASSUME NEW i \in 1 .. m  PROVE \E j \in 1 .. n : ~MoreSevere(fs[i], ns[j])
      <4>1. PICK j \in 1 .. n : ~MoreSevere(fs[i], es[j])  BY <1>1, <1>2
      <4>2. CASE j # l  BY <3>4, <4>1, <4>2
      <4>3. CASE j = l
        <5>1. PICK k \in 1 .. n : k # l
          <6>1. 1 \in 1 .. n /\ 2 \in 1 .. n  BY <1>2, <1>3, <2>1
          <6>2. QED  BY <6>1
        <5>2. ~MoreSevere(es[l], es[k])  BY <3>1
        <5>3. fs[i] \in Errors /\ es[l] \in Errors /\ es[k] \in Errors  BY <1>2, <3>1
        <5>4. ~MoreSevere(fs[i], es[k])  BY <4>1, <4>3, <5>2, <5>3, Transitive
        <5>5. QED  BY <3>4, <5>1, <5>4
      <4>4. QED  BY <4>2, <4>3
    <3>6. Len(ns) <= MaxErrors  BY <1>3, <2>1, <3>3
    <3>7. QED  BY <3>1, <3>3, <3>4, <3>5, <3>6
  <2>2. CASE n # MaxErrors
    <3>1. ns = Append(es, e)  BY <2>2
    <3>2. ns \in Seq(Errors) /\ Len(ns) = n + 1 /\ DOMAIN ns = 1 .. n + 1  BY <1>1, <1>2, <3>1
    <3>3. ns[n + 1] = e /\ \A i \in 1 .. n : ns[i] = es[i]  BY <1>1, <1>2, <3>1
    <3> HIDE DEF ns
    <3>4. Len(ns) <= MaxErrors  BY <1>1, <1>2, <1>3, <2>2, <3>2
    <3>5. \A i \in 1 .. n + 1 : i \in 1 .. n \/ i = n + 1  BY <1>2
    <3>6. n + 1 \in 1 .. n + 1 /\ 1 .. n \subseteq 1 .. n + 1  BY <1>2
    <3>7. ASSUME NEW i \in 1 .. m  PROVE \E j \in 1 .. n + 1 : ~MoreSevere(fs[i], ns[j])
      <4>1. PICK j \in 1 .. n : ~MoreSevere(fs[i], es[j])  BY <1>1, <1>2
      <4>2. QED  BY <3>3, <3>6, <4>1
    <3>8. QED  BY <3>2, <3>3, <3>4, <3>5, <3>6, <3>7
  <2>3. QED  BY <2>1, <2>2
<1> HIDE DEF gs, ns, l
<1>8. \A i \in DOMAIN ns : \E j \in DOMAIN gs : ns[i] = gs[j]
  <2> SUFFICES ASSUME NEW i \in DOMAIN ns  PROVE \E j \in 1 .. m + 1 : ns[i] = gs[j]
    BY <1>5
  <2>1. CASE ns[i] = e
    <3>1. m + 1 \in 1 .. m + 1  BY <1>2
    <3>2. QED  BY <1>5, <2>1, <3>1
  <2>2. CASE i \in 1 .. n /\ ns[i] = es[i]
    <3>1. PICK j \in 1 .. m : es[i] = fs[j]  BY <1>1, <1>2, <2>2
    <3>2. j \in 1 .. m + 1  BY <1>2
    <3>3. QED  BY <1>5, <2>2, <3>1, <3>2
  <2>3. QED  BY <1>7, <2>1, <2>2
<1>9. \A i \in DOMAIN gs : \E j \in DOMAIN ns : ~MoreSevere(gs[i], ns[j])
  <2> SUFFICES ASSUME NEW i \in 1 .. m + 1  PROVE \E j \in DOMAIN ns : ~MoreSevere(gs[i], ns[j])
    BY <1>5
  <2>1. CASE i = m + 1
    <3>1. PICK j \in DOMAIN ns : ns[j] = e  BY <1>7
    <3>2. QED  BY <1>5, <1>6, <2>1, <3>1
  <2>2. CASE i # m + 1
    <3>1. i \in 1 .. m  BY <1>2, <2>2
    <3>2. QED  BY <1>5, <1>7, <3>1
  <2>3. QED  BY <2>1, <2>2
<1>10. [errors |-> ns, found |-> gs] \in Kept
  <2> HIDE DEF n, m
  <2>1. QED  BY <1>5, <1>7, <1>8, <1>9 DEF Kept
<1>11. QED  BY <1>4, <1>10

\* The most severe of what is told is as severe as the most severe there was.
LEMMA KeptTellsWorst ==
  ASSUME NEW s \in Kept, s.found # <<>>
  PROVE  s.errors[MostSevere(s.errors)].err = s.found[MostSevere(s.found)].err
<1> DEFINE es == s.errors
           fs == s.found
<1>1. /\ es \in Seq(Errors) /\ fs \in Seq(Errors)
      /\ \A i \in DOMAIN es : \E j \in DOMAIN fs : es[i] = fs[j]
      /\ \A i \in DOMAIN fs : \E j \in DOMAIN es : ~MoreSevere(fs[i], es[j])
  BY DEF Kept
<1>2. (\A i \in DOMAIN es : es[i] \in Errors) /\ \A i \in DOMAIN fs : fs[i] \in Errors  BY <1>1
<1> DEFINE f == MostSevere(fs)
           m == MostSevere(es)
<1>3. f \in DOMAIN fs /\ \A j \in DOMAIN fs : ~MoreSevere(fs[j], fs[f])  BY <1>1, ExtremesExist
<1>4. es # <<>>
  <2>1. PICK j \in DOMAIN es : ~MoreSevere(fs[f], es[j])  BY <1>1, <1>3
  <2>2. QED  BY <2>1
<1>5. m \in DOMAIN es /\ \A j \in DOMAIN es : ~MoreSevere(es[j], es[m])  BY <1>1, <1>4, ExtremesExist
<1> HIDE DEF f, m
<1>6. ~MoreSevere(es[m], fs[f])  BY <1>1, <1>3, <1>5
<1>7. PICK j \in DOMAIN es : ~MoreSevere(fs[f], es[j])  BY <1>1, <1>3
<1>8. ~MoreSevere(es[j], es[m])  BY <1>5
<1>9. es[m] \in Errors /\ es[j] \in Errors /\ fs[f] \in Errors  BY <1>2, <1>3, <1>5
<1>10. ~MoreSevere(fs[f], es[m])  BY <1>7, <1>8, <1>9, Transitive
<1>11. es[m].err = fs[f].err  BY <1>6, <1>9, <1>10, Transitive
<1>12. QED  BY <1>11 DEF f, m

\* Whatever loop adds errors keeps this.
LEMMA AddAll ==
  ASSUME NEW s \in Kept, NEW es \in Seq(Errors)
  PROVE  FoldLeft(AddError, s, es) \in Kept
<1>1. PICK p \in BOOLEAN : p = TRUE  OBVIOUS
<1>2. FoldLeft(AddError, s, es) = AddLoop!LoopOver(p, s, es)
  BY Zenon DEF AddBody, FoldLeft, MapThenFoldSet, Max, AddLoop!LoopOver, AddLoop!FoldLeft,
               AddLoop!MapThenFoldSet, AddLoop!Max
<1> DEFINE n == Len(es)
           G == [i \in 0 .. n |-> Kept]
<1>3. n \in Nat /\ DOMAIN es = 1 .. n /\ \A i \in 1 .. n : es[i] \in Errors  OBVIOUS
<1>4. s \in G[0] /\ G[n] = Kept  BY <1>3
<1>5. ASSUME NEW i \in 1 .. n, NEW u \in G[i - 1]  PROVE AddBody(p, u, es[i]) \in G[i]
  <2>1. G[i - 1] = Kept /\ G[i] = Kept  BY <1>3
  <2>2. u \in Kept /\ es[i] \in Errors  BY <1>3, <2>1
  <2> HIDE DEF G
  <2>3. AddBody(p, u, es[i]) \in Kept  BY <2>2, AddKeeps DEF AddBody
  <2>4. QED  BY <2>1, <2>3
<1> HIDE DEF G
<1>6. AddLoop!LoopOver(p, s, es) \in G[n]
  <2> HIDE DEF n
  <2>1. QED  BY <1>3, <1>4, <1>5, AddLoop!LoopOverInduction
<1>7. QED  BY <1>2, <1>4, <1>6

-----------------------------------------------------------------------------
(* What is compared with what.                                              *)

LEMMA SizeIs ==
  ASSUME shape.groups \in Seq(Seq(Nat)), NEW g \in DOMAIN shape.groups
  PROVE  /\ g \in Nat /\ Size(g) \in Nat
         /\ \A k \in 1 .. Size(g) : shape.groups[g][k] \in Nat
<1>1. g \in Nat /\ shape.groups[g] \in Seq(Nat)  OBVIOUS
<1> DEFINE s == shape.groups[g]
<1>2. s \in Seq(Nat)  BY <1>1
<1> HIDE DEF s
<1>3. Len(s) \in Nat /\ \A k \in 1 .. Len(s) : s[k] \in Nat  BY <1>2
<1>4. QED  BY <1>1, <1>3 DEF Size, s

LEMMA MaxIn ==
  ASSUME NEW k \in Nat, NEW S \in SUBSET (1 .. k), S # {}
  PROVE  Max(S) \in S
<1> DEFINE R == {d \in 0 .. k : k - d \in S}
<1>1. R \in SUBSET Nat /\ R # {}
  <2>1. PICK x \in S : x \in 1 .. k  OBVIOUS
  <2>2. k - x \in 0 .. k /\ k - (k - x) = x  BY <2>1
  <2>3. k - x \in R  BY <2>1, <2>2
  <2>4. 0 .. k \in SUBSET Nat /\ R \subseteq 0 .. k  OBVIOUS
  <2>5. QED  BY <2>3, <2>4
<1>2. PICK d \in R : \A y \in R : d <= y
  <2> HIDE DEF R
  <2>1. QED  BY <1>1, AddLoop!Least
<1>3. k - d \in S /\ d \in 0 .. k  OBVIOUS
<1>4. ASSUME NEW y \in S  PROVE k - d >= y
  <2>1. y \in 1 .. k  OBVIOUS
  <2>2. k - y \in 0 .. k /\ k - (k - y) = y  BY <2>1
  <2>3. k - y \in R  BY <2>2
  <2> HIDE DEF R
  <2>4. d <= k - y  BY <1>2, <2>3
  <2>5. QED  BY <1>3, <2>1, <2>4
<1>5. QED  BY <1>3, <1>4 DEF Max

LEMMA MatchedFits ==
  ASSUME NEW g, NEW h, NEW from \in Nat, NEW to \in Nat, from <= to, Size(h) \in Nat, NEW k \in 1 .. Size(h)
  PROVE  LET m == ChainMatched(g, from, to, h, k) IN m \in Nat /\ k + m <= Size(h)
<1> DEFINE same(x, y) ==
             /\ x.type = y.type /\ x.oper = y.oper /\ SameOperand(x.op1, y.op1)
             /\ x.oper = "none" \/ SameOperand(x.op2, y.op2)
           goes(j) == /\ k + j < Size(h)
                      /\ same(Of(h, k + j), Of(g, from + j)) /\ HitsOf(h, k + j) = HitsOf(g, from + j)
                      /\ Of(h, k + j).type \in {"addaddress", "addsource", "subsource", "andnext"}
           stops == {j \in 0 .. (to - from - 1) : ~goes(j)}
           m == IF stops = {} THEN to - from ELSE Min(stops)
<1>1. ChainMatched(g, from, to, h, k) = m  BY Zenon DEF ChainMatched
<1>2. \A j \in 0 .. (to - from - 1) : j \notin stops => k + j < Size(h)  OBVIOUS
<1>3. stops \in SUBSET Nat /\ stops \subseteq 0 .. (to - from - 1)  OBVIOUS
<1> HIDE DEF stops
<1>4. m \in Nat /\ k + m <= Size(h)
  <2>1. CASE stops = {}
    <3>1. m = to - from  BY <2>1
    <3>2. CASE to = from  BY <3>1, <3>2
    <3>3. CASE to # from
      <4>1. m - 1 \in 0 .. (to - from - 1)  BY <3>1, <3>3
      <4>2. k + (m - 1) < Size(h)  BY <1>2, <2>1, <4>1
      <4>3. QED  BY <3>1, <4>2
    <3>4. QED  BY <3>2, <3>3
  <2>2. CASE stops # {}
    <3>1. m = Min(stops) /\ m \in stops /\ \A x \in stops : m <= x  BY <1>3, <2>2, MinIs
    <3> HIDE DEF m
    <3>2. CASE m = 0  BY <3>2
    <3>3. CASE m # 0
      <4>1. m - 1 \in 0 .. (to - from - 1) /\ m - 1 \notin stops  BY <1>3, <3>1, <3>3
      <4>2. k + (m - 1) < Size(h)  BY <1>2, <4>1
      <4>3. m \in Nat  BY <1>3, <3>1
      <4>4. QED  BY <4>2, <4>3
    <3>4. QED  BY <3>2, <3>3
  <2>3. QED  BY <2>1, <2>2
<1>5. QED  BY <1>1, <1>4

\* Where the inner loop looks is in the group.
Places(h) == [cond : 1 .. Size(h), index : Nat]

LEMMA VisitsLoop ==
  ASSUME NEW p
  PROVE  Visits(p[1], p[2], p[3], p[4])
           = VisitLoop!LoopOver(p, [next |-> 1, index |-> 1, found |-> <<>>], [k \in 1 .. Size(p[4]) |-> k]).found
BY Zenon DEF Visits, VisitBody, FoldLeft, MapThenFoldSet, Max, VisitLoop!LoopOver, VisitLoop!FoldLeft,
             VisitLoop!MapThenFoldSet, VisitLoop!Max

LEMMA VisitsAre ==
  ASSUME NEW g, NEW h, NEW from \in Nat, NEW to \in Nat, from <= to, Size(h) \in Nat
  PROVE  Visits(g, from, to, h) \in Seq(Places(h))
<1> DEFINE W == [next : Nat, index : Nat, found : Seq(Places(h))]
<1>1. PICK n \in Nat : n = Size(h)  OBVIOUS
<1>2. PICK p : p = <<g, from, to, h>>  OBVIOUS
<1>3. PICK t \in W : t = [next |-> 1, index |-> 1, found |-> <<>>]
  <2>1. <<>> \in Seq(Places(h))  OBVIOUS
  <2>2. QED  BY <2>1
<1>4. PICK s : s = [k \in 1 .. n |-> k]  OBVIOUS
<1>5. DOMAIN s = 1 .. n /\ \A i \in 1 .. n : s[i] = i  BY <1>4
<1>6. p[1] = g /\ p[2] = from /\ p[3] = to /\ p[4] = h  BY <1>2
<1>7. Visits(g, from, to, h) = VisitLoop!LoopOver(p, t, s).found
  <2>1. Visits(g, from, to, h) = Visits(p[1], p[2], p[3], p[4])  BY <1>6, Zenon
  <2>2. t = [next |-> 1, index |-> 1, found |-> <<>>] /\ s = [k \in 1 .. Size(p[4]) |-> k]
    BY <1>1, <1>3, <1>4, <1>6
  <2>3. QED  BY <2>1, <2>2, VisitsLoop
<1>8. ASSUME NEW w \in W, NEW k \in 1 .. n  PROVE Visit(g, from, to, h, w, k) \in W
  <2> DEFINE m == ChainMatched(g, from, to, h, k)
             ends == {q \in (k + m) .. Size(h) : Of(h, q).type \notin Combining \/ q = Size(h)}
             v == Visit(g, from, to, h, w, k)
  <2>1. m \in Nat /\ k + m <= n  BY <1>1, MatchedFits
  <2> HIDE DEF m
  <2>2. Min(ends) \in Nat
    <3>1. ends \in SUBSET Nat /\ n \in ends  BY <1>1, <2>1
    <3> HIDE DEF ends
    <3>2. QED  BY <3>1, MinIs
  <2>3. v = IF k # w.next THEN w
            ELSE IF g = h /\ k = from
            THEN [next |-> to + 1, index |-> w.index + (to - from) + 1, found |-> w.found]
            ELSE IF m = to - from /\ Of(h, k + m).type \notin Combining
            THEN [next |-> k + m + 1, index |-> w.index + m + 1,
                  found |-> Append(w.found, [cond |-> k + m, index |-> w.index + m])]
            ELSE [next |-> Min(ends) + 1, index |-> w.index + m + 1, found |-> w.found]
    BY Zenon DEF Visit, m
  <2> HIDE DEF v, ends
  <2>4. w.index \in Nat /\ w.found \in Seq(Places(h)) /\ w.next \in Nat  OBVIOUS
  <2>5. [next |-> to + 1, index |-> w.index + (to - from) + 1, found |-> w.found] \in W  BY <2>4
  <2>6. [next |-> Min(ends) + 1, index |-> w.index + m + 1, found |-> w.found] \in W  BY <2>1, <2>2, <2>4
  <2>7. [cond |-> k + m, index |-> w.index + m] \in Places(h)  BY <1>1, <2>1, <2>4 DEF Places
  <2>8. Append(w.found, [cond |-> k + m, index |-> w.index + m]) \in Seq(Places(h))  BY <2>4, <2>7
  <2>9. [next |-> k + m + 1, index |-> w.index + m + 1,
         found |-> Append(w.found, [cond |-> k + m, index |-> w.index + m])] \in W  BY <2>1, <2>4, <2>8
  <2> HIDE DEF W
  <2>10. v \in W  BY <2>3, <2>5, <2>6, <2>9, Zenon
  <2>11. QED  BY <2>10 DEF v
<1> DEFINE G == [i \in 0 .. n |-> W]
<1> HIDE DEF W
<1>9. t \in G[0] /\ G[n] = W  OBVIOUS
<1>10. ASSUME NEW i \in 1 .. n, NEW u \in G[i - 1]  PROVE VisitBody(p, u, s[i]) \in G[i]
  <2>1. G[i - 1] = W /\ G[i] = W  OBVIOUS
  <2>2. VisitBody(p, u, s[i]) = Visit(g, from, to, h, u, i)  BY <1>5, <1>6, Zenon DEF VisitBody
  <2> HIDE DEF G
  <2>3. QED  BY <1>8, <2>1, <2>2
<1> HIDE DEF G
<1>11. VisitLoop!LoopOver(p, t, s) \in G[n]  BY <1>5, <1>9, <1>10, VisitLoop!LoopOverInduction
<1>12. QED  BY <1>7, <1>9, <1>11 DEF W

LEMMA ToldIs == \A g, c, h, d : Told(g, c, h, d) \in {NO, CF, RD}
  BY DEF Told, NO, CF, RD

Typed == shape.groups \in Seq(Seq(Nat))

LEMMA CompareKeeps ==
  ASSUME Typed, NEW g \in DOMAIN shape.groups, NEW h \in DOMAIN shape.groups, NEW k \in 1 .. Size(g),
         NEW t \in Kept, NEW v \in Places(h)
  PROVE  CompareWith(g, k, h, t, v) \in Kept
<1> DEFINE told == Told(g, Of(g, k), h, Of(h, v.cond))
           e == [err |-> told, group |-> h, cond |-> v.index, other |-> <<g, k>>,
                 pair |-> <<shape.groups[g][k], shape.groups[h][v.cond]>>]
<1>1. CompareWith(g, k, h, t, v) = t \/ (told # NO /\ CompareWith(g, k, h, t, v) = AddError(t, e))
  BY Zenon DEF CompareWith
<1>2. told \in {NO, CF, RD}  BY ToldIs
<1>3. told # NO => told \in Errs  BY <1>2, SeverityIs DEF NO, CF, RD
<1> HIDE DEF told
<1>4. told # NO => e \in Errors
  <2>1. h \in Nat /\ g \in Nat /\ k \in Nat /\ shape.groups[g][k] \in Nat /\ Size(h) \in Nat
        /\ \A i \in 1 .. Size(h) : shape.groups[h][i] \in Nat
    BY SizeIs DEF Typed
  <2>2. v.index \in Nat /\ v.cond \in 1 .. Size(h)  BY DEF Places
  <2>3. <<g, k>> \in Seq(Nat) /\ <<shape.groups[g][k], shape.groups[h][v.cond]>> \in Seq(Nat)  BY <2>1, <2>2
  <2>4. QED  BY <1>3, <2>1, <2>2, <2>3 DEF Errors
<1> HIDE DEF e
<1>5. QED  BY <1>1, <1>4, AddKeeps

LEMMA CompareAllLoop ==
  ASSUME NEW p, NEW t
  PROVE  LET g == p[1]  k == p[2]  h == p[3]
             start == Max({j \in 1 .. k : j = 1 \/ Of(g, j - 1).type \notin Combining})
         IN CompareAll(g, h, t, k) = t \/ CompareAll(g, h, t, k) = CompareLoop!LoopOver(p, t, Visits(g, start, k, h))
BY Zenon DEF CompareAll, CompareBody, FoldLeft, MapThenFoldSet, Max, CompareLoop!LoopOver,
             CompareLoop!FoldLeft, CompareLoop!MapThenFoldSet, CompareLoop!Max

LEMMA CompareAllKeeps ==
  ASSUME Typed, NEW g \in DOMAIN shape.groups, NEW h \in DOMAIN shape.groups, NEW k \in 1 .. Size(g),
         NEW t \in Kept
  PROVE  CompareAll(g, h, t, k) \in Kept
<1>1. PICK p : p = <<g, k, h>>  OBVIOUS
<1>2. p[1] = g /\ p[2] = k /\ p[3] = h  BY <1>1
<1>3. Size(g) \in Nat /\ Size(h) \in Nat  BY SizeIs DEF Typed
<1> DEFINE S == {j \in 1 .. k : j = 1 \/ Of(g, j - 1).type \notin Combining}
           s == Visits(g, Max(S), k, h)
<1>4. CompareAll(g, h, t, k) = t \/ CompareAll(g, h, t, k) = CompareLoop!LoopOver(p, t, s)
  BY <1>2, CompareAllLoop, Zenon
<1>5. k \in Nat /\ Max(S) \in 1 .. k
  <2>1. k \in Nat /\ 1 \in 1 .. k  BY <1>3
  <2>2. S \in SUBSET (1 .. k) /\ S # {}  BY <2>1
  <2> HIDE DEF S
  <2>3. Max(S) \in S  BY <2>1, <2>2, MaxIn
  <2>4. QED  BY <2>1, <2>2, <2>3
<1> HIDE DEF S
<1>6. Max(S) \in Nat /\ Max(S) <= k  BY <1>5
<1>7. s \in Seq(Places(h))  BY <1>3, <1>5, <1>6, VisitsAre
<1> HIDE DEF s
<1> DEFINE n == Len(s)
           G == [i \in 0 .. n |-> Kept]
<1>8. n \in Nat /\ DOMAIN s = 1 .. n /\ \A i \in 1 .. n : s[i] \in Places(h)  BY <1>7
<1> HIDE DEF n
<1>9. t \in G[0] /\ G[n] = Kept  BY <1>8
<1>10. ASSUME NEW i \in 1 .. n, NEW u \in G[i - 1]  PROVE CompareBody(p, u, s[i]) \in G[i]
  <2>1. G[i - 1] = Kept /\ G[i] = Kept  BY <1>8
  <2>2. s[i] \in Places(h) /\ u \in Kept  BY <1>8, <2>1
  <2> HIDE DEF G
  <2>3. CompareWith(g, k, h, u, s[i]) \in Kept  BY <2>2, CompareKeeps
  <2>4. CompareBody(p, u, s[i]) = CompareWith(g, k, h, u, s[i])  BY <1>2, Zenon DEF CompareBody
  <2>5. QED  BY <2>1, <2>3, <2>4
<1> HIDE DEF G
<1>11. CompareLoop!LoopOver(p, t, s) \in G[n]  BY <1>8, <1>9, <1>10, CompareLoop!LoopOverInduction
<1>12. QED  BY <1>4, <1>9, <1>11

LEMMA ConflictingLoop ==
  ASSUME NEW p, NEW t
  PROVE  ConflictingConditions(t, p[1], p[2]) = AllLoop!LoopOver(p, t, [k \in 1 .. Size(p[1]) |-> k])
BY Zenon DEF ConflictingConditions, AllBody, FoldLeft, MapThenFoldSet, Max, AllLoop!LoopOver,
             AllLoop!FoldLeft, AllLoop!MapThenFoldSet, AllLoop!Max

LEMMA ConflictingKeeps ==
  ASSUME Typed, NEW g \in DOMAIN shape.groups, NEW h \in DOMAIN shape.groups, NEW t \in Kept
  PROVE  ConflictingConditions(t, g, h) \in Kept
<1>1. PICK p : p = <<g, h>>  OBVIOUS
<1>2. p[1] = g /\ p[2] = h  BY <1>1
<1>3. PICK n \in Nat : n = Size(g)  BY SizeIs DEF Typed
<1>4. PICK s : s = [k \in 1 .. n |-> k]  OBVIOUS
<1>5. DOMAIN s = 1 .. n /\ \A i \in 1 .. n : s[i] = i  BY <1>4
<1>6. ConflictingConditions(t, g, h) = AllLoop!LoopOver(p, t, s)
  BY <1>2, <1>3, <1>4, ConflictingLoop
<1> DEFINE G == [i \in 0 .. n |-> Kept]
<1>7. t \in G[0] /\ G[n] = Kept  OBVIOUS
<1>8. ASSUME NEW i \in 1 .. n, NEW u \in G[i - 1]  PROVE AllBody(p, u, s[i]) \in G[i]
  <2>1. G[i - 1] = Kept /\ G[i] = Kept  OBVIOUS
  <2> HIDE DEF G
  <2>2. CompareAll(g, h, u, i) \in Kept  BY <1>3, <2>1, CompareAllKeeps
  <2>3. AllBody(p, u, s[i]) = CompareAll(g, h, u, i)  BY <1>2, <1>5, Zenon DEF AllBody
  <2>4. QED  BY <2>1, <2>2, <2>3
<1> HIDE DEF G
<1>9. AllLoop!LoopOver(p, t, s) \in G[n]  BY <1>5, <1>7, <1>8, AllLoop!LoopOverInduction
<1>10. QED  BY <1>6, <1>7, <1>9

-----------------------------------------------------------------------------
(* The errors of single conditions.                                         *)

\* Sequences that stand one after another.
LEMMA FlattenIs ==
  ASSUME NEW S, NEW ss \in Seq(Seq(S))
  PROVE  FlattenSeq(ss) \in Seq(S)
<1> DEFINE n == Len(ss)
           F(f, k) == [i \in 1 .. k |-> IF i = 1 THEN ss[i] ELSE f[i - 1] \o ss[i]]
           f == CHOOSE f : f = F(f, n)
           T == {k \in Nat : \E g : g = F(g, k)}
<1>1. n \in Nat /\ DOMAIN ss = 1 .. n /\ \A i \in 1 .. n : ss[i] \in Seq(S)  OBVIOUS
<1>2. FlattenSeq(ss) = IF n = 0 THEN ss ELSE f[n]  BY Zenon DEF FlattenSeq
<1>3. \E g : g = F(g, n)
  <2>1. 0 \in T
    <3>1. PICK g : g = [i \in 1 .. 0 |-> <<>>]  OBVIOUS
    <3>2. g = F(g, 0)  BY <3>1
    <3>3. QED  BY <3>2
  <2>2. ASSUME NEW k \in T  PROVE k + 1 \in T
    <3>1. k \in Nat  OBVIOUS
    <3>2. PICK g : g = F(g, k)  OBVIOUS
    <3> DEFINE newest == IF k + 1 = 1 THEN ss[k + 1] ELSE g[(k + 1) - 1] \o ss[k + 1]
               h == [i \in 1 .. k + 1 |-> IF i = k + 1 THEN newest ELSE g[i]]
    <3>3. \A i \in 1 .. k : g[i] = IF i = 1 THEN ss[i] ELSE g[i - 1] \o ss[i]  BY <3>2
    <3>4. ASSUME NEW i \in 1 .. k + 1  PROVE h[i] = IF i = 1 THEN ss[i] ELSE h[i - 1] \o ss[i]
      <4>1. CASE i = k + 1
        <5>1. h[i] = newest  BY <4>1
        <5>2. i = 1 \/ h[i - 1] = g[i - 1]  BY <3>1, <4>1
        <5> HIDE DEF h
        <5>3. QED  BY <4>1, <5>1, <5>2
      <4>2. CASE i # k + 1
        <5>1. h[i] = g[i] /\ i \in 1 .. k  BY <3>1, <4>2
        <5>2. i = 1 \/ h[i - 1] = g[i - 1]  BY <3>1, <4>2
        <5> HIDE DEF h
        <5>3. QED  BY <3>3, <5>1, <5>2
      <4>3. QED  BY <4>1, <4>2
    <3>5. h = [i \in 1 .. k + 1 |-> h[i]]  OBVIOUS
    <3> HIDE DEF h
    <3>6. h = F(h, k + 1)  BY <3>4, <3>5
    <3> HIDE DEF F
    <3>7. k + 1 \in Nat  BY <3>1
    <3>8. QED  BY <3>6, <3>7, Zenon
  <2> HIDE DEF T
  <2>3. T = Nat
    <3>1. T \in SUBSET Nat  BY DEF T
    <3>2. QED  BY ZenonT(60), <2>1, <2>2, <3>1, AddLoop!Countdown
  <2>4. n \in T  BY <1>1, <2>3
  <2>5. QED  BY ZenonT(60), <2>4 DEF T
<1>4. f = F(f, n)  BY <1>3
<1> HIDE DEF f
<1>5. \A i \in 1 .. n : f[i] = IF i = 1 THEN ss[i] ELSE f[i - 1] \o ss[i]  BY <1>4
<1> HIDE DEF n
<1> DEFINE U == {k \in Nat : k \in 1 .. n => f[k] \in Seq(S)}
<1>6. 0 \in U  OBVIOUS
<1>7. ASSUME NEW k \in U  PROVE k + 1 \in U
  <2>1. k \in Nat  OBVIOUS
  <2> SUFFICES ASSUME k + 1 \in 1 .. n  PROVE f[k + 1] \in Seq(S)
    BY <2>1
  <2>2. ss[k + 1] \in Seq(S)  BY <1>1
  <2>3. CASE k = 0  BY <1>5, <2>2, <2>3
  <2>4. CASE k # 0
    <3>1. k \in 1 .. n /\ (k + 1) - 1 = k /\ k + 1 # 1  BY <1>1, <2>1, <2>4
    <3>2. f[k] \in Seq(S)  BY <3>1
    <3>3. f[k + 1] = f[k] \o ss[k + 1]  BY <1>5, <3>1
    <3>4. QED  BY <2>2, <3>2, <3>3
  <2>5. QED  BY <2>3, <2>4
<1> HIDE DEF U
<1>8. U = Nat
  <2>1. U \in SUBSET Nat  BY DEF U
  <2>2. QED  BY <1>6, <1>7, <2>1, AddLoop!Countdown
<1>9. CASE n = 0
  <2>1. ss = <<>>  BY <1>1, <1>9 DEF n
  <2>2. QED  BY <1>2, <1>9, <2>1
<1>10. CASE n # 0
  <2>1. n \in U /\ n \in 1 .. n  BY <1>1, <1>8, <1>10
  <2>2. f[n] \in Seq(S)  BY <2>1 DEF U
  <2>3. QED  BY <1>2, <1>10, <2>2
<1>11. QED  BY <1>9, <1>10

LEMMA AboutIs ==
  ASSUME Typed, NEW g \in DOMAIN shape.groups, NEW k \in 1 .. Size(g), NEW errs \in Seq(Errs)
  PROVE  About(errs, g, k) \in Seq(Errors)
<1>1. g \in Nat /\ k \in Nat /\ shape.groups[g][k] \in Nat  BY SizeIs DEF Typed
<1>2. PICK pair \in Seq(Nat) : pair = <<shape.groups[g][k]>>
  <2>1. \A x \in Nat : <<x>> \in Seq(Nat)  OBVIOUS
  <2>2. QED  BY <1>1, <2>1
<1>3. PICK other \in Seq(Nat) : other = <<0, 0>>
  <2>1. \A x \in Nat : <<x, x>> \in Seq(Nat)  OBVIOUS
  <2>2. QED  BY <2>1
<1> DEFINE e(i) == [err |-> errs[i], group |-> g, cond |-> k, other |-> other, pair |-> pair]
<1>4. ASSUME NEW i \in DOMAIN errs  PROVE e(i) \in Errors  BY <1>1 DEF Errors
<1>5. About(errs, g, k) = [i \in DOMAIN errs |-> e(i)]  BY <1>2, <1>3 DEF About
<1>6. DOMAIN errs = 1 .. Len(errs) /\ Len(errs) \in Nat  OBVIOUS
<1> HIDE DEF e
<1>7. QED  BY <1>4, <1>5, <1>6

\* Sequences of errors, one after another.
LEMMA SaysAre ==
  /\ <<>> \in Seq(Errs) /\ \A e \in Errs : <<e>> \in Seq(Errs)
  /\ \A a, b \in Seq(Errs) : a \o b \in Seq(Errs)
OBVIOUS

LEMMA WhenIs == ASSUME NEW c \in BOOLEAN, NEW e \in Errs  PROVE When(c, e) \in Seq(Errs)
BY SaysAre DEF When

LEMMA RangeErrors == ASSUME NEW min, NEW max, NEW oper, NEW top
  PROVE ValidateRange(min, max, oper, top) \in Seq(Errs)
<1>1. {"neverTrue", "alwaysTrue", "maskTooLarge", "maskAlwaysZero"} \subseteq Errs  BY SeverityIs
<1>2. QED  BY <1>1, SaysAre DEF ValidateRange, When

LEMMA ComparisonIs == ASSUME NEW c  PROVE ComparisonErrors(c) \in Seq(Errs)
<1>1. "differentSizes" \in Errs  BY SeverityIs
<1> DEFINE sized(op) == IsMemref(op) /\ op.list = "mem"
           a == When(sized(c.op1) /\ sized(c.op2) /\ MaxValue(c.op1) # MaxValue(c.op2), "differentSizes")
<1>2. a \in Seq(Errs)  BY <1>1, SaysAre DEF When
<1>3. \A min, max, oper, top : a \o ValidateRange(min, max, oper, top) \in Seq(Errs)
  <2> HIDE DEF a
  <2>1. QED  BY <1>2, SaysAre, RangeErrors
<1>4. a \o <<>> \in Seq(Errs)
  <2> HIDE DEF a
  <2>1. QED  BY <1>2, SaysAre
<1>5. \/ ComparisonErrors(c) = a \o <<>>
      \/ \E min, max, oper, top : ComparisonErrors(c) = a \o ValidateRange(min, max, oper, top)
  BY ZenonT(60) DEF ComparisonErrors
<1>6. QED  BY <1>3, <1>4, <1>5

LEMMA StructureIs == ASSUME NEW g, NEW k  PROVE StructureErrors(g, k) \in Seq(Errs)
<1> DEFINE c == Of(g, k)
           real == GetRealOperand1(c)
           remembers == \E j \in 1 .. Size(g) : Of(g, j).type = "remember"
           resets == c.type = "resetif" /\ ~InAddHits(g, k)
           a1 == IF InAddAddress(g, k) THEN <<>>
                 ELSE (IF IsMemref(real) THEN ValidateMemref(real) ELSE <<>>)
                        \o (IF IsMemref(c.op2) THEN ValidateMemref(c.op2) ELSE <<>>)
           a2 == When(InvalidRecall(real) \/ InvalidRecall(c.op2),
                      IF remembers THEN "recallBeforeRemember" ELSE "recallWithoutRemember")
           a3 == When(c.type = "addaddress" /\ real.type \in {"delta", "prior"}, "pointerFromPreviousFrame")
           a4 == When(c.type = "addaddress" /\ real.type \in {"bcd", "inverted"} /\ c.oper # "mult",
                      "pointerTransformed")
           a5 == When(resets /\ ~HasHitTargets, "noHitsToReset")
           a6 == When(resets /\ HasHitTargets /\ HitsOf(g, k) = 1, "resetHitTargetOfOne")
           a7 == When(c.type \notin Combining \cup {"resetif"} /\ InAddHits(g, k) /\ HitsOf(g, k) = 0,
                      "addHitsWithoutTarget")
<1>1. a1 \in Seq(Errs)
  <2>1. ASSUME NEW op  PROVE ValidateMemref(op) \in Seq(Errs)
    <3>1. {"addressOutOfRange", "doubtfulAddress"} \subseteq Errs  BY SeverityIs
    <3>2. QED  BY <3>1, SaysAre DEF ValidateMemref, When
  <2>2. QED  BY <2>1, SaysAre, Zenon
<1>2. a2 \in Seq(Errs)
  <2>1. {"recallBeforeRemember", "recallWithoutRemember"} \subseteq Errs  BY SeverityIs
  <2>2. QED  BY <2>1, SaysAre DEF When
<1>3. a3 \in Seq(Errs)
  <2>1. "pointerFromPreviousFrame" \in Errs  BY SeverityIs
  <2>2. QED  BY <2>1, SaysAre, Zenon DEF When
<1>4. a4 \in Seq(Errs)
  <2>1. "pointerTransformed" \in Errs  BY SeverityIs
  <2>2. QED  BY <2>1, SaysAre, Zenon DEF When
<1>5. a5 \in Seq(Errs)
  <2>1. "noHitsToReset" \in Errs  BY SeverityIs
  <2>2. QED  BY <2>1, SaysAre, Zenon DEF When
<1>6. a6 \in Seq(Errs)
  <2>1. "resetHitTargetOfOne" \in Errs  BY SeverityIs
  <2>2. QED  BY <2>1, SaysAre, Zenon DEF When
<1>7. a7 \in Seq(Errs)
  <2>1. "addHitsWithoutTarget" \in Errs  BY SeverityIs
  <2>2. QED  BY <2>1, SaysAre, Zenon DEF When
<1>8. StructureErrors(g, k) = a1 \o a2 \o a3 \o a4 \o a5 \o a6 \o a7  BY Zenon DEF StructureErrors
<1> HIDE DEF a1, a2, a3, a4, a5, a6, a7
<1>9. QED  BY <1>1, <1>2, <1>3, <1>4, <1>5, <1>6, <1>7, <1>8, SaysAre

LEMMA CondsetIs ==
  ASSUME Typed, NEW g \in DOMAIN shape.groups
  PROVE  CondsetErrors(g) \in Seq(Errors)
<1> DEFINE silent == {"addsource", "subsource", "remember", "addaddress"}
           checked(k) == StructureErrors(g, k)
                           \o (IF Of(g, k).type \in silent THEN <<>> ELSE ComparisonErrors(Of(g, k)))
           measuredIfs == {k \in 1 .. Size(g) : Of(g, k).type = "measuredif"}
           measures == \E k \in 1 .. Size(g) : Of(g, k).type = "measured"
           all == [k \in 1 .. Size(g) |-> About(checked(k), g, k)]
           a == FlattenSeq(all)
           b == IF Size(g) > 0 /\ Of(g, Size(g)).type \in Combining
                THEN About(<<"trailingChain">>, g, Size(g)) ELSE <<>>
           c == IF measuredIfs # {} /\ ~measures
                THEN About(<<"measuredIfWithoutMeasured">>, g, Min(measuredIfs)) ELSE <<>>
<1>1. PICK n \in Nat : n = Size(g)  BY SizeIs DEF Typed
<1>2. a \in Seq(Errors)
  <2>1. ASSUME NEW k \in 1 .. n  PROVE About(checked(k), g, k) \in Seq(Errors)
    <3>1. StructureErrors(g, k) \in Seq(Errs) /\ ComparisonErrors(Of(g, k)) \in Seq(Errs)
      BY StructureIs, ComparisonIs
    <3>2. checked(k) \in Seq(Errs)  BY <3>1, SaysAre, Zenon
    <3> HIDE DEF checked
    <3>3. QED  BY <1>1, <3>2, AboutIs
  <2> HIDE DEF checked
  <2>2. all \in Seq(Seq(Errors))
    <3>1. all = [k \in 1 .. n |-> About(checked(k), g, k)]  BY <1>1
    <3> HIDE DEF all
    <3>2. QED  BY <2>1, <3>1
  <2> HIDE DEF all
  <2>3. QED  BY <2>2, FlattenIs
<1>3. <<>> \in Seq(Errors) /\ \A x, y \in Seq(Errors) : x \o y \in Seq(Errors)  OBVIOUS
<1>4. b \in Seq(Errors)
  <2>1. <<"trailingChain">> \in Seq(Errs)  BY SeverityIs, SaysAre
  <2>2. Size(g) > 0 => Size(g) \in 1 .. Size(g)  BY <1>1
  <2>3. Size(g) > 0 => About(<<"trailingChain">>, g, Size(g)) \in Seq(Errors)  BY <2>1, <2>2, AboutIs
  <2>4. QED  BY <1>3, <2>3, Zenon
<1>5. c \in Seq(Errors)
  <2>1. <<"measuredIfWithoutMeasured">> \in Seq(Errs)  BY SeverityIs, SaysAre
  <2>2. measuredIfs # {} => Min(measuredIfs) \in 1 .. Size(g)
    <3>1. measuredIfs \in SUBSET Nat /\ measuredIfs \subseteq 1 .. Size(g)  BY <1>1
    <3> HIDE DEF measuredIfs
    <3>2. QED  BY <3>1, MinIs
  <2> HIDE DEF measuredIfs
  <2>3. measuredIfs # {} => About(<<"measuredIfWithoutMeasured">>, g, Min(measuredIfs)) \in Seq(Errors)
    BY <2>1, <2>2, AboutIs
  <2>4. QED  BY <1>3, <2>3, Zenon
<1>6. CondsetErrors(g) = a \o b \o c  BY Zenon DEF CondsetErrors
<1> HIDE DEF a, b, c
<1>7. QED  BY <1>2, <1>3, <1>4, <1>5, <1>6

-----------------------------------------------------------------------------
(* All groups.                                                              *)

LEMMA GroupPairs ==
  ASSUME NEW s, NEW g
  PROVE  LET pairs == IF g = 1 THEN <<<<1, 1>>>> ELSE <<<<g, g>>, <<1, g>>, <<g, 1>>>>
             many == Len(s.errors)
         IN ValidateGroup(s, g) = PairLoop!LoopOver(many, FoldLeft(AddError, s, CondsetErrors(g)), pairs)
BY Zenon DEF ValidateGroup, PairBody, FoldLeft, MapThenFoldSet, Max, PairLoop!LoopOver,
             PairLoop!FoldLeft, PairLoop!MapThenFoldSet, PairLoop!Max

LEMMA GroupKeeps ==
  ASSUME Typed, NEW g \in DOMAIN shape.groups, NEW s \in Kept
  PROVE  ValidateGroup(s, g) \in Kept
<1> DEFINE ps == IF g = 1 THEN <<<<1, 1>>>> ELSE <<<<g, g>>, <<1, g>>, <<g, 1>>>>
           t == FoldLeft(AddError, s, CondsetErrors(g))
           many == Len(s.errors)
           D == DOMAIN shape.groups
<1>1. t \in Kept  BY CondsetIs, AddAll
<1>2. ValidateGroup(s, g) = PairLoop!LoopOver(many, t, ps)  BY GroupPairs
<1>3. 1 \in D /\ g \in D
  <2>1. D = 1 .. Len(shape.groups) /\ Len(shape.groups) \in Nat  BY DEF Typed
  <2>2. QED  BY <2>1
<1> HIDE DEF t, many, D
<1>4. \E n \in Nat : DOMAIN ps = 1 .. n /\ \A i \in 1 .. n : ps[i][1] \in D /\ ps[i][2] \in D
  <2>1. ASSUME g = 1
        PROVE  \E n \in Nat : DOMAIN ps = 1 .. n /\ \A i \in 1 .. n : ps[i][1] \in D /\ ps[i][2] \in D
    <3>1. ps = <<<<1, 1>>>>  BY <2>1
    <3> HIDE DEF ps
    <3>2. DOMAIN ps = 1 .. 1 /\ ps[1][1] = 1 /\ ps[1][2] = 1  BY <3>1
    <3>3. \A i \in 1 .. 1 : i = 1  OBVIOUS
    <3>4. \A i \in 1 .. 1 : ps[i][1] \in D /\ ps[i][2] \in D  BY <1>3, <3>2, <3>3, Zenon
    <3>5. QED  BY <3>2, <3>4
  <2>2. ASSUME g # 1
        PROVE  \E n \in Nat : DOMAIN ps = 1 .. n /\ \A i \in 1 .. n : ps[i][1] \in D /\ ps[i][2] \in D
    <3>1. ps = <<<<g, g>>, <<1, g>>, <<g, 1>>>>  BY <2>2
    <3> HIDE DEF ps
    <3>2. /\ DOMAIN ps = 1 .. 3
          /\ ps[1][1] = g /\ ps[1][2] = g /\ ps[2][1] = 1 /\ ps[2][2] = g /\ ps[3][1] = g /\ ps[3][2] = 1
      BY <3>1
    <3>3. \A i \in 1 .. 3 : i = 1 \/ i = 2 \/ i = 3  OBVIOUS
    <3>4. \A i \in 1 .. 3 : ps[i][1] \in D /\ ps[i][2] \in D  BY <1>3, <3>2, <3>3, Zenon
    <3>5. QED  BY <3>2, <3>4
  <2> HIDE DEF ps
  <2>3. QED  BY <2>1, <2>2
<1> HIDE DEF ps
<1>9. PICK n \in Nat : DOMAIN ps = 1 .. n /\ \A i \in 1 .. n : ps[i][1] \in D /\ ps[i][2] \in D
  BY <1>4
<1> DEFINE G == [i \in 0 .. n |-> Kept]
<1>5. t \in G[0] /\ G[n] = Kept  BY <1>1
<1>6. ASSUME NEW i \in 1 .. n, NEW u \in G[i - 1]  PROVE PairBody(many, u, ps[i]) \in G[i]
  <2>1. G[i - 1] = Kept /\ G[i] = Kept  OBVIOUS
  <2> HIDE DEF G
  <2>2. ConflictingConditions(u, ps[i][1], ps[i][2]) \in Kept  BY <1>9, <2>1, ConflictingKeeps DEF D
  <2>3. PairBody(many, u, ps[i]) = u \/ PairBody(many, u, ps[i]) = ConflictingConditions(u, ps[i][1], ps[i][2])
    BY Zenon DEF PairBody, ComparePair
  <2>4. QED  BY <2>1, <2>2, <2>3
<1> HIDE DEF G
<1>7. PairLoop!LoopOver(many, t, ps) \in G[n]  BY <1>9, <1>5, <1>6, PairLoop!LoopOverInduction
<1>8. QED  BY <1>2, <1>5, <1>7

LEMMA TriggerKept == ASSUME Typed  PROVE ValidateTrigger \in Kept
<1>1. PICK p \in BOOLEAN : p = TRUE  OBVIOUS
<1>2. PICK t \in Kept : t = [errors |-> <<>>, found |-> <<>>]
  <2>1. PICK e : e = <<>>  OBVIOUS
  <2>5. e \in Seq(Errors) /\ Len(e) = 0 /\ DOMAIN e = {}  BY <2>1
  <2>2. e \in Seq(Errors) /\ Len(e) <= MaxErrors /\ DOMAIN e = {}  BY <2>5, ValidateAssumption
  <2>3. [errors |-> e, found |-> e] \in Kept  BY <2>2 DEF Kept
  <2>4. QED  BY <2>1, <2>3
<1>3. PICK s : s = [g \in DOMAIN shape.groups |-> g]  OBVIOUS
<1>4. ValidateTrigger = GroupLoop!LoopOver(p, t, s)
  <2>1. \A q : FoldLeft(ValidateGroup, t, s) = GroupLoop!LoopOver(q, t, s)
    BY Zenon DEF GroupBody, FoldLeft, MapThenFoldSet, Max, GroupLoop!LoopOver,
                 GroupLoop!FoldLeft, GroupLoop!MapThenFoldSet, GroupLoop!Max
  <2>2. ValidateTrigger = FoldLeft(ValidateGroup, t, s)  BY <1>2, <1>3, Zenon DEF ValidateTrigger
  <2>3. QED  BY <2>1, <2>2
<1>5. PICK n \in Nat : DOMAIN shape.groups = 1 .. n
  <2>1. DOMAIN shape.groups = 1 .. Len(shape.groups) /\ Len(shape.groups) \in Nat  BY DEF Typed
  <2>2. QED  BY <2>1
<1>6. DOMAIN s = 1 .. n /\ \A i \in 1 .. n : s[i] = i  BY <1>3, <1>5
<1> DEFINE G == [i \in 0 .. n |-> Kept]
<1>7. t \in G[0] /\ G[n] = Kept  OBVIOUS
<1>8. ASSUME NEW i \in 1 .. n, NEW u \in G[i - 1]  PROVE GroupBody(p, u, s[i]) \in G[i]
  <2>1. G[i - 1] = Kept /\ G[i] = Kept  OBVIOUS
  <2> HIDE DEF G
  <2>2. ValidateGroup(u, i) \in Kept  BY <1>5, <2>1, GroupKeeps
  <2>3. QED  BY <1>6, <2>1, <2>2 DEF GroupBody
<1> HIDE DEF G
<1>9. GroupLoop!LoopOver(p, t, s) \in G[n]  BY <1>6, <1>7, <1>8, GroupLoop!LoopOverInduction
<1>10. QED  BY <1>4, <1>7, <1>9

\* Of any definition, however many conditions of it err, the error that is told is the most severe one
\* (rc_validate_add_error, rc_validate_find_most_severe_error).
THEOREM WorstAlwaysTold == ValidateSpec => []WorstIsTold
<1> DEFINE Inv == [errors |-> errors, found |-> found] \in Kept
<1>1. MemrefInit /\ ValidateInit => Inv
  <2> SUFFICES ASSUME MemrefInit, ValidateInit  PROVE Inv
    OBVIOUS
  <2>1. shape \in Shapes[source] /\ source \in Definitions  BY DEF MemrefInit, ValidateInit
  <2>2. Typed  BY <2>1, ValidateAssumption DEF Typed
  <2>3. ValidateTrigger \in Kept  BY <2>2, TriggerKept
  <2>4. errors = ValidateTrigger.errors /\ found = ValidateTrigger.found  BY DEF ValidateInit
  <2>5. \A s \in Kept : s = [errors |-> s.errors, found |-> s.found]  BY DEF Kept
  <2>6. QED  BY <2>3, <2>4, <2>5
<1>2. Inv /\ [ValidateNext]_<<memrefVars, validateVars>> => Inv'
  BY DEF ValidateNext, validateVars
<1>3. Inv => WorstIsTold
  <2> SUFFICES ASSUME Inv, found # <<>>
               PROVE  errors[MostSevere(errors)].err = found[MostSevere(found)].err
    BY DEF WorstIsTold
  <2>1. PICK s \in Kept : s = [errors |-> errors, found |-> found]  OBVIOUS
  <2>2. s.errors = errors /\ s.found = found  BY <2>1
  <2>3. QED  BY <2>2, KeptTellsWorst
<1>4. QED  BY <1>1, <1>2, <1>3, PTL DEF ValidateSpec

-----------------------------------------------------------------------------
(* The lists of the runtime.                                                *)

Ids == UNION {u.achievements \cup u.boards : u \in Uses}
States == {"waiting", "active", "paused", "primed", "triggered", "disabled", "inactive", "started", "canceled"}
Shaped(S) == [id : Ids, md5 : Versions, state : S, hits : Int, measured : Int, hasHits : BOOLEAN,
              invalid : BOOLEAN]
Items == Shaped(States)
\* While progress is read.
HalfRead == Shaped(States \cup {Unupdated})

\* No id is there twice.
Apart(list) == \A i, j \in DOMAIN list : list[i].id = list[j].id => i = j
ListOK(list) == list \in Seq(Items) /\ Apart(list)

LEMMA PutIs ==
  ASSUME NEW t \in HalfRead, NEW s \in States, NEW h \in Int, NEW m \in Int, NEW b \in BOOLEAN
  PROVE  /\ Put(t, s, h, m, b) \in Items /\ Put(t, s, h, m, b).id = t.id /\ Put(t, s, h, m, b).md5 = t.md5
         /\ Put(t, s, h, m, b).state = s /\ Put(t, s, h, m, b).hits = h
BY DEF Put, Items, HalfRead, Shaped

LEMMA ItemsAreRead == Items \subseteq HalfRead  BY DEF Items, HalfRead, Shaped

LEMMA InStateIs ==
  ASSUME NEW t \in HalfRead, NEW s \in States
  PROVE  InState(t, s) \in Items /\ InState(t, s).id = t.id
<1>1. t.hits \in Int /\ t.measured \in Int /\ t.hasHits \in BOOLEAN  BY DEF HalfRead, Shaped
<1>2. QED  BY <1>1, PutIs DEF InState

LEMMA ResetItemIs ==
  ASSUME NEW t \in HalfRead
  PROVE  /\ ResetItem(t) \in Items /\ ResetItem(t).id = t.id
         /\ ResetItem(t).state = "waiting" /\ ResetItem(t).hits = 0
<1>5. PICK s \in States : s = "waiting"  BY DEF States
<1>6. PICK h \in Int : h = 0  OBVIOUS
<1>7. PICK m \in Int : m = Unknown  BY DEF Unknown
<1>8. PICK b \in BOOLEAN : b = FALSE  OBVIOUS
<1>1. s = "waiting" /\ h = 0 /\ m = Unknown /\ b = FALSE  BY <1>5, <1>6, <1>7, <1>8
<1>2. s \in States /\ h \in Int /\ m \in Int /\ b \in BOOLEAN  OBVIOUS
<1>3. ResetItem(t) = Put(t, s, h, m, b)  BY <1>1, Zenon DEF ResetItem
<1>4. QED  BY <1>1, <1>2, <1>3, PutIs

LEMMA DisabledIs ==
  ASSUME NEW t \in HalfRead
  PROVE  Disabled(t) \in Items /\ Disabled(t).id = t.id
<1>1. PICK s : s = InState(t, "disabled")  OBVIOUS
<1>2. "disabled" \in States  BY DEF States
<1>3. s \in Items /\ s.id = t.id  BY <1>1, <1>2, InStateIs
<1>4. [s EXCEPT !.invalid = FALSE] \in Items /\ [s EXCEPT !.invalid = FALSE].id = s.id
  BY <1>3 DEF Items, Shaped
<1>5. QED  BY <1>1, <1>3, <1>4 DEF Disabled

LEMMA EvaluatedIs ==
  ASSUME NEW t \in Items, NEW in
  PROVE  Evaluated(t, in).t \in Items /\ Evaluated(t, in).t.id = t.id
<1> DEFINE to(state) == Put(t, state, t.hits, IF state = "paused" THEN t.measured ELSE t.hits, t.hasHits)
           cleared(state) == Put(t, state, 0, 0, FALSE)
           e == Evaluated(t, in).t
<1>1. t \in HalfRead /\ t.hits \in Int /\ t.hits + 1 \in Int /\ t.measured \in Int /\ t.hasHits \in BOOLEAN
      /\ t.state \in States /\ 0 \in Int /\ TRUE \in BOOLEAN /\ FALSE \in BOOLEAN
  BY ItemsAreRead DEF Items, Shaped
<1>2. "active" \in States /\ "paused" \in States /\ "primed" \in States /\ "triggered" \in States  BY DEF States
<1>3. ASSUME NEW s \in States  PROVE to(s) \in Items /\ to(s).id = t.id  BY <1>1, PutIs
<1>11. PICK a \in States : a = "active"  BY <1>2
<1>12. PICK z \in Int : z = 0  OBVIOUS
<1>13. PICK f \in BOOLEAN : f = FALSE  OBVIOUS
<1>14. PICK b \in BOOLEAN : b = TRUE  OBVIOUS
<1>9. a = "active" /\ z = 0 /\ f = FALSE /\ b = TRUE  BY <1>11, <1>12, <1>13, <1>14
<1>10. a \in States /\ z \in Int /\ f \in BOOLEAN /\ b \in BOOLEAN  OBVIOUS
<1>4. ASSUME NEW s \in States  PROVE cleared(s) \in Items /\ cleared(s).id = t.id
  <2>1. cleared(s) = Put(t, s, z, z, f)  BY <1>9, Zenon
  <2> HIDE DEF cleared
  <2>2. QED  BY <1>1, <1>10, <2>1, PutIs
<1>5. Put(t, "active", t.hits + 1, t.hits + 1, TRUE) \in Items
      /\ Put(t, "active", t.hits + 1, t.hits + 1, TRUE).id = t.id
  <2>1. PICK h \in Int : h = t.hits + 1  BY <1>1
  <2>2. Put(t, "active", t.hits + 1, t.hits + 1, TRUE) = Put(t, a, h, h, b)  BY <1>9, <2>1, Zenon
  <2>3. Put(t, a, h, h, b) \in Items /\ Put(t, a, h, h, b).id = t.id  BY <1>1, <1>10, PutIs
  <2>4. QED  BY <2>2, <2>3, Zenon
<1>6. ResetItem(t) \in Items /\ ResetItem(t).id = t.id  BY <1>1, ResetItemIs
<1>7. \/ e = t \/ e = Put(t, "active", t.hits + 1, t.hits + 1, TRUE) \/ e = ResetItem(t)
      \/ e \in {to("active"), to("paused"), to("primed"), to("triggered")}
      \/ e \in {cleared("active"), cleared(t.state)}
  <2> HIDE DEF to, cleared
  <2>1. QED  BY DEF Evaluated, to, cleared
<1> HIDE DEF e, to, cleared
<1>8. QED  BY <1>1, <1>2, <1>3, <1>4, <1>5, <1>6, <1>7 DEF e

\* What is made of each item of a list.
LEMMA MappedOK ==
  ASSUME NEW l, ListOK(l), NEW m, m = [i \in DOMAIN l |-> m[i]],
         \A i \in DOMAIN l : m[i] \in Items /\ m[i].id = l[i].id
  PROVE  ListOK(m) /\ DOMAIN m = DOMAIN l
<1>1. l \in Seq(Items) /\ Apart(l)  BY DEF ListOK
<1>2. DOMAIN l = 1 .. Len(l) /\ Len(l) \in Nat  BY <1>1
<1>3. m \in Seq(Items)  BY <1>2
<1>4. Apart(m)  BY <1>1 DEF Apart
<1>5. QED  BY <1>3, <1>4 DEF ListOK

LEMMA WithoutIs ==
  ASSUME NEW l, ListOK(l), NEW i \in DOMAIN l
  PROVE  /\ ListOK(Without(l, i)) /\ Len(Without(l, i)) = Len(l) - 1
         /\ \A j \in DOMAIN Without(l, i) : Without(l, i)[j].id # l[i].id
         /\ \A j \in 1 .. (i - 1) : j \in DOMAIN Without(l, i) /\ Without(l, i)[j] = l[j]
<1> DEFINE w == Without(l, i)
           n == Len(l)
<1>1. l \in Seq(Items) /\ Apart(l)  BY DEF ListOK
<1>2. n \in Nat /\ DOMAIN l = 1 .. n /\ i \in 1 .. n /\ \A j \in 1 .. n : l[j] \in Items  BY <1>1
<1>3. w = [k \in 1 .. (n - 1) |-> IF k = i THEN l[n] ELSE l[k]]  BY DEF Without
<1> HIDE DEF w, n
<1>4. n - 1 \in Nat /\ n \in 1 .. n /\ 1 .. (n - 1) \subseteq 1 .. n  BY <1>2
<1>5. DOMAIN w = 1 .. (n - 1) /\ \A k \in 1 .. (n - 1) : w[k] = IF k = i THEN l[n] ELSE l[k]  BY <1>3
<1>6. w \in Seq(Items)
  <2>1. \A k \in 1 .. (n - 1) : w[k] \in Items  BY <1>2, <1>4, <1>5
  <2>2. QED  BY <1>3, <1>4, <2>1
<1>7. Len(w) = n - 1  BY <1>4, <1>5, <1>6
<1>8. \A j, k \in 1 .. n : l[j].id = l[k].id => j = k  BY <1>1, <1>2 DEF Apart
<1>9. ASSUME NEW j \in 1 .. (n - 1)  PROVE w[j].id # l[i].id
  <2>1. j # n /\ j \in 1 .. n  BY <1>2
  <2>2. QED  BY <1>2, <1>4, <1>5, <1>8, <2>1
<1>10. ASSUME NEW j \in 1 .. (n - 1), NEW k \in 1 .. (n - 1), w[j].id = w[k].id  PROVE j = k
  <2>1. j # n /\ k # n /\ j \in 1 .. n /\ k \in 1 .. n  BY <1>2
  <2>2. QED  BY <1>4, <1>5, <1>8, <1>10, <2>1
<1>11. Apart(w)  BY <1>5, <1>10 DEF Apart
<1>12. ASSUME NEW j \in 1 .. (i - 1)  PROVE j \in DOMAIN w /\ w[j] = l[j]
  <2>1. j \in 1 .. (n - 1) /\ j # i  BY <1>2
  <2>2. QED  BY <1>5, <2>1
<1>13. QED  BY <1>5, <1>6, <1>7, <1>9, <1>11, <1>12 DEF ListOK, w, n

DropBody(id, l, i) == Dropped(id, l, i)
DropLoop == INSTANCE Loops WITH Body <- DropBody

\* Only one item goes when an id is deactivated.
LEMMA DeactivatedIs ==
  ASSUME NEW l, ListOK(l), NEW id
  PROVE  /\ (\A j \in DOMAIN l : l[j].id # id) => Deactivated(l, id) = l
         /\ \A i \in DOMAIN l : l[i].id = id => Deactivated(l, id) = Without(l, i)
<1> DEFINE n == Len(l)
<1>1. l \in Seq(Items) /\ Apart(l)  BY DEF ListOK
<1>2. n \in Nat /\ DOMAIN l = 1 .. n  BY <1>1
<1>3. Deactivated(l, id) = DropLoop!Loop(id, l, n)
  BY Zenon DEF Deactivated, DropBody, FoldLeft, MapThenFoldSet, Max, DropLoop!Loop, DropLoop!FoldLeft,
               DropLoop!MapThenFoldSet, DropLoop!Max
<1>4. ASSUME \A j \in DOMAIN l : l[j].id # id  PROVE Deactivated(l, id) = l
  <2> DEFINE G == [k \in 0 .. n |-> {l}]
  <2>1. l \in G[0] /\ G[n] = {l}  BY <1>2
  <2>2. ASSUME NEW k \in 1 .. n, NEW u \in G[k - 1]  PROVE DropBody(id, u, k) \in G[k]
    <3>1. u = l /\ G[k] = {l}  BY <1>2
    <3>2. l[k].id # id  BY <1>2, <1>4
    <3>3. QED  BY <3>1, <3>2 DEF DropBody, Dropped
  <2> HIDE DEF G, n
  <2>3. DropLoop!Loop(id, l, n) \in G[n]  BY <1>2, <2>1, <2>2, DropLoop!LoopInduction
  <2>4. QED  BY <1>3, <2>1, <2>3
<1>5. ASSUME NEW i \in DOMAIN l, l[i].id = id  PROVE Deactivated(l, id) = Without(l, i)
  <2> DEFINE w == Without(l, i)
             G == [k \in 0 .. n |-> IF k < i THEN {l} ELSE {w}]
  <2>1. i \in 1 .. n /\ i \in Nat  BY <1>2
  <2>2. l \in G[0] /\ G[n] = {w}  BY <1>2, <2>1
  <2>3. Len(w) = n - 1 /\ DOMAIN w = 1 .. (n - 1) /\ \A j \in DOMAIN w : w[j].id # id
    <3>1. ListOK(w) /\ Len(w) = n - 1 /\ \A j \in DOMAIN w : w[j].id # id  BY <1>5, WithoutIs
    <3>2. DOMAIN w = 1 .. Len(w)  BY <3>1 DEF ListOK
    <3>3. QED  BY <3>1, <3>2
  <2>4. \A j \in 1 .. n : l[j].id = id => j = i  BY <1>1, <1>2, <1>5 DEF Apart
  <2>5. ASSUME NEW k \in 1 .. n, NEW u \in G[k - 1]  PROVE DropBody(id, u, k) \in G[k]
    <3>1. CASE k < i
      <4>1. u = l /\ G[k] = {l}  BY <1>2, <2>1, <3>1
      <4>2. l[k].id # id  BY <2>4, <3>1
      <4>3. QED  BY <4>1, <4>2 DEF DropBody, Dropped
    <3>2. CASE k = i
      <4>1. u = l /\ G[k] = {w}  BY <1>2, <2>1, <3>2
      <4>2. k <= Len(l) /\ l[k].id = id  BY <1>2, <1>5, <3>2
      <4>3. QED  BY <3>2, <4>1, <4>2 DEF DropBody, Dropped
    <3>3. CASE k > i
      <4>1. u = w /\ G[k] = {w}  BY <1>2, <2>1, <3>3
      <4>2. ~(k <= Len(w) /\ w[k].id = id)  BY <2>3
      <4>3. QED  BY <4>1, <4>2 DEF DropBody, Dropped
    <3>4. QED  BY <2>1, <3>1, <3>2, <3>3
  <2> HIDE DEF G, n, w
  <2>6. DropLoop!Loop(id, l, n) \in G[n]  BY <1>2, <2>2, <2>5, DropLoop!LoopInduction
  <2>7. QED  BY <1>3, <2>2, <2>6 DEF w
<1>6. QED  BY <1>4, <1>5

LEMMA DeactivatedOK == ASSUME NEW l, ListOK(l), NEW id  PROVE ListOK(Deactivated(l, id))
<1>1. CASE \A j \in DOMAIN l : l[j].id # id  BY <1>1, DeactivatedIs
<1>2. CASE \E j \in DOMAIN l : l[j].id = id
  <2>1. PICK i \in DOMAIN l : l[i].id = id  BY <1>2
  <2>2. QED  BY <2>1, DeactivatedIs, WithoutIs
<1>3. QED  BY <1>1, <1>2

-----------------------------------------------------------------------------
(* A frame.                                                                 *)

FrameBody(p, acc, i) == OneTrigger(acc, i, p[1], p[2])
FrameLoop == INSTANCE Loops WITH Body <- FrameBody

\* What the loop has done when it has passed the last k achievements.
Walked(k, acc) ==
  LET n == Len(triggers)
  IN /\ ListOK(acc.list) /\ Len(acc.list) >= n - k
     /\ \A i \in 1 .. (n - k) : acc.list[i] = triggers[i]
     /\ acc.evaluated \in Seq(Ids) /\ Len(acc.evaluated) = k
     /\ \A i \in 1 .. k : acc.evaluated[i] = triggers[n + 1 - i].id

LEMMA OneTriggerWalks ==
  ASSUME NEW acc, NEW k \in Nat, NEW ins, NEW drops, Walked(k, acc), ListOK(triggers), k + 1 <= Len(triggers)
  PROVE  Walked(k + 1, OneTrigger(acc, Len(triggers) - k, ins, drops))
<1> DEFINE n == Len(triggers)
           i == n - k
           list == acc.list
           old == list[i]
           e == Evaluated(old, ins[old.id])
           next == OneTrigger(acc, i, ins, drops)
           es == acc.evaluated
<1>1. /\ ListOK(list) /\ Len(list) >= i /\ (\A j \in 1 .. i : list[j] = triggers[j])
      /\ es \in Seq(Ids) /\ Len(es) = k /\ \A j \in 1 .. k : es[j] = triggers[n + 1 - j].id
  BY DEF Walked
<1>2. n \in Nat /\ i \in 1 .. n /\ i \in Nat  BY DEF ListOK
<1>3. list \in Seq(Items) /\ Len(list) \in Nat /\ DOMAIN list = 1 .. Len(list) /\ i \in 1 .. Len(list)
  BY <1>1, <1>2 DEF ListOK
<1>4. old \in Items /\ old = triggers[i] /\ old.id \in Ids
  <2>1. old \in Items  BY <1>3
  <2>2. QED  BY <1>1, <1>2, <2>1 DEF Items, Shaped
<1>5. \/ \E x \in Items : x.id = old.id /\ next.list = [list EXCEPT ![i] = x]
      \/ \E x \in Items : x.id = old.id /\ next.list = Deactivated([list EXCEPT ![i] = x], old.id)
  <2>1. Disabled(old) \in Items /\ Disabled(old).id = old.id
    BY <1>4, ItemsAreRead, DisabledIs
  <2>2. e.t \in Items /\ e.t.id = old.id  BY <1>4, EvaluatedIs
  <2>3. ~(i > Len(list))  BY <1>3
  <2>4. \/ next.list = [list EXCEPT ![i] = Disabled(old)]
        \/ next.list = [list EXCEPT ![i] = e.t]
        \/ next.list = Deactivated([list EXCEPT ![i] = e.t], old.id)
    <3> HIDE DEF e, list, i
    <3>1. QED  BY <2>3 DEF OneTrigger, e, list
  <2> HIDE DEF e, next, list, i
  <2>5. QED  BY <2>1, <2>2, <2>4
<1>6. next.evaluated = Append(es, old.id)
  <2>1. ~(i > Len(list))  BY <1>3
  <2> HIDE DEF i
  <2>2. QED  BY <2>1 DEF OneTrigger
<1> HIDE DEF next, e, list, i, es, old
<1>7. ASSUME NEW x \in Items, x.id = old.id
      PROVE  /\ ListOK([list EXCEPT ![i] = x]) /\ Len([list EXCEPT ![i] = x]) = Len(list)
             /\ \A j \in 1 .. (i - 1) : [list EXCEPT ![i] = x][j] = triggers[j]
  <2> DEFINE m == [list EXCEPT ![i] = x]
  <2>1. m \in Seq(Items) /\ Len(m) = Len(list) /\ DOMAIN m = DOMAIN list  BY <1>3
  <2>2. m = [j \in DOMAIN list |-> m[j]] /\ \A j \in DOMAIN list : m[j] = IF j = i THEN x ELSE list[j]
    BY <1>3
  <2> HIDE DEF m
  <2>3. \A j \in DOMAIN list : m[j] \in Items /\ m[j].id = list[j].id  BY <1>3, <1>7, <2>2 DEF old
  <2>4. ListOK(m)  BY <1>1, <2>2, <2>3, MappedOK
  <2>5. \A j \in 1 .. (i - 1) : j \in 1 .. i /\ j \in 1 .. Len(list) /\ j # i  BY <1>2, <1>3
  <2>6. \A j \in 1 .. (i - 1) : m[j] = triggers[j]  BY <1>1, <1>3, <2>2, <2>5
  <2>7. QED  BY <2>1, <2>4, <2>6 DEF m
<1>8. /\ ListOK(next.list) /\ Len(next.list) >= i - 1
      /\ \A j \in 1 .. (i - 1) : next.list[j] = triggers[j]
  <2>1. CASE \E x \in Items : x.id = old.id /\ next.list = [list EXCEPT ![i] = x]
    <3>1. PICK x \in Items : x.id = old.id /\ next.list = [list EXCEPT ![i] = x]  BY <2>1
    <3> DEFINE m == [list EXCEPT ![i] = x]
    <3>2. ListOK(m) /\ Len(m) = Len(list) /\ \A j \in 1 .. (i - 1) : m[j] = triggers[j]  BY <1>7, <3>1
    <3>3. next.list = m  BY <3>1
    <3>4. Len(list) >= i - 1  BY <1>2, <1>3
    <3> HIDE DEF m
    <3>5. QED  BY <3>2, <3>3, <3>4
  <2>2. CASE \E x \in Items : x.id = old.id /\ next.list = Deactivated([list EXCEPT ![i] = x], old.id)
    <3>1. PICK x \in Items : x.id = old.id /\ next.list = Deactivated([list EXCEPT ![i] = x], old.id)
      BY <2>2
    <3> DEFINE m == [list EXCEPT ![i] = x]
    <3>2. ListOK(m) /\ Len(m) = Len(list) /\ \A j \in 1 .. (i - 1) : m[j] = triggers[j]  BY <1>7, <3>1
    <3>3. i \in DOMAIN m /\ m[i].id = old.id  BY <1>3, <3>1
    <3>4. next.list = Deactivated(m, old.id)  BY <3>1
    <3> HIDE DEF m
    <3>5. next.list = Without(m, i)  BY <3>2, <3>3, <3>4, DeactivatedIs
    <3>6. /\ ListOK(next.list) /\ Len(next.list) = Len(list) - 1
          /\ \A j \in 1 .. (i - 1) : next.list[j] = m[j]
      BY <3>2, <3>3, <3>5, WithoutIs
    <3>7. Len(list) - 1 >= i - 1  BY <1>2, <1>3
    <3>8. QED  BY <3>2, <3>6, <3>7, Zenon
  <2>3. QED  BY <1>5, <2>1, <2>2
<1>9. /\ next.evaluated \in Seq(Ids) /\ Len(next.evaluated) = k + 1
      /\ \A j \in 1 .. (k + 1) : next.evaluated[j] = triggers[n + 1 - j].id
  <2> DEFINE fs == Append(es, old.id)
  <2>1. fs \in Seq(Ids) /\ Len(fs) = k + 1  BY <1>1, <1>4 DEF es
  <2>2. fs[k + 1] = old.id /\ \A j \in 1 .. k : fs[j] = es[j]  BY <1>1 DEF es
  <2>3. \A j \in 1 .. (k + 1) : j \in 1 .. k \/ (j = k + 1 /\ n + 1 - j = i)  BY <1>2 DEF i
  <2> HIDE DEF fs
  <2>4. \A j \in 1 .. k : es[j] = triggers[n + 1 - j].id  BY <1>1 DEF es
  <2> HIDE DEF n
  <2>5. \A j \in 1 .. (k + 1) : fs[j] = triggers[n + 1 - j].id  BY <1>4, <2>2, <2>3, <2>4
  <2>6. QED  BY <1>6, <2>1, <2>5 DEF fs
<1>10. i - 1 = n - (k + 1)  BY <1>2 DEF i
<1>11. QED  BY <1>8, <1>9, <1>10 DEF Walked, next, i, n

LEMMA TriggersWalked ==
  ASSUME ListOK(triggers), NEW ins, NEW drops
  PROVE  Walked(Len(triggers), TriggersDone(ins, drops))
<1> DEFINE n == Len(triggers)
           s == OrderOf(n)
<1>1. PICK t : t = [list |-> triggers, events |-> <<>>, evaluated |-> <<>>]  OBVIOUS
<1>2. PICK p : p = <<ins, drops>>  OBVIOUS
<1>3. p[1] = ins /\ p[2] = drops  BY <1>2
<1>4. n \in Nat /\ DOMAIN s = 1 .. n /\ \A i \in 1 .. n : s[i] = n + 1 - i  BY DEF ListOK, OrderOf
<1> HIDE DEF s
<1>5. TriggersDone(ins, drops) = FrameLoop!LoopOver(p, t, s)
  <2>1. TriggersDone(p[1], p[2]) = FrameLoop!LoopOver(p, t, s)
    BY <1>1, Zenon DEF TriggersDone, FrameBody, FoldLeft, MapThenFoldSet, Max, FrameLoop!LoopOver,
         FrameLoop!FoldLeft, FrameLoop!MapThenFoldSet, FrameLoop!Max, s
  <2>2. QED  BY <1>3, <2>1
<1>6. PICK x : FrameLoop!Run(p, t, s, n, x) /\ x[n] = FrameLoop!LoopOver(p, t, s)
  BY <1>4, FrameLoop!LoopRuns
<1> HIDE DEF n
<1>7. x[0] = t /\ \A i \in 1 .. n : x[i] = OneTrigger(x[i - 1], n + 1 - i, ins, drops)
  BY <1>3, <1>4, <1>6 DEF FrameLoop!Run, FrameBody
<1> DEFINE T == {i \in Nat : i <= n => Walked(i, x[i])}
<1>8. 0 \in T
  <2>1. t.list = triggers /\ t.evaluated = <<>>  BY <1>1
  <2>2. t.evaluated \in Seq(Ids) /\ Len(t.evaluated) = 0  BY <2>1
  <2>3. Walked(0, t)  BY <1>4, <2>1, <2>2 DEF Walked, n
  <2>4. QED  BY <1>7, <2>3
<1>9. ASSUME NEW i \in T  PROVE i + 1 \in T
  <2>1. i \in Nat  OBVIOUS
  <2>2. CASE i + 1 <= n
    <3>1. Walked(i, x[i])  BY <1>4, <2>1, <2>2
    <3>2. i + 1 \in 1 .. n /\ (i + 1) - 1 = i /\ n + 1 - (i + 1) = n - i  BY <1>4, <2>1, <2>2
    <3>3. x[i + 1] = OneTrigger(x[i], n - i, ins, drops)  BY <1>7, <3>2
    <3>4. Walked(i + 1, x[i + 1])  BY <2>1, <2>2, <3>1, <3>3, OneTriggerWalks DEF n
    <3>5. QED  BY <2>1, <3>4
  <2>3. QED  BY <2>1, <2>2
<1> HIDE DEF T
<1>10. T = Nat
  <2>1. T \in SUBSET Nat  BY DEF T
  <2>2. QED  BY <1>8, <1>9, <2>1, FrameLoop!Countdown
<1>11. n \in T /\ n <= n  BY <1>4, <1>10
<1>12. Walked(n, x[n])  BY <1>11 DEF T
<1>13. QED  BY <1>5, <1>6, <1>12 DEF n

-----------------------------------------------------------------------------
(* What is saved.                                                           *)

Running == States \ {"inactive", "triggered", "disabled"}
Kinds == {"achievement", "leaderboard"}
ItemChunks(kind) == [kind : {kind}, id : Ids, md5 : Versions, state : Running, hits : Int, measured : Int]
Names == (UNION {Range(VariablesOf[v]) : v \in Versions}) \cup {"flags", "value", "prior"}
NamedWords == [name : Names, v : Int]
VariableChunks == [kind : {"variables"}, count : Nat, words : Seq(NamedWords)]
OtherChunks == [kind : {"rich"}, md5 : Versions, hits : Int] \cup [kind : {"done"}]
Chunks == ItemChunks("achievement") \cup ItemChunks("leaderboard") \cup VariableChunks \cup OtherChunks

\* The words of the variables of the version v.
WordsOf(c, v) ==
  /\ v \in Versions /\ c.count = Len(VariablesOf[v]) /\ DOMAIN c.words = 1 .. (4 * c.count)
  /\ \A i \in 1 .. c.count :
        /\ c.words[4 * i - 3].name = VariablesOf[v][i]
        /\ c.words[4 * i - 2].name = "flags" /\ c.words[4 * i - 1].name = "value"
        /\ c.words[4 * i].name = "prior"

\* There is one chunk of an item, and variables come first.
BufferOK(b) ==
  /\ b \in Seq(Chunks)
  /\ \A i, j \in DOMAIN b :
        b[i].kind \in Kinds /\ b[i].kind = b[j].kind /\ b[i].id = b[j].id => i = j
  /\ \A i \in DOMAIN b : b[i].kind = "variables" => i = 1 /\ \E v \in Versions : WordsOf(b[i], v)

SaveBody(kind, chunks, t) == Saved(kind, chunks, t)
SaveLoop == INSTANCE Loops WITH Body <- SaveBody

\* What was saved of the first k items.
SavedUpTo(kind, list, k, cs) ==
  /\ cs \in Seq(ItemChunks(kind))
  /\ \A i \in DOMAIN cs : \E m \in 1 .. k : cs[i].id = list[m].id
  /\ \A i, j \in DOMAIN cs : cs[i].id = cs[j].id => i = j

LEMMA SavedIs ==
  ASSUME NEW kind, NEW list, ListOK(list), NEW k \in Nat, k + 1 \in DOMAIN list, NEW cs,
         SavedUpTo(kind, list, k, cs)
  PROVE  SavedUpTo(kind, list, k + 1, Saved(kind, cs, list[k + 1]))
<1> DEFINE t == list[k + 1]
           c == [kind |-> kind, id |-> t.id, md5 |-> t.md5, state |-> t.state,
                 hits |-> t.hits, measured |-> t.measured]
           n == Len(cs)
<1>1. t \in Items  BY DEF ListOK
<1>2. 1 .. k \subseteq 1 .. (k + 1) /\ k + 1 \in 1 .. (k + 1)  OBVIOUS
<1>3. CASE ~Active(t)
  <2>1. Saved(kind, cs, t) = cs  BY <1>3 DEF Saved
  <2>2. \A i \in DOMAIN cs : \E m \in 1 .. (k + 1) : cs[i].id = list[m].id  BY <1>2 DEF SavedUpTo
  <2>3. QED  BY <2>1, <2>2 DEF SavedUpTo
<1>4. CASE Active(t)
  <2>1. Saved(kind, cs, t) = Append(cs, c)  BY <1>4 DEF Saved
  <2>2. t.state \in Running  BY <1>1, <1>4 DEF Active, Running, Items, Shaped
  <2>3. c \in ItemChunks(kind) /\ c.id = t.id
    <3>1. t.id \in Ids /\ t.md5 \in Versions /\ t.hits \in Int /\ t.measured \in Int
      BY <1>1 DEF Items, Shaped
    <3>2. QED  BY <2>2, <3>1 DEF ItemChunks
  <2>4. cs \in Seq(ItemChunks(kind)) /\ n \in Nat /\ DOMAIN cs = 1 .. n  BY DEF SavedUpTo
  <2> HIDE DEF c
  <2> DEFINE ds == Append(cs, c)
  <2>5. ds \in Seq(ItemChunks(kind)) /\ DOMAIN ds = 1 .. (n + 1) /\ ds[n + 1] = c
        /\ \A i \in 1 .. n : ds[i] = cs[i]
    BY <2>3, <2>4
  <2>13. Saved(kind, cs, list[k + 1]) = ds  BY <2>1
  <2> HIDE DEF ds, n
  <2>6. \A i \in 1 .. (n + 1) : i \in 1 .. n \/ i = n + 1  BY <2>4
  <2>7. \A i \in 1 .. n : \E m \in 1 .. k : cs[i].id = list[m].id  BY <2>4 DEF SavedUpTo
  <2>8. \A i \in DOMAIN ds : \E m \in 1 .. (k + 1) : ds[i].id = list[m].id
    <3> SUFFICES ASSUME NEW i \in 1 .. (n + 1)  PROVE \E m \in 1 .. (k + 1) : ds[i].id = list[m].id
      BY <2>5
    <3>1. CASE i \in 1 .. n  BY <1>2, <2>5, <2>7, <3>1
    <3>2. CASE i = n + 1  BY <1>2, <2>3, <2>5, <3>2
    <3>3. QED  BY <2>6, <3>1, <3>2
  <2>9. ASSUME NEW i \in 1 .. n  PROVE cs[i].id # t.id
    <3>1. PICK m \in 1 .. k : cs[i].id = list[m].id  BY <2>7
    <3>2. m # k + 1 /\ m \in DOMAIN list
      <4>1. DOMAIN list = 1 .. Len(list) /\ Len(list) \in Nat  BY DEF ListOK
      <4>2. QED  BY <4>1
    <3>3. QED  BY <3>1, <3>2 DEF ListOK, Apart
  <2>10. \A i, j \in 1 .. n : cs[i].id = cs[j].id => i = j  BY <2>4 DEF SavedUpTo
  <2>11. \A i, j \in DOMAIN ds : ds[i].id = ds[j].id => i = j
    BY <2>3, <2>5, <2>6, <2>9, <2>10
  <2>14. SavedUpTo(kind, list, k + 1, ds)  BY <2>5, <2>8, <2>11 DEF SavedUpTo
  <2>12. QED  BY <2>13, <2>14
<1>5. QED  BY <1>3, <1>4

LEMMA ChunksOfIs ==
  ASSUME NEW kind, NEW list, ListOK(list)
  PROVE  /\ ChunksOf(kind, list) \in Seq(ItemChunks(kind))
         /\ \A i, j \in DOMAIN ChunksOf(kind, list) :
               ChunksOf(kind, list)[i].id = ChunksOf(kind, list)[j].id => i = j
<1> DEFINE n == Len(list)
<1>1. n \in Nat /\ DOMAIN list = 1 .. n  BY DEF ListOK
<1>2. PICK t : t = <<>>  OBVIOUS
<1>3. ChunksOf(kind, list) = SaveLoop!LoopOver(kind, t, list)
  BY <1>2, Zenon DEF ChunksOf, SaveBody, FoldLeft, MapThenFoldSet, Max, SaveLoop!LoopOver,
       SaveLoop!FoldLeft, SaveLoop!MapThenFoldSet, SaveLoop!Max
<1> HIDE DEF n
<1>4. PICK x : SaveLoop!Run(kind, t, list, n, x) /\ x[n] = SaveLoop!LoopOver(kind, t, list)
  BY <1>1, SaveLoop!LoopRuns
<1>5. x[0] = t /\ \A i \in 1 .. n : x[i] = Saved(kind, x[i - 1], list[i])
  BY <1>4 DEF SaveLoop!Run, SaveBody
<1> DEFINE T == {i \in Nat : i <= n => SavedUpTo(kind, list, i, x[i])}
<1>6. 0 \in T
  <2>1. t \in Seq(ItemChunks(kind)) /\ DOMAIN t = {}  BY <1>2
  <2>2. SavedUpTo(kind, list, 0, t)  BY <2>1 DEF SavedUpTo
  <2>3. QED  BY <1>5, <2>2
<1>7. ASSUME NEW i \in T  PROVE i + 1 \in T
  <2>1. i \in Nat  OBVIOUS
  <2>2. CASE i + 1 <= n
    <3>1. SavedUpTo(kind, list, i, x[i])  BY <1>1, <2>1, <2>2
    <3>2. i + 1 \in 1 .. n /\ (i + 1) - 1 = i  BY <1>1, <2>1, <2>2
    <3>3. x[i + 1] = Saved(kind, x[i], list[i + 1])  BY <1>5, <3>2
    <3>4. SavedUpTo(kind, list, i + 1, x[i + 1])  BY <1>1, <2>1, <3>1, <3>2, <3>3, SavedIs
    <3>5. QED  BY <2>1, <3>4
  <2>3. QED  BY <2>1, <2>2
<1> HIDE DEF T
<1>8. T = Nat
  <2>1. T \in SUBSET Nat  BY DEF T
  <2>2. QED  BY <1>6, <1>7, <2>1, SaveLoop!Countdown
<1>9. n \in T /\ n <= n  BY <1>1, <1>8
<1>10. SavedUpTo(kind, list, n, x[n])  BY <1>9 DEF T
<1>11. QED  BY <1>3, <1>4, <1>10 DEF SavedUpTo

-----------------------------------------------------------------------------
(* What is read.                                                            *)

HalfOK(list) == list \in Seq(HalfRead) /\ Apart(list)

LEMMA ReadIntoIs ==
  ASSUME NEW kind, NEW c \in ItemChunks(kind), NEW l, HalfOK(l)
  PROVE  /\ HalfOK(ReadInto(l, c)) /\ DOMAIN ReadInto(l, c) = DOMAIN l
         /\ \A i \in DOMAIN l :
               /\ ReadInto(l, c)[i].id = l[i].id /\ ReadInto(l, c)[i].md5 = l[i].md5
               /\ IF l[i].id = c.id /\ l[i].md5 = c.md5 /\ l[i].state = Unupdated
                  THEN ReadInto(l, c)[i].state = c.state /\ ReadInto(l, c)[i].hits = c.hits
                  ELSE ReadInto(l, c)[i] = l[i]
<1> DEFINE I == {i \in 1 .. Len(l) : l[i].id = c.id}
           n == SelectInSeq(l, LAMBDA t : t.id = c.id)
           r == ReadInto(l, c)
<1>1. l \in Seq(HalfRead) /\ Apart(l)  BY DEF HalfOK
<1>2. Len(l) \in Nat /\ DOMAIN l = 1 .. Len(l) /\ \A i \in DOMAIN l : l[i] \in HalfRead  BY <1>1
<1>3. n = IF I # {} THEN Min(I) ELSE 0  BY Zenon DEF SelectInSeq
<1>4. r = IF n # 0 /\ l[n].state = Unupdated /\ l[n].md5 = c.md5 THEN [l EXCEPT ![n] = Reloaded(l[n], c)] ELSE l
  BY DEF ReadInto
<1> HIDE DEF n, r
<1>5. IF I = {} THEN n = 0 ELSE n \in DOMAIN l /\ l[n].id = c.id
  <2>1. CASE I = {}  BY <1>3, <2>1
  <2>2. CASE I # {}
    <3>1. I \in SUBSET Nat  OBVIOUS
    <3>2. \E m \in I : \A j \in I : m <= j
      <4> HIDE DEF I
      <4>1. QED  BY <2>2, <3>1, DropLoop!Least
    <3>3. n = Min(I)  BY <1>3, <2>2
    <3> HIDE DEF I
    <3>4. n \in I  BY <3>2, <3>3 DEF Min
    <3>5. QED  BY <1>2, <2>2, <3>4 DEF I
  <2>3. QED  BY <2>1, <2>2
<1>6. \A i \in DOMAIN l : l[i].id = c.id => i = n
  <2>1. \A i \in DOMAIN l : l[i].id = c.id => I # {}  BY <1>2
  <2> HIDE DEF I
  <2>2. QED  BY <1>1, <1>5, <2>1 DEF Apart
<1> HIDE DEF I
<1>7. CASE n # 0 /\ l[n].state = Unupdated /\ l[n].md5 = c.md5
  <2>1. n \in DOMAIN l /\ l[n].id = c.id  BY <1>5, <1>7
  <2> DEFINE x == Reloaded(l[n], c)
  <2>2. x \in HalfRead /\ x.id = l[n].id /\ x.md5 = l[n].md5 /\ x.state = c.state /\ x.hits = c.hits
    <3>1. c.state \in States /\ c.hits \in Int /\ c.measured \in Int  BY DEF ItemChunks, Running
    <3>2. l[n] \in HalfRead /\ l[n].measured \in Int /\ l[n].hasHits \in BOOLEAN
      BY <1>2, <2>1 DEF HalfRead, Shaped
    <3>3. PICK m \in Int : m = IF c.kind = "achievement" THEN c.measured ELSE l[n].measured
      BY <3>1, <3>2
    <3>4. PICK t, s, h, b : t = l[n] /\ s = c.state /\ h = c.hits /\ b = l[n].hasHits  OBVIOUS
    <3>5. x = Put(t, s, h, m, b)  BY <3>3, <3>4 DEF Reloaded
    <3> HIDE DEF x
    <3>6. t \in HalfRead /\ s \in States /\ h \in Int /\ b \in BOOLEAN  BY <3>1, <3>2, <3>4
    <3>7. x \in Items /\ x.id = t.id /\ x.md5 = t.md5 /\ x.state = s /\ x.hits = h
      BY <3>5, <3>6, PutIs
    <3>8. QED  BY <3>4, <3>7, ItemsAreRead
  <2>3. r = [l EXCEPT ![n] = x]  BY <1>4, <1>7
  <2> HIDE DEF x
  <2>4. r \in Seq(HalfRead) /\ DOMAIN r = DOMAIN l  BY <1>1, <2>1, <2>2, <2>3
  <2>5. r[n] = x /\ \A i \in DOMAIN l : i # n => r[i] = l[i]  BY <1>2, <2>1, <2>3
  <2>6. \A i \in DOMAIN l : r[i].id = l[i].id /\ r[i].md5 = l[i].md5  BY <2>2, <2>5
  <2>7. Apart(r)  BY <1>1, <2>4, <2>6 DEF Apart
  <2>8. QED  BY <1>6, <1>7, <2>1, <2>2, <2>4, <2>5, <2>6, <2>7 DEF HalfOK, r
<1>8. CASE ~(n # 0 /\ l[n].state = Unupdated /\ l[n].md5 = c.md5)
  <2>1. r = l  BY <1>4, <1>8
  <2>2. ASSUME NEW i \in DOMAIN l, l[i].id = c.id, l[i].md5 = c.md5, l[i].state = Unupdated  PROVE FALSE
    <3>1. i = n /\ i # 0  BY <1>2, <1>6, <2>2
    <3>2. QED  BY <1>8, <2>2, <3>1
  <2>3. QED  BY <2>1, <2>2 DEF r
<1>9. QED  BY <1>7, <1>8

VarBody(p, acc, k) == ReadVariable(p[1], p[2].words, acc)
VarLoop == INSTANCE Loops WITH Body <- VarBody

Injective(names) == \A i, j \in DOMAIN names : names[i] = names[j] => i = j
\* Every variable that was saved is still there.
Known(c, names) == \A j \in 1 .. c.count : \E n \in DOMAIN names : names[n] = c.words[4 * j - 3].name

\* What has been read of the first k variables.
ReadSoFar(c, names, k, acc) ==
  /\ acc.at \in 1 .. (4 * k + 1)
  /\ acc.vars \in Seq(Int) /\ DOMAIN acc.vars = DOMAIN names
  /\ Known(c, names) =>
        /\ acc.at = 4 * k + 1
        /\ \A n \in acc.read : \E j \in 1 .. k : names[n] = c.words[4 * j - 3].name
        /\ \A j \in 1 .. k : \A n \in DOMAIN names :
              names[n] = c.words[4 * j - 3].name => n \in acc.read /\ acc.vars[n] = c.words[4 * j - 1].v

LEMMA VariableIs ==
  ASSUME NEW c \in VariableChunks, NEW v, WordsOf(c, v), Injective(VariablesOf[v]), NEW names,
         names \in Seq(Range(names)), Injective(names), NEW k \in Nat, k + 1 <= c.count,
         NEW acc, ReadSoFar(c, names, k, acc)
  PROVE  ReadSoFar(c, names, k + 1, ReadVariable(names, c.words, acc))
<1> DEFINE at == acc.at
           w == c.words[at].name
           I == {i \in 1 .. Len(names) : names[i] = w}
           n == SelectInSeq(names, LAMBDA name : name = w)
           next == ReadVariable(names, c.words, acc)
<1>1. c.words \in Seq(NamedWords) /\ DOMAIN c.words = 1 .. (4 * c.count) /\ c.count \in Nat
  BY DEF VariableChunks, WordsOf
<1>2. Len(names) \in Nat /\ DOMAIN names = 1 .. Len(names)  OBVIOUS
<1>3. /\ at \in 1 .. (4 * k + 1) /\ acc.vars \in Seq(Int) /\ DOMAIN acc.vars = DOMAIN names
  BY DEF ReadSoFar
<1>4. at + 2 \in 1 .. (4 * c.count)  BY SMTT(60), <1>1, <1>3
<1>5. c.words[at + 2].v \in Int
  <2>1. PICK q \in 1 .. (4 * c.count) : q = at + 2  BY <1>4
  <2>2. c.words[q] \in NamedWords  BY <1>1
  <2>3. c.words[q].v \in Int  BY <2>2 DEF NamedWords
  <2>4. QED  BY <2>1, <2>3
<1>6. n = IF I # {} THEN Min(I) ELSE 0  BY Zenon DEF SelectInSeq
<1>7. next = IF n = 0 \/ n \in acc.read THEN [at |-> at + 1, read |-> acc.read, vars |-> acc.vars]
             ELSE [at |-> at + 4, read |-> acc.read \cup {n}, vars |-> [acc.vars EXCEPT ![n] = c.words[at + 2].v]]
  BY Zenon DEF ReadVariable
<1> HIDE DEF next, n
<1>8. IF I = {} THEN n = 0 ELSE n \in DOMAIN names /\ names[n] = w
  <2>1. CASE I = {}  BY <1>6, <2>1
  <2>2. CASE I # {}
    <3>1. I \in SUBSET Nat  OBVIOUS
    <3>2. \E m \in I : \A j \in I : m <= j
      <4> HIDE DEF I
      <4>1. QED  BY <2>2, <3>1, DropLoop!Least
    <3>3. n = Min(I)  BY <1>6, <2>2
    <3> HIDE DEF I
    <3>4. n \in I  BY <3>2, <3>3 DEF Min
    <3>5. QED  BY <1>2, <2>2, <3>4 DEF I
  <2>3. QED  BY <2>1, <2>2
<1>9. \A i \in DOMAIN names : names[i] = w => i = n
  <2>1. \A i \in DOMAIN names : names[i] = w => I # {}  BY <1>2
  <2> HIDE DEF I
  <2>2. QED  BY <1>8, <2>1 DEF Injective
<1>10. n # 0 => n \in DOMAIN names /\ names[n] = w  BY <1>8
<1> DEFINE vs == [acc.vars EXCEPT ![n] = c.words[at + 2].v]
<1>11. n # 0 => vs \in Seq(Int) /\ DOMAIN vs = DOMAIN names /\ vs[n] = c.words[at + 2].v
                /\ \A i \in DOMAIN names : i # n => vs[i] = acc.vars[i]
  <2> SUFFICES ASSUME n # 0  PROVE vs \in Seq(Int) /\ DOMAIN vs = DOMAIN names /\ vs[n] = c.words[at + 2].v
                                   /\ \A i \in DOMAIN names : i # n => vs[i] = acc.vars[i]
    OBVIOUS
  <2>1. n \in DOMAIN acc.vars  BY <1>3, <1>10
  <2> HIDE DEF I, at
  <2>2. QED  BY <1>3, <1>5, <2>1
<1> HIDE DEF I, vs
<1>12. next.at \in 1 .. (4 * (k + 1) + 1) /\ next.vars \in Seq(Int) /\ DOMAIN next.vars = DOMAIN names
  <2>1. CASE n = 0 \/ n \in acc.read
    <3>1. next.at = at + 1 /\ next.vars = acc.vars  BY <1>7, <2>1
    <3>2. QED  BY <1>3, <3>1
  <2>2. CASE ~(n = 0 \/ n \in acc.read)
    <3>1. next.at = at + 4 /\ next.vars = vs  BY <1>7, <2>2 DEF vs
    <3>2. QED  BY SMTT(60), <1>3, <1>11, <2>2, <3>1
  <2>3. QED  BY <2>1, <2>2
<1>13. ASSUME Known(c, names)
       PROVE  /\ next.at = 4 * (k + 1) + 1
              /\ \A i \in next.read : \E j \in 1 .. (k + 1) : names[i] = c.words[4 * j - 3].name
              /\ \A j \in 1 .. (k + 1) : \A i \in DOMAIN names :
                    names[i] = c.words[4 * j - 3].name => i \in next.read /\ next.vars[i] = c.words[4 * j - 1].v
  <2> DEFINE W(j) == c.words[4 * j - 3].name
             V(j) == c.words[4 * j - 1].v
  <2>1. /\ at = 4 * k + 1
        /\ \A i \in acc.read : \E j \in 1 .. k : names[i] = W(j)
        /\ \A j \in 1 .. k : \A i \in DOMAIN names : names[i] = W(j) => i \in acc.read /\ acc.vars[i] = V(j)
    BY <1>13 DEF ReadSoFar
  <2>2. k + 1 \in 1 .. c.count /\ 4 * (k + 1) - 3 = 4 * k + 1 /\ 4 * (k + 1) - 1 = at + 2  BY SMTT(60), <1>1, <2>1
  <2>3. w = W(k + 1) /\ c.words[at + 2].v = V(k + 1)  BY <2>1, <2>2
  <2>4. \A i, j \in 1 .. c.count : W(i) = W(j) => i = j
    <3>1. \A i \in 1 .. c.count : W(i) = VariablesOf[v][i]  BY DEF WordsOf
    <3>2. v \in Versions /\ c.count = Len(VariablesOf[v])  BY DEF WordsOf
    <3>3. DOMAIN VariablesOf[v] = 1 .. c.count  BY <3>2, RuntimeAssumption
    <3> HIDE DEF W
    <3>4. QED  BY <3>1, <3>3 DEF Injective
  <2> HIDE DEF w, W, V
  <2>5. n # 0 /\ n \in DOMAIN names /\ names[n] = W(k + 1)
    <3>1. PICK i \in DOMAIN names : names[i] = W(k + 1)  BY <1>13, <2>2 DEF Known, W
    <3>2. i = n /\ i # 0  BY <1>2, <1>9, <2>3, <3>1
    <3>3. QED  BY <3>1, <3>2
  <2>6. n \notin acc.read
    <3>1. ASSUME n \in acc.read  PROVE FALSE
      <4>1. PICK j \in 1 .. k : names[n] = W(j)  BY <2>1, <3>1
      <4>4. c.count \in Nat /\ k + 1 <= c.count /\ k \in Nat  BY <1>1
      <4>5. \A i \in 1 .. k : i \in 1 .. c.count /\ i # k + 1  BY <4>4
      <4>2. j \in 1 .. c.count /\ j # k + 1  BY <4>1, <4>5
      <4>3. QED  BY <2>2, <2>4, <2>5, <4>1, <4>2
    <3>2. QED  BY <3>1
  <2>7. next.at = at + 4 /\ next.read = acc.read \cup {n} /\ next.vars = vs  BY <1>7, <2>5, <2>6 DEF vs
  <2>8. next.at = 4 * (k + 1) + 1  BY <2>1, <2>7
  <2>9. \A j \in 1 .. (k + 1) : j \in 1 .. k \/ j = k + 1  OBVIOUS
  <2>10. 1 .. k \subseteq 1 .. (k + 1) /\ k + 1 \in 1 .. (k + 1)  OBVIOUS
  <2>11. \A i \in next.read : \E j \in 1 .. (k + 1) : names[i] = W(j)  BY <2>1, <2>5, <2>7, <2>10
  <2>12. ASSUME NEW j \in 1 .. (k + 1), NEW i \in DOMAIN names, names[i] = W(j)
         PROVE  i \in next.read /\ next.vars[i] = V(j)
    <3>1. CASE j = k + 1
      <4>1. i = n  BY <2>5, <2>12, <3>1 DEF Injective
      <4>2. QED  BY <1>11, <2>3, <2>5, <2>7, <3>1, <4>1
    <3>2. CASE j \in 1 .. k
      <4>1. i \in acc.read /\ acc.vars[i] = V(j)  BY <2>1, <2>12, <3>2
      <4>2. i # n  BY <2>6, <4>1
      <4>3. QED  BY <1>11, <2>5, <2>7, <4>1, <4>2
    <3>3. QED  BY <2>9, <3>1, <3>2
  <2>13. QED  BY <2>8, <2>11, <2>12 DEF W, V
<1>14. QED  BY <1>12, <1>13 DEF ReadSoFar, next

LEMMA VariablesAre ==
  ASSUME NEW c \in VariableChunks, NEW v, WordsOf(c, v), Injective(VariablesOf[v]), NEW names,
         names \in Seq(Range(names)), Injective(names), NEW vars \in Seq(Int), DOMAIN vars = DOMAIN names
  PROVE  /\ ReadVariables(vars, names, c) \in Seq(Int)
         /\ DOMAIN ReadVariables(vars, names, c) = DOMAIN names
         /\ Known(c, names) =>
               \A j \in 1 .. c.count : \A n \in DOMAIN names :
                  names[n] = c.words[4 * j - 3].name => ReadVariables(vars, names, c)[n] = c.words[4 * j - 1].v
<1> DEFINE m == c.count
<1>1. PICK p : p = <<names, c>>  OBVIOUS
<1>2. p[1] = names /\ p[2] = c  BY <1>1
<1>3. PICK t : t = [at |-> 1, read |-> {}, vars |-> vars]  OBVIOUS
<1>4. m \in Nat  BY DEF VariableChunks
<1> DEFINE done == VarLoop!Loop(p, t, m)
           full == VarLoop!Loop(p, [at |-> 1, read |-> {}, vars |-> vars], p[2].count)
<1>5. ReadVariables(vars, names, c) = [n \in DOMAIN vars |-> IF n \in done.read THEN done.vars[n] ELSE 0]
  <2>1. ReadVariables(vars, p[1], p[2]) = [n \in DOMAIN vars |-> IF n \in full.read THEN full.vars[n] ELSE 0]
    BY Zenon DEF VarBody, FoldLeft, MapThenFoldSet, Max, VarLoop!Loop,
                 VarLoop!FoldLeft, VarLoop!MapThenFoldSet, VarLoop!Max, ReadVariables
  <2>2. full = done  BY <1>2, <1>3
  <2> HIDE DEF full, done
  <2>3. QED  BY <1>2, <2>1, <2>2, Zenon
<1> DEFINE s == [i \in 1 .. m |-> i]
<1>6. DOMAIN s = 1 .. m /\ (\A i \in 1 .. m : s[i] = i) /\ done = VarLoop!LoopOver(p, t, s)
  BY DEF VarLoop!Loop, VarLoop!LoopOver
<1> HIDE DEF s, done, m
<1>7. PICK x : VarLoop!Run(p, t, s, m, x) /\ x[m] = done  BY <1>4, <1>6, VarLoop!LoopRuns
<1>8. x[0] = t /\ \A i \in 1 .. m : x[i] = ReadVariable(names, c.words, x[i - 1])
  BY <1>2, <1>6, <1>7 DEF VarLoop!Run, VarBody
<1> DEFINE T == {i \in Nat : i <= m => ReadSoFar(c, names, i, x[i])}
<1>9. 0 \in T
  <2>1. t.at = 1 /\ t.read = {} /\ t.vars = vars  BY <1>3
  <2>2. ReadSoFar(c, names, 0, t)  BY <2>1 DEF ReadSoFar
  <2>3. QED  BY <1>8, <2>2
<1>10. ASSUME NEW i \in T  PROVE i + 1 \in T
  <2>1. i \in Nat  OBVIOUS
  <2>2. CASE i + 1 <= m
    <3>1. ReadSoFar(c, names, i, x[i])  BY <1>4, <2>1, <2>2
    <3>2. i + 1 \in 1 .. m /\ (i + 1) - 1 = i /\ i + 1 <= c.count  BY <1>4, <2>1, <2>2 DEF m
    <3>3. x[i + 1] = ReadVariable(names, c.words, x[i])  BY <1>8, <3>2
    <3>4. ReadSoFar(c, names, i + 1, x[i + 1])  BY <2>1, <3>1, <3>2, <3>3, VariableIs
    <3>5. QED  BY <2>1, <3>4
  <2>3. QED  BY <2>1, <2>2
<1> HIDE DEF T
<1>11. T = Nat
  <2>1. T \in SUBSET Nat  BY DEF T
  <2>2. QED  BY <1>9, <1>10, <2>1, VarLoop!Countdown
<1>12. m \in T /\ m <= m  BY <1>4, <1>11
<1>13. ReadSoFar(c, names, m, done)  BY <1>7, <1>12 DEF T
<1> DEFINE r == [n \in DOMAIN vars |-> IF n \in done.read THEN done.vars[n] ELSE 0]
<1>14. done.vars \in Seq(Int) /\ DOMAIN done.vars = DOMAIN names  BY <1>13 DEF ReadSoFar
<1>15. r \in Seq(Int) /\ DOMAIN r = DOMAIN names
  <2>1. \A n \in DOMAIN vars : done.vars[n] \in Int  BY <1>14
  <2>2. QED  BY <2>1
<1>16. ASSUME Known(c, names), NEW j \in 1 .. m, NEW n \in DOMAIN names, names[n] = c.words[4 * j - 3].name
       PROVE  r[n] = c.words[4 * j - 1].v
  <2>1. n \in done.read /\ done.vars[n] = c.words[4 * j - 1].v  BY <1>13, <1>16 DEF ReadSoFar
  <2>2. QED  BY <2>1
<1> HIDE DEF r
<1>17. ReadVariables(vars, names, c) = r  BY <1>5 DEF r
<1>18. QED  BY <1>15, <1>16, <1>17 DEF m

-----------------------------------------------------------------------------
(* The buffer.                                                              *)

RichOK(r) ==
  /\ r = [md5 |-> r.md5, hits |-> r.hits, vars |-> r.vars]
  /\ r.md5 \in Versions \cup {0} /\ r.hits \in Int /\ r.vars \in Seq(Int)
  /\ IF r.md5 = 0 THEN r.vars = <<>> ELSE DOMAIN r.vars = DOMAIN VariablesOf[r.md5]

LEMMA VariablesAreNamed ==
  ASSUME NEW v \in Versions
  PROVE  /\ VariablesOf[v] \in Seq(Range(VariablesOf[v])) /\ Injective(VariablesOf[v])
         /\ Len(VariablesOf[v]) \in Nat /\ DOMAIN VariablesOf[v] = 1 .. Len(VariablesOf[v])
         /\ \A i \in DOMAIN VariablesOf[v] : /\ VariablesOf[v][i] \in Names
                                             /\ VariablesOf[v][i] \notin {"flags", "value", "prior"}
<1> DEFINE names == VariablesOf[v]
<1>1. names \in Seq(Range(names)) /\ Range(names) \cap {"flags", "value", "prior"} = {} /\ Injective(names)
  BY RuntimeAssumption DEF Injective
<1>2. \A i \in DOMAIN names : names[i] \in Range(names)  BY DEF Range
<1>3. Range(names) \subseteq Names  BY DEF Names
<1> HIDE DEF names
<1>4. Len(names) \in Nat /\ DOMAIN names = 1 .. Len(names)  BY <1>1
<1>5. QED  BY <1>1, <1>2, <1>3, <1>4 DEF names

LEMMA ItIsTheWord ==
  ASSUME NEW m \in Nat, NEW i \in 1 .. m
  PROVE  /\ 4 * i - 3 \in 1 .. (4 * m) /\ (4 * i - 3 - 1) \div 4 + 1 = i /\ (4 * i - 3 - 1) % 4 = 0
         /\ 4 * i - 2 \in 1 .. (4 * m) /\ (4 * i - 2 - 1) \div 4 + 1 = i /\ (4 * i - 2 - 1) % 4 = 1
         /\ 4 * i - 1 \in 1 .. (4 * m) /\ (4 * i - 1 - 1) \div 4 + 1 = i /\ (4 * i - 1 - 1) % 4 = 2
         /\ 4 * i \in 1 .. (4 * m) /\ (4 * i - 1) \div 4 + 1 = i /\ (4 * i - 1) % 4 = 3
OBVIOUS

LEMMA WordIsOf ==
  ASSUME NEW m \in Nat, NEW n \in 1 .. (4 * m)
  PROVE  /\ (n - 1) \div 4 + 1 \in 1 .. m /\ (n - 1) % 4 \in 0 .. 3
         /\ n = 4 * ((n - 1) \div 4 + 1) - 3 + ((n - 1) % 4)
OBVIOUS

LEMMA VariableWordsAre ==
  ASSUME RichOK(rich), rich.vars # <<>>
  PROVE  LET c == [kind |-> "variables", count |-> Len(rich.vars), words |-> VariableWords]
         IN c \in VariableChunks /\ WordsOf(c, rich.md5)
<1> DEFINE c == [kind |-> "variables", count |-> Len(rich.vars), words |-> VariableWords]
           m == Len(rich.vars)
           word(i, k) == CASE k = 0 -> [name |-> VariablesOf[rich.md5][i], v |-> 0]
                           [] k = 1 -> [name |-> "flags", v |-> 0]
                           [] k = 2 -> [name |-> "value", v |-> rich.vars[i]]
                           [] k = 3 -> [name |-> "prior", v |-> 0]
<1>1. /\ rich.md5 \in Versions /\ rich.vars \in Seq(Int) /\ DOMAIN rich.vars = DOMAIN VariablesOf[rich.md5]
      /\ m \in Nat /\ DOMAIN rich.vars = 1 .. m
  BY DEF RichOK
<1>2. /\ m = Len(VariablesOf[rich.md5])
      /\ \A i \in 1 .. m : VariablesOf[rich.md5][i] \in Names
  <2> DEFINE names == VariablesOf[rich.md5]
  <2>1. Len(names) \in Nat /\ DOMAIN names = 1 .. Len(names) /\ \A i \in DOMAIN names : names[i] \in Names
    BY <1>1, VariablesAreNamed
  <2> HIDE DEF names, m
  <2>2. 1 .. m = 1 .. Len(names)  BY <1>1, <2>1 DEF names
  <2>3. m = Len(names)  BY <1>1, <2>1, <2>2
  <2>4. QED  BY <2>1, <2>2, <2>3 DEF names
<1>3. VariableWords = [n \in 1 .. (4 * m) |-> word((n - 1) \div 4 + 1, (n - 1) % 4)]
  BY DEF VariableWords
<1>4. "flags" \in Names /\ "value" \in Names /\ "prior" \in Names  BY DEF Names
<1>5. \A i \in 1 .. m : rich.vars[i] \in Int  BY <1>1
<1>6. ASSUME NEW i \in 1 .. m, NEW k \in 0 .. 3  PROVE word(i, k) \in NamedWords
  BY <1>2, <1>4, <1>5 DEF NamedWords
<1> HIDE DEF m, word
<1>7. VariableWords \in Seq(NamedWords) /\ DOMAIN VariableWords = 1 .. (4 * m)
  <2>1. \A n \in 1 .. (4 * m) : word((n - 1) \div 4 + 1, (n - 1) % 4) \in NamedWords
    BY <1>1, <1>6, WordIsOf
  <2>2. QED  BY <1>1, <1>3, <2>1
<1>8. ASSUME NEW i \in 1 .. m
      PROVE  /\ VariableWords[4 * i - 3].name = VariablesOf[rich.md5][i]
             /\ VariableWords[4 * i - 2].name = "flags" /\ VariableWords[4 * i - 1].name = "value"
             /\ VariableWords[4 * i].name = "prior"
  <2>1. /\ VariableWords[4 * i - 3] = word(i, 0) /\ VariableWords[4 * i - 2] = word(i, 1)
        /\ VariableWords[4 * i - 1] = word(i, 2) /\ VariableWords[4 * i] = word(i, 3)
    BY <1>1, <1>3, ItIsTheWord
  <2>2. QED  BY <2>1 DEF word
<1>9. c.kind = "variables" /\ c.count = m /\ c.words = VariableWords  BY DEF m
<1>10. c \in VariableChunks  BY <1>1, <1>7 DEF VariableChunks, m
<1> HIDE DEF c
<1>11. WordsOf(c, rich.md5)  BY <1>1, <1>2, <1>7, <1>8, <1>9 DEF WordsOf
<1>12. QED  BY <1>10, <1>11 DEF c

\* Chunks of the kinds K.
ChunksIn(s, K) ==
  /\ s \in Seq(Chunks) /\ \A i \in DOMAIN s : s[i].kind \in K
  /\ \A i, j \in DOMAIN s :
        s[i].kind \in Kinds /\ s[i].kind = s[j].kind /\ s[i].id = s[j].id => i = j
  /\ \A i \in DOMAIN s : s[i].kind = "variables" => i = 1 /\ \E v \in Versions : WordsOf(s[i], v)

LEMMA JoinedChunks ==
  ASSUME NEW K, NEW L, K \cap L = {}, "variables" \notin L, NEW s, ChunksIn(s, K), NEW t, ChunksIn(t, L)
  PROVE  ChunksIn(s \o t, K \cup L)
<1> DEFINE m == Len(s)
           n == Len(t)
           r == s \o t
<1>1. /\ s \in Seq(Chunks) /\ t \in Seq(Chunks) /\ m \in Nat /\ n \in Nat /\ DOMAIN s = 1 .. m /\ DOMAIN t = 1 .. n
      /\ (\A i \in 1 .. m : s[i].kind \in K) /\ \A i \in 1 .. n : t[i].kind \in L
  BY DEF ChunksIn
<1>2. r \in Seq(Chunks) /\ DOMAIN r = 1 .. (m + n)  BY <1>1
<1>3. \A i \in 1 .. (m + n) : (i \in 1 .. m /\ r[i] = s[i]) \/ (i - m \in 1 .. n /\ r[i] = t[i - m])
  <2>1. \A i \in 1 .. (m + n) : i \in 1 .. m \/ i - m \in 1 .. n  BY <1>1
  <2>2. \A i \in 1 .. m : r[i] = s[i]  BY <1>1
  <2>3. \A i \in 1 .. (m + n) : i - m \in 1 .. n => r[i] = t[i - m]  BY <1>1
  <2> HIDE DEF r
  <2>4. QED  BY <2>1, <2>2, <2>3
<1> HIDE DEF r, m, n
<1>4. \A i \in DOMAIN r : r[i].kind \in K \cup L  BY <1>1, <1>2, <1>3
<1>5. ASSUME NEW i \in 1 .. (m + n), NEW j \in 1 .. (m + n), r[i].kind \in Kinds, r[i].kind = r[j].kind,
             r[i].id = r[j].id
      PROVE  i = j
  <2>1. CASE i \in 1 .. m /\ r[i] = s[i]
    <3>1. r[j].kind \notin L  BY <1>1, <1>5, <2>1
    <3>2. j \in 1 .. m /\ r[j] = s[j]  BY <1>1, <1>3, <3>1
    <3>3. QED  BY <1>1, <1>5, <2>1, <3>2 DEF ChunksIn
  <2>2. CASE i - m \in 1 .. n /\ r[i] = t[i - m]
    <3>1. r[j].kind \notin K  BY <1>1, <1>5, <2>2
    <3>2. j - m \in 1 .. n /\ r[j] = t[j - m]  BY <1>1, <1>3, <3>1
    <3>3. i - m = j - m  BY <1>1, <1>5, <2>2, <3>2 DEF ChunksIn
    <3>4. QED  BY <1>1, <3>3
  <2>3. QED  BY <1>3, <2>1, <2>2
<1>6. ASSUME NEW i \in 1 .. (m + n), r[i].kind = "variables"
      PROVE  i = 1 /\ \E v \in Versions : WordsOf(r[i], v)
  <2>1. i \in 1 .. m /\ r[i] = s[i]  BY <1>1, <1>3, <1>6
  <2>2. QED  BY <1>1, <1>6, <2>1 DEF ChunksIn
<1>7. QED  BY <1>2, <1>4, <1>5, <1>6 DEF ChunksIn, r

\* A part of the buffer of at most one chunk.
LEMMA OneChunk ==
  ASSUME NEW K, NEW c \in Chunks, c.kind \in K, c.kind = "variables" => \E v \in Versions : WordsOf(c, v)
  PROVE  ChunksIn(<<c>>, K)
<1>1. <<c>> \in Seq(Chunks) /\ DOMAIN <<c>> = {1} /\ <<c>>[1] = c  OBVIOUS
<1>2. PICK s : s = <<c>>  OBVIOUS
<1>3. s \in Seq(Chunks) /\ DOMAIN s = {1} /\ s[1] = c  BY <1>1, <1>2
<1>4. ChunksIn(s, K)  BY <1>3 DEF ChunksIn
<1>5. QED  BY <1>2, <1>4

LEMMA NoChunk == ASSUME NEW K  PROVE ChunksIn(<<>>, K)
<1>1. PICK s : s = <<>>  OBVIOUS
<1>2. s \in Seq(Chunks) /\ DOMAIN s = {}  BY <1>1
<1>3. ChunksIn(s, K)  BY <1>2 DEF ChunksIn
<1>4. QED  BY <1>1, <1>3

LEMMA ItemsSaved ==
  ASSUME NEW kind \in Kinds, NEW list, ListOK(list)
  PROVE  ChunksIn(ChunksOf(kind, list), {kind})
<1>1. PICK s : s = ChunksOf(kind, list)  OBVIOUS
<1>2. s \in Seq(ItemChunks(kind)) /\ \A i, j \in DOMAIN s : s[i].id = s[j].id => i = j
  BY <1>1, ChunksOfIs
<1>3. ItemChunks(kind) \subseteq Chunks  BY DEF Kinds, Chunks
<1>4. s \in Seq(Chunks)  BY <1>2, <1>3
<1>5. \A i \in DOMAIN s : s[i].kind = kind
  <2>1. \A c \in ItemChunks(kind) : c.kind = kind  BY DEF ItemChunks
  <2>2. \A i \in DOMAIN s : s[i] \in ItemChunks(kind)
    <3> HIDE DEF Kinds
    <3>1. QED  BY <1>2
  <2>3. QED  BY <2>1, <2>2
<1>6. kind # "variables"  BY DEF Kinds
<1>7. ChunksIn(s, {kind})  BY <1>2, <1>4, <1>5, <1>6 DEF ChunksIn
<1>8. QED  BY <1>1, <1>7

LEMMA SerializedOK ==
  ASSUME ListOK(triggers), ListOK(lboards), RichOK(rich)
  PROVE  BufferOK(Serialized)
<1> DEFINE v == IF rich.vars = <<>> THEN <<>>
                ELSE <<[kind |-> "variables", count |-> Len(rich.vars), words |-> VariableWords]>>
           a == ChunksOf("achievement", triggers)
           b == ChunksOf("leaderboard", lboards)
           r == IF rich.md5 = 0 THEN <<>> ELSE <<[kind |-> "rich", md5 |-> rich.md5, hits |-> rich.hits]>>
           d == <<[kind |-> "done"]>>
<1>1. ChunksIn(v, {"variables"})
  <2>1. CASE rich.vars = <<>>  BY <2>1, NoChunk
  <2>2. CASE rich.vars # <<>>
    <3> DEFINE c == [kind |-> "variables", count |-> Len(rich.vars), words |-> VariableWords]
    <3>1. c \in VariableChunks /\ WordsOf(c, rich.md5) /\ rich.md5 \in Versions
      <4>1. c \in VariableChunks /\ WordsOf(c, rich.md5)  BY <2>2, VariableWordsAre
      <4> HIDE DEF c
      <4>2. QED  BY <4>1 DEF WordsOf
    <3>2. v = <<c>>  BY <2>2
    <3> HIDE DEF c
    <3>3. c \in Chunks /\ c.kind \in {"variables"}  BY <3>1 DEF Chunks, VariableChunks
    <3>4. ChunksIn(<<c>>, {"variables"})  BY <3>1, <3>3, OneChunk
    <3>5. QED  BY <3>2, <3>4
  <2>3. QED  BY <2>1, <2>2
<1>2. ChunksIn(a, {"achievement"}) /\ ChunksIn(b, {"leaderboard"})  BY ItemsSaved DEF Kinds
<1>3. ChunksIn(r, {"rich"})
  <2>1. CASE rich.md5 = 0  BY <2>1, NoChunk
  <2>2. CASE rich.md5 # 0
    <3> DEFINE c == [kind |-> "rich", md5 |-> rich.md5, hits |-> rich.hits]
    <3>1. r = <<c>>  BY <2>2
    <3>2. c \in Chunks /\ c.kind = "rich"  BY <2>2 DEF RichOK, Chunks, OtherChunks
    <3> HIDE DEF c
    <3>4. ChunksIn(<<c>>, {"rich"})  BY <3>2, OneChunk
    <3>5. QED  BY <3>1, <3>4
  <2>3. QED  BY <2>1, <2>2
<1>4. ChunksIn(d, {"done"})
  <2> DEFINE c == [kind |-> "done"]
  <2>1. c \in Chunks /\ c.kind = "done"  BY DEF Chunks, OtherChunks
  <2>2. d = <<c>>  OBVIOUS
  <2> HIDE DEF c
  <2>3. ChunksIn(<<c>>, {"done"})  BY <2>1, OneChunk
  <2>4. QED  BY <2>2, <2>3
<1>5. Serialized = v \o a \o b \o r \o d  BY DEF Serialized
<1> HIDE DEF v, a, b, r, d
<1>6. PICK V, A, B, R, D : V = {"variables"} /\ A = {"achievement"} /\ B = {"leaderboard"} /\ R = {"rich"} /\ D = {"done"}
  OBVIOUS
<1>7. ChunksIn(v \o a, V \cup A)  BY <1>1, <1>2, <1>6, JoinedChunks
<1>8. ChunksIn(v \o a \o b, V \cup A \cup B)
  <2>1. (V \cup A) \cap B = {} /\ "variables" \notin B  BY <1>6
  <2>2. ChunksIn(b, B)  BY <1>2, <1>6
  <2>3. QED  BY <1>7, <2>1, <2>2, JoinedChunks
<1>9. ChunksIn(v \o a \o b \o r, V \cup A \cup B \cup R)
  <2>1. (V \cup A \cup B) \cap R = {} /\ "variables" \notin R  BY <1>6
  <2>2. ChunksIn(r, R)  BY <1>3, <1>6
  <2>3. QED  BY <1>8, <2>1, <2>2, JoinedChunks
<1>10. ChunksIn(v \o a \o b \o r \o d, V \cup A \cup B \cup R \cup D)
  <2>1. (V \cup A \cup B \cup R) \cap D = {} /\ "variables" \notin D  BY <1>6
  <2>2. ChunksIn(d, D)  BY <1>4, <1>6
  <2>3. QED  BY <1>9, <2>1, <2>2, JoinedChunks
<1>11. QED  BY <1>5, <1>10 DEF ChunksIn, BufferOK

LEMMA CutBuffer ==
  ASSUME NEW b, BufferOK(b), NEW m \in 0 .. Len(b)
  PROVE  /\ BufferOK(SubSeq(b, 1, m)) /\ DOMAIN SubSeq(b, 1, m) = 1 .. m
         /\ \A i \in 1 .. m : i \in DOMAIN b /\ SubSeq(b, 1, m)[i] = b[i]
<1> DEFINE s == SubSeq(b, 1, m)
<1>1. b \in Seq(Chunks) /\ Len(b) \in Nat /\ DOMAIN b = 1 .. Len(b)  BY DEF BufferOK
<1>2. s \in Seq(Chunks) /\ DOMAIN s = 1 .. m /\ \A i \in 1 .. m : i \in DOMAIN b /\ s[i] = b[i]  BY <1>1
<1> HIDE DEF s
<1>3. BufferOK(s)  BY <1>2 DEF BufferOK
<1>4. QED  BY <1>2, <1>3 DEF s

-----------------------------------------------------------------------------
(* Progress is read.                                                        *)

Matches(c, kind, t) == c.kind = kind /\ c.id = t.id /\ c.md5 = t.md5

\* What has become of a list when k chunks are read.
ItemsRead(kind, list, cs, k, now) ==
  /\ HalfOK(now) /\ DOMAIN now = DOMAIN list
  /\ \A i \in DOMAIN list :
        /\ now[i].id = list[i].id /\ now[i].md5 = list[i].md5
        /\ list[i].state # Unupdated => now[i] = list[i]
        /\ (list[i].state = Unupdated /\ \A m \in 1 .. k : ~Matches(cs[m], kind, list[i])) => now[i].state = Unupdated
        /\ \A m \in 1 .. k :
              list[i].state = Unupdated /\ Matches(cs[m], kind, list[i])
                => now[i].state = cs[m].state /\ now[i].hits = cs[m].hits

LEMMA ChunkOfAnItem ==
  ASSUME NEW kind \in Kinds, NEW c \in Chunks, c.kind = kind
  PROVE  c \in ItemChunks(kind)
<1>1. \A x \in VariableChunks \cup OtherChunks : x.kind \notin Kinds
  BY DEF VariableChunks, OtherChunks, Kinds
<1>2. \A x \in ItemChunks("achievement") : x.kind = "achievement"  BY DEF ItemChunks
<1>3. \A x \in ItemChunks("leaderboard") : x.kind = "leaderboard"  BY DEF ItemChunks
<1>4. kind = "achievement" \/ kind = "leaderboard"  BY DEF Kinds
<1>5. QED  BY <1>1, <1>2, <1>3, <1>4 DEF Chunks

LEMMA ItemChunkRead ==
  ASSUME NEW kind \in Kinds, NEW cs, BufferOK(cs), NEW k \in Nat, k + 1 \in DOMAIN cs, NEW list, NEW now,
         ItemsRead(kind, list, cs, k, now)
  PROVE  ItemsRead(kind, list, cs, k + 1,
                   IF cs[k + 1].kind = kind THEN ReadInto(now, cs[k + 1]) ELSE now)
<1> DEFINE c == cs[k + 1]
           next == IF c.kind = kind THEN ReadInto(now, c) ELSE now
<1>1. c \in Chunks /\ DOMAIN cs = 1 .. Len(cs) /\ Len(cs) \in Nat  BY DEF BufferOK
<1>2. HalfOK(now) /\ DOMAIN now = DOMAIN list  BY DEF ItemsRead
<1>3. /\ HalfOK(next) /\ DOMAIN next = DOMAIN list
      /\ \A i \in DOMAIN list :
            /\ next[i].id = now[i].id /\ next[i].md5 = now[i].md5
            /\ IF Matches(c, kind, now[i]) /\ now[i].state = Unupdated
               THEN next[i].state = c.state /\ next[i].hits = c.hits
               ELSE next[i] = now[i]
  <2> HIDE DEF c
  <2>1. CASE c.kind = kind
    <3>1. c \in ItemChunks(kind)  BY <1>1, <2>1, ChunkOfAnItem
    <3>2. next = ReadInto(now, c)  BY <2>1
    <3> HIDE DEF next
    <3>3. HalfOK(next) /\ DOMAIN next = DOMAIN list  BY <1>2, <3>1, <3>2, ReadIntoIs
    <3>4. \A i \in DOMAIN list :
            /\ next[i].id = now[i].id /\ next[i].md5 = now[i].md5
            /\ IF now[i].id = c.id /\ now[i].md5 = c.md5 /\ now[i].state = Unupdated
               THEN next[i].state = c.state /\ next[i].hits = c.hits
               ELSE next[i] = now[i]
      BY <1>2, <3>1, <3>2, ReadIntoIs
    <3>5. QED  BY <2>1, <3>3, <3>4 DEF Matches
  <2>2. CASE c.kind # kind  BY <1>2, <2>2 DEF Matches
  <2>3. QED  BY <2>1, <2>2
<1> HIDE DEF next, c
<1>4. 1 .. k \subseteq 1 .. (k + 1) /\ k + 1 \in 1 .. (k + 1) /\ \A m \in 1 .. (k + 1) : m \in 1 .. k \/ m = k + 1
  OBVIOUS
<1>5. \A m \in 1 .. k : m \in DOMAIN cs /\ m # k + 1  BY <1>1
<1>6. ASSUME NEW i \in DOMAIN list
      PROVE  /\ next[i].id = list[i].id /\ next[i].md5 = list[i].md5
             /\ list[i].state # Unupdated => next[i] = list[i]
             /\ (list[i].state = Unupdated /\ \A m \in 1 .. (k + 1) : ~Matches(cs[m], kind, list[i]))
                   => next[i].state = Unupdated
             /\ \A m \in 1 .. (k + 1) :
                   list[i].state = Unupdated /\ Matches(cs[m], kind, list[i])
                     => next[i].state = cs[m].state /\ next[i].hits = cs[m].hits
  <2>1. /\ now[i].id = list[i].id /\ now[i].md5 = list[i].md5
        /\ list[i].state # Unupdated => now[i] = list[i]
        /\ (list[i].state = Unupdated /\ \A m \in 1 .. k : ~Matches(cs[m], kind, list[i]))
              => now[i].state = Unupdated
        /\ \A m \in 1 .. k :
              list[i].state = Unupdated /\ Matches(cs[m], kind, list[i])
                => now[i].state = cs[m].state /\ now[i].hits = cs[m].hits
    BY DEF ItemsRead
  <2>2. \A x : Matches(x, kind, now[i]) <=> Matches(x, kind, list[i])  BY <2>1 DEF Matches
  <2>3. /\ next[i].id = now[i].id /\ next[i].md5 = now[i].md5
        /\ IF Matches(c, kind, list[i]) /\ now[i].state = Unupdated
           THEN next[i].state = c.state /\ next[i].hits = c.hits
           ELSE next[i] = now[i]
    BY <1>3, <2>2
  <2>4. CASE Matches(c, kind, list[i])
    <3>1. ASSUME NEW m \in 1 .. k  PROVE ~Matches(cs[m], kind, list[i])
      <4>1. SUFFICES ASSUME Matches(cs[m], kind, list[i])  PROVE FALSE
        OBVIOUS
      <4>2. cs[m].kind = cs[k + 1].kind /\ cs[m].id = cs[k + 1].id /\ cs[m].kind \in Kinds
        BY <2>4, <4>1 DEF Matches, c
      <4>3. QED  BY <1>5, <4>2 DEF BufferOK
    <3>2. list[i].state = Unupdated => now[i].state = Unupdated  BY <2>1, <3>1
    <3>3. ASSUME NEW m \in 1 .. (k + 1), list[i].state = Unupdated, Matches(cs[m], kind, list[i])
          PROVE  next[i].state = cs[m].state /\ next[i].hits = cs[m].hits
      <4>1. cs[m] = c  BY <1>4, <3>1, <3>3 DEF c
      <4>2. QED  BY <2>3, <2>4, <3>2, <3>3, <4>1
    <3>4. Matches(cs[k + 1], kind, list[i])  BY <2>4 DEF c
    <3>5. list[i].state # Unupdated => next[i] = list[i]  BY <2>1, <2>3
    <3>6. QED  BY <1>4, <2>1, <2>3, <3>3, <3>4, <3>5
  <2>5. CASE ~Matches(c, kind, list[i])
    <3>1. next[i] = now[i]  BY <2>3, <2>5
    <3>2. ASSUME NEW m \in 1 .. (k + 1), list[i].state = Unupdated, Matches(cs[m], kind, list[i])
          PROVE  next[i].state = cs[m].state /\ next[i].hits = cs[m].hits
      <4>1. m \in 1 .. k  BY <1>4, <2>5, <3>2 DEF c
      <4>2. QED  BY <2>1, <3>1, <3>2, <4>1
    <3>3. QED  BY <1>4, <2>1, <3>1, <3>2
  <2>6. QED  BY <2>4, <2>5
<1>7. QED  BY <1>3, <1>6 DEF ItemsRead, next, c

\* What has become of the variables of the script.
VariablesRead(cs, k, vars) ==
  /\ vars \in Seq(Int) /\ DOMAIN vars = DOMAIN rich.vars
  /\ (k >= 1 /\ cs[1].kind = "variables" /\ rich.vars # <<>> /\ Known(cs[1], VariablesOf[rich.md5])) =>
        \A j \in 1 .. cs[1].count : \A n \in DOMAIN VariablesOf[rich.md5] :
           VariablesOf[rich.md5][n] = cs[1].words[4 * j - 3].name => vars[n] = cs[1].words[4 * j - 1].v

LEMMA VariableChunkRead ==
  ASSUME NEW cs, BufferOK(cs), RichOK(rich), NEW k \in Nat, k + 1 \in DOMAIN cs, NEW vars,
         VariablesRead(cs, k, vars)
  PROVE  VariablesRead(cs, k + 1,
           IF cs[k + 1].kind = "variables" /\ rich.vars # <<>>
           THEN ReadVariables(vars, VariablesOf[rich.md5], cs[k + 1]) ELSE vars)
<1> DEFINE c == cs[k + 1]
           names == VariablesOf[rich.md5]
           next == IF c.kind = "variables" /\ rich.vars # <<>> THEN ReadVariables(vars, names, c) ELSE vars
<1>1. c \in Chunks /\ DOMAIN cs = 1 .. Len(cs) /\ Len(cs) \in Nat  BY DEF BufferOK
<1>2. vars \in Seq(Int) /\ DOMAIN vars = DOMAIN rich.vars  BY DEF VariablesRead
<1>3. CASE c.kind = "variables" /\ rich.vars # <<>>
  <2>1. k + 1 = 1 /\ \E v \in Versions : WordsOf(c, v)  BY <1>3 DEF BufferOK
  <2>2. PICK v \in Versions : WordsOf(c, v)  BY <2>1
  <2>3. rich.md5 \in Versions /\ DOMAIN rich.vars = DOMAIN names  BY <1>3 DEF RichOK
  <2>4. names \in Seq(Range(names)) /\ Injective(names)  BY <2>3, VariablesAreNamed
  <2>5. Injective(VariablesOf[v])  BY VariablesAreNamed
  <2>6. c \in VariableChunks
    <3>1. \A x \in ItemChunks("achievement") \cup ItemChunks("leaderboard") \cup OtherChunks : x.kind # "variables"
      BY DEF ItemChunks, OtherChunks
    <3> HIDE DEF c
    <3>2. QED  BY <1>1, <1>3, <3>1 DEF Chunks
  <2>7. next = ReadVariables(vars, names, c)  BY <1>3
  <2>8. c = cs[1]  BY <2>1
  <2> HIDE DEF next, c, names
  <2>9. next \in Seq(Int) /\ DOMAIN next = DOMAIN names  BY <1>2, <2>2, <2>3, <2>4, <2>5, <2>6, <2>7, VariablesAre
  <2>10. Known(c, names) =>
           \A j \in 1 .. c.count : \A n \in DOMAIN names :
              names[n] = c.words[4 * j - 3].name => next[n] = c.words[4 * j - 1].v
    BY <1>2, <2>2, <2>3, <2>4, <2>5, <2>6, <2>7, VariablesAre
  <2>11. VariablesRead(cs, k + 1, next)  BY <2>3, <2>8, <2>9, <2>10 DEF VariablesRead, names
  <2>12. QED  BY <2>11 DEF next, c, names
<1>4. CASE ~(c.kind = "variables" /\ rich.vars # <<>>)
  <2>1. next = vars  BY <1>4
  <2>2. k >= 1 \/ k + 1 = 1  OBVIOUS
  <2>3. k + 1 = 1 => ~(cs[1].kind = "variables" /\ rich.vars # <<>>)  BY <1>4
  <2> HIDE DEF next, c, names
  <2>4. VariablesRead(cs, k + 1, vars)  BY <2>2, <2>3 DEF VariablesRead
  <2>5. QED  BY <2>1, <2>4 DEF next, c, names
<1>5. QED  BY <1>3, <1>4

ReadBody(p, acc, c) == ReadChunk(acc, c)
ReadLoop == INSTANCE Loops WITH Body <- ReadBody

\* What has been read of k chunks.
ChunksRead(ts, ls, cs, k, acc) ==
  /\ ItemsRead("achievement", ts, cs, k, acc.triggers) /\ ItemsRead("leaderboard", ls, cs, k, acc.lboards)
  /\ acc.hits \in Int /\ VariablesRead(cs, k, acc.vars)

LEMMA OneChunkRead ==
  ASSUME NEW cs, BufferOK(cs), RichOK(rich), NEW k \in Nat, k + 1 \in DOMAIN cs, NEW ts, NEW ls, NEW acc,
         ChunksRead(ts, ls, cs, k, acc)
  PROVE  ChunksRead(ts, ls, cs, k + 1, ReadChunk(acc, cs[k + 1]))
<1> DEFINE c == cs[k + 1]
           next == ReadChunk(acc, c)
<1>1. c \in Chunks  BY DEF BufferOK
<1>2. /\ next.triggers = IF c.kind = "achievement" THEN ReadInto(acc.triggers, c) ELSE acc.triggers
      /\ next.lboards = IF c.kind = "leaderboard" THEN ReadInto(acc.lboards, c) ELSE acc.lboards
      /\ next.hits = IF c.kind = "rich" THEN IF c.md5 = rich.md5 THEN c.hits ELSE 0 ELSE acc.hits
      /\ next.vars = IF c.kind = "variables" /\ rich.vars # <<>>
                     THEN ReadVariables(acc.vars, VariablesOf[rich.md5], c) ELSE acc.vars
  <2> HIDE DEF c
  <2>1. QED  BY DEF ReadChunk
<1> HIDE DEF next
<1>3. ItemsRead("achievement", ts, cs, k + 1, next.triggers)
  <2>1. PICK kind \in Kinds : kind = "achievement"  BY DEF Kinds
  <2>2. ItemsRead(kind, ts, cs, k, acc.triggers)  BY <2>1 DEF ChunksRead
  <2>3. ItemsRead(kind, ts, cs, k + 1, IF cs[k + 1].kind = kind THEN ReadInto(acc.triggers, cs[k + 1]) ELSE acc.triggers)
    BY <2>2, ItemChunkRead
  <2>4. QED  BY <1>2, <2>1, <2>3
<1>4. ItemsRead("leaderboard", ls, cs, k + 1, next.lboards)
  <2>1. PICK kind \in Kinds : kind = "leaderboard"  BY DEF Kinds
  <2>2. ItemsRead(kind, ls, cs, k, acc.lboards)  BY <2>1 DEF ChunksRead
  <2>3. ItemsRead(kind, ls, cs, k + 1, IF cs[k + 1].kind = kind THEN ReadInto(acc.lboards, cs[k + 1]) ELSE acc.lboards)
    BY <2>2, ItemChunkRead
  <2>4. QED  BY <1>2, <2>1, <2>3
<1>5. next.hits \in Int
  <2>1. c.kind = "rich" => c.hits \in Int
    <3>1. \A x \in ItemChunks("achievement") \cup ItemChunks("leaderboard") \cup VariableChunks : x.kind # "rich"
      BY DEF ItemChunks, VariableChunks
    <3>2. \A x \in OtherChunks : x.kind = "rich" => x.hits \in Int  BY DEF OtherChunks
    <3> HIDE DEF c
    <3>3. QED  BY <1>1, <3>1, <3>2 DEF Chunks
  <2>2. acc.hits \in Int  BY DEF ChunksRead
  <2> HIDE DEF c
  <2>3. QED  BY <1>2, <2>1, <2>2
<1>6. VariablesRead(cs, k + 1, next.vars)
  <2>1. VariablesRead(cs, k, acc.vars)  BY DEF ChunksRead
  <2>2. QED  BY <1>2, <2>1, VariableChunkRead
<1>7. QED  BY <1>3, <1>4, <1>5, <1>6 DEF ChunksRead, next, c

LEMMA MarkedIs ==
  ASSUME NEW l, ListOK(l)
  PROVE  /\ HalfOK(Marked(l)) /\ DOMAIN Marked(l) = DOMAIN l
         /\ \A i \in DOMAIN l :
               /\ Marked(l)[i].id = l[i].id /\ Marked(l)[i].md5 = l[i].md5
               /\ Active(l[i]) => Marked(l)[i].state = Unupdated
               /\ ~Active(l[i]) => Marked(l)[i] = l[i] /\ l[i].state # Unupdated
<1> DEFINE r == Marked(l)
<1>1. l \in Seq(Items) /\ Apart(l) /\ DOMAIN l = 1 .. Len(l) /\ Len(l) \in Nat  BY DEF ListOK
<1>2. ASSUME NEW t \in Items
      PROVE  /\ InState(t, Unupdated) \in HalfRead /\ InState(t, Unupdated).id = t.id
             /\ InState(t, Unupdated).md5 = t.md5 /\ InState(t, Unupdated).state = Unupdated
  BY DEF InState, Put, Items, HalfRead, Shaped
<1>3. \A t \in Items : t.state # Unupdated  BY DEF Items, Shaped, States, Unupdated
<1>4. ASSUME NEW i \in DOMAIN l
      PROVE  /\ r[i] \in HalfRead /\ r[i].id = l[i].id /\ r[i].md5 = l[i].md5
             /\ Active(l[i]) => r[i].state = Unupdated
             /\ ~Active(l[i]) => r[i] = l[i] /\ l[i].state # Unupdated
  <2>1. l[i] \in Items  BY <1>1
  <2>2. r[i] = IF Active(l[i]) THEN InState(l[i], Unupdated) ELSE l[i]  BY DEF Marked
  <2> HIDE DEF r
  <2>3. QED  BY <1>2, <1>3, <2>1, <2>2, ItemsAreRead
<1>5. DOMAIN r = DOMAIN l /\ r = [i \in DOMAIN l |-> r[i]]  BY DEF Marked
<1> HIDE DEF r
<1>6. r \in Seq(HalfRead)  BY <1>1, <1>4, <1>5
<1>7. Apart(r)  BY <1>1, <1>4, <1>5 DEF Apart
<1>8. QED  BY <1>4, <1>5, <1>6, <1>7 DEF HalfOK, r

\* What is made of each item of a list that was read.
LEMMA HalfMappedOK ==
  ASSUME NEW l, HalfOK(l), NEW m, m = [i \in DOMAIN l |-> m[i]],
         \A i \in DOMAIN l : m[i] \in Items /\ m[i].id = l[i].id
  PROVE  ListOK(m) /\ DOMAIN m = DOMAIN l
<1>1. l \in Seq(HalfRead) /\ Apart(l)  BY DEF HalfOK
<1>2. DOMAIN l = 1 .. Len(l) /\ Len(l) \in Nat  BY <1>1
<1>3. m \in Seq(Items)  BY <1>2
<1>4. Apart(m)  BY <1>1 DEF Apart
<1>5. QED  BY <1>3, <1>4 DEF ListOK

LEMMA ListsAreHalf == ASSUME NEW l, ListOK(l)  PROVE HalfOK(l)
<1>1. l \in Seq(HalfRead)  BY ItemsAreRead DEF ListOK
<1>2. QED  BY <1>1 DEF ListOK, HalfOK

LEMMA ResetAllIs ==
  ASSUME NEW l, HalfOK(l)
  PROVE  ListOK(ResetAll(l)) /\ DOMAIN ResetAll(l) = DOMAIN l
<1> DEFINE r == ResetAll(l)
<1>1. \A i \in DOMAIN l : l[i] \in HalfRead  BY DEF HalfOK
<1>2. r = [i \in DOMAIN l |-> r[i]] /\ \A i \in DOMAIN l : r[i] = ResetItem(l[i])  BY DEF ResetAll
<1> HIDE DEF r
<1>3. \A i \in DOMAIN l : r[i] \in Items /\ r[i].id = l[i].id  BY <1>1, <1>2, ResetItemIs
<1>4. QED  BY <1>2, <1>3, HalfMappedOK DEF r

LEMMA SettledIs ==
  ASSUME NEW l, HalfOK(l)
  PROVE  /\ ListOK(Settled(l)) /\ DOMAIN Settled(l) = DOMAIN l
         /\ \A i \in DOMAIN l : IF l[i].state = Unupdated
                               THEN Settled(l)[i].state = "waiting" /\ Settled(l)[i].hits = 0
                               ELSE Settled(l)[i] = l[i]
<1> DEFINE r == Settled(l)
<1>1. \A i \in DOMAIN l : l[i] \in HalfRead  BY DEF HalfOK
<1>2. r = [i \in DOMAIN l |-> r[i]]
      /\ \A i \in DOMAIN l : r[i] = IF l[i].state = Unupdated THEN ResetItem(l[i]) ELSE l[i]
  BY DEF Settled
<1>3. \A t \in HalfRead : t.state # Unupdated => t \in Items  BY DEF HalfRead, Items, Shaped
<1> HIDE DEF r
<1>4. \A i \in DOMAIN l : r[i] \in Items /\ r[i].id = l[i].id  BY <1>1, <1>2, <1>3, ResetItemIs
<1>5. \A i \in DOMAIN l : l[i].state = Unupdated => r[i].state = "waiting" /\ r[i].hits = 0
  BY <1>1, <1>2, ResetItemIs
<1>6. ListOK(r) /\ DOMAIN r = DOMAIN l  BY <1>2, <1>4, HalfMappedOK
<1>7. QED  BY <1>2, <1>5, <1>6 DEF r

LEMMA ResetScriptIs ==
  ASSUME NEW r, RichOK(r)
  PROVE  RichOK(ResetScript(r)) /\ ResetScript(r).md5 = r.md5
<1> DEFINE s == ResetScript(r)
           vs == [i \in DOMAIN r.vars |-> 0]
<1>1. r.md5 \in Versions \cup {0} /\ r.vars \in Seq(Int)
      /\ IF r.md5 = 0 THEN r.vars = <<>> ELSE DOMAIN r.vars = DOMAIN VariablesOf[r.md5]
  BY DEF RichOK
<1>2. vs \in Seq(Int) /\ DOMAIN vs = DOMAIN r.vars  BY <1>1
<1>3. r.vars = <<>> => vs = <<>>
  <2>1. ASSUME r.vars = <<>>  PROVE vs = <<>>
    <3>1. Len(vs) = 0  BY <1>1, <1>2, <2>1
    <3>2. QED  BY <1>2, <3>1
  <2>2. QED  BY <2>1
<1>4. s = [md5 |-> r.md5, hits |-> 0, vars |-> vs]  BY DEF ResetScript
<1> HIDE DEF s, vs
<1>5. s.md5 = r.md5 /\ s.hits = 0 /\ s.vars = vs  BY <1>4
<1>6. RichOK(s)  BY <1>1, <1>2, <1>3, <1>4, <1>5 DEF RichOK
<1>7. QED  BY <1>5, <1>6 DEF s

LEMMA AllChunksRead ==
  ASSUME ListOK(triggers), ListOK(lboards), RichOK(rich), NEW cs, BufferOK(cs), NEW whole \in BOOLEAN
  PROVE  \E read :
           /\ ChunksRead(Marked(triggers), Marked(lboards), cs, Len(cs), read)
           /\ Deserialized(cs, whole) =
                 IF whole
                 THEN [triggers |-> Settled(read.triggers), lboards |-> Settled(read.lboards),
                       rich |-> [md5 |-> rich.md5, hits |-> IF read.seen THEN read.hits ELSE 0, vars |-> read.vars]]
                 ELSE [triggers |-> ResetAll(read.triggers), lboards |-> ResetAll(read.lboards),
                       rich |-> ResetScript(rich)]
<1> DEFINE n == Len(cs)
           ts == Marked(triggers)
           ls == Marked(lboards)
<1>1. PICK t : t = [triggers |-> Marked(triggers), lboards |-> Marked(lboards), seen |-> FALSE,
                    hits |-> rich.hits, vars |-> rich.vars]
  OBVIOUS
<1>2. PICK p : p = 0  OBVIOUS
<1>3. n \in Nat /\ DOMAIN cs = 1 .. n  BY DEF BufferOK
<1> DEFINE read == ReadLoop!LoopOver(p, t, cs)
<1>4. Deserialized(cs, whole) =
        IF whole
        THEN [triggers |-> Settled(read.triggers), lboards |-> Settled(read.lboards),
              rich |-> [md5 |-> rich.md5, hits |-> IF read.seen THEN read.hits ELSE 0, vars |-> read.vars]]
        ELSE [triggers |-> ResetAll(read.triggers), lboards |-> ResetAll(read.lboards),
              rich |-> ResetScript(rich)]
  <2> DEFINE full == ReadLoop!LoopOver(p, [triggers |-> Marked(triggers), lboards |-> Marked(lboards), seen |-> FALSE,
                                           hits |-> rich.hits, vars |-> rich.vars], cs)
  <2>1. Deserialized(cs, whole) =
        IF whole
        THEN [triggers |-> Settled(full.triggers), lboards |-> Settled(full.lboards),
              rich |-> [md5 |-> rich.md5, hits |-> IF full.seen THEN full.hits ELSE 0, vars |-> full.vars]]
        ELSE [triggers |-> ResetAll(full.triggers), lboards |-> ResetAll(full.lboards),
              rich |-> ResetScript(rich)]
    BY Zenon DEF Deserialized, ReadBody, FoldLeft, MapThenFoldSet, Max, ReadLoop!LoopOver,
       ReadLoop!FoldLeft, ReadLoop!MapThenFoldSet, ReadLoop!Max
  <2>2. full = read  BY <1>1
  <2> HIDE DEF full, read
  <2>3. QED  BY <2>1, <2>2, Zenon
<1> HIDE DEF n
<1>5. PICK x : ReadLoop!Run(p, t, cs, n, x) /\ x[n] = read  BY <1>3, ReadLoop!LoopRuns
<1> HIDE DEF read, ts, ls
<1>6. x[0] = t /\ \A i \in 1 .. n : x[i] = ReadChunk(x[i - 1], cs[i])  BY <1>5 DEF ReadLoop!Run, ReadBody
<1> DEFINE T == {i \in Nat : i <= n => ChunksRead(ts, ls, cs, i, x[i])}
<1>7. 0 \in T
  <2>1. t.triggers = ts /\ t.lboards = ls /\ t.hits = rich.hits /\ t.vars = rich.vars  BY <1>1 DEF ts, ls
  <2>2. HalfOK(ts) /\ HalfOK(ls)  BY MarkedIs DEF ts, ls
  <2>3. ItemsRead("achievement", ts, cs, 0, ts) /\ ItemsRead("leaderboard", ls, cs, 0, ls)
    BY <2>2 DEF ItemsRead
  <2>4. rich.hits \in Int /\ rich.vars \in Seq(Int)  BY DEF RichOK
  <2>5. VariablesRead(cs, 0, rich.vars)  BY <2>4 DEF VariablesRead
  <2>6. ChunksRead(ts, ls, cs, 0, t)  BY <2>1, <2>3, <2>4, <2>5 DEF ChunksRead
  <2>7. QED  BY <1>6, <2>6
<1>8. ASSUME NEW i \in T  PROVE i + 1 \in T
  <2>1. i \in Nat  OBVIOUS
  <2>2. CASE i + 1 <= n
    <3>1. ChunksRead(ts, ls, cs, i, x[i])  BY <1>3, <2>1, <2>2
    <3>2. i + 1 \in 1 .. n /\ (i + 1) - 1 = i /\ i + 1 \in DOMAIN cs  BY <1>3, <2>1, <2>2
    <3>3. x[i + 1] = ReadChunk(x[i], cs[i + 1])  BY <1>6, <3>2
    <3>4. ChunksRead(ts, ls, cs, i + 1, x[i + 1])  BY <2>1, <3>1, <3>2, <3>3, OneChunkRead
    <3>5. QED  BY <2>1, <3>4
  <2>3. QED  BY <2>1, <2>2
<1> HIDE DEF T
<1>9. T = Nat
  <2>1. T \in SUBSET Nat  BY DEF T
  <2>2. QED  BY <1>7, <1>8, <2>1, ReadLoop!Countdown
<1>10. n \in T /\ n <= n  BY <1>3, <1>9
<1>11. ChunksRead(ts, ls, cs, n, read)  BY <1>5, <1>10 DEF T
<1>12. QED  BY <1>4, <1>11 DEF n, ts, ls

LEMMA DeserializedOK ==
  ASSUME ListOK(triggers), ListOK(lboards), RichOK(rich), NEW cs, BufferOK(cs), NEW whole \in BOOLEAN
  PROVE  /\ ListOK(Deserialized(cs, whole).triggers) /\ ListOK(Deserialized(cs, whole).lboards)
         /\ RichOK(Deserialized(cs, whole).rich) /\ Deserialized(cs, whole).rich.md5 = rich.md5
<1> DEFINE d == Deserialized(cs, whole)
<1>1. PICK read :
        /\ ChunksRead(Marked(triggers), Marked(lboards), cs, Len(cs), read)
        /\ d = IF whole
               THEN [triggers |-> Settled(read.triggers), lboards |-> Settled(read.lboards),
                     rich |-> [md5 |-> rich.md5, hits |-> IF read.seen THEN read.hits ELSE 0, vars |-> read.vars]]
               ELSE [triggers |-> ResetAll(read.triggers), lboards |-> ResetAll(read.lboards),
                     rich |-> ResetScript(rich)]
  BY AllChunksRead
<1> HIDE DEF d
<1>2. HalfOK(read.triggers) /\ HalfOK(read.lboards)  BY <1>1 DEF ChunksRead, ItemsRead
<1>3. ListOK(d.triggers) /\ ListOK(d.lboards)  BY <1>1, <1>2, SettledIs, ResetAllIs
<1>4. CASE whole
  <2> DEFINE h == IF read.seen THEN read.hits ELSE 0
  <2>1. d.rich = [md5 |-> rich.md5, hits |-> h, vars |-> read.vars]  BY <1>1, <1>4
  <2>2. read.hits \in Int /\ read.vars \in Seq(Int) /\ DOMAIN read.vars = DOMAIN rich.vars
    BY <1>1 DEF ChunksRead, VariablesRead
  <2>3. h \in Int  BY <2>2
  <2>4. rich.vars = <<>> => read.vars = <<>>
    <3>1. SUFFICES ASSUME rich.vars = <<>>  PROVE read.vars = <<>>
      OBVIOUS
    <3> DEFINE vs == read.vars
    <3>2. vs \in Seq(Int) /\ DOMAIN vs = {}  BY <2>2, <3>1
    <3> HIDE DEF vs
    <3>3. Len(vs) = 0  BY <3>2
    <3>4. vs = <<>>  BY <3>2, <3>3
    <3>5. QED  BY <3>4 DEF vs
  <2> HIDE DEF h
  <2>5. d.rich.md5 = rich.md5 /\ d.rich.hits = h /\ d.rich.vars = read.vars  BY <2>1
  <2>6. RichOK(d.rich)  BY <2>1, <2>2, <2>3, <2>4, <2>5 DEF RichOK
  <2>7. QED  BY <1>3, <2>5, <2>6 DEF d
<1>5. CASE ~whole
  <2>1. d.rich = ResetScript(rich)  BY SMTT(60), <1>1, <1>5
  <2>2. QED  BY <1>3, <2>1, ResetScriptIs DEF d
<1>6. QED  BY <1>4, <1>5

LEMMA ItemsRestored ==
  ASSUME NEW kind \in Kinds, NEW b, BufferOK(b), NEW cs, NEW m \in Nat, DOMAIN b = 1 .. m,
         \A i \in 1 .. m : cs[i] = b[i], NEW before, ListOK(before), NEW half,
         ItemsRead(kind, Marked(before), cs, m, half)
  PROVE  AsSaved(kind, b, before, Settled(half))
<1> DEFINE now == Settled(half)
           list == Marked(before)
<1>1. /\ DOMAIN list = DOMAIN before
      /\ \A i \in DOMAIN before :
            /\ list[i].id = before[i].id /\ list[i].md5 = before[i].md5
            /\ Active(before[i]) => list[i].state = Unupdated
            /\ ~Active(before[i]) => list[i] = before[i] /\ before[i].state # Unupdated
  BY MarkedIs
<1>2. /\ DOMAIN now = DOMAIN half
      /\ \A i \in DOMAIN half : IF half[i].state = Unupdated
                               THEN now[i].state = "waiting" /\ now[i].hits = 0 ELSE now[i] = half[i]
  BY SettledIs DEF ItemsRead
<1> HIDE DEF now, list
<1>3. DOMAIN half = DOMAIN before  BY <1>1 DEF ItemsRead, list
<1> SUFFICES
      ASSUME NEW i \in DOMAIN before
      PROVE  LET c == {n \in DOMAIN b : b[n].kind = kind /\ b[n].id = before[i].id /\ b[n].md5 = before[i].md5}
             IN CASE ~Active(before[i]) -> now[i] = before[i]
                  [] Active(before[i]) /\ c = {} -> now[i].state = "waiting" /\ now[i].hits = 0
                  [] OTHER -> LET n == CHOOSE n \in c : TRUE
                              IN now[i].state = b[n].state /\ now[i].hits = b[n].hits
  BY DEF AsSaved, now
<1> DEFINE c == {n \in DOMAIN b : b[n].kind = kind /\ b[n].id = before[i].id /\ b[n].md5 = before[i].md5}
           n == CHOOSE n \in c : TRUE
<1>4. /\ list[i].state # Unupdated => half[i] = list[i]
      /\ (list[i].state = Unupdated /\ \A k \in 1 .. m : ~Matches(cs[k], kind, list[i]))
            => half[i].state = Unupdated
      /\ \A k \in 1 .. m :
            list[i].state = Unupdated /\ Matches(cs[k], kind, list[i])
              => half[i].state = cs[k].state /\ half[i].hits = cs[k].hits
  BY <1>1 DEF ItemsRead, list
<1>5. \A k \in 1 .. m : Matches(cs[k], kind, list[i]) <=> k \in c  BY <1>1 DEF Matches
<1>6. c \subseteq 1 .. m  OBVIOUS
<1>7. CASE ~Active(before[i])
  <2>1. half[i] = before[i] /\ half[i].state # Unupdated  BY <1>1, <1>4, <1>7
  <2>2. now[i] = before[i]  BY SMTT(60), <1>2, <1>3, <2>1
  <2> HIDE DEF c, n
  <2>3. QED  BY <1>7, <2>2 DEF c, n
<1>8. CASE Active(before[i]) /\ c = {}
  <2> HIDE DEF c, n
  <2>1. list[i].state = Unupdated /\ \A k \in 1 .. m : ~Matches(cs[k], kind, list[i])  BY <1>1, <1>5, <1>8
  <2>2. half[i].state = Unupdated  BY <1>4, <2>1
  <2>3. now[i].state = "waiting" /\ now[i].hits = 0  BY <1>2, <1>3, <2>2
  <2>4. (CASE ~Active(before[i]) -> now[i] = before[i]
           [] Active(before[i]) /\ c = {} -> now[i].state = "waiting" /\ now[i].hits = 0
           [] OTHER -> now[i].state = b[n].state /\ now[i].hits = b[n].hits)
    BY <1>8, <2>3
  <2>5. QED  BY <2>4 DEF c, n
<1>9. CASE Active(before[i]) /\ c # {}
  <2> HIDE DEF c
  <2>1. n \in c  BY <1>9
  <2> HIDE DEF n
  <2>2. n \in 1 .. m /\ Matches(cs[n], kind, list[i]) /\ cs[n] = b[n]  BY <1>5, <1>6, <2>1
  <2>3. list[i].state = Unupdated  BY <1>1, <1>9
  <2>4. half[i].state = b[n].state /\ half[i].hits = b[n].hits  BY <1>4, <2>2, <2>3
  <2>5. b[n].state # Unupdated
    <3>5. n \in DOMAIN b /\ b \in Seq(Chunks)  BY <2>2 DEF BufferOK
    <3>6. b[n] \in Chunks
      <4>1. \A j \in DOMAIN b : b[j] \in Chunks  BY <3>5
      <4>2. QED  BY <3>5, <4>1
    <3>7. cs[n].kind = kind /\ cs[n] = b[n]  BY <2>2 DEF Matches
    <3>1. b[n] \in Chunks /\ b[n].kind = kind  BY <3>6, <3>7
    <3>2. b[n] \in ItemChunks(kind)  BY <3>1, ChunkOfAnItem
    <3>3. \A x \in ItemChunks(kind) : x.state # Unupdated
      BY DEF ItemChunks, Running, States, Unupdated
    <3>4. QED  BY <3>2, <3>3
  <2>6. now[i] = half[i]  BY <1>2, <1>3, <2>4, <2>5
  <2>7. (CASE ~Active(before[i]) -> now[i] = before[i]
           [] Active(before[i]) /\ c = {} -> now[i].state = "waiting" /\ now[i].hits = 0
           [] OTHER -> now[i].state = b[n].state /\ now[i].hits = b[n].hits)
    BY <1>9, <2>4, <2>6
  <2>8. QED  BY <2>7 DEF c, n
<1>10. QED  BY <1>7, <1>8, <1>9

LEMMA VariablesRestored ==
  ASSUME NEW b, BufferOK(b), b # <<>>, NEW cs, NEW m \in Nat, DOMAIN b = 1 .. m, cs[1] = b[1], RichOK(rich),
         NEW r, r.md5 = rich.md5, VariablesRead(cs, m, r.vars)
  PROVE  VariablesAsSaved(b, r)
<1> DEFINE words == IF b[1].kind = "variables" THEN b[1].words ELSE <<>>
           names == IF r.md5 = 0 THEN <<>> ELSE VariablesOf[r.md5]
           named == {k \in DOMAIN words : words[k].name \notin {"flags", "value", "prior"}}
           c == b[1]
<1>1. m >= 1
  <2>1. b \in Seq(Chunks)  BY DEF BufferOK
  <2>2. m # 0  BY <2>1
  <2>3. QED  BY <2>2
<1> SUFFICES ASSUME \A k \in named : words[k].name \in Range(names), NEW k \in named, NEW n \in DOMAIN names,
                    names[n] = words[k].name
             PROVE  r.vars[n] = words[k + 2].v
  BY DEF VariablesAsSaved
<1>2. c.kind = "variables" /\ words = c.words
  <2>1. DOMAIN words # {}  OBVIOUS
  <2>2. QED  BY <2>1
<1>3. r.md5 \in Versions /\ rich.md5 # 0 /\ names = VariablesOf[rich.md5]
  <2>1. r.md5 # 0
    <3>1. DOMAIN names # {}  OBVIOUS
    <3>2. QED  BY <3>1
  <2>2. QED  BY <2>1 DEF RichOK
<1>4. rich.vars # <<>>
  <2>1. DOMAIN rich.vars = DOMAIN names  BY <1>3 DEF RichOK
  <2>2. n \in DOMAIN rich.vars  BY <2>1
  <2>3. QED  BY <2>2
<1>5. PICK v \in Versions : WordsOf(c, v)
  <2>1. 1 \in DOMAIN b  BY <1>1
  <2>2. QED  BY <1>2, <2>1 DEF BufferOK
<1>6. /\ c.count = Len(VariablesOf[v]) /\ c.count \in Nat /\ DOMAIN c.words = 1 .. (4 * c.count)
      /\ DOMAIN VariablesOf[v] = 1 .. c.count
      /\ \A i \in 1 .. c.count :
            /\ c.words[4 * i - 3].name = VariablesOf[v][i]
            /\ c.words[4 * i - 2].name = "flags" /\ c.words[4 * i - 1].name = "value"
            /\ c.words[4 * i].name = "prior"
  <2>1. /\ c.count = Len(VariablesOf[v]) /\ DOMAIN c.words = 1 .. (4 * c.count)
        /\ \A i \in 1 .. c.count :
              /\ c.words[4 * i - 3].name = VariablesOf[v][i]
              /\ c.words[4 * i - 2].name = "flags" /\ c.words[4 * i - 1].name = "value"
              /\ c.words[4 * i].name = "prior"
    BY <1>5 DEF WordsOf
  <2>2. Len(VariablesOf[v]) \in Nat /\ DOMAIN VariablesOf[v] = 1 .. Len(VariablesOf[v])  BY VariablesAreNamed
  <2> HIDE DEF c
  <2>3. QED  BY <2>1, <2>2
<1>7. k \in 1 .. (4 * c.count) /\ c.words[k].name \notin {"flags", "value", "prior"}  BY <1>2, <1>6
<1>8. \A i \in 1 .. c.count : 4 * i - 3 \in named
  <2> SUFFICES ASSUME NEW i \in 1 .. c.count  PROVE 4 * i - 3 \in named
    OBVIOUS
  <2>1. 4 * i - 3 \in 1 .. (4 * c.count)  BY <1>6, ItIsTheWord
  <2>2. VariablesOf[v][i] \notin {"flags", "value", "prior"}  BY SMTT(60), <1>6, VariablesAreNamed
  <2>3. c.words[4 * i - 3].name \notin {"flags", "value", "prior"}  BY <1>6, <2>2
  <2> HIDE DEF words, c
  <2>4. QED  BY <1>2, <1>6, <2>1, <2>3
<1>9. PICK j \in 1 .. c.count : k = 4 * j - 3
  <2> DEFINE j == (k - 1) \div 4 + 1
             d == (k - 1) % 4
  <2>1. j \in 1 .. c.count /\ d \in 0 .. 3 /\ k = 4 * j - 3 + d  BY ZenonT(60), <1>6, <1>7, WordIsOf
  <2> HIDE DEF c, d, j
  <2>2. c.words[4 * j - 2].name = "flags" /\ c.words[4 * j - 1].name = "value" /\ c.words[4 * j].name = "prior"
    BY <1>6, <2>1
  <2>3. d # 1
    <3>1. d = 1 => k = 4 * j - 2  BY <1>6, <2>1
    <3>2. QED  BY SMTT(60), <1>7, <2>2, <3>1
  <2>4. d # 2
    <3>1. d = 2 => k = 4 * j - 1  BY <1>6, <2>1
    <3>2. QED  BY SMTT(60), <1>7, <2>2, <3>1
  <2>5. d # 3
    <3>1. d = 3 => k = 4 * j  BY SMTT(60), <1>6, <2>1
    <3>2. QED  BY <1>7, <2>2, <3>1
  <2>6. k = 4 * j - 3  BY <1>6, <2>1, <2>3, <2>4, <2>5
  <2>7. QED  BY <2>1, <2>6
<1>10. Known(c, names)
  <2> SUFFICES ASSUME NEW i \in 1 .. c.count  PROVE \E q \in DOMAIN names : names[q] = c.words[4 * i - 3].name
    BY DEF Known
  <2>1. words[4 * i - 3].name \in Range(names)  BY <1>8
  <2> HIDE DEF words, names, c, named
  <2>2. PICK q \in DOMAIN names : names[q] = words[4 * i - 3].name  BY <2>1 DEF Range
  <2>3. QED  BY <1>2, <2>2
<1> HIDE DEF names, words, named, c
<1>11. /\ c.kind = "variables" /\ cs[1] = c  BY <1>2 DEF c
<1>12. \A i \in 1 .. c.count : \A q \in DOMAIN names :
          names[q] = c.words[4 * i - 3].name => r.vars[q] = c.words[4 * i - 1].v
  BY <1>1, <1>3, <1>4, <1>10, <1>11 DEF VariablesRead
<1>13. k + 2 = 4 * j - 1  BY <1>6, <1>9
<1>14. QED  BY <1>2, <1>9, <1>12, <1>13

-----------------------------------------------------------------------------
(* The actions.                                                             *)

RuntimeOK == uses \in Uses /\ ListOK(triggers) /\ ListOK(lboards) /\ RichOK(rich) /\ BufferOK(buffer)
RuntimeInv == RuntimeOK /\ EachOncePerFrame /\ RestoredAsSaved

\* A call that is neither a frame nor a restore.
LEMMA OtherCalls ==
  ASSUME RuntimeOK', last' = NothingDone
  PROVE  RuntimeInv'
<1>1. last'.act = "none"  BY DEF NothingDone
<1>2. EachOncePerFrame' /\ RestoredAsSaved'  BY <1>1 DEF EachOncePerFrame, RestoredAsSaved
<1>3. QED  BY <1>2 DEF RuntimeInv

LEMMA RuntimeInitOK == RuntimeInit => RuntimeInv
<1> SUFFICES ASSUME RuntimeInit  PROVE RuntimeInv
  OBVIOUS
<1>1. last.act = "none"  BY DEF RuntimeInit, NothingDone
<1>2. EachOncePerFrame /\ RestoredAsSaved  BY <1>1 DEF EachOncePerFrame, RestoredAsSaved
<1>3. PICK e : e = <<>>  OBVIOUS
<1>4. e \in Seq(Items) /\ e \in Seq(Chunks) /\ DOMAIN e = {} /\ e \in Seq(Int)  BY <1>3
<1>5. ListOK(e) /\ BufferOK(e)  BY <1>4 DEF ListOK, Apart, BufferOK
<1>6. RichOK(rich)
  <2>1. rich = [md5 |-> 0, hits |-> 0, vars |-> <<>>]  BY DEF RuntimeInit, NoScript
  <2>2. rich.md5 = 0 /\ rich.hits = 0 /\ rich.vars = e  BY <1>3, <2>1
  <2>3. rich = [md5 |-> rich.md5, hits |-> rich.hits, vars |-> rich.vars]  BY <2>1
  <2>4. QED  BY <1>3, <1>4, <2>2, <2>3 DEF RichOK
<1>7. triggers = e /\ lboards = e /\ buffer = e /\ uses \in Uses  BY <1>3 DEF RuntimeInit
<1>8. QED  BY <1>2, <1>5, <1>6, <1>7 DEF RuntimeInv, RuntimeOK

LEMMA ActivatedOK ==
  ASSUME NEW l, ListOK(l), NEW id \in Ids, NEW v \in Versions \cup {0}
  PROVE  ListOK(Activated(l, id, v))
<1> DEFINE I == {i \in 1 .. Len(l) : l[i].id = id}
           n == SelectInSeq(l, LAMBDA t : t.id = id)
           others == IF n = 0 THEN l ELSE Without(l, n)
<1>1. l \in Seq(Items) /\ Len(l) \in Nat /\ DOMAIN l = 1 .. Len(l)  BY DEF ListOK
<1>2. n = IF I # {} THEN Min(I) ELSE 0  BY Zenon DEF SelectInSeq
<1>3. Activated(l, id, v) =
        IF n # 0 /\ l[n].md5 = v THEN [l EXCEPT ![n] = ResetItem(l[n])]
        ELSE IF v \in Versions THEN Append(others, NewItem(id, v)) ELSE others
  <2> HIDE DEF n
  <2>1. QED  BY DEF Activated, n
<1> HIDE DEF n
<1>4. IF I = {} THEN n = 0 ELSE n \in DOMAIN l /\ l[n].id = id
  <2>1. CASE I = {}  BY <1>2, <2>1
  <2>2. CASE I # {}
    <3>1. I \in SUBSET Nat  OBVIOUS
    <3>2. \E m \in I : \A j \in I : m <= j
      <4> HIDE DEF I
      <4>1. QED  BY <2>2, <3>1, DropLoop!Least
    <3>3. n = Min(I)  BY <1>2, <2>2
    <3> HIDE DEF I
    <3>4. n \in I  BY <3>2, <3>3 DEF Min
    <3>5. QED  BY <1>1, <2>2, <3>4 DEF I
  <2>3. QED  BY <2>1, <2>2
<1>5. I = {} => \A j \in DOMAIN l : l[j].id # id  BY <1>1
<1> HIDE DEF I
<1>6. ListOK(others) /\ \A j \in DOMAIN others : others[j].id # id
  <2>1. CASE n = 0
    <3>1. 0 \notin DOMAIN l  BY <1>1
    <3>2. I = {}  BY <1>4, <2>1, <3>1
    <3>3. others = l  BY <2>1
    <3>4. QED  BY <1>5, <3>2, <3>3
  <2>2. CASE n # 0
    <3>1. n \in DOMAIN l /\ l[n].id = id  BY <1>4, <2>2
    <3>2. others = Without(l, n)  BY <2>2
    <3> HIDE DEF others
    <3>3. QED  BY <3>1, <3>2, WithoutIs
  <2>3. QED  BY <2>1, <2>2
<1> HIDE DEF others
<1>7. CASE n # 0 /\ l[n].md5 = v
  <2>1. n \in DOMAIN l  BY <1>4, <1>7
  <2>2. l[n] \in HalfRead  BY <1>1, <2>1, ItemsAreRead
  <2>3. ResetItem(l[n]) \in Items /\ ResetItem(l[n]).id = l[n].id  BY <2>2, ResetItemIs
  <2>4. PICK x : x = ResetItem(l[n])  OBVIOUS
  <2> DEFINE m == [l EXCEPT ![n] = x]
  <2>5. m = [j \in DOMAIN l |-> m[j]] /\ \A j \in DOMAIN l : m[j] = IF j = n THEN x ELSE l[j]  BY <1>1
  <2> HIDE DEF m
  <2>6. \A j \in DOMAIN l : m[j] \in Items /\ m[j].id = l[j].id  BY <1>1, <2>3, <2>4, <2>5
  <2>7. ListOK(m)  BY <2>5, <2>6, MappedOK
  <2>8. QED  BY <1>3, <1>7, <2>4, <2>7 DEF m
<1>8. CASE ~(n # 0 /\ l[n].md5 = v) /\ v \in Versions
  <2> DEFINE x == NewItem(id, v)
             m == Append(others, x)
  <2>1. x \in Items /\ x.id = id  BY <1>8 DEF NewItem, Unknown, Items, Shaped, States
  <2>2. others \in Seq(Items) /\ Len(others) \in Nat /\ DOMAIN others = 1 .. Len(others)  BY <1>6 DEF ListOK
  <2> HIDE DEF x
  <2>3. m \in Seq(Items) /\ DOMAIN m = 1 .. (Len(others) + 1) /\ m[Len(others) + 1] = x
        /\ \A j \in 1 .. Len(others) : m[j] = others[j]
    BY <2>1, <2>2
  <2> HIDE DEF m
  <2>4. \A j \in DOMAIN m : (j \in DOMAIN others /\ m[j] = others[j]) \/ (j = Len(others) + 1 /\ m[j] = x)
    <3>1. \A j \in 1 .. (Len(others) + 1) : j \in 1 .. Len(others) \/ j = Len(others) + 1  BY <2>2
    <3>2. QED  BY <2>2, <2>3, <3>1
  <2>5. Apart(m)
    <3> SUFFICES ASSUME NEW i \in DOMAIN m, NEW j \in DOMAIN m, m[i].id = m[j].id  PROVE i = j
      BY DEF Apart
    <3>1. \A p, q \in DOMAIN others : others[p].id = others[q].id => p = q  BY <1>6 DEF ListOK, Apart
    <3>2. QED  BY <1>6, <2>1, <2>4, <3>1
  <2>6. ListOK(m)  BY <2>3, <2>5 DEF ListOK
  <2>7. QED  BY <1>3, <1>8, <2>6 DEF m, x
<1>9. CASE ~(n # 0 /\ l[n].md5 = v) /\ v \notin Versions  BY <1>3, <1>6, <1>9
<1>10. QED  BY <1>7, <1>8, <1>9

LEMMA IdsUsed ==
  ASSUME uses \in Uses
  PROVE  uses.achievements \subseteq Ids /\ uses.boards \subseteq Ids
BY DEF Ids

LEMMA ActivateAchievementOK ==
  ASSUME RuntimeInv, NEW v \in Versions \cup {0}, NEW id \in uses.achievements, ActivateAchievement(id, v)
  PROVE  RuntimeInv'
<1>1. RuntimeOK  BY DEF RuntimeInv
<1>2. uses \in Uses /\ ListOK(triggers) /\ ListOK(lboards) /\ RichOK(rich) /\ BufferOK(buffer)
  BY <1>1 DEF RuntimeOK
<1>3. ListOK(triggers')
  <2>1. id \in Ids  BY <1>2, IdsUsed
  <2>2. triggers' = Activated(triggers, id, v)  BY DEF ActivateAchievement
  <2>3. QED  BY <1>2, <2>1, <2>2, ActivatedOK
<1>4. UNCHANGED <<uses, lboards, rich, buffer>> /\ last' = NothingDone  BY DEF ActivateAchievement, Called
<1>5. RuntimeOK'  BY <1>2, <1>3, <1>4 DEF RuntimeOK
<1>6. QED  BY <1>4, <1>5, OtherCalls

LEMMA ActivateLboardOK ==
  ASSUME RuntimeInv, NEW v \in Versions \cup {0}, NEW id \in uses.boards, ActivateLboard(id, v)
  PROVE  RuntimeInv'
<1>1. RuntimeOK  BY DEF RuntimeInv
<1>2. uses \in Uses /\ ListOK(triggers) /\ ListOK(lboards) /\ RichOK(rich) /\ BufferOK(buffer)
  BY <1>1 DEF RuntimeOK
<1>3. ListOK(lboards')
  <2>1. id \in Ids  BY <1>2, IdsUsed
  <2>2. lboards' = Activated(lboards, id, v)  BY DEF ActivateLboard
  <2>3. QED  BY <1>2, <2>1, <2>2, ActivatedOK
<1>4. UNCHANGED <<uses, triggers, rich, buffer>> /\ last' = NothingDone  BY DEF ActivateLboard, Called
<1>5. RuntimeOK'  BY <1>2, <1>3, <1>4 DEF RuntimeOK
<1>6. QED  BY <1>4, <1>5, OtherCalls

LEMMA DeactivateOK ==
  ASSUME RuntimeInv, NEW id, DeactivateAchievement(id) \/ DeactivateLboard(id)
  PROVE  RuntimeInv'
<1>1. RuntimeOK  BY DEF RuntimeInv
<1>2. uses \in Uses /\ ListOK(triggers) /\ ListOK(lboards) /\ RichOK(rich) /\ BufferOK(buffer)
  BY <1>1 DEF RuntimeOK
<1>3. ListOK(Deactivated(triggers, id)) /\ ListOK(Deactivated(lboards, id))  BY <1>2, DeactivatedOK
<1>4. /\ UNCHANGED <<uses, rich, buffer>> /\ last' = NothingDone
      /\ triggers' = triggers \/ triggers' = Deactivated(triggers, id)
      /\ lboards' = lboards \/ lboards' = Deactivated(lboards, id)
  BY DEF DeactivateAchievement, DeactivateLboard, Called
<1>5. RuntimeOK'  BY <1>2, <1>3, <1>4 DEF RuntimeOK
<1>6. QED  BY <1>4, <1>5, OtherCalls

LEMMA ActivateRichpresenceOK ==
  ASSUME RuntimeInv, NEW v, ActivateRichpresence(v)
  PROVE  RuntimeInv'
<1>1. RuntimeOK  BY DEF RuntimeInv
<1>2. uses \in Uses /\ ListOK(triggers) /\ ListOK(lboards) /\ RichOK(rich) /\ BufferOK(buffer)
  BY <1>1 DEF RuntimeOK
<1>3. UNCHANGED <<uses, triggers, lboards, buffer>> /\ last' = NothingDone  BY DEF ActivateRichpresence, Called
<1>4. RichOK(rich')
  <2>1. CASE v = rich.md5
    <3>1. rich' = ResetScript(rich)  BY <2>1 DEF ActivateRichpresence
    <3>2. QED  BY <1>2, <3>1, ResetScriptIs
  <2>2. CASE v # rich.md5 /\ v \in Versions
    <3> DEFINE vs == [i \in DOMAIN VariablesOf[v] |-> 0]
    <3>1. rich' = [md5 |-> v, hits |-> 0, vars |-> vs]  BY <2>2 DEF ActivateRichpresence
    <3>2. vs \in Seq(Int) /\ DOMAIN vs = DOMAIN VariablesOf[v]
      <4>1. Len(VariablesOf[v]) \in Nat /\ DOMAIN VariablesOf[v] = 1 .. Len(VariablesOf[v])
        BY <2>2, VariablesAreNamed
      <4>2. QED  BY <4>1
    <3>3. v # 0  BY <2>2, RuntimeAssumption
    <3>4. PICK s : s = rich'  OBVIOUS
    <3> HIDE DEF vs
    <3>5. s = [md5 |-> v, hits |-> 0, vars |-> vs]  BY <3>1, <3>4
    <3>6. s.md5 = v /\ s.hits = 0 /\ s.vars = vs  BY <3>5
    <3>7. RichOK(s)  BY <2>2, <3>2, <3>3, <3>5, <3>6 DEF RichOK
    <3>8. QED  BY <3>4, <3>7
  <2>3. CASE v # rich.md5 /\ v \notin Versions
    <3>1. rich' = rich  BY <2>3 DEF ActivateRichpresence
    <3>2. QED  BY <1>2, <3>1
  <2>4. QED  BY <2>1, <2>2, <2>3
<1>5. RuntimeOK'
  <2>1. RichOK(rich)'  BY <1>4
  <2>2. QED  BY SMTT(60), <1>2, <1>3, <2>1 DEF RuntimeOK
<1>6. QED  BY <1>3, <1>5, OtherCalls

LEMMA ReadersOK ==
  ASSUME RuntimeInv, NEW ids, InvalidateAddress(ids) \/ ValidateAddresses(ids)
  PROVE  RuntimeInv'
<1>1. RuntimeOK  BY DEF RuntimeInv
<1>2. uses \in Uses /\ ListOK(triggers) /\ ListOK(lboards) /\ RichOK(rich) /\ BufferOK(buffer)
  BY <1>1 DEF RuntimeOK
<1> DEFINE marked(list) == [i \in DOMAIN list |-> [list[i] EXCEPT !.invalid = @ \/ list[i].id \in ids]]
           bad(t) == t.invalid \/ t.id \in ids
           without(list) == [i \in DOMAIN list |-> IF bad(list[i]) THEN Disabled(list[i]) ELSE list[i]]
<1>3. ASSUME NEW l, ListOK(l)  PROVE ListOK(marked(l))
  <2>1. \A i \in DOMAIN l : l[i] \in Items  BY <1>3 DEF ListOK
  <2>2. ASSUME NEW t \in Items
        PROVE  /\ [t EXCEPT !.invalid = @ \/ t.id \in ids] \in Items
               /\ [t EXCEPT !.invalid = @ \/ t.id \in ids].id = t.id
    <3>1. PICK b \in BOOLEAN : b <=> (t.invalid \/ t.id \in ids)
      <4>1. t.invalid \in BOOLEAN  BY DEF Items, Shaped
      <4>2. QED  BY <4>1, Zenon
    <3>2. t.invalid \in BOOLEAN  BY DEF Items, Shaped
    <3>3. [t EXCEPT !.invalid = b] \in Items /\ [t EXCEPT !.invalid = b].id = t.id  BY DEF Items, Shaped
    <3>4. b = (t.invalid \/ t.id \in ids)  BY <3>1, <3>2, Zenon
    <3>5. QED  BY <3>3, <3>4, Zenon
  <2> DEFINE m == marked(l)
  <2>3. m = [i \in DOMAIN l |-> m[i]]
        /\ \A i \in DOMAIN l : m[i] = [l[i] EXCEPT !.invalid = @ \/ l[i].id \in ids]
    OBVIOUS
  <2> HIDE DEF m
  <2>4. ASSUME NEW i \in DOMAIN l  PROVE m[i] \in Items /\ m[i].id = l[i].id
    <3>1. PICK t \in Items : t = l[i]  BY <2>1
    <3>2. m[i] = [t EXCEPT !.invalid = @ \/ t.id \in ids]  BY <2>3, <3>1
    <3>3. QED  BY <2>2, <3>1, <3>2, ZenonT(60)
  <2>5. ListOK(m)  BY <1>3, <2>3, <2>4, MappedOK
  <2>6. QED  BY <2>5 DEF m
<1>4. ASSUME NEW l, ListOK(l)  PROVE ListOK(without(l))
  <2>1. \A i \in DOMAIN l : l[i] \in Items  BY <1>4 DEF ListOK
  <2> DEFINE m == without(l)
  <2>2. m = [i \in DOMAIN l |-> m[i]] /\ \A i \in DOMAIN l : m[i] = Disabled(l[i]) \/ m[i] = l[i]
    OBVIOUS
  <2> HIDE DEF m
  <2>3. ASSUME NEW i \in DOMAIN l  PROVE m[i] \in Items /\ m[i].id = l[i].id
    <3>1. l[i] \in Items /\ l[i] \in HalfRead  BY <2>1, ItemsAreRead
    <3>2. Disabled(l[i]) \in Items /\ Disabled(l[i]).id = l[i].id  BY <3>1, DisabledIs
    <3>3. QED  BY <2>2, <3>1, <3>2
  <2>4. ListOK(m)  BY <1>4, <2>2, <2>3, MappedOK
  <2>5. QED  BY <2>4 DEF m
<1>5. CASE InvalidateAddress(ids)
  <2>1. /\ UNCHANGED <<uses, rich, buffer>> /\ last' = NothingDone
        /\ triggers' = marked(triggers) /\ lboards' = marked(lboards)
    BY <1>5 DEF InvalidateAddress, Called
  <2> HIDE DEF marked
  <2>2. ListOK(triggers') /\ ListOK(lboards')  BY <1>2, <1>3, <2>1
  <2>3. RuntimeOK'  BY <1>2, <2>1, <2>2 DEF RuntimeOK
  <2>4. QED  BY <2>1, <2>3, OtherCalls
<1>6. CASE ValidateAddresses(ids)
  <2>1. /\ UNCHANGED <<uses, rich, buffer>> /\ last' = NothingDone
        /\ triggers' = without(triggers) /\ lboards' = without(lboards)
    BY <1>6 DEF ValidateAddresses
  <2> HIDE DEF without
  <2>2. ListOK(triggers') /\ ListOK(lboards')  BY <1>2, <1>4, <2>1
  <2>3. RuntimeOK'  BY <1>2, <2>1, <2>2 DEF RuntimeOK
  <2>4. QED  BY <2>1, <2>3, OtherCalls
<1>7. QED  BY <1>5, <1>6

LEMMA ResetRuntimeOK == ASSUME RuntimeInv, ResetRuntime  PROVE RuntimeInv'
<1>1. RuntimeOK  BY DEF RuntimeInv
<1>2. uses \in Uses /\ ListOK(triggers) /\ ListOK(lboards) /\ RichOK(rich) /\ BufferOK(buffer)
  BY <1>1 DEF RuntimeOK
<1>3. /\ UNCHANGED <<uses, buffer>> /\ last' = NothingDone
      /\ triggers' = ResetAll(triggers) /\ lboards' = ResetAll(lboards) /\ rich' = ResetScript(rich)
  BY DEF ResetRuntime, Called
<1>4. ListOK(triggers') /\ ListOK(lboards') /\ RichOK(rich')
  BY <1>2, <1>3, ListsAreHalf, ResetAllIs, ResetScriptIs
<1>5. RuntimeOK'
  <2>1. RichOK(rich)'  BY <1>4
  <2>2. QED  BY <1>2, <1>3, <1>4, <2>1 DEF RuntimeOK
<1>6. QED  BY <1>3, <1>5, OtherCalls

LEMMA SerializeOK == ASSUME RuntimeInv, Serialize  PROVE RuntimeInv'
<1>1. RuntimeOK  BY DEF RuntimeInv
<1>2. uses \in Uses /\ ListOK(triggers) /\ ListOK(lboards) /\ RichOK(rich) /\ BufferOK(buffer)
  BY <1>1 DEF RuntimeOK
<1>3. /\ UNCHANGED <<uses, triggers, lboards, rich>> /\ last' = NothingDone /\ buffer' = Serialized
  BY DEF Serialize, Called
<1>4. BufferOK(buffer')  BY <1>2, <1>3, SerializedOK
<1>5. RuntimeOK'
  <2>1. BufferOK(buffer)' /\ RichOK(rich)'  BY <1>2, <1>3, <1>4
  <2>2. QED  BY <1>2, <1>3, <2>1 DEF RuntimeOK
<1>6. QED  BY <1>3, <1>5, OtherCalls

LEMMA DeserializeOK ==
  ASSUME RuntimeInv, NEW whole \in BOOLEAN, NEW length \in 0 .. Len(buffer), Deserialize(whole, length)
  PROVE  RuntimeInv'
<1> DEFINE cs == SubSeq(buffer, 1, length)
           d == Deserialized(cs, whole)
<1>1. RuntimeOK  BY DEF RuntimeInv
<1>2. uses \in Uses /\ ListOK(triggers) /\ ListOK(lboards) /\ RichOK(rich) /\ BufferOK(buffer)
  BY <1>1 DEF RuntimeOK
<1>3. /\ buffer # <<>> /\ (whole => length = Len(buffer))
      /\ triggers' = d.triggers /\ lboards' = d.lboards /\ rich' = d.rich
      /\ last' = [act |-> "restore", whole |-> whole, triggers |-> triggers, lboards |-> lboards]
      /\ UNCHANGED <<uses, buffer>>
  <2> HIDE DEF cs
  <2>1. QED  BY DEF Deserialize, cs
<1>4. /\ BufferOK(cs) /\ DOMAIN cs = 1 .. length /\ \A i \in 1 .. length : i \in DOMAIN buffer /\ cs[i] = buffer[i]
  BY <1>2, CutBuffer
<1> HIDE DEF cs, d
<1>5. ListOK(d.triggers) /\ ListOK(d.lboards) /\ RichOK(d.rich) /\ d.rich.md5 = rich.md5
  BY <1>2, <1>4, DeserializedOK DEF d
<1>6. RuntimeOK'
  <2>1. RichOK(rich)' /\ BufferOK(buffer)'  BY <1>2, <1>3, <1>5
  <2>2. ListOK(triggers)' /\ ListOK(lboards)'  BY <1>3, <1>5
  <2>3. QED  BY <1>2, <1>3, <2>1, <2>2 DEF RuntimeOK
<1>7. EachOncePerFrame'
  <2>1. last'.act = "restore"  BY <1>3
  <2>2. QED  BY <2>1 DEF EachOncePerFrame
<1>8. RestoredAsSaved'
  <2>1. PICK e : e = last'  OBVIOUS
  <2>2. e.whole = whole /\ e.triggers = triggers /\ e.lboards = lboards  BY <1>3, <2>1
  <2>3. CASE whole
    <3>1. PICK read :
            /\ ChunksRead(Marked(triggers), Marked(lboards), cs, Len(cs), read)
            /\ d = IF whole
                   THEN [triggers |-> Settled(read.triggers), lboards |-> Settled(read.lboards),
                         rich |-> [md5 |-> rich.md5, hits |-> IF read.seen THEN read.hits ELSE 0, vars |-> read.vars]]
                   ELSE [triggers |-> ResetAll(read.triggers), lboards |-> ResetAll(read.lboards),
                         rich |-> ResetScript(rich)]
      BY <1>2, <1>4, AllChunksRead DEF d
    <3>2. d.triggers = Settled(read.triggers) /\ d.lboards = Settled(read.lboards) /\ d.rich.vars = read.vars
      BY <2>3, <3>1
    <3>3. DOMAIN buffer = 1 .. length /\ length \in Nat /\ Len(cs) = length
      <4>1. buffer \in Seq(Chunks) /\ cs \in Seq(Chunks) /\ length = Len(buffer)  BY <1>2, <1>3, <1>4, <2>3 DEF BufferOK
      <4>2. QED  BY <1>4, <4>1
    <3>4. AsSaved("achievement", buffer, triggers, d.triggers)
      <4>1. PICK kind \in Kinds : kind = "achievement"  BY DEF Kinds
      <4>2. ItemsRead(kind, Marked(triggers), cs, length, read.triggers)  BY <3>1, <3>3, <4>1 DEF ChunksRead
      <4>3. AsSaved(kind, buffer, triggers, Settled(read.triggers))  BY <1>2, <1>4, <3>3, <4>2, ItemsRestored
      <4>4. QED  BY <3>2, <4>1, <4>3
    <3>5. AsSaved("leaderboard", buffer, lboards, d.lboards)
      <4>1. PICK kind \in Kinds : kind = "leaderboard"  BY DEF Kinds
      <4>2. ItemsRead(kind, Marked(lboards), cs, length, read.lboards)  BY <3>1, <3>3, <4>1 DEF ChunksRead
      <4>3. AsSaved(kind, buffer, lboards, Settled(read.lboards))  BY <1>2, <1>4, <3>3, <4>2, ItemsRestored
      <4>4. QED  BY <3>2, <4>1, <4>3
    <3>6. VariablesAsSaved(buffer, d.rich)
      <4>1. length # 0
        <5>1. buffer \in Seq(Chunks)  BY <1>2 DEF BufferOK
        <5>2. QED  BY <1>3, <3>3, <5>1
      <4>2. 1 \in 1 .. length  BY <3>3, <4>1
      <4>3. cs[1] = buffer[1]  BY <1>4, <4>2
      <4>4. VariablesRead(cs, length, d.rich.vars)  BY <3>1, <3>2, <3>3 DEF ChunksRead
      <4>5. QED  BY <1>2, <1>3, <1>5, <3>3, <4>3, <4>4, VariablesRestored
    <3>7. AsSaved("achievement", buffer', e.triggers, triggers') /\ AsSaved("leaderboard", buffer', e.lboards, lboards')
          /\ VariablesAsSaved(buffer', rich')
      BY <1>3, <2>2, <3>4, <3>5, <3>6
    <3>9. /\ AsSaved("achievement", buffer', last'.triggers, triggers')
          /\ AsSaved("leaderboard", buffer', last'.lboards, lboards') /\ VariablesAsSaved(buffer', rich')
      BY <2>1, <3>7, Zenon
    <3>8. QED  BY <3>9 DEF RestoredAsSaved
  <2>4. CASE ~whole
    <3>1. ~last'.whole  BY <2>1, <2>2, <2>4
    <3>2. QED  BY <3>1 DEF RestoredAsSaved
  <2>5. QED  BY <2>3, <2>4
<1>9. QED  BY <1>6, <1>7, <1>8 DEF RuntimeInv

LEMMA LboardStatesIs ==
  ASSUME NEW s \in States, NEW t \in LboardStates(s)
  PROVE  t \in States
<1>1. LboardStates(s) \subseteq States  BY DEF LboardStates, States
<1>2. QED  BY <1>1

LEMMA OneLboardIs ==
  ASSUME NEW b \in Items, NEW s \in States, NEW v \in Int
  PROVE  OneLboard(b, s, v).b \in Items /\ OneLboard(b, s, v).b.id = b.id
<1>1. b \in HalfRead /\ b.measured \in Int /\ b.hasHits \in BOOLEAN  BY ItemsAreRead DEF Items, Shaped
<1>2. Disabled(b) \in Items /\ Disabled(b).id = b.id  BY <1>1, DisabledIs
<1>3. PICK m \in Int : m = IF s = "started" THEN v ELSE b.measured  BY <1>1
<1>4. Put(b, s, v, m, b.hasHits) \in Items /\ Put(b, s, v, m, b.hasHits).id = b.id
  <2>1. PICK h \in BOOLEAN : h = b.hasHits  BY <1>1
  <2>2. Put(b, s, v, m, h) \in Items /\ Put(b, s, v, m, h).id = b.id  BY <1>1, PutIs
  <2>3. QED  BY <2>1, <2>2
<1>5. OneLboard(b, s, v).b = Disabled(b) \/ OneLboard(b, s, v).b = Put(b, s, v, m, b.hasHits)
  BY <1>3 DEF OneLboard
<1>6. QED  BY <1>2, <1>4, <1>5

LEMMA DoFrameOK == ASSUME RuntimeInv, DoFrame  PROVE RuntimeInv'
<1>1. RuntimeOK  BY DEF RuntimeInv
<1>2. uses \in Uses /\ ListOK(triggers) /\ ListOK(lboards) /\ RichOK(rich) /\ BufferOK(buffer)
  BY <1>1 DEF RuntimeOK
<1>3. PICK ins, drops, v, states :
        v \in {0} \cup 0 .. MaxHits /\ FrameDone(ins, drops, v, states)
  BY SMTT(60) DEF DoFrame
<1> DEFINE ts == TriggersDone(ins, drops)
<1>4. LET bs == [i \in DOMAIN lboards |-> OneLboard(lboards[i], states[i], v)]
      IN /\ \A i \in DOMAIN lboards : states[i] \in LboardStates(lboards[i].state)
         /\ triggers' = ts.list
         /\ lboards' = [i \in DOMAIN lboards |-> bs[i].b]
         /\ rich' = IF rich.md5 = 0 THEN rich
                    ELSE [md5 |-> rich.md5, hits |-> v, vars |-> [i \in DOMAIN rich.vars |-> v]]
         /\ last' = [act |-> "frame", found |-> {triggers[i].id : i \in DOMAIN triggers},
                     evaluated |-> ts.evaluated]
         /\ UNCHANGED <<uses, buffer>>
  BY <1>3 DEF FrameDone
<1>5. v \in Int
  <2>1. v \in {0} \/ v \in 0 .. MaxHits  BY <1>3
  <2>2. QED  BY <2>1
<1>6. Walked(Len(triggers), ts)  BY <1>2, TriggersWalked
<1> HIDE DEF ts
<1>7. ListOK(ts.list)  BY <1>6 DEF Walked
<1>8. ListOK(lboards')
  <2> DEFINE m == lboards'
  <2>1. m = [i \in DOMAIN lboards |-> m[i]]
        /\ \A i \in DOMAIN lboards : m[i] = OneLboard(lboards[i], states[i], v).b
    BY <1>4
  <2>2. \A i \in DOMAIN lboards : lboards[i] \in Items  BY <1>2 DEF ListOK
  <2>3. ASSUME NEW i \in DOMAIN lboards  PROVE m[i] \in Items /\ m[i].id = lboards[i].id
    <3>1. lboards[i] \in Items  BY <2>2
    <3>2. lboards[i].state \in States  BY <3>1 DEF Items, Shaped
    <3>3. states[i] \in LboardStates(lboards[i].state)  BY <1>4
    <3>4. states[i] \in States  BY <3>2, <3>3, LboardStatesIs
    <3>5. OneLboard(lboards[i], states[i], v).b \in Items
          /\ OneLboard(lboards[i], states[i], v).b.id = lboards[i].id
      BY <1>5, <3>1, <3>4, OneLboardIs
    <3>6. QED  BY <2>1, <3>5
  <2> HIDE DEF m
  <2>4. ListOK(m)  BY <1>2, <2>1, <2>3, MappedOK
  <2>5. QED  BY <2>4 DEF m
<1>9. RichOK(rich')
  <2>1. CASE rich.md5 = 0
    <3>1. rich' = rich  BY <1>4, <2>1
    <3>2. QED  BY <1>2, <3>1
  <2>2. CASE rich.md5 # 0
    <3> DEFINE vs == [i \in DOMAIN rich.vars |-> v]
    <3>1. PICK s : s = rich'  OBVIOUS
    <3>2. s = [md5 |-> rich.md5, hits |-> v, vars |-> vs]  BY <1>4, <2>2, <3>1
    <3>3. rich.vars \in Seq(Int) /\ DOMAIN rich.vars = DOMAIN VariablesOf[rich.md5]
          /\ rich.md5 \in Versions \cup {0}
      BY <1>2, <2>2 DEF RichOK
    <3>4. vs \in Seq(Int) /\ DOMAIN vs = DOMAIN rich.vars  BY <1>5, <3>3
    <3> HIDE DEF vs
    <3>5. s.md5 = rich.md5 /\ s.hits = v /\ s.vars = vs  BY <3>2
    <3>6. RichOK(s)  BY <1>5, <2>2, <3>2, <3>3, <3>4, <3>5 DEF RichOK
    <3>7. QED  BY <3>1, <3>6
  <2>3. QED  BY <2>1, <2>2
<1>10. /\ triggers' = ts.list /\ UNCHANGED <<uses, buffer>>
       /\ last' = [act |-> "frame", found |-> {triggers[i].id : i \in DOMAIN triggers}, evaluated |-> ts.evaluated]
  BY <1>4
<1>11. RuntimeOK'
  <2>1. RichOK(rich)' /\ BufferOK(buffer)' /\ ListOK(triggers)' /\ ListOK(lboards)'
    BY <1>2, <1>7, <1>8, <1>9, <1>10
  <2>2. QED  BY <1>2, <1>10, <2>1 DEF RuntimeOK
<1>12. EachOncePerFrame'
  <2> DEFINE n == Len(triggers)
  <2>1. PICK e : e = last'  OBVIOUS
  <2>2. e.found = {triggers[i].id : i \in DOMAIN triggers} /\ e.evaluated = ts.evaluated
    BY <1>10, <2>1
  <2>3. n \in Nat /\ DOMAIN triggers = 1 .. n /\ Apart(triggers)  BY <1>2 DEF ListOK
  <2>4. DOMAIN e.evaluated = 1 .. n /\ \A i \in 1 .. n : e.evaluated[i] = triggers[n + 1 - i].id
    <3>1. ts.evaluated \in Seq(Ids) /\ Len(ts.evaluated) = n /\ \A i \in 1 .. n : ts.evaluated[i] = triggers[n + 1 - i].id
      BY <1>6 DEF Walked
    <3>2. DOMAIN ts.evaluated = 1 .. n  BY <3>1
    <3>3. QED  BY <2>2, <3>1, <3>2
  <2> HIDE DEF n
  <2>5. ASSUME NEW id \in e.found
        PROVE  \E k \in DOMAIN e.evaluated : {j \in DOMAIN e.evaluated : e.evaluated[j] = id} = {k}
    <3>1. PICK i \in 1 .. n : id = triggers[i].id  BY <2>2, <2>3
    <3>2. n + 1 - i \in 1 .. n /\ n + 1 - (n + 1 - i) = i  BY <2>3
    <3>3. e.evaluated[n + 1 - i] = id  BY <2>4, <3>1, <3>2
    <3>4. ASSUME NEW j \in 1 .. n, e.evaluated[j] = id  PROVE j = n + 1 - i
      <4>1. n + 1 - j \in 1 .. n /\ triggers[n + 1 - j].id = triggers[i].id  BY <2>3, <2>4, <3>1, <3>4
      <4>2. n + 1 - j = i  BY <2>3, <4>1 DEF Apart
      <4>3. QED  BY <2>3, <4>2
    <3>5. {j \in DOMAIN e.evaluated : e.evaluated[j] = id} = {n + 1 - i}  BY <2>4, <3>2, <3>3, <3>4
    <3>6. QED  BY <2>4, <3>2, <3>5
  <2>6. \A i, j \in DOMAIN triggers' : triggers'[i].id = triggers'[j].id => i = j
    BY <1>7, <1>10 DEF ListOK, Apart
  <2>7. last'.act = "frame" =>
          /\ \A id \in last'.found :
                \E k \in DOMAIN last'.evaluated : {m \in DOMAIN last'.evaluated : last'.evaluated[m] = id} = {k}
          /\ \A i, j \in DOMAIN triggers' : triggers'[i].id = triggers'[j].id => i = j
    BY <2>1, <2>5, <2>6
  <2>8. QED  BY <2>7 DEF EachOncePerFrame
<1>13. RestoredAsSaved'
  <2>1. last'.act = "frame"  BY <1>10
  <2>2. QED  BY <2>1 DEF RestoredAsSaved
<1>14. QED  BY <1>11, <1>12, <1>13 DEF RuntimeInv

LEMMA RuntimeStepOK == RuntimeInv /\ [RuntimeNext]_runtimeVars => RuntimeInv'
<1> SUFFICES ASSUME RuntimeInv, [RuntimeNext]_runtimeVars  PROVE RuntimeInv'
  OBVIOUS
<1>1. ASSUME NEW v \in Versions \cup {0}, NEW id \in uses.achievements, ActivateAchievement(id, v)
      PROVE  RuntimeInv'
  BY <1>1, ActivateAchievementOK
<1>2. ASSUME NEW v \in Versions \cup {0}, NEW id \in uses.boards, ActivateLboard(id, v)  PROVE RuntimeInv'
  BY <1>2, ActivateLboardOK
<1>3. ASSUME NEW id, DeactivateAchievement(id) \/ DeactivateLboard(id)  PROVE RuntimeInv'
  BY <1>3, DeactivateOK
<1>4. ASSUME NEW v, ActivateRichpresence(v)  PROVE RuntimeInv'
  BY <1>4, ActivateRichpresenceOK
<1>5. ASSUME NEW ids, InvalidateAddress(ids) \/ ValidateAddresses(ids)  PROVE RuntimeInv'
  BY <1>5, ReadersOK
<1>6. CASE DoFrame  BY <1>6, DoFrameOK
<1>7. CASE ResetRuntime  BY <1>7, ResetRuntimeOK
<1>8. CASE Serialize  BY <1>8, SerializeOK
<1>9. ASSUME NEW whole \in BOOLEAN, NEW length \in 0 .. Len(buffer), Deserialize(whole, length)
      PROVE  RuntimeInv'
  BY <1>9, DeserializeOK
<1>10. CASE UNCHANGED runtimeVars
  BY <1>10 DEF runtimeVars, RuntimeInv, RuntimeOK, EachOncePerFrame, RestoredAsSaved
<1>11. QED  BY <1>1, <1>2, <1>3, <1>4, <1>5, <1>6, <1>7, <1>8, <1>9, <1>10 DEF RuntimeNext

LEMMA RuntimeAlwaysOK == RuntimeSpec => []RuntimeInv
BY RuntimeInitOK, RuntimeStepOK, PTL DEF RuntimeSpec

\* A frame of the runtime evaluates every achievement it finds exactly once, whatever the handler of an
\* event deactivates meanwhile (rc_runtime_do_frame).
THEOREM AlwaysEachOnce == RuntimeSpec => []EachOncePerFrame
<1>1. RuntimeInv => EachOncePerFrame  BY DEF RuntimeInv
<1>2. QED  BY <1>1, RuntimeAlwaysOK, PTL

\* Progress that is restored whole comes back as it was saved, for any lists, scripts and buffer
\* (rc_runtime_deserialize_progress_sized).
THEOREM AlwaysRestored == RuntimeSpec => []RestoredAsSaved
<1>1. RuntimeInv => RestoredAsSaved  BY DEF RuntimeInv
<1>2. QED  BY <1>1, RuntimeAlwaysOK, PTL

=============================================================================
