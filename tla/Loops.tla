-------------------------------- MODULE Loops --------------------------------
(***************************************************************************)
(* What a loop over the elements 1 .. n or over those of a sequence does:  *)
(* the rule by which an invariant of the loop is carried from its start to *)
(* its end.  A loop is a fold, and Body what it does to the state u for    *)
(* the element i; p is what it reads besides.  The modules that prove      *)
(* something of their loops instantiate this one for the body of each.     *)
(*                                                                         *)
(* Induction over the natural numbers is had from the fact that < is well  *)
(* founded, applied to the set of the numbers a fact holds of.             *)
(***************************************************************************)
EXTENDS Integers, Folds, WellFoundedInduction, TLAPS

\* As in FiniteSetsExt and SequencesExt, of whose other operators each instance would hold a copy.
Max(S) == CHOOSE x \in S : \A y \in S : x >= y
FoldLeft(op(_, _), base, seq) ==
  MapThenFoldSet(LAMBDA x, y : op(y, x), base, LAMBDA i : seq[i], LAMBDA S : Max(S), DOMAIN seq)

CONSTANT Body(_, _, _)

Loop(p, t, n) == FoldLeft(LAMBDA u, i : Body(p, u, i), t, [i \in 1 .. n |-> i])
LoopOver(p, t, s) == FoldLeft(LAMBDA u, i : Body(p, u, i), t, s)

LEMMA Least ==
  ASSUME NEW S \in SUBSET Nat, S # {}
  PROVE  \E x \in S : \A y \in S : x <= y
<1> DEFINE R == OpToRel(<, Nat)
<1>1. IsWellFoundedOn(R, Nat)  BY NatLessThanWellFounded
<1>2. \A x, y \in Nat : x < y => <<x, y>> \in R  BY DEF OpToRel
<1> HIDE DEF R
<1>3. PICK x \in S : \A y \in S : ~(<<y, x>> \in R)  BY <1>1, WFMin
<1>4. ASSUME NEW y \in S  PROVE ~(y < x)  BY <1>2, <1>3
<1>5. QED  BY <1>4

\* A set with 0 and every successor has all natural numbers.
LEMMA Countdown ==
  ASSUME NEW S \in SUBSET Nat, 0 \in S, \A n \in S : n + 1 \in S
  PROVE  S = Nat
<1>1. SUFFICES ASSUME Nat \ S # {}  PROVE FALSE
  OBVIOUS
<1> DEFINE T == Nat \ S
<1>2. T \in SUBSET Nat /\ T # {}  BY <1>1
<1> HIDE DEF T
<1>3. PICK x \in T : \A y \in T : x <= y  BY <1>2, Least
<1> USE DEF T
<1>4. x \in Nat /\ x # 0  OBVIOUS
<1>5. x - 1 \in Nat /\ x - 1 < x  BY <1>4
<1>6. x - 1 \in S  BY <1>3, <1>5
<1>7. QED  BY <1>4, <1>5, <1>6

LEMMA MaxIs ==
  ASSUME NEW k \in Nat, NEW S \in SUBSET (1 .. k), k \in S
  PROVE  Max(S) = k
<1>1. \A x \in S : (\A y \in S : x >= y) <=> x = k  OBVIOUS
<1>2. QED  BY <1>1 DEF Max

\* The recursion of the fold has a solution, element by element.
Steps(p, t, s, g, m) ==
  [S \in SUBSET (1 .. m) |-> IF S = {} THEN t ELSE Body(p, g[S \ {Max(S)}], s[Max(S)])]

LEMMA StepsExist ==
  ASSUME NEW p, NEW t, NEW s, NEW n \in Nat
  PROVE  \E g : g = Steps(p, t, s, g, n)
<1> DEFINE T == {m \in Nat : \E g : g = Steps(p, t, s, g, m)}
<1>1. 0 \in T
  <2> DEFINE g == [S \in SUBSET (1 .. 0) |-> t]
  <2>1. \A S \in SUBSET (1 .. 0) : S = {}  OBVIOUS
  <2>2. g = Steps(p, t, s, g, 0)  BY <2>1 DEF Steps
  <2> HIDE DEF g
  <2>3. QED  BY <2>2
<1>2. ASSUME NEW m \in T  PROVE m + 1 \in T
  <2>1. PICK g : g = Steps(p, t, s, g, m)  OBVIOUS
  <2> DEFINE h == [S \in SUBSET (1 .. (m + 1)) |->
                     IF m + 1 \in S THEN Body(p, g[S \ {m + 1}], s[m + 1]) ELSE g[S]]
  <2>2. m \in Nat  OBVIOUS
  <2> HIDE DEF T
  <2>3. \A S \in SUBSET (1 .. m) :
          g[S] = IF S = {} THEN t ELSE Body(p, g[S \ {Max(S)}], s[Max(S)])
    BY <2>1 DEF Steps
  <2>4. \A S \in SUBSET (1 .. m) : h[S] = g[S]
    <3> SUFFICES ASSUME NEW S \in SUBSET (1 .. m)  PROVE h[S] = g[S]
      OBVIOUS
    <3>1. S \in SUBSET (1 .. (m + 1)) /\ m + 1 \notin S  BY <2>2
    <3>2. QED  BY <3>1
  <2>5. ASSUME NEW S \in SUBSET (1 .. (m + 1))
        PROVE  h[S] = IF S = {} THEN t ELSE Body(p, h[S \ {Max(S)}], s[Max(S)])
    <3>1. CASE m + 1 \in S
      <4>1. Max(S) = m + 1  BY <2>2, <3>1, MaxIs
      <4>2. S \ {m + 1} \in SUBSET (1 .. m)  BY <2>2
      <4>3. h[S] = Body(p, g[S \ {m + 1}], s[m + 1])  BY <3>1
      <4> HIDE DEF h
      <4>4. QED  BY <2>4, <3>1, <4>1, <4>2, <4>3
    <3>2. CASE m + 1 \notin S
      <4> DEFINE x == Max(S)
      <4> HIDE DEF x
      <4>1. S \in SUBSET (1 .. m)
        <5>1. ASSUME NEW y \in S  PROVE y \in 1 .. m  BY <2>2, <3>2
        <5>2. QED  BY <5>1
      <4>3. S \ {x} \in SUBSET (1 .. m)  BY <4>1, Zenon
      <4>4. h[S] = g[S] /\ h[S \ {x}] = g[S \ {x}]  BY <2>4, <4>1, <4>3
      <4>5. g[S] = IF S = {} THEN t ELSE Body(p, g[S \ {x}], s[x])  BY <2>3, <4>1 DEF x
      <4> HIDE DEF h
      <4>2. QED  BY <4>4, <4>5, Zenon DEF x
    <3>3. QED  BY <3>1, <3>2
  <2>6. DOMAIN h = SUBSET (1 .. (m + 1)) /\ h = [S \in DOMAIN h |-> h[S]]  OBVIOUS
  <2> HIDE DEF h
  <2>7. h = Steps(p, t, s, h, m + 1)  BY <2>5, <2>6 DEF Steps
  <2>8. QED  BY <2>2, <2>7 DEF T
<1> HIDE DEF T
<1>3. T \in SUBSET Nat  BY DEF T
<1>4. T = Nat  BY <1>1, <1>2, <1>3, Countdown
<1>5. QED  BY <1>4 DEF T

\* A loop is a run of its body, x having the state after each element.
Run(p, t, s, n, x) == x[0] = t /\ \A i \in 1 .. n : x[i] = Body(p, x[i - 1], s[i])

LEMMA LoopRuns ==
  ASSUME NEW p, NEW t, NEW s, NEW n \in Nat, DOMAIN s = 1 .. n
  PROVE  \E x : Run(p, t, s, n, x) /\ x[n] = LoopOver(p, t, s)
<1> DEFINE run == CHOOSE g : g = Steps(p, t, s, g, n)
           x == [i \in 0 .. n |-> run[1 .. i]]
<1>1. LoopOver(p, t, s) = run[1 .. n]
  <2>1. LoopOver(p, t, s) =
          (CHOOSE g : g = [S \in SUBSET (DOMAIN s) |->
             IF S = {} THEN t ELSE Body(p, g[S \ {Max(S)}], s[Max(S)])])[DOMAIN s]
    BY Zenon DEF LoopOver, FoldLeft, MapThenFoldSet
  <2>2. QED  BY <2>1, Zenon DEF Steps
<1>2. run = Steps(p, t, s, run, n)  BY StepsExist
<1> HIDE DEF run
<1>4. \A S \in SUBSET (1 .. n) : run[S] = IF S = {} THEN t ELSE Body(p, run[S \ {Max(S)}], s[Max(S)])
  BY <1>2 DEF Steps
<1>5. run[1 .. 0] = t
  <2>1. 1 .. 0 = {}  OBVIOUS
  <2>2. {} \in SUBSET (1 .. n)  OBVIOUS
  <2>3. QED  BY <1>4, <2>1, <2>2, Zenon
<1>6. ASSUME NEW i \in 1 .. n  PROVE run[1 .. i] = Body(p, run[1 .. (i - 1)], s[i])
  <2> DEFINE S == 1 .. i
  <2>1. i \in S  OBVIOUS
  <2>2. S \in SUBSET (1 .. n)
    <3>1. ASSUME NEW y \in S  PROVE y \in 1 .. n  OBVIOUS
    <3>2. QED  BY <3>1
  <2>3. S \ {i} = 1 .. (i - 1)
    <3>1. ASSUME NEW y  PROVE (y \in S /\ y # i) <=> y \in 1 .. (i - 1)  OBVIOUS
    <3>2. QED  BY <3>1
  <2>4. Max(S) = i
    <3>1. i \in Nat /\ S \in SUBSET (1 .. i)  OBVIOUS
    <3> HIDE DEF S
    <3>2. QED  BY <2>1, <3>1, MaxIs
  <2> HIDE DEF S
  <2>5. S # {}  BY <2>1
  <2>6. run[S] = Body(p, run[S \ {Max(S)}], s[Max(S)])  BY <1>4, <2>2, <2>5
  <2>7. run[S] = Body(p, run[S \ {i}], s[i])  BY <2>4, <2>6
  <2>8. QED  BY <2>3, <2>7, Zenon DEF S
<1>7. \A i \in 0 .. n : x[i] = run[1 .. i]  OBVIOUS
<1> HIDE DEF x
<1>8. x[0] = t  BY <1>5, <1>7
<1>9. ASSUME NEW i \in 1 .. n  PROVE x[i] = Body(p, x[i - 1], s[i])
  <2>1. i \in 0 .. n /\ i - 1 \in 0 .. n  OBVIOUS
  <2>2. x[i] = run[1 .. i] /\ x[i - 1] = run[1 .. (i - 1)]  BY <1>7, <2>1
  <2>3. QED  BY <1>6, <2>2
<1>10. QED  BY <1>1, <1>7, <1>8, <1>9 DEF Run

\* What holds before the loop, G[0], and is carried from one element to the next, holds after it.
THEOREM LoopOverInduction ==
  ASSUME NEW p, NEW t, NEW s, NEW n \in Nat, DOMAIN s = 1 .. n, NEW G, t \in G[0],
         \A i \in 1 .. n : \A u \in G[i - 1] : Body(p, u, s[i]) \in G[i]
  PROVE  LoopOver(p, t, s) \in G[n]
<1>1. PICK x : Run(p, t, s, n, x) /\ x[n] = LoopOver(p, t, s)  BY LoopRuns
<1> DEFINE T == {i \in Nat : i <= n => x[i] \in G[i]}
<1>2. 0 \in T  BY <1>1 DEF Run
<1>3. ASSUME NEW i \in T  PROVE i + 1 \in T
  <2>1. i \in Nat  OBVIOUS
  <2>2. CASE i + 1 > n  BY <2>1, <2>2
  <2>3. CASE i + 1 <= n
    <3>1. i + 1 \in 1 .. n /\ (i + 1) - 1 = i /\ i <= n  BY <2>1, <2>3
    <3>2. x[i] \in G[i]  BY <3>1
    <3>3. x[i + 1] = Body(p, x[i], s[i + 1])  BY <1>1, <3>1 DEF Run
    <3>4. x[i + 1] \in G[i + 1]  BY <3>1, <3>2, <3>3
    <3>5. QED  BY <2>1, <3>4
  <2>4. QED  BY <2>1, <2>2, <2>3
<1> HIDE DEF T
<1>4. T \in SUBSET Nat  BY DEF T
<1>5. T = Nat  BY <1>2, <1>3, <1>4, Countdown
<1>6. QED  BY <1>1, <1>5 DEF T

\* The same of a loop over the numbers from 1 to n.
THEOREM LoopInduction ==
  ASSUME NEW p, NEW t, NEW n \in Nat, NEW G, t \in G[0],
         \A i \in 1 .. n : \A u \in G[i - 1] : Body(p, u, i) \in G[i]
  PROVE  Loop(p, t, n) \in G[n]
<1> DEFINE s == [i \in 1 .. n |-> i]
<1>1. DOMAIN s = 1 .. n /\ \A i \in 1 .. n : s[i] = i  OBVIOUS
<1>2. Loop(p, t, n) = LoopOver(p, t, s)  BY DEF Loop, LoopOver
<1> HIDE DEF s
<1>3. \A i \in 1 .. n : \A u \in G[i - 1] : Body(p, u, s[i]) \in G[i]  BY <1>1
<1>4. LoopOver(p, t, s) \in G[n]  BY <1>1, <1>3, LoopOverInduction
<1>5. QED  BY <1>2, <1>4

\* One more element is one more step.
LEMMA LoopUnfolds ==
  ASSUME NEW p, NEW t
  PROVE  /\ Loop(p, t, 0) = t
         /\ \A n \in Nat : Loop(p, t, n + 1) = Body(p, Loop(p, t, n), n + 1)
<1>1. Loop(p, t, 0) = t
  <2> DEFINE G == [i \in {0} |-> {t}]
  <2>1. t \in G[0] /\ G[0] = {t}  OBVIOUS
  <2> HIDE DEF G
  <2>2. Loop(p, t, 0) \in G[0]  BY <2>1, LoopInduction
  <2>3. QED  BY <2>1, <2>2
<1>2. ASSUME NEW n \in Nat  PROVE Loop(p, t, n + 1) = Body(p, Loop(p, t, n), n + 1)
  <2> DEFINE s == [i \in 1 .. n + 1 |-> i]
  <2>0. DOMAIN s = 1 .. n + 1 /\ (\A i \in 1 .. n + 1 : s[i] = i) /\ Loop(p, t, n + 1) = LoopOver(p, t, s)
    BY DEF Loop, LoopOver
  <2> HIDE DEF s
  <2>1. PICK x : Run(p, t, s, n + 1, x) /\ x[n + 1] = Loop(p, t, n + 1)  BY <2>0, LoopRuns
  <2> DEFINE G == [i \in 0 .. n |-> {x[i]}]
  <2>2. t \in G[0]  BY <2>1 DEF Run
  <2>3. ASSUME NEW i \in 1 .. n, NEW u \in G[i - 1]  PROVE Body(p, u, i) \in G[i]
    <3>1. i \in 1 .. n + 1 /\ i \in 0 .. n /\ i - 1 \in 0 .. n  OBVIOUS
    <3>2. u = x[i - 1] /\ G[i] = {x[i]}  BY <3>1
    <3>3. x[i] = Body(p, x[i - 1], i)  BY <2>0, <2>1, <3>1 DEF Run
    <3>4. QED  BY <3>2, <3>3
  <2>4. G[n] = {x[n]}  OBVIOUS
  <2> HIDE DEF G
  <2>5. Loop(p, t, n) \in G[n]  BY <2>2, <2>3, LoopInduction
  <2>6. n + 1 \in 1 .. n + 1 /\ (n + 1) - 1 = n  OBVIOUS
  <2>7. x[n + 1] = Body(p, x[n], n + 1)  BY <2>0, <2>1, <2>6 DEF Run
  <2>8. QED  BY <2>1, <2>4, <2>5, <2>7
<1>3. QED  BY <1>1, <1>2
=============================================================================
