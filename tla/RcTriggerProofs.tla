--------------------------- MODULE RcTriggerProofs ---------------------------
(***************************************************************************)
(* That the evaluation of an achievement means what its definition says,   *)
(* for any definition whose sums have a target: sorting the conditions,    *)
(* skipping blocks and carrying the state of one chain into the next       *)
(* change nothing.                                                         *)
(*                                                                         *)
(* The conditions of a group are related one by one to Links, the meaning  *)
(* of each in the order they were written.  What the code carries from a   *)
(* condition to the next is what the links say of a chain (Carries), and   *)
(* it is as new when a chain has ended (Fresh), wherever the next one      *)
(* stands.  Passed is the invariant of the loop over a block.              *)
(***************************************************************************)
EXTENDS RcTrigger, TLAPS

\* The bodies of the loops, p being what they read.
ProcessBody(p, x, i) ==
  IF x.paused \/ i \notin Block(p.conds, p.class) THEN x
  ELSE Evaluate(x, p.conds[i], i, p.truth[i], p.value)
ProcessLoop == INSTANCE Loops WITH Body <- ProcessBody

SumBody(worth, n, i) == n + worth[i]
SumLoop == INSTANCE Loops WITH Body <- SumBody

CondSet == [type : Types, target : Nat]
Deciding == MeaningOf!Deciding
Final(conds, i) == MeaningOf!Final(conds, i)

-----------------------------------------------------------------------------
(* Chains.                                                                  *)

LEMMA TypesAre ==
  /\ Types = Combining \cup Deciding
  /\ Combining \cap Deciding = {}
  /\ MeaningOf!Combining = Combining
BY DEF Types, Combining, Deciding, MeaningOf!Deciding, MeaningOf!Combining

LEMMA CondHas ==
  ASSUME NEW conds \in Seq(CondSet), NEW i \in 1 .. Len(conds)
  PROVE  /\ conds[i] \in CondSet /\ conds[i].type \in Types /\ conds[i].target \in Nat
         /\ conds[i].type \in Deciding <=> conds[i].type \notin Combining
         /\ Classify(conds[i]) # "combining" <=> conds[i].type \in Deciding
<1>1. conds[i] \in CondSet  OBVIOUS
<1>2. conds[i].type \in Types /\ conds[i].target \in Nat  BY <1>1 DEF CondSet
<1>3. conds[i].type \in Deciding <=> conds[i].type \notin Combining  BY <1>2, TypesAre
<1>4. CASE conds[i].type \in Combining
  <2>1. Classify(conds[i]) = "combining"  BY <1>4 DEF Classify, Combining
  <2>2. QED  BY <1>1, <1>2, <1>3, <1>4, <2>1
<1>5. CASE conds[i].type \in Deciding
  <2>1. Classify(conds[i]) # "combining"
    BY <1>3, <1>5 DEF Classify, Deciding, MeaningOf!Deciding
  <2>2. QED  BY <1>1, <1>2, <1>3, <1>5, <2>1
<1>6. QED  BY <1>2, <1>3, <1>4, <1>5

\* The first of the numbers from i to n that have a property.
LEMMA FirstIs ==
  ASSUME NEW S, NEW n \in Nat, S \subseteq 1 .. n, S # {}, NEW f,
         f = CHOOSE j \in S : \A k \in S : j <= k
  PROVE  f \in S /\ \A k \in S : f <= k
<1>1. S \in SUBSET Nat  OBVIOUS
<1>2. \E j \in S : \A k \in S : j <= k  BY <1>1, SumLoop!Least
<1>3. QED  BY <1>2

Ends(conds, i) == {j \in i .. Len(conds) : conds[j].type \in Deciding}

\* The chain of i ends at its final condition, and it is in the class of that.
LEMMA FinalIs ==
  ASSUME NEW conds \in Seq(CondSet), NEW i \in 1 .. Len(conds)
  PROVE  /\ Final(conds, i) \in {0} \cup (i .. Len(conds))
         /\ Final(conds, i) # 0 =>
              /\ conds[Final(conds, i)].type \in Deciding
              /\ \A k \in i .. Final(conds, i) - 1 : conds[k].type \in Combining
              /\ Classification(conds, i) = Classify(conds[Final(conds, i)])
         /\ Final(conds, i) = 0 =>
              /\ \A k \in i .. Len(conds) : conds[k].type \in Combining
              /\ Classification(conds, i) = "other"
<1> DEFINE S == Ends(conds, i)
           n == Len(conds)
<1>1. n \in Nat /\ i \in Nat /\ i >= 1  OBVIOUS
<1>2. \A j \in i .. n : j \in 1 .. n  BY <1>1
<1>3. \A j \in i .. n : /\ conds[j].type \in Deciding <=> conds[j].type \notin Combining
                        /\ Classify(conds[j]) # "combining" <=> conds[j].type \in Deciding
  BY <1>2, CondHas
<1>4. S = {j \in i .. n : Classify(conds[j]) # "combining"}  BY <1>3 DEF Ends
<1>5. S \subseteq 1 .. n  BY <1>2 DEF Ends
<1>6. Final(conds, i) = IF S = {} THEN 0 ELSE CHOOSE j \in S : \A k \in S : j <= k
  BY DEF Final, MeaningOf!Final, Ends, Deciding
<1>7. Classification(conds, i) =
        IF S = {} THEN "other" ELSE Classify(conds[CHOOSE j \in S : \A k \in S : j <= k])
  BY <1>4 DEF Classification
<1>8. CASE S = {}
  <2>1. \A k \in i .. n : conds[k].type \in Combining  BY <1>3, <1>8 DEF Ends
  <2>2. QED  BY <1>6, <1>7, <1>8, <2>1
<1>9. CASE S # {}
  <2>1. PICK f : f = CHOOSE j \in S : \A k \in S : j <= k  OBVIOUS
  <2>2. f \in S /\ \A k \in S : f <= k
    <3> HIDE DEF S
    <3>1. QED  BY <1>1, <1>5, <1>9, <2>1, FirstIs
  <2>3. Final(conds, i) = f /\ Classification(conds, i) = Classify(conds[f])
    BY <1>6, <1>7, <1>9, <2>1
  <2>4. f \in i .. n /\ conds[f].type \in Deciding  BY <2>2 DEF Ends
  <2>5. \A k \in i .. f - 1 : conds[k].type \in Combining
    <3>1. TAKE k \in i .. f - 1
    <3>2. k \in i .. n /\ k < f  BY <1>1, <2>4
    <3>3. k \notin S  BY <1>1, <2>2, <2>4, <3>2
    <3>4. QED  BY <1>3, <3>2, <3>3 DEF Ends
  <2>6. f # 0  BY <1>1, <2>4
  <2>7. QED  BY <2>3, <2>4, <2>5, <2>6
<1>10. QED  BY <1>8, <1>9

\* A condition that leads to the next is in the chain of the next.
LEMMA FinalNext ==
  ASSUME NEW conds \in Seq(CondSet), NEW i \in 1 .. Len(conds)
  PROVE  /\ conds[i].type \in Deciding =>
              Final(conds, i) = i /\ Classification(conds, i) = Classify(conds[i])
         /\ conds[i].type \in Combining /\ i < Len(conds) =>
              /\ Final(conds, i) = Final(conds, i + 1)
              /\ Classification(conds, i) = Classification(conds, i + 1)
         /\ conds[i].type \in Combining /\ i = Len(conds) =>
              Final(conds, i) = 0 /\ Classification(conds, i) = "other"
<1>1. conds[i].type \in Deciding <=> conds[i].type \notin Combining  BY CondHas
<1>2. CASE conds[i].type \in Deciding
  <2>1. Final(conds, i) # 0  BY <1>1, <1>2, FinalIs
  <2>2. Final(conds, i) = i  BY <1>1, <1>2, <2>1, FinalIs
  <2>3. QED  BY <1>1, <1>2, <2>1, <2>2, FinalIs
<1>3. CASE conds[i].type \in Combining /\ i = Len(conds)
  <2>1. Final(conds, i) # i  BY <1>1, <1>3, FinalIs
  <2>2. Final(conds, i) = 0  BY <1>3, <2>1, FinalIs
  <2>3. QED  BY <1>1, <1>3, <2>2, FinalIs
<1>4. CASE conds[i].type \in Combining /\ i < Len(conds)
  <2>1. i + 1 \in 1 .. Len(conds)  BY <1>4
  <2>2. PICK f : f = Final(conds, i)  OBVIOUS
  <2>3. PICK g : g = Final(conds, i + 1)  OBVIOUS
  <2>4. /\ f \in {0} \cup (i .. Len(conds)) /\ g \in {0} \cup ((i + 1) .. Len(conds))
        /\ f # 0 => /\ conds[f].type \in Deciding
                    /\ \A k \in i .. f - 1 : conds[k].type \in Combining
                    /\ Classification(conds, i) = Classify(conds[f])
        /\ f = 0 => /\ \A k \in i .. Len(conds) : conds[k].type \in Combining
                    /\ Classification(conds, i) = "other"
    BY <2>2, <2>1, <2>3, FinalIs
  <2>5. /\ g # 0 => /\ conds[g].type \in Deciding
                    /\ \A k \in i + 1 .. g - 1 : conds[k].type \in Combining
                    /\ Classification(conds, i + 1) = Classify(conds[g])
        /\ g = 0 => /\ \A k \in i + 1 .. Len(conds) : conds[k].type \in Combining
                    /\ Classification(conds, i + 1) = "other"
    BY <2>1, <2>3, FinalIs
  <2>6. \A k \in 1 .. Len(conds) : conds[k].type \in Deciding <=> conds[k].type \notin Combining
    BY CondHas
  <2>7. f # i  BY <1>1, <1>4, <2>4
  <2>8. f = g
    <3>1. CASE f = 0  BY <2>4, <2>5, <2>6, <3>1
    <3>2. CASE f # 0 /\ g = 0  BY <2>4, <2>5, <2>6, <2>7, <3>2
    <3>3. CASE f # 0 /\ g # 0
      <4>1. ~(f < g)  BY <2>4, <2>5, <2>6, <2>7, <3>3
      <4>2. ~(g < f)  BY <2>4, <2>5, <2>6, <2>7, <3>3
      <4>3. QED  BY <2>4, <3>3, <4>1, <4>2
    <3>4. QED  BY <3>1, <3>2, <3>3
  <2>9. QED  BY <1>1, <1>4, <2>2, <2>3, <2>4, <2>5, <2>8
<1>5. QED  BY <1>1, <1>2, <1>3, <1>4

-----------------------------------------------------------------------------
(* Links.  What a condition and those that lead to it amount to depends on  *)
(* the conditions before it only.                                           *)

Links(conds, h, truth) == MeaningOf!Links(conds, h, truth)
Link(conds, h, truth, r, i) == MeaningOf!Link(conds, h, truth, r, i)
Resets(conds, r, i) == MeaningOf!Resets(conds, r, i)
Joined(conds, truth, r, i) == MeaningOf!Joined(conds, truth, r, i)

LEMMA LinkBelow ==
  ASSUME NEW conds, NEW h, NEW truth, NEW i \in Nat, NEW r, NEW s,
         \A k \in 1 .. i - 1 : r[k] = s[k]
  PROVE  Link(conds, h, truth, r, i) = Link(conds, h, truth, s, i)
<1>1. Resets(conds, r, i) = Resets(conds, s, i)  BY DEF Resets, MeaningOf!Resets
<1>2. i > 1 => i - 1 \in 1 .. i - 1  OBVIOUS
<1>3. i > 1 => r[i - 1] = s[i - 1]  BY <1>2
<1>4. Joined(conds, truth, r, i) = Joined(conds, truth, s, i)
  BY <1>3, Zenon DEF Joined, MeaningOf!Joined
<1>5. QED
  BY <1>1, <1>4, Zenon DEF Link, MeaningOf!Link, Resets, Joined

AllLinks(conds, h, truth, r, n) == [i \in 1 .. n |-> Link(conds, h, truth, r, i)]

LEMMA LinksExist ==
  ASSUME NEW conds, NEW h, NEW truth, NEW n \in Nat
  PROVE  \E r : r = AllLinks(conds, h, truth, r, n)
<1> DEFINE T == {m \in Nat : \E r : r = AllLinks(conds, h, truth, r, m)}
<1>1. 0 \in T
  <2>1. 1 .. 0 = {}  OBVIOUS
  <2> DEFINE r == [i \in 1 .. 0 |-> 0]
  <2>2. r = AllLinks(conds, h, truth, r, 0)  BY <2>1 DEF AllLinks
  <2>3. QED  BY <2>2
<1>2. ASSUME NEW m \in T  PROVE m + 1 \in T
  <2>1. PICK r : r = AllLinks(conds, h, truth, r, m)  OBVIOUS
  <2>2. m \in Nat  OBVIOUS
  <2> HIDE DEF T
  <2> DEFINE s == [i \in 1 .. m + 1 |-> Link(conds, h, truth, r, i)]
  <2>3. \A k \in 1 .. m : s[k] = r[k]  BY <2>1, <2>2 DEF AllLinks
  <2>4. ASSUME NEW i \in 1 .. m + 1
        PROVE  Link(conds, h, truth, r, i) = Link(conds, h, truth, s, i)
    <3>1. \A k \in 1 .. i - 1 : r[k] = s[k]  BY <2>2, <2>3
    <3>2. i \in Nat  BY <2>2
    <3> HIDE DEF s
    <3>3. QED  BY <3>1, <3>2, LinkBelow
  <2>5. s = AllLinks(conds, h, truth, s, m + 1)  BY <2>4 DEF AllLinks
  <2> HIDE DEF s
  <2>6. QED  BY <2>2, <2>5 DEF T
<1> HIDE DEF T
<1>3. T \in SUBSET Nat  BY DEF T
<1>4. T = Nat  BY <1>1, <1>2, <1>3, SumLoop!Countdown
<1>5. QED  BY <1>4 DEF T

\* A group in a frame, r being its links.
Group(conds, h, truth, r) ==
  /\ conds \in Seq(CondSet) /\ SumsHaveTarget(conds)
  /\ h \in [DOMAIN conds -> Nat] /\ truth \in [DOMAIN conds -> BOOLEAN]
  /\ \A i \in DOMAIN conds : HasTarget(conds[i]) => h[i] <= conds[i].target
  /\ r = Links(conds, h, truth)

LEMMA LinksAre ==
  ASSUME NEW conds, NEW h, NEW truth, NEW r, Group(conds, h, truth, r)
  PROVE  /\ DOMAIN r = 1 .. Len(conds)
         /\ \A i \in 1 .. Len(conds) : r[i] = Link(conds, h, truth, r, i)
<1>1. conds \in Seq(CondSet) /\ r = Links(conds, h, truth)  BY DEF Group
<1>2. Len(conds) \in Nat /\ DOMAIN conds = 1 .. Len(conds)  BY <1>1
<1>3. Links(conds, h, truth) =
        CHOOSE s : s = [i \in DOMAIN conds |-> Link(conds, h, truth, s, i)]
  BY Zenon DEF Links, Link, MeaningOf!Links
<1>4. \E s : s = AllLinks(conds, h, truth, s, Len(conds))  BY <1>2, LinksExist
<1>5. r = AllLinks(conds, h, truth, r, Len(conds))  BY <1>1, <1>2, <1>3, <1>4 DEF AllLinks
<1>6. QED  BY <1>5 DEF AllLinks

LEMMA LinkIs ==
  ASSUME NEW conds, NEW h, NEW truth, NEW r, Group(conds, h, truth, r), NEW i \in 1 .. Len(conds)
  PROVE  /\ conds \in Seq(CondSet) /\ DOMAIN conds = 1 .. Len(conds)
         /\ h[i] \in Nat /\ truth[i] \in BOOLEAN
         /\ HasTarget(conds[i]) => h[i] <= conds[i].target
         /\ Joined(conds, truth, r, i) \in BOOLEAN /\ Resets(conds, r, i) \in BOOLEAN
         /\ r[i].tally = IF Resets(conds, r, i) THEN 0
                         ELSE IF Joined(conds, truth, r, i) /\ MayTally(conds[i], h[i]) THEN h[i] + 1
                         ELSE h[i]
         /\ r[i].tally \in Nat /\ (HasTarget(conds[i]) => r[i].tally <= conds[i].target)
         /\ r[i].holds \in BOOLEAN
         /\ r[i].holds <=> /\ ~Resets(conds, r, i)
                           /\ IF HasTarget(conds[i]) THEN r[i].tally = conds[i].target
                              ELSE Joined(conds, truth, r, i)
<1>1. conds \in Seq(CondSet) /\ DOMAIN conds = 1 .. Len(conds)  BY DEF Group
<1>2. h[i] \in Nat /\ truth[i] \in BOOLEAN /\ (HasTarget(conds[i]) => h[i] <= conds[i].target)
  BY <1>1 DEF Group
<1>3. conds[i].target \in Nat  BY <1>1, CondHas
<1>4. r[i] = Link(conds, h, truth, r, i)  BY LinksAre
<1> DEFINE target == conds[i].target
           reset == Resets(conds, r, i)
           joined == Joined(conds, truth, r, i)
           tally == IF reset THEN 0
                    ELSE IF joined /\ (target = 0 \/ h[i] < target) THEN h[i] + 1 ELSE h[i]
           holds == ~reset /\ IF target = 0 THEN joined ELSE tally = target
<1>5. r[i] = [tally |-> tally, holds |-> holds]
  BY <1>4, Zenon DEF Link, MeaningOf!Link, Resets, Joined
<1>6. joined \in BOOLEAN /\ reset \in BOOLEAN
  <2>1. reset \in BOOLEAN  BY DEF Resets, MeaningOf!Resets
  <2>2. joined \in BOOLEAN  BY <1>2 DEF Joined, MeaningOf!Joined
  <2>3. QED  BY <2>1, <2>2
<1>7. r[i].tally = tally /\ r[i].holds = holds /\ holds \in BOOLEAN
  <2>1. holds \in BOOLEAN  OBVIOUS
  <2> HIDE DEF tally, holds
  <2>2. QED  BY <1>5, <2>1
<1> HIDE DEF reset, joined
<1>8. tally \in Nat /\ (target # 0 => tally <= target)  BY <1>2, <1>3 DEF HasTarget
<1>9. tally = IF reset THEN 0 ELSE IF joined /\ MayTally(conds[i], h[i]) THEN h[i] + 1 ELSE h[i]
  BY DEF MayTally, HasTarget
<1>10. QED
  <2> HIDE DEF tally
  <2>1. QED  BY <1>1, <1>2, <1>6, <1>7, <1>8, <1>9 DEF HasTarget, reset, joined

\* Whether the next condition is reset.
LEMMA ResetsNext ==
  ASSUME NEW conds \in Seq(CondSet), NEW r, NEW i \in 1 .. Len(conds)
  PROVE  /\ conds[i].type = "resetNextIf" => (Resets(conds, r, i + 1) <=> r[i].holds)
         /\ conds[i].type \in {"andNext", "orNext"} =>
              (Resets(conds, r, i + 1) <=> Resets(conds, r, i))
         /\ conds[i].type \notin {"andNext", "orNext", "resetNextIf"} => ~Resets(conds, r, i + 1)
         /\ ~Resets(conds, r, 1)
<1>1. i \in Nat /\ i >= 1 /\ (i + 1) - 1 = i  OBVIOUS
<1>2. ASSUME conds[i].type = "resetNextIf"  PROVE Resets(conds, r, i + 1) <=> r[i].holds
  BY <1>1, <1>2 DEF Resets, MeaningOf!Resets
<1>3. ASSUME conds[i].type \in {"andNext", "orNext"}
      PROVE  Resets(conds, r, i + 1) <=> Resets(conds, r, i)
  <2>1. ASSUME NEW z \in 1 .. (i + 1) - 1, conds[z].type = "resetNextIf"  PROVE z \in 1 .. i - 1
    BY <1>1, <1>3, <2>1
  <2>2. ASSUME NEW z \in 1 .. i - 1
        PROVE  (\A k \in z + 1 .. (i + 1) - 1 : conds[k].type \in {"andNext", "orNext"})
                 <=> (\A k \in z + 1 .. i - 1 : conds[k].type \in {"andNext", "orNext"})
    BY <1>1, <1>3
  <2>3. \A z \in 1 .. i - 1 : z \in 1 .. (i + 1) - 1  BY <1>1
  <2>4. QED  BY <2>1, <2>2, <2>3 DEF Resets, MeaningOf!Resets
<1>4. ASSUME conds[i].type \notin {"andNext", "orNext", "resetNextIf"}
      PROVE  ~Resets(conds, r, i + 1)
  <2>1. SUFFICES ASSUME NEW z \in 1 .. (i + 1) - 1, conds[z].type = "resetNextIf",
                        \A k \in z + 1 .. (i + 1) - 1 : conds[k].type \in {"andNext", "orNext"}
                 PROVE  FALSE
    BY DEF Resets, MeaningOf!Resets
  <2>2. CASE z = i  BY <1>4, <2>1, <2>2
  <2>3. CASE z # i
    <3>1. i \in z + 1 .. (i + 1) - 1  BY <1>1, <2>3
    <3>2. QED  BY <1>4, <2>1, <3>1
  <2>4. QED  BY <2>2, <2>3
<1>5. ~Resets(conds, r, 1)
  <2>1. 1 .. 1 - 1 = {}  OBVIOUS
  <2>2. QED  BY <2>1 DEF Resets, MeaningOf!Resets
<1>6. QED  BY <1>2, <1>3, <1>4, <1>5

\* What those of the first m conditions that lead to f add to its hits.
SumTo(conds, r, f, m) == MeaningOf!Added(MeaningOf!Worth(conds, r, f), m)
Adds(conds, r, f, i) ==
  IF Final(conds, i) # f THEN 0
  ELSE IF conds[i].type = "addHits" THEN r[i].tally
  ELSE IF conds[i].type = "subHits" THEN -r[i].tally
  ELSE 0

NothingAdds(conds, r, f, m) == \A k \in 1 .. m : Adds(conds, r, f, k) = 0

LEMMA SumIs ==
  ASSUME NEW conds, NEW h, NEW truth, NEW r, Group(conds, h, truth, r), NEW f \in Nat
  PROVE  /\ SumTo(conds, r, f, 0) = 0
         /\ \A i \in 1 .. Len(conds) :
              /\ SumTo(conds, r, f, i) = SumTo(conds, r, f, i - 1) + Adds(conds, r, f, i)
              /\ Adds(conds, r, f, i) \in Int
         /\ \A m \in 0 .. Len(conds) : SumTo(conds, r, f, m) \in Int
         /\ \A m \in 0 .. Len(conds) : NothingAdds(conds, r, f, m) => SumTo(conds, r, f, m) = 0
<1>1. conds \in Seq(CondSet) /\ Len(conds) \in Nat /\ DOMAIN conds = 1 .. Len(conds)  BY DEF Group
<1>2. PICK w : w = MeaningOf!Worth(conds, r, f)  OBVIOUS
<1>3. \A i \in 1 .. Len(conds) : w[i] = Adds(conds, r, f, i) /\ w[i] \in Int
  <2>1. TAKE i \in 1 .. Len(conds)
  <2>2. r[i].tally \in Nat  BY LinkIs
  <2>3. w[i] = CASE Final(conds, i) = f /\ conds[i].type = "addHits" -> r[i].tally
                 [] Final(conds, i) = f /\ conds[i].type = "subHits" -> -r[i].tally
                 [] OTHER -> 0
    BY <1>1, <1>2 DEF MeaningOf!Worth, Final
  <2>4. QED  BY <2>2, <2>3 DEF Adds
<1>4. \A m : SumTo(conds, r, f, m) = SumLoop!Loop(w, 0, m)
  <2>1. ASSUME NEW m, NEW v  PROVE MeaningOf!Added(v, m) = SumLoop!Loop(v, 0, m)
    BY Zenon DEF MeaningOf!Added, MeaningOf!FoldLeft, MeaningOf!MapThenFoldSet, MeaningOf!Max,
                 SumLoop!Loop, SumLoop!FoldLeft, SumLoop!MapThenFoldSet, SumLoop!Max, SumBody
  <2>2. QED  BY <1>2, <2>1 DEF SumTo
<1>5. /\ SumLoop!Loop(w, 0, 0) = 0
      /\ \A n \in Nat : SumLoop!Loop(w, 0, n + 1) = SumLoop!Loop(w, 0, n) + w[n + 1]
  BY SumLoop!LoopUnfolds DEF SumBody
<1>6. ASSUME NEW i \in 1 .. Len(conds)
      PROVE  SumTo(conds, r, f, i) = SumTo(conds, r, f, i - 1) + Adds(conds, r, f, i)
  <2>1. i - 1 \in Nat /\ (i - 1) + 1 = i  OBVIOUS
  <2>2. QED  BY <1>3, <1>4, <1>5, <2>1
<1> DEFINE P(m) == /\ SumTo(conds, r, f, m) \in Int
                   /\ NothingAdds(conds, r, f, m) => SumTo(conds, r, f, m) = 0
           T == {m \in Nat : m <= Len(conds) => P(m)}
<1>7. 0 \in T  BY <1>4, <1>5
<1>8. ASSUME NEW m \in T  PROVE m + 1 \in T
  <2>1. m \in Nat  OBVIOUS
  <2>2. CASE m + 1 > Len(conds)  BY <1>1, <2>1, <2>2
  <2>3. CASE m + 1 <= Len(conds)
    <3>1. m + 1 \in 1 .. Len(conds) /\ (m + 1) - 1 = m /\ m <= Len(conds)  BY <1>1, <2>1, <2>3
    <3>2. P(m)  BY <3>1
    <3>3. SumTo(conds, r, f, m + 1) = SumTo(conds, r, f, m) + Adds(conds, r, f, m + 1)  BY <1>6, <3>1
    <3>4. Adds(conds, r, f, m + 1) \in Int  BY <1>3, <3>1
    <3>6. m + 1 \in 1 .. m + 1 /\ \A k \in 1 .. m : k \in 1 .. m + 1  BY <2>1
    <3>7. P(m + 1)  BY <3>2, <3>3, <3>4, <3>6 DEF NothingAdds
    <3>8. QED  BY <2>1, <3>7
  <2>4. QED  BY <1>1, <2>1, <2>2, <2>3
<1> HIDE DEF T
<1>9. T \in SUBSET Nat  BY DEF T
<1>10. T = Nat  BY <1>7, <1>8, <1>9, SumLoop!Countdown
<1>11. \A m \in 0 .. Len(conds) : P(m)
  <2>1. TAKE m \in 0 .. Len(conds)
  <2>2. m \in T /\ m <= Len(conds)  BY <1>1, <1>10
  <2>3. QED  BY <2>2 DEF T
<1>12. QED  BY <1>3, <1>4, <1>5, <1>6, <1>11

-----------------------------------------------------------------------------
(* The evaluation of a condition.                                           *)

EvalSet(conds) ==
  [hits : [DOMAIN conds -> Nat], valid : BOOLEAN, measured : Nat \cup {None}, addHits : Int,
   true : BOOLEAN, primed : BOOLEAN, paused : BOOLEAN, canMeasure : BOOLEAN, fromHits : BOOLEAN,
   andNext : BOOLEAN, orNext : BOOLEAN, resetNext : BOOLEAN, reset : BOOLEAN, hasHits : BOOLEAN]

\* What a condition leaves alone, whatever it comes after.
Aside(v, e) ==
  /\ v.true = e.true /\ v.primed = e.primed /\ v.paused = e.paused /\ v.reset = e.reset
  /\ v.measured = e.measured /\ v.canMeasure = e.canMeasure /\ v.fromHits = e.fromHits

\* What comes of a condition that matches or not.
Counted(n, e, conds, i, m) ==
  LET joined == (m /\ e.andNext) \/ e.orNext
      tallies == joined /\ MayTally(conds[i], e.hits[i])
      new == IF e.resetNext THEN 0 ELSE IF tallies THEN e.hits[i] + 1 ELSE e.hits[i]
  IN  /\ n \in EvalSet(conds) /\ Aside(n, e)
      /\ n.hits = [e.hits EXCEPT ![i] = new]
      /\ n.hasHits = Noticed(e, joined, e.hits[i])
      /\ n.valid <=> ~e.resetNext /\ IF tallies /\ HasTarget(conds[i]) THEN new = conds[i].target
                                     ELSE joined \/ (e.hits[i] > 0 /\ e.hits[i] = conds[i].target)
      /\ n.andNext = TRUE /\ n.orNext = FALSE /\ n.resetNext = e.resetNext /\ n.addHits = e.addHits

LEMMA NoAddHitsKeeps ==
  ASSUME NEW conds \in Seq(CondSet), NEW e \in EvalSet(conds), NEW i \in DOMAIN conds,
         NEW m \in BOOLEAN
  PROVE  Counted(NoAddHits(e, conds[i], i, m), e, conds, i, m)
<1> DEFINE joined == (m /\ e.andNext) \/ e.orNext
           tallies == joined /\ MayTally(conds[i], e.hits[i])
           new == IF e.resetNext THEN 0 ELSE IF tallies THEN e.hits[i] + 1 ELSE e.hits[i]
           newHits == [e.hits EXCEPT ![i] = new]
           noticed == Noticed(e, joined, e.hits[i])
           valid == CASE e.resetNext -> FALSE
                      [] ~e.resetNext /\ tallies /\ HasTarget(conds[i]) -> new = conds[i].target
                      [] ~e.resetNext /\ joined /\ ~(tallies /\ HasTarget(conds[i])) -> TRUE
                      [] ~e.resetNext /\ ~joined -> e.hits[i] > 0 /\ e.hits[i] = conds[i].target
<1>1. NoAddHits(e, conds[i], i, m) =
        [e EXCEPT !.hits = newHits, !.hasHits = noticed, !.valid = valid,
                  !.andNext = TRUE, !.orNext = FALSE]
  BY DEF NoAddHits
<1>2. e.hits \in [DOMAIN conds -> Nat] /\ e.resetNext \in BOOLEAN /\ e.andNext \in BOOLEAN
      /\ e.orNext \in BOOLEAN /\ e.hasHits \in BOOLEAN
  BY DEF EvalSet
<1>3. joined \in BOOLEAN /\ tallies \in BOOLEAN  OBVIOUS
<1>4. new \in Nat /\ newHits \in [DOMAIN conds -> Nat]
  <2>1. e.hits[i] \in Nat  BY <1>2
  <2>2. new \in Nat  BY <2>1
  <2> HIDE DEF new
  <2>3. QED  BY <1>2, <2>2
<1>5. noticed \in BOOLEAN  BY <1>2 DEF Noticed
<1>6. valid \in BOOLEAN
      /\ (valid <=> ~e.resetNext /\ IF tallies /\ HasTarget(conds[i]) THEN new = conds[i].target
                                    ELSE joined \/ (e.hits[i] > 0 /\ e.hits[i] = conds[i].target))
  <2> HIDE DEF joined, new
  <2>1. CASE e.resetNext  BY <2>1
  <2>2. CASE ~e.resetNext /\ tallies /\ HasTarget(conds[i])  BY <2>2
  <2>3. CASE ~e.resetNext /\ joined /\ ~(tallies /\ HasTarget(conds[i]))  BY <2>3
  <2>4. CASE ~e.resetNext /\ ~joined  BY <2>4
  <2>5. QED  BY <2>1, <2>2, <2>3, <2>4
<1> HIDE DEF newHits, noticed, valid, joined, tallies, new
<1>7. QED
  <2>1. PICK n : n = NoAddHits(e, conds[i], i, m)  OBVIOUS
  <2>2. n \in EvalSet(conds) /\ Aside(n, e)
        /\ n.hits = newHits /\ n.hasHits = noticed /\ n.valid = valid
        /\ n.andNext = TRUE /\ n.orNext = FALSE /\ n.resetNext = e.resetNext /\ n.addHits = e.addHits
    BY ZenonT(60), <1>1, <1>4, <1>5, <1>6, <2>1 DEF EvalSet, Aside
  <2>3. QED  BY <1>6, <2>1, <2>2 DEF Counted, newHits, noticed, joined, tallies, new

\* ... and of the hits that were added to its own.
Tested(c, n, conds, i) ==
  LET sum == n.hits[i] + n.addHits
      total == TotalHits(n, conds[i], i)
  IN  /\ c \in EvalSet(conds) /\ Aside(c, n)
      /\ c.hits = n.hits /\ c.hasHits = n.hasHits
      /\ c.valid <=> IF HasTarget(conds[i]) /\ n.addHits # 0 THEN sum >= conds[i].target ELSE n.valid
      /\ c.andNext = n.andNext /\ c.orNext = n.orNext /\ c.resetNext = FALSE
      /\ c.addHits = IF HasTarget(conds[i]) THEN 0 ELSE n.addHits
      /\ total \in Nat
      /\ HasTarget(conds[i]) => (total >= conds[i].target <=> sum >= conds[i].target)

LEMMA ConditionKeeps ==
  ASSUME NEW conds \in Seq(CondSet), NEW e \in EvalSet(conds), NEW i \in DOMAIN conds,
         NEW m \in BOOLEAN, NEW n, n = NoAddHits(e, conds[i], i, m), n \in EvalSet(conds)
  PROVE  Tested(EvaluateCondition(e, conds[i], i, m), n, conds, i)
<1>1. PICK c : c = EvaluateCondition(e, conds[i], i, m)  OBVIOUS
<1>2. n.hits[i] \in Nat /\ n.addHits \in Int /\ n.valid \in BOOLEAN  BY DEF EvalSet
<1>3. conds[i].target \in Nat  BY CondHas
<1> DEFINE total == TotalHits(n, conds[i], i)
           sum == n.hits[i] + n.addHits
<1>4. total \in Nat /\ (HasTarget(conds[i]) => (total >= conds[i].target
                                                  <=> sum >= conds[i].target))
      /\ sum \in Int
  BY <1>2, <1>3 DEF TotalHits, HasTarget
<1>5. PICK valid \in BOOLEAN : valid = (total >= conds[i].target)
  <2>1. (total >= conds[i].target) \in BOOLEAN  OBVIOUS
  <2>2. QED  BY <2>1, Zenon
<1>6. c = [AddUp(n, conds[i], i) EXCEPT !.resetNext = FALSE]  BY <1>1, Zenon DEF EvaluateCondition
<1>7. AddUp(n, conds[i], i) = IF n.addHits # 0 /\ HasTarget(conds[i])
                              THEN [n EXCEPT !.valid = valid, !.addHits = 0] ELSE n
  BY <1>5, Zenon DEF AddUp
<1> HIDE DEF total, sum
<1>8. CASE n.addHits # 0 /\ HasTarget(conds[i])
  <2>0. PICK none \in Int : none = 0  OBVIOUS
  <2>1. PICK a : a = [n EXCEPT !.valid = valid, !.addHits = none]  OBVIOUS
  <2>5. c = [a EXCEPT !.resetNext = FALSE]  BY <1>6, <1>7, <1>8, <2>0, <2>1
  <2>4. /\ a \in EvalSet(conds) /\ Aside(a, n) /\ a.hits = n.hits /\ a.hasHits = n.hasHits
        /\ a.valid = valid /\ a.andNext = n.andNext /\ a.orNext = n.orNext /\ a.addHits = none
    BY ZenonT(60), <2>1 DEF EvalSet, Aside
  <2>2. /\ c \in EvalSet(conds) /\ Aside(c, n) /\ c.hits = n.hits /\ c.hasHits = n.hasHits
        /\ c.valid = valid /\ c.andNext = n.andNext /\ c.orNext = n.orNext /\ c.resetNext = FALSE
        /\ c.addHits = 0
    BY ZenonT(60), <2>0, <2>4, <2>5 DEF EvalSet, Aside
  <2>3. Tested(c, n, conds, i)  BY <1>4, <1>5, <1>8, <2>2 DEF Tested, total, sum
  <2>6. QED  BY <1>1, <2>3
<1>9. CASE ~(n.addHits # 0 /\ HasTarget(conds[i]))
  <2>1. c = [n EXCEPT !.resetNext = FALSE]  BY <1>6, <1>7, <1>9
  <2>2. /\ c \in EvalSet(conds) /\ Aside(c, n) /\ c.hits = n.hits /\ c.hasHits = n.hasHits
        /\ c.valid = n.valid /\ c.andNext = n.andNext /\ c.orNext = n.orNext /\ c.resetNext = FALSE
        /\ c.addHits = n.addHits
    BY ZenonT(60), <2>1 DEF EvalSet, Aside
  <2>3. QED  BY <1>1, <1>4, <1>9, <2>2 DEF Tested, total, sum
<1>10. QED  BY <1>8, <1>9

\* Whether a condition that ends a chain lets the group be true, when the chain is valid or not.
Lets(cond, valid) ==
  cond.type \in Deciding => IF cond.type \in {"pauseIf", "resetIf"} THEN ~valid ELSE valid

\* What is carried to the next condition, by one that leads to it.
Leads(v, n, cond, i) ==
  /\ v.andNext = (cond.type = "andNext" => n.valid)
  /\ v.orNext = (cond.type = "orNext" /\ n.valid)
  /\ v.resetNext = \/ cond.type = "resetNextIf" /\ n.valid
                   \/ cond.type \in {"andNext", "orNext"} /\ n.resetNext
  /\ v.addHits = CASE cond.type = "addHits" -> n.addHits + n.hits[i]
                   [] cond.type = "subHits" -> n.addHits - n.hits[i]
                   [] OTHER -> n.addHits
Led(v, n, conds, i) ==
  /\ v \in EvalSet(conds) /\ Aside(v, n) /\ v.hits = n.hits /\ v.hasHits = n.hasHits
  /\ Leads(v, n, conds[i], i)

LEMMA LeadKeeps ==
  ASSUME NEW conds \in Seq(CondSet), NEW n \in EvalSet(conds), NEW i \in DOMAIN conds,
         conds[i].type \in Combining, n.andNext = TRUE, n.orNext = FALSE
  PROVE  Led(Lead(n, conds[i], i), n, conds, i)
<1>1. PICK v : v = Lead(n, conds[i], i)  OBVIOUS
<1>2. n.hits[i] \in Nat /\ n.addHits \in Int /\ n.valid \in BOOLEAN /\ n.resetNext \in BOOLEAN
  BY DEF EvalSet
<1> DEFINE more == n.addHits + n.hits[i]
           less == n.addHits - n.hits[i]
<1>3. more \in Int /\ less \in Int  BY <1>2
<1>4. CASE conds[i].type = "addHits"
  <2>1. v = [n EXCEPT !.addHits = more, !.resetNext = FALSE]  BY <1>1, <1>4 DEF Lead
  <2> HIDE DEF more, less
  <2>2. /\ v \in EvalSet(conds) /\ Aside(v, n) /\ v.hits = n.hits /\ v.hasHits = n.hasHits
        /\ v.andNext = n.andNext /\ v.orNext = n.orNext /\ v.resetNext = FALSE /\ v.addHits = more
    BY <1>3, <2>1 DEF EvalSet, Aside
  <2>3. QED  BY <1>1, <1>2, <1>4, <2>2 DEF Led, Leads, more
<1>5. CASE conds[i].type = "subHits"
  <2>1. v = [n EXCEPT !.addHits = less, !.resetNext = FALSE]  BY <1>1, <1>5 DEF Lead
  <2> HIDE DEF more, less
  <2>2. /\ v \in EvalSet(conds) /\ Aside(v, n) /\ v.hits = n.hits /\ v.hasHits = n.hasHits
        /\ v.andNext = n.andNext /\ v.orNext = n.orNext /\ v.resetNext = FALSE /\ v.addHits = less
    BY <1>3, <2>1 DEF EvalSet, Aside
  <2>3. QED  BY <1>1, <1>2, <1>5, <2>2 DEF Led, Leads, less
<1>6. CASE conds[i].type = "resetNextIf"
  <2>1. v = [n EXCEPT !.resetNext = n.valid]  BY <1>1, <1>6 DEF Lead
  <2>2. /\ v \in EvalSet(conds) /\ Aside(v, n) /\ v.hits = n.hits /\ v.hasHits = n.hasHits
        /\ v.andNext = n.andNext /\ v.orNext = n.orNext /\ v.resetNext = n.valid
        /\ v.addHits = n.addHits
    BY <2>1 DEF EvalSet, Aside
  <2>3. QED  BY <1>1, <1>2, <1>6, <2>2 DEF Led, Leads
<1>7. CASE conds[i].type = "andNext"
  <2>1. v = [n EXCEPT !.andNext = n.valid]  BY <1>1, <1>7 DEF Lead
  <2>2. /\ v \in EvalSet(conds) /\ Aside(v, n) /\ v.hits = n.hits /\ v.hasHits = n.hasHits
        /\ v.andNext = n.valid /\ v.orNext = n.orNext /\ v.resetNext = n.resetNext
        /\ v.addHits = n.addHits
    BY <2>1 DEF EvalSet, Aside
  <2>3. QED  BY <1>1, <1>2, <1>7, <2>2 DEF Led, Leads
<1>8. CASE conds[i].type = "orNext"
  <2>1. v = [n EXCEPT !.orNext = n.valid]  BY <1>1, <1>8 DEF Lead
  <2>2. /\ v \in EvalSet(conds) /\ Aside(v, n) /\ v.hits = n.hits /\ v.hasHits = n.hasHits
        /\ v.andNext = n.andNext /\ v.orNext = n.valid /\ v.resetNext = n.resetNext
        /\ v.addHits = n.addHits
    BY <2>1 DEF EvalSet, Aside
  <2>3. QED  BY <1>1, <1>2, <1>8, <2>2 DEF Led, Leads
<1>9. QED  BY <1>4, <1>5, <1>6, <1>7, <1>8 DEF Combining

\* Whether the chain that i ends is valid, and what comes of it.
Decides(ok, n, conds, i) ==
  LET sum == n.hits[i] + n.addHits
  IN  \/ ok = IF HasTarget(conds[i]) /\ n.addHits # 0 THEN sum >= conds[i].target ELSE n.valid
      \/ conds[i].type = "measured" /\ HasTarget(conds[i]) /\ ok = (sum >= conds[i].target)

Settles(v, n, conds, i, ok) ==
  LET type == conds[i].type
  IN  /\ v \in EvalSet(conds)
      /\ v.hits = IF type = "pauseIf" /\ ~ok /\ ~HasTarget(conds[i]) THEN [n.hits EXCEPT ![i] = 0]
                  ELSE n.hits
      /\ v.hasHits = n.hasHits
      /\ v.paused = (n.paused \/ (type = "pauseIf" /\ ok))
      /\ v.reset = (n.reset \/ (type = "resetIf" /\ ok))
      /\ v.true = (n.true /\ Lets(conds[i], ok))
      /\ v.primed = (n.primed /\ (type # "trigger" => Lets(conds[i], ok)))
      /\ v.andNext = TRUE /\ v.orNext = FALSE /\ v.resetNext = FALSE
      /\ v.addHits = IF HasTarget(conds[i]) THEN 0 ELSE n.addHits
      /\ type # "measured" => v.measured = n.measured /\ v.fromHits = n.fromHits
      /\ type = "measured" => v.measured \in Nat
      /\ type = "measured" /\ HasTarget(conds[i]) =>
           v.measured = TotalHits(n, conds[i], i) /\ v.fromHits = TRUE
      /\ type # "measuredIf" => v.canMeasure = n.canMeasure

Concluded(v, n, conds, i) ==
  \E ok \in BOOLEAN : Decides(ok, n, conds, i) /\ Settles(v, n, conds, i, ok)

Shown(v, c, conds, valid, shown, fromHits) ==
  /\ v \in EvalSet(conds)
  /\ v.hits = c.hits /\ v.hasHits = c.hasHits /\ v.paused = c.paused /\ v.reset = c.reset
  /\ v.true = (c.true /\ valid) /\ v.primed = (c.primed /\ valid)
  /\ v.andNext = c.andNext /\ v.orNext = c.orNext /\ v.resetNext = FALSE
  /\ v.addHits = c.addHits /\ v.canMeasure = c.canMeasure
  /\ v.measured = shown /\ v.fromHits = fromHits

LEMMA MeasureKeeps ==
  ASSUME NEW conds, NEW c \in EvalSet(conds), NEW valid \in BOOLEAN, NEW shown \in Nat,
         NEW fromHits \in BOOLEAN
  PROVE  Shown(Measure(c, valid, shown, fromHits), c, conds, valid, shown, fromHits)
<1>1. PICK v : v = Measure(c, valid, shown, fromHits)  OBVIOUS
<1> DEFINE true == c.true /\ valid
           primed == c.primed /\ valid
<1>2. true \in BOOLEAN /\ primed \in BOOLEAN  OBVIOUS
<1>3. v = [c EXCEPT !.true = true, !.primed = primed, !.measured = shown, !.fromHits = fromHits,
                    !.resetNext = FALSE]
  BY <1>1 DEF Measure
<1> HIDE DEF true, primed
<1>4. v \in EvalSet(conds)
  <2>1. PICK no \in BOOLEAN : no = FALSE  OBVIOUS
  <2>2. PICK t : t = [c EXCEPT !.true = true, !.primed = primed]  OBVIOUS
  <2>3. PICK u : u = [t EXCEPT !.measured = shown, !.fromHits = fromHits]  OBVIOUS
  <2>4. t \in EvalSet(conds)  BY <1>2, <2>2 DEF EvalSet
  <2>5. u \in EvalSet(conds)  BY <2>3, <2>4 DEF EvalSet
  <2>6. v = [u EXCEPT !.resetNext = no]  BY <1>3, <2>1, <2>2, <2>3
  <2>7. QED  BY <2>5, <2>6 DEF EvalSet
<1>5. /\ v.hits = c.hits /\ v.hasHits = c.hasHits /\ v.paused = c.paused /\ v.reset = c.reset
      /\ v.true = true /\ v.primed = primed
      /\ v.andNext = c.andNext /\ v.orNext = c.orNext /\ v.resetNext = FALSE
      /\ v.addHits = c.addHits /\ v.canMeasure = c.canMeasure
      /\ v.measured = shown /\ v.fromHits = fromHits
  BY <1>3 DEF EvalSet
<1>6. QED  BY <1>1, <1>4, <1>5 DEF Shown, true, primed

LEMMA ConcludeKeeps ==
  ASSUME NEW conds \in Seq(CondSet), NEW i \in DOMAIN conds, NEW n \in EvalSet(conds), NEW c,
         Tested(c, n, conds, i), n.andNext = TRUE, n.orNext = FALSE,
         conds[i].type \in Deciding \ {"measured"}
  PROVE  Concluded(Conclude(c, conds[i], i), n, conds, i)
<1>1. PICK v : v = Conclude(c, conds[i], i)  OBVIOUS
<1>2. PICK ok \in BOOLEAN : ok = c.valid  BY DEF Tested, EvalSet
<1>3. /\ c \in EvalSet(conds) /\ Aside(c, n) /\ c.hits = n.hits /\ c.hasHits = n.hasHits
      /\ c.andNext = TRUE /\ c.orNext = FALSE /\ c.resetNext = FALSE
      /\ c.addHits = IF HasTarget(conds[i]) THEN 0 ELSE n.addHits
  BY DEF Tested
<1>4. Decides(ok, n, conds, i)
  <2>1. ok <=> IF HasTarget(conds[i]) /\ n.addHits # 0
               THEN n.hits[i] + n.addHits >= conds[i].target ELSE n.valid
    BY <1>2 DEF Tested
  <2>2. n.valid \in BOOLEAN  BY DEF EvalSet
  <2>3. QED  BY <2>1, <2>2 DEF Decides
<1> DEFINE true == c.true /\ ok
           primed == c.primed /\ ok
           can == c.canMeasure /\ ok
           unhit == [c.hits EXCEPT ![i] = 0]
<1>5. true \in BOOLEAN /\ primed \in BOOLEAN /\ can \in BOOLEAN  OBVIOUS
<1>6. unhit \in [DOMAIN conds -> Nat]  BY <1>3 DEF EvalSet
<1> DEFINE Rest(u) == /\ u \in EvalSet(conds) /\ u.hasHits = c.hasHits
                      /\ u.andNext = c.andNext /\ u.orNext = c.orNext /\ u.resetNext = c.resetNext
                      /\ u.addHits = c.addHits /\ u.measured = c.measured /\ u.fromHits = c.fromHits
<1> HIDE DEF true, primed, can, unhit
<1>7. CASE conds[i].type = "standard"
  <2>1. v = [c EXCEPT !.true = true, !.primed = primed]  BY <1>1, <1>2, <1>7 DEF Conclude, true, primed
  <2>2. /\ Rest(v) /\ v.hits = c.hits /\ v.paused = c.paused /\ v.reset = c.reset
        /\ v.true = true /\ v.primed = primed /\ v.canMeasure = c.canMeasure
    <3>1. v \in EvalSet(conds)
      <4>1. PICK t : t = [c EXCEPT !.true = true]  OBVIOUS
      <4>2. t \in EvalSet(conds)  BY <1>3, <1>5, <4>1 DEF EvalSet
      <4>3. v = [t EXCEPT !.primed = primed]  BY <2>1, <4>1
      <4>4. QED  BY <1>5, <4>2, <4>3 DEF EvalSet
    <3>2. /\ v.hasHits = c.hasHits /\ v.hits = c.hits /\ v.paused = c.paused /\ v.reset = c.reset
          /\ v.true = true /\ v.primed = primed /\ v.canMeasure = c.canMeasure
      BY <1>3, <2>1 DEF EvalSet
    <3>3. /\ v.andNext = c.andNext /\ v.orNext = c.orNext /\ v.resetNext = c.resetNext
          /\ v.addHits = c.addHits /\ v.measured = c.measured /\ v.fromHits = c.fromHits
      BY <1>3, <2>1 DEF EvalSet
    <3>4. QED  BY <3>1, <3>2, <3>3
  <2>3. Settles(v, n, conds, i, ok)
    BY <1>3, <1>7, <2>2 DEF Settles, Aside, Lets, true, primed, EvalSet, Deciding, MeaningOf!Deciding
  <2>4. QED  BY <1>1, <1>4, <2>3 DEF Concluded
<1>8. CASE conds[i].type = "trigger"
  <2>1. v = [c EXCEPT !.true = true]  BY <1>1, <1>2, <1>8 DEF Conclude, true
  <2>2. /\ Rest(v) /\ v.hits = c.hits /\ v.paused = c.paused /\ v.reset = c.reset
        /\ v.true = true /\ v.primed = c.primed /\ v.canMeasure = c.canMeasure
    BY <1>3, <1>5, <2>1 DEF EvalSet
  <2>3. Settles(v, n, conds, i, ok)
    BY <1>3, <1>8, <2>2 DEF Settles, Aside, Lets, true, EvalSet, Deciding, MeaningOf!Deciding
  <2>4. QED  BY <1>1, <1>4, <2>3 DEF Concluded
<1>9. CASE conds[i].type = "measuredIf"
  <2>1. v = [c EXCEPT !.true = true, !.primed = primed, !.canMeasure = can]
    BY <1>1, <1>2, <1>9 DEF Conclude, true, primed, can
  <2>2. /\ Rest(v) /\ v.hits = c.hits /\ v.paused = c.paused /\ v.reset = c.reset
        /\ v.true = true /\ v.primed = primed
    <3>1. PICK u : u = [c EXCEPT !.true = true, !.primed = primed]  OBVIOUS
    <3>2. /\ Rest(u) /\ u.hits = c.hits /\ u.paused = c.paused /\ u.reset = c.reset
          /\ u.true = true /\ u.primed = primed
      <4>1. u \in EvalSet(conds)
        <5>1. PICK t : t = [c EXCEPT !.true = true]  OBVIOUS
        <5>2. t \in EvalSet(conds)  BY <1>3, <1>5, <5>1 DEF EvalSet
        <5>3. u = [t EXCEPT !.primed = primed]  BY <3>1, <5>1
        <5>4. QED  BY <1>5, <5>2, <5>3 DEF EvalSet
      <4>2. /\ u.hasHits = c.hasHits /\ u.hits = c.hits /\ u.paused = c.paused /\ u.reset = c.reset
            /\ u.true = true /\ u.primed = primed
        BY <1>3, <3>1 DEF EvalSet
      <4>3. /\ u.andNext = c.andNext /\ u.orNext = c.orNext /\ u.resetNext = c.resetNext
            /\ u.addHits = c.addHits /\ u.measured = c.measured /\ u.fromHits = c.fromHits
        BY <1>3, <3>1 DEF EvalSet
      <4>4. QED  BY <4>1, <4>2, <4>3
    <3>3. v = [u EXCEPT !.canMeasure = can]  BY <1>3, <2>1, <3>1 DEF EvalSet
    <3>4. QED  BY <1>5, <3>2, <3>3 DEF EvalSet
  <2>3. Settles(v, n, conds, i, ok)
    BY <1>3, <1>9, <2>2 DEF Settles, Aside, Lets, true, primed, EvalSet, Deciding, MeaningOf!Deciding
  <2>4. QED  BY <1>1, <1>4, <2>3 DEF Concluded
<1>10. CASE conds[i].type = "pauseIf" /\ ok
  <2>1. v = [c EXCEPT !.paused = TRUE, !.true = FALSE, !.primed = FALSE]
    BY <1>1, <1>2, <1>10 DEF Conclude
  <2>2. /\ Rest(v) /\ v.hits = c.hits /\ v.paused = TRUE /\ v.reset = c.reset
        /\ v.true = FALSE /\ v.primed = FALSE /\ v.canMeasure = c.canMeasure
    BY <1>3, <2>1 DEF EvalSet
  <2>3. Settles(v, n, conds, i, ok)
    BY <1>3, <1>10, <2>2 DEF Settles, Aside, Lets, EvalSet, Deciding, MeaningOf!Deciding
  <2>4. QED  BY <1>1, <1>4, <2>3 DEF Concluded
<1>11. CASE conds[i].type = "pauseIf" /\ ~ok
  <2>1. v = [c EXCEPT !.hits = IF HasTarget(conds[i]) THEN c.hits ELSE unhit]
    BY <1>1, <1>2, <1>3, <1>11 DEF Conclude, unhit, EvalSet
  <2>2. /\ Rest(v) /\ v.hits = (IF HasTarget(conds[i]) THEN c.hits ELSE unhit)
        /\ v.paused = c.paused /\ v.reset = c.reset
        /\ v.true = c.true /\ v.primed = c.primed /\ v.canMeasure = c.canMeasure
    BY <1>3, <1>6, <2>1 DEF EvalSet
  <2>3. Settles(v, n, conds, i, ok)
    BY <1>3, <1>11, <2>2 DEF Settles, Aside, Lets, unhit, EvalSet, Deciding, MeaningOf!Deciding
  <2>4. QED  BY <1>1, <1>4, <2>3 DEF Concluded
<1>12. CASE conds[i].type = "resetIf" /\ ok
  <2>1. v = [c EXCEPT !.reset = TRUE, !.true = FALSE, !.primed = FALSE]
    BY <1>1, <1>2, <1>12 DEF Conclude
  <2>2. /\ Rest(v) /\ v.hits = c.hits /\ v.paused = c.paused /\ v.reset = TRUE
        /\ v.true = FALSE /\ v.primed = FALSE /\ v.canMeasure = c.canMeasure
    BY <1>3, <2>1 DEF EvalSet
  <2>3. Settles(v, n, conds, i, ok)
    BY <1>3, <1>12, <2>2 DEF Settles, Aside, Lets, EvalSet, Deciding, MeaningOf!Deciding
  <2>4. QED  BY <1>1, <1>4, <2>3 DEF Concluded
<1>13. CASE conds[i].type = "resetIf" /\ ~ok
  <2>1. v = c  BY <1>1, <1>2, <1>13 DEF Conclude
  <2>2. Settles(v, n, conds, i, ok)
    BY <1>3, <1>13, <2>1 DEF Settles, Aside, Lets, EvalSet, Deciding, MeaningOf!Deciding
  <2>3. QED  BY <1>1, <1>4, <2>2 DEF Concluded
<1>14. QED
  BY <1>7, <1>8, <1>9, <1>10, <1>11, <1>12, <1>13 DEF Deciding, MeaningOf!Deciding

LEMMA MeasuredKeeps ==
  ASSUME NEW conds \in Seq(CondSet), NEW i \in DOMAIN conds, NEW e \in EvalSet(conds),
         NEW m \in BOOLEAN, NEW value \in Nat, NEW n, n = NoAddHits(e, conds[i], i, m),
         n \in EvalSet(conds), n.andNext = TRUE, n.orNext = FALSE,
         conds[i].type = "measured"
  PROVE  Concluded(EvaluateMeasured(e, conds[i], i, m, value), n, conds, i)
<1>1. PICK v : v = EvaluateMeasured(e, conds[i], i, m, value)  OBVIOUS
<1>2. PICK c : c = EvaluateCondition(e, conds[i], i, m)  OBVIOUS
<1>3. Tested(c, n, conds, i)  BY <1>2, ConditionKeeps
<1>4. PICK total : total = TotalHits(n, conds[i], i)  OBVIOUS
<1>5. total \in Nat  BY <1>3, <1>4 DEF Tested
<1>6. n.valid \in BOOLEAN /\ n.hits[i] \in Nat /\ n.addHits \in Int  BY DEF EvalSet
<1>7. CASE HasTarget(conds[i])
  <2>1. PICK ok \in BOOLEAN : ok = (total >= conds[i].target)
    <3>1. (total >= conds[i].target) \in BOOLEAN  OBVIOUS
    <3>2. QED  BY <3>1, Zenon
  <2>2. PICK none \in Int : none = 0  OBVIOUS
  <2>3. PICK a : a = [n EXCEPT !.addHits = none]  OBVIOUS
  <2>4. /\ a \in EvalSet(conds) /\ Aside(a, n) /\ a.hits = n.hits /\ a.hasHits = n.hasHits
        /\ a.andNext = n.andNext /\ a.orNext = n.orNext /\ a.addHits = none
    BY <2>3 DEF EvalSet, Aside
  <2>5. PICK yes \in BOOLEAN : yes = TRUE  OBVIOUS
  <2>6. v = Measure(a, ok, total, yes)
    BY <1>1, <1>4, <1>7, <2>1, <2>2, <2>3, <2>5, Zenon DEF EvaluateMeasured
  <2>10. Shown(v, a, conds, ok, total, yes)  BY <1>5, <2>4, <2>6, MeasureKeeps
  <2>7. Decides(ok, n, conds, i)
    <3>1. ok = (n.hits[i] + n.addHits >= conds[i].target)
      <4>1. (n.hits[i] + n.addHits >= conds[i].target) \in BOOLEAN  OBVIOUS
      <4>2. ok <=> n.hits[i] + n.addHits >= conds[i].target  BY <1>3, <1>4, <1>7, <2>1 DEF Tested
      <4>3. QED  BY <4>1, <4>2
    <3>2. QED  BY <1>7, <3>1, Zenon DEF Decides
  <2>8. Settles(v, n, conds, i, ok)
    BY <1>4, <1>5, <1>7, <2>2, <2>4, <2>5, <2>10
       DEF Settles, Shown, Aside, Lets, EvalSet, Deciding, MeaningOf!Deciding
  <2>9. QED  BY <1>1, <2>7, <2>8 DEF Concluded
<1>8. CASE ~HasTarget(conds[i])
  <2>1. /\ c \in EvalSet(conds) /\ Aside(c, n) /\ c.hits = n.hits /\ c.hasHits = n.hasHits
        /\ c.andNext = TRUE /\ c.orNext = FALSE /\ c.resetNext = FALSE
        /\ c.addHits = n.addHits /\ (c.valid <=> n.valid)
    BY <1>3, <1>8 DEF Tested
  <2>2. PICK ok \in BOOLEAN : ok = c.valid  BY <2>1 DEF EvalSet
  <2>3. PICK no \in BOOLEAN : no = FALSE  OBVIOUS
  <2>4. v = Measure(c, ok, value, no)
    BY <1>1, <1>2, <1>8, <2>2, <2>3, Zenon DEF EvaluateMeasured
  <2>8. Shown(v, c, conds, ok, value, no)  BY <2>1, <2>4, MeasureKeeps
  <2>5. Decides(ok, n, conds, i)  BY <1>6, <1>8, <2>1, <2>2 DEF Decides
  <2>6. Settles(v, n, conds, i, ok)
    BY <1>8, <2>1, <2>2, <2>8 DEF Settles, Shown, Aside, Lets, EvalSet, Deciding, MeaningOf!Deciding
  <2>7. QED  BY <1>1, <2>5, <2>6 DEF Concluded
<1>9. QED  BY <1>7, <1>8

\* What the evaluation of a condition does: it counts, and leads to the next or is settled.
Evaluated(v, e, conds, i, m) ==
  \E n \in EvalSet(conds) :
    /\ Counted(n, e, conds, i, m)
    /\ \/ conds[i].type \in Combining /\ Led(v, n, conds, i)
       \/ conds[i].type \in Deciding /\ Concluded(v, n, conds, i)

LEMMA EvaluateKeeps ==
  ASSUME NEW conds \in Seq(CondSet), NEW i \in DOMAIN conds, NEW e \in EvalSet(conds),
         NEW m \in BOOLEAN, NEW value \in Nat
  PROVE  Evaluated(Evaluate(e, conds[i], i, m, value), e, conds, i, m)
<1>1. PICK v : v = Evaluate(e, conds[i], i, m, value)  OBVIOUS
<1>2. PICK n : n = NoAddHits(e, conds[i], i, m)  OBVIOUS
<1>3. Counted(n, e, conds, i, m)  BY <1>2, NoAddHitsKeeps
<1>4. n \in EvalSet(conds) /\ n.andNext = TRUE /\ n.orNext = FALSE  BY <1>3 DEF Counted
<1>5. conds[i].type \in Combining \/ conds[i].type \in Deciding  BY CondHas
<1>6. conds[i].type = "measured" => conds[i].type \notin Combining  BY DEF Combining
<1>7. CASE conds[i].type \in Combining
  <2>1. v = Lead(n, conds[i], i)  BY <1>1, <1>2, <1>6, <1>7 DEF Evaluate
  <2>2. Led(v, n, conds, i)  BY <1>4, <1>7, <2>1, LeadKeeps
  <2>3. QED  BY <1>1, <1>3, <1>4, <1>7, <2>2 DEF Evaluated
<1>8. CASE conds[i].type = "measured"
  <2>1. v = EvaluateMeasured(e, conds[i], i, m, value)  BY <1>1, <1>6, <1>8 DEF Evaluate
  <2>2. Concluded(v, n, conds, i)
    BY <1>2, <1>4, <1>8, <2>1, MeasuredKeeps
  <2>3. QED  BY <1>1, <1>3, <1>4, <1>5, <1>6, <1>8, <2>2 DEF Evaluated
<1>9. CASE conds[i].type \in Deciding \ {"measured"}
  <2>1. conds[i].type \notin Combining  BY <1>9, CondHas
  <2>2. v = Conclude(EvaluateCondition(e, conds[i], i, m), conds[i], i)
    BY <1>1, <1>9, <2>1 DEF Evaluate
  <2>3. PICK c : c = EvaluateCondition(e, conds[i], i, m)  OBVIOUS
  <2>4. Tested(c, n, conds, i)  BY <1>2, <1>4, <2>3, ConditionKeeps
  <2>5. v = Conclude(c, conds[i], i)  BY <2>2, <2>3
  <2>6. Concluded(v, n, conds, i)
    BY <1>4, <1>9, <2>4, <2>5, ConcludeKeeps
  <2>7. QED  BY <1>1, <1>3, <1>4, <1>9, <2>6 DEF Evaluated
<1>10. QED  BY <1>5, <1>7, <1>8, <1>9

-----------------------------------------------------------------------------
(* The evaluation of a condition against its link.                          *)

Valid(conds, r, i) == MeaningOf!Valid(conds, r, i)
Kept(conds, r, i) == MeaningOf!Kept(conds, r, i)
Total(conds, r, i) == r[i].tally + SumTo(conds, r, i, i - 1)

LEMMA TotalIs ==
  ASSUME NEW conds, NEW h, NEW truth, NEW r, Group(conds, h, truth, r), NEW i \in 1 .. Len(conds)
  PROVE  /\ Valid(conds, r, i) \in BOOLEAN
         /\ Valid(conds, r, i) <=> IF HasTarget(conds[i])
                                   THEN Total(conds, r, i) >= conds[i].target ELSE r[i].holds
         /\ Kept(conds, r, i) = IF conds[i].type = "pauseIf" /\ ~HasTarget(conds[i]) /\ ~r[i].holds
                                THEN 0 ELSE r[i].tally
         /\ Kept(conds, r, i) \in Nat
<1>1. r[i].holds \in BOOLEAN /\ r[i].tally \in Nat  BY LinkIs
<1>2. Kept(conds, r, i) = IF conds[i].type = "pauseIf" /\ ~HasTarget(conds[i]) /\ ~r[i].holds
                          THEN 0 ELSE r[i].tally
  BY DEF Kept, MeaningOf!Kept, HasTarget
<1>3. Valid(conds, r, i) = IF conds[i].target = 0 THEN r[i].holds
                           ELSE Total(conds, r, i) >= conds[i].target
  BY Zenon DEF Valid, MeaningOf!Valid, Total, MeaningOf!Total, SumTo
<1>4. CASE conds[i].target = 0
  <2>1. ~HasTarget(conds[i]) /\ Valid(conds, r, i) = r[i].holds  BY <1>3, <1>4 DEF HasTarget
  <2>2. QED  BY <1>1, <1>2, <2>1
<1>5. CASE conds[i].target # 0
  <2>1. (Total(conds, r, i) >= conds[i].target) \in BOOLEAN  OBVIOUS
  <2>2. PICK b \in BOOLEAN : b = (Total(conds, r, i) >= conds[i].target)  BY <2>1, Zenon
  <2>3. HasTarget(conds[i]) /\ Valid(conds, r, i) = b  BY <1>3, <1>5, <2>2 DEF HasTarget
  <2>4. QED  BY <1>1, <1>2, <2>2, <2>3
<1>6. QED  BY <1>4, <1>5

\* No chain is under way.
Fresh(e) == e.addHits = 0 /\ e.andNext = TRUE /\ e.orNext = FALSE /\ e.resetNext = FALSE

\* What leads to condition i is carried to it.
Carries(e, conds, r, i) ==
  /\ e.resetNext <=> Resets(conds, r, i)
  /\ e.andNext <=> (i > 1 /\ conds[i - 1].type = "andNext" => r[i - 1].holds)
  /\ e.orNext <=> (i > 1 /\ conds[i - 1].type = "orNext" /\ r[i - 1].holds)
  /\ e.addHits = SumTo(conds, r, Final(conds, i), i - 1)

LEMMA ChainStarts ==
  ASSUME NEW conds, NEW h, NEW truth, NEW r, Group(conds, h, truth, r), NEW i \in 1 .. Len(conds),
         i > 1 => conds[i - 1].type \in Deciding, NEW e, Fresh(e)
  PROVE  Carries(e, conds, r, i)
<1>1. conds \in Seq(CondSet) /\ Len(conds) \in Nat  BY DEF Group
<1>2. \A k \in 1 .. i - 1 : Final(conds, k) # Final(conds, i)
  <2>1. TAKE k \in 1 .. i - 1
  <2>2. k \in 1 .. Len(conds) /\ i - 1 \in 1 .. Len(conds) /\ k <= i - 1  BY <1>1
  <2>3. conds[i - 1].type \notin Combining  BY <1>1, <2>2, CondHas
  <2>4. Final(conds, k) # 0  BY <1>1, <2>2, <2>3, FinalIs
  <2>5. Final(conds, k) \in k .. Len(conds)  BY <1>1, <2>2, <2>4, FinalIs
  <2>6. \A j \in k .. Final(conds, k) - 1 : conds[j].type \in Combining
    BY <1>1, <2>2, <2>4, FinalIs
  <2>7. ~(Final(conds, k) >= i)  BY <2>2, <2>3, <2>5, <2>6
  <2>8. Final(conds, i) \in {0} \cup (i .. Len(conds))  BY <1>1, FinalIs
  <2>9. QED  BY <2>2, <2>4, <2>5, <2>7, <2>8
<1>3. SumTo(conds, r, Final(conds, i), i - 1) = 0
  <2>1. \A k \in 1 .. i - 1 : Adds(conds, r, Final(conds, i), k) = 0  BY <1>2 DEF Adds
  <2>2. i - 1 \in 0 .. Len(conds)  BY <1>1
  <2>3. NothingAdds(conds, r, Final(conds, i), i - 1)  BY <2>1 DEF NothingAdds
  <2>4. Final(conds, i) \in Nat
    <3>1. Final(conds, i) \in {0} \cup (i .. Len(conds))  BY <1>1, FinalIs
    <3>2. QED  BY <1>1, <3>1
  <2>5. QED  BY <2>2, <2>3, <2>4, SumIs
<1>4. ~Resets(conds, r, i)
  <2>1. CASE i = 1  BY <1>1, <2>1, ResetsNext
  <2>2. CASE i > 1
    <3>1. i - 1 \in 1 .. Len(conds) /\ (i - 1) + 1 = i  BY <1>1, <2>2
    <3>2. conds[i - 1].type \notin Combining  BY <1>1, <2>2, <3>1, CondHas
    <3>3. conds[i - 1].type \notin {"andNext", "orNext", "resetNextIf"}  BY <3>2 DEF Combining
    <3>4. ~Resets(conds, r, (i - 1) + 1)  BY <1>1, <3>1, <3>3, ResetsNext
    <3>5. QED  BY <3>1, <3>4
  <2>3. QED  BY <2>1, <2>2
<1>5. i > 1 => conds[i - 1].type \notin {"andNext", "orNext"}
  <2>1. SUFFICES ASSUME i > 1  PROVE conds[i - 1].type \notin {"andNext", "orNext"}
    OBVIOUS
  <2>2. i - 1 \in 1 .. Len(conds)  BY <1>1, <2>1
  <2>3. conds[i - 1].type \notin Combining  BY <1>1, <2>1, <2>2, CondHas
  <2>4. QED  BY <2>3 DEF Combining
<1>6. QED  BY <1>3, <1>4, <1>5 DEF Carries, Fresh

\* A condition that has no target has no sum either.
LEMMA NothingAdded ==
  ASSUME NEW conds, NEW h, NEW truth, NEW r, Group(conds, h, truth, r), NEW i \in 1 .. Len(conds),
         conds[i].type \in Deciding, ~HasTarget(conds[i])
  PROVE  SumTo(conds, r, i, i - 1) = 0
<1>1. conds \in Seq(CondSet) /\ SumsHaveTarget(conds) /\ Len(conds) \in Nat
      /\ DOMAIN conds = 1 .. Len(conds)
  BY DEF Group
<1>2. \A k \in 1 .. i - 1 : Adds(conds, r, i, k) = 0
  <2>1. TAKE k \in 1 .. i - 1
  <2>2. k \in 1 .. Len(conds) /\ i \in k .. Len(conds) /\ i # 0  BY <1>1
  <2>3. SUFFICES ASSUME Final(conds, k) = i  PROVE conds[k].type \notin {"addHits", "subHits"}
    BY DEF Adds
  <2>4. \A j \in k .. i - 1 : conds[j].type \in Combining  BY <1>1, <2>2, <2>3, FinalIs
  <2>5. conds[i].type \notin Combining  BY <1>1, CondHas
  <2>6. conds[i].target = 0  BY DEF HasTarget
  <2>7. QED  BY <1>1, <2>2, <2>4, <2>5, <2>6 DEF SumsHaveTarget
<1>3. i - 1 \in 0 .. Len(conds)  BY <1>1
<1>4. NothingAdds(conds, r, i, i - 1)  BY <1>2 DEF NothingAdds
<1>5. i \in Nat  BY <1>1
<1>6. QED  BY <1>3, <1>4, <1>5, SumIs

\* The hits of a condition, and whether it holds, are those of its link.
LEMMA CountIsLink ==
  ASSUME NEW conds, NEW h, NEW truth, NEW r, Group(conds, h, truth, r), NEW i \in 1 .. Len(conds),
         NEW e \in EvalSet(conds), e.hits[i] = h[i], Carries(e, conds, r, i),
         NEW n, Counted(n, e, conds, i, truth[i])
  PROVE  /\ n.hits = [e.hits EXCEPT ![i] = r[i].tally]
         /\ n.valid = r[i].holds
         /\ e.hasHits => n.hasHits
         /\ r[i].tally > 0 \/ r[i].holds => n.hasHits
<1>1. /\ conds \in Seq(CondSet) /\ DOMAIN conds = 1 .. Len(conds)
      /\ h[i] \in Nat /\ truth[i] \in BOOLEAN
      /\ HasTarget(conds[i]) => h[i] <= conds[i].target
      /\ r[i].tally = IF Resets(conds, r, i) THEN 0
                      ELSE IF Joined(conds, truth, r, i) /\ MayTally(conds[i], h[i]) THEN h[i] + 1
                      ELSE h[i]
      /\ r[i].holds \in BOOLEAN
      /\ r[i].holds <=> /\ ~Resets(conds, r, i)
                        /\ IF HasTarget(conds[i]) THEN r[i].tally = conds[i].target
                           ELSE Joined(conds, truth, r, i)
  BY LinkIs
<1>2. conds[i].target \in Nat  BY <1>1, CondHas
<1>3. e.andNext \in BOOLEAN /\ e.orNext \in BOOLEAN /\ e.resetNext \in BOOLEAN
      /\ e.hasHits \in BOOLEAN
  BY DEF EvalSet
<1> DEFINE joined == (truth[i] /\ e.andNext) \/ e.orNext
<1>4. joined <=> Joined(conds, truth, r, i)
  <2>1. CASE i > 1 /\ conds[i - 1].type = "andNext"
    BY <1>1, <1>3, <2>1 DEF Carries, Joined, MeaningOf!Joined
  <2>2. CASE i > 1 /\ conds[i - 1].type = "orNext"
    BY <1>1, <1>3, <2>2 DEF Carries, Joined, MeaningOf!Joined
  <2>3. CASE ~(i > 1 /\ conds[i - 1].type \in {"andNext", "orNext"})
    BY <1>1, <1>3, <2>3 DEF Carries, Joined, MeaningOf!Joined
  <2>4. QED  BY <2>1, <2>2, <2>3
<1>5. e.resetNext <=> Resets(conds, r, i)  BY DEF Carries
<1> DEFINE tallies == joined /\ MayTally(conds[i], e.hits[i])
           new == IF e.resetNext THEN 0 ELSE IF tallies THEN e.hits[i] + 1 ELSE e.hits[i]
<1>6. /\ n \in EvalSet(conds) /\ n.hits = [e.hits EXCEPT ![i] = new]
      /\ n.hasHits = Noticed(e, joined, e.hits[i])
      /\ n.valid <=> ~e.resetNext /\ IF tallies /\ HasTarget(conds[i]) THEN new = conds[i].target
                                     ELSE joined \/ (e.hits[i] > 0 /\ e.hits[i] = conds[i].target)
  BY DEF Counted
<1> HIDE DEF joined
<1>7. new = r[i].tally  BY <1>1, <1>4, <1>5
<1>8. n.valid <=> r[i].holds
  <2>1. CASE e.resetNext  BY <1>1, <1>5, <1>6, <2>1
  <2>2. CASE ~e.resetNext /\ ~HasTarget(conds[i])
    BY <1>1, <1>4, <1>5, <1>6, <2>2 DEF HasTarget
  <2>3. CASE ~e.resetNext /\ HasTarget(conds[i])
    BY <1>1, <1>2, <1>4, <1>5, <1>6, <1>7, <2>3 DEF HasTarget, MayTally
  <2>4. QED  BY <2>1, <2>2, <2>3
<1>9. n.valid \in BOOLEAN  BY <1>6 DEF EvalSet
<1>10. (e.hasHits => n.hasHits) /\ (r[i].tally > 0 \/ r[i].holds => n.hasHits)
  <2>1. n.hasHits <=> e.hasHits \/ (~e.resetNext /\ (joined \/ h[i] > 0))
    BY <1>3, <1>6 DEF Noticed
  <2>2. r[i].tally > 0 \/ r[i].holds => ~Resets(conds, r, i) /\ (joined \/ h[i] > 0)
    BY <1>1, <1>2, <1>4 DEF HasTarget, MayTally
  <2>3. QED  BY <1>5, <2>1, <2>2
<1> HIDE DEF new
<1>11. QED  BY <1>1, <1>6, <1>7, <1>8, <1>9, <1>10

\* The chain that a condition ends is valid as its link says.
LEMMA DecidesIsValid ==
  ASSUME NEW conds, NEW h, NEW truth, NEW r, Group(conds, h, truth, r), NEW i \in 1 .. Len(conds),
         conds[i].type \in Deciding, NEW n \in EvalSet(conds),
         n.hits[i] = r[i].tally, n.valid = r[i].holds, n.addHits = SumTo(conds, r, i, i - 1),
         NEW ok \in BOOLEAN, Decides(ok, n, conds, i)
  PROVE  ok = Valid(conds, r, i)
<1>1. conds \in Seq(CondSet) /\ conds[i].target \in Nat /\ i \in Nat
  BY CondHas DEF Group
<1>2. /\ Valid(conds, r, i) \in BOOLEAN
      /\ Valid(conds, r, i) <=> IF HasTarget(conds[i])
                                THEN Total(conds, r, i) >= conds[i].target ELSE r[i].holds
  BY TotalIs
<1>3. Total(conds, r, i) = n.hits[i] + n.addHits  BY DEF Total
<1>4. /\ r[i].tally \in Nat /\ (HasTarget(conds[i]) => r[i].tally <= conds[i].target)
      /\ r[i].tally = IF Resets(conds, r, i) THEN 0
                      ELSE IF Joined(conds, truth, r, i) /\ MayTally(conds[i], h[i]) THEN h[i] + 1
                      ELSE h[i]
      /\ r[i].holds <=> /\ ~Resets(conds, r, i)
                        /\ IF HasTarget(conds[i]) THEN r[i].tally = conds[i].target
                           ELSE Joined(conds, truth, r, i)
  BY LinkIs
<1>5. n.addHits \in Int  BY DEF EvalSet
<1>6. HasTarget(conds[i]) => (r[i].holds <=> r[i].tally >= conds[i].target)
  BY <1>1, <1>4 DEF HasTarget
<1>7. CASE HasTarget(conds[i]) /\ n.addHits # 0
  <2>1. ok <=> n.hits[i] + n.addHits >= conds[i].target  BY <1>7 DEF Decides
  <2>2. QED  BY <1>2, <1>3, <1>7, <2>1
<1>8. CASE HasTarget(conds[i]) /\ n.addHits = 0
  <2>1. n.hits[i] + n.addHits = r[i].tally  BY <1>4, <1>8
  <2>2. ok <=> r[i].tally >= conds[i].target  BY <1>6, <1>8, <2>1 DEF Decides
  <2>3. QED  BY <1>2, <1>3, <1>8, <2>1, <2>2
<1>9. CASE ~HasTarget(conds[i])
  <2>1. ok = n.valid  BY <1>9 DEF Decides
  <2>2. QED  BY <1>2, <1>9, <2>1
<1>10. QED  BY <1>7, <1>8, <1>9

\* What comes of condition i in a frame.
Linked(v, e, conds, r, i) ==
  LET type == conds[i].type
      valid == Valid(conds, r, i)
  IN  /\ v \in EvalSet(conds)
      /\ v.hits = [e.hits EXCEPT ![i] = Kept(conds, r, i)]
      /\ v.paused = (e.paused \/ (type = "pauseIf" /\ valid))
      /\ v.reset = (e.reset \/ (type = "resetIf" /\ valid))
      /\ v.true = (e.true /\ Lets(conds[i], valid))
      /\ v.primed = (e.primed /\ (type # "trigger" => Lets(conds[i], valid)))
      /\ type \in Deciding => Fresh(v)
      /\ type \in Combining /\ i < Len(conds) => Carries(v, conds, r, i + 1)
      /\ type # "measured" => v.measured = e.measured /\ v.fromHits = e.fromHits
      /\ type = "measured" => v.measured \in Nat
      /\ type = "measured" /\ HasTarget(conds[i]) =>
           /\ v.measured = IF Total(conds, r, i) < 0 THEN 0 ELSE Total(conds, r, i)
           /\ v.fromHits = TRUE
      /\ type # "measuredIf" => v.canMeasure = e.canMeasure

\* Hits do not go unnoticed.
Known(v, e, conds, r, i) ==
  /\ e.hasHits => v.hasHits
  /\ r[i].tally > 0 => v.hasHits
  /\ (e.addHits > 0 => e.hasHits) =>
       /\ v.addHits > 0 => v.hasHits
       /\ conds[i].type \in Deciding /\ Valid(conds, r, i) => v.hasHits

LEMMA EvaluateDoes ==
  ASSUME NEW conds, NEW h, NEW truth, NEW r, Group(conds, h, truth, r), NEW i \in 1 .. Len(conds),
         NEW e \in EvalSet(conds), e.hits[i] = h[i], Carries(e, conds, r, i), NEW v,
         Evaluated(v, e, conds, i, truth[i])
  PROVE  Linked(v, e, conds, r, i) /\ Known(v, e, conds, r, i)
<1>1. conds \in Seq(CondSet) /\ i \in Nat /\ i \in DOMAIN conds /\ Len(conds) \in Nat  BY DEF Group
<1>2. PICK n \in EvalSet(conds) :
        /\ Counted(n, e, conds, i, truth[i])
        /\ \/ conds[i].type \in Combining /\ Led(v, n, conds, i)
           \/ conds[i].type \in Deciding /\ Concluded(v, n, conds, i)
  BY DEF Evaluated
<1>3. /\ n.hits = [e.hits EXCEPT ![i] = r[i].tally] /\ n.valid = r[i].holds
      /\ e.hasHits => n.hasHits
      /\ r[i].tally > 0 \/ r[i].holds => n.hasHits
  BY <1>2, CountIsLink
<1>4. /\ Aside(n, e) /\ n.andNext = TRUE /\ n.orNext = FALSE
      /\ n.resetNext = e.resetNext /\ n.addHits = e.addHits
  BY <1>2 DEF Counted
<1>5. e.hits \in [DOMAIN conds -> Nat] /\ r[i].tally \in Nat
      /\ n.addHits \in Int /\ n.hasHits \in BOOLEAN
  BY LinkIs DEF EvalSet
<1>6. n.hits[i] = r[i].tally  BY <1>1, <1>3, <1>5
<1>7. conds[i].type \in Deciding <=> conds[i].type \notin Combining  BY <1>1, CondHas
<1>8. /\ Valid(conds, r, i) \in BOOLEAN
      /\ Valid(conds, r, i) <=> IF HasTarget(conds[i])
                                THEN Total(conds, r, i) >= conds[i].target ELSE r[i].holds
      /\ Kept(conds, r, i) = IF conds[i].type = "pauseIf" /\ ~HasTarget(conds[i]) /\ ~r[i].holds
                             THEN 0 ELSE r[i].tally
  BY TotalIs
<1>9. CASE conds[i].type \in Combining
  <2>1. /\ v \in EvalSet(conds) /\ Aside(v, n) /\ v.hits = n.hits /\ v.hasHits = n.hasHits
        /\ Leads(v, n, conds[i], i)
    BY <1>2, <1>7, <1>9 DEF Led
  <2>2. conds[i].type \notin {"pauseIf", "resetIf", "trigger", "measured", "measuredIf"}
    BY <1>9 DEF Combining
  <2>3. Kept(conds, r, i) = r[i].tally  BY <1>8, <2>2
  <2>4. ASSUME i < Len(conds)  PROVE Carries(v, conds, r, i + 1)
    <3>1. Final(conds, i + 1) = Final(conds, i)  BY <1>1, <1>9, <2>4, FinalNext
    <3>2. PICK f \in Nat : f = Final(conds, i)
      <4>1. Final(conds, i) \in {0} \cup (i .. Len(conds))  BY <1>1, FinalIs
      <4>2. QED  BY <1>1, <4>1
    <3>3. SumTo(conds, r, f, i) = SumTo(conds, r, f, i - 1) + Adds(conds, r, f, i)  BY SumIs
    <3>4. Adds(conds, r, f, i) = IF conds[i].type = "addHits" THEN r[i].tally
                                 ELSE IF conds[i].type = "subHits" THEN -r[i].tally ELSE 0
      BY <3>2 DEF Adds
    <3>5. n.addHits = SumTo(conds, r, f, i - 1)  BY <1>4, <3>2 DEF Carries
    <3>6. v.addHits = CASE conds[i].type = "addHits" -> n.addHits + r[i].tally
                        [] conds[i].type = "subHits" -> n.addHits - r[i].tally
                        [] OTHER -> n.addHits
      BY <1>6, <2>1 DEF Leads
    <3>7. v.addHits = SumTo(conds, r, f, i)  BY <1>5, <3>3, <3>4, <3>5, <3>6
    <3>8. v.resetNext <=> Resets(conds, r, i + 1)
      <4>1. e.resetNext <=> Resets(conds, r, i)  BY DEF Carries
      <4>2. CASE conds[i].type = "resetNextIf"
        BY <1>1, <1>3, <2>1, <4>2, ResetsNext DEF Leads
      <4>3. CASE conds[i].type \in {"andNext", "orNext"}
        BY <1>1, <1>4, <2>1, <4>1, <4>3, ResetsNext DEF Leads
      <4>4. CASE conds[i].type \notin {"andNext", "orNext", "resetNextIf"}
        BY <1>1, <2>1, <4>4, ResetsNext DEF Leads
      <4>5. QED  BY <4>2, <4>3, <4>4
    <3>9. (i + 1) - 1 = i /\ i + 1 > 1  BY <1>1
    <3>10. v.andNext = (conds[i].type = "andNext" => r[i].holds)  BY <1>3, <2>1 DEF Leads
    <3>11. v.orNext = (conds[i].type = "orNext" /\ r[i].holds)  BY <1>3, <2>1 DEF Leads
    <3>12. QED  BY <3>1, <3>2, <3>7, <3>8, <3>9, <3>10, <3>11 DEF Carries
  <2>5. Linked(v, e, conds, r, i)
    <3>1. Lets(conds[i], Valid(conds, r, i))  BY <1>7, <1>9 DEF Lets
    <3>2. v.true = (e.true /\ Lets(conds[i], Valid(conds, r, i)))
          /\ v.primed = (e.primed /\ (conds[i].type # "trigger" => Lets(conds[i], Valid(conds, r, i))))
          /\ v.paused = (e.paused \/ (conds[i].type = "pauseIf" /\ Valid(conds, r, i)))
          /\ v.reset = (e.reset \/ (conds[i].type = "resetIf" /\ Valid(conds, r, i)))
      BY <1>4, <2>1, <2>2, <3>1 DEF Aside, EvalSet
    <3>3. QED  BY <1>3, <1>4, <1>7, <1>9, <2>1, <2>2, <2>3, <2>4, <3>2 DEF Linked, Aside
  <2>6. Known(v, e, conds, r, i)
    <3>1. v.addHits > 0 /\ (n.addHits > 0 => n.hasHits) => v.hasHits
      BY <1>3, <1>5, <1>6, <2>1 DEF Leads
    <3>2. QED  BY <1>3, <1>4, <1>7, <1>9, <2>1, <3>1 DEF Known
  <2>7. QED  BY <2>5, <2>6
<1>10. CASE conds[i].type \in Deciding
  <2>1. PICK ok \in BOOLEAN : Decides(ok, n, conds, i) /\ Settles(v, n, conds, i, ok)
    BY <1>2, <1>7, <1>10 DEF Concluded
  <2>2. Final(conds, i) = i  BY <1>1, <1>10, FinalNext
  <2>3. n.addHits = SumTo(conds, r, i, i - 1)  BY <1>4, <2>2 DEF Carries
  <2>4. ok = Valid(conds, r, i)
    <3>1. n.valid = r[i].holds /\ Decides(ok, n, conds, i)  BY <1>3, <2>1
    <3>2. \A b \in BOOLEAN : Decides(b, n, conds, i) => b = Valid(conds, r, i)
      BY <1>6, <1>10, <2>3, <3>1, DecidesIsValid
    <3>3. QED  BY <3>1, <3>2
  <2>5. v.hits = [e.hits EXCEPT ![i] = Kept(conds, r, i)]
    <3>1. CASE conds[i].type = "pauseIf" /\ ~ok /\ ~HasTarget(conds[i])
      <4>1. Kept(conds, r, i) = 0  BY <1>8, <2>4, <3>1
      <4>2. v.hits = [n.hits EXCEPT ![i] = 0]  BY <2>1, <3>1 DEF Settles
      <4>3. QED  BY <1>1, <1>3, <1>5, <4>1, <4>2
    <3>2. CASE ~(conds[i].type = "pauseIf" /\ ~ok /\ ~HasTarget(conds[i]))
      <4>1. Kept(conds, r, i) = r[i].tally  BY <1>8, <2>4, <3>2
      <4>2. v.hits = n.hits  BY <2>1, <3>2 DEF Settles
      <4>3. QED  BY <1>3, <4>1, <4>2
    <3>3. QED  BY <3>1, <3>2
  <2>6. Fresh(v)
    <3>1. ~HasTarget(conds[i]) => SumTo(conds, r, i, i - 1) = 0  BY <1>10, NothingAdded
    <3>2. v.addHits = 0  BY <2>1, <2>3, <3>1 DEF Settles
    <3>3. QED  BY <2>1, <3>2 DEF Settles, Fresh
  <2>7. HasTarget(conds[i]) => TotalHits(n, conds[i], i)
                                 = IF Total(conds, r, i) < 0 THEN 0 ELSE Total(conds, r, i)
    BY <1>6, <2>3 DEF TotalHits, Total
  <2>8. Linked(v, e, conds, r, i)
    <3>1. v.true = (e.true /\ Lets(conds[i], Valid(conds, r, i)))
          /\ v.primed = (e.primed /\ (conds[i].type # "trigger" => Lets(conds[i], Valid(conds, r, i))))
          /\ v.paused = (e.paused \/ (conds[i].type = "pauseIf" /\ Valid(conds, r, i)))
          /\ v.reset = (e.reset \/ (conds[i].type = "resetIf" /\ Valid(conds, r, i)))
          /\ v \in EvalSet(conds)
      BY <1>4, <2>1, <2>4 DEF Settles, Aside
    <3>2. /\ conds[i].type # "measured" => v.measured = e.measured /\ v.fromHits = e.fromHits
          /\ conds[i].type = "measured" => v.measured \in Nat
          /\ conds[i].type = "measured" /\ HasTarget(conds[i]) =>
               v.measured = TotalHits(n, conds[i], i) /\ v.fromHits = TRUE
          /\ conds[i].type # "measuredIf" => v.canMeasure = e.canMeasure
      BY <1>4, <2>1 DEF Settles, Aside
    <3>3. QED  BY <1>7, <1>10, <2>5, <2>6, <2>7, <3>1, <3>2 DEF Linked
  <2>9. Known(v, e, conds, r, i)
    <3>1. v.hasHits = n.hasHits /\ v.addHits = 0  BY <2>1, <2>6 DEF Settles, Fresh
    <3>2. ASSUME e.addHits > 0 => e.hasHits, Valid(conds, r, i)  PROVE n.hasHits
      <4>1. CASE HasTarget(conds[i])
        <5>1. conds[i].target \in Nat /\ conds[i].target # 0  BY <1>1, <4>1, CondHas DEF HasTarget
        <5>2. r[i].tally + n.addHits >= conds[i].target  BY <1>8, <2>3, <3>2, <4>1 DEF Total
        <5>3. r[i].tally > 0 \/ n.addHits > 0  BY <1>5, <5>1, <5>2
        <5>4. QED  BY <1>3, <1>4, <3>2, <5>3
      <4>2. CASE ~HasTarget(conds[i])  BY <1>3, <1>8, <3>2, <4>2
      <4>3. QED  BY <4>1, <4>2
    <3>3. QED  BY <1>3, <3>1, <3>2 DEF Known
  <2>10. QED  BY <2>8, <2>9
<1>11. QED  BY <1>7, <1>9, <1>10

-----------------------------------------------------------------------------
(* Loops over a block.                                                      *)

\* What comes of the conditions in D.
Upto(x, x0, conds, r, D) ==
  /\ x.hits = [i \in DOMAIN conds |-> IF i \in D THEN Kept(conds, r, i) ELSE x0.hits[i]]
  /\ x.reset = (x0.reset \/ \E f \in D : conds[f].type = "resetIf" /\ Valid(conds, r, f))
  /\ x.true = (x0.true /\ \A f \in D : Lets(conds[f], Valid(conds, r, f)))
  /\ x.primed = (x0.primed /\ \A f \in D : conds[f].type # "trigger" =>
                                             Lets(conds[f], Valid(conds, r, f)))
  /\ x0.hasHits => x.hasHits
  /\ \A i \in D : r[i].tally > 0 => x.hasHits

\* The only Measured condition with a target, when it is always measured.
Only(conds, f) ==
  /\ f \in DOMAIN conds /\ conds[f].type = "measured" /\ HasTarget(conds[f])
  /\ \A k \in DOMAIN conds : k # f => conds[k].type \notin {"measured", "measuredIf"}

Shows(x, conds, r, D) ==
  \A f \in D : Only(conds, f) =>
    /\ x.measured = IF Total(conds, r, f) < 0 THEN 0 ELSE Total(conds, r, f)
    /\ x.fromHits = TRUE

PausesAt(conds, r, f) == conds[f].type = "pauseIf" /\ Valid(conds, r, f)
NoPause(conds, r, D) == \A f \in D : ~PausesAt(conds, r, f)

\* Whether a chain of the block is under way after condition j.
Between(x, conds, r, B, j) ==
  IF j \in B /\ conds[j].type \in Combining
  THEN j < Len(conds) => Carries(x, conds, r, j + 1)
  ELSE Fresh(x)

\* After those of the first j conditions that are in B.
Passed(x, x0, conds, r, B, j) ==
  /\ x \in EvalSet(conds)
  /\ x.addHits > 0 => x.hasHits
  /\ ~x.paused =>
       /\ Upto(x, x0, conds, r, {i \in B : i <= j}) /\ NoPause(conds, r, {i \in B : i <= j})
       /\ Shows(x, conds, r, {i \in B : i <= j})
       /\ Between(x, conds, r, B, j)
  /\ x.paused =>
       /\ x.hasHits
       /\ \E f \in B : /\ f <= j /\ PausesAt(conds, r, f)
                       /\ NoPause(conds, r, {i \in B : i < f})
                       /\ Upto(x, x0, conds, r, {i \in B : i <= f})

LEMMA UptoNext ==
  ASSUME NEW conds, NEW h, NEW truth, NEW r, Group(conds, h, truth, r), NEW i \in 1 .. Len(conds),
         NEW x0 \in EvalSet(conds), NEW x \in EvalSet(conds), NEW v, NEW D \in SUBSET (DOMAIN conds),
         Upto(x, x0, conds, r, D), Linked(v, x, conds, r, i), Known(v, x, conds, r, i)
  PROVE  Upto(v, x0, conds, r, D \cup {i})
<1>1. conds \in Seq(CondSet) /\ i \in DOMAIN conds  BY DEF Group
<1>2. v \in EvalSet(conds) /\ v.hits = [x.hits EXCEPT ![i] = Kept(conds, r, i)]  BY DEF Linked
<1>3. x.hits = [k \in DOMAIN conds |-> IF k \in D THEN Kept(conds, r, k) ELSE x0.hits[k]]
  BY DEF Upto
<1>4. v.hits = [k \in DOMAIN conds |-> IF k \in D \cup {i} THEN Kept(conds, r, k) ELSE x0.hits[k]]
  BY <1>1, <1>2, <1>3
<1>5. v.reset = (x0.reset \/ \E f \in D \cup {i} : conds[f].type = "resetIf" /\ Valid(conds, r, f))
  <2>1. x.reset <=> x0.reset \/ \E f \in D : conds[f].type = "resetIf" /\ Valid(conds, r, f)
    BY DEF Upto
  <2>2. v.reset <=> x.reset \/ (conds[i].type = "resetIf" /\ Valid(conds, r, i))  BY DEF Linked
  <2>3. v.reset \in BOOLEAN  BY <1>2 DEF EvalSet
  <2>4. QED  BY <2>1, <2>2, <2>3
<1>6. v.true = (x0.true /\ \A f \in D \cup {i} : Lets(conds[f], Valid(conds, r, f)))
  <2>1. x.true <=> x0.true /\ \A f \in D : Lets(conds[f], Valid(conds, r, f))  BY DEF Upto
  <2>2. v.true <=> x.true /\ Lets(conds[i], Valid(conds, r, i))  BY DEF Linked
  <2>3. v.true \in BOOLEAN  BY <1>2 DEF EvalSet
  <2>4. QED  BY <2>1, <2>2, <2>3
<1>7. v.primed = (x0.primed /\ \A f \in D \cup {i} : conds[f].type # "trigger" =>
                                                       Lets(conds[f], Valid(conds, r, f)))
  <2>1. x.primed <=> x0.primed /\ \A f \in D : conds[f].type # "trigger" =>
                                                 Lets(conds[f], Valid(conds, r, f))
    BY DEF Upto
  <2>2. v.primed <=> x.primed /\ (conds[i].type # "trigger" => Lets(conds[i], Valid(conds, r, i)))
    BY DEF Linked
  <2>3. v.primed \in BOOLEAN  BY <1>2 DEF EvalSet
  <2>4. QED  BY <2>1, <2>2, <2>3
<1>8. (x0.hasHits => v.hasHits) /\ \A k \in D \cup {i} : r[k].tally > 0 => v.hasHits
  BY DEF Upto, Known
<1>9. QED  BY <1>4, <1>5, <1>6, <1>7, <1>8 DEF Upto

LEMMA ShowsNext ==
  ASSUME NEW conds, NEW r, NEW i \in DOMAIN conds, NEW x, NEW v, NEW D \in SUBSET (DOMAIN conds),
         i \notin D, Shows(x, conds, r, D), Linked(v, x, conds, r, i)
  PROVE  Shows(v, conds, r, D \cup {i})
<1>1. SUFFICES ASSUME NEW f \in D \cup {i}, Only(conds, f)
               PROVE  /\ v.measured = IF Total(conds, r, f) < 0 THEN 0 ELSE Total(conds, r, f)
                      /\ v.fromHits = TRUE
  BY DEF Shows
<1>2. CASE f = i
  <2>1. conds[i].type = "measured" /\ HasTarget(conds[i])  BY <1>1, <1>2 DEF Only
  <2>2. QED  BY <1>2, <2>1 DEF Linked
<1>3. CASE f # i
  <2>1. conds[i].type # "measured"  BY <1>1, <1>3 DEF Only
  <2>2. v.measured = x.measured /\ v.fromHits = x.fromHits  BY <2>1 DEF Linked
  <2>3. QED  BY <1>1, <1>3, <2>2 DEF Shows
<1>4. QED  BY <1>2, <1>3

\* One more condition of the block.
LEMMA PassedNext ==
  ASSUME NEW conds, NEW h, NEW truth, NEW r, Group(conds, h, truth, r), NEW class,
         NEW B, B = Block(conds, class), NEW x0 \in EvalSet(conds), \A k \in B : x0.hits[k] = h[k],
         NEW j \in Nat, NEW i \in 1 .. Len(conds), i = j + 1, i \in B, NEW x, ~x.paused,
         Passed(x, x0, conds, r, B, j), NEW v, Evaluated(v, x, conds, i, truth[i])
  PROVE  Passed(v, x0, conds, r, B, i)
<1>1. conds \in Seq(CondSet) /\ DOMAIN conds = 1 .. Len(conds) /\ Len(conds) \in Nat
  BY DEF Group
<1> DEFINE D == {k \in B : k <= j}
<1>2. D \in SUBSET (DOMAIN conds) /\ B \in SUBSET (DOMAIN conds) /\ i \notin D  BY <1>1 DEF Block
<1>3. {k \in B : k <= i} = D \cup {i}  BY <1>1, <1>2
<1>4. {k \in B : k < i} = D  BY <1>1, <1>2
<1>5. x \in EvalSet(conds) /\ (x.addHits > 0 => x.hasHits) /\ Upto(x, x0, conds, r, D)
      /\ NoPause(conds, r, D) /\ Shows(x, conds, r, D) /\ Between(x, conds, r, B, j)
  BY DEF Passed
<1> HIDE DEF D
<1>6. x.hits[i] = h[i]
  <2>1. x.hits = [k \in DOMAIN conds |-> IF k \in D THEN Kept(conds, r, k) ELSE x0.hits[k]]
    BY <1>5 DEF Upto
  <2>2. QED  BY <1>1, <1>2, <2>1
<1>7. Carries(x, conds, r, i)
  <2>1. CASE j \in B /\ conds[j].type \in Combining
    <3>1. j < Len(conds)  BY <1>1
    <3>2. QED  BY <1>5, <2>1, <3>1 DEF Between
  <2>2. CASE ~(j \in B /\ conds[j].type \in Combining)
    <3>1. Fresh(x)  BY <1>5, <2>2 DEF Between
    <3>2. i > 1 => conds[i - 1].type \in Deciding
      <4>1. SUFFICES ASSUME i > 1, conds[j].type \in Combining  PROVE j \in B
        <5>1. i > 1 => j \in 1 .. Len(conds) /\ i - 1 = j  BY <1>1
        <5>2. i > 1 /\ conds[j].type \notin Combining => conds[j].type \in Deciding
          BY <1>1, <5>1, CondHas
        <5>3. QED  BY <2>2, <5>1, <5>2
      <4>2. j \in 1 .. Len(conds) /\ j < Len(conds) /\ j + 1 = i  BY <1>1, <4>1
      <4>3. Classification(conds, j) = Classification(conds, i)  BY <1>1, <4>1, <4>2, FinalNext
      <4>4. QED  BY <1>1, <4>2, <4>3 DEF Block
    <3>3. QED  BY <3>1, <3>2, ChainStarts
  <2>3. QED  BY <2>1, <2>2
<1>8. Linked(v, x, conds, r, i) /\ Known(v, x, conds, r, i)  BY <1>5, <1>6, <1>7, EvaluateDoes
<1>9. v \in EvalSet(conds)  BY <1>8 DEF Linked
<1>10. Upto(v, x0, conds, r, D \cup {i})  BY <1>2, <1>5, <1>8, UptoNext
<1>11. Shows(v, conds, r, D \cup {i})  BY <1>1, <1>2, <1>5, <1>8, ShowsNext
<1>12. v.addHits > 0 => v.hasHits  BY <1>5, <1>8 DEF Known
<1>13. conds[i].type \in Deciding <=> conds[i].type \notin Combining  BY <1>1, CondHas
<1>14. v.paused <=> PausesAt(conds, r, i)
  <2>1. v.paused <=> x.paused \/ (conds[i].type = "pauseIf" /\ Valid(conds, r, i))
    BY <1>8 DEF Linked
  <2>2. QED  BY <2>1 DEF PausesAt
<1>15. Between(v, conds, r, B, i)  BY <1>8, <1>13 DEF Between, Linked
<1>16. CASE v.paused
  <2>1. i \in B /\ i <= i /\ PausesAt(conds, r, i)  BY <1>14, <1>16
  <2>2. v.hasHits
    <3>1. conds[i].type \notin Combining  BY <2>1 DEF PausesAt, Combining
    <3>2. QED  BY <1>5, <1>8, <1>13, <2>1, <3>1 DEF Known, PausesAt
  <2>3. NoPause(conds, r, {k \in B : k < i}) /\ Upto(v, x0, conds, r, {k \in B : k <= i})
    BY <1>3, <1>4, <1>5, <1>10
  <2>4. QED  BY <1>9, <1>12, <1>16, <2>1, <2>2, <2>3 DEF Passed
<1>17. CASE ~v.paused
  <2>1. NoPause(conds, r, D \cup {i})  BY <1>5, <1>14, <1>17 DEF NoPause
  <2>2. QED  BY <1>3, <1>9, <1>10, <1>11, <1>12, <1>15, <1>17, <2>1 DEF Passed
<1>18. QED  BY <1>16, <1>17

\* A condition of another block, or one after a pause.
LEMMA PassedOver ==
  ASSUME NEW conds \in Seq(CondSet), NEW r, NEW class, NEW B, B = Block(conds, class), NEW x0,
         NEW j \in Nat, NEW i \in 1 .. Len(conds), i = j + 1, NEW x, x.paused \/ i \notin B,
         Passed(x, x0, conds, r, B, j)
  PROVE  Passed(x, x0, conds, r, B, i)
<1>1. Len(conds) \in Nat /\ DOMAIN conds = 1 .. Len(conds)  OBVIOUS
<1>2. B \in SUBSET (1 .. Len(conds))  BY <1>1 DEF Block
<1>3. CASE x.paused
  <2>1. \A f \in B : f <= j => f <= i  BY <1>1, <1>2
  <2>2. QED  BY <1>3, <2>1 DEF Passed
<1>4. CASE ~x.paused
  <2>1. i \notin B  BY <1>4
  <2>2. {k \in B : k <= i} = {k \in B : k <= j}  BY <1>1, <1>2, <2>1
  <2>3. Between(x, conds, r, B, j)  BY <1>4 DEF Passed
  <2>4. ~(j \in B /\ conds[j].type \in Combining)
    <3>1. SUFFICES ASSUME j \in B, conds[j].type \in Combining  PROVE FALSE
      OBVIOUS
    <3>2. j \in 1 .. Len(conds) /\ j < Len(conds) /\ j + 1 = i  BY <1>1, <1>2, <3>1
    <3>3. Classification(conds, j) = Classification(conds, i)  BY <3>1, <3>2, FinalNext
    <3>4. QED  BY <1>1, <2>1, <3>1, <3>3 DEF Block
  <2>5. Between(x, conds, r, B, i)  BY <2>1, <2>3, <2>4 DEF Between
  <2>6. QED  BY <1>4, <2>2, <2>5 DEF Passed
<1>5. QED  BY <1>3, <1>4

LEMMA PassedAtFirst ==
  ASSUME NEW conds \in Seq(CondSet), NEW r, NEW B \in SUBSET (DOMAIN conds),
         NEW x0 \in EvalSet(conds), ~x0.paused, Fresh(x0)
  PROVE  Passed(x0, x0, conds, r, B, 0)
<1>1. {i \in B : i <= 0} = {}  OBVIOUS
<1>2. 0 \notin B  OBVIOUS
<1>3. x0.hits \in [DOMAIN conds -> Nat] /\ x0.reset \in BOOLEAN /\ x0.true \in BOOLEAN
      /\ x0.primed \in BOOLEAN
  BY DEF EvalSet
<1>4. Upto(x0, x0, conds, r, {})
  <2>1. x0.hits = [i \in DOMAIN conds |-> IF i \in {} THEN Kept(conds, r, i) ELSE x0.hits[i]]
    BY <1>3
  <2>2. QED  BY <1>3, <2>1 DEF Upto
<1>5. NoPause(conds, r, {}) /\ Shows(x0, conds, r, {})  BY DEF NoPause, Shows
<1>6. Between(x0, conds, r, B, 0)  BY <1>2 DEF Between
<1>7. ~(x0.addHits > 0)  BY DEF Fresh
<1>8. QED  BY <1>1, <1>4, <1>5, <1>6, <1>7 DEF Passed

LEMMA ProcessIs ==
  ASSUME NEW p, NEW e
  PROVE  Process(e, p.conds, p.class, p.truth, p.value) = ProcessLoop!Loop(p, e, Len(p.conds))
BY Zenon DEF Process, ProcessBody, FoldLeft, MapThenFoldSet, Max, ProcessLoop!Loop,
             ProcessLoop!FoldLeft, ProcessLoop!MapThenFoldSet, ProcessLoop!Max

\* What a block makes of the state it begins with.
LEMMA ProcessDoes ==
  ASSUME NEW conds, NEW h, NEW truth, NEW r, Group(conds, h, truth, r), NEW class,
         NEW value \in Nat, NEW B, B = Block(conds, class), NEW x0 \in EvalSet(conds),
         \A k \in B : x0.hits[k] = h[k], ~x0.paused, Fresh(x0)
  PROVE  Passed(Process(x0, conds, class, truth, value), x0, conds, r, B, Len(conds))
<1>1. conds \in Seq(CondSet) /\ DOMAIN conds = 1 .. Len(conds) /\ Len(conds) \in Nat
      /\ truth \in [DOMAIN conds -> BOOLEAN]
  BY SMTT(60) DEF Group
<1>2. PICK n \in Nat : n = Len(conds)  BY <1>1
<1>3. PICK p : p = [conds |-> conds, class |-> class, truth |-> truth, value |-> value]  OBVIOUS
<1>4. p.conds = conds /\ p.class = class /\ p.truth = truth /\ p.value = value  BY <1>3
<1>5. Process(x0, conds, class, truth, value) = ProcessLoop!Loop(p, x0, n)
  BY <1>2, <1>4, ProcessIs
<1> DEFINE G == [j \in 0 .. n |-> {x \in EvalSet(conds) : Passed(x, x0, conds, r, B, j)}]
<1>6. B \in SUBSET (DOMAIN conds)  BY DEF Block
<1>7. Passed(x0, x0, conds, r, B, 0)  BY <1>1, <1>6, PassedAtFirst
<1>8. x0 \in G[0]  BY <1>7
<1>9. ASSUME NEW i \in 1 .. n, NEW x \in G[i - 1]  PROVE ProcessBody(p, x, i) \in G[i]
  <2>1. PICK j \in Nat : j = i - 1  BY <1>2
  <2>2. i = j + 1 /\ i \in 0 .. n /\ j \in 0 .. n /\ i \in 1 .. Len(conds) /\ i \in DOMAIN conds
    BY <1>1, <1>2, <2>1
  <2>3. x \in EvalSet(conds) /\ Passed(x, x0, conds, r, B, j)  BY <2>1, <2>2
  <2>4. PICK v : v = ProcessBody(p, x, i)  OBVIOUS
  <2>5. CASE x.paused \/ i \notin B
    <3>1. v = x  BY <1>4, <2>4, <2>5 DEF ProcessBody
    <3>2. Passed(x, x0, conds, r, B, i)  BY <1>1, <2>2, <2>3, <2>5, PassedOver
    <3>3. QED  BY <2>2, <2>3, <2>4, <3>1, <3>2
  <2>6. CASE ~x.paused /\ i \in B
    <3>1. v = Evaluate(x, conds[i], i, truth[i], value)  BY <1>4, <2>4, <2>6 DEF ProcessBody
    <3>2. truth[i] \in BOOLEAN  BY <1>1, <2>2
    <3>3. Evaluated(v, x, conds, i, truth[i])  BY <1>1, <2>2, <2>3, <3>1, <3>2, EvaluateKeeps
    <3>4. Passed(v, x0, conds, r, B, i)  BY <2>2, <2>3, <2>6, <3>3, PassedNext
    <3>5. v \in EvalSet(conds)  BY <3>4 DEF Passed
    <3>6. QED  BY <2>2, <2>4, <3>4, <3>5
  <2>7. QED  BY <2>5, <2>6
<1>10. G[n] = {x \in EvalSet(conds) : Passed(x, x0, conds, r, B, n)}  OBVIOUS
<1> HIDE DEF G
<1>11. ProcessLoop!Loop(p, x0, n) \in G[n]  BY <1>8, <1>9, ProcessLoop!LoopInduction
<1>12. QED  BY <1>2, <1>5, <1>10, <1>11

\* A condition of a kind is in the block of its kind.
LEMMA ClassIs ==
  ASSUME NEW conds \in Seq(CondSet), NEW class, NEW i \in DOMAIN conds
  PROVE  /\ conds[i].type \in Deciding => (i \in Block(conds, class) <=> Classify(conds[i]) = class)
         /\ i \in Block(conds, class) /\ class # "pause" => conds[i].type # "pauseIf"
         /\ i \in Block(conds, class) /\ class # "reset" => conds[i].type # "resetIf"
         /\ i \in Block(conds, class) /\ class # "measured" =>
              conds[i].type \notin {"measured", "measuredIf"}
         /\ conds[i].type = "pauseIf" => i \in Block(conds, "pause")
         /\ conds[i].type = "resetIf" => i \in Block(conds, "reset")
         /\ conds[i].type \in {"measured", "measuredIf"} => i \in Block(conds, "measured")
<1>1. i \in 1 .. Len(conds)  OBVIOUS
<1>2. conds[i].type \in Deciding => (i \in Block(conds, class) <=> Classify(conds[i]) = class)
  BY <1>1, FinalNext DEF Block
<1>3. conds[i].type \in Deciding => \A c : i \in Block(conds, c) <=> Classify(conds[i]) = c
  BY <1>1, FinalNext DEF Block
<1>4. conds[i].type = "pauseIf" => Classify(conds[i]) = "pause" /\ conds[i].type \in Deciding
  BY DEF Classify, Combining, Deciding, MeaningOf!Deciding
<1>5. conds[i].type = "resetIf" => Classify(conds[i]) = "reset" /\ conds[i].type \in Deciding
  BY DEF Classify, Combining, Deciding, MeaningOf!Deciding
<1>6. conds[i].type \in {"measured", "measuredIf"} =>
        Classify(conds[i]) = "measured" /\ conds[i].type \in Deciding
  BY DEF Classify, Combining, Deciding, MeaningOf!Deciding
<1>7. QED  BY <1>2, <1>3, <1>4, <1>5, <1>6

\* What conditions leave alone, also when the hits they begin with are not those of the group.
Leaves(v, x, conds, i) ==
  /\ v \in EvalSet(conds)
  /\ x.reset => v.reset
  /\ conds[i].type # "resetIf" => v.reset = x.reset
  /\ conds[i].type # "pauseIf" => v.paused = x.paused
  /\ x.hasHits => v.hasHits
  /\ conds[i].type # "measured" => v.measured = x.measured /\ v.fromHits = x.fromHits
  /\ conds[i].type # "measuredIf" => v.canMeasure = x.canMeasure
  /\ conds[i].type = "measured" /\ HasTarget(conds[i]) => v.measured \in Nat /\ v.fromHits = TRUE
  /\ \A k \in DOMAIN conds : k # i => v.hits[k] = x.hits[k]

LEMMA EvaluateLeaves ==
  ASSUME NEW conds \in Seq(CondSet), NEW i \in DOMAIN conds, NEW x \in EvalSet(conds),
         NEW m \in BOOLEAN, NEW v, Evaluated(v, x, conds, i, m)
  PROVE  Leaves(v, x, conds, i)
<1>1. PICK n \in EvalSet(conds) :
        /\ Counted(n, x, conds, i, m)
        /\ \/ conds[i].type \in Combining /\ Led(v, n, conds, i)
           \/ conds[i].type \in Deciding /\ Concluded(v, n, conds, i)
  BY DEF Evaluated
<1>2. Aside(n, x)  BY <1>1 DEF Counted
<1>3. x.hasHits => n.hasHits
  <2>1. x.hasHits \in BOOLEAN  BY DEF EvalSet
  <2>2. QED  BY <1>1, <2>1 DEF Counted, Noticed
<1>4. \A k \in DOMAIN conds : k # i => n.hits[k] = x.hits[k]
  <2>1. x.hits \in [DOMAIN conds -> Nat]  BY DEF EvalSet
  <2>2. \E new : n.hits = [x.hits EXCEPT ![i] = new]  BY <1>1 DEF Counted
  <2>3. QED  BY <2>1, <2>2
<1>5. CASE conds[i].type \in Combining
  <2>1. conds[i].type \notin {"pauseIf", "resetIf", "measured", "measuredIf"}  BY <1>5 DEF Combining
  <2>2. Led(v, n, conds, i)  BY <1>1, <1>5, CondHas
  <2>3. QED  BY <1>2, <1>3, <1>4, <2>1, <2>2 DEF Led, Leaves, Aside
<1>6. CASE conds[i].type \in Deciding
  <2>1. Concluded(v, n, conds, i)  BY <1>1, <1>6, CondHas
  <2>2. PICK ok \in BOOLEAN : Settles(v, n, conds, i, ok)  BY <2>1 DEF Concluded
  <2>3. \A k \in DOMAIN conds : k # i => v.hits[k] = n.hits[k]
    <3>1. n.hits \in [DOMAIN conds -> Nat]  BY DEF EvalSet
    <3>2. v.hits = [n.hits EXCEPT ![i] = 0] \/ v.hits = n.hits  BY <2>2 DEF Settles
    <3>3. QED  BY <3>1, <3>2
  <2>4. n.reset \in BOOLEAN /\ n.paused \in BOOLEAN  BY DEF EvalSet
  <2>5. /\ v \in EvalSet(conds) /\ v.hasHits = n.hasHits
        /\ v.paused = (n.paused \/ (conds[i].type = "pauseIf" /\ ok))
        /\ v.reset = (n.reset \/ (conds[i].type = "resetIf" /\ ok))
        /\ conds[i].type # "measured" => v.measured = n.measured /\ v.fromHits = n.fromHits
        /\ conds[i].type = "measured" => v.measured \in Nat
        /\ conds[i].type = "measured" /\ HasTarget(conds[i]) => v.fromHits = TRUE
        /\ conds[i].type # "measuredIf" => v.canMeasure = n.canMeasure
    BY <2>2 DEF Settles
  <2>6. QED  BY <1>2, <1>3, <1>4, <2>3, <2>4, <2>5 DEF Leaves, Aside
<1>7. QED  BY <1>1, <1>5, <1>6

\* What a block leaves alone.
Runs(x, x0, conds, class, j) ==
  /\ x \in EvalSet(conds)
  /\ x0.reset => x.reset
  /\ class # "reset" => x.reset = x0.reset
  /\ class # "pause" => x.paused = x0.paused
  /\ x0.hasHits => x.hasHits
  /\ class # "measured" => /\ x.measured = x0.measured /\ x.fromHits = x0.fromHits
                           /\ x.canMeasure = x0.canMeasure
  /\ (\E f : Only(conds, f)) => x.canMeasure = x0.canMeasure
  /\ class = "measured" /\ ~x0.paused =>
       \A f : Only(conds, f) /\ f <= j => x.measured \in Nat /\ x.fromHits = TRUE
  /\ \A k \in DOMAIN conds : k \notin Block(conds, class) => x.hits[k] = x0.hits[k]

LEMMA ProcessLeaves ==
  ASSUME NEW conds \in Seq(CondSet), NEW truth \in [DOMAIN conds -> BOOLEAN], NEW class,
         NEW value \in Nat, NEW x0 \in EvalSet(conds)
  PROVE  Runs(Process(x0, conds, class, truth, value), x0, conds, class, Len(conds))
<1>1. DOMAIN conds = 1 .. Len(conds) /\ Len(conds) \in Nat  BY SMTT(60)
<1>2. PICK n \in Nat : n = Len(conds)  BY <1>1
<1>3. PICK p : p = [conds |-> conds, class |-> class, truth |-> truth, value |-> value]  OBVIOUS
<1>4. p.conds = conds /\ p.class = class /\ p.truth = truth /\ p.value = value  BY <1>3
<1>5. Process(x0, conds, class, truth, value) = ProcessLoop!Loop(p, x0, n)
  BY <1>2, <1>4, ProcessIs
<1>6. PICK B : B = Block(conds, class)  OBVIOUS
<1> DEFINE G == [j \in 0 .. n |-> {x \in EvalSet(conds) : Runs(x, x0, conds, class, j)}]
<1>7. Runs(x0, x0, conds, class, 0)
  <2>1. \A f : Only(conds, f) => ~(f <= 0)  BY <1>1 DEF Only
  <2>2. QED  BY <2>1 DEF Runs
<1>8. x0 \in G[0]  BY <1>7
<1>9. ASSUME NEW i \in 1 .. n, NEW x \in G[i - 1]  PROVE ProcessBody(p, x, i) \in G[i]
  <2>1. PICK j \in Nat : j = i - 1  BY <1>2
  <2>2. i = j + 1 /\ i \in 0 .. n /\ j \in 0 .. n /\ i \in DOMAIN conds  BY <1>1, <1>2, <2>1
  <2>3. x \in EvalSet(conds) /\ Runs(x, x0, conds, class, j)  BY <2>1, <2>2
  <2>4. PICK v : v = ProcessBody(p, x, i)  OBVIOUS
  <2>5. \A f : Only(conds, f) => f \in Nat /\ (f <= i => f <= j \/ f = i)  BY <1>1, <2>2 DEF Only
  <2>6. \A f : Only(conds, f) => f \in Block(conds, "measured")  BY <1>1, ClassIs DEF Only
  <2>7. CASE x.paused \/ i \notin B
    <3>1. v = x  BY <1>4, <1>6, <2>4, <2>7 DEF ProcessBody
    <3>2. class = "measured" /\ ~x0.paused => \A f : Only(conds, f) => f # i
      BY <1>6, <2>3, <2>6, <2>7 DEF Runs
    <3>3. Runs(v, x0, conds, class, i)  BY <2>3, <2>5, <3>1, <3>2 DEF Runs
    <3>4. QED  BY <2>2, <2>3, <2>4, <3>1, <3>3
  <2>8. CASE ~x.paused /\ i \in B
    <3>1. v = Evaluate(x, conds[i], i, truth[i], value)
      BY <1>4, <1>6, <2>4, <2>8 DEF ProcessBody
    <3>2. Evaluated(v, x, conds, i, truth[i])  BY <1>1, <2>2, <2>3, <3>1, EvaluateKeeps
    <3>3. Leaves(v, x, conds, i)  BY <2>2, <2>3, <3>2, EvaluateLeaves
    <3>4. /\ class # "pause" => conds[i].type # "pauseIf"
          /\ class # "reset" => conds[i].type # "resetIf"
          /\ class # "measured" => conds[i].type \notin {"measured", "measuredIf"}
      BY <1>6, <2>2, <2>8, ClassIs
    <3>5. (\E f : Only(conds, f)) => conds[i].type # "measuredIf"
      <4>1. ASSUME NEW f, Only(conds, f)  PROVE conds[i].type # "measuredIf"
        BY <2>2, <4>1 DEF Only
      <4>2. QED  BY <4>1
    <3>6. ASSUME class = "measured", ~x0.paused, NEW f, Only(conds, f), f <= i
          PROVE  v.measured \in Nat /\ v.fromHits = TRUE
      <4>1. CASE f = i  BY <3>3, <3>6, <4>1 DEF Only, Leaves
      <4>2. CASE f # i
        <5>1. conds[i].type # "measured"  BY <2>2, <3>6, <4>2 DEF Only
        <5>2. x.measured \in Nat /\ x.fromHits = TRUE  BY <2>3, <2>5, <3>6, <4>2 DEF Runs
        <5>3. QED  BY <3>3, <5>1, <5>2 DEF Leaves
      <4>3. QED  BY <4>1, <4>2
    <3>7. Runs(v, x0, conds, class, i)
      <4>1. \A k \in DOMAIN conds : k \notin Block(conds, class) => v.hits[k] = x0.hits[k]
        BY <1>6, <2>3, <2>8, <3>3 DEF Runs, Leaves
      <4>2. QED  BY <2>3, <3>3, <3>4, <3>5, <3>6, <4>1 DEF Runs, Leaves
    <3>8. v \in EvalSet(conds)  BY <3>3 DEF Leaves
    <3>9. QED  BY <2>2, <2>4, <3>7, <3>8
  <2>9. QED  BY <2>7, <2>8
<1>10. G[n] = {x \in EvalSet(conds) : Runs(x, x0, conds, class, n)}  OBVIOUS
<1> HIDE DEF G
<1>11. ProcessLoop!Loop(p, x0, n) \in G[n]  BY <1>8, <1>9, ProcessLoop!LoopInduction
<1>12. QED  BY <1>2, <1>5, <1>10, <1>11

-----------------------------------------------------------------------------
(* A group.                                                                 *)

Meaning(conds, h, truth) == MeaningOf!Meaning(conds, h, truth)

\* The meaning of a group, in the words of the proof.
MeaningIs(M, conds, h, r) ==
  LET D == DOMAIN conds
      runs == NoPause(conds, r, D)
  IN  /\ M.paused = ~runs
      /\ M.reset = (runs /\ \E f \in D : conds[f].type = "resetIf" /\ Valid(conds, r, f))
      /\ runs /\ ~M.reset => /\ M.true = \A f \in D : Lets(conds[f], Valid(conds, r, f))
                             /\ M.primed = \A f \in D : conds[f].type # "trigger" =>
                                                          Lets(conds[f], Valid(conds, r, f))
      /\ ~runs => M.true = FALSE /\ M.primed = FALSE
      /\ DOMAIN M.hits = D /\ M.hits = [i \in D |-> M.hits[i]]
      /\ runs => \A i \in D : M.hits[i] = Kept(conds, r, i)
      /\ \A f \in D : PausesAt(conds, r, f) /\ NoPause(conds, r, {i \in D : i < f}) =>
           \A i \in D : M.hits[i] = IF i \in Block(conds, "pause") /\ i <= f
                                    THEN Kept(conds, r, i) ELSE h[i]

\* Which conditions a pause leaves out: those of a later one and of no PauseIf.
LEMMA SeenIs ==
  ASSUME NEW conds \in Seq(CondSet), NEW r, NEW i \in DOMAIN conds
  PROVE  /\ NoPause(conds, r, DOMAIN conds) => MeaningOf!Seen(conds, r, i)
         /\ \A f \in DOMAIN conds :
              PausesAt(conds, r, f) /\ NoPause(conds, r, {k \in DOMAIN conds : k < f}) =>
                (MeaningOf!Seen(conds, r, i) <=> i \in Block(conds, "pause") /\ i <= f)
<1>1. DOMAIN conds = 1 .. Len(conds) /\ Len(conds) \in Nat  OBVIOUS
<1>2. \A f : f \in MeaningOf!Pauses(conds, r) <=> f \in DOMAIN conds /\ PausesAt(conds, r, f)
  BY DEF MeaningOf!Pauses, MeaningOf!Finals, PausesAt, Valid
<1>3. PICK last : last = Final(conds, i)  OBVIOUS
<1>4. MeaningOf!Seen(conds, r, i) <=>
        IF last # 0 /\ conds[last].type = "pauseIf"
        THEN \A p \in MeaningOf!Pauses(conds, r) : last <= p
        ELSE MeaningOf!Pauses(conds, r) = {}
  BY <1>3 DEF MeaningOf!Seen, Final
<1>5. NoPause(conds, r, DOMAIN conds) => MeaningOf!Pauses(conds, r) = {}  BY <1>2 DEF NoPause
<1>6. ASSUME NEW f \in DOMAIN conds, PausesAt(conds, r, f),
             NoPause(conds, r, {k \in DOMAIN conds : k < f})
      PROVE  MeaningOf!Seen(conds, r, i) <=> i \in Block(conds, "pause") /\ i <= f
  <2>1. f \in MeaningOf!Pauses(conds, r) /\ \A p \in MeaningOf!Pauses(conds, r) : f <= p
    BY <1>1, <1>2, <1>6 DEF NoPause
  <2>2. conds[f].type = "pauseIf" /\ conds[f].type \notin Combining  BY <1>6 DEF PausesAt, Combining
  <2>3. last \in {0} \cup (i .. Len(conds))  BY <1>1, <1>3, FinalIs
  <2>4. i \in Block(conds, "pause") <=> last # 0 /\ conds[last].type = "pauseIf"
    <3>1. i \in Block(conds, "pause") <=> Classification(conds, i) = "pause"  BY DEF Block
    <3>2. CASE last = 0  BY <1>1, <1>3, <3>1, <3>2, FinalIs
    <3>3. CASE last # 0
      <4>1. conds[last].type \in Deciding /\ Classification(conds, i) = Classify(conds[last])
        BY <1>1, <1>3, <3>3, FinalIs
      <4>2. Classify(conds[last]) = "pause" <=> conds[last].type = "pauseIf"
        BY <4>1 DEF Classify, Combining, Deciding, MeaningOf!Deciding
      <4>3. QED  BY <3>1, <3>3, <4>1, <4>2
    <3>4. QED  BY <3>2, <3>3
  <2>5. ASSUME last # 0  PROVE (\A p \in MeaningOf!Pauses(conds, r) : last <= p) <=> i <= f
    <3>1. (\A p \in MeaningOf!Pauses(conds, r) : last <= p) <=> last <= f
      BY <1>1, <1>2, <2>1, <2>3, <2>5
    <3>2. \A k \in i .. last - 1 : conds[k].type \in Combining  BY <1>1, <1>3, <2>5, FinalIs
    <3>3. ~(i <= f /\ f < last)  BY <1>1, <2>2, <2>3, <3>2
    <3>4. last <= f => i <= f  BY <1>1, <2>3, <2>5
    <3>5. i <= f => last <= f  BY <1>1, <2>3, <2>5, <3>3
    <3>6. QED  BY <3>1, <3>4, <3>5
  <2>6. QED  BY <1>4, <2>1, <2>4, <2>5
<1>7. QED  BY <1>4, <1>5, <1>6

LEMMA MeaningDoes ==
  ASSUME NEW conds, NEW h, NEW truth, NEW r, Group(conds, h, truth, r)
  PROVE  MeaningIs(Meaning(conds, h, truth), conds, h, r)
<1>1. conds \in Seq(CondSet) /\ r = Links(conds, h, truth)  BY DEF Group
<1>2. PICK M : M = Meaning(conds, h, truth)  OBVIOUS
<1> DEFINE D == DOMAIN conds
           pauses == MeaningOf!Pauses(conds, r)
           runs == NoPause(conds, r, D)
           Is(types) == \A f \in MeaningOf!Finals(conds, types) : Valid(conds, r, f)
           kept == [i \in D |-> IF MeaningOf!Seen(conds, r, i) THEN Kept(conds, r, i) ELSE h[i]]
<1>3. M = [paused |-> pauses # {},
           reset |-> pauses = {} /\ \E f \in MeaningOf!Finals(conds, {"resetIf"}) : Valid(conds, r, f),
           true |-> pauses = {} /\ Is(Deciding \ {"pauseIf", "resetIf"}),
           primed |-> pauses = {} /\ Is(Deciding \ {"pauseIf", "resetIf", "trigger"}),
           hits |-> kept]
  <2>1. Meaning(conds, h, truth) =
          LET links == Links(conds, h, truth)
          IN  [paused |-> MeaningOf!Pauses(conds, links) # {},
               reset |-> /\ MeaningOf!Pauses(conds, links) = {}
                         /\ \E f \in MeaningOf!Finals(conds, {"resetIf"}) : Valid(conds, links, f),
               true |-> /\ MeaningOf!Pauses(conds, links) = {}
                        /\ \A f \in MeaningOf!Finals(conds, Deciding \ {"pauseIf", "resetIf"}) :
                             Valid(conds, links, f),
               primed |-> /\ MeaningOf!Pauses(conds, links) = {}
                          /\ \A f \in MeaningOf!Finals(conds, Deciding \ {"pauseIf", "resetIf", "trigger"}) :
                               Valid(conds, links, f),
               hits |-> [i \in DOMAIN conds |-> IF MeaningOf!Seen(conds, links, i)
                                                THEN Kept(conds, links, i) ELSE h[i]]]
    BY Zenon DEF Meaning, MeaningOf!Meaning, Links, Valid, Kept, Deciding
  <2>2. QED  BY <1>1, <1>2, <2>1
<1>4. pauses = {} <=> runs
  BY DEF MeaningOf!Pauses, MeaningOf!Finals, PausesAt, NoPause, Valid
<1>5. (\E f \in MeaningOf!Finals(conds, {"resetIf"}) : Valid(conds, r, f))
        <=> \E f \in D : conds[f].type = "resetIf" /\ Valid(conds, r, f)
  BY DEF MeaningOf!Finals
<1>6. runs /\ ~(\E f \in D : conds[f].type = "resetIf" /\ Valid(conds, r, f)) =>
        /\ Is(Deciding \ {"pauseIf", "resetIf"}) <=> \A f \in D : Lets(conds[f], Valid(conds, r, f))
        /\ Is(Deciding \ {"pauseIf", "resetIf", "trigger"}) <=>
             \A f \in D : conds[f].type # "trigger" => Lets(conds[f], Valid(conds, r, f))
  BY DEF MeaningOf!Finals, NoPause, PausesAt, Lets
<1>7. M.hits = kept  BY <1>3
<1>8. \A i \in D : kept[i] = IF MeaningOf!Seen(conds, r, i) THEN Kept(conds, r, i) ELSE h[i]
  OBVIOUS
<1>9. DOMAIN kept = D /\ kept = [i \in D |-> kept[i]]  OBVIOUS
<1>10. /\ M.paused = (pauses # {})
       /\ M.reset = (pauses = {} /\ \E f \in MeaningOf!Finals(conds, {"resetIf"}) : Valid(conds, r, f))
       /\ M.true = (pauses = {} /\ Is(Deciding \ {"pauseIf", "resetIf"}))
       /\ M.primed = (pauses = {} /\ Is(Deciding \ {"pauseIf", "resetIf", "trigger"}))
  BY <1>3
<1> HIDE DEF kept, pauses, runs, Is
<1>11. MeaningIs(M, conds, h, r)
  <2>1. runs => \A i \in D : M.hits[i] = Kept(conds, r, i)  BY <1>1, <1>7, <1>8, SeenIs DEF runs
  <2>2. ASSUME NEW f \in D, PausesAt(conds, r, f), NoPause(conds, r, {i \in D : i < f}),
               NEW i \in D
        PROVE  M.hits[i] = IF i \in Block(conds, "pause") /\ i <= f THEN Kept(conds, r, i) ELSE h[i]
    <3>1. MeaningOf!Seen(conds, r, i) <=> i \in Block(conds, "pause") /\ i <= f
      BY <1>1, <2>2, SeenIs
    <3>2. QED  BY <1>7, <1>8, <3>1
  <2>3. /\ M.paused = ~runs
        /\ M.reset = (runs /\ \E f \in D : conds[f].type = "resetIf" /\ Valid(conds, r, f))
    BY <1>4, <1>5, <1>10
  <2>4. runs /\ ~M.reset =>
          /\ M.true = \A f \in D : Lets(conds[f], Valid(conds, r, f))
          /\ M.primed = \A f \in D : conds[f].type # "trigger" => Lets(conds[f], Valid(conds, r, f))
    BY <1>4, <1>6, <1>10, <2>3
  <2>5. ~runs => M.true = FALSE /\ M.primed = FALSE  BY <1>4, <1>10
  <2>6. QED  BY <1>7, <1>9, <2>1, <2>2, <2>3, <2>4, <2>5 DEF MeaningIs, runs
<1>12. QED  BY <1>2, <1>11

\* What comes of one block after another.
LEMMA UptoThen ==
  ASSUME NEW conds, NEW h, NEW truth, NEW r, Group(conds, h, truth, r),
         NEW x0 \in EvalSet(conds), NEW x \in EvalSet(conds), NEW v \in EvalSet(conds),
         NEW D \in SUBSET (DOMAIN conds), NEW B \in SUBSET (DOMAIN conds),
         Upto(x, x0, conds, r, D), Upto(v, x, conds, r, B)
  PROVE  Upto(v, x0, conds, r, D \cup B)
<1>1. v.hits = [k \in DOMAIN conds |-> IF k \in D \cup B THEN Kept(conds, r, k) ELSE x0.hits[k]]
  BY DEF Upto
<1>2. v.reset \in BOOLEAN /\ v.true \in BOOLEAN /\ v.primed \in BOOLEAN /\ v.hasHits \in BOOLEAN
      /\ x.hasHits \in BOOLEAN
  BY DEF EvalSet
<1>3. v.reset <=> x0.reset \/ \E f \in D \cup B : conds[f].type = "resetIf" /\ Valid(conds, r, f)
  BY DEF Upto
<1>4. v.true <=> x0.true /\ \A f \in D \cup B : Lets(conds[f], Valid(conds, r, f))
  BY DEF Upto
<1>5. v.primed <=> x0.primed /\ \A f \in D \cup B : conds[f].type # "trigger" =>
                                                      Lets(conds[f], Valid(conds, r, f))
  BY DEF Upto
<1>6. (x0.hasHits => v.hasHits) /\ \A i \in D \cup B : r[i].tally > 0 => v.hasHits
  BY <1>2 DEF Upto
<1>7. QED  BY <1>1, <1>2, <1>3, <1>4, <1>5, <1>6 DEF Upto

\* A group begins with nothing but what the groups before it brought.
Begun(b, e, conds, h) ==
  /\ b \in EvalSet(conds) /\ b.hits = h /\ Fresh(b)
  /\ b.true = TRUE /\ b.primed = TRUE /\ b.paused = FALSE
  /\ b.measured = None /\ b.canMeasure = TRUE /\ b.fromHits = FALSE
  /\ b.reset = e.reset /\ b.hasHits = e.hasHits

LEMMA BeginIs ==
  ASSUME NEW other, NEW e \in EvalSet(other), NEW conds, NEW h \in [DOMAIN conds -> Nat]
  PROVE  Begun(Begin(e, h), e, conds, h)
<1>1. PICK b : b = Begin(e, h)  OBVIOUS
<1>2. PICK no \in BOOLEAN : no = FALSE  OBVIOUS
<1>3. PICK yes \in BOOLEAN : yes = TRUE  OBVIOUS
<1>4. PICK none \in Int : none = 0  OBVIOUS
<1>5. PICK unmeasured \in Nat \cup {None} : unmeasured = None  OBVIOUS
<1>6. PICK d : d = [e EXCEPT !.hits = h, !.valid = no, !.measured = unmeasured, !.addHits = none]
  OBVIOUS
<1>7. PICK c : c = [d EXCEPT !.true = yes, !.primed = yes, !.paused = no, !.canMeasure = yes]  OBVIOUS
<1>8. d \in EvalSet(conds) /\ d.hits = h /\ d.measured = unmeasured /\ d.addHits = none
      /\ d.reset = e.reset /\ d.hasHits = e.hasHits
  BY <1>6 DEF EvalSet
<1>9. c \in EvalSet(conds) /\ c.hits = h /\ c.measured = unmeasured /\ c.addHits = none
      /\ c.true = yes /\ c.primed = yes /\ c.paused = no /\ c.canMeasure = yes
      /\ c.reset = e.reset /\ c.hasHits = e.hasHits
  <2>1. PICK t : t = [d EXCEPT !.true = yes, !.primed = yes]  OBVIOUS
  <2>2. t \in EvalSet(conds)  BY ZenonT(60), <1>8, <2>1 DEF EvalSet
  <2>3. /\ t.hits = d.hits /\ t.measured = d.measured /\ t.addHits = d.addHits
        /\ t.true = yes /\ t.primed = yes /\ t.reset = d.reset /\ t.hasHits = d.hasHits
    BY <1>8, <2>1 DEF EvalSet
  <2>4. c = [t EXCEPT !.paused = no, !.canMeasure = yes]  BY <1>7, <2>1
  <2>5. c \in EvalSet(conds)  BY ZenonT(60), <2>2, <2>4 DEF EvalSet
  <2>6. /\ c.hits = t.hits /\ c.measured = t.measured /\ c.addHits = t.addHits
        /\ c.true = t.true /\ c.primed = t.primed /\ c.paused = no /\ c.canMeasure = yes
        /\ c.reset = t.reset /\ c.hasHits = t.hasHits
    BY <2>2, <2>4 DEF EvalSet
  <2>7. QED  BY <1>8, <2>3, <2>5, <2>6
<1>10. b = [c EXCEPT !.fromHits = no, !.andNext = yes, !.orNext = no, !.resetNext = no]
  <2>1. b = [e EXCEPT
              !.hits = h, !.valid = no, !.measured = unmeasured, !.addHits = none,
              !.true = yes, !.primed = yes, !.paused = no,
              !.canMeasure = yes, !.fromHits = no, !.andNext = yes,
              !.orNext = no, !.resetNext = no]
    BY <1>1, <1>2, <1>3, <1>4, <1>5, Zenon DEF Begin
  <2>2. QED  BY <1>6, <1>7, <2>1
<1>11. b \in EvalSet(conds) /\ b.hits = h /\ b.measured = unmeasured /\ b.addHits = none
       /\ b.true = yes /\ b.primed = yes /\ b.paused = no /\ b.canMeasure = yes
       /\ b.fromHits = no /\ b.andNext = yes /\ b.orNext = no /\ b.resetNext = no
       /\ b.reset = e.reset /\ b.hasHits = e.hasHits
  BY <1>9, <1>10 DEF EvalSet
<1>12. QED  BY <1>1, <1>2, <1>3, <1>4, <1>5, <1>11 DEF Begun, Fresh

\* A block, after those of D were evaluated and before any pause.
Going(x, b, conds, r, D) ==
  /\ x \in EvalSet(conds) /\ x.paused = FALSE /\ Fresh(x)
  /\ Upto(x, b, conds, r, D)

Went(v, x, b, conds, r, D, class) ==
  LET B == Block(conds, class)
  IN  /\ v \in EvalSet(conds)
      /\ ~v.paused =>
           /\ Upto(v, b, conds, r, D \cup B) /\ NoPause(conds, r, B) /\ Shows(v, conds, r, B)
           /\ class # "other" => Fresh(v)
      /\ v.paused =>
           /\ v.hasHits
           /\ \E f \in B : /\ PausesAt(conds, r, f) /\ NoPause(conds, r, {i \in B : i < f})
                           /\ Upto(v, x, conds, r, {i \in B : i <= f})

LEMMA BlockDoes ==
  ASSUME NEW conds, NEW h, NEW truth, NEW r, Group(conds, h, truth, r), NEW class,
         NEW value \in Nat, NEW b \in EvalSet(conds), b.hits = h, NEW x,
         NEW D \in SUBSET (DOMAIN conds), D \cap Block(conds, class) = {},
         Going(x, b, conds, r, D)
  PROVE  Went(Process(x, conds, class, truth, value), x, b, conds, r, D, class)
<1>1. conds \in Seq(CondSet) /\ DOMAIN conds = 1 .. Len(conds) /\ Len(conds) \in Nat  BY DEF Group
<1>2. PICK B : B = Block(conds, class)  OBVIOUS
<1>3. B \in SUBSET (DOMAIN conds)  BY <1>2 DEF Block
<1>4. PICK v : v = Process(x, conds, class, truth, value)  OBVIOUS
<1>5. x \in EvalSet(conds) /\ ~x.paused /\ Fresh(x) /\ Upto(x, b, conds, r, D)  BY DEF Going
<1>6. \A k \in B : x.hits[k] = h[k]
  <2>1. TAKE k \in B
  <2>2. k \notin D /\ k \in DOMAIN conds  BY <1>2, <1>3
  <2>3. QED  BY <1>5, <2>2 DEF Upto
<1>7. Passed(v, x, conds, r, B, Len(conds))
  <2>1. Passed(Process(x, conds, class, truth, value), x, conds, r, B, Len(conds))
    BY <1>2, <1>5, <1>6, ProcessDoes
  <2>2. QED  BY <1>4, <2>1
<1>8. {i \in B : i <= Len(conds)} = B  BY <1>1, <1>3
<1>9. v \in EvalSet(conds)  BY <1>7 DEF Passed
<1>10. ASSUME ~v.paused
       PROVE  /\ Upto(v, b, conds, r, D \cup B) /\ NoPause(conds, r, B) /\ Shows(v, conds, r, B)
              /\ class # "other" => Fresh(v)
  <2>1. /\ Upto(v, x, conds, r, B) /\ NoPause(conds, r, B) /\ Shows(v, conds, r, B)
        /\ Between(v, conds, r, B, Len(conds))
    BY <1>7, <1>8, <1>10 DEF Passed
  <2>2. Upto(v, b, conds, r, D \cup B)  BY <1>3, <1>5, <1>9, <2>1, UptoThen
  <2>3. ASSUME class # "other"  PROVE ~(Len(conds) \in B /\ conds[Len(conds)].type \in Combining)
    <3>1. SUFFICES ASSUME Len(conds) \in B, conds[Len(conds)].type \in Combining  PROVE FALSE
      BY SMTT(60)
    <3>2. PICK i \in 1 .. Len(conds) : i = Len(conds)  BY <1>1, <1>3, <3>1
    <3>3. Classification(conds, i) = "other"  BY <1>1, <3>1, <3>2, FinalNext
    <3>4. Classification(conds, i) = class  BY <1>2, <3>1, <3>2 DEF Block
    <3>5. QED  BY <2>3, <3>3, <3>4
  <2>4. QED  BY <2>1, <2>2, <2>3 DEF Between
<1>11. ASSUME v.paused
       PROVE  /\ v.hasHits
              /\ \E f \in B : /\ PausesAt(conds, r, f) /\ NoPause(conds, r, {i \in B : i < f})
                              /\ Upto(v, x, conds, r, {i \in B : i <= f})
  BY <1>7, <1>11 DEF Passed
<1>12. Went(v, x, b, conds, r, D, class)  BY <1>2, <1>9, <1>10, <1>11 DEF Went
<1>13. QED  BY <1>4, <1>12

\* What is measured when a MeasuredIf is false, or the hits are going to be reset.
Discounted(v, m, conds) ==
  /\ v \in EvalSet(conds) /\ v.hits = m.hits /\ v.hasHits = m.hasHits
  /\ v.true = m.true /\ v.primed = m.primed /\ v.paused = m.paused /\ v.reset = m.reset
  /\ v.canMeasure = m.canMeasure /\ v.fromHits = m.fromHits
  /\ Fresh(m) => Fresh(v)
  /\ v.measured = IF m.measured # None /\ (~m.canMeasure \/ (m.fromHits /\ m.reset))
                  THEN 0 ELSE m.measured

LEMMA DiscountIs ==
  ASSUME NEW conds, NEW m \in EvalSet(conds)
  PROVE  Discounted(Discount(m), m, conds)
<1>1. PICK v : v = Discount(m)  OBVIOUS
<1>2. PICK none \in Nat : none = 0  OBVIOUS
<1>3. CASE m.measured # None /\ (~m.canMeasure \/ (m.fromHits /\ m.reset))
  <2>1. v = [m EXCEPT !.measured = none]  BY <1>1, <1>2, <1>3, Zenon DEF Discount
  <2>2. v \in EvalSet(conds)  BY <2>1 DEF EvalSet
  <2>3. /\ v.hits = m.hits /\ v.hasHits = m.hasHits
        /\ v.true = m.true /\ v.primed = m.primed /\ v.paused = m.paused /\ v.reset = m.reset
        /\ v.canMeasure = m.canMeasure /\ v.fromHits = m.fromHits
        /\ v.addHits = m.addHits /\ v.andNext = m.andNext /\ v.orNext = m.orNext
        /\ v.resetNext = m.resetNext /\ v.measured = none
    BY <2>1 DEF EvalSet
  <2>4. Discounted(v, m, conds)  BY <1>2, <1>3, <2>2, <2>3 DEF Discounted, Fresh
  <2>5. QED  BY <1>1, <2>4
<1>4. CASE ~(m.measured # None /\ (~m.canMeasure \/ (m.fromHits /\ m.reset)))
  <2>1. v = m  BY <1>1, <1>4, Zenon DEF Discount
  <2>2. Discounted(v, m, conds)  BY <1>4, <2>1 DEF Discounted
  <2>3. QED  BY <1>1, <2>2
<1>5. QED  BY <1>3, <1>4

Cleared(v, e, conds) ==
  /\ v \in EvalSet(conds) /\ (~e.reset => v = e)
  /\ v.hasHits = e.hasHits /\ v.paused = e.paused /\ v.reset = e.reset
  /\ v.measured = e.measured /\ v.canMeasure = e.canMeasure /\ v.fromHits = e.fromHits

\* The Measured conditions begin with their hits, unless these are going to be reset.
LEMMA MeasuredIs ==
  ASSUME NEW conds, NEW e \in EvalSet(conds), NEW truth, NEW value
  PROVE  \E c : /\ Cleared(c, e, conds)
                /\ ProcessMeasured(e, conds, truth, value)
                     = Discount(Process(c, conds, "measured", truth, value))
<1> DEFINE cleared == [i \in DOMAIN conds |-> IF e.reset /\ i \in Block(conds, "measured")
                                              THEN 0 ELSE e.hits[i]]
           c == [e EXCEPT !.hits = cleared]
<1>1. e.hits \in [DOMAIN conds -> Nat]  BY DEF EvalSet
<1>2. cleared \in [DOMAIN conds -> Nat] /\ (~e.reset => cleared = e.hits)  BY <1>1
<1>3. ProcessMeasured(e, conds, truth, value) = Discount(Process(c, conds, "measured", truth, value))
  BY Zenon DEF ProcessMeasured
<1> HIDE DEF cleared
<1>4. c \in EvalSet(conds)  BY <1>2 DEF EvalSet
<1>5. /\ c.hasHits = e.hasHits /\ c.paused = e.paused /\ c.reset = e.reset
      /\ c.measured = e.measured /\ c.canMeasure = e.canMeasure /\ c.fromHits = e.fromHits
  BY DEF EvalSet
<1>6. ~e.reset => c = e  BY <1>2 DEF EvalSet
<1> HIDE DEF c
<1>7. Cleared(c, e, conds)  BY <1>4, <1>5, <1>6 DEF Cleared
<1>8. QED  BY <1>3, <1>7

\* A block when the hits are going to be reset.
ResetPass(v, x, conds, class) ==
  /\ v \in EvalSet(conds) /\ v.reset = TRUE /\ v.paused = FALSE
  /\ x.hasHits => v.hasHits
  /\ class # "measured" => /\ v.measured = x.measured /\ v.fromHits = x.fromHits
                           /\ v.canMeasure = x.canMeasure
  /\ class = "measured" =>
       \A f : Only(conds, f) => v.measured = 0 /\ v.fromHits = TRUE

LEMMA ResetPassDoes ==
  ASSUME NEW conds \in Seq(CondSet), NEW truth \in [DOMAIN conds -> BOOLEAN],
         NEW class \in {"hitTarget", "measured", "other"}, NEW value \in Nat,
         NEW x \in EvalSet(conds), x.reset = TRUE, x.paused = FALSE
  PROVE  ResetPass(Pass(x, conds, class, truth, value), x, conds, class)
<1>1. PICK v : v = Pass(x, conds, class, truth, value)  OBVIOUS
<1>2. CASE LeftOut(x, class)
  <2>1. v = x  BY <1>1, <1>2, Zenon DEF Pass
  <2>2. class # "measured"  BY <1>2 DEF LeftOut
  <2>3. ResetPass(v, x, conds, class)  BY <2>1, <2>2 DEF ResetPass
  <2>4. QED  BY <1>1, <2>3
<1>3. CASE ~LeftOut(x, class) /\ class # "measured"
  <2>1. PICK u : u = Process(x, conds, class, truth, value)  OBVIOUS
  <2>2. Runs(u, x, conds, class, Len(conds))  BY <2>1, ProcessLeaves
  <2>3. v = u  BY <1>1, <1>3, <2>1, Zenon DEF Pass
  <2>4. ResetPass(u, x, conds, class)  BY <1>3, <2>2 DEF ResetPass, Runs
  <2>5. QED  BY <1>1, <2>3, <2>4
<1>4. CASE class = "measured"
  <2>1. ~LeftOut(x, class)  BY <1>4 DEF LeftOut
  <2>2. v = ProcessMeasured(x, conds, truth, value)  BY <1>1, <1>4, <2>1, Zenon DEF Pass
  <2>3. PICK c : /\ Cleared(c, x, conds)
                 /\ v = Discount(Process(c, conds, class, truth, value))
    BY <1>4, <2>2, MeasuredIs
  <2>4. /\ c \in EvalSet(conds) /\ c.hasHits = x.hasHits /\ c.paused = FALSE /\ c.reset = TRUE
    BY <2>3 DEF Cleared
  <2>5. PICK m : m = Process(c, conds, class, truth, value)  OBVIOUS
  <2>6. Runs(m, c, conds, class, Len(conds))  BY <2>4, <2>5, ProcessLeaves
  <2>7. /\ m \in EvalSet(conds) /\ m.reset = TRUE /\ m.paused = FALSE
        /\ x.hasHits => m.hasHits
    BY <1>4, <2>4, <2>6 DEF Runs
  <2>8. Discounted(v, m, conds)  BY <2>3, <2>5, <2>7, DiscountIs
  <2>9. ASSUME NEW f, Only(conds, f)  PROVE v.measured = 0 /\ v.fromHits = TRUE
    <3>1. f <= Len(conds)  BY <2>9 DEF Only
    <3>2. m.measured \in Nat /\ m.fromHits = TRUE  BY <1>4, <2>4, <2>6, <2>9, <3>1 DEF Runs
    <3>3. m.measured # None  BY <3>2 DEF None
    <3>4. QED  BY <2>7, <2>8, <3>2, <3>3 DEF Discounted
  <2>10. ResetPass(v, x, conds, class)
    BY <1>4, <2>7, <2>8, <2>9 DEF ResetPass, Discounted
  <2>11. QED  BY <1>1, <2>10
<1>5. QED  BY <1>2, <1>3, <1>4
\* What a group comes to in a frame: M is its meaning, e what the group before it left.
Meant(v, e, conds, h, M) ==
  /\ v \in EvalSet(conds)
  /\ v.paused = M.paused /\ v.reset = (e.reset \/ M.reset)
  /\ ~v.reset => v.true = M.true /\ v.primed = M.primed /\ v.hits = M.hits

\* ... what it says of its hits ...
Says(v, e, conds) ==
  /\ e.hasHits \/ v.paused => v.hasHits
  /\ v.paused => v.reset = e.reset
  /\ ~v.reset =>
       /\ \A i \in DOMAIN conds : v.hits[i] > 0 => v.hasHits
       /\ \A i \in DOMAIN conds : HasTarget(conds[i]) => v.hits[i] <= conds[i].target
       /\ (\A f \in DOMAIN conds : conds[f].type # "trigger") => v.true = v.primed

\* ... and what is measured of them.
Tallies(v, conds, h) ==
  /\ v.paused => v.measured = None
  /\ \A f : Only(conds, f) /\ (\A k \in DOMAIN conds : conds[k].type \notin {"addHits", "subHits"}) =>
       IF v.paused THEN v.hits[f] = h[f]
       ELSE v.fromHits = TRUE /\ v.measured = IF v.reset THEN 0 ELSE v.hits[f]

GroupDone(v, e, conds, h, M) ==
  Meant(v, e, conds, h, M) /\ Says(v, e, conds) /\ Tallies(v, conds, h)

\* A PauseIf that holds ends the frame for the group.
LEMMA PausedGroup ==
  ASSUME NEW conds, NEW h, NEW truth, NEW r, Group(conds, h, truth, r), NEW M,
         MeaningIs(M, conds, h, r), NEW e, e.reset \in BOOLEAN, NEW b, Begun(b, e, conds, h), NEW v,
         NEW D, Went(v, b, b, conds, r, D, "pause"), v.paused, Runs(v, b, conds, "pause", Len(conds))
  PROVE  GroupDone(v, e, conds, h, M)
<1>1. conds \in Seq(CondSet) /\ DOMAIN conds = 1 .. Len(conds) /\ Len(conds) \in Nat
      /\ h \in [DOMAIN conds -> Nat]
  BY DEF Group
<1>2. PICK B : B = Block(conds, "pause")  OBVIOUS
<1>3. B \in SUBSET (DOMAIN conds) /\ \A f \in DOMAIN conds : conds[f].type = "pauseIf" => f \in B
  BY <1>1, <1>2, ClassIs DEF Block
<1>4. PICK f \in B : /\ PausesAt(conds, r, f) /\ NoPause(conds, r, {i \in B : i < f})
                     /\ Upto(v, b, conds, r, {i \in B : i <= f})
  BY <1>2 DEF Went
<1>5. f \in DOMAIN conds /\ f \in 1 .. Len(conds)  BY <1>1, <1>3, <1>4
<1>6. NoPause(conds, r, {i \in DOMAIN conds : i < f})  BY <1>3, <1>4 DEF NoPause, PausesAt
<1>7. ~NoPause(conds, r, DOMAIN conds)  BY <1>4, <1>5 DEF NoPause
<1>8. /\ M.paused = TRUE /\ M.reset = FALSE /\ M.true = FALSE /\ M.primed = FALSE
      /\ M.hits = [i \in DOMAIN conds |-> M.hits[i]]
      /\ \A i \in DOMAIN conds : M.hits[i] = IF i \in B /\ i <= f THEN Kept(conds, r, i) ELSE h[i]
  BY <1>2, <1>5, <1>6, <1>7, <1>4 DEF MeaningIs
<1>9. /\ b.hits = h /\ b.true = TRUE /\ b.primed = TRUE /\ b.paused = FALSE /\ b.measured = None
      /\ b.reset = e.reset /\ b.hasHits = e.hasHits
  BY DEF Begun
<1>10. /\ v \in EvalSet(conds) /\ v.reset = e.reset /\ v.hasHits /\ v.measured = None
       /\ v.paused = TRUE
       /\ \A k \in DOMAIN conds : k \notin B => v.hits[k] = h[k]
  BY <1>2, <1>9 DEF Runs, Went, EvalSet
<1>11. v.true = FALSE /\ v.primed = FALSE
  <2>1. ~Lets(conds[f], Valid(conds, r, f)) /\ conds[f].type # "trigger"
    BY <1>4 DEF Lets, PausesAt, Deciding, MeaningOf!Deciding
  <2>2. f \in {i \in B : i <= f}  BY <1>1, <1>3, <1>4
  <2>3. QED  BY <1>4, <1>9, <1>10, <2>1, <2>2 DEF Upto, EvalSet
<1>12. v.hits = M.hits
  <2>1. v.hits = [i \in DOMAIN conds |-> IF i \in B /\ i <= f THEN Kept(conds, r, i) ELSE h[i]]
    BY <1>4, <1>9 DEF Upto
  <2>2. QED  BY <1>8, <2>1
<1>13. Meant(v, e, conds, h, M)  BY <1>8, <1>10, <1>11, <1>12 DEF Meant
<1>14. Says(v, e, conds)
  <2>1. ASSUME NEW i \in DOMAIN conds, HasTarget(conds[i])  PROVE v.hits[i] <= conds[i].target
    <3>1. conds[i].target \in Nat  BY <1>1, CondHas
    <3>2. /\ h[i] \in Nat /\ h[i] <= conds[i].target
          /\ r[i].tally \in Nat /\ r[i].tally <= conds[i].target
      BY <1>1, <2>1, LinkIs
    <3>3. Kept(conds, r, i) = r[i].tally  BY <1>1, <2>1, TotalIs
    <3>4. QED  BY <1>8, <1>12, <3>2, <3>3
  <2>2. QED  BY <1>10, <1>11, <2>1 DEF Says
<1>15. Tallies(v, conds, h)
  <2>1. ASSUME NEW g, Only(conds, g)  PROVE v.hits[g] = h[g]
    <3>1. g \in DOMAIN conds /\ conds[g].type = "measured"  BY <2>1 DEF Only
    <3>2. conds[g].type \in Deciding /\ Classify(conds[g]) # "pause"
      BY <3>1 DEF Deciding, MeaningOf!Deciding, Classify, Combining
    <3>3. g \notin B  BY <1>1, <1>2, <3>1, <3>2, ClassIs
    <3>4. QED  BY <1>10, <3>1, <3>3
  <2>2. QED  BY <1>10, <2>1 DEF Tallies
<1>16. QED  BY <1>13, <1>14, <1>15 DEF GroupDone

\* All hits are going to be reset.
IsReset(v, e, b, conds, r) ==
  /\ v \in EvalSet(conds) /\ v.reset = TRUE /\ v.paused = FALSE /\ (b.hasHits => v.hasHits)
  /\ NoPause(conds, r, DOMAIN conds)
  /\ e.reset \/ \E f \in DOMAIN conds : conds[f].type = "resetIf" /\ Valid(conds, r, f)
  /\ \A f : Only(conds, f) => v.measured = 0 /\ v.fromHits = TRUE

LEMMA ResetGroup ==
  ASSUME NEW conds, NEW h, NEW truth, NEW r, Group(conds, h, truth, r), NEW M,
         MeaningIs(M, conds, h, r), NEW e, e.reset \in BOOLEAN, NEW b, Begun(b, e, conds, h), NEW v,
         IsReset(v, e, b, conds, r)
  PROVE  GroupDone(v, e, conds, h, M)
<1>1. M.paused = FALSE /\ M.reset \in BOOLEAN /\ (e.reset \/ M.reset) = TRUE
  BY DEF MeaningIs, IsReset
<1>2. Meant(v, e, conds, h, M)  BY <1>1 DEF Meant, IsReset
<1>3. b.hasHits = e.hasHits  BY DEF Begun
<1>4. Says(v, e, conds)  BY <1>3 DEF Says, IsReset
<1>5. Tallies(v, conds, h)  BY DEF Tallies, IsReset
<1>6. QED  BY <1>2, <1>4, <1>5 DEF GroupDone

\* Neither.
Finished(v, b, conds, r) ==
  /\ v \in EvalSet(conds) /\ v.reset = FALSE /\ v.paused = FALSE
  /\ NoPause(conds, r, DOMAIN conds) /\ Upto(v, b, conds, r, DOMAIN conds)
  /\ Shows(v, conds, r, DOMAIN conds)

LEMMA FinishedGroup ==
  ASSUME NEW conds, NEW h, NEW truth, NEW r, Group(conds, h, truth, r), NEW M,
         MeaningIs(M, conds, h, r), NEW e, e.reset \in BOOLEAN, NEW b, Begun(b, e, conds, h), NEW v,
         Finished(v, b, conds, r)
  PROVE  GroupDone(v, e, conds, h, M)
<1>1. conds \in Seq(CondSet) /\ DOMAIN conds = 1 .. Len(conds) /\ Len(conds) \in Nat
  BY DEF Group
<1>0. /\ v \in EvalSet(conds) /\ v.reset = FALSE /\ v.paused = FALSE
      /\ NoPause(conds, r, DOMAIN conds) /\ Upto(v, b, conds, r, DOMAIN conds)
      /\ Shows(v, conds, r, DOMAIN conds)
  BY DEF Finished
<1>2. /\ b.true = TRUE /\ b.primed = TRUE /\ b.reset = e.reset /\ b.hasHits = e.hasHits
  BY DEF Begun
<1>3. e.reset = FALSE /\ ~\E f \in DOMAIN conds : conds[f].type = "resetIf" /\ Valid(conds, r, f)
  BY <1>0, <1>2 DEF Upto
<1>4. /\ M.paused = FALSE /\ M.reset = FALSE
      /\ M.true = \A f \in DOMAIN conds : Lets(conds[f], Valid(conds, r, f))
      /\ M.primed = \A f \in DOMAIN conds : conds[f].type # "trigger" =>
                                              Lets(conds[f], Valid(conds, r, f))
      /\ M.hits = [i \in DOMAIN conds |-> M.hits[i]]
      /\ \A i \in DOMAIN conds : M.hits[i] = Kept(conds, r, i)
  BY <1>0, <1>3 DEF MeaningIs
<1>5. /\ v.true = \A f \in DOMAIN conds : Lets(conds[f], Valid(conds, r, f))
      /\ v.primed = \A f \in DOMAIN conds : conds[f].type # "trigger" =>
                                              Lets(conds[f], Valid(conds, r, f))
      /\ v.hits = [i \in DOMAIN conds |-> Kept(conds, r, i)]
      /\ e.hasHits => v.hasHits
      /\ \A i \in DOMAIN conds : r[i].tally > 0 => v.hasHits
  BY <1>0, <1>2 DEF Upto, EvalSet
<1>6. Meant(v, e, conds, h, M)
  <2>1. v.hits = M.hits  BY <1>4, <1>5
  <2>2. v.true = M.true /\ v.primed = M.primed  BY <1>4, <1>5
  <2>3. QED  BY <1>0, <1>3, <1>4, <2>1, <2>2 DEF Meant
<1>7. \A i \in DOMAIN conds :
        /\ r[i].tally \in Nat /\ (HasTarget(conds[i]) => r[i].tally <= conds[i].target)
        /\ Kept(conds, r, i) = IF conds[i].type = "pauseIf" /\ ~HasTarget(conds[i]) /\ ~r[i].holds
                               THEN 0 ELSE r[i].tally
  BY <1>1, LinkIs, TotalIs
<1>8. Says(v, e, conds)
  <2>1. \A i \in DOMAIN conds : v.hits[i] > 0 => v.hasHits  BY <1>5, <1>7
  <2>2. \A i \in DOMAIN conds : HasTarget(conds[i]) => v.hits[i] <= conds[i].target
    BY <1>5, <1>7
  <2>3. (\A f \in DOMAIN conds : conds[f].type # "trigger") => v.true = v.primed  BY <1>5
  <2>4. QED  BY <1>0, <1>5, <2>1, <2>2, <2>3 DEF Says
<1>9. ASSUME NEW f, Only(conds, f),
             \A k \in DOMAIN conds : conds[k].type \notin {"addHits", "subHits"}
      PROVE  v.fromHits = TRUE /\ v.measured = v.hits[f]
  <2>1. f \in DOMAIN conds /\ f \in 1 .. Len(conds) /\ conds[f].type = "measured"  BY <1>1, <1>9 DEF Only
  <2>2. v.fromHits = TRUE
        /\ v.measured = IF Total(conds, r, f) < 0 THEN 0 ELSE Total(conds, r, f)
    BY <1>0, <1>9, <2>1 DEF Shows
  <2>3. NothingAdds(conds, r, f, f - 1)  BY <1>1, <1>9, <2>1 DEF NothingAdds, Adds
  <2>4. f \in Nat /\ f - 1 \in 0 .. Len(conds)  BY <1>1, <2>1
  <2>5. SumTo(conds, r, f, f - 1) = 0  BY <2>3, <2>4, SumIs
  <2>6. v.hits[f] = r[f].tally  BY <1>5, <1>7, <2>1
  <2>7. QED  BY <1>7, <2>1, <2>2, <2>5, <2>6 DEF Total
<1>10. Tallies(v, conds, h)  BY <1>0, <1>9 DEF Tallies
<1>11. QED  BY <1>6, <1>8, <1>10 DEF GroupDone

\* A block when nothing is paused or reset.
NormalPass(v, x, b, conds, r, D, class) ==
  /\ v \in EvalSet(conds) /\ v.paused = FALSE /\ v.reset = FALSE
  /\ class # "other" => Fresh(v)
  /\ Upto(v, b, conds, r, D \cup Block(conds, class))
  /\ class # "measured" => /\ v.measured = x.measured /\ v.fromHits = x.fromHits
                           /\ v.canMeasure = x.canMeasure
  /\ class = "measured" /\ x.canMeasure => Shows(v, conds, r, Block(conds, class))

LEMMA NormalPassDoes ==
  ASSUME NEW conds, NEW h, NEW truth, NEW r, Group(conds, h, truth, r),
         NEW class \in {"hitTarget", "measured", "other"},
         NEW value \in Nat, NEW b \in EvalSet(conds), b.hits = h, NEW x,
         NEW D \in SUBSET (DOMAIN conds), D \cap Block(conds, class) = {},
         Going(x, b, conds, r, D), x.reset = FALSE
  PROVE  NormalPass(Pass(x, conds, class, truth, value), x, b, conds, r, D, class)
<1>1. conds \in Seq(CondSet) /\ truth \in [DOMAIN conds -> BOOLEAN]  BY DEF Group
<1>2. PICK v : v = Pass(x, conds, class, truth, value)  OBVIOUS
<1>3. PICK m : m = Process(x, conds, class, truth, value)  OBVIOUS
<1>4. x \in EvalSet(conds) /\ x.paused = FALSE  BY DEF Going
<1>5. Went(m, x, b, conds, r, D, class)  BY <1>3, BlockDoes
<1>6. Runs(m, x, conds, class, Len(conds))  BY <1>1, <1>3, <1>4, ProcessLeaves
<1>7. m \in EvalSet(conds) /\ m.paused = FALSE /\ m.reset = FALSE
  BY <1>4, <1>6 DEF Runs
<1>8. /\ Upto(m, b, conds, r, D \cup Block(conds, class)) /\ Shows(m, conds, r, Block(conds, class))
      /\ class # "other" => Fresh(m)
  BY <1>5, <1>7 DEF Went
<1>9. ~LeftOut(x, class)  BY <1>4 DEF LeftOut
<1>10. CASE class # "measured"
  <2>1. v = m  BY <1>2, <1>3, <1>9, <1>10, Zenon DEF Pass
  <2>2. NormalPass(m, x, b, conds, r, D, class)
    BY <1>6, <1>7, <1>8, <1>10 DEF NormalPass, Runs
  <2>3. QED  BY <1>2, <2>1, <2>2
<1>11. CASE class = "measured"
  <2>1. v = ProcessMeasured(x, conds, truth, value)  BY <1>2, <1>9, <1>11, Zenon DEF Pass
  <2>2. PICK c : /\ Cleared(c, x, conds)
                 /\ v = Discount(Process(c, conds, class, truth, value))
    BY <1>4, <1>11, <2>1, MeasuredIs
  <2>3. c = x  BY <2>2 DEF Cleared
  <2>4. v = Discount(m)  BY <1>3, <2>2, <2>3
  <2>5. Discounted(v, m, conds)  BY <1>7, <2>4, DiscountIs
  <2>6. Upto(v, b, conds, r, D \cup Block(conds, class))
    BY <1>8, <2>5 DEF Upto, Discounted
  <2>7. ASSUME x.canMeasure  PROVE Shows(v, conds, r, Block(conds, class))
    <3>1. SUFFICES ASSUME NEW f \in Block(conds, class), Only(conds, f)
                   PROVE  /\ v.measured = IF Total(conds, r, f) < 0 THEN 0 ELSE Total(conds, r, f)
                          /\ v.fromHits = TRUE
      BY DEF Shows
    <3>2. m.canMeasure = x.canMeasure  BY <1>6, <3>1 DEF Runs
    <3>3. v.measured = m.measured /\ v.fromHits = m.fromHits
      BY <1>7, <2>5, <2>7, <3>2 DEF Discounted
    <3>4. QED  BY <1>8, <3>1, <3>3 DEF Shows
  <2>8. NormalPass(v, x, b, conds, r, D, class)
    BY <1>7, <1>8, <1>11, <2>5, <2>6, <2>7 DEF NormalPass, Discounted
  <2>9. QED  BY <1>2, <2>8
<1>12. QED  BY <1>10, <1>11

LEMMA BlocksCover ==
  ASSUME NEW conds \in Seq(CondSet), NEW i \in DOMAIN conds
  PROVE  Classification(conds, i) \in {"pause", "reset", "hitTarget", "measured", "other"}
<1>1. i \in 1 .. Len(conds) /\ DOMAIN conds = 1 .. Len(conds) /\ Len(conds) \in Nat  OBVIOUS
<1>2. CASE Final(conds, i) = 0  BY <1>1, <1>2, FinalIs
<1>3. CASE Final(conds, i) # 0
  <2>1. PICK f : f = Final(conds, i)  OBVIOUS
  <2>2. conds[f].type \in Deciding /\ Classification(conds, i) = Classify(conds[f])
    BY <1>1, <1>3, <2>1, FinalIs
  <2>3. QED  BY <2>2 DEF Classify, Combining, Deciding, MeaningOf!Deciding
<1>4. QED  BY <1>2, <1>3

\* The evaluation of a group does what the definition of the group means.
THEOREM GroupMeansItsOwn ==
  ASSUME NEW conds, NEW h, NEW truth, Group(conds, h, truth, Links(conds, h, truth)),
         NEW value \in Nat, NEW other, NEW e \in EvalSet(other)
  PROVE  GroupDone(TestCondset(e, conds, h, truth, value), e, conds, h, Meaning(conds, h, truth))
<1>1. PICK r : r = Links(conds, h, truth)  OBVIOUS
<1>2. Group(conds, h, truth, r)  BY <1>1
<1>3. conds \in Seq(CondSet) /\ DOMAIN conds = 1 .. Len(conds) /\ Len(conds) \in Nat
      /\ h \in [DOMAIN conds -> Nat] /\ truth \in [DOMAIN conds -> BOOLEAN]
  BY <1>2 DEF Group
<1>4. PICK M : M = Meaning(conds, h, truth)  OBVIOUS
<1>5. MeaningIs(M, conds, h, r)  BY <1>2, <1>4, MeaningDoes
<1>6. PICK b : b = Begin(e, h)  OBVIOUS
<1>7. Begun(b, e, conds, h)  BY <1>3, <1>6, BeginIs
<1>8. /\ b \in EvalSet(conds) /\ b.hits = h /\ Fresh(b) /\ b.paused = FALSE /\ b.reset = e.reset
      /\ b.hasHits = e.hasHits /\ b.canMeasure = TRUE
      /\ e.reset \in BOOLEAN /\ b.true \in BOOLEAN /\ b.primed \in BOOLEAN
  BY <1>7 DEF Begun, EvalSet
<1>9. PICK u1 : u1 = Pass(b, conds, "pause", truth, value)  OBVIOUS
<1>10. PICK u2 : u2 = Pass(u1, conds, "reset", truth, value)  OBVIOUS
<1>11. PICK u3 : u3 = Pass(u2, conds, "hitTarget", truth, value)  OBVIOUS
<1>12. PICK u4 : u4 = Pass(u3, conds, "measured", truth, value)  OBVIOUS
<1>13. PICK u5 : u5 = Pass(u4, conds, "other", truth, value)  OBVIOUS
<1>14. TestCondset(e, conds, h, truth, value) = u5
  BY <1>6, <1>9, <1>10, <1>11, <1>12, <1>13, Zenon DEF TestCondset
<1>15. PICK nothing \in SUBSET (DOMAIN conds) : nothing = {}  OBVIOUS
<1>16. Going(b, b, conds, r, nothing)
  <2>1. b.hits = [i \in DOMAIN conds |-> IF i \in nothing THEN Kept(conds, r, i) ELSE b.hits[i]]
    BY <1>3, <1>8, <1>15
  <2>2. Upto(b, b, conds, r, nothing)  BY <1>8, <1>15, <2>1 DEF Upto
  <2>3. QED  BY <1>8, <2>2 DEF Going
<1>17. u1 = Process(b, conds, "pause", truth, value)
  <2>1. ~LeftOut(b, "pause")  BY <1>8 DEF LeftOut
  <2>2. QED  BY <1>9, <2>1, Zenon DEF Pass
<1>18. Went(u1, b, b, conds, r, nothing, "pause")
  <2>1. nothing \cap Block(conds, "pause") = {}  BY <1>15
  <2>2. QED  BY <1>2, <1>8, <1>16, <1>17, <2>1, BlockDoes
<1>19. Runs(u1, b, conds, "pause", Len(conds))  BY <1>3, <1>8, <1>17, ProcessLeaves
<1>20. u1 \in EvalSet(conds) /\ u1.reset = e.reset /\ (b.hasHits => u1.hasHits)
       /\ u1.paused \in BOOLEAN /\ u1.canMeasure = b.canMeasure
  BY <1>8, <1>19 DEF Runs, EvalSet
<1>21. CASE u1.paused
  <2>1. u2 = u1  BY <1>10, <1>21, Zenon DEF Pass, LeftOut
  <2>2. u3 = u1  BY <1>11, <1>21, <2>1, Zenon DEF Pass, LeftOut
  <2>3. u4 = u1  BY <1>12, <1>21, <2>2, Zenon DEF Pass, LeftOut
  <2>4. u5 = u1  BY <1>13, <1>21, <2>3, Zenon DEF Pass, LeftOut
  <2>5. GroupDone(u1, e, conds, h, M)
    BY <1>2, <1>5, <1>7, <1>8, <1>18, <1>19, <1>21, PausedGroup
  <2>6. QED  BY <1>4, <1>14, <2>4, <2>5
<1>22. CASE ~u1.paused
  <2> DEFINE P == Block(conds, "pause")
             R == Block(conds, "reset")
             H == Block(conds, "hitTarget")
             S == Block(conds, "measured")
             O == Block(conds, "other")
  <2>1. /\ Upto(u1, b, conds, r, nothing \cup P) /\ NoPause(conds, r, P) /\ Fresh(u1)
        /\ u1.paused = FALSE
    BY <1>18, <1>20, <1>22 DEF Went
  <2>2. NoPause(conds, r, DOMAIN conds)
    <3>1. \A f \in DOMAIN conds : conds[f].type = "pauseIf" => f \in P  BY <1>3, ClassIs
    <3>2. QED  BY <2>1, <3>1 DEF NoPause, PausesAt
  <2>3. nothing \cup P = P /\ P \in SUBSET (DOMAIN conds)  BY <1>15 DEF Block
  <2>4. Going(u1, b, conds, r, P)  BY <1>20, <2>1, <2>3 DEF Going
  <2>5. u2 = Process(u1, conds, "reset", truth, value)
    <3>1. ~LeftOut(u1, "reset")  BY <2>1 DEF LeftOut
    <3>2. QED  BY <1>10, <3>1, Zenon DEF Pass
  <2>6. Went(u2, u1, b, conds, r, P, "reset")
    <3>1. P \cap R = {}  BY DEF Block
    <3> HIDE DEF P
    <3>2. QED  BY <1>2, <1>8, <2>3, <2>4, <2>5, <3>1, BlockDoes
  <2>7. Runs(u2, u1, conds, "reset", Len(conds))  BY <1>3, <1>20, <2>5, ProcessLeaves
  <2>8. u2 \in EvalSet(conds) /\ u2.paused = FALSE /\ (b.hasHits => u2.hasHits)
        /\ u2.canMeasure = TRUE
    BY <1>8, <1>20, <2>1, <2>7 DEF Runs
  <2>9. Upto(u2, b, conds, r, P \cup R) /\ Fresh(u2)  BY <2>6, <2>8 DEF Went
  <2>10. CASE u2.reset
    <3>1. e.reset \/ \E f \in DOMAIN conds : conds[f].type = "resetIf" /\ Valid(conds, r, f)
      BY <1>8, <2>9, <2>10 DEF Upto, Block
    <3>2. u2.reset = TRUE  BY <2>8, <2>10 DEF EvalSet
    <3>3. ResetPass(u3, u2, conds, "hitTarget")  BY <1>3, <1>11, <2>8, <3>2, ResetPassDoes
    <3>4. u3 \in EvalSet(conds) /\ u3.reset = TRUE /\ u3.paused = FALSE
      BY <3>3 DEF ResetPass
    <3>5. ResetPass(u4, u3, conds, "measured")  BY <1>3, <1>12, <3>4, ResetPassDoes
    <3>6. u4 \in EvalSet(conds) /\ u4.reset = TRUE /\ u4.paused = FALSE
      BY <3>5 DEF ResetPass
    <3>7. ResetPass(u5, u4, conds, "other")  BY <1>3, <1>13, <3>6, ResetPassDoes
    <3>8. /\ u5 \in EvalSet(conds) /\ u5.reset = TRUE /\ u5.paused = FALSE
          /\ b.hasHits => u5.hasHits
          /\ \A f : Only(conds, f) => u5.measured = 0 /\ u5.fromHits = TRUE
      BY <2>8, <3>3, <3>5, <3>7 DEF ResetPass
    <3>9. GroupDone(u5, e, conds, h, M)
      <4>1. IsReset(u5, e, b, conds, r)  BY <2>2, <3>1, <3>8 DEF IsReset
      <4>2. QED  BY <1>2, <1>5, <1>7, <1>8, <4>1, ResetGroup
    <3>10. QED  BY <1>4, <1>14, <3>9
  <2>11. CASE ~u2.reset
    <3>1. u2.reset = FALSE  BY <2>8, <2>11 DEF EvalSet
    <3>2. Going(u2, b, conds, r, P \cup R)  BY <2>8, <2>9 DEF Going
    <3>3. NormalPass(u3, u2, b, conds, r, P \cup R, "hitTarget")
      <4>1. P \cup R \in SUBSET (DOMAIN conds) /\ (P \cup R) \cap H = {}  BY DEF Block
      <4> DEFINE D == P \cup R
      <4> HIDE DEF D
      <4>2. D \in SUBSET (DOMAIN conds) /\ D \cap H = {} /\ Going(u2, b, conds, r, D)
        BY <3>2, <4>1 DEF D
      <4>3. NormalPass(u3, u2, b, conds, r, D, "hitTarget")
        BY <1>2, <1>8, <1>11, <3>1, <4>2, NormalPassDoes
      <4>4. QED  BY <4>3 DEF D
    <3>4. /\ Going(u3, b, conds, r, (P \cup R) \cup H) /\ u3.reset = FALSE /\ u3.canMeasure = TRUE
      BY <2>8, <3>3 DEF NormalPass, Going
    <3>5. NormalPass(u4, u3, b, conds, r, (P \cup R) \cup H, "measured")
      <4> DEFINE D == (P \cup R) \cup H
      <4>1. D \in SUBSET (DOMAIN conds) /\ D \cap S = {}  BY DEF Block
      <4> HIDE DEF D
      <4>2. Going(u3, b, conds, r, D)  BY <3>4 DEF D
      <4>3. NormalPass(u4, u3, b, conds, r, D, "measured")
        BY <1>2, <1>8, <1>12, <3>4, <4>1, <4>2, NormalPassDoes
      <4>4. QED  BY <4>3 DEF D
    <3>6. /\ Going(u4, b, conds, r, ((P \cup R) \cup H) \cup S) /\ u4.reset = FALSE
          /\ Shows(u4, conds, r, S)
      BY <3>4, <3>5 DEF NormalPass, Going
    <3>7. NormalPass(u5, u4, b, conds, r, ((P \cup R) \cup H) \cup S, "other")
      <4> DEFINE D == ((P \cup R) \cup H) \cup S
      <4>1. D \in SUBSET (DOMAIN conds) /\ D \cap O = {}  BY DEF Block
      <4> HIDE DEF D
      <4>2. Going(u4, b, conds, r, D)  BY <3>6 DEF D
      <4>3. NormalPass(u5, u4, b, conds, r, D, "other")
        BY <1>2, <1>8, <1>13, <3>6, <4>1, <4>2, NormalPassDoes
      <4>4. QED  BY <4>3 DEF D
    <3>8. (((P \cup R) \cup H) \cup S) \cup O = DOMAIN conds
      BY <1>3, BlocksCover DEF Block
    <3>9. u5 \in EvalSet(conds) /\ u5.reset = FALSE /\ u5.paused = FALSE
          /\ Upto(u5, b, conds, r, DOMAIN conds)
          /\ u5.measured = u4.measured /\ u5.fromHits = u4.fromHits
      BY <3>7, <3>8 DEF NormalPass
    <3>10. Shows(u5, conds, r, DOMAIN conds)
      <4>1. \A f \in DOMAIN conds : Only(conds, f) => f \in S  BY <1>3, ClassIs DEF Only
      <4>2. QED  BY <3>6, <3>9, <4>1 DEF Shows
    <3>11. GroupDone(u5, e, conds, h, M)
      <4>1. Finished(u5, b, conds, r)  BY <2>2, <3>9, <3>10 DEF Finished
      <4>2. QED  BY <1>2, <1>5, <1>7, <1>8, <4>1, FinishedGroup
    <3>12. QED  BY <1>4, <1>14, <3>11
  <2>12. QED  BY <2>10, <2>11
<1>23. QED  BY <1>21, <1>22

-----------------------------------------------------------------------------
(* The groups.                                                              *)

GroupsBody(p, done, g) ==
  Append(done, TestCondset(IF g = 1 THEN NoResults ELSE done[g - 1],
                           def[g], hits[g], p.truth[g], p.value))
GroupsLoop == INSTANCE Loops WITH Body <- GroupsBody

\* A frame of a trigger.
FrameOf(d, h, truth) ==
  /\ d \in Seq(Seq(CondSet)) /\ d # << >> /\ DOMAIN h = DOMAIN d /\ DOMAIN truth = DOMAIN d
  /\ \A g \in DOMAIN d : Group(d[g], h[g], truth[g], Links(d[g], h[g], truth[g]))

\* What the group before left.
Before(done, g) == IF g = 1 THEN NoResults ELSE done[g - 1]

\* The first j groups are done.
Done(done, d, h, truth, j) ==
  /\ Len(done) = j
  /\ \A g \in 1 .. j : GroupDone(done[g], Before(done, g), d[g], h[g], Meaning(d[g], h[g], truth[g]))

LEMMA NoResultsIs ==
  /\ NoResults \in EvalSet(<< >>) /\ NoResults.reset = FALSE /\ NoResults.hasHits = FALSE
<1>1. PICK nothing : nothing = << >>  OBVIOUS
<1>2. nothing \in [DOMAIN nothing -> Nat]  BY <1>1
<1>3. PICK none \in Int : none = 0  OBVIOUS
<1>4. PICK unmeasured \in Nat \cup {None} : unmeasured = None  OBVIOUS
<1>5. PICK no \in BOOLEAN : no = FALSE  OBVIOUS
<1>6. PICK yes \in BOOLEAN : yes = TRUE  OBVIOUS
<1>7. PICK e : e = [hits |-> nothing, valid |-> no, measured |-> unmeasured, addHits |-> none,
                    true |-> yes, primed |-> yes, paused |-> no, canMeasure |-> yes,
                    fromHits |-> no, andNext |-> yes, orNext |-> no, resetNext |-> no,
                    reset |-> no, hasHits |-> no]
  OBVIOUS
<1>8. e = NoResults  BY <1>1, <1>3, <1>4, <1>5, <1>6, <1>7, Zenon DEF NoResults
<1>9. e \in EvalSet(nothing) /\ e.reset = no /\ e.hasHits = no  BY <1>2, <1>7 DEF EvalSet
<1>10. QED  BY <1>1, <1>5, <1>8, <1>9

LEMMA TestGroupsDo ==
  ASSUME NEW truth, NEW value \in Nat, FrameOf(def, hits, truth)
  PROVE  Done(TestGroups(truth, value), def, hits, truth, Len(def))
<1>1. /\ def \in Seq(Seq(CondSet)) /\ DOMAIN def = 1 .. Len(def) /\ Len(def) \in Nat
      /\ \A g \in DOMAIN def : Group(def[g], hits[g], truth[g], Links(def[g], hits[g], truth[g]))
  BY SMTT(60) DEF FrameOf
<1>2. PICK n \in Nat : n = Len(def)  BY <1>1
<1>3. PICK p : p = [truth |-> truth, value |-> value]  OBVIOUS
<1>4. p.truth = truth /\ p.value = value  BY <1>3
<1>5. TestGroups(truth, value) = GroupsLoop!Loop(p, << >>, n)
  <2>1. ASSUME NEW q
        PROVE  TestGroups(q.truth, q.value) = GroupsLoop!Loop(q, << >>, Len(def))
    BY Zenon DEF TestGroups, GroupsBody, FoldLeft, MapThenFoldSet, Max, GroupsLoop!Loop,
                 GroupsLoop!FoldLeft, GroupsLoop!MapThenFoldSet, GroupsLoop!Max
  <2>2. TestGroups(p.truth, p.value) = GroupsLoop!Loop(p, << >>, Len(def))  BY <2>1
  <2>3. QED  BY <1>2, <1>4, <2>2
<1> DEFINE Results == UNION {EvalSet(def[g]) : g \in DOMAIN def}
           G == [j \in 0 .. n |-> {s \in Seq(Results) : Done(s, def, hits, truth, j)}]
<1>6. << >> \in G[0]  BY DEF Done
<1>7. ASSUME NEW g \in 1 .. n, NEW s \in G[g - 1]  PROVE GroupsBody(p, s, g) \in G[g]
  <2>1. PICK j \in Nat : j = g - 1  BY <1>2
  <2>2. g = j + 1 /\ g \in 0 .. n /\ j \in 0 .. n /\ g \in DOMAIN def  BY <1>1, <1>2, <2>1
  <2>3. s \in Seq(Results) /\ Done(s, def, hits, truth, j)  BY <2>1, <2>2
  <2>4. PICK e : e = Before(s, g)  OBVIOUS
  <2>5. \E other : e \in EvalSet(other)
    <3>1. CASE g = 1  BY <2>4, <3>1, NoResultsIs DEF Before
    <3>2. CASE g # 1
      <4>1. j \in 1 .. j /\ e = s[j]  BY <2>1, <2>2, <2>4, <3>2 DEF Before
      <4>2. QED  BY <2>3, <4>1 DEF Done, GroupDone, Meant
    <3>3. QED  BY <3>1, <3>2
  <2>6. PICK v : v = TestCondset(e, def[g], hits[g], truth[g], value)  OBVIOUS
  <2>7. GroupDone(v, e, def[g], hits[g], Meaning(def[g], hits[g], truth[g]))
    <3>1. Group(def[g], hits[g], truth[g], Links(def[g], hits[g], truth[g]))  BY <1>1, <2>2
    <3>2. QED  BY <2>5, <2>6, <3>1, GroupMeansItsOwn
  <2>8. GroupsBody(p, s, g) = Append(s, v)
    BY <1>4, <2>4, <2>6, Zenon DEF GroupsBody, Before
  <2>9. v \in Results  BY <2>2, <2>7 DEF GroupDone, Meant
  <2> HIDE DEF Results
  <2>10. PICK t : t = Append(s, v)  OBVIOUS
  <2>11. /\ t \in Seq(Results) /\ Len(t) = g /\ t[g] = v /\ \A k \in 1 .. j : t[k] = s[k]
    BY <2>2, <2>3, <2>9, <2>10 DEF Done
  <2>12. ASSUME NEW k \in 1 .. g
         PROVE  GroupDone(t[k], Before(t, k), def[k], hits[k], Meaning(def[k], hits[k], truth[k]))
    <3>1. Before(t, k) = Before(s, k)
      <4>1. k # 1 => k - 1 \in 1 .. j  BY <2>2
      <4>2. QED  BY <2>11, <4>1 DEF Before
    <3>2. CASE k = g  BY <2>4, <2>7, <2>11, <3>1, <3>2
    <3>3. CASE k # g
      <4>1. k \in 1 .. j  BY <2>2, <3>3
      <4>2. QED  BY <2>3, <2>11, <3>1, <4>1 DEF Done
    <3>4. QED  BY <3>2, <3>3
  <2>13. Done(t, def, hits, truth, g)  BY <2>11, <2>12 DEF Done
  <2>14. QED  BY <2>2, <2>8, <2>10, <2>11, <2>13
<1>8. G[n] = {s \in Seq(Results) : Done(s, def, hits, truth, n)}  OBVIOUS
<1> HIDE DEF G, Results
<1>9. PICK empty : empty = << >>  OBVIOUS
<1>10. GroupsLoop!Loop(p, empty, n) \in G[n]  BY <1>6, <1>7, <1>9, GroupsLoop!LoopInduction
<1>11. QED  BY <1>2, <1>5, <1>8, <1>9, <1>10

\* What one group leaves to the next arrives at the last.
LEMMA LastKnows ==
  ASSUME NEW d, NEW h, NEW truth, FrameOf(d, h, truth), NEW groups,
         Done(groups, d, h, truth, Len(d))
  PROVE  /\ groups[Len(d)].reset <=> \E g \in DOMAIN d : Meaning(d[g], h[g], truth[g]).reset
         /\ groups[Len(d)].reset = FALSE => \A g \in DOMAIN d : groups[g].reset = FALSE
         /\ \A g \in DOMAIN d : groups[g].hasHits => groups[Len(d)].hasHits
<1>1. DOMAIN d = 1 .. Len(d) /\ Len(d) \in Nat /\ Len(d) # 0  BY SMTT(60) DEF FrameOf
<1>2. PICK n \in Nat : n = Len(d)  BY <1>1
<1> DEFINE R(g) == Meaning(d[g], h[g], truth[g]).reset
           P(j) == /\ groups[j].reset <=> \E g \in 1 .. j : R(g)
                   /\ \A g \in 1 .. j : /\ groups[g].reset => groups[j].reset
                                        /\ groups[g].hasHits => groups[j].hasHits
<1>3. \A g \in 1 .. n :
        /\ groups[g].reset = (Before(groups, g).reset \/ R(g))
        /\ Before(groups, g).hasHits => groups[g].hasHits
        /\ groups[g].reset \in BOOLEAN /\ groups[g].hasHits \in BOOLEAN
  BY <1>2 DEF Done, GroupDone, Meant, Says, EvalSet
<1> DEFINE T == {j \in Nat : j + 1 <= n => P(j + 1)}
<1>4. 0 \in T
  <2>1. 1 \in 1 .. n /\ Before(groups, 1) = NoResults  BY <1>1, <1>2 DEF Before
  <2>2. groups[1].reset <=> R(1)  BY <1>3, <2>1, NoResultsIs
  <2>3. \A g \in 1 .. 1 : g = 1  OBVIOUS
  <2>4. 1 \in 1 .. 1  OBVIOUS
  <2>5. P(1)  BY <2>2, <2>3, <2>4
  <2>6. QED  BY <2>5
<1>5. ASSUME NEW j \in T  PROVE j + 1 \in T
  <2>1. j \in Nat  OBVIOUS
  <2>2. CASE (j + 1) + 1 > n  BY <1>2, <2>1, <2>2
  <2>3. CASE (j + 1) + 1 <= n
    <3>1. PICK k \in Nat : k = j + 1  BY <2>1
    <3>2. k + 1 \in 1 .. n /\ k \in 1 .. n /\ k + 1 # 1 /\ (k + 1) - 1 = k  BY <1>2, <2>1, <2>3, <3>1
    <3>3. P(k)  BY <1>2, <2>1, <2>3, <3>1
    <3>4. Before(groups, k + 1) = groups[k]  BY <3>2 DEF Before
    <3>5. /\ groups[k + 1].reset <=> groups[k].reset \/ R(k + 1)
          /\ groups[k].hasHits => groups[k + 1].hasHits
      BY <1>3, <3>2, <3>4
    <3>6. \A g \in 1 .. k + 1 : g \in 1 .. k \/ g = k + 1  BY <3>1
    <3>7. \A g \in 1 .. k : g \in 1 .. k + 1  BY <3>1
    <3>8. k + 1 \in 1 .. k + 1  BY <3>1
    <3> HIDE DEF R
    <3>9. groups[k + 1].reset <=> \E g \in 1 .. k + 1 : R(g)
      BY <3>3, <3>5, <3>6, <3>7, <3>8
    <3>10. \A g \in 1 .. k + 1 : /\ groups[g].reset => groups[k + 1].reset
                                 /\ groups[g].hasHits => groups[k + 1].hasHits
      BY <3>3, <3>5, <3>6
    <3>11. P(k + 1)  BY <3>9, <3>10
    <3>12. QED  BY <2>1, <3>1, <3>11
  <2>4. QED  BY <1>2, <2>1, <2>2, <2>3
<1> HIDE DEF T
<1>6. T \in SUBSET Nat  BY DEF T
<1>7. T = Nat  BY <1>4, <1>5, <1>6, GroupsLoop!Countdown
<1>8. n - 1 \in T /\ (n - 1) + 1 = n  BY <1>1, <1>2, <1>7
<1>9. P(n)  BY <1>2, <1>8 DEF T
<1> HIDE DEF R
<1>10. groups[n].reset = FALSE => \A g \in 1 .. n : groups[g].reset = FALSE  BY <1>3, <1>9
<1>11. (groups[n].reset <=> \E g \in 1 .. n : R(g))
       /\ \A g \in 1 .. n : groups[g].hasHits => groups[n].hasHits
  BY <1>9
<1>12. QED  BY <1>1, <1>2, <1>10, <1>11 DEF R

\* The greatest is one of them.
GreatestBody(groups, best, g) == IF groups[g].measured > best.measured THEN groups[g] ELSE best
GreatestLoop == INSTANCE Loops WITH Body <- GreatestBody

LEMMA GreatestIs ==
  ASSUME NEW groups, NEW n \in Nat, n = Len(groups), n # 0
  PROVE  \E k \in 1 .. n : Greatest(groups) = groups[k]
<1>1. Greatest(groups) = GreatestLoop!Loop(groups, groups[1], n)
  <2>1. Greatest(groups) = GreatestLoop!Loop(groups, groups[1], Len(groups))
    BY Zenon DEF Greatest, GreatestBody, FoldLeft, MapThenFoldSet, Max, GreatestLoop!Loop,
                 GreatestLoop!FoldLeft, GreatestLoop!MapThenFoldSet, GreatestLoop!Max
  <2>2. QED  BY <2>1
<1> DEFINE G == [j \in 0 .. n |-> {groups[k] : k \in 1 .. n}]
<1>2. groups[1] \in G[0]  OBVIOUS
<1>3. ASSUME NEW i \in 1 .. n, NEW x \in G[i - 1]  PROVE GreatestBody(groups, x, i) \in G[i]
  <2>1. i - 1 \in 0 .. n /\ i \in 0 .. n  OBVIOUS
  <2>2. QED  BY <2>1 DEF GreatestBody
<1>4. G[n] = {groups[k] : k \in 1 .. n}  OBVIOUS
<1> HIDE DEF G
<1>5. PICK first : first = groups[1]  OBVIOUS
<1>6. GreatestLoop!Loop(groups, first, n) \in G[n]  BY <1>2, <1>3, <1>5, GreatestLoop!LoopInduction
<1>7. QED  BY <1>1, <1>4, <1>5, <1>6

-----------------------------------------------------------------------------
(* The trigger.                                                             *)

Results(d, h, truth) == [g \in DOMAIN d |-> Meaning(d[g], h[g], truth[g])]

\* What a frame makes of the groups, but for what is measured.
Follows(groups, fires, isPrimed, isPaused) ==
  LET last == groups[Len(groups)]
      resting == IF isPaused THEN "paused" ELSE "active"
      kept == [g \in DOMAIN def |-> groups[g].hits]
  IN  /\ def' = def
      /\ paused' = [g \in DOMAIN def |-> groups[g].paused]
      /\ \/ /\ last.reset /\ hits' = Zero /\ hasHits' = FALSE
            /\ state' = IF ~hasHits THEN resting ELSE IF state = "primed" THEN "active" ELSE state
         \/ /\ ~last.reset /\ fires /\ state = "waiting"
            /\ hits' = Zero /\ hasHits' = FALSE /\ state' = "waiting"
         \/ /\ ~last.reset /\ fires /\ state # "waiting"
            /\ hits' = kept /\ hasHits' = hasHits /\ state' = "triggered"
         \/ /\ ~last.reset /\ ~fires
            /\ hits' = kept /\ hasHits' = last.hasHits
            /\ state' = IF ~isPaused /\ isPrimed THEN "primed" ELSE resting

Fires(groups) ==
  groups[1].true /\ (Len(groups) > 1 => \E g \in 2 .. Len(groups) : groups[g].true)
IsPrimed(groups) ==
  groups[1].primed /\ (Len(groups) > 1 => \E g \in 2 .. Len(groups) : groups[g].primed)
IsPaused(groups) ==
  groups[1].paused \/ (Len(groups) > 1 /\ \A g \in 2 .. Len(groups) : groups[g].paused)

LEMMA TriggerFollows ==
  ASSUME NEW groups, NEW n \in Nat, n = Len(groups), EvaluateTrigger(groups)
  PROVE  Follows(groups, Fires(groups), IsPrimed(groups), IsPaused(groups))
<1> DEFINE alts == {groups[g] : g \in 2 .. Len(groups)}
           fires == groups[1].true /\ (alts = {} \/ \E e \in alts : e.true)
           isPrimed == groups[1].primed /\ (alts = {} \/ \E e \in alts : e.primed)
           isPaused == groups[1].paused \/ (alts # {} /\ \A e \in alts : e.paused)
<1>1. Follows(groups, fires, isPrimed, isPaused)
  BY DEF EvaluateTrigger, Follows, ResetTo
<1>2. alts = {} <=> ~(Len(groups) > 1)  OBVIOUS
<1>3. (fires <=> Fires(groups)) /\ (isPrimed <=> IsPrimed(groups)) /\ (isPaused <=> IsPaused(groups))
  BY <1>2 DEF Fires, IsPrimed, IsPaused
<1> HIDE DEF alts, fires, isPrimed, isPaused
<1>4. QED  BY <1>1, <1>3, Zenon DEF Follows

\* Whether a frame resets, fires, is primed and paused is what the definition means.
LEMMA FrameAgrees ==
  ASSUME NEW d, NEW h, NEW truth, FrameOf(d, h, truth), NEW groups,
         Done(groups, d, h, truth, Len(d)), NEW R, R = Results(d, h, truth)
  PROVE  /\ DOMAIN d = 1 .. Len(d) /\ Len(d) \in Nat /\ Len(d) # 0 /\ Len(groups) = Len(d)
         /\ groups[Len(d)].reset <=> \E g \in DOMAIN d : R[g].reset
         /\ IsPaused(groups) <=> MeaningOf!Paused(R)
         /\ ~groups[Len(d)].reset =>
              /\ Fires(groups) <=> MeaningOf!CoreAndSome(R, LAMBDA m : m.true)
              /\ IsPrimed(groups) <=> MeaningOf!CoreAndSome(R, LAMBDA m : m.primed)
              /\ [g \in DOMAIN d |-> groups[g].hits] = [g \in DOMAIN d |-> R[g].hits]
<1>1. DOMAIN d = 1 .. Len(d) /\ Len(d) \in Nat /\ Len(d) # 0  BY DEF FrameOf
<1>2. Len(groups) = Len(d)  BY DEF Done
<1>3. \A g \in DOMAIN d : R[g] = Meaning(d[g], h[g], truth[g])  BY DEF Results
<1>4. Len(R) = Len(d)
  <2>1. R \in Seq({R[g] : g \in 1 .. Len(d)}) /\ DOMAIN R = 1 .. Len(d)  BY <1>1 DEF Results
  <2>2. QED  BY <1>1, <2>1
<1>5. \A g \in DOMAIN d :
        /\ groups[g].paused = R[g].paused
        /\ ~groups[g].reset => /\ groups[g].true = R[g].true /\ groups[g].primed = R[g].primed
                               /\ groups[g].hits = R[g].hits
  BY <1>1, <1>3 DEF Done, GroupDone, Meant
<1>6. /\ groups[Len(d)].reset <=> \E g \in DOMAIN d : R[g].reset
      /\ groups[Len(d)].reset = FALSE => \A g \in DOMAIN d : groups[g].reset = FALSE
  <2>1. /\ groups[Len(d)].reset <=> \E g \in DOMAIN d : Meaning(d[g], h[g], truth[g]).reset
        /\ groups[Len(d)].reset = FALSE => \A g \in DOMAIN d : groups[g].reset = FALSE
    BY LastKnows
  <2>2. QED  BY <1>3, <2>1
<1>7. groups[Len(d)].reset \in BOOLEAN
  BY <1>1 DEF Done, GroupDone, Meant, EvalSet
<1>8. 1 \in DOMAIN d /\ \A g \in 2 .. Len(d) : g \in DOMAIN d  BY <1>1
<1>9. IsPaused(groups) <=> MeaningOf!Paused(R)
  BY <1>2, <1>4, <1>5, <1>8 DEF IsPaused, MeaningOf!Paused
<1>10. ASSUME ~groups[Len(d)].reset
       PROVE  /\ Fires(groups) <=> MeaningOf!CoreAndSome(R, LAMBDA m : m.true)
              /\ IsPrimed(groups) <=> MeaningOf!CoreAndSome(R, LAMBDA m : m.primed)
              /\ [g \in DOMAIN d |-> groups[g].hits] = [g \in DOMAIN d |-> R[g].hits]
  <2>1. \A g \in DOMAIN d : groups[g].true = R[g].true /\ groups[g].primed = R[g].primed
                            /\ groups[g].hits = R[g].hits
    BY <1>5, <1>6, <1>7, <1>10
  <2>2. Fires(groups) <=> MeaningOf!CoreAndSome(R, LAMBDA m : m.true)
    BY <1>2, <1>4, <1>8, <2>1 DEF Fires, MeaningOf!CoreAndSome
  <2>3. IsPrimed(groups) <=> MeaningOf!CoreAndSome(R, LAMBDA m : m.primed)
    BY <1>2, <1>4, <1>8, <2>1 DEF IsPrimed, MeaningOf!CoreAndSome
  <2>4. QED  BY <2>1, <2>2, <2>3
<1>11. QED  BY <1>1, <1>2, <1>6, <1>9, <1>10

LEMMA FrameMeans ==
  ASSUME NEW truth, FrameOf(def, hits, truth), NEW groups,
         Done(groups, def, hits, truth, Len(def)), EvaluateTrigger(groups)
  PROVE  MeaningOf!Frame(truth)
<1>1. PICK R : R = Results(def, hits, truth)  OBVIOUS
<1> DEFINE reset == \E g \in DOMAIN def : R[g].reset
           fires == MeaningOf!CoreAndSome(R, LAMBDA m : m.true)
           isPrimed == MeaningOf!CoreAndSome(R, LAMBDA m : m.primed)
           isPaused == MeaningOf!Paused(R)
<1>2. /\ Len(def) \in Nat /\ Len(groups) = Len(def)
      /\ groups[Len(def)].reset <=> reset
      /\ IsPaused(groups) <=> isPaused
      /\ ~groups[Len(def)].reset => /\ Fires(groups) <=> fires
                                    /\ IsPrimed(groups) <=> isPrimed
                                    /\ [g \in DOMAIN def |-> groups[g].hits]
                                         = [g \in DOMAIN def |-> R[g].hits]
  BY <1>1, FrameAgrees
<1>3. Follows(groups, Fires(groups), IsPrimed(groups), IsPaused(groups))
  BY <1>2, TriggerFollows
<1> DEFINE rest == CASE isPaused -> "paused"
                     [] ~isPaused /\ isPrimed -> "primed"
                     [] OTHER -> "active"
           unprimed == IF rest = "primed" THEN "active" ELSE rest
           before == IF state = "primed" THEN "active" ELSE state
           kept == [g \in DOMAIN def |-> R[g].hits]
<1>4. MeaningOf!Frame(truth) <=>
        /\ hits' = IF reset \/ (fires /\ state = "waiting") THEN Zero ELSE kept
        /\ state' \in CASE reset -> {before, unprimed}
                        [] ~reset /\ fires -> {IF state = "waiting" THEN "waiting" ELSE "triggered"}
                        [] ~reset /\ ~fires -> {rest}
  BY <1>1, Zenon DEF MeaningOf!Frame, Results, Meaning, Zero, MeaningOf!Zero
<1> HIDE DEF reset, fires, isPrimed, isPaused, kept
<1>5. hits' = IF reset \/ (fires /\ state = "waiting") THEN Zero ELSE kept
  BY <1>2, <1>3 DEF Follows, kept
<1>6. CASE reset  BY <1>2, <1>3, <1>4, <1>5, <1>6 DEF Follows
<1>7. CASE ~reset /\ fires  BY <1>2, <1>3, <1>4, <1>5, <1>7 DEF Follows
<1>8. CASE ~reset /\ ~fires  BY <1>2, <1>3, <1>4, <1>5, <1>8 DEF Follows
<1>9. QED  BY <1>6, <1>7, <1>8

\* What it measures.
Measuring(groups, isPaused, fires) ==
  LET last == groups[Len(groups)]
      best == Greatest(groups)
      shown == IF isPaused \/ best.measured = None THEN measured ELSE best.measured
      known == best.measured # None /\ best.fromHits
  IN  \/ /\ last.reset /\ (known => measured' = 0)
         /\ measured' = 0 \/ measured' = shown
      \/ /\ ~last.reset /\ fires /\ state = "waiting"
         /\ measured' = IF Measures(def) THEN Unknown ELSE measured
      \/ ~last.reset /\ ~(fires /\ state = "waiting") /\ measured' = shown

LEMMA TriggerMeasures ==
  ASSUME NEW groups, NEW n \in Nat, n = Len(groups), EvaluateTrigger(groups)
  PROVE  Measuring(groups, IsPaused(groups), Fires(groups))
<1> DEFINE alts == {groups[g] : g \in 2 .. Len(groups)}
           fires == groups[1].true /\ (alts = {} \/ \E e \in alts : e.true)
           isPaused == groups[1].paused \/ (alts # {} /\ \A e \in alts : e.paused)
<1>1. Measuring(groups, isPaused, fires)
  BY DEF EvaluateTrigger, Measuring, ResetTo
<1>2. alts = {} <=> ~(Len(groups) > 1)  OBVIOUS
<1>3. (fires <=> Fires(groups)) /\ (isPaused <=> IsPaused(groups))
  BY <1>2 DEF Fires, IsPaused
<1> HIDE DEF alts, fires, isPaused
<1>4. QED  BY <1>1, <1>3, Zenon DEF Measuring

LEMMA DefIs ==
  ASSUME def \in Definitions
  PROVE  /\ def \in Seq(Seq(CondSet)) /\ def # << >> /\ DOMAIN def = 1 .. Len(def)
         /\ Len(def) \in Nat /\ Len(def) # 0
         /\ \A g \in DOMAIN def : def[g] \in Seq(CondSet) /\ SumsHaveTarget(def[g])
         /\ MaxHits \in Nat /\ Values \subseteq Nat
<1>1. /\ def \in Seq(Seq(CondSet)) /\ def # << >>
      /\ \A g \in DOMAIN def : SumsHaveTarget(def[g])
      /\ MaxHits \in Nat /\ Values \subseteq Nat
  BY TriggerAssumption DEF CondSet
<1>2. DOMAIN def = 1 .. Len(def) /\ Len(def) \in Nat /\ Len(def) # 0  BY <1>1
<1>3. \A g \in DOMAIN def : def[g] \in Seq(CondSet)  BY <1>1
<1>4. QED  BY <1>1, <1>2, <1>3

\* What holds in every state: each group has the hits of its own conditions.
HitsOwn == \A g \in DOMAIN def : hits[g] \in [DOMAIN def[g] -> 0 .. MaxHits]
TriggerInv == def \in Definitions /\ HitsOwn /\ TallyIsKnown

\* A step of the trigger, in the words of the proof.
Frames(groups, truth) ==
  /\ FrameOf(def, hits, truth) /\ Done(groups, def, hits, truth, Len(def))
  /\ EvaluateTrigger(groups)
  /\ truth \in {t \in MeaningOf!Truths : \A g \in DOMAIN def : Len(t[g]) = Len(def[g])}

LEMMA DoFrameIs ==
  ASSUME TriggerInv, DoFrame
  PROVE  /\ state # "triggered"
         /\ \A g \in DOMAIN def : \A i \in DOMAIN def[g] : hits'[g][i] <= MaxHits
         /\ \E groups, truth : Frames(groups, truth)
<1>1. def \in Definitions /\ HitsOwn /\ TypeOK  BY DEF TriggerInv, TallyIsKnown
<1>2. /\ def \in Seq(Seq(CondSet)) /\ def # << >> /\ DOMAIN def = 1 .. Len(def)
      /\ \A g \in DOMAIN def : def[g] \in Seq(CondSet) /\ SumsHaveTarget(def[g])
      /\ MaxHits \in Nat /\ Values \subseteq Nat
  BY <1>1, DefIs
<1>3. PICK truth \in [DOMAIN def -> UNION {Truths(g) : g \in DOMAIN def}], value \in Values :
        /\ \A g \in DOMAIN def : DOMAIN truth[g] = DOMAIN def[g]
        /\ EvaluateTrigger(TestGroups(truth, value))
  BY DEF DoFrame
<1>4. ASSUME NEW g \in DOMAIN def
      PROVE  truth[g] \in [DOMAIN def[g] -> BOOLEAN]
  <2>1. PICK k \in DOMAIN def : truth[g] \in [DOMAIN def[k] -> BOOLEAN]
    <3>1. truth[g] \in UNION {Truths(k) : k \in DOMAIN def}  BY <1>3
    <3>2. QED  BY <3>1 DEF Truths
  <2>2. DOMAIN truth[g] = DOMAIN def[g]  BY <1>3
  <2>3. QED  BY <2>1, <2>2
<1>5. ASSUME NEW g \in DOMAIN def
      PROVE  Group(def[g], hits[g], truth[g], Links(def[g], hits[g], truth[g]))
  <2>1. hits[g] \in [DOMAIN def[g] -> Nat]
    <3>1. hits[g] \in [DOMAIN def[g] -> 0 .. MaxHits]  BY <1>1 DEF HitsOwn
    <3>2. 0 .. MaxHits \subseteq Nat  BY <1>2
    <3>3. QED  BY <3>1, <3>2
  <2>2. \A i \in DOMAIN def[g] : HasTarget(def[g][i]) => hits[g][i] <= def[g][i].target
    BY <1>1 DEF TypeOK
  <2>3. QED  BY <1>2, <1>4, <2>1, <2>2 DEF Group
<1>6. DOMAIN hits = DOMAIN def /\ DOMAIN truth = DOMAIN def  BY <1>1, <1>3 DEF TypeOK
<1>7. FrameOf(def, hits, truth)  BY <1>2, <1>5, <1>6 DEF FrameOf
<1>8. Done(TestGroups(truth, value), def, hits, truth, Len(def))
  <2>1. value \in Nat  BY <1>2, <1>3
  <2>2. QED  BY <1>7, <2>1, TestGroupsDo
<1>9. truth \in {t \in MeaningOf!Truths : \A g \in DOMAIN def : Len(t[g]) = Len(def[g])}
  <2>1. ASSUME NEW g \in DOMAIN def
        PROVE  /\ truth[g] \in [1 .. Len(def[g]) -> BOOLEAN] /\ Len(truth[g]) = Len(def[g])
               /\ Len(def[g]) \in {Len(def[k]) : k \in DOMAIN def}
    <3>1. DOMAIN def[g] = 1 .. Len(def[g]) /\ Len(def[g]) \in Nat  BY <1>2
    <3>2. truth[g] \in [1 .. Len(def[g]) -> BOOLEAN]  BY <1>4, <3>1
    <3>3. Len(truth[g]) = Len(def[g])  BY <3>1, <3>2
    <3>4. QED  BY <3>2, <3>3
  <2>2. truth \in MeaningOf!Truths  BY <1>3, <2>1 DEF MeaningOf!Truths
  <2>3. QED  BY <2>1, <2>2
<1>10. Frames(TestGroups(truth, value), truth)  BY <1>3, <1>7, <1>8, <1>9 DEF Frames
<1>11. QED  BY <1>10 DEF DoFrame

\* A frame keeps the hits in bounds, and knows of them.
LEMMA FrameKeeps ==
  ASSUME TriggerInv, NEW groups, NEW truth, Frames(groups, truth), state # "triggered",
         \A g \in DOMAIN def : \A i \in DOMAIN def[g] : hits'[g][i] <= MaxHits
  PROVE  TriggerInv'
<1>1. def \in Definitions /\ HitsOwn /\ TypeOK /\ HitsAreKnown /\ PrimedNeedsTrigger /\ MeasuredIsTally
  BY SMTT(60) DEF TriggerInv, TallyIsKnown
<1>2. PICK n \in Nat : n = Len(def) /\ n # 0 /\ DOMAIN def = 1 .. n
  BY <1>1, DefIs
<1>3. /\ FrameOf(def, hits, truth) /\ Done(groups, def, hits, truth, Len(def))
      /\ EvaluateTrigger(groups) /\ Len(groups) = n
  BY <1>2 DEF Frames, Done
<1>4. \A g \in DOMAIN def :
        GroupDone(groups[g], Before(groups, g), def[g], hits[g], Meaning(def[g], hits[g], truth[g]))
  BY <1>2, <1>3 DEF Done
<1>5. \A g \in DOMAIN def : groups[g] \in EvalSet(def[g]) /\ Says(groups[g], Before(groups, g), def[g])
  BY <1>4 DEF GroupDone, Meant
<1>6. /\ groups[n].reset = FALSE => \A g \in DOMAIN def : groups[g].reset = FALSE
      /\ \A g \in DOMAIN def : groups[g].hasHits => groups[n].hasHits
  <2>1. /\ groups[Len(def)].reset = FALSE => \A g \in DOMAIN def : groups[g].reset = FALSE
        /\ \A g \in DOMAIN def : groups[g].hasHits => groups[Len(def)].hasHits
    BY <1>3, LastKnows
  <2>2. QED  BY <1>2, <2>1
<1>7. /\ groups[n].reset \in BOOLEAN /\ groups[n].hasHits \in BOOLEAN
      /\ 1 \in DOMAIN def /\ n \in DOMAIN def /\ \A g \in 2 .. n : g \in DOMAIN def
  <2>1. 1 \in DOMAIN def /\ n \in DOMAIN def /\ \A g \in 2 .. n : g \in DOMAIN def  BY <1>2
  <2>2. QED  BY <1>5, <2>1 DEF EvalSet
<1>8. Follows(groups, Fires(groups), IsPrimed(groups), IsPaused(groups))
      /\ Measuring(groups, IsPaused(groups), Fires(groups))
  BY <1>2, <1>3, TriggerFollows, TriggerMeasures
<1> DEFINE kept == [g \in DOMAIN def |-> groups[g].hits]
<1>9. def' = def /\ paused' = [g \in DOMAIN def |-> groups[g].paused]
  BY <1>8 DEF Follows
<1>10. hits' = Zero \/ (groups[n].reset = FALSE /\ hits' = kept)
  BY <1>3, <1>7, <1>8 DEF Follows
<1>11. ASSUME NEW g \in DOMAIN def
       PROVE  /\ hits'[g] \in [DOMAIN def[g] -> 0 .. MaxHits]
              /\ \A i \in DOMAIN def[g] : HasTarget(def[g][i]) => hits'[g][i] <= def[g][i].target
  <2>1. MaxHits \in Nat /\ \A i \in DOMAIN def[g] : def[g][i].target \in Nat
    <3>1. def[g] \in Seq(CondSet) /\ MaxHits \in Nat  BY <1>1, DefIs
    <3>2. \A i \in DOMAIN def[g] : i \in 1 .. Len(def[g])  BY <3>1
    <3>3. QED  BY <3>1, <3>2, CondHas
  <2>2. CASE hits' = Zero
    <3>1. hits'[g] = [i \in DOMAIN def[g] |-> 0]  BY <2>2 DEF Zero
    <3>2. QED  BY <2>1, <3>1
  <2>3. CASE groups[n].reset = FALSE /\ hits' = kept
    <3>1. hits'[g] = groups[g].hits /\ hits'[g] \in [DOMAIN def[g] -> Nat]  BY <1>5, <2>3 DEF EvalSet
    <3>2. \A i \in DOMAIN def[g] : hits'[g][i] <= MaxHits  OBVIOUS
    <3>3. \A i \in DOMAIN def[g] : hits'[g][i] \in 0 .. MaxHits  BY <2>1, <3>1, <3>2
    <3>4. \A i \in DOMAIN def[g] : HasTarget(def[g][i]) => hits'[g][i] <= def[g][i].target
      BY <1>5, <1>6, <2>3, <3>1 DEF Says
    <3>5. QED  BY <3>1, <3>3, <3>4
  <2>4. QED  BY <1>10, <2>2, <2>3
<1>12. HitsOwn' /\ (def \in Definitions)'  BY <1>1, <1>9, <1>11 DEF HitsOwn
<1>13. TypeOK'
  <2>1. state' \in {"waiting", "active", "paused", "primed", "triggered"}
    BY <1>1, <1>8 DEF Follows, TypeOK
  <2>2. hits' \in [DOMAIN def -> UNION {[DOMAIN def[g] -> 0 .. MaxHits] : g \in DOMAIN def}]
    <3>1. hits' = [g \in DOMAIN def |-> hits'[g]]  BY <1>10 DEF Zero
    <3>2. QED  BY <1>11, <3>1
  <2>3. hasHits' \in BOOLEAN  BY <1>1, <1>3, <1>7, <1>8 DEF Follows, TypeOK
  <2>4. paused' \in [DOMAIN def -> BOOLEAN]  BY <1>5, <1>9 DEF EvalSet
  <2>5. measured' \in Nat \cup {Unknown}
    <3>1. PICK k \in 1 .. n : Greatest(groups) = groups[k]  BY <1>2, <1>3, GreatestIs
    <3>2. Greatest(groups).measured \in Nat \cup {None}  BY <1>2, <1>5, <3>1 DEF EvalSet
    <3>3. measured \in Nat \cup {Unknown}  BY <1>1 DEF TypeOK
    <3>4. QED  BY <1>8, <3>2, <3>3 DEF Measuring
  <2>6. QED  BY <1>9, <1>11, <2>1, <2>2, <2>3, <2>4, <2>5 DEF TypeOK
<1>14. HitsAreKnown'
  <2>1. SUFFICES ASSUME state' # "triggered", NEW g \in DOMAIN def, NEW i \in DOMAIN def[g],
                        hits'[g][i] > 0
                 PROVE  hasHits'
    BY <1>9 DEF HitsAreKnown
  <2>2. hits' # Zero  BY <2>1 DEF Zero
  <2>3. groups[n].reset = FALSE /\ hits'[g] = groups[g].hits  BY <1>10, <2>2
  <2>4. groups[g].hasHits  BY <1>5, <1>6, <2>1, <2>3 DEF Says
  <2>5. hasHits' = groups[n].hasHits  BY <1>3, <1>8, <2>1, <2>2, <2>3 DEF Follows
  <2>6. QED  BY <1>6, <2>4, <2>5
<1>15. PrimedNeedsTrigger'
  <2>1. SUFFICES ASSUME state' = "primed",
                        \A g \in DOMAIN def : \A i \in DOMAIN def[g] : def[g][i].type # "trigger"
                 PROVE  FALSE
    BY <1>9 DEF PrimedNeedsTrigger
  <2>2. ~groups[n].reset /\ ~Fires(groups) /\ IsPrimed(groups)  BY <1>3, <1>8, <2>1 DEF Follows
  <2>3. \A g \in DOMAIN def : groups[g].true = groups[g].primed
    BY <1>5, <1>6, <1>7, <2>1, <2>2 DEF Says
  <2>4. QED  BY <1>3, <1>7, <2>2, <2>3 DEF Fires, IsPrimed
<1>16. MeasuredIsTally'
  <2>1. SUFFICES ASSUME NEW i \in DOMAIN def[1], Len(def) = 1, measured' # Unknown,
                        def[1][i].type = "measured", HasTarget(def[1][i]),
                        \A k \in DOMAIN def[1] :
                          def[1][k].type \notin {"measuredIf", "addHits", "subHits"},
                        \A k \in DOMAIN def[1] : k # i => def[1][k].type # "measured"
                 PROVE  measured' = hits'[1][i]
    BY <1>9 DEF MeasuredIsTally
  <2>2. Only(def[1], i) /\ \A k \in DOMAIN def[1] : def[1][k].type \notin {"addHits", "subHits"}
    BY <2>1 DEF Only
  <2>3. PICK v : v = groups[1]  OBVIOUS
  <2>4. /\ v.paused => v.measured = None /\ v.hits[i] = hits[1][i]
        /\ ~v.paused => v.fromHits = TRUE /\ v.measured = IF v.reset THEN 0 ELSE v.hits[i]
    BY <1>4, <1>7, <2>2, <2>3 DEF GroupDone, Tallies
  <2>5. v.hits[i] \in Nat /\ v.reset \in BOOLEAN /\ v.paused \in BOOLEAN
    BY <1>5, <1>7, <2>1, <2>3 DEF EvalSet
  <2>6. n = 1 /\ groups[n] = v /\ groups[Len(groups)] = v  BY <1>2, <1>3, <2>1, <2>3
  <2>7. IsPaused(groups) <=> v.paused  BY <1>3, <2>3, <2>6 DEF IsPaused
  <2>8. Greatest(groups) = v
    <3>1. PICK k \in 1 .. n : Greatest(groups) = groups[k]  BY <1>2, <1>3, GreatestIs
    <3>2. k = 1  BY <2>6, <3>1
    <3>3. QED  BY <2>3, <3>1, <3>2
  <2>9. v.paused => ~v.reset
    <3>1. v.paused => v.reset = Before(groups, 1).reset  BY <1>5, <1>7, <2>3 DEF Says
    <3>2. Before(groups, 1).reset = FALSE  BY NoResultsIs DEF Before
    <3>3. QED  BY <3>1, <3>2
  <2>10. Measures(def)  BY <1>7, <2>1 DEF Measures
  <2>11. CASE v.reset
    <3>1. hits' = Zero  BY <1>3, <1>8, <2>6, <2>11 DEF Follows
    <3>2. hits'[1][i] = 0  BY <1>7, <2>1, <3>1 DEF Zero
    <3>3. v.measured = 0 /\ v.fromHits = TRUE  BY <2>4, <2>5, <2>9, <2>11
    <3>4. v.measured # None  BY <3>3 DEF None
    <3>5. measured' = 0  BY <1>8, <2>6, <2>8, <2>11, <3>3, <3>4 DEF Measuring
    <3>6. QED  BY <3>2, <3>5
  <2>12. CASE ~v.reset /\ Fires(groups) /\ state = "waiting"
    <3>1. measured' = Unknown  BY <1>8, <2>6, <2>10, <2>12 DEF Measuring
    <3>2. QED  BY <2>1, <3>1
  <2>13. CASE ~v.reset /\ ~(Fires(groups) /\ state = "waiting")
    <3>1. hits' = kept  BY <1>3, <1>8, <2>6, <2>13 DEF Follows
    <3>2. hits'[1][i] = v.hits[i]  BY <1>7, <2>3, <3>1
    <3>3. measured' = IF v.paused \/ v.measured = None THEN measured ELSE v.measured
      BY <1>8, <2>6, <2>7, <2>8, <2>13 DEF Measuring
    <3>4. CASE v.paused
      <4>1. measured' = measured  BY <3>3, <3>4
      <4>2. measured = hits[1][i]  BY <1>1, <2>1, <4>1 DEF MeasuredIsTally
      <4>3. QED  BY <2>4, <3>2, <3>4, <4>1, <4>2
    <3>5. CASE ~v.paused
      <4>1. v.measured = v.hits[i]  BY <2>4, <2>5, <2>13, <3>5
      <4>2. v.measured # None  BY <2>5, <4>1 DEF None
      <4>3. QED  BY <3>2, <3>3, <3>5, <4>1, <4>2
    <3>6. QED  BY <3>4, <3>5
  <2>14. QED  BY <2>11, <2>12, <2>13
<1>17. QED  BY <1>12, <1>13, <1>14, <1>15, <1>16 DEF TriggerInv, TallyIsKnown

LEMMA InitIs == Init => TriggerInv
<1>1. SUFFICES ASSUME Init  PROVE TriggerInv
  OBVIOUS
<1>2. /\ def \in Definitions /\ state = "waiting" /\ hits = Zero /\ hasHits = FALSE
      /\ paused = [g \in DOMAIN def |-> FALSE]
      /\ measured = IF Measures(def) THEN Unknown ELSE 0
  BY <1>1 DEF Init
<1>3. MaxHits \in Nat /\ \A g \in DOMAIN def : \A i \in DOMAIN def[g] : def[g][i].target \in Nat
  <2>1. ASSUME NEW g \in DOMAIN def, NEW i \in DOMAIN def[g]  PROVE def[g][i].target \in Nat
    <3>1. def[g] \in Seq(CondSet)  BY <1>2, DefIs
    <3>2. i \in 1 .. Len(def[g])  BY <3>1
    <3>3. QED  BY <3>1, <3>2, CondHas
  <2>2. QED  BY <1>2, <2>1, DefIs
<1>4. ASSUME NEW g \in DOMAIN def
      PROVE  /\ hits[g] \in [DOMAIN def[g] -> 0 .. MaxHits]
             /\ \A i \in DOMAIN def[g] :
                  /\ hits[g][i] = 0 /\ ~(hits[g][i] > 0)
                  /\ HasTarget(def[g][i]) => hits[g][i] <= def[g][i].target
  <2>1. hits[g] = [i \in DOMAIN def[g] |-> 0]  BY <1>2 DEF Zero
  <2>2. QED  BY <1>3, <2>1
<1>5. HitsOwn  BY <1>4 DEF HitsOwn
<1>6. TypeOK
  <2>1. hits \in [DOMAIN def -> UNION {[DOMAIN def[g] -> 0 .. MaxHits] : g \in DOMAIN def}]
    <3>1. hits = [g \in DOMAIN def |-> hits[g]]  BY <1>2 DEF Zero
    <3>2. QED  BY <1>4, <3>1
  <2>2. QED  BY <1>2, <1>3, <1>4, <2>1 DEF TypeOK
<1>7. HitsAreKnown  BY <1>4 DEF HitsAreKnown
<1>8. PrimedNeedsTrigger  BY <1>2 DEF PrimedNeedsTrigger
<1>9. MeasuredIsTally
  <2>1. SUFFICES ASSUME NEW i \in DOMAIN def[1], measured # Unknown, def[1][i].type = "measured"
                 PROVE  FALSE
    BY DEF MeasuredIsTally
  <2>2. 1 \in DOMAIN def  BY <1>2, DefIs
  <2>3. Measures(def)  BY <2>1, <2>2 DEF Measures
  <2>4. QED  BY <1>2, <2>1, <2>3
<1>10. QED  BY <1>2, <1>5, <1>6, <1>7, <1>8, <1>9 DEF TriggerInv, TallyIsKnown

LEMMA ResetKeeps ==
  ASSUME TriggerInv, Reset
  PROVE  TriggerInv'
<1>1. def \in Definitions /\ HitsOwn /\ TypeOK /\ MeasuredIsTally  BY DEF TriggerInv, TallyIsKnown
<1>2. /\ state' = "waiting" /\ hits' = Zero /\ hasHits' = FALSE /\ def' = def /\ paused' = paused
      /\ measured' = IF Measures(def) THEN Unknown ELSE measured
  BY DEF Reset, ResetTo
<1>3. MaxHits \in Nat /\ \A g \in DOMAIN def : \A i \in DOMAIN def[g] : def[g][i].target \in Nat
  <2>1. ASSUME NEW g \in DOMAIN def, NEW i \in DOMAIN def[g]  PROVE def[g][i].target \in Nat
    <3>1. def[g] \in Seq(CondSet)  BY <1>1, DefIs
    <3>2. i \in 1 .. Len(def[g])  BY <3>1
    <3>3. QED  BY <3>1, <3>2, CondHas
  <2>2. QED  BY <1>1, <2>1, DefIs
<1>4. ASSUME NEW g \in DOMAIN def
      PROVE  /\ hits'[g] \in [DOMAIN def[g] -> 0 .. MaxHits]
             /\ \A i \in DOMAIN def[g] :
                  /\ hits'[g][i] = 0 /\ ~(hits'[g][i] > 0)
                  /\ HasTarget(def[g][i]) => hits'[g][i] <= def[g][i].target
  <2>1. hits'[g] = [i \in DOMAIN def[g] |-> 0]  BY <1>2 DEF Zero
  <2>2. QED  BY <1>3, <2>1
<1>5. HitsOwn'  BY <1>2, <1>4 DEF HitsOwn
<1>6. TypeOK'
  <2>1. hits' \in [DOMAIN def -> UNION {[DOMAIN def[g] -> 0 .. MaxHits] : g \in DOMAIN def}]
    <3> DEFINE U == UNION {[DOMAIN def[g] -> 0 .. MaxHits] : g \in DOMAIN def}
    <3>1. hits' = [g \in DOMAIN def |-> hits'[g]]  BY <1>2 DEF Zero
    <3>2. ASSUME NEW g \in DOMAIN def  PROVE hits'[g] \in U
      <4>1. hits'[g] \in [DOMAIN def[g] -> 0 .. MaxHits]  BY <1>4
      <4>2. QED  BY <4>1, Zenon
    <3> HIDE DEF U
    <3>3. QED  BY <3>1, <3>2 DEF U
  <2>2. QED  BY ZenonT(60), <1>1, <1>2, <1>3, <1>4, <2>1 DEF TypeOK
<1>7. HitsAreKnown'  BY <1>2, <1>4 DEF HitsAreKnown
<1>8. PrimedNeedsTrigger'  BY <1>2 DEF PrimedNeedsTrigger
<1>9. MeasuredIsTally'
  <2>1. SUFFICES ASSUME NEW i \in DOMAIN def[1], measured' # Unknown, def[1][i].type = "measured"
                 PROVE  FALSE
    BY <1>2 DEF MeasuredIsTally
  <2>2. 1 \in DOMAIN def  BY <1>1, DefIs
  <2>3. Measures(def)  BY <2>1, <2>2 DEF Measures
  <2>4. QED  BY <1>2, <2>1, <2>3
<1>10. QED  BY <1>1, <1>2, <1>5, <1>6, <1>7, <1>8, <1>9 DEF TriggerInv, TallyIsKnown

LEMMA AlwaysTriggerInv == Spec => []TriggerInv
<1>1. Init => TriggerInv  BY InitIs
<1>2. TriggerInv /\ [Next]_vars => TriggerInv'
  <2>1. SUFFICES ASSUME TriggerInv, [Next]_vars  PROVE TriggerInv'
    OBVIOUS
  <2>2. CASE DoFrame  BY <2>1, <2>2, DoFrameIs, FrameKeeps
  <2>3. CASE Reset  BY <2>1, <2>3, ResetKeeps
  <2>4. CASE UNCHANGED vars
    BY <2>1, <2>4 DEF vars, TriggerInv, HitsOwn, TallyIsKnown, TypeOK, HitsAreKnown,
                      PrimedNeedsTrigger, MeasuredIsTally
  <2>5. QED  BY <2>1, <2>2, <2>3, <2>4 DEF Next
<1>3. QED  BY <1>1, <1>2, PTL DEF Spec

\* What a trigger says of its hits - has_hits, that it is primed, what it measures - follows them
\* (rc_evaluate_trigger, rc_reset_trigger), for any definition.
THEOREM AlwaysTallyIsKnown == Spec => []TallyIsKnown
<1>1. TriggerInv => TallyIsKnown  BY DEF TriggerInv
<1>2. QED  BY <1>1, AlwaysTriggerInv, PTL

\* The evaluation of a trigger, in blocks and with the state of one chain running into the next,
\* does what its definition means: every step of it is a frame, or a reset, of that.
THEOREM TriggerImplementsMeaning == Spec => ImplementsMeaning
<1>1. Init => MeaningOf!MInit  BY DEF Init, MeaningOf!MInit, Zero, MeaningOf!Zero
<1>2. TriggerInv /\ [Next]_vars => [MeaningOf!MNext]_(MeaningOf!mvars)
  <2>1. SUFFICES ASSUME TriggerInv, [Next]_vars  PROVE [MeaningOf!MNext]_(MeaningOf!mvars)
    OBVIOUS
  <2>2. CASE DoFrame
    <3>1. state # "triggered" /\ \E groups, truth : Frames(groups, truth)  BY <2>1, <2>2, DoFrameIs
    <3>2. PICK groups, truth : Frames(groups, truth)  BY <3>1
    <3>3. MeaningOf!Frame(truth)  BY <3>2, FrameMeans DEF Frames
    <3>4. def' = def  BY <3>2 DEF Frames, EvaluateTrigger
    <3>5. MeaningOf!MFrame  BY <3>1, <3>2, <3>3, <3>4, Zenon DEF Frames, MeaningOf!MFrame
    <3>6. QED  BY <3>5 DEF MeaningOf!MNext
  <2>3. CASE Reset
    BY <2>3 DEF Reset, ResetTo, MeaningOf!MNext, MeaningOf!MReset, Zero, MeaningOf!Zero
  <2>4. CASE UNCHANGED vars  BY <2>4 DEF vars, MeaningOf!mvars
  <2>5. QED  BY <2>1, <2>2, <2>3, <2>4 DEF Next
<1>3. QED  BY <1>1, <1>2, AlwaysTriggerInv, PTL DEF Spec, ImplementsMeaning, MeaningOf!MSpec
=============================================================================
