----------------------------- MODULE RcValidate -----------------------------
(***************************************************************************)
(* The validation of definitions (rcheevos/rc_validate.c): what it says of *)
(* conditions that cannot be true or false, that conflict or that do       *)
(* nothing.  It looks at what was parsed (see RcMemref), and not at any    *)
(* memory: what it says of a comparison is compared with what the          *)
(* comparison comes to in frames.  The wording of a message is left out,   *)
(* floats too.                                                             *)
(***************************************************************************)
EXTENDS RcMemref

CONSTANTS
  Shapes,       \* of a definition: its groups, the first of which is the core, and its hit targets
  MaxAddress,   \* of the console
  Doubtful,     \* addresses that may not be exposed, or need a BIOS
  MaxErrors     \* room for errors: 64

\* With room for one error the last would be told.
ASSUME ValidateAssumption ==
  /\ MaxErrors \in Nat /\ MaxErrors >= 2
  /\ \A d \in Definitions : \A s \in Shapes[d] : s.groups \in Seq(Seq(Nat))

VARIABLES
  shape,        \* [groups |-> indexes into parsed.conds, hits |-> required_hits]
  errors,       \* rc_validation_state_t.errors
  found         \* history: every error there was, in order

validateVars == <<shape, errors, found>>

\* The most severe first.
Severity == <<"addressOutOfRange", "recallWithoutRemember", "recallBeforeRemember", "neverTrue",
              "conflicting", "alwaysTrue", "trailingChain", "measuredIfWithoutMeasured",
              "addHitsWithoutTarget", "pointerFromPreviousFrame", "pointerTransformed",
              "differentSizes", "maskAlwaysZero", "doubtfulAddress", "redundant", "noHitsToReset",
              "resetHitTargetOfOne", "maskTooLarge">>

MoreSevere(x, y) ==
  LET rank(e) == SelectInSeq(Severity, LAMBDA s : s = e.err)
  IN \/ rank(x) < rank(y)
     \/ rank(x) = rank(y) /\ x.group < y.group
     \/ rank(x) = rank(y) /\ x.group = y.group /\ x.cond < y.cond

\* rc_validate_find_most_severe_error, rc_validate_find_least_severe_error: the first of equals.
MostSevere(es) == Min({i \in DOMAIN es : \A j \in DOMAIN es : ~MoreSevere(es[j], es[i])})
LeastSevere(es) == Min({i \in DOMAIN es : \A j \in DOMAIN es : ~MoreSevere(es[i], es[j])})

\* Faulty variant: the first error makes room.
AddError_DropsFirst(s, e) ==
  [s EXCEPT !.found = Append(@, e),
            !.errors = IF Len(@) = MaxErrors THEN [@ EXCEPT ![1] = e] ELSE Append(@, e)]

\* rc_validate_add_error: without room, the least severe error makes it.
AddError(s, e) ==
  [found |-> Append(s.found, e),
   errors |-> IF Len(s.errors) = MaxErrors THEN [s.errors EXCEPT ![LeastSevere(s.errors)] = e]
              ELSE Append(s.errors, e)]

-----------------------------------------------------------------------------
(* One condition, k of the group g.                                         *)

Combining == {"addaddress", "addhits", "addsource", "andnext", "ornext", "resetnextif", "subhits",
              "subsource", "remember"}
Of(g, k) == parsed.conds[shape.groups[g][k]]
HitsOf(g, k) == shape.hits[shape.groups[g][k]]
Size(g) == Len(shape.groups[g])
HasHitTargets == \E i \in DOMAIN shape.hits : shape.hits[i] > 0

When(holds, err) == IF holds THEN <<err>> ELSE <<>>

\* The address of a reference: that of the last operand for one that is computed.
AddressOf(op) ==
  LET of(o, addresses) == CASE o.list = "mem" -> parsed.ps.mems[o.n].addr
                            [] o.list = "mod" -> addresses[o.n]
                            [] OTHER -> o.n
      all == FoldLeft(LAMBDA done, m : Append(done, of(m.modifier, done)), <<>>, parsed.ps.mods)
  IN of(op, all)

\* rc_validate_memref
ValidateMemref(op) ==
  When(AddressOf(op) > MaxAddress, "addressOutOfRange")
    \o When(AddressOf(op) <= MaxAddress /\ AddressOf(op) \in Doubtful, "doubtfulAddress")

\* rc_max_value
MaxValue(op) ==
  LET digits == IF op.size.n >= 4 THEN 8 ELSE 2 * op.size.n
      most == MapThenSumSet(LAMBDA k : (2 ^ HalfBits - 1) * 10 ^ k, 0..(digits - 1))
  IN CASE op.type = "const" -> op.n
       [] op.type # "const" /\ ~IsMemref(op) -> Word - 1
       [] OTHER -> CASE op.size.kind = "bit" -> 1
                     [] op.size.kind = "half" -> 2 ^ HalfBits - 1
                     [] op.size.kind = "count" -> 2 * HalfBits
                     [] OTHER -> IF op.type = "bcd" THEN Min({most, Word - 1})
                                 ELSE 2 ^ (2 * HalfBits * op.size.n) - 1

Clipped(n) == Min({n, Word - 1})

\* Faulty variant: a sum is as large as the larger of the two.
CombineRanges_NoSum(r, oper, by) ==
  CASE oper \in {"sub", "sub_acc"} -> [min |-> (r.min - by.max) % Word, max |-> (r.max - by.min) % Word]
    [] OTHER -> [min |-> 0, max |-> Max({r.max, by.max})]

\* rc_combine_ranges: a lower end above the upper one stands for an underflow.
CombineRanges(r, oper, by) ==
  CASE oper = "mult" -> [min |-> Clipped(r.min * by.min), max |-> Clipped(r.max * by.max)]
    [] oper = "div" -> [min |-> IF by.max = 0 THEN r.min ELSE r.min \div by.max,
                        max |-> IF by.min = 0 THEN r.max ELSE r.max \div by.min]
    [] oper = "and" -> [min |-> 0, max |-> AndBits(r.max, by.max)]
    [] oper = "xor" -> [min |-> 0, max |-> OfBits(BitsOf(r.max) \cup BitsOf(by.max))]
    [] oper = "mod" -> [min |-> 0, max |-> IF r.max >= by.max THEN (by.max - 1) % Word ELSE r.max]
    [] oper \in {"add", "add_acc"} ->
         [min |-> (r.min + by.min) % Word,
          max |-> IF r.min > r.max THEN (r.max + by.max) % Word ELSE Clipped(r.max + by.max)]
    [] oper \in {"sub", "sub_acc"} -> [min |-> (r.min - by.max) % Word, max |-> (r.max - by.min) % Word]
    [] oper = "sub_parent" -> [min |-> (by.min - r.max) % Word, max |-> (by.max - r.min) % Word]
    [] OTHER -> r

\* rc_chain_get_value_range: what a chain divided by itself comes to is 0 or 1.
ValueRange(op) ==
  LET plain(o) == [min |-> IF o.type = "const" THEN o.n ELSE 0, max |-> MaxValue(o)]
      computed(o) == IsMemref(o) /\ o.list = "mod" /\ parsed.ps.mods[o.n].oper # "indirect"
      of(o, ranges) == IF computed(o) THEN ranges[o.n] ELSE plain(o)
      range(m, done) ==
        IF m.oper = "div" /\ IsMemref(m.modifier) /\ SameOperand(m.modifier, m.parent)
        THEN [min |-> 0, max |-> 1]
        ELSE CombineRanges(of(m.parent, done), m.oper, of(m.modifier, done))
  IN of(op, FoldLeft(LAMBDA done, m : Append(done, range(m, done)), <<>>, parsed.ps.mods))

\* rc_validate_range: [min, max] is what the right side may be, top the most of the left side.
ValidateRange(min, max, oper, top) ==
  CASE oper = "and" -> When(min > top, "maskTooLarge") \o When(min <= top /\ min = 0 /\ max = 0, "maskAlwaysZero")
    [] oper = "eq" -> When(min > top, "neverTrue")
    [] oper = "ne" -> When(min > top, "alwaysTrue")
    [] oper = "ge" -> When(min > top, "neverTrue") \o When(min <= top /\ max = 0, "alwaysTrue")
    [] oper = "gt" -> When(min >= top, "neverTrue")
    [] oper = "le" -> When(min >= top, "alwaysTrue")
    [] oper = "lt" -> When(min > top, "alwaysTrue") \o When(min <= top /\ max = 0, "neverTrue")
    [] OTHER -> <<>>

Swapped(oper) ==
  CASE oper = "lt" -> "gt" [] oper = "le" -> "ge" [] oper = "gt" -> "lt" [] oper = "ge" -> "le" [] OTHER -> oper

\* The comparison of rc_validate_condset_internal; a constant on the left side changes sides.
ComparisonErrors(c) ==
  LET r == ValueRange(c.op1)
      left == IF r.min > r.max THEN [min |-> 0, max |-> Word - 1] ELSE r
      leftIs == IsMemref(c.op1)
      right == IF leftIs THEN c.op2 ELSE c.op1
      sized(op) == IsMemref(op) /\ op.list = "mem"
  IN When(sized(c.op1) /\ sized(c.op2) /\ MaxValue(c.op1) # MaxValue(c.op2), "differentSizes")
     \o IF ~leftIs /\ ~IsMemref(c.op2) THEN <<>>
        ELSE ValidateRange(IF right.type = "const" THEN right.n ELSE 0,
                           IF leftIs THEN MaxValue(c.op2) ELSE left.max,
                           IF leftIs THEN c.oper ELSE Swapped(c.oper),
                           IF leftIs THEN left.max ELSE MaxValue(c.op2))

\* What the conditions before it make of a condition.
InAddAddress(g, k) == k > 1 /\ Of(g, k - 1).type = "addaddress"
InAddHits(g, k) ==
  \E j \in 1..(k - 1) : /\ Of(g, j).type \in {"addhits", "subhits"}
                        /\ \A l \in (j + 1)..(k - 1) : Of(g, l).type \in Combining

\* {recall} without the Remember it needs.
InvalidRecall(op) == op.type = "recall" /\ op.list = "num" /\ op.access = "none"

StructureErrors(g, k) ==
  LET c == Of(g, k)
      real == GetRealOperand1(c)
      remembers == \E j \in 1..Size(g) : Of(g, j).type = "remember"
      resets == c.type = "resetif" /\ ~InAddHits(g, k)
  IN (IF InAddAddress(g, k) THEN <<>>
      ELSE (IF IsMemref(real) THEN ValidateMemref(real) ELSE <<>>)
             \o (IF IsMemref(c.op2) THEN ValidateMemref(c.op2) ELSE <<>>))
     \o When(InvalidRecall(real) \/ InvalidRecall(c.op2),
           IF remembers THEN "recallBeforeRemember" ELSE "recallWithoutRemember")
     \o When(c.type = "addaddress" /\ real.type \in {"delta", "prior"}, "pointerFromPreviousFrame")
     \o When(c.type = "addaddress" /\ real.type \in {"bcd", "inverted"} /\ c.oper # "mult", "pointerTransformed")
     \o When(resets /\ ~HasHitTargets, "noHitsToReset")
     \o When(resets /\ HasHitTargets /\ HitsOf(g, k) = 1, "resetHitTargetOfOne")
     \o When(c.type \notin Combining \cup {"resetif"} /\ InAddHits(g, k) /\ HitsOf(g, k) = 0, "addHitsWithoutTarget")

\* Errors of the condition k of the group g.
About(errs, g, k) ==
  [i \in DOMAIN errs |-> [err |-> errs[i], group |-> g, cond |-> k, other |-> <<0, 0>>,
                          pair |-> <<shape.groups[g][k]>>]]

\* rc_validate_condset_internal
CondsetErrors(g) ==
  LET silent == {"addsource", "subsource", "remember", "addaddress"}
      checked(k) == StructureErrors(g, k) \o (IF Of(g, k).type \in silent THEN <<>> ELSE ComparisonErrors(Of(g, k)))
      measuredIfs == {k \in 1..Size(g) : Of(g, k).type = "measuredif"}
      measures == \E k \in 1..Size(g) : Of(g, k).type = "measured"
  IN FlattenSeq([k \in 1..Size(g) |-> About(checked(k), g, k)])
     \o (IF Size(g) > 0 /\ Of(g, Size(g)).type \in Combining
         THEN About(<<"trailingChain">>, g, Size(g)) ELSE <<>>)
     \o (IF measuredIfs # {} /\ ~measures
         THEN About(<<"measuredIfWithoutMeasured">>, g, Min(measuredIfs)) ELSE <<>>)

-----------------------------------------------------------------------------
(* Two conditions.                                                          *)

\* rc_validate_get_opposite_comparison
Opposite(oper) ==
  CASE oper = "eq" -> "ne" [] oper = "ne" -> "eq" [] oper = "lt" -> "ge"
    [] oper = "le" -> "gt" [] oper = "gt" -> "le" [] oper = "ge" -> "lt" [] OTHER -> oper

\* rc_validate_get_comparison: of a reference with a constant.
NoComparison == [op |-> NoOperand, oper |-> "none", value |-> 0]
GetComparison(c) ==
  CASE IsMemref(c.op1) /\ c.op2.type = "const" -> [op |-> c.op1, oper |-> c.oper, value |-> c.op2.n]
    [] c.op1.type = "const" /\ IsMemref(c.op2) -> [op |-> c.op2, oper |-> Opposite(c.oper), value |-> c.op1.n]
    [] OTHER -> NoComparison

\* rc_validate_comparison_overlap: what the first comparison makes of the second, when its value is
\* equal, less or greater.  Each row is a second comparison.
NO == "none"
CF == "conflicting"
RD == "redundant"
DF == "defer"
OverlapEq == [eq |-> <<RD, CF, CF>>, le |-> <<DF, CF, DF>>, ge |-> <<DF, DF, CF>>,
              ne |-> <<CF, DF, DF>>, lt |-> <<CF, CF, DF>>, gt |-> <<CF, DF, CF>>]
OverlapNe == [eq |-> <<CF, RD, RD>>, le |-> <<NO, RD, NO>>, ge |-> <<NO, NO, RD>>,
              ne |-> <<RD, NO, NO>>, lt |-> <<RD, RD, NO>>, gt |-> <<RD, NO, RD>>]
OverlapLt == [eq |-> <<CF, RD, CF>>, le |-> <<DF, RD, DF>>, ge |-> <<CF, NO, CF>>,
              ne |-> <<DF, NO, DF>>, lt |-> <<RD, RD, DF>>, gt |-> <<CF, NO, CF>>]
OverlapLe == [eq |-> <<RD, RD, CF>>, le |-> <<RD, RD, DF>>, ge |-> <<NO, NO, CF>>,
              ne |-> <<NO, NO, DF>>, lt |-> <<RD, RD, DF>>, gt |-> <<CF, NO, CF>>]
OverlapGt == [eq |-> <<CF, CF, RD>>, le |-> <<CF, CF, DF>>, ge |-> <<DF, DF, RD>>,
              ne |-> <<DF, DF, NO>>, lt |-> <<CF, CF, NO>>, gt |-> <<RD, DF, RD>>]
OverlapGe == [eq |-> <<RD, CF, RD>>, le |-> <<NO, CF, NO>>, ge |-> <<RD, RD, DF>>,
              ne |-> <<NO, DF, NO>>, lt |-> <<CF, CF, NO>>, gt |-> <<RD, DF, RD>>]

Overlap(first, second) ==
  LET row == [eq |-> OverlapEq, ne |-> OverlapNe, lt |-> OverlapLt, le |-> OverlapLe, gt |-> OverlapGt, ge |-> OverlapGe]
  IN IF first.oper \notin Comparisons \/ second.oper \notin Comparisons THEN NO
     ELSE row[second.oper][first.oper][IF first.value = second.value THEN 1 ELSE IF first.value < second.value THEN 2 ELSE 3]

\* How far the chain of conditions that starts at "from" in one group is found at k in another.
ChainMatched(g, from, to, h, k) ==
  LET same(x, y) ==
        /\ x.type = y.type /\ x.oper = y.oper /\ SameOperand(x.op1, y.op1)
        /\ x.oper = "none" \/ SameOperand(x.op2, y.op2)
      goes(j) == /\ k + j < Size(h)
                 /\ same(Of(h, k + j), Of(g, from + j)) /\ HitsOf(h, k + j) = HitsOf(g, from + j)
                 /\ Of(h, k + j).type \in {"addaddress", "addsource", "subsource", "andnext"}
      stops == {j \in 0..(to - from - 1) : ~goes(j)}
  IN IF stops = {} THEN to - from ELSE Min(stops)

\* What a comparison means where it stands: ResetIf and PauseIf want it false.
Wanted(c, same) ==
  LET cmp == GetComparison(c)
  IN IF c.type = "resetif" \/ (c.type = "pauseif" /\ same) THEN [cmp EXCEPT !.oper = Opposite(@)] ELSE cmp

\* Which overlaps are told of, of c in the group g and d in h.
Told(g, c, h, d) ==
  LET same == g = h
      first == Wanted(c, same)  second == Wanted(d, same)
      overlap == Overlap(first, second)
      mutual == Overlap(second, first) = RD
      either(type) == type \in {c.type, d.type}
  IN CASE overlap = CF -> IF either("pauseif") /\ ~same /\ c.type # d.type THEN NO ELSE CF
       [] overlap = RD ->
            IF g # h /\ h = 1 /\ ~mutual THEN NO
            ELSE IF either("pauseif")
                 THEN IF ~same \/ ~mutual THEN NO ELSE IF either("resetif") THEN CF ELSE RD
            ELSE IF either("resetif") /\ c.type # d.type
                 THEN IF HasHitTargets THEN NO ELSE RD
            ELSE IF either("measuredif")
                 THEN IF ~same \/ c.type # "measuredif" THEN NO ELSE RD
            ELSE IF c.type = "trigger" /\ d.type # "trigger" THEN NO ELSE RD
       [] OTHER -> NO

\* The inner loop of rc_validate_conflicting_conditions: where it looks for the condition that ends
\* at "to", and the index it has counted by then.  A chain it skips is counted as one.
Visit(g, from, to, h, w, k) ==
  LET matched == ChainMatched(g, from, to, h, k)
      p == k + matched
      ends == {q \in p..Size(h) : Of(h, q).type \notin Combining \/ q = Size(h)}
  IN IF k # w.next THEN w
     ELSE IF g = h /\ k = from
     THEN [next |-> to + 1, index |-> w.index + (to - from) + 1, found |-> w.found]
     ELSE IF matched = to - from /\ Of(h, p).type \notin Combining
     THEN [next |-> p + 1, index |-> w.index + matched + 1,
           found |-> Append(w.found, [cond |-> p, index |-> w.index + matched])]
     ELSE [next |-> Min(ends) + 1, index |-> w.index + matched + 1, found |-> w.found]
Visits(g, from, to, h) ==
  FoldLeft(LAMBDA w, k : Visit(g, from, to, h, w, k), [next |-> 1, index |-> 1, found |-> <<>>],
           [k \in 1..Size(h) |-> k]).found

\* The condition k of g and the one of h that is visited.
CompareWith(g, k, h, t, v) ==
  LET c == Of(g, k)  d == Of(h, v.cond)
      told == Told(g, c, h, d)
      reported == \E e \in Range(t.errors) :
                    e.other = <<h, v.index>> /\ e.err \in {"redundant", "conflicting"}
  IN IF \/ HitsOf(h, v.cond) # 0 \/ GetComparison(d) = NoComparison
        \/ ~SameOperand(GetComparison(c).op, GetComparison(d).op) \/ told = NO \/ reported
     THEN t
     ELSE AddError(t, [err |-> told, group |-> h, cond |-> v.index, other |-> <<g, k>>,
                       pair |-> <<shape.groups[g][k], shape.groups[h][v.cond]>>])

\* Its outer loop.
CompareAll(g, h, t, k) ==
  LET start == Max({j \in 1..k : j = 1 \/ Of(g, j - 1).type \notin Combining})
  IN IF Of(g, k).type \in Combining \/ HitsOf(g, k) # 0 \/ GetComparison(Of(g, k)) = NoComparison
     THEN t
     ELSE FoldLeft(LAMBDA u, v : CompareWith(g, k, h, u, v), t, Visits(g, start, k, h))

\* rc_validate_conflicting_conditions, the conditions of g with those of h: not both ways.
ConflictingConditions(s, g, h) ==
  FoldLeft(LAMBDA t, k : CompareAll(g, h, t, k), s, [k \in 1..Size(g) |-> k])

\* rc_validate_trigger_internal: the core with itself, then each alternative with itself and the
\* core; what is compared first is told.
ComparePair(many, t, p) == IF Len(t.errors) # many THEN t ELSE ConflictingConditions(t, p[1], p[2])
ValidateGroup(s, g) ==
  LET pairs == IF g = 1 THEN <<<<1, 1>>>> ELSE <<<<g, g>>, <<1, g>>, <<g, 1>>>>
  IN FoldLeft(LAMBDA t, p : ComparePair(Len(s.errors), t, p),
              FoldLeft(AddError, s, CondsetErrors(g)), pairs)
ValidateTrigger ==
  FoldLeft(ValidateGroup, [errors |-> <<>>, found |-> <<>>], [g \in DOMAIN shape.groups |-> g])

ValidateInit ==
  /\ shape \in Shapes[source]
  /\ \E s \in {ValidateTrigger} : errors = s.errors /\ found = s.found

\* Frames after that are only there to compare what was said with.
ValidateNext == MemrefNext /\ UNCHANGED validateVars
ValidateSpec == MemrefInit /\ ValidateInit /\ [][ValidateNext]_<<memrefVars, validateVars>>

-----------------------------------------------------------------------------
\* What it says of comparisons is so in every frame: one that is never true, or always true; two
\* that conflict are never both as they are wanted, and one that is redundant is so whenever the
\* other is; a PauseIf conflicts with the same ResetIf, as it goes first (rc_validate_range,
\* rc_validate_comparison_overlap).
ReportsAreTrue ==
  own.sides # <<>> =>
    \A e \in Range(found) :
      LET holds(i) == TestCondition(parsed.conds[i])
          type(i) == parsed.conds[i].type
          wanted(i) == holds(i) # (type(i) \in {"resetif", "pauseif"})
          comparison(i) == <<parsed.conds[i].oper, parsed.conds[i].op2>>
      IN CASE e.err = "neverTrue" -> ~holds(e.pair[1])
           [] e.err = "alwaysTrue" -> holds(e.pair[1])
           [] e.err = "conflicting" ->
                \/ ~(wanted(e.pair[1]) /\ wanted(e.pair[2]))
                \/ /\ {type(e.pair[1]), type(e.pair[2])} = {"resetif", "pauseif"}
                   /\ comparison(e.pair[1]) = comparison(e.pair[2])
           [] e.err = "redundant" -> wanted(e.pair[1]) => wanted(e.pair[2])
           [] OTHER -> TRUE

\* However many errors there are, the one that is told is the most severe of all
\* (rc_validate_add_error, rc_validate_find_most_severe_error).
WorstIsTold ==
  found # <<>> => errors[MostSevere(errors)].err = found[MostSevere(found)].err
=============================================================================
