----------------------------- MODULE MCRcEngine -----------------------------
(***************************************************************************)
(* The evaluation engine, one part at a time: memory references with       *)
(* conditions that share them, values of several clauses, rich presence,   *)
(* and the runtime that owns their lists and saves their progress.  They   *)
(* share no state here - what one reads of another is an input - so that a *)
(* behaviour of all of them is one of each.                                *)
(***************************************************************************)
EXTENDS RcValidate, RcValue, RcRichPresence, RcRuntime

VARIABLE part

engineVars == <<part, memrefVars, validateVars, valueVars, richVars, runtimeVars>>

-----------------------------------------------------------------------------
(* Definitions over two bytes of memory.  A byte has two bits, a word four  *)
(* bytes.                                                                   *)

Read(type, size, n) == [type |-> type, size |-> size, n |-> n]
Num(n) == Number(n)
Recalled == [type |-> "recall", size |-> LE(4), n |-> 0]
Cond(type, op1, oper, op2) == [type |-> type, op1 |-> op1, oper |-> oper, op2 |-> op2]
Only(type, op1) == Cond(type, op1, "none", Num(1))
A(n) == Read("address", LE(1), n)
D(n) == Read("delta", LE(1), n)

Sizes == {LE(1), LE(2), HalfOf(0), HalfOf(1), Bit(0), Bit(1), BE(2), Count}

\* Two operands of any kind and size in the same byte.
MCPairs ==
    {<<Cond("standard", Read(t, s, 0), "le", Read(u, z, 0))>> :
        t \in {"address", "delta"}, u \in {"delta"}, s \in Sizes, z \in {LE(1), HalfOf(1)}}
    \cup {<<Cond("standard", Read(t, s, 0), "eq", Read(u, HalfOf(0), 0))>> :
            t \in {"prior", "bcd", "inverted"}, s \in Sizes, u \in {"prior", "inverted"}}

\* Chains of two conditions before the one that is tested.
MCChains ==
    {<<Cond(k, a, o, Num(2)), Only(l, b), Cond("standard", c, "lt", A(1))>> :
        k \in {"addsource", "subsource", "addaddress", "remember"},
        l \in {"addsource", "subsource", "addaddress", "remember"},
        a \in {A(0), Read("prior", HalfOf(1), 0)}, b \in {Read("delta", LE(2), 0), Num(3)},
        c \in {D(0), Recalled}, o \in {"none", "mult", "div"}}

\* Two tested conditions whose chains share references; a Measured after a chain.
MCShared ==
    {<<Only(k, A(0)), Cond("standard", t, "ne", D(1)),
       Only(l, A(0)), Cond("standard", u, "ge", A(1))>> :
        k \in {"addsource", "subsource", "addaddress"}, l \in {"addsource", "addaddress"},
        t \in {A(1), D(1)}, u \in {A(1), Read("delta", HalfOf(1), 1)}}
    \cup {<<Only(k, a), Cond("measured", b, o, A(1))>> :
            k \in {"addsource", "subsource"}, a \in {A(0), D(0)}, b \in {D(1), Num(1)},
            o \in {"none", "and", "xor", "mod", "add", "sub"}}

\* Not among them, see the README: an operand and its delta of another size, BITCOUNT of a prior,
\* two priors that are added, and a second SubSource after a delta or a constant.
Sound(d) ==
    /\ \A i \in DOMAIN d :
          LET l == d[i].op1  r == d[i].op2
          IN /\ ~(l.type # r.type /\ {l.type, r.type} = {"address", "delta"} /\ l.n = r.n
                  /\ l.size # r.size)
             /\ ~(l.type = "prior" /\ l.size = Count)
    /\ \A i \in 1..(Len(d) - 1) :
          ~(/\ d[i].type = "subsource" /\ d[i + 1].type = "subsource"
            /\ d[i].oper = "none" /\ d[i].op1.type # "address")

\* Legacy values: up to three terms.
MCTerms ==
    LET t(op, f) == [op |-> op, factor |-> f]
    IN {<<t(A(0), f), t(D(1), g)>> : f \in {1, 2, -1}, g \in {1, -1, -3}}
       \cup {<<t(A(0), f), t(D(0), g), t(Read("address", HalfOf(1), 1), 1)>> : f \in {1, -2}, g \in {-1, 3}}
       \cup {<<t(A(0), -2)>>}

\* Conditions for the validation: sizes with constants, conditions that structure others, and pairs
\* on one byte with a third that has hits.
Against(type, op, oper, n) == Cond(type, op, oper, Num(n))
MCSingles ==
    {<<Against("standard", Read(t, s, 0), o, n)>> :
        t \in {"address"}, s \in Sizes, o \in Comparisons \cup {"and"},
        n \in {0, 1, 2, 3, 4, 15, 255}}
    \cup {<<Against("standard", Read("inverted", s, 0), "lt", n)>> : s \in Sizes \ {Count}, n \in 1..4}
    \cup {<<Cond("standard", Num(n), o, Read("bcd", LE(1), 0))>> : o \in Comparisons, n \in {0, 2, 11, 12}}
    \cup {<<Only(k, A(0)), Against("standard", r, o, n)>> :
            k \in {"addsource", "subsource"}, r \in {A(1), Num(2)}, o \in Comparisons, n \in {0, 4, 6, 7, 253}}
    \cup {<<Cond("addsource", A(0), o, r), Against("standard", Num(0), "gt", n)>> :
            o \in {"mult", "div", "mod", "sub", "add", "and", "xor"}, r \in {A(0), A(1), Num(2)},
            n \in {0, 1, 2, 5, 9}}
MCStructures ==
    {<<Against(k, A(0), "eq", 1), Against(l, A(0), "eq", 2), Against(m, op, "lt", 3)>> :
        k \in {"andnext", "addhits", "subhits", "resetnextif"}, l \in {"ornext", "measuredif", "addhits", "resetif"},
        m \in {"standard", "measured", "andnext", "resetif"}, op \in {A(1), Recalled}}
    \cup {<<Only("addaddress", p), Cond("standard", A(2), "eq", A(3)), Against("resetif", A(2), "eq", 0),
            Against("remember", D(0), "none", 1)>> : p \in {A(3), D(2), Read("bcd", LE(1), 0)}}
MCTwo ==
    {<<Against(t[1], A(0), o, v[1]), Against(t[2], A(0), p, v[2]), Against("measured", A(1), "eq", 1)>> :
        t \in {<<"standard", "standard">>, <<"standard", "resetif">>, <<"resetif", "resetif">>,
               <<"pauseif", "standard">>, <<"standard", "pauseif">>, <<"resetif", "pauseif">>,
               <<"pauseif", "pauseif">>, <<"measuredif", "standard">>, <<"trigger", "standard">>},
        o \in Comparisons, p \in Comparisons, v \in {<<1, 1>>, <<1, 2>>, <<2, 1>>}}

\* Not among them, see the README: two that come to ">=" of different values.
Judged(d) ==
    LET wanted(c) == IF c.type \in {"resetif", "pauseif"} THEN Opposite(c.oper) ELSE c.oper
    IN ~(wanted(d[1]) = "ge" /\ wanted(d[2]) = "ge" /\ d[1].op2 # d[2].op2)

MCDefinitions == {d \in MCPairs \cup MCChains \cup MCShared : Sound(d)}
                 \cup MCSingles \cup MCStructures \cup {d \in MCTwo : Judged(d)}
                 \cup {LegacyClause(terms) : terms \in MCTerms}

\* All in one group; a pair in one group, or one in the core and one in an alternative.
MCShapes ==
    LET all(d) == [i \in DOMAIN d |-> i]  none(d) == [i \in DOMAIN d |-> 0]
    IN [d \in MCDefinitions |->
          IF d \in MCTwo
          THEN {[groups |-> g, hits |-> <<0, 0, 2>>] :
                  g \in {<<<<1, 2, 3>>>>}
                         \cup IF {d[1].type, d[2].type} = {"pauseif"} THEN {} ELSE {<<<<1, 3>>, <<2>>>>}}
          ELSE {[groups |-> <<all(d)>>, hits |-> none(d)]}]

\* Restored: what is computed again from the references is what was there (see the README).
Reconstructible(d) ==
    \A p \in {Parse(d)} :
       LET indirect(op) == op.list = "mod" /\ p.ps.mods[op.n].oper = "indirect"
       IN /\ \A m \in Range(p.ps.mods) :
                m.oper \notin {"add_acc", "sub_acc"} /\ ~indirect(m.parent) /\ ~indirect(m.modifier)
          /\ \A c \in Range(p.conds) : \A op \in {c.op1, c.op2} : op.type = "prior" => op.list = "mem"
Restorable ==
    {d \in MCDefinitions :
        /\ \/ Len(d) = 2 /\ d[1].op1 = D(0) /\ d[2].oper \in {"none", "xor"} /\ d[2].op1 = D(1)
           \/ Len(d) = 4 /\ {d[1].type, d[3].type} = {"addaddress"} /\ d[2].op1 = A(1)
        /\ Reconstructible(d)}
MCRestored == Restorable                  \* computed once, under a name of its own

\* The delta of a sum of three.
MCSums == {<<Only("addsource", D(0)), Only("addsource", D(0)), Cond("standard", D(1), "lt", A(1))>>}

MCSumShapes == [d \in MCSums |-> {[groups |-> <<<<1, 2, 3>>>>, hits |-> <<0, 0, 0>>]}]

MCMemories == {<<0, 0>>, <<2, 1>>, <<3, 3>>, <<1, 2>>}
MCImages == {[a \in Addresses |-> m[a + 1]] : m \in MCMemories}

-----------------------------------------------------------------------------
(* Values.                                                                  *)

MCClauseKinds == {<<"memory", "memory">>, <<"hits", "memory">>, <<"hits", "hits">>}

-----------------------------------------------------------------------------
(* Scripts.                                                                 *)

Line(k) == [k |-> k]
Blank == Line("blank")
Comment == Line("comment")
Lookup(name) == [k |-> "lookup", name |-> name]
Entry(ranges, label) == [k |-> "entry", ranges |-> ranges, label |-> label]
Otherwise(label) == [k |-> "otherwise", label |-> label]
FormatOf(name, type) == <<[k |-> "format", name |-> name], [k |-> "formattype", type |-> type]>>
Display == Line("display")
If(cell, target, text) == [k |-> "cond", cell |-> cell, target |-> target, text |-> text]
Text(text) == [k |-> "text", cell |-> 1, target |-> 0, text |-> text]
Char(c) == [k |-> "char", c |-> c]
Macro(name, of) == [k |-> "macro", name |-> name, of |-> of]
CellOf(c) == [k |-> "cell", cell |-> c]
Frames(c) == [k |-> "frames", cell |-> c]

X == <<<<"label", 1>>>>
Y == <<<<"label", 2>>, <<"label", 3>>>>
Z == <<<<"label", 4>>>>

\* Every order of five entries, some of which join with their neighbours.
MCLookups ==
    LET entries == <<Entry(<<<<0, 0>>>>, X), Entry(<<<<1, 2>>>>, Y), Entry(<<<<3, 3>>>>, Y),
                     Entry(<<<<5, 5>>, <<7, 7>>>>, Z), Entry(<<<<8, 9>>>>, X)>>
    IN {<<Lookup("L")>> \o [i \in 1..5 |-> entries[p[i]]] \o <<Blank, Display, Text(<<>>)>> :
           p \in {q \in [1..5 -> 1..5] : \A i, j \in 1..5 : q[i] = q[j] => i = j}}

MCScripts ==
    LET l == Macro("L", CellOf(1))  n == Macro("Number", CellOf(2))
    IN { \* conditions with and without hits
         <<Display, If(1, 2, <<Char("a"), n>>), Comment, If(2, 0, <<Char("b")>>),
           If(1, 1, <<n, Char("c")>>), Text(<<Char("d")>>)>>,
         <<Display, If(2, 0, <<Char("a")>>), If(1, 0, <<n>>), If(2, 1, <<l>>), Text(<<n, n>>)>>,
         \* variables, an unknown macro, a lookup after the displays that the end ends
         <<Display, If(2, 0, <<Macro("Number", Frames(1)), Char("a")>>), Text(<<l, Char("b"),
           Macro("Missing", CellOf(1))>>), Lookup("L"), Entry(<<<<1, 2>>>>, Y), Otherwise(Z)>>,
         \* characters up to a zero, formats
         FormatOf("F", "SECS") \o <<Display, Text(<<Macro("ASCIIChar", CellOf(1)),
            Macro("ASCIIChar", CellOf(2)), Macro("F", CellOf(1)), Char("z")>>)>>,
         \* errors: no display, a value twice, a lookup that is not closed
         <<Lookup("L"), Entry(<<<<1, 1>>>>, X), Blank>>,
         <<Lookup("L"), Entry(<<<<1, 3>>>>, X), Entry(<<<<2, 2>>>>, Y), Blank, Display, Text(<<l>>)>>,
         <<Lookup("L"), Entry(<<<<1, 1>>>>, X), Display, Text(<<l>>)>>,
         <<Display, Comment, Blank>> }
    \cup MCLookups

-----------------------------------------------------------------------------
(* The runtime.                                                             *)

MCVariables == <<<<"a", "b">>, <<"b", "c", "a">>>>
MCUses ==
    LET use(achievements, boards, names, unreadable, saves, inputs) ==
            [achievements |-> achievements, boards |-> boards, scripts |-> names,
             unreadable |-> unreadable, saves |-> saves, inputs |-> inputs]
    IN {use({1, 2}, {}, {}, {}, FALSE, {"hit", "idle", "pause", "prime", "reset", "fire"}),
        use({1, 2}, {}, {}, {}, TRUE, {"hit", "fire"}),
        use({1}, {1}, {}, {1}, FALSE, {"prime"}),
        use({}, {1}, {}, {}, TRUE, {"idle"}),
        use({}, {}, {1, 2}, {}, TRUE, {"idle"})}

-----------------------------------------------------------------------------
ValidateRests == shape = NothingSaved /\ errors = <<>> /\ found = <<>>
MemrefRests == /\ ValidateRests
               /\ source = <<>> /\ parsed = NothingParsed /\ mems = <<>> /\ mods = <<>>
               /\ memory = [a \in Addresses |-> 0] /\ own = OwnInit(<<>>)
               /\ saved = NothingSaved
ValueRests  == /\ clauses = <<>> /\ hits = <<>> /\ tally = <<>>
               /\ value = NoValue /\ said = 0 /\ expected = 0
RichRests   == /\ script = <<>> /\ parsedScript = [error |-> "off", macros |-> <<>>, displays |-> <<>>]
               /\ cells = [c \in Cells |-> 0] /\ variables = cells
               /\ since = [c \in Cells |-> [frames |-> 0, any |-> FALSE]]
               /\ displayHits = <<>> /\ displayOn = <<>> /\ answer = NoAnswer

RuntimeRests == /\ uses = NothingDone /\ triggers = <<>> /\ lboards = <<>> /\ rich = NoScript
                /\ buffer = <<>> /\ events = <<>> /\ last = NothingDone

EngineInit ==
    \/ part = "memref" /\ MemrefInit /\ ValidateInit /\ ValueRests /\ RichRests /\ RuntimeRests
    \/ part = "value" /\ MemrefRests /\ ValueInit /\ RichRests /\ RuntimeRests
    \/ part = "rich" /\ MemrefRests /\ ValueRests /\ RichInit /\ RuntimeRests
    \/ part = "runtime" /\ MemrefRests /\ ValueRests /\ RichRests /\ RuntimeInit

EngineNext ==
    \/ part = "memref" /\ ValidateNext /\ UNCHANGED <<part, valueVars, richVars, runtimeVars>>
    \/ part = "value" /\ ValueNext /\ UNCHANGED <<part, memrefVars, validateVars, richVars, runtimeVars>>
    \/ part = "rich" /\ RichNext /\ UNCHANGED <<part, memrefVars, validateVars, valueVars, runtimeVars>>
    \/ part = "runtime" /\ RuntimeNext /\ UNCHANGED <<part, memrefVars, validateVars, valueVars, richVars>>

EngineSpec == EngineInit /\ [][EngineNext]_engineVars

-----------------------------------------------------------------------------
\* Whatever references the conditions of a definition come to share, each operand reads what it
\* would read with a record of its own, chains add and subtract from left to right, and the
\* shortcut of a comparison is the comparison (memref.c, operand.c, condition.c).
MeansItsOwn ==
    \A i \in DOMAIN source :
        LET c == parsed.conds[i]
        IN (own.sides # <<>> /\ (source[i].oper \in Comparisons \/ source[i].type = "measured")) =>
             /\ Evaluate(c.op1, mems, mods) = own.sides[i][1]
             /\ source[i].oper \in Comparisons =>
                  /\ Evaluate(c.op2, mems, mods) = own.sides[i][2]
                  /\ TestCondition(c) = Ordered(own.sides[i][1], own.sides[i][2], source[i].oper)

\* A value of the older form is the sum of its terms, each times its factor
\* (rc_parse_legacy_value).
ValueIsSum ==
    \A terms \in MCTerms :
        (source = LegacyClause(terms) /\ own.sides # <<>>) =>
            Evaluate(parsed.conds[Len(source)].op1, mems, mods)
              = MapThenSumSet(LAMBDA i : terms[i].factor * Means(terms[i].op, own.records[i][1], 0),
                              DOMAIN terms) % Word
=============================================================================
