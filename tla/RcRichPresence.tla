--------------------------- MODULE RcRichPresence ---------------------------
(***************************************************************************)
(* Rich presence (rcheevos/richpresence.c).  A script of lines - lookups   *)
(* and formats, then displays with conditions and one without - is parsed  *)
(* into lookup trees and displays.  Once a frame helper variables and the  *)
(* displays that count hits are updated; the string may be asked for at    *)
(* any time and any number of times.  Lines are records: "lookup",         *)
(* "entry", "otherwise", "comment", "blank", "format", "formattype",       *)
(* "display", "cond" and "text"; a text is a sequence of characters and    *)
(* macros.                                                                 *)
(***************************************************************************)
EXTENDS Integers, Sequences, SequencesExt, FiniteSetsExt

CONSTANTS Scripts, Cells, CellValues,
          BuiltinMacros,            \* names of macros that need no definition
          BufferSizes,
          MaxFrames                 \* hits and frames counted

VARIABLES script, cells,            \* the script, memory
          parsedScript,             \* [error, lookups, displays, variables]
          variables,                \* frames counted by each helper variable
          displayHits, displayOn,   \* of each display: its hits, whether it is TRIGGERED
          answer,                   \* [text, length, size] of the last string asked for
          since                     \* history: frames since the last reset a cell was 1

richVars == <<script, cells, parsedScript, variables, displayHits, displayOn, answer, since>>

-----------------------------------------------------------------------------
(* Lookup trees.                                                            *)

NoItem == [none |-> TRUE]
Item(e) == [none |-> FALSE, first |-> e.first, last |-> e.last, label |-> e.label,
            left |-> NoItem, right |-> NoItem, dup |-> FALSE]

\* rc_insert_richpresence_lookup_item: a neighbour with the same label is stretched.
RECURSIVE Insert(_, _)
Insert(t, e) ==
    CASE t.none -> Item(e)
      [] ~t.none /\ e.first = t.last + 1 /\ e.label = t.label -> [t EXCEPT !.last = e.last]
      [] ~t.none /\ e.last = t.first - 1 /\ e.label = t.label -> [t EXCEPT !.first = e.first]
      [] ~t.none /\ e.first > t.last /\ ~(e.first = t.last + 1 /\ e.label = t.label) ->
            LET r == Insert(t.right, e) IN [t EXCEPT !.right = r, !.dup = r.dup]
      [] ~t.none /\ e.last < t.first /\ ~(e.last = t.first - 1 /\ e.label = t.label) ->
            LET l == Insert(t.left, e) IN [t EXCEPT !.left = l, !.dup = l.dup]
      [] OTHER -> [t EXCEPT !.dup = TRUE]

RECURSIVE Flatten(_)
Flatten(t) == IF t.none THEN <<>> ELSE Flatten(t.left) \o <<t>> \o Flatten(t.right)

RECURSIVE Rebuild_LosesLast(_, _, _)
Rebuild_LosesLast(items, first, last) ==
    LET mid == (first + last) \div 2
    IN [items[mid] EXCEPT
          !.left  = IF mid = first THEN NoItem ELSE Rebuild_LosesLast(items, first, mid - 1),
          !.right = IF mid >= last - 1 THEN NoItem ELSE Rebuild_LosesLast(items, mid + 1, last)]
RECURSIVE Rebuild(_, _, _)
Rebuild(items, first, last) ==
    LET mid == (first + last) \div 2
    IN [items[mid] EXCEPT
          !.left  = IF mid = first THEN NoItem ELSE Rebuild(items, first, mid - 1),
          !.right = IF mid = last THEN NoItem ELSE Rebuild(items, mid + 1, last)]

Rebalanced(t) ==
    LET items == Flatten(t) IN IF Len(items) < 3 THEN t ELSE Rebuild(items, 1, Len(items))

RECURSIVE Find(_, _, _)
Find(t, v, default) ==
    CASE t.none -> default
      [] ~t.none /\ v > t.last -> Find(t.right, v, default)
      [] ~t.none /\ v < t.first -> Find(t.left, v, default)
      [] OTHER -> t.label

-----------------------------------------------------------------------------
(* Parsing: a pass for the macros, which may stand after the displays, and  *)
(* one for the displays.                                                    *)

NewMacro(line, kind) == [name |-> line.name, kind |-> kind, root |-> NoItem, default |-> <<>>]

ToLast(macros, F(_)) == [macros EXCEPT ![Len(macros)] = F(@)]

\* rc_parse_richpresence_lookup, the main loop of rc_parse_richpresence_internal.
Pass1Step(acc, n) ==
    LET line == script[n]
        closed == [acc EXCEPT !.macros = ToLast(@, LAMBDA m : [m EXCEPT !.root = Rebalanced(@)]),
                              !.mode = "outer"]
    IN CASE acc.error # "none" -> acc
         [] acc.mode = "lookup" /\ line.k = "blank" -> closed
         [] acc.mode = "lookup" /\ line.k = "comment" -> acc
         [] acc.mode = "lookup" /\ line.k = "otherwise" ->
               [acc EXCEPT !.macros = ToLast(@, LAMBDA m : [m EXCEPT !.default = line.label])]
         [] acc.mode = "lookup" /\ line.k = "entry" ->
               LET after == FoldLeft(Insert, acc.macros[Len(acc.macros)].root,
                                     [i \in DOMAIN line.ranges |->
                                        [first |-> line.ranges[i][1], last |-> line.ranges[i][2],
                                         label |-> line.label]])
               IN [acc EXCEPT !.macros = ToLast(@, LAMBDA m : [m EXCEPT !.root = after]),
                              !.error = IF after.dup THEN "duplicated" ELSE @]
         [] acc.mode = "lookup" /\ line.k \notin {"blank", "comment", "otherwise", "entry"} ->
               [acc EXCEPT !.error = "missing value"]
         [] acc.mode = "format" ->
               [acc EXCEPT !.mode = "outer",
                           !.macros = IF line.k = "formattype"
                                      THEN ToLast(@, LAMBDA m : [m EXCEPT !.kind = line.type])
                                      ELSE @]
         [] acc.mode = "skip" -> [acc EXCEPT !.mode = "outer"]
         [] acc.mode = "display" /\ line.k \in {"cond", "comment"} -> acc
         [] acc.mode = "display" /\ line.k \notin {"cond", "comment"} -> [acc EXCEPT !.mode = "outer"]
         [] acc.mode = "outer" /\ line.k = "lookup" ->
               [acc EXCEPT !.macros = Append(@, NewMacro(line, "lookup")), !.mode = "lookup"]
         [] acc.mode = "outer" /\ line.k = "format" ->
               IF line.name = "Unformatted" THEN [acc EXCEPT !.mode = "skip"]
               ELSE [acc EXCEPT !.macros = Append(@, NewMacro(line, "value")), !.mode = "format"]
         [] acc.mode = "outer" /\ line.k = "display" -> [acc EXCEPT !.display = n + 1, !.mode = "display"]
         [] OTHER -> acc

\* The end of the script ends a lookup too.
Pass1 ==
    LET acc == FoldLeft(Pass1Step, [mode |-> "outer", macros |-> <<>>, display |-> 0,
                                    error |-> "none"], [i \in DOMAIN script |-> i])
    IN IF acc.mode = "lookup" /\ acc.error = "none"
       THEN [acc EXCEPT !.macros = ToLast(@, LAMBDA m : [m EXCEPT !.root = Rebalanced(@)])]
       ELSE acc

\* A macro is the first definition of its name, or built in, or unknown.
Resolve(macros, part) ==
    LET n == SelectInSeq(macros, LAMBDA m : m.name = part.name)
    IN CASE part.k = "char" -> part
         [] part.k = "macro" /\ n # 0 -> [k |-> macros[n].kind, lookup |-> n, of |-> part.of]
         [] part.k = "macro" /\ n = 0 /\ part.name \in BuiltinMacros ->
               [k |-> part.name, lookup |-> 0, of |-> part.of]
         [] OTHER -> [k |-> "unknown", lookup |-> 0, of |-> part.of]

\* The conditional displays after "Display:", then the first line that is neither a condition nor
\* a comment.  has_required_hits is the parser's and stays set once a condition or a value has any.
Counts(of) == of.k = "frames"
Displays_WhenAsked(macros, lines) ==
    [i \in DOMAIN lines |->
        [target |-> lines[i].target, cell |-> lines[i].cell, each |-> FALSE,
         parts |-> [j \in DOMAIN lines[i].text |-> Resolve(macros, lines[i].text[j])]]]
Displays(macros, lines) ==
    LET hitsIn(i) == \/ lines[i].target > 0
                     \/ \E p \in Range(lines[i].text) : p.k = "macro" /\ Counts(p.of)
    IN [i \in DOMAIN lines |->
          [Displays_WhenAsked(macros, lines)[i] EXCEPT !.each = \E j \in 1..i : hitsIn(j)]]

ParseScript ==
    LET p == Pass1
        after == {i \in p.display..Len(script) : script[i].k \notin {"cond", "comment"}}
        ends  == IF p.display = 0 \/ after = {} THEN 0 ELSE Min(after)
        missing == ends = 0 \/ (ends # 0 /\ script[ends].k = "blank")
        lines == SelectSeq(SubSeq(script, p.display, ends), LAMBDA l : l.k # "comment")
    IN CASE p.error # "none" -> [error |-> p.error, macros |-> p.macros, displays |-> <<>>]
         [] p.error = "none" /\ missing ->
               [error |-> "missing display", macros |-> p.macros, displays |-> <<>>]
         [] OTHER -> [error |-> "none", macros |-> p.macros, displays |-> Displays(p.macros, lines)]

-----------------------------------------------------------------------------
(* The string.                                                              *)

\* What an operand of a macro reads: a cell, or a variable that counts frames.
Reads(of) == IF Counts(of) THEN variables[of.cell] ELSE cells[of.cell]

\* A run of characters ends at a zero, the rest of the run is skipped.
CharsOf(parts, i) ==
    LET stop == {j \in i..Len(parts) : parts[j].k # "ASCIIChar"}
        run  == SubSeq(parts, i, IF stop = {} THEN Len(parts) ELSE Min(stop) - 1)
        zero == {j \in DOMAIN run : Reads(run[j].of) = 0}
        len  == IF zero = {} THEN Len(run) ELSE Min(zero) - 1
    IN [text |-> [j \in 1..len |-> <<"ascii", Reads(run[j].of)>>], next |-> i + Len(run)]

PartText(parts, i) ==
    LET p == parts[i]
    IN CASE p.k = "char"      -> [text |-> <<<<"char", p.c>>>>, next |-> i + 1]
         [] p.k = "ASCIIChar" -> CharsOf(parts, i)
         [] p.k = "lookup"    -> [text |-> Find(parsedScript.macros[p.lookup].root, Reads(p.of),
                                                parsedScript.macros[p.lookup].default),
                                  next |-> i + 1]
         [] p.k = "unknown"   -> [text |-> <<<<"unknown", 0>>, <<"macro", 0>>>>, next |-> i + 1]
         [] OTHER             -> [text |-> <<<<p.k, Reads(p.of)>>>>, next |-> i + 1]

RECURSIVE TextsFrom(_, _)
TextsFrom(parts, i) ==
    IF i > Len(parts) THEN <<>>
    ELSE LET p == PartText(parts, i) IN <<p.text>> \o TextsFrom(parts, p.next)

\* rc_evaluate_richpresence_display: a part that does not fit is cut, and ends the text.
WrittenInto(texts, size) ==
    FoldLeft(LAMBDA acc, t :
                IF Len(t) = 0 \/ acc.left = 0 THEN [acc EXCEPT !.length = @ + Len(t)]
                ELSE [text |-> acc.text \o (IF Len(t) >= acc.left
                                            THEN SubSeq(t, 1, acc.left - 1) ELSE t),
                      left |-> IF Len(t) >= acc.left THEN 0 ELSE acc.left - Len(t),
                      length |-> acc.length + Len(t)],
             [text |-> <<>>, left |-> size, length |-> 0], texts)

-----------------------------------------------------------------------------
(* Actions.                                                                 *)

Shows == parsedScript.displays
NoAnswer == [text |-> <<>>, length |-> 0, size |-> 0]

RichInit ==
    /\ script \in Scripts
    /\ parsedScript = ParseScript
    /\ cells = [c \in Cells |-> 0] /\ variables = cells
    /\ since = [c \in Cells |-> [frames |-> 0, any |-> FALSE]]
    /\ displayHits = [i \in DOMAIN Shows |-> 0]
    /\ displayOn = [i \in DOMAIN Shows |-> FALSE]
    /\ answer = NoAnswer

\* rc_test_trigger of a display.
Tested(i) == LET now == cells'[Shows[i].cell] = 1
             IN [hits |-> IF now /\ displayHits[i] < Shows[i].target THEN displayHits[i] + 1
                          ELSE displayHits[i],
                 now |-> now]
IsOn(i, hitCount, now) == IF Shows[i].target > 0 THEN hitCount >= Shows[i].target ELSE now

\* rc_update_richpresence_internal
UpdateRichPresence ==
    /\ parsedScript.error = "none"
    /\ cells' \in [Cells -> CellValues]
    /\ variables' = [c \in Cells |-> variables[c] + (IF cells'[c] = 1 THEN 1 ELSE 0)]
    /\ \A c \in Cells : variables'[c] <= MaxFrames
    /\ displayHits' = [i \in DOMAIN Shows |-> IF Shows[i].each THEN Tested(i).hits ELSE displayHits[i]]
    /\ displayOn' = [i \in DOMAIN Shows |-> IF Shows[i].each
                                            THEN IsOn(i, displayHits'[i], Tested(i).now)
                                            ELSE displayOn[i]]
    /\ since' = [c \in Cells |-> [frames |-> since[c].frames + (IF cells'[c] = 1 THEN 1 ELSE 0),
                                  any |-> TRUE]]
    /\ answer' = NoAnswer
    /\ UNCHANGED <<script, parsedScript>>

\* rc_get_richpresence_display_string: tests what the frame did not, up to the one that is shown.
GetDisplayString(size) ==
    LET on(i) == IF Shows[i].each THEN displayOn[i] ELSE cells[Shows[i].cell] = 1
        shown == Min({i \in DOMAIN Shows : i = Len(Shows) \/ on(i)})
        done == WrittenInto(TextsFrom(Shows[shown].parts, 1), size)
    IN /\ parsedScript.error = "none"
       /\ displayOn' = [i \in DOMAIN Shows |-> IF i <= shown /\ i # Len(Shows) THEN on(i)
                                               ELSE displayOn[i]]
       /\ answer' = [text |-> done.text, length |-> done.length, size |-> size]
       /\ UNCHANGED <<script, cells, parsedScript, variables, displayHits, since>>

\* rc_reset_richpresence
ResetRichPresence ==
    /\ parsedScript.error = "none"
    /\ displayHits' = [i \in DOMAIN Shows |-> 0]
    /\ displayOn' = [i \in DOMAIN Shows |-> FALSE]
    /\ variables' = [c \in Cells |-> 0]
    /\ since' = [c \in Cells |-> [frames |-> 0, any |-> FALSE]]
    /\ answer' = NoAnswer
    /\ UNCHANGED <<script, cells, parsedScript>>

RichNext == UpdateRichPresence \/ ResetRichPresence \/ \E size \in BufferSizes : GetDisplayString(size)
RichSpec == RichInit /\ [][RichNext]_richVars

-----------------------------------------------------------------------------
(* What a script promises, said without trees and without state.            *)

Holds(i) == \/ i = Len(Shows)
            \/ /\ Shows[i].target > 0 /\ since[Shows[i].cell].frames >= Shows[i].target
            \/ /\ Shows[i].target = 0 /\ cells[Shows[i].cell] = 1

\* The string asked for is that of the first display whose condition holds - with the hits of every
\* frame since the last reset, however often the string was asked for in between - as far as it
\* fits, and its whole length is returned.  Asked from the first frame after a reset on.
FirstThatHoldsIsShown ==
    (answer.size > 0 /\ \A c \in Cells : since[c].any) =>
        LET texts == TextsFrom(Shows[Min({i \in DOMAIN Shows : Holds(i)})].parts, 1)
            full == FlattenSeq(texts)
        IN /\ answer.length = Len(full)
           /\ answer.text = SubSeq(full, 1, Min({Len(full), answer.size - 1}))

\* The entries of the lookup of a name, as they are written.
EntriesOf(name) ==
    LET from == Min({i \in DOMAIN script : script[i].k = "lookup" /\ script[i].name = name})
        to == Min({i \in from..(Len(script) + 1) : i = Len(script) + 1 \/ script[i].k = "blank"})
    IN {i \in from..(to - 1) : script[i].k = "entry"}
Covering(name, v) ==
    {<<i, r>> \in {<<i, r>> \in (EntriesOf(name) \X (1..3)) : r <= Len(script[i].ranges)} :
        script[i].ranges[r][1] <= v /\ v <= script[i].ranges[r][2]}

\* A lookup in which no value is listed twice is accepted, and every value gets the label of the
\* entry that lists it, whatever the order of the entries did to the tree and its rebalancing.  Nothing changes the trees after parsing.
LookupsFind ==
    (\A c \in Cells : ~since[c].any) =>
    \A name \in {script[i].name : i \in {j \in DOMAIN script : script[j].k = "lookup"}} :
        LET n == SelectInSeq(parsedScript.macros, LAMBDA m : m.name = name)
        IN (\A v \in 0..9 : Cardinality(Covering(name, v)) <= 1) =>
              /\ parsedScript.error # "duplicated"
              /\ parsedScript.error = "none" =>
                   \A v \in 0..9 :
                      Find(parsedScript.macros[n].root, v, <<"default">>)
                        = IF Covering(name, v) = {} THEN <<"default">>
                          ELSE script[(CHOOSE e \in Covering(name, v) : TRUE)[1]].label
=============================================================================
