------------------------------ MODULE RcMemref ------------------------------
(***************************************************************************)
(* Memory references, operands and conditions of rcheevos (memref.c,       *)
(* operand.c, condition.c).  Definitions are parsed into operands that     *)
(* share memory references, and into a list of modified references that    *)
(* hold what AddAddress, AddSource, SubSource and Remember compute.  Once  *)
(* a frame every reference is updated from memory, the plain ones first,   *)
(* then the modified ones in the order they were made.  Floats in memory   *)
(* are left out.                                                           *)
(***************************************************************************)
EXTENDS RcTyped, Sequences, SequencesExt, RcOwnOperands

CONSTANTS Definitions,              \* what may be parsed: sequences of conditions
          Memories,                 \* what memory may hold in a frame
          Restored                  \* definitions whose progress is saved and restored

VARIABLES source,                   \* the definition, condition by condition
          parsed,                   \* its conditions after parsing, and the references they share
          mems, mods,               \* [value, prior, changed] of plain and modified references
          saved                     \* saved progress: references, and the records of the meaning

memrefVars == <<memory, source, own, parsed, mems, mods, saved>>

-----------------------------------------------------------------------------
(* Operands.  An operand refers to a plain reference, to a modified one, or *)
(* holds a number (list = "num").                                           *)

Operand(type, size, list, n) ==
    [type |-> type, access |-> type, size |-> size, list |-> list, n |-> n, combining |-> FALSE]
NoOperand == Operand("none", LE(4), "num", 0)
Const(n)  == Operand("const", LE(4), "num", n)

IsMemref(op) == op.type \notin {"const", "recall", "none"}

SameOperand(l, r) ==
    /\ l.type = r.type
    /\ l.list = r.list /\ l.n = r.n
    /\ IsMemref(l) => l.size = r.size

\* rc_alloc_memref, rc_alloc_modified_memref: an equal reference is shared.
AllocMemref(ps, addr, size) ==
    LET known == SelectInSeq(ps.mems, LAMBDA m : m.addr = addr /\ m.size = size)
    IN IF known # 0 THEN [ps |-> ps, n |-> known]
       ELSE [ps |-> [ps EXCEPT !.mems = Append(@, [addr |-> addr, size |-> size])],
             n |-> Len(ps.mems) + 1]

AllocModified(ps, size, parent, oper, modifier) ==
    LET new   == [size |-> size, parent |-> parent, oper |-> oper, modifier |-> modifier]
        known == SelectInSeq(ps.mods, LAMBDA m : /\ m.size = size /\ m.oper = oper
                                                 /\ SameOperand(m.parent, parent)
                                                 /\ SameOperand(m.modifier, modifier))
    IN IF known # 0 THEN [ps |-> ps, n |-> known]
       ELSE [ps |-> [ps EXCEPT !.mods = Append(@, new)], n |-> Len(ps.mods) + 1]

\* The size a reference is read with: the shared one, unless bits outside the
\* operand would disturb its prior value.
RefSize(raw) ==
    IF raw.type = "prior" /\ Mask(raw.size) # Mask(SharedSize(raw.size))
    THEN raw.size ELSE SharedSize(raw.size)

ParseOperand(ps, raw) ==
    CASE raw.type = "const"  -> [ps |-> ps, op |-> Const(raw.n)]
      [] raw.type = "recall" ->
            [ps |-> ps,
             op |-> IF ps.remember.type = "none" THEN [NoOperand EXCEPT !.type = "recall"]
                    ELSE [ps.remember EXCEPT !.type = "recall", !.access = ps.remember.type,
                                             !.combining = FALSE]]
      [] OTHER ->
            LET indirect == ps.indirect.type # "none"
                ref == IF indirect
                       THEN AllocModified(ps, RefSize(raw), ps.indirect, "indirect", Const(raw.n))
                       ELSE AllocMemref(ps, raw.n, RefSize(raw))
            IN [ps |-> ref.ps,
                op |-> Operand(raw.type, raw.size, IF indirect THEN "mod" ELSE "mem", ref.n)]

\* A modifying condition becomes one operand, its operator a modified reference.
ConvertToOperand(ps, c) ==
    IF c.oper = "none" THEN [ps |-> ps, op |-> c.op1]
    ELSE LET m == AllocModified(ps, LE(4), c.op1, c.oper, c.op2)
         IN [ps |-> m.ps, op |-> Operand("address", LE(4), "mod", m.n)]

\* rc_operand_addsource: the chain so far and one more operand.  Two deltas, or
\* two priors, are added first and read as a delta or a prior afterwards.
AddSource(ps, self, size) ==
    LET late == self.type \in {"delta", "prior"} /\ self.type = ps.addsource.type
        now(op) == IF late THEN [op EXCEPT !.type = "address"] ELSE op
        m == AllocModified(ps, size, now(ps.addsource), ps.addsourceOper, now(self))
        type == IF late THEN self.type ELSE "address"
    IN [ps |-> m.ps, op |-> Operand(type, LE(4), "mod", m.n)]

\* The chain so far as SubSource needs it, and the operator to subtract with.
BeforeSubtracting(ps) ==
    LET chain == ps.addsource
        zero  == IF ps.addsourceOper = "add_acc" /\ ~IsMemref(chain) THEN "add_acc"
                 ELSE IF ps.addsourceOper = "sub_parent" THEN "sub_parent" ELSE "none"
        m     == AllocModified(ps, IF zero = "add_acc" THEN chain.size ELSE LE(4),
                               chain, zero, Const(0))
        op    == IF zero = "none" THEN chain
                 ELSE [chain EXCEPT !.list = "mod", !.n = m.n,
                                    !.size = IF zero = "sub_parent" THEN LE(4) ELSE @,
                                    !.type = IF zero = "add_acc" THEN "address" ELSE @]
    IN [(IF zero = "none" THEN ps ELSE m.ps) EXCEPT
           !.addsource = op,
           !.addsourceOper = IF IsMemref(op) THEN "sub_acc" ELSE "sub_parent"]

\* rc_condition_update_parse_state: what a condition leaves for the next one.
Ends(ps) == [ps EXCEPT !.indirect = NoOperand, !.addsource = NoOperand]

Chained(ps, c) ==
    IF ps.addsource.type = "none"
    THEN LET v == ConvertToOperand(ps, c)
         IN [v.ps EXCEPT !.addsource = v.op, !.indirect = NoOperand,
                         !.addsourceOper = IF c.type = "addsource" THEN "add_acc" ELSE "sub_parent"]
    ELSE LET v == ConvertToOperand(IF c.type = "addsource" THEN ps ELSE BeforeSubtracting(ps), c)
             a == AddSource(v.ps, v.op, LE(4))
         IN [a.ps EXCEPT !.addsource = a.op, !.addsourceOper = "add_acc", !.indirect = NoOperand]

Leaf(ps, c) ==
    IF ps.addsource.type = "none" THEN [ps |-> Ends(ps), c |-> c]
    ELSE LET a == AddSource([ps EXCEPT !.addsourceOper = IF @ = "add_acc" THEN "add" ELSE @],
                            c.op1, c.op1.size)
         IN [ps |-> Ends(a.ps), c |-> [c EXCEPT !.op1 = [a.op EXCEPT !.combining = TRUE]]]

Remember(ps, c) ==
    LET chained == ps.addsource.type # "none"
        kept(after, op) == [ps |-> [Ends(after) EXCEPT !.remember = op], c |-> [c EXCEPT !.op1 = op]]
        joined(a) == kept(a.ps, [a.op EXCEPT !.combining = TRUE])
        remembered(v) == IF chained THEN joined(AddSource(v.ps, v.op, v.op.size)) ELSE kept(v.ps, v.op)
    IN IF /\ c.op1.type = "recall" /\ c.oper = "none"
          /\ ~chained /\ ps.indirect.type = "none"
       THEN [ps |-> ps, c |-> c]
       ELSE remembered(ConvertToOperand(ps, c))

UpdateParseState(ps, c) ==
    CASE c.type = "addaddress" -> LET v == ConvertToOperand(ps, c)
                                  IN [ps |-> [v.ps EXCEPT !.indirect = v.op], c |-> c]
      [] c.type \in {"addsource", "subsource"} -> [ps |-> Chained(ps, c), c |-> c]
      [] c.type = "remember"   -> Remember(ps, c)
      [] c.type = "measured" /\ c.oper \notin Comparisons -> LET v == ConvertToOperand(ps, c)
                                                             IN Leaf(v.ps, [c EXCEPT !.op1 = v.op])
      [] OTHER                 -> Leaf(ps, c)

-----------------------------------------------------------------------------
(* Parsing a definition.                                                     *)

ParseCondition(ps, raw) ==
    LET both(p1, p2) == UpdateParseState(p2.ps, [type |-> raw.type, oper |-> raw.oper,
                                                 op1 |-> p1.op, op2 |-> p2.op])
        second(p1) == both(p1, ParseOperand(p1.ps, raw.op2))
    IN second(ParseOperand(ps, raw.op1))

ParseState == [mems |-> <<>>, mods |-> <<>>, indirect |-> NoOperand, addsource |-> NoOperand,
               addsourceOper |-> "none", remember |-> NoOperand]

NothingParsed == [ps |-> ParseState, conds |-> <<>>]
Parse(definition) ==
    LET appended(acc, p) == [ps |-> p.ps, conds |-> Append(acc.conds, p.c)]
    IN FoldLeft(LAMBDA acc, raw : appended(acc, ParseCondition(acc.ps, raw)),
                NothingParsed, definition)

-----------------------------------------------------------------------------
(* Evaluation.                                                               *)

\* rc_update_memref_value, rc_get_memref_value
Update(ref, v) ==
    IF ref.value = v THEN [ref EXCEPT !.changed = FALSE]
    ELSE [value |-> v, prior |-> ref.value, changed |-> TRUE]

Shown(ref, access) ==
    IF access = "prior" \/ (access = "delta" /\ ref.changed) THEN ref.prior ELSE ref.value

Evaluate(op, ms, ds) ==
    LET access == IF op.type = "recall" THEN op.access ELSE op.type
        raw == Shown(IF op.list = "mem" THEN ms[op.n] ELSE ds[op.n], access)
    IN IF op.list = "num" THEN op.n
       ELSE Logic(op.type, op.size, Transform(raw, op.size))

\* rc_get_modified_memref_value
Modified(m, mem, ms, ds) ==
    LET parent   == Unsigned(Evaluate(m.parent, ms, ds))
        modifier == Unsigned(Evaluate(m.modifier, ms, ds))
        v == CASE m.oper = "indirect"   -> Unsigned(Peek(mem, Add(parent, modifier).v, m.size))
               [] m.oper = "sub_parent" -> Add(Negate(parent), modifier)
               [] m.oper = "sub_acc"    -> Add(parent, Convert(Negate(modifier), parent.type))
               [] m.oper = "add_acc"    -> Add(parent, Convert(modifier, parent.type))
               [] OTHER                 -> Combine(parent, modifier, m.oper)
    IN Convert(v, "unsigned").v

\* rc_update_memref_values
UpdatedMems(mem) ==
    [i \in DOMAIN mems |-> Update(mems[i], Peek(mem, parsed.ps.mems[i].addr, parsed.ps.mems[i].size))]
UpdatedMods_FromLastFrame(mem, ms) ==
    [i \in DOMAIN mods |-> Update(mods[i], Modified(parsed.ps.mods[i], mem, mems, mods))]
UpdatedMods(mem, ms) ==
    FoldLeft(LAMBDA ds, i : [ds EXCEPT ![i] = Update(@, Modified(parsed.ps.mods[i], mem, ms, ds))],
             mods, [i \in DOMAIN mods |-> i])

\* Which shortcut compares the operands: "same" compares a reference with its
\* own value of the last frame.
Plain(op) == op.type \in {"address", "delta"} /\ op.list = "mem"
Comparator(c) ==
    LET sameRef == Plain(c.op1) /\ Plain(c.op2) /\ c.op1.n = c.op2.n
        whole(op) == op.size = parsed.ps.mems[op.n].size
    IN CASE c.oper \notin Comparisons -> "true"
         [] sameRef /\ {c.op1.type, c.op2.type} = {"address", "delta"} -> "same"
         [] /\ sameRef /\ c.op1.type = "address" /\ c.op2.type = "address"
            /\ whole(c.op1) /\ whole(c.op2) -> IF Ordered(0, 0, c.oper) THEN "true" ELSE "false"
         [] OTHER -> "default"

\* rc_test_condition and its shortcuts
TestCondition(c) ==
    LET left == Evaluate(c.op1, mems, mods)  right == Evaluate(c.op2, mems, mods)
        unchanged == ~mems[c.op1.n].changed
    IN CASE Comparator(c) = "true"  -> TRUE
         [] Comparator(c) = "false" -> FALSE
         [] Comparator(c) = "same" /\ unchanged -> c.oper \in {"eq", "ge", "le"}
         [] OTHER -> Compare(Unsigned(left), Unsigned(right), c.oper)

\* rc_condition_get_real_operand1: the operand before it was merged.
GetRealOperand1(c) ==
    LET combined == c.op1.combining /\ c.op1.list = "mod"
        op == IF combined THEN parsed.ps.mods[c.op1.n].modifier ELSE c.op1
        merged == /\ op.list = "mod" /\ IsMemref(op)
                  /\ parsed.ps.mods[op.n].oper # "indirect"
                  /\ c.oper \notin Comparisons \cup {"none"}
    IN IF merged THEN parsed.ps.mods[op.n].parent ELSE op

-----------------------------------------------------------------------------
(* Saved progress: the plain references are stored, an indirect one with    *)
(* the condition that reads it, and the others are computed again.          *)

IsIndirect(op) == IsMemref(op) /\ op.list = "mod" /\ parsed.ps.mods[op.n].oper = "indirect"
Stored == UNION {{op.n : op \in {o \in {c.op1, c.op2} : IsIndirect(o)}} : c \in Range(parsed.conds)}

\* rc_runtime_progress_update_modified_memrefs, on one reference.
Reconstructed(m, ref, ms, ds) ==
    LET before(r) == [r EXCEPT !.value = r.prior]
        olds(refs) == [i \in DOMAIN refs |-> before(refs[i])]
        parts == {op \in {m.parent, m.modifier} : IsMemref(op)}
        result(rs, qs) ==
            LET parent == Unsigned(Evaluate(m.parent, rs, qs))
                modifier == Unsigned(Evaluate(m.modifier, rs, qs))
            IN Convert(IF m.oper = "sub_parent" THEN Add(Negate(parent), modifier)
                       ELSE Combine(parent, modifier, m.oper), "unsigned").v
    IN IF m.oper = "indirect" THEN [ref EXCEPT !.changed = FALSE]
       ELSE [value |-> result(ms, ds), prior |-> result(olds(ms), olds(ds)),
             changed |-> \E op \in parts : IF op.list = "mem" THEN ms[op.n].changed ELSE ds[op.n].changed]

RestoredMods(ms) ==
    LET computed == FoldLeft(LAMBDA ds, i : [ds EXCEPT ![i] = Reconstructed(parsed.ps.mods[i], @, ms, ds)],
                             mods, [i \in DOMAIN mods |-> i])
    IN [i \in DOMAIN mods |-> IF i \in Stored THEN saved.mods[i] ELSE computed[i]]

-----------------------------------------------------------------------------
Fresh == [value |-> 0, prior |-> 0, changed |-> FALSE]
NothingSaved == [mems |-> <<>>, mods |-> <<>>, records |-> <<>>]

MemrefInit ==
    /\ source \in Definitions
    /\ parsed = Parse(source)
    /\ mems = [i \in DOMAIN parsed.ps.mems |-> Fresh]
    /\ mods = [i \in DOMAIN parsed.ps.mods |-> Fresh]
    /\ memory = [a \in Addresses |-> 0]
    /\ own = OwnInit(source)
    /\ saved = NothingSaved

\* A frame: memory is anything by now, every reference is updated once.
Frame ==
    \E mem \in Memories :
        /\ memory' = mem
        /\ mems' = UpdatedMems(mem)
        /\ mods' = UpdatedMods(mem, mems')
        /\ own' = OwnFrame(source, own.records, mem)
        /\ UNCHANGED <<source, parsed, saved>>

\* rc_runtime_progress_write_memrefs and _write_condset; later, the same definition reads them.
\* Nothing is evaluated then.
SaveProgress ==
    /\ saved = NothingSaved /\ own.sides # <<>> /\ source \in Restored
    /\ saved' = [mems |-> mems, mods |-> mods, records |-> own.records]
    /\ UNCHANGED <<memory, source, own, parsed, mems, mods>>

RestoreProgress ==
    /\ saved # NothingSaved
    /\ mems' = saved.mems
    /\ mods' = RestoredMods(mems')
    /\ own' = [records |-> saved.records, sides |-> <<>>]
    /\ UNCHANGED <<memory, source, parsed, saved>>

MemrefNext == Frame \/ SaveProgress \/ RestoreProgress
MemrefSpec == MemrefInit /\ [][MemrefNext]_memrefVars
=============================================================================
