---------------------------- MODULE RcOwnOperands ----------------------------
(***************************************************************************)
(* What the operands of a definition promise: each keeps a record of its   *)
(* own - the value it reads now, the one it read in the last frame, and    *)
(* the last one that was different - and a chain of AddAddress, AddSource, *)
(* SubSource and Remember is computed from left to right in every frame.   *)
(* Nothing is shared.  Sizes: kind "int" or "be" with n bytes, "half" with *)
(* n = 0 (low) or 1 (high), "bit" with its number, "count" (bits set).     *)
(***************************************************************************)
EXTENDS RcTyped, Sequences, SequencesExt

CONSTANT HalfBits,                  \* bits of half a byte: 4 in the code
         Addresses                  \* the bytes of memory: 0..n

ASSUME RcOwnAssumption == HalfBits \in Nat \ {0} /\ WordBits = 8 * HalfBits

VARIABLES memory, own

LE(n)  == [kind |-> "int", n |-> n]
BE(n)   == [kind |-> "be", n |-> n]
HalfOf(n) == [kind |-> "half", n |-> n]
Bit(n)  == [kind |-> "bit", n |-> n]
Count   == [kind |-> "count", n |-> 0]

Bytes(size) == IF size.kind \in {"int", "be"} THEN size.n ELSE 1

\* rc_memref_shared_size: a byte, two or four.
SharedSize(size) == LE(IF Bytes(size) = 3 THEN 4 ELSE Bytes(size))

\* rc_memref_mask, as the first bit and the number of bits.
Mask(size) == CASE size.kind = "half" -> <<size.n * HalfBits, HalfBits>>
                [] size.kind = "bit"  -> <<size.n, 1>>
                [] OTHER              -> <<0, 2 * HalfBits * Bytes(size)>>

\* rc_peek_value: little endian, zero outside of memory, only the bits of the mask.
Peek(mem, addr, size) ==
    LET byte(k) == IF addr + k \in Addresses THEN mem[addr + k] ELSE 0
        whole == MapThenSumSet(LAMBDA k : byte(k) * 2 ^ (2 * HalfBits * k),
                               0..(Bytes(SharedSize(size)) - 1))
    IN ((whole \div 2 ^ Mask(size)[1]) % 2 ^ Mask(size)[2]) * 2 ^ Mask(size)[1]

\* rc_transform_memref_value
Digit(v, k, bits) == (v \div 2 ^ (bits * k)) % 2 ^ bits
Transform(v, size) ==
    CASE size.kind = "count" -> Cardinality(BitsOf(v % 2 ^ (2 * HalfBits)))
      [] size.kind = "be"    -> MapThenSumSet(LAMBDA k : Digit(v, k, 2 * HalfBits)
                                                         * 2 ^ (2 * HalfBits * (size.n - 1 - k)),
                                              0..(size.n - 1))
      [] OTHER               -> (v \div 2 ^ Mask(size)[1]) % 2 ^ Mask(size)[2]

\* rc_transform_operand_value: binary coded decimal, and inverted bits.
Logic(type, size, v) ==
    CASE type = "bcd" /\ size.kind \in {"int", "be"} ->
            MapThenSumSet(LAMBDA k : Digit(v, k, HalfBits) * 10 ^ k, 0..(2 * size.n - 1)) % Word
      [] type = "inverted" ->
            IF size.kind \in {"int", "be", "half"} THEN 2 ^ Mask(size)[2] - 1 - v
            ELSE XorBits(v, 1)
      [] OTHER -> v

-----------------------------------------------------------------------------
(* One record for each operand.                                              *)

NoRecord == [value |-> 0, before |-> 0, prior |-> 0]
OwnInit(definition) ==
    [records |-> [i \in DOMAIN definition |-> <<NoRecord, NoRecord>>], sides |-> <<>>]

Noted(record, v) == [value |-> v, before |-> record.value,
                     prior |-> IF v = record.value THEN record.prior ELSE record.value]

Means(raw, record, recalled) ==
    CASE raw.type = "const"  -> raw.n
      [] raw.type = "recall" -> recalled
      [] raw.type = "delta"  -> record.before
      [] raw.type = "prior"  -> record.prior
      [] OTHER               -> Logic(raw.type, raw.size, record.value)

\* One condition after another: acc carries the address, the sum and the value
\* remembered so far; sides is what the two sides of each condition come to.
OwnStep(acc, c, i, mem) ==
    LET read(raw, record) ==
            IF raw.type \in {"const", "recall"} THEN record
            ELSE Noted(record, Transform(Peek(mem, (acc.base + raw.n) % Word, raw.size),
                                         raw.size))
        o1 == read(c.op1, acc.records[i][1])
        o2 == read(c.op2, acc.records[i][2])
        left  == Means(c.op1, o1, acc.remembered)
        right == Means(c.op2, o2, acc.remembered)
        value == Convert(Combine(Unsigned(left), Unsigned(right), c.oper), "unsigned").v
        total == (acc.sum + (IF c.oper \in Comparisons THEN left ELSE value)) % Word
    IN [base |-> IF c.type = "addaddress" THEN value ELSE 0,
        sum  |-> CASE c.type = "addaddress" -> acc.sum
                   [] c.type = "addsource"  -> total
                   [] c.type = "subsource"  -> (acc.sum - value) % Word
                   [] OTHER                 -> 0,
        remembered |-> IF c.type = "remember" THEN total ELSE acc.remembered,
        records |-> [acc.records EXCEPT ![i] = <<o1, o2>>],
        sides |-> Append(acc.sides, <<total, right>>)]

OwnFrame(definition, records, mem) ==
    LET outcome(last) == [records |-> last.records, sides |-> last.sides]
    IN outcome(FoldLeft(LAMBDA acc, i : OwnStep(acc, definition[i], i, mem),
                        [base |-> 0, sum |-> 0, remembered |-> 0, records |-> records,
                         sides |-> <<>>],
                        [i \in DOMAIN definition |-> i]))
=============================================================================
