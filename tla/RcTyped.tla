------------------------------ MODULE RcTyped ------------------------------
(***************************************************************************)
(* The typed values of rcheevos/value.c: unsigned, signed and floating     *)
(* numbers of a machine word, and nothing at all after a division by zero. *)
(* A floating number is held as a whole number of halves, which is enough  *)
(* to tell truncation from conversion; rounding of a real float and the    *)
(* tolerance of its comparison are abstracted.                             *)
(***************************************************************************)
EXTENDS Integers, FiniteSetsExt

CONSTANT WordBits                          \* 32 in the code

ASSUME WordBitsAssumption == WordBits \in Nat \ {0}

Word == 2 ^ WordBits
Half == 2                                  \* a float counts halves

Unsigned(n) == [type |-> "unsigned", v |-> n % Word]
SignedOf(n) == LET u == n % Word IN IF u < Word \div 2 THEN u ELSE u - Word
Signed(n)   == [type |-> "signed", v |-> SignedOf(n)]
Float(halves) == [type |-> "float", v |-> halves]
None        == [type |-> "none", v |-> 0]

\* Division and remainder of C: towards zero, with the sign of the dividend.
AbsOf(n) == IF n < 0 THEN -n ELSE n
Quot(a, b) == LET q == AbsOf(a) \div AbsOf(b) IN IF (a < 0) # (b < 0) THEN -q ELSE q
Rem_Floor(a, b) == IF b > 0 THEN a % b ELSE -((-a) % (-b))
Rem(a, b)  == a - b * Quot(a, b)

\* The whole number a value stands for.
Whole(x) == CASE x.type = "float" -> Quot(x.v, Half)
              [] x.type = "none"  -> 0
              [] OTHER            -> x.v

Convert(x, type) ==
    IF type = x.type THEN x
    ELSE CASE type = "unsigned" -> Unsigned(Whole(x))
           [] type = "signed"   -> Signed(Whole(x))
           [] type = "float"    -> Float(Half * Whole(x))
           [] OTHER             -> [x EXCEPT !.type = type]

Negate(x) == CASE x.type = "none"  -> x
               [] x.type = "float" -> Float(-x.v)
               [] OTHER            -> Signed(-x.v)

\* A number of the type of x, brought back into its range.
Within(x, n) == CASE x.type = "unsigned" -> Unsigned(n)
                  [] x.type = "signed"   -> Signed(n)
                  [] OTHER               -> Float(n)

Add(x, y) ==
    CASE x.type = "none"                          -> y
      [] y.type = "float" /\ x.type # "float"     -> Float(Convert(x, "float").v + y.v)
      [] OTHER -> Within(x, x.v + Convert(y, x.type).v)

\* Integers keep the type of the left side, a float on either side wins.
Multiply(x, y) ==
    IF "none" \in {x.type, y.type} THEN None
    ELSE IF "float" \in {x.type, y.type}
         THEN Float(Quot(Convert(x, "float").v * Convert(y, "float").v, Half))
         ELSE Within(x, x.v * Convert(y, x.type).v)

\* What division and modulus share: nothing by zero or by nothing; a float by
\* which nothing is divided makes it zero.
Dividing(x, y, Whole2(_, _), Frac2(_, _)) ==
    IF y.type = "none" \/ y.v = 0 \/ (x.type = "none" /\ y.type # "float") THEN None
    ELSE IF "float" \in {x.type, y.type}
         THEN Float(Frac2(Convert(x, "float").v, Convert(y, "float").v))
         ELSE Within(x, Whole2(x.v, Convert(y, x.type).v))

Divide(x, y)  == Dividing(x, y, Quot, LAMBDA a, b : Quot(Half * a, b))
Modulus(x, y) == Dividing(x, y, Rem, Rem)

\* The bits of a word, and the words that have them.
BitsOf(n) == {k \in 0..(WordBits - 1) : (n \div 2 ^ k) % 2 = 1}
OfBits(s) == MapThenSumSet(LAMBDA k : 2 ^ k, s)
AndBits(a, b) == OfBits(BitsOf(a) \cap BitsOf(b))
XorBits(a, b) == OfBits((BitsOf(a) \cup BitsOf(b)) \ (BitsOf(a) \cap BitsOf(b)))

Combine(x, y, oper) ==
    CASE oper = "mult" -> Multiply(x, y)
      [] oper = "div"  -> Divide(x, y)
      [] oper = "mod"  -> Modulus(x, y)
      [] oper = "and"  -> Unsigned(AndBits(Convert(x, "unsigned").v, Convert(y, "unsigned").v))
      [] oper = "xor"  -> Unsigned(XorBits(Convert(x, "unsigned").v, Convert(y, "unsigned").v))
      [] oper = "add"  -> Add(x, y)
      [] oper = "sub"  -> Add(x, Negate(y))
      [] OTHER         -> x

Comparisons == {"eq", "ne", "lt", "le", "gt", "ge"}

Ordered(a, b, oper) == CASE oper = "eq" -> a = b
                         [] oper = "ne" -> a # b
                         [] oper = "lt" -> a < b
                         [] oper = "le" -> a <= b
                         [] oper = "gt" -> a > b
                         [] oper = "ge" -> a >= b
                         [] OTHER       -> TRUE

\* The right side takes the type of the left one, unless it is a float.
Compare(x, y, oper) ==
    LET type == IF y.type = "float" THEN "float" ELSE x.type
    IN type = "none" \/ Ordered(Convert(x, type).v, Convert(y, type).v, oper)
=============================================================================
