----------------------------- MODULE NumberTypes -----------------------------
\* Types of numbers and what the annotation of an expression makes of them:
\* AnnotateBinary, AnnotateUnary, AnnotateAssign and their helpers in
\* semantics/type_annotation/type_annotation.cpp.  The kinds of 16 and 32 bits are
\* treated everywhere as those of 8 bits are, and are left out.
EXTENDS Integers
-----------------------------------------------------------------------------
\* Arithmetic of machine words and of ratios.  A word of w bits is kept as the
\* number its bits mean with a sign.

\* Powers of two, as a recursive function.
TwoTo[n \in Nat] == IF n = 0 THEN 1 ELSE 2 * TwoTo[n - 1]

Abs(n) == IF n < 0 THEN -n ELSE n
Sign(n) == IF n < 0 THEN -1 ELSE 1

\* Exact numbers are ratios in lowest terms.
Whole(n) == [num |-> n, den |-> 1]
Ratio(n, d) ==
    LET dens == {k \in 1 .. Abs(d) : (n * k) % Abs(d) = 0}
        den == CHOOSE k \in dens : \A j \in dens : k <= j
    IN  IF d = 0 THEN Whole(0) ELSE [num |-> Sign(d) * ((n * den) \div Abs(d)), den |-> den]

Less(x, y) == x.num * y.den < y.num * x.den

\* Division towards zero, as C has it, and its remainder.  A division by zero has
\* no result worth a name; no program that is run has one.
Quotient(a, b) == IF b = 0 THEN 0 ELSE Sign(a) * Sign(b) * (Abs(a) \div Abs(b))
Remainder(a, b) == a - b * Quotient(a, b)
Truncated(x) == Quotient(x.num, x.den)

\* The low w bits of n, read without and with a sign.
Pattern(n, w) == n % TwoTo[w]
Signed(n, w) == LET p == Pattern(n, w) IN IF p >= TwoTo[w - 1] THEN p - TwoTo[w] ELSE p

Truth(b) == IF b THEN 1 ELSE 0

Compare(op, x, y) ==
    CASE op = "<" -> Less(x, y)
      [] op = "<=" -> ~Less(y, x)
      [] op = ">" -> Less(y, x)
      [] op = ">=" -> ~Less(x, y)
      [] op = "==" -> x = y
      [] op = "!=" -> x # y

RatioOp(op, x, y) ==
    CASE op = "+" -> Ratio(x.num * y.den + y.num * x.den, x.den * y.den)
      [] op = "-" -> Ratio(x.num * y.den - y.num * x.den, x.den * y.den)
      [] op = "*" -> Ratio(x.num * y.num, x.den * y.den)
      [] op = "/" -> Ratio(x.num * y.den, x.den * y.num)

\* Bitwise operators, from the lowest bit up: BitByBit gives the result on the low w
\* bits for each w.
Bit(n, i) == (n \div TwoTo[i]) % 2
BitOf(op, x, y) ==
    CASE op = "&" -> x * y
      [] op = "|" -> x + y - x * y
      [] op = "^" -> (x + y) % 2
BitByBit(op, a, b) ==
    LET low[w \in Nat] ==
            IF w = 0 THEN 0 ELSE low[w - 1] + BitOf(op, Bit(a, w - 1), Bit(b, w - 1)) * TwoTo[w - 1]
    IN  low

\* An operator on integers, before the result is cut to a width.
IntegerOp(op, a, b, w) ==
    CASE op = "+" -> a + b
      [] op = "-" -> a - b
      [] op = "*" -> a * b
      [] op \in {"/", "//"} -> Quotient(a, b)
      [] op = "%" -> Remainder(a, b)
      [] op \in {"&", "|", "^"} -> Signed(BitByBit(op, a, b)[w], w)
      [] op = "<<" -> a * TwoTo[b]
      [] op = ">>" -> a \div TwoTo[b]
-----------------------------------------------------------------------------
CONSTANTS NarrowBits, WordBits, WideBits    \* widths of 8, 64 and 128 bits

SignedKinds == {"i8", "i64", "i128"}
UnsignedKinds == {"u8", "u64", "u128"}
IntegerKinds == SignedKinds \cup UnsignedKinds
Types == IntegerKinds \cup {"bool", "f64"}
NoType == "none"

\* Widths are powers of two: the count of a shift is taken modulo a width.
ASSUME WidthsAssumption ==
    {NarrowBits, WordBits, WideBits} \subseteq Nat /\ 1 < NarrowBits
        /\ NarrowBits < WordBits /\ WordBits < WideBits
        /\ \A w \in {NarrowBits, WordBits, WideBits} : TwoTo[w] % w = 0

Bits == [t \in IntegerKinds \cup {"bool"} |->
            CASE t = "bool" -> 1
              [] t \in {"i8", "u8"} -> NarrowBits
              [] t \in {"i64", "u64"} -> WordBits
              [] t \in {"i128", "u128"} -> WideBits]

IsNumber(t) == t \in IntegerKinds \cup {"f64"}
Is128BitInteger(t) == t \in {"i128", "u128"}
Narrow(t) == t \in {"i8", "u8"}

Lowest(t) == IF t \in SignedKinds THEN -TwoTo[Bits[t] - 1] ELSE 0
Highest(t) == IF t \in SignedKinds THEN TwoTo[Bits[t] - 1] - 1 ELSE TwoTo[Bits[t]] - 1
Fits(n, t) == Lowest(t) <= n /\ n <= Highest(t)

\* n reduced to what the kind t can hold.
Reduced(n, t) == IF t \in SignedKinds THEN Signed(n, Bits[t]) ELSE Pattern(n, Bits[t])

----------------------------------------------------------------------------
\* Conversions the annotation may insert.

WideningIntOK(src, dst) ==
    \/ (src \in SignedKinds) = (dst \in SignedKinds) /\ Bits[dst] >= Bits[src]
    \/ src \in UnsignedKinds /\ dst \in SignedKinds /\ Bits[dst] > Bits[src]

CanImplicit(src, dst) ==
    \/ src = dst
    \/ src \in IntegerKinds /\ dst \in IntegerKinds /\ WideningIntOK(src, dst)
    \/ src \in IntegerKinds /\ dst = "f64"
    \/ src = "f64" /\ dst \in IntegerKinds
    \/ IsNumber(src) /\ dst = "bool"

CommonNumericType(a, b) ==
    CASE "f64" \in {a, b} /\ IsNumber(a) /\ IsNumber(b) -> "f64"
      [] a \in IntegerKinds /\ b \in IntegerKinds /\ WideningIntOK(a, b) -> b
      [] a \in IntegerKinds /\ b \in IntegerKinds /\ ~WideningIntOK(a, b)
            /\ WideningIntOK(b, a) -> a
      [] OTHER -> NoType

\* An operand is [type, literal, means, vm, llvm]: literal says that its node is
\* a number, which conversions change in place.
IntegerLiteral(x) == x.literal /\ x.type \in IntegerKinds
RetypesTo(x, t) == IntegerLiteral(x) /\ Fits(x.means.num, t)

\* The types of two operands once an integer literal took the other one's.
RetypeIntegerLiteralOperands(l, r) ==
    CASE ~{l.type, r.type} \subseteq IntegerKinds -> [left |-> l.type, right |-> r.type]
      [] {l.type, r.type} \subseteq IntegerKinds /\ RetypesTo(r, l.type) ->
            [left |-> l.type, right |-> l.type]
      [] {l.type, r.type} \subseteq IntegerKinds /\ ~RetypesTo(r, l.type)
            /\ RetypesTo(l, r.type) -> [left |-> r.type, right |-> r.type]
      [] OTHER -> [left |-> l.type, right |-> r.type]

----------------------------------------------------------------------------
\* What AnnotateBinary makes of an operator: the types both operands are converted
\* to and the type of the result, or Refused.  `**` is a call of a function, and
\* strings and symbols are not numbers.

Arithmetic == {"+", "-", "*", "/", "//", "%"}
BitOperators == {"&", "|", "^", "<<", ">>"}
Comparisons == {"<", "<=", ">", ">=", "==", "!="}
Logical == {"&&", "||"}
BinaryOperators == Arithmetic \cup BitOperators \cup Comparisons \cup Logical

Refused == [left |-> NoType, right |-> NoType, result |-> NoType]
Alike(t, result) == [left |-> t, right |-> t, result |-> result]

AnnotateArithmetic(op, retyped) ==
    LET common == CommonNumericType(retyped.left, retyped.right)
    IN  CASE common = NoType \/ (common = "f64" /\ op \in {"//", "%"}) -> Refused
          [] common # NoType /\ op = "/" -> Alike("f64", "f64")
          [] OTHER -> Alike(common, common)

\* Two truth values are compared as they are.  A truth value and a number are too,
\* but which code that is depends on the back end; it is refused here.
AnnotateComparison(l, r, retyped) ==
    LET common == CommonNumericType(retyped.left, retyped.right)
    IN  CASE l = "bool" /\ r = "bool" -> Alike("bool", "bool")
          [] IsNumber(l) /\ IsNumber(r) /\ common # NoType -> Alike(common, "bool")
          [] OTHER -> Refused

AnnotateBits(l, r) ==
    IF {l, r} \subseteq IntegerKinds THEN [left |-> l, right |-> r, result |-> l] ELSE Refused

AnnotateLogical(l, r) ==
    IF CanImplicit(l, "bool") /\ CanImplicit(r, "bool") THEN Alike("bool", "bool") ELSE Refused

AnnotateBinary(op, l, r) ==
    CASE op \in Arithmetic -> AnnotateArithmetic(op, RetypeIntegerLiteralOperands(l, r))
      [] op \in BitOperators -> AnnotateBits(l.type, r.type)
      [] op \in Comparisons ->
            AnnotateComparison(l.type, r.type, RetypeIntegerLiteralOperands(l, r))
      [] op \in Logical -> AnnotateLogical(l.type, r.type)

UnaryOperators == {"neg", "!", "~"}

\* `!` of a floating number is accepted, and no back end has code for it.
AnnotateUnary(op, t) ==
    CASE op = "neg" /\ IsNumber(t) -> t
      [] op = "!" /\ t \in IntegerKinds \cup {"bool"} -> "bool"
      [] op = "~" /\ t \in IntegerKinds -> t
      [] OTHER -> NoType

\* The instruction a conversion between two types is lowered to.
CastInstruction(src, dst) ==
    CASE src \in IntegerKinds /\ dst = "bool" -> "i2b"
      [] src = "f64" /\ dst = "bool" -> "f2b"
      [] src = "f64" /\ dst \in IntegerKinds -> "f2i"
      [] src \in IntegerKinds \cup {"bool"} /\ dst = "f64" -> "i2f"
      [] OTHER -> "mov"
=============================================================================
