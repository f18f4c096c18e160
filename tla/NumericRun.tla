----------------------------- MODULE NumericRun ------------------------------
\* An expression over numbers grows by an operator, a conversion or an assignment
\* at a time.  Each step is annotated, and then computed three times: exactly, cut
\* to the type the annotation gave it (what the step means), by the bytecode
\* interpreter, and by compiled code.  The back ends do not always agree with the
\* meaning; vmDiffers and llvmDiffers name the places where they are known not to.
\* Nothing is folded before the back ends, as in a program that is not optimised
\* (driver.cpp:458): folding computes two literals in 64 bits whatever their type
\* (const_fold.cpp:94-176).
EXTENDS BackEndNumbers

CONSTANTS
    Literals,       \* numbers that stand in the program
    Halves,         \* floating numbers, counted in halves
    LaterNumbers,   \* those the operands of later steps are limited to
    MaxSteps,       \* the operators, conversions and assignments of a program
    Stale           \* what an unused register may hold

ASSUME NumbersAssumption == Literals \subseteq Int /\ Halves \subseteq Int

VARIABLES
    acc,            \* the value so far: [type, literal, means, vm, llvm]
    steps,
    vmDiffers, llvmDiffers
vars == <<acc, steps, vmDiffers, llvmDiffers>>

Value(t, literal, means, vm, llvm) ==
    [type |-> t, literal |-> literal, means |-> means, vm |-> vm, llvm |-> llvm]

\* An integer n of kind t, or a truth value, as both back ends keep it.
IntegerValue(t, n, literal) ==
    Value(t, literal, Whole(n),
          CASE t = "bool" -> n
            [] Is128BitInteger(t) -> Signed(n, WideBits)
            [] OTHER -> Signed(n, WordBits),
          Signed(n, Bits[t]))
FloatValue(q, literal) == Value("f64", literal, q, q, q)

\* Values at which a kind ends, and a few others.
Boundary(t) == {n \in {Lowest(t), -1, 0, 1, 2, 5, Highest(t)} : Fits(n, t)}

\* The lexer reads integers of the widest signed word.
LiteralsOf(t) == {n \in Literals : Fits(n, t) /\ Fits(n, "i64")}

IntegerLeaves ==
    (UNION {{IntegerValue(t, n, TRUE) : n \in LiteralsOf(t)} : t \in IntegerKinds})
        \cup (UNION {{IntegerValue(t, n, FALSE) : n \in Boundary(t)} : t \in IntegerKinds})
        \cup {IntegerValue("bool", n, FALSE) : n \in {0, 1}}
FloatLeaves == {FloatValue(Ratio(h, 2), literal) : h \in Halves, literal \in BOOLEAN}

----------------------------------------------------------------------------
\* Conversions.  A literal changes its type in place, anything else is cast.

\* A conversion whose result neither C++ nor LLVM defines.
Representable(x, t) ==
    x.type = "f64" => CASE t \in IntegerKinds -> Fits(Truncated(x.means), t)
                                /\ Fits(Truncated(x.means), IF Is128BitInteger(t) THEN "i128" ELSE "i64")
                        [] t = "bool" -> Fits(Truncated(x.means), "i64")
                        [] OTHER -> TRUE

MeansCast(x, t) ==
    CASE t = "bool" -> Whole(Truth(x.means.num # 0))
      [] t \in IntegerKinds -> Whole(Reduced(Truncated(x.means), t))
      [] t = "f64" -> x.means

Cast(x, t) == Value(t, FALSE, MeansCast(x, t), VmCast(x, t), LlvmCast(x, t))

\* InsertImplicitCastIfNeeded, and what RetypeIntegerLiteralIfFits has done before.
Convert(x, t) ==
    CASE x.type = t -> x
      [] x.type # t /\ x.literal /\ t \in IntegerKinds ->
            IntegerValue(t, Truncated(x.means), TRUE)
      [] x.type # t /\ x.literal /\ t = "f64" -> FloatValue(x.means, TRUE)
      [] OTHER -> Cast(x, t)

----------------------------------------------------------------------------
\* Where a back end makes something else of a step than it means.  Of the values
\* that come of such a step nothing is said: they are differences between the code
\* and its own types, and four of them are against docs/arch/core-lang.md as well.
\* There lines 803-805 let 128-bit integers behave like the narrower ones
\* (NegativeLiteral, OtherFile), and lines 796-797 let a number become a wider one
\* of itself only when it keeps its value (UnsignedElement, SignExtended).

\* The interpreter does not cut results to narrow types.
Uncut(n, t) == Narrow(t) /\ ~Fits(n, t)
\* It converts words to floating numbers as signed ones,
UnsignedToFloat(x, t) == x.type = "u64" /\ t = "f64" /\ ~Fits(x.means.num, "i64")
\* and floating numbers to truth values by way of integers.
Fraction(x, t) ==
    x.type = "f64" /\ t = "bool" /\ x.means.num # 0 /\ Truncated(x.means) = 0
\* A negative literal made unsigned is extended with zeros to 128 bits.
NegativeLiteral(x, t) == x.literal /\ t = "u128" /\ x.means.num < 0
\* A truth value made from an integer keeps it in its register.
NotOneBit(x) == x.type = "bool" /\ x.vm \notin {0, 1}
\* It reads a temporary of the other file of registers: bitwise operators and
\* shifts do not convert their right operand to the type of the left one.
OtherFile(op, l, r) ==
    op \in BitOperators /\ ~r.literal /\ Is128BitInteger(l.type) # Is128BitInteger(r.type)
\* It takes the count of a shift from the whole register.
LongCount(op, t, r) == op \in {"<<", ">>"} /\ Narrow(t) /\ r.means.num \notin 0 .. Bits[t] - 1
\* It reads an element without its sign.
UnsignedElement(t, n) == Narrow(t) /\ n < 0

\* Compiled code extends a truth value, which has one bit, with its sign,
SignedTruth(x, t) == x.type = "bool" /\ IsNumber(t) /\ x.means.num = 1
\* compares truth values as numbers of one bit with a sign,
OrderedTruth(op, l) == l.type = "bool" /\ op \in {"<", "<=", ">", ">="}
\* and extends the right operand of a bitwise operator with its sign.
SignExtended(op, l, r) ==
    /\ op \in BitOperators /\ r.type \in UnsignedKinds /\ Bits[r.type] < Bits[l.type]
    /\ r.means.num >= TwoTo[Bits[r.type] - 1]

VmCastDiffers(x, t) ==
    \/ UnsignedToFloat(x, t) \/ Fraction(x, t) \/ NegativeLiteral(x, t)
    \/ NotOneBit(x) /\ t # "bool"
    \/ x.type \in IntegerKinds /\ t \in IntegerKinds /\ Uncut(x.means.num, t)

----------------------------------------------------------------------------
\* Steps.

NewSum(value, vmOff, llvmOff) ==
    /\ acc' = value
    /\ steps' = steps + 1
    /\ vmDiffers' = (vmDiffers \/ vmOff)
    /\ llvmDiffers' = (llvmDiffers \/ llvmOff)

\* The exact result of an operator, of the operands as they were before they were
\* converted.
Exact(op, t, x, y) ==
    CASE op \in Comparisons -> Whole(Truth(Compare(op, x, y)))
      [] op = "&&" -> Whole(Truth(x.num # 0 /\ y.num # 0))
      [] op = "||" -> Whole(Truth(x.num # 0 \/ y.num # 0))
      [] t = "f64" -> RatioOp(op, x, y)
      [] op \in {"<<", ">>"} -> Whole(IntegerOp(op, x.num, y.num % Bits[t], WideBits))
      [] OTHER -> Whole(IntegerOp(op, x.num, y.num, WideBits + 1))

\* The exact result of a unary operator.
ExactUnary(op, x) ==
    CASE op = "!" -> Whole(Truth(x.num = 0))
      [] op = "~" -> Whole(-x.num - 1)
      [] op = "neg" -> Ratio(-x.num, x.den)

Cut(q, t) == IF t \in IntegerKinds THEN Whole(Reduced(q.num, t)) ELSE q

\* No program that is run divides by zero, or the least number of a kind by -1.
Divisible(op, t, x, y) ==
    op \in {"/", "//", "%"} =>
        /\ y.num # 0
        /\ t \in SignedKinds => ~(x.num = Lowest(t) /\ y.num = -1)

Binary(op, l, r) ==
    LET types == AnnotateBinary(op, l, r)
        t == types.result
        exact == Exact(op, t, l.means, r.means)
        left == Convert(l, types.left)
        right == Convert(r, types.right)
    IN  /\ types # Refused
        /\ Representable(l, types.left) /\ Representable(r, types.right)
        /\ Divisible(op, t, l.means, r.means)
        /\ \E stale \in (IF OtherFile(op, l, r) THEN Stale ELSE {0}) :
              NewSum(Value(t, FALSE, Cut(exact, t), VmBinary(op, t, left, right, stale),
                           LlvmBinary(op, t, left, right)),
                     \/ VmCastDiffers(l, types.left) \/ VmCastDiffers(r, types.right)
                     \/ Uncut(exact.num, t) \/ LongCount(op, t, r) \/ OtherFile(op, l, r)
                     \/ op \in Comparisons /\ (NotOneBit(l) \/ NotOneBit(r)),
                     OrderedTruth(op, l) \/ SignExtended(op, l, r))

Unary(op) ==
    LET t == AnnotateUnary(op, acc.type)
        exact == ExactUnary(op, acc.means)
    IN  /\ t # NoType
        /\ NewSum(Value(t, FALSE, Cut(exact, t), VmUnary(op, acc), LlvmUnary(op, acc)),
                  Uncut(exact.num, t), FALSE)

\* A conversion that stands in the program.
ExplicitCast(t) ==
    /\ t # acc.type
    /\ Representable(acc, t)
    /\ NewSum(Cast(acc, t), VmCastDiffers(acc, t), SignedTruth(acc, t))

\* An assignment to a variable of type t, or to an element of an array of those,
\* which is then read.
Assign(t, element) ==
    LET x == Convert(acc, t)
    IN  /\ CanImplicit(acc.type, t)
        /\ Representable(acc, t)
        /\ NewSum(Value(t, FALSE, x.means, IF element THEN VmElement(t, x.vm) ELSE x.vm, x.llvm),
                  \/ VmCastDiffers(acc, t)
                  \/ element /\ (UnsignedElement(t, x.means.num) \/ NotOneBit(x)), FALSE)

Init ==
    /\ acc \in IntegerLeaves \/ acc \in FloatLeaves
    /\ steps = 0
    /\ vmDiffers = FALSE /\ llvmDiffers = FALSE

Operands(leaves) ==
    IF steps = 0 THEN leaves ELSE {x \in leaves : ~x.literal /\ x.means.num \in LaterNumbers}

Next ==
    /\ steps < MaxSteps /\ ~(vmDiffers /\ llvmDiffers)
    /\ \/ \E x \in Operands(IntegerLeaves), op \in BinaryOperators : Binary(op, acc, x) \/ Binary(op, x, acc)
       \/ \E x \in Operands(FloatLeaves), op \in BinaryOperators : Binary(op, acc, x) \/ Binary(op, x, acc)
       \/ \E op \in UnaryOperators : Unary(op)
       \/ \E t \in Types : ExplicitCast(t)
       \/ \E t \in Types, element \in BOOLEAN : Assign(t, element)

Spec == Init /\ [][Next]_vars

----------------------------------------------------------------------------
\* The interpreter shows what the steps mean.  Hazard: which of two instructions
\* an operator becomes, and from which file of registers it reads, is decided
\* three times, by the annotation, by the compiler and by the types of temporaries;
\* the tests compute with small numbers of one type.  It speaks of a value until
\* the first step at which they differ: what they make of it then is for the
\* findings to say, not for a property that the code meets.
BytecodeMeans == ~vmDiffers => VmShown(acc.type, acc.vm) = acc.means

\* Compiled code shows what the steps mean, and so the same as the interpreter,
\* until the first step at which it differs (llvm_codegen.cpp:1461-1655).
NativeMeans == ~llvmDiffers => LlvmShown(acc.type, acc.llvm) = acc.means
=============================================================================
