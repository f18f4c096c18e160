--------------------------- MODULE BackEndNumbers ---------------------------
\* Numbers in the two back ends: in the bytecode interpreter, and in compiled code,
\* of operands as the lowering leaves them: what const_fold.cpp makes of two literals
\* in an optimised program does not come here.
EXTENDS NumberTypes

----------------------------------------------------------------------------
\* The bytecode interpreter: the instruction TVMCompiler selects for an operator
\* (ir/vmcompiler.cpp) and what the interpreter computes with it (ir/eval.cpp).
\* Registers have 64 bits, a second file of registers has 128, and no result is
\* ever cut to a narrower type.

RegisterBits(wide) == IF wide THEN WideBits ELSE WordBits

\* An operand as an instruction on the wide or the narrow file reads it.  A literal
\* stands in the instruction; a temporary of the other file is read from the
\* register of its number in this one, which holds whatever was left there.
ReadOperand(x, wide, stale) ==
    IF x.literal \/ Is128BitInteger(x.type) = wide THEN x.vm ELSE stale

\* A register as an instruction reads it that takes it for unsigned, or not.
ReadAs(unsigned, n, w) == IF unsigned THEN Pattern(n, w) ELSE n

\* Conversions.

VmMovWide(x, dst) ==
    LET extendAs == IF x.literal THEN dst ELSE x.type
    IN  IF Is128BitInteger(x.type) /\ ~x.literal THEN x.vm
        ELSE ReadAs(extendAs \in UnsignedKinds, x.vm, WordBits)

VmMov(x, dst) ==
    CASE Is128BitInteger(dst) -> VmMovWide(x, dst)
      [] ~Is128BitInteger(dst) /\ Is128BitInteger(x.type) /\ ~x.literal -> Signed(x.vm, WordBits)
      [] OTHER -> x.vm

VmIntegerToFloat(x) ==
    Whole(ReadAs(x.type = "u128", x.vm, WideBits))

VmCast(x, dst) ==
    CASE CastInstruction(x.type, dst) = "mov" -> VmMov(x, dst)
      [] CastInstruction(x.type, dst) = "i2b" ->
            IF Is128BitInteger(x.type) THEN Truth(x.vm # 0) ELSE x.vm
      [] CastInstruction(x.type, dst) = "i2f" -> VmIntegerToFloat(x)
      [] CastInstruction(x.type, dst) \in {"f2i", "f2b"} -> Truncated(x.vm)

\* Operators.

\* Mutant of UnsignedInstruction: there is one division and one remainder.
UnsignedInstructionNever(op, result) == op = ">>" /\ result \in UnsignedKinds

\* Division, remainder and shifts to the right have unsigned forms.
UnsignedInstruction(op, result) ==
    op \in {"//", "%", ">>"} /\ result \in UnsignedKinds

VmInteger(op, result, l, r, stale) ==
    LET wide == Is128BitInteger(result)
        w == RegisterBits(wide)
        unsigned == UnsignedInstruction(op, result)
        a == ReadAs(unsigned, ReadOperand(l, wide, stale), w)
        b == ReadOperand(r, wide, stale)
        count == IF op \in {"<<", ">>"} THEN b % w
                 ELSE ReadAs(unsigned, b, w)
    IN  Signed(IntegerOp(op, a, count, w), w)

\* The left operand's type decides whether a comparison is unsigned.
VmComparison(op, l, r, stale) ==
    LET wide == Is128BitInteger(l.type) \/ Is128BitInteger(r.type)
        unsigned == l.type \in UnsignedKinds
        Read(x) == Whole(ReadAs(unsigned, ReadOperand(x, wide, stale), RegisterBits(wide)))
    IN  IF "f64" \in {l.type, r.type} THEN Truth(Compare(op, l.vm, r.vm))
        ELSE Truth(Compare(op, Read(l), Read(r)))

VmBinary(op, result, l, r, stale) ==
    CASE op \in Comparisons -> VmComparison(op, l, r, stale)
      [] op = "&&" -> IF l.vm # 0 THEN r.vm ELSE l.vm
      [] op = "||" -> IF l.vm # 0 THEN l.vm ELSE r.vm
      [] op \in Arithmetic /\ result = "f64" -> RatioOp(op, l.vm, r.vm)
      [] OTHER -> VmInteger(op, result, l, r, stale)

VmUnary(op, x) ==
    LET w == RegisterBits(Is128BitInteger(x.type))
    IN  CASE op = "!" -> Truth(x.vm = 0)
          [] op = "neg" /\ x.type = "f64" -> Ratio(-x.vm.num, x.vm.den)
          [] op = "neg" /\ x.type # "f64" -> Signed(-x.vm, w)
          [] op = "~" -> Signed(-x.vm - 1, w)

\* A value written to an element of an array and read again: as many bytes as the
\* type has, the rest of the register zero.  A truth value has one byte.
VmElement(t, n) ==
    CASE Narrow(t) -> Pattern(n, Bits[t])
      [] t = "bool" -> Pattern(n, NarrowBits)
      [] OTHER -> n

\* What a program sees of a value: converted to the widest type of its sign.
VmShown(t, n) ==
    CASE t = "f64" -> n
      [] t = "bool" -> Whole(Truth(n # 0))
      [] t \in {"u64", "u128"} -> Whole(Pattern(n, Bits[t]))
      [] OTHER -> Whole(n)

----------------------------------------------------------------------------
\* Compiled code: what LowerInstr emits for an operator
\* (codegen/llvm/llvm_codegen.cpp) and what LLVM's instructions mean.  A value has
\* the width of its type; a truth value is an integer of one bit.

\* IsSignedIntegerType and TTypeTable::IsSigned: all that is not unsigned.
SignedType(t) == t \notin UnsignedKinds

\* CreateIntCast: a value with a width of its own, extended with its sign or with
\* zeros, or cut, to another width.
IntCast(n, src, dst, sourceSigned) ==
    Signed(IF sourceSigned THEN n ELSE Pattern(n, Bits[src]), Bits[dst])

LlvmCast(x, dst) ==
    CASE CastInstruction(x.type, dst) = "mov" -> IntCast(x.llvm, x.type, dst, SignedType(x.type))
      [] CastInstruction(x.type, dst) = "i2b" -> Signed(Truth(x.llvm # 0), 1)
      [] CastInstruction(x.type, dst) = "i2f" ->
            Whole(IF SignedType(x.type) THEN x.llvm ELSE Pattern(x.llvm, Bits[x.type]))
      [] CastInstruction(x.type, dst) = "f2i" -> Signed(Truncated(x.llvm), Bits[dst])
      [] CastInstruction(x.type, dst) = "f2b" -> Signed(Truth(x.llvm.num # 0), 1)

\* Both operands are cast to the type of the result as signed numbers.
LlvmInteger(op, result, l, r) ==
    LET w == Bits[result]
        unsigned == ~SignedType(result) /\ op \in {"//", "%", ">>"}
        a == IntCast(l.llvm, l.type, result, TRUE)
        b == IntCast(r.llvm, r.type, result, TRUE)
        Read(n) == IF unsigned THEN Pattern(n, w) ELSE n
    IN  Signed(IntegerOp(op, Read(a), IF op \in {"<<", ">>"} THEN b % w ELSE Read(b), w), w)

\* Mutant of LlvmComparison: comparisons of integers are signed.
LlvmComparisonSigned(op, l, r) ==
    IF l.type = "f64" THEN Signed(Truth(Compare(op, l.llvm, r.llvm)), 1)
    ELSE Signed(Truth(Compare(op, Whole(l.llvm), Whole(IntCast(r.llvm, r.type, l.type, TRUE)))), 1)

\* The right operand is cast to the left one's type, which decides on the sign.
LlvmComparison(op, l, r) ==
    LET b == IntCast(r.llvm, r.type, l.type, TRUE)
        Read(n) == Whole(IF SignedType(l.type) THEN n ELSE Pattern(n, Bits[l.type]))
    IN  IF l.type = "f64" THEN Signed(Truth(Compare(op, l.llvm, r.llvm)), 1)
        ELSE Signed(Truth(Compare(op, Read(l.llvm), Read(b))), 1)

LlvmBinary(op, result, l, r) ==
    CASE op \in Comparisons -> LlvmComparison(op, l, r)
      [] op = "&&" -> IF l.llvm # 0 THEN r.llvm ELSE l.llvm
      [] op = "||" -> IF l.llvm # 0 THEN l.llvm ELSE r.llvm
      [] op \in Arithmetic /\ result = "f64" -> RatioOp(op, l.llvm, r.llvm)
      [] OTHER -> LlvmInteger(op, result, l, r)

LlvmUnary(op, x) ==
    CASE op = "!" -> Signed(Truth(x.llvm = 0), 1)
      [] op = "neg" /\ x.type = "f64" -> Ratio(-x.llvm.num, x.llvm.den)
      [] op = "neg" /\ x.type # "f64" -> Signed(-x.llvm, Bits[x.type])
      [] op = "~" -> Signed(-x.llvm - 1, Bits[x.type])

\* What a program sees of a value: converted to the widest type of its sign.
LlvmShown(t, n) ==
    CASE t = "f64" -> n
      [] t = "bool" -> Whole(Truth(n # 0))
      [] t \in UnsignedKinds -> Whole(Pattern(n, Bits[t]))
      [] OTHER -> Whole(n)
=============================================================================
