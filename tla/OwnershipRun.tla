---------------------------- MODULE OwnershipRun ----------------------------
(***************************************************************************)
(* A program with strings from its tree to its end: the final semantic     *)
(* pipeline makes ownership explicit                                       *)
(* (src/qumir/semantics/transform/transform.cpp:941), the lowering turns   *)
(* the tree into code (src/qumir/ir/lowering/lower_ast.cpp), and a machine *)
(* executes it over the counted heap of the runtime, one instruction at a  *)
(* time (src/qumir/ir/eval.cpp).                                           *)
(***************************************************************************)
EXTENDS AstLowering, Lifetime, StringRuntime

CONSTANTS Programs,        \* names of programs
          Root(_),         \* the tree of each
          Entry,           \* the function they start with
          NamedLocals,     \* the variables of a program are its locals 1 .. NamedLocals
          NamedSlots,      \* and the slots 1 .. NamedSlots
          MaxTests         \* the answers that test() may still give besides 0

VARIABLES phase,    \* how far the program has come
          program,
          tree,     \* what became of its root
          code,     \* its functions, the constructor and the destructor
          m,        \* the machine
          bits      \* the answers test() has given

vars == <<phase, program, tree, code, m, bits>>
-----------------------------------------------------------------------------
(* LowerTop: what initializes the globals is a function of its own, and so *)
(* is what destroys them.                                                  *)

RECURSIVE DeclaredIn(_, _)

\* The numbers of the locals, or slots, declared in a tree.
DeclaredIn(e, where) ==
    UNION {DeclaredIn(e.kids[i], where) : i \in DOMAIN e.kids}
    \cup (IF e.kind = "var" /\ e.x.at[1] = where THEN {e.x.at[2]} ELSE {})

Reserved(e) == Max(DeclaredIn(e, "local") \cup {NamedLocals})

NoScope == FunctionScope(-1, NoValue, <<>>)

\* What is lowered into the constructor.
IsInitializer(e) ==
    \/ e.kind = "var" /\ (e.x.t # "int" \/ ~IsAbsent(e.kids[1]))
    \/ e.kind \in {"assign", "replace"}

LowerConstructor(root) ==
    LowerBlock(NewFunction(0, Max(DeclaredIn(root, "slot") \cup {NamedSlots}), <<>>), SelectSeq(root.kids, IsInitializer), NoScope)

Returns(st) == Emit(st, 0, <<Do("ret", <<>>)>>, <<>>)

\* The arrays of the constructor's state are known to every function.
LowerFunctions(root, constructor) ==
    LET funs == SelectSeq(root.kids, LAMBDA e : e.kind = "fun")
        FunOf(name) == funs[SelectInSeq(funs, LAMBDA e : e.x.name = name)]
        Lowered(e) == BuildCfg(LowerFunDecl(e, Reserved(e), constructor.layouts))
    IN [name \in {funs[i].x.name : i \in DOMAIN funs} |-> Lowered(FunOf(name))]
       @@ ("$$module_constructor" :> BuildCfg(Returns(constructor)))

LowerDestructor(root) ==
    BuildCfg(Returns(LowerBlock(NewFunction(0, 0, <<>>), SelectSeq(root.kids, LAMBDA e : e.kind = "cleanup"),
                                NoScope)))

LowerTop(root) ==
    LowerFunctions(root, LowerConstructor(root)) @@ ("$$module_destructor" :> LowerDestructor(root))
-----------------------------------------------------------------------------
(* The machine.  A frame is where a function is, and its registers; what   *)
(* a local or a register holds before it is written is garbage.            *)

Frame(name) == [fun |-> name, label |-> 0, pc |-> 1, reg |-> <<>>]

Idle == [frames |-> <<>>, cells |-> <<>>, heap |-> <<>>, args |-> <<>>, ret |-> Null, out |-> <<>>,
         faults |-> {}]

Depth == Len(m.frames)
Current == Last(m.frames)
Instruction == code[Current.fun].instrs[Current.label][Current.pc]

InFrame(n, frame) == [n EXCEPT !.frames[Len(n.frames)] = frame]

Read(n, address) == IF address \in DOMAIN n.cells THEN n.cells[address] ELSE Garbage
Write(n, address, value) == [n EXCEPT !.cells = (address :> value) @@ @]

CellOf(v) == IF v[1] = "local" THEN <<"local", Depth, v[2]>> ELSE <<"slot", 0, v[2]>>

Value(v) ==
    CASE v[1] = "imm" -> Number(v[2])
      [] v[1] = "text" -> <<"text", EncodedAll(v[2])>>
      [] v[1] = "tmp" -> IF v[2] \in DOMAIN Current.reg THEN Current.reg[v[2]] ELSE Garbage

Arg(i) == Value(Instruction.args[i])

\* To the next instruction, with the result in the register of this one.
Advance(n, dest, value) ==
    LET frame == Last(n.frames)
    IN InFrame(n, [frame EXCEPT !.pc = @ + 1,
                                !.reg = IF dest = NoTmp THEN @ ELSE (dest[2] :> value) @@ @])

Computed(op, x, y) ==
    CASE op = "+" -> Number(x + y)
      [] op = "-" -> Number(x - y)
      [] op = "*" -> Number(x * y)
      [] op = "!=" -> Number(IF x # y THEN 1 ELSE 0)
      [] op = ">=" -> Number(IF x >= y THEN 1 ELSE 0)

Executed(i) ==
    CASE i.op = "load" -> Advance(m, i.dest, Read(m, CellOf(i.args[1])))
      [] i.op = "stre" -> Advance(Write(m, CellOf(i.args[1]), Arg(2)), NoTmp, Null)
      [] i.op = "lea" -> Advance(m, i.dest, <<"address", CellOf(i.args[1])>>)
      [] i.op = "elem" -> Advance(Use(m, <<Arg(1)>>), i.dest, <<"address", ElementOf(Arg(1)[2], Arg(2)[2])>>)
      [] i.op = "lde" -> Advance(m, i.dest, Read(m, Arg(1)[2]))
      [] i.op = "ste" -> Advance(Write(m, Arg(1)[2], Arg(2)), NoTmp, Null)
      [] i.op = "bitcast" -> Advance(m, i.dest, Arg(1))
      [] i.op = "arg" -> Advance([m EXCEPT !.args = Append(@, Arg(1))], NoTmp, Null)
      [] OTHER -> Advance(m, i.dest, Computed(i.op, Arg(1)[2], Arg(2)[2]))

\* All phis of a block read before any of them is assigned.
Enter(n, label) ==
    LET frame == Last(n.frames)
        Merged(phi) == Value(phi.values[SelectInSeq(phi.preds, LAMBDA p : p = frame.label)])
        phis == code[frame.fun].phis[label]
        reg == FoldLeft(LAMBDA r, phi : (phi.dest[2] :> Merged(phi)) @@ r, frame.reg, phis)
    IN InFrame(n, [frame EXCEPT !.label = label, !.pc = 1, !.reg = reg])

RuntimeCall(n, name, a) ==
    CASE name = "str_retain" -> StrRetain(n, a[1])
      [] name = "str_release" -> StrRelease(n, a[1])
      [] name = "str_from_lit" -> StrFromLit(n, a[1])
      [] name = "str_concat" -> StrConcat(n, a[1], a[2])
      [] name = "str_slice" -> StrSlice(n, a[1], a[2][2], a[3][2])
      [] name = "str_len" -> StrLen(n, a[1])
      [] name = "str_replace_sym" -> StrReplaceSym(n, a[1], a[2][2], a[3][2])
      [] name = "str_delete_symbols" -> StrDeleteSymbols(n, a[1][2], a[2][2], a[3][2])
      [] name = "str_insert_symbols" -> StrInsertSymbols(n, a[1], a[2][2], a[3][2])
      [] name = "array_create" -> ArrayCreate(n, a[1][2])
      [] name = "array_destroy" -> ArrayDestroy(n, a[1])
      [] name = "array_str_destroy" -> ArrayStrDestroy(n, a[1], a[2][2])
      [] name = "output_string" -> [Use(n, a) EXCEPT !.out = Append(@, Data(n, a[1]))]

\* The arguments become the first locals of a new frame.
Called(name) ==
    LET below == Depth + 1
        locals == [p \in {<<"local", below, i>> : i \in DOMAIN m.args} |-> m.args[p[3]]]
    IN [m EXCEPT !.frames = Append(@, Frame(name)), !.cells = locals @@ @, !.args = <<>>]

\* Back after the call, with what was returned; the locals are gone.
Returned(value) ==
    LET kept == {p \in DOMAIN m.cells : ~(p[1] = "local" /\ p[2] = Depth)}
        n == [m EXCEPT !.frames = Front(@), !.cells = [p \in kept |-> @[p]]]
        caller == Last(n.frames)
    IN IF n.frames = <<>> THEN n
       ELSE Advance(n, code[caller.fun].instrs[caller.label][caller.pc].dest, value)
-----------------------------------------------------------------------------
Init ==
    /\ phase = "source"
    /\ program \in Programs
    /\ tree = Root(program)
    /\ code = <<>> /\ m = Idle /\ bits = <<>>

\* RunFinalSemanticPipeline.
Normalize ==
    /\ phase = "source"
    /\ phase' = "normalized"
    /\ tree' = NormalizeReturns(tree)
    /\ UNCHANGED <<program, code, m, bits>>

Own ==
    /\ phase = "normalized"
    /\ LET rewritten == LifetimePass(tree, NamedLocals, NamedSlots)
       IN /\ phase' = IF rewritten.failed THEN "rejected" ELSE "owned"
          /\ tree' = Top(rewritten)
    /\ UNCHANGED <<program, code, m, bits>>

Validate ==
    /\ phase = "owned"
    /\ phase' = IF ValidNode(tree, FALSE) THEN "valid" ELSE "rejected"
    /\ UNCHANGED <<program, tree, code, m, bits>>

Compile ==
    /\ phase = "valid"
    /\ phase' = "constructor"
    /\ code' = LowerTop(tree)
    /\ m' = [m EXCEPT !.frames = <<Frame("$$module_constructor")>>]
    /\ UNCHANGED <<program, tree, bits>>

Running == m.frames # <<>> /\ m.faults = {}

Plain ==
    /\ Running /\ Instruction.op \notin Terminators \cup {"call", "nop"}
    /\ m' = Executed(Instruction)
    /\ UNCHANGED <<phase, program, tree, code, bits>>

Branch_ ==
    /\ Running /\ Instruction.op \in {"jmp", "cmp"}
    /\ m' = Enter(m, IF Instruction.op = "jmp" THEN Instruction.args[1][2]
                     ELSE IF Arg(1)[2] # 0 THEN Instruction.args[2][2] ELSE Instruction.args[3][2])
    /\ UNCHANGED <<phase, program, tree, code, bits>>

Callee == Instruction.args[1][2]

CallRuntime ==
    /\ Running /\ Instruction.op = "call" /\ Callee \notin DOMAIN code \cup {"test"}
    /\ LET done == RuntimeCall(m, Callee, m.args)
       IN m' = Advance([done EXCEPT !.args = <<>>], Instruction.dest, done.ret)
    /\ UNCHANGED <<phase, program, tree, code, bits>>

Test ==
    /\ Running /\ Instruction.op = "call" /\ Callee = "test"
    /\ \E bit \in IF Len(bits) < MaxTests THEN 0 .. 1 ELSE {0} :
          /\ m' = Advance(m, Instruction.dest, Number(bit))
          /\ bits' = IF Len(bits) < MaxTests THEN Append(bits, bit) ELSE bits
    /\ UNCHANGED <<phase, program, tree, code>>

CallFun ==
    /\ Running /\ Instruction.op = "call" /\ Callee \in DOMAIN code
    /\ m' = Called(Callee)
    /\ UNCHANGED <<phase, program, tree, code, bits>>

ReturnFrom ==
    /\ Running /\ Instruction.op = "ret"
    /\ m' = Returned(IF Instruction.args = <<>> THEN Null ELSE Arg(1))
    /\ UNCHANGED <<phase, program, tree, code, bits>>

\* The constructor, the entry function and the destructor run in turn.
NextPhase == [constructor |-> "main", main |-> "destructor", destructor |-> "done"]

Proceed ==
    /\ phase \in DOMAIN NextPhase /\ m.frames = <<>> /\ m.faults = {}
    /\ phase' = NextPhase[phase]
    /\ m' = CASE phase = "constructor" -> [m EXCEPT !.frames = <<Frame(Entry.name)>>]
              [] phase = "main" -> [m EXCEPT !.frames = <<Frame("$$module_destructor")>>]
              [] phase = "destructor" -> m
    /\ UNCHANGED <<program, tree, code, bits>>

Next ==
    \/ Normalize \/ Own \/ Validate \/ Compile
    \/ Plain \/ Branch_ \/ CallRuntime \/ Test \/ CallFun \/ ReturnFrom \/ Proceed

Spec == Init /\ [][Next]_vars
-----------------------------------------------------------------------------
(* Properties.                                                             *)

\* Type invariant.  Every program is accepted by the validator, counts are never negative, and the
\* functions that are called exist.
TypeOK ==
    /\ phase \in {"source", "normalized", "owned", "valid", "done"} \cup DOMAIN NextPhase
    /\ \A id \in DOMAIN m.heap : m.heap[id].rc >= 0
    /\ m.frames # <<>> => Current.fun \in DOMAIN code

\* Nothing is used, retained or released after it was freed, no header is read where there is none,
\* and no variable of the generated code is read before it was written: what the cleanups inserted
\* by TLifetimeRewriter and the order of the lowered replace (lower_ast.cpp:691) are for.
NoFaults == m.faults = {}

\* However a program ended, through returns, breaks and continues out of any block, all its strings
\* and arrays have been freed, and those of its globals by the module destructor.
NoLeaks == phase = "done" => \A id \in DOMAIN m.heap : m.heap[id].rc = 0

\* A compiled program writes what the source means when strings are values: sharing a counted
\* string and changing it in place (str_replace_sym, string.cpp:394) cannot be observed.
SameOutput ==
    phase = "done" =>
        LET shown == Meaning(Root(program), Entry, bits)
        IN m.out = [i \in DOMAIN shown |-> EncodedAll(shown[i])]

\* The string parameters that a function of the program borrows.
BorrowedParams(name) ==
    LET decls == SelectSeq(tree.kids, LAMBDA e : e.kind = "fun" /\ e.x.name = name)
        params == decls[1].x.params
    IN IF decls = <<>> THEN {} ELSE {i \in DOMAIN params : params[i].t = "string" /\ ~params[i].ref}

\* A borrowed string lives as long as the call that borrowed it.
BorrowedOutlivesCall ==
    \A depth \in DOMAIN m.frames : \A i \in BorrowedParams(m.frames[depth].fun) :
        ~IsFreed(m, m.cells[<<"local", depth, i>>])

\* Running the final pipeline on its own result changes nothing (pass.cpp:1011 skips such a tree,
\* and return normalization must see a cleanup exit as a return).
ReentryIsIdentity ==
    phase = "valid" =>
        /\ SameShape(NormalizeReturns(tree), tree)
        /\ SameShape(Top(LifetimePass(tree, NamedLocals, NamedSlots)), tree)
=============================================================================
