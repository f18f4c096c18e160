------------------------------ MODULE CoreText -------------------------------
(***************************************************************************)
(* A program of the front end is printed as core text and the text is      *)
(* parsed again: what the reference tests do with every program (CoreExec  *)
(* in src/test/test_reg.cpp) and what a user does who edits the tree that  *)
(* the compiler shows.                                                     *)
(*                                                                         *)
(* The programs are built from named statements and expressions, each kind *)
(* of node among them: a function around a statement, the statement around *)
(* an expression, with or without a module that was composed into it.      *)
(***************************************************************************)
EXTENDS CoreParser, TLC

CONSTANTS
    Hides,       \* HideResolvedOrigins
    Names,       \* names of the variable
    CharCodes,   \* characters that literals have
    Tenths,      \* floats that literals have
    FunFlags,    \* the attributes without a syntax in the printer: "used", "cacheable"
    Imports      \* what is composed: "none", "use", "resolved"

VARIABLES work, text, back
vars == <<work, text, back>>

-----------------------------------------------------------------------------
\* Programs.

I64 == Scalar("i64")
F64 == Scalar("f64")
Str == Scalar("string")
Void == Scalar("void")
Point == NamedType("point", <<TypeOf("struct", "", <<F64, F64>>, <<"x", "y">>, 0)>>)
Shape == NamedType("shape", <<TypeOf("array", "", <<Point>>, <<>>, 2)>>)
Key == [NamedType("key", <<I64>>) EXCEPT !.reference = TRUE]     \* of a runtime module
Typed(e, type) == [e EXCEPT !.type = type]
Plain(kind, has) == Node(kind, Void, has)
Of(type, kind, has) == Node(kind, type, has)

ExprNames == [
    names |-> {<<"name", n>> : n \in Names},
    chars |-> {<<"char", c>> : c \in CharCodes},
    floats |-> {<<"float", f>> : f \in Tenths},
    ints |-> {<<"int", 7>>, <<"int", -7>>, <<"byte", 200>>, <<"bool", 0>>, <<"bool", 1>>},
    ops |-> {<<"op", op>> : op \in {"+", "<", "<=", "<<", "^", "||", "//"}},
    forms |-> {<<"form", f>> : f \in {"minus", "not", "call", "await", "index", "multi", "from", "slice", "field", "struct", "cast",
                                     "bits", "if", "choose", "own", "retain", "move", "borrow", "text", "ref", "key"}},
    none |-> {<<"form", "none">>}]

Expr(id) ==
    LET x == Of(I64, "Ident", [name |-> "x"])
        p == Of(Point, "Ident", [name |-> "p"])
        a == Of(TypeOf("array", "", <<I64>>, <<>>, 1), "Ident", [name |-> "a"])
        s == Of(Str, "Ident", [name |-> "s"])
        lit == Of(Str, "String", [text |-> "text"])
        lifetime == [own |-> "OwnLiteral", retain |-> "Retain", move |-> "Move", borrow |-> "Borrow"]
    IN  CASE id[1] = "name" -> Of(I64, "Ident", [name |-> id[2]])
          [] id[1] = "char" -> Number(Scalar("char"), id[2])
          [] id[1] = "float" -> Number(F64, id[2])
          [] id[1] = "int" -> Number(I64, id[2])
          [] id[1] = "byte" -> Number(Scalar("u8"), id[2])
          [] id[1] = "bool" -> Number(Scalar("bool"), id[2])
          [] id[1] = "op" -> Of(I64, "Binary", [op |-> id[2], left |-> x, right |-> Of(I64, "Binary", [op |-> "-", left |-> Number(I64, 2), right |-> x])])
          [] id[2] = "minus" -> Of(I64, "Unary", [op |-> "-", operand |-> Number(I64, -1)])
          [] id[2] = "not" -> Of(Scalar("bool"), "Unary", [op |-> "!", operand |-> x])
          [] id[2] = "call" -> Of(I64, "Call", [callee |-> Of(TypeOf("fun", "", <<I64, Point, I64>>, <<>>, 0), "Ident", [name |-> "f"]), args |-> <<p, x>>])
          [] id[2] = "await" -> Of(I64, "Await", [operand |-> Of(TypeOf("future", "", <<I64>>, <<>>, 0), "Call", [callee |-> Of(TypeOf("fun", "", <<I64>>, <<>>, 0), "Ident", [name |-> "g"]), args |-> <<>>])])
          [] id[2] = "index" -> Of(I64, "Index", [collection |-> a, index |-> x])
          [] id[2] = "multi" -> Of(I64, "MultiIndex", [collection |-> a, indices |-> <<x, Number(I64, 1)>>])
          [] id[2] = "from" -> Of(Str, "Slice", [collection |-> s, from |-> x, to |-> Nil])
          [] id[2] = "slice" -> Of(Str, "Slice", [collection |-> s, from |-> Nil, to |-> x])
          [] id[2] = "field" -> Of(F64, "FieldAccess", [object |-> p, name |-> "x"])
          [] id[2] = "struct" -> Of(Point, "StructConstruct", [names |-> <<"x", "y">>, fields |-> <<Number(F64, 5), x>>])
          [] id[2] = "cast" -> Of(Point, "Cast", [operand |-> x])
          [] id[2] = "bits" -> Of(F64, "Bitcast", [operand |-> x])
          [] id[2] = "if" -> Of(I64, "If", [cond |-> x, then |-> x, else |-> Of(I64, "Block", [stmts |-> <<x>>])])
          [] id[2] = "choose" -> Of(Void, "If", [cond |-> x, then |-> x, else |-> Nil])
          [] id[2] = "text" -> lit
          [] id[2] = "ref" -> Of(TypeOf("ref", "", <<WithAccess(Shape, "readonly")>>, <<>>, 0), "Ident", [name |-> "r"])
          [] id[2] = "key" -> Of(TypeOf("ptr", "", <<Key>>, <<>>, 0), "Call", [callee |-> Of(TypeOf("fun", "", <<Key, Key, Point>>, <<>>, 0), "Ident", [name |-> "k"]), args |-> <<Of(Key, "Ident", [name |-> "key"]), p>>])
          [] id[2] = "none" -> Nil
          [] id[2] \in DOMAIN lifetime -> Of(Str, lifetime[id[2]], [value |-> lit])

StmtNames == {"eval", "assign", "store", "while", "repeat", "for", "times", "return", "var", "sized", "start", "vars", "print", "format",
              "precise", "input", "assert", "set", "destroy", "release", "replace", "leave", "again", "hand", "globals", "nested"}

Stmt(name, e) ==
    LET x == Of(I64, "Ident", [name |-> "x"])
        drop == Plain("Destroy", [value |-> x, aux |-> Nil])
        body == Plain("Block", [stmts |-> <<Plain("Assign", [name |-> "x", value |-> e]), Plain("Break", [name |-> "break"])>>])
        Var(type, init, bounds) == Of(type, "Var", [name |-> "v", init |-> init, bounds |-> bounds])
        Fmt(w, p) == Plain("Output", [args |-> <<e, Node("Fmt", NoType, [expr |-> x, value |-> w, aux |-> p]), e>>])
    IN  CASE name = "eval" -> e
          [] name = "assign" -> Plain("Assign", [name |-> "x", value |-> e])
          [] name = "store" -> Plain("ArrayAssign", [name |-> "a", indices |-> <<x, e>>, value |-> e])
          [] name = "while" -> Plain("While", [cond |-> e, body |-> body])
          [] name = "repeat" -> Plain("Repeat", [body |-> body, cond |-> e])
          [] name = "for" -> Plain("For", [name |-> "i", from |-> e, to |-> x, step |-> Nil, body |-> body])
          [] name = "times" -> Plain("Times", [count |-> e, body |-> body])
          [] name = "return" -> Plain("Return", [value |-> e])
          [] name = "var" -> Var(IF IsNil(e) THEN Str ELSE WithAccess(e.type, "writeonly"), Nil, <<>>)
          [] name = "sized" -> Var(TypeOf("array", "", <<I64>>, <<>>, 2), Nil, <<x, e, e, Number(I64, 4)>>)
          [] name = "start" -> Var(I64, e, <<>>)
          [] name = "vars" -> Plain("VarsBlock", [vars |-> <<Var(TypeOf("ptr", "", <<Point>>, <<>>, 0), Nil, <<>>), Var(I64, Nil, <<>>)>>])
          [] name = "print" -> Plain("Output", [args |-> <<e>>])
          [] name = "format" -> Fmt(e, Nil)
          [] name = "precise" -> Fmt(e, x)
          [] name = "input" -> Plain("Input", [args |-> <<x, e>>])
          [] name = "assert" -> Plain("Assert", [expr |-> e])
          [] name = "set" -> Plain("FieldAssign", [object |-> Of(Point, "Ident", [name |-> "p"]), name |-> "x", value |-> e])
          [] name = "destroy" -> Plain("Destroy", [value |-> x, aux |-> e])
          [] name = "release" -> drop
          [] name = "replace" -> Plain("Replace", [target |-> x, value |-> e])
          [] name = "leave" -> Plain("CleanupExit", [kind |-> "break", value |-> Nil, cleanups |-> <<drop>>])
          [] name = "again" -> Plain("CleanupExit", [kind |-> "continue", value |-> Nil, cleanups |-> <<>>])
          [] name = "hand" -> Plain("CleanupExit", [kind |-> "return", value |-> e, cleanups |-> <<drop, drop>>])
          [] name = "globals" -> Plain("GlobalCleanup", [cleanups |-> <<drop>>])
          [] name = "nested" -> Plain("Block", [stmts |-> <<Plain("Block", [stmts |-> <<>>]), Plain("Continue", [name |-> "continue"])>>])

FunNames == {"main", "valued", "external", "operator", "printer", "literal", "after"} \cup FunFlags

Fun(name, body) ==
    LET par == Of(WithAccess(I64, "readonly"), "Var", [name |-> "x", init |-> Nil, bounds |-> <<>>])
        pt == Of(Point, "Var", [name |-> "p", init |-> Nil, bounds |-> <<>>])
        params == IF name \in {"valued", "operator", "printer"} THEN <<par, pt>> ELSE <<>>
        ret == IF name \in {"valued", "operator"} THEN Point ELSE Void
        attrs == [NoAttrs EXCEPT !.extern = IF name = "external" THEN "native" ELSE "",
                                 !.operator = CASE name = "operator" -> "+" [] name = "printer" -> "print" [] OTHER -> "",
                                 !.suffix = IF name = "literal" THEN "i" ELSE "",
                                 !.after = IF name = "after" THEN Of(Scalar("bool"), "Ident", [name |-> "x"]) ELSE Nil,
                                 !.used = name = "used", !.cacheable = name = "cacheable"]
    IN  Node("FunDecl", TypeOf("fun", "", <<ret>> \o [i \in DOMAIN params |-> params[i].type], <<>>, 0),
             [name |-> IF name = "main" THEN Main ELSE name, generics |-> <<>>, params |-> params, ret |-> ret,
              body |-> Of(ret, "Block", [stmts |-> <<body>>])] @@ attrs)

Use(resolved) == Plain("Use", [name |-> "module", resolved |-> resolved])
DeclarationOf(type) == Node("TypeDecl", type, [name |-> type.name, generics |-> <<>>])
Imported(s) == [s EXCEPT !.origin = "module"]

\* The statements that composition takes from a module, after its use.
Taken(import) ==
    CASE import = "none" -> <<>>
      [] import = "use" -> <<Use(FALSE)>>
      [] import = "resolved" -> <<Use(TRUE), Imported(DeclarationOf(Point)), Imported(Fun("valued", Stmt("release", Nil)))>>

\* The type of a block is its last statement's.
Block(stmts) == Of(stmts[Len(stmts)].type, "Block", [stmts |-> stmts])
Program(id) == Block(Taken(id.import) \o (IF id.types THEN <<DeclarationOf(Shape)>> ELSE <<>>)
                     \o <<Fun(id.fun, Stmt(id.stmt, Expr(id.expr)))>>
                     \o (IF id.last = "fun" THEN <<>> ELSE <<Of(Void, "GlobalCleanup", [cleanups |-> <<>>])>>))
-----------------------------------------------------------------------------
Init ==
    /\ \E mode \in Modes, hide \in Hides, import \in Imports, stmt \in StmtNames, last \in {"fun", "void"}, types \in BOOLEAN,
          kind \in DOMAIN ExprNames :
         \E expr \in ExprNames[kind], fun \in FunNames :
            /\ (fun = "main" \/ (stmt = "assign" /\ kind \in {"ints", "forms"})) /\ (types => kind = "forms")
            /\ (kind = "none" => stmt \in {"return", "destroy", "hand"})
            /\ (last = "void" => fun = "main" /\ import = "none")
            /\ (mode = "Required" => ~(kind = "floats" /\ expr[2] % 10 = 0) /\ import # "use" /\ fun = "main" /\ ~types)
            /\ work = [mode |-> mode, hide |-> hide, import |-> import, stmt |-> stmt, expr |-> expr, fun |-> fun,
                       last |-> last, types |-> types, now |-> "tree"]
    /\ text = <<>>
    /\ back = Nil

WriteText ==
    /\ work.now = "tree"
    /\ work' = [work EXCEPT !.now = "text"]
    /\ text' = PrintAst(Program(work), work.mode, work.hide)
    /\ UNCHANGED back

ReadText ==
    /\ work.now = "text"
    /\ work' = [work EXCEPT !.now = "read"]
    /\ back' = Parse(text)
    /\ UNCHANGED text

Next == WriteText \/ ReadText
Spec == Init /\ [][Next]_vars
-----------------------------------------------------------------------------
\* What core text keeps of a program by its documentation (docs/arch/core-lang.md):
\* types are written where the mode asks for it, an initialised variable has its
\* type from its value, types are named.

RECURSIVE Bare(_)
Bare(type) ==
    [type EXCEPT !.of = IF type.t = "named" THEN <<>> ELSE [i \in DOMAIN type.of |-> Bare(type.of[i])], !.reference = FALSE]

KeepsType(e, mode) ==
    \/ e.node \in {"Var", "TypeDecl", "Cast", "Bitcast", "FunDecl", "Number"}
    \/ mode = "All" /\ ~(e.node = "Block" /\ e.type.t = "void")
    \/ e.type.t = "named" \/ e.node = "StructConstruct"

RECURSIVE Kept(_, _)
Kept(e, mode) ==
    LET type == IF e.node = "Var" /\ ~IsNil(e.has.init) THEN NoType
                ELSE IF KeepsType(e, mode) THEN Bare(e.type) ELSE NoType
        Field(f) == CASE f \in Range(ChildFields) -> Kept(e.has[f], mode)
                      [] f \in Range(ListFields) -> [i \in DOMAIN e.has[f] |-> Kept(e.has[f][i], mode)]
                      [] f = "ret" -> Bare(e.has.ret)
                      [] OTHER -> e.has[f]
    IN  IF IsNil(e) THEN Nil ELSE Node(e.node, type, [f \in DOMAIN e.has |-> Field(f)])

\* The names of types that a tree mentions.
RECURSIVE NamesIn(_)
NamesIn(type) == (IF type.t = "named" THEN {type.name} ELSE {}) \cup UNION {NamesIn(type.of[i]) : i \in DOMAIN type.of}

RECURSIVE CollectNames(_)
CollectNames(e) ==
    NamesIn(e.type) \cup (IF e.node = "FunDecl" THEN NamesIn(e.has.ret) ELSE {})
        \cup UNION {CollectNames(Children(e)[i]) : i \in DOMAIN Children(e)}

Written(e) == ~IsTypeDecl(e) /\ ~IsUse(e)
Hidden(e) == work.hide /\ e.origin # ""
Shown(e) == Written(e) /\ ~Hidden(e)
IsRead == work.now = "read"

\* A program that is printed and parsed is the same program again: no statement
\* is lost, moved or grouped otherwise, and every type that the text must carry
\* is carried (core/lexer.cpp:106: "so the printed final AST can pass through
\* the CoreExec round trip").  Without its modules it is what the user wrote.
RoundTrip ==
    IsRead =>
        LET before == SelectSeq(Program(work).has.stmts, Shown)
            after == SelectSeq(back.has.stmts, Written)
        IN  /\ back.node = "Block"
            /\ [i \in DOMAIN before |-> Kept(before[i], work.mode)] = [i \in DOMAIN after |-> Kept(after[i], work.mode)]

\* A type that is only named in the text is declared there once, as it was
\* before, unless its module is asked for again: no declaration is missing and
\* none is repeated, nor one of a runtime module, which the resolver refuses.
TypesStayDeclared ==
    IsRead =>
        LET stmts == back.has.stmts
            decls == SelectSeq(stmts, IsTypeDecl)
            Definitions(all) == UNION {{<<t.name, Bare(t.of[1])>> : t \in CollectTypesFromExpr(all[i])} : i \in DOMAIN all}
            known == Definitions(Program(work).has.stmts)
            hidden == IF work.hide /\ work.import = "resolved" THEN {"point"} ELSE {}
            runtime == {Key.name}
            named == UNION {CollectNames(stmts[i]) : i \in DOMAIN stmts}
        IN  /\ Cardinality({decls[i].has.name : i \in DOMAIN decls} \ runtime) = Len(decls)
            /\ Definitions(stmts) \subseteq known
            /\ \A n \in named \ (hidden \cup runtime) : \E d \in Definitions(stmts) : d[1] = n
=============================================================================
