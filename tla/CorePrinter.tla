----------------------------- MODULE CorePrinter -----------------------------
(***************************************************************************)
(* The core printer (src/qumir/parser/core/printer.cpp): how a tree is     *)
(* written as core text, an S-expression per node.  The text is a sequence *)
(* of tokens, those that the core lexer (core/lexer.cpp) makes of what the *)
(* printer writes; white space and the layout of pretty printing, which    *)
(* only choose between white space and white space, are left out.          *)
(*                                                                         *)
(* A node is [node, type, has, origin]: its kind, its type, its fields and *)
(* the module that it was taken from.  A                                   *)
(* missing child is the node Nil, the null pointer of the source.          *)
(***************************************************************************)
EXTENDS Integers, Sequences, FiniteSets, SequencesExt

CONSTANTS
    Main,   \* the function name <main>
    Modes   \* the TypeModes printed with: "Required", "All"

\* Types: [t, name, of, names, n, access, reference].  A named type with a definition
\* has it as its only `of`, and is a reference when a runtime module provides it; its
\* arguments are not modelled.
Scalars == {"i8", "i64", "u8", "f64", "bool", "string", "char", "void"}
TypeOf(t, name, of, names, n) == 
    [t |-> t, name |-> name, of |-> of, names |-> names, n |-> n, access |-> "mutable", reference |-> FALSE]
Scalar(t) == TypeOf(t, "", <<>>, <<>>, 0)
NoType == Scalar("nil")
WithAccess(type, access) == [type EXCEPT !.access = access]
NamedType(name, of) == TypeOf("named", name, of, <<>>, 0)
IsInteger(type) == type.t \in {"i8", "i64", "u8"}

Node(kind, type, has) == [node |-> kind, type |-> type, has |-> has, origin |-> ""]
Nil == Node("Nil", NoType, [nil |-> TRUE])
IsNil(e) == e.node = "Nil"
Number(type, n) == Node("Number", type, [number |-> n])    \* a float is counted in tenths

Punct(c) == <<"op", c>>
Word(name) == <<"id", name>>
Integer(n) == <<"int", n>>

Bracketed(open, inside, close) == <<Punct(open)>> \o inside \o <<Punct(close)>>
Listed(inside) == Bracketed("(", inside, ")")
Joined(Of(_), items) == FlattenSeq([i \in DOMAIN items |-> Of(items[i])])

\* Heads that the lexer splits into several tokens.
FormHead(name) ==
    CASE name = "own-literal" -> <<Word("own"), Word("-"), Word("literal")>>
      [] name = "cleanup-exit" -> <<Word("cleanup"), Word("-"), Word("exit")>>
      [] name = "cleanup-global" -> <<Word("cleanup"), Word("-"), Word("global")>>
      [] name \in {":", "<", ">"} -> <<Punct(name)>>
      [] OTHER -> <<Word(name)>>

\* PrintIdentifier; names with spaces and dots stand between bars and are read as
\* one identifier, too.
PrintIdentifier(name) == IF name = Main THEN Bracketed("<", <<Word("main")>>, ">") ELSE <<Word(name)>>

-----------------------------------------------------------------------------
\* Types.  `short` is ShortNamedTypes.

PrintAccess(type) == IF type.access = "mutable" THEN <<>> ELSE Listed(<<Word(type.access)>>)

RECURSIVE PrintType(_, _)
PrintType(type, short) ==
    LET Part(i) == PrintType(type.of[i], short)
        Angled(inside) == Bracketed("<", inside, ">")
        Params == FlattenSeq([i \in 2..Len(type.of) |-> Part(i)])
        Fields == FlattenSeq([i \in DOMAIN type.of |-> Listed(PrintIdentifier(type.names[i]) \o Part(i))])
    IN  CASE type.t \in Scalars \cup {"nil"} ->
                IF type.access = "mutable" THEN <<Word(type.t)>> ELSE Angled(<<Word(type.t)>> \o PrintAccess(type))
          [] type.t = "fun" -> Angled(<<Word("fun")>> \o Part(1) \o
                                      Listed(FlattenSeq([i \in 1..(Len(type.of) - 1) |-> Part(i + 1)])))
          [] type.t = "array" -> Angled(<<Word("array")>> \o Part(1) \o <<Integer(type.n)>>)
          [] type.t \in {"future", "ptr", "ref"} -> Angled(<<Word(type.t)>> \o Part(1) \o PrintAccess(type))
          [] type.t = "struct" -> Angled(<<Word("struct")>> \o Fields)
          [] type.t = "named" ->
                IF type.name \in short /\ type.of = <<>> /\ type.access = "mutable"
                  THEN PrintIdentifier(type.name)
                  ELSE Angled(<<Word("named")>> \o PrintIdentifier(type.name)
                              \o (IF type.name \notin short /\ type.of # <<>> THEN Part(1) ELSE <<>>)
                              \o PrintAccess(type))

PrintGenericParams(params) ==
    IF params = <<>> THEN <<>>
    ELSE Bracketed("[", FlattenSeq([i \in DOMAIN params |->
            IF params[i].kind = "type" THEN PrintIdentifier(params[i].name)
            ELSE Listed(<<Word("const")>> \o PrintIdentifier(params[i].name) \o PrintType(params[i].of, {}))]), "]")

-----------------------------------------------------------------------------
\* Which nodes are written with their type.

IsNonDefaultIntegerLiteral(e) == e.node = "Number" /\ IsInteger(e.type) /\ e.type.t # "i64"

ShouldWrapType(e, mode) ==
    /\ e.type # NoType
    /\ e.node \notin {"Var", "TypeDecl", "Cast", "Bitcast"}
    /\ IF mode = "All"
         THEN e.node # "FunDecl" /\ ~(e.node = "Block" /\ e.type.t = "void")
         ELSE e.type.t = "named" \/ e.node = "StructConstruct" \/ IsNonDefaultIntegerLiteral(e)

\* PrintNumber: a whole float is written without a point, a character is cut to
\* a byte.
PrintNumber(type, n) ==
    CASE type.t = "bool" -> <<"bool", n # 0>>
      [] type.t = "char" -> <<"char", n % 256>>
      [] type.t = "f64" -> IF n % 10 = 0 THEN Integer(n \div 10) ELSE <<"float", n>>
      [] OTHER -> Integer(n)

\* The forms that are a head and the fields in their order.  An "opt" child is
\* left out when it is null, "rest" are children without brackets, "vector" in
\* square brackets, "type" is the node's own type.
Forms == [
    Assign |-> <<"=", <<<<"name", "name">>, <<"expr", "value">>>>>>,
    ArrayAssign |-> <<"=", <<<<"name", "name">>, <<"vector", "indices">>, <<"expr", "value">>>>>>,
    If |-> <<"if", <<<<"expr", "cond">>, <<"expr", "then">>, <<"opt", "else">>>>>>,
    While |-> <<"while", <<<<"expr", "cond">>, <<"expr", "body">>>>>>,
    Repeat |-> <<"repeat", <<<<"expr", "body">>, <<"expr", "cond">>>>>>,
    For |-> <<"for", <<<<"name", "name">>, <<"expr", "from">>, <<"expr", "to">>, <<"expr", "step">>, <<"expr", "body">>>>>>,
    Times |-> <<"times", <<<<"expr", "count">>, <<"expr", "body">>>>>>,
    Return |-> <<"return", <<<<"opt", "value">>>>>>,
    VarsBlock |-> <<"vars", <<<<"rest", "vars">>>>>>,
    Call |-> <<"call", <<<<"expr", "callee">>, <<"rest", "args">>>>>>,
    Await |-> <<"await", <<<<"expr", "operand">>>>>>,
    Input |-> <<"input", <<<<"rest", "args">>>>>>,
    Cast |-> <<"cast", <<<<"expr", "operand">>, <<"type", "">>>>>>,
    Bitcast |-> <<"bitcast", <<<<"expr", "operand">>, <<"type", "">>>>>>,
    Index |-> <<"index", <<<<"expr", "collection">>, <<"expr", "index">>>>>>,
    MultiIndex |-> <<"index", <<<<"expr", "collection">>, <<"vector", "indices">>>>>>,
    Assert |-> <<"assert", <<<<"expr", "expr">>>>>>,
    FieldAccess |-> <<"field", <<<<"expr", "object">>, <<"name", "name">>>>>>,
    FieldAssign |-> <<"field_assign", <<<<"expr", "object">>, <<"name", "name">>, <<"expr", "value">>>>>>,
    Use |-> <<"use", <<<<"string", "name">>>>>>,
    Retain |-> <<"retain", <<<<"expr", "value">>>>>>,
    OwnLiteral |-> <<"own-literal", <<<<"expr", "value">>>>>>,
    Move |-> <<"move", <<<<"expr", "value">>>>>>,
    Borrow |-> <<"borrow", <<<<"expr", "value">>>>>>,
    Destroy |-> <<"destroy", <<<<"expr", "value">>, <<"opt", "aux">>>>>>,
    Replace |-> <<"replace", <<<<"expr", "target">>, <<"expr", "value">>>>>>,
    GlobalCleanup |-> <<"cleanup-global", <<<<"rest", "cleanups">>>>>>]

\* Attributes of a function.  `used` and `cacheable` have none.
PrintAttrs(f, after) ==
    LET attrs == (IF IsNil(f.after) THEN <<>> ELSE Listed(<<Word("expect_after")>> \o after))
                 \o (CASE f.operator = "" -> <<>>
                       [] f.operator = "print" -> <<Word("print")>>
                       [] OTHER -> Listed(<<Word("operator"), <<"str", f.operator>>>>))
                 \o (IF f.suffix = "" THEN <<>> ELSE Listed(<<Word("literal"), <<"str", f.suffix>>>>))
                 \o (IF f.extern = "" THEN <<>> ELSE Listed(<<Word("extern")>> \o PrintIdentifier(f.extern)))
    IN  IF attrs = <<>> THEN <<>> ELSE Listed(<<Word("attrs")>> \o attrs)

-----------------------------------------------------------------------------
\* CollectTypesFromExpr: the named types with a definition that a tree mentions.

ChildFields == <<"callee", "object", "collection", "count", "target", "cond", "then", "else", "from", "to", "step",
                 "left", "right", "operand", "expr", "value", "index", "aux", "init", "after", "body">>
ListFields == <<"args", "vars", "indices", "cleanups", "stmts", "params", "bounds", "fields", "items">>

Children(e) ==
    LET Has(f) == f \in DOMAIN e.has
        one == SelectSeq(ChildFields, Has)
        many == SelectSeq(ListFields, Has)
    IN  [i \in DOMAIN one |-> e.has[one[i]]] \o FlattenSeq([i \in DOMAIN many |-> e.has[many[i]]])

RECURSIVE CollectFromType(_)
CollectFromType(type) ==
    (IF type.t = "named" /\ type.of # <<>> THEN {[type EXCEPT !.access = "mutable"]} ELSE {})
        \cup UNION {CollectFromType(type.of[i]) : i \in DOMAIN type.of}

RECURSIVE CollectTypesFromExpr(_)
CollectTypesFromExpr(e) ==
    CollectFromType(e.type)
        \cup (IF e.node = "FunDecl" THEN CollectFromType(e.has.ret) ELSE {})
        \cup UNION {CollectTypesFromExpr(Children(e)[i]) : i \in DOMAIN Children(e)}

\* Mutant of DeclaredTypes: types that have a declaration get another one.
DeclaredTypesTwice(collected, explicit, hidden) == {t \in collected : t.name \notin hidden /\ ~t.reference}

\* The types that get a declaration of their own ("Pass 2b"), in any order: none of a
\* runtime module.
DeclaredTypes(collected, explicit, hidden) == {t \in collected : t.name \notin hidden \cup explicit /\ ~t.reference}

-----------------------------------------------------------------------------
\* PrintExpr.  c.top: Level is 0; c.hide: HideResolvedOrigins.

IsUse(e) == e.node = "Use"
IsResolvedUse(e) == IsUse(e) /\ e.has.resolved
IsTypeDecl(e) == e.node = "TypeDecl"

RECURSIVE PrintExpr(_, _)

PrintIn(c, e) == PrintExpr(e, [c EXCEPT !.top = FALSE])
PrintAll(c, items) == LET One(e) == PrintIn(c, e) IN Joined(One, items)

PrintPart(e, c, part) ==
    LET kind == part[1] field == part[2]
    IN  CASE kind = "type" -> PrintType(e.type, c.short)
          [] kind = "name" -> PrintIdentifier(e.has[field])
          [] kind = "string" -> <<<<"str", e.has[field]>>>>
          [] kind = "opt" -> IF IsNil(e.has[field]) THEN <<>> ELSE PrintIn(c, e.has[field])
          [] kind = "expr" -> PrintIn(c, e.has[field])
          [] kind = "rest" -> PrintAll(c, e.has[field])
          [] kind = "vector" -> Bracketed("[", PrintAll(c, e.has[field]), "]")

PrintVar(e, c) ==
    Listed(<<Word("var")>> \o PrintIdentifier(e.has.name) \o
           (IF ~IsNil(e.has.init) THEN <<Word("=")>> \o PrintIn(c, e.has.init)
            ELSE PrintType(e.type, c.short) \o
                 FlattenSeq([i \in 1..(Len(e.has.bounds) \div 2) |->
                     Bracketed("[", PrintAll(c, SubSeq(e.has.bounds, 2 * i - 1, 2 * i)), "]")])))

TypeParams(params) == {params[i].name : i \in {i \in DOMAIN params : params[i].kind = "type"}}

PrintFun(e, c) ==
    LET f == e.has
        d == [c EXCEPT !.short = @ \cup TypeParams(f.generics)]
        ret == IF f.ret.t = "void" THEN <<>> ELSE <<Word("->")>> \o PrintType(f.ret, d.short)
    IN  Listed(<<Word("fun")>> \o PrintIdentifier(f.name) \o PrintGenericParams(f.generics)
               \o Listed(PrintAll(d, f.params)) \o ret
               \o PrintAttrs(f, IF IsNil(f.after) THEN <<>> ELSE PrintIn(d, f.after)) \o PrintIn(d, f.body))

PrintFormat(c, f) ==
    Listed(<<Word("fmt")>> \o PrintIn(c, f.expr) \o PrintIn(c, f.value) \o (IF IsNil(f.aux) THEN <<>> ELSE PrintIn(c, f.aux)))

\* Mutant of PrintOutputArg: only a precision makes a list.
PrintOutputArgPrecise(c, e) ==
    IF e.node # "Fmt" THEN PrintIn(c, e) ELSE IF IsNil(e.has.aux) THEN PrintIn(c, e.has.expr) ELSE PrintFormat(c, e.has)

\* A width or a precision puts the argument into a list of its own.
PrintOutputArg(c, e) == IF e.node # "Fmt" THEN PrintIn(c, e) ELSE PrintFormat(c, e.has)

\* What is printed of the outermost block: HideResolvedOrigins leaves out what
\* came from the modules that composition resolved.
ResolvedModules(stmts) == {stmts[i].has.name : i \in {i \in DOMAIN stmts : IsResolvedUse(stmts[i])}}
VisibleStmts(stmts, hide, resolved) == SelectSeq(stmts, LAMBDA s : ~hide \/ s.origin \notin resolved)
DeclaredNames(stmts) == {stmts[i].has.name : i \in {i \in DOMAIN stmts : IsTypeDecl(stmts[i])}}
CollectedTypes(stmts) == UNION {CollectTypesFromExpr(stmts[i]) : i \in DOMAIN stmts}

\* Uses, declared types, collected types, the rest.
PrintTopStmts(seen, collected, hidden, c) ==
    LET PrintedUse(s) == IsUse(s) /\ (c.hide \/ ~s.has.resolved)
        Other(s) == ~IsUse(s) /\ ~IsTypeDecl(s)
        Declared(t) == Listed(<<Word("type")>> \o PrintIdentifier(t.name) \o PrintType(t.of[1], c.short))
    IN  Listed(<<Word("block")>> \o PrintAll(c, SelectSeq(seen, PrintedUse)) \o PrintAll(c, SelectSeq(seen, IsTypeDecl))
               \o Joined(Declared, SetToSeq(DeclaredTypes(collected, DeclaredNames(seen), hidden)))
               \o PrintAll(c, SelectSeq(seen, Other)))

PrintVisible(stmts, seen, collected, c) ==
    PrintTopStmts(seen, collected, DeclaredNames(stmts) \ DeclaredNames(seen),
                  [c EXCEPT !.short = @ \cup {t.name : t \in collected}, !.top = FALSE])

PrintSeen(stmts, seen, c) == PrintVisible(stmts, seen, CollectedTypes(seen), c)
PrintTopBlock(e, c) == PrintSeen(e.has.stmts, VisibleStmts(e.has.stmts, c.hide, ResolvedModules(e.has.stmts)), c)

PrintNode(e, c) ==
    CASE e.node \in DOMAIN Forms ->
            LET One(part) == PrintPart(e, c, part)
            IN  Listed(FormHead(Forms[e.node][1]) \o Joined(One, Forms[e.node][2]))
      [] e.node = "Ident" -> PrintIdentifier(e.has.name)
      [] e.node = "Number" -> <<PrintNumber(e.type, e.has.number)>>
      [] e.node = "String" -> <<<<"str", e.has.text>>>>
      [] e.node = "Unary" -> Listed(FormHead(e.has.op) \o PrintIn(c, e.has.operand))
      [] e.node = "Binary" -> Listed(FormHead(e.has.op) \o PrintIn(c, e.has.left) \o PrintIn(c, e.has.right))
      [] e.node \in {"Break", "Continue"} -> <<Word(e.has.name)>>
      [] e.node = "Block" -> IF c.top \/ \E i \in DOMAIN e.has.stmts : IsResolvedUse(e.has.stmts[i])
                               THEN PrintTopBlock(e, c)
                               ELSE Listed(<<Word("block")>> \o PrintAll(c, e.has.stmts))
      [] e.node = "TypeDecl" -> Listed(<<Word("type")>> \o PrintIdentifier(e.has.name) \o PrintGenericParams(e.has.generics)
                                       \o PrintType(e.type.of[1], c.short \cup TypeParams(e.has.generics)))
      [] e.node = "Var" -> PrintVar(e, c)
      [] e.node = "FunDecl" -> PrintFun(e, c)
      [] e.node = "Output" -> LET One(a) == PrintOutputArg(c, a)
                              IN  Listed(<<Word("output")>> \o Joined(One, e.has.args))
      [] e.node = "Slice" -> Listed(<<Word("slice")>> \o PrintIn(c, e.has.collection) \o
                                    Bracketed("[", PrintIn(c, e.has.from) \o
                                                   (IF IsNil(e.has.to) THEN <<>> ELSE PrintIn(c, e.has.to)), "]"))
      [] e.node = "StructConstruct" ->
            Listed(<<Word("struct")>> \o Listed(FlattenSeq([i \in DOMAIN e.has.fields |->
                       Listed(PrintIdentifier(e.has.names[i]) \o PrintIn(c, e.has.fields[i]))])))
      [] e.node = "CleanupExit" ->
            Listed(FormHead("cleanup-exit") \o
                   Listed(<<Word(e.has.kind)>> \o (IF IsNil(e.has.value) THEN <<>> ELSE PrintIn(c, e.has.value)))
                   \o PrintAll(c, e.has.cleanups))

PrintExpr(e, c) ==
    CASE IsNil(e) -> <<Word("nil")>>
      [] ~IsNil(e) /\ ShouldWrapType(e, c.mode) ->
            Listed(FormHead(":") \o PrintNode(e, [c EXCEPT !.top = FALSE]) \o PrintType(e.type, c.short))
      [] OTHER -> PrintNode(e, c)

PrintAst(e, mode, hide) == PrintExpr(e, [mode |-> mode, hide |-> hide, short |-> {}, top |-> TRUE])
=============================================================================
