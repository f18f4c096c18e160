----------------------------- MODULE CoreParser ------------------------------
(***************************************************************************)
(* The parser of core text (src/qumir/parser/core/parser.cpp) over the     *)
(* tokens of CorePrinter.  Parsing from position `at` gives                *)
(* [at, got]: the position after it, 0 for an error, and what was found.   *)
(***************************************************************************)
EXTENDS CorePrinter

Got(at, got) == [at |-> at, got |-> got]
Fails(nothing) == Got(0, nothing)

\* What follows goes on with what was found; the first error ends it.
Then(found, Next(_)) == IF found.at = 0 THEN found ELSE Next(found)

At(ts, i) == IF i \in DOMAIN ts THEN ts[i] ELSE <<"eof">>
IsAt(ts, i, token) == i # 0 /\ At(ts, i) = token
IsWord(ts, i) == i # 0 /\ At(ts, i)[1] = "id"
Expect(ts, i, c) == IF IsAt(ts, i, Punct(c)) THEN i + 1 ELSE 0

ParseName(ts, i) ==
    IF IsWord(ts, i) THEN Got(i + 1, ts[i][2])
    ELSE IF IsAt(ts, i, Punct("<")) /\ IsAt(ts, i + 1, Word("main")) THEN Got(Expect(ts, i + 2, ">"), Main)
    ELSE Fails("")

\* ParseExprsUntil and its like: what Item(_) finds, until the closing token.
RECURSIVE Until(_, _, _, _, _)
Until(ts, i, close, Item(_), found) ==
    IF IsAt(ts, i, Punct(close)) THEN Got(i + 1, found)
    ELSE IF i = 0 \/ i > Len(ts) THEN Fails(found)
    ELSE Then(Item(i), LAMBDA item : Until(ts, item.at, close, Item, Append(found, item.got)))

-----------------------------------------------------------------------------
ParseTypeAttrs(ts, i, type) ==
    IF ~IsAt(ts, i, Punct("(")) THEN Got(i, type)
    ELSE IF ~IsWord(ts, i + 1) \/ ts[i + 1][2] \notin {"mutable", "readonly", "writeonly"} THEN Fails(type)
    ELSE Got(Expect(ts, i + 2, ")"), WithAccess(type, ts[i + 1][2]))

Closed(ts, attributed) == Got(Expect(ts, attributed.at, ">"), attributed.got)

\* Past the next ">", whatever stands before it: how the type of a function ends.
SkipToAngle(ts, i) ==
    LET angles == {j \in i..Len(ts) : IsAt(ts, j, Punct(">"))}
    IN  IF i = 0 \/ angles = {} THEN 0 ELSE Min(angles) + 1

RECURSIVE ParseType(_, _)

ParseFieldType(ts, i) ==
    Then(ParseName(ts, Expect(ts, i, "(")), LAMBDA name :
    Then(ParseType(ts, name.at), LAMBDA type :
         Got(Expect(ts, type.at, ")"), <<name.got, type.got>>)))

\* i is the position after the head.
ParseCompositeType(ts, head, i) ==
    LET Type(j) == ParseType(ts, j)
        Field(j) == ParseFieldType(ts, j)
    IN  CASE head \in Scalars -> Closed(ts, ParseTypeAttrs(ts, i, Scalar(head)))
          [] head = "struct" ->
                Then(Until(ts, i, ">", Field, <<>>), LAMBDA fields :
                     Got(fields.at, TypeOf("struct", "", [k \in DOMAIN fields.got |-> fields.got[k][2]],
                                                         [k \in DOMAIN fields.got |-> fields.got[k][1]], 0)))
          [] head = "named" ->
                Then(ParseName(ts, i), LAMBDA name :
                    IF IsAt(ts, name.at, Punct(">")) \/ IsAt(ts, name.at, Punct("("))
                      THEN Closed(ts, ParseTypeAttrs(ts, name.at, NamedType(name.got, <<>>)))
                      ELSE Then(ParseType(ts, name.at), LAMBDA of :
                                Closed(ts, ParseTypeAttrs(ts, of.at, NamedType(name.got, <<of.got>>)))))
          [] head \in {"fun", "array", "future", "ptr", "ref"} ->
                Then(ParseType(ts, i), LAMBDA of :
                    CASE head = "fun" ->
                            Then(Until(ts, Expect(ts, of.at, "("), ")", Type, <<>>), LAMBDA params :
                                 Got(SkipToAngle(ts, params.at), TypeOf("fun", "", <<of.got>> \o params.got, <<>>, 0)))
                      [] head = "array" ->
                            IF At(ts, of.at)[1] # "int" THEN Fails(NoType)
                            ELSE Got(Expect(ts, of.at + 1, ">"), TypeOf("array", "", <<of.got>>, <<>>, ts[of.at][2]))
                      [] OTHER -> Closed(ts, ParseTypeAttrs(ts, of.at, TypeOf(head, "", <<of.got>>, <<>>, 0))))
          [] OTHER -> Fails(NoType)

ParseType(ts, i) ==
    IF IsAt(ts, i, Punct("<")) THEN Then(ParseName(ts, i + 1), LAMBDA head : ParseCompositeType(ts, head.got, head.at))
    ELSE IF ~IsWord(ts, i) THEN Fails(NoType)
    ELSE Got(i + 1, IF ts[i][2] \in Scalars \cup {"nil"} THEN Scalar(ts[i][2]) ELSE NamedType(ts[i][2], <<>>))

ParseValueParam(ts, i) ==
    Then(ParseName(ts, i), LAMBDA head :
    Then(IF head.got = "const" THEN ParseName(ts, head.at) ELSE head, LAMBDA name :
    Then(ParseType(ts, name.at), LAMBDA type :
         Got(Expect(ts, type.at, ")"), [kind |-> "value", name |-> name.got, of |-> type.got]))))

ParseGenericParam(ts, i) ==
    IF IsAt(ts, i, Punct("(")) THEN ParseValueParam(ts, i + 1)
    ELSE Then(ParseName(ts, i), LAMBDA name : Got(name.at, [kind |-> "type", name |-> name.got, of |-> NoType]))

ParseGenericParams(ts, i) ==
    LET Param(j) == ParseGenericParam(ts, j)
    IN  IF ~IsAt(ts, i, Punct("[")) THEN Got(i, <<>>)
        ELSE Then(Until(ts, i + 1, "]", Param, <<>>), LAMBDA params :
                IF Cardinality({params.got[k].name : k \in DOMAIN params.got}) < Len(params.got) THEN Fails(<<>>)
                ELSE params)

-----------------------------------------------------------------------------
\* ApplyTypeAnnotation
ApplyTypeAnnotation(e, type) ==
    LET n == e.has.number
        value == CASE type.t = "f64" /\ e.type.t # "f64" -> n * 10
                   [] IsInteger(type) /\ e.type.t = "f64" -> n \div 10
                   [] type.t = "bool" -> IF n # 0 THEN 1 ELSE 0
                   [] OTHER -> n
    IN  IF e.node = "Number" THEN Number(type, value) ELSE [e EXCEPT !.type = type]

\* The handlers that read a fixed sequence.  "opt" stands before the closing
\* parenthesis, "rest" takes it.
Handlers == [
    if |-> <<"If", <<<<"expr", "cond">>, <<"expr", "then">>, <<"opt", "else">>>>>>,
    while |-> <<"While", <<<<"expr", "cond">>, <<"expr", "body">>>>>>,
    repeat |-> <<"Repeat", <<<<"expr", "body">>, <<"expr", "cond">>>>>>,
    for |-> <<"For", <<<<"name", "name">>, <<"expr", "from">>, <<"expr", "to">>, <<"expr", "step">>, <<"expr", "body">>>>>>,
    times |-> <<"Times", <<<<"expr", "count">>, <<"expr", "body">>>>>>,
    return |-> <<"Return", <<<<"opt", "value">>>>>>,
    vars |-> <<"VarsBlock", <<<<"rest", "vars">>>>>>,
    call |-> <<"Call", <<<<"expr", "callee">>, <<"rest", "args">>>>>>,
    await |-> <<"Await", <<<<"expr", "operand">>>>>>,
    input |-> <<"Input", <<<<"rest", "args">>>>>>,
    cast |-> <<"Cast", <<<<"expr", "operand">>, <<"type", "">>>>>>,
    bitcast |-> <<"Bitcast", <<<<"expr", "operand">>, <<"type", "">>>>>>,
    assert |-> <<"Assert", <<<<"expr", "expr">>>>>>,
    field |-> <<"FieldAccess", <<<<"expr", "object">>, <<"name", "name">>>>>>,
    field_assign |-> <<"FieldAssign", <<<<"expr", "object">>, <<"name", "name">>, <<"expr", "value">>>>>>,
    retain |-> <<"Retain", <<<<"expr", "value">>>>>>,
    move |-> <<"Move", <<<<"expr", "value">>>>>>,
    borrow |-> <<"Borrow", <<<<"expr", "value">>>>>>,
    destroy |-> <<"Destroy", <<<<"expr", "value">>, <<"opt", "aux">>>>>>,
    replace |-> <<"Replace", <<<<"expr", "target">>, <<"expr", "value">>>>>>]

RECURSIVE ParseExpr(_, _, _)

\* ParseExprsUntil
ParseExprs(ts, i, close, depth) ==
    LET Item(j) == ParseExpr(ts, j, depth) IN Until(ts, i, close, Item, <<>>)

\* An expression that may be missing before the closing parenthesis.
ParseOptional(ts, i, depth) == IF IsAt(ts, i, Punct(")")) THEN Got(i, Nil) ELSE ParseExpr(ts, i, depth)

ParseRest(ts, i, depth) ==
    Then(ParseExprs(ts, i, ")", depth), LAMBDA items : Got(items.at - 1, items.got))

ParsePart(ts, depth, part, done) ==
    LET Add(found) == [done EXCEPT !.at = found.at, !.has = (part[2] :> found.got) @@ @]
    IN  CASE done.at = 0 -> done
          [] done.at # 0 /\ part[1] = "expr" -> Add(ParseExpr(ts, done.at, depth))
          [] done.at # 0 /\ part[1] = "opt" -> Add(ParseOptional(ts, done.at, depth))
          [] done.at # 0 /\ part[1] = "name" -> Add(ParseName(ts, done.at))
          [] done.at # 0 /\ part[1] = "rest" -> Add(ParseRest(ts, done.at, depth))
          [] OTHER -> Then(ParseType(ts, done.at), LAMBDA type : [done EXCEPT !.at = type.at, !.type = type.got])

ParseForm(ts, i, depth, form) ==
    LET Step(done, part) == ParsePart(ts, depth, part, done)
    IN  Then(FoldLeft(Step, [at |-> i, type |-> NoType, has |-> <<>>], form[2]), LAMBDA all :
             Got(Expect(ts, all.at, ")"), Node(form[1], all.type, all.has)))

Made(at, kind, has) == Got(at, Node(kind, NoType, has))
EndsForm(ts, found, kind, has) == Made(Expect(ts, found.at, ")"), kind, has)

ParseAnnotated(ts, i, depth) ==
    Then(ParseExpr(ts, i, depth), LAMBDA e :
    Then(ParseType(ts, e.at), LAMBDA type :
         Got(Expect(ts, type.at, ")"), ApplyTypeAnnotation(e.got, type.got))))

ParseAssign(ts, i, depth) ==
    Then(ParseName(ts, i), LAMBDA name :
        IF IsAt(ts, name.at, Punct("["))
          THEN Then(ParseExprs(ts, name.at + 1, "]", depth), LAMBDA indices :
               Then(ParseExpr(ts, indices.at, depth), LAMBDA value :
                    EndsForm(ts, value, "ArrayAssign", [name |-> name.got, indices |-> indices.got, value |-> value.got])))
          ELSE Then(ParseExpr(ts, name.at, depth), LAMBDA value :
                    EndsForm(ts, value, "Assign", [name |-> name.got, value |-> value.got])))

ParseIndex(ts, i, depth) ==
    Then(ParseExpr(ts, i, depth), LAMBDA collection :
        IF IsAt(ts, collection.at, Punct("["))
          THEN Then(ParseExprs(ts, collection.at + 1, "]", depth), LAMBDA indices :
                    EndsForm(ts, indices, "MultiIndex", [collection |-> collection.got, indices |-> indices.got]))
          ELSE Then(ParseExpr(ts, collection.at, depth), LAMBDA index :
                    EndsForm(ts, index, "Index", [collection |-> collection.got, index |-> index.got])))

ParseSlice(ts, i, depth) ==
    Then(ParseExpr(ts, i, depth), LAMBDA collection :
    Then(ParseExprs(ts, Expect(ts, collection.at, "["), "]", depth), LAMBDA limits :
        IF Len(limits.got) \notin 1..2 THEN Fails(Nil)
        ELSE EndsForm(ts, limits, "Slice", [collection |-> collection.got, from |-> limits.got[1],
                                            to |-> IF Len(limits.got) = 2 THEN limits.got[2] ELSE Nil])))

ParseFormat(ts, i, depth) ==
    Then(ParseExpr(ts, i, depth), LAMBDA e :
    Then(ParseExpr(ts, e.at, depth), LAMBDA width :
    Then(ParseOptional(ts, width.at, depth), LAMBDA aux :
         EndsForm(ts, aux, "Fmt", [expr |-> e.got, value |-> width.got, aux |-> aux.got]))))

ParseOutputArg(ts, i, depth) ==
    IF IsAt(ts, i, Punct("(")) /\ IsAt(ts, i + 1, Word("fmt")) THEN ParseFormat(ts, i + 2, depth) ELSE ParseExpr(ts, i, depth)

ParseBound(ts, i, depth) ==
    Then(ParseExpr(ts, Expect(ts, i, "["), depth), LAMBDA from :
    Then(ParseExpr(ts, from.at, depth), LAMBDA to :
         Got(Expect(ts, to.at, "]"), <<from.got, to.got>>)))

RECURSIVE ParseBounds(_, _, _, _)
ParseBounds(ts, i, depth, found) ==
    IF ~IsAt(ts, i, Punct("[")) THEN Got(i, found)
    ELSE Then(ParseBound(ts, i, depth), LAMBDA bound : ParseBounds(ts, bound.at, depth, found \o bound.got))

ParseVar(ts, i, depth) ==
    LET Var(type, name, init, bounds) == Node("Var", type, [name |-> name, init |-> init, bounds |-> bounds])
    IN  Then(ParseName(ts, i), LAMBDA name :
            IF IsAt(ts, name.at, Word("="))
              THEN Then(ParseExpr(ts, name.at + 1, depth), LAMBDA init :
                        Got(Expect(ts, init.at, ")"), Var(NoType, name.got, init.got, <<>>)))
              ELSE Then(ParseType(ts, name.at), LAMBDA type :
                   Then(ParseBounds(ts, type.at, depth, <<>>), LAMBDA bounds :
                        Got(Expect(ts, bounds.at, ")"), Var(type.got, name.got, Nil, bounds.got)))))

\* Uses, then types, then the rest.
InOrder(stmts) ==
    \A i, j \in DOMAIN stmts : i < j =>
        /\ IsUse(stmts[j]) => IsUse(stmts[i])
        /\ IsTypeDecl(stmts[j]) => IsUse(stmts[i]) \/ IsTypeDecl(stmts[i])

\* Pragmas stand first and leave no statement.
ParseBlock(ts, i, depth) ==
    LET IsStmt(e) == ~IsNil(e)
        Block(at, all, stmts) ==
            IF (\E k \in DOMAIN all : IsNil(all[k]) /\ k > Len(all) - Len(stmts)) \/ ~InOrder(stmts) THEN Fails(Nil)
            ELSE Made(at, "Block", [stmts |-> stmts])
    IN  Then(ParseExprs(ts, i, ")", depth + 1), LAMBDA all : Block(all.at, all.got, SelectSeq(all.got, IsStmt)))

ParseTypeDecl(ts, i, depth) ==
    IF depth # 1 THEN Fails(Nil)
    ELSE Then(ParseName(ts, i), LAMBDA name :
         Then(ParseGenericParams(ts, name.at), LAMBDA generics :
         Then(ParseType(ts, generics.at), LAMBDA under :
              Got(Expect(ts, under.at, ")"),
                  Node("TypeDecl", NamedType(name.got, <<under.got>>), [name |-> name.got, generics |-> generics.got])))))

ParseField(ts, i, depth) ==
    Then(ParseName(ts, Expect(ts, i, "(")), LAMBDA name :
    Then(ParseExpr(ts, name.at, depth), LAMBDA e :
         Got(Expect(ts, e.at, ")"), <<name.got, e.got>>)))

ParseStruct(ts, i, depth) ==
    LET Field(j) == ParseField(ts, j, depth)
        Untyped(names) == TypeOf("struct", "", [k \in DOMAIN names |-> NoType], names, 0)
        Struct(names, fields) == Node("StructConstruct", Untyped(names), [names |-> names, fields |-> fields])
    IN  Then(Until(ts, Expect(ts, i, "("), ")", Field, <<>>), LAMBDA all :
             Got(Expect(ts, all.at, ")"),
                 Struct([k \in DOMAIN all.got |-> all.got[k][1]], [k \in DOMAIN all.got |-> all.got[k][2]])))

\* i is the position after the kind.
ParseExit(ts, i, kind, depth) ==
    Then(ParseOptional(ts, i, depth), LAMBDA value :
        IF kind # "return" /\ (kind \notin {"break", "continue"} \/ ~IsNil(value.got)) THEN Fails(Nil)
        ELSE Then(ParseExprs(ts, Expect(ts, value.at, ")"), ")", depth), LAMBDA cleanups :
                  Made(cleanups.at, "CleanupExit", [kind |-> kind, value |-> value.got, cleanups |-> cleanups.got])))

ParseCleanup(ts, i, depth) ==
    CASE ~IsAt(ts, i, Word("-")) -> Fails(Nil)
      [] IsAt(ts, i, Word("-")) /\ IsAt(ts, i + 1, Word("global")) ->
            Then(ParseExprs(ts, i + 2, ")", depth), LAMBDA cleanups :
                 Made(cleanups.at, "GlobalCleanup", [cleanups |-> cleanups.got]))
      [] IsAt(ts, i, Word("-")) /\ IsAt(ts, i + 1, Word("exit")) ->
            Then(ParseName(ts, Expect(ts, i + 2, "(")), LAMBDA kind : ParseExit(ts, kind.at, kind.got, depth))
      [] OTHER -> Fails(Nil)

-----------------------------------------------------------------------------
NoAttrs == [after |-> Nil, operator |-> "", suffix |-> "", extern |-> "", used |-> FALSE, cacheable |-> FALSE]

FlagAttr(word, fun, a) ==
    CASE word = "print" -> [a EXCEPT !.operator = "print"]
      [] word = "extern" -> [a EXCEPT !.extern = fun]
      [] word = "used" -> [a EXCEPT !.used = TRUE]
      [] word = "cacheable" -> [a EXCEPT !.cacheable = TRUE]
      [] OTHER -> a

\* What an attribute with an argument needs its argument to be.
ArgumentKinds == [operator |-> {"String"}, literal |-> {"String"}, extern |-> {"Ident", "String"}]

ArgumentAttr(name, e, a) ==
    CASE name = "expect_after" -> [a EXCEPT !.after = e]
      [] name = "operator" -> [a EXCEPT !.operator = e.has.text]
      [] name = "literal" -> [a EXCEPT !.suffix = e.has.text]
      [] name = "extern" -> [a EXCEPT !.extern = IF e.node = "Ident" THEN e.has.name ELSE e.has.text]
      [] OTHER -> a

\* One attribute after `a`: a word, or a name and an expression.
ParseAttr(ts, i, a, fun, depth) ==
    IF IsWord(ts, i) THEN Got(i + 1, FlagAttr(ts[i][2], fun, a))
    ELSE Then(ParseName(ts, Expect(ts, i, "(")), LAMBDA name :
         Then(ParseExpr(ts, name.at, depth), LAMBDA e :
            IF name.got \in DOMAIN ArgumentKinds /\ e.got.node \notin ArgumentKinds[name.got] THEN Fails(a)
            ELSE Got(Expect(ts, e.at, ")"), ArgumentAttr(name.got, e.got, a))))

RECURSIVE ParseAttrList(_, _, _, _, _)
ParseAttrList(ts, i, a, fun, depth) ==
    IF IsAt(ts, i, Punct(")")) THEN Got(i + 1, a)
    ELSE Then(ParseAttr(ts, i, a, fun, depth), LAMBDA next : ParseAttrList(ts, next.at, next.got, fun, depth))

ParseAttrs(ts, i, fun, depth) ==
    IF IsAt(ts, i, Punct("(")) /\ IsAt(ts, i + 1, Word("attrs")) THEN ParseAttrList(ts, i + 2, NoAttrs, fun, depth)
    ELSE Got(i, NoAttrs)

ParseReturnType(ts, i) == IF IsAt(ts, i, Word("->")) THEN ParseType(ts, i + 1) ELSE Got(i, Scalar("void"))

ParseFun(ts, i, depth) ==
    LET Fun(name, generics, params, ret, attrs, body) ==
            Node("FunDecl", TypeOf("fun", "", <<ret>> \o [k \in DOMAIN params |-> params[k].type], <<>>, 0),
                 [name |-> name, generics |-> generics, params |-> params, ret |-> ret, body |-> body] @@ attrs)
    IN  Then(ParseName(ts, i), LAMBDA name :
        Then(ParseGenericParams(ts, name.at), LAMBDA generics :
        Then(ParseExprs(ts, Expect(ts, generics.at, "("), ")", depth), LAMBDA params :
        Then(ParseReturnType(ts, params.at), LAMBDA ret :
        Then(ParseAttrs(ts, ret.at, name.got, depth), LAMBDA attrs :
        Then(ParseExpr(ts, attrs.at, depth), LAMBDA body :
            IF body.got.node # "Block" \/ \E k \in DOMAIN params.got : params.got[k].node # "Var" THEN Fails(Nil)
            ELSE Got(Expect(ts, body.at, ")"),
                     Fun(name.got, generics.got, params.got, ret.got, attrs.got, body.got))))))))

-----------------------------------------------------------------------------
KnownOps == {"+", "-", "*", "/", "//", "%", "^", "&", "|", "~", "!", "==", "!=", "<", "<=", ">", ">=", "&&", "||", "<<", ">>", "xor"}
VariadicOps == {"+", "-", "*", "/", "//", "&", "|", "^", "&&", "||", "xor"}

ParseOperator(ts, i, op, depth) ==
    LET Fold(left, right) == Node("Binary", NoType, [op |-> IF op = "xor" THEN "^" ELSE op, left |-> left, right |-> right])
    IN  IF op \notin KnownOps THEN Fails(Nil)
        ELSE Then(ParseExprs(ts, i, ")", depth), LAMBDA args :
                CASE args.got = <<>> \/ (Len(args.got) > 2 /\ op \notin VariadicOps) -> Fails(Nil)
                  [] Len(args.got) = 1 -> Made(args.at, "Unary", [op |-> op, operand |-> args.got[1]])
                  [] OTHER -> Got(args.at, FoldLeft(Fold, args.got[1], Tail(args.got))))

ParseOutput(ts, i, depth) ==
    LET Arg(j) == ParseOutputArg(ts, j, depth)
    IN  Then(Until(ts, i, ")", Arg, <<>>), LAMBDA args : Made(args.at, "Output", [args |-> args.got]))

ParseUse(ts, i) ==
    IF At(ts, i)[1] \notin {"id", "str"} THEN Fails(Nil)
    ELSE Made(Expect(ts, i + 1, ")"), "Use", [name |-> ts[i][2], resolved |-> FALSE])

ParseOwnLiteral(ts, i, depth) ==
    IF ~IsAt(ts, i, Word("-")) \/ ~IsAt(ts, i + 1, Word("literal")) THEN Fails(Nil)
    ELSE Then(ParseExpr(ts, i + 2, depth), LAMBDA value : EndsForm(ts, value, "OwnLiteral", [value |-> value.got]))

\* i is the position after the head.
ParseHeaded(ts, head, i, depth) ==
    CASE head \in DOMAIN Handlers -> ParseForm(ts, i, depth, Handlers[head])
      [] head = ":" -> ParseAnnotated(ts, i, depth)
      [] head = "=" -> ParseAssign(ts, i, depth)
      [] head = "block" -> ParseBlock(ts, i, depth)
      [] head = "var" -> ParseVar(ts, i, depth)
      [] head = "fun" -> ParseFun(ts, i, depth)
      [] head = "type" -> ParseTypeDecl(ts, i, depth)
      [] head = "index" -> ParseIndex(ts, i, depth)
      [] head = "slice" -> ParseSlice(ts, i, depth)
      [] head = "struct" -> ParseStruct(ts, i, depth)
      [] head = "cleanup" -> ParseCleanup(ts, i, depth)
      [] head = "output" -> ParseOutput(ts, i, depth)
      [] head = "use" -> ParseUse(ts, i)
      [] head = "own" -> ParseOwnLiteral(ts, i, depth)
      [] OTHER -> ParseOperator(ts, i, head, depth)

ParseList(ts, i, depth) ==
    IF At(ts, i)[1] \in {"id", "op"} THEN ParseHeaded(ts, ts[i][2], i + 1, depth) ELSE Fails(Nil)

ParseAtom(token, at) ==
    CASE token[1] = "int" -> Got(at, Number(Scalar("i64"), token[2]))
      [] token[1] = "float" -> Got(at, Number(Scalar("f64"), token[2]))
      [] token[1] = "bool" -> Got(at, Number(Scalar("bool"), IF token[2] THEN 1 ELSE 0))
      [] token[1] = "char" -> Got(at, Number(Scalar("char"), token[2]))
      [] token[1] = "str" -> Made(at, "String", [text |-> token[2]])
      [] token = Word("nil") -> Got(at, Nil)
      [] token \in {Word("break"), Word("continue")} -> Made(at, IF token[2] = "break" THEN "Break" ELSE "Continue", [name |-> token[2]])
      [] token[1] = "id" /\ token[2] \notin {"nil", "break", "continue"} -> Made(at, "Ident", [name |-> token[2]])
      [] OTHER -> Fails(Nil)

ParseExpr(ts, i, depth) ==
    IF i = 0 THEN Fails(Nil)
    ELSE IF IsAt(ts, i, Punct("(")) THEN ParseList(ts, i + 1, depth)
    ELSE ParseAtom(At(ts, i), i + 1)

\* Nothing may follow.
Complete(all, end) == IF all.at = end THEN all.got ELSE Nil
Parse(ts) == Complete(ParseExpr(ts, 1, 0), Len(ts) + 1)
=============================================================================
