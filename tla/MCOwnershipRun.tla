--------------------------- MODULE MCOwnershipRun ---------------------------
(***************************************************************************)
(* Programs for OwnershipRun: a few shapes, each with one or two places    *)
(* for an expression that yields a string in another way.                  *)
(***************************************************************************)
EXTENDS OwnershipRun

Given(t) == Param(Local(0), t)
Concat(a, b) == Call(External("str_concat", <<Given("string"), Given("string")>>, "string"), <<a, b>>)
Slice(s, i, j) ==
    Call(Materializing("str_slice", <<Given("string"), Given("int"), Given("int")>>, "string"), <<s, Num(i), Num(j)>>)
Length(s) == Call(Materializing("str_len", <<Given("string")>>, "int"), <<s>>)
ReplaceSym(s, c, i) ==
    Call(Materializing("str_replace_sym", <<Given("string"), Given("int"), Given("int")>>, "string"), <<s, Num(c), Num(i)>>)
Delete(target, i, n) ==
    Call(External("str_delete_symbols", <<RefParam(Local(0), "string"), Given("int"), Given("int")>>, "void"),
         <<target, Num(i), Num(n)>>)
Insert(s, target, i) ==
    Call(Materializing("str_insert_symbols", <<Given("string"), RefParam(Local(0), "string"), Given("int")>>, "void"),
         <<s, target, Num(i)>>)
Show(s) == Call(External("output_string", <<Given("string")>>, "void"), <<s>>)
Ask == Call(External("test", <<>>, "int"), <<>>)

\* Variables: x, y and s are strings and a is an array; of a function p and r are
\* parameters; g and h are globals.
x == Variable(Local(1), "string")
y == Variable(Local(2), "string")
s == Variable(Local(3), "string")
a == Variable(Local(4), "strings")
inner == Variable(Local(5), "string")
p == Param(Local(1), "string")
r == RefParam(Local(2), "string")
g == Variable(Slot(1), "string")
h == Variable(Slot(2), "strings")

Stmts(stmts) == Block("void", stmts)
When(stmts) == If("void", Ask, Stmts(stmts), NoNode)

\* Functions: one that returns what it is given, one that returns from inside a
\* block, one that calls itself, and one without a result.
Keep == Function("keep", <<p>>, "string")
Pick == Function("pick", <<p, r>>, "string")
Grow == Function("grow", <<p>>, "string")
Note == Function("note", <<p>>, "void")
Steal == Function("steal", <<p>>, "void")
Main == Function("main", <<>>, "void")

KeepDecl == FunDecl(Keep, Stmts(<<Return(Ident(p))>>), NoNode)
PickDecl == FunDecl(Pick, Block("string", << Var(s, Concat(Ident(p), Ident(r))),
                                             When(<<Var(inner, Ident(s)), Return(Ident(s))>>),
                                             Assign(r, Slice(Ident(p), 1, 1)),
                                             Assign(s, Call(Keep, <<Ident(s)>>)),
                                             Ident(s) >>), NoNode)
GrowDecl == FunDecl(Grow, Stmts(<< If("void", Ask, Stmts(<<Return(Call(Grow, <<Concat(Ident(p), Lit(<<"a">>))>>))>>),
                                                   Stmts(<<Return(Ident(p))>>)) >>), NoNode)
NoteDecl == FunDecl(Note, Stmts(<< Show(Ident(p)), When(<<Return(NoNode)>>), Show(Concat(Ident(p), Lit(<<"b">>))) >>),
                    Show(Ident(p)))

StealDecl == FunDecl(Steal, Stmts(<< Assign(g, Lit(<<"b">>)), Show(Ident(p)) >>), NoNode)

\* Strings yielded in every way.
Yields == << Lit(<<"a", "b">>), Ident(y), Ident(x), Concat(Ident(x), Ident(y)), Concat(Lit(<<"b">>), Ident(x)),
             Call(Keep, <<Ident(x)>>), Call(Keep, <<Lit(<<"w">>)>>),
             Call(Keep, <<Call(Keep, <<Concat(Ident(x), Ident(y))>>)>>),
             Slice(Ident(x), 2, 3), Slice(Lit(<<"a", "w", "b">>), 0, 2), Slice(Ident(x), 3, 1),
             Call(Pick, <<Concat(Ident(x), Lit(<<"a">>)), Ident(y)>>),
             Call(Grow, <<Ident(x)>>) >>

Start == << Var(x, Lit(<<"a", "w">>)), Var(y, Ident(x)) >>
ShowAll == << Show(Ident(x)), Show(Ident(y)) >>

\* x[i] := c: the symbol of the same width, of another, or none.
Alter(c, i) == Assign(x, ReplaceSym(Ident(x), c, i))
Alters == << Alter("c", 1), Alter("w", 1), Alter("c", 4) >>

Loop(kind, body) ==
    CASE kind = "while" -> While(Ask, Stmts(body))
      [] kind = "repeat" -> Repeat(Stmts(body), Ask)
      [] kind = "times" -> Times(Num(2), Stmts(body))

\* What main does, in the program <<shape, i, j>>.
Body(shape, i, j) ==
    CASE shape = "assign" -> Start \o << Assign(x, Yields[i]), Assign(y, Yields[j]) >> \o Alters \o ShowAll
      [] shape = "declare" -> Start \o << Stmts(<<Var(s, Yields[i]), Assign(x, Ident(s)), Alters[1], Show(Ident(s))>>), Yields[j],
                                          Show(Yields[j]), Call(Note, <<Yields[i]>>) >> \o ShowAll
      [] shape = "array" -> Start \o << ArrayVar(a, Num(1), << Num(2), Binary("+", Num(1), Num(1)), Length(Ident(x)) >>[j]),
                                        ArrayAssign(a, Num(1), Yields[i]), ArrayAssign(a, Num(2), Index(a, Num(1))),
                                        Insert(Ident(y), Index(a, Num(2)), 2), Delete(Index(a, Num(2)), 1, 1),
                                        Assign(x, Index(a, Num(1))), Alters[1], Call(Note, <<Index(a, Num(2))>>) >> \o ShowAll
      [] shape = "global" -> Start \o << Assign(g, Yields[i]), ArrayAssign(h, Num(1), Ident(g)), Assign(x, Index(h, Num(1))),
                                         Alters[1], Insert(Lit(<<"b">>), Ident(g), 1), Show(Ident(g)) >> \o ShowAll
      [] shape = "alias" -> Start \o << Assign(g, Concat(Ident(x), Ident(y))), Call(Steal, <<Ident(g)>>) >>
      [] OTHER -> Start \o << Loop(shape, << Var(s, Yields[i]),
                                             When(<<Var(inner, Ident(s)), <<Break, Continue, Return(NoNode)>>[j]>>),
                                             Assign(x, Ident(s)), Alters[1] >>) >> \o ShowAll

\* The globals of a program.
Globals(shape, j) ==
    IF shape = "alias" THEN <<Var(g, NoNode)>>
    ELSE IF shape # "global" THEN <<>>
    ELSE << Var(g, <<NoNode, Lit(<<"a">>), Call(Keep, <<Lit(<<"a">>)>>)>>[j]),
            ArrayVar(h, Num(1), <<Num(1), Binary("-", Num(3), Num(1)), Length(Lit(<<"a", "b">>))>>[j]) >>

Tree(id) ==
    Stmts(Globals(id[1], id[3])
          \o << KeepDecl, PickDecl, GrowDecl, NoteDecl, StealDecl, FunDecl(Main, Stmts(Body(id[1], id[2], id[3])), NoNode) >>)

Ways == DOMAIN Yields

\* Nothing can be inserted into an empty string that was never assigned
\* (string.cpp:297), so the shapes that insert leave out the empty slice.
EmptySlice == 11

AllPrograms ==
    ({"assign"} \X Ways \X Ways) \cup ({"declare"} \X Ways \X {3, 4, 8, 12})
    \cup ({"array", "global"} \X (Ways \ {EmptySlice}) \X (1 .. 3))
    \cup ({"while", "repeat", "times"} \X Ways \X (1 .. 3))

\* A function that replaces the global its argument was borrowed from.
AliasPrograms == {<<"alias", 1, 1>>}
=============================================================================
