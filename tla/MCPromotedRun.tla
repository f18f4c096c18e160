--------------------------- MODULE MCPromotedRun ---------------------------
(***************************************************************************)
(* Functions for PromotedRun: a few shapes of nested statements with holes *)
(* at the places between them.  Either both variables have values before   *)
(* the shape and at most one hole is filled, or x has none and one hole is *)
(* filled by what assigns it and another one by what reads it.             *)
(***************************************************************************)
EXTENDS PromotedRun

\* An argument, two variables, one to swap them by, and one passed by reference.
given == Param(Local(1), "int")
x == Variable(Local(2), "int")
y == Variable(Local(3), "int")
spare == Variable(Local(4), "int")
ref == Variable(Local(5), "int")

Read(v, k) == Assign(v, Call(External("read", <<given>>, "int"), <<Num(k)>>))
Copy(v, w) == Assign(v, Ident(w))
Show(v) == Call(External("show", <<given>>, "void"), <<Ident(v)>>)
Poke(v) == Call(External("poke", <<OutParam(Local(1), "int")>>, "void"), <<Ident(v)>>)
Bump(v) == Call(External("bump", <<RefParam(Local(1), "int")>>, "void"), <<Ident(v)>>)
Ask == Call(External("test", <<>>, "int"), <<>>)

Stmts(stmts) == Block("void", stmts)
When(then, else) == If("void", Ask, Stmts(then), Stmts(else))
\* Decided by a short circuit.
WhenBoth(then, else) == If("void", Binary("and", Ident(x), Binary("!=", Ident(y), Num(1))), Stmts(then), Stmts(else))

Loop(kind, body) ==
    CASE kind = "while" -> While(Ask, Stmts(body))
      [] kind = "repeat" -> Repeat(Stmts(body), Ask)
      [] kind = "times" -> Times(Num(2), Stmts(body))
      [] kind = "for" -> For(y, Num(1), Num(2), NoNode, Stmts(body))

Exit(to) == CleanupExit(to, IF to = "return" THEN Ident(x) ELSE NoNode, <<>>)

Fillings == << <<Show(x)>>, <<Read(x, 1)>>, <<Assign(x, Num(0))>>, <<Copy(x, given)>>,
               <<Copy(spare, x), Copy(x, y), Copy(y, spare)>>, <<Poke(ref), Copy(x, ref)>>,
               <<Assign(x, Binary("+", Num(1), Num(2))), Assign(y, Binary("*", Ident(x), Num(0)))>>,
               <<Assign(x, Binary("+", Binary("*", Num(1), Ident(y)), Num(0)))>> >>

\* A hole that is filled, and with what.
Holes == {<<0, 0>>} \cup (1 .. 5) \X DOMAIN Fillings

\* The statements of the shapes; h(i) is what is in hole i.
Shape(name, k, l, h(_)) ==
    CASE name = "nested" ->   \* a branch and a loop inside a loop
             <<Loop(k, h(1) \o <<When(h(2), h(3)), Loop(l, h(4))>> \o h(5))>>
      [] name = "join" ->   \* a join, then a branch that leaves the loop
             <<Loop(k, <<When(h(1), h(2)), When(h(3) \o <<Exit(l)>>, h(4))>> \o h(5))>>
      [] name = "both" ->   \* the same after a short circuit
             <<Loop(k, <<WhenBoth(h(1), h(2)), When(h(3) \o <<Exit(l)>>, h(4))>> \o h(5))>>
      [] name = "inside" ->   \* a branch that leaves the loop, in a loop inside a loop
             <<Loop(k, h(1) \o <<Loop(k, <<When(h(2) \o <<Exit(l)>>, h(3))>> \o h(4))>> \o h(5))>>
      [] name = "always" ->   \* a body that always leaves the loop: its end is unreachable
             <<Loop(k, h(1) \o <<When(h(2), h(3) \o <<Exit(l)>>)>> \o h(4) \o <<Exit(l)>> \o h(5))>>
      [] name = "folded" ->   \* a loop that tests a sum with zero of what its body adds up last
             << Repeat(Stmts(<< When(<<>>, <<>>), Assign(x, Binary("+", Num(1), Num(2))) >>),
                       Binary("!=", Binary("+", Ident(x), Num(0)), Num(3))) >>

Writes == << <<Read(x, 1)>>, <<Poke(x)>> >>
Reads == << <<Show(x)>>, <<Bump(x)>> >>

Declared(body) == FunDecl(Function("f", <<given>>, "int"), Stmts(body), NoNode)

\* The function with the name <<<<shape, outer, inner or exit>>, hole>>, or <<shape, write, read>>.
Named(id) ==
    LET At(i, hole, what) == IF i = hole[1] THEN what[hole[2]] ELSE <<>>
        Filled(h(_)) == Shape(id[1][1], id[1][2], id[1][3], h)
    IN IF Len(id) = 2
       THEN Declared(<<Read(x, 0), Read(y, 1)>> \o Filled(LAMBDA i : At(i, id[2], Fillings))
                     \o <<Show(x), Show(y), Exit("return")>>)
       ELSE Declared(<<Read(y, 1)>> \o Filled(LAMBDA i : At(i, id[2], Writes) \o At(i, id[3], Reads))
                     \o <<Show(y), CleanupExit("return", Ident(y), <<>>)>>)

\* Loops that test before the body, both variables assigned before them.
AlwaysAssigned ==
    { <<"nested", "while", "for">>, <<"nested", "times", "while">>, <<"nested", "for", "times">>,
      <<"join", "while", "return">>, <<"join", "for", "continue">>,
      <<"both", "for", "continue">>, <<"both", "while", "break">>,
      <<"inside", "while", "break">>, <<"inside", "for", "continue">>,
      <<"always", "times", "break">>, <<"always", "for", "continue">> } \X Holes

\* What assigns x in one place and reads it in another.
PartlyAssigned ==
    { <<"nested", "while", "for">>, <<"nested", "for", "times">>, <<"nested", "while", "repeat">>,
      <<"join", "while", "return">>, <<"join", "for", "break">>, <<"join", "times", "continue">>,
      <<"both", "while", "continue">>, <<"inside", "times", "break">>, <<"always", "while", "break">>,
      <<"always", "repeat", "return">> }
    \X ((1 .. 5) \X (1 .. 2)) \X ((1 .. 5) \X (1 .. 2))

Families == AlwaysAssigned \cup PartlyAssigned

\* Loops that test after the body, and a branch: promotion goes wrong.
Posttested == { <<"nested", "repeat", "while">>, <<"join", "repeat", "continue">> } \X Holes

\* Folding that goes wrong: the test takes the place of x before the sum has been folded.
FoldedLast == {<<<<"folded", "", "">>, <<0, 0>>>>}
=============================================================================
