---------------------------- MODULE MCProjectRun ----------------------------
(***************************************************************************)
(* Small projects for ProjectRun.tla, in families: what is loaded, scopes, *)
(* overload sets, generic functions, runtime modules, and composition.     *)
(***************************************************************************)
EXTENDS ProjectRun

I32 == <<"i32">>
I64 == <<"i64">>
F64 == <<"f64">>
T == <<"T">>
ArrayOf(type) == <<"array">> \o type
Overloads == <<"overloads">>

Use(module) == Tree("use", <<module>>, <<>>, <<>>)
Var(name, type, init) == Tree("var", <<name>>, type, init)
Name(name) == Tree("ident", <<name>>, <<>>, <<>>)
Set(name, value) == Tree("assign", <<name>>, <<>>, <<value>>)
One == Tree("num", <<"int">>, <<>>, <<>>)
Half == Tree("num", <<"float">>, <<>>, <<>>)
Call(name, args) == Tree("call", <<>>, <<>>, <<Name(name)>> \o args)
Block(stmts) == Tree("block", <<>>, <<>>, stmts)
Params(types) == [i \in DOMAIN types |-> Var(<<"p", "q">>[i], types[i], <<>>)]
Function(name, generics, types, ret, stmts) == Fun(<<name>>, generics, Params(types), ret, Block(stmts))
Plain(name, types, stmts) == Function(name, <<>>, types, I64, stmts)
Entry(stmts) == Fun(Main, <<>>, <<>>, <<"void">>, Block(stmts))


File(stmts) == [parses |-> TRUE, pragmas |-> <<>>, stmts |-> stmts]
World(files, main) == [files |-> files, explicit |-> <<>>, pragmas |-> <<>>, main |-> main]
Alone(main) == {World(<<>>, main), [World(<<>>, main) EXCEPT !.pragmas = Overloads]}
Overloading(main) == [World(<<>>, main) EXCEPT !.pragmas = Overloads]

MCSearchPaths == <<"here", "there">>
MCAliases == "alias" :> "a"
MCPrelude == <<"System">>
Provides(name, type) == [name |-> <<name>>, params |-> <<type>>, ret |-> type]
MCRegistry == [System |-> [functions |-> <<Provides("f", I64)>>, dependencies |-> <<>>],
               Extra |-> [functions |-> <<Provides("h", F64)>>, dependencies |-> <<"Deep">>],
               Deep |-> [functions |-> <<Provides("d", I64)>>, dependencies |-> <<"System">>],
               Other |-> [functions |-> <<Provides("d", F64), Provides("k", I64)>>, dependencies |-> <<>>],
               Needy |-> [functions |-> <<Provides("n", I64)>>, dependencies |-> <<"Other", "Extra">>]]
-----------------------------------------------------------------------------
\* What is loaded: a module calls a function of each module it uses.

FunctionOf == [a |-> "fa", b |-> "fb", c |-> "fc", alias |-> "fa", System |-> "f", Extra |-> "h"]
CallOf(module) == Call(FunctionOf[module], IF module \in {"System", "Extra"} THEN <<One>> ELSE <<>>)
GlobalOf == [a |-> "ga", b |-> "gb", c |-> "gc"]
Calls(uses) == [i \in DOMAIN uses |-> CallOf(uses[i])]
Uses(uses) == [i \in DOMAIN uses |-> Use(uses[i])]
Module(name, uses) ==
    File(Uses(uses) \o <<Var(GlobalOf[name], I64, <<IF name = "b" THEN Call("fb", <<>>) ELSE One>>),
                         Plain(FunctionOf[name], <<>>, Calls(uses) \o <<One>>)>>)
Files(uses) == [p \in {<<"here", m>> : m \in DOMAIN uses} |-> Module(p[2], uses[p[2]])]
Using(uses) == Uses(uses) \o <<Entry(Calls(uses))>>

Chained == Files([a |-> <<"b">>, b |-> <<"c">>, c |-> <<>>])
Spoilt(files) ==
    UNION {{[files EXCEPT ![path].parses = FALSE], [files EXCEPT ![path].stmts = Append(@, Entry(<<>>))]} : path \in DOMAIN files}
Elsewhere(files) == [p \in {<<"there", q[2]>> : q \in DOMAIN files} |-> files[<<"here", p[2]>>]]

Projects ==
    {World(Files([a |-> a, b |-> b, c |-> c]), Using(main)) :
        a \in {<<>>, <<"a">>, <<"b">>, <<"b", "c">>, <<"c", "b">>}, b \in {<<>>, <<"a">>, <<"c">>, <<"System", "c">>},
        c \in {<<>>, <<"b">>, <<"Extra">>}, main \in {<<"a">>, <<"b", "a">>, <<"alias", "c">>}}
    \cup {World(files, Using(main)) : files \in Spoilt(Chained), main \in {<<"a">>, <<"b", "a">>, <<"c">>}}
    \cup {World(Elsewhere(Files([a |-> <<"b">>, b |-> <<>>])) @@ Files([a |-> uses, c |-> <<>>]), Using(<<"a">>)) : uses \in {<<>>, <<"b">>, <<"c">>}}
    \cup {[World(Elsewhere(Chained) @@ Files([b |-> <<>>]), Using(<<"a">>)) EXCEPT !.explicit = [b |-> "there"]]}
-----------------------------------------------------------------------------
\* Scopes: a global, a parameter and locals of the same names, in nested blocks.

Outer == {Var("x", F64, <<Name("g")>>), Var("g", F64, <<Name("g")>>), Var("p", I64, <<Name("p")>>), Set("g", Name("p"))}
Inner == {Var("x", I64, <<Name("p")>>), Var("x", F64, <<Name("x")>>), Var("g", F64, <<Name("x")>>), Set("g", Name("g")),
          Set("x", Name("g")), Var("p", I64, <<Name("g")>>), Var("g", I32, <<Name("g")>>)}
Scopes ==
    {World(<<>>, <<Var("g", I64, <<One>>),
                   Plain("e", <<F64>>, <<first, Block(<<a, b>>), last, One>>),
                   Entry(<<Call("e", <<Half>>)>>)>>) :
        first \in Outer, a \in Inner, b \in Inner, last \in Outer}
-----------------------------------------------------------------------------
\* Overload sets, and a call with an argument of every type.

GenericsOf(types) == IF \E i \in DOMAIN types : Last(types[i]) = "T" THEN <<"T">> ELSE <<>>
Overload(types) == Function("c", GenericsOf(types), types, I64, <<One>>)
CallWith(types) ==      \* a literal stands for its own type
    Entry([i \in DOMAIN types |-> Var(<<"x", "y">>[i], IF types[i] \in Literal THEN I64 ELSE types[i], <<>>)]
              \o <<Call("c", [i \in DOMAIN types |-> CASE types[i] = <<"int">> -> One [] types[i] = <<"float">> -> Half
                                                     [] OTHER -> Name(<<"x", "y">>[i])])>>)
Sets(signatures, size) == {S \in SUBSET signatures : Cardinality(S) \in 1..size}
Calling(signatures, size, arguments) ==
    {Overloading(Append([i \in 1..Cardinality(S) |-> Overload(SetToSeq(S)[i])], CallWith(types))) :
        S \in Sets(signatures, size), types \in arguments}

OneEach == {<<t>> : t \in {I64, I32, F64, T, ArrayOf(T), ArrayOf(I64), ArrayOf(ArrayOf(T))}}
TwoEach == {<<I64, I64>>, <<T, T>>, <<T, I64>>, <<I64, T>>, <<F64, I64>>, <<I64, F64>>}
Scalars == {I64, I32, F64, <<"int">>, <<"float">>}
OverloadSets ==
    Calling(OneEach, 3, {<<t>> : t \in Scalars \cup {ArrayOf(I64), ArrayOf(F64), ArrayOf(ArrayOf(I64))}})
    \cup Calling(TwoEach, 3, {<<a, b>> : a \in Scalars \ {<<"float">>}, b \in Scalars \ {<<"float">>}})
    \cup {Overloading(<<Overload(types), Function("c", <<"U">>, same, I64, <<One>>), CallWith(<<I64>>)>>) :
              types \in {<<T>>, <<ArrayOf(T)>>}, same \in {<<<<"U">>>>, <<ArrayOf(<<"U">>)>>}}
    \cup {World(<<>>, <<Overload(a), CallWith(b)>>) : a \in OneEach, b \in {<<I64>>, <<F64>>, <<ArrayOf(F64)>>}}

-----------------------------------------------------------------------------
\* Generic functions that name other functions, globals and locals.

Generic(name, types, ret, stmts) == Function(name, <<"T">>, types, ret, stmts)
Bodies ==      \* of a generic function w(p: T): T
    {<<Call("c", <<Name("p")>>), Name("p")>>,
     <<Var("l", T, <<Name("p")>>), Set("g", Call("c", <<Name("l")>>)), Name("l")>>,
     <<Block(<<Var("p", F64, <<Name("p")>>), Call("c", <<Name("p")>>)>>), Name("p")>>,
     <<Block(<<Var("g", T, <<Name("p")>>), Set("g", One)>>), Set("g", Name("p")), Call("v", <<Name("p")>>)>>,
     <<Var("l", F64, <<One>>), Call("v", <<Name("l")>>), Call("w", <<Name("p")>>)>>,
     <<Call("v", <<One>>), One>>, <<Set("g", One)>>}
Others == {<<Overload(<<I64>>)>>, <<Overload(<<F64>>), Overload(<<T>>)>>, <<Overload(<<I64>>), Overload(<<F64>>)>>}
Users ==
    {<<Var("x", t, <<>>), Call("w", <<Name("x")>>), Set("g", Call("w", <<One>>))>> : t \in {I64, F64, ArrayOf(I64)}}
    \cup {<<Var("x", F64, <<Call("w", <<One>>)>>), Call("v", <<Name("x")>>)>>, <<Var("g", F64, <<>>), Call("w", <<Name("g")>>)>>}
Generics ==
    {[World(<<>>, <<Var("g", I64, <<One>>), Generic("w", <<T>>, T, body), Generic("v", <<T>>, T, <<Call("w", <<Name("p")>>)>>)>>
                      \o others \o <<Entry(user)>>) EXCEPT !.pragmas = Overloads] :
        body \in Bodies, others \in Others, user \in Users}
    \cup {Overloading(<<Function("s", <<"T", "U">>, <<T, <<"U">>>>, T, <<Name("p")>>),
                        Function("s", <<"T", "U">>, <<<<"U">>, T>>, <<"U">>, <<Name("q")>>), CallWith(<<I64>>)>>),
          Overloading(<<Function("s", <<"T", "T">>, <<T>>, T, <<Name("p")>>), CallWith(<<I64>>)>>),
          Overloading(<<Generic("s", <<T>>, T, <<Name("u")>>), Entry(<<Call("s", <<One>>)>>)>>),
          Overloading(<<Plain("s", <<T>>, <<Name("u")>>), Entry(<<Call("s", <<One>>)>>)>>),
          Overloading(<<Var("g", I64, <<>>), Plain("s", <<>>, <<Set("g", One)>>), Entry(<<Call("s", <<>>)>>)>>),
          Overloading(<<Plain("s", <<I64>>, <<One>>), Plain("s", <<F64>>, <<One>>), Entry(<<Var("s", I64, <<>>), Call("s", <<One>>)>>)>>)}
-----------------------------------------------------------------------------
\* Functions of the runtime, and of a module, beside the program's own.

Own(types) == [i \in DOMAIN types |-> Function("f", GenericsOf(<<types[i]>>), <<types[i]>>, types[i], <<Name("p")>>)]
Runtimes ==
    {[World(<<>>, Uses(uses) \o Own(own) \o <<Entry(<<Call(name, <<argument>>)>>)>>) EXCEPT !.pragmas = pragmas] :
        uses \in {<<>>, <<"Extra">>, <<"Extra", "Other">>, <<"Deep", "Needy">>, <<"Other", "System">>, <<"Needy", "Other">>, <<"Unknown">>}, own \in {<<>>, <<I64>>, <<F64>>, <<I64, F64>>, <<F64, T>>},
        name \in {"f", "d", "k", "n"}, argument \in {One, Half}, pragmas \in {<<>>, Overloads}}

\* What a program and a module may have: two functions c, one of them without parameters,
\* and globals that call one.
Parts2 == {<<Overload(<<I64>>)>>, <<Overload(<<F64>>), Plain("z", <<>>, <<Call("c", <<Half>>)>>)>>, <<Overload(<<I64>>), Overload(<<F64>>)>>,
           <<Var("g", I64, <<Call("c", <<One>>)>>), Overload(<<T>>)>>}
Endings == {<<Entry(<<Call("c", <<One>>)>>)>>, <<Plain("r", <<>>, <<Call("c", <<Half>>)>>)>>, <<Plain("z", <<>>, <<One>>)>>,
            <<Var("c", I64, <<>>), Entry(<<>>)>>, <<Entry(<<Set("g", Call("c", <<One>>))>>)>>, <<>>}
Compositions ==
    {[World(<<"here", "a">> :> [File(theirs) EXCEPT !.pragmas = values[1]], <<Use("a")>> \o own \o ending) EXCEPT !.pragmas = values[2]] :
        theirs \in Parts2, own \in {<<>>, <<Overload(<<F64>>)>>, <<Overload(<<T>>)>>}, ending \in Endings,
        values \in {<<Overloads, <<>>>>, <<<<>>, Overloads>>, <<Overloads, Overloads>>, <<Overloads, <<"none">>>>, <<<<>>, <<>>>>}}

MCPrograms == Projects \cup Scopes \cup OverloadSets \cup Generics \cup Runtimes \cup Compositions
=============================================================================
