----------------------------- MODULE ProjectRun -----------------------------
(***************************************************************************)
(* A program and the source modules it uses, from its use statements to    *)
(* the functions that are lowered (LoadAndCompose, the transform pipeline  *)
(* and lowerTopBlock): what is loaded, what every name means, and what the *)
(* lowered functions call.                                                 *)
(*                                                                         *)
(* The pipeline imports runtime modules and resolves names, then annotates *)
(* and does this again as long as its transforms change something, then    *)
(* resolves and annotates once more; each pass is one step here.           *)
(***************************************************************************)
EXTENDS ModuleLoader, OverloadedCalls

CONSTANTS
    Prelude,         \* the runtime modules the host imports first
    MaxIterations    \* how often the transforms change something

VARIABLES left, done, source, cx, lowered
passVars == <<left, done, source, cx, lowered>>
vars == <<loaderVars, passVars>>

RECURSIVE Again(_)
Again(n) == IF n = 0 THEN <<>> ELSE <<"annotate", "resolve">> \o Again(n - 1)
Passes(n) == <<"resolve">> \o Again(n) \o <<"final", "annotate", "lower">>
-----------------------------------------------------------------------------
\* Lowering: which functions.

\* The symbols that calls under a node name, as a set.
RECURSIVE CalledIn(_, _, _)
CalledIn(c, id, scope) ==
    LET node == c.heap[id]
        inner == IF node.kind = "block" THEN node.scope ELSE scope
        callee == IF node.kind = "call" THEN {Lookup(c, c.heap[node.kids[1]].name, inner)} ELSE {}
    IN  callee \cup UNION {CalledIn(c, node.kids[i], inner) : i \in DOMAIN node.kids}

CalledBy(c, symbol) ==
    LET fun == NodeOf(c, symbol)
    IN  IF IsFun(c, fun) /\ ~ c.heap[fun].extern THEN CalledIn(c, fun, c.heap[fun].scope) \ {0} ELSE {}

\* Mutant of ReachableFunctions: what functions call is looked at once.
CalledFromRoots(c, symbols) == symbols \cup UNION {CalledBy(c, s) : s \in symbols}

RECURSIVE ReachableFunctions(_, _)
ReachableFunctions(c, symbols) ==
    LET more == symbols \cup UNION {CalledBy(c, s) : s \in symbols}
    IN  IF more = symbols THEN symbols ELSE ReachableFunctions(c, more)

\* The program's own functions and instances, and what global initializers call.
TopLevel(c) == c.heap[c.root].kids
TopLevelRoots(c) ==
    UNION {LET id == TopLevel(c)[i]
           IN  CASE IsFun(c, id) /\ c.heap[id].origin = "" -> {Lookup(c, c.heap[id].name, Root)} \ {0}
                 [] IsFun(c, id) /\ c.heap[id].origin # "" -> {}
                 [] OTHER -> CalledIn(c, id, Root) \ {0} : i \in DOMAIN TopLevel(c)}

IsLowered(c, id, reachable) ==
    IsFun(c, id) /\ (c.heap[id].origin = "" \/ Lookup(c, c.heap[id].name, Root) \in reachable \cup {0})
LoweredFunctions(c) ==
    LET reachable == ReachableFunctions(c, TopLevelRoots(c))
    IN  SelectSeq(TopLevel(c), LAMBDA id : IsLowered(c, id, reachable))
Globals(c) == SelectSeq(TopLevel(c), LAMBDA id : c.heap[id].kind \in {"var", "assign"})

\* Every callee must be a function; globals come before functions.
Callees(c, funs) == UNION {CalledIn(c, id, Root) : id \in ToSet(funs \o Globals(c))}
LowerTopBlock(c, funs) ==
    CASE \E i, j \in DOMAIN TopLevel(c) : i < j /\ TopLevel(c)[i] \in ToSet(funs) /\ TopLevel(c)[j] \in ToSet(Globals(c)) ->
            FailsWith(c, "late global", 0)
      [] \E s \in Callees(c, funs) : s = 0 \/ ~ IsFun(c, NodeOf(c, s)) -> FailsWith(c, "not a function", 0)
      [] OTHER -> c

\* The entry point: <main>, or the first function without parameters that nothing made up.
GetEntryPoint(c, funs) ==
    LET named == SelectSeq(funs, LAMBDA id : c.heap[id].name = Main)
        plain == SelectSeq(funs, LAMBDA id : Len(c.heap[id].name) = 1 /\ c.heap[id].params = <<>>)
    IN  named \o plain
-----------------------------------------------------------------------------
Init ==
    /\ LoaderInit
    /\ left \in {Passes(n) : n \in 1..MaxIterations}
    /\ done = ""
    /\ source = <<>>
    /\ cx = FoldLeft(ImportModule, NewResolver, Prelude)
    /\ lowered = <<>>

LoadModules == LoaderNext /\ UNCHANGED passVars

Planted(c, composed) ==
    LET heap == Plant(c.heap, Tree("block", <<>>, <<>>, composed.stmts))
    IN  [c EXCEPT !.heap = heap, !.root = Len(heap), !.overloads = AllowsOverloads(composed.pragmas), !.error = composed.error]
ComposeProgram ==
    /\ loops = <<>> /\ error = "" /\ source = <<>> /\ ~ Failed(cx)
    /\ cx' = Planted(cx, Compose(world, order))
    /\ source' = cx'.heap
    /\ UNCHANGED <<loaderVars, left, done, lowered>>

Pass(name, Result(_)) ==
    /\ source # <<>> /\ ~ Failed(cx)
    /\ left # <<>> /\ Head(left) = name
    /\ left' = Tail(left)
    /\ done' = name
    /\ cx' = Result(cx)
    /\ UNCHANGED <<loaderVars, source>>

RunSourceNameResolution ==
    /\ Pass("resolve", LAMBDA c : Then(ImportPendingCoreUses(c), ResolveProgram))
    /\ UNCHANGED lowered
FinalNameResolution == Pass("final", ResolveProgram) /\ UNCHANGED lowered
RunTypeAnnotation == Pass("annotate", Annotate) /\ UNCHANGED lowered
LowerProgram ==
    /\ Pass("lower", LAMBDA c : LowerTopBlock(c, LoweredFunctions(c)))
    /\ lowered' = LoweredFunctions(cx)

Next == LoadModules \/ ComposeProgram \/ RunSourceNameResolution \/ FinalNameResolution \/ RunTypeAnnotation \/ LowerProgram
ProjectSpec == Init /\ [][Next]_vars

-----------------------------------------------------------------------------
\* What a name means: the innermost declaration in the program as written.  Places are
\* those of the program as written, and of the runtime functions.

ParentOf(id) == CHOOSE p \in DOMAIN source : id \in ToSet(source[p].kids) \cup ToSet(source[p].params)
SourceRoot == Len(source)

KeysAsWritten(id) == [i \in DOMAIN source[id].params |->
                         OverloadTypeKey(source[source[id].params[i]].t, source[id].generics)]
\* A function of the program hides the runtime function of the same types.
Runtime(name, own) ==
    {e \in DOMAIN cx.heap : /\ cx.heap[e].extern /\ cx.heap[e].written = name
                            /\ ~ \E f \in own : source[f].kind = "fun" /\ KeysAsWritten(f) = ParamKeys(cx, e)}
AtTop(id, name) ==
    LET kids == source[SourceRoot].kids
        own == {kids[i] : i \in {j \in DOMAIN kids :
                  source[kids[j]].name = name /\ (source[kids[j]].kind = "fun"
                      \/ (source[kids[j]].kind = "var" /\ \A k \in DOMAIN kids : kids[k] = id => j <= k))}}
    IN  own \cup Runtime(name, own)
Around(id, p, name) ==
    LET kids == source[p].kids
    IN  CASE source[p].kind = "fun" -> {d \in ToSet(source[p].params) : source[d].name = name}
          [] source[p].kind = "block" ->
               {kids[i] : i \in {j \in DOMAIN kids : source[kids[j]].kind = "var" /\ source[kids[j]].name = name
                                                     /\ \A k \in DOMAIN kids : kids[k] = id => j <= k}}
          [] OTHER -> {}
RECURSIVE Denoted(_, _)
Denoted(id, name) ==
    LET p == ParentOf(id)
    IN  CASE p = SourceRoot -> AtTop(id, name)
          [] p # SourceRoot /\ Around(id, p, name) # {} -> Around(id, p, name)
          [] OTHER -> Denoted(p, name)

\* A name that is used before its block declares it again denotes the later one once the
\* scopes are complete (TNameResolver::Lookup takes no position).
RECURSIVE Ancestors(_)
Ancestors(id) == IF id = SourceRoot THEN {} ELSE {ParentOf(id)} \cup Ancestors(ParentOf(id))
DeclaredLater(id, name) ==
    UNION {{d \in ToSet(source[b].kids) : source[d].kind = "var" /\ source[d].name = name /\ d > id} :
               b \in {p \in Ancestors(id) : source[p].kind = "block"}}
-----------------------------------------------------------------------------
\* Which function a call means: a candidate that no other one beats in every argument.

Attributes(d) == IF d <= Len(source) THEN source[d] ELSE cx.heap[d]
WrittenTypes(d) == [i \in DOMAIN Attributes(d).params |-> Attributes(Attributes(d).params[i]).t]

\* An argument as it was before it was converted.
ArgAt(id) ==
    LET node == IF cx.heap[id].kind = "cast" THEN cx.heap[cx.heap[id].kids[1]] ELSE cx.heap[id]
        isInt == node.written = <<"int">>
    IN  IF node.kind = "num" THEN [t |-> IF isInt THEN <<"i64">> ELSE <<"f64">>, literal |-> isInt]
        ELSE [t |-> node.t, literal |-> FALSE]
ArgsAt(id) == [i \in DOMAIN Args(cx, id) |-> ArgAt(Args(cx, id)[i])]

\* The same type, a wider integer, a float, then generic parameters, the barer the later;
\* 99 when the argument cannot be passed at all.
Rank(arg, param, generics) ==
    CASE IsGeneric(param, generics) -> IF Matched(param, arg) = <<>> THEN 99 ELSE 10 - Len(param)
      [] ~ IsGeneric(param, generics) /\ arg = param -> 0
      [] ~ IsGeneric(param, generics) /\ arg # param /\ WideningIntOK(arg, param) -> 1
      [] ~ IsGeneric(param, generics) /\ IsInt(arg) /\ IsFloat(param) -> 2
      [] OTHER -> 99

\* All arguments give a generic parameter the same type; integer literals adapt.
GivenTo(d, args, g, literal) ==
    {Matched(WrittenTypes(d)[i], args[i].t) : i \in {j \in DOMAIN args : args[j].literal = literal /\ Last(WrittenTypes(d)[j]) = g}}
Consistent(d, args) ==
    \A g \in ToSet(Attributes(d).generics) :
        /\ Cardinality(GivenTo(d, args, g, FALSE)) <= 1
        /\ GivenTo(d, args, g, TRUE) # {} => \A t \in GivenTo(d, args, g, FALSE) : Head(t) \in IntTypes \cup {"f64"}

Passable(d, args) ==
    /\ Attributes(d).kind = "fun" /\ Len(args) = Len(WrittenTypes(d))
    /\ \A i \in DOMAIN args : Rank(args[i].t, WrittenTypes(d)[i], ToSet(Attributes(d).generics)) < 99
    /\ Consistent(d, args)
Beats(d, e, args) ==
    LET ranks == [f \in {d, e} |-> [i \in DOMAIN args |-> Rank(args[i].t, WrittenTypes(f)[i], ToSet(Attributes(f).generics))]]
    IN  ranks[d] # ranks[e] /\ \A i \in DOMAIN args : ranks[d][i] <= ranks[e][i]
Unbeaten(candidates, args) ==
    LET passable == {d \in candidates : Passable(d, args)}
    IN  {d \in passable : ~ \E e \in passable : Beats(e, d, args)}

\* A lone function takes whatever converts to its types, and integer literals adapt.
Converts(arg, param, generics) ==
    CASE IsGeneric(param, generics) -> Matched(param, arg.t) # <<>>
      [] ~ IsGeneric(param, generics) /\ arg.literal /\ (IsInt(param) \/ IsFloat(param)) -> TRUE
      [] OTHER -> CanImplicit(arg.t, param)
LoneTakes(d, args) ==
    /\ Attributes(d).kind = "fun" /\ Len(args) = Len(WrittenTypes(d)) /\ Consistent(d, args)
    /\ \A i \in DOMAIN args : Converts(args[i], WrittenTypes(d)[i], ToSet(Attributes(d).generics))
Meant(candidates, args) ==
    IF Cardinality(candidates) = 1 THEN {d \in candidates : LoneTakes(d, args)} ELSE Unbeaten(candidates, args)
-----------------------------------------------------------------------------
\* Every name in the annotated program.

RECURSIVE UsesIn(_, _)
UsesIn(id, scope) ==
    LET node == cx.heap[id]
        inner == IF node.kind = "block" THEN node.scope ELSE scope
        kids == IF node.kind = "call" THEN Args(cx, id) ELSE node.kids
    IN  {[id |-> id, scope |-> inner] : x \in {node.kind} \cap {"ident", "assign", "call"}}
            \cup UNION {UsesIn(kids[i], inner) : i \in DOMAIN kids}
RECURSIVE PlacesIn(_)
PlacesIn(id) == {id} \cup ToSet(cx.heap[id].params) \cup UNION {PlacesIn(cx.heap[id].kids[i]) : i \in DOMAIN cx.heap[id].kids}

\* A variable is the one the name denotes, in the same function or instance.
VariableMeans(use, top) ==
    LET node == cx.heap[use.id]
        target == NodeOf(cx, Lookup(cx, node.written, use.scope))
    IN  /\ \/ {cx.heap[target].at} = Denoted(node.at, node.written)
           \/ cx.heap[target].at \in DeclaredLater(node.at, node.written)
        /\ target \in ToSet(TopLevel(cx)) \cup PlacesIn(top)
        /\ node.kind = "ident" => node.t = cx.heap[target].t

\* A call means one of the best candidates, and every argument has become what it takes.
\* An array may have any elements: EqualTypes does not look at them.
AnyArray(arg, param) == Head(arg) = "array" /\ Head(param) = "array"
CallMeans(use) ==
    LET node == cx.heap[use.id]
        callee == cx.heap[node.kids[1]]
        fun == NodeOf(cx, Lookup(cx, callee.name, use.scope))
    IN  /\ cx.heap[fun].at \in Meant(Denoted(callee.at, callee.written), ArgsAt(use.id))
        /\ node.t = cx.heap[fun].ret
        /\ cx.heap[fun].generics = <<>>
        /\ \A i \in DOMAIN Args(cx, use.id) :
               LET arg == cx.heap[Args(cx, use.id)[i]].t
                   takes == ParamType(cx, fun, i)
                   written == WrittenTypes(cx.heap[fun].at)[i]
               IN  /\ arg = takes \/ AnyArray(arg, takes)
                   /\ IsGeneric(written, ToSet(Attributes(cx.heap[fun].at).generics)) => Matched(written, takes) # <<>>

\* The callee of a call that names a variable: lowering refuses it.
IsCallable(use) == LET s == Lookup(cx, cx.heap[cx.heap[use.id].kids[1]].name, use.scope) IN s # 0 /\ IsFun(cx, NodeOf(cx, s))

\* In an annotated program every name denotes what it denotes where it is written, in a
\* function as in each of its instances; every call goes to the candidate that no other
\* beats, with its arguments converted (DoAnnotate, AnnotateOverloadedCall,
\* InstantiateGenericFunction, ResolveInstantiatedFunDecl).
NamesMean ==
    done = "annotate" /\ ~ Failed(cx) =>
        \A i \in DOMAIN TopLevel(cx) : \A use \in UsesIn(TopLevel(cx)[i], Root) :
            IF cx.heap[use.id].kind = "call" THEN IsCallable(use) => CallMeans(use)
            ELSE VariableMeans(use, TopLevel(cx)[i])

-----------------------------------------------------------------------------
\* What is refused.

Siblings(id) ==
    {d \in ToSet(source[ParentOf(id)].kids) \cup ToSet(source[ParentOf(id)].params) :
        d # id /\ source[d].kind \in {"fun", "var"} /\ source[d].name = source[id].name}
\* The only function of a name in the program took the place of the only runtime function
\* of that name.  Calls of it are refused: the overload set has one function, under a
\* made-up name, and the written name is in no scope any more.  The code's own comment
\* promises otherwise (name_resolver.cpp:924-926).
LoneReplaced(name) ==
    \E f, e \in DOMAIN cx.heap :
        /\ {d \in ToSet(source[SourceRoot].kids) : source[d].kind = "fun" /\ source[d].name = name} = {f}
        /\ {d \in DOMAIN cx.heap : cx.heap[d].extern /\ cx.heap[d].written = name} = {e}
        /\ KeysAsWritten(f) = ParamKeys(cx, e)

\* The runtime modules a program has, with all they depend on, and what they provide.
RECURSIVE WithDependencies(_)
WithDependencies(modules) ==
    LET more == modules \cup UNION {ToSet(Registry[m].dependencies) : m \in modules \cap DOMAIN Registry}
    IN  IF more = modules THEN modules ELSE WithDependencies(more)
UsedModules ==
    LET kids == ToSet(source[SourceRoot].kids)
    IN  ToSet(Prelude) \cup {source[id].name[1] : id \in {k \in kids : source[k].kind = "use" /\ ~ source[k].resolved}}
Provided(module) == {Registry[module].functions[i].name : i \in DOMAIN Registry[module].functions}
Undeclared(node) ==
    /\ Denoted(node.at, node.written) = {}
    /\ ~ \E m \in WithDependencies(UsedModules) : m \in DOMAIN Registry /\ node.written \in Provided(m)

\* A module cannot be imported when it, or one it needs, does not exist or provides a name
\* that another module of the program provides as well.
WrongImport(module) ==
    \E m \in WithDependencies({module}) :
        \/ m \notin DOMAIN Registry
        \/ \E n \in WithDependencies(UsedModules) \cap DOMAIN Registry : n # m /\ Provided(n) \cap Provided(m) # {}

Declarations(id, kind) == {d \in Siblings(id) : source[d].kind = kind}
WrongDeclaration(why, id) ==
    \/ why = "duplicate" /\ (Siblings(id) # {} \/ (~ cx.overloads /\ Runtime(source[id].name, {}) # {}))
    \/ why = "identical" /\ \E d \in Declarations(id, "fun") : KeysAsWritten(d) = KeysAsWritten(id)
    \/ why = "generics" /\ \E i, j \in DOMAIN source[id].generics : i # j /\ source[id].generics[i] = source[id].generics[j]
    \/ why = "type" /\ \E t \in {source[id].t, source[id].ret} \ {<<>>} :
           Last(t) \notin PlainTypes \cup UNION {ToSet(source[p].generics) : p \in {id} \cup Ancestors(id)}

\* What two units declare together.
WrongComposition(why) ==
    \/ why = "conflict" /\ \E d \in ToSet(source[SourceRoot].kids) :
           Declarations(d, "var") # {} \/ (Declarations(d, "fun") # {} /\ ~ cx.overloads)
    \/ why = "pragmas" /\ Cardinality({world.files[f].pragmas : f \in DOMAIN world.files} \cup {world.pragmas}) > 1

WrongCall(why, id) ==
    LET callee == cx.heap[cx.heap[id].kids[1]]
        candidates == Denoted(callee.at, callee.written)
    IN  IF Cardinality(candidates) = 1 THEN why \in {"arity", "bindings", "convert"} /\ Meant(candidates, ArgsAt(id)) = {}
        ELSE \/ why = "no match" /\ Unbeaten(candidates, ArgsAt(id)) = {}
             \/ why = "ambiguous" /\ Cardinality(Unbeaten(candidates, ArgsAt(id))) > 1

\* An array where there is none, or the other way round, or a wider integer.
Target(id) ==
    LET node == cx.heap[id]
    IN  CASE node.kind = "var" -> {node.t}
          [] node.kind = "assign" -> {cx.heap[d].t : d \in {e \in DOMAIN cx.heap : cx.heap[e].at \in Denoted(node.at, node.written)}}
          [] node.kind = "block" -> {cx.heap[f].ret : f \in {e \in DOMAIN cx.heap : IsFun(cx, e) /\ cx.heap[e].kids = <<id>>}}
WrongValue(id) ==
    LET value == cx.heap[Last(cx.heap[id].kids)].t
    IN  \E t \in Target(id) :
            \/ "array" \in {Head(t), Head(value)} /\ Head(t) # Head(value)
            \/ IsInt(t) /\ IsInt(value) /\ ~ WideningIntOK(value, t)

NoFunction(id) ==
    LET callee == source[id].kids[1]
    IN  \E d \in Denoted(callee, source[callee].name) \cup DeclaredLater(callee, source[callee].name) : Attributes(d).kind # "fun"

\* A program is refused only for a reason: a name that denotes nothing where it is written
\* and that none of its runtime modules provides, a runtime module that shares a name with
\* another one, two declarations that cannot stand together, a call that no candidate takes
\* or that two take equally well, a value that does not convert (the errors of Compose,
\* ImportPendingCoreUses, Declare, Resolve, AnnotateOverloadedCall and AnnotateCall).  The
\* one refusal without a reason that the code is known for is LoneReplaced.
RefusesOnlyWrong ==
    Failed(cx) =>
        LET why == cx.error.why
            id == cx.error.at
        IN  CASE why = "undeclared" -> Undeclared(cx.heap[id]) \/ LoneReplaced(cx.heap[id].written)
              [] why = "import" -> WrongImport(cx.heap[id].name[1])
              [] why \in {"duplicate", "identical", "generics", "type"} -> WrongDeclaration(why, cx.heap[id].at)
              [] why \in {"conflict", "pragmas"} -> WrongComposition(why)
              [] why = "no value" -> LET body == source[source[cx.heap[id].at].kids[1]].kids
                                     IN  body = <<>> \/ source[Last(body)].kind \in {"assign", "var"}
              [] why = "not a function" -> \E call \in {c \in DOMAIN source : source[c].kind = "call"} : NoFunction(call)
              [] why \in {"no match", "ambiguous", "arity", "bindings", "convert"} ->
                   IF cx.heap[id].kind = "call" THEN WrongCall(why, id) ELSE WrongValue(id)
              [] OTHER -> FALSE
-----------------------------------------------------------------------------
\* Whatever a lowered function or a global initializer calls is lowered too, unless the
\* runtime has it; no function of a module is that nothing needs; no blueprint is, and no
\* two instances of one name; and the run starts in the program, not in one of its modules
\* (collectReferencedFunctions, GetEntryPoint, InstantiateGenericFunction).
CalleesAreLowered ==
    done = "lower" /\ ~ Failed(cx) =>
        /\ \A s \in Callees(cx, lowered) : cx.heap[NodeOf(cx, s)].extern \/ NodeOf(cx, s) \in ToSet(lowered)
        /\ \A id \in ToSet(lowered) : cx.heap[id].origin # "" => \E s \in Callees(cx, lowered) : NodeOf(cx, s) = id
        /\ \A f, g \in ToSet(lowered) : cx.heap[f].generics = <<>> /\ (cx.heap[f].name = cx.heap[g].name => f = g)
        /\ \A e \in {GetEntryPoint(cx, lowered)[i] : i \in {1} \cap DOMAIN GetEntryPoint(cx, lowered)} :
               cx.heap[e].origin = "" \/ ~ \E f \in ToSet(lowered) : cx.heap[f].origin = "" /\ cx.heap[f].params = <<>> /\ Len(cx.heap[f].name) = 1
=============================================================================
