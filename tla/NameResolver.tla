---------------------------- MODULE NameResolver ----------------------------
(***************************************************************************)
(* Name resolution                                                         *)
(* (src/qumir/semantics/name_resolution/name_resolver.cpp).                *)
(*                                                                         *)
(* Nodes are objects that the symbol table and the tree share, so they are *)
(* kept in a heap and named by their places in it; a node's kids and       *)
(* params are places.  `at` is the place of the node it was made from: its *)
(* own in the program as written, where its name was `written`.  Names and *)
(* types are sequences of strings: <<"f">>, <<"array", "i64">>, <<"T">>; a *)
(* made-up name is longer than a written one.  No type, no scope and an    *)
(* absent place are <<>>, 0.                                               *)
(*                                                                         *)
(* The context has the heap, the scopes and the symbols, the modules and   *)
(* names imported, the instances made since the last annotation, the first *)
(* error, and in `it` what the last step returned.                         *)
(***************************************************************************)
EXTENDS SourceModules

CONSTANT Registry     \* the runtime modules: name |-> [functions, dependencies]

Tree(kind, name, t, kids) ==
    [kind |-> kind, name |-> name, written |-> name, t |-> t, kids |-> kids, generics |-> <<>>, params |-> <<>>, ret |-> <<>>,
     origin |-> "", resolved |-> FALSE, extern |-> FALSE, scope |-> 0, at |-> 0]
Fun(name, generics, params, ret, body) ==
    [Tree("fun", name, <<"fun">>, <<body>>) EXCEPT !.generics = generics, !.params = params, !.ret = ret]

NewScope(cx, parent, generics) ==
    [cx EXCEPT !.scopes = Append(@, [parent |-> parent, names |-> <<>>, sets |-> <<>>, generics |-> ToSet(generics)]),
               !.it = Len(cx.scopes) + 1]
Root == 1
NewResolver ==
    NewScope([heap |-> <<>>, root |-> 0, scopes |-> <<>>, symbols |-> <<>>, overloads |-> FALSE, imported |-> {},
              importedNames |-> {}, instances |-> <<>>, error |-> NoError, it |-> 0], 0, <<>>)

Make(cx, node) == [cx EXCEPT !.heap = Append(@, node), !.it = Len(cx.heap) + 1]

\* The nodes of trees from a place on, kids before parents, and the places of the roots.
Parts(tree) == tree.params \o tree.kids
RECURSIVE Size(_)
Size(tree) == 1 + SumFunction([i \in DOMAIN Parts(tree) |-> Size(Parts(tree)[i])])
Places(trees, base) == [i \in DOMAIN trees |-> base + SumFunctionOnSet([j \in 1..i |-> Size(trees[j])], 1..i)]
RECURSIVE Flat(_, _)
FlatAll(trees, base) == FlattenSeq([i \in DOMAIN trees |-> Flat(trees[i], (<<base>> \o Places(trees, base))[i])])
Flat(tree, base) ==
    Append(FlatAll(Parts(tree), base),
           [tree EXCEPT !.params = Places(tree.params, base),
                        !.kids = SubSeq(Places(Parts(tree), base), Len(tree.params) + 1, Len(Parts(tree))),
                        !.at = base + Size(tree)])
Plant(heap, tree) == heap \o Flat(tree, Len(heap))

IsFun(cx, id) == cx.heap[id].kind = "fun"
NodeOf(cx, symbol) == cx.symbols[symbol].node
Then(cx, Step(_)) == IF Failed(cx) THEN cx ELSE Step(cx)
-----------------------------------------------------------------------------
\* Scopes.

RECURSIVE Chain(_, _)
Chain(cx, scope) == IF scope = 0 THEN <<>> ELSE <<scope>> \o Chain(cx, cx.scopes[scope].parent)

\* The symbol a name denotes, 0 when there is none.
Lookup(cx, name, scope) ==
    LET found == SelectSeq(Chain(cx, scope), LAMBDA s : name \in DOMAIN cx.scopes[s].names)
    IN  IF found = <<>> THEN 0 ELSE cx.scopes[Head(found)].names[name]

\* All functions a name denotes: the overload set or the one symbol of the innermost
\* scope that has either.
LookupOverloads(cx, name, scope) ==
    LET found == SelectSeq(Chain(cx, scope),
                     LAMBDA s : name \in DOMAIN cx.scopes[s].sets \cup DOMAIN cx.scopes[s].names)
    IN  IF found = <<>> THEN <<>>
        ELSE IF name \in DOMAIN cx.scopes[Head(found)].sets THEN cx.scopes[Head(found)].sets[name]
        ELSE <<cx.scopes[Head(found)].names[name]>>

IsGenericTypeParam(cx, name, scope) == \E i \in DOMAIN Chain(cx, scope) : name \in cx.scopes[Chain(cx, scope)[i]].generics

PlainTypes == {"i32", "i64", "u32", "f64", "bool", "void", "fun"}
ResolveTypeRef(cx, type, scope, at) ==
    IF Failed(cx) \/ type = <<>> \/ Last(type) \in PlainTypes \/ IsGenericTypeParam(cx, Last(type), scope) THEN cx
    ELSE FailsWith(cx, "type", at)
-----------------------------------------------------------------------------
\* Declarations.

\* Generic parameters count by their places, not by their names.
OverloadTypeKey(type, generics) ==
    [i \in DOMAIN type |->
        IF type[i] \in ToSet(generics) THEN <<"T0", "T1">>[SelectInSeq(generics, LAMBDA g : g = type[i])] ELSE type[i]]
ParamKeys(cx, id) ==
    [i \in DOMAIN cx.heap[id].params |-> OverloadTypeKey(cx.heap[cx.heap[id].params[i]].t, cx.heap[id].generics)]
\* Mutant of ParamTypesSame: generic parameters count by their names.
ParamTypesSameAsWritten(cx, a, b) ==
    [i \in DOMAIN cx.heap[a].params |-> cx.heap[cx.heap[a].params[i]].t]
        = [i \in DOMAIN cx.heap[b].params |-> cx.heap[cx.heap[b].params[i]].t]

ParamTypesSame(cx, a, b) == ParamKeys(cx, a) = ParamKeys(cx, b)

Signature(prefix, name, ret, types) == <<prefix>> \o name \o <<"$">> \o ret \o FlattenSeq([i \in DOMAIN types |-> <<"$">> \o types[i]])
OverloadMangledName(cx, name, id) ==
    Signature("__overload", name, OverloadTypeKey(cx.heap[id].ret, cx.heap[id].generics), ParamKeys(cx, id))

DeclareNew(cx, name, id, scope) ==
    [cx EXCEPT !.symbols = Append(@, [name |-> name, node |-> id]), !.it = Len(cx.symbols) + 1,
               !.scopes[scope].names = (name :> Len(cx.symbols) + 1) @@ @]

\* A made-up name is declared at the top level.
JoinOverloadSet(cx, name, id, scope, synth) ==
    IF synth \in DOMAIN cx.scopes[Root].names THEN FailsWith(cx, "throws", id)
    ELSE [DeclareNew([cx EXCEPT !.heap[id].name = synth], synth, id, Root)
              EXCEPT !.scopes[scope].sets[name] = Append(@, Len(cx.symbols) + 1)]
\* A function of the program may replace a runtime function of the same types.
RegisterOverloadEntry(cx, name, id, scope) ==
    LET same == SelectSeq(cx.scopes[scope].sets[name], LAMBDA s : ParamTypesSame(cx, id, NodeOf(cx, s)))
    IN  CASE same = <<>> -> JoinOverloadSet(cx, name, id, scope, OverloadMangledName(cx, name, id))
          [] same # <<>> /\ cx.heap[NodeOf(cx, Head(same))].extern /\ ~ cx.heap[id].extern ->
               [cx EXCEPT !.heap[id].name = cx.heap[NodeOf(cx, Head(same))].name,
                          !.symbols[Head(same)].node = id, !.it = Head(same)]
          [] OTHER -> FailsWith(cx, "identical", id)

\* The first function of the name moves into the set, under a made-up name.
StartOverloadSet(cx, name, existing, id, scope) ==
    Then(RegisterOverloadEntry(
             [cx EXCEPT !.scopes[scope].sets = (name :> <<>>) @@ @,
                        !.scopes[scope].names = [n \in DOMAIN @ \ {name} |-> @[n]]],
             name, NodeOf(cx, existing), scope),
         LAMBDA c : RegisterOverloadEntry(c, name, id, scope))

Declare(cx, name, id, scope) ==
    LET known == name \in DOMAIN cx.scopes[scope].names
        overloads == cx.overloads /\ IsFun(cx, id)
    IN  CASE Failed(cx) -> cx
          [] ~ Failed(cx) /\ overloads /\ name \in DOMAIN cx.scopes[scope].sets -> RegisterOverloadEntry(cx, name, id, scope)
          [] ~ Failed(cx) /\ ~ (overloads /\ name \in DOMAIN cx.scopes[scope].sets) /\ known ->
               IF overloads /\ IsFun(cx, NodeOf(cx, cx.scopes[scope].names[name]))
               THEN StartOverloadSet(cx, name, cx.scopes[scope].names[name], id, scope)
               ELSE FailsWith(cx, "duplicate", id)
          [] OTHER -> DeclareNew(cx, name, id, scope)

DeclareAll(cx, ids, scope) == FoldLeft(LAMBDA c, id : Declare(c, cx.heap[id].name, id, scope), cx, ids)
-----------------------------------------------------------------------------
\* Importing runtime modules.

Arguments(function) == [i \in DOMAIN function.params |-> Tree("var", <<"arg">>, function.params[i], <<>>)]
External(cx, function, module) ==
    LET ids == Places(Arguments(function), Len(cx.heap))
    IN  Make([cx EXCEPT !.heap = @ \o FlatAll(Arguments(function), Len(@))],
             [Tree("fun", function.name, <<"fun">>, <<>>) EXCEPT !.params = ids, !.ret = function.ret,
                  !.extern = TRUE, !.origin = module, !.at = Len(cx.heap) + Len(ids) + 1])
DeclareExternal(cx, function, module) ==
    LET new == External(cx, function, module)
        declared == Declare([new EXCEPT !.importedNames = @ \cup {function.name}], function.name, new.it, Root)
    IN  IF Failed(declared) THEN FailsWith(declared, "throws", new.it) ELSE declared

Conflicts(cx, module) == \E i \in DOMAIN Registry[module].functions : Registry[module].functions[i].name \in cx.importedNames

\* The names are compared before the dependencies bring in theirs, and dependencies that
\* were imported stay when a later one cannot be.
RECURSIVE ImportModule(_, _)
ImportFunctions(cx, module) ==
    FoldLeft(LAMBDA c, function : Then(c, LAMBDA d : DeclareExternal(d, function, module)), cx, Registry[module].functions)
\* Up to the first one that cannot be imported.
ImportDependencies(cx, deps) ==
    FoldLeft(LAMBDA c, i : IF ToSet(SubSeq(deps, 1, i - 1)) \subseteq c.imported THEN ImportModule(c, deps[i]) ELSE c,
             cx, [i \in DOMAIN deps |-> i])
FinishImport(cx, module) ==
    IF ToSet(Registry[module].dependencies) \subseteq cx.imported THEN ImportFunctions(cx, module)
    ELSE [cx EXCEPT !.imported = @ \ {module}]
ImportModule(cx, module) ==
    IF module \in cx.imported \/ module \notin DOMAIN Registry \/ Failed(cx) \/ Conflicts(cx, module) THEN cx
    ELSE FinishImport(ImportDependencies([cx EXCEPT !.imported = @ \cup {module}], Registry[module].dependencies), module)

\* The runtime modules a program uses; those that were composed are marked.
PendingUses(cx) == SelectSeq(cx.heap[cx.root].kids, LAMBDA id : cx.heap[id].kind = "use" /\ ~ cx.heap[id].resolved)
\* What fails here is not imported, which nobody is told.
ImportUseStmts(cx) == FoldLeft(LAMBDA c, id : ImportModule(c, c.heap[id].name[1]), cx, PendingUses(cx))

\* Mutant of ImportPendingCoreUses: what cannot be imported is left out.
ImportQuietly(cx) == ImportUseStmts(cx)

\* The pipeline imports before it resolves, and reports what it could not import.
ImportPendingCoreUses(cx) ==
    LET new == ImportUseStmts(cx)
        left == SelectSeq(PendingUses(cx), LAMBDA id : cx.heap[id].name[1] \notin new.imported)
    IN  IF Failed(new) \/ left = <<>> THEN new ELSE FailsWith(new, "import", Head(left))
-----------------------------------------------------------------------------
\* Resolution.

ValidateGenericParams(cx, id) ==
    IF Cardinality(ToSet(cx.heap[id].generics)) = Len(cx.heap[id].generics) THEN cx ELSE FailsWith(cx, "generics", id)

\* Functions are declared before any of their bodies is resolved, and only once.
OpenFunction(cx, id, scope) == 
    DeclareAll([NewScope(cx, scope, cx.heap[id].generics) EXCEPT !.heap[id].scope = Len(cx.scopes) + 1],
               cx.heap[id].params, Len(cx.scopes) + 1)
ResolveTopFuncDecl(cx, id) ==
    IF cx.heap[id].kind # "fun" \/ Failed(cx) THEN cx
    ELSE Then(ValidateGenericParams(cx, id),
              LAMBDA c : IF c.heap[id].scope # 0 THEN c
                         ELSE Then(Declare(c, c.heap[id].name, id, Root), LAMBDA d : OpenFunction(d, id, Root)))

ResolveParamTypes(cx, id, scope) ==
    FoldLeft(LAMBDA c, param : ResolveTypeRef(c, c.heap[param].t, scope, param),
             ResolveTypeRef(cx, cx.heap[id].ret, scope, id), cx.heap[id].params)

RECURSIVE Resolve(_, _, _)
ResolveAll(cx, ids, scope) == FoldLeft(LAMBDA c, id : Resolve(c, id, scope), cx, ids)

\* A block keeps the scope it got the first time.
ResolveBlock(cx, id, scope) ==
    IF cx.heap[id].scope # 0 THEN ResolveAll(cx, cx.heap[id].kids, cx.heap[id].scope)
    ELSE ResolveAll([NewScope(cx, scope, <<>>) EXCEPT !.heap[id].scope = Len(cx.scopes) + 1],
                    cx.heap[id].kids, Len(cx.scopes) + 1)
\* A variable is visible in its own initializer.
IsDeclared(cx, id, scope) ==
    cx.heap[id].name \in DOMAIN cx.scopes[scope].names /\ NodeOf(cx, cx.scopes[scope].names[cx.heap[id].name]) = id
ResolveVar(cx, id, scope) ==
    Then(ResolveTypeRef(cx, cx.heap[id].t, scope, id),
         LAMBDA c : ResolveAll(IF IsDeclared(c, id, scope) THEN c ELSE Declare(c, c.heap[id].name, id, scope),
                               c.heap[id].kids, scope))

\* Names of variables must denote something; names of functions may be overloaded.
ResolveName(cx, id, scope) ==
    IF \/ Lookup(cx, cx.heap[id].name, scope) # 0
       \/ cx.heap[id].kind = "ident" /\ LookupOverloads(cx, cx.heap[id].name, scope) # <<>>
    THEN cx ELSE FailsWith(cx, "undeclared", id)

Resolve(cx, id, scope) ==
    LET kind == cx.heap[id].kind
    IN  CASE Failed(cx) -> cx
          [] ~ Failed(cx) /\ kind = "fun" ->
               Then(ResolveParamTypes(cx, id, cx.heap[id].scope), LAMBDA c : ResolveAll(c, c.heap[id].kids, c.heap[id].scope))
          [] ~ Failed(cx) /\ kind = "block" -> ResolveBlock(cx, id, scope)
          [] ~ Failed(cx) /\ kind = "var" -> ResolveVar(cx, id, scope)
          [] ~ Failed(cx) /\ kind \in {"ident", "assign"} ->
               Then(ResolveName(cx, id, scope), LAMBDA c : ResolveAll(c, c.heap[id].kids, scope))
          [] OTHER -> ResolveAll(cx, cx.heap[id].kids, scope)

\* The whole program, as often as a pass asks for it.
ResolveFunctions(cx) == FoldLeft(ResolveTopFuncDecl, cx, cx.heap[cx.root].kids)
ResolveProgram(cx) ==
    Then(ResolveFunctions(ImportUseStmts([cx EXCEPT !.heap[cx.root].scope = Root])), LAMBDA c : Resolve(c, c.root, Root))

\* An instance of a generic function gets scopes of its own.
ResolveInstantiatedFunDecl(cx, id) ==
    Then(Declare(cx, cx.heap[id].name, id, Root),
         LAMBDA c : Then(ResolveParamTypes(OpenFunction(c, id, Root), id, Len(c.scopes) + 1),
                         LAMBDA d : [ResolveAll(d, d.heap[id].kids, d.heap[id].scope) EXCEPT !.instances = Append(@, id)]))
=============================================================================
