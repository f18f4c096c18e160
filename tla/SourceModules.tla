--------------------------- MODULE SourceModules ---------------------------
(***************************************************************************)
(* Source modules: where a name leads, what a file may have when it is     *)
(* used as a module, and how the modules are inlined into the program      *)
(* (src/qumir/frontend/source_module_loader.cpp and compose.cpp).          *)
(*                                                                         *)
(* The world has the files of a search directory, by name; each is its     *)
(* path, whether it parses, its pragma values of the group "language"      *)
(* (<<>> for none), and its top-level statements.  A statement is a tree   *)
(* of the core language: see NameResolver for its fields.                  *)
(***************************************************************************)
EXTENDS Integers, Sequences, SequencesExt, FiniteSetsExt, TLC

CONSTANTS
    SearchPaths,      \* the search directories, in order
    Aliases           \* display name |-> module name (the modalias files)

NoError == [why |-> "", at |-> 0]

Failed(x) == x.error.why # ""
FailsWith(x, why, at) == [x EXCEPT !.error = [why |-> why, at |-> at]]

\* Names of functions and types are sequences of strings; those of modules are strings.
Main == <<"<main>">>
-----------------------------------------------------------------------------
\* Files.

\* Explicitly registered modules come first, then the directories in order.
ResolvePath(world, name) ==
    LET resolved == IF name \in DOMAIN Aliases THEN Aliases[name] ELSE name
        here == SelectSeq(SearchPaths, LAMBDA dir : <<dir, resolved>> \in DOMAIN world.files)
    IN  IF resolved \in DOMAIN world.explicit THEN <<world.explicit[resolved], resolved>>
        ELSE IF here = <<>> THEN <<>> ELSE <<Head(here), resolved>>

\* What a module may have at its top level.
IsExport(stmt) == stmt.kind \in {"use", "var"} \/ (stmt.kind = "fun" /\ stmt.name # Main)
CollectInterface(stmts) == \A i \in DOMAIN stmts : IsExport(stmts[i])
-----------------------------------------------------------------------------
\* Composition.

\* The modules of a world that were loaded, in the order in which they were completed.
ModulesIn(world, order) == [i \in DOMAIN order |-> world.files[ResolvePath(world, order[i])]]
UnitsOf(world, order) == [i \in DOMAIN order |-> [stmts |-> ModulesIn(world, order)[i].stmts, origin |-> order[i]]]

\* One group: the first values stand, others must be the same.
MergePragmas(world, order) ==
    LET given == Append([i \in DOMAIN order |-> ModulesIn(world, order)[i].pragmas], world.pragmas)
        values == SelectSeq(given, LAMBDA v : v # <<>>)
    IN  [ok |-> Cardinality(ToSet(values)) <= 1, values |-> IF values = <<>> THEN <<>> ELSE Head(values)]
AllowsOverloads(pragmas) == "overloads" \in ToSet(pragmas)

\* Globals are unique; functions share a name only with the pragma.
CheckConflicts(stmts, allowOverloads) ==
    \E i, j \in DOMAIN stmts :
        /\ i # j
        /\ {stmts[i].kind, stmts[j].kind} \subseteq {"fun", "var"}
        /\ stmts[i].name = stmts[j].name
        /\ stmts[i].kind = "var" \/ stmts[j].kind = "var" \/ ~ allowOverloads

\* Statements of modules carry their module; a use of a composed module is marked.
Originated(unit, names) ==
    [i \in DOMAIN unit.stmts |->
        [unit.stmts[i] EXCEPT !.origin = unit.origin, !.resolved = unit.stmts[i].kind = "use" /\ unit.stmts[i].name[1] \in names]]

OfKind(stmts, kinds) == SelectSeq(stmts, LAMBDA stmt : stmt.kind \in kinds)
\* The first use of every module.
OncePerModule(uses) ==
    LET first == {i \in DOMAIN uses : \A j \in 1..i - 1 : uses[j].name # uses[i].name}
    IN  [k \in 1..Cardinality(first) |-> uses[SetToSortSeq(first, <)[k]]]

\* Units come dependencies first and the program last; so do the globals, while the
\* program's functions come before those of the modules.
InOrder(own, modules) ==
    OncePerModule(OfKind(modules \o own, {"use"}))
        \o OfKind(modules \o own, {"var", "assign"})
        \o OfKind(own, {"fun"}) \o OfKind(modules, {"fun"})
        \o SelectSeq(own, LAMBDA stmt : stmt.kind \notin {"use", "var", "assign", "fun"})

ComposeUnits(own, modules, pragmas) ==
    [error |-> IF ~ pragmas.ok THEN [why |-> "pragmas", at |-> 0]
               ELSE IF CheckConflicts(own \o modules, AllowsOverloads(pragmas.values)) THEN [why |-> "conflict", at |-> 0]
               ELSE NoError,
     stmts |-> InOrder(own, modules), pragmas |-> pragmas.values]

\* A program without source modules is left as it is.
Compose(world, order) ==
    IF order = <<>> THEN [error |-> NoError, stmts |-> world.main, pragmas |-> world.pragmas]
    ELSE ComposeUnits(Originated([stmts |-> world.main, origin |-> ""], ToSet(order)),
                      FlattenSeq([i \in DOMAIN order |-> Originated(UnitsOf(world, order)[i], ToSet(order))]),
                      MergePragmas(world, order))
=============================================================================
