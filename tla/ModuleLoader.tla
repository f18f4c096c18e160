---------------------------- MODULE ModuleLoader ----------------------------
(***************************************************************************)
(* Loading the source modules a program uses (LoadAndCompose in            *)
(* src/qumir/frontend/compose.cpp, TSourceModuleLoader in                  *)
(* source_module_loader.cpp).                                              *)
(*                                                                         *)
(* LoadAndCompose runs through the program's uses and LoadAst through      *)
(* those of the module it loads, each from inside the one before: `loops`  *)
(* has these loops from the program's down, and the names of all but the   *)
(* first are LoadStack.  A load that fails ends the loops one by one.      *)
(***************************************************************************)
EXTENDS SourceModules

CONSTANT Programs     \* the worlds: files, explicit modules, and the program

IsUse(stmt) == stmt.kind = "use"
NamesIn(stmts) == {stmts[i].name[1] : i \in {j \in DOMAIN stmts : IsUse(stmts[j])}}
NamesUsed(w) == NamesIn(w.main) \cup UNION {NamesIn(w.files[path].stmts) : path \in DOMAIN w.files}

ASSUME WorldsAssumption ==
    \A w \in Programs :
        /\ w.main \in Seq(ToSet(w.main))
        /\ \A path \in DOMAIN w.files : w.files[path].stmts \in Seq(ToSet(w.files[path].stmts))
        /\ \A name \in NamesUsed(w) : ResolvePath(w, name) # <<>> => ResolvePath(w, name) \in DOMAIN w.files

VARIABLES
    world,     \* the files and the program, which stay as they are
    loops,     \* the loops that are running: whose uses, and the last statement seen
    cache,     \* name |-> where its loading stands
    order,     \* CompletionOrder
    error      \* why the load failed, "" while it did not
loaderVars == <<world, loops, cache, order, error>>

LoaderInit ==
    /\ world \in Programs
    /\ loops = <<[name |-> "<main>", seen |-> 0]>>
    /\ cache = <<>> /\ order = <<>> /\ error = ""

FileOf(name) == world.files[ResolvePath(world, name)]
StmtsOf(i) == IF i = 1 THEN world.main ELSE FileOf(loops[i].name).stmts
Stmts == IF loops = <<>> THEN <<>> ELSE StmtsOf(Len(loops))     \* of the innermost loop

Mark(name, state) == cache' = [n \in DOMAIN cache \cup {name} |-> IF n = name THEN state ELSE cache[n]]

\* The innermost loop comes to its next use, in statement k.
Sees(k) == [loops EXCEPT ![Len(loops)].seen = k]
ComesTo(k) ==
    /\ error = "" /\ loops # <<>>
    /\ k > loops[Len(loops)].seen /\ IsUse(Stmts[k])
    /\ \A j \in loops[Len(loops)].seen + 1..k - 1 : ~ IsUse(Stmts[j])
Used(k) == Stmts[k].name[1]

Resolvable(name) == name \in DOMAIN cache \/ ResolvePath(world, name) # <<>>

\* A use that resolves to no source module is left to the import of runtime modules.
SkipExternal(k) ==
    /\ ComesTo(k) /\ ~ Resolvable(Used(k))
    /\ loops' = Sees(k)
    /\ UNCHANGED <<world, cache, order, error>>

\* Mutant of ReuseLoaded: a module that is still being loaded will do.
ReuseCached(k) ==
    /\ ComesTo(k) /\ Used(k) \in DOMAIN cache
    /\ loops' = Sees(k)
    /\ UNCHANGED <<world, cache, order, error>>

ReuseLoaded(k) ==
    /\ ComesTo(k) /\ Used(k) \in DOMAIN cache /\ cache[Used(k)] = "loaded"
    /\ loops' = Sees(k)
    /\ UNCHANGED <<world, cache, order, error>>

\* It is being loaded, by a loop further out, or has failed before.
RefuseCached(k) ==
    /\ ComesTo(k) /\ Used(k) \in DOMAIN cache /\ cache[Used(k)] # "loaded"
    /\ error' = IF cache[Used(k)] = "loading" THEN "cycle" ELSE "failed before"
    /\ loops' = Sees(k)
    /\ UNCHANGED <<world, cache, order>>

ComesToNew(k) == ComesTo(k) /\ Used(k) \notin DOMAIN cache /\ ResolvePath(world, Used(k)) # <<>>

\* Neither a file that does not parse nor one that a module may not have is loaded.
RefuseFile(k) ==
    /\ ComesToNew(k)
    /\ ~ (FileOf(Used(k)).parses /\ CollectInterface(FileOf(Used(k)).stmts))
    /\ error' = IF FileOf(Used(k)).parses THEN "interface" ELSE "unparsable"
    /\ Mark(Used(k), "failed")
    /\ loops' = Sees(k)
    /\ UNCHANGED <<world, order>>

\* The module is marked as loading until the modules it uses are loaded.
EnterModule(k) ==
    /\ ComesToNew(k)
    /\ FileOf(Used(k)).parses /\ CollectInterface(FileOf(Used(k)).stmts)
    /\ Mark(Used(k), "loading")
    /\ loops' = Append(Sees(k), [name |-> Used(k), seen |-> 0])
    /\ UNCHANGED <<world, order, error>>

Innermost == loops[Len(loops)].name
LeaveLoop == loops' = SubSeq(loops, 1, Len(loops) - 1)

\* No use is left: the module is complete, or all modules of the program are.
SeenAll == loops # <<>> /\ \A k \in DOMAIN Stmts : k > loops[Len(loops)].seen => ~ IsUse(Stmts[k])
FinishModule ==
    /\ error = "" /\ SeenAll /\ Len(loops) > 1
    /\ Mark(Innermost, "loaded")
    /\ order' = Append(order, Innermost)
    /\ LeaveLoop
    /\ UNCHANGED <<world, error>>
FinishProgram ==
    /\ error = "" /\ SeenAll /\ Len(loops) = 1
    /\ LeaveLoop
    /\ UNCHANGED <<world, cache, order, error>>

\* The error is passed on, and the module whose loop it leaves has failed as well.
PassOn ==
    /\ error # "" /\ loops # <<>>
    /\ IF Len(loops) = 1 THEN UNCHANGED cache ELSE Mark(Innermost, "failed")
    /\ LeaveLoop
    /\ UNCHANGED <<world, order, error>>

SeeUse == \E k \in DOMAIN Stmts :
              SkipExternal(k) \/ ReuseLoaded(k) \/ RefuseCached(k) \/ RefuseFile(k) \/ EnterModule(k)
LoaderNext == SeeUse \/ FinishModule \/ FinishProgram \/ PassOn
LoaderSpec == LoaderInit /\ [][LoaderNext]_loaderVars
-----------------------------------------------------------------------------
\* What the program needs.

Sources == {name \in NamesUsed(world) : ResolvePath(world, name) # <<>>}
Wanted == NamesIn(world.main) \cap Sources
UsesOfFile(name) == NamesIn(FileOf(name).stmts) \cap Sources

\* The least set of modules that has `names` and whatever its members use.
Closed(names) == \A name \in names : UsesOfFile(name) \subseteq names
Needed(names) == {name \in Sources : \A closed \in SUBSET Sources : names \subseteq closed /\ Closed(closed) => name \in closed}
NeedsItself(name) == name \in Needed(UsesOfFile(name))
IsSoundFile(name) ==
    /\ FileOf(name).parses
    /\ \A i \in DOMAIN FileOf(name).stmts :
           LET stmt == FileOf(name).stmts[i] IN stmt.kind \in {"use", "var", "fun"} /\ (stmt.kind = "fun" => stmt.name # Main)

\* The modules that are composed are exactly those the program needs, directly or through
\* others, each once and after all it uses; loading fails only when one of them cannot be a
\* module or needs itself (TSourceModuleLoader::LoadAst and CompletionOrder; "dependencies
\* first", docs/arch/core-lang.md).
LoadsInOrder ==
    IF error # "" THEN \E name \in Needed(Wanted) : ~ IsSoundFile(name) \/ NeedsItself(name)
    ELSE loops = <<>> =>
        /\ ToSet(order) = Needed(Wanted)
        /\ \A i \in DOMAIN order :
               /\ IsSoundFile(order[i])
               /\ UsesOfFile(order[i]) \subseteq {order[j] : j \in 1..i - 1}
               /\ \A j \in 1..i - 1 : order[j] # order[i]
=============================================================================
