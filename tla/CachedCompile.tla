---------------------------- MODULE CachedCompile ----------------------------
(***************************************************************************)
(* The user of the symbol object cache: TLLVMRunner::                      *)
(* PrepareFusedKernelsCached (runner/runner_llvm.cpp) followed by          *)
(* TLlvmRunner::LinkAndLookup (codegen/llvm/llvm_runner.cpp).  Each job    *)
(* lowers a kernel, opens the cache, splits the required symbols in hits   *)
(* and misses, compiles and registers the misses one by one, drops the     *)
(* cache, and only then loads the hit objects from disk, next to the       *)
(* objects it has compiled itself.  The jobs, one per thread of            *)
(* SymbolObjectCache and each with an instance of its own, run in parallel *)
(* on one cache directory.                                                 *)
(***************************************************************************)
EXTENDS SymbolObjectCache, Sequences

CONSTANT Required   \* CollectCacheableSymbols of the module a job lowers

ASSUME CompileAssumption ==
    /\ Required \in [Threads -> Seq(Symbols)]
    /\ \A t, u \in Threads : InstanceOf[t] = InstanceOf[u] => t = u

VARIABLES
    phase,    \* what the job is doing
    misses,   \* plan.Misses still to compile, as their places in Required
    hits,     \* plan.ObjectFiles still to load
    pieces    \* what each piece added to the JIT (at first: each of depBlobs) defines

jobVars == <<phase, misses, hits, pieces>>
allVars == <<vars, jobVars>>

Ended == {"linked", "failed", "crashed"}

Become(t, p) == phase' = [phase EXCEPT ![t] = p]

CompileInit ==
    /\ Init
    /\ phase  = [t \in Threads |-> "new"]
    /\ misses = [t \in Threads |-> {}]
    /\ hits   = [t \in Threads |-> {}]
    /\ pieces = [t \in Threads |-> <<>>]

\* TSymbolObjectCache::Resolve, on the map in memory: the objects of the cached
\* symbols, each once, and the others in the order required, each once.
Asked(required) == {required[k] : k \in DOMAIN required}

ResolvedObjects(map, required) == {map[s] : s \in Asked(required) \cap Known(map)}

\* Mutant of ResolvedMisses: a symbol required twice is missed twice.
ResolvedMissesRepeated(map, required) == {k \in DOMAIN required : required[k] \notin Known(map)}

ResolvedMisses(map, required) ==
    {k \in DOMAIN required : /\ required[k] \notin Known(map)
                             /\ \A j \in DOMAIN required : required[j] = required[k] => k <= j}

OpenCache(t) ==
    /\ phase[t] = "new"
    /\ OpenLock(t)
    /\ Become(t, "opening")
    /\ UNCHANGED <<misses, hits, pieces>>

OpenReturns(t) ==
    /\ phase[t] = "opening"
    /\ OpenRead(t)
    /\ Become(t, "opened")
    /\ UNCHANGED <<misses, hits, pieces>>

Resolve(t) ==
    /\ phase[t] = "opened"
    /\ hits' = [hits EXCEPT ![t] = ResolvedObjects(mem[InstanceOf[t]], Required[t])]
    /\ misses' = [misses EXCEPT ![t] = ResolvedMisses(mem[InstanceOf[t]], Required[t])]
    /\ Become(t, "compiling")
    /\ UNCHANGED <<vars, pieces>>

IsNext(t, k) == k \in misses[t] /\ \A j \in misses[t] : k <= j

\* EmitLoweredModule({miss}) succeeds and the object goes to Register.
CompileMiss(t) ==
    /\ phase[t] = "compiling"
    /\ \E k \in misses[t] : IsNext(t, k) /\ RegisterLock(t, {Required[t][k]})
    /\ Become(t, "registering")
    /\ UNCHANGED <<misses, hits, pieces>>

\* Register runs; when it has returned, an error ends the job, and otherwise
\* (Installed or AlreadyPresent alike) the job keeps its own object.  (The map
\* of a job that failed here stays in `mem`: one more stale view to withstand.)
RegisterMiss(t) ==
    /\ phase[t] = "registering"
    /\ CallStep(t)
    /\ \/ pc'[t] # "idle" /\ UNCHANGED jobVars
       \/ /\ pc'[t] = "idle" /\ call'[t].result = "error"
          /\ Become(t, "failed") /\ UNCHANGED <<misses, hits, pieces>>
       \/ /\ pc'[t] = "idle" /\ call'[t].result # "error"
          /\ \E k \in misses[t] :
               /\ IsNext(t, k)
               /\ pieces' = [pieces EXCEPT ![t] = Append(@, {Required[t][k]})]
               /\ misses' = [misses EXCEPT ![t] = @ \ {k}]
          /\ Become(t, "compiling")
          /\ UNCHANGED hits

\* The local `cache` is destroyed when PrepareFusedKernelsCached returns.
CloseCache(t) == opened' = opened \ {InstanceOf[t]}
                 /\ mem' = [mem EXCEPT ![InstanceOf[t]] = Nothing]

\* All misses done: the kernel module is emitted with every cacheable
\* dependency external, and preparation returns.
EmitKernel(t) ==
    /\ phase[t] = "compiling"
    /\ misses[t] = {}
    /\ CloseCache(t)
    /\ Become(t, "linking")
    /\ UNCHANGED <<objects, meta, metaTmp, lock, pc, call, misses, hits, pieces>>

\* Code generation of a miss or of the kernel fails.
EmitFails(t) ==
    /\ phase[t] = "compiling"
    /\ CloseCache(t)
    /\ Become(t, "failed")
    /\ UNCHANGED <<objects, meta, metaTmp, lock, pc, call, misses, hits, pieces>>

\* LinkAndLookup: one more object file is read and added to the JIT.
LinkObject(t) ==
    /\ phase[t] = "linking"
    /\ \E n \in hits[t] :
         \/ /\ n \in DOMAIN objects
            /\ pieces' = [pieces EXCEPT ![t] = Append(@, objects[n])]
            /\ hits' = [hits EXCEPT ![t] = @ \ {n}]
            /\ UNCHANGED phase
         \/ /\ n \notin DOMAIN objects
            /\ Become(t, "objectMissing") /\ UNCHANGED <<hits, pieces>>
    /\ UNCHANGED <<vars, misses>>

Defined(t) == UNION {pieces[t][k] : k \in DOMAIN pieces[t]}
DefinedTwice(t) == \E j, k \in DOMAIN pieces[t] : j # k /\ pieces[t][j] \cap pieces[t][k] # {}

\* LinkAndLookup: all files and blobs added, the kernel names are looked up.
Lookup(t) ==
    /\ phase[t] = "linking"
    /\ hits[t] = {}
    /\ Become(t, IF DefinedTwice(t) THEN "symbolDuplicated"
                 ELSE IF Asked(Required[t]) \subseteq Defined(t) THEN "linked" ELSE "symbolMissing")
    /\ UNCHANGED <<vars, misses, hits, pieces>>

\* The job's process dies; nothing restarts it.
JobCrash(t) ==
    /\ phase[t] \notin Ended \cup {"new", "linking"}
    /\ Crash(InstanceOf[t])
    /\ Become(t, "crashed")
    /\ UNCHANGED <<misses, hits, pieces>>

JobStep(t) ==
    \/ OpenCache(t) \/ OpenReturns(t) \/ Resolve(t)
    \/ CompileMiss(t) \/ RegisterMiss(t) \/ EmitKernel(t) \/ EmitFails(t)
    \/ LinkObject(t) \/ Lookup(t)

CompileNext == \E t \in Threads : JobStep(t) \/ JobCrash(t)

CompileSteps == CompileInit /\ [][CompileNext]_allVars

\* Every job is a thread the operating system runs, so a step it can take
\* forever is taken.  That is enough for the lock as well: a job takes it
\* finitely often, so the others cannot keep one waiting forever.
CompileSpec == /\ CompileSteps
               /\ \A t \in Threads : WF_allVars(JobStep(t))
-----------------------------------------------------------------------------
JobFailures == {"objectMissing", "symbolDuplicated", "symbolMissing"}

\* Linking a job never fails because of the cache: whatever the other jobs
\* registered, failed to register or left half done between its Resolve and
\* its link, each object file of the plan is still there, and the files and the
\* job's own objects define every required symbol exactly once (the comment at
\* runner_llvm.cpp:579-582 and 597-600).
LinksExactly == \A t \in Threads : phase[t] \notin JobFailures

\* Every job ends: no order of lock requests, failures and crashes of others
\* leaves one waiting.
EveryJobEnds == \A t \in Threads : <>(phase[t] \in Ended)
=============================================================================
