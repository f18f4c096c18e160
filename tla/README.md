# Formal model of qumir

qumir is a compiler and runtime for the Kumir teaching language (and for Oz, a
core language): parsers, semantic passes, an SSA intermediate representation, a
bytecode interpreter, an LLVM back end used as a JIT and as an ahead-of-time
compiler, native "executors" (robot, turtle, drawer, painter, files), a compile
service and a browser page that runs compiled WebAssembly.  This directory
holds TLA+ models of the parts of it where order, failure, sharing and the
interplay of passes matter, TLC configurations that check them, and TLAPS proofs.

Paths below are relative to the repository's root.

## 1. Inventory

What the system consists of, what each part keeps between calls, and what has to
be true of it.  The last column says where it is modelled; what each model
leaves out is in section 6 and in the notes of `PROJECT.json`.

### Compiler

| Part | State and operations | What makes it correct | Model |
|---|---|---|---|
| Lexer and parser of the educational language (`qumir/parser`) | token stream, one tree; sequential | accepts the grammar; positions in errors | no: sequential, covered by goldens |
| Core text (`parser/core`) | one tree, one token stream | what is printed parses to the same tree with the same types | `CorePrinter`, `CoreParser`, `CoreText` |
| Source modules and composition (`frontend`) | the cache and completion order of loaded modules, the composed tree | a module comes once and after those it uses; cycles and conflicts are reported | `SourceModules`, `ModuleLoader`, `ProjectRun` |
| Name resolution (`semantics/name_resolution`) | scopes, symbols, imported modules, overload sets | each use is bound to the innermost visible declaration; a program is refused only when it is wrong; a failed import leaves nothing | `NameResolver`, `ProjectRun` |
| Type annotation, coercions (`semantics/type_annotation`) | types on tree nodes, instances of generic functions; repeated until nothing changes | a call goes to the candidate no other beats, its arguments become what it takes; an instance means what its blueprint means | `OverloadedCalls`, `NumberTypes` |
| Transforms, coroutine propagation (`semantics/transform`) | functions that return `Future<T>`, awaits inserted | functions that reach a suspending call become coroutines | as the repetition they cause: `ProjectRun` |
| Definite assignment (`semantics/definite_assignment`) | variables assigned on every way here | no accepted function reads a variable before it is set | `DefiniteAssignment`, `PromotedRun` |
| Lifetime pass and validator (`semantics/lifetime`) | scopes of managed locals; retains, moves and cleanups inserted | no leak, no use after release, on any path; a second pass changes nothing | `Lifetime`, `OwnershipRun` |
| Lowering, IR builder (`ir/lowering`, `ir/builder.cpp`) | the function being built, the targets of exits; the functions reached so far | code does what the tree says; whatever is called is lowered | `AstLowering`, `OwnershipRun`, `PromotedRun`, `ProjectRun` |
| SSA in and out (`locals2ssa.cpp`, `de_ssa.cpp`) | current definitions per block, incomplete and trivial phis; parallel copies | the value read is that of the last write on the path taken; a removed phi leaves no user behind | `SSA`, `PromotedRun` |
| Constant folding, renumbering (`const_fold.cpp`, `renumber_regs.cpp`) | the users of each temporary, collected once | folding agrees with evaluation; nobody reads what was folded away | `ConstFold`, `PromotedRun` |
| Bytecode compiler (`vmcompiler.cpp`), FFI | code, constants, two files of registers | the interpreter shows what the types say | numbers: `BackEndNumbers`, `NumericRun` |
| LLVM code generation (`codegen/llvm/llvm_codegen.cpp`) | one LLVM module | compiled code shows what the types say | numbers: `BackEndNumbers`, `NumericRun` |
| Driver, module registries | tables, options | — | no |

### Running programs

| Part | State and operations | What makes it correct | Model |
|---|---|---|---|
| Futures (`qumir/future.h`, `runtime/future.cpp`) | promises shared by two futures, the handle of the awaiting frame in the promise; `await_suspend`, `resume`, wrapped LLVM frames | a promise resumes the frame that awaits it, once, while it exists | `AsyncRuntime` |
| Executors (`runtime/{robot,turtle,drawer,painter,io}.cpp`) | vectors of pending callbacks and futures; `process_events` moves them out and runs program code in the middle of its loop | every operation takes effect once, in order, before the program goes on | `AsyncRuntime` |
| Interpreter loop (`ir/eval.cpp`, `DoEvalRaw`) | one coroutine, a pass over the executors at a time, a final flush | the loop never runs dry; nothing is left for the next program | `InterpreterRun`, `NativeRun` |
| JIT loop (`codegen/llvm/llvm_runner.cpp`, `Run`) | a chain of LLVM frames, polled from the entry; longjmp target for failing assertions | a finished coroutine is collected; an assertion ends the run with a message | `JitRun`, `NativeRun` |
| Symbol object cache (`codegen/llvm/symbol_object_cache.*`) | a directory of object files, the map `meta.v1`, a lock file, the map in memory; `Open`, `Resolve`, `Register` by threads of several processes | objects stay disjoint and self-attributed, the first writer wins, a crash leaves the old map | `SymbolObjectCache` |
| Cached compilation (`runner/runner_llvm.cpp`, `LinkAndLookup`) | plan of hits and misses, objects to link | every required symbol is defined exactly once at link time | `CachedCompile` |
| Strings and arrays (`runtime/string.cpp`, `array.cpp`) | reference counts, an index of symbols; in-place change while unshared | value semantics; no count reaches zero twice | `StringRuntime`, `OwnershipRun` |
| Files (`runtime/io.cpp`) | handles with a free list, current input and output | a handle names its own file; a closed stream is not used | no: nothing says what a closed stream does |

### Service and page

| Part | State and operations | What makes it correct | Model |
|---|---|---|---|
| Compile service (`service/server.cpp`) | one thread of coroutines; version cache, pipes to the compiler, temporary files, shares on disk | no request waits for ever for a compiler that waits for it; answers are not mixed up; temporary files go away; a share is found under its own name | `CompileService` |
| Run and Stop (`service/static/app.js`) | stop signal, button state, one loop per run, suspended at a key, a timer or a paint | Stop ends the run and nothing of the program happens after it | `BrowserRun` |
| Future table (`runtime/future.js`) | table of futures and queue of operations shared by all runs of the page | a handle names the future of its own operation | `BrowserRun` |
| Keyboard (`runtime/keyboard.js`) | queue of keys, waiters | each key is read once, in order | `BrowserRun` |
| Executors on the page, views, projects, editor | canvas, DOM, local storage | — | no |

How they interact: the driver, the interpreter and the service call the compiler
in sequence; inside it every pass reads and rewrites one tree, later one function
at a time, and each relies on what the one before it left.  A compiled or
interpreted program calls executors, which hand out futures; an event loop
(`DoEvalRaw`, `Run`, `runWasmCoroutine`) visits the executors, which resume the
program from inside their own loops.  Compilations in several processes share
nothing but the symbol cache's directory; requests of the service share its thread,
its version cache and the temporary directory; runs of the page share the
JavaScript modules of the runtime.

The behaviours that are hard to test are listed in `PROJECT.json` under
`hazards`, each at its line with the properties that cover it.

## 2. Plan

Order of work; each group is modelled and checked, and proved about where the
provers reach.

1. **Symbol cache** — `SymbolRegistry` (what it promises), `SymbolObjectCache`
   (implements it), `CachedCompile` (composes it with its user).  *Done, proved.*
2. **Native event loops** — `ProgramEffects` (what a program may rely on),
   `AsyncRuntime`, and on top of it `InterpreterRun` and `JitRun`, which implement
   it and are run together in `NativeRun`.  *Done, proved.*
3. **Browser run** — `BrowserRun`.  *Done, proved* for one click at a time.
4. **Ownership** — `Lifetime` over `Ast`, `AstLowering`,
   `StringRuntime`, composed in `OwnershipRun` and compared with the evaluator in `Ast`.
   *Checked*; to add: strings in structs.
5. **Functions to SSA** — `DefiniteAssignment`, `SSA`, `ConstFold`,
   composed in `PromotedRun`.  *Checked.*
6. **Names and modules** — `ModuleLoader` over `SourceModules`, `NameResolver`,
   `OverloadedCalls`, composed in `ProjectRun`.  *Checked; the loader proved*; to
   add: the transforms between the passes, coroutine propagation first, and named
   types.
7. **Numbers** — `NumberTypes`, `BackEndNumbers`, compared in
   `NumericRun`.  *Done, proved.*
8. **Compile service** — `CompileService`.  *Done, proved.*
9. **Core text** — `CorePrinter`, `CoreParser`, composed in `CoreText`.  *Checked.*
10. **Files** — handles, current input and output.  *Open.*
11. **Proofs to add** — the parts of the algorithms over trees and functions that
    need no induction.

A run stays below about two hundred thousand states, so that the whole set can be
checked after every change; pure algorithms are checked in groups, one run for a
chain of passes.

## 3. Modules

A name that is also in the source keeps its spelling; `map` in `PROJECT.json` gives
the lines of each definition.  Modules called MC… hold the small instances for TLC.

### Symbol object cache

`SymbolRegistry` is the class comment of `symbol_object_cache.h` as a state
machine: `group` partitions the known symbols into objects, `Publish` adds a whole
new group of unknown symbols, an opened cache's `view` is the registry at some
moment (`Refresh`), and a process may end (`Forget`).

`SymbolObjectCache` has the files (`objects`, `meta`, `metaTmp`), the flock
(`lock`), the maps in memory (`mem`, `opened`) and per thread a program counter
and the locals of the call it is in (`call`).  A step is one file-system effect of
`Open` or `Register`: take the lock, read the map, write an object, write the
temporary map, rename it, remove the object of a failed registration, install the
map in memory and unlock.  Each can fail where the code tests for failure
(`Faults`), and `Crash` ends a process between any two of them, dropping its locks
and memory.  The fault `read`, a `meta.v1` that exists but cannot be opened
and so reads as empty, is in the model but in no run: with it the first writer does
not win, and `Register` overwrites objects that are in use.  An object file is the
set of symbols it defines; the fingerprint in the directory's name is left out,
since each directory is a cache of its own.

`CachedCompile` EXTENDS it with jobs: resolve required symbols to hits and misses,
compile and register the misses one by one, drop the cache, link hits and own
objects, look the symbols up.  `hits` are loaded after the lock is long gone, which
is why `LinksExactly` needs that referenced objects stay.

### Native event loops

`ProgramEffects` says what `docs/arch/coroutine.md` promises ("In source code this
behaves like a normal call") with operations only: `Call` and `Return`, `Draw` for
the void operations of the painter, `Apply` in the order of each executor, and
`Abandon` when a run is thrown away.

`AsyncRuntime` has the operations' fate (`applied`, `lost`), the executors' vectors
(`calls`, `futures`), the promises (`fired`, `callerOf`, `orphans`), the frames
(`depth`, `pos`, `fut`, and `lo..hi` on the native stack) and the pass of the event
loop (`loop`, `at`, `todoCalls`, `todoFutures`, `processed`, `flushing`).  The
program is any program: wherever a frame runs it may call an operation, draw,
call a coroutine or finish.  `RunFuture` is `TFutureBase::resume`, which
runs the program from inside `process_events`.  The constant `Paired` holds the
executors with one vector of pairs (robot, turtle, drawer), `Drawing` those with
void operations queued without a future (painter); one that is in neither is io.
`CallThrows` is `painter_new_sheet` rejecting its sizes, allowed when `BadSheets`:
the callbacks of the visit that have not run are `lost`, the frames are destroyed,
and the promises stay in `futures`.

`InterpreterRun` adds `DoEvalRaw`'s test and assertion, with a single frame.
`JitRun` adds `Run`: plain modules, the poll of the entry frame after each pass,
and `__ensure`, which longjmps while `guarded` and otherwise throws.
`NativeRun` is a process of `bin/interpreter.cpp`, which has one of the two engines
and may run several programs (`Eval` alone runs constructor, entry and destructor).
No run starts when something is `lost`: the error leaves `Eval` and `Run`, is
reported (`runner_ir.cpp:189`, `runner_llvm.cpp:276`), and the process ends.  A caller that went on
would meet the promise that the exception left in `g_pendingFutures`; this is one of
the findings.

### Browser

`BrowserRun` is one module because its parts share one stack: `turn` is the run
whose JavaScript is executing, `lo..hi` the WebAssembly frames below it, and a task
of the page (`KeyDown`, `ClickRun`, `RequestStop`, an instantiation, a timer)
happens when the stack is empty and no settled promise has a continuation to run
(`Quiet`; a continuation is a microtask).  `pc` is the place of a run in `runWasm`
and `runWasmCoroutine`.  The stop signal is the number of the click that created
it, since `resetCoroStopSignal` makes a new one; a run listens to the one that was
current when it began to wait (`sig`).  Handles count upwards here (the code's are
-1, -2, ...).  Keys are numbered as typed, so that an order can be stated; `base`
and `got` record the last reset and the keys read since.  Every program is taken to
use the keyboard.  `DoubleClick` says whether Run may be clicked again before the
first run has its module and disables the button.

### The tree and its lowering

`Ast` is the tree after name resolution: a node has a kind, a type, what it names and
its children; four types are told apart, since ownership depends on nothing else.
`AstLowering` is `TAstLowerer` over `TBuilder`: a lowering step takes the function
being built and returns it extended, the values of expressions are kept on a stack,
so that the order of side effects is that of the code.  It also has the graph of a
function and its reverse post-order (`BuildCfg`, `ComputeRPO`).

### Ownership

`Lifetime` is return normalization and `TLifetimeRewriter`: the tree comes back with
retains, moves, own nodes and cleanups in it; `ValidNode` is what the lowering
demands of that tree.  `StringRuntime` is the runtime underneath: every
object ever allocated stays in the heap, so that one that was freed can be
recognised; a count, the bytes, and the index of symbols that is built on demand and
has to go when the bytes change.  A use of what was freed is a fault the machine
remembers.

`OwnershipRun` takes a program through both passes and the validator, lowers it, and
executes it an instruction at a time: the module constructor, the entry function, the
module destructor.  `Meaning` in `Ast` is the reference, an evaluator of the source tree in
which a string is a value and nothing is ever freed; `SameOutput` compares what the
two wrote.  `test()` is an external function that answers anything, so every branch
is taken.

### Functions to SSA

The passes are sequential algorithms, so each is an operator, and one action.
`DefiniteAssignment` is the check, a fold over the tree with the variables assigned
on every way here.  `SSA` is `TSSABuilder`: `def` is `CurrentDef`,
`incomplete` is `IncompletePhis`, `open` is `openPredCount`; an operator that
changes the state and returns a value returns both, which keeps the order of reads,
writes and removals of the code, and with it the values the code holds in local
variables across a recursive removal.  `ConstFold` folds the operators of a block
whose operands are known, with the users collected once, and renumbers.  The
operator `DeSSA` splits critical edges and lowers phis to copies.

`PromotedRun` takes a function that the check accepted through the passes (`Promote`,
`Fold`, `LowerPhis`) and then runs the four versions it keeps in `code` side by side
(`Run`), a block per step, any branch, any values read: as lowered, with its locals in
memory (what it means), promoted, folded, and with the phis lowered, which the
bytecode compiler and LLVM get.  Each is compared with the version before it, so a
counterexample names the pass.

### Names, calls and modules

`SourceModules` has the names a tree uses, the search for their files, and
`Compose`, the merge of pragmas and of declarations.  `ModuleLoader` is the
depth-first load, a use at a time: `loops` has the loops over uses that are running,
from the program's down (all but the first are the code's `LoadStack`), `cache` says
of a module that it is loading, loaded or has failed, `order` is the code's
`CompletionOrder`, and after an `error` the loops end one by one.  `NameResolver` keeps the nodes in a heap, since symbol table and tree
share them, and scopes and symbols as the code does; the overload sets, with their
made-up names, and the imports of runtime modules are in it.  Imports happen twice:
`ImportPendingCoreUses` reports what cannot be imported, and the resolver, which
finds the same use statements again, would pass over it in silence
(`name_resolver.cpp:1136`), so the order of the two matters.  `OverloadedCalls` is the
annotation of names and calls: ranking of candidates, inference of generic
parameters, instances, which are named and resolved like a written function, and the
conversions of arguments, values and results.

`ProjectRun` EXTENDS the loader with the pipeline: load, compose, import and resolve (`RunSourceNameResolution`), annotate, resolve and
annotate again as long as a transform changed something, resolve a last time
(`FinalNameResolution`), then lower what is referenced from the entry and the
initializers.  After loading a step is a pass.  Its properties do not ask the symbol table:
`Denoted` finds what a name means by going up the tree as it was written, `Unbeaten`
compares candidates pairwise.

### Numbers

`NumberTypes` has words of given widths, with bitwise operators from the lowest bit
up, and exact ratios for floating numbers, which are not rounded; and what the
annotation makes of an operator on two kinds: whether it is accepted, the types the
operands are converted to, the type of the result.  `BackEndNumbers` is both back
ends: the instruction
`TVMCompiler` selects and what `eval.cpp` computes with it in 64-bit registers and
the file of 128-bit ones, and what `LowerInstr` emits, in integers of the
width of the type.  `NumericRun` grows an expression by an operator, a conversion or
an assignment at a time and computes it three times: exactly, cut to the annotated
type, and by either back end.  Where a back end is known to compute something else a
predicate says so (`Uncut`, `UnsignedToFloat`, `Fraction`, `NegativeLiteral`,
`NotOneBit`, `OtherFile`, `LongCount`, `UnsignedElement` for the interpreter;
`SignedTruth`, `OrderedTruth`, `SignExtended` for compiled code), and every one of the
eleven is needed: the run fails when it is made FALSE.  They are the places where
the two back ends disagree with the types and usually with each other.  Four of
them also contradict the documentation and are listed as findings: `OtherFile` and
`NegativeLiteral` the sentence that 128-bit integers behave like the narrower ones
(`docs/arch/core-lang.md:803`), `UnsignedElement` and `SignExtended` the one that a
conversion to a wider type keeps every value (`core-lang.md:796`).
The model is of the pipeline without the optimiser (`bin/driver.cpp:458-463`), which
gives both back ends the operations as they were written.  With it,
`const_fold.cpp:94-176` computes operators on two literals itself, in 64 bits and with
counts of shifts taken modulo 64 whatever the width of the type; `PromotedRun` has that pass, for
one kind of numbers.
`Representable` leaves out conversions of floating numbers that neither C++ nor LLVM
defines; the interpreter converts to 128 bits with a sign whatever the type
(`eval.cpp:699`), so a number above the largest `i128` is left out for `u128` too.

### Compile service

`CompileService` has one thread: a handler runs from one `co_await` to the next in
a step (`Handler`), and requests interleave at those points.  `world` is the clock,
the compiler that is installed and the number of kills; `cache` is the version
cache; `at`, `client`, `child` and `answer` are, per request, the place of the handler,
what the client sends and whether it left, the compiler process with its two pipes,
and what was answered; `temps` and `shared` are files.  A compiler process reads
its input and writes its output a chunk at a time (`Child`); one that makes WebAssembly
writes an object file, which is linked and then removed, or stays when the linking
fails.  A share is stored in four steps, as each of its two files is emptied before it is written
(`OpenCode`, `WriteCode`, `OpenMembers`, `WriteMembers`); there is no `co_await` among
them, so that no other request comes in between, but `Kill` does.  `IdOf` is the text
that is digested: the parts of a payload one after another, so that two payloads may
have one id; of a payload's parts the model has code, arguments and input, not its
files.  `Kill` loses the connections and the version cache, and files stay.

### Core text

`CorePrinter` turns a tree into the sequence of tokens that the core lexer makes of
the printed text, `CoreParser` reads them back, and `CoreText` prints and parses each
of its programs once, in both modes of printing types, and with modules composed in.
A named type of the runtime has a `reference` and is not declared again in the text
(`DeclaredTypes`); where the parser skips to the end of a type it skips any tokens
(`SkipToAngle`).

## 4. Runs

The bounds are the smallest at which every action fires and every mutant listed in
`PROJECT.json` is found; each property there has a mutation of the code that breaks
it under the run's own bounds.  `CHECK_DEADLOCK FALSE` is set where the modelled
process may end (programs, jobs, requests, clicks are finite in number); the cache
run keeps deadlock checking on.

| Run | States | Question |
|---|---|---|
| `symbol_cache` | 114,950 | three symbols, two processes, one of them with two threads, reported disk failures, crashes: disjoint and self-attributed objects, referenced objects stay, and the registry is implemented |
| `cached_compile` | 59,522 | three jobs whose required symbols overlap in opposite orders: links find each symbol exactly once, every job ends |
| `native` | 75,024 | a process under either engine, three runs of any program of three operations over a robot, a painter and io (one executor of each kind), rejected sheets; compiled code without assertions, calls three deep, plain modules, failing program assertions: operations act like calls, wake-ups reach their frame, neither calls nor promises stay behind, finished coroutines are collected, awaited operations complete, runs end |
| `browser` | 196,672 | two runs of a program with two operations, a nested call, errors, two keys and stops at any moment: awaiting, resuming, key order, Stop, termination |
| `ownership` | 87,402 | 478 programs that yield strings in every way into variables, arrays, globals, calls and loops with every exit: no use after free, nothing left, the output of the source, a second pass changes nothing |
| `promotion` | 119,787 | 674 functions with joins, short circuits, loops inside loops that test before the body, every exit, arguments, a variable passed by reference, variables only some ways assign: nothing unset is read, uses are defined, four versions do the same |
| `project` | 42,489 | 3,202 projects in six families, the passes repeated once or twice: what is loaded, what names and calls mean, what is refused, what is lowered |
| `numbers` | 17,587 | every operator, conversion and assignment on every pair of kinds, two in a row: both back ends show what the types say, but for the eleven named cases |
| `service` | 109,005 | two compilations, two questions for the version, or two shares and two openings at once; clients that leave, an upgrade, a kill: answers, freshness, temporary files, links, every request ends |
| `core_text` | 59,334 | 19,778 programs printed and parsed: the tree and its types come back |

Why these are enough:

- Cache: three symbols allow an object with two symbols and a registration that
  overlaps it in one; two processes and a second thread in one of them give every
  pair of lock holder and waiter, in one process and across two.
- Event loops: executors of different kinds with several operations each exhibit order
  within and across executors; three frames are the least for which a middle frame
  finishes while it is polled.
- Browser: two keys are the least that can be swapped, two runs the least where one
  leaves something to the next.
- Ownership: thirteen ways to yield a string (literal, variable, call that
  returns its argument, early return, slice, concatenation, recursion and more), two
  at a time in each place that takes one; two answers of `test()` decide the
  branches of two rounds of a loop.
- Promotion: the functions are a few shapes with places between the statements, of
  which one or two are filled: a use or one write at one place decides where phis
  are needed, and two variables swapped in a loop are the least that copies can get
  wrong.  Nesting is two loops deep, the least where a header's phi reads another
  header's.  Words of three bits overflow in one addition.
- Project: three modules are the least with a diamond and with a cycle away from the
  program; sets of up to three overloads with one or two parameters are the least with
  a candidate that beats one and ties with another; two rounds of the passes show
  what a second resolution does to what the first one instantiated.
- Numbers: widths of 2, 4 and 8 bits stand for 8, 64 and 128 and keep their order; the
  ends of each kind and a few values near zero are the operands; two steps are the
  least in which what one leaves in a register is read by another.
- Service: a pipe of one chunk and a body of two is the least at which both pipes
  can be full; two temporary names the least that can collide.
- Core text: a function around a statement around an expression, every kind of each.

What the instances leave out on purpose, and what happens when it is put in:

| Instance | Change | What TLC finds |
|---|---|---|
| `NativeRun` | `Asserts = TRUE`, `Plain` and `Ensures` FALSE, `MaxOps = 2`, `MaxRuns = 1`, invariant `NeverOutOfEvents` | with calls three deep a pass of the loop processes nothing and the assertion fails; `JitAborts` proves that this happens only while a finished callee waits to be collected |
| `NativeRun` | `StartRun` without `lost = {}`, invariant `ResumesTheAwaiter` | a promise left in the painter resumes a destroyed frame in the next run |
| `BrowserRun` | `DoubleClick = TRUE`, invariant `AwaitedIsApplied` | a second click on Run makes the first run's operation complete the second run's future |
| `PromotedRun` | `Functions <- Posttested`, invariant `SameAfterPromotion` | after a loop that tests at its end a variable is read from a temporary that was removed |
| `NumericRun` | one of the eleven predicates FALSE | the case it names |
| `CoreText` | a character literal above 127, `FunFlags = {"used", "cacheable"}`, a variable called `break`, `continue` or `nil`, invariant `RoundTrip` | the byte, the flag or the variable is lost |

Two runs find a counterexample to something the repository says (the quotes are in
`findings`).  `ownership_alias`: a function assigns the global that its string
argument was borrowed from, and the string is freed while the call still uses it
(invariant `BorrowedOutlivesCall`).  `promotion_folding`: a loop whose test reads a sum
with zero; folding the sum makes the test a user of a temporary that the table of
users, collected once, does not have it for, and when that temporary is folded away the
test keeps reading it (invariant `SameAfterFolding`, whose run leaves the
other properties aside).  The remaining findings are cases that a property or a premise
leaves out by name; each says which.

Things the properties of `project` have to admit, because the code does them: a name
used before an inner declaration of the same name denotes the inner one
(`DeclaredLater`); a function of the program that takes the place of a lone runtime
function leaves the written name undeclared, although a comment says it may replace
it (`LoneReplaced`, in the findings; `RefusesOnlyWrong` fails without it); arrays of any
elements count as equal in a call (`AnyArray`); a module used by alias and by name is composed
twice and conflicts with itself; a load that fails leaves the modules that
completed.  A single candidate converts its arguments where a set of overloads
demands them exactly, and a file shadows the runtime module of its name.

### Fairness

`CompileSpec` has weak fairness of each job's steps: a job is a thread the operating
system schedules, and it takes the lock finitely often, so weak fairness suffices
for the lock as well.  `NativeSpec` has weak fairness of the whole next-state
relation: the process is one thread, and none of its steps can be refused.  `FairSpec` of the browser has weak fairness of program and loop steps,
timers included, and none of the user's: no click or key is owed, so `EveryRunEnds`
holds for a user who does nothing.  `ServiceSpec` has weak fairness of each request's
handler, which the event loop resumes whenever it can go on, and of each compiler
process, which the operating system runs; that a client sends its body or leaves is
part of the handler's reading step, and kills, upgrades and the clock are owed
nothing.

## 5. Proofs

TLAPS proves the following for all values of the constants.  Liveness and `ENABLED`
stay with TLC, and so do inductions over trees, functions and texts; the modules proved
about have no RECURSIVE operator.

**Cache** (first half of `CachedCompileProofs`), under `ReliableDisk`: no fault but a
reported failure of an object or of the map.  `Invariance` proves the inductive
`IInv`, and from it `TypeCorrect`, `Disjointness`, `Attribution`, `DurableInstall`;
with one more step each `FirstWriter`, `ReferencedStay`, `MemoryGrows`; and
`Refinement`, that the cache implements `SymbolRegistry`.  The properties alone are
not inductive: that an object can be published needs to know what its writer has
in hand between the steps.  `IInv` adds that only the lock holder is inside a
call, that the map it read is the one on disk, that the number it picked is free
and its object, once written, holds exactly the provided symbols, and that
every map in memory is a part of the map on disk.  The fault
`flush` breaks that `meta.v1.tmp` is the map its writer prepared and `read` that the
map read is the one on disk; they are in the model, not in the theorems.

**Cached compilation** (its second half), under `ReliableDisk` too: `Linking`
proves `LinksExactly` for any jobs, any required symbols, in any order and with
repetitions, and any interleaving of their steps; `JobsKeepAttribution` that the
cache keeps its promise while it is used so.  A job plans with the map it read when
it opened the cache and links much later, so `CompileInv` is stated with the map
that is on disk now: every required symbol has exactly one source, a miss that is
still to be compiled, a piece that already is in the JIT, or a hit object, and no
hit object defines a symbol that the job compiles itself.  It survives what other
jobs do in between because the cache's own `IInv` says that maps in memory are parts
of the map on disk, and because that map only grows.

**Event loops** (`AsyncRuntimeProofs`, `InterpreterRunProofs`, `JitRunProofs`), for
any executors, operations, runs and any depth of calls.  `RuntimeInv` says where every
promise is: at most one operation is awaited, by the deepest frame; its promise is in
exactly one place, in its executor's vector or among the futures still to visit;
vectors are sorted, so what is queued behind is younger.  From it
`InterpreterAwaits`, `InterpreterResumes`, `JitAwaits`, `JitResumes`,
`JitTypeCorrect`, and the refinements `InterpreterRefinement` and `JitRefinement`.
`EventInv` counts: while a program is suspended on an operation, the current pass has
counted an event or an executor still to be visited has one; with a single frame this
gives `InterpreterHasEvents`, and with any number of them `JitAborts`, that the
assertion of the JIT's loop can fail only while a finished callee waits for its
caller to be polled (the table in section 4 has such a program, three calls deep).  `FlushInv` says
that during the final flush the executors already visited have nothing queued, which
with the places of the promises gives `InterpreterFlushes` and `JitFlushes`.  They speak of every operation called so
far in the process, so that what plain modules and failed programs left is covered too.

A rejected sheet is an exception thrown between the calls of a visit and its
futures.  It leaves the event loop, whose caller destroys the frames, and the process
ends with an error; what was queued stays in the executors.  `RejectionAbandons` maps the
throwing step to `Abandon` of `ProgramEffects`; from then on nothing can move
(`Rejected`), so the invariants `InterpreterIInv` and `JitIInv` are what holds before,
or that.

**Module loader** (`ModuleLoaderProofs`), for any programs, files, search directories
and aliases, as long as trees are sequences of statements and a name resolves to a
file that exists (`WorldsAssumption`): `LoadingInOrder` proves `LoadsInOrder`, that what is
composed are just the modules the program needs, each once and after all it uses, and
that a load fails only when one of them cannot be a module or needs itself;
`RefusingTheUnloadable` proves the converse too, that a load which ended has failed
exactly then (`FailsExactlyForAReason`).  "Needs" is the least set closed under use, so
nothing is said about the order in which the loader went.  Neither is inductive.
`LoaderInv` adds that the modules being loaded are those of the loops, each once, and
the loaded ones those of the order (`CacheInv`); that each loop stands at the use whose
module the next one loads (`LoopsInv`), and what it has seen is loaded (`SeenInv`,
`FinishedInv`); that what comes earlier in the order has all that later modules use
(`OrderInv`); that whatever was asked for is needed, and the module of a loop by those
around it (`NeedInv`: this is why a use of a module that is still loading is a module
that needs itself); and that an error has a reason (`ErrorInv`).
`ProjectRun` starts in the loader's initial states, its loading steps are the
loader's and all others leave the loader's variables alone, so that what is proved of
`LoaderSpec` is what the run `project` checks of its `LoadsInOrder`; it cannot hold the
theorem itself, since the passes behind the loader are recursive operators.

**Browser** (`BrowserRunProofs`), under `OneClick`: Run is not clicked again while a run
is being compiled (without it the properties fail, see the table in section 4).  For any
program, nesting, keys, stops and number of runs: `CallsAreAwaited`, `NeverAstray`,
`KeysAreRead` and `StoppedForGood`, which are `AwaitedIsApplied`,
`ResumesSuspended`, `KeysInOrder` and the action property `StopIsFinal`.  None of them is
inductive: whether a late key, a timer or the loop's poll meets a suspended frame depends
on everything else that is under way.  `IInv` says what that is.  Older runs
have ended and only the newest has its instance bound (`PageInv`).  Its frames are a
chain, of which those from `lo` to `hi` are on the native stack (`ChainInv`); each that
awaits the next holds its future, and the loop holds the entry frame's (`HandleInv`).
Only the deepest frame awaits an operation; if that has not taken effect it is the
only one queued, or the one the loop holds (`OpInv`).  At most one key is in flight, and
then as the answer to that operation; a waiter means that no key is queued
(`FlightInv`); keys read, in flight and queued are numbered without a gap (`KeysInv`).
When no run is at work nobody waits for a key, unless Stop is about to reset the
keyboard (`DeadInv`).  `StopInv` adds, for the action property, that a stopped
run is never past an operation of the loop, and has no key to read if it was stopped
before it began.

**Compile service** (`CompileServiceProofs`), for any number and mix of requests, bodies,
pipes, names of temporary files, upgrades and kills: `OwnBodyAnswered`,
`FilesOfAnsweredRemoved` and `VersionIsFresh` (`AnswersOwnBody`, `TempsRemoved`,
`FreshVersion`).  `IInv` follows a body on its way: what the handler holds, what is in
the pipe and what the compiler has read add up to it, and the pipe is closed behind the
last of it (`StreamInv`); the source and binary of a compilation belong to one busy
request, which knows their name (`WasmInv`, `TempsInv`: this is why a request never
reads another's binary, although names are reused); and a version that is cached, being
printed or answered was installed at the time it was asked for, or later (`CacheInv`,
`VersionInv`).  `LinksStay` proves `LinksLead`: a link
that was given out leads to a program whatever happens, and to all of what was shared
last under its id unless the service was killed while that was being stored.
`OrderInv` says that no request arrives while a share is being stored, `StoreInv` what is in the two
files after each of the four steps and that the last completed share of an id is in
them, and `LeadsToLast` carries this over to the answers already given.  Payloads of one
text share an id, in the model as in the code, and the run has two such payloads; that
different texts have different digests is taken for granted.

**Numbers** (`NumericRunProofs`), for any widths that are powers of two, any numbers, and
any number of operators, conversions and assignments: `BytecodeAlwaysMeans` and
`NativeAlwaysMeans` (`BytecodeMeans`, `NativeMeans`), outside the eleven cases that the
predicates of `NumericRun` name.  The properties speak of what is shown and say nothing
of what a register holds above the width of its type, from which the next operator
computes.  `RightSoFar` does (`AlwaysRight`): a value means a number that fits its type,
the interpreter's register holds that number's low bits in the width of the register
file, and compiled code holds them in the width of the type; for a truth value the
interpreter is only known to have zero where it is false.  The argument is congruence:
sums, differences, products and shifts to the left of congruent numbers are congruent
(`RingOperator`), and a bitwise operator's low bits depend on low bits alone
(`BitwiseLocal`); a quotient, a remainder, a shift to the right and a comparison need the
numbers themselves, and have them when the instruction reads with the sign and the width
of the operands' type, which is what both compilers have to select.  What the annotation
accepts is used where it matters: that operands of one operator come to one type, and
that a literal is given another type only if it fits (`Retyped`, `CommonAllowed`).  `WidthsAssumption`
says so by each width w dividing 2^w, because shifts take their count modulo
the width; 8, 64 and 128 satisfy it, and so do the run's 2, 4 and 8.  Powers of two and
bitwise operators are recursive functions over numbers: that they exist (`Recursion`)
and the inductions over widths (`Induction`) follow from the least element of a set of
natural numbers (`Least`), and so from the library's well-foundedness of finite sets.  In
the attempt the conversion of floating numbers to `u128` turned out to be right only up to the
largest `i128`, which the run's few numbers do not reach.

**Only model-checked**: every liveness property; a second click on Run; and what the
passes over trees, functions, texts and expressions compute.  `OwnershipRun`,
`PromotedRun`, `CoreText` and `ProjectRun` after loading (`NamesMean`,
`RefusesOnlyWrong`, `CalleesAreLowered`) apply recursive operators to trees and
functions, and a proof would be an induction over them.

## 6. What is left out

- The lexer and parser of the educational language, the driver, the module registries
  and the page's drawing: sequential translation, tables and I/O.
- Files (`runtime/io.cpp`): the executor part is in `InterpreterRun`, the handles are
  not, since no text says what reading from a closed stream does.
- The transforms between annotation passes, coroutine propagation among them: only
  that they make the passes run again.
- The meaning of operations: robot positions, pens, sheets and text are one effect
  per operation; what `painter_get_pixel` returns, which reads the sheet at once.
- In the tree: structs, arrays of several dimensions, casts in the ownership programs,
  named types and transforms in `ProjectRun`.  There globals stand before functions,
  assignments are to variables, literals fit every integer type, and a generic
  function that calls itself with a larger type, whose instances never end, is excluded.
- Inserting into a string that was never assigned (`string.cpp:297`), which faults.
- Functions with a loop that tests after its body (`Posttested`), for which promotion
  goes wrong (see section 4).
- A module that failed to load and is asked for again in the same load: the first
  failure ends all loops, so it does not occur.
- In the definite assignment check: struct fields, and calls through values.  The check
  counts what the right operand of a lazy `and` or `or` assigns, although it may not be
  evaluated, and what the body of a `repeat` assigns before its condition, although a
  `continue` may skip it, and it does not look into indexes of arrays; the functions
  of the run have none of these.  `docs/arch/transformation-pipeline.md:81-83` describes the
  check without these exceptions.
- Numbers: what the optimiser folds before the back ends; kinds of 16 and 32 bits, which are treated as those of 8 are; division by
  zero and of the least number by -1; floating numbers that do not fit their target;
  powers, strings and symbols; comparison of a truth value with a number.
- Calls, frames and structures in the bytecode and in LLVM code, debug information, the
  optimiser, kernels, and FFI.  LLVM's instructions mean what its reference says.
- Modules without coroutine functions in the browser: they run in one call, in which
  nothing else can happen.  Wrap-around of its handles (after 2^31 operations).
- Cut lines in `meta.v1`: a line cut in the middle counts as not written.
- In the service: static files, examples, the proxy of modules and rate limits, the
  files among a share's parts, and a client that leaves before it has its answer, after
  which the temporary files stay (in the findings).
- In core text: what the printer is known to lose (flags of functions, characters above
  127, a precision without a width, variables with the names of statements), and type arguments of named types, widths other than 8 and 64 bits,
  pragmas, layout.
- What a program's own infinite computation does: programs call finitely many
  operations, then finish.
