------------------------- MODULE ModuleLoaderProofs -------------------------
(***************************************************************************)
(* The loader composes exactly the modules that the program needs, each    *)
(* once and after all it uses, and refuses only what cannot be loaded: for *)
(* any programs, files, search directories and aliases.                    *)
(***************************************************************************)
EXTENDS ModuleLoader, SequenceTheorems, TLAPS

Program == "<main>"
States == {"loading", "loaded", "failed"}

TypeOK ==
    /\ world \in Programs
    /\ loops \in Seq([name : {Program} \cup Sources, seen : Nat])
    /\ \A i \in 2..Len(loops) : loops[i].name \in Sources
    /\ DOMAIN cache \subseteq Sources /\ cache \in [DOMAIN cache -> States]
    /\ order \in Seq(Sources)

\* The modules that are being loaded are those of the loops, each once; those
\* that are loaded are in the order; one has failed only if the load has.
CacheInv ==
    /\ \A i \in 2..Len(loops) : loops[i].name \in DOMAIN cache /\ cache[loops[i].name] = "loading"
    /\ \A name \in DOMAIN cache : cache[name] = "loading" => \E i \in 2..Len(loops) : loops[i].name = name
    /\ \A i, j \in 2..Len(loops) : loops[i].name = loops[j].name => i = j
    /\ \A i \in DOMAIN order : order[i] \in DOMAIN cache /\ cache[order[i]] = "loaded"
    /\ \A name \in DOMAIN cache : cache[name] = "loaded" => \E i \in DOMAIN order : order[i] = name
    /\ error = "" => \A name \in DOMAIN cache : cache[name] # "failed"

\* Each loop stands at the use whose module the next loop loads.
LoopsInv ==
    /\ \A i \in 2..Len(loops) : IsSoundFile(loops[i].name)
    /\ \A i \in 1..Len(loops) - 1 :
           /\ loops[i].seen \in DOMAIN StmtsOf(i) /\ IsUse(StmtsOf(i)[loops[i].seen])
           /\ StmtsOf(i)[loops[i].seen].name[1] = loops[i + 1].name

\* What a loop has seen is loaded, but for the module it waits for.
SeenInv ==
    error = "" =>
        \A i \in DOMAIN loops : \A k \in DOMAIN StmtsOf(i) :
            /\ k <= loops[i].seen /\ IsUse(StmtsOf(i)[k]) /\ StmtsOf(i)[k].name[1] \in Sources
            /\ i < Len(loops) => k < loops[i].seen
            => StmtsOf(i)[k].name[1] \in DOMAIN cache /\ cache[StmtsOf(i)[k].name[1]] = "loaded"
FinishedInv == error = "" /\ loops = <<>> => \A name \in Wanted : name \in DOMAIN cache /\ cache[name] = "loaded"

OrderInv ==
    \A i \in DOMAIN order :
        /\ IsSoundFile(order[i])
        /\ UsesOfFile(order[i]) \subseteq {order[j] : j \in 1..i - 1}
        /\ \A j \in 1..i - 1 : order[j] # order[i]

\* All that was asked for is needed, and the module of a loop by those of the loops around it.
NeedInv ==
    /\ DOMAIN cache \subseteq Needed(Wanted)
    /\ \A i, j \in 2..Len(loops) : i < j => loops[j].name \in Needed(UsesOfFile(loops[i].name))

ErrorInv == error # "" => \E name \in Needed(Wanted) : ~ IsSoundFile(name) \/ NeedsItself(name)

LoaderInv == TypeOK /\ CacheInv /\ LoopsInv /\ SeenInv /\ FinishedInv /\ OrderInv /\ NeedInv /\ ErrorInv
-----------------------------------------------------------------------------
\* Loops and statements.

LoopTypes == [name : {Program} \cup Sources, seen : Nat]

\* A loop has a name and a place in its statements.
LEMMA LoopFacts ==
    ASSUME TypeOK
    PROVE  /\ Len(loops) \in Nat /\ DOMAIN loops = 1..Len(loops)
           /\ \A i \in 1..Len(loops) : loops[i] \in LoopTypes
           /\ \A i \in 1..Len(loops) : loops[i].seen \in Nat
           /\ loops # <<>> => Len(loops) # 0
<1>1. loops \in Seq(LoopTypes)
  BY DEF TypeOK, LoopTypes
<1>2. /\ Len(loops) \in Nat /\ DOMAIN loops = 1..Len(loops)
      /\ loops # <<>> => Len(loops) # 0
  BY <1>1
<1>3. \A i \in 1..Len(loops) : loops[i] \in LoopTypes
  BY <1>1
<1>4. \A x \in LoopTypes : x.seen \in Nat
  BY DEF LoopTypes
<1>5. QED
  BY <1>2, <1>3, <1>4

\* The statements of a loop are a sequence.
LEMMA StatementFacts ==
    ASSUME TypeOK, NEW i \in DOMAIN loops
    PROVE  Len(StmtsOf(i)) \in Nat /\ DOMAIN StmtsOf(i) = 1..Len(StmtsOf(i))
<1>1. CASE i = 1
  BY <1>1, WorldsAssumption DEF StmtsOf, TypeOK
<1>2. CASE i # 1
  <2>1. loops[i].name \in Sources
    <3>1. i \in 2..Len(loops)
      BY <1>2, LoopFacts
    <3>2. QED
      BY <3>1 DEF TypeOK
  <2>2. ResolvePath(world, loops[i].name) \in DOMAIN world.files
    BY <2>1, WorldsAssumption DEF Sources, TypeOK
  <2>3. FileOf(loops[i].name).stmts \in Seq(ToSet(FileOf(loops[i].name).stmts))
    BY <2>2, WorldsAssumption DEF FileOf, TypeOK
  <2>4. QED
    BY <2>3, <1>2 DEF StmtsOf
<1>3. QED
  BY <1>1, <1>2

\* A source module that a loop uses is wanted by the program, or used by the module of the loop.
LEMMA UsedByLoop ==
    ASSUME TypeOK, NEW i \in DOMAIN loops, NEW k \in DOMAIN StmtsOf(i), IsUse(StmtsOf(i)[k]),
           NEW name, name = StmtsOf(i)[k].name[1]
    PROVE  /\ name \in NamesUsed(world)
           /\ name \in Sources => name \in (IF i = 1 THEN Wanted ELSE UsesOfFile(loops[i].name))
<1>1. name \in NamesIn(StmtsOf(i))
  BY DEF NamesIn
<1>2. CASE i = 1
  BY <1>1, <1>2 DEF StmtsOf, NamesUsed, Wanted
<1>3. CASE i # 1
  <2>1. loops[i].name \in Sources
    <3>1. i \in 2..Len(loops)
      BY <1>3, LoopFacts
    <3>2. QED
      BY <3>1 DEF TypeOK
  <2>2. ResolvePath(world, loops[i].name) \in DOMAIN world.files
    BY <2>1, WorldsAssumption DEF Sources, TypeOK
  <2>3. name \in NamesIn(FileOf(loops[i].name).stmts)
    BY <1>1, <1>3 DEF StmtsOf
  <2>4. QED
    BY <2>2, <2>3, <1>3 DEF NamesUsed, UsesOfFile, FileOf
<1>4. QED
  BY <1>2, <1>3

\* The files and the program stay, and so does all that is said of them.
LEMMA WorldStays ==
    ASSUME world' = world
    PROVE  /\ Sources' = Sources /\ Wanted' = Wanted
           /\ \A name : /\ FileOf(name)' = FileOf(name) /\ UsesOfFile(name)' = UsesOfFile(name)
                         /\ IsSoundFile(name)' = IsSoundFile(name)
           /\ \A names : Needed(names)' = Needed(names)
<1>1. Sources' = Sources /\ Wanted' = Wanted
  BY DEF Sources, Wanted
<1>2. \A name : FileOf(name)' = FileOf(name)
  BY DEF FileOf
<1>3. \A name : UsesOfFile(name)' = UsesOfFile(name) /\ IsSoundFile(name)' = IsSoundFile(name)
  BY <1>1, <1>2 DEF UsesOfFile, IsSoundFile
<1>4. \A names : Closed(names)' = Closed(names)
  BY <1>3 DEF Closed
<1>5. \A names : Needed(names)' = Needed(names)
  BY <1>1, <1>4 DEF Needed
<1>6. QED
  BY <1>1, <1>2, <1>3, <1>5

\* What is needed has what needs it, and whatever that uses.
LEMMA NeededFacts ==
    ASSUME NEW names
    PROVE  /\ names \cap Sources \subseteq Needed(names)
           /\ \A name \in Needed(names) : name \in Sources /\ UsesOfFile(name) \subseteq Needed(names)
<1>1. \A name : UsesOfFile(name) \subseteq Sources
  BY DEF UsesOfFile
<1>2. QED
  BY <1>1 DEF Needed, Closed
-----------------------------------------------------------------------------
\* The loops after a step.

\* The innermost loop moves on to statement k.
LEMMA SeesLoops ==
    ASSUME TypeOK, world' = world, loops # <<>>, NEW k \in Nat, NEW new, new = Sees(k)
    PROVE  /\ new \in Seq(LoopTypes) /\ Len(new) = Len(loops)
           /\ \A i \in 1..Len(loops) : new[i].name = loops[i].name
           /\ \A i \in 1..Len(loops) : new[i].seen = IF i = Len(loops) THEN k ELSE loops[i].seen
<1> DEFINE last == Len(loops)
<1>1. /\ last \in Nat \ {0} /\ DOMAIN loops = 1..last /\ loops \in Seq(LoopTypes)
      /\ \A i \in 1..last : loops[i] \in LoopTypes
  BY LoopFacts DEF TypeOK, LoopTypes
<1>2. new = [loops EXCEPT ![last] = [loops[last] EXCEPT !.seen = k]]
  BY DEF Sees
<1>3. [loops[last] EXCEPT !.seen = k] \in LoopTypes
  BY <1>1 DEF LoopTypes
<1>4. new \in Seq(LoopTypes) /\ Len(new) = last
  BY <1>1, <1>2, <1>3
<1>5. \A i \in 1..last : new[i] = IF i = last THEN [loops[last] EXCEPT !.seen = k] ELSE loops[i]
  BY <1>1, <1>2
<1>6. [loops[last] EXCEPT !.seen = k].name = loops[last].name /\ [loops[last] EXCEPT !.seen = k].seen = k
  BY <1>1 DEF LoopTypes
<1>7. QED
  BY <1>1, <1>4, <1>5, <1>6

\* The innermost loop ends.
LEMMA LeaveLoops ==
    ASSUME TypeOK, loops # <<>>, LeaveLoop
    PROVE  /\ loops' \in Seq(LoopTypes) /\ Len(loops') = Len(loops) - 1 /\ Len(loops) \in Nat \ {0}
           /\ \A i \in 1..Len(loops) - 1 : loops'[i] = loops[i]
<1>1. Len(loops) \in Nat \ {0} /\ loops \in Seq(LoopTypes)
  BY LoopFacts DEF TypeOK, LoopTypes
<1>2. loops' = SubSeq(loops, 1, Len(loops) - 1)
  BY DEF LeaveLoop
<1>3. \A j \in 1..Len(loops) - 1 : loops[j] \in LoopTypes
  BY <1>1
<1>4. 1 \in Int /\ Len(loops) - 1 \in Int
  BY <1>1
<1>5. /\ loops' \in Seq(LoopTypes)
      /\ Len(loops') = IF 1 <= Len(loops) - 1 THEN (Len(loops) - 1) - 1 + 1 ELSE 0
      /\ \A j \in 1..(Len(loops) - 1) - 1 + 1 : loops'[j] = loops[1 + j - 1]
  BY <1>2, <1>3, <1>4, SubSeqProperties
<1>6. Len(loops) \in Nat \ {0}
  BY <1>1
<1>7. Len(loops') = Len(loops) - 1
  <2>1. Len(loops') = IF 1 <= Len(loops) - 1 THEN (Len(loops) - 1) - 1 + 1 ELSE 0
    BY <1>5
  <2>2. QED
    BY <1>6, <2>1
<1>8. ASSUME NEW i \in 1..Len(loops) - 1 PROVE loops'[i] = loops[i]
  <2>1. i \in 1..(Len(loops) - 1) - 1 + 1 /\ 1 + i - 1 = i
    BY <1>6
  <2>2. QED
    BY <1>5, <2>1
<1>9. QED
  BY <1>5, <1>6, <1>7, <1>8

\* What a step of the innermost loop finds.
LEMMA ComesToFacts ==
    ASSUME LoaderInv, NEW k \in DOMAIN Stmts, ComesTo(k)
    PROVE  /\ error = "" /\ loops # <<>> /\ Len(loops) \in Nat \ {0} /\ DOMAIN loops = 1..Len(loops)
           /\ k \in Nat \ {0} /\ Stmts = StmtsOf(Len(loops)) /\ k \in DOMAIN StmtsOf(Len(loops))
           /\ IsUse(StmtsOf(Len(loops))[k]) /\ Used(k) = StmtsOf(Len(loops))[k].name[1]
           /\ \A j \in DOMAIN StmtsOf(Len(loops)) : IsUse(StmtsOf(Len(loops))[j]) /\ j < k => j <= loops[Len(loops)].seen
<1>1. error = "" /\ loops # <<>>
  BY DEF ComesTo
<1>2. Len(loops) \in Nat \ {0} /\ DOMAIN loops = 1..Len(loops) /\ loops[Len(loops)].seen \in Nat
  <2>1. TypeOK
    BY DEF LoaderInv
  <2>2. Len(loops) \in Nat \ {0} /\ DOMAIN loops = 1..Len(loops)
    BY <1>1, <2>1, LoopFacts
  <2>3. Len(loops) \in 1..Len(loops)
    BY <2>2
  <2>4. QED
    BY <2>1, <2>2, <2>3, LoopFacts
<1>3. Stmts = StmtsOf(Len(loops))
  BY <1>1 DEF Stmts
<1>4. DOMAIN StmtsOf(Len(loops)) = 1..Len(StmtsOf(Len(loops))) /\ Len(StmtsOf(Len(loops))) \in Nat
  BY <1>2, StatementFacts DEF LoaderInv
<1>5. \A j \in loops[Len(loops)].seen + 1..k - 1 : ~ IsUse(Stmts[j])
  BY DEF ComesTo
<1>6. k > loops[Len(loops)].seen /\ IsUse(Stmts[k]) /\ Used(k) = Stmts[k].name[1]
  BY DEF ComesTo, Used
<1>7. \A j \in DOMAIN StmtsOf(Len(loops)) : IsUse(StmtsOf(Len(loops))[j]) /\ j < k => j <= loops[Len(loops)].seen
  BY <1>2, <1>3, <1>4, <1>5
<1>8. k \in DOMAIN StmtsOf(Len(loops))
  BY <1>3
<1>9. k \in Nat \ {0}
  BY <1>4, <1>8
<1>10. QED
  BY <1>1, <1>2, <1>3, <1>6, <1>7, <1>8, <1>9

\* The module of a use is needed: by the program and by the modules of all loops.
LEMMA UsedIsNeeded ==
    ASSUME LoaderInv, NEW k \in DOMAIN Stmts, ComesTo(k), Used(k) \in Sources
    PROVE  /\ Used(k) \in Needed(Wanted)
           /\ \A i \in 2..Len(loops) : Used(k) \in Needed(UsesOfFile(loops[i].name))
<1> DEFINE last == Len(loops)
<1>1. /\ last \in Nat \ {0} /\ DOMAIN loops = 1..last
      /\ Used(k) \in (IF last = 1 THEN Wanted ELSE UsesOfFile(loops[last].name))
  <2>1. TypeOK
    BY DEF LoaderInv
  <2>2. /\ last \in Nat \ {0} /\ DOMAIN loops = 1..last /\ last \in DOMAIN loops
        /\ k \in DOMAIN StmtsOf(last) /\ IsUse(StmtsOf(last)[k]) /\ Used(k) = StmtsOf(last)[k].name[1]
    <3>1. Len(loops) \in Nat \ {0} /\ DOMAIN loops = 1..Len(loops) /\ k \in DOMAIN StmtsOf(Len(loops))
          /\ IsUse(StmtsOf(Len(loops))[k]) /\ Used(k) = StmtsOf(Len(loops))[k].name[1]
      BY ComesToFacts
    <3>2. last \in 1..last
      BY <3>1
    <3>3. QED
      BY <3>1, <3>2
  <2>3. QED
    BY <2>1, <2>2, UsedByLoop
<1>2. CASE last = 1
  BY <1>1, <1>2, NeededFacts
<1>3. CASE last # 1
  <2>0. CacheInv /\ NeedInv
    BY DEF LoaderInv
  <2>1. last \in 2..last /\ loops[last].name \in Needed(Wanted)
    <3>1. last \in 2..last
      BY <1>1, <1>3
    <3>2. QED
      BY <2>0, <3>1 DEF CacheInv, NeedInv
  <2>2. Used(k) \in Needed(Wanted)
    BY <2>1, <1>1, <1>3, NeededFacts
  <2>3. ASSUME NEW i \in 2..last PROVE Used(k) \in Needed(UsesOfFile(loops[i].name))
    <3>1. CASE i = last
      BY <3>1, <1>1, <1>3, NeededFacts
    <3>2. CASE i # last
      <4>1. loops[last].name \in Needed(UsesOfFile(loops[i].name))
        <5>1. i < last
          <6>1. last \in Nat \ {0}
            BY <1>1
          <6>2. QED
            BY <6>1, <3>2
        <5>2. QED
          BY <5>1, <2>0, <2>1 DEF NeedInv
      <4>2. QED
        BY <4>1, <1>1, <1>3, NeededFacts
    <3>3. QED
      BY <3>1, <3>2
  <2>4. QED
    BY <2>2, <2>3
<1>4. QED
  BY <1>2, <1>3
-----------------------------------------------------------------------------
\* What stays.

\* The statements of the loops that stay are the same.
LEMMA StatementsStay ==
    ASSUME world' = world, NEW i, i = 1 \/ loops'[i].name = loops[i].name
    PROVE  StmtsOf(i)' = StmtsOf(i)
<1>1. \A name : FileOf(name)' = FileOf(name)
  BY WorldStays
<1>2. CASE i = 1
  BY <1>2 DEF StmtsOf
<1>3. CASE i # 1
  <2>1. PICK name : name = loops[i].name
    OBVIOUS
  <2>2. StmtsOf(i) = FileOf(name).stmts
    BY <1>3, <2>1 DEF StmtsOf
  <2>3. StmtsOf(i)' = FileOf(name)'.stmts
    <3>1. name = loops[i].name'
      BY <1>3, <2>1
    <3>2. QED
      BY <1>3, <3>1 DEF StmtsOf, FileOf
  <2>4. QED
    BY <1>1, <2>2, <2>3
<1>4. QED
  BY <1>2, <1>3

\* The order of the modules is as good as it was.
LEMMA OrderStays ==
    ASSUME OrderInv, world' = world, order' = order
    PROVE  OrderInv'
<1>1. \A name : UsesOfFile(name)' = UsesOfFile(name) /\ IsSoundFile(name)' = IsSoundFile(name)
  BY WorldStays
<1>2. ASSUME NEW i \in DOMAIN order
      PROVE  /\ IsSoundFile(order[i])'
             /\ UsesOfFile(order[i])' \subseteq {order[j] : j \in 1..i - 1}
             /\ \A j \in 1..i - 1 : order[j] # order[i]
  <2>1. PICK name : name = order[i]
    OBVIOUS
  <2>2. IsSoundFile(name) /\ UsesOfFile(name) \subseteq {order[j] : j \in 1..i - 1}
        /\ \A j \in 1..i - 1 : order[j] # order[i]
    BY <2>1 DEF OrderInv
  <2>3. IsSoundFile(name)' /\ UsesOfFile(name)' = UsesOfFile(name)
    BY <1>1, <2>2
  <2>4. IsSoundFile(order[i])' = IsSoundFile(name)' /\ UsesOfFile(order[i])' = UsesOfFile(name)'
    BY <2>1
  <2>5. QED
    BY <2>2, <2>3, <2>4
<1>3. QED
  BY <1>2 DEF OrderInv

\* A name gets a state, the others keep theirs.
LEMMA MarkFacts ==
    ASSUME TypeOK, NEW name \in Sources, NEW state \in States, Mark(name, state)
    PROVE  /\ DOMAIN cache' = DOMAIN cache \cup {name} /\ cache'[name] = state
           /\ \A n \in DOMAIN cache : n # name => cache'[n] = cache[n]
           /\ DOMAIN cache' \subseteq Sources /\ cache' \in [DOMAIN cache' -> States]
<1>1. cache' = [n \in DOMAIN cache \cup {name} |-> IF n = name THEN state ELSE cache[n]]
  BY DEF Mark
<1>2. DOMAIN cache' = DOMAIN cache \cup {name} /\ cache'[name] = state
      /\ \A n \in DOMAIN cache : n # name => cache'[n] = cache[n]
  BY <1>1
<1>3. DOMAIN cache \subseteq Sources /\ \A n \in DOMAIN cache : cache[n] \in States
  BY DEF TypeOK
<1>4. \A n \in DOMAIN cache \cup {name} : (IF n = name THEN state ELSE cache[n]) \in States
  BY <1>3
<1>5. cache' \in [DOMAIN cache' -> States]
  BY <1>1, <1>4
<1>6. QED
  BY <1>2, <1>3, <1>5

\* What the program needs stays.
LEMMA NeededByProgram ==
    ASSUME world' = world
    PROVE  Needed(Wanted)' = Needed(Wanted)
<1>1. PICK wanted : wanted = Wanted
  OBVIOUS
<1>2. wanted = Wanted' /\ Needed(wanted)' = Needed(wanted)
  BY <1>1, WorldStays
<1>3. QED
  BY <1>1, <1>2

\* The cache is as good as it was when it stays, with the modules of the loops.
LEMMA CacheStays ==
    ASSUME CacheInv, NEW last, last = Len(loops), Len(loops') = last, last \in Nat \ {0},
           \A i \in 1..last : loops'[i].name = loops[i].name,
           cache' = cache, order' = order, error' # "" \/ error' = error
    PROVE  CacheInv'
<1>1. ASSUME NEW i \in 2..last PROVE loops'[i].name = loops[i].name
  <2>1. last \in Nat
    OBVIOUS
  <2>2. i \in 1..last
    BY ONLY <2>1
  <2>3. QED
    BY <2>2
<1>2. \A i \in 2..last : loops[i].name \in DOMAIN cache /\ cache[loops[i].name] = "loading"
  BY DEF CacheInv
<1>3. \A name \in DOMAIN cache : cache[name] = "loading" => \E i \in 2..last : loops[i].name = name
  BY DEF CacheInv
<1>4. \A i, j \in 2..last : loops[i].name = loops[j].name => i = j
  BY DEF CacheInv
<1>5. \A i \in 2..Len(loops') : loops'[i].name \in DOMAIN cache' /\ cache'[loops'[i].name] = "loading"
  BY <1>1, <1>2
<1>6. \A name \in DOMAIN cache' : cache'[name] = "loading" => \E i \in 2..Len(loops') : loops'[i].name = name
  BY <1>1, <1>3
<1>7. \A i, j \in 2..Len(loops') : loops'[i].name = loops'[j].name => i = j
  BY <1>1, <1>4
<1>8. /\ \A i \in DOMAIN order' : order'[i] \in DOMAIN cache' /\ cache'[order'[i]] = "loaded"
      /\ \A name \in DOMAIN cache' : cache'[name] = "loaded" => \E i \in DOMAIN order' : order'[i] = name
  BY DEF CacheInv
<1>9. error' = "" => \A name \in DOMAIN cache' : cache'[name] # "failed"
  BY DEF CacheInv
<1>10. QED
  BY <1>5, <1>6, <1>7, <1>8, <1>9 DEF CacheInv

\* A module that the program needs and that cannot be loaded is a reason to fail.
LEMMA ErrorFound ==
    ASSUME world' = world, NEW name \in Needed(Wanted), ~ IsSoundFile(name) \/ NeedsItself(name)
    PROVE  ErrorInv'
<1>1. name \in Needed(Wanted)'
  BY NeededByProgram
<1>2. PICK uses : uses = UsesOfFile(name)
  OBVIOUS
<1>3. IsSoundFile(name)' = IsSoundFile(name) /\ UsesOfFile(name)' = uses /\ Needed(uses)' = Needed(uses)
  BY <1>2, WorldStays
<1>4. NeedsItself(name)' = NeedsItself(name)
  BY <1>2, <1>3 DEF NeedsItself
<1>5. QED
  BY <1>1, <1>3, <1>4 DEF ErrorInv

\* The state after a step has the type it had.
LEMMA TypeStays ==
    ASSUME TypeOK, world' = world, loops' \in Seq(LoopTypes),
           \A i \in 2..Len(loops') : loops'[i].name \in Sources,
           DOMAIN cache' \subseteq Sources, cache' \in [DOMAIN cache' -> States],
           order' \in Seq(Sources)
    PROVE  TypeOK'
<1>1. Sources' = Sources
  BY WorldStays
<1>2. world' \in Programs
  BY DEF TypeOK
<1>3. loops' \in Seq([name : {Program} \cup Sources', seen : Nat])
  BY <1>1 DEF LoopTypes
<1>4. QED
  BY <1>1, <1>2, <1>3 DEF TypeOK, LoopTypes

\* The first n loops stay, but for what the nth has seen.
LEMMA FirstLoopsStay ==
    ASSUME TypeOK, LoopsInv, NeedInv, world' = world, NEW n \in Nat, n <= Len(loops),
           \A i \in 1..n : loops'[i].name = loops[i].name,
           \A i \in 1..n - 1 : loops'[i].seen = loops[i].seen
    PROVE  /\ \A i \in 1..n : StmtsOf(i)' = StmtsOf(i)
           /\ \A i \in 2..n : loops'[i].name \in Sources
           /\ \A i \in 2..n : IsSoundFile(loops[i].name)'
           /\ \A i \in 1..n - 1 :
                  /\ loops'[i].seen \in DOMAIN StmtsOf(i)' /\ IsUse(StmtsOf(i)'[loops'[i].seen])
                  /\ StmtsOf(i)'[loops'[i].seen].name[1] = loops'[i + 1].name
           /\ \A i, j \in 2..n : i < j => (loops[j].name \in Needed(UsesOfFile(loops[i].name)))'
<1>1. Len(loops) \in Nat /\ \A i \in 2..n : i \in 1..n /\ i \in 2..Len(loops)
  BY LoopFacts
<1>2. \A i \in 1..n : StmtsOf(i)' = StmtsOf(i)
  BY StatementsStay
<1>3. \A i \in 2..n : loops'[i].name \in Sources
  BY <1>1 DEF TypeOK
<1>4. ASSUME NEW i \in 2..n PROVE IsSoundFile(loops[i].name)'
  <2>1. PICK name : name = loops[i].name
    OBVIOUS
  <2>2. IsSoundFile(name)
    BY <1>1, <2>1 DEF LoopsInv
  <2>3. name = loops'[i].name
    BY <1>1, <2>1
  <2>4. IsSoundFile(name)'
    BY <2>2, WorldStays
  <2>5. QED
    BY <2>3, <2>4
<1>5. ASSUME NEW i \in 1..n - 1
      PROVE  /\ loops'[i].seen \in DOMAIN StmtsOf(i)' /\ IsUse(StmtsOf(i)'[loops'[i].seen])
             /\ StmtsOf(i)'[loops'[i].seen].name[1] = loops'[i + 1].name
  <2>1. i \in 1..n /\ i + 1 \in 1..n /\ i \in 1..Len(loops) - 1
    BY <1>1
  <2>2. loops'[i].seen = loops[i].seen /\ loops'[i + 1].name = loops[i + 1].name /\ StmtsOf(i)' = StmtsOf(i)
    BY <1>2, <2>1
  <2>3. /\ loops[i].seen \in DOMAIN StmtsOf(i) /\ IsUse(StmtsOf(i)[loops[i].seen])
        /\ StmtsOf(i)[loops[i].seen].name[1] = loops[i + 1].name
    BY <2>1 DEF LoopsInv
  <2>4. QED
    BY <2>2, <2>3
<1>6. ASSUME NEW i \in 2..n, NEW j \in 2..n, i < j
      PROVE  (loops[j].name \in Needed(UsesOfFile(loops[i].name)))'
  <2>1. PICK inner : inner = loops[j].name
    OBVIOUS
  <2>2. PICK outer : outer = loops[i].name
    OBVIOUS
  <2>3. PICK uses : uses = UsesOfFile(outer)
    OBVIOUS
  <2>4. inner \in Needed(uses)
    BY <1>1, <1>6, <2>1, <2>2, <2>3 DEF NeedInv
  <2>5. inner = loops'[j].name /\ outer = loops'[i].name
    BY <1>1, <2>1, <2>2
  <2>6. uses = UsesOfFile(outer)' /\ Needed(uses)' = Needed(uses)
    BY <2>3, WorldStays
  <2>7. inner \in Needed(uses)'
    BY <2>4, <2>6
  <2>8. QED
    BY <2>5, <2>6, <2>7
<1>7. QED
  BY <1>2, <1>3, <1>4, <1>5, <1>6

\* The innermost loop moves on to statement k, and only the cache and the error may change.
LEMMA MovesOn ==
    ASSUME LoaderInv, NEW k \in DOMAIN Stmts, NEW last, last = Len(loops), ComesTo(k),
           world' = world, order' = order, loops' = Sees(k)
    PROVE  /\ last \in Nat \ {0} /\ loops' \in Seq(LoopTypes) /\ Len(loops') = last
           /\ \A i \in 1..last : loops'[i].name = loops[i].name
           /\ \A i \in 1..last : loops'[i].seen = IF i = last THEN k ELSE loops[i].seen
           /\ \A i \in 1..last : StmtsOf(i)' = StmtsOf(i)
           /\ \A i \in 2..last : loops'[i].name \in Sources
           /\ LoopsInv' /\ OrderInv' /\ FinishedInv'
           /\ \A i, j \in 2..last : i < j => (loops[j].name \in Needed(UsesOfFile(loops[i].name)))'
<1>1. TypeOK /\ LoopsInv /\ OrderInv /\ NeedInv
  BY DEF LoaderInv
<1>2. loops # <<>> /\ last \in Nat \ {0} /\ k \in Nat
  BY ComesToFacts
<1>3. /\ loops' \in Seq(LoopTypes) /\ Len(loops') = last
      /\ \A i \in 1..last : loops'[i].name = loops[i].name
      /\ \A i \in 1..last : loops'[i].seen = IF i = last THEN k ELSE loops[i].seen
  BY <1>1, <1>2, SeesLoops
<1>4. \A i \in 1..last - 1 : loops'[i].seen = loops[i].seen
  BY <1>2, <1>3
<1>5. /\ \A i \in 1..last : StmtsOf(i)' = StmtsOf(i)
      /\ \A i \in 2..last : loops'[i].name \in Sources
      /\ \A i \in 2..last : IsSoundFile(loops[i].name)'
      /\ \A i \in 1..last - 1 :
             /\ loops'[i].seen \in DOMAIN StmtsOf(i)' /\ IsUse(StmtsOf(i)'[loops'[i].seen])
             /\ StmtsOf(i)'[loops'[i].seen].name[1] = loops'[i + 1].name
      /\ \A i, j \in 2..last : i < j => (loops[j].name \in Needed(UsesOfFile(loops[i].name)))'
  BY <1>1, <1>2, <1>3, <1>4, FirstLoopsStay
<1>6. OrderInv'
  BY <1>1, OrderStays
<1>7. FinishedInv'
  <2>1. loops' # <<>>
    BY <1>2, <1>3
  <2>2. QED
    BY <2>1 DEF FinishedInv
<1>8. LoopsInv'
  BY <1>3, <1>5 DEF LoopsInv, IsUse
<1>9. QED
  BY <1>2, <1>3, <1>5, <1>6, <1>7, <1>8

\* What the loops have seen stays loaded as the innermost one moves on to a use that is
\* loaded, or of no source module.
LEMMA SeenStays ==
    ASSUME LoaderInv, NEW k \in DOMAIN Stmts, NEW last, last = Len(loops), ComesTo(k),
           world' = world, order' = order, loops' = Sees(k), cache' = cache,
           Used(k) \notin Sources \/ (Used(k) \in DOMAIN cache /\ cache[Used(k)] = "loaded")
    PROVE  SeenInv'
<1>1. /\ last \in Nat \ {0} /\ Len(loops') = last /\ loops' \in Seq(LoopTypes)
      /\ \A i \in 1..last : loops'[i].seen = IF i = last THEN k ELSE loops[i].seen
      /\ \A i \in 1..last : StmtsOf(i)' = StmtsOf(i)
  BY MovesOn
<1>2. SeenInv /\ TypeOK /\ error = ""
  BY ComesToFacts DEF LoaderInv
<1>3. DOMAIN loops = 1..last /\ DOMAIN loops' = 1..last /\ Sources' = Sources
  <2>1. DOMAIN loops = 1..last
    BY <1>2, LoopFacts
  <2>2. DOMAIN loops' = 1..last
    BY <1>1
  <2>3. QED
    BY <2>1, <2>2, WorldStays
<1>4. /\ k \in Nat \ {0} /\ Used(k) = StmtsOf(last)[k].name[1]
      /\ \A j \in DOMAIN StmtsOf(last) : IsUse(StmtsOf(last)[j]) /\ j < k => j <= loops[last].seen
  BY ComesToFacts
<1>5. SUFFICES ASSUME NEW i \in 1..last, NEW j \in DOMAIN StmtsOf(i), NEW name, name = StmtsOf(i)[j].name[1],
                      j <= (IF i = last THEN k ELSE loops[i].seen), IsUse(StmtsOf(i)[j]), name \in Sources,
                      i < last => j < loops[i].seen
               PROVE  name \in DOMAIN cache /\ cache[name] = "loaded"
  <2>1. ASSUME NEW i \in 1..last, NEW j \in DOMAIN StmtsOf(i),
               j <= loops'[i].seen, IsUse(StmtsOf(i)[j]), StmtsOf(i)[j].name[1] \in Sources,
               i < last => j < loops'[i].seen
        PROVE  StmtsOf(i)[j].name[1] \in DOMAIN cache /\ cache[StmtsOf(i)[j].name[1]] = "loaded"
    <3>1. loops'[i].seen = IF i = last THEN k ELSE loops[i].seen
      BY <1>1
    <3>2. i < last => loops'[i].seen = loops[i].seen
      BY <1>1, <3>1
    <3>3. QED
      BY <1>5, <2>1, <3>1, <3>2
  <2>2. ASSUME NEW i \in DOMAIN loops', NEW j \in DOMAIN StmtsOf(i)',
               j <= loops'[i].seen, IsUse(StmtsOf(i)'[j]), StmtsOf(i)'[j].name[1] \in Sources',
               i < Len(loops') => j < loops'[i].seen
        PROVE  StmtsOf(i)'[j].name[1] \in DOMAIN cache' /\ cache'[StmtsOf(i)'[j].name[1]] = "loaded"
    <3>1. i \in 1..last /\ StmtsOf(i)' = StmtsOf(i)
      BY <1>1, <1>3
    <3>2. QED
      BY <1>1, <1>3, <2>1, <2>2, <3>1
  <2>3. QED
    BY <2>2 DEF SeenInv, IsUse
<1>6. CASE j <= loops[i].seen
  BY <1>2, <1>3, <1>5, <1>6 DEF SeenInv
<1>7. CASE ~ (j <= loops[i].seen)
  <2>1. i = last
    BY <1>5, <1>7
  <2>2. DOMAIN StmtsOf(i) = 1..Len(StmtsOf(i)) /\ Len(StmtsOf(i)) \in Nat
    BY <1>2, <1>3, StatementFacts
  <2>3. ~ (j < k)
    BY <1>4, <1>5, <1>7, <2>1
  <2>4. j = k
    BY <1>4, <1>5, <2>1, <2>2, <2>3
  <2>5. QED
    BY <1>4, <1>5, <2>1, <2>4
<1>8. QED
  BY <1>6, <1>7
-----------------------------------------------------------------------------
\* The steps.

\* A use is left alone, or its module is loaded already.
LEMMA PassesOver ==
    ASSUME LoaderInv, NEW k \in DOMAIN Stmts, SkipExternal(k) \/ ReuseLoaded(k)
    PROVE  LoaderInv'
<1> PICK last : last = Len(loops)
  OBVIOUS
<1>1. ComesTo(k) /\ loops' = Sees(k) /\ world' = world /\ cache' = cache /\ order' = order /\ error' = error
  BY DEF SkipExternal, ReuseLoaded
<1>2. TypeOK /\ CacheInv /\ NeedInv /\ ErrorInv /\ error = ""
  BY <1>1, ComesToFacts DEF LoaderInv
<1>3. /\ last \in Nat \ {0} /\ loops' \in Seq(LoopTypes) /\ Len(loops') = last
      /\ \A i \in 1..last : loops'[i].name = loops[i].name
      /\ \A i \in 2..last : loops'[i].name \in Sources
      /\ LoopsInv' /\ OrderInv' /\ FinishedInv'
      /\ \A i, j \in 2..last : i < j => (loops[j].name \in Needed(UsesOfFile(loops[i].name)))'
  BY <1>1, MovesOn
<1>4. TypeOK'
  <2>1. DOMAIN cache' \subseteq Sources /\ cache' \in [DOMAIN cache' -> States] /\ order' \in Seq(Sources)
    BY <1>1, <1>2 DEF TypeOK
  <2>2. QED
    BY <1>1, <1>2, <1>3, <2>1, TypeStays
<1>5. CacheInv'
  BY <1>1, <1>2, <1>3, CacheStays
<1>6. SeenInv'
  <2>1. Used(k) \notin Sources \/ (Used(k) \in DOMAIN cache /\ cache[Used(k)] = "loaded")
    BY DEF SkipExternal, ReuseLoaded, Resolvable, Sources
  <2>2. QED
    BY <1>1, <2>1, SeenStays
<1>7. NeedInv'
  <2>1. DOMAIN cache' \subseteq Needed(Wanted)
    BY <1>1, <1>2 DEF NeedInv
  <2>2. DOMAIN cache' \subseteq Needed(Wanted)'
    BY <1>1, <2>1, NeededByProgram
  <2>3. QED
    BY <1>3, <2>2 DEF NeedInv
<1>8. ErrorInv'
  BY <1>1, <1>2 DEF ErrorInv
<1>9. QED
  BY <1>3, <1>4, <1>5, <1>6, <1>7, <1>8 DEF LoaderInv

\* The module is being loaded by a loop further out, or has failed.
LEMMA RefusesCached ==
    ASSUME LoaderInv, NEW k \in DOMAIN Stmts, RefuseCached(k)
    PROVE  LoaderInv'
<1> PICK last : last = Len(loops)
  OBVIOUS
<1>1. /\ ComesTo(k) /\ loops' = Sees(k) /\ world' = world /\ cache' = cache /\ order' = order /\ error' # ""
      /\ Used(k) \in DOMAIN cache /\ cache[Used(k)] # "loaded"
  BY DEF RefuseCached
<1>2. TypeOK /\ CacheInv /\ NeedInv /\ error = ""
  BY <1>1, ComesToFacts DEF LoaderInv
<1>3. /\ last \in Nat \ {0} /\ loops' \in Seq(LoopTypes) /\ Len(loops') = last
      /\ \A i \in 1..last : loops'[i].name = loops[i].name
      /\ \A i \in 2..last : loops'[i].name \in Sources
      /\ LoopsInv' /\ OrderInv' /\ FinishedInv'
      /\ \A i, j \in 2..last : i < j => (loops[j].name \in Needed(UsesOfFile(loops[i].name)))'
  BY <1>1, MovesOn
<1>4. TypeOK'
  <2>1. DOMAIN cache' \subseteq Sources /\ cache' \in [DOMAIN cache' -> States] /\ order' \in Seq(Sources)
    BY <1>1, <1>2 DEF TypeOK
  <2>2. QED
    BY <1>1, <1>2, <1>3, <2>1, TypeStays
<1>5. CacheInv'
  BY <1>1, <1>2, <1>3, CacheStays
<1>6. SeenInv'
  BY <1>1 DEF SeenInv
<1>7. NeedInv'
  <2>1. DOMAIN cache' \subseteq Needed(Wanted)
    BY <1>1, <1>2 DEF NeedInv
  <2>2. DOMAIN cache' \subseteq Needed(Wanted)'
    BY <1>1, <2>1, NeededByProgram
  <2>3. QED
    BY <1>3, <2>2 DEF NeedInv
<1>8. ErrorInv'
  <2>1. PICK used : used = Used(k)
    OBVIOUS
  <2>2. used \in Sources /\ cache[used] = "loading"
    <3>1. used \in DOMAIN cache /\ cache[used] # "loaded"
      BY <1>1, <2>1
    <3>2. DOMAIN cache \subseteq Sources /\ \A name \in DOMAIN cache : cache[name] \in States
      BY <1>2 DEF TypeOK
    <3>3. cache[used] # "failed"
      BY <1>2, <3>1 DEF CacheInv
    <3>4. QED
      BY <3>1, <3>2, <3>3 DEF States
  <2>3. PICK i \in 2..last : loops[i].name = used
    BY <1>1, <1>2, <2>1, <2>2 DEF CacheInv
  <2>4. Used(k) \in Needed(Wanted) /\ Used(k) \in Needed(UsesOfFile(loops[i].name))
    BY <1>1, <2>1, <2>2, UsedIsNeeded
  <2>5. used \in Needed(Wanted) /\ NeedsItself(used)
    BY <2>1, <2>3, <2>4 DEF NeedsItself
  <2>6. QED
    BY <1>1, <2>5, ErrorFound
<1>9. QED
  BY <1>3, <1>4, <1>5, <1>6, <1>7, <1>8 DEF LoaderInv

\* A use of a module that is new to the cache.
LEMMA NewFacts ==
    ASSUME LoaderInv, NEW k \in DOMAIN Stmts, ComesToNew(k)
    PROVE  /\ ComesTo(k) /\ Used(k) \in Sources /\ Used(k) \notin DOMAIN cache /\ Used(k) \in Needed(Wanted)
           /\ (FileOf(Used(k)).parses /\ CollectInterface(FileOf(Used(k)).stmts)) <=> IsSoundFile(Used(k))
<1>1. ComesTo(k) /\ Used(k) \notin DOMAIN cache /\ ResolvePath(world, Used(k)) # <<>>
  BY DEF ComesToNew
<1>2. TypeOK
  BY DEF LoaderInv
<1>3. /\ Len(loops) \in DOMAIN loops /\ k \in DOMAIN StmtsOf(Len(loops)) /\ IsUse(StmtsOf(Len(loops))[k])
      /\ Used(k) = StmtsOf(Len(loops))[k].name[1]
  <2>1. /\ Len(loops) \in Nat \ {0} /\ DOMAIN loops = 1..Len(loops) /\ k \in DOMAIN StmtsOf(Len(loops))
        /\ IsUse(StmtsOf(Len(loops))[k]) /\ Used(k) = StmtsOf(Len(loops))[k].name[1]
    BY <1>1, ComesToFacts
  <2>2. QED
    BY <2>1
<1>4. Used(k) \in NamesUsed(world)
  BY <1>2, <1>3, UsedByLoop
<1>5. Used(k) \in Sources
  BY <1>1, <1>4 DEF Sources
<1>6. Used(k) \in Needed(Wanted)
  BY <1>1, <1>5, UsedIsNeeded
<1>7. (FileOf(Used(k)).parses /\ CollectInterface(FileOf(Used(k)).stmts)) <=> IsSoundFile(Used(k))
  BY DEF IsSoundFile, CollectInterface, IsExport
<1>8. QED
  BY <1>1, <1>5, <1>6, <1>7

\* The file of the module does not parse, or a module may not have what it has.
LEMMA RefusesFile ==
    ASSUME LoaderInv, NEW k \in DOMAIN Stmts, RefuseFile(k)
    PROVE  LoaderInv'
<1> PICK last : last = Len(loops)
  OBVIOUS
<1> PICK used : used = Used(k)
  OBVIOUS
<1>1. /\ loops' = Sees(k) /\ world' = world /\ order' = order /\ error' # ""
      /\ Mark(used, "failed") /\ ComesToNew(k)
  BY DEF RefuseFile
<1>2. /\ ComesTo(k) /\ used \in Sources /\ used \notin DOMAIN cache /\ used \in Needed(Wanted)
      /\ ~ IsSoundFile(used)
  BY <1>1, NewFacts DEF RefuseFile
<1>3. TypeOK /\ CacheInv /\ NeedInv
  BY DEF LoaderInv
<1>4. /\ last \in Nat \ {0} /\ loops' \in Seq(LoopTypes) /\ Len(loops') = last
      /\ \A i \in 1..last : loops'[i].name = loops[i].name
      /\ \A i \in 2..last : loops'[i].name \in Sources
      /\ LoopsInv' /\ OrderInv' /\ FinishedInv'
      /\ \A i, j \in 2..last : i < j => (loops[j].name \in Needed(UsesOfFile(loops[i].name)))'
  BY <1>1, <1>2, MovesOn
<1>5. /\ DOMAIN cache' = DOMAIN cache \cup {used} /\ cache'[used] = "failed"
      /\ \A n \in DOMAIN cache : n # used => cache'[n] = cache[n]
      /\ DOMAIN cache' \subseteq Sources /\ cache' \in [DOMAIN cache' -> States]
  BY <1>1, <1>2, <1>3, MarkFacts DEF States
<1>6. TypeOK'
  <2>1. order' \in Seq(Sources)
    BY <1>1, <1>3 DEF TypeOK
  <2>2. QED
    BY <1>1, <1>3, <1>4, <1>5, <2>1, TypeStays
<1>7. CacheInv'
  <2>1. \A i \in 2..last : loops'[i].name = loops[i].name
    BY <1>4
  <2>2. \A n \in DOMAIN cache : n # used /\ cache'[n] = cache[n]
    BY <1>2, <1>5
  <2>3. ASSUME NEW i \in 2..last PROVE loops'[i].name \in DOMAIN cache' /\ cache'[loops'[i].name] = "loading"
    <3>1. loops[i].name \in DOMAIN cache /\ cache[loops[i].name] = "loading"
      BY <1>3 DEF CacheInv
    <3>2. QED
      BY <1>5, <2>1, <2>2, <3>1
  <2>4. ASSUME NEW name \in DOMAIN cache', cache'[name] = "loading"
        PROVE  \E i \in 2..last : loops'[i].name = name
    <3>1. name \in DOMAIN cache /\ cache[name] = "loading"
      BY <1>5, <2>2, <2>4
    <3>2. PICK i \in 2..last : loops[i].name = name
      BY <1>3, <3>1 DEF CacheInv
    <3>3. QED
      BY <2>1, <3>2
  <2>5. \A i, j \in 2..last : loops'[i].name = loops'[j].name => i = j
    BY <1>3, <2>1 DEF CacheInv
  <2>6. \A i \in DOMAIN order : order[i] \in DOMAIN cache' /\ cache'[order[i]] = "loaded"
    BY <1>3, <1>5, <2>2 DEF CacheInv
  <2>7. ASSUME NEW name \in DOMAIN cache', cache'[name] = "loaded" PROVE \E i \in DOMAIN order : order[i] = name
    <3>1. name \in DOMAIN cache /\ cache[name] = "loaded"
      BY <1>5, <2>2, <2>7
    <3>2. QED
      BY <1>3, <3>1 DEF CacheInv
  <2>8. QED
    BY <1>1, <1>4, <2>3, <2>4, <2>5, <2>6, <2>7 DEF CacheInv
<1>8. SeenInv'
  BY <1>1 DEF SeenInv
<1>9. NeedInv'
  <2>1. DOMAIN cache' \subseteq Needed(Wanted)
    BY <1>2, <1>3, <1>5 DEF NeedInv
  <2>2. DOMAIN cache' \subseteq Needed(Wanted)'
    BY <1>1, <2>1, NeededByProgram
  <2>3. QED
    BY <1>4, <2>2 DEF NeedInv
<1>10. ErrorInv'
  BY <1>1, <1>2, ErrorFound
<1>11. QED
  BY <1>4, <1>6, <1>7, <1>8, <1>9, <1>10 DEF LoaderInv

\* The loop of a module that is loaded is the innermost one, and starts at the module's first statement.
LEMMA EntersLoops ==
    ASSUME LoaderInv, NEW k \in DOMAIN Stmts, EnterModule(k), NEW last, last = Len(loops), NEW used, used = Used(k)
    PROVE  /\ last \in Nat \ {0} /\ loops' \in Seq(LoopTypes) /\ Len(loops') = last + 1
           /\ \A i \in 1..last : loops'[i].name = loops[i].name
           /\ \A i \in 1..last : loops'[i].seen = IF i = last THEN k ELSE loops[i].seen
           /\ loops'[last + 1].name = used /\ loops'[last + 1].seen = 0
<1>1. ComesTo(k) /\ used \in Sources /\ world' = world /\ loops' = Append(Sees(k), [name |-> used, seen |-> 0])
  BY NewFacts DEF EnterModule
<1>2. loops # <<>> /\ last \in Nat \ {0} /\ k \in Nat /\ TypeOK
  BY <1>1, ComesToFacts DEF LoaderInv
<1>3. PICK sees : sees = Sees(k)
  OBVIOUS
<1>4. /\ sees \in Seq(LoopTypes) /\ Len(sees) = last
      /\ \A i \in 1..last : sees[i].name = loops[i].name
      /\ \A i \in 1..last : sees[i].seen = IF i = last THEN k ELSE loops[i].seen
  BY <1>1, <1>2, <1>3, SeesLoops
<1>5. PICK new : new = [name |-> used, seen |-> 0]
  OBVIOUS
<1>6. new \in LoopTypes /\ new.name = used /\ new.seen = 0
  BY <1>1, <1>5 DEF LoopTypes
<1>7. loops' = Append(sees, new)
  BY <1>1, <1>3, <1>5
<1>8. /\ loops' \in Seq(LoopTypes) /\ Len(loops') = last + 1 /\ loops'[last + 1] = new
      /\ \A i \in 1..last : loops'[i] = sees[i]
  BY <1>2, <1>4, <1>6, <1>7
<1>9. QED
  BY <1>2, <1>4, <1>6, <1>8

\* A module is loaded: its file is sound, and it becomes the innermost one.
LEMMA EntersModule ==
    ASSUME LoaderInv, NEW k \in DOMAIN Stmts, EnterModule(k)
    PROVE  LoaderInv'
<1> PICK last : last = Len(loops)
  OBVIOUS
<1> PICK used : used = Used(k)
  OBVIOUS
<1>1. world' = world /\ order' = order /\ error' = error /\ Mark(used, "loading") /\ ComesToNew(k)
  BY DEF EnterModule
<1>2. /\ ComesTo(k) /\ used \in Sources /\ used \notin DOMAIN cache /\ used \in Needed(Wanted)
      /\ IsSoundFile(used)
  BY <1>1, NewFacts DEF EnterModule
<1>3. TypeOK /\ CacheInv /\ LoopsInv /\ SeenInv /\ OrderInv /\ NeedInv /\ ErrorInv /\ error = ""
  BY <1>2, ComesToFacts DEF LoaderInv
<1>4. /\ last \in Nat \ {0} /\ loops' \in Seq(LoopTypes) /\ Len(loops') = last + 1
      /\ \A i \in 1..last : loops'[i].name = loops[i].name
      /\ \A i \in 1..last : loops'[i].seen = IF i = last THEN k ELSE loops[i].seen
      /\ loops'[last + 1].name = used /\ loops'[last + 1].seen = 0
  BY EntersLoops
<1>5. last \in Nat /\ last <= Len(loops) /\ \A i \in 1..last - 1 : i \in 1..last /\ loops'[i].seen = loops[i].seen
  BY <1>4
<1>6. /\ \A i \in 1..last : StmtsOf(i)' = StmtsOf(i)
      /\ \A i \in 2..last : loops'[i].name \in Sources
      /\ \A i \in 2..last : IsSoundFile(loops[i].name)'
      /\ \A i \in 1..last - 1 :
             /\ loops'[i].seen \in DOMAIN StmtsOf(i)' /\ IsUse(StmtsOf(i)'[loops'[i].seen])
             /\ StmtsOf(i)'[loops'[i].seen].name[1] = loops'[i + 1].name
      /\ \A i, j \in 2..last : i < j => (loops[j].name \in Needed(UsesOfFile(loops[i].name)))'
  BY <1>1, <1>3, <1>4, <1>5, FirstLoopsStay
<1>7. /\ DOMAIN cache' = DOMAIN cache \cup {used} /\ cache'[used] = "loading"
      /\ \A n \in DOMAIN cache : n # used /\ cache'[n] = cache[n]
      /\ DOMAIN cache' \subseteq Sources /\ cache' \in [DOMAIN cache' -> States]
  BY <1>1, <1>2, <1>3, MarkFacts DEF States
<1>8. \A i \in 2..last + 1 : i \in 2..last \/ i = last + 1
  BY <1>4
<1>9. \A i \in 2..last : i \in 1..last
  BY <1>4
<1>10. TypeOK'
  <2>1. order' \in Seq(Sources)
    BY <1>1, <1>3 DEF TypeOK
  <2>2. \A i \in 2..Len(loops') : loops'[i].name \in Sources
    BY <1>2, <1>4, <1>6, <1>8
  <2>3. QED
    BY <1>1, <1>3, <1>4, <1>7, <2>1, <2>2, TypeStays
<1>11. CacheInv'
  <2>1. \A i \in 2..last : loops'[i].name = loops[i].name /\ loops[i].name \in DOMAIN cache /\ cache[loops[i].name] = "loading"
    BY <1>3, <1>4, <1>9 DEF CacheInv
  <2>2. \A i \in 2..last + 1 : loops'[i].name \in DOMAIN cache' /\ cache'[loops'[i].name] = "loading"
    BY <1>4, <1>7, <1>8, <2>1
  <2>3. ASSUME NEW name \in DOMAIN cache', cache'[name] = "loading"
        PROVE  \E i \in 2..last + 1 : loops'[i].name = name
    <3>1. CASE name = used
      <4>1. last + 1 \in 2..last + 1
        BY <1>4
      <4>2. QED
        BY <1>4, <3>1, <4>1
    <3>2. CASE name # used
      <4>1. name \in DOMAIN cache /\ cache[name] = "loading"
        BY <1>7, <2>3, <3>2
      <4>2. PICK i \in 2..last : loops[i].name = name
        BY <1>3, <4>1 DEF CacheInv
      <4>3. i \in 2..last + 1
        BY <1>4
      <4>4. QED
        BY <2>1, <4>2, <4>3
    <3>3. QED
      BY <3>1, <3>2
  <2>4. ASSUME NEW i \in 2..last + 1, NEW j \in 2..last + 1, loops'[i].name = loops'[j].name
        PROVE  i = j
    <3>1. \A m \in 2..last : loops'[m].name # used
      BY <1>7, <2>1
    <3>2. \A m, n \in 2..last : loops'[m].name = loops'[n].name => m = n
      BY <1>3, <2>1 DEF CacheInv
    <3>3. QED
      BY <1>4, <1>8, <2>4, <3>1, <3>2
  <2>5. \A i \in DOMAIN order : order[i] \in DOMAIN cache' /\ cache'[order[i]] = "loaded"
    BY <1>3, <1>7 DEF CacheInv
  <2>6. ASSUME NEW name \in DOMAIN cache', cache'[name] = "loaded" PROVE \E i \in DOMAIN order : order[i] = name
    <3>1. name \in DOMAIN cache /\ cache[name] = "loaded"
      BY <1>7, <2>6
    <3>2. QED
      BY <1>3, <3>1 DEF CacheInv
  <2>7. \A name \in DOMAIN cache' : cache'[name] # "failed"
    <3>1. \A name \in DOMAIN cache : cache[name] # "failed"
      BY <1>3 DEF CacheInv
    <3>2. QED
      BY <1>7, <3>1
  <2>8. QED
    BY <1>1, <1>4, <2>2, <2>3, <2>4, <2>5, <2>6, <2>7 DEF CacheInv
<1>12. LoopsInv'
  <2>1. IsSoundFile(loops[last + 1].name)'
    <3>1. IsSoundFile(used)'
      BY <1>1, <1>2, WorldStays
    <3>2. QED
      BY <1>4, <3>1
  <2>2. \A i \in 2..last + 1 : IsSoundFile(loops[i].name)'
    BY <1>6, <1>8, <2>1
  <2>3. /\ loops'[last].seen \in DOMAIN StmtsOf(last)' /\ IsUse(StmtsOf(last)'[loops'[last].seen])
        /\ StmtsOf(last)'[loops'[last].seen].name[1] = loops'[last + 1].name
    <3>1. k \in DOMAIN StmtsOf(last) /\ IsUse(StmtsOf(last)[k]) /\ used = StmtsOf(last)[k].name[1]
      BY <1>2, ComesToFacts
    <3>2. last \in 1..last
      BY <1>4
    <3>3. loops'[last].seen = k /\ StmtsOf(last)' = StmtsOf(last)
      BY <1>4, <1>6, <3>2
    <3>4. QED
      BY <1>4, <3>1, <3>3
  <2>4. \A i \in 1..last + 1 - 1 : i \in 1..last - 1 \/ i = last
    BY <1>4
  <2>5. \A i \in 1..last + 1 - 1 :
            /\ loops'[i].seen \in DOMAIN StmtsOf(i)' /\ IsUse(StmtsOf(i)'[loops'[i].seen])
            /\ StmtsOf(i)'[loops'[i].seen].name[1] = loops'[i + 1].name
    BY <1>6, <2>3, <2>4
  <2>6. QED
    BY <1>4, <2>2, <2>5 DEF LoopsInv, IsUse
<1>13. SeenInv'
  <2>1. SUFFICES ASSUME NEW i \in 1..last + 1, NEW j \in DOMAIN StmtsOf(i)', NEW name, name = StmtsOf(i)'[j].name[1],
                        j <= loops'[i].seen, IsUse(StmtsOf(i)'[j]), name \in Sources,
                        i < last + 1 => j < loops'[i].seen
                 PROVE  name \in DOMAIN cache' /\ cache'[name] = "loaded"
    <3>1. DOMAIN loops' = 1..last + 1 /\ Sources' = Sources
      BY <1>1, <1>4, WorldStays
    <3>2. QED
      BY <1>4, <2>1, <3>1 DEF SeenInv, IsUse
  <2>2. CASE i = last + 1
    <3>1. PICK stmts : stmts = FileOf(used).stmts
      OBVIOUS
    <3>2. StmtsOf(i)' = stmts
      <4>1. FileOf(used)' = FileOf(used)
        BY <1>1, WorldStays
      <4>2. used = loops'[i].name
        BY <1>4, <2>2
      <4>3. i # 1
        BY <1>4, <2>2
      <4>4. StmtsOf(i)' = FileOf(used)'.stmts
        BY <4>2, <4>3 DEF StmtsOf, FileOf
      <4>5. QED
        BY <3>1, <4>1, <4>4
    <3>3. ResolvePath(world, used) \in DOMAIN world.files
      BY <1>2, <1>3, WorldsAssumption DEF Sources, TypeOK
    <3>4. stmts \in Seq(ToSet(stmts))
      BY <1>3, <3>1, <3>3, WorldsAssumption DEF TypeOK, FileOf
    <3>5. j \in Nat \ {0}
      BY <2>1, <3>2, <3>4
    <3>6. QED
      BY <1>4, <2>1, <2>2, <3>5
  <2>3. CASE i # last + 1
    <3>1. i \in 1..last /\ i < last + 1
      BY <1>4, <2>3
    <3>2. StmtsOf(i)' = StmtsOf(i) /\ j \in DOMAIN StmtsOf(i) /\ IsUse(StmtsOf(i)[j]) /\ name = StmtsOf(i)[j].name[1]
      BY <1>6, <2>1, <3>1
    <3>3. j <= loops[i].seen /\ (i < last => j < loops[i].seen)
      <4>1. j < loops'[i].seen
        BY <2>1, <3>1
      <4>2. DOMAIN StmtsOf(i) = 1..Len(StmtsOf(i)) /\ Len(StmtsOf(i)) \in Nat /\ loops[i].seen \in Nat
        BY <1>3, <3>1, StatementFacts, LoopFacts
      <4>3. CASE i = last
        <5>1. j < k
          BY <1>4, <3>1, <4>1, <4>3
        <5>2. j <= loops[last].seen
          BY <1>2, <3>2, <4>3, <5>1, ComesToFacts
        <5>3. QED
          BY <1>4, <4>3, <5>2
      <4>4. CASE i # last
        <5>1. loops'[i].seen = loops[i].seen
          BY <1>4, <3>1, <4>4
        <5>2. QED
          BY <3>2, <4>1, <4>2, <5>1
      <4>5. QED
        BY <4>3, <4>4
    <3>4. i \in DOMAIN loops
      BY <1>3, <3>1, LoopFacts
    <3>5. name \in DOMAIN cache /\ cache[name] = "loaded"
      BY <1>3, <2>1, <3>2, <3>3, <3>4 DEF SeenInv
    <3>6. QED
      BY <1>7, <3>5
  <2>4. QED
    BY <2>2, <2>3
<1>14. FinishedInv'
  <2>1. loops' # <<>>
    BY <1>4
  <2>2. QED
    BY <2>1 DEF FinishedInv
<1>15. OrderInv'
  BY <1>1, <1>3, OrderStays
<1>16. NeedInv'
  <2>1. DOMAIN cache' \subseteq Needed(Wanted)
    BY <1>2, <1>3, <1>7 DEF NeedInv
  <2>2. DOMAIN cache' \subseteq Needed(Wanted)'
    BY <1>1, <2>1, NeededByProgram
  <2>3. ASSUME NEW i \in 2..last PROVE (loops[last + 1].name \in Needed(UsesOfFile(loops[i].name)))'
    <3>1. PICK outer : outer = loops[i].name
      OBVIOUS
    <3>2. PICK uses : uses = UsesOfFile(outer)
      OBVIOUS
    <3>3. Used(k) \in Needed(UsesOfFile(loops[i].name))
      BY <1>2, UsedIsNeeded
    <3>4. used \in Needed(uses)
      BY <3>1, <3>2, <3>3
    <3>5. outer = loops'[i].name /\ used = loops'[last + 1].name
      BY <1>4, <1>9, <3>1
    <3>6. uses = UsesOfFile(outer)' /\ used \in Needed(uses)'
      BY <1>1, <3>2, <3>4, WorldStays
    <3>7. QED
      BY <3>5, <3>6
  <2>4. ASSUME NEW i \in 2..last + 1, NEW j \in 2..last + 1, i < j
        PROVE  (loops[j].name \in Needed(UsesOfFile(loops[i].name)))'
    <3>1. i \in 2..last
      BY <1>4, <2>4
    <3>2. CASE j = last + 1
      BY <2>3, <3>1, <3>2
    <3>3. CASE j # last + 1
      BY <1>6, <1>8, <2>4, <3>1, <3>3
    <3>4. QED
      BY <3>2, <3>3
  <2>5. QED
    BY <1>4, <2>2, <2>4 DEF NeedInv
<1>17. ErrorInv'
  BY <1>1, <1>3 DEF ErrorInv
<1>18. QED
  BY <1>10, <1>11, <1>12, <1>13, <1>14, <1>15, <1>16, <1>17 DEF LoaderInv

\* The innermost loop ends, and only the cache, the order and the error may change.
LEMMA MovesOut ==
    ASSUME LoaderInv, loops # <<>>, LeaveLoop, world' = world, NEW last, last = Len(loops)
    PROVE  /\ last \in Nat \ {0} /\ loops' \in Seq(LoopTypes) /\ Len(loops') = last - 1
           /\ \A i \in 1..last - 1 : loops'[i] = loops[i] /\ StmtsOf(i)' = StmtsOf(i)
           /\ \A i \in 2..Len(loops') : loops'[i].name \in Sources
           /\ LoopsInv'
           /\ \A i, j \in 2..Len(loops') : i < j => (loops[j].name \in Needed(UsesOfFile(loops[i].name)))'
<1>1. TypeOK /\ LoopsInv /\ NeedInv
  BY DEF LoaderInv
<1>2. /\ last \in Nat \ {0} /\ loops' \in Seq(LoopTypes) /\ Len(loops') = last - 1
      /\ \A i \in 1..last - 1 : loops'[i] = loops[i]
  BY <1>1, LeaveLoops
<1>3. last - 1 \in Nat /\ last - 1 <= Len(loops) /\ \A i \in 1..last - 1 - 1 : i \in 1..last - 1
  BY <1>2
<1>4. /\ \A i \in 1..last - 1 : StmtsOf(i)' = StmtsOf(i)
      /\ \A i \in 2..last - 1 : loops'[i].name \in Sources
      /\ \A i \in 2..last - 1 : IsSoundFile(loops[i].name)'
      /\ \A i \in 1..last - 1 - 1 :
             /\ loops'[i].seen \in DOMAIN StmtsOf(i)' /\ IsUse(StmtsOf(i)'[loops'[i].seen])
             /\ StmtsOf(i)'[loops'[i].seen].name[1] = loops'[i + 1].name
      /\ \A i, j \in 2..last - 1 : i < j => (loops[j].name \in Needed(UsesOfFile(loops[i].name)))'
  <2>1. \A i \in 1..last - 1 : loops'[i].name = loops[i].name
    BY <1>2
  <2>2. \A i \in 1..last - 1 - 1 : loops'[i].seen = loops[i].seen
    BY <1>2, <1>3
  <2>3. PICK n : n = last - 1
    OBVIOUS
  <2>4. n \in Nat /\ n <= Len(loops)
    BY <1>3, <2>3
  <2>5. /\ \A i \in 1..n : loops'[i].name = loops[i].name
        /\ \A i \in 1..n - 1 : loops'[i].seen = loops[i].seen
    BY <2>1, <2>2, <2>3
  <2>6. /\ \A i \in 1..n : StmtsOf(i)' = StmtsOf(i)
        /\ \A i \in 2..n : loops'[i].name \in Sources
        /\ \A i \in 2..n : IsSoundFile(loops[i].name)'
        /\ \A i \in 1..n - 1 :
               /\ loops'[i].seen \in DOMAIN StmtsOf(i)' /\ IsUse(StmtsOf(i)'[loops'[i].seen])
               /\ StmtsOf(i)'[loops'[i].seen].name[1] = loops'[i + 1].name
        /\ \A i, j \in 2..n : i < j => (loops[j].name \in Needed(UsesOfFile(loops[i].name)))'
    BY <1>1, <2>4, <2>5, FirstLoopsStay
  <2>7. QED
    BY <2>3, <2>6
<1>5. LoopsInv'
  BY <1>2, <1>4 DEF LoopsInv, IsUse
<1>6. QED
  BY <1>2, <1>4, <1>5

\* All that the loop of a program or a module uses is loaded when the loop has seen all.
LEMMA AllUsesLoaded ==
    ASSUME LoaderInv, error = "", SeenAll, NEW last, last = Len(loops)
    PROVE  \A name \in (IF last = 1 THEN Wanted ELSE UsesOfFile(loops[last].name)) :
               name \in DOMAIN cache /\ cache[name] = "loaded"
<1>1. TypeOK /\ SeenInv /\ loops # <<>>
  BY DEF LoaderInv, SeenAll
<1>2. last \in Nat \ {0} /\ DOMAIN loops = 1..last /\ last \in DOMAIN loops /\ loops[last].seen \in Nat
  <2>1. last \in Nat \ {0} /\ DOMAIN loops = 1..last
    BY <1>1, LoopFacts
  <2>2. last \in 1..last
    <3>1. last \in Nat \ {0}
      BY <2>1
    <3>2. QED
      BY ONLY <3>1
  <2>3. QED
    BY <1>1, <2>1, <2>2, LoopFacts
<1>3. Stmts = StmtsOf(last)
  BY <1>1 DEF Stmts
<1>4. TAKE name \in (IF last = 1 THEN Wanted ELSE UsesOfFile(loops[last].name))
<1>5. name \in Sources /\ name \in NamesIn(StmtsOf(last))
  BY DEF Wanted, UsesOfFile, StmtsOf
<1>6. PICK j \in DOMAIN StmtsOf(last) : IsUse(StmtsOf(last)[j]) /\ name = StmtsOf(last)[j].name[1]
  BY <1>5 DEF NamesIn
<1>7. ~ (j > loops[last].seen)
  BY <1>3, <1>6 DEF SeenAll
<1>8. j \in Nat
  <2>1. DOMAIN StmtsOf(last) = 1..Len(StmtsOf(last)) /\ Len(StmtsOf(last)) \in Nat
    BY <1>1, <1>2, StatementFacts
  <2>2. j \in 1..Len(StmtsOf(last))
    BY <2>1
  <2>3. Len(StmtsOf(last)) \in Nat
    BY <2>1
  <2>4. QED
    BY ONLY <2>2, <2>3
<1>9. j <= loops[last].seen /\ ~ (last < Len(loops))
  <2>1. loops[last].seen \in Nat /\ last \in Nat
    BY <1>2
  <2>2. j <= loops[last].seen
    BY ONLY <1>7, <1>8, <2>1
  <2>3. ~ (last < last)
    BY ONLY <2>1
  <2>4. QED
    BY <2>2, <2>3
<1>10. QED
  BY <1>1, <1>2, <1>5, <1>6, <1>9 DEF SeenInv

\* A module is complete: all it uses comes before it in the order.
LEMMA FinishesModule ==
    ASSUME LoaderInv, FinishModule
    PROVE  LoaderInv'
<1> PICK last : last = Len(loops)
  OBVIOUS
<1> PICK done : done = loops[last].name
  OBVIOUS
<1>1. /\ error = "" /\ error' = error /\ world' = world /\ SeenAll /\ loops # <<>> /\ last > 1
      /\ Mark(done, "loaded") /\ order' = Append(order, done) /\ LeaveLoop
  BY DEF FinishModule, SeenAll, Innermost
<1>2. TypeOK /\ CacheInv /\ LoopsInv /\ SeenInv /\ OrderInv /\ NeedInv
  BY DEF LoaderInv
<1>3. /\ last \in Nat \ {0} /\ loops' \in Seq(LoopTypes) /\ Len(loops') = last - 1
      /\ \A i \in 1..last - 1 : loops'[i] = loops[i] /\ StmtsOf(i)' = StmtsOf(i)
      /\ \A i \in 2..Len(loops') : loops'[i].name \in Sources
      /\ LoopsInv'
      /\ \A i, j \in 2..Len(loops') : i < j => (loops[j].name \in Needed(UsesOfFile(loops[i].name)))'
  BY <1>1, MovesOut
<1>4. last \in 2..last /\ last - 1 \in Nat \ {0} /\ DOMAIN loops = 1..last
  <2>1. last \in 2..last /\ last - 1 \in Nat \ {0}
    <3>1. last \in Nat \ {0} /\ last > 1
      BY <1>1, <1>3
    <3>2. QED
      BY ONLY <3>1
  <2>2. QED
    BY <1>2, <2>1, LoopFacts
<1>5. done \in Sources /\ done \in DOMAIN cache /\ cache[done] = "loading" /\ IsSoundFile(done)
  BY <1>2, <1>4 DEF TypeOK, CacheInv, LoopsInv
<1>6. /\ DOMAIN cache' = DOMAIN cache /\ cache'[done] = "loaded"
      /\ \A n \in DOMAIN cache : n # done => cache'[n] = cache[n]
      /\ DOMAIN cache' \subseteq Sources /\ cache' \in [DOMAIN cache' -> States]
  BY <1>1, <1>2, <1>5, MarkFacts DEF States
<1>7. /\ order \in Seq(Sources) /\ Len(order) \in Nat /\ DOMAIN order = 1..Len(order)
      /\ order' \in Seq(Sources) /\ DOMAIN order' = 1..Len(order) + 1 /\ order'[Len(order) + 1] = done
      /\ \A i \in 1..Len(order) : order'[i] = order[i]
  <2>1. order \in Seq(Sources) /\ Len(order) \in Nat /\ DOMAIN order = 1..Len(order)
    BY <1>2 DEF TypeOK
  <2>2. order' = Append(order, done) /\ done \in Sources
    BY <1>1, <1>5
  <2>3. order' \in Seq(Sources) /\ Len(order') = Len(order) + 1
    BY <2>1, <2>2
  <2>4. DOMAIN order' = 1..Len(order) + 1
    BY <2>1, <2>3
  <2>5. order'[Len(order) + 1] = done /\ \A i \in 1..Len(order) : order'[i] = order[i]
    BY <2>1, <2>2
  <2>6. QED
    BY <2>1, <2>3, <2>4, <2>5
<1>8. \A i \in 2..last - 1 : i \in 1..last - 1 /\ i \in 2..last /\ i # last
  BY <1>3
<1>9. TypeOK'
  BY <1>1, <1>2, <1>3, <1>6, <1>7, TypeStays
<1>10. CacheInv'
  <2>1. ASSUME NEW i \in 2..last - 1
        PROVE  loops'[i].name = loops[i].name /\ loops[i].name # done /\ loops[i].name \in DOMAIN cache /\ cache[loops[i].name] = "loading"
    BY <1>2, <1>3, <1>4, <1>8 DEF CacheInv
  <2>2. \A i \in 2..last - 1 : loops'[i].name \in DOMAIN cache' /\ cache'[loops'[i].name] = "loading"
    BY <1>6, <2>1
  <2>3. ASSUME NEW name \in DOMAIN cache', cache'[name] = "loading" PROVE \E i \in 2..last - 1 : loops'[i].name = name
    <3>1. name # done /\ name \in DOMAIN cache /\ cache[name] = "loading"
      BY <1>6, <2>3
    <3>2. PICK i \in 2..last : loops[i].name = name
      BY <1>2, <3>1 DEF CacheInv
    <3>3. i \in 2..last - 1
      BY <1>3, <3>1, <3>2
    <3>4. QED
      BY <2>1, <3>2, <3>3
  <2>4. \A i, j \in 2..last - 1 : loops'[i].name = loops'[j].name => i = j
    BY <1>2, <1>8, <2>1 DEF CacheInv
  <2>5. ASSUME NEW i \in 1..Len(order) + 1 PROVE order'[i] \in DOMAIN cache' /\ cache'[order'[i]] = "loaded"
    <3>1. CASE i = Len(order) + 1
      BY <1>5, <1>6, <1>7, <3>1
    <3>2. CASE i # Len(order) + 1
      <4>1. i \in DOMAIN order /\ order'[i] = order[i]
        BY <1>7, <3>2
      <4>2. order[i] \in DOMAIN cache /\ cache[order[i]] = "loaded"
        BY <1>2, <4>1 DEF CacheInv
      <4>3. QED
        BY <1>5, <1>6, <4>1, <4>2
    <3>3. QED
      BY <3>1, <3>2
  <2>6. ASSUME NEW name \in DOMAIN cache', cache'[name] = "loaded" PROVE \E i \in 1..Len(order) + 1 : order'[i] = name
    <3>1. CASE name = done
      <4>1. Len(order) + 1 \in 1..Len(order) + 1
        BY <1>7
      <4>2. QED
        BY <1>7, <3>1, <4>1
    <3>2. CASE name # done
      <4>1. name \in DOMAIN cache /\ cache[name] = "loaded"
        BY <1>6, <2>6, <3>2
      <4>2. PICK i \in 1..Len(order) : order[i] = name
        BY <1>2, <1>7, <4>1 DEF CacheInv
      <4>3. i \in 1..Len(order) + 1
        BY <1>7
      <4>4. QED
        BY <1>7, <4>2, <4>3
    <3>3. QED
      BY <3>1, <3>2
  <2>7. \A name \in DOMAIN cache' : cache'[name] # "failed"
    <3>1. \A name \in DOMAIN cache : cache[name] # "failed"
      BY <1>1, <1>2 DEF CacheInv
    <3>2. QED
      BY <1>6, <3>1
  <2>8. QED
    BY <1>3, <1>7, <2>2, <2>3, <2>4, <2>5, <2>6, <2>7 DEF CacheInv
<1>11. SeenInv'
  <2>1. SUFFICES ASSUME NEW i \in 1..last - 1, NEW j \in DOMAIN StmtsOf(i)', NEW name, name = StmtsOf(i)'[j].name[1],
                        j <= loops'[i].seen, IsUse(StmtsOf(i)'[j]), name \in Sources,
                        i < last - 1 => j < loops'[i].seen
                 PROVE  name \in DOMAIN cache' /\ cache'[name] = "loaded"
    <3>1. DOMAIN loops' = 1..last - 1
      BY <1>3
    <3>2. Sources' = Sources
      BY <1>1, WorldStays
    <3>3. ASSUME NEW i \in DOMAIN loops', NEW j \in DOMAIN StmtsOf(i)',
                 j <= loops'[i].seen, IsUse(StmtsOf(i)'[j]), StmtsOf(i)'[j].name[1] \in Sources',
                 i < Len(loops') => j < loops'[i].seen
          PROVE  StmtsOf(i)'[j].name[1] \in DOMAIN cache' /\ cache'[StmtsOf(i)'[j].name[1]] = "loaded"
      BY <1>3, <2>1, <3>1, <3>2, <3>3
    <3>4. QED
      BY <3>3 DEF SeenInv, IsUse
  <2>2. i \in DOMAIN loops /\ i < last /\ i \in 1..Len(loops) - 1 /\ i + 1 \in 2..last
    BY <1>3, <1>4
  <2>3. j \in DOMAIN StmtsOf(i) /\ name = StmtsOf(i)[j].name[1] /\ j <= loops[i].seen /\ IsUse(StmtsOf(i)[j])
    BY <1>3, <2>1
  <2>4. j \in Nat /\ loops[i].seen \in Nat
    <3>1. DOMAIN StmtsOf(i) = 1..Len(StmtsOf(i)) /\ Len(StmtsOf(i)) \in Nat
      BY <1>2, <2>2, StatementFacts
    <3>2. QED
      BY <1>2, <1>4, <2>2, <2>3, <3>1, LoopFacts
  <2>5. CASE j < loops[i].seen
    <3>1. name \in DOMAIN cache /\ cache[name] = "loaded"
      BY <1>1, <1>2, <2>1, <2>2, <2>3, <2>5 DEF SeenInv
    <3>2. QED
      BY <1>5, <1>6, <3>1
  <2>6. CASE j = loops[i].seen
    <3>1. name = loops[i + 1].name
      BY <1>2, <2>2, <2>3, <2>6 DEF LoopsInv
    <3>2. ~ (i < last - 1)
      BY <1>3, <2>1, <2>4, <2>6
    <3>3. i + 1 = last
      BY <1>3, <3>2
    <3>4. QED
      BY <1>5, <1>6, <3>1, <3>3
  <2>7. QED
    BY <2>3, <2>4, <2>5, <2>6
<1>12. FinishedInv'
  <2>1. loops' # <<>>
    BY <1>3, <1>4
  <2>2. QED
    BY <2>1 DEF FinishedInv
<1>13. OrderInv'
  <2>1. IsSoundFile(done)' /\ UsesOfFile(done)' = UsesOfFile(done)
    BY <1>1, <1>5, WorldStays
  <2>2. ASSUME NEW name \in UsesOfFile(done) PROVE \E j \in 1..Len(order) : order[j] = name
    <3>1. last # 1 /\ UsesOfFile(done) = UsesOfFile(loops[last].name)
      <4>1. last # 1
        BY <1>4
      <4>2. QED
        BY <4>1
    <3>2. name \in DOMAIN cache /\ cache[name] = "loaded"
      BY <1>1, <3>1, <2>2, AllUsesLoaded
    <3>3. QED
      BY <1>2, <1>7, <3>2 DEF CacheInv
  <2>3. \A j \in 1..Len(order) : order[j] # done
    BY <1>2, <1>5, <1>7 DEF CacheInv
  <2>4. \A name : UsesOfFile(name)' = UsesOfFile(name) /\ IsSoundFile(name)' = IsSoundFile(name)
    BY <1>1, WorldStays
  <2>5. ASSUME NEW i \in 1..Len(order) + 1
        PROVE  /\ IsSoundFile(order[i])'
               /\ UsesOfFile(order[i])' \subseteq {order'[j] : j \in 1..i - 1}
               /\ \A j \in 1..i - 1 : order'[j] # order'[i]
    <3>1. \A j \in 1..i - 1 : j \in 1..Len(order) /\ order'[j] = order[j]
      BY <1>7
    <3>2. {order'[j] : j \in 1..i - 1} = {order[j] : j \in 1..i - 1}
      BY <3>1
    <3>3. CASE i = Len(order) + 1
      <4>1. done = order'[i] /\ \A j \in 1..Len(order) : j \in 1..i - 1
        BY <1>7, <3>3
      <4>2. IsSoundFile(order[i])' /\ UsesOfFile(order[i])' = UsesOfFile(done)
        BY <2>1, <4>1
      <4>3. UsesOfFile(done) \subseteq {order[j] : j \in 1..i - 1}
        BY <2>2, <4>1
      <4>4. QED
        BY <2>3, <3>1, <3>2, <4>1, <4>2, <4>3
    <3>4. CASE i # Len(order) + 1
      <4>1. i \in DOMAIN order /\ order'[i] = order[i]
        BY <1>7, <3>4
      <4>2. PICK old : old = order[i]
        OBVIOUS
      <4>3. /\ IsSoundFile(old) /\ UsesOfFile(old) \subseteq {order[j] : j \in 1..i - 1}
            /\ \A j \in 1..i - 1 : order[j] # old
        BY <1>2, <4>1, <4>2 DEF OrderInv
      <4>4. old = order'[i]
        BY <4>1, <4>2
      <4>5. IsSoundFile(order[i])' /\ UsesOfFile(order[i])' = UsesOfFile(old)
        BY <2>4, <4>3, <4>4
      <4>6. QED
        BY <3>1, <3>2, <4>3, <4>4, <4>5
    <3>5. QED
      BY <3>3, <3>4
  <2>6. QED
    BY <1>7, <2>5 DEF OrderInv
<1>14. NeedInv'
  <2>1. DOMAIN cache' \subseteq Needed(Wanted)
    BY <1>2, <1>6 DEF NeedInv
  <2>2. DOMAIN cache' \subseteq Needed(Wanted)'
    BY <1>1, <2>1, NeededByProgram
  <2>3. QED
    BY <1>3, <2>2 DEF NeedInv
<1>15. ErrorInv'
  BY <1>1 DEF ErrorInv
<1>16. QED
  BY <1>3, <1>9, <1>10, <1>11, <1>12, <1>13, <1>14, <1>15 DEF LoaderInv

\* All modules of the program are loaded.
LEMMA FinishesProgram ==
    ASSUME LoaderInv, FinishProgram
    PROVE  LoaderInv'
<1> PICK last : last = Len(loops)
  OBVIOUS
<1>1. /\ error = "" /\ error' = error /\ world' = world /\ SeenAll /\ loops # <<>> /\ last = 1
      /\ cache' = cache /\ order' = order /\ LeaveLoop
  BY DEF FinishProgram, SeenAll
<1>2. TypeOK /\ CacheInv /\ LoopsInv /\ SeenInv /\ OrderInv /\ NeedInv
  BY DEF LoaderInv
<1>3. /\ loops' \in Seq(LoopTypes) /\ Len(loops') = last - 1 /\ LoopsInv'
      /\ \A i \in 2..Len(loops') : loops'[i].name \in Sources
  BY <1>1, MovesOut
<1>4. Len(loops') = 0 /\ DOMAIN loops' = {}
  <2>1. last = 1 /\ Len(loops') = last - 1
    BY <1>1, <1>3
  <2>2. Len(loops') = 0
    BY ONLY <2>1
  <2>3. loops' \in Seq(LoopTypes)
    BY <1>3
  <2>4. DOMAIN loops' = 1..Len(loops')
    BY ONLY <2>3
  <2>5. DOMAIN loops' = {}
    BY ONLY <2>2, <2>4
  <2>6. QED
    BY <2>2, <2>5
<1>5. TypeOK'
  <2>1. order' \in Seq(Sources) /\ DOMAIN cache' \subseteq Sources /\ cache' \in [DOMAIN cache' -> States]
    BY <1>1, <1>2 DEF TypeOK
  <2>2. QED
    BY <1>1, <1>2, <1>3, <2>1, TypeStays
<1>6. CacheInv'
  <2>1. \A name \in DOMAIN cache : cache[name] # "loading"
    <3>1. \A i \in 2..last : FALSE
      <4>1. last = 1
        BY <1>1
      <4>2. QED
        BY ONLY <4>1
    <3>2. QED
      BY <1>2, <3>1 DEF CacheInv
  <2>2. \A i \in 2..Len(loops') : FALSE
    BY <1>4
  <2>3. /\ \A i \in DOMAIN order' : order'[i] \in DOMAIN cache' /\ cache'[order'[i]] = "loaded"
        /\ \A name \in DOMAIN cache' : cache'[name] = "loaded" => \E i \in DOMAIN order' : order'[i] = name
        /\ error' = "" => \A name \in DOMAIN cache' : cache'[name] # "failed"
    BY <1>1, <1>2 DEF CacheInv
  <2>4. QED
    BY <1>1, <2>1, <2>2, <2>3 DEF CacheInv
<1>7. SeenInv'
  BY <1>4 DEF SeenInv
<1>8. FinishedInv'
  <2>1. \A name \in Wanted : name \in DOMAIN cache /\ cache[name] = "loaded"
    BY <1>1, AllUsesLoaded
  <2>2. Wanted' = Wanted
    BY <1>1, WorldStays
  <2>3. QED
    BY <1>1, <2>1, <2>2 DEF FinishedInv
<1>9. OrderInv'
  BY <1>1, <1>2, OrderStays
<1>10. NeedInv'
  <2>1. DOMAIN cache' \subseteq Needed(Wanted)
    BY <1>1, <1>2 DEF NeedInv
  <2>2. DOMAIN cache' \subseteq Needed(Wanted)'
    BY <1>1, <2>1, NeededByProgram
  <2>3. \A i \in 2..Len(loops') : FALSE
    BY <1>4
  <2>4. QED
    BY <2>2, <2>3 DEF NeedInv
<1>11. ErrorInv'
  BY <1>1 DEF ErrorInv
<1>12. QED
  BY <1>3, <1>5, <1>6, <1>7, <1>8, <1>9, <1>10, <1>11 DEF LoaderInv

\* The error leaves a loop.
LEMMA PassesOn ==
    ASSUME LoaderInv, PassOn
    PROVE  LoaderInv'
<1> PICK last : last = Len(loops)
  OBVIOUS
<1> PICK left : left = loops[last].name
  OBVIOUS
<1>1. /\ error # "" /\ error' = error /\ world' = world /\ loops # <<>> /\ order' = order /\ LeaveLoop
      /\ IF last = 1 THEN cache' = cache ELSE Mark(left, "failed")
  BY DEF PassOn, Innermost
<1>2. TypeOK /\ CacheInv /\ LoopsInv /\ OrderInv /\ NeedInv /\ ErrorInv
  BY DEF LoaderInv
<1>3. /\ last \in Nat \ {0} /\ loops' \in Seq(LoopTypes) /\ Len(loops') = last - 1
      /\ \A i \in 1..last - 1 : loops'[i] = loops[i]
      /\ \A i \in 2..Len(loops') : loops'[i].name \in Sources
      /\ LoopsInv'
      /\ \A i, j \in 2..Len(loops') : i < j => (loops[j].name \in Needed(UsesOfFile(loops[i].name)))'
  BY <1>1, MovesOut
<1>4. \A i \in 2..last - 1 : i \in 1..last - 1 /\ i \in 2..last /\ i # last
  <2>1. last \in Nat \ {0}
    BY <1>3
  <2>2. QED
    BY ONLY <2>1
<1>5. /\ DOMAIN cache' = DOMAIN cache
      /\ \A n \in DOMAIN cache : (n # left \/ last = 1) => cache'[n] = cache[n]
      /\ last # 1 => left \in DOMAIN cache /\ cache[left] = "loading" /\ cache'[left] = "failed"
      /\ DOMAIN cache' \subseteq Sources /\ cache' \in [DOMAIN cache' -> States]
  <2>1. CASE last = 1
    BY <1>1, <1>2, <2>1 DEF TypeOK
  <2>2. CASE last # 1
    <3>1. last \in 2..last
      <4>1. last \in Nat \ {0}
        BY <1>3
      <4>2. QED
        BY ONLY <4>1, <2>2
    <3>2. left \in Sources /\ left \in DOMAIN cache /\ cache[left] = "loading"
      BY <1>2, <3>1 DEF TypeOK, CacheInv
    <3>3. Mark(left, "failed") /\ "failed" \in States
      BY <1>1, <2>2 DEF States
    <3>4. QED
      BY <1>2, <2>2, <3>2, <3>3, MarkFacts
  <2>3. QED
    BY <2>1, <2>2
<1>6. TypeOK'
  <2>1. order' \in Seq(Sources)
    BY <1>1, <1>2 DEF TypeOK
  <2>2. QED
    BY <1>1, <1>2, <1>3, <1>5, <2>1, TypeStays
<1>7. CacheInv'
  <2>1. ASSUME NEW i \in 2..last - 1
        PROVE  /\ loops'[i].name = loops[i].name /\ loops[i].name # left
               /\ loops[i].name \in DOMAIN cache /\ cache[loops[i].name] = "loading"
    <3>1. i \in 2..last /\ last \in 2..last /\ i # last
      <4>1. last \in Nat \ {0}
        BY <1>3
      <4>2. QED
        BY ONLY <4>1
    <3>2. QED
      BY <1>2, <1>3, <1>4, <3>1 DEF CacheInv
  <2>2. \A i \in 2..last - 1 : loops'[i].name \in DOMAIN cache' /\ cache'[loops'[i].name] = "loading"
    BY <1>5, <2>1
  <2>3. ASSUME NEW name \in DOMAIN cache', cache'[name] = "loading" PROVE \E i \in 2..last - 1 : loops'[i].name = name
    <3>1. (last # 1 => name # left) /\ name \in DOMAIN cache /\ cache[name] = "loading"
      BY <1>5, <2>3
    <3>2. PICK i \in 2..last : loops[i].name = name
      BY <1>2, <3>1 DEF CacheInv
    <3>3. i \in 2..last - 1
      <4>1. i \in 2..last /\ last \in Nat \ {0}
        BY <1>3
      <4>2. last # 1
        BY ONLY <4>1
      <4>3. i # last
        BY <3>1, <3>2, <4>2
      <4>4. QED
        BY ONLY <4>1, <4>3
    <3>4. QED
      BY <2>1, <3>2, <3>3
  <2>4. \A i, j \in 2..last - 1 : loops'[i].name = loops'[j].name => i = j
    BY <1>2, <1>4, <2>1 DEF CacheInv
  <2>5. ASSUME NEW i \in DOMAIN order PROVE order[i] \in DOMAIN cache' /\ cache'[order[i]] = "loaded"
    <3>1. order[i] \in DOMAIN cache /\ cache[order[i]] = "loaded"
      BY <1>2 DEF CacheInv
    <3>2. order[i] # left \/ last = 1
      BY <1>5, <3>1
    <3>3. QED
      BY <1>5, <3>1, <3>2
  <2>6. ASSUME NEW name \in DOMAIN cache', cache'[name] = "loaded" PROVE \E i \in DOMAIN order : order[i] = name
    <3>1. name \in DOMAIN cache /\ (name # left \/ last = 1)
      BY <1>5, <2>6
    <3>2. cache[name] = "loaded"
      BY <1>5, <2>6, <3>1
    <3>3. QED
      BY <1>2, <3>1, <3>2 DEF CacheInv
  <2>7. QED
    BY <1>1, <1>3, <2>2, <2>3, <2>4, <2>5, <2>6 DEF CacheInv
<1>8. SeenInv' /\ FinishedInv'
  BY <1>1 DEF SeenInv, FinishedInv
<1>9. OrderInv'
  BY <1>1, <1>2, OrderStays
<1>10. NeedInv'
  <2>1. DOMAIN cache' \subseteq Needed(Wanted)
    BY <1>2, <1>5 DEF NeedInv
  <2>2. DOMAIN cache' \subseteq Needed(Wanted)'
    BY <1>1, <2>1, NeededByProgram
  <2>3. QED
    BY <1>3, <2>2 DEF NeedInv
<1>11. ErrorInv'
  <2>1. PICK name \in Needed(Wanted) : ~ IsSoundFile(name) \/ NeedsItself(name)
    BY <1>1, <1>2 DEF ErrorInv
  <2>2. QED
    BY <1>1, <2>1, ErrorFound
<1>12. QED
  BY <1>3, <1>6, <1>7, <1>8, <1>9, <1>10, <1>11 DEF LoaderInv
-----------------------------------------------------------------------------
\* No loop has seen anything at the start.
LEMMA InitLoader == LoaderInit => LoaderInv
<1> SUFFICES ASSUME LoaderInit PROVE LoaderInv
  OBVIOUS
<1>1. /\ world \in Programs /\ loops = <<[name |-> Program, seen |-> 0]>>
      /\ cache = <<>> /\ order = <<>> /\ error = ""
  BY DEF LoaderInit, Program
<1>2. PICK first : first = [name |-> Program, seen |-> 0]
  OBVIOUS
<1>3. first \in LoopTypes /\ first.seen = 0
  BY <1>2 DEF LoopTypes
<1>4. loops \in Seq(LoopTypes) /\ Len(loops) = 1 /\ DOMAIN loops = {1} /\ loops[1] = first
  <2>1. loops = <<first>>
    BY <1>1, <1>2
  <2>2. loops \in Seq(LoopTypes) /\ Len(loops) = 1 /\ loops[1] = first
    BY <1>3, <2>1
  <2>3. DOMAIN loops = 1..1
    BY <2>2
  <2>4. QED
    BY <2>2, <2>3
<1>5. (\A i \in 2..Len(loops) : FALSE) /\ (\A i \in 1..Len(loops) - 1 : FALSE)
  BY <1>4
<1>6. DOMAIN cache = {} /\ DOMAIN order = {}
  <2>1. cache = <<>> /\ order = <<>>
    BY <1>1
  <2>2. DOMAIN <<>> = {}
    OBVIOUS
  <2>3. QED
    BY <2>1, <2>2
<1>7. TypeOK
  <2>1. cache \in Seq(States)
    BY <1>1, EmptySeq
  <2>2. cache \in [DOMAIN cache -> States]
    <3>1. PICK n \in Nat : cache \in [1..n -> States]
      BY <2>1, SeqDef
    <3>2. QED
      BY <3>1
  <2>3. order = <<>>
    BY <1>1
  <2>4. order \in Seq(Sources)
    BY <2>3
  <2>5. QED
    BY <1>1, <1>4, <1>5, <1>6, <2>2, <2>4 DEF TypeOK, LoopTypes
<1>8. CacheInv
  BY <1>5, <1>6 DEF CacheInv
<1>9. LoopsInv
  BY <1>5 DEF LoopsInv
<1>10. SeenInv
  <2>1. SUFFICES ASSUME NEW k \in DOMAIN StmtsOf(1), k <= 0
                 PROVE  FALSE
    BY <1>3, <1>4 DEF SeenInv
  <2>2. DOMAIN StmtsOf(1) = 1..Len(StmtsOf(1)) /\ Len(StmtsOf(1)) \in Nat
    BY <1>4, <1>7, StatementFacts
  <2>3. k \in 1..Len(StmtsOf(1)) /\ Len(StmtsOf(1)) \in Nat
    BY <2>2
  <2>4. QED
    BY <2>1, <2>3
<1>11. FinishedInv
  BY <1>1 DEF FinishedInv
<1>12. OrderInv /\ NeedInv /\ ErrorInv
  BY <1>1, <1>5, <1>6 DEF OrderInv, NeedInv, ErrorInv
<1>13. QED
  BY <1>7, <1>8, <1>9, <1>10, <1>11, <1>12 DEF LoaderInv

\* Nothing changes, and so the invariant stays.
LEMMA LoaderStutters ==
    ASSUME LoaderInv, UNCHANGED loaderVars
    PROVE  LoaderInv'
<1>1. world' = world /\ loops' = loops /\ cache' = cache /\ order' = order /\ error' = error
  BY DEF loaderVars
<1>2. TypeOK' /\ CacheInv'
  <2>1. TypeOK /\ CacheInv
    BY DEF LoaderInv
  <2>2. Sources' = Sources
    BY <1>1, WorldStays
  <2>3. TypeOK'
    BY <1>1, <2>1, <2>2 DEF TypeOK
  <2>4. CacheInv'
    BY <1>1, <2>1 DEF CacheInv
  <2>5. QED
    BY <2>3, <2>4
<1>3. \A i : StmtsOf(i)' = StmtsOf(i)
  BY <1>1, StatementsStay
<1>4. \A i : IsSoundFile(loops[i].name)' = IsSoundFile(loops[i].name)
  BY <1>1 DEF IsSoundFile, FileOf
<1>5. LoopsInv'
  <2>1. LoopsInv
    BY DEF LoaderInv
  <2>2. QED
    BY <1>1, <1>3, <1>4, <2>1 DEF LoopsInv
<1>6. SeenInv' /\ FinishedInv'
  <2>1. SeenInv /\ FinishedInv /\ Sources' = Sources /\ Wanted' = Wanted
    BY <1>1, WorldStays DEF LoaderInv
  <2>2. SeenInv'
    BY <1>1, <1>3, <2>1 DEF SeenInv
  <2>3. FinishedInv'
    BY <1>1, <2>1 DEF FinishedInv
  <2>4. QED
    BY <2>2, <2>3
<1>7. OrderInv'
  BY <1>1, OrderStays DEF LoaderInv
<1>8. NeedInv'
  <2>1. NeedInv
    BY DEF LoaderInv
  <2>2. Needed(Wanted)' = Needed(Wanted)
    BY <1>1, NeededByProgram
  <2>3. \A i : Needed(UsesOfFile(loops[i].name))' = Needed(UsesOfFile(loops[i].name))
    BY <1>1 DEF Needed, Closed, UsesOfFile, FileOf, Sources
  <2>4. QED
    BY <1>1, <2>1, <2>2, <2>3 DEF NeedInv
<1>9. ErrorInv'
  <2>1. ErrorInv
    BY DEF LoaderInv
  <2>2. CASE error = ""
    BY <1>1, <2>2 DEF ErrorInv
  <2>3. CASE error # ""
    <3>1. PICK name \in Needed(Wanted) : ~ IsSoundFile(name) \/ NeedsItself(name)
      BY <2>1, <2>3 DEF ErrorInv
    <3>2. QED
      BY <1>1, <3>1, ErrorFound
  <2>4. QED
    BY <2>2, <2>3
<1>10. QED
  BY <1>2, <1>5, <1>6, <1>7, <1>8, <1>9 DEF LoaderInv

\* The loader keeps its invariant, whatever the files and the uses (LoadAndCompose and LoadAst).
THEOREM LoaderInvariance == LoaderSpec => []LoaderInv
<1>1. ASSUME LoaderInv, [LoaderNext]_loaderVars PROVE LoaderInv'
  <2>1. ASSUME NEW k \in DOMAIN Stmts,
               SkipExternal(k) \/ ReuseLoaded(k) \/ RefuseCached(k) \/ RefuseFile(k) \/ EnterModule(k)
        PROVE  LoaderInv'
    <3>1. CASE SkipExternal(k) \/ ReuseLoaded(k)
      BY <1>1, <3>1, PassesOver
    <3>2. CASE RefuseCached(k)
      BY <1>1, <3>2, RefusesCached
    <3>3. CASE RefuseFile(k)
      BY <1>1, <3>3, RefusesFile
    <3>4. CASE EnterModule(k)
      BY <1>1, <3>4, EntersModule
    <3>5. QED
      BY <2>1, <3>1, <3>2, <3>3, <3>4
  <2>2. CASE FinishModule
    BY <1>1, <2>2, FinishesModule
  <2>3. CASE FinishProgram
    BY <1>1, <2>3, FinishesProgram
  <2>4. CASE PassOn
    BY <1>1, <2>4, PassesOn
  <2>5. CASE UNCHANGED loaderVars
    BY <1>1, <2>5, LoaderStutters
  <2>6. QED
    BY <1>1, <2>1, <2>2, <2>3, <2>4, <2>5 DEF LoaderNext, SeeUse
<1>2. QED
  BY <1>1, InitLoader, PTL DEF LoaderSpec

\* What is loaded at the end is what the program needs, since the order has the program's
\* uses and those of its own members.
LEMMA LoadedIsNeeded ==
    ASSUME LoaderInv
    PROVE  LoadsInOrder
<1>1. TypeOK /\ CacheInv /\ FinishedInv /\ OrderInv /\ NeedInv /\ ErrorInv
  BY DEF LoaderInv
<1>2. CASE error # ""
  BY <1>1, <1>2 DEF ErrorInv, LoadsInOrder
<1>3. CASE error = ""
  <2>1. ASSUME loops = <<>> PROVE ToSet(order) = Needed(Wanted)
    <3>1. /\ \A i \in DOMAIN order : order[i] \in Sources
          /\ \A i \in DOMAIN order : \A j \in 1..i - 1 : j \in DOMAIN order
      <4>1. order \in Seq(Sources) /\ Len(order) \in Nat /\ DOMAIN order = 1..Len(order)
        BY <1>1 DEF TypeOK
      <4>2. QED
        BY <4>1
    <3>2. ToSet(order) = {order[i] : i \in DOMAIN order}
      BY DEF ToSet
    <3>3. ToSet(order) \subseteq Needed(Wanted)
      <4>1. DOMAIN cache \subseteq Needed(Wanted)
        BY <1>1 DEF NeedInv
      <4>2. \A i \in DOMAIN order : order[i] \in DOMAIN cache
        BY <1>1 DEF CacheInv
      <4>3. QED
        BY <3>2, <4>1, <4>2
    <3>4. Wanted \subseteq ToSet(order)
      <4>1. ASSUME NEW name \in Wanted PROVE name \in ToSet(order)
        <5>1. name \in DOMAIN cache /\ cache[name] = "loaded"
          BY <1>1, <1>3, <2>1 DEF FinishedInv
        <5>2. PICK i \in DOMAIN order : order[i] = name
          BY <1>1, <5>1 DEF CacheInv
        <5>3. QED
          BY <3>2, <5>2
      <4>2. QED
        BY <4>1
    <3>5. Closed(ToSet(order))
      <4>1. ASSUME NEW i \in DOMAIN order PROVE UsesOfFile(order[i]) \subseteq ToSet(order)
        BY <1>1, <3>1, <3>2 DEF OrderInv
      <4>2. QED
        BY <3>2, <4>1 DEF Closed
    <3>6. ToSet(order) \in SUBSET Sources
      BY <3>1, <3>2
    <3>7. Needed(Wanted) \subseteq ToSet(order)
      BY <3>4, <3>5, <3>6 DEF Needed
    <3>8. QED
      BY <3>3, <3>7
  <2>2. QED
    BY <1>1, <1>3, <2>1 DEF OrderInv, LoadsInOrder
<1>4. QED
  BY <1>2, <1>3

\* What is composed is what the program needs, dependencies first, and a load fails only
\* with a reason (TSourceModuleLoader::LoadAst and CompletionOrder).
THEOREM LoadingInOrder == LoaderSpec => []LoadsInOrder
BY LoaderInvariance, LoadedIsNeeded, PTL

\* The load fails exactly when a module that the program needs cannot be one or needs itself.
FailsExactlyForAReason ==
    loops = <<>> => (error # "" <=> \E name \in Needed(Wanted) : ~ IsSoundFile(name) \/ NeedsItself(name))

\* A module of the order needs only what comes before it.
LEMMA NoneNeedsItself ==
    ASSUME TypeOK, OrderInv, NEW i \in DOMAIN order
    PROVE  IsSoundFile(order[i]) /\ ~ NeedsItself(order[i])
<1> DEFINE before == {order[j] : j \in 1..i - 1}
<1>1. order \in Seq(Sources) /\ Len(order) \in Nat /\ DOMAIN order = 1..Len(order) /\ i \in 1..Len(order)
  BY DEF TypeOK
<1>2. \A j \in 1..i - 1 : j \in DOMAIN order /\ \A k \in 1..j - 1 : k \in 1..i - 1
  BY <1>1
<1>3. before \in SUBSET Sources
  BY <1>1, <1>2
<1>4. UsesOfFile(order[i]) \subseteq before /\ order[i] \notin before /\ IsSoundFile(order[i])
  BY DEF OrderInv
<1>5. Closed(before)
  <2>1. ASSUME NEW j \in 1..i - 1 PROVE UsesOfFile(order[j]) \subseteq before
    <3>1. UsesOfFile(order[j]) \subseteq {order[k] : k \in 1..j - 1}
      BY <1>2 DEF OrderInv
    <3>2. QED
      BY <1>2, <3>1
  <2>2. QED
    BY <2>1 DEF Closed
<1>6. QED
  BY <1>3, <1>4, <1>5 DEF NeedsItself, Needed

\* The error of a load is never out of place and never missing (TSourceModuleLoader::LoadAst).
THEOREM RefusingTheUnloadable == LoaderSpec => []FailsExactlyForAReason
<1>1. ASSUME LoaderInv PROVE FailsExactlyForAReason
  <2>1. TypeOK /\ OrderInv /\ LoadsInOrder
    BY <1>1, LoadedIsNeeded DEF LoaderInv
  <2>2. CASE error # ""
    BY <2>1, <2>2 DEF LoadsInOrder, FailsExactlyForAReason
  <2>3. CASE error = ""
    <3>1. ASSUME loops = <<>>, NEW name \in Needed(Wanted) PROVE IsSoundFile(name) /\ ~ NeedsItself(name)
      <4>1. name \in ToSet(order)
        BY <2>1, <2>3, <3>1 DEF LoadsInOrder
      <4>2. PICK i \in DOMAIN order : order[i] = name
        BY <4>1 DEF ToSet
      <4>3. QED
        BY <2>1, <4>2, NoneNeedsItself
    <3>2. QED
      BY <2>3, <3>1 DEF FailsExactlyForAReason
  <2>4. QED
    BY <2>2, <2>3
<1>2. QED
  BY <1>1, LoaderInvariance, PTL
=============================================================================
