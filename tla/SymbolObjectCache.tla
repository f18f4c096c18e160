-------------------------- MODULE SymbolObjectCache --------------------------
(***************************************************************************)
(* TSymbolObjectCache (codegen/llvm/symbol_object_cache.{h,cpp}): one      *)
(* cache directory, holding object files qumir_inc_<n>.o and the map       *)
(* meta.v1 from symbols to them, used by the threads of several processes. *)
(* Every Open and Register takes an exclusive flock on the directory; the  *)
(* operating system drops it when its holder crashes.                      *)
(*                                                                         *)
(* A step is one file-system effect, so that a crash, or a thread that     *)
(* ignores the lock, can come between any two of them.  An object file is  *)
(* abstracted to the set of symbols it defines: the name of a cacheable    *)
(* symbol determines its code (symbol_object_cache.h:35-40).               *)
(***************************************************************************)
EXTENDS Integers, FiniteSets

CONSTANTS
    Symbols,     \* names of cacheable functions
    Threads,     \* callers
    Instances,   \* opened caches, each in a process of its own
    InstanceOf,  \* the instance a thread works on
    Faults,      \* the disk faults that may happen, see AllFaults
    NoThread

\* "object": creating, writing or renaming an object file is seen to fail
\* "meta":   writing or renaming meta.v1 is seen to fail
\* "flush":  the buffered tail of meta.v1.tmp is lost when the stream closes
\* "read":   meta.v1 exists but cannot be opened for reading
AllFaults == {"object", "meta", "flush", "read"}

ASSUME CacheAssumption ==
    /\ InstanceOf \in [Threads -> Instances]
    /\ Faults \subseteq AllFaults
    /\ NoThread \notin Threads

VARIABLES
    objects,   \* the directory: file number -> symbols the object defines
    meta,      \* meta.v1 on disk
    metaTmp,   \* meta.v1.tmp on disk
    lock,      \* holder of the flock on .lock
    opened,    \* instances that Open has returned
    mem,       \* SymToObj_ of an instance
    pc,        \* where a thread is
    call       \* locals of the Open or Register a thread is in

vars == <<objects, meta, metaTmp, lock, opened, mem, pc, call>>

NoFile  == -1
Nothing == [s \in Symbols |-> NoFile]            \* the empty TSymMap
Maps    == [Symbols -> Nat \cup {NoFile}]        \* TSymMap

Known(map) == {s \in Symbols : map[s] # NoFile}
Files(map) == {map[s] : s \in Known(map)}

LargestFile(map) == CHOOSE n \in Files(map) : \A m \in Files(map) : m <= n

\* Mutant of NextIncVer: the last number is handed out again.
NextIncVerReusing(map) == IF Files(map) = {} THEN 0 ELSE LargestFile(map)

\* One more than the largest number in use, 0 when the map is empty.
NextIncVer(map) ==
    IF Files(map) = {} THEN 0
    ELSE 1 + LargestFile(map)

\* Mutant of Present: only an object known as a whole is discarded.
PresentAll(map, S) == S \subseteq Known(map)

\* Register: some symbol of S is mapped already.
Present(map, S) == S \cap Known(map) # {}

\* Mutant of Attribute: the entries read from meta.v1 are dropped.
AttributeOnly(map, S, n) == [s \in Symbols |-> IF s \in S THEN n ELSE NoFile]

\* The map with the symbols of S mapped to file n.
Attribute(map, S, n) == [s \in Symbols |-> IF s \in S THEN n ELSE map[s]]

\* A directory after file n was (over)written, and after it was removed.
PutFile(dir, n, S) == [m \in DOMAIN dir \cup {n} |-> IF m = n THEN S ELSE dir[m]]
RemoveFile(dir, n) == [m \in DOMAIN dir \ {n} |-> dir[m]]

Calls == [provided: SUBSET Symbols, map: Maps, file: Nat \cup {NoFile},
          result: {"none", "Installed", "AlreadyPresent", "error"}]
Call(S, map, n, r) == [provided |-> S, map |-> map, file |-> n, result |-> r]
NoCall == Call({}, Nothing, NoFile, "none")

\* ReadMeta: a stream that does not open reads as an empty map.
ReadMeta == {meta} \cup (IF "read" \in Faults THEN {Nothing} ELSE {})

\* What meta.v1.tmp holds after WriteMeta(map) found the stream good.
\* (A line cut in the middle is left out: it counts as a line not written.)
PartialMaps(map) == {[s \in Symbols |-> IF s \in S THEN map[s] ELSE NoFile] :
                     S \in SUBSET Known(map)}
Flushed(map) == IF "flush" \in Faults THEN PartialMaps(map) ELSE {map}

Go(t, to) == pc' = [pc EXCEPT ![t] = to]

\* TDirLock's constructor: flock blocks while another thread holds the lock.
TakeLock(t) == lock = NoThread /\ lock' = t

\* Mutant of Return: an error path leaves the lock taken.
ReturnLocked(t, r) == /\ Go(t, "idle")
                      /\ call' = [call EXCEPT ![t] = Call({}, Nothing, NoFile, r)]
                      /\ lock' = IF r = "error" THEN lock ELSE NoThread

\* Register returns r, and TDirLock's destructor releases the lock.
Return(t, r) == /\ Go(t, "idle")
                /\ call' = [call EXCEPT ![t] = Call({}, Nothing, NoFile, r)]
                /\ lock' = NoThread
-----------------------------------------------------------------------------
Init ==
    /\ objects = [n \in {} |-> {}]
    /\ meta = Nothing
    /\ metaTmp = Nothing
    /\ lock = NoThread
    /\ opened = {}
    /\ mem = [i \in Instances |-> Nothing]
    /\ pc = [t \in Threads |-> "idle"]
    /\ call = [t \in Threads |-> NoCall]

\* Open: TDirLock.  One thread opens the cache, before the others can have it.
OpenLock(t) ==
    /\ pc[t] = "idle"
    /\ InstanceOf[t] \notin opened
    /\ \A u \in Threads : InstanceOf[u] = InstanceOf[t] => pc[u] = "idle"
    /\ TakeLock(t)
    /\ Go(t, "open")
    /\ UNCHANGED <<objects, meta, metaTmp, opened, mem, call>>

\* Open: ReadMeta, the new instance, and the lock released on return.
OpenRead(t) ==
    /\ pc[t] = "open"
    /\ \E map \in ReadMeta : mem' = [mem EXCEPT ![InstanceOf[t]] = map]
    /\ opened' = opened \cup {InstanceOf[t]}
    /\ Go(t, "idle")
    /\ lock' = NoThread
    /\ UNCHANGED <<objects, meta, metaTmp, call>>

\* Register: TDirLock.
RegisterLock(t, S) ==
    /\ pc[t] = "idle"
    /\ InstanceOf[t] \in opened
    /\ S # {}
    /\ TakeLock(t)
    /\ Go(t, "read")
    /\ call' = [call EXCEPT ![t] = Call(S, Nothing, NoFile, "none")]
    /\ UNCHANGED <<objects, meta, metaTmp, opened, mem>>

\* Register: re-read meta under the lock; a symbol already mapped discards
\* the whole object, otherwise the object gets the next file number.
RegisterRead(t) ==
    /\ pc[t] = "read"
    /\ \E map \in ReadMeta :
         LET S == call[t].provided IN
         IF Present(map, S)
         THEN /\ call' = [call EXCEPT ![t] = Call(S, map, NoFile, "AlreadyPresent")]
              /\ Go(t, "install")
         ELSE /\ call' = [call EXCEPT ![t] = Call(S, map, NextIncVer(map), "none")]
              /\ Go(t, "object")
    /\ UNCHANGED <<objects, meta, metaTmp, lock, opened, mem>>

\* Register: unique temporary file written, then renamed to its object path.
WriteObject(t) ==
    /\ pc[t] = "object"
    /\ LET S == call[t].provided
           n == call[t].file IN
       /\ objects' = PutFile(objects, n, S)
       /\ call' = [call EXCEPT ![t] = Call(S, Attribute(call[t].map, S, n), n, "none")]
    /\ Go(t, "meta")
    /\ UNCHANGED <<meta, metaTmp, lock, opened, mem>>

\* Register: the temporary is removed and nothing was published.
WriteObjectFails(t) ==
    /\ "object" \in Faults
    /\ pc[t] = "object"
    /\ Return(t, "error")
    /\ UNCHANGED <<objects, meta, metaTmp, opened, mem>>

\* WriteMeta: the fixed temporary file, found good by the stream.
WriteMetaTmp(t) ==
    /\ pc[t] = "meta"
    /\ \E map \in Flushed(call[t].map) : metaTmp' = map
    /\ Go(t, "rename")
    /\ UNCHANGED <<objects, meta, lock, opened, mem, call>>

\* WriteMeta: the stream went bad; the partial temporary file stays behind.
WriteMetaTmpFails(t) ==
    /\ "meta" \in Faults
    /\ pc[t] = "meta"
    /\ metaTmp' \in PartialMaps(call[t].map)
    /\ Go(t, "undo")
    /\ UNCHANGED <<objects, meta, lock, opened, mem, call>>

\* WriteMeta: rename; the call is now sure to be Installed.
RenameMeta(t) ==
    /\ pc[t] = "rename"
    /\ meta' = metaTmp
    /\ metaTmp' = Nothing
    /\ call' = [call EXCEPT ![t] =
                   Call(call[t].provided, call[t].map, call[t].file, "Installed")]
    /\ Go(t, "install")
    /\ UNCHANGED <<objects, lock, opened, mem>>

\* WriteMeta: the rename fails and the temporary file is removed.
RenameMetaFails(t) ==
    /\ "meta" \in Faults
    /\ pc[t] = "rename"
    /\ metaTmp' = Nothing
    /\ Go(t, "undo")
    /\ UNCHANGED <<objects, meta, lock, opened, mem, call>>

\* Register: meta could not be written, so the object is taken back.
RemoveObject(t) ==
    /\ pc[t] = "undo"
    /\ objects' = RemoveFile(objects, call[t].file)
    /\ Return(t, "error")
    /\ UNCHANGED <<meta, metaTmp, opened, mem>>

\* Register: the map read (and extended) replaces the one in memory.
Install(t) ==
    /\ pc[t] = "install"
    /\ mem' = [mem EXCEPT ![InstanceOf[t]] = call[t].map]
    /\ Return(t, call[t].result)
    /\ UNCHANGED <<objects, meta, metaTmp, opened>>

\* The process of instance i dies, at any point of its threads' calls.
Crash(i) ==
    LET dead == {t \in Threads : InstanceOf[t] = i} IN
    /\ i \in opened \/ \E t \in dead : pc[t] # "idle"
    /\ opened' = opened \ {i}
    /\ mem' = [mem EXCEPT ![i] = Nothing]
    /\ pc' = [t \in Threads |-> IF t \in dead THEN "idle" ELSE pc[t]]
    /\ call' = [t \in Threads |-> IF t \in dead THEN NoCall ELSE call[t]]
    /\ lock' = IF lock \in dead THEN NoThread ELSE lock
    /\ UNCHANGED <<objects, meta, metaTmp>>

\* What happens between the entry of Open or Register and its return.
CallStep(t) ==
    \/ OpenRead(t) \/ RegisterRead(t)
    \/ WriteObject(t) \/ WriteObjectFails(t)
    \/ WriteMetaTmp(t) \/ WriteMetaTmpFails(t)
    \/ RenameMeta(t) \/ RenameMetaFails(t) \/ RemoveObject(t)
    \/ Install(t)

Next ==
    \/ \E t \in Threads :
         \/ OpenLock(t)
         \/ \E S \in SUBSET Symbols : RegisterLock(t, S)
         \/ CallStep(t)
    \/ \E i \in Instances : Crash(i)

Spec == Init /\ [][Next]_vars
-----------------------------------------------------------------------------
PCs == {"idle", "open", "read", "object", "meta", "rename", "undo", "install"}

\* Types, and that a file is only ever numbered from 0 up.
TypeOK ==
    /\ DOMAIN objects \subseteq Nat
    /\ \A n \in DOMAIN objects : objects[n] \in SUBSET Symbols
    /\ meta \in Maps
    /\ metaTmp \in Maps
    /\ lock \in Threads \cup {NoThread}
    /\ opened \in SUBSET Instances
    /\ mem \in [Instances -> Maps]
    /\ pc \in [Threads -> PCs]
    /\ call \in [Threads -> Calls]

\* The maps somebody may load objects by: the one on disk, and the ones in the
\* memory of opened caches, which may be stale.
Views == {meta} \cup {mem[i] : i \in opened}
Referenced == UNION {Files(map) : map \in Views}

\* "Objects stay mutually disjoint ..., so loading any subset never
\* double-defines a symbol" (symbol_object_cache.h:42-43): two object files
\* that any cache, however stale, can resolve to define no common symbol.
ObjectsDisjoint ==
    \A m, n \in Referenced \cap DOMAIN objects :
        m # n => objects[m] \cap objects[n] = {}

\* "... and self-attributed (all-or-nothing Register)": in every map an object
\* file exists and defines exactly the symbols that the map attributes to it,
\* so a hit never loads an object without the symbol, or one that also defines
\* a symbol the same map resolves elsewhere or calls a miss.
SelfAttributed ==
    \A map \in Views : \A n \in Files(map) :
        /\ n \in DOMAIN objects
        /\ objects[n] = {s \in Symbols : map[s] = n}

\* When Register is about to return, the map it moves into memory is the one on
\* disk: an Installed object is durable, and AlreadyPresent brings in the
\* winner's entries (symbol_object_cache.cpp:209-211, 177-179).
InstallsWhatIsOnDisk ==
    \A t \in Threads : pc[t] = "install" => call[t].map = meta

\* Once a symbol is in meta.v1 it is never unmapped or moved to another object,
\* whatever fails or crashes afterwards: first writer wins.
FirstWriterWins ==
    [][\A s \in Known(meta) : meta'[s] = meta[s]]_vars

\* An object file that some cache can resolve to is never rewritten or removed:
\* Register reuses file numbers only of objects nobody refers to, and takes
\* back only an object it has not published.
ReferencedObjectsStay ==
    [][\A n \in Referenced \cap DOMAIN objects :
          n \in DOMAIN objects' /\ objects'[n] = objects[n]]_vars

\* The map in memory only grows while its cache is open, although several
\* threads replace it as a whole (SymToObj_ = std::move(map)).
MemoryOnlyGrows ==
    [][\A i \in opened \cap opened' : \A s \in Known(mem[i]) :
          mem'[i][s] = mem[i][s]]_vars

\* The registry these files stand for.
GroupsOf(map) == [s \in Symbols |-> IF map[s] \in DOMAIN objects
                                    THEN objects[map[s]] ELSE {}]
Registry == INSTANCE SymbolRegistry WITH
    group <- GroupsOf(meta),
    view  <- [i \in Instances |-> GroupsOf(mem[i])]

\* The files implement the registry: every step publishes one whole object,
\* refreshes or forgets one view, or changes nothing a caller can see.
ImplementsRegistry == Registry!RegistrySpec
=============================================================================
