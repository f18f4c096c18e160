------------------------- MODULE CachedCompileProofs -------------------------
(***************************************************************************)
(* Proofs about the object cache (SymbolObjectCache), for any sets of      *)
(* symbols, threads and instances and any crashes, and about the jobs that *)
(* compile with it (CachedCompile), for any jobs, symbols and required     *)
(* symbols: linking a job never fails because of the cache.  Both are on a *)
(* disk whose failures are reported (ReliableDisk).                        *)
(***************************************************************************)
EXTENDS CachedCompile, WellFoundedInduction, TLAPS

-----------------------------------------------------------------------------
\* The cache.

\* Object and meta writes may fail, but not silently, and meta.v1 is readable.
ReliableDisk == Faults \subseteq {"object", "meta"}

\* Whoever is inside Open or Register holds the lock.
LockHeld == \A t \in Threads : pc[t] # "idle" => lock = t

\* An object file defines exactly the symbols that map attributes to it.
Attributed(map) ==
    \A n \in Files(map) :
        n \in DOMAIN objects /\ objects[n] = {s \in Symbols : map[s] = n}

\* A map in memory is meta.v1 as it was when fewer symbols were known.
Snapshot(map) == \A s \in Known(map) : map[s] = meta[s]

\* The files of a map have a largest number, so NextIncVer is a fresh one.
HasLargest(map) ==
    Files(map) = {} \/ \E n \in Files(map) : \A m \in Files(map) : m <= n

\* File number n lies above all that meta.v1 uses.
Fresh(n) == n \in Nat /\ \A s \in Symbols : meta[s] < n

\* What thread t knows at each point of Register.
CallInv(t) ==
    /\ pc[t] = "read" => call[t].provided # {}
    /\ pc[t] \in {"object", "meta", "rename"} =>
         /\ call[t].provided # {}
         /\ call[t].provided \cap Known(meta) = {}
    /\ pc[t] \in {"object", "meta", "rename", "undo"} => Fresh(call[t].file)
    /\ pc[t] = "object" => call[t].map = meta
    /\ pc[t] \in {"meta", "rename"} =>
         /\ call[t].file \in DOMAIN objects
         /\ objects[call[t].file] = call[t].provided
         /\ call[t].map = Attribute(meta, call[t].provided, call[t].file)
    /\ pc[t] = "rename" => metaTmp = call[t].map
    /\ pc[t] = "install" => call[t].map = meta

IInv ==
    /\ TypeOK
    /\ LockHeld
    /\ Attributed(meta)
    /\ HasLargest(meta)
    /\ \A i \in Instances : Attributed(mem[i]) /\ Snapshot(mem[i])
    /\ \A t \in Threads : CallInv(t)
-----------------------------------------------------------------------------
(* The operators the actions are built from. *)

\* NextIncVer gives a number above every file of the map.
LEMMA NextIncVerFresh ==
    ASSUME NEW map \in Maps, HasLargest(map)
    PROVE  /\ NextIncVer(map) \in Nat
           /\ \A s \in Symbols : map[s] < NextIncVer(map)
<1>1. \A n \in Files(map) : n \in Nat
  BY DEF Files, Known, Maps, NoFile
<1>2. \A s \in Symbols : map[s] = -1 \/ map[s] \in Files(map)
  BY DEF Files, Known, Maps, NoFile
<1>3. CASE Files(map) = {}
  BY <1>2, <1>3 DEF NextIncVer
<1>4. CASE Files(map) # {}
  <2>1. PICK n \in Files(map) : \A m \in Files(map) : m <= n
    BY <1>4 DEF HasLargest
  <2>2. /\ LargestFile(map) \in Files(map)
        /\ \A m \in Files(map) : m <= LargestFile(map)
    BY <2>1 DEF LargestFile
  <2>3. NextIncVer(map) = 1 + LargestFile(map)
    BY <1>4 DEF NextIncVer
  <2>4. QED
    BY <1>1, <1>2, <2>2, <2>3
<1>5. QED
  BY <1>3, <1>4

\* Attribute returns a map; the empty map is one.
LEMMA MapTypes ==
    /\ Nothing \in Maps
    /\ \A map \in Maps : \A S \in SUBSET Symbols : \A n \in Nat :
          Attribute(map, S, n) \in Maps
    /\ \A map \in Maps : \A S \in SUBSET Symbols : \A n \in Nat \cup {NoFile} :
       \A r \in {"none", "Installed", "AlreadyPresent", "error"} :
          Call(S, map, n, r) \in Calls
BY DEF Nothing, Maps, NoFile, Attribute, Call, Calls

\* On a reliable disk ReadMeta returns meta.v1 and the temporary file is whole.
LEMMA ReliableReads ==
    ASSUME ReliableDisk
    PROVE  ReadMeta = {meta} /\ \A map : Flushed(map) = {map}
BY DEF ReliableDisk, ReadMeta, Flushed

\* A thread outside Register knows nothing.
LEMMA IdleCall ==
    ASSUME NEW t \in Threads, pc[t] \in {"idle", "open"}
    PROVE  CallInv(t)
BY DEF CallInv

\* At most one thread is inside a call.
LEMMA OthersIdle ==
    ASSUME LockHeld, NEW t \in Threads, pc[t] # "idle"
    PROVE  lock = t /\ \A u \in Threads \ {t} : pc[u] = "idle"
BY DEF LockHeld

\* No map in memory refers to a fresh file number.
LEMMA FreshInMemory ==
    ASSUME IInv, NEW n, Fresh(n), NEW i \in Instances
    PROVE  n \notin Files(mem[i]) /\ n \notin Files(meta)
<1>1. mem[i] \in Maps /\ meta \in Maps
  BY DEF IInv, TypeOK
<1>2. \A s \in Known(mem[i]) : s \in Symbols /\ mem[i][s] = meta[s]
  BY DEF IInv, Snapshot, Known
<1>3. QED
  BY <1>1, <1>2 DEF Fresh, Files, Known, Maps, NoFile
-----------------------------------------------------------------------------
(* Each action preserves the invariant. *)

LEMMA InitInv == Init => IInv
<1> SUFFICES ASSUME Init PROVE IInv
  OBVIOUS
<1>1. Files(Nothing) = {} /\ Known(Nothing) = {}
  BY DEF Files, Known, Nothing
<1>2. TypeOK
  BY MapTypes DEF Init, TypeOK, PCs, NoCall
<1>3. LockHeld /\ \A t \in Threads : CallInv(t)
  BY DEF Init, LockHeld, CallInv
<1>4. Attributed(meta) /\ HasLargest(meta)
  BY <1>1 DEF Init, Attributed, HasLargest
<1>5. \A i \in Instances : Attributed(mem[i]) /\ Snapshot(mem[i])
  BY <1>1 DEF Init, Attributed, Snapshot
<1>6. QED
  BY <1>2, <1>3, <1>4, <1>5 DEF IInv

\* A step that leaves files and memory alone and in which at most one thread,
\* the one that then holds the lock, is inside a call.
LEMMA QuietStep ==
    ASSUME IInv, TypeOK', NEW t \in Threads,
           UNCHANGED <<objects, meta, mem>>,
           \A u \in Threads \ {t} : pc'[u] = "idle",
           pc'[t] # "idle" => lock' = t,
           CallInv(t)'
    PROVE  IInv'
<1>1. LockHeld'
  BY DEF LockHeld
<1>2. \A u \in Threads : CallInv(u)'
  BY DEF CallInv
<1>3. /\ Attributed(meta)'
      /\ HasLargest(meta)'
  <2>1. Attributed(meta)'
    BY DEF IInv, Attributed, Files, Known
  <2>2. HasLargest(meta)'
    BY DEF IInv, HasLargest, Files, Known
  <2>3. QED
    BY <2>1, <2>2
<1>4. \A i \in Instances : Attributed(mem[i])' /\ Snapshot(mem[i])'
  BY DEF IInv, Attributed, Snapshot, Files, Known
<1>5. QED
  BY <1>1, <1>2, <1>3, <1>4 DEF IInv

\* Open takes its lock.
LEMMA OpenLockInv == ASSUME IInv, NEW t \in Threads, OpenLock(t) PROVE IInv'
<1>1. TypeOK'
  BY DEF IInv, TypeOK, OpenLock, TakeLock, Go, PCs
<1>2. \A u \in Threads \ {t} : pc'[u] = "idle"
  BY CacheAssumption DEF IInv, TypeOK, LockHeld, OpenLock, TakeLock, Go, CacheAssumption
<1>3. pc'[t] = "open" /\ lock' = t
  BY DEF IInv, TypeOK, OpenLock, TakeLock, Go
<1>4. CallInv(t)'
  BY <1>3 DEF CallInv
<1>5. QED
  BY <1>1, <1>2, <1>3, <1>4, QuietStep DEF OpenLock

\* Register takes its lock.
LEMMA RegisterLockInv ==
    ASSUME IInv, NEW t \in Threads, NEW S \in SUBSET Symbols, RegisterLock(t, S)
    PROVE  IInv'
<1>1. call'[t] \in Calls /\ call'[t].provided = S
  BY MapTypes DEF IInv, TypeOK, RegisterLock, Call
<1>2. TypeOK'
  BY <1>1 DEF IInv, TypeOK, RegisterLock, TakeLock, Go, PCs
<1>3. \A u \in Threads \ {t} : pc'[u] = "idle"
  BY CacheAssumption DEF IInv, TypeOK, LockHeld, RegisterLock, TakeLock, Go, CacheAssumption
<1>4. pc'[t] = "read" /\ lock' = t
  BY DEF IInv, TypeOK, RegisterLock, TakeLock, Go
<1>5. CallInv(t)'
  BY <1>1, <1>4 DEF CallInv, RegisterLock
<1>6. QED
  BY <1>2, <1>3, <1>4, <1>5, QuietStep DEF RegisterLock

\* Register reads the metadata again under the lock and builds the merged map.
LEMMA RegisterReadInv ==
    ASSUME IInv, ReliableDisk, NEW t \in Threads, RegisterRead(t) PROVE IInv'
<1>1. pc[t] = "read" /\ lock = t /\ lock' = lock
  BY OthersIdle DEF IInv, RegisterRead
<1>2. \A u \in Threads \ {t} : pc'[u] = "idle"
  BY <1>1, OthersIdle DEF IInv, TypeOK, RegisterRead, Go
<1>3. /\ NextIncVer(meta) \in Nat
      /\ \A s \in Symbols : meta[s] < NextIncVer(meta)
  BY NextIncVerFresh DEF IInv, TypeOK
<1>4. /\ UNCHANGED <<objects, meta, metaTmp, lock, opened, mem>>
      /\ \/ /\ Present(meta, call[t].provided)
            /\ call' = [call EXCEPT ![t] =
                           Call(call[t].provided, meta, NoFile, "AlreadyPresent")]
            /\ pc' = [pc EXCEPT ![t] = "install"]
         \/ /\ ~Present(meta, call[t].provided)
            /\ call' = [call EXCEPT ![t] =
                           Call(call[t].provided, meta, NextIncVer(meta), "none")]
            /\ pc' = [pc EXCEPT ![t] = "object"]
  BY ReliableReads DEF RegisterRead, Go
<1>5. /\ call \in [Threads -> Calls] /\ meta \in Maps /\ pc \in [Threads -> PCs]
      /\ call[t].provided \in SUBSET Symbols
  BY DEF IInv, TypeOK, Calls
<1>6. /\ call'[t].map = meta
      /\ call'[t].provided = call[t].provided
      /\ pc'[t] = "install" \/
         /\ pc'[t] = "object"
         /\ ~Present(meta, call[t].provided)
         /\ call'[t].file = NextIncVer(meta)
  BY <1>4, <1>5 DEF Call
<1>7. TypeOK'
  <2>1. /\ Call(call[t].provided, meta, NoFile, "AlreadyPresent") \in Calls
        /\ Call(call[t].provided, meta, NextIncVer(meta), "none") \in Calls
    BY <1>3, <1>5, MapTypes
  <2>2. call' \in [Threads -> Calls]
    BY <1>4, <1>5, <2>1
  <2>3. pc' \in [Threads -> PCs]
    BY <1>4, <1>5 DEF PCs
  <2>4. QED
    BY <1>4, <2>2, <2>3 DEF IInv, TypeOK
<1>8. call[t].provided # {}
  BY <1>1 DEF IInv, CallInv
<1>9. CallInv(t)'
  BY <1>1, <1>3, <1>4, <1>6, <1>8 DEF CallInv, Fresh, Present, Known, IInv, TypeOK
<1>10. QED
  BY <1>1, <1>2, <1>4, <1>7, <1>9, QuietStep

\* Writing, failing to write and renaming: what lies above the files in use.
LEMMA WriteObjectInv ==
    ASSUME IInv, NEW t \in Threads, WriteObject(t) PROVE IInv'
<1> DEFINE S == call[t].provided
           n == call[t].file
<1>1. pc[t] = "object" /\ lock = t /\ CallInv(t)
  BY OthersIdle DEF IInv, WriteObject
<1>2. /\ S # {} /\ S \cap Known(meta) = {} /\ Fresh(n)
      /\ S \in SUBSET Symbols /\ n \in Nat /\ call[t].map = meta
  BY <1>1 DEF CallInv, Fresh, IInv, TypeOK, Calls
<1>3. /\ objects' = PutFile(objects, n, S)
      /\ call' = [call EXCEPT ![t] = Call(S, Attribute(meta, S, n), n, "none")]
      /\ pc' = [pc EXCEPT ![t] = "meta"]
      /\ UNCHANGED <<meta, metaTmp, lock, opened, mem>>
  BY <1>2 DEF WriteObject, Go
<1> HIDE DEF S, n
<1>4. /\ DOMAIN objects' = DOMAIN objects \cup {n}
      /\ objects'[n] = S
      /\ \A m \in DOMAIN objects \ {n} : objects'[m] = objects[m]
  BY <1>3 DEF PutFile
<1>5. TypeOK'
  <2>1. call' \in [Threads -> Calls]
    BY <1>2, <1>3, MapTypes DEF IInv, TypeOK
  <2>2. pc' \in [Threads -> PCs]
    BY <1>3 DEF IInv, TypeOK, PCs
  <2>3. DOMAIN objects' \subseteq Nat
        /\ \A m \in DOMAIN objects' : objects'[m] \in SUBSET Symbols
    BY <1>2, <1>4 DEF IInv, TypeOK
  <2>4. QED
    BY <1>3, <2>1, <2>2, <2>3 DEF IInv, TypeOK
<1>6. \A u \in Threads \ {t} : pc'[u] = "idle"
  BY <1>1, <1>3, OthersIdle DEF IInv, TypeOK
<1>7. /\ pc'[t] = "meta"
      /\ call'[t] = Call(S, Attribute(meta, S, n), n, "none")
  BY <1>3 DEF IInv, TypeOK
<1>8. LockHeld'
  BY <1>1, <1>3, <1>6, <1>7 DEF LockHeld
<1>9. \A u \in Threads : CallInv(u)'
  <2>1. CallInv(t)'
    BY <1>2, <1>3, <1>4, <1>7 DEF CallInv, Call, Fresh, Known, Attribute
  <2>2. QED
    BY <1>6, <2>1 DEF CallInv
<1>10. Attributed(meta)'
  <2>1. n \notin Files(meta)
    BY <1>2 DEF Fresh, Files, Known, IInv, TypeOK, Maps, NoFile
  <2>2. QED
    BY <1>3, <1>4, <2>1 DEF IInv, Attributed, Files, Known
<1>11. HasLargest(meta)'
  BY <1>3 DEF IInv, HasLargest, Files, Known
<1>12. \A i \in Instances : Attributed(mem[i])' /\ Snapshot(mem[i])'
  <2> TAKE i \in Instances
  <2>1. n \notin Files(mem[i])
    BY <1>2, FreshInMemory
  <2>2. Attributed(mem[i])'
    BY <1>3, <1>4, <2>1 DEF IInv, Attributed, Files, Known
  <2>3. Snapshot(mem[i])'
    BY <1>3 DEF IInv, Snapshot, Known
  <2>4. QED
    BY <2>2, <2>3
<1>13. QED
  BY <1>5, <1>8, <1>9, <1>10, <1>11, <1>12 DEF IInv

\* The object cannot be written and the call ends with an error.
LEMMA WriteObjectFailsInv ==
    ASSUME IInv, NEW t \in Threads, WriteObjectFails(t) PROVE IInv'
<1>1. pc[t] = "object" /\ \A u \in Threads \ {t} : pc[u] = "idle"
  BY OthersIdle DEF IInv, WriteObjectFails
<1>2. /\ pc' = [pc EXCEPT ![t] = "idle"]
      /\ call' = [call EXCEPT ![t] = Call({}, Nothing, NoFile, "error")]
      /\ lock' = NoThread
      /\ UNCHANGED <<objects, meta, metaTmp, opened, mem>>
  BY DEF WriteObjectFails, Return, Go
<1>3. TypeOK'
  <2>1. call' \in [Threads -> Calls] /\ pc' \in [Threads -> PCs]
    BY <1>2, MapTypes DEF IInv, TypeOK, PCs
  <2>2. QED
    BY <1>2, <2>1 DEF IInv, TypeOK
<1>4. pc'[t] = "idle" /\ \A u \in Threads \ {t} : pc'[u] = "idle"
  BY <1>1, <1>2 DEF IInv, TypeOK
<1>5. CallInv(t)'
  BY <1>4 DEF CallInv
<1>6. QED
  BY <1>2, <1>3, <1>4, <1>5, QuietStep

\* The temporary metadata file is written.
LEMMA WriteMetaTmpInv ==
    ASSUME IInv, ReliableDisk, NEW t \in Threads, WriteMetaTmp(t) PROVE IInv'
<1>1. /\ pc[t] = "meta" /\ lock = t /\ CallInv(t)
      /\ \A u \in Threads \ {t} : pc[u] = "idle"
  BY OthersIdle DEF IInv, WriteMetaTmp
<1>2. /\ metaTmp' = call[t].map
      /\ pc' = [pc EXCEPT ![t] = "rename"]
      /\ UNCHANGED <<objects, meta, lock, opened, mem, call>>
  BY ReliableReads DEF WriteMetaTmp, Go
<1>3. TypeOK'
  BY <1>2 DEF IInv, TypeOK, PCs, Calls
<1>4. pc'[t] = "rename" /\ \A u \in Threads \ {t} : pc'[u] = "idle"
  BY <1>1, <1>2 DEF IInv, TypeOK
<1>5. CallInv(t)'
  BY <1>1, <1>2, <1>4 DEF CallInv, Fresh, Known, Attribute
<1>6. QED
  BY <1>1, <1>2, <1>3, <1>4, <1>5, QuietStep

\* A failure of WriteMeta only leads to the removal of the new object.
LEMMA WriteMetaFailsInv ==
    ASSUME IInv, NEW t \in Threads, WriteMetaTmpFails(t) \/ RenameMetaFails(t)
    PROVE  IInv'
<1>1. /\ pc[t] \in {"meta", "rename"} /\ lock = t /\ CallInv(t)
      /\ \A u \in Threads \ {t} : pc[u] = "idle"
  BY OthersIdle DEF IInv, WriteMetaTmpFails, RenameMetaFails
<1>2. /\ pc' = [pc EXCEPT ![t] = "undo"]
      /\ UNCHANGED <<objects, meta, lock, opened, mem, call>>
  BY DEF WriteMetaTmpFails, RenameMetaFails, Go
<1>3. metaTmp' \in Maps
  <2>1. CASE WriteMetaTmpFails(t)
    <3>1. call[t].map \in Maps
      BY DEF IInv, TypeOK, Calls
    <3>2. QED
      BY <2>1, <3>1 DEF WriteMetaTmpFails, PartialMaps, Maps, Known
  <2>2. CASE RenameMetaFails(t)
    BY <2>2, MapTypes DEF RenameMetaFails
  <2>3. QED
    BY <2>1, <2>2
<1>4. TypeOK'
  BY <1>2, <1>3 DEF IInv, TypeOK, PCs
<1>5. pc'[t] = "undo" /\ \A u \in Threads \ {t} : pc'[u] = "idle"
  BY <1>1, <1>2 DEF IInv, TypeOK
<1>6. CallInv(t)'
  BY <1>1, <1>2, <1>5 DEF CallInv, Fresh
<1>7. QED
  BY <1>1, <1>2, <1>4, <1>5, <1>6, QuietStep

\* The moment an object is published: its symbols were unknown and its number
\* is the largest from now on.
LEMMA RenameMetaInv ==
    ASSUME IInv, NEW t \in Threads, RenameMeta(t) PROVE IInv'
<1> DEFINE S == call[t].provided
           n == call[t].file
<1>1. /\ pc[t] = "rename" /\ lock = t /\ CallInv(t)
      /\ \A u \in Threads \ {t} : pc[u] = "idle"
  BY OthersIdle DEF IInv, RenameMeta
<1>2. /\ S # {} /\ S \cap Known(meta) = {} /\ Fresh(n)
      /\ S \in SUBSET Symbols /\ n \in Nat
      /\ n \in DOMAIN objects /\ objects[n] = S
      /\ metaTmp = Attribute(meta, S, n) /\ call[t].map = metaTmp
  BY <1>1 DEF CallInv, Fresh, IInv, TypeOK, Calls
<1>3. /\ meta' = Attribute(meta, S, n)
      /\ metaTmp' = Nothing
      /\ call' = [call EXCEPT ![t] = Call(S, Attribute(meta, S, n), n, "Installed")]
      /\ pc' = [pc EXCEPT ![t] = "install"]
      /\ UNCHANGED <<objects, lock, opened, mem>>
  BY <1>2 DEF RenameMeta, Go
<1> HIDE DEF S, n
<1>4. /\ Attribute(meta, S, n) \in Maps
      /\ meta' \in Maps
      /\ \A s \in Symbols : meta'[s] = IF s \in S THEN n ELSE meta[s]
  BY <1>2, <1>3, MapTypes DEF IInv, TypeOK, Attribute
<1>5. TypeOK'
  <2>1. call' \in [Threads -> Calls]
    BY <1>2, <1>3, <1>4, MapTypes DEF IInv, TypeOK
  <2>2. pc' \in [Threads -> PCs]
    BY <1>3 DEF IInv, TypeOK, PCs
  <2>3. QED
    BY <1>3, <1>4, <2>1, <2>2, MapTypes DEF IInv, TypeOK
<1>6. /\ pc'[t] = "install" /\ \A u \in Threads \ {t} : pc'[u] = "idle"
      /\ call'[t] = Call(S, Attribute(meta, S, n), n, "Installed")
  BY <1>1, <1>3 DEF IInv, TypeOK
<1>7. LockHeld'
  BY <1>1, <1>3, <1>6 DEF LockHeld
<1>8. \A u \in Threads : CallInv(u)'
  BY <1>3, <1>6 DEF CallInv, Call
<1>9. \A s \in Symbols : meta[s] < n
  BY <1>2 DEF Fresh
<1>10. Attributed(meta)'
  <2> SUFFICES ASSUME NEW m \in Files(meta')
               PROVE  /\ m \in DOMAIN objects
                      /\ objects[m] = {s \in Symbols : meta'[s] = m}
    BY <1>3 DEF Attributed, Files, Known
  <2>1. CASE m = n
    <3>1. {s \in Symbols : meta'[s] = n} = S
      BY <1>2, <1>4, <1>9 DEF IInv, TypeOK, Maps, NoFile
    <3>2. QED
      BY <1>2, <2>1, <3>1
  <2>2. CASE m # n
    <3>1. m \in Files(meta)
      BY <1>4, <2>2 DEF Files, Known
    <3>2. {s \in Symbols : meta'[s] = m} = {s \in Symbols : meta[s] = m}
      <4>1. \A s \in S : meta[s] = NoFile
        BY <1>2 DEF Known
      <4>2. m # NoFile
        BY <3>1 DEF Files, Known
      <4>3. QED
        BY <1>4, <2>2, <4>1, <4>2
    <3>3. QED
      BY <3>1, <3>2 DEF IInv, Attributed
  <2>3. QED
    BY <2>1, <2>2
<1>11. HasLargest(meta)'
  <2>1. PICK s \in S : TRUE
    BY <1>2
  <2>2. s \in Symbols /\ meta'[s] = n
    BY <1>2, <1>4, <2>1
  <2>3. n \in Files(meta')
    BY <1>2, <2>2 DEF Files, Known, NoFile
  <2>4. \A m \in Files(meta') : m <= n
    BY <1>2, <1>4, <1>9 DEF Files, Known, IInv, TypeOK, Maps, NoFile
  <2>5. QED
    BY <2>3, <2>4 DEF HasLargest, Files, Known
<1>12. \A i \in Instances : Attributed(mem[i])' /\ Snapshot(mem[i])'
  <2> TAKE i \in Instances
  <2>1. Attributed(mem[i])'
    BY <1>3 DEF IInv, Attributed, Files, Known
  <2>2. \A s \in Known(mem[i]) : meta[s] # NoFile /\ mem[i][s] = meta[s]
    BY DEF IInv, Snapshot, Known
  <2>3. \A s \in Known(mem[i]) : meta'[s] = meta[s]
    BY <1>2, <1>4, <2>2 DEF Known
  <2>4. Snapshot(mem[i])'
    BY <1>3, <2>2, <2>3 DEF Snapshot, Known
  <2>5. QED
    BY <2>1, <2>4
<1>13. QED
  BY <1>5, <1>7, <1>8, <1>10, <1>11, <1>12 DEF IInv

\* The object taken back is one no map refers to.
LEMMA RemoveObjectInv ==
    ASSUME IInv, NEW t \in Threads, RemoveObject(t) PROVE IInv'
<1> DEFINE n == call[t].file
<1>1. /\ pc[t] = "undo" /\ CallInv(t)
      /\ \A u \in Threads \ {t} : pc[u] = "idle"
  BY OthersIdle DEF IInv, RemoveObject
<1>2. Fresh(n)
  BY <1>1 DEF CallInv
<1>3. /\ objects' = RemoveFile(objects, n)
      /\ pc' = [pc EXCEPT ![t] = "idle"]
      /\ call' = [call EXCEPT ![t] = Call({}, Nothing, NoFile, "error")]
      /\ lock' = NoThread
      /\ UNCHANGED <<meta, metaTmp, opened, mem>>
  BY DEF RemoveObject, Return, Go
<1> HIDE DEF n
<1>4. /\ DOMAIN objects' = DOMAIN objects \ {n}
      /\ \A m \in DOMAIN objects \ {n} : objects'[m] = objects[m]
  BY <1>3 DEF RemoveFile
<1>5. TypeOK'
  <2>1. call' \in [Threads -> Calls] /\ pc' \in [Threads -> PCs]
    BY <1>3, MapTypes DEF IInv, TypeOK, PCs
  <2>2. DOMAIN objects' \subseteq Nat
        /\ \A m \in DOMAIN objects' : objects'[m] \in SUBSET Symbols
    BY <1>4 DEF IInv, TypeOK
  <2>3. QED
    BY <1>3, <2>1, <2>2 DEF IInv, TypeOK
<1>6. \A u \in Threads : pc'[u] = "idle"
  BY <1>1, <1>3 DEF IInv, TypeOK
<1>7. LockHeld' /\ \A u \in Threads : CallInv(u)'
  BY <1>6 DEF LockHeld, CallInv
<1>8. Attributed(meta)' /\ \A i \in Instances : Attributed(mem[i])'
  <2>1. n \notin Files(meta) /\ \A i \in Instances : n \notin Files(mem[i])
    <3>1. n \notin Files(meta)
      BY <1>2 DEF Fresh, Files, Known, IInv, TypeOK, Maps, NoFile
    <3>2. QED
      BY <1>2, <3>1, FreshInMemory
  <2>2. QED
    BY <1>3, <1>4, <2>1 DEF IInv, Attributed, Files, Known
<1>9. HasLargest(meta)' /\ \A i \in Instances : Snapshot(mem[i])'
  <2>1. HasLargest(meta)'
    BY <1>3 DEF IInv, HasLargest, Files, Known
  <2>2. \A i \in Instances : Snapshot(mem[i])'
    BY <1>3 DEF IInv, Snapshot, Known
  <2>3. QED
    BY <2>1, <2>2
<1>10. QED
  BY <1>5, <1>7, <1>8, <1>9 DEF IInv

\* Maps in memory stay, or are replaced by meta.v1 as it is or by nothing.
MemoryReplaced ==
    /\ UNCHANGED <<objects, meta, metaTmp>>
    /\ \A j \in Instances : mem'[j] \in {meta, Nothing, mem[j]}

\* Threads leave their calls or stay where they were.
CallsEnd ==
    \A u \in Threads :
        pc'[u] = "idle" \/ (pc'[u] = pc[u] /\ call'[u] = call[u] /\ lock' = lock)

\* A step that replaces an in-memory map and ends calls, and leaves the disk alone.
LEMMA MemoryStep ==
    ASSUME IInv, TypeOK', MemoryReplaced, CallsEnd PROVE IInv'
<1>1. LockHeld'
  BY DEF IInv, LockHeld, CallsEnd
<1>2. \A u \in Threads : CallInv(u)'
  <2> TAKE u \in Threads
  <2>1. CASE pc'[u] = "idle"
    BY <2>1 DEF CallInv
  <2>2. CASE pc'[u] = pc[u] /\ call'[u] = call[u]
    BY <2>2 DEF MemoryReplaced, IInv, CallInv, Fresh, Known, Attribute
  <2>3. QED
    BY <2>1, <2>2 DEF CallsEnd
<1>3. Attributed(meta)' /\ HasLargest(meta)'
  <2>1. Attributed(meta)'
    BY DEF MemoryReplaced, IInv, Attributed, Files, Known
  <2>2. HasLargest(meta)'
    BY DEF MemoryReplaced, IInv, HasLargest, Files, Known
  <2>3. QED
    BY <2>1, <2>2
<1>4. Files(Nothing) = {} /\ Known(Nothing) = {}
  BY DEF Files, Known, Nothing
<1>5. \A j \in Instances : Attributed(mem[j])' /\ Snapshot(mem[j])'
  <2> TAKE j \in Instances
  <2>1. mem'[j] \in {meta, Nothing, mem[j]}
    BY DEF MemoryReplaced
  <2>2. CASE mem'[j] = meta
    BY <2>2 DEF MemoryReplaced, IInv, Attributed, Snapshot, Files, Known
  <2>3. CASE mem'[j] = Nothing
    BY <1>4, <2>3 DEF MemoryReplaced, Attributed, Snapshot, Files, Known
  <2>4. CASE mem'[j] = mem[j]
    BY <2>4 DEF MemoryReplaced, IInv, Attributed, Snapshot, Files, Known
  <2>5. QED
    BY <2>1, <2>2, <2>3, <2>4
<1>6. QED
  BY <1>1, <1>2, <1>3, <1>5 DEF IInv

\* Open reads the metadata and the call ends.
LEMMA OpenReadInv ==
    ASSUME IInv, ReliableDisk, NEW t \in Threads, OpenRead(t) PROVE IInv'
<1>1. InstanceOf[t] \in Instances
  BY CacheAssumption DEF CacheAssumption
<1>2. \A u \in Threads \ {t} : pc[u] = "idle"
  BY OthersIdle DEF IInv, OpenRead
<1>3. /\ mem' = [mem EXCEPT ![InstanceOf[t]] = meta]
      /\ opened' = opened \cup {InstanceOf[t]}
      /\ pc' = [pc EXCEPT ![t] = "idle"]
      /\ lock' = NoThread
      /\ UNCHANGED <<objects, meta, metaTmp, call>>
  BY ReliableReads DEF OpenRead, Go
<1>4. TypeOK'
  BY <1>1, <1>3 DEF IInv, TypeOK, PCs
<1>5. \A u \in Threads : pc'[u] = "idle"
  BY <1>2, <1>3 DEF IInv, TypeOK
<1>6. MemoryReplaced
  BY <1>3 DEF MemoryReplaced, IInv, TypeOK
<1>7. CallsEnd
  BY <1>5 DEF CallsEnd
<1>8. QED
  BY <1>4, <1>6, <1>7, MemoryStep

\* The merged map becomes the in-memory one.
LEMMA InstallInv ==
    ASSUME IInv, NEW t \in Threads, Install(t) PROVE IInv'
<1>1. InstanceOf[t] \in Instances
  BY CacheAssumption DEF CacheAssumption
<1>2. /\ pc[t] = "install" /\ \A u \in Threads \ {t} : pc[u] = "idle"
      /\ call[t].map = meta
  BY OthersIdle DEF IInv, Install, CallInv
<1>3. /\ mem' = [mem EXCEPT ![InstanceOf[t]] = meta]
      /\ pc' = [pc EXCEPT ![t] = "idle"]
      /\ call' = [call EXCEPT ![t] = Call({}, Nothing, NoFile, call[t].result)]
      /\ lock' = NoThread
      /\ UNCHANGED <<objects, meta, metaTmp, opened>>
  BY <1>2 DEF Install, Return, Go
<1>4. TypeOK'
  <2>1. call[t].result \in {"none", "Installed", "AlreadyPresent", "error"}
    BY DEF IInv, TypeOK, Calls
  <2>2. call' \in [Threads -> Calls] /\ pc' \in [Threads -> PCs]
    BY <1>3, <2>1, MapTypes DEF IInv, TypeOK, PCs
  <2>3. QED
    BY <1>1, <1>3, <2>2 DEF IInv, TypeOK
<1>5. \A u \in Threads : pc'[u] = "idle"
  BY <1>2, <1>3 DEF IInv, TypeOK
<1>6. MemoryReplaced
  BY <1>3 DEF MemoryReplaced, IInv, TypeOK
<1>7. CallsEnd
  BY <1>5 DEF CallsEnd
<1>8. QED
  BY <1>4, <1>6, <1>7, MemoryStep

\* The lock of a dead thread is released and all it knew is gone; the files stay.
LEMMA CrashInv ==
    ASSUME IInv, NEW i \in Instances, Crash(i) PROVE IInv'
<1> DEFINE dead == {t \in Threads : InstanceOf[t] = i}
<1>1. /\ opened' = opened \ {i}
      /\ mem' = [mem EXCEPT ![i] = Nothing]
      /\ pc' = [t \in Threads |-> IF t \in dead THEN "idle" ELSE pc[t]]
      /\ call' = [t \in Threads |-> IF t \in dead THEN NoCall ELSE call[t]]
      /\ lock' = IF lock \in dead THEN NoThread ELSE lock
      /\ UNCHANGED <<objects, meta, metaTmp>>
  BY DEF Crash
<1>2. NoCall \in Calls
  BY MapTypes DEF NoCall
<1>3. TypeOK'
  BY <1>1, <1>2, MapTypes DEF IInv, TypeOK, PCs
<1>4. MemoryReplaced
  BY <1>1 DEF MemoryReplaced, IInv, TypeOK
<1>5. CallsEnd
  BY <1>1 DEF CallsEnd, IInv, LockHeld
<1>6. QED
  BY <1>3, <1>4, <1>5, MemoryStep

\* Every step keeps the invariant.
LEMMA NextInv == ASSUME IInv, ReliableDisk, [Next]_vars PROVE IInv'
<1>1. ASSUME NEW t \in Threads, CallStep(t) PROVE IInv'
  BY <1>1, OpenReadInv, RegisterReadInv, WriteObjectInv, WriteObjectFailsInv,
     WriteMetaTmpInv, WriteMetaFailsInv, RenameMetaInv, RemoveObjectInv, InstallInv
  DEF CallStep
<1>2. CASE Next
  BY <1>1, <1>2, OpenLockInv, RegisterLockInv, CrashInv DEF Next
<1>3. CASE UNCHANGED vars
  <2>1. TypeOK'
    BY <1>3 DEF IInv, TypeOK, vars
  <2>2. LockHeld' /\ \A t \in Threads : CallInv(t)'
    BY <1>3 DEF IInv, LockHeld, CallInv, Fresh, Known, Attribute, vars
  <2>3. Attributed(meta)' /\ \A i \in Instances : Attributed(mem[i])' /\ Snapshot(mem[i])'
    BY <1>3 DEF IInv, Attributed, Snapshot, Files, Known, vars
  <2>4. HasLargest(meta)'
    BY <1>3 DEF IInv, HasLargest, Files, Known, vars
  <2>5. QED
    BY <2>1, <2>2, <2>3, <2>4 DEF IInv
<1>4. QED
  BY <1>2, <1>3

\* The inductive invariant holds in every reachable state.
THEOREM Invariance == ASSUME ReliableDisk PROVE Spec => []IInv
<1>1. IInv /\ [Next]_vars => IInv'
  BY NextInv
<1>2. QED
  BY <1>1, InitInv, PTL DEF Spec
-----------------------------------------------------------------------------
(* What follows from it. *)

LEMMA ViewsAttributed ==
    ASSUME IInv, NEW map \in Views
    PROVE  Attributed(map) /\ Snapshot(map) /\ map \in Maps
BY DEF IInv, TypeOK, Views, Snapshot

\* Two files that maps refer to, stale ones too, define different symbols.
LEMMA InvDisjoint == IInv => ObjectsDisjoint
<1> SUFFICES ASSUME IInv, NEW m \in Referenced, NEW n \in Referenced, m # n
             PROVE  objects[m] \cap objects[n] = {}
  BY DEF ObjectsDisjoint
<1>1. PICK map1 \in Views : m \in Files(map1)
  BY DEF Referenced
<1>2. PICK map2 \in Views : n \in Files(map2)
  BY DEF Referenced
<1>3. SUFFICES ASSUME NEW s \in objects[m], s \in objects[n]
               PROVE  FALSE
  OBVIOUS
<1>4. s \in Symbols /\ map1[s] = m /\ map2[s] = n
  BY <1>1, <1>2, <1>3, ViewsAttributed DEF Attributed
<1>5. m # NoFile /\ n # NoFile
  BY <1>1, <1>2 DEF Files, Known
<1>6. meta[s] = m /\ meta[s] = n
  BY <1>4, <1>5, ViewsAttributed DEF Snapshot, Known
<1>7. QED
  BY <1>6

\* No subset of the objects that caches can resolve to double-defines a symbol.
THEOREM Disjointness == ASSUME ReliableDisk PROVE Spec => []ObjectsDisjoint
BY Invariance, InvDisjoint, PTL

\* Every hit finds an object that defines exactly what the map says.
THEOREM Attribution == ASSUME ReliableDisk PROVE Spec => []SelfAttributed
<1>1. IInv => SelfAttributed
  BY ViewsAttributed DEF SelfAttributed, Attributed
<1>2. QED
  BY <1>1, Invariance, PTL

\* Register installs in memory what is on disk.
THEOREM DurableInstall == ASSUME ReliableDisk PROVE Spec => []InstallsWhatIsOnDisk
<1>1. IInv => InstallsWhatIsOnDisk
  BY DEF IInv, CallInv, InstallsWhatIsOnDisk
<1>2. QED
  BY <1>1, Invariance, PTL

\* The types, for any number of symbols, threads and instances.
THEOREM TypeCorrect == ASSUME ReliableDisk PROVE Spec => []TypeOK
<1>1. IInv => TypeOK
  BY DEF IInv
<1>2. QED
  BY <1>1, Invariance, PTL
-----------------------------------------------------------------------------
(* Which step changes what. *)

\* meta.v1 only changes when a new object is published.
LEMMA MetaChanges ==
    ASSUME [Next]_vars
    PROVE  meta' = meta \/ \E t \in Threads : RenameMeta(t)
BY DEF Next, vars, OpenLock, RegisterLock, CallStep, OpenRead, RegisterRead, WriteObject,
       WriteObjectFails, WriteMetaTmp, WriteMetaTmpFails, RenameMetaFails, RemoveObject,
       Install, Crash

\* Object files only change when one is written or taken back.
LEMMA ObjectChanges ==
    ASSUME [Next]_vars
    PROVE  objects' = objects \/ \E t \in Threads : WriteObject(t) \/ RemoveObject(t)
BY DEF Next, vars, OpenLock, RegisterLock, CallStep, OpenRead, RegisterRead,
       WriteObjectFails, WriteMetaTmp, WriteMetaTmpFails, RenameMeta, RenameMetaFails,
       Install, Crash

\* Memory only changes when a cache is opened, after Register, and by a crash.
LEMMA MemoryChanges ==
    ASSUME [Next]_vars
    PROVE  \/ mem' = mem
           \/ \E t \in Threads : OpenRead(t) \/ Install(t)
           \/ \E i \in Instances : Crash(i)
BY DEF Next, vars, OpenLock, RegisterLock, CallStep, RegisterRead, WriteObject,
       WriteObjectFails, WriteMetaTmp, WriteMetaTmpFails, RenameMeta, RenameMetaFails,
       RemoveObject

\* RenameMeta publishes exactly the provided symbols, all new.
LEMMA Publication ==
    ASSUME IInv, NEW t \in Threads, RenameMeta(t)
    PROVE  /\ call[t].provided # {}
           /\ call[t].provided \in SUBSET Symbols
           /\ \A s \in call[t].provided : meta[s] = NoFile
           /\ call[t].file \in DOMAIN objects
           /\ objects[call[t].file] = call[t].provided
           /\ \A s \in Symbols :
                 meta'[s] = IF s \in call[t].provided THEN call[t].file ELSE meta[s]
           /\ UNCHANGED <<objects, mem>>
<1>1. pc[t] = "rename" /\ CallInv(t)
  BY DEF IInv, RenameMeta
<1>2. call[t].provided \in SUBSET Symbols
  BY DEF IInv, TypeOK, Calls
<1>3. meta' = Attribute(meta, call[t].provided, call[t].file)
  BY <1>1 DEF CallInv, RenameMeta
<1>4. QED
  BY <1>1, <1>2, <1>3 DEF CallInv, Known, Attribute, RenameMeta

\* The object a step writes or removes is referred to by nobody.
LEMMA OnlyFreshObjectsChange ==
    ASSUME IInv, [Next]_vars, NEW n \in DOMAIN objects,
           n \in Files(meta) \/ \E i \in Instances : n \in Files(mem[i])
    PROVE  n \in DOMAIN objects' /\ objects'[n] = objects[n]
<1>1. ASSUME NEW t \in Threads, WriteObject(t)
      PROVE  n \in DOMAIN objects' /\ objects'[n] = objects[n]
  <2>1. Fresh(call[t].file)
    BY <1>1 DEF IInv, CallInv, WriteObject
  <2>2. n # call[t].file
    BY <2>1, FreshInMemory DEF IInv, TypeOK, Fresh, Files, Known, Maps, NoFile
  <2>3. QED
    BY <1>1, <2>2 DEF WriteObject, PutFile
<1>2. ASSUME NEW t \in Threads, RemoveObject(t)
      PROVE  n \in DOMAIN objects' /\ objects'[n] = objects[n]
  <2>1. Fresh(call[t].file)
    BY <1>2 DEF IInv, CallInv, RemoveObject
  <2>2. n # call[t].file
    BY <2>1, FreshInMemory DEF IInv, TypeOK, Fresh, Files, Known, Maps, NoFile
  <2>3. QED
    BY <1>2, <2>2 DEF RemoveObject, RemoveFile
<1>3. QED
  BY <1>1, <1>2, ObjectChanges

\* Memory is replaced by meta.v1, or lost with its process.
LEMMA MemoryRefresh ==
    ASSUME IInv, ReliableDisk, [Next]_vars
    PROVE  \/ mem' = mem
           \/ \E i \in Instances :
                /\ UNCHANGED <<objects, meta>>
                /\ \/ mem' = [mem EXCEPT ![i] = meta]
                   \/ mem' = [mem EXCEPT ![i] = Nothing] /\ i \notin opened'
<1>1. ASSUME NEW t \in Threads, OpenRead(t) \/ Install(t)
      PROVE  \E i \in Instances : /\ UNCHANGED <<objects, meta>>
                                  /\ mem' = [mem EXCEPT ![i] = meta]
  <2>1. InstanceOf[t] \in Instances
    BY CacheAssumption DEF CacheAssumption
  <2>2. UNCHANGED <<objects, meta>> /\ mem' = [mem EXCEPT ![InstanceOf[t]] = meta]
    BY <1>1, ReliableReads DEF OpenRead, Install, IInv, CallInv
  <2>3. QED
    BY <2>1, <2>2
<1>2. ASSUME NEW i \in Instances, Crash(i)
      PROVE  /\ UNCHANGED <<objects, meta>>
             /\ mem' = [mem EXCEPT ![i] = Nothing] /\ i \notin opened'
  BY <1>2 DEF Crash
<1>3. QED
  BY <1>1, <1>2, MemoryChanges

\* A cached symbol is never unmapped or moved.
THEOREM FirstWriter == ASSUME ReliableDisk PROVE Spec => FirstWriterWins
<1>1. ASSUME IInv, [Next]_vars
      PROVE  \A s \in Known(meta) : meta'[s] = meta[s]
  <2>1. ASSUME NEW t \in Threads, RenameMeta(t)
        PROVE  \A s \in Known(meta) : meta'[s] = meta[s]
    BY <1>1, <2>1, Publication DEF Known
  <2>2. QED
    BY <1>1, <2>1, MetaChanges
<1>2. IInv /\ [Next]_vars => [\A s \in Known(meta) : meta'[s] = meta[s]]_vars
  BY <1>1
<1>3. QED
  BY <1>2, Invariance, PTL DEF Spec, FirstWriterWins

\* An object some cache can resolve to is never rewritten or removed.
THEOREM ReferencedStay == ASSUME ReliableDisk PROVE Spec => ReferencedObjectsStay
<1> DEFINE Stay == \A n \in Referenced \cap DOMAIN objects :
                     n \in DOMAIN objects' /\ objects'[n] = objects[n]
<1>1. ASSUME IInv, [Next]_vars
      PROVE  Stay
  <2> TAKE n \in Referenced \cap DOMAIN objects
  <2>1. n \in Files(meta) \/ \E i \in Instances : n \in Files(mem[i])
    BY <1>1 DEF Referenced, Views, IInv, TypeOK
  <2>2. QED
    BY <1>1, <2>1, OnlyFreshObjectsChange
<1>2. IInv /\ [Next]_vars => [Stay]_vars
  BY <1>1
<1>3. QED
  BY <1>2, Invariance, PTL DEF Spec, ReferencedObjectsStay

\* What an open cache knows it keeps knowing, and the same way.
THEOREM MemoryGrows == ASSUME ReliableDisk PROVE Spec => MemoryOnlyGrows
<1> DEFINE Grow == \A i \in opened \cap opened' : \A s \in Known(mem[i]) :
                     mem'[i][s] = mem[i][s]
<1>1. ASSUME IInv, [Next]_vars
      PROVE  Grow
  <2> TAKE i \in opened \cap opened'
  <2> TAKE s \in Known(mem[i])
  <2>1. i \in Instances /\ mem[i][s] = meta[s]
    BY <1>1 DEF IInv, TypeOK, Snapshot
  <2>2. mem'[i] \in {mem[i], meta}
    BY <1>1, <2>1, MemoryRefresh DEF IInv, TypeOK
  <2>3. QED
    BY <2>1, <2>2
<1>2. IInv /\ [Next]_vars => [Grow]_vars
  BY <1>1
<1>3. QED
  BY <1>2, Invariance, PTL DEF Spec, MemoryOnlyGrows
-----------------------------------------------------------------------------
(* The files implement the registry. *)

\* As long as the files that a map refers to stay, so do its groups.
LEMMA GroupsStay ==
    ASSUME IInv, ReliableDisk, [Next]_vars
    PROVE  /\ meta' = meta => GroupsOf(meta)' = GroupsOf(meta)
           /\ \A i \in Instances : mem'[i] = mem[i] => GroupsOf(mem[i])' = GroupsOf(mem[i])
<1>1. \A s \in Symbols : meta[s] \in Files(meta) \/ meta[s] = NoFile
  BY DEF Files, Known
<1>2. \A i \in Instances : \A s \in Symbols : mem[i][s] \in Files(mem[i]) \/ mem[i][s] = NoFile
  BY DEF Files, Known
<1>3. \A n : n \in Files(meta) \/ (\E i \in Instances : n \in Files(mem[i]))
             => /\ n \in DOMAIN objects /\ n \in DOMAIN objects'
                /\ objects'[n] = objects[n]
  BY OnlyFreshObjectsChange DEF IInv, Attributed
<1>4. NoFile \notin DOMAIN objects /\ NoFile \notin DOMAIN objects'
  BY NextInv DEF IInv, TypeOK, NoFile
<1>5. ASSUME meta' = meta PROVE GroupsOf(meta)' = GroupsOf(meta)
  BY <1>1, <1>3, <1>4, <1>5 DEF GroupsOf
<1>6. ASSUME NEW i \in Instances, mem'[i] = mem[i]
      PROVE  GroupsOf(mem[i])' = GroupsOf(mem[i])
  BY <1>2, <1>3, <1>4, <1>6 DEF GroupsOf
<1>7. QED
  BY <1>5, <1>6

\* Publishing the object of thread t, seen as a step of the registry.
LEMMA PublishStep ==
    ASSUME IInv, [Next]_vars, NEW t \in Threads, RenameMeta(t)
    PROVE  Registry!Publish(call[t].provided)
<1> DEFINE S == call[t].provided
<1>1. /\ S # {} /\ S \in SUBSET Symbols
      /\ \A s \in S : meta[s] = NoFile
      /\ call[t].file \in DOMAIN objects /\ objects[call[t].file] = S
      /\ \A s \in Symbols : meta'[s] = IF s \in S THEN call[t].file ELSE meta[s]
      /\ UNCHANGED <<objects, mem>>
  BY Publication
<1> HIDE DEF S
<1>2. NoFile \notin DOMAIN objects
  BY DEF IInv, TypeOK, NoFile
<1>3. \A s \in S : GroupsOf(meta)[s] = {}
  BY <1>1, <1>2 DEF GroupsOf
<1>4. GroupsOf(meta)' = [s \in Symbols |-> IF s \in S THEN S ELSE GroupsOf(meta)[s]]
  BY <1>1 DEF GroupsOf
<1>5. [i \in Instances |-> GroupsOf(mem[i])]' = [i \in Instances |-> GroupsOf(mem[i])]
  BY <1>1 DEF GroupsOf
<1>6. QED
  BY <1>1, <1>3, <1>4, <1>5 DEF Registry!Publish, S

\* Every step of the files is a step of the registry, or none.
LEMMA RegistryStep ==
    ASSUME IInv, ReliableDisk, [Next]_vars
    PROVE  [Registry!RegistryNext]_(Registry!registryVars)
<1>1. ASSUME NEW t \in Threads, RenameMeta(t)
      PROVE  Registry!RegistryNext
  <2>1. call[t].provided \in SUBSET Symbols
    BY <1>1, Publication
  <2>2. QED
    BY <1>1, <2>1, PublishStep DEF Registry!RegistryNext
<1>2. CASE meta' = meta /\ mem' = mem
  <2>1. GroupsOf(meta)' = GroupsOf(meta)
    BY <1>2, GroupsStay
  <2>2. \A i \in Instances : GroupsOf(mem[i])' = GroupsOf(mem[i])
    BY <1>2, GroupsStay
  <2>3. [i \in Instances |-> GroupsOf(mem[i])]' = [i \in Instances |-> GroupsOf(mem[i])]
    BY <2>2
  <2>4. QED
    BY <2>1, <2>3 DEF Registry!registryVars
<1>3. ASSUME NEW i \in Instances, UNCHANGED <<objects, meta>>,
             mem' = [mem EXCEPT ![i] = meta]
      PROVE  Registry!RegistryNext
  <2>1. GroupsOf(meta)' = GroupsOf(meta)
    BY <1>3 DEF GroupsOf
  <2>2. \A j \in Instances :
          GroupsOf(mem[j])' = IF j = i THEN GroupsOf(meta) ELSE GroupsOf(mem[j])
    BY <1>3 DEF GroupsOf, IInv, TypeOK
  <2>3. [j \in Instances |-> GroupsOf(mem[j])]'
          = [[j \in Instances |-> GroupsOf(mem[j])] EXCEPT ![i] = GroupsOf(meta)]
    BY <2>2
  <2>4. QED
    BY <2>1, <2>3 DEF Registry!RegistryNext, Registry!Refresh
<1>4. ASSUME NEW i \in Instances, UNCHANGED <<objects, meta>>,
             mem' = [mem EXCEPT ![i] = Nothing]
      PROVE  Registry!RegistryNext
  <2>1. GroupsOf(meta)' = GroupsOf(meta)
    BY <1>4 DEF GroupsOf
  <2>2. \A j \in Instances :
          GroupsOf(mem[j])' = IF j = i THEN Registry!Empty ELSE GroupsOf(mem[j])
    <3> TAKE j \in Instances
    <3>1. CASE j = i
      <4>1. NoFile \notin DOMAIN objects /\ objects' = objects
        BY <1>4 DEF IInv, TypeOK, NoFile
      <4>2. mem'[j] = Nothing
        BY <1>4, <3>1 DEF IInv, TypeOK
      <4>3. QED
        BY <3>1, <4>1, <4>2 DEF GroupsOf, Nothing, Registry!Empty
    <3>2. CASE j # i
      BY <1>4, <3>2 DEF GroupsOf, IInv, TypeOK
    <3>3. QED
      BY <3>1, <3>2
  <2>3. [j \in Instances |-> GroupsOf(mem[j])]'
          = [[j \in Instances |-> GroupsOf(mem[j])] EXCEPT ![i] = Registry!Empty]
    BY <2>2
  <2>4. QED
    BY <2>1, <2>3 DEF Registry!RegistryNext, Registry!Forget
<1>5. QED
  BY <1>1, <1>2, <1>3, <1>4, MetaChanges, MemoryRefresh

\* The cache directory, with its locks, renames, failures and crashes,
\* implements the registry of SymbolRegistry.
THEOREM Refinement == ASSUME ReliableDisk PROVE Spec => ImplementsRegistry
<1>1. Init => Registry!RegistryInit
  BY DEF Init, Registry!RegistryInit, Registry!Empty, GroupsOf, Nothing, NoFile
<1>2. IInv /\ [Next]_vars => [Registry!RegistryNext]_(Registry!registryVars)
  BY RegistryStep
<1>3. QED
  BY <1>1, <1>2, Invariance, PTL DEF Spec, ImplementsRegistry, Registry!RegistrySpec

-----------------------------------------------------------------------------
\* Jobs.

Early   == {"new", "opening", "opened"}
Working == {"compiling", "registering", "linking"}
Phases  == Early \cup Working \cup Ended \cup JobFailures

JobTypes ==
    /\ phase \in [Threads -> Phases]
    /\ misses \in [Threads -> SUBSET Nat]
    /\ \A t \in Threads : misses[t] \subseteq DOMAIN Required[t]
    /\ hits \in [Threads -> SUBSET Nat]
    /\ pieces \in [Threads -> Seq(SUBSET Symbols)]

\* The symbols a job has still to compile.
Missing(t) == {Required[t][k] : k \in misses[t]}

\* Every required symbol has one source: a miss, a piece already in the JIT,
\* or a hit object, as the map on disk tells (now, and not when it was read).
JobInv(t) ==
    /\ phase[t] \in Early => pieces[t] = <<>>
    /\ phase[t] = "linking" => misses[t] = {}
    /\ hits[t] \subseteq Files(meta)
    /\ \A s \in Missing(t) : meta[s] \notin hits[t]
    /\ \A s \in Defined(t) : meta[s] \notin hits[t]
    /\ Missing(t) \cap Defined(t) = {}
    /\ \A j, k \in misses[t] : Required[t][j] = Required[t][k] => j = k
    /\ ~DefinedTwice(t)
    /\ phase[t] \in Working =>
         \A s \in Asked(Required[t]) :
            s \in Missing(t) \/ s \in Defined(t) \/ meta[s] \in hits[t]

CompileInv ==
    /\ IInv
    /\ JobTypes
    /\ \A t \in Threads : JobInv(t)
    /\ LinksExactly
-----------------------------------------------------------------------------
(* Positions and maps. *)

\* A nonempty set of naturals has a least element.
LEMMA Least ==
    ASSUME NEW T \in SUBSET Nat, T # {}
    PROVE  \E m \in T : \A n \in T : m <= n
<1>1. IsWellFoundedOn(OpToRel(<, Nat), Nat)
  BY NatLessThanWellFounded
<1>2. PICK m \in T : \A n \in T : ~(<<n, m>> \in OpToRel(<, Nat))
  BY <1>1, WFMin
<1>3. \A n \in T : ~(n < m)
  BY <1>2 DEF OpToRel
<1>4. QED
  BY <1>3

\* Every symbol required and not known is missed at its first place.
LEMMA MissedOnce ==
    ASSUME NEW required \in Seq(Symbols), NEW map
    PROVE  /\ ResolvedMisses(map, required) \in SUBSET Nat
           /\ ResolvedMisses(map, required) \subseteq DOMAIN required
           /\ \A s \in Asked(required) \ Known(map) :
                 \E k \in ResolvedMisses(map, required) : required[k] = s
           /\ \A j, k \in ResolvedMisses(map, required) :
                 required[j] = required[k] => j = k
<1>1. DOMAIN required \in SUBSET Nat
  OBVIOUS
<1>2. /\ ResolvedMisses(map, required) \in SUBSET Nat
      /\ ResolvedMisses(map, required) \subseteq DOMAIN required
  BY <1>1 DEF ResolvedMisses
<1>3. ASSUME NEW s \in Asked(required) \ Known(map)
      PROVE  \E k \in ResolvedMisses(map, required) : required[k] = s
  <2> DEFINE T == {k \in DOMAIN required : required[k] = s}
  <2>1. T \in SUBSET Nat /\ T # {}
    BY <1>1, <1>3 DEF Asked
  <2>2. PICK k \in T : \A j \in T : k <= j
    BY <2>1, Least
  <2>3. k \in ResolvedMisses(map, required)
    BY <1>3, <2>2 DEF ResolvedMisses
  <2>4. QED
    BY <2>2, <2>3
<1>4. ASSUME NEW j \in ResolvedMisses(map, required),
             NEW k \in ResolvedMisses(map, required), required[j] = required[k]
      PROVE  j = k
  <2>1. j <= k /\ k <= j /\ j \in Nat /\ k \in Nat
    BY <1>1, <1>2, <1>4 DEF ResolvedMisses
  <2>2. QED
    BY <2>1
<1>5. QED
  BY <1>2, <1>3, <1>4

\* The objects Resolve plans to load are on disk, and define no missed symbol:
\* the map in memory, however old, agrees with meta.v1 about its own objects.
LEMMA ResolvedFromMemory ==
    ASSUME IInv, NEW i \in Instances, NEW required \in Seq(Symbols)
    PROVE  /\ ResolvedObjects(mem[i], required) \subseteq Files(meta)
           /\ \A s \in Symbols \ Known(mem[i]) :
                 meta[s] \notin ResolvedObjects(mem[i], required)
           /\ \A s \in Asked(required) \cap Known(mem[i]) :
                 meta[s] \in ResolvedObjects(mem[i], required)
<1>1. /\ Attributed(mem[i]) /\ Snapshot(mem[i]) /\ Attributed(meta)
      /\ mem[i] \in Maps /\ meta \in Maps
  BY DEF IInv, TypeOK
<1>2. \A s \in Known(mem[i]) : s \in Symbols /\ meta[s] = mem[i][s] /\ s \in Known(meta)
  BY <1>1 DEF Snapshot, Known
<1>3. ResolvedObjects(mem[i], required) \subseteq Files(mem[i])
  BY DEF ResolvedObjects, Files
<1>4. Files(mem[i]) \subseteq Files(meta)
  BY <1>2 DEF Files
<1>5. ASSUME NEW s \in Symbols \ Known(mem[i]), meta[s] \in Files(mem[i])
      PROVE  FALSE
  <2>1. objects[meta[s]] = {r \in Symbols : mem[i][r] = meta[s]}
    BY <1>1, <1>5 DEF Attributed
  <2>2. objects[meta[s]] = {r \in Symbols : meta[r] = meta[s]}
    BY <1>1, <1>4, <1>5 DEF Attributed
  <2>3. mem[i][s] = meta[s]
    BY <2>1, <2>2
  <2>4. meta[s] # NoFile
    BY <1>5 DEF Files, Known
  <2>5. QED
    BY <1>5, <2>3, <2>4 DEF Known
<1>6. QED
  BY <1>2, <1>3, <1>4, <1>5 DEF ResolvedObjects

\* meta.v1 only gets new symbols, all in files it did not mention.
MetaGrows ==
    \A s \in Symbols :
        meta'[s] = meta[s] \/ (meta[s] = NoFile /\ meta'[s] \notin Files(meta))

\* Whatever a job does in the cache, the map on disk only grows.
LEMMA CacheStep == ASSUME IInv, [Next]_vars PROVE MetaGrows
<1>1. CASE meta' = meta
  BY <1>1 DEF MetaGrows
<1>2. ASSUME NEW t \in Threads, RenameMeta(t) PROVE MetaGrows
  <2>1. pc[t] = "rename" /\ CallInv(t)
    BY <1>2 DEF IInv, RenameMeta
  <2>2. Fresh(call[t].file)
    BY <2>1 DEF CallInv
  <2>3. call[t].file \notin Files(meta)
    BY <2>2 DEF Fresh, Files, Known, IInv, TypeOK, Maps, NoFile
  <2>4. QED
    BY <1>2, <2>3, Publication DEF MetaGrows
<1>3. QED
  BY <1>1, <1>2, MetaChanges
-----------------------------------------------------------------------------
(* A job and the others. *)

\* A job's invariant outlives a step that changes only its phase, one of its
\* own or none, and a growing map.
LEMMA JobStays ==
    ASSUME MetaGrows, NEW t \in Threads, meta \in Maps, JobTypes, JobInv(t),
           misses'[t] = misses[t], hits'[t] = hits[t], pieces'[t] = pieces[t],
           phase'[t] \in Early => phase[t] \in Early,
           phase'[t] = "linking" => misses[t] = {},
           phase'[t] \in Working => phase[t] \in Working
    PROVE  JobInv(t)'
<1>1. /\ Missing(t)' = Missing(t) /\ Defined(t)' = Defined(t)
      /\ DefinedTwice(t)' = DefinedTwice(t)
  BY DEF Missing, Defined, DefinedTwice
<1>2. Asked(Required[t]) \subseteq Symbols /\ Missing(t) \subseteq Symbols
  BY CompileAssumption DEF CompileAssumption, JobTypes, Asked, Missing
<1>3. Defined(t) \subseteq Symbols
  BY DEF JobTypes, Defined
<1>4. hits[t] \subseteq Files(meta) /\ NoFile \notin Files(meta)
  BY DEF JobInv, Files, Known
<1>5. hits[t] \subseteq Files(meta')
  BY <1>4 DEF MetaGrows, Files, Known
<1>6. \A s \in Symbols : meta[s] \notin hits[t] => meta'[s] \notin hits[t]
  BY <1>4 DEF MetaGrows
<1>7. \A s \in Symbols : meta[s] \in hits[t] => meta'[s] \in hits[t]
  BY <1>4 DEF MetaGrows
<1>8. QED
  BY <1>1, <1>2, <1>3, <1>5, <1>6, <1>7 DEF JobInv

\* The new values of the variables of job t; nothing of the other jobs.
Changes(t, p, m, h, q) ==
    /\ phase'  = [phase EXCEPT ![t] = p]
    /\ misses' = [misses EXCEPT ![t] = m]
    /\ hits'   = [hits EXCEPT ![t] = h]
    /\ pieces' = [pieces EXCEPT ![t] = q]

\* What is to be shown of a step of job t.
LEMMA JobStepInv ==
    ASSUME CompileInv, MetaGrows, IInv', NEW t \in Threads,
           NEW p \in Phases \ JobFailures, NEW m \in SUBSET DOMAIN Required[t],
           NEW h \in SUBSET Nat, NEW q \in Seq(SUBSET Symbols),
           Changes(t, p, m, h, q), JobInv(t)'
    PROVE  CompileInv'
<1>1. m \in SUBSET Nat
  BY CompileAssumption DEF CompileAssumption
<1>2. /\ phase'[t] = p /\ misses'[t] = m
      /\ \A u \in Threads \ {t} : /\ phase'[u] = phase[u] /\ misses'[u] = misses[u]
                                 /\ hits'[u] = hits[u] /\ pieces'[u] = pieces[u]
  BY DEF CompileInv, JobTypes, Changes
<1>3. JobTypes'
  <2>1. /\ phase' \in [Threads -> Phases] /\ misses' \in [Threads -> SUBSET Nat]
        /\ hits' \in [Threads -> SUBSET Nat] /\ pieces' \in [Threads -> Seq(SUBSET Symbols)]
    BY <1>1 DEF CompileInv, JobTypes, Changes
  <2>2. \A u \in Threads : misses'[u] \subseteq DOMAIN Required[u]
    BY <1>2 DEF CompileInv, JobTypes
  <2>3. QED
    BY <2>1, <2>2 DEF JobTypes
<1>4. ASSUME NEW u \in Threads \ {t} PROVE JobInv(u)'
  <2>1. u \in Threads /\ JobInv(u) /\ JobTypes /\ meta \in Maps
    BY DEF CompileInv, IInv, TypeOK
  <2>2. phase'[u] = "linking" => misses[u] = {}
    BY <1>2, <2>1 DEF JobInv
  <2>3. QED
    BY <1>2, <2>1, <2>2, JobStays
<1>5. LinksExactly'
  BY <1>2 DEF CompileInv, LinksExactly
<1>6. QED
  BY <1>3, <1>4, <1>5 DEF CompileInv

\* A step of the cache that only moves the job to another phase.
LEMMA PhaseStepInv ==
    ASSUME CompileInv, MetaGrows, IInv', NEW t \in Threads,
           NEW p \in Phases \ JobFailures, phase' = [phase EXCEPT ![t] = p],
           UNCHANGED <<misses, hits, pieces>>,
           p \in Early => phase[t] \in Early,
           p = "linking" => misses[t] = {},
           p \in Working => phase[t] \in Working
    PROVE  CompileInv'
<1>1. phase'[t] = p
  BY DEF CompileInv, JobTypes
<1>2. JobInv(t) /\ JobTypes /\ meta \in Maps
  BY DEF CompileInv, IInv, TypeOK
<1>3. JobInv(t)'
  BY <1>1, <1>2, JobStays
<1>4. Changes(t, p, misses[t], hits[t], pieces[t])
  BY <1>2 DEF Changes, JobTypes
<1>5. /\ misses[t] \in SUBSET DOMAIN Required[t] /\ hits[t] \in SUBSET Nat
      /\ pieces[t] \in Seq(SUBSET Symbols)
  BY <1>2 DEF JobTypes
<1>6. QED
  BY <1>3, <1>4, <1>5, JobStepInv
-----------------------------------------------------------------------------
(* Each action preserves the invariant. *)

LEMMA CompileInitInv == CompileInit => CompileInv
<1> SUFFICES ASSUME CompileInit PROVE CompileInv
  OBVIOUS
<1>1. IInv
  BY InitInv DEF CompileInit
<1>2. <<>> \in Seq(SUBSET Symbols) /\ DOMAIN <<>> = {}
  OBVIOUS
<1>3. JobTypes
  BY <1>2 DEF CompileInit, JobTypes, Phases, Early
<1>4. ASSUME NEW t \in Threads PROVE JobInv(t)
  <2>1. /\ phase[t] = "new" /\ misses[t] = {} /\ hits[t] = {}
        /\ pieces[t] = <<>> /\ DOMAIN pieces[t] = {}
    BY <1>2 DEF CompileInit
  <2>2. Missing(t) = {} /\ Defined(t) = {} /\ ~DefinedTwice(t)
    BY <2>1 DEF Missing, Defined, DefinedTwice
  <2>3. QED
    BY <2>1, <2>2 DEF JobInv, Working
<1>5. LinksExactly
  BY DEF CompileInit, LinksExactly, JobFailures
<1>6. QED
  BY <1>1, <1>3, <1>4, <1>5 DEF CompileInv

\* The job enters Open.
LEMMA OpenCacheInv ==
    ASSUME CompileInv, ReliableDisk, NEW t \in Threads, OpenCache(t) PROVE CompileInv'
<1>1. Next
  BY DEF OpenCache, Next
<1>2. IInv' /\ MetaGrows
  BY <1>1, NextInv, CacheStep DEF CompileInv
<1>3. phase' = [phase EXCEPT ![t] = "opening"] /\ UNCHANGED <<misses, hits, pieces>>
  BY DEF OpenCache, Become
<1>4. QED
  BY <1>2, <1>3, PhaseStepInv DEF OpenCache, Phases, Early, Working, Ended, JobFailures

\* Open returns.
LEMMA OpenReturnsInv ==
    ASSUME CompileInv, ReliableDisk, NEW t \in Threads, OpenReturns(t) PROVE CompileInv'
<1>1. Next
  BY DEF OpenReturns, CallStep, Next
<1>2. IInv' /\ MetaGrows
  BY <1>1, NextInv, CacheStep DEF CompileInv
<1>3. phase' = [phase EXCEPT ![t] = "opened"] /\ UNCHANGED <<misses, hits, pieces>>
  BY DEF OpenReturns, Become
<1>4. QED
  BY <1>2, <1>3, PhaseStepInv DEF OpenReturns, Phases, Early, Working, Ended, JobFailures

\* Register is called with the next miss.
LEMMA CompileMissInv ==
    ASSUME CompileInv, ReliableDisk, NEW t \in Threads, CompileMiss(t) PROVE CompileInv'
<1>1. PICK k \in misses[t] : RegisterLock(t, {Required[t][k]})
  BY DEF CompileMiss
<1>2. k \in DOMAIN Required[t] /\ Required[t] \in Seq(Symbols)
  BY CompileAssumption DEF CompileAssumption, CompileInv, JobTypes
<1>3. {Required[t][k]} \in SUBSET Symbols
  BY <1>2
<1>4. Next
  BY <1>1, <1>3 DEF Next
<1>5. IInv' /\ MetaGrows
  BY <1>4, NextInv, CacheStep DEF CompileInv
<1>6. phase' = [phase EXCEPT ![t] = "registering"] /\ UNCHANGED <<misses, hits, pieces>>
  BY DEF CompileMiss, Become
<1>7. QED
  BY <1>5, <1>6, PhaseStepInv DEF CompileMiss, Phases, Early, Working, Ended, JobFailures

\* A step that leaves the cache alone.
LEMMA CacheStays == ASSUME IInv, UNCHANGED vars PROVE IInv' /\ MetaGrows
<1>1. TypeOK'
  BY DEF IInv, TypeOK, vars
<1>2. MemoryReplaced /\ CallsEnd
  BY DEF MemoryReplaced, CallsEnd, vars
<1>3. IInv'
  BY <1>1, <1>2, MemoryStep
<1>4. QED
  BY <1>3 DEF MetaGrows, vars

\* The local cache object is destroyed: the disk does not change.
LEMMA CloseCacheInv ==
    ASSUME IInv, NEW t \in Threads, CloseCache(t),
           UNCHANGED <<objects, meta, metaTmp, lock, pc, call>>
    PROVE  IInv' /\ MetaGrows
<1>1. InstanceOf[t] \in Instances
  BY CacheAssumption DEF CacheAssumption
<1>2. /\ opened' = opened \ {InstanceOf[t]}
      /\ mem' = [mem EXCEPT ![InstanceOf[t]] = Nothing]
  BY DEF CloseCache
<1>3. TypeOK'
  BY <1>1, <1>2, MapTypes DEF IInv, TypeOK
<1>4. MemoryReplaced
  BY <1>1, <1>2 DEF MemoryReplaced, IInv, TypeOK
<1>5. CallsEnd
  BY DEF CallsEnd
<1>6. IInv'
  BY <1>3, <1>4, <1>5, MemoryStep
<1>7. QED
  BY <1>6 DEF MetaGrows

\* The kernel is emitted, all misses being done.
LEMMA EmitKernelInv ==
    ASSUME CompileInv, NEW t \in Threads, EmitKernel(t) PROVE CompileInv'
<1>1. IInv' /\ MetaGrows
  BY CloseCacheInv DEF CompileInv, EmitKernel
<1>2. phase' = [phase EXCEPT ![t] = "linking"] /\ UNCHANGED <<misses, hits, pieces>>
  BY DEF EmitKernel, Become
<1>3. QED
  BY <1>1, <1>2, PhaseStepInv DEF EmitKernel, Phases, Early, Working, Ended, JobFailures

\* Code generation fails.
LEMMA EmitFailsInv ==
    ASSUME CompileInv, NEW t \in Threads, EmitFails(t) PROVE CompileInv'
<1>1. IInv' /\ MetaGrows
  BY CloseCacheInv DEF CompileInv, EmitFails
<1>2. phase' = [phase EXCEPT ![t] = "failed"] /\ UNCHANGED <<misses, hits, pieces>>
  BY DEF EmitFails, Become
<1>3. QED
  BY <1>1, <1>2, PhaseStepInv DEF EmitFails, Phases, Early, Working, Ended, JobFailures

\* The job's process dies.
LEMMA JobCrashInv ==
    ASSUME CompileInv, ReliableDisk, NEW t \in Threads, JobCrash(t) PROVE CompileInv'
<1>1. Next
  BY CacheAssumption DEF CacheAssumption, JobCrash, Next
<1>2. IInv' /\ MetaGrows
  BY <1>1, NextInv, CacheStep DEF CompileInv
<1>3. phase' = [phase EXCEPT ![t] = "crashed"] /\ UNCHANGED <<misses, hits, pieces>>
  BY DEF JobCrash, Become
<1>4. QED
  BY <1>2, <1>3, PhaseStepInv DEF JobCrash, Phases, Early, Working, Ended, JobFailures

\* The job splits its symbols in hits and misses, on the map in its memory.
LEMMA ResolveInv ==
    ASSUME CompileInv, NEW t \in Threads, Resolve(t) PROVE CompileInv'
<1> DEFINE i == InstanceOf[t]
           m == ResolvedMisses(mem[i], Required[t])
           h == ResolvedObjects(mem[i], Required[t])
<1>1. IInv' /\ MetaGrows
  BY CacheStays DEF CompileInv, Resolve
<1>2. i \in Instances /\ Required[t] \in Seq(Symbols) /\ IInv
  BY CacheAssumption, CompileAssumption DEF CacheAssumption, CompileAssumption, CompileInv
<1>3. /\ h \subseteq Files(meta)
      /\ \A s \in Symbols \ Known(mem[i]) : meta[s] \notin h
      /\ \A s \in Asked(Required[t]) \cap Known(mem[i]) : meta[s] \in h
  BY <1>2, ResolvedFromMemory
<1>4. /\ m \in SUBSET Nat
      /\ m \subseteq DOMAIN Required[t]
      /\ \A s \in Asked(Required[t]) \ Known(mem[i]) : \E k \in m : Required[t][k] = s
      /\ \A j, k \in m : Required[t][j] = Required[t][k] => j = k
  BY <1>2, MissedOnce
<1>5. \A k \in m : Required[t][k] \in Symbols \ Known(mem[i])
  BY <1>2 DEF ResolvedMisses
<1>6. h \in SUBSET Nat
  BY <1>2, <1>3 DEF IInv, TypeOK, Maps, Files, Known, NoFile
<1>7. /\ phase[t] = "opened" /\ meta' = meta
      /\ phase'  = [phase EXCEPT ![t] = "compiling"]
      /\ misses' = [misses EXCEPT ![t] = m]
      /\ hits'   = [hits EXCEPT ![t] = h]
      /\ pieces' = pieces
  BY DEF Resolve, Become, vars
<1> HIDE DEF i, m, h
<1>8. /\ phase'[t] = "compiling" /\ misses'[t] = m /\ hits'[t] = h
      /\ pieces[t] = <<>> /\ pieces'[t] = <<>> /\ pieces[t] \in Seq(SUBSET Symbols)
  BY <1>7 DEF CompileInv, JobTypes, JobInv, Early
<1>9. JobInv(t)'
  <2>1. DOMAIN <<>> = {}
    OBVIOUS
  <2>2. Defined(t)' = {} /\ ~DefinedTwice(t)'
    BY <1>8, <2>1 DEF Defined, DefinedTwice
  <2>3. Missing(t)' = {Required[t][k] : k \in m}
    BY <1>8 DEF Missing
  <2>4. \A s \in Asked(Required[t]) : s \in Missing(t)' \/ meta'[s] \in hits'[t]
    BY <1>3, <1>4, <1>7, <1>8, <2>3
  <2>5. \A s \in Missing(t)' : meta'[s] \notin hits'[t]
    BY <1>3, <1>5, <1>7, <1>8, <2>3
  <2>6. Files(meta)' = Files(meta)
    BY <1>7 DEF Files, Known
  <2>7. QED
    BY <1>3, <1>4, <1>8, <2>2, <2>4, <2>5, <2>6 DEF JobInv, Early
<1>10. Changes(t, "compiling", m, h, pieces[t])
  BY <1>7 DEF Changes, CompileInv, JobTypes
<1>11. "compiling" \in Phases \ JobFailures
  BY DEF Phases, Working, JobFailures
<1>12. QED
  BY <1>1, <1>4, <1>6, <1>8, <1>9, <1>10, <1>11, JobStepInv

\* Where to put the next piece of job t, and what it defines then.
LEMMA PieceAdded ==
    ASSUME JobTypes, NEW t \in Threads, NEW S \in SUBSET Symbols,
           pieces' = [pieces EXCEPT ![t] = Append(pieces[t], S)],
           S \cap Defined(t) = {}, ~DefinedTwice(t)
    PROVE  /\ Append(pieces[t], S) \in Seq(SUBSET Symbols)
           /\ pieces'[t] = Append(pieces[t], S)
           /\ Defined(t)' = Defined(t) \cup S
           /\ ~DefinedTwice(t)'
<1> DEFINE q == pieces[t]
           n == Len(q) + 1
<1>1. q \in Seq(SUBSET Symbols) /\ pieces'[t] = Append(q, S)
  BY DEF JobTypes
<1>2. /\ Append(q, S) \in Seq(SUBSET Symbols)
      /\ DOMAIN Append(q, S) = DOMAIN q \cup {n} /\ n \notin DOMAIN q
      /\ Append(q, S)[n] = S /\ \A k \in DOMAIN q : Append(q, S)[k] = q[k]
  BY <1>1
<1>3. /\ DOMAIN pieces'[t] = DOMAIN q \cup {n} /\ n \notin DOMAIN q
      /\ pieces'[t][n] = S /\ \A k \in DOMAIN q : pieces'[t][k] = pieces[t][k]
  BY <1>1, <1>2
<1> HIDE DEF n
<1>4. Defined(t)' = Defined(t) \cup S
  <2>1. ASSUME NEW s \in Defined(t)' PROVE s \in Defined(t) \cup S
    <3>1. PICK k \in DOMAIN pieces'[t] : s \in pieces'[t][k]
      BY <2>1 DEF Defined
    <3>2. CASE k = n
      BY <1>3, <3>1, <3>2
    <3>3. CASE k \in DOMAIN q
      BY <1>3, <3>1, <3>3 DEF Defined
    <3>4. QED
      BY <1>3, <3>1, <3>2, <3>3
  <2>2. ASSUME NEW s \in Defined(t) PROVE s \in Defined(t)'
    <3>1. PICK k \in DOMAIN q : s \in pieces[t][k]
      BY <2>2 DEF Defined
    <3>2. k \in DOMAIN pieces'[t] /\ s \in pieces'[t][k]
      BY <1>3, <3>1
    <3>3. QED
      BY <3>2 DEF Defined
  <2>3. ASSUME NEW s \in S PROVE s \in Defined(t)'
    BY <1>3, <2>3 DEF Defined
  <2>4. QED
    BY <2>1, <2>2, <2>3
<1>5. ~DefinedTwice(t)'
  <2> SUFFICES ASSUME NEW j \in DOMAIN pieces'[t], NEW k \in DOMAIN pieces'[t], j # k
               PROVE  pieces'[t][j] \cap pieces'[t][k] = {}
    BY DEF DefinedTwice
  <2>1. \A l \in DOMAIN q : pieces[t][l] \subseteq Defined(t)
    BY DEF Defined
  <2>2. CASE j \in DOMAIN q /\ k \in DOMAIN q
    BY <1>3, <2>2 DEF DefinedTwice
  <2>3. CASE j = n /\ k \in DOMAIN q
    BY <1>3, <2>1, <2>3
  <2>4. CASE j \in DOMAIN q /\ k = n
    BY <1>3, <2>1, <2>4
  <2>5. QED
    BY <1>3, <2>2, <2>3, <2>4
<1>6. QED
  BY <1>1, <1>2, <1>4, <1>5

\* A step of Register; at its end the job keeps its own object of the miss.
LEMMA RegisterMissInv ==
    ASSUME CompileInv, ReliableDisk, NEW t \in Threads, RegisterMiss(t) PROVE CompileInv'
<1>1. phase[t] = "registering" /\ CallStep(t)
  BY DEF RegisterMiss
<1>2. IInv' /\ MetaGrows
  BY <1>1, NextInv, CacheStep DEF Next, CompileInv
<1>3. JobTypes /\ JobInv(t) /\ meta \in Maps
  BY DEF CompileInv, IInv, TypeOK
<1>4. CASE UNCHANGED jobVars
  <2>1. phase' = [phase EXCEPT ![t] = "registering"] /\ UNCHANGED <<misses, hits, pieces>>
    BY <1>1, <1>3, <1>4 DEF JobTypes, jobVars
  <2>2. QED
    BY <1>1, <1>2, <2>1, PhaseStepInv DEF Phases, Early, Working, Ended, JobFailures
<1>5. CASE Become(t, "failed") /\ UNCHANGED <<misses, hits, pieces>>
  <2>1. phase' = [phase EXCEPT ![t] = "failed"]
    BY <1>5 DEF Become
  <2>2. QED
    BY <1>1, <1>2, <1>5, <2>1, PhaseStepInv DEF Phases, Early, Working, Ended, JobFailures
<1>6. ASSUME NEW k \in misses[t], UNCHANGED hits, Become(t, "compiling"),
             pieces' = [pieces EXCEPT ![t] = Append(@, {Required[t][k]})],
             misses' = [misses EXCEPT ![t] = @ \ {k}]
      PROVE  CompileInv'
  <2> DEFINE r == Required[t][k]
  <2>1. /\ k \in DOMAIN Required[t] /\ Required[t] \in Seq(Symbols) /\ r \in Symbols
        /\ {r} \in SUBSET Symbols /\ r \in Missing(t)
        /\ \A j \in misses[t] : Required[t][j] \in Symbols
    BY <1>3, CompileAssumption DEF CompileAssumption, JobTypes, Missing
  <2>2. {r} \cap Defined(t) = {} /\ ~DefinedTwice(t)
    BY <1>3, <2>1 DEF JobInv
  <2>3. /\ Append(pieces[t], {r}) \in Seq(SUBSET Symbols)
        /\ Defined(t)' = Defined(t) \cup {r}
        /\ ~DefinedTwice(t)'
    BY <1>3, <1>6, <2>1, <2>2, PieceAdded
  <2>4. phase'[t] = "compiling" /\ misses'[t] = misses[t] \ {k} /\ hits'[t] = hits[t]
    BY <1>3, <1>6 DEF JobTypes, Become
  <2>5. Missing(t)' = Missing(t) \ {r}
    BY <1>3, <2>4 DEF Missing, JobInv
  <2>6. hits[t] \subseteq Files(meta) /\ NoFile \notin Files(meta)
    BY <1>3 DEF JobInv, Files, Known
  <2>7. hits[t] \subseteq Files(meta')
    BY <1>2, <2>6 DEF MetaGrows, Files, Known
  <2>8. \A s \in Symbols : (meta[s] \in hits[t]) = (meta'[s] \in hits[t])
    BY <1>2, <2>6 DEF MetaGrows
  <2>9. Missing(t) \subseteq Symbols /\ Defined(t) \subseteq Symbols
        /\ Asked(Required[t]) \subseteq Symbols
    BY <1>3, <2>1 DEF Missing, Defined, JobTypes, Asked
  <2> HIDE DEF r
  <2>10. \A s \in Missing(t)' \cup Defined(t)' : meta'[s] \notin hits'[t]
    BY <1>3, <2>1, <2>3, <2>4, <2>5, <2>8, <2>9 DEF JobInv
  <2>11. \A s \in Asked(Required[t]) :
            s \in Missing(t)' \/ s \in Defined(t)' \/ meta'[s] \in hits'[t]
    BY <1>1, <1>3, <2>3, <2>4, <2>5, <2>8, <2>9 DEF JobInv, Working
  <2>12. Missing(t)' \cap Defined(t)' = {}
    BY <1>3, <2>3, <2>5 DEF JobInv
  <2>13. \A i, j \in misses'[t] : Required[t][i] = Required[t][j] => i = j
    BY <1>3, <2>4 DEF JobInv
  <2>14. Files(meta)' = Files(meta')
    BY DEF Files, Known
  <2>15. JobInv(t)'
    BY <2>3, <2>4, <2>7, <2>10, <2>11, <2>12, <2>13, <2>14 DEF JobInv, Early
  <2>16. Changes(t, "compiling", misses[t] \ {k}, hits[t], Append(pieces[t], {r}))
    BY <1>3, <1>6 DEF Changes, Become, JobTypes, r
  <2>17. /\ "compiling" \in Phases \ JobFailures
         /\ misses[t] \ {k} \in SUBSET DOMAIN Required[t]
         /\ hits[t] \in SUBSET Nat
    BY <1>3 DEF Phases, Working, JobFailures, JobTypes
  <2>18. QED
    BY <1>2, <2>3, <2>15, <2>16, <2>17, JobStepInv
<1>7. QED
  BY <1>4, <1>5, <1>6 DEF RegisterMiss

\* The next object of the plan is there, and defines no symbol added before.
LEMMA LinkObjectInv ==
    ASSUME CompileInv, NEW t \in Threads, LinkObject(t) PROVE CompileInv'
<1>1. IInv' /\ MetaGrows /\ meta' = meta
  BY CacheStays DEF CompileInv, LinkObject, vars
<1>2. JobTypes /\ JobInv(t) /\ meta \in Maps /\ Attributed(meta)
  BY DEF CompileInv, IInv, TypeOK
<1>3. phase[t] = "linking" /\ misses' = misses
  BY DEF LinkObject
<1>4. PICK n \in hits[t] :
         \/ /\ n \in DOMAIN objects
            /\ pieces' = [pieces EXCEPT ![t] = Append(@, objects[n])]
            /\ hits' = [hits EXCEPT ![t] = @ \ {n}]
            /\ UNCHANGED phase
         \/ /\ n \notin DOMAIN objects
            /\ Become(t, "objectMissing") /\ UNCHANGED <<hits, pieces>>
  BY DEF LinkObject
<1> DEFINE S == {s \in Symbols : meta[s] = n}
<1>5. n \in DOMAIN objects /\ objects[n] = S
  BY <1>2 DEF Attributed, JobInv
<1>6. /\ pieces' = [pieces EXCEPT ![t] = Append(pieces[t], S)]
      /\ hits' = [hits EXCEPT ![t] = hits[t] \ {n}]
      /\ phase' = phase
  BY <1>2, <1>4, <1>5 DEF JobTypes
<1>7. S \in SUBSET Symbols /\ \A s \in S : meta[s] \in hits[t]
  BY <1>4
<1>8. S \cap Defined(t) = {} /\ S \cap Missing(t) = {} /\ ~DefinedTwice(t)
  BY <1>2, <1>7 DEF JobInv
<1>9. /\ Append(pieces[t], S) \in Seq(SUBSET Symbols)
      /\ Defined(t)' = Defined(t) \cup S
      /\ ~DefinedTwice(t)'
  BY <1>2, <1>6, <1>7, <1>8, PieceAdded
<1>10. /\ phase'[t] = "linking" /\ misses'[t] = misses[t] /\ misses[t] = {}
       /\ hits'[t] = hits[t] \ {n} /\ Missing(t)' = Missing(t)
  BY <1>2, <1>3, <1>6 DEF JobTypes, JobInv, Missing
<1>11. JobInv(t)'
  <2>1. Asked(Required[t]) \subseteq Symbols /\ Missing(t) = {}
    BY <1>10, CompileAssumption DEF CompileAssumption, Asked, Missing
  <2>2. \A s \in Asked(Required[t]) :
            s \in Missing(t)' \/ s \in Defined(t)' \/ meta'[s] \in hits'[t]
    BY <1>1, <1>2, <1>3, <1>9, <1>10, <2>1 DEF JobInv, Working
  <2>3. \A s \in Defined(t)' : meta'[s] \notin hits'[t]
    BY <1>1, <1>2, <1>9, <1>10 DEF JobInv
  <2>4. hits'[t] \subseteq Files(meta)'
    BY <1>1, <1>2, <1>10 DEF JobInv, Files, Known
  <2>5. QED
    BY <1>9, <1>10, <2>1, <2>2, <2>3, <2>4 DEF JobInv, Early
<1>12. Changes(t, "linking", misses[t], hits[t] \ {n}, Append(pieces[t], S))
  BY <1>2, <1>3, <1>6 DEF Changes, JobTypes
<1>13. /\ "linking" \in Phases \ JobFailures
       /\ misses[t] \in SUBSET DOMAIN Required[t]
       /\ hits[t] \ {n} \in SUBSET Nat
  BY <1>2 DEF Phases, Working, JobFailures, JobTypes
<1>14. QED
  BY <1>1, <1>9, <1>11, <1>12, <1>13, JobStepInv

\* With every file and blob added, each required symbol is defined once.
LEMMA LookupInv ==
    ASSUME CompileInv, NEW t \in Threads, Lookup(t) PROVE CompileInv'
<1>1. IInv' /\ MetaGrows
  BY CacheStays DEF CompileInv, Lookup
<1>2. JobInv(t) /\ phase[t] = "linking" /\ hits[t] = {}
  BY DEF CompileInv, Lookup
<1>3. ~DefinedTwice(t) /\ Missing(t) = {}
  BY <1>2 DEF JobInv, Missing
<1>4. Asked(Required[t]) \subseteq Defined(t)
  BY <1>2, <1>3 DEF JobInv, Working
<1>5. phase' = [phase EXCEPT ![t] = "linked"] /\ UNCHANGED <<misses, hits, pieces>>
  BY <1>3, <1>4 DEF Lookup, Become
<1>6. QED
  BY <1>1, <1>2, <1>5, PhaseStepInv DEF Phases, Early, Working, Ended, JobFailures

\* No step of a job, and no crash, breaks the invariant.
LEMMA CompileNextInv ==
    ASSUME CompileInv, ReliableDisk, [CompileNext]_allVars PROVE CompileInv'
<1>1. ASSUME NEW t \in Threads, JobStep(t) PROVE CompileInv'
  BY <1>1, OpenCacheInv, OpenReturnsInv, ResolveInv, CompileMissInv, RegisterMissInv,
     EmitKernelInv, EmitFailsInv, LinkObjectInv, LookupInv DEF JobStep
<1>2. CASE UNCHANGED allVars
  <2>1. IInv' /\ MetaGrows
    BY <1>2, CacheStays DEF CompileInv, allVars
  <2>2. phase' = phase /\ misses' = misses /\ hits' = hits /\ pieces' = pieces
    BY <1>2 DEF allVars, jobVars
  <2>3. JobTypes' /\ LinksExactly'
    BY <2>2 DEF CompileInv, JobTypes, LinksExactly
  <2>4. ASSUME NEW t \in Threads PROVE JobInv(t)'
    <3>1. JobInv(t) /\ JobTypes /\ meta \in Maps
      BY DEF CompileInv, IInv, TypeOK
    <3>2. phase[t] = "linking" => misses[t] = {}
      BY <3>1 DEF JobInv
    <3>3. QED
      BY <2>1, <2>2, <3>1, <3>2, JobStays
  <2>5. QED
    BY <2>1, <2>3, <2>4 DEF CompileInv
<1>3. QED
  BY <1>1, <1>2, JobCrashInv DEF CompileNext
-----------------------------------------------------------------------------
\* The invariant of the cache and of the jobs that use it, whatever the jobs
\* require and however they interleave, fail and crash.
THEOREM JobsInvariance == ASSUME ReliableDisk PROVE CompileSteps => []CompileInv
<1>1. CompileInv /\ [CompileNext]_allVars => CompileInv'
  BY CompileNextInv
<1>2. QED
  BY <1>1, CompileInitInv, PTL DEF CompileSteps

\* Linking never fails because of the cache: each hit object is still there
\* when the job loads it, and every required symbol is defined exactly once.
THEOREM Linking == ASSUME ReliableDisk PROVE CompileSpec => []LinksExactly
<1>1. CompileInv => LinksExactly
  BY DEF CompileInv
<1>2. QED
  BY <1>1, JobsInvariance, PTL DEF CompileSpec

\* Jobs that use the cache keep its promise: in every map an object file
\* exists and defines exactly the symbols the map attributes to it.
THEOREM JobsKeepAttribution == ASSUME ReliableDisk PROVE CompileSpec => []SelfAttributed
<1>1. CompileInv => SelfAttributed
  BY ViewsAttributed DEF CompileInv, SelfAttributed, Attributed
<1>2. QED
  BY <1>1, JobsInvariance, PTL DEF CompileSpec
=============================================================================
