--------------------------- MODULE SymbolRegistry ---------------------------
(***************************************************************************)
(* What the symbol object cache promises (the class comment of             *)
(* codegen/llvm/symbol_object_cache.h): the registry partitions the known  *)
(* symbols into compiled objects, a group of symbols is added whole or not *)
(* at all, the first writer wins, and an opened cache sees the registry as *)
(* it was at some moment since it was opened.  No files, locks, threads or *)
(* crashes: SymbolObjectCache implements this module.                      *)
(***************************************************************************)

CONSTANTS Symbols,    \* names of cacheable functions
          Instances   \* opened TSymbolObjectCache values

VARIABLES group,      \* group[s]: symbols of the object that defines s, {} if none
          view        \* view[i]: the registry as instance i last saw it

registryVars == <<group, view>>

Empty == [s \in Symbols |-> {}]

RegistryInit ==
    /\ group = Empty
    /\ view = [i \in Instances |-> Empty]

\* A whole new object S: none of its symbols was known.
Publish(S) ==
    /\ S # {}
    /\ \A s \in S : group[s] = {}
    /\ group' = [s \in Symbols |-> IF s \in S THEN S ELSE group[s]]
    /\ UNCHANGED view

\* Opening, or the end of a Register on instance i.
Refresh(i) ==
    /\ view' = [view EXCEPT ![i] = group]
    /\ UNCHANGED group

\* The process that holds instance i ends.
Forget(i) ==
    /\ view' = [view EXCEPT ![i] = Empty]
    /\ UNCHANGED group

RegistryNext ==
    \/ \E S \in SUBSET Symbols : Publish(S)
    \/ \E i \in Instances : Refresh(i) \/ Forget(i)

RegistrySpec == RegistryInit /\ [][RegistryNext]_registryVars
=============================================================================
