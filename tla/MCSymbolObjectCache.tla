------------------------ MODULE MCSymbolObjectCache ------------------------
(* Instances of SymbolObjectCache for TLC.  Threads t1 and t2 share cache i1, *)
(* t3 has one of its own in another process.                                 *)
EXTENDS SymbolObjectCache, TLC

CONSTANTS t1, t2, t3, i1, i2

MCThreads    == {t1, t2, t3}
MCInstances  == {i1, i2}
MCInstanceOf == (t1 :> i1) @@ (t2 :> i1) @@ (t3 :> i2)
SymbolSymmetry == Permutations(Symbols)
=============================================================================
