--------------------------- MODULE MCCachedCompile ---------------------------
(* Three jobs in three processes: two need both symbols, in opposite orders,  *)
(* the third needs one of them, twice.                                       *)
EXTENDS CachedCompile, TLC

CONSTANTS t1, t2, t3, i1, i2, i3, a, b

MCThreads    == {t1, t2, t3}
MCInstances  == {i1, i2, i3}
MCInstanceOf == (t1 :> i1) @@ (t2 :> i2) @@ (t3 :> i3)
MCRequired   == (t1 :> <<a, b>>) @@ (t2 :> <<b, a>>) @@ (t3 :> <<b, b>>)
=============================================================================
