----------------------------- MODULE NativeRun -----------------------------
(***************************************************************************)
(* A native process (bin/interpreter.cpp): the same futures and executors  *)
(* under one of the two engines, the bytecode interpreter or, with --jit,  *)
(* compiled code.  The engine is chosen when the process starts.           *)
(***************************************************************************)
EXTENDS InterpreterRun, JitRun

VARIABLE engine

nativeVars == <<jitVars, engine>>

NativeInit == JitInit /\ engine \in {"interpreter", "jit"}

NativeNext ==
    /\ \/ engine = "interpreter" /\ InterpreterNext /\ UNCHANGED guarded
       \/ engine = "jit" /\ JitNext
    /\ UNCHANGED engine

\* The process is one thread and its steps are never refused.
NativeSpec == NativeInit /\ [][NativeNext]_nativeVars /\ WF_nativeVars(NativeNext)
=============================================================================
