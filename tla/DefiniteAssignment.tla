------------------------- MODULE DefiniteAssignment -------------------------
(***************************************************************************)
(* The check that every variable is assigned before it is used             *)
(* (src/qumir/semantics/definite_assignment/definite_assignment.cpp).      *)
(*                                                                         *)
(* The state is what has been assigned on every way here, and whether the  *)
(* program is still accepted.  Globals and parameters count as assigned.   *)
(* The check runs before the lifetime pass: a structured exit stands here  *)
(* for the break, continue or return it is made from.                      *)
(***************************************************************************)
EXTENDS Ast

Assigned(st, v) == [st EXCEPT !.assigned = @ \cup {v.at}]

\* What a part assigns does not count after it.
Forget(st, after) == [after EXCEPT !.assigned = st.assigned]

CheckIdent(st, v) == [st EXCEPT !.ok = @ /\ (v.at[1] = "local" => v.at \in st.assigned)]

RECURSIVE Check(_, _)

CheckAll(st, exprs) == FoldLeft(Check, st, exprs)

\* Mutant of CheckIfExpr: what either branch assigns counts.
CheckEitherBranch(st, e) ==
    LET cond == Check(st, e.kids[1])
        then == Check(cond, e.kids[2])
        else == Check(cond, e.kids[3])
    IN [ok |-> then.ok /\ else.ok, assigned |-> then.assigned \cup else.assigned]

\* Without an else nothing counts, not even what the condition assigns.
CheckIfExpr(st, e) ==
    LET cond == Check(st, e.kids[1])
        then == Check(cond, e.kids[2])
        else == Check(cond, e.kids[3])
    IN [ok |-> then.ok /\ else.ok,
        assigned |-> IF IsAbsent(e.kids[3]) THEN st.assigned ELSE then.assigned \cap else.assigned]

\* The condition is checked before the body or after it, as it is written.
CheckLoop(st, e) == Forget(st, CheckAll(st, e.kids))

CheckFor(st, e) ==
    Forget(st, Check(Assigned(CheckAll(st, SubSeq(e.kids, 1, 3)), e.x), e.kids[4]))

CheckAssign(st, e) == Assigned(Check(st, e.kids[1]), e.x)

\* A variable without an initial value is not assigned; an array is.
CheckVar(st, e) ==
    IF Len(e.kids) = 3 THEN Assigned(st, e.x)
    ELSE IF IsAbsent(e.kids[1]) THEN st
    ELSE Assigned(Check(st, e.kids[1]), e.x)

\* An argument passed by reference is read, unless its parameter is written only: then it is
\* assigned.  Whole arrays are not looked at.
CheckArg(st, param, arg) ==
    CASE param.t \in {"ints", "strings"} -> st
      [] param.ref /\ ~param.readable -> IF arg.kind = "ident" THEN Assigned(st, arg.x) ELSE st
      [] OTHER -> Forget(st, Check(st, arg))

\* All arguments are checked with what was assigned before the call.
CheckCall(st, e) ==
    LET after == [i \in DOMAIN e.kids |-> CheckArg(st, e.x.params[i], e.kids[i])]
    IN [ok |-> st.ok /\ \A i \in DOMAIN after : after[i].ok,
        assigned |-> st.assigned \cup UNION {after[i].assigned : i \in DOMAIN after}]

Check(st, e) ==
    CASE e.kind \in {"none", "index"} -> st
      [] e.kind = "if" -> CheckIfExpr(st, e)
      [] e.kind \in {"while", "repeat", "times"} -> CheckLoop(st, e)
      [] e.kind = "for" -> CheckFor(st, e)
      [] e.kind = "assign" -> CheckAssign(st, e)
      [] e.kind = "var" -> CheckVar(st, e)
      [] e.kind = "ident" -> CheckIdent(st, e.x)
      [] e.kind = "call" -> CheckCall(st, e)
      [] OTHER -> CheckAll(st, e.kids)

\* CheckFunDecl: whether the function is accepted.
DefinitelyAssigned(fun) ==
    Check([ok |-> TRUE, assigned |-> {p.at : p \in ToSet(fun.x.params)}], fun.kids[1]).ok
=============================================================================
