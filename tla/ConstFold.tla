----------------------------- MODULE ConstFold -----------------------------
(***************************************************************************)
(* Constant folding and the renumbering of temporaries after it            *)
(* (src/qumir/ir/passes/transforms/const_fold.cpp,                         *)
(* src/qumir/ir/passes/transforms/renumber_regs.cpp).                      *)
(*                                                                         *)
(* The users of each temporary are collected once, before anything is      *)
(* folded.  The operators are those on integers of one type, of Word       *)
(* values.                                                                 *)
(***************************************************************************)
EXTENDS AstLowering

CONSTANTS Word,       \* integers are -Word \div 2 .. Word \div 2 - 1
          TypeOneIsInteger   \* what the type table says of type 1 (const_fold.cpp:199)

Wrap(n) == ((n + Word \div 2) % Word) - Word \div 2

\* applyBinOp.
Folded(op, x, y) ==
    CASE op = "+" -> Wrap(x + y)
      [] op = "-" -> Wrap(x - y)
      [] op = "*" -> Wrap(x * y)

\* calcUsers: the places of the instructions, or phis, that read t.
UsersIn(rows, t, Operands(_)) ==
    UNION {{<<b, i>> : i \in {j \in DOMAIN rows[b] : t \in ToSet(Operands(rows[b][j]))}} : b \in DOMAIN rows}

ReplacedBy(operands, t, v) == Map(LAMBDA o : IF o = t THEN v ELSE o, operands)

\* Mutant of ReplaceTmpWithOp: phis keep the temporary.
ReplaceInInstrsOnly(s, t, v) ==
    [s EXCEPT !.instrs = Table([b \in DOMAIN @ |-> [i \in DOMAIN @[b] |->
                             IF <<b, i>> \in s.users[t[2]] THEN [@[b][i] EXCEPT !.args = ReplacedBy(@, t, v)]
                             ELSE @[b][i]]]),
              !.users[t[2]] = {}]

\* In the places that read t at the start; who reads t now is not looked up again.
ReplaceTmpWithOp(s, t, v) ==
    [s EXCEPT !.instrs = Table([b \in DOMAIN @ |-> [i \in DOMAIN @[b] |->
                             IF <<b, i>> \in s.users[t[2]] THEN [@[b][i] EXCEPT !.args = ReplacedBy(@, t, v)]
                             ELSE @[b][i]]]),
              !.phis = Table([b \in DOMAIN @ |-> [k \in DOMAIN @[b] |->
                           IF <<b, k>> \in s.phiUsers[t[2]] THEN [@[b][k] EXCEPT !.values = ReplacedBy(@, t, v)]
                           ELSE @[b][k]]]),
              !.users[t[2]] = {}, !.phiUsers[t[2]] = {}]

IsImm(v) == v[1] = "imm"
IsTmp(v) == v[1] = "tmp"

\* What an instruction amounts to, NoValue if it has to be executed.
Simplified(op, x, y) ==
    CASE IsImm(x) /\ IsImm(y) -> Imm(Folded(op, x[2], y[2]))
      [] IsTmp(x) /\ y = Imm(0) /\ op \in {"+", "-"} -> x
      [] IsTmp(x) /\ y = Imm(0) /\ op = "*" -> Imm(0)
      [] IsTmp(x) /\ y = Imm(1) /\ op = "*" /\ TypeOneIsInteger -> x
      [] x = Imm(0) /\ IsTmp(y) /\ op = "+" -> y
      [] x = Imm(0) /\ IsTmp(y) /\ op = "*" -> Imm(0)
      [] x = Imm(1) /\ IsTmp(y) /\ op = "*" /\ TypeOneIsInteger -> y
      [] OTHER -> NoValue

FoldTo(s, b, i, v) ==
    IF v = NoValue THEN s
    ELSE [ReplaceTmpWithOp(s, s.instrs[b][i].dest, v) EXCEPT !.instrs[b][i] = Nop, !.changed = TRUE]

ProcessInstr(s, b, i) ==
    LET instr == s.instrs[b][i]
    IN IF instr.op \notin {"+", "-", "*"} THEN s
       ELSE FoldTo(s, b, i, Simplified(instr.op, instr.args[1], instr.args[2]))

SweepBlock(s, b) == FoldLeft(LAMBDA a, i : ProcessInstr(a, b, i), s, [i \in DOMAIN s.instrs[b] |-> i])

RECURSIVE FoldAgain(_)

\* The blocks in order, again and again until nothing changes.
FoldAgain(s) ==
    IF ~s.changed THEN s
    ELSE FoldAgain(FoldLeft(SweepBlock, [s EXCEPT !.changed = FALSE], s.order))

ConstFold(f) ==
    FoldAgain(f @@ [ users    |-> Table([n \in 0 .. f.tmps - 1 |-> UsersIn(f.instrs, Tmp(n), LAMBDA i : i.args)]),
                     phiUsers |-> Table([n \in 0 .. f.tmps - 1 |-> UsersIn(f.phis, Tmp(n), LAMBDA p : p.values)]),
                     changed  |-> TRUE ])
-----------------------------------------------------------------------------
(* RenumberRegisters.                                                      *)

\* The temporaries of a function in the order in which they are met.
Met(f) ==
    LET InPhi(p) == <<p.dest>> \o p.values
        InInstr(i) == <<i.dest>> \o i.args
        InBlock(b) == FlattenSeq(Map(InPhi, f.phis[b]) \o Map(InInstr, f.instrs[b]))
        Meet(met, v) == IF v[1] # "tmp" \/ v = NoTmp \/ v \in ToSet(met) THEN met ELSE Append(met, v)
    IN FoldLeft(Meet, <<>>, FlattenSeq(Map(InBlock, f.order)))

RenumberWith(f, met) ==
    LET New_(v) == IF v[1] = "tmp" /\ v # NoTmp THEN Tmp(SelectInSeq(met, LAMBDA t : t = v) - 1) ELSE v
    IN [f EXCEPT !.tmps = Len(met),
                 !.instrs = Table([b \in DOMAIN @ |->
                                Map(LAMBDA i : Instr(i.op, New_(i.dest), Map(New_, i.args)), @[b])]),
                 !.phis = Table([b \in DOMAIN @ |->
                              Map(LAMBDA p : [p EXCEPT !.dest = New_(@), !.values = Map(New_, @)], @[b])])]

RenumberRegisters(f) == RenumberWith(f, Met(f))
=============================================================================
