--------------------------------- MODULE IR ---------------------------------
(***************************************************************************)
(* Functions of the intermediate representation (dala_ir, instruction.rs,  *)
(* function.rs), how the builder makes them (builder.rs) and what the      *)
(* validator checks of them (opt/validation.rs).                           *)
(*                                                                         *)
(* An instruction keeps, besides its operand list ops, the values ids its  *)
(* kind names, the numbers ns, labels to, registers regs and type ty the   *)
(* kind carries.  The blocks of a function are numbered from 0, which is   *)
(* the entry; the label of a block is its number.                          *)
(***************************************************************************)
EXTENDS TypeForms, Integers, Sequences, FiniteSets, FiniteSetsExt, TLC

NoValue == -1

Inst(kind) == [kind |-> kind, res |-> NoValue, ops |-> <<>>, ids |-> <<>>,
               ns |-> <<>>, to |-> <<>>, regs |-> <<>>, ty |-> T("Any")]

WithResult(inst, v)    == [inst EXCEPT !.res = v]
WithOperands(inst, vs) == [inst EXCEPT !.ops = vs]

Terminators == {"Br", "BrIf", "Switch", "Ret", "TailCall", "Throw"}
is_terminator(inst) == inst.kind \in Terminators

ArithmeticKinds == {"Add", "Sub", "Mul", "Div", "Rem", "Neg"}
BitwiseKinds    == {"BitAnd", "BitOr", "BitXor", "BitNot", "ShiftLeft", "ShiftRight"}
ComparisonKinds == {"Eq", "Ne", "Gt", "Ge", "Lt", "Le"}
TestKinds       == {"IsSmallInt", "IsFloat", "IsAtom", "IsTuple", "IsList", "IsMap",
                    "IsBinary", "IsFun", "IsPid", "IsNil", "IsTrue", "IsFalse",
                    "IsStableTuple", "IsMessage", "IsActor", "IsTensor", "IsCapability"}

\* Kinds that name values: Ret, Throw and Push one, Call and TailCall the
\* function and its arguments, CallBif also the module, and so on.
Ret(v)            == [Inst("Ret") EXCEPT !.ids = <<v>>]
Throw(v)          == [Inst("Throw") EXCEPT !.ids = <<v>>]
Br(l)             == [Inst("Br") EXCEPT !.to = <<l>>]
BrIf(v, l, m)     == [Inst("BrIf") EXCEPT !.ids = <<v>>, !.to = <<l, m>>]
Switch(v, cases, labels, default) ==
    [Inst("Switch") EXCEPT !.ids = <<v>>, !.ns = cases, !.to = Append(labels, default)]
Naming(kind, vs)  == [Inst(kind) EXCEPT !.ids = vs]
Numbered(kind, n) == [Inst(kind) EXCEPT !.ns = <<n>>]
Move(src, dst)    == [Inst("Move") EXCEPT !.regs = <<src, dst>>]
GetReg(r)         == [Inst("GetReg") EXCEPT !.regs = <<r>>]
SetReg(r, v)      == [Inst("SetReg") EXCEPT !.regs = <<r>>, !.ids = <<v>>]
Narrow(v, t)      == [Inst("Narrow") EXCEPT !.ids = <<v>>, !.ty = t]
X(n)              == <<"X", n>>
Y(n)              == <<"Y", n>>

\* An instruction: the jumps are those with labels, a switch has one for each case
\* and one more, a tuple access has an index, and some kinds name a value.
JumpKinds   == {"Br", "BrIf", "Switch"}
NamingKinds == {"Ret", "Throw", "BrIf", "Switch", "SetReg", "Push", "TupleGet", "TupleSet",
                "Send", "Store", "Narrow", "CallBif"}
IsInst(inst) ==
    /\ DOMAIN inst = DOMAIN Inst("Nop")
    /\ inst.ops \in Seq(Int) /\ inst.ids \in Seq(Int) /\ inst.to \in Seq(Int)
    /\ inst.to = <<>> <=> inst.kind \notin JumpKinds
    /\ inst.kind = "Br" => Len(inst.to) = 1
    /\ inst.kind = "BrIf" => Len(inst.to) = 2
    /\ inst.kind = "Switch" => inst.ns \in Seq(Int) /\ Len(inst.to) = Len(inst.ns) + 1
    /\ inst.kind \in NamingKinds => inst.ids # <<>>
    /\ inst.kind = "CallBif" => Len(inst.ids) >= 2
    /\ inst.kind = "TupleGet" => inst.ns[1] \in Int
IsCode(insts) == insts \in Seq(Range(insts)) /\ \A i \in DOMAIN insts : IsInst(insts[i])

\* Every value the instruction reads.
Reads(inst) == {inst.ops[i] : i \in DOMAIN inst.ops} \union {inst.ids[i] : i \in DOMAIN inst.ids}

-----------------------------------------------------------------------------
(* Functions, and the builder's steps on them.                             *)

BasicBlock == [insts |-> <<>>, preds |-> {}, succs |-> <<>>, reachable |-> TRUE]
IRFunction(arity) == [arity |-> arity, blocks |-> [b \in {0} |-> BasicBlock]]

create_block(f) ==
    [f EXCEPT !.blocks = @ @@ (Cardinality(DOMAIN @) :> BasicBlock)]

is_terminated(block) ==
    block.insts # <<>> /\ is_terminator(block.insts[Len(block.insts)])

emit(f, b, inst) == [f EXCEPT !.blocks[b].insts = Append(@, inst)]

\* The builder's emit_add, emit_sub and emit_mul record their operands; its
\* emit_ret, emit_br_if and emit_call leave the operand list empty.
emit_binary(f, b, kind, v, w, res) ==
    emit(f, b, WithResult(WithOperands(Inst(kind), <<v, w>>), res))
emit_with_result(f, b, inst, res) == emit(f, b, WithResult(inst, res))

\* A block whose edges are recorded, as the tests of the passes write them.
Block(insts, preds, succs) ==
    [insts |-> insts, preds |-> preds, succs |-> succs, reachable |-> TRUE]

\* Blocks as create_block numbers them, with edges between them.
IsBlock(block, labels) ==
    /\ DOMAIN block = DOMAIN BasicBlock
    /\ IsCode(block.insts) /\ block.succs \in Seq(labels)
IsFunction(f) ==
    /\ {"arity", "blocks"} \subseteq DOMAIN f
    /\ IsFiniteSet(DOMAIN f.blocks)
    /\ 0 \in DOMAIN f.blocks /\ DOMAIN f.blocks = 0 .. Cardinality(DOMAIN f.blocks) - 1
    /\ \A b \in DOMAIN f.blocks : IsBlock(f.blocks[b], DOMAIN f.blocks)

\* An instruction whose operand list has all the values its kind names.
Complete(inst) == WithOperands(inst, inst.ops \o inst.ids)

-----------------------------------------------------------------------------
(* Validation.                                                             *)

Positions(f) == UNION {{b} \X DOMAIN f.blocks[b].insts : b \in DOMAIN f.blocks}
At(f, p)     == f.blocks[p[1]].insts[p[2]]
Defining(f, v) == {p \in Positions(f) : At(f, p).res = v}

SingleDefinitions(f) ==
    \A p \in Positions(f) : At(f, p).res # NoValue => Defining(f, At(f, p).res) = {p}

\* Dominance is approximated by being in the same block.
OperandsDefined(f) ==
    \A p \in Positions(f) : \A i \in DOMAIN At(f, p).ops :
        \E q \in Defining(f, At(f, p).ops[i]) : q[1] = p[1]

OneTerminator(f) ==
    \A b \in DOMAIN f.blocks :
        Cardinality({i \in DOMAIN f.blocks[b].insts : is_terminator(f.blocks[b].insts[i])}) = 1

EdgesAgree(f) ==
    \A b \in DOMAIN f.blocks : \A i \in DOMAIN f.blocks[b].succs :
        LET s == f.blocks[b].succs[i]
        IN  s \in DOMAIN f.blocks => b \in f.blocks[s].preds

validate(f) ==
    /\ DOMAIN f.blocks # {}
    /\ f.blocks[0].preds = {}
    /\ SingleDefinitions(f) /\ OperandsDefined(f)
    /\ OneTerminator(f) /\ EdgesAgree(f)
=============================================================================
